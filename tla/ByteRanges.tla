----------------------------- MODULE ByteRanges -----------------------------
(***************************************************************************)
(* The arithmetic of a ranged GET: parse_range (server/handlers.rs) and    *)
(* the split of a range into chunks in read_range (cache/mod.rs).          *)
(*                                                                         *)
(* A Range header is given by what parse_range tells apart: "-n" (suffix), *)
(* "s-" (from), "s-e" (span), or none, which any other text amounts to.    *)
(* Numbers are u64: U64 is 2^64, and a release build wraps.                *)
(***************************************************************************)
EXTENDS Integers

CONSTANTS None, U64

ASSUME WidthAssumption == U64 \in Nat \ {0}
ASSUME NoneAssumption == None \notin [start : Nat, end : Nat]

Least(a, b) == IF a <= b THEN a ELSE b
Greatest(a, b) == IF a >= b THEN a ELSE b

Suffix(n) == [kind |-> "suffix", s |-> 0, e |-> n]
From(s) == [kind |-> "from", s |-> s, e |-> 0]
Span(s, e) == [kind |-> "span", s |-> s, e |-> e]
NoRange == [kind |-> "none", s |-> 0, e |-> 0]

(* Mutant: `end_incl` is taken for the exclusive end.                      *)
ParseRangeShort(h, size) ==
  CASE h.kind = "suffix" -> [start |-> Greatest(size - h.e, 0), end |-> size]
    [] h.kind = "from" -> [start |-> Least(h.s, size), end |-> size]
    [] h.kind = "span" -> LET end == Least(h.e, size)
                          IN  IF h.s > end THEN None ELSE [start |-> h.s, end |-> end]
    [] OTHER -> None

(* parse_range: the bytes start..end-1, or None when the header is ignored.*)
ParseRange(h, size) ==
  CASE h.kind = "suffix" -> [start |-> Greatest(size - h.e, 0), end |-> size]
    [] h.kind = "from" -> [start |-> Least(h.s, size), end |-> size]
    [] h.kind = "span" -> LET end == Least((h.e + 1) % U64, size)
                          IN  IF h.s > end THEN None ELSE [start |-> h.s, end |-> end]
    [] OTHER -> None

(* What a GET of an object of this size goes for, and its status code.     *)
Wanted(h, size) ==
  LET r == ParseRange(h, size)
  IN  IF r = None THEN [start |-> 0, end |-> size, code |-> 200]
                  ELSE [start |-> r.start, end |-> r.end, code |-> 206]

(* The chunks that a non-empty range touches: first to last.               *)
FirstChunk(start, C) == start \div C
LastChunk(end, C) == (end - 1) \div C

(* offset_in_chunk and length_to_read for chunk i.                         *)
Piece(i, start, end, size, C) ==
  LET readStart == Greatest(start, i * C)
      readEnd == Least(end, Least((i + 1) * C, size))
  IN  [offset |-> readStart - i * C, length |-> readEnd - readStart]

(* num_chunks of drop_cache_for_object and copy_cache_object.              *)
ChunkCount(size, C) == IF size > 0 THEN (size - 1) \div C + 1 ELSE 0

-----------------------------------------------------------------------------
(* The reference: the positions that the header asks for (RFC 7233).       *)
Asked(h, size) ==
  {j \in 0..(size - 1) :
     CASE h.kind = "suffix" -> j >= size - h.e
       [] h.kind = "from" -> j >= h.s
       [] h.kind = "span" -> h.s <= j /\ j <= h.e
       [] OTHER -> TRUE}

(* `end_incl + 1` does not fit.                                            *)
Overflows(h) == h.kind = "span" /\ h.e = U64 - 1
=============================================================================
