------------------------------ MODULE Eviction ------------------------------
(***************************************************************************)
(* The eviction worker (cache/policy.rs) on the rows of CHUNKS_TABLE, with *)
(* sizes and access times.  A pass lists the rows in one transaction and   *)
(* then deletes chunks one by one, awaiting the file system before each:   *)
(* meanwhile PUTs register rows, GETs touch them (a read and a write, see  *)
(* read_range), and drop_cache_for_object deletes them.                    *)
(*                                                                         *)
(* Only rows count for the worker, so files are left out; what it does to  *)
(* them is in CacheCoordinator.  Every row has status Complete: nothing    *)
(* writes Downloading.                                                     *)
(***************************************************************************)
EXTENDS Integers, FiniteSetsExt

CONSTANTS
  Chunks,    \* the db_keys "key:chunk_idx"
  Sizes,     \* chunk sizes in bytes, below 2^32
  MaxSize,   \* max_size
  None,
  Readers,   \* GETs that touch a row: at most this many at a time
  MaxTime,   \* bound on the clock, in seconds
  MaxWrites  \* bound on the rows written by PUTs and GETs, and on restarts

ASSUME SizesAssumption == Sizes \subseteq Nat \ {0} /\ MaxSize \in Nat
ASSUME BoundsAssumption == MaxTime \in Nat /\ MaxWrites \in Nat
ASSUME ChunksAssumption == IsFiniteSet(Chunks)

VARIABLES
  rows,    \* rows[c]: the ChunkMetadata of c, or None
  now,     \* now_secs()
  touch,   \* touch[r]: the row a GET has read and is about to write back
  pass,    \* the locals of check_and_evict
  writes   \* history: the rows written and the restarts so far

vars == <<rows, now, touch, pass, writes>>

Row == [size : Sizes, at : 0..MaxTime]

ASSUME NoneAssumption == None \notin Row

(* target_size: (max_size as f64 * 0.9) as u64.                            *)
TargetSize == (MaxSize * 9) \div 10

SizeOf(row) == IF row = None THEN 0 ELSE row.size
Total(rs) == MapThenSumSet(LAMBDA c : SizeOf(rs[c]), Chunks)
Listed(rs) == {c \in Chunks : rs[c] # None}

NoRows == [c \in Chunks |-> None]

(* list is what list_all_chunks returned, todo the candidates that are     *)
(* left; added is history: by how much rows have grown since the listing.  *)
Off == [on |-> FALSE, list |-> NoRows, todo |-> {}, need |-> 0, freed |-> 0,
        added |-> 0]

Init ==
  /\ rows = NoRows
  /\ now = 0
  /\ touch = [r \in Readers |-> None]
  /\ pass = Off
  /\ writes = 0

-----------------------------------------------------------------------------
(* The rest of the program, as the worker sees it.                         *)

(* put_chunk: insert or replace the row.                                   *)
WriteRow(c, row) ==
  LET growth == SizeOf(row) - SizeOf(rows[c]) IN
  /\ rows' = [rows EXCEPT ![c] = row]
  /\ pass' = [pass EXCEPT !.added = IF pass.on /\ growth > 0 THEN @ + growth ELSE @]

Register(c, n) ==
  /\ writes < MaxWrites
  /\ WriteRow(c, [size |-> n, at |-> now])
  /\ writes' = writes + 1
  /\ UNCHANGED <<now, touch>>

(* Mutant: the access time is rounded up to the next second.               *)
TouchReadAhead(r, c) ==
  /\ writes < MaxWrites
  /\ touch[r] = None
  /\ rows[c] # None
  /\ touch' = [touch EXCEPT ![r] = [chunk |-> c, row |-> [rows[c] EXCEPT !.at = now + 1]]]
  /\ writes' = writes + 1
  /\ UNCHANGED <<rows, now, pass>>

(* A hit in read_range: get_chunk, a new access time, and put_chunk, which *)
(* brings the row back if it was deleted in between.                       *)
TouchRead(r, c) ==
  /\ writes < MaxWrites
  /\ touch[r] = None
  /\ rows[c] # None
  /\ touch' = [touch EXCEPT ![r] = [chunk |-> c, row |-> [rows[c] EXCEPT !.at = now]]]
  /\ writes' = writes + 1
  /\ UNCHANGED <<rows, now, pass>>

TouchWrite(r) ==
  /\ touch[r] # None
  /\ WriteRow(touch[r].chunk, touch[r].row)
  /\ touch' = [touch EXCEPT ![r] = None]
  /\ UNCHANGED <<now, writes>>

(* drop_cache_for_object.                                                  *)
Drop(c) ==
  /\ rows[c] # None
  /\ rows' = [rows EXCEPT ![c] = None]
  /\ UNCHANGED <<now, touch, pass, writes>>

Tick ==
  /\ now < MaxTime
  /\ now' = now + 1
  /\ UNCHANGED <<rows, touch, pass, writes>>

(* The process starts again: rows stay, tasks do not.                      *)
Restart ==
  /\ writes < MaxWrites
  /\ touch' = [r \in Readers |-> None]
  /\ pass' = Off
  /\ writes' = writes + 1
  /\ UNCHANGED <<rows, now>>

-----------------------------------------------------------------------------
(* check_and_evict.                                                        *)

(* Up to the limit it returns at once.                                     *)
NoPass ==
  /\ ~pass.on
  /\ Total(rows) <= MaxSize
  /\ UNCHANGED vars

(* Mutant: a pass starts only at twice the limit.                          *)
StartPassLate ==
  /\ Total(rows) > 2 * MaxSize
  /\ ~pass.on
  /\ pass' = [Off EXCEPT !.on = TRUE, !.list = rows, !.todo = Listed(rows),
                         !.need = Total(rows) - TargetSize]
  /\ UNCHANGED <<rows, now, touch, writes>>

StartPass ==
  /\ ~pass.on
  /\ Total(rows) > MaxSize
  /\ pass' = [Off EXCEPT !.on = TRUE, !.list = rows, !.todo = Listed(rows),
                         !.need = Total(rows) - TargetSize]
  /\ UNCHANGED <<rows, now, touch, writes>>

(* Mutant: the candidates are not sorted.                                  *)
Unsorted(c) == c \in pass.todo

(* candidates.sort_by_key(last_accessed): the next one has the least       *)
(* access time on the list; rows of the same second come in table order,   *)
(* here in any.                                                            *)
IsNext(c) ==
  /\ c \in pass.todo
  /\ \A d \in pass.todo : pass.list[c].at <= pass.list[d].at

(* Mutant: the row is deleted only while it is as it was listed, and its   *)
(* bytes are counted all the same.                                         *)
EvictUnchanged(c) ==
  /\ pass.on
  /\ pass.freed < pass.need
  /\ IsNext(c)
  /\ rows' = IF rows[c] = pass.list[c] THEN [rows EXCEPT ![c] = None] ELSE rows
  /\ pass' = [pass EXCEPT !.todo = @ \ {c}, !.freed = @ + pass.list[c].size]
  /\ UNCHANGED <<now, touch, writes>>

(* The size counted is the listed one, and delete_chunk succeeds also when *)
(* the row has gone.                                                       *)
EvictChunk(c) ==
  /\ pass.on
  /\ pass.freed < pass.need
  /\ IsNext(c)
  /\ rows' = [rows EXCEPT ![c] = None]
  /\ pass' = [pass EXCEPT !.todo = @ \ {c}, !.freed = @ + pass.list[c].size]
  /\ UNCHANGED <<now, touch, writes>>

EndPass ==
  /\ pass.on
  /\ pass.freed >= pass.need \/ pass.todo = {}
  /\ pass' = Off
  /\ UNCHANGED <<rows, now, touch, writes>>

Worker == NoPass \/ StartPass \/ EndPass \/ \E c \in Chunks : EvictChunk(c)

Next ==
  \/ Worker
  \/ \E c \in Chunks : Drop(c) \/ \E n \in Sizes : Register(c, n)
  \/ \E r \in Readers : TouchWrite(r) \/ \E c \in Chunks : TouchRead(r, c)
  \/ Tick \/ Restart

Spec == Init /\ [][Next]_vars

(* The worker's interval fires every minute and its awaits return.         *)
FairSpec == Spec /\ WF_vars(Worker)

-----------------------------------------------------------------------------
TypeOK ==
  /\ rows \in [Chunks -> Row \cup {None}]
  /\ now \in 0..MaxTime
  /\ \A r \in Readers : touch[r] # None => touch[r].chunk \in Chunks /\ touch[r].row \in Row
  /\ pass.todo \subseteq Listed(pass.list)
  /\ pass.freed <= Total(pass.list)
  /\ writes \in 0..MaxWrites

(* A pass that ends has brought the cache down to its target, but for what *)
(* was written after it made its list: although the list is stale, rows    *)
(* that were touched, replaced, dropped or brought back meanwhile do not   *)
(* make it count bytes that it has not freed.                              *)
PassFreesEnough ==
  [][pass.on /\ EndPass => Total(rows) <= TargetSize + pass.added]_vars

(* LRU: when a pass ends, every candidate that it has spared had been used *)
(* at least as recently, when the pass began, as every one that it evicted.*)
LeastRecentlyUsed ==
  [][pass.on /\ EndPass =>
       \A c \in Listed(pass.list) \ pass.todo, d \in pass.todo :
         pass.list[c].at <= pass.list[d].at]_vars

(* Once PUTs and GETs pause, the cache gets under its limit and stays.     *)
ShrinksToLimit == <>[](Total(rows) <= MaxSize)
=============================================================================
