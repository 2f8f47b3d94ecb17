-------------------------- MODULE CacheInvariants ---------------------------
(***************************************************************************)
(* The inductive invariants behind the theorems about CacheCoordinator:    *)
(* LoopInv, which holds of every instance; SerialInv, which holds when     *)
(* requests on one key are not in flight together, the process does not    *)
(* crash and no client copies; and HotInv, which holds when PUTs, DELETEs  *)
(* and COPYs have their keys for themselves and nothing is evicted.        *)
(***************************************************************************)
EXTENDS CacheCoordinator

(* The instances the freshness theorem is about.                           *)
Serial == /\ Env \cap {"overlap", "reads", "crash"} = {}
          /\ "COPY" \notin Ops

-----------------------------------------------------------------------------
(* What a request task knows of its own locals.                            *)

(* Its operation, and that a version is at hand where one is used.         *)
LocalsOK(q) ==
  /\ q.pc \in MetaLabels \cup ReadLabels => q.op \in {"GET", "HEAD"}
  /\ q.pc \in (MetaLabels \ {"head"}) \cup ReadLabels => q.ver \in Versions
  /\ q.pc \in DropLabels =>
       q.op = "DELETE" \/ (q.op \in {"GET", "HEAD", "PUT"} /\ q.ver \in Versions)
  /\ q.pc \in WriteLabels \cup {"register"} => q.op = "PUT" /\ q.ver \in Versions
  /\ q.pc \in CopyLabels => q.op = "COPY"
  /\ q.pc \in CopyLabels \ {"copyup", "copyread"} => q.ver \in Versions
  /\ q.pc = "delete" => q.op = "DELETE"

(* Its loop index is inside the loop's bounds.                             *)
LoopOK(q) ==
  /\ q.pc \in {"dropfile", "cleanup", "copychunk"} => q.idx <= q.cnt
  /\ q.pc \in {"droprow", "touch", "touchput", "read", "cold",
               "copyfile", "copyrow"} => q.idx < q.cnt
  /\ q.pc \in {"body", "register"} => q.idx <= NumChunks[q.ver]
  /\ q.pc = "write" => q.idx < NumChunks[q.ver]

LoopInv ==
  /\ TypeOK
  /\ \A r \in Reqs : LocalsOK(req[r]) /\ LoopOK(req[r])

-----------------------------------------------------------------------------
(* What the tasks know of the cache, when each has its key for itself.     *)

Registering(k) == \E r \in Reqs : At(r, "register") /\ req[r].key = k

(* An active request has its key for itself, and does not copy.            *)
Exclusive ==
  \A r \in Reqs : Active(r) =>
    /\ req[r].op \in Ops
    /\ req[r].src = req[r].key
    /\ \A s \in Reqs \ {r} : Active(s) => req[s].key # req[r].key

(* The versions a request works with were in the upstream store since it   *)
(* began.                                                                  *)
SeenOK(r) ==
  Active(r) =>
    /\ upstream[req[r].key] \in seen[r]
    /\ \/ req[r].pc \in (MetaLabels \ {"head"}) \cup ReadLabels
       \/ req[r].pc \in DropLabels /\ req[r].op \in {"GET", "HEAD"}
       => req[r].ver \in seen[r]

(* What the owner of a key knows of its metadata, rows and files.          *)
PhaseOK(r) ==
  LET q == req[r]
      k == q.key
  IN
  /\ q.pc \in {"dropfile", "droprow"} =>
       /\ q.cnt = Length(objects[k])
       /\ \A i \in chunks[k] : q.idx <= i
  /\ q.pc = "putmeta" => objects[k] \in {None, q.ver}
  /\ q.pc \in ReadLabels => objects[k] = q.ver
  /\ q.pc \in {"touch", "touchput", "read"} =>
       q.idx < NumChunks[q.ver] /\ files[k][q.idx] \in {None, q.ver}
  /\ q.pc \in WriteLabels => objects[k] = None
  /\ q.pc \in {"body", "write"} =>
       \A i \in ChunkIds : i < q.idx => files[k][i] \in {None, q.ver}
  /\ q.pc \in {"await", "register"} =>
       \A i \in ChunkIds : i < NumChunks[q.ver] => files[k][i] \in {None, q.ver}
  /\ q.pc = "register" => /\ objects[k] = None
                          /\ \A i \in chunks[k] : i < q.idx

(* SerialInv says of every moment what CoherentCache and FreshReads say of *)
(* the ends: while one request has its key for itself, the rows and files  *)
(* of the key fit its metadata at every step, except that a PUT registers  *)
(* rows before metadata; the owner's loop index separates the chunks that  *)
(* are dropped (or written) from those that are not; and every chunk sent  *)
(* was in the upstream store since the request began.                      *)
SerialInv ==
  /\ Exclusive
  /\ \A k \in Keys : ~Registering(k) => Coherent(k)
  /\ \A r \in Reqs : SeenOK(r) /\ PhaseOK(r)
  /\ FreshReads

-----------------------------------------------------------------------------
(* What PUT and COPY know of the chunks they have behind them.             *)

(* The instances the write and copy theorems are about: other requests on  *)
(* the keys of a PUT, DELETE or COPY wait, and nothing is evicted.         *)
Undisturbed == Env \cap {"overlap", "evict"} = {}

(* Requests that share a key only read.                                    *)
Alone ==
  \A r \in Reqs : \A s \in Reqs \ {r} :
    Active(r) /\ Active(s) /\ KeysOf(r) \cap KeysOf(s) # {} =>
      req[r].op \in {"GET", "HEAD"}

(* Chunk i of the source, if it is recorded, is recorded for the           *)
(* destination too; its file, if there is one, is the destination's, and   *)
(* is not whole if they are the same.                                      *)
RowCopied(q, i) == i \in chunks[q.src] => i \in chunks[q.key]
FileCopied(q, i) ==
  i \in chunks[q.src] /\ files[q.src][i] # None =>
    /\ files[q.key][i] = files[q.src][i]
    /\ q.src = q.key => files[q.key][i] = Partial

WrittenOK(r) ==
  LET q == req[r] IN
  /\ q.pc \in {"body", "write"} =>
       \A i \in ChunkIds : i < q.idx => files[q.key][i] = q.ver
  /\ q.pc \in {"await", "register"} =>
       \A i \in ChunkIds : i < NumChunks[q.ver] => files[q.key][i] = q.ver
  /\ q.pc = "register" =>
       \A i \in ChunkIds : i < q.idx => i \in chunks[q.key]

CopiedOK(r) ==
  LET q == req[r] IN
  /\ q.pc = "copyput" => objects[q.src] = q.ver
  /\ q.pc \in {"copychunk", "copyfile", "copyrow"} =>
       /\ objects[q.src] = q.ver /\ objects[q.key] = q.ver
       /\ q.cnt = NumChunks[q.ver]
       /\ \A i \in ChunkIds : i < q.idx => RowCopied(q, i) /\ FileCopied(q, i)
  /\ q.pc \in {"copyfile", "copyrow"} => q.idx \in chunks[q.src]
  /\ q.pc = "copyrow" => FileCopied(q, q.idx)

(* HotInv says of every step of the write and copy loops what              *)
(* PutCachesWhole and CopyIsHot say of the answer: the chunks before the   *)
(* loop index are in place, and nobody is about to take them away.         *)
HotInv ==
  /\ Alone
  /\ evict = [todo |-> {}, cur |-> None]
  /\ \A r \in Reqs : WrittenOK(r) /\ CopiedOK(r)

=============================================================================
