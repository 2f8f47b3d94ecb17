---------------------------- MODULE SerialProofs ----------------------------
(***************************************************************************)
(* For every instance in which clients do not overlap requests on one key, *)
(* do not copy, and the process does not crash: GETs return fresh bytes,   *)
(* the cache at rest is coherent, and an answered DELETE has dropped it.   *)
(***************************************************************************)
EXTENDS CacheProofs

(* What the request that has key(r) for itself knows.                      *)
OwnerOK(r) ==
  /\ At(r, "register") \/ Coherent(req[r].key)
  /\ SeenOK(r)
  /\ PhaseOK(r)
  /\ req[r].piece # None => req[r].piece \in seen[r]

LEMMA Owner ==
  ASSUME SerialInv, TasksOK, NEW r \in Reqs, Active(r)
  PROVE  OwnerOK(r)
  <1>1. req[r].key \in Keys
    BY LocalFacts
  <1>2. Registering(req[r].key) => At(r, "register")
    BY DEF SerialInv, Exclusive, Registering, At, Active, Ends
  <1> QED
    BY <1>1, <1>2 DEF SerialInv, FreshReads, OwnerOK

(* A step of r leaves the other keys alone, and what others have seen.     *)
OnlyKey(k) ==
  \A j \in Keys \ {k} : /\ upstream'[j] = upstream[j]
                        /\ objects'[j] = objects[j]
                        /\ chunks'[j] = chunks[j]
                        /\ files'[j] = files[j]

(* A task that has ended, or has another key, keeps what it knows.         *)
LEMMA Bystander ==
  ASSUME SerialInv, TasksOK, NEW r \in Reqs, Active(r), Moves(r),
         OnlyKey(req[r].key), \A t \in Reqs : seen[t] \subseteq seen'[t],
         NEW t \in Reqs \ {r}
  PROVE  SeenOK(t)' /\ PhaseOK(t)'
  <1>1. req'[t] = req[t] /\ req[t].key \in Keys
    BY LocalFacts DEF Moves
  <1>2. SeenOK(t) /\ PhaseOK(t)
    BY DEF SerialInv
  <1>3. CASE ~Active(t)
    BY <1>1, <1>3 DEF Active, SeenOK, PhaseOK, Ends, ReadLabels, WriteLabels
  <1>4. CASE Active(t)
    <2>1. req[t].key # req[r].key
      BY <1>4 DEF SerialInv, Exclusive
    <2>2. /\ upstream'[req[t].key] = upstream[req[t].key]
          /\ objects'[req[t].key] = objects[req[t].key]
          /\ chunks'[req[t].key] = chunks[req[t].key]
          /\ files'[req[t].key] = files[req[t].key]
      BY <1>1, <2>1 DEF OnlyKey
    <2>3. SeenOK(t)'
      BY <1>1, <1>2, <2>2 DEF SeenOK, Active
    <2>4. PhaseOK(t)'
      BY <1>1, <1>2, <2>2 DEF PhaseOK
    <2> QED
      BY <2>3, <2>4
  <1> QED
    BY <1>3, <1>4

LEMMA OwnerStep ==
  ASSUME SerialInv, TasksOK, NEW r \in Reqs, Active(r), Moves(r),
         OnlyKey(req[r].key), \A t \in Reqs : seen[t] \subseteq seen'[t],
         OwnerOK(r)'
  PROVE  SerialInv'
  <1>1. /\ \A t \in Reqs \ {r} : req'[t] = req[t]
        /\ req'[r].op = req[r].op /\ req'[r].key = req[r].key
        /\ req'[r].src = req[r].src
    BY DEF Moves
  <1>2. Exclusive'
    BY <1>1 DEF SerialInv, Exclusive, Active
  <1>3. ASSUME NEW k \in Keys, ~Registering(k)'
        PROVE  Coherent(k)'
    <2>1. CASE k = req[r].key
      BY <1>1, <1>3, <2>1 DEF Registering, At, OwnerOK
    <2>2. CASE k # req[r].key
      <3>1. ~Registering(k)
        BY <1>1, <1>3, <2>2 DEF Registering, At
      <3>2. Coherent(k)
        BY <3>1 DEF SerialInv
      <3> QED
        BY <2>2, <3>2 DEF Coherent, OnlyKey
    <2> QED
      BY <2>1, <2>2
  <1>4. \A t \in Reqs : SeenOK(t)' /\ PhaseOK(t)'
    BY Bystander DEF OwnerOK
  <1>5. FreshReads'
    BY <1>1 DEF FreshReads, SerialInv, OwnerOK
  <1> QED
    BY <1>2, <1>3, <1>4, <1>5 DEF SerialInv

-----------------------------------------------------------------------------
(* The steps of the owner of a key.                                        *)

(* The cache and the upstream do not change.                               *)
Same == UNCHANGED <<upstream, objects, chunks, files, seen>>

LEMMA StopsOwner ==
  ASSUME NEW r \in Reqs, NEW k, k = req[r].key, Stops(r), Coherent(k)'
  PROVE  OwnerOK(r)'
  <1>1. /\ req'[r].pc \in Ends /\ req'[r].piece = None
        /\ req'[r].key = k
    BY DEF Stops, Moves
  <1>2. SeenOK(r)'
    BY <1>1 DEF SeenOK, Active
  <1>3. PhaseOK(r)'
    BY <1>1 DEF PhaseOK, Ends, ReadLabels, WriteLabels
  <1> QED
    BY <1>1, <1>2, <1>3 DEF OwnerOK

(* Steps that read the cache or the upstream and change neither.           *)
LEMMA LookSteps ==
  ASSUME SerialInv, TasksOK, StoresOK, NEW r \in Reqs,
         \/ UpstreamHead(r) \/ Compare(r) \/ DropStart(r) \/ Status(r)
         \/ NextChunk(r) \/ Touch(r) \/ ReadChunk(r) \/ ColdRead(r)
  PROVE  SerialInv'
  <1> USE DEF MetaLabels, ReadLabels, DropLabels, WriteLabels
  <1>1. Same
    BY DEF UpstreamHead, Compare, DropStart, Status, NextChunk, Touch, ReadChunk, ColdRead, Same, cacheVars
  <1>2. Active(r) /\ ~At(r, "register")
    BY DEF UpstreamHead, Compare, DropStart, Status, NextChunk, Touch, ReadChunk, ColdRead, At, Active, Ends
  <1>3. PICK k \in Keys : k = req[r].key
    BY LocalFacts
  <1>4. /\ Coherent(k) /\ SeenOK(r) /\ PhaseOK(r)
        /\ req[r].piece # None => req[r].piece \in seen[r]
    BY <1>2, <1>3, Owner DEF OwnerOK
  <1>5. Coherent(k)'
    BY <1>1, <1>4 DEF Same, Coherent
  <1>6. /\ req[r].idx \in Nat /\ LocalsOK(req[r]) /\ LoopOK(req[r])
        /\ chunks[k] \subseteq ChunkIds
    BY <1>3, LocalFacts DEF StoresOK
  <1>7. SUFFICES Moves(r) /\ OwnerOK(r)'
    BY <1>1, <1>2, OwnerStep DEF Same, OnlyKey
  <1>8. Stops(r) => Moves(r) /\ OwnerOK(r)'
    BY <1>3, <1>5, StopsOwner DEF Stops
  <1>9. CASE UpstreamHead(r)
    <2>1. req[r].pc = "head"
      BY <1>9 DEF UpstreamHead, At
    <2>2. CASE ~Stops(r)
      <3>1. Moves(r) /\ req'[r].key = k
        BY <1>3, <1>9, <2>2, UpstreamHeadStep DEF Now, Goes, Moves
      <3>2. SeenOK(r)' /\ (req'[r].piece # None => req'[r].piece \in seen'[r])
        BY <1>1, <1>3, <1>4, <1>6, <1>9, <2>1, <2>2, UpstreamHeadStep
           DEF Now, Goes, Moves, SeenOK, Same, Active, Ends, PhaseOK, LocalsOK
      <3>3. PhaseOK(r)'
        BY <1>1, <1>3, <1>4, <1>6, <1>9, <2>1, <2>2, UpstreamHeadStep
           DEF Now, Goes, Moves, PhaseOK, Same, LocalsOK, LoopOK, Coherent
      <3> QED
        BY <1>5, <3>1, <3>2, <3>3 DEF OwnerOK
    <2> QED
      BY <1>8, <2>2
  <1>10. CASE Compare(r)
    <2>1. req[r].pc = "compare"
      BY <1>10 DEF Compare, At
    <2>2. CASE ~Stops(r)
      <3>1. Moves(r) /\ req'[r].key = k
        BY <1>3, <1>10, <2>2, CompareStep DEF Now, Goes, Moves
      <3>2. SeenOK(r)' /\ (req'[r].piece # None => req'[r].piece \in seen'[r])
        BY <1>1, <1>3, <1>4, <1>6, <1>10, <2>1, <2>2, CompareStep
           DEF Now, Goes, Moves, SeenOK, Same, Active, Ends, PhaseOK, LocalsOK
      <3>3. PhaseOK(r)'
        BY <1>1, <1>3, <1>4, <1>6, <1>10, <2>1, <2>2, CompareStep
           DEF Now, Goes, Moves, PhaseOK, Same, LocalsOK, LoopOK, Coherent
      <3> QED
        BY <1>5, <3>1, <3>2, <3>3 DEF OwnerOK
    <2> QED
      BY <1>8, <2>2
  <1>11. CASE DropStart(r)
    <2>1. req[r].pc = "drop"
      BY <1>11 DEF DropStart, At
    <2>2. CASE ~Stops(r)
      <3>1. Moves(r) /\ req'[r].key = k
        BY <1>3, <1>11, <2>2, DropStartStep DEF Now, Goes, Moves
      <3>2. SeenOK(r)' /\ (req'[r].piece # None => req'[r].piece \in seen'[r])
        BY <1>1, <1>3, <1>4, <1>6, <1>11, <2>1, <2>2, DropStartStep
           DEF Now, Goes, Moves, SeenOK, Same, Active, Ends, PhaseOK, LocalsOK
      <3>3. PhaseOK(r)'
        BY <1>1, <1>3, <1>4, <1>6, <1>11, <2>1, <2>2, DropStartStep, SizeType
           DEF Now, Goes, Moves, PhaseOK, Same, LocalsOK, LoopOK, Coherent, ChunkIds
      <3> QED
        BY <1>5, <3>1, <3>2, <3>3 DEF OwnerOK
    <2> QED
      BY <1>8, <2>2
  <1>12. CASE Status(r)
    <2>1. req[r].pc = "status"
      BY <1>12 DEF Status, At
    <2>2. CASE ~Stops(r)
      <3>1. Moves(r) /\ req'[r].key = k
        BY <1>3, <1>12, <2>2, StatusStep DEF Now, Goes, Moves
      <3>2. SeenOK(r)' /\ (req'[r].piece # None => req'[r].piece \in seen'[r])
        BY <1>1, <1>3, <1>4, <1>6, <1>12, <2>1, <2>2, StatusStep
           DEF Now, Goes, Moves, SeenOK, Same, Active, Ends, PhaseOK, LocalsOK
      <3>3. PhaseOK(r)'
        BY <1>1, <1>3, <1>4, <1>6, <1>12, <2>1, <2>2, StatusStep
           DEF Now, Goes, Moves, PhaseOK, Same, LocalsOK, LoopOK, Coherent
      <3> QED
        BY <1>5, <3>1, <3>2, <3>3 DEF OwnerOK
    <2> QED
      BY <1>8, <2>2
  <1>13. CASE NextChunk(r)
    <2>1. req[r].pc = "stream"
      BY <1>13 DEF NextChunk, At
    <2>2. CASE ~Stops(r)
      <3>1. Moves(r) /\ req'[r].key = k
        BY <1>3, <1>13, <2>2, NextChunkStep DEF Now, Goes, Moves
      <3>2. SeenOK(r)' /\ (req'[r].piece # None => req'[r].piece \in seen'[r])
        BY <1>1, <1>3, <1>4, <1>6, <1>13, <2>1, <2>2, NextChunkStep
           DEF Now, Goes, Moves, SeenOK, Same, Active, Ends, PhaseOK, LocalsOK
      <3>3. PhaseOK(r)'
        BY <1>1, <1>3, <1>4, <1>6, <1>13, <2>1, <2>2, NextChunkStep
           DEF Now, Goes, Moves, PhaseOK, Same, LocalsOK, LoopOK, Coherent
      <3> QED
        BY <1>5, <3>1, <3>2, <3>3 DEF OwnerOK
    <2> QED
      BY <1>8, <2>2
  <1>14. CASE Touch(r)
    <2>1. req[r].pc = "touch"
      BY <1>14 DEF Touch, At
    <2>2. CASE ~Stops(r)
      <3>1. Moves(r) /\ req'[r].key = k
        BY <1>3, <1>14, <2>2, TouchStep DEF Now, Goes, Moves
      <3>2. SeenOK(r)' /\ (req'[r].piece # None => req'[r].piece \in seen'[r])
        BY <1>1, <1>3, <1>4, <1>6, <1>14, <2>1, <2>2, TouchStep
           DEF Now, Goes, Moves, SeenOK, Same, Active, Ends, PhaseOK, LocalsOK
      <3>3. PhaseOK(r)'
        BY <1>1, <1>3, <1>4, <1>6, <1>14, <2>1, <2>2, TouchStep
           DEF Now, Goes, Moves, PhaseOK, Same, LocalsOK, LoopOK, Coherent
      <3> QED
        BY <1>5, <3>1, <3>2, <3>3 DEF OwnerOK
    <2> QED
      BY <1>8, <2>2
  <1>15. CASE ReadChunk(r)
    <2>1. req[r].pc = "read"
      BY <1>15 DEF ReadChunk, At
    <2>2. CASE ~Stops(r)
      <3>1. Moves(r) /\ req'[r].key = k
        BY <1>3, <1>15, <2>2, ReadChunkStep DEF Now, Goes, Moves
      <3>2. SeenOK(r)' /\ (req'[r].piece # None => req'[r].piece \in seen'[r])
        BY <1>1, <1>3, <1>4, <1>6, <1>15, <2>1, <2>2, ReadChunkStep
           DEF Now, Goes, Moves, SeenOK, Same, Active, Ends, PhaseOK, LocalsOK
      <3>3. PhaseOK(r)'
        BY <1>1, <1>3, <1>4, <1>6, <1>15, <2>1, <2>2, ReadChunkStep
           DEF Now, Goes, Moves, PhaseOK, Same, LocalsOK, LoopOK, Coherent
      <3> QED
        BY <1>5, <3>1, <3>2, <3>3 DEF OwnerOK
    <2> QED
      BY <1>8, <2>2
  <1>16. CASE ColdRead(r)
    <2>1. req[r].pc = "cold"
      BY <1>16 DEF ColdRead, At
    <2>2. CASE ~Stops(r)
      <3>1. Moves(r) /\ req'[r].key = k
        BY <1>3, <1>16, <2>2, ColdReadStep DEF Now, Goes, Moves
      <3>2. SeenOK(r)' /\ (req'[r].piece # None => req'[r].piece \in seen'[r])
        BY <1>1, <1>3, <1>4, <1>6, <1>16, <2>1, <2>2, ColdReadStep
           DEF Now, Goes, Moves, SeenOK, Same, Active, Ends, PhaseOK, LocalsOK
      <3>3. PhaseOK(r)'
        BY <1>1, <1>3, <1>4, <1>6, <1>16, <2>1, <2>2, ColdReadStep
           DEF Now, Goes, Moves, PhaseOK, Same, LocalsOK, LoopOK, Coherent
      <3> QED
        BY <1>5, <3>1, <3>2, <3>3 DEF OwnerOK
    <2> QED
      BY <1>8, <2>2
  <1> QED
    BY <1>9, <1>10, <1>11, <1>12, <1>13, <1>14, <1>15, <1>16

(* Steps that move the body of a PUT to its upload task.                   *)
LEMMA PipeSteps ==
  ASSUME SerialInv, TasksOK, StoresOK, NEW r \in Reqs,
         SendChunk(r) \/ BodyEnd(r) \/ AwaitUpload(r)
  PROVE  SerialInv'
  <1> USE DEF MetaLabels, ReadLabels, DropLabels, WriteLabels
  <1>1. Same
    BY DEF SendChunk, BodyEnd, AwaitUpload, Same, cacheVars
  <1>2. Active(r) /\ ~At(r, "register")
    BY DEF SendChunk, BodyEnd, AwaitUpload, At, Active, Ends
  <1>3. PICK k \in Keys : k = req[r].key
    BY LocalFacts
  <1>4. /\ Coherent(k) /\ SeenOK(r) /\ PhaseOK(r)
        /\ req[r].piece # None => req[r].piece \in seen[r]
    BY <1>2, <1>3, Owner DEF OwnerOK
  <1>5. Coherent(k)'
    BY <1>1, <1>4 DEF Same, Coherent
  <1>6. /\ req[r].idx \in Nat /\ LocalsOK(req[r]) /\ LoopOK(req[r])
        /\ chunks[k] \subseteq ChunkIds
    BY <1>3, LocalFacts DEF StoresOK
  <1>7. SUFFICES Moves(r) /\ OwnerOK(r)'
    BY <1>1, <1>2, OwnerStep DEF Same, OnlyKey
  <1>8. Stops(r) => Moves(r) /\ OwnerOK(r)'
    BY <1>3, <1>5, StopsOwner DEF Stops
  <1>9. CASE SendChunk(r)
    <2>1. req[r].pc = "body"
      BY <1>9 DEF SendChunk, At
    <2>2. CASE ~Stops(r)
      <3>1. Moves(r) /\ req'[r].key = k
        BY <1>3, <1>9, <2>2, SendChunkStep DEF Now, Goes, Moves
      <3>2. SeenOK(r)' /\ (req'[r].piece # None => req'[r].piece \in seen'[r])
        BY <1>1, <1>3, <1>4, <1>6, <1>9, <2>1, <2>2, SendChunkStep
           DEF Now, Goes, Moves, SeenOK, Same, Active, Ends, PhaseOK, LocalsOK
      <3>3. PhaseOK(r)'
        BY <1>1, <1>3, <1>4, <1>6, <1>9, <2>1, <2>2, SendChunkStep
           DEF Now, Goes, Moves, PhaseOK, Same, LocalsOK, LoopOK, Coherent
      <3> QED
        BY <1>5, <3>1, <3>2, <3>3 DEF OwnerOK
    <2> QED
      BY <1>8, <2>2
  <1>10. CASE BodyEnd(r)
    <2>1. req[r].pc = "body" /\ req[r].idx = NumChunks[req[r].ver]
      BY <1>10 DEF BodyEnd, At
    <2>2. CASE ~Stops(r)
      <3>1. Moves(r) /\ req'[r].key = k
        BY <1>3, <1>10, <2>2, BodyEndStep DEF Now, Goes, Moves
      <3>2. SeenOK(r)' /\ (req'[r].piece # None => req'[r].piece \in seen'[r])
        BY <1>1, <1>3, <1>4, <1>6, <1>10, <2>1, <2>2, BodyEndStep
           DEF Now, Goes, Moves, SeenOK, Same, Active, Ends, PhaseOK, LocalsOK
      <3>3. PhaseOK(r)'
        BY <1>1, <1>3, <1>4, <1>6, <1>10, <2>1, <2>2, BodyEndStep
           DEF Now, Goes, Moves, PhaseOK, Same, LocalsOK, LoopOK, Coherent
      <3> QED
        BY <1>5, <3>1, <3>2, <3>3 DEF OwnerOK
    <2> QED
      BY <1>8, <2>2
  <1>11. CASE AwaitUpload(r)
    <2>1. req[r].pc = "await"
      BY <1>11 DEF AwaitUpload, At
    <2>2. CASE ~Stops(r)
      <3>1. Moves(r) /\ req'[r].key = k
        BY <1>3, <1>11, <2>2, AwaitUploadStep DEF Now, Goes, Moves
      <3>2. SeenOK(r)' /\ (req'[r].piece # None => req'[r].piece \in seen'[r])
        BY <1>1, <1>3, <1>4, <1>6, <1>11, <2>1, <2>2, AwaitUploadStep
           DEF Now, Goes, Moves, SeenOK, Same, Active, Ends, PhaseOK, LocalsOK
      <3>3. PhaseOK(r)'
        BY <1>1, <1>3, <1>4, <1>6, <1>11, <2>1, <2>2, AwaitUploadStep
           DEF Now, Goes, Moves, PhaseOK, Same, LocalsOK, LoopOK, Coherent
      <3> QED
        BY <1>5, <3>1, <3>2, <3>3 DEF OwnerOK
    <2> QED
      BY <1>8, <2>2
  <1> QED
    BY <1>9, <1>10, <1>11

(* Steps that change the cache of the owner's key, and nothing else.       *)

(* Files may go: the cache stays coherent.                                 *)
LEMMA RemoveCoherent ==
  ASSUME StoresOK, NEW k \in Keys, NEW i, NEW j \in Keys, RemoveFile(k, i), UNCHANGED <<objects, chunks>>,
         Coherent(j)
  PROVE  Coherent(j)'
  <1>1. chunks[j] \subseteq ChunkIds
    BY DEF StoresOK
  <1>2. \A x \in ChunkIds : files'[j][x] \in {None, files[j][x]}
    BY DEF RemoveFile, StoresOK
  <1> QED
    BY <1>1, <1>2 DEF Coherent

LEMMA PutMetaSerial ==
  ASSUME SerialInv, TasksOK, StoresOK, NEW r \in Reqs, PutMeta(r)
  PROVE  SerialInv'
  <1> USE DEF MetaLabels, ReadLabels, DropLabels, WriteLabels
  <1>1. req[r].pc = "putmeta"
    BY DEF PutMeta, At
  <1>2. Active(r)
    BY <1>1 DEF Active, Ends
  <1>3. PICK k \in Keys : k = req[r].key
    BY LocalFacts
  <1>4. /\ SeenOK(r) /\ PhaseOK(r) /\ Coherent(k)
        /\ req[r].piece # None => req[r].piece \in seen[r]
    BY <1>1, <1>2, <1>3, Owner DEF OwnerOK, At
  <1>5. /\ req[r].idx \in Nat /\ req[r].cnt \in Nat /\ req[r].cnt <= MaxChunks
        /\ LocalsOK(req[r]) /\ LoopOK(req[r])
        /\ chunks[k] \subseteq ChunkIds
    BY <1>3, LocalFacts DEF StoresOK
  <1>6. /\ objects' = [objects EXCEPT ![k] = req[r].ver]
        /\ UNCHANGED <<upstream, chunks, files, seen>>
    BY <1>3 DEF PutMeta
  <1>7. Coherent(k)'
    <2>1. req[r].ver \in Versions /\ objects'[k] = req[r].ver
      BY <1>1, <1>5, <1>6 DEF LocalsOK, StoresOK
    <2> QED
      BY <1>1, <1>3, <1>4, <1>6, <2>1, NoneAssumption DEF PhaseOK, Coherent
  <1>8. SUFFICES Moves(r) /\ OwnerOK(r)'
    BY <1>2, <1>3, <1>6, OwnerStep DEF OnlyKey, StoresOK
  <1>9. CASE ~Stops(r)
    <2>1. Moves(r) /\ req'[r].key = k
      BY <1>3, <1>9, PutMetaStep DEF Now, Goes, Moves
    <2>2. SeenOK(r)' /\ (req'[r].piece # None => req'[r].piece \in seen'[r])
      BY <1>1, <1>3, <1>4, <1>5, <1>6, <1>9, PutMetaStep
         DEF Now, Goes, Moves, SeenOK, Active, Ends, PhaseOK, LocalsOK
    <2>3. PhaseOK(r)'
      BY <1>1, <1>3, <1>4, <1>5, <1>6, <1>9, PutMetaStep
         DEF Now, Goes, Moves, PhaseOK, LocalsOK, LoopOK, Coherent, StoresOK
    <2> QED
      BY <1>7, <2>1, <2>2, <2>3 DEF OwnerOK, At
  <1>10. CASE Stops(r)
    BY <1>3, <1>7, <1>10, StopsOwner DEF Stops
  <1> QED
    BY <1>9, <1>10

LEMMA DropFileSerial ==
  ASSUME SerialInv, TasksOK, StoresOK, NEW r \in Reqs, DropFile(r)
  PROVE  SerialInv'
  <1> USE DEF MetaLabels, ReadLabels, DropLabels, WriteLabels
  <1>1. req[r].pc = "dropfile" /\ req[r].idx < req[r].cnt
    BY DEF DropFile, At
  <1>2. Active(r)
    BY <1>1 DEF Active, Ends
  <1>3. PICK k \in Keys : k = req[r].key
    BY LocalFacts
  <1>4. /\ SeenOK(r) /\ PhaseOK(r) /\ Coherent(k)
        /\ req[r].piece # None => req[r].piece \in seen[r]
    BY <1>1, <1>2, <1>3, Owner DEF OwnerOK, At
  <1>5. /\ req[r].idx \in Nat /\ req[r].cnt \in Nat /\ req[r].cnt <= MaxChunks
        /\ LocalsOK(req[r]) /\ LoopOK(req[r])
        /\ chunks[k] \subseteq ChunkIds
    BY <1>3, LocalFacts DEF StoresOK
  <1>6. RemoveFile(k, req[r].idx) /\ UNCHANGED <<upstream, objects, chunks, seen>>
    BY <1>3 DEF DropFile
  <1>7. Coherent(k)'
    BY <1>4, <1>6, RemoveCoherent
  <1>8. SUFFICES Moves(r) /\ OwnerOK(r)'
    BY <1>2, <1>3, <1>6, OwnerStep DEF OnlyKey, StoresOK, RemoveFile
  <1>9. CASE ~Stops(r)
    <2>1. Moves(r) /\ req'[r].key = k
      BY <1>3, <1>9, DropFileStep DEF Now, Goes, Moves
    <2>2. SeenOK(r)' /\ (req'[r].piece # None => req'[r].piece \in seen'[r])
      BY <1>1, <1>3, <1>4, <1>5, <1>6, <1>9, DropFileStep
         DEF Now, Goes, Moves, SeenOK, Active, Ends, PhaseOK, LocalsOK
    <2>3. PhaseOK(r)'
      BY <1>1, <1>3, <1>4, <1>5, <1>6, <1>9, DropFileStep
         DEF Now, Goes, Moves, PhaseOK, LocalsOK, LoopOK, Coherent, StoresOK
    <2> QED
      BY <1>7, <2>1, <2>2, <2>3 DEF OwnerOK, At
  <1>10. CASE Stops(r)
    BY <1>3, <1>7, <1>10, StopsOwner DEF Stops
  <1> QED
    BY <1>9, <1>10

LEMMA DropRowSerial ==
  ASSUME SerialInv, TasksOK, StoresOK, NEW r \in Reqs, DropRow(r)
  PROVE  SerialInv'
  <1> USE DEF MetaLabels, ReadLabels, DropLabels, WriteLabels
  <1>1. req[r].pc = "droprow"
    BY DEF DropRow, At
  <1>2. Active(r)
    BY <1>1 DEF Active, Ends
  <1>3. PICK k \in Keys : k = req[r].key
    BY LocalFacts
  <1>4. /\ SeenOK(r) /\ PhaseOK(r) /\ Coherent(k)
        /\ req[r].piece # None => req[r].piece \in seen[r]
    BY <1>1, <1>2, <1>3, Owner DEF OwnerOK, At
  <1>5. /\ req[r].idx \in Nat /\ req[r].cnt \in Nat /\ req[r].cnt <= MaxChunks
        /\ LocalsOK(req[r]) /\ LoopOK(req[r])
        /\ chunks[k] \subseteq ChunkIds
    BY <1>3, LocalFacts DEF StoresOK
  <1>6. /\ chunks' = [chunks EXCEPT ![k] = @ \ {req[r].idx}]
        /\ UNCHANGED <<upstream, objects, files, seen>>
    BY <1>3 DEF DropRow
  <1>7. Coherent(k)'
    BY <1>4, <1>6 DEF Coherent, StoresOK
  <1>8. SUFFICES Moves(r) /\ OwnerOK(r)'
    BY <1>2, <1>3, <1>6, OwnerStep DEF OnlyKey, StoresOK
  <1>9. CASE ~Stops(r)
    <2>1. Moves(r) /\ req'[r].key = k
      BY <1>3, <1>9, DropRowStep DEF Now, Goes, Moves
    <2>2. SeenOK(r)' /\ (req'[r].piece # None => req'[r].piece \in seen'[r])
      BY <1>1, <1>3, <1>4, <1>5, <1>6, <1>9, DropRowStep
         DEF Now, Goes, Moves, SeenOK, Active, Ends, PhaseOK, LocalsOK
    <2>3. PhaseOK(r)'
      BY <1>1, <1>3, <1>4, <1>5, <1>6, <1>9, DropRowStep, SizeType
         DEF Now, Goes, Moves, PhaseOK, LocalsOK, LoopOK, Coherent, StoresOK, ChunkIds
    <2> QED
      BY <1>7, <2>1, <2>2, <2>3 DEF OwnerOK, At
  <1>10. CASE Stops(r)
    BY <1>3, <1>7, <1>10, StopsOwner DEF Stops
  <1> QED
    BY <1>9, <1>10

LEMMA DropMetaSerial ==
  ASSUME SerialInv, TasksOK, StoresOK, NEW r \in Reqs, DropMeta(r)
  PROVE  SerialInv'
  <1> USE DEF MetaLabels, ReadLabels, DropLabels, WriteLabels
  <1>1. req[r].pc = "dropfile" /\ req[r].idx = req[r].cnt
    BY DEF DropMeta, At
  <1>2. Active(r)
    BY <1>1 DEF Active, Ends
  <1>3. PICK k \in Keys : k = req[r].key
    BY LocalFacts
  <1>4. /\ SeenOK(r) /\ PhaseOK(r) /\ Coherent(k)
        /\ req[r].piece # None => req[r].piece \in seen[r]
    BY <1>1, <1>2, <1>3, Owner DEF OwnerOK, At
  <1>5. /\ req[r].idx \in Nat /\ req[r].cnt \in Nat /\ req[r].cnt <= MaxChunks
        /\ LocalsOK(req[r]) /\ LoopOK(req[r])
        /\ chunks[k] \subseteq ChunkIds
    BY <1>3, LocalFacts DEF StoresOK
  <1>6. /\ objects' = [objects EXCEPT ![k] = None]
        /\ UNCHANGED <<upstream, chunks, files, seen>>
    BY <1>3 DEF DropMeta
  <1>7. Coherent(k)'
    <2>1. \A i \in chunks[k] : FALSE
      BY <1>1, <1>3, <1>4, <1>5, SizeType DEF PhaseOK, Coherent, Length, ChunkIds, StoresOK, Maybe
    <2> QED
      BY <1>6, <2>1 DEF Coherent
  <1>8. SUFFICES Moves(r) /\ OwnerOK(r)'
    BY <1>2, <1>3, <1>6, OwnerStep DEF OnlyKey, StoresOK
  <1>9. CASE ~Stops(r)
    <2>1. Moves(r) /\ req'[r].key = k
      BY <1>3, <1>9, DropMetaStep DEF Now, Goes, Moves
    <2>2. SeenOK(r)' /\ (req'[r].piece # None => req'[r].piece \in seen'[r])
      BY <1>1, <1>3, <1>4, <1>5, <1>6, <1>9, DropMetaStep
         DEF Now, Goes, Moves, SeenOK, Active, Ends, PhaseOK, LocalsOK
    <2>3. PhaseOK(r)'
      BY <1>1, <1>3, <1>4, <1>5, <1>6, <1>9, DropMetaStep, SizeType
         DEF Now, Goes, Moves, PhaseOK, LocalsOK, LoopOK, Coherent, StoresOK, ChunkIds
    <2> QED
      BY <1>7, <2>1, <2>2, <2>3 DEF OwnerOK, At
  <1>10. CASE Stops(r)
    BY <1>3, <1>7, <1>10, StopsOwner DEF Stops
  <1> QED
    BY <1>9, <1>10

LEMMA TouchPutSerial ==
  ASSUME SerialInv, TasksOK, StoresOK, NEW r \in Reqs, TouchPut(r)
  PROVE  SerialInv'
  <1> USE DEF MetaLabels, ReadLabels, DropLabels, WriteLabels
  <1>1. req[r].pc = "touchput"
    BY DEF TouchPut, At
  <1>2. Active(r)
    BY <1>1 DEF Active, Ends
  <1>3. PICK k \in Keys : k = req[r].key
    BY LocalFacts
  <1>4. /\ SeenOK(r) /\ PhaseOK(r) /\ Coherent(k)
        /\ req[r].piece # None => req[r].piece \in seen[r]
    BY <1>1, <1>2, <1>3, Owner DEF OwnerOK, At
  <1>5. /\ req[r].idx \in Nat /\ req[r].cnt \in Nat /\ req[r].cnt <= MaxChunks
        /\ LocalsOK(req[r]) /\ LoopOK(req[r])
        /\ chunks[k] \subseteq ChunkIds
    BY <1>3, LocalFacts DEF StoresOK
  <1>6. /\ chunks' = [chunks EXCEPT ![k] = @ \cup {req[r].idx}]
        /\ UNCHANGED <<upstream, objects, files, seen>>
    BY <1>3 DEF TouchPut
  <1>7. Coherent(k)'
    <2>1. /\ objects[k] = req[r].ver /\ req[r].ver \in Versions
          /\ req[r].idx < NumChunks[req[r].ver]
          /\ files[k][req[r].idx] \in {None, req[r].ver}
      BY <1>1, <1>3, <1>4, <1>5 DEF PhaseOK, LocalsOK
    <2> QED
      BY <1>4, <1>6, <2>1, NoneAssumption DEF Coherent, StoresOK
  <1>8. SUFFICES Moves(r) /\ OwnerOK(r)'
    BY <1>2, <1>3, <1>6, OwnerStep DEF OnlyKey, StoresOK
  <1>9. CASE ~Stops(r)
    <2>1. Moves(r) /\ req'[r].key = k
      BY <1>3, <1>9, TouchPutStep DEF Now, Goes, Moves
    <2>2. SeenOK(r)' /\ (req'[r].piece # None => req'[r].piece \in seen'[r])
      BY <1>1, <1>3, <1>4, <1>5, <1>6, <1>9, TouchPutStep
         DEF Now, Goes, Moves, SeenOK, Active, Ends, PhaseOK, LocalsOK
    <2>3. PhaseOK(r)'
      BY <1>1, <1>3, <1>4, <1>5, <1>6, <1>9, TouchPutStep
         DEF Now, Goes, Moves, PhaseOK, LocalsOK, LoopOK, Coherent, StoresOK
    <2> QED
      BY <1>7, <2>1, <2>2, <2>3 DEF OwnerOK, At
  <1>10. CASE Stops(r)
    BY <1>3, <1>7, <1>10, StopsOwner DEF Stops
  <1> QED
    BY <1>9, <1>10

LEMMA WriteChunkSerial ==
  ASSUME SerialInv, TasksOK, StoresOK, NEW r \in Reqs, WriteChunk(r)
  PROVE  SerialInv'
  <1> USE DEF MetaLabels, ReadLabels, DropLabels, WriteLabels
  <1>1. req[r].pc = "write"
    BY DEF WriteChunk, At
  <1>2. Active(r)
    BY <1>1 DEF Active, Ends
  <1>3. PICK k \in Keys : k = req[r].key
    BY LocalFacts
  <1>4. /\ SeenOK(r) /\ PhaseOK(r) /\ Coherent(k)
        /\ req[r].piece # None => req[r].piece \in seen[r]
    BY <1>1, <1>2, <1>3, Owner DEF OwnerOK, At
  <1>5. /\ req[r].idx \in Nat /\ req[r].cnt \in Nat /\ req[r].cnt <= MaxChunks
        /\ LocalsOK(req[r]) /\ LoopOK(req[r])
        /\ chunks[k] \subseteq ChunkIds
    BY <1>3, LocalFacts DEF StoresOK
  <1>6. /\ \/ files' = [files EXCEPT ![k][req[r].idx] = req[r].ver]
           \/ UNCHANGED files
        /\ UNCHANGED <<upstream, objects, chunks, seen>>
    BY <1>3 DEF WriteChunk
  <1>7. Coherent(k)'
    BY <1>1, <1>3, <1>4, <1>6 DEF PhaseOK, Coherent
  <1>8. SUFFICES Moves(r) /\ OwnerOK(r)'
    BY <1>2, <1>3, <1>6, OwnerStep DEF OnlyKey, StoresOK
  <1>9. CASE ~Stops(r)
    <2>1. Moves(r) /\ req'[r].key = k
      BY <1>3, <1>9, WriteChunkStep DEF Now, Goes, Moves
    <2>2. SeenOK(r)' /\ (req'[r].piece # None => req'[r].piece \in seen'[r])
      BY <1>1, <1>3, <1>4, <1>5, <1>6, <1>9, WriteChunkStep
         DEF Now, Goes, Moves, SeenOK, Active, Ends, PhaseOK, LocalsOK
    <2>3. PhaseOK(r)'
      <3>1. objects[k] = None /\ \A i \in ChunkIds : i < req[r].idx => files[k][i] \in {None, req[r].ver}
        BY <1>1, <1>3, <1>4 DEF PhaseOK
      <3>2. CASE /\ files' = [files EXCEPT ![req[r].key][req[r].idx] = req[r].ver]
                 /\ Now(r, "body", req[r].ver, req[r].idx + 1, req[r].cnt, req[r].piece)
        <4>1. \A i \in ChunkIds : i < req[r].idx + 1 => files'[k][i] \in {None, req[r].ver}
          <5>1. SUFFICES ASSUME NEW i \in ChunkIds, i < req[r].idx + 1
                         PROVE  files'[k][i] \in {None, req[r].ver}
            OBVIOUS
          <5>2. files'[k][i] = IF i = req[r].idx THEN req[r].ver ELSE files[k][i]
            BY <1>3, <3>2 DEF StoresOK
          <5>3. i = req[r].idx \/ i < req[r].idx
            BY <1>5, <5>1, SizeType DEF ChunkIds
          <5> QED
            BY <3>1, <5>2, <5>3
        <4> QED
          BY <1>6, <2>1, <3>1, <3>2, <4>1 DEF Now, PhaseOK
      <3>3. CASE Now(r, "cleanup", req[r].ver, 0, req[r].idx + 1, req[r].piece)
        BY <1>6, <2>1, <3>1, <3>3 DEF Now, PhaseOK
      <3> QED
        BY <3>2, <3>3, WriteChunkStep
    <2> QED
      BY <1>7, <2>1, <2>2, <2>3 DEF OwnerOK, At
  <1>10. CASE Stops(r)
    BY <1>3, <1>7, <1>10, StopsOwner DEF Stops
  <1> QED
    BY <1>9, <1>10

LEMMA RegisterSerial ==
  ASSUME SerialInv, TasksOK, StoresOK, NEW r \in Reqs, Register(r)
  PROVE  SerialInv'
  <1> USE DEF MetaLabels, ReadLabels, DropLabels, WriteLabels
  <1>1. req[r].pc = "register"
    BY DEF Register, At
  <1>2. Active(r)
    BY <1>1 DEF Active, Ends
  <1>3. PICK k \in Keys : k = req[r].key
    BY LocalFacts
  <1>4. /\ SeenOK(r) /\ PhaseOK(r)
        /\ req[r].piece # None => req[r].piece \in seen[r]
    BY <1>1, <1>2, <1>3, Owner DEF OwnerOK, At
  <1>5. /\ req[r].idx \in Nat /\ req[r].cnt \in Nat /\ req[r].cnt <= MaxChunks
        /\ LocalsOK(req[r]) /\ LoopOK(req[r])
        /\ chunks[k] \subseteq ChunkIds
    BY <1>3, LocalFacts DEF StoresOK
  <1>6. /\ \/ /\ chunks' = [chunks EXCEPT ![k] = @ \cup {req[r].idx}]
              /\ UNCHANGED objects
           \/ /\ objects' = [objects EXCEPT ![k] = req[r].ver]
              /\ UNCHANGED chunks
        /\ UNCHANGED <<upstream, files, seen>>
    BY <1>3 DEF Register
  <1>7. At(r, "register")' \/ Coherent(k)'
    <2>1. req[r].ver \in Versions
      BY <1>1, <1>5 DEF LocalsOK
    <2>2. CASE ~Stops(r)
      BY <2>2, RegisterStep DEF Now, At
    <2>3. CASE Stops(r)
      <3>1. /\ req[r].idx = NumChunks[req[r].ver]
            /\ objects' = [objects EXCEPT ![k] = req[r].ver] /\ UNCHANGED chunks
        BY <1>3, <2>3, RegisterStep DEF Now, Stops, Ends
      <3>2. objects'[k] = req[r].ver
        BY <3>1 DEF StoresOK
      <3> QED
        BY <1>1, <1>3, <1>4, <1>5, <1>6, <2>1, <3>1, <3>2, NoneAssumption
           DEF PhaseOK, Coherent
    <2> QED
      BY <2>2, <2>3
  <1>8. SUFFICES Moves(r) /\ OwnerOK(r)'
    BY <1>2, <1>3, <1>6, OwnerStep DEF OnlyKey, StoresOK
  <1>9. CASE ~Stops(r)
    <2>1. Moves(r) /\ req'[r].key = k
      BY <1>3, <1>9, RegisterStep DEF Now, Goes, Moves
    <2>2. SeenOK(r)' /\ (req'[r].piece # None => req'[r].piece \in seen'[r])
      BY <1>1, <1>3, <1>4, <1>5, <1>6, <1>9, RegisterStep
         DEF Now, Goes, Moves, SeenOK, Active, Ends, PhaseOK, LocalsOK
    <2>3. PhaseOK(r)'
      <3>1. /\ chunks' = [chunks EXCEPT ![k] = @ \cup {req[r].idx}] /\ UNCHANGED objects
            /\ Now(r, "register", req[r].ver, req[r].idx + 1, req[r].cnt, req[r].piece)
        BY <1>3, <1>9, RegisterStep
      <3>2. /\ objects[k] = None /\ \A i \in chunks[k] : i < req[r].idx
            /\ \A i \in ChunkIds : i < NumChunks[req[r].ver] => files[k][i] \in {None, req[r].ver}
        BY <1>1, <1>3, <1>4 DEF PhaseOK
      <3>3. chunks'[k] = chunks[k] \cup {req[r].idx}
        BY <3>1 DEF StoresOK
      <3>4. \A i \in chunks'[k] : i < req[r].idx + 1
        BY <1>5, <3>2, <3>3, SizeType DEF ChunkIds
      <3> QED
        BY <1>6, <2>1, <3>1, <3>2, <3>4 DEF Now, PhaseOK
    <2> QED
      BY <1>7, <2>1, <2>2, <2>3 DEF OwnerOK, At
  <1>10. CASE Stops(r)
    BY <1>3, <1>7, <1>10, StopsOwner DEF Stops, At, Ends
  <1> QED
    BY <1>9, <1>10

LEMMA CleanupSerial ==
  ASSUME SerialInv, TasksOK, StoresOK, NEW r \in Reqs, Cleanup(r)
  PROVE  SerialInv'
  <1> USE DEF MetaLabels, ReadLabels, DropLabels, WriteLabels
  <1>1. req[r].pc = "cleanup"
    BY DEF Cleanup, At
  <1>2. Active(r)
    BY <1>1 DEF Active, Ends
  <1>3. PICK k \in Keys : k = req[r].key
    BY LocalFacts
  <1>4. /\ SeenOK(r) /\ PhaseOK(r) /\ Coherent(k)
        /\ req[r].piece # None => req[r].piece \in seen[r]
    BY <1>1, <1>2, <1>3, Owner DEF OwnerOK, At
  <1>5. /\ req[r].idx \in Nat /\ req[r].cnt \in Nat /\ req[r].cnt <= MaxChunks
        /\ LocalsOK(req[r]) /\ LoopOK(req[r])
        /\ chunks[k] \subseteq ChunkIds
    BY <1>3, LocalFacts DEF StoresOK
  <1>6. /\ RemoveFile(k, req[r].idx) \/ UNCHANGED files
        /\ UNCHANGED <<upstream, objects, chunks, seen>>
    BY <1>3 DEF Cleanup
  <1>7. Coherent(k)'
    BY <1>4, <1>6, RemoveCoherent DEF Coherent
  <1>8. SUFFICES Moves(r) /\ OwnerOK(r)'
    BY <1>2, <1>3, <1>6, OwnerStep DEF OnlyKey, StoresOK, RemoveFile
  <1>9. CASE ~Stops(r)
    <2>1. Moves(r) /\ req'[r].key = k
      BY <1>3, <1>9, CleanupStep DEF Now, Goes, Moves
    <2>2. SeenOK(r)' /\ (req'[r].piece # None => req'[r].piece \in seen'[r])
      BY <1>1, <1>3, <1>4, <1>5, <1>6, <1>9, CleanupStep
         DEF Now, Goes, Moves, SeenOK, Active, Ends, PhaseOK, LocalsOK
    <2>3. PhaseOK(r)'
      BY <1>1, <1>3, <1>4, <1>5, <1>6, <1>9, CleanupStep
         DEF Now, Goes, Moves, PhaseOK, LocalsOK, LoopOK, Coherent, StoresOK
    <2> QED
      BY <1>7, <2>1, <2>2, <2>3 DEF OwnerOK, At
  <1>10. CASE Stops(r)
    BY <1>3, <1>7, <1>10, StopsOwner DEF Stops
  <1> QED
    BY <1>9, <1>10

-----------------------------------------------------------------------------
(* The upstream changes under the requests: a write by anyone is seen by   *)
(* every request in flight on that key.                                    *)

LEMMA UpstreamChanges ==
  ASSUME SerialInv, TasksOK, StoresOK, NEW k \in Keys, NEW v, SetUpstream(k, v)
  PROVE  \A t \in Reqs : /\ seen[t] \subseteq seen'[t]
                         /\ Active(t) => upstream'[req[t].key] \in seen'[t]
  <1>1. SUFFICES ASSUME NEW t \in Reqs
                 PROVE  /\ seen[t] \subseteq seen'[t]
                        /\ Active(t) => upstream'[req[t].key] \in seen'[t]
    OBVIOUS
  <1>2. seen'[t] = IF Active(t) /\ req[t].key = k THEN seen[t] \cup {v} ELSE seen[t]
    BY DEF SetUpstream
  <1>3. req[t].key \in Keys /\ SeenOK(t)
    BY LocalFacts DEF SerialInv
  <1>4. upstream'[req[t].key] = IF req[t].key = k THEN v ELSE upstream[req[t].key]
    BY <1>3 DEF SetUpstream, StoresOK
  <1> QED
    BY <1>2, <1>3, <1>4 DEF SeenOK

LEMMA EnvironmentWrites ==
  ASSUME SerialInv, TasksOK, StoresOK, NEW k \in Keys, NEW v, SetUpstream(k, v),
         UNCHANGED <<objects, chunks, files, req>>
  PROVE  SerialInv'
  <1>1. \A t \in Reqs : /\ seen[t] \subseteq seen'[t]
                        /\ Active(t) => upstream'[req[t].key] \in seen'[t]
    BY UpstreamChanges
  <1>2. \A t \in Reqs : SeenOK(t)'
    BY <1>1 DEF SerialInv, SeenOK, Active
  <1>3. \A t \in Reqs : PhaseOK(t)'
    BY DEF SerialInv, PhaseOK
  <1>4. FreshReads'
    BY <1>1 DEF SerialInv, FreshReads
  <1>5. Exclusive'
    BY DEF SerialInv, Exclusive, Active
  <1>6. \A j \in Keys : ~Registering(j)' => Coherent(j)'
    BY DEF SerialInv, Registering, Coherent, At
  <1> QED
    BY <1>2, <1>3, <1>4, <1>5, <1>6 DEF SerialInv

LEMMA DeleteUpstreamSerial ==
  ASSUME SerialInv, TasksOK, StoresOK, NEW r \in Reqs, DeleteUpstream(r)
  PROVE  SerialInv'
  <1>1. req[r].pc = "delete" /\ UNCHANGED <<objects, chunks, files>>
    BY DEF DeleteUpstream, At, cacheVars
  <1>2. Active(r)
    BY <1>1 DEF Active, Ends
  <1>3. PICK k \in Keys : k = req[r].key
    BY LocalFacts
  <1>4. /\ SeenOK(r) /\ Coherent(k) /\ LocalsOK(req[r])
        /\ req[r].piece # None => req[r].piece \in seen[r]
    BY <1>1, <1>2, <1>3, Owner, LocalFacts DEF OwnerOK, At
  <1>5. SetUpstream(k, None) \/ UNCHANGED <<upstream, seen>>
    BY <1>3, DeleteUpstreamStep
  <1>6. /\ \A t \in Reqs : seen[t] \subseteq seen'[t]
        /\ upstream'[k] \in seen'[r]
    BY <1>2, <1>3, <1>4, <1>5, UpstreamChanges DEF SeenOK
  <1>7. OnlyKey(k)
    BY <1>1, <1>5 DEF OnlyKey, SetUpstream, StoresOK
  <1>8. Coherent(k)'
    BY <1>1, <1>4 DEF Coherent
  <1>9. SUFFICES Moves(r) /\ OwnerOK(r)'
    BY <1>2, <1>3, <1>6, <1>7, OwnerStep
  <1>10. CASE Stops(r)
    BY <1>3, <1>8, <1>10, StopsOwner DEF Stops
  <1>11. CASE Goes(r, "drop")
    <2>1. /\ Moves(r) /\ req'[r].key = k /\ req'[r].pc = "drop"
          /\ req'[r].op = "DELETE" /\ req'[r].piece = req[r].piece
      BY <1>1, <1>3, <1>4, <1>11 DEF Goes, Now, Moves, LocalsOK
    <2>2. SeenOK(r)'
      BY <1>6, <2>1 DEF SeenOK, MetaLabels, ReadLabels, DropLabels
    <2>3. PhaseOK(r)'
      BY <2>1 DEF PhaseOK, ReadLabels, WriteLabels
    <2> QED
      BY <1>4, <1>6, <1>8, <2>1, <2>2, <2>3 DEF OwnerOK
  <1> QED
    BY <1>10, <1>11, DeleteUpstreamStep

-----------------------------------------------------------------------------
(* Arrival, disconnection, eviction; copies do not occur.                  *)

LEMMA CancelSerial ==
  ASSUME SerialInv, TasksOK, StoresOK, NEW r \in Reqs, Cancel(r)
  PROVE  SerialInv'
  <1>1. /\ Active(r) /\ ~At(r, "register")
        /\ UNCHANGED <<upstream, objects, chunks, files, seen>>
    BY DEF Cancel, AwaitPoints, Active, Ends, At, cacheVars
  <1>2. PICK k \in Keys : k = req[r].key
    BY LocalFacts
  <1>3. Coherent(k)'
    BY <1>1, <1>2, Owner DEF OwnerOK, Coherent
  <1>4. Stops(r)
    BY CancelStep
  <1>5. OwnerOK(r)'
    BY <1>2, <1>3, <1>4, StopsOwner
  <1> QED
    BY <1>1, <1>4, <1>5, OwnerStep DEF OnlyKey, Stops

LEMMA BeginSerial ==
  ASSUME SerialInv, TasksOK, StoresOK, Serial, NEW r \in Reqs, Arrive(r)
  PROVE  SerialInv'
  <1>1. PICK o \in OpKinds, k \in Keys, v \in Maybe(Versions), l \in {"head", "drop", "delete"} :
          /\ Begin(r, o, k, k, v, l)
          /\ l = "drop" => o = "PUT"
    <2>1. None \in Maybe(Versions) /\ \A v \in Versions : v \in Maybe(Versions)
      BY DEF Maybe
    <2>2. CASE \E k \in Keys : GetObject(r, k) \/ HeadObject(r, k) \/ DeleteObject(r, k)
      BY <2>1, <2>2 DEF GetObject, HeadObject, DeleteObject, OpKinds
    <2>3. CASE \E k \in Keys, v \in Versions : PutObject(r, k, v)
      BY <2>1, <2>3 DEF PutObject, OpKinds
    <2>4. CASE \E k \in Keys : \E s \in Keys : CopyObject(r, k, s)
      BY <2>4 DEF CopyObject, Begin, Free, Serial
    <2> QED
      BY <2>2, <2>3, <2>4 DEF Arrive
  <1>2. l \in Labels
    BY LabelType
  <1>3. /\ \A t \in Reqs \ {r} : req'[t] = req[t]
        /\ req'[r].pc = l /\ req'[r].op = o /\ req'[r].key = k
        /\ req'[r].src = k /\ req'[r].ver = v /\ req'[r].piece = None
    BY <1>1, <1>2, BeginStep
  <1>4. /\ ~Active(r) /\ o \in Ops
        /\ \A t \in Reqs \ {r} : Active(t) => req[t].key # k
    BY <1>1 DEF Begin, Free, KeysOf, MayOverlap, Serial
  <1>5. /\ seen' = [seen EXCEPT ![r] = {upstream[k]}]
        /\ UNCHANGED <<upstream, objects, chunks, files>>
    BY <1>1 DEF Begin, cacheVars
  <1>6. seen'[r] = {upstream[k]} /\ \A t \in Reqs \ {r} : seen'[t] = seen[t]
    BY <1>5 DEF StoresOK
  <1>7. Exclusive'
    BY <1>3, <1>4 DEF SerialInv, Exclusive, Active
  <1>8. \A j \in Keys : ~Registering(j)' => Coherent(j)'
    <2>1. SUFFICES ASSUME NEW j \in Keys, ~Registering(j)' PROVE Coherent(j)'
      OBVIOUS
    <2>2. ~Registering(j)
      BY <1>3, <1>4, <2>1 DEF Registering, At, Active, Ends
    <2> QED
      BY <1>5, <2>2 DEF SerialInv, Coherent
  <1>9. ASSUME NEW t \in Reqs
        PROVE  SeenOK(t)' /\ PhaseOK(t)'
    <2>1. CASE t = r
      BY <1>1, <1>3, <1>5, <1>6, <2>1 DEF SeenOK, PhaseOK, MetaLabels, ReadLabels,
         DropLabels, WriteLabels
    <2>2. CASE t # r
      BY <1>3, <1>5, <1>6, <2>2 DEF SerialInv, SeenOK, PhaseOK, Active
    <2> QED
      BY <2>1, <2>2
  <1>10. FreshReads'
    BY <1>3, <1>6 DEF SerialInv, FreshReads
  <1> QED
    BY <1>7, <1>8, <1>9, <1>10 DEF SerialInv

(* The eviction worker only takes away.                                    *)
LEMMA EvictSerial ==
  ASSUME SerialInv, TasksOK, StoresOK, Evict
  PROVE  SerialInv'
  <1>1. UNCHANGED <<upstream, objects, req, seen>>
    BY DEF Evict, EvictList, EvictStop, EvictFile, EvictRow, cacheVars
  <1>2. /\ \A k \in Keys : chunks'[k] \subseteq chunks[k]
        /\ \A k \in Keys : \A i \in ChunkIds : files'[k][i] \in {None, files[k][i]}
    <2>1. CASE EvictList \/ EvictStop
      BY <2>1 DEF EvictList, EvictStop, cacheVars
    <2>2. ASSUME NEW c \in Slots, EvictFile(c)
          PROVE  /\ \A k \in Keys : chunks'[k] \subseteq chunks[k]
                 /\ \A k \in Keys : \A i \in ChunkIds : files'[k][i] \in {None, files[k][i]}
      BY <2>2 DEF EvictFile, RemoveFile, StoresOK, Slots
    <2>3. ASSUME NEW c \in Slots, EvictRow(c)
          PROVE  /\ \A k \in Keys : chunks'[k] \subseteq chunks[k]
                 /\ \A k \in Keys : \A i \in ChunkIds : files'[k][i] \in {None, files[k][i]}
      BY <2>3 DEF EvictRow, StoresOK, Slots
    <2> QED
      BY <2>1, <2>2, <2>3 DEF Evict
  <1>3. \A k \in Keys : chunks[k] \subseteq ChunkIds
    BY DEF StoresOK
  <1>4. Exclusive' /\ FreshReads' /\ \A t \in Reqs : SeenOK(t)'
    BY <1>1 DEF SerialInv, Exclusive, FreshReads, SeenOK, Active
  <1>5. \A k \in Keys : ~Registering(k)' => Coherent(k)'
    BY <1>1, <1>2, <1>3 DEF SerialInv, Registering, Coherent, At
  <1>6. ASSUME NEW t \in Reqs
        PROVE  PhaseOK(t)'
    <2>1. PICK k \in Keys : k = req[t].key
      BY LocalFacts
    <2>2. PhaseOK(t) /\ req[t].idx \in Nat /\ req[t].cnt \in Nat /\ req[t].cnt <= MaxChunks /\ LoopOK(req[t])
      BY LocalFacts DEF SerialInv
    <2>3. req[t].pc \in {"touch", "touchput", "read"} => req[t].idx \in ChunkIds
      BY <2>2, SizeType DEF LoopOK, ChunkIds
    <2> QED
      BY <1>1, <1>2, <1>3, <2>1, <2>2, <2>3 DEF PhaseOK
  <1> QED
    BY <1>4, <1>5, <1>6 DEF SerialInv

LEMMA NoCopies ==
  ASSUME SerialInv, TasksOK, Serial, NEW r \in Reqs
  PROVE  ~(\/ CopyUpstream(r) \/ CopyReadMeta(r) \/ CopyPutMeta(r)
           \/ CopyChunk(r) \/ CopyFile(r) \/ CopyRow(r))
  <1>1. SUFFICES ASSUME req[r].pc \in CopyLabels PROVE FALSE
    BY DEF CopyUpstream, CopyReadMeta, CopyPutMeta, CopyChunk, CopyFile, CopyRow,
       At, CopyLabels
  <1>2. req[r].op = "COPY" /\ Active(r)
    BY <1>1, LocalFacts DEF LocalsOK, Active, Ends, CopyLabels
  <1> QED
    BY <1>2 DEF SerialInv, Exclusive, Serial

-----------------------------------------------------------------------------
LEMMA InitSerial == Init => SerialInv
  <1> SUFFICES ASSUME Init PROVE SerialInv
    OBVIOUS
  <1>1. \A r \in Reqs : req[r].pc = "idle" /\ req[r].piece = None
    BY DEF Init, Fresh
  <1>2. \A k \in Keys : chunks[k] = {}
    BY DEF Init
  <1>3. Exclusive /\ FreshReads /\ \A r \in Reqs : SeenOK(r)
    BY <1>1 DEF Exclusive, FreshReads, SeenOK, Active, Ends
  <1>4. \A r \in Reqs : PhaseOK(r)
    BY <1>1 DEF PhaseOK, ReadLabels, WriteLabels
  <1>5. \A k \in Keys : Coherent(k)
    BY <1>2 DEF Coherent
  <1> QED
    BY <1>3, <1>4, <1>5 DEF SerialInv

LEMMA NextSerial ==
  ASSUME Serial, LoopInv, SerialInv, [Next]_vars
  PROVE  SerialInv'
  <1>1. TasksOK /\ StoresOK
    BY LoopInvSplit
  <1>2. ASSUME NEW r \in Reqs, Handle(r)
        PROVE  SerialInv'
    BY <1>1, <1>2, LookSteps, PipeSteps, PutMetaSerial, DropFileSerial, DropRowSerial,
       DropMetaSerial, TouchPutSerial, WriteChunkSerial, RegisterSerial,
       CleanupSerial, DeleteUpstreamSerial, NoCopies DEF Handle
  <1>3. ASSUME NEW r \in Reqs, Upload(r)
        PROVE  SerialInv'
    <2>1. UNCHANGED <<objects, chunks, files, req>>
      BY <1>3 DEF Upload, UploadLands, UploadFails, cacheVars
    <2>2. SetUpstream(req[r].key, req[r].ver) \/ UNCHANGED <<upstream, seen>>
      BY <1>3 DEF Upload, UploadLands, UploadFails
    <2>3. CASE SetUpstream(req[r].key, req[r].ver)
      BY <1>1, <2>1, <2>3, LocalFacts, EnvironmentWrites
    <2>4. CASE UNCHANGED <<upstream, seen>>
      BY <2>1, <2>4 DEF SerialInv, Exclusive, Active, Registering, At, Coherent,
         SeenOK, PhaseOK, FreshReads
    <2> QED
      BY <2>2, <2>3, <2>4
  <1>4. ASSUME NEW k \in Keys, NEW v \in Maybe(Versions), DirectWrite(k, v)
        PROVE  SerialInv'
    BY <1>1, <1>4, EnvironmentWrites DEF DirectWrite, cacheVars
  <1>5. ~Crash
    BY DEF Crash, Serial
  <1>6. CASE UNCHANGED vars
    BY <1>6 DEF vars, SerialInv, Exclusive, Active, Registering, At, Coherent,
       SeenOK, PhaseOK, FreshReads
  <1> QED
    BY <1>1, <1>2, <1>3, <1>4, <1>5, <1>6, BeginSerial, CancelSerial, EvictSerial
       DEF Next

(* The inductive invariant behind both results below.                      *)
THEOREM SerialInvariant ==
  ASSUME Serial
  PROVE  Spec => []SerialInv
  <1>1. Init => SerialInv
    BY InitSerial
  <1>2. LoopInv /\ SerialInv /\ [Next]_vars => SerialInv'
    BY NextSerial
  <1> QED
    BY <1>1, <1>2, LoopInvariant, PTL DEF Spec

(* A GET never streams bytes that the upstream store has not held since    *)
(* that GET began: for any number of keys, versions, chunks and requests,  *)
(* any evictions, direct writes, upstream and disk failures, disconnects   *)
(* and late uploads, as long as clients do not overlap requests on one key *)
(* or copy, and the process does not crash.                                *)
THEOREM Freshness ==
  ASSUME Serial
  PROVE  Spec => []FreshReads
  <1>1. SerialInv => FreshReads
    BY DEF SerialInv
  <1> QED
    BY <1>1, SerialInvariant, PTL

(* Under the same conditions the rows and files of a key at rest always    *)
(* fit its metadata, whatever PUT, drop, eviction or aborted handler came  *)
(* before.                                                                 *)
THEOREM Coherence ==
  ASSUME Serial
  PROVE  Spec => []CoherentCache
  <1>1. SerialInv => CoherentCache
    <2>1. ASSUME NEW k \in Keys, Quiet(k)
          PROVE  ~Registering(k)
      BY <2>1 DEF Quiet, Registering, At, Active, Ends, KeysOf
    <2> QED
      BY <2>1 DEF SerialInv, CoherentCache
  <1> QED
    BY <1>1, SerialInvariant, PTL

-----------------------------------------------------------------------------
(* A DELETE that is answered has dropped its key.                          *)

(* Only the last step of drop_cache_for_object answers a DELETE.           *)
LEMMA DropAnswers ==
  ASSUME TasksOK, StoresOK, NEW r \in Reqs, req[r].op = "DELETE", Handle(r),
         req'[r].pc = "ok"
  PROVE  DropMeta(r)
  <1>1. req[r].pc \notin MetaLabels \cup ReadLabels \cup WriteLabels
                           \cup CopyLabels \cup {"register"}
    BY LocalFacts DEF LocalsOK
  <1>2. DropStart(r) \/ DropFile(r) \/ DropRow(r) \/ DropMeta(r) \/ DeleteUpstream(r)
    BY <1>1 DEF Handle, UpstreamHead, Compare, PutMeta, Status, NextChunk,
       Touch, TouchPut, ReadChunk, ColdRead, SendChunk, WriteChunk, BodyEnd,
       AwaitUpload, Register, Cleanup, CopyUpstream, CopyReadMeta,
       CopyPutMeta, CopyChunk, CopyFile, CopyRow, At, MetaLabels, ReadLabels,
       WriteLabels, CopyLabels
  <1>3. ~DropStart(r) /\ ~DropFile(r) /\ ~DropRow(r)
    BY DropStartStep, DropFileStep, DropRowStep DEF Now, Goes
  <1>4. ~DeleteUpstream(r)
    <2>1. DeleteUpstream(r) => Goto(r, "drop") \/ Respond(r, "error")
      BY DEF DeleteUpstream
    <2>2. Respond(r, "error") => req'[r].pc = "error"
      BY RespondKeeps DEF Ends
    <2>3. Goto(r, "drop") => req'[r].pc = "drop"
      BY GotoGoes, LabelType DEF Now, Goes
    <2> QED
      BY <2>1, <2>2, <2>3
  <1> QED
    BY <1>2, <1>3, <1>4

LEMMA DropEmpties ==
  ASSUME SerialInv, TasksOK, StoresOK, NEW r \in Reqs, DropMeta(r)
  PROVE  objects'[req[r].key] = None /\ chunks'[req[r].key] = {}
  <1>1. PICK k \in Keys : k = req[r].key
    BY LocalFacts
  <1>2. /\ req[r].pc = "dropfile" /\ req[r].idx = req[r].cnt
        /\ objects' = [objects EXCEPT ![k] = None] /\ UNCHANGED chunks
    BY <1>1 DEF DropMeta, At
  <1>3. objects'[k] = None
    BY <1>2 DEF StoresOK
  <1>4. Coherent(k) /\ PhaseOK(r)
    BY <1>1, <1>2, Owner DEF OwnerOK, At, Active, Ends
  <1>5. /\ req[r].cnt = Length(objects[k])
        /\ \A i \in chunks[k] : req[r].idx <= i
    BY <1>1, <1>2, <1>4 DEF PhaseOK
  <1>6. ASSUME NEW i \in chunks[k]
        PROVE  FALSE
    <2>1. objects[k] # None /\ i < NumChunks[objects[k]]
      BY <1>4 DEF Coherent
    <2>2. NumChunks[objects[k]] <= i
      BY <1>2, <1>5, <2>1 DEF Length
    <2>3. i \in Nat /\ NumChunks[objects[k]] \in Nat
      BY <2>1, SizeType DEF StoresOK, ChunkIds, Maybe
    <2> QED
      BY <2>1, <2>2, <2>3
  <1> QED
    BY <1>1, <1>2, <1>3, <1>6

(* When a DELETE is answered its key has neither metadata nor a row, for   *)
(* every instance that Serial admits: the loop of drop_cache_for_object,   *)
(* which counts with the length in the metadata, reaches every row,        *)
(* because no row lies beyond that length (Coherent), and the worker and   *)
(* abandoned handlers add none.                                            *)
THEOREM DeleteDrops ==
  ASSUME Serial
  PROVE  Spec => DeleteDropsCache
  <1> DEFINE Drops ==
        \A r \in Reqs : req[r].op = "DELETE" /\ Answers(r) =>
          objects'[req[r].key] = None /\ chunks'[req[r].key] = {}
  <1>1. LoopInv /\ SerialInv /\ [Next]_vars => [Drops]_vars
    <2> SUFFICES ASSUME LoopInv, SerialInv, [Next]_vars, NEW r \in Reqs,
                        req[r].op = "DELETE", Answers(r)
                 PROVE  objects'[req[r].key] = None /\ chunks'[req[r].key] = {}
      OBVIOUS
    <2>1. TasksOK /\ StoresOK
      BY LoopInvSplit
    <2>2. DropMeta(r)
      BY <2>1, AnswersHandle, DropAnswers DEF Answers
    <2> QED
      BY <2>1, <2>2, DropEmpties
  <1> QED
    BY <1>1, LoopInvariant, SerialInvariant, PTL DEF Spec, DeleteDropsCache

=============================================================================
