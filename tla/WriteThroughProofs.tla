------------------------- MODULE WriteThroughProofs -------------------------
(***************************************************************************)
(* Write-through for every instance of CacheCoordinator: whatever overlaps *)
(* on one key, whatever fails and whenever the process crashes.  And what  *)
(* an answered PUT or COPY leaves in the cache, for every instance in      *)
(* which nobody else works on its keys meanwhile.                          *)
(***************************************************************************)
EXTENDS CacheProofs

(* What a write has achieved when its task, in state q, has come this far: *)
(* u is its upload and s the history of its key.                           *)
Took(q, u, s) ==
  /\ q.op = "PUT" /\ (q.pc \in {"register", "ok"} \/ u = "landed") => q.ver \in s
  /\ q.op = "DELETE" /\ q.pc \in DropLabels \cup {"ok"} => None \in s

(* WriteThrough is about answers; WriteInv says how a task gets there.     *)
WriteInv == \A r \in Reqs : Took(req[r], upload[r], seen[r])

-----------------------------------------------------------------------------
(* A step of one task.                                                     *)

(* What a step of task r leaves alone: the other tasks, and history.       *)
Frame(r) ==
  /\ \A t \in Reqs \ {r} : req'[t] = req[t] /\ upload'[t] = upload[t]
  /\ \A t \in Reqs : seen[t] \subseteq seen'[t]

LEMMA FrameKeeps ==
  ASSUME WriteInv, NEW r \in Reqs, Frame(r), Took(req'[r], upload'[r], seen'[r])
  PROVE  WriteInv'
  <1> SUFFICES ASSUME NEW t \in Reqs PROVE Took(req'[t], upload'[t], seen'[t])
    BY DEF WriteInv
  <1>1. CASE t = r
    BY <1>1
  <1>2. CASE t # r
    BY <1>2 DEF WriteInv, Took, Frame
  <1> QED
    BY <1>1, <1>2

LEMMA HistoryGrows ==
  ASSUME StoresOK, NEW k, NEW v, SetUpstream(k, v) \/ UNCHANGED seen
  PROVE  \A t \in Reqs : seen[t] \subseteq seen'[t]
  BY DEF SetUpstream, StoresOK

LEMMA HandleFrame ==
  ASSUME TasksOK, StoresOK, NEW r \in Reqs, Handle(r)
  PROVE  Frame(r)
  <1>1. \A t \in Reqs \ {r} : req'[t] = req[t]
    BY HandleMoves DEF Moves
  <1>2. (\E u : upload' = [upload EXCEPT ![r] = u]) \/ UNCHANGED upload
    BY DEF Handle, UpstreamHead, Compare, PutMeta, DropStart, DropFile, DropRow,
       DropMeta, Status, NextChunk, Touch, TouchPut, ReadChunk, ColdRead,
       SendChunk, WriteChunk, BodyEnd, AwaitUpload, Register, Cleanup,
       DeleteUpstream, CopyUpstream, CopyReadMeta, CopyPutMeta, CopyChunk,
       CopyFile, CopyRow, LetGo
  <1>3. (\E k, v : SetUpstream(k, v)) \/ UNCHANGED seen
    BY DEF Handle, UpstreamHead, Compare, PutMeta, DropStart, DropFile, DropRow,
       DropMeta, Status, NextChunk, Touch, TouchPut, ReadChunk, ColdRead,
       SendChunk, WriteChunk, BodyEnd, AwaitUpload, Register, Cleanup,
       DeleteUpstream, CopyUpstream, CopyReadMeta, CopyPutMeta, CopyChunk,
       CopyFile, CopyRow
  <1>4. \A t \in Reqs : seen[t] \subseteq seen'[t]
    BY <1>3, HistoryGrows
  <1>5. \A t \in Reqs \ {r} : upload'[t] = upload[t]
    BY <1>2 DEF StoresOK
  <1> QED
    BY <1>1, <1>4, <1>5 DEF Frame

-----------------------------------------------------------------------------
(* The steps of the handlers keep WriteInv.                                *)

LEMMA ReadersTook ==
  ASSUME TasksOK, StoresOK, NEW r \in Reqs, Handle(r),
         req[r].pc \in MetaLabels \cup ReadLabels \cup CopyLabels
  PROVE  Took(req'[r], upload'[r], seen'[r])
  <1>1. req[r].op \in {"GET", "HEAD", "COPY"}
    BY LocalFacts DEF LocalsOK
  <1>2. req'[r].op = req[r].op
    BY HandleMoves DEF Moves
  <1> QED
    BY <1>1, <1>2 DEF Took

LEMMA DropTook ==
  ASSUME TasksOK, StoresOK, WriteInv, NEW r \in Reqs,
         DropStart(r) \/ DropFile(r) \/ DropRow(r) \/ DropMeta(r)
  PROVE  Took(req'[r], upload'[r], seen'[r])
  <1> USE DEF DropLabels
  <1>1. Took(req[r], upload[r], seen[r]) /\ req[r].pc \in DropLabels
    BY DEF WriteInv, DropStart, DropFile, DropRow, DropMeta, At
  <1>2. CASE DropStart(r) \/ DropFile(r) \/ DropRow(r)
    <2>1. UNCHANGED <<upload, seen>>
      BY <1>2 DEF DropStart, DropFile, DropRow
    <2>2. \E l \in {"dropfile", "droprow"} : \E i, n :
            Now(r, l, req[r].ver, i, n, req[r].piece)
      BY <1>2, DropStartStep, DropFileStep, DropRowStep DEF Goes
    <2> QED
      BY <1>1, <2>1, <2>2 DEF Took, Now, Moves
  <1>3. CASE DropMeta(r)
    <2>1. UNCHANGED seen
      BY <1>3 DEF DropMeta
    <2>2. CASE req[r].op \in {"GET", "HEAD"} /\ Goto(r, "putmeta")
      <3>1. Goes(r, "putmeta")
        BY <2>2, GotoGoes, LabelType
      <3> QED
        BY <2>2, <3>1 DEF Took, Goes, Now, Moves
    <2>3. CASE req[r].op = "DELETE" /\ Respond(r, "ok")
      <3>1. req'[r].op = "DELETE"
        BY <2>3, RespondKeeps DEF Ends
      <3> QED
        BY <1>1, <2>1, <2>3, <3>1 DEF Took
    <2>4. CASE /\ req[r].op = "PUT"
               /\ Becomes(r, [req[r] EXCEPT !.pc = "body", !.idx = 0, !.cnt = 0])
               /\ \E u \in {"sent", "sending"} : upload' = [upload EXCEPT ![r] = u]
      <3>1. Now(r, "body", req[r].ver, 0, 0, req[r].piece)
        BY <2>4, ToBody
      <3>2. upload'[r] # "landed"
        BY <2>4 DEF StoresOK
      <3> QED
        BY <2>4, <3>1, <3>2 DEF Took, Now, Moves
    <2> QED
      BY <1>3, <2>2, <2>3, <2>4 DEF DropMeta
  <1> QED
    BY <1>2, <1>3

LEMMA LetGoLands ==
  ASSUME StoresOK, NEW r \in Reqs, LetGo(r)
  PROVE  upload'[r] # "landed"
  BY DEF LetGo, StoresOK

LEMMA WriteTook ==
  ASSUME TasksOK, StoresOK, WriteInv, NEW r \in Reqs,
         \/ SendChunk(r) \/ WriteChunk(r) \/ BodyEnd(r) \/ AwaitUpload(r)
         \/ Register(r) \/ Cleanup(r)
  PROVE  Took(req'[r], upload'[r], seen'[r])
  <1>1. Took(req[r], upload[r], seen[r]) /\ UNCHANGED seen
    BY DEF WriteInv, SendChunk, WriteChunk, BodyEnd, AwaitUpload, Register, Cleanup
  <1>2. req[r].op = "PUT"
    BY LocalFacts DEF LocalsOK, WriteLabels, SendChunk, WriteChunk, BodyEnd,
       AwaitUpload, Register, Cleanup, At
  <1>3. CASE SendChunk(r)
    <2>1. upload'[r] = upload[r] \/ upload'[r] # "landed"
      BY <1>3, LetGoLands DEF SendChunk, StoresOK
    <2>2. /\ req'[r].op = "PUT" /\ req'[r].pc \in {"write", "cleanup"}
          /\ req'[r].ver = req[r].ver
      BY <1>2, <1>3, SendChunkStep DEF Goes, Now, Moves
    <2> QED
      BY <1>1, <1>2, <2>1, <2>2 DEF Took
  <1>4. CASE WriteChunk(r)
    <2>1. /\ req'[r].op = "PUT" /\ req'[r].pc \in {"body", "cleanup"}
          /\ req'[r].ver = req[r].ver
      BY <1>2, <1>4, WriteChunkStep DEF Goes, Now, Moves
    <2>2. upload'[r] = upload[r] \/ upload'[r] # "landed"
      BY <1>4, LetGoLands DEF WriteChunk
    <2> QED
      BY <1>1, <1>2, <2>1, <2>2 DEF Took
  <1>5. CASE BodyEnd(r)
    BY <1>1, <1>2, <1>5, BodyEndStep DEF BodyEnd, Took, Goes, Now, Moves
  <1>6. CASE AwaitUpload(r)
    <2>1. upload' = [upload EXCEPT ![r] = "none"]
      BY <1>6 DEF AwaitUpload
    <2>2. upload'[r] = "none"
      BY <2>1 DEF StoresOK
    <2>3. CASE Respond(r, "error")
      <3>1. req'[r].pc = "error" /\ req'[r].op = "PUT"
        BY <1>2, <2>3, RespondKeeps DEF Ends
      <3> QED
        BY <2>2, <3>1 DEF Took
    <2>4. CASE upload[r] = "landed" /\ Becomes(r, [req[r] EXCEPT !.pc = "register", !.idx = 0])
      <3>1. Now(r, "register", req[r].ver, 0, req[r].cnt, req[r].piece)
        BY <2>4, ToRegister
      <3> QED
        BY <1>1, <1>2, <2>2, <2>4, <3>1 DEF Took, Now, Moves
    <2> QED
      BY <1>6, <2>3, <2>4 DEF AwaitUpload
  <1>7. CASE Register(r)
    <2>1. req'[r].op = "PUT" /\ req'[r].ver = req[r].ver
      <3>1. CASE Respond(r, "ok")
        BY <1>2, <3>1, RespondKeeps DEF Ends
      <3>2. CASE ~Respond(r, "ok")
        <4>1. /\ req[r].idx < NumChunks[req[r].ver]
              /\ Becomes(r, [req[r] EXCEPT !.idx = req[r].idx + 1])
          BY <1>7, <3>2 DEF Register
        <4>2. req[r].ver \in Versions
          BY <1>7, LocalFacts DEF LocalsOK, Register, At
        <4>3. req[r].idx + 1 \in 0..MaxChunks
          BY <4>1, <4>2, NextFits
        <4> QED
          BY <1>2, <4>1, <4>3, NextIndex DEF Now, Moves
      <3> QED
        BY <3>1, <3>2
    <2>2. req[r].ver \in seen[r]
      BY <1>1, <1>2, <1>7 DEF Took, Register, At
    <2> QED
      BY <1>1, <2>1, <2>2 DEF Took
  <1>8. CASE Cleanup(r)
    <2>1. UNCHANGED upload
      BY <1>8 DEF Cleanup
    <2>2. /\ req'[r].op = "PUT" /\ req'[r].ver = req[r].ver
          /\ req'[r].pc \in {"cleanup", "error"}
      <3>1. CASE Respond(r, "error")
        BY <1>2, <3>1, RespondKeeps DEF Ends
      <3>2. CASE ~Respond(r, "error")
        <4>1. /\ req[r].idx < req[r].cnt /\ req[r].pc = "cleanup"
              /\ Becomes(r, [req[r] EXCEPT !.idx = req[r].idx + 1])
          BY <1>8, <3>2 DEF Cleanup, At
        <4>2. req[r].idx + 1 \in 0..MaxChunks
          BY <4>1, NextFits
        <4> QED
          BY <1>2, <4>1, <4>2, NextIndex DEF Now, Moves
      <3> QED
        BY <3>1, <3>2
    <2> QED
      BY <1>1, <1>2, <2>1, <2>2 DEF Took
  <1> QED
    BY <1>3, <1>4, <1>5, <1>6, <1>7, <1>8

LEMMA DeleteTook ==
  ASSUME TasksOK, StoresOK, NEW r \in Reqs, DeleteUpstream(r)
  PROVE  Took(req'[r], upload'[r], seen'[r])
  <1>1. req[r].op = "DELETE" /\ req[r].pc = "delete"
    BY LocalFacts DEF LocalsOK, DeleteUpstream, At
  <1>2. CASE Respond(r, "error")
    <2>1. req'[r].pc = "error" /\ req'[r].op = "DELETE"
      BY <1>1, <1>2, RespondKeeps DEF Ends
    <2> QED
      BY <2>1 DEF Took, DropLabels
  <1>3. CASE SetUpstream(req[r].key, None) /\ Goto(r, "drop")
    <2>1. None \in seen'[r]
      BY <1>1, <1>3 DEF SetUpstream, Active, Ends, StoresOK
    <2>2. req'[r].op = "DELETE"
      BY <1>1, <1>3, GotoGoes, LabelType DEF Goes, Now, Moves
    <2> QED
      BY <2>1, <2>2 DEF Took
  <1> QED
    BY <1>2, <1>3 DEF DeleteUpstream

LEMMA HandleTook ==
  ASSUME TasksOK, StoresOK, WriteInv, NEW r \in Reqs, Handle(r)
  PROVE  WriteInv'
  <1>1. CASE req[r].pc \in MetaLabels \cup ReadLabels \cup CopyLabels
    BY <1>1, ReadersTook, HandleFrame, FrameKeeps
  <1>2. CASE req[r].pc \notin MetaLabels \cup ReadLabels \cup CopyLabels
    <2>1. \/ DropStart(r) \/ DropFile(r) \/ DropRow(r) \/ DropMeta(r)
          \/ SendChunk(r) \/ WriteChunk(r) \/ BodyEnd(r) \/ AwaitUpload(r)
          \/ Register(r) \/ Cleanup(r) \/ DeleteUpstream(r)
      BY <1>2 DEF Handle, UpstreamHead, Compare, PutMeta, Status, NextChunk,
         Touch, TouchPut, ReadChunk, ColdRead, CopyUpstream, CopyReadMeta,
         CopyPutMeta, CopyChunk, CopyFile, CopyRow, At, MetaLabels, ReadLabels,
         CopyLabels
    <2>2. Took(req'[r], upload'[r], seen'[r])
      BY <2>1, DropTook, WriteTook, DeleteTook
    <2> QED
      BY <2>2, HandleFrame, FrameKeeps
  <1> QED
    BY <1>1, <1>2

-----------------------------------------------------------------------------
(* The other steps keep WriteInv.                                          *)

LEMMA ArriveTook ==
  ASSUME TasksOK, StoresOK, WriteInv, NEW r \in Reqs, Arrive(r)
  PROVE  WriteInv'
  <1>1. PICK o \in OpKinds, k \in Keys, s \in Keys, v \in Maybe(Versions), l \in Labels :
          /\ Begin(r, o, k, s, v, l)
          /\ l \in {"head", "drop", "delete", "copyup"}
          /\ o = "DELETE" => l = "delete"
    <2>1. None \in Maybe(Versions) /\ \A v \in Versions : v \in Maybe(Versions)
      BY DEF Maybe
    <2>2. CASE \E k \in Keys : GetObject(r, k) \/ HeadObject(r, k) \/ DeleteObject(r, k)
      BY <2>1, <2>2, LabelType DEF GetObject, HeadObject, DeleteObject, OpKinds
    <2>3. CASE \E k \in Keys, v \in Versions : PutObject(r, k, v)
      BY <2>1, <2>3, LabelType DEF PutObject, OpKinds
    <2>4. CASE \E k \in Keys : \E s \in Keys : CopyObject(r, k, s)
      BY <2>1, <2>4, LabelType DEF CopyObject, OpKinds
    <2> QED
      BY <2>2, <2>3, <2>4 DEF Arrive
  <1>2. /\ \A t \in Reqs \ {r} : req'[t] = req[t]
        /\ req'[r].pc = l /\ req'[r].op = o
    BY <1>1, BeginStep
  <1>3. /\ seen' = [seen EXCEPT ![r] = {upstream[k]}]
        /\ upload[r] = "none" /\ UNCHANGED upload
    BY <1>1 DEF Begin, Free
  <1> SUFFICES ASSUME NEW t \in Reqs PROVE Took(req'[t], upload'[t], seen'[t])
    BY DEF WriteInv
  <1>4. CASE t = r
    BY <1>1, <1>2, <1>3, <1>4 DEF Took, DropLabels
  <1>5. CASE t # r
    BY <1>2, <1>3, <1>5 DEF WriteInv, StoresOK
  <1> QED
    BY <1>4, <1>5

LEMMA UploadTook ==
  ASSUME TasksOK, StoresOK, WriteInv, NEW r \in Reqs, Upload(r)
  PROVE  WriteInv'
  <1>1. UNCHANGED req /\ \E u : upload' = [upload EXCEPT ![r] = u]
    BY DEF Upload, UploadLands, UploadFails
  <1>2. SetUpstream(req[r].key, req[r].ver) \/ UNCHANGED seen
    BY DEF Upload, UploadLands, UploadFails
  <1>3. Frame(r)
    BY <1>1, <1>2, HistoryGrows DEF Frame, StoresOK
  <1>4. upload'[r] = "landed" => req[r].ver \in seen'[r]
    <2>1. CASE UploadFails(r)
      BY <2>1 DEF UploadFails, StoresOK
    <2>2. CASE UploadLands(r)
      <3>1. upload'[r] = "landed" => Awaited(r)
        BY <2>2 DEF UploadLands, StoresOK
      <3>2. Awaited(r) => Active(r)
        BY DEF Awaited, Active, Ends
      <3>3. SetUpstream(req[r].key, req[r].ver)
        BY <2>2 DEF UploadLands
      <3> QED
        BY <3>1, <3>2, <3>3 DEF SetUpstream, StoresOK
    <2> QED
      BY <2>1, <2>2 DEF Upload
  <1>5. Took(req'[r], upload'[r], seen'[r])
    BY <1>1, <1>3, <1>4 DEF Took, WriteInv, Frame
  <1> QED
    BY <1>3, <1>5, FrameKeeps

LEMMA CancelTook ==
  ASSUME TasksOK, StoresOK, WriteInv, NEW r \in Reqs, Cancel(r)
  PROVE  WriteInv'
  <1>1. req'[r].pc = "error"
    BY RespondKeeps DEF Cancel, Ends
  <1>2. upload'[r] # "landed"
    BY LetGoLands DEF Cancel
  <1>3. Frame(r)
    BY CancelStep DEF Cancel, LetGo, Stops, Moves, Frame, StoresOK
  <1> QED
    BY <1>1, <1>2, <1>3, FrameKeeps DEF Took, DropLabels

LEMMA CrashTook ==
  ASSUME TasksOK, StoresOK, WriteInv, Crash
  PROVE  WriteInv'
  <1> SUFFICES ASSUME NEW r \in Reqs PROVE Took(req'[r], upload'[r], seen'[r])
    BY DEF WriteInv
  <1>1. upload'[r] # "landed" /\ UNCHANGED seen
    BY DEF Crash
  <1>2. CASE Active(r)
    <2>1. req'[r] = Ended(r, "error")
      BY <1>2 DEF Crash
    <2>2. req'[r].pc = "error"
      BY <2>1 DEF Ended, Fresh
    <2> QED
      BY <1>1, <2>2 DEF Took, DropLabels
  <1>3. CASE ~Active(r)
    <2>1. req'[r] = req[r]
      BY <1>3 DEF Crash
    <2> QED
      BY <1>1, <2>1 DEF Took, WriteInv
  <1> QED
    BY <1>2, <1>3

LEMMA InitWrite == Init => WriteInv
  BY DEF Init, Fresh, WriteInv, Took

LEMMA NextWrite ==
  ASSUME LoopInv, WriteInv, [Next]_vars
  PROVE  WriteInv'
  <1>1. TasksOK /\ StoresOK
    BY LoopInvSplit
  <1>2. ASSUME NEW r \in Reqs, Arrive(r) \/ Handle(r) \/ Upload(r) \/ Cancel(r)
        PROVE  WriteInv'
    BY <1>1, <1>2, ArriveTook, HandleTook, UploadTook, CancelTook
  <1>3. CASE Evict
    <2>1. UNCHANGED <<req, upload, seen>>
      BY <1>3 DEF Evict, EvictList, EvictStop, EvictFile, EvictRow
    <2> QED
      BY <2>1 DEF WriteInv
  <1>4. ASSUME NEW k \in Keys, NEW v \in Maybe(Versions), DirectWrite(k, v)
        PROVE  WriteInv'
    <2>1. UNCHANGED <<req, upload>> /\ SetUpstream(k, v)
      BY <1>4 DEF DirectWrite
    <2>2. \A t \in Reqs : seen[t] \subseteq seen'[t]
      BY <1>1, <2>1, HistoryGrows
    <2> QED
      BY <2>1, <2>2 DEF WriteInv, Took
  <1>5. CASE Crash
    BY <1>1, <1>5, CrashTook
  <1>6. CASE UNCHANGED vars
    BY <1>6 DEF vars, WriteInv
  <1> QED
    BY <1>2, <1>3, <1>4, <1>5, <1>6 DEF Next

(* A PUT or DELETE is answered with success only when the upstream store   *)
(* took the write since the request began: write_and_cache_object awaits   *)
(* its upload and checks the result before it registers anything, and      *)
(* delete_object_handler calls the upstream before it drops the cache.     *)
(* Requests on one key may overlap, calls fail, clients disconnect and the *)
(* process crash at any step.                                              *)
THEOREM WriteThroughAlways == Spec => []WriteThrough
  <1>1. Init => WriteInv
    BY InitWrite
  <1>2. LoopInv /\ WriteInv /\ [Next]_vars => WriteInv'
    BY NextWrite
  <1>3. WriteInv => WriteThrough
    BY DEF WriteInv, WriteThrough, Took, At
  <1> QED
    BY <1>1, <1>2, <1>3, LoopInvariant, PTL DEF Spec

-----------------------------------------------------------------------------
(* PUTs and COPYs leave their keys hot, when nothing disturbs them.        *)

(* A handler writes to the tables and files of its own key only.           *)
CacheKept(j) == /\ objects'[j] = objects[j]
                /\ chunks'[j] = chunks[j]
                /\ files'[j] = files[j]

LEMMA RemoveKeeps ==
  ASSUME StoresOK, NEW k \in Keys, NEW i, RemoveFile(k, i)
  PROVE  \A j \in Keys \ {k} : files'[j] = files[j]
  BY DEF StoresOK, RemoveFile

LEMMA OwnKeyOnly ==
  ASSUME TasksOK, StoresOK, NEW r \in Reqs, Handle(r)
  PROVE  \A j \in Keys \ {req[r].key} : CacheKept(j)
  <1>1. PICK k \in Keys : k = req[r].key
    BY LocalFacts
  <1>2. CASE UNCHANGED cacheVars
    BY <1>2 DEF cacheVars, CacheKept
  <1>3. CASE (\E v : objects' = [objects EXCEPT ![k] = v]) /\ UNCHANGED <<chunks, files>>
    BY <1>3, <1>1 DEF StoresOK, CacheKept
  <1>4. CASE (\E S : chunks' = [chunks EXCEPT ![k] = S]) /\ UNCHANGED <<objects, files>>
    BY <1>4, <1>1 DEF StoresOK, CacheKept
  <1>5. CASE (\E i, v : files' = [files EXCEPT ![k][i] = v]) /\ UNCHANGED <<objects, chunks>>
    BY <1>5, <1>1 DEF StoresOK, CacheKept
  <1>6. CASE (\E i : RemoveFile(k, i)) /\ UNCHANGED <<objects, chunks>>
    BY <1>6, <1>1, RemoveKeeps DEF CacheKept
  <1>7. CASE UpstreamHead(r) \/ Compare(r) \/ DropStart(r) \/ Status(r)
             \/ NextChunk(r) \/ Touch(r) \/ ReadChunk(r) \/ ColdRead(r)
             \/ SendChunk(r) \/ BodyEnd(r) \/ AwaitUpload(r)
             \/ DeleteUpstream(r) \/ CopyUpstream(r) \/ CopyReadMeta(r)
             \/ CopyChunk(r)
    BY <1>2, <1>7 DEF UpstreamHead, Compare, DropStart, Status, NextChunk,
       Touch, ReadChunk, ColdRead, SendChunk, BodyEnd, AwaitUpload,
       DeleteUpstream, CopyUpstream, CopyReadMeta, CopyChunk
  <1>8. CASE PutMeta(r) \/ DropMeta(r) \/ CopyPutMeta(r)
    BY <1>1, <1>3, <1>8 DEF PutMeta, DropMeta, CopyPutMeta
  <1>9. CASE DropRow(r) \/ TouchPut(r) \/ CopyRow(r)
    BY <1>1, <1>4, <1>9 DEF DropRow, TouchPut, CopyRow
  <1>10. CASE Register(r)
    BY <1>1, <1>3, <1>4, <1>10 DEF Register
  <1>11. CASE DropFile(r) \/ Cleanup(r)
    BY <1>1, <1>2, <1>6, <1>11 DEF DropFile, Cleanup, cacheVars
  <1>12. CASE WriteChunk(r) \/ CopyFile(r)
    BY <1>1, <1>2, <1>5, <1>12 DEF WriteChunk, CopyFile, cacheVars
  <1> QED
    BY <1>7, <1>8, <1>9, <1>10, <1>11, <1>12 DEF Handle

(* A request whose keys are left alone keeps what it knows of them.        *)
LEMMA KeptOK ==
  ASSUME TasksOK, NEW t \in Reqs, WrittenOK(t), CopiedOK(t), req'[t] = req[t],
         Active(t) => CacheKept(req[t].key) /\ CacheKept(req[t].src)
  PROVE  WrittenOK(t)' /\ CopiedOK(t)'
  <1>1. CASE Active(t)
    <2>1. WrittenOK(t)'
      BY <1>1 DEF WrittenOK, CacheKept
    <2>2. CopiedOK(t)'
      BY <1>1 DEF CopiedOK, CacheKept, RowCopied, FileCopied
    <2> QED
      BY <2>1, <2>2
  <1>2. CASE ~Active(t)
    BY <1>2 DEF WrittenOK, CopiedOK, Active, Ends, CopyLabels
  <1> QED
    BY <1>1, <1>2

LEMMA LabelActive ==
  ASSUME NEW r \in Reqs, Handle(r)
  PROVE  Active(r)
  BY DEF Handle, UpstreamHead, Compare, PutMeta, DropStart, DropFile, DropRow,
     DropMeta, Status, NextChunk, Touch, TouchPut, ReadChunk, ColdRead,
     SendChunk, WriteChunk, BodyEnd, AwaitUpload, Register, Cleanup,
     DeleteUpstream, CopyUpstream, CopyReadMeta, CopyPutMeta, CopyChunk,
     CopyFile, CopyRow, At, Active, Ends

(* Tasks that read, drop or delete have nothing of their own to keep.      *)
Loops == {"body", "write", "await", "register"} \cup CopyLabels

LEMMA OutsideOK ==
  ASSUME NEW t \in Reqs, req'[t].pc \notin Loops
  PROVE  WrittenOK(t)' /\ CopiedOK(t)'
  BY DEF WrittenOK, CopiedOK, Loops, CopyLabels

(* The handlers of GET, HEAD and DELETE, and the drop before a PUT.        *)
LEMMA OtherStepsOK ==
  ASSUME TasksOK, StoresOK, NEW r \in Reqs,
         \/ UpstreamHead(r) \/ Compare(r) \/ PutMeta(r)
         \/ DropStart(r) \/ DropFile(r) \/ DropRow(r) \/ DropMeta(r)
         \/ Status(r) \/ NextChunk(r) \/ Touch(r) \/ TouchPut(r)
         \/ ReadChunk(r) \/ ColdRead(r) \/ Cleanup(r) \/ DeleteUpstream(r)
  PROVE  WrittenOK(r)' /\ CopiedOK(r)'
  <1> USE DEF Loops, CopyLabels, Now, Goes, Stops, Ends
  <1>1. CASE UpstreamHead(r) \/ Compare(r) \/ PutMeta(r)
    BY <1>1, UpstreamHeadStep, CompareStep, PutMetaStep, OutsideOK
  <1>2. CASE DropStart(r) \/ DropFile(r) \/ DropRow(r)
    BY <1>2, DropStartStep, DropFileStep, DropRowStep, OutsideOK
  <1>3. CASE DropMeta(r)
    <2>1. CASE req'[r].pc \notin Loops
      BY <2>1, OutsideOK
    <2>2. CASE req'[r].pc \in Loops
      <3>1. req'[r].pc = "body" /\ req'[r].idx = 0
        BY <1>3, <2>2, DropMetaStep
      <3>2. \A i \in ChunkIds : ~(i < 0)
        BY DEF ChunkIds
      <3> QED
        BY <3>1, <3>2 DEF WrittenOK, CopiedOK
    <2> QED
      BY <2>1, <2>2
  <1>4. CASE Status(r) \/ NextChunk(r) \/ Touch(r) \/ TouchPut(r)
    BY <1>4, StatusStep, NextChunkStep, TouchStep, TouchPutStep, OutsideOK
  <1>5. CASE ReadChunk(r) \/ ColdRead(r) \/ Cleanup(r) \/ DeleteUpstream(r)
    BY <1>5, ReadChunkStep, ColdReadStep, CleanupStep, DeleteUpstreamStep, OutsideOK
  <1> QED
    BY <1>1, <1>2, <1>3, <1>4, <1>5

LEMMA UpTo ==
  ASSUME NEW n \in Nat, NEW i \in ChunkIds, i < n + 1
  PROVE  i < n \/ i = n
  BY SizeAssumption DEF ChunkIds

(* The write loop: a chunk's file is written before the index passes it,   *)
(* and its row before the second loop's index does.                        *)
LEMMA PutStepsOK ==
  ASSUME TasksOK, StoresOK, NEW r \in Reqs, WrittenOK(r),
         SendChunk(r) \/ WriteChunk(r) \/ BodyEnd(r) \/ AwaitUpload(r) \/ Register(r)
  PROVE  WrittenOK(r)' /\ CopiedOK(r)'
  <1>1. PICK k \in Keys : k = req[r].key
    BY LocalFacts
  <1>2. PICK v \in Versions : v = req[r].ver
    BY LocalFacts DEF LocalsOK, WriteLabels, SendChunk, WriteChunk, BodyEnd,
       AwaitUpload, Register, At
  <1>3. PICK n \in Nat : n = req[r].idx
    BY LocalFacts
  <1>4. /\ NumChunks[v] \in Nat /\ NumChunks[v] <= MaxChunks
        /\ \A i \in ChunkIds : i \in Nat
    BY <1>2, SizeType DEF ChunkIds
  <1>5. SUFFICES req'[r].pc \in Loops => WrittenOK(r)' /\ req'[r].pc \notin CopyLabels
    BY OutsideOK DEF CopiedOK, CopyLabels
  <1>6. CASE SendChunk(r)
    <2>1. UNCHANGED files /\ req[r].pc = "body"
      BY <1>6 DEF SendChunk, At, cacheVars
    <2>2. CASE Goes(r, "write")
      BY <2>1, <2>2 DEF WrittenOK, Goes, Now, Moves, CopyLabels
    <2>3. CASE req'[r].pc = "cleanup"
      BY <2>3 DEF Loops, CopyLabels
    <2> QED
      BY <1>6, <2>2, <2>3, SendChunkStep DEF Now
  <1>7. CASE WriteChunk(r)
    <2>1. req[r].pc = "write" /\ n < NumChunks[v]
      BY <1>2, <1>3, <1>7, LocalFacts DEF WriteChunk, At, LoopOK
    <2>2. CASE /\ files' = [files EXCEPT ![k][n] = v]
               /\ Now(r, "body", v, n + 1, req[r].cnt, req[r].piece)
      <3>1. \A i \in ChunkIds : i < n => files[k][i] = v
        BY <1>1, <1>2, <1>3, <2>1 DEF WrittenOK
      <3>2. \A i \in ChunkIds : i < n + 1 => files'[k][i] = v
        <4>1. ASSUME NEW i \in ChunkIds, i < n + 1
              PROVE  files'[k][i] = v
          <5>1. i < n \/ i = n
            BY <4>1, UpTo
          <5>2. files'[k][i] = IF i = n THEN v ELSE files[k][i]
            BY <2>2 DEF StoresOK
          <5> QED
            BY <3>1, <5>1, <5>2
        <4> QED
          BY <4>1
      <3> QED
        BY <1>1, <2>2, <3>2 DEF Now, Moves, WrittenOK, CopyLabels
    <2>3. CASE req'[r].pc = "cleanup"
      BY <2>3 DEF Loops, CopyLabels
    <2> QED
      BY <1>1, <1>2, <1>3, <1>7, <2>2, <2>3, WriteChunkStep DEF Now
  <1>8. CASE BodyEnd(r)
    <2>1. UNCHANGED files /\ req[r].pc = "body" /\ n = NumChunks[v]
      BY <1>2, <1>3, <1>8 DEF BodyEnd, At, cacheVars
    <2>2. \A i \in ChunkIds : i < NumChunks[v] => files[k][i] = v
      BY <1>1, <1>2, <1>3, <2>1 DEF WrittenOK
    <2> QED
      BY <1>1, <1>2, <1>8, <2>1, <2>2, BodyEndStep DEF WrittenOK, Goes, Now, Moves, CopyLabels
  <1>9. CASE AwaitUpload(r)
    <2>1. UNCHANGED files /\ req[r].pc = "await"
      BY <1>9 DEF AwaitUpload, At, cacheVars
    <2>2. CASE Stops(r)
      BY <2>2 DEF Stops, Ends, Loops, CopyLabels
    <2>3. CASE Now(r, "register", v, 0, req[r].cnt, req[r].piece)
      <3>1. \A i \in ChunkIds : i < NumChunks[v] => files[k][i] = v
        BY <1>1, <1>2, <2>1 DEF WrittenOK
      <3> QED
        BY <1>1, <1>4, <2>1, <2>3, <3>1 DEF WrittenOK, Now, Moves, CopyLabels
    <2> QED
      BY <1>2, <1>9, <2>2, <2>3, AwaitUploadStep
  <1>10. CASE Register(r)
    <2>1. UNCHANGED files /\ req[r].pc = "register"
      BY <1>10 DEF Register, At
    <2>2. CASE Stops(r)
      BY <2>2 DEF Stops, Ends, Loops, CopyLabels
    <2>3. CASE /\ chunks' = [chunks EXCEPT ![k] = @ \cup {n}]
               /\ Now(r, "register", v, n + 1, req[r].cnt, req[r].piece)
      <3>1. /\ \A i \in ChunkIds : i < NumChunks[v] => files[k][i] = v
            /\ \A i \in ChunkIds : i < n => i \in chunks[k]
        BY <1>1, <1>2, <1>3, <2>1 DEF WrittenOK
      <3>2. \A i \in ChunkIds : i < n + 1 => i \in chunks'[k]
        <4>1. chunks'[k] = chunks[k] \cup {n}
          BY <2>3 DEF StoresOK
        <4> QED
          BY <3>1, <4>1, UpTo
      <3> QED
        BY <1>1, <2>1, <2>3, <3>1, <3>2 DEF WrittenOK, Now, Moves, CopyLabels
    <2> QED
      BY <1>1, <1>2, <1>3, <1>10, <2>2, <2>3, RegisterStep
  <1> QED
    BY <1>6, <1>7, <1>8, <1>9, <1>10

(* The copy loop: when source and destination are different keys, what it  *)
(* writes leaves the source as it was; when they are one, it empties each  *)
(* file it comes to.                                                       *)
LEMMA CopyStepsOK ==
  ASSUME TasksOK, StoresOK, NEW r \in Reqs, CopiedOK(r),
         \/ CopyUpstream(r) \/ CopyReadMeta(r) \/ CopyPutMeta(r)
         \/ CopyChunk(r) \/ CopyFile(r) \/ CopyRow(r)
  PROVE  WrittenOK(r)' /\ CopiedOK(r)'
  <1>1. PICK k \in Keys, s \in Keys : k = req[r].key /\ s = req[r].src
    BY LocalFacts
  <1>2. PICK n \in Nat : n = req[r].idx
    BY LocalFacts
  <1>3. req[r].pc \in CopyLabels
    BY <1>1 DEF CopyUpstream, CopyReadMeta, CopyPutMeta, CopyChunk,
       CopyFile, CopyRow, At, CopyLabels
  <1>4. Handle(r)
    BY DEF Handle
  <1>5. req'[r].key = k /\ req'[r].src = s
    BY <1>1, <1>4, HandleMoves DEF Moves
  <1>6. SUFFICES req'[r].pc \in Loops => CopiedOK(r)' /\ req'[r].pc \in CopyLabels
    BY OutsideOK DEF WrittenOK, CopyLabels
  <1>7. Stops(r) => req'[r].pc \notin Loops
    BY DEF Stops, Ends, Loops, CopyLabels
  <1>8. CASE CopyUpstream(r)
    BY <1>3, <1>5, <1>7, <1>8, CopyUpstreamStep DEF Goes, Now, CopiedOK, CopyLabels
  <1>9. CASE CopyReadMeta(r)
    BY <1>1, <1>3, <1>5, <1>7, <1>9, CopyReadMetaStep
       DEF Now, CopiedOK, CopyLabels, CopyReadMeta, cacheVars
  <1>10. CASE CopyPutMeta(r)
    <2>1. /\ objects[s] = req[r].ver
          /\ objects' = [objects EXCEPT ![k] = req[r].ver]
      BY <1>1, <1>10 DEF CopyPutMeta, CopiedOK, At
    <2>2. objects'[s] = req[r].ver /\ objects'[k] = req[r].ver
      BY <1>3, <2>1 DEF StoresOK
    <2>3. \A i \in ChunkIds : ~(i < 0)
      BY DEF ChunkIds
    <2> QED
      BY <1>3, <1>5, <1>10, <2>2, <2>3, CopyPutMetaStep DEF Now, CopiedOK, CopyLabels
  <1>11. ASSUME req[r].pc \in {"copychunk", "copyfile", "copyrow"}
         PROVE  /\ objects[s] = req[r].ver /\ objects[k] = req[r].ver
                /\ req[r].cnt = NumChunks[req[r].ver]
                /\ \A i \in ChunkIds : i < n =>
                     /\ i \in chunks[s] => i \in chunks[k]
                     /\ i \in chunks[s] /\ files[s][i] # None => files[k][i] = files[s][i]
                     /\ i \in chunks[s] /\ files[s][i] # None /\ s = k => files[k][i] = Partial
                /\ req[r].pc # "copychunk" => n \in chunks[s]
    BY <1>1, <1>2, <1>11 DEF CopiedOK, RowCopied, FileCopied
  <1>12. CASE CopyChunk(r)
    <2>1. UNCHANGED cacheVars /\ req[r].pc = "copychunk"
      BY <1>12 DEF CopyChunk, At
    <2>2. CASE Respond(r, "ok")
      BY <1>7, <2>2, RespondStops DEF Ends
    <2>3. CASE n \in chunks[s] /\ Goto(r, "copyfile")
      <3>1. Goes(r, "copyfile")
        BY <2>3, GotoGoes, LabelType
      <3> QED
        BY <1>1, <1>2, <1>3, <1>5, <1>11, <2>1, <2>3, <3>1
           DEF Goes, Now, CopiedOK, RowCopied, FileCopied, cacheVars, CopyLabels
    <2>4. CASE /\ n < req[r].cnt /\ n \notin chunks[s]
               /\ Becomes(r, [req[r] EXCEPT !.idx = @ + 1])
      <3>1. req[r].idx + 1 \in 0..MaxChunks
        BY <1>2, <2>4, NextFits
      <3>2. Becomes(r, [req[r] EXCEPT !.idx = req[r].idx + 1])
        BY <2>4
      <3>3. Now(r, "copychunk", req[r].ver, n + 1, req[r].cnt, req[r].piece)
        BY <1>2, <2>1, <3>1, <3>2, NextIndex
      <3>4. \A i \in ChunkIds : i < n + 1 =>
              /\ i \in chunks[s] => i \in chunks[k]
              /\ i \in chunks[s] /\ files[s][i] # None => files[k][i] = files[s][i]
              /\ i \in chunks[s] /\ files[s][i] # None /\ s = k => files[k][i] = Partial
        BY <1>11, <2>1, <2>4, UpTo
      <3> QED
        BY <1>1, <1>3, <1>5, <1>11, <2>1, <3>3, <3>4
           DEF Now, CopiedOK, RowCopied, FileCopied, cacheVars, CopyLabels
    <2> QED
      BY <1>1, <1>2, <1>12, <2>2, <2>3, <2>4 DEF CopyChunk
  <1>13. CASE CopyFile(r)
    <2>1. UNCHANGED <<objects, chunks>> /\ req[r].pc = "copyfile"
      BY <1>13 DEF CopyFile, At
    <2>2. CASE Respond(r, "error")
      BY <1>7, <2>2, RespondStops DEF Ends
    <2>3. CASE /\ Goto(r, "copyrow")
               /\ files' = IF files[s][n] = None THEN files
                           ELSE [files EXCEPT ![k][n] = IF s = k THEN Partial ELSE files[s][n]]
      <3>1. Goes(r, "copyrow")
        BY <2>3, GotoGoes, LabelType
      <3>2. n \in ChunkIds
        <4>1. n < req[r].cnt /\ req[r].cnt \in Nat /\ req[r].cnt <= MaxChunks
          BY <1>2, <2>1, LocalFacts DEF LoopOK
        <4> QED
          BY <4>1, SizeAssumption DEF ChunkIds
      <3>3. /\ s # k => files'[s] = files[s]
            /\ \A i \in ChunkIds : i # n => files'[k][i] = files[k][i]
            /\ files[s][n] = None => files'[k][n] = files[k][n]
            /\ files[s][n] # None => files'[k][n] = IF s = k THEN Partial ELSE files[s][n]
        BY <2>3, <3>2 DEF StoresOK
      <3>4. FileCopied(req[r], req[r].idx)'
        <4>1. files'[s][n] # None => /\ files'[k][n] = files'[s][n]
                                     /\ s = k => files'[k][n] = Partial
          BY <3>3
        <4> QED
          BY <1>2, <1>5, <3>1, <4>1 DEF FileCopied, Goes, Now
      <3>5. \A i \in ChunkIds : i < n =>
              /\ i \in chunks'[s] => i \in chunks'[k]
              /\ i \in chunks'[s] /\ files'[s][i] # None => files'[k][i] = files'[s][i]
              /\ i \in chunks'[s] /\ files'[s][i] # None /\ s = k => files'[k][i] = Partial
        <4>1. \A i \in ChunkIds : i < n => files'[k][i] = files[k][i] /\ files'[s][i] = files[s][i]
          BY <3>3 DEF ChunkIds
        <4> QED
          BY <1>11, <2>1, <4>1
      <3> QED
        BY <1>1, <1>2, <1>3, <1>5, <1>11, <2>1, <3>1, <3>4, <3>5
           DEF Goes, Now, CopiedOK, RowCopied, FileCopied, CopyLabels
    <2> QED
      BY <1>1, <1>2, <1>13, <2>2, <2>3 DEF CopyFile
  <1>14. CASE CopyRow(r)
    <2>1. /\ UNCHANGED <<objects, files>> /\ req[r].pc = "copyrow"
          /\ chunks' = [chunks EXCEPT ![k] = @ \cup {n}]
      BY <1>1, <1>2, <1>14 DEF CopyRow, At
    <2>2. chunks'[k] = chunks[k] \cup {n} /\ chunks'[s] = chunks[s]
      BY <1>11, <2>1 DEF StoresOK
    <2>3. n \in chunks[s] /\ files[s][n] # None =>
            files[k][n] = files[s][n] /\ (s = k => files[k][n] = Partial)
      BY <1>1, <1>2, <2>1 DEF CopiedOK, FileCopied
    <2>4. \A i \in ChunkIds : i < n + 1 =>
            /\ i \in chunks'[s] => i \in chunks'[k]
            /\ i \in chunks'[s] /\ files'[s][i] # None => files'[k][i] = files'[s][i]
            /\ i \in chunks'[s] /\ files'[s][i] # None /\ s = k => files'[k][i] = Partial
      BY <1>11, <2>1, <2>2, <2>3, UpTo
    <2> QED
      BY <1>1, <1>2, <1>3, <1>5, <1>11, <1>14, <2>1, <2>4, CopyRowStep
         DEF Now, CopiedOK, RowCopied, FileCopied, CopyLabels
  <1> QED
    BY <1>8, <1>9, <1>10, <1>12, <1>13, <1>14

-----------------------------------------------------------------------------
(* HotInv is kept.                                                         *)

LEMMA MovesAlone ==
  ASSUME Alone, NEW r \in Reqs, Active(r), Moves(r)
  PROVE  Alone'
  <1>1. /\ \A t \in Reqs \ {r} : req'[t] = req[t]
        /\ req'[r].op = req[r].op /\ req'[r].key = req[r].key
        /\ req'[r].src = req[r].src
    BY DEF Moves
  <1>2. \A t \in Reqs : /\ KeysOf(t)' = KeysOf(t) /\ req'[t].op = req[t].op
                        /\ Active(t)' => Active(t)
    BY <1>1 DEF KeysOf, Active
  <1> QED
    BY <1>2 DEF Alone

LEMMA HandleHot ==
  ASSUME TasksOK, StoresOK, HotInv, NEW r \in Reqs, Handle(r)
  PROVE  HotInv'
  <1>1. Active(r) /\ Moves(r)
    BY LabelActive, HandleMoves
  <1>2. Alone'
    BY <1>1, MovesAlone DEF HotInv
  <1>3. WrittenOK(r)' /\ CopiedOK(r)'
    BY OtherStepsOK, PutStepsOK, CopyStepsOK DEF Handle, HotInv
  <1>4. ASSUME NEW t \in Reqs \ {r}
        PROVE  WrittenOK(t)' /\ CopiedOK(t)'
    <2>1. req'[t] = req[t] /\ WrittenOK(t) /\ CopiedOK(t)
      BY <1>1 DEF Moves, HotInv
    <2>2. CASE req[t].pc \notin Loops
      BY <2>1, <2>2, OutsideOK
    <2>3. CASE req[t].pc \in Loops
      <3>1. Active(t)
        BY <2>3 DEF Loops, CopyLabels, Active, Ends
      <3>2. req[t].op \notin {"GET", "HEAD"}
        BY <2>3, LocalFacts DEF LocalsOK, Loops, WriteLabels
      <3>3. KeysOf(t) \cap KeysOf(r) = {}
        BY <1>1, <3>1, <3>2 DEF HotInv, Alone
      <3>4. /\ req[t].key \in Keys \ {req[r].key}
            /\ req[t].src \in Keys \ {req[r].key}
        BY <3>3, LocalFacts DEF KeysOf
      <3> QED
        BY <2>1, <3>4, OwnKeyOnly, KeptOK
    <2> QED
      BY <2>2, <2>3
  <1>5. UNCHANGED evict
    BY DEF Handle, UpstreamHead, Compare, PutMeta, DropStart, DropFile, DropRow,
       DropMeta, Status, NextChunk, Touch, TouchPut, ReadChunk, ColdRead,
       SendChunk, WriteChunk, BodyEnd, AwaitUpload, Register, Cleanup,
       DeleteUpstream, CopyUpstream, CopyReadMeta, CopyPutMeta, CopyChunk,
       CopyFile, CopyRow
  <1> QED
    BY <1>2, <1>3, <1>4, <1>5 DEF HotInv

(* The cache and the tasks that go on are as they were.                    *)
LEMMA StillHot ==
  ASSUME TasksOK, HotInv, UNCHANGED cacheVars,
         evict' = [todo |-> {}, cur |-> None],
         \A t \in Reqs : req'[t] = req[t] \/ req'[t].pc \in Ends
  PROVE  HotInv'
  <1>1. Alone'
    <2>1. \A t \in Reqs : Active(t)' => req'[t] = req[t]
      BY DEF Active
    <2> QED
      BY <2>1 DEF HotInv, Alone, Active, KeysOf
  <1>2. ASSUME NEW t \in Reqs
        PROVE  WrittenOK(t)' /\ CopiedOK(t)'
    <2>1. CASE req'[t] = req[t]
      BY <2>1, KeptOK DEF HotInv, CacheKept, cacheVars
    <2>2. CASE req'[t].pc \in Ends
      BY <2>2, OutsideOK DEF Ends, Loops, CopyLabels
    <2> QED
      BY <2>1, <2>2
  <1> QED
    BY <1>1, <1>2 DEF HotInv

LEMMA ArriveHot ==
  ASSUME Undisturbed, TasksOK, StoresOK, HotInv, NEW r \in Reqs, Arrive(r)
  PROVE  HotInv'
  <1>1. PICK o \in OpKinds, k \in Keys, s \in Keys, v \in Maybe(Versions), l \in Labels :
          /\ Begin(r, o, k, s, v, l)
          /\ l \in {"head", "drop", "delete", "copyup"}
    <2>1. None \in Maybe(Versions) /\ \A v \in Versions : v \in Maybe(Versions)
      BY DEF Maybe
    <2>2. CASE \E k \in Keys : GetObject(r, k) \/ HeadObject(r, k) \/ DeleteObject(r, k)
      BY <2>1, <2>2, LabelType DEF GetObject, HeadObject, DeleteObject, OpKinds
    <2>3. CASE \E k \in Keys, v \in Versions : PutObject(r, k, v)
      BY <2>1, <2>3, LabelType DEF PutObject, OpKinds
    <2>4. CASE \E k \in Keys : \E s \in Keys : CopyObject(r, k, s)
      BY <2>1, <2>4, LabelType DEF CopyObject, OpKinds
    <2> QED
      BY <2>2, <2>3, <2>4 DEF Arrive
  <1>2. /\ \A t \in Reqs \ {r} : req'[t] = req[t]
        /\ req'[r].pc = l /\ req'[r].op = o /\ req'[r].key = k /\ req'[r].src = s
    BY <1>1, BeginStep
  <1>3. UNCHANGED <<cacheVars, evict>> /\ Free(r, o, {k, s})
    BY <1>1 DEF Begin
  <1>4. \A t \in Reqs \ {r} : Active(t) /\ KeysOf(t) \cap {k, s} # {} =>
          o \in {"GET", "HEAD"} /\ req[t].op \in {"GET", "HEAD"}
    BY <1>3 DEF Free, MayOverlap, Undisturbed
  <1>5. Alone'
    <2>1. KeysOf(r)' = {k, s}
      BY <1>2 DEF KeysOf
    <2>2. \A t \in Reqs \ {r} : /\ KeysOf(t)' = KeysOf(t) /\ (Active(t)' <=> Active(t))
                                /\ req'[t].op = req[t].op
      BY <1>2 DEF KeysOf, Active
    <2>3. \A t \in Reqs, u \in Reqs : t # u /\ t # r /\ u # r /\ Active(t)' /\ Active(u)'
            /\ KeysOf(t)' \cap KeysOf(u)' # {} => req'[t].op \in {"GET", "HEAD"}
      BY <2>2 DEF HotInv, Alone
    <2>4. \A t \in Reqs \ {r} : Active(t)' /\ KeysOf(t)' \cap KeysOf(r)' # {} =>
            req'[t].op \in {"GET", "HEAD"} /\ req'[r].op \in {"GET", "HEAD"}
      BY <1>2, <1>4, <2>1, <2>2
    <2>5. \A t \in Reqs \ {r} : KeysOf(r)' \cap KeysOf(t)' = KeysOf(t)' \cap KeysOf(r)'
      OBVIOUS
    <2> QED
      BY <2>3, <2>4, <2>5 DEF Alone
  <1>6. WrittenOK(r)' /\ CopiedOK(r)'
    BY <1>1, <1>2 DEF WrittenOK, CopiedOK, CopyLabels
  <1>7. \A t \in Reqs \ {r} : WrittenOK(t)' /\ CopiedOK(t)'
    BY <1>2, <1>3, KeptOK DEF HotInv, CacheKept, cacheVars
  <1> QED
    BY <1>3, <1>5, <1>6, <1>7 DEF HotInv

LEMMA InitHot == Init => HotInv
  <1> SUFFICES ASSUME Init PROVE HotInv
    OBVIOUS
  <1>1. \A r \in Reqs : req[r].pc = "idle"
    BY DEF Init, Fresh
  <1> QED
    BY <1>1 DEF Init, HotInv, Alone, Active, Ends, WrittenOK, CopiedOK, CopyLabels

LEMMA NextHot ==
  ASSUME Undisturbed, LoopInv, HotInv, [Next]_vars
  PROVE  HotInv'
  <1>1. TasksOK /\ StoresOK
    BY LoopInvSplit
  <1>2. ASSUME NEW r \in Reqs, Arrive(r) \/ Handle(r)
        PROVE  HotInv'
    BY <1>1, <1>2, ArriveHot, HandleHot
  <1>3. ASSUME NEW r \in Reqs, Upload(r)
        PROVE  HotInv'
    BY <1>1, <1>3, StillHot DEF Upload, UploadLands, UploadFails, HotInv
  <1>4. ASSUME NEW r \in Reqs, Cancel(r)
        PROVE  HotInv'
    <2>1. \A t \in Reqs : req'[t] = req[t] \/ req'[t].pc \in Ends
      BY <1>1, <1>4, CancelStep DEF Stops, Moves
    <2> QED
      BY <1>1, <1>4, <2>1, StillHot DEF Cancel, HotInv
  <1>5. ~Evict
    BY SlotsAssumption DEF Evict, EvictList, EvictStop, EvictFile, EvictRow,
       HotInv, Undisturbed
  <1>6. ASSUME NEW k \in Keys, NEW v \in Maybe(Versions), DirectWrite(k, v)
        PROVE  HotInv'
    BY <1>1, <1>6, StillHot DEF DirectWrite, HotInv
  <1>7. CASE Crash
    <2>1. ASSUME NEW t \in Reqs
          PROVE  req'[t].pc \in Ends
      BY <1>7 DEF Crash, Ended, Fresh, Ends, Active
    <2>2. \A t \in Reqs : WrittenOK(t)' /\ CopiedOK(t)'
      BY <2>1, OutsideOK DEF Ends, Loops, CopyLabels
    <2> QED
      BY <1>7, <2>1, <2>2 DEF Crash, HotInv, Alone, Active
  <1>8. CASE UNCHANGED vars
    BY <1>1, <1>8, StillHot DEF vars, cacheVars, HotInv
  <1> QED
    BY <1>2, <1>3, <1>4, <1>5, <1>6, <1>7, <1>8 DEF Next

-----------------------------------------------------------------------------
(* The steps that answer.                                                  *)

LEMMA PutAnswers ==
  ASSUME TasksOK, StoresOK, NEW r \in Reqs, req[r].op = "PUT", Handle(r),
         req'[r].pc = "ok"
  PROVE  Register(r)
  <1>1. req[r].pc \notin MetaLabels \cup ReadLabels \cup CopyLabels \cup {"delete"}
    BY LocalFacts DEF LocalsOK
  <1>2. \/ DropStart(r) \/ DropFile(r) \/ DropRow(r) \/ DropMeta(r)
        \/ SendChunk(r) \/ WriteChunk(r) \/ BodyEnd(r) \/ AwaitUpload(r)
        \/ Register(r) \/ Cleanup(r)
    BY <1>1 DEF Handle, UpstreamHead, Compare, PutMeta, Status, NextChunk,
       Touch, TouchPut, ReadChunk, ColdRead, DeleteUpstream, CopyUpstream,
       CopyReadMeta, CopyPutMeta, CopyChunk, CopyFile, CopyRow, At,
       MetaLabels, ReadLabels, CopyLabels
  <1>3. Respond(r, "error") => FALSE
    BY RespondKeeps DEF Ends
  <1>4. ~DropStart(r) /\ ~DropFile(r) /\ ~DropRow(r)
    BY DropStartStep, DropFileStep, DropRowStep DEF Now, Goes
  <1>5. ~DropMeta(r)
    <2>1. DropMeta(r) => Becomes(r, [req[r] EXCEPT !.pc = "body", !.idx = 0, !.cnt = 0])
      BY DEF DropMeta
    <2> QED
      BY <2>1, ToBody DEF Now
  <1>6. ~SendChunk(r) /\ ~WriteChunk(r) /\ ~BodyEnd(r)
    BY SendChunkStep, WriteChunkStep, BodyEndStep DEF Now, Goes
  <1>7. ~AwaitUpload(r)
    <2>1. AwaitUpload(r) => Becomes(r, [req[r] EXCEPT !.pc = "register", !.idx = 0])
      BY <1>3 DEF AwaitUpload
    <2> QED
      BY <2>1, ToRegister DEF Now
  <1>8. ~Cleanup(r)
    <2>1. ASSUME Cleanup(r) PROVE FALSE
      <3>1. /\ req[r].pc = "cleanup" /\ req[r].idx < req[r].cnt
            /\ Becomes(r, [req[r] EXCEPT !.idx = req[r].idx + 1])
        BY <1>3, <2>1 DEF Cleanup, At
      <3>2. req[r].idx + 1 \in 0..MaxChunks
        BY <3>1, NextFits
      <3> QED
        BY <3>1, <3>2, NextIndex DEF Now
    <2> QED
      BY <2>1
  <1> QED
    BY <1>2, <1>4, <1>5, <1>6, <1>7, <1>8

LEMMA CopyAnswers ==
  ASSUME TasksOK, StoresOK, NEW r \in Reqs, req[r].op = "COPY", Handle(r),
         req'[r].pc = "ok"
  PROVE  \/ CopyReadMeta(r) /\ objects[req[r].src] = None
         \/ CopyChunk(r) /\ req[r].idx = req[r].cnt
  <1>1. req[r].pc \notin MetaLabels \cup DropLabels \cup ReadLabels
                           \cup WriteLabels \cup {"register", "delete"}
    BY LocalFacts DEF LocalsOK
  <1>2. \/ CopyUpstream(r) \/ CopyReadMeta(r) \/ CopyPutMeta(r)
        \/ CopyChunk(r) \/ CopyFile(r) \/ CopyRow(r)
    BY <1>1 DEF Handle, UpstreamHead, Compare, PutMeta, DropStart, DropFile,
       DropRow, DropMeta, Status, NextChunk, Touch, TouchPut, ReadChunk,
       ColdRead, SendChunk, WriteChunk, BodyEnd, AwaitUpload, Register, Cleanup,
       DeleteUpstream, At, MetaLabels, DropLabels, ReadLabels, WriteLabels
  <1>3. Respond(r, "error") => FALSE
    BY RespondKeeps DEF Ends
  <1>4. ASSUME NEW l \in {"copyread", "copyfile", "copyrow"}, Goto(r, l)
        PROVE  FALSE
    BY <1>4, GotoGoes, LabelType DEF Goes, Now
  <1>5. ~CopyUpstream(r)
    BY <1>3, <1>4 DEF CopyUpstream
  <1>6. ~CopyFile(r)
    BY <1>3, <1>4 DEF CopyFile
  <1>7. ~CopyPutMeta(r) /\ ~CopyRow(r)
    BY CopyPutMetaStep, CopyRowStep DEF Now
  <1>8. CopyReadMeta(r) => objects[req[r].src] = None
    <2>1. ASSUME NEW v \in Maybe(Versions),
                 Becomes(r, [req[r] EXCEPT !.pc = "copyput", !.ver = v])
          PROVE  FALSE
      BY <2>1, ToCopyPut DEF Now
    <2>2. objects[req[r].src] \in Maybe(Versions)
      BY LocalFacts DEF StoresOK
    <2> QED
      BY <2>1, <2>2 DEF CopyReadMeta
  <1>9. CopyChunk(r) => req[r].idx = req[r].cnt
    <2>1. ASSUME CopyChunk(r), req[r].idx # req[r].cnt PROVE FALSE
      <3>1. /\ req[r].pc = "copychunk" /\ req[r].idx < req[r].cnt
            /\ Becomes(r, [req[r] EXCEPT !.idx = req[r].idx + 1])
        BY <1>4, <2>1 DEF CopyChunk, At
      <3>2. req[r].idx + 1 \in 0..MaxChunks
        BY <3>1, NextFits
      <3> QED
        BY <3>1, <3>2, NextIndex DEF Now
    <2> QED
      BY <2>1
  <1> QED
    BY <1>2, <1>5, <1>6, <1>7, <1>8, <1>9

-----------------------------------------------------------------------------
(* The inductive invariant behind the two results below.                   *)
THEOREM HotInvariant ==
  ASSUME Undisturbed
  PROVE  Spec => []HotInv
  <1>1. Init => HotInv
    BY InitHot
  <1>2. LoopInv /\ HotInv /\ [Next]_vars => HotInv'
    BY NextHot
  <1> QED
    BY <1>1, <1>2, LoopInvariant, PTL DEF Spec

(* When write_and_cache_object lets a PUT be answered, metadata, every row *)
(* and every file are there and of the version sent: whatever an earlier   *)
(* request, a failed deletion, a disconnect or a crash left under the key, *)
(* and whatever GETs and HEADs overlap elsewhere.                          *)
THEOREM PutsCacheWhole ==
  ASSUME Undisturbed
  PROVE  Spec => PutCachesWhole
  <1> DEFINE Whole ==
        \A r \in Reqs : req[r].op = "PUT" /\ Answers(r) =>
          LET k == req[r].key
              v == req[r].ver
          IN  /\ objects'[k] = v
              /\ \A i \in ChunkIds : i < NumChunks[v] =>
                   i \in chunks'[k] /\ files'[k][i] = v
  <1>1. LoopInv /\ HotInv /\ [Next]_vars => [Whole]_vars
    <2> SUFFICES ASSUME LoopInv, HotInv, [Next]_vars, NEW r \in Reqs,
                        req[r].op = "PUT", Answers(r)
                 PROVE  /\ objects'[req[r].key] = req[r].ver
                        /\ \A i \in ChunkIds : i < NumChunks[req[r].ver] =>
                             /\ i \in chunks'[req[r].key]
                             /\ files'[req[r].key][i] = req[r].ver
      OBVIOUS
    <2>1. TasksOK /\ StoresOK
      BY LoopInvSplit
    <2>2. Register(r) /\ req'[r].pc = "ok"
      BY <2>1, AnswersHandle, PutAnswers DEF Answers
    <2>3. /\ req[r].pc = "register" /\ UNCHANGED files
          /\ req[r].key \in Keys
      BY <2>1, <2>2, LocalFacts DEF Register, At
    <2>4. /\ req[r].idx = NumChunks[req[r].ver] /\ UNCHANGED chunks
          /\ objects' = [objects EXCEPT ![req[r].key] = req[r].ver]
      BY <2>1, <2>2, RegisterStep DEF Now
    <2>5. objects'[req[r].key] = req[r].ver
      BY <2>1, <2>3, <2>4 DEF StoresOK
    <2>6. WrittenOK(r)
      BY DEF HotInv
    <2> QED
      BY <2>3, <2>4, <2>5, <2>6 DEF WrittenOK
  <1> QED
    BY <1>1, LoopInvariant, HotInvariant, PTL DEF Spec, PutCachesWhole

(* When copy_cache_object lets a COPY be answered, the destination has the *)
(* metadata of the source, a row for each of its recorded chunks, and the  *)
(* file of each that has one, whatever the destination held before; after  *)
(* a COPY of a key onto itself the rows are there and no file is whole.    *)
THEOREM CopiesAreHot ==
  ASSUME Undisturbed
  PROVE  Spec => CopyIsHot
  <1> DEFINE Hot(r) ==
        objects[req[r].src] # None =>
          /\ objects'[req[r].key] = objects[req[r].src]
          /\ \A i \in chunks[req[r].src] : i < NumChunks[objects[req[r].src]] =>
               /\ i \in chunks'[req[r].key]
               /\ IF req[r].src = req[r].key
                    THEN files'[req[r].key][i] \in {None, Partial}
                    ELSE files[req[r].src][i] # None =>
                           files'[req[r].key][i] = files[req[r].src][i]
  <1>1. LoopInv /\ HotInv /\ [Next]_vars
          => [\A r \in Reqs : req[r].op = "COPY" /\ Answers(r) => Hot(r)]_vars
    <2> SUFFICES ASSUME LoopInv, HotInv, [Next]_vars, NEW r \in Reqs,
                        req[r].op = "COPY", Answers(r), objects[req[r].src] # None
                 PROVE  Hot(r)
      OBVIOUS
    <2>1. TasksOK /\ StoresOK
      BY LoopInvSplit
    <2>2. CopyChunk(r) /\ req[r].idx = req[r].cnt
      BY <2>1, AnswersHandle, CopyAnswers DEF Answers
    <2>3. req[r].pc = "copychunk" /\ UNCHANGED <<objects, chunks, files>>
      BY <2>2 DEF CopyChunk, At, cacheVars
    <2>4. /\ objects[req[r].src] = req[r].ver /\ objects[req[r].key] = req[r].ver
          /\ req[r].cnt = NumChunks[req[r].ver]
          /\ \A i \in ChunkIds : i < req[r].idx =>
               RowCopied(req[r], i) /\ FileCopied(req[r], i)
      BY <2>3 DEF HotInv, CopiedOK
    <2>5. chunks[req[r].src] \subseteq ChunkIds
      BY <2>1, LocalFacts DEF StoresOK
    <2> QED
      BY <2>2, <2>3, <2>4, <2>5 DEF RowCopied, FileCopied
  <1> QED
    BY <1>1, LoopInvariant, HotInvariant, PTL DEF Spec, CopyIsHot

=============================================================================
