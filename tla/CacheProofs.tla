---------------------------- MODULE CacheProofs -----------------------------
(***************************************************************************)
(* Theorems about CacheCoordinator for every choice of keys, versions,     *)
(* sizes, requests, operations and environment.                            *)
(***************************************************************************)
EXTENDS CacheInvariants, TLAPS

(* Sizes are natural numbers.                                              *)
LEMMA SizeType ==
  /\ MaxChunks \in Nat
  /\ \A v \in Versions : NumChunks[v] \in Nat /\ NumChunks[v] <= MaxChunks
  BY SizeAssumption

LEMMA LengthType ==
  ASSUME NEW v \in Maybe(Versions)
  PROVE  Length(v) \in Nat /\ Length(v) <= MaxChunks
  BY SizeType DEF Length, Maybe

(* Every label a task is sent to is a label.                               *)
LEMMA LabelType ==
  {"idle", "ok", "nokey", "error", "head", "compare", "putmeta", "drop",
   "dropfile", "droprow", "status", "stream", "touch", "touchput", "read",
   "cold", "body", "write", "await", "cleanup", "copyup", "copyread",
   "copyput", "copychunk", "copyfile", "copyrow", "register", "delete"}
  \subseteq Labels
  BY DEF Labels, Ends, MetaLabels, DropLabels, ReadLabels, WriteLabels, CopyLabels

-----------------------------------------------------------------------------
(* The record of a task: its fields, and what the actions make of it.      *)

LEMMA FieldType ==
  ASSUME NEW q \in Request
  PROVE  /\ q.op \in OpKinds /\ q.key \in Keys /\ q.src \in Keys
         /\ q.ver \in Maybe(Versions) /\ q.piece \in Maybe(Versions)
         /\ q.pass \in {1, 2}
         /\ q.lo \in Nat /\ q.hi \in Nat /\ q.idx \in Nat /\ q.cnt \in Nat
         /\ q.lo <= MaxChunks /\ q.hi <= MaxChunks
         /\ q.idx <= MaxChunks /\ q.cnt <= MaxChunks
  BY SizeType DEF Request

LEMMA FreshType ==
  ASSUME NEW o \in OpKinds, NEW k \in Keys, NEW s \in Keys,
         NEW v \in Maybe(Versions), NEW l \in Labels
  PROVE  [Fresh(o, k, s, v) EXCEPT !.pc = l] \in Request
  BY SizeType DEF Fresh, Request, Maybe

-----------------------------------------------------------------------------
(* LoopInv, taken apart into the tasks and the rest of the state.          *)

TaskOK(q) == q \in Request /\ LocalsOK(q) /\ LoopOK(q)
TasksOK == req \in [Reqs -> Request] /\ \A r \in Reqs : TaskOK(req[r])

StoresOK ==
  /\ upstream \in [Keys -> Maybe(Versions)]
  /\ objects \in [Keys -> Maybe(Versions)]
  /\ chunks \in [Keys -> SUBSET ChunkIds]
  /\ files \in [Keys -> [ChunkIds -> Contents]]
  /\ upload \in [Reqs -> UploadStates]
  /\ evict \in [todo : SUBSET Slots, cur : Maybe(Slots)]
  /\ seen \in [Reqs -> SUBSET Maybe(Versions)]

LEMMA LoopInvSplit == LoopInv <=> TasksOK /\ StoresOK
  BY DEF LoopInv, TypeOK, TasksOK, StoresOK, TaskOK

-----------------------------------------------------------------------------
(* What a step does to the record of task r; the other tasks keep theirs.  *)

Moves(r) == /\ req' \in [Reqs -> Request]
            /\ req'[r] \in Request
            /\ \A s \in Reqs \ {r} : req'[s] = req[s]
            /\ req'[r].op = req[r].op
            /\ req'[r].key = req[r].key
            /\ req'[r].src = req[r].src

(* The task goes to label l with these locals.                             *)
Now(r, l, v, i, n, d) ==
  /\ Moves(r)
  /\ req'[r].pc = l /\ req'[r].ver = v
  /\ req'[r].idx = i /\ req'[r].cnt = n /\ req'[r].piece = d

(* It goes to label l with the locals it has.                              *)
Goes(r, l) == Now(r, l, req[r].ver, req[r].idx, req[r].cnt, req[r].piece)

(* It ends.                                                                *)
Stops(r) == Moves(r) /\ req'[r].pc \in Ends /\ req'[r].piece = None

LEMMA Becoming ==
  ASSUME TasksOK, NEW r \in Reqs, NEW q \in Request, Becomes(r, q)
  PROVE  /\ req' \in [Reqs -> Request] /\ req'[r] = q
         /\ \A s \in Reqs \ {r} : req'[s] = req[s]
  BY DEF TasksOK, Becomes

LEMMA NowBecomes ==
  ASSUME TasksOK, NEW r \in Reqs, NEW q \in Request, Becomes(r, q),
         q.op = req[r].op, q.key = req[r].key, q.src = req[r].src
  PROVE  Now(r, q.pc, q.ver, q.idx, q.cnt, q.piece)
  BY Becoming DEF Now, Moves

LEMMA GotoGoes ==
  ASSUME TasksOK, NEW r \in Reqs, NEW l \in Labels, Goto(r, l)
  PROVE  Goes(r, l)
  <1> DEFINE q == [req[r] EXCEPT !.pc = l]
  <1>1. req[r] \in Request
    BY DEF TasksOK
  <1>2. /\ q \in Request /\ q.pc = l /\ q.op = req[r].op /\ q.key = req[r].key
        /\ q.src = req[r].src /\ q.ver = req[r].ver /\ q.idx = req[r].idx
        /\ q.cnt = req[r].cnt /\ q.piece = req[r].piece
    BY <1>1, Zenon DEF Request
  <1>3. Becomes(r, q)
    BY DEF Goto
  <1> HIDE DEF q
  <1> QED
    BY <1>2, <1>3, NowBecomes DEF Goes

LEMMA RespondStops ==
  ASSUME TasksOK, NEW r \in Reqs, NEW e \in Ends, Respond(r, e)
  PROVE  Stops(r)
  <1>1. req[r] \in Request /\ e \in Labels
    BY DEF TasksOK, Labels
  <1>2. Ended(r, e) \in Request
    BY <1>1, FreshType, FieldType DEF Ended
  <1>3. /\ Ended(r, e).op = req[r].op /\ Ended(r, e).key = req[r].key
        /\ Ended(r, e).src = req[r].src
        /\ Ended(r, e).pc = e /\ Ended(r, e).piece = None
    BY DEF Ended, Fresh
  <1> QED
    BY <1>2, <1>3, Becoming DEF Respond, Stops, Moves

LEMMA LocalFacts ==
  ASSUME TasksOK, NEW r \in Reqs
  PROVE  /\ req[r] \in Request
         /\ req[r].op \in OpKinds /\ req[r].key \in Keys /\ req[r].src \in Keys
         /\ req[r].ver \in Maybe(Versions)
         /\ req[r].lo \in 0..MaxChunks /\ req[r].hi \in 0..MaxChunks
         /\ req[r].idx \in Nat /\ req[r].cnt \in Nat
         /\ req[r].idx <= MaxChunks /\ req[r].cnt <= MaxChunks
         /\ LocalsOK(req[r]) /\ LoopOK(req[r])
  BY FieldType DEF TasksOK, TaskOK

-----------------------------------------------------------------------------
(* What each step that assigns more than the label does to its task.       *)

LEMMA ToCompare ==
  ASSUME TasksOK, NEW r \in Reqs,
         NEW v \in Maybe(Versions),
         Becomes(r, [req[r] EXCEPT !.pc = "compare", !.ver = v])
  PROVE  Now(r, "compare", v, req[r].idx, req[r].cnt, req[r].piece)
  <1> DEFINE q == [req[r] EXCEPT !.pc = "compare", !.ver = v]
  <1>1. req[r] \in Request /\ "compare" \in Labels
    BY LabelType DEF TasksOK
  <1>2. /\ q \in Request /\ q.op = req[r].op /\ q.key = req[r].key
        /\ q.src = req[r].src /\ q.pc = "compare" /\ q.ver = v
        /\ q.idx = req[r].idx /\ q.cnt = req[r].cnt
        /\ q.piece = req[r].piece
    BY <1>1, Zenon DEF Request
  <1>3. Becomes(r, q)
    OBVIOUS
  <1> HIDE DEF q
  <1> QED
    BY <1>2, <1>3, NowBecomes

LEMMA ToHead ==
  ASSUME TasksOK, NEW r \in Reqs,
         NEW lo \in 0..MaxChunks,
         NEW hi \in 0..MaxChunks,
         Becomes(r, [req[r] EXCEPT !.pc = "head", !.pass = 2, !.lo = lo, !.hi = hi])
  PROVE  Now(r, "head", req[r].ver, req[r].idx, req[r].cnt, req[r].piece)
  <1> DEFINE q == [req[r] EXCEPT !.pc = "head", !.pass = 2, !.lo = lo, !.hi = hi]
  <1>1. req[r] \in Request /\ "head" \in Labels
    BY LabelType DEF TasksOK
  <1>2. /\ q \in Request /\ q.op = req[r].op /\ q.key = req[r].key
        /\ q.src = req[r].src /\ q.pc = "head" /\ q.ver = req[r].ver
        /\ q.idx = req[r].idx /\ q.cnt = req[r].cnt
        /\ q.piece = req[r].piece
    BY <1>1, Zenon DEF Request
  <1>3. Becomes(r, q)
    OBVIOUS
  <1> HIDE DEF q
  <1> QED
    BY <1>2, <1>3, NowBecomes

LEMMA ToStatus ==
  ASSUME TasksOK, NEW r \in Reqs,
         NEW i \in 0..MaxChunks,
         NEW n \in 0..MaxChunks,
         Becomes(r, [req[r] EXCEPT !.pc = "status", !.idx = i, !.cnt = n])
  PROVE  Now(r, "status", req[r].ver, i, n, req[r].piece)
  <1> DEFINE q == [req[r] EXCEPT !.pc = "status", !.idx = i, !.cnt = n]
  <1>1. req[r] \in Request /\ "status" \in Labels
    BY LabelType DEF TasksOK
  <1>2. /\ q \in Request /\ q.op = req[r].op /\ q.key = req[r].key
        /\ q.src = req[r].src /\ q.pc = "status" /\ q.ver = req[r].ver
        /\ q.idx = i /\ q.cnt = n
        /\ q.piece = req[r].piece
    BY <1>1, Zenon DEF Request
  <1>3. Becomes(r, q)
    OBVIOUS
  <1> HIDE DEF q
  <1> QED
    BY <1>2, <1>3, NowBecomes

LEMMA ToDropFile ==
  ASSUME TasksOK, NEW r \in Reqs,
         NEW n \in 0..MaxChunks,
         Becomes(r, [req[r] EXCEPT !.pc = "dropfile", !.idx = 0, !.cnt = n])
  PROVE  Now(r, "dropfile", req[r].ver, 0, n, req[r].piece)
  <1> DEFINE q == [req[r] EXCEPT !.pc = "dropfile", !.idx = 0, !.cnt = n]
  <1>1. req[r] \in Request /\ "dropfile" \in Labels
    BY LabelType DEF TasksOK
  <1>2. 0 \in 0..MaxChunks
    BY SizeType
  <1>3. /\ q \in Request /\ q.op = req[r].op /\ q.key = req[r].key
        /\ q.src = req[r].src /\ q.pc = "dropfile" /\ q.ver = req[r].ver
        /\ q.idx = 0 /\ q.cnt = n
        /\ q.piece = req[r].piece
    BY <1>1, <1>2, Zenon DEF Request
  <1>4. Becomes(r, q)
    OBVIOUS
  <1> HIDE DEF q
  <1> QED
    BY <1>3, <1>4, NowBecomes

LEMMA ToBody ==
  ASSUME TasksOK, NEW r \in Reqs,
         Becomes(r, [req[r] EXCEPT !.pc = "body", !.idx = 0, !.cnt = 0])
  PROVE  Now(r, "body", req[r].ver, 0, 0, req[r].piece)
  <1> DEFINE q == [req[r] EXCEPT !.pc = "body", !.idx = 0, !.cnt = 0]
  <1>1. req[r] \in Request /\ "body" \in Labels
    BY LabelType DEF TasksOK
  <1>2. 0 \in 0..MaxChunks
    BY SizeType
  <1>3. /\ q \in Request /\ q.op = req[r].op /\ q.key = req[r].key
        /\ q.src = req[r].src /\ q.pc = "body" /\ q.ver = req[r].ver
        /\ q.idx = 0 /\ q.cnt = 0
        /\ q.piece = req[r].piece
    BY <1>1, <1>2, Zenon DEF Request
  <1>4. Becomes(r, q)
    OBVIOUS
  <1> HIDE DEF q
  <1> QED
    BY <1>3, <1>4, NowBecomes

LEMMA ToStream ==
  ASSUME TasksOK, NEW r \in Reqs,
         NEW c \in {"hot", "cold"},
         Becomes(r, [req[r] EXCEPT !.pc = "stream", !.cached = c])
  PROVE  Now(r, "stream", req[r].ver, req[r].idx, req[r].cnt, req[r].piece)
  <1> DEFINE q == [req[r] EXCEPT !.pc = "stream", !.cached = c]
  <1>1. req[r] \in Request /\ "stream" \in Labels
    BY LabelType DEF TasksOK
  <1>2. /\ q \in Request /\ q.op = req[r].op /\ q.key = req[r].key
        /\ q.src = req[r].src /\ q.pc = "stream" /\ q.ver = req[r].ver
        /\ q.idx = req[r].idx /\ q.cnt = req[r].cnt
        /\ q.piece = req[r].piece
    BY <1>1, Zenon DEF Request
  <1>3. Becomes(r, q)
    OBVIOUS
  <1> HIDE DEF q
  <1> QED
    BY <1>2, <1>3, NowBecomes

LEMMA NextDrop ==
  ASSUME TasksOK, NEW r \in Reqs,
         req[r].idx + 1 \in 0..MaxChunks,
         Becomes(r, [req[r] EXCEPT !.pc = "dropfile", !.idx = @ + 1])
  PROVE  Now(r, "dropfile", req[r].ver, req[r].idx + 1, req[r].cnt, req[r].piece)
  <1> DEFINE q == [req[r] EXCEPT !.pc = "dropfile", !.idx = @ + 1]
  <1>1. req[r] \in Request /\ "dropfile" \in Labels
    BY LabelType DEF TasksOK
  <1>2. /\ q \in Request /\ q.op = req[r].op /\ q.key = req[r].key
        /\ q.src = req[r].src /\ q.pc = "dropfile" /\ q.ver = req[r].ver
        /\ q.idx = req[r].idx + 1 /\ q.cnt = req[r].cnt
        /\ q.piece = req[r].piece
    BY <1>1, Zenon DEF Request
  <1>3. Becomes(r, q)
    OBVIOUS
  <1> HIDE DEF q
  <1> QED
    BY <1>2, <1>3, NowBecomes

LEMMA NextPiece ==
  ASSUME TasksOK, NEW r \in Reqs,
         req[r].idx + 1 \in 0..MaxChunks,
         NEW d \in Maybe(Versions),
         Becomes(r, [req[r] EXCEPT !.pc = "stream", !.piece = d, !.idx = @ + 1])
  PROVE  Now(r, "stream", req[r].ver, req[r].idx + 1, req[r].cnt, d)
  <1> DEFINE q == [req[r] EXCEPT !.pc = "stream", !.piece = d, !.idx = @ + 1]
  <1>1. req[r] \in Request /\ "stream" \in Labels
    BY LabelType DEF TasksOK
  <1>2. /\ q \in Request /\ q.op = req[r].op /\ q.key = req[r].key
        /\ q.src = req[r].src /\ q.pc = "stream" /\ q.ver = req[r].ver
        /\ q.idx = req[r].idx + 1 /\ q.cnt = req[r].cnt
        /\ q.piece = d
    BY <1>1, Zenon DEF Request
  <1>3. Becomes(r, q)
    OBVIOUS
  <1> HIDE DEF q
  <1> QED
    BY <1>2, <1>3, NowBecomes

LEMMA ToCleanup ==
  ASSUME TasksOK, NEW r \in Reqs,
         req[r].idx + 1 \in 0..MaxChunks,
         Becomes(r, [req[r] EXCEPT !.pc = "cleanup", !.cnt = req[r].idx + 1, !.idx = 0])
  PROVE  Now(r, "cleanup", req[r].ver, 0, req[r].idx + 1, req[r].piece)
  <1> DEFINE q == [req[r] EXCEPT !.pc = "cleanup", !.cnt = req[r].idx + 1, !.idx = 0]
  <1>1. req[r] \in Request /\ "cleanup" \in Labels
    BY LabelType DEF TasksOK
  <1>2. 0 \in 0..MaxChunks
    BY SizeType
  <1>3. /\ q \in Request /\ q.op = req[r].op /\ q.key = req[r].key
        /\ q.src = req[r].src /\ q.pc = "cleanup" /\ q.ver = req[r].ver
        /\ q.idx = 0 /\ q.cnt = req[r].idx + 1
        /\ q.piece = req[r].piece
    BY <1>1, <1>2, Zenon DEF Request
  <1>4. Becomes(r, q)
    OBVIOUS
  <1> HIDE DEF q
  <1> QED
    BY <1>3, <1>4, NowBecomes

LEMMA NextBody ==
  ASSUME TasksOK, NEW r \in Reqs,
         req[r].idx + 1 \in 0..MaxChunks,
         Becomes(r, [req[r] EXCEPT !.pc = "body", !.idx = req[r].idx + 1])
  PROVE  Now(r, "body", req[r].ver, req[r].idx + 1, req[r].cnt, req[r].piece)
  <1> DEFINE q == [req[r] EXCEPT !.pc = "body", !.idx = req[r].idx + 1]
  <1>1. req[r] \in Request /\ "body" \in Labels
    BY LabelType DEF TasksOK
  <1>2. /\ q \in Request /\ q.op = req[r].op /\ q.key = req[r].key
        /\ q.src = req[r].src /\ q.pc = "body" /\ q.ver = req[r].ver
        /\ q.idx = req[r].idx + 1 /\ q.cnt = req[r].cnt
        /\ q.piece = req[r].piece
    BY <1>1, Zenon DEF Request
  <1>3. Becomes(r, q)
    OBVIOUS
  <1> HIDE DEF q
  <1> QED
    BY <1>2, <1>3, NowBecomes

LEMMA ToRegister ==
  ASSUME TasksOK, NEW r \in Reqs,
         Becomes(r, [req[r] EXCEPT !.pc = "register", !.idx = 0])
  PROVE  Now(r, "register", req[r].ver, 0, req[r].cnt, req[r].piece)
  <1> DEFINE q == [req[r] EXCEPT !.pc = "register", !.idx = 0]
  <1>1. req[r] \in Request /\ "register" \in Labels
    BY LabelType DEF TasksOK
  <1>2. 0 \in 0..MaxChunks
    BY SizeType
  <1>3. /\ q \in Request /\ q.op = req[r].op /\ q.key = req[r].key
        /\ q.src = req[r].src /\ q.pc = "register" /\ q.ver = req[r].ver
        /\ q.idx = 0 /\ q.cnt = req[r].cnt
        /\ q.piece = req[r].piece
    BY <1>1, <1>2, Zenon DEF Request
  <1>4. Becomes(r, q)
    OBVIOUS
  <1> HIDE DEF q
  <1> QED
    BY <1>3, <1>4, NowBecomes

LEMMA NextIndex ==
  ASSUME TasksOK, NEW r \in Reqs,
         req[r].idx + 1 \in 0..MaxChunks,
         Becomes(r, [req[r] EXCEPT !.idx = req[r].idx + 1])
  PROVE  Now(r, req[r].pc, req[r].ver, req[r].idx + 1, req[r].cnt, req[r].piece)
  <1> DEFINE q == [req[r] EXCEPT !.idx = req[r].idx + 1]
  <1>1. req[r] \in Request
    BY DEF TasksOK
  <1>2. /\ q \in Request /\ q.op = req[r].op /\ q.key = req[r].key
        /\ q.src = req[r].src /\ q.pc = req[r].pc /\ q.ver = req[r].ver
        /\ q.idx = req[r].idx + 1 /\ q.cnt = req[r].cnt
        /\ q.piece = req[r].piece
    BY <1>1, Zenon DEF Request
  <1>3. Becomes(r, q)
    OBVIOUS
  <1> HIDE DEF q
  <1> QED
    BY <1>2, <1>3, NowBecomes

LEMMA ToCopyPut ==
  ASSUME TasksOK, NEW r \in Reqs,
         NEW v \in Maybe(Versions),
         Becomes(r, [req[r] EXCEPT !.pc = "copyput", !.ver = v])
  PROVE  Now(r, "copyput", v, req[r].idx, req[r].cnt, req[r].piece)
  <1> DEFINE q == [req[r] EXCEPT !.pc = "copyput", !.ver = v]
  <1>1. req[r] \in Request /\ "copyput" \in Labels
    BY LabelType DEF TasksOK
  <1>2. /\ q \in Request /\ q.op = req[r].op /\ q.key = req[r].key
        /\ q.src = req[r].src /\ q.pc = "copyput" /\ q.ver = v
        /\ q.idx = req[r].idx /\ q.cnt = req[r].cnt
        /\ q.piece = req[r].piece
    BY <1>1, Zenon DEF Request
  <1>3. Becomes(r, q)
    OBVIOUS
  <1> HIDE DEF q
  <1> QED
    BY <1>2, <1>3, NowBecomes

LEMMA ToCopyChunk ==
  ASSUME TasksOK, NEW r \in Reqs,
         NEW n \in 0..MaxChunks,
         Becomes(r, [req[r] EXCEPT !.pc = "copychunk", !.idx = 0, !.cnt = n])
  PROVE  Now(r, "copychunk", req[r].ver, 0, n, req[r].piece)
  <1> DEFINE q == [req[r] EXCEPT !.pc = "copychunk", !.idx = 0, !.cnt = n]
  <1>1. req[r] \in Request /\ "copychunk" \in Labels
    BY LabelType DEF TasksOK
  <1>2. 0 \in 0..MaxChunks
    BY SizeType
  <1>3. /\ q \in Request /\ q.op = req[r].op /\ q.key = req[r].key
        /\ q.src = req[r].src /\ q.pc = "copychunk" /\ q.ver = req[r].ver
        /\ q.idx = 0 /\ q.cnt = n
        /\ q.piece = req[r].piece
    BY <1>1, <1>2, Zenon DEF Request
  <1>4. Becomes(r, q)
    OBVIOUS
  <1> HIDE DEF q
  <1> QED
    BY <1>3, <1>4, NowBecomes

LEMMA NextCopy ==
  ASSUME TasksOK, NEW r \in Reqs,
         req[r].idx + 1 \in 0..MaxChunks,
         Becomes(r, [req[r] EXCEPT !.pc = "copychunk", !.idx = @ + 1])
  PROVE  Now(r, "copychunk", req[r].ver, req[r].idx + 1, req[r].cnt, req[r].piece)
  <1> DEFINE q == [req[r] EXCEPT !.pc = "copychunk", !.idx = @ + 1]
  <1>1. req[r] \in Request /\ "copychunk" \in Labels
    BY LabelType DEF TasksOK
  <1>2. /\ q \in Request /\ q.op = req[r].op /\ q.key = req[r].key
        /\ q.src = req[r].src /\ q.pc = "copychunk" /\ q.ver = req[r].ver
        /\ q.idx = req[r].idx + 1 /\ q.cnt = req[r].cnt
        /\ q.piece = req[r].piece
    BY <1>1, Zenon DEF Request
  <1>3. Becomes(r, q)
    OBVIOUS
  <1> HIDE DEF q
  <1> QED
    BY <1>2, <1>3, NowBecomes

-----------------------------------------------------------------------------
(* The steps of the handlers, with the record they assign folded away.     *)

LEMMA UpstreamHeadStep ==
  ASSUME TasksOK, StoresOK, NEW r \in Reqs, UpstreamHead(r)
  PROVE  \/ Stops(r)
         \/ /\ upstream[req[r].key] \in Versions
            /\ Now(r, "compare", upstream[req[r].key], req[r].idx, req[r].cnt, req[r].piece)
  <1>1. req[r].key \in Keys
    BY LocalFacts
  <1>2. upstream[req[r].key] \in Maybe(Versions)
    BY <1>1 DEF StoresOK
  <1>3. CASE upstream[req[r].key] = None /\ Respond(r, IF req[r].pass = 1 THEN "nokey" ELSE "error")
    BY <1>3, RespondStops DEF Ends
  <1>4. CASE Respond(r, "error")
    BY <1>4, RespondStops DEF Ends
  <1>5. CASE /\ upstream[req[r].key] # None
             /\ Becomes(r, [req[r] EXCEPT !.pc = "compare", !.ver = upstream[req[r].key]])
    BY <1>2, <1>5, ToCompare DEF Maybe
  <1> QED
    BY <1>3, <1>4, <1>5 DEF UpstreamHead

LEMMA CompareStep ==
  ASSUME TasksOK, NEW r \in Reqs, Compare(r)
  PROVE  \/ Goes(r, "drop")
         \/ objects[req[r].key] \in {None, req[r].ver} /\ Goes(r, "putmeta")
  <1>1. CASE objects[req[r].key] \notin {None, req[r].ver}
    BY <1>1, GotoGoes, LabelType DEF Compare
  <1>2. CASE objects[req[r].key] \in {None, req[r].ver}
    BY <1>2, GotoGoes, LabelType DEF Compare
  <1> QED
    BY <1>1, <1>2

LEMMA PutMetaStep ==
  ASSUME TasksOK, NEW r \in Reqs, PutMeta(r)
  PROVE  \/ req[r].op = "HEAD" /\ Goes(r, "status")
         \/ req[r].op = "GET" /\ Goes(r, "head")
         \/ /\ req[r].op = "GET"
            /\ \E i, n \in 0..MaxChunks : Now(r, "status", req[r].ver, i, n, req[r].piece)
  <1> DEFINE n == NumChunks[req[r].ver]
  <1>1. /\ req[r].lo \in 0..MaxChunks /\ req[r].hi \in 0..MaxChunks
        /\ LocalsOK(req[r]) /\ req[r].pc = "putmeta"
    BY LocalFacts DEF PutMeta, At
  <1>2. req[r].ver \in Versions
    BY <1>1 DEF LocalsOK, MetaLabels
  <1>3. n \in 0..MaxChunks
    BY <1>2, SizeType
  <1>4. CASE req[r].op = "HEAD" /\ Goto(r, "status")
    BY <1>4, GotoGoes, LabelType
  <1>5. CASE /\ req[r].op = "GET" /\ req[r].pass = 1
             /\ \E lo \in 0..n : \E hi \in lo..n :
                  Becomes(r, [req[r] EXCEPT !.pc = "head", !.pass = 2, !.lo = lo, !.hi = hi])
    <2>1. PICK lo \in 0..n : \E hi \in lo..n :
            Becomes(r, [req[r] EXCEPT !.pc = "head", !.pass = 2, !.lo = lo, !.hi = hi])
      BY <1>5
    <2>2. PICK hi \in lo..n :
            Becomes(r, [req[r] EXCEPT !.pc = "head", !.pass = 2, !.lo = lo, !.hi = hi])
      BY <2>1
    <2>3. lo \in 0..MaxChunks /\ hi \in 0..MaxChunks
      BY <1>3, <2>1, <2>2, SizeType
    <2>4. Goes(r, "head")
      BY <2>2, <2>3, ToHead DEF Goes
    <2> QED
      BY <1>5, <2>4
  <1>6. CASE /\ req[r].op = "GET" /\ req[r].pass = 2
             /\ Becomes(r, [req[r] EXCEPT !.pc = "status", !.idx = req[r].lo,
                                          !.cnt = IF req[r].hi <= n THEN req[r].hi ELSE n])
    <2> DEFINE m == IF req[r].hi <= n THEN req[r].hi ELSE n
    <2>1. m \in 0..MaxChunks
      BY <1>1, <1>3
    <2>2. Becomes(r, [req[r] EXCEPT !.pc = "status", !.idx = req[r].lo, !.cnt = m])
      BY <1>6
    <2> HIDE DEF m, n
    <2>3. Now(r, "status", req[r].ver, req[r].lo, m, req[r].piece)
      BY <1>1, <2>1, <2>2, ToStatus
    <2> QED
      BY <1>1, <1>6, <2>1, <2>3
  <1> QED
    BY <1>4, <1>5, <1>6 DEF PutMeta

LEMMA DropStartStep ==
  ASSUME TasksOK, StoresOK, NEW r \in Reqs, DropStart(r)
  PROVE  Now(r, "dropfile", req[r].ver, 0, Length(objects[req[r].key]), req[r].piece)
  <1>1. req[r].key \in Keys
    BY LocalFacts
  <1>2. Length(objects[req[r].key]) \in 0..MaxChunks
    BY <1>1, LengthType, SizeType DEF StoresOK
  <1>3. Becomes(r, [req[r] EXCEPT !.pc = "dropfile", !.idx = 0,
                                  !.cnt = Length(objects[req[r].key])])
    BY DEF DropStart
  <1> QED
    BY <1>2, <1>3, ToDropFile

LEMMA DropFileStep ==
  ASSUME TasksOK, NEW r \in Reqs, DropFile(r)
  PROVE  Goes(r, "droprow")
  BY GotoGoes, LabelType DEF DropFile

(* The loop bound makes room for the next index.                           *)
LEMMA NextFits ==
  ASSUME TasksOK, NEW r \in Reqs,
         req[r].idx < req[r].cnt \/ (req[r].ver \in Versions /\ req[r].idx < NumChunks[req[r].ver])
  PROVE  req[r].idx + 1 \in 0..MaxChunks
  <1>1. req[r].idx \in Nat /\ req[r].cnt \in Nat /\ req[r].cnt <= MaxChunks
    BY LocalFacts
  <1> QED
    BY <1>1, SizeType

LEMMA DropRowStep ==
  ASSUME TasksOK, NEW r \in Reqs, DropRow(r)
  PROVE  Now(r, "dropfile", req[r].ver, req[r].idx + 1, req[r].cnt, req[r].piece)
  <1>1. LoopOK(req[r]) /\ req[r].pc = "droprow"
    BY LocalFacts DEF DropRow, At
  <1>2. req[r].idx + 1 \in 0..MaxChunks
    BY <1>1, NextFits DEF LoopOK
  <1>3. Becomes(r, [req[r] EXCEPT !.pc = "dropfile", !.idx = @ + 1])
    BY DEF DropRow
  <1> QED
    BY <1>2, <1>3, NextDrop

LEMMA DropMetaStep ==
  ASSUME TasksOK, NEW r \in Reqs, DropMeta(r)
  PROVE  \/ req[r].op \in {"GET", "HEAD"} /\ Goes(r, "putmeta")
         \/ Stops(r)
         \/ req[r].op = "PUT" /\ Now(r, "body", req[r].ver, 0, 0, req[r].piece)
  <1>1. CASE req[r].op \in {"GET", "HEAD"} /\ Goto(r, "putmeta")
    BY <1>1, GotoGoes, LabelType
  <1>2. CASE Respond(r, "ok")
    BY <1>2, RespondStops DEF Ends
  <1>3. CASE /\ req[r].op = "PUT"
             /\ Becomes(r, [req[r] EXCEPT !.pc = "body", !.idx = 0, !.cnt = 0])
    BY <1>3, ToBody
  <1> QED
    BY <1>1, <1>2, <1>3 DEF DropMeta

LEMMA StatusStep ==
  ASSUME TasksOK, NEW r \in Reqs, Status(r)
  PROVE  Stops(r) \/ (req[r].op = "GET" /\ Goes(r, "stream"))
  <1>1. CASE Respond(r, "ok")
    BY <1>1, RespondStops DEF Ends
  <1>2. CASE ~Respond(r, "ok")
    <2>1. req[r].op = "GET" /\ \E c \in {"hot", "cold"} :
            Becomes(r, [req[r] EXCEPT !.pc = "stream", !.cached = c])
      BY <1>2 DEF Status
    <2>2. PICK c \in {"hot", "cold"} :
            Becomes(r, [req[r] EXCEPT !.pc = "stream", !.cached = c])
      BY <2>1
    <2>3. Goes(r, "stream")
      BY <2>2, ToStream DEF Goes
    <2> QED
      BY <2>1, <2>3
  <1> QED
    BY <1>1, <1>2

LEMMA NextChunkStep ==
  ASSUME TasksOK, NEW r \in Reqs, NextChunk(r)
  PROVE  \/ Stops(r)
         \/ req[r].idx < req[r].cnt /\ req[r].idx \in chunks[req[r].key] /\ Goes(r, "touch")
         \/ req[r].idx < req[r].cnt /\ Goes(r, "cold")
  <1>1. CASE Respond(r, "ok")
    BY <1>1, RespondStops DEF Ends
  <1>2. CASE /\ req[r].idx < req[r].cnt
             /\ Goto(r, IF req[r].idx \in chunks[req[r].key] THEN "touch" ELSE "cold")
    <2>1. CASE req[r].idx \in chunks[req[r].key]
      BY <1>2, <2>1, GotoGoes, LabelType
    <2>2. CASE req[r].idx \notin chunks[req[r].key]
      BY <1>2, <2>2, GotoGoes, LabelType
    <2> QED
      BY <2>1, <2>2
  <1> QED
    BY <1>1, <1>2 DEF NextChunk

LEMMA TouchStep ==
  ASSUME TasksOK, NEW r \in Reqs, Touch(r)
  PROVE  \/ req[r].idx \in chunks[req[r].key] /\ Goes(r, "touchput")
         \/ Goes(r, "read")
  <1>1. CASE req[r].idx \in chunks[req[r].key]
    BY <1>1, GotoGoes, LabelType DEF Touch
  <1>2. CASE req[r].idx \notin chunks[req[r].key]
    BY <1>2, GotoGoes, LabelType DEF Touch
  <1> QED
    BY <1>1, <1>2

LEMMA TouchPutStep ==
  ASSUME TasksOK, NEW r \in Reqs, TouchPut(r)
  PROVE  Goes(r, "read")
  BY GotoGoes, LabelType DEF TouchPut

LEMMA ReadChunkStep ==
  ASSUME TasksOK, StoresOK, NEW r \in Reqs, ReadChunk(r)
  PROVE  \/ Stops(r)
         \/ /\ files[req[r].key][req[r].idx] \in Versions
            /\ Now(r, "stream", req[r].ver, req[r].idx + 1, req[r].cnt,
                   files[req[r].key][req[r].idx])
  <1> DEFINE data == files[req[r].key][req[r].idx]
  <1>1. /\ LoopOK(req[r]) /\ req[r].pc = "read" /\ req[r].key \in Keys
        /\ req[r].idx \in Nat /\ req[r].cnt \in Nat /\ req[r].cnt <= MaxChunks
    BY LocalFacts DEF ReadChunk, At
  <1>2. req[r].idx + 1 \in 0..MaxChunks /\ req[r].idx \in ChunkIds
    BY <1>1, NextFits, SizeType DEF LoopOK, ChunkIds
  <1>3. data \in Contents
    BY <1>1, <1>2 DEF StoresOK
  <1>4. CASE Respond(r, "error")
    BY <1>4, RespondStops DEF Ends
  <1>5. CASE /\ data \notin {None, Partial}
             /\ Becomes(r, [req[r] EXCEPT !.pc = "stream", !.piece = data, !.idx = @ + 1])
    <2> HIDE DEF data
    <2>1. data \in Versions /\ data \in Maybe(Versions)
      BY <1>3, <1>5 DEF Maybe, Contents
    <2>2. Now(r, "stream", req[r].ver, req[r].idx + 1, req[r].cnt, data)
      BY <1>2, <1>5, <2>1, NextPiece
    <2> QED
      BY <2>1, <2>2 DEF data
  <1> QED
    BY <1>4, <1>5 DEF ReadChunk

LEMMA ColdReadStep ==
  ASSUME TasksOK, StoresOK, NEW r \in Reqs, ColdRead(r)
  PROVE  \/ Stops(r)
         \/ Now(r, "stream", req[r].ver, req[r].idx + 1, req[r].cnt, upstream[req[r].key])
  <1>1. LoopOK(req[r]) /\ req[r].pc = "cold" /\ req[r].key \in Keys
    BY LocalFacts DEF ColdRead, At
  <1>2. req[r].idx + 1 \in 0..MaxChunks
    BY <1>1, NextFits DEF LoopOK
  <1>3. upstream[req[r].key] \in Maybe(Versions)
    BY <1>1 DEF StoresOK
  <1>4. CASE Respond(r, "error")
    BY <1>4, RespondStops DEF Ends
  <1>5. CASE Becomes(r, [req[r] EXCEPT !.pc = "stream", !.piece = upstream[req[r].key],
                                       !.idx = @ + 1])
    BY <1>2, <1>3, <1>5, NextPiece
  <1> QED
    BY <1>4, <1>5 DEF ColdRead

LEMMA SendChunkStep ==
  ASSUME TasksOK, NEW r \in Reqs, SendChunk(r)
  PROVE  \/ req[r].idx < NumChunks[req[r].ver] /\ Goes(r, "write")
         \/ Now(r, "cleanup", req[r].ver, 0, req[r].idx + 1, req[r].piece)
  <1>1. req[r].pc = "body" /\ req[r].idx < NumChunks[req[r].ver] /\ LocalsOK(req[r])
    BY LocalFacts DEF SendChunk, At
  <1>2. req[r].ver \in Versions
    BY <1>1 DEF LocalsOK, WriteLabels
  <1>3. req[r].idx + 1 \in 0..MaxChunks
    BY <1>1, <1>2, NextFits
  <1>4. CASE Goto(r, "write")
    BY <1>1, <1>4, GotoGoes, LabelType
  <1>5. CASE Becomes(r, [req[r] EXCEPT !.pc = "cleanup", !.cnt = req[r].idx + 1, !.idx = 0])
    BY <1>3, <1>5, ToCleanup
  <1> QED
    BY <1>4, <1>5 DEF SendChunk

LEMMA WriteChunkStep ==
  ASSUME TasksOK, NEW r \in Reqs, WriteChunk(r)
  PROVE  \/ /\ files' = [files EXCEPT ![req[r].key][req[r].idx] = req[r].ver]
            /\ Now(r, "body", req[r].ver, req[r].idx + 1, req[r].cnt, req[r].piece)
         \/ /\ UNCHANGED files
            /\ Now(r, "cleanup", req[r].ver, 0, req[r].idx + 1, req[r].piece)
  <1>1. req[r].pc = "write" /\ LocalsOK(req[r]) /\ LoopOK(req[r])
    BY LocalFacts DEF WriteChunk, At
  <1>2. req[r].ver \in Versions /\ req[r].idx < NumChunks[req[r].ver]
    BY <1>1 DEF LocalsOK, LoopOK, WriteLabels
  <1>3. req[r].idx + 1 \in 0..MaxChunks
    BY <1>2, NextFits
  <1>4. CASE /\ files' = [files EXCEPT ![req[r].key][req[r].idx] = req[r].ver]
             /\ Becomes(r, [req[r] EXCEPT !.pc = "body", !.idx = req[r].idx + 1])
    BY <1>3, <1>4, NextBody
  <1>5. CASE /\ UNCHANGED files
             /\ Becomes(r, [req[r] EXCEPT !.pc = "cleanup", !.cnt = req[r].idx + 1, !.idx = 0])
    BY <1>3, <1>5, ToCleanup
  <1> QED
    BY <1>4, <1>5 DEF WriteChunk

LEMMA BodyEndStep ==
  ASSUME TasksOK, NEW r \in Reqs, BodyEnd(r)
  PROVE  Goes(r, "await")
  BY GotoGoes, LabelType DEF BodyEnd

LEMMA AwaitUploadStep ==
  ASSUME TasksOK, NEW r \in Reqs, AwaitUpload(r)
  PROVE  \/ Stops(r)
         \/ Now(r, "register", req[r].ver, 0, req[r].cnt, req[r].piece)
  <1>1. CASE Becomes(r, [req[r] EXCEPT !.pc = "register", !.idx = 0])
    BY <1>1, ToRegister
  <1>2. CASE Respond(r, "error")
    BY <1>2, RespondStops DEF Ends
  <1> QED
    BY <1>1, <1>2 DEF AwaitUpload

LEMMA RegisterStep ==
  ASSUME TasksOK, NEW r \in Reqs, Register(r)
  PROVE  \/ /\ req[r].idx < NumChunks[req[r].ver]
            /\ chunks' = [chunks EXCEPT ![req[r].key] = @ \cup {req[r].idx}]
            /\ UNCHANGED objects
            /\ Now(r, "register", req[r].ver, req[r].idx + 1, req[r].cnt, req[r].piece)
         \/ /\ req[r].idx = NumChunks[req[r].ver]
            /\ objects' = [objects EXCEPT ![req[r].key] = req[r].ver]
            /\ UNCHANGED chunks
            /\ Stops(r)
  <1>1. req[r].pc = "register" /\ LocalsOK(req[r])
    BY LocalFacts DEF Register, At
  <1>2. req[r].ver \in Versions
    BY <1>1 DEF LocalsOK
  <1>3. CASE /\ req[r].idx < NumChunks[req[r].ver]
             /\ chunks' = [chunks EXCEPT ![req[r].key] = @ \cup {req[r].idx}]
             /\ Becomes(r, [req[r] EXCEPT !.idx = req[r].idx + 1])
             /\ UNCHANGED objects
    <2>1. req[r].idx + 1 \in 0..MaxChunks
      BY <1>2, <1>3, NextFits
    <2>2. Now(r, req[r].pc, req[r].ver, req[r].idx + 1, req[r].cnt, req[r].piece)
      BY <1>3, <2>1, NextIndex
    <2> QED
      BY <1>1, <1>3, <2>2
  <1>4. CASE /\ req[r].idx = NumChunks[req[r].ver]
             /\ objects' = [objects EXCEPT ![req[r].key] = req[r].ver]
             /\ Respond(r, "ok")
             /\ UNCHANGED chunks
    BY <1>4, RespondStops DEF Ends
  <1> QED
    BY <1>3, <1>4 DEF Register

LEMMA CleanupStep ==
  ASSUME TasksOK, NEW r \in Reqs, Cleanup(r)
  PROVE  \/ /\ req[r].idx < req[r].cnt
            /\ RemoveFile(req[r].key, req[r].idx)
            /\ Now(r, "cleanup", req[r].ver, req[r].idx + 1, req[r].cnt, req[r].piece)
         \/ UNCHANGED files /\ Stops(r)
  <1>1. req[r].pc = "cleanup"
    BY DEF Cleanup, At
  <1>2. CASE /\ req[r].idx < req[r].cnt
             /\ RemoveFile(req[r].key, req[r].idx)
             /\ Becomes(r, [req[r] EXCEPT !.idx = @ + 1])
    <2>1. req[r].idx + 1 \in 0..MaxChunks
      BY <1>2, NextFits
    <2>2. Now(r, req[r].pc, req[r].ver, req[r].idx + 1, req[r].cnt, req[r].piece)
      BY <1>2, <2>1, NextIndex
    <2> QED
      BY <1>1, <1>2, <2>2
  <1>3. CASE Respond(r, "error") /\ UNCHANGED files
    BY <1>3, RespondStops DEF Ends
  <1> QED
    BY <1>2, <1>3 DEF Cleanup

LEMMA DeleteUpstreamStep ==
  ASSUME TasksOK, NEW r \in Reqs, DeleteUpstream(r)
  PROVE  /\ Stops(r) \/ Goes(r, "drop")
         /\ SetUpstream(req[r].key, None) \/ UNCHANGED <<upstream, seen>>
  <1>1. Respond(r, "error") => Stops(r)
    BY RespondStops DEF Ends
  <1>2. Goto(r, "drop") => Goes(r, "drop")
    BY GotoGoes, LabelType
  <1> QED
    BY <1>1, <1>2 DEF DeleteUpstream

LEMMA CopyUpstreamStep ==
  ASSUME TasksOK, NEW r \in Reqs, CopyUpstream(r)
  PROVE  /\ Stops(r) \/ Goes(r, "copyread")
         /\ \/ SetUpstream(req[r].key, upstream[req[r].src])
            \/ UNCHANGED <<upstream, seen>>
  <1>1. Respond(r, "error") => Stops(r)
    BY RespondStops DEF Ends
  <1>2. Goto(r, "copyread") => Goes(r, "copyread")
    BY GotoGoes, LabelType
  <1> QED
    BY <1>1, <1>2 DEF CopyUpstream

LEMMA CopyReadMetaStep ==
  ASSUME TasksOK, StoresOK, NEW r \in Reqs, CopyReadMeta(r)
  PROVE  \/ Stops(r)
         \/ /\ objects[req[r].src] \in Versions
            /\ Now(r, "copyput", objects[req[r].src], req[r].idx, req[r].cnt, req[r].piece)
  <1>1. req[r].src \in Keys
    BY LocalFacts
  <1>2. objects[req[r].src] \in Maybe(Versions)
    BY <1>1 DEF StoresOK
  <1>3. CASE Respond(r, "ok")
    BY <1>3, RespondStops DEF Ends
  <1>4. CASE /\ objects[req[r].src] # None
             /\ Becomes(r, [req[r] EXCEPT !.pc = "copyput", !.ver = objects[req[r].src]])
    BY <1>2, <1>4, ToCopyPut DEF Maybe
  <1> QED
    BY <1>3, <1>4 DEF CopyReadMeta

LEMMA CopyPutMetaStep ==
  ASSUME TasksOK, NEW r \in Reqs, CopyPutMeta(r)
  PROVE  Now(r, "copychunk", req[r].ver, 0, NumChunks[req[r].ver], req[r].piece)
  <1>1. req[r].pc = "copyput" /\ LocalsOK(req[r])
    BY LocalFacts DEF CopyPutMeta, At
  <1>2. req[r].ver \in Versions
    BY <1>1 DEF LocalsOK, CopyLabels
  <1>3. NumChunks[req[r].ver] \in 0..MaxChunks
    BY <1>2, SizeType
  <1>4. Becomes(r, [req[r] EXCEPT !.pc = "copychunk", !.idx = 0, !.cnt = NumChunks[req[r].ver]])
    BY DEF CopyPutMeta
  <1> QED
    BY <1>3, <1>4, ToCopyChunk

LEMMA CopyChunkStep ==
  ASSUME TasksOK, NEW r \in Reqs, CopyChunk(r)
  PROVE  \/ Stops(r)
         \/ req[r].idx < req[r].cnt /\ Goes(r, "copyfile")
         \/ /\ req[r].idx < req[r].cnt
            /\ Now(r, "copychunk", req[r].ver, req[r].idx + 1, req[r].cnt, req[r].piece)
  <1>1. req[r].pc = "copychunk"
    BY DEF CopyChunk, At
  <1>2. CASE req[r].idx < req[r].cnt /\ Becomes(r, [req[r] EXCEPT !.idx = @ + 1])
    <2>1. req[r].idx + 1 \in 0..MaxChunks
      BY <1>2, NextFits
    <2>2. Now(r, req[r].pc, req[r].ver, req[r].idx + 1, req[r].cnt, req[r].piece)
      BY <1>2, <2>1, NextIndex
    <2> QED
      BY <1>1, <1>2, <2>2
  <1>3. CASE req[r].idx < req[r].cnt /\ Goto(r, "copyfile")
    BY <1>3, GotoGoes, LabelType
  <1>4. CASE Respond(r, "ok")
    BY <1>4, RespondStops DEF Ends
  <1> QED
    BY <1>2, <1>3, <1>4 DEF CopyChunk

LEMMA CopyFileStep ==
  ASSUME TasksOK, NEW r \in Reqs, CopyFile(r)
  PROVE  Stops(r) \/ Goes(r, "copyrow")
  <1>1. Respond(r, "error") => Stops(r)
    BY RespondStops DEF Ends
  <1>2. Goto(r, "copyrow") => Goes(r, "copyrow")
    BY GotoGoes, LabelType
  <1> QED
    BY <1>1, <1>2 DEF CopyFile

LEMMA CopyRowStep ==
  ASSUME TasksOK, NEW r \in Reqs, CopyRow(r)
  PROVE  Now(r, "copychunk", req[r].ver, req[r].idx + 1, req[r].cnt, req[r].piece)
  <1>1. LoopOK(req[r]) /\ req[r].pc = "copyrow"
    BY LocalFacts DEF CopyRow, At
  <1>2. req[r].idx + 1 \in 0..MaxChunks
    BY <1>1, NextFits DEF LoopOK
  <1>3. Becomes(r, [req[r] EXCEPT !.pc = "copychunk", !.idx = @ + 1])
    BY DEF CopyRow
  <1> QED
    BY <1>2, <1>3, NextCopy

LEMMA CancelStep ==
  ASSUME TasksOK, NEW r \in Reqs, Cancel(r)
  PROVE  Stops(r)
  BY RespondStops DEF Cancel, Ends

(* A request begins.                                                       *)
LEMMA BeginStep ==
  ASSUME TasksOK, NEW r \in Reqs, NEW o \in OpKinds, NEW k \in Keys,
         NEW s \in Keys, NEW v \in Maybe(Versions), NEW l \in Labels,
         Begin(r, o, k, s, v, l)
  PROVE  /\ req' \in [Reqs -> Request]
         /\ \A t \in Reqs \ {r} : req'[t] = req[t]
         /\ req'[r].pc = l /\ req'[r].op = o /\ req'[r].key = k
         /\ req'[r].src = s /\ req'[r].ver = v /\ req'[r].piece = None
  <1> DEFINE q == [Fresh(o, k, s, v) EXCEPT !.pc = l]
  <1>1. q \in Request
    BY FreshType
  <1>2. /\ q.pc = l /\ q.op = o /\ q.key = k /\ q.src = s /\ q.ver = v
        /\ q.piece = None
    BY DEF Fresh
  <1>3. Becomes(r, q)
    BY DEF Begin
  <1> HIDE DEF q
  <1> QED
    BY <1>1, <1>2, <1>3, Becoming

-----------------------------------------------------------------------------
(* TasksOK is kept by the steps of the handlers.                           *)

LEMMA TaskStep ==
  ASSUME TasksOK, NEW r \in Reqs, Moves(r), LocalsOK(req'[r]), LoopOK(req'[r])
  PROVE  TasksOK'
  BY DEF TasksOK, TaskOK, Moves

LEMMA StopsTasks ==
  ASSUME TasksOK, NEW r \in Reqs, Stops(r)
  PROVE  TasksOK'
  <1>1. Moves(r) /\ req'[r].pc \in Ends
    BY DEF Stops
  <1>2. LocalsOK(req'[r]) /\ LoopOK(req'[r])
    BY <1>1 DEF LocalsOK, LoopOK, Ends, MetaLabels, ReadLabels, DropLabels,
       WriteLabels, CopyLabels
  <1> QED
    BY <1>1, <1>2, TaskStep

LEMMA MetaTasks ==
  ASSUME TasksOK, StoresOK, NEW r \in Reqs,
         UpstreamHead(r) \/ Compare(r) \/ PutMeta(r)
  PROVE  TasksOK'
  <1> USE DEF MetaLabels, ReadLabels, DropLabels, WriteLabels, CopyLabels,
              LocalsOK, LoopOK
  <1>0. /\ req[r].key \in Keys /\ req[r].idx \in Nat /\ req[r].cnt \in Nat
        /\ LocalsOK(req[r]) /\ LoopOK(req[r])
    BY LocalFacts
  <1>1. CASE UpstreamHead(r)
    <2>1. req[r].pc = "head"
      BY <1>1 DEF UpstreamHead, At
    <2>2. CASE ~Stops(r)
      <3>1. Moves(r) /\ LocalsOK(req'[r]) /\ LoopOK(req'[r])
        BY <1>0, <1>1, <2>1, <2>2, UpstreamHeadStep DEF Now, Goes, Moves
      <3> QED
        BY <3>1, TaskStep
    <2> QED
      BY <2>2, StopsTasks
  <1>2. CASE Compare(r)
    <2>1. req[r].pc = "compare"
      BY <1>2 DEF Compare, At
    <2>2. Moves(r) /\ LocalsOK(req'[r]) /\ LoopOK(req'[r])
      BY <1>0, <1>2, <2>1, CompareStep DEF Now, Goes, Moves
    <2> QED
      BY <2>2, TaskStep
  <1>3. CASE PutMeta(r)
    <2>1. req[r].pc = "putmeta"
      BY <1>3 DEF PutMeta, At
    <2>2. Moves(r) /\ LocalsOK(req'[r]) /\ LoopOK(req'[r])
      BY <1>0, <1>3, <2>1, PutMetaStep DEF Now, Goes, Moves
    <2> QED
      BY <2>2, TaskStep
  <1> QED
    BY <1>1, <1>2, <1>3

LEMMA DropTasks ==
  ASSUME TasksOK, StoresOK, NEW r \in Reqs,
         DropStart(r) \/ DropFile(r) \/ DropRow(r) \/ DropMeta(r)
  PROVE  TasksOK'
  <1> USE DEF MetaLabels, ReadLabels, DropLabels, WriteLabels, CopyLabels,
              LocalsOK, LoopOK
  <1>0. /\ req[r].key \in Keys /\ req[r].idx \in Nat /\ req[r].cnt \in Nat
        /\ LocalsOK(req[r]) /\ LoopOK(req[r])
    BY LocalFacts
  <1>1. CASE DropStart(r)
    <2>1. req[r].pc = "drop"
      BY <1>1 DEF DropStart, At
    <2>2. Moves(r) /\ LocalsOK(req'[r]) /\ LoopOK(req'[r])
      BY <1>0, <1>1, <2>1, DropStartStep, LengthType DEF Now, Goes, Moves, StoresOK
    <2> QED
      BY <2>2, TaskStep
  <1>2. CASE DropFile(r)
    <2>1. req[r].pc = "dropfile" /\ req[r].idx < req[r].cnt
      BY <1>2 DEF DropFile, At
    <2>2. Moves(r) /\ LocalsOK(req'[r]) /\ LoopOK(req'[r])
      BY <1>0, <1>2, <2>1, DropFileStep DEF Now, Goes, Moves
    <2> QED
      BY <2>2, TaskStep
  <1>3. CASE DropRow(r)
    <2>1. req[r].pc = "droprow"
      BY <1>3 DEF DropRow, At
    <2>2. Moves(r) /\ LocalsOK(req'[r]) /\ LoopOK(req'[r])
      BY <1>0, <1>3, <2>1, DropRowStep DEF Now, Goes, Moves
    <2> QED
      BY <2>2, TaskStep
  <1>4. CASE DropMeta(r)
    <2>1. req[r].pc = "dropfile"
      BY <1>4 DEF DropMeta, At
    <2>2. CASE ~Stops(r)
      <3>1. Moves(r) /\ LocalsOK(req'[r]) /\ LoopOK(req'[r])
        BY <1>0, <1>4, <2>1, <2>2, DropMetaStep, SizeType DEF Now, Goes, Moves
      <3> QED
        BY <3>1, TaskStep
    <2> QED
      BY <2>2, StopsTasks
  <1> QED
    BY <1>1, <1>2, <1>3, <1>4

LEMMA ReadTasks ==
  ASSUME TasksOK, StoresOK, NEW r \in Reqs,
         \/ Status(r) \/ NextChunk(r) \/ Touch(r)
         \/ TouchPut(r) \/ ReadChunk(r) \/ ColdRead(r)
  PROVE  TasksOK'
  <1> USE DEF MetaLabels, ReadLabels, DropLabels, WriteLabels, CopyLabels,
              LocalsOK, LoopOK
  <1>0. /\ req[r].key \in Keys /\ req[r].idx \in Nat /\ req[r].cnt \in Nat
        /\ LocalsOK(req[r]) /\ LoopOK(req[r])
    BY LocalFacts
  <1>1. CASE Status(r)
    <2>1. req[r].pc = "status"
      BY <1>1 DEF Status, At
    <2>2. CASE ~Stops(r)
      <3>1. Moves(r) /\ LocalsOK(req'[r]) /\ LoopOK(req'[r])
        BY <1>0, <1>1, <2>1, <2>2, StatusStep DEF Now, Goes, Moves
      <3> QED
        BY <3>1, TaskStep
    <2> QED
      BY <2>2, StopsTasks
  <1>2. CASE NextChunk(r)
    <2>1. req[r].pc = "stream"
      BY <1>2 DEF NextChunk, At
    <2>2. CASE ~Stops(r)
      <3>1. Moves(r) /\ LocalsOK(req'[r]) /\ LoopOK(req'[r])
        BY <1>0, <1>2, <2>1, <2>2, NextChunkStep DEF Now, Goes, Moves
      <3> QED
        BY <3>1, TaskStep
    <2> QED
      BY <2>2, StopsTasks
  <1>3. CASE Touch(r)
    <2>1. req[r].pc = "touch"
      BY <1>3 DEF Touch, At
    <2>2. Moves(r) /\ LocalsOK(req'[r]) /\ LoopOK(req'[r])
      BY <1>0, <1>3, <2>1, TouchStep DEF Now, Goes, Moves
    <2> QED
      BY <2>2, TaskStep
  <1>4. CASE TouchPut(r)
    <2>1. req[r].pc = "touchput"
      BY <1>4 DEF TouchPut, At
    <2>2. Moves(r) /\ LocalsOK(req'[r]) /\ LoopOK(req'[r])
      BY <1>0, <1>4, <2>1, TouchPutStep DEF Now, Goes, Moves
    <2> QED
      BY <2>2, TaskStep
  <1>5. CASE ReadChunk(r)
    <2>1. req[r].pc = "read"
      BY <1>5 DEF ReadChunk, At
    <2>2. CASE ~Stops(r)
      <3>1. Moves(r) /\ LocalsOK(req'[r]) /\ LoopOK(req'[r])
        BY <1>0, <1>5, <2>1, <2>2, ReadChunkStep DEF Now, Goes, Moves
      <3> QED
        BY <3>1, TaskStep
    <2> QED
      BY <2>2, StopsTasks
  <1>6. CASE ColdRead(r)
    <2>1. req[r].pc = "cold"
      BY <1>6 DEF ColdRead, At
    <2>2. CASE ~Stops(r)
      <3>1. Moves(r) /\ LocalsOK(req'[r]) /\ LoopOK(req'[r])
        BY <1>0, <1>6, <2>1, <2>2, ColdReadStep DEF Now, Goes, Moves
      <3> QED
        BY <3>1, TaskStep
    <2> QED
      BY <2>2, StopsTasks
  <1> QED
    BY <1>1, <1>2, <1>3, <1>4, <1>5, <1>6

LEMMA WriteTasks ==
  ASSUME TasksOK, StoresOK, NEW r \in Reqs,
         \/ SendChunk(r) \/ WriteChunk(r) \/ BodyEnd(r)
         \/ AwaitUpload(r) \/ Register(r) \/ Cleanup(r)
  PROVE  TasksOK'
  <1> USE DEF MetaLabels, ReadLabels, DropLabels, WriteLabels, CopyLabels,
              LocalsOK, LoopOK
  <1>0. /\ req[r].key \in Keys /\ req[r].idx \in Nat /\ req[r].cnt \in Nat
        /\ LocalsOK(req[r]) /\ LoopOK(req[r])
    BY LocalFacts
  <1>1. CASE SendChunk(r)
    <2>1. req[r].pc = "body"
      BY <1>1 DEF SendChunk, At
    <2>2. Moves(r) /\ LocalsOK(req'[r]) /\ LoopOK(req'[r])
      BY <1>0, <1>1, <2>1, SendChunkStep DEF Now, Goes, Moves
    <2> QED
      BY <2>2, TaskStep
  <1>2. CASE WriteChunk(r)
    <2>1. req[r].pc = "write"
      BY <1>2 DEF WriteChunk, At
    <2>2. \/ Now(r, "body", req[r].ver, req[r].idx + 1, req[r].cnt, req[r].piece)
          \/ Now(r, "cleanup", req[r].ver, 0, req[r].idx + 1, req[r].piece)
      BY <1>2, WriteChunkStep
    <2>3. req[r].ver \in Versions /\ NumChunks[req[r].ver] \in Nat
      BY <1>0, <2>1, SizeType
    <2>4. Moves(r) /\ LocalsOK(req'[r]) /\ LoopOK(req'[r])
      BY <1>0, <2>1, <2>2, <2>3 DEF Now, Moves
    <2> QED
      BY <2>4, TaskStep
  <1>3. CASE BodyEnd(r)
    <2>1. req[r].pc = "body"
      BY <1>3 DEF BodyEnd, At
    <2>2. Moves(r) /\ LocalsOK(req'[r]) /\ LoopOK(req'[r])
      BY <1>0, <1>3, <2>1, BodyEndStep DEF Now, Goes, Moves
    <2> QED
      BY <2>2, TaskStep
  <1>4. CASE AwaitUpload(r)
    <2>1. req[r].pc = "await"
      BY <1>4 DEF AwaitUpload, At
    <2>2. CASE ~Stops(r)
      <3>1. Moves(r) /\ LocalsOK(req'[r]) /\ LoopOK(req'[r])
        BY <1>0, <1>4, <2>1, <2>2, AwaitUploadStep, SizeType DEF Now, Goes, Moves
      <3> QED
        BY <3>1, TaskStep
    <2> QED
      BY <2>2, StopsTasks
  <1>5. CASE Register(r)
    <2>1. req[r].pc = "register"
      BY <1>5 DEF Register, At
    <2>2. CASE ~Stops(r)
      <3>1. Moves(r) /\ LocalsOK(req'[r]) /\ LoopOK(req'[r])
        BY <1>0, <1>5, <2>1, <2>2, RegisterStep, SizeType DEF Now, Goes, Moves
      <3> QED
        BY <3>1, TaskStep
    <2> QED
      BY <2>2, StopsTasks
  <1>6. CASE Cleanup(r)
    <2>1. req[r].pc = "cleanup"
      BY <1>6 DEF Cleanup, At
    <2>2. CASE ~Stops(r)
      <3>1. Moves(r) /\ LocalsOK(req'[r]) /\ LoopOK(req'[r])
        BY <1>0, <1>6, <2>1, <2>2, CleanupStep DEF Now, Goes, Moves
      <3> QED
        BY <3>1, TaskStep
    <2> QED
      BY <2>2, StopsTasks
  <1> QED
    BY <1>1, <1>2, <1>3, <1>4, <1>5, <1>6

LEMMA CopyTasks ==
  ASSUME TasksOK, StoresOK, NEW r \in Reqs,
         \/ DeleteUpstream(r) \/ CopyUpstream(r) \/ CopyReadMeta(r)
         \/ CopyPutMeta(r) \/ CopyChunk(r) \/ CopyFile(r) \/ CopyRow(r)
  PROVE  TasksOK'
  <1> USE DEF MetaLabels, ReadLabels, DropLabels, WriteLabels, CopyLabels,
              LocalsOK, LoopOK
  <1>0. /\ req[r].key \in Keys /\ req[r].idx \in Nat /\ req[r].cnt \in Nat
        /\ LocalsOK(req[r]) /\ LoopOK(req[r])
    BY LocalFacts
  <1>1. CASE DeleteUpstream(r)
    <2>1. req[r].pc = "delete"
      BY <1>1 DEF DeleteUpstream, At
    <2>2. CASE ~Stops(r)
      <3>1. Moves(r) /\ LocalsOK(req'[r]) /\ LoopOK(req'[r])
        BY <1>0, <1>1, <2>1, <2>2, DeleteUpstreamStep DEF Now, Goes, Moves
      <3> QED
        BY <3>1, TaskStep
    <2> QED
      BY <2>2, StopsTasks
  <1>2. CASE CopyUpstream(r)
    <2>1. req[r].pc = "copyup"
      BY <1>2 DEF CopyUpstream, At
    <2>2. CASE ~Stops(r)
      <3>1. Moves(r) /\ LocalsOK(req'[r]) /\ LoopOK(req'[r])
        BY <1>0, <1>2, <2>1, <2>2, CopyUpstreamStep DEF Now, Goes, Moves
      <3> QED
        BY <3>1, TaskStep
    <2> QED
      BY <2>2, StopsTasks
  <1>3. CASE CopyReadMeta(r)
    <2>1. req[r].pc = "copyread"
      BY <1>3 DEF CopyReadMeta, At
    <2>2. CASE ~Stops(r)
      <3>1. Moves(r) /\ LocalsOK(req'[r]) /\ LoopOK(req'[r])
        BY <1>0, <1>3, <2>1, <2>2, CopyReadMetaStep DEF Now, Goes, Moves
      <3> QED
        BY <3>1, TaskStep
    <2> QED
      BY <2>2, StopsTasks
  <1>4. CASE CopyPutMeta(r)
    <2>1. req[r].pc = "copyput"
      BY <1>4 DEF CopyPutMeta, At
    <2>2. Moves(r) /\ LocalsOK(req'[r]) /\ LoopOK(req'[r])
      BY <1>0, <1>4, <2>1, CopyPutMetaStep, SizeType DEF Now, Goes, Moves
    <2> QED
      BY <2>2, TaskStep
  <1>5. CASE CopyChunk(r)
    <2>1. req[r].pc = "copychunk"
      BY <1>5 DEF CopyChunk, At
    <2>2. CASE ~Stops(r)
      <3>1. Moves(r) /\ LocalsOK(req'[r]) /\ LoopOK(req'[r])
        BY <1>0, <1>5, <2>1, <2>2, CopyChunkStep DEF Now, Goes, Moves
      <3> QED
        BY <3>1, TaskStep
    <2> QED
      BY <2>2, StopsTasks
  <1>6. CASE CopyFile(r)
    <2>1. req[r].pc = "copyfile"
      BY <1>6 DEF CopyFile, At
    <2>2. CASE ~Stops(r)
      <3>1. Moves(r) /\ LocalsOK(req'[r]) /\ LoopOK(req'[r])
        BY <1>0, <1>6, <2>1, <2>2, CopyFileStep DEF Now, Goes, Moves
      <3> QED
        BY <3>1, TaskStep
    <2> QED
      BY <2>2, StopsTasks
  <1>7. CASE CopyRow(r)
    <2>1. req[r].pc = "copyrow"
      BY <1>7 DEF CopyRow, At
    <2>2. Moves(r) /\ LocalsOK(req'[r]) /\ LoopOK(req'[r])
      BY <1>0, <1>7, <2>1, CopyRowStep DEF Now, Goes, Moves
    <2> QED
      BY <2>2, TaskStep
  <1> QED
    BY <1>1, <1>2, <1>3, <1>4, <1>5, <1>6, <1>7

-----------------------------------------------------------------------------
(* StoresOK is kept by every step.                                         *)

LEMMA SetUpstreamType ==
  ASSUME StoresOK, NEW k \in Keys, NEW v \in Maybe(Versions), SetUpstream(k, v)
  PROVE  /\ upstream' \in [Keys -> Maybe(Versions)]
         /\ seen' \in [Reqs -> SUBSET Maybe(Versions)]
  BY DEF StoresOK, SetUpstream

LEMMA SetFileType ==
  ASSUME StoresOK, NEW k \in Keys, NEW i, NEW v \in Contents,
         files' = [files EXCEPT ![k][i] = v]
  PROVE  files' \in [Keys -> [ChunkIds -> Contents]]
  BY DEF StoresOK

LEMMA RemoveFileType ==
  ASSUME StoresOK, NEW k \in Keys, NEW i, RemoveFile(k, i)
  PROVE  files' \in [Keys -> [ChunkIds -> Contents]]
  <1>1. None \in Contents
    BY DEF Contents, Maybe
  <1> QED
    BY <1>1, SetFileType DEF StoresOK, RemoveFile

LEMMA LetGoType ==
  ASSUME StoresOK, NEW r \in Reqs, LetGo(r)
  PROVE  upload' \in [Reqs -> UploadStates]
  BY DEF StoresOK, LetGo, UploadStates

(* A step that changes nothing but tasks.                                  *)
LEMMA StoresStay ==
  ASSUME StoresOK, UNCHANGED <<upstream, cacheVars, upload, evict, seen>>
  PROVE  StoresOK'
  BY DEF StoresOK, cacheVars

LEMMA HandleStores ==
  ASSUME TasksOK, StoresOK, NEW r \in Reqs, Handle(r)
  PROVE  StoresOK'
  <1> USE DEF cacheVars
  <1>0. /\ req[r].key \in Keys /\ req[r].src \in Keys
        /\ req[r].ver \in Maybe(Versions)
        /\ req[r].idx \in Nat /\ req[r].cnt \in Nat /\ req[r].cnt <= MaxChunks
        /\ LocalsOK(req[r]) /\ LoopOK(req[r])
    BY LocalFacts
  <1>1. CASE \/ UpstreamHead(r) \/ Compare(r) \/ DropStart(r) \/ Status(r)
             \/ NextChunk(r) \/ Touch(r) \/ ReadChunk(r) \/ ColdRead(r)
             \/ BodyEnd(r) \/ CopyReadMeta(r) \/ CopyChunk(r)
    BY <1>1, StoresStay DEF UpstreamHead, Compare, DropStart, Status, NextChunk,
       Touch, ReadChunk, ColdRead, BodyEnd, CopyReadMeta, CopyChunk
  <1>2. CASE PutMeta(r) \/ CopyPutMeta(r)
    <2>1. /\ objects' = [objects EXCEPT ![req[r].key] = req[r].ver]
          /\ UNCHANGED <<upstream, chunks, files, upload, evict, seen>>
      BY <1>2 DEF PutMeta, CopyPutMeta
    <2> QED
      BY <1>0, <2>1 DEF StoresOK
  <1>3. CASE DropFile(r)
    <2>1. RemoveFile(req[r].key, req[r].idx) /\ UNCHANGED <<upstream, objects, chunks, upload, evict, seen>>
      BY <1>3 DEF DropFile
    <2> QED
      BY <1>0, <2>1, RemoveFileType DEF StoresOK
  <1>4. CASE DropRow(r)
    <2>1. /\ chunks' = [chunks EXCEPT ![req[r].key] = @ \ {req[r].idx}]
          /\ UNCHANGED <<upstream, objects, files, upload, evict, seen>>
      BY <1>4 DEF DropRow
    <2> QED
      BY <1>0, <2>1 DEF StoresOK
  <1>5. CASE DropMeta(r)
    <2>1. /\ objects' = [objects EXCEPT ![req[r].key] = None]
          /\ \/ UNCHANGED upload
             \/ \E u \in {"sent", "sending"} : upload' = [upload EXCEPT ![r] = u]
          /\ UNCHANGED <<upstream, chunks, files, evict, seen>>
      BY <1>5 DEF DropMeta
    <2> QED
      BY <1>0, <2>1 DEF StoresOK, Maybe, UploadStates
  <1>6. CASE TouchPut(r) \/ CopyRow(r)
    <2>1. /\ chunks' = [chunks EXCEPT ![req[r].key] = @ \cup {req[r].idx}]
          /\ UNCHANGED <<upstream, objects, files, upload, evict, seen>>
          /\ req[r].pc \in {"touchput", "copyrow"}
      BY <1>6 DEF TouchPut, CopyRow, At
    <2>2. req[r].idx \in ChunkIds
      BY <1>0, <2>1, SizeType DEF LoopOK, ChunkIds
    <2> QED
      BY <1>0, <2>1, <2>2 DEF StoresOK
  <1>7. CASE SendChunk(r)
    <2>1. /\ \/ LetGo(r)
             \/ UNCHANGED upload
             \/ upload' = [upload EXCEPT ![r] = "sent"]
          /\ UNCHANGED <<upstream, objects, chunks, files, evict, seen>>
      BY <1>7 DEF SendChunk
    <2> QED
      BY <2>1, LetGoType DEF StoresOK, UploadStates
  <1>8. CASE WriteChunk(r)
    <2>1. /\ \/ UNCHANGED files
             \/ files' = [files EXCEPT ![req[r].key][req[r].idx] = req[r].ver]
          /\ LetGo(r) \/ UNCHANGED upload
          /\ UNCHANGED <<upstream, objects, chunks, evict, seen>>
      BY <1>8 DEF WriteChunk
    <2>2. files' \in [Keys -> [ChunkIds -> Contents]]
      BY <1>0, <2>1, SetFileType DEF StoresOK, Contents
    <2> QED
      BY <2>1, <2>2, LetGoType DEF StoresOK
  <1>9. CASE AwaitUpload(r)
    BY <1>9 DEF AwaitUpload, StoresOK, UploadStates
  <1>10. CASE Register(r)
    <2>1. /\ \/ /\ req[r].idx < NumChunks[req[r].ver]
                /\ chunks' = [chunks EXCEPT ![req[r].key] = @ \cup {req[r].idx}]
                /\ UNCHANGED objects
             \/ /\ objects' = [objects EXCEPT ![req[r].key] = req[r].ver]
                /\ UNCHANGED chunks
          /\ UNCHANGED <<upstream, files, upload, evict, seen>>
      BY <1>10, RegisterStep DEF Register
    <2>2. req[r].ver \in Versions
      BY <1>0, <1>10 DEF Register, At, LocalsOK
    <2>3. req[r].idx < NumChunks[req[r].ver] => req[r].idx \in ChunkIds
      BY <1>0, <2>2, SizeType DEF ChunkIds
    <2> QED
      BY <1>0, <2>1, <2>3 DEF StoresOK
  <1>11. CASE Cleanup(r)
    <2>1. /\ RemoveFile(req[r].key, req[r].idx) \/ UNCHANGED files
          /\ UNCHANGED <<upstream, objects, chunks, upload, evict, seen>>
      BY <1>11 DEF Cleanup
    <2> QED
      BY <1>0, <2>1, RemoveFileType DEF StoresOK
  <1>12. CASE DeleteUpstream(r)
    <2>1. /\ SetUpstream(req[r].key, None) \/ UNCHANGED <<upstream, seen>>
          /\ UNCHANGED <<objects, chunks, files, upload, evict>>
      BY <1>12, DeleteUpstreamStep DEF DeleteUpstream
    <2>2. None \in Maybe(Versions)
      BY DEF Maybe
    <2> QED
      BY <1>0, <2>1, <2>2, SetUpstreamType DEF StoresOK
  <1>13. CASE CopyUpstream(r)
    <2>1. /\ \/ SetUpstream(req[r].key, upstream[req[r].src])
             \/ UNCHANGED <<upstream, seen>>
          /\ UNCHANGED <<objects, chunks, files, upload, evict>>
      BY <1>13, CopyUpstreamStep DEF CopyUpstream
    <2>2. upstream[req[r].src] \in Maybe(Versions)
      BY <1>0 DEF StoresOK
    <2> QED
      BY <1>0, <2>1, <2>2, SetUpstreamType DEF StoresOK
  <1>14. CASE CopyFile(r)
    <2> DEFINE data == files[req[r].src][req[r].idx]
    <2>1. /\ \/ UNCHANGED files
             \/ \E v \in {data, Partial} :
                  files' = [files EXCEPT ![req[r].key][req[r].idx] = v]
          /\ UNCHANGED <<upstream, objects, chunks, upload, evict, seen>>
          /\ req[r].pc = "copyfile"
      BY <1>14 DEF CopyFile, At
    <2>2. req[r].idx \in ChunkIds
      BY <1>0, <2>1, SizeType DEF LoopOK, ChunkIds
    <2>3. {data, Partial} \subseteq Contents
      BY <1>0, <2>2 DEF StoresOK, Contents
    <2> HIDE DEF data
    <2>4. files' \in [Keys -> [ChunkIds -> Contents]]
      BY <1>0, <2>1, <2>3, SetFileType DEF StoresOK
    <2> QED
      BY <2>1, <2>4 DEF StoresOK
  <1> QED
    BY <1>1, <1>2, <1>3, <1>4, <1>5, <1>6, <1>7, <1>8, <1>9, <1>10, <1>11, <1>12,
       <1>13, <1>14 DEF Handle

LEMMA HandleTasks ==
  ASSUME TasksOK, StoresOK, NEW r \in Reqs, Handle(r)
  PROVE  TasksOK'
  BY MetaTasks, DropTasks, ReadTasks, WriteTasks, CopyTasks DEF Handle

LEMMA ArriveKeeps ==
  ASSUME TasksOK, StoresOK, NEW r \in Reqs, Arrive(r)
  PROVE  TasksOK' /\ StoresOK'
  <1> USE DEF MetaLabels, ReadLabels, DropLabels, WriteLabels, CopyLabels,
              LocalsOK, LoopOK
  <1>1. PICK o \in OpKinds, k \in Keys, s \in Keys, v \in Maybe(Versions), l \in Labels :
          /\ Begin(r, o, k, s, v, l)
          /\ \/ o \in {"GET", "HEAD"} /\ l = "head"
             \/ o = "PUT" /\ v \in Versions /\ l = "drop"
             \/ o = "DELETE" /\ l = "delete"
             \/ o = "COPY" /\ l = "copyup"
    <2>1. None \in Maybe(Versions) /\ \A v \in Versions : v \in Maybe(Versions)
      BY DEF Maybe
    <2>2. CASE \E k \in Keys : GetObject(r, k) \/ HeadObject(r, k) \/ DeleteObject(r, k)
      BY <2>1, <2>2, LabelType DEF GetObject, HeadObject, DeleteObject, OpKinds
    <2>3. CASE \E k \in Keys, v \in Versions : PutObject(r, k, v)
      BY <2>1, <2>3, LabelType DEF PutObject, OpKinds
    <2>4. CASE \E k \in Keys : \E s \in Keys : CopyObject(r, k, s)
      BY <2>1, <2>4, LabelType DEF CopyObject, OpKinds
    <2> QED
      BY <2>2, <2>3, <2>4 DEF Arrive
  <1>2. /\ req' \in [Reqs -> Request]
        /\ \A t \in Reqs \ {r} : req'[t] = req[t]
        /\ req'[r].pc = l /\ req'[r].op = o /\ req'[r].ver = v
    BY <1>1, BeginStep
  <1>3. LocalsOK(req'[r]) /\ LoopOK(req'[r])
    BY <1>1, <1>2
  <1>4. TasksOK'
    BY <1>2, <1>3 DEF TasksOK, TaskOK
  <1>5. upstream[k] \in Maybe(Versions)
    BY DEF StoresOK
  <1>6. /\ seen' = [seen EXCEPT ![r] = {upstream[k]}]
        /\ UNCHANGED <<upstream, cacheVars, upload, evict>>
    BY <1>1 DEF Begin
  <1>7. StoresOK'
    BY <1>5, <1>6 DEF StoresOK, cacheVars
  <1> QED
    BY <1>4, <1>7

LEMMA UploadKeeps ==
  ASSUME TasksOK, StoresOK, NEW r \in Reqs, Upload(r)
  PROVE  TasksOK' /\ StoresOK'
  <1>1. req[r].key \in Keys /\ req[r].ver \in Maybe(Versions)
    BY LocalFacts
  <1>2. /\ UNCHANGED <<cacheVars, req, evict>>
        /\ \E u \in UploadStates : upload' = [upload EXCEPT ![r] = u]
        /\ SetUpstream(req[r].key, req[r].ver) \/ UNCHANGED <<upstream, seen>>
    BY DEF Upload, UploadLands, UploadFails, UploadStates
  <1>3. upload' \in [Reqs -> UploadStates]
    BY <1>2 DEF StoresOK
  <1>4. StoresOK'
    BY <1>1, <1>2, <1>3, SetUpstreamType DEF StoresOK, cacheVars
  <1> QED
    BY <1>2, <1>4 DEF TasksOK

LEMMA EvictKeeps ==
  ASSUME TasksOK, StoresOK, Evict
  PROVE  TasksOK' /\ StoresOK'
  <1>1. UNCHANGED <<upstream, objects, req, upload, seen>>
    BY DEF Evict, EvictList, EvictStop, EvictFile, EvictRow, cacheVars
  <1>2. evict' \in [todo : SUBSET Slots, cur : Maybe(Slots)]
    BY DEF Evict, EvictList, EvictStop, EvictFile, EvictRow, StoresOK, Maybe
  <1>3. /\ files' \in [Keys -> [ChunkIds -> Contents]]
        /\ chunks' \in [Keys -> SUBSET ChunkIds]
    <2>1. CASE EvictList \/ EvictStop
      BY <2>1 DEF EvictList, EvictStop, StoresOK, cacheVars
    <2>2. ASSUME NEW c \in Slots, EvictFile(c)
          PROVE  /\ files' \in [Keys -> [ChunkIds -> Contents]]
                 /\ chunks' \in [Keys -> SUBSET ChunkIds]
      BY <2>2, RemoveFileType DEF EvictFile, StoresOK, Slots
    <2>3. ASSUME NEW c \in Slots, EvictRow(c)
          PROVE  /\ files' \in [Keys -> [ChunkIds -> Contents]]
                 /\ chunks' \in [Keys -> SUBSET ChunkIds]
      BY <2>3 DEF EvictRow, StoresOK, Slots
    <2> QED
      BY <2>1, <2>2, <2>3 DEF Evict
  <1> QED
    BY <1>1, <1>2, <1>3 DEF TasksOK, StoresOK

LEMMA CrashKeeps ==
  ASSUME TasksOK, StoresOK, Crash
  PROVE  TasksOK' /\ StoresOK'
  <1>1. StoresOK'
    <2>1. files' \in [Keys -> [ChunkIds -> Contents]]
      BY DEF Crash, StoresOK, Contents
    <2> QED
      BY <2>1 DEF Crash, StoresOK, UploadStates, Maybe
  <1>2. ASSUME NEW r \in Reqs
        PROVE  TaskOK(req'[r])
    <2>1. CASE ~Active(r)
      BY <2>1 DEF Crash, TasksOK
    <2>2. CASE Active(r)
      <3>1. req'[r] = Ended(r, "error")
        BY <2>2 DEF Crash
      <3>2. "error" \in Labels
        BY LabelType
      <3>3. Ended(r, "error") \in Request /\ Ended(r, "error").pc = "error"
        BY <3>2, LocalFacts, FreshType DEF Ended, Fresh
      <3> QED
        BY <3>1, <3>3 DEF TaskOK, LocalsOK, LoopOK, MetaLabels, ReadLabels,
           DropLabels, WriteLabels, CopyLabels
    <2> QED
      BY <2>1, <2>2
  <1>3. req' \in [Reqs -> Request]
    BY <1>2 DEF Crash, TaskOK
  <1> QED
    BY <1>1, <1>2, <1>3 DEF TasksOK

-----------------------------------------------------------------------------
(* LoopInv is an inductive invariant of every instance.                    *)

LEMMA InitLoop == Init => LoopInv
  <1> SUFFICES ASSUME Init PROVE TasksOK /\ StoresOK
    BY LoopInvSplit
  <1> DEFINE k0 == CHOOSE x \in Keys : TRUE
  <1>1. k0 \in Keys
    BY KeysAssumption
  <1>2. req = [r \in Reqs |-> Fresh("HEAD", k0, k0, None)]
    BY DEF Init
  <1> HIDE DEF k0
  <1>3. "HEAD" \in OpKinds /\ "idle" \in Labels /\ None \in Maybe(Versions)
    BY LabelType DEF OpKinds, Maybe
  <1>4. [Fresh("HEAD", k0, k0, None) EXCEPT !.pc = "idle"] \in Request
    BY <1>1, <1>3, FreshType
  <1>5. /\ Fresh("HEAD", k0, k0, None) \in Request
        /\ Fresh("HEAD", k0, k0, None).pc = "idle"
    BY <1>4 DEF Fresh
  <1>6. TasksOK
    BY <1>2, <1>5 DEF TasksOK, TaskOK, LocalsOK, LoopOK, MetaLabels, ReadLabels,
       DropLabels, WriteLabels, CopyLabels
  <1>7. StoresOK
    BY DEF Init, StoresOK, Maybe, Contents, UploadStates
  <1> QED
    BY <1>6, <1>7

LEMMA NextLoop ==
  ASSUME LoopInv, [Next]_vars
  PROVE  LoopInv'
  <1>1. TasksOK /\ StoresOK
    BY LoopInvSplit
  <1>2. SUFFICES TasksOK' /\ StoresOK'
    BY DEF LoopInv, TypeOK, TasksOK, StoresOK, TaskOK
  <1>3. ASSUME NEW r \in Reqs, Arrive(r) \/ Handle(r) \/ Upload(r) \/ Cancel(r)
        PROVE  TasksOK' /\ StoresOK'
    <2>1. CASE Cancel(r)
      <3>1. TasksOK'
        BY <1>1, <2>1, CancelStep, StopsTasks
      <3>2. StoresOK'
        BY <1>1, <2>1, LetGoType DEF Cancel, StoresOK, cacheVars
      <3> QED
        BY <3>1, <3>2
    <2> QED
      BY <1>1, <1>3, <2>1, ArriveKeeps, HandleTasks, HandleStores, UploadKeeps
  <1>4. CASE Evict
    BY <1>1, <1>4, EvictKeeps
  <1>5. ASSUME NEW k \in Keys, NEW v \in Maybe(Versions), DirectWrite(k, v)
        PROVE  TasksOK' /\ StoresOK'
    BY <1>1, <1>5, SetUpstreamType DEF DirectWrite, StoresOK, TasksOK, cacheVars
  <1>6. CASE Crash
    BY <1>1, <1>6, CrashKeeps
  <1>7. CASE UNCHANGED vars
    BY <1>1, <1>7 DEF vars, TasksOK, StoresOK
  <1> QED
    BY <1>3, <1>4, <1>5, <1>6, <1>7 DEF Next

(* Whatever the operations, the overlaps, the failures and the crashes,    *)
(* every variable keeps its type: above all no drop, read, write, clean-up *)
(* or copy loop of cache/mod.rs leaves the chunk indices of the object it  *)
(* works on, and no version is used where there is none.                   *)
THEOREM LoopInvariant == Spec => []LoopInv
  <1>1. Init => LoopInv
    BY InitLoop
  <1>2. LoopInv /\ [Next]_vars => LoopInv'
    BY NextLoop
  <1> QED
    BY <1>1, <1>2, PTL DEF Spec

(* The type invariant that the serial run checks.                          *)
THEOREM TypeCorrect == Spec => []TypeOK
  <1>1. LoopInv => TypeOK
    BY DEF LoopInv
  <1> QED
    BY <1>1, LoopInvariant, PTL

-----------------------------------------------------------------------------
(* Facts about single steps that the proofs about answers need.            *)

(* An answer keeps the operation and the version of its request.           *)
LEMMA RespondKeeps ==
  ASSUME TasksOK, NEW r \in Reqs, NEW e \in Ends, Respond(r, e)
  PROVE  req'[r].pc = e /\ req'[r].op = req[r].op /\ req'[r].ver = req[r].ver
  <1>1. e \in Labels
    BY DEF Labels
  <1>2. Ended(r, e) \in Request
    BY <1>1, LocalFacts, FreshType DEF Ended
  <1>3. /\ Ended(r, e).pc = e /\ Ended(r, e).op = req[r].op
        /\ Ended(r, e).ver = req[r].ver
    BY DEF Ended, Fresh
  <1> QED
    BY <1>2, <1>3, Becoming DEF Respond

(* A handler's step moves its own task only.                               *)
LEMMA HandleMoves ==
  ASSUME TasksOK, StoresOK, NEW r \in Reqs, Handle(r)
  PROVE  Moves(r)
  <1> USE DEF Goes, Now, Stops
  <1>1. CASE UpstreamHead(r) \/ Compare(r) \/ PutMeta(r)
    BY <1>1, UpstreamHeadStep, CompareStep, PutMetaStep
  <1>2. CASE DropStart(r) \/ DropFile(r) \/ DropRow(r) \/ DropMeta(r)
    BY <1>2, DropStartStep, DropFileStep, DropRowStep, DropMetaStep
  <1>3. CASE Status(r) \/ NextChunk(r) \/ Touch(r) \/ TouchPut(r)
    BY <1>3, StatusStep, NextChunkStep, TouchStep, TouchPutStep
  <1>4. CASE ReadChunk(r) \/ ColdRead(r)
    BY <1>4, ReadChunkStep, ColdReadStep
  <1>5. CASE SendChunk(r) \/ WriteChunk(r) \/ BodyEnd(r) \/ AwaitUpload(r)
    BY <1>5, SendChunkStep, WriteChunkStep, BodyEndStep, AwaitUploadStep
  <1>6. CASE Register(r) \/ Cleanup(r) \/ DeleteUpstream(r)
    BY <1>6, RegisterStep, CleanupStep, DeleteUpstreamStep
  <1>7. CASE CopyUpstream(r) \/ CopyReadMeta(r) \/ CopyPutMeta(r)
    BY <1>7, CopyUpstreamStep, CopyReadMetaStep, CopyPutMetaStep
  <1>8. CASE CopyChunk(r) \/ CopyFile(r) \/ CopyRow(r)
    BY <1>8, CopyChunkStep, CopyFileStep, CopyRowStep
  <1> QED
    BY <1>1, <1>2, <1>3, <1>4, <1>5, <1>6, <1>7, <1>8 DEF Handle

(* Only a handler's own step answers its request.                          *)
LEMMA AnswersHandle ==
  ASSUME TasksOK, StoresOK, NEW r \in Reqs, Answers(r), [Next]_vars
  PROVE  Handle(r)
  <1>1. Active(r) /\ req'[r].pc = "ok"
    BY DEF Answers
  <1>2. req'[r] # req[r]
    BY <1>1 DEF Active, Ends
  <1>3. ~Crash
    <2>1. ASSUME Crash PROVE FALSE
      <3>1. req'[r] = Ended(r, "error")
        BY <1>1, <2>1 DEF Crash
      <3> QED
        BY <1>1, <3>1 DEF Ended, Fresh
    <2> QED
      BY <2>1
  <1>4. UNCHANGED req => FALSE
    BY <1>2
  <1>5. PICK t \in Reqs : Arrive(t) \/ Handle(t) \/ Cancel(t)
    BY <1>3, <1>4 DEF Next, vars, Evict, EvictList, EvictStop, EvictFile, EvictRow,
       DirectWrite, Upload, UploadLands, UploadFails
  <1>6. CASE Arrive(t)
    <2>1. ~Active(t) /\ \E q : Becomes(t, q)
      BY <1>6 DEF Arrive, GetObject, HeadObject, DeleteObject, PutObject,
         CopyObject, Begin, Free
    <2> QED
      BY <1>1, <1>2, <2>1 DEF Becomes, TasksOK
  <1>7. CASE Cancel(t)
    <2>1. t = r
      BY <1>2, <1>7, CancelStep DEF Stops, Moves
    <2>2. req'[t].pc = "error"
      BY <1>7, RespondKeeps DEF Cancel, Ends
    <2> QED
      BY <1>1, <2>1, <2>2
  <1>8. CASE Handle(t)
    <2>1. t = r
      BY <1>2, <1>8, HandleMoves DEF Moves
    <2> QED
      BY <1>8, <2>1
  <1> QED
    BY <1>5, <1>6, <1>7, <1>8

=============================================================================
