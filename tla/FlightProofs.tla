---------------------------- MODULE FlightProofs ----------------------------
(***************************************************************************)
(* Single flight for any number of calls and channels.                     *)
(***************************************************************************)
EXTENDS SingleFlight, TLAPS

(* The labels of a call that the row is already written for.               *)
Done == {"complete", "removeok", "ok"}

(* Nobody is told that the chunk is there before its row is.               *)
Told ==
  \/ row \/ evicted
  \/ /\ \A t \in Tasks : call[t].pc \notin Done
     /\ \A c \in Channels : status[c] # "Complete"

(* At no time do two calls download the chunk, and the one that does is    *)
(* the one whose channel later calls will find in the map.                 *)
OneDownload ==
  \A t \in Tasks : call[t].pc \in Downloading \cup Removing =>
    /\ entry = call[t].tx
    /\ \A u \in Tasks \ {t} : call[u].pc \notin Downloading \cup Removing

FlightInv == TypeOK /\ OneDownload /\ Told

(* The labels of a call that holds a sender.                               *)
Holding == Downloading \cup Removing

-----------------------------------------------------------------------------
LEMMA CallType ==
  ASSUME TypeOK, NEW t \in Tasks
  PROVE  /\ call[t].pc \in Labels
         /\ call[t].tx \in Channels \cup {None}
         /\ call[t].rx \in Channels \cup {None}
         /\ call[t].pc = "wait" <=> call[t].rx # None
         /\ call[t].pc \in Holding <=> call[t].tx # None
  BY DEF TypeOK, Call, At, Holding

(* A step that gives call t the record r.                                  *)
LEMMA BecomesType ==
  ASSUME TypeOK, NEW t \in Tasks, NEW r \in Call, Becomes(t, r),
         r.pc = "wait" <=> r.rx # None,
         r.pc \in Downloading \cup Removing <=> r.tx # None,
         row' \in BOOLEAN, evicted' \in BOOLEAN,
         entry' \in Channels \cup {None},
         status' \in [Channels -> Statuses]
  PROVE  TypeOK' /\ call'[t] = r /\ \A u \in Tasks \ {t} : call'[u] = call[u]
  BY DEF TypeOK, Becomes, At

(* A step that moves call t to label l and leaves its channels.            *)
LEMMA GotoType ==
  ASSUME TypeOK, NEW t \in Tasks, NEW l \in Labels, Goto(t, l),
         l # "wait", call[t].pc # "wait", l \in Holding <=> call[t].pc \in Holding,
         row' \in BOOLEAN, evicted' \in BOOLEAN,
         entry' \in Channels \cup {None},
         status' \in [Channels -> Statuses]
  PROVE  /\ TypeOK' /\ call'[t].pc = l /\ call'[t].tx = call[t].tx
         /\ \A u \in Tasks \ {t} : call'[u] = call[u]
  <1> DEFINE r == [call[t] EXCEPT !.pc = l]
  <1>1. call[t] \in Call
    BY DEF TypeOK
  <1>2. r \in Call /\ r.pc = l /\ r.tx = call[t].tx /\ r.rx = call[t].rx
    BY <1>1 DEF Call
  <1>3. Becomes(t, r)
    BY DEF Goto, Becomes, TypeOK
  <1>4. (r.pc = "wait" <=> r.rx # None) /\ (r.pc \in Downloading \cup Removing <=> r.tx # None)
    BY <1>2, CallType DEF Holding
  <1> HIDE DEF r
  <1> QED
    BY <1>2, <1>3, <1>4, BecomesType

LEMMA EndType ==
  ASSUME TypeOK, NEW t \in Tasks, NEW l \in Labels, Becomes(t, End(l)),
         l # "wait", l \notin Holding,
         row' \in BOOLEAN, evicted' \in BOOLEAN,
         entry' \in Channels \cup {None},
         status' \in [Channels -> Statuses]
  PROVE  /\ TypeOK' /\ call'[t].pc = l
         /\ \A u \in Tasks \ {t} : call'[u] = call[u]
  <1>1. End(l) \in Call /\ End(l).pc = l /\ End(l).tx = None /\ End(l).rx = None
    BY DEF End, Call
  <1> QED
    BY <1>1, BecomesType DEF Holding

(* A call that takes no sender and drops one at most keeps single flight.  *)
LEMMA OneStays ==
  ASSUME TypeOK, OneDownload, NEW t \in Tasks, UNCHANGED entry,
         \A u \in Tasks \ {t} : call'[u] = call[u],
         \/ call'[t].pc \notin Holding
         \/ call[t].pc \in Holding /\ call'[t].tx = call[t].tx
  PROVE  OneDownload'
  BY DEF OneDownload, Holding

LEMMA ToldStays ==
  ASSUME Told, NEW t \in Tasks, UNCHANGED status,
         row => row', evicted => evicted',
         \A u \in Tasks \ {t} : call'[u] = call[u],
         call'[t].pc \in Done => row' \/ evicted'
  PROVE  Told'
  BY DEF Told

-----------------------------------------------------------------------------
(* The steps that end a call, or send it on without a sender.              *)

LEMMA EndKeeps ==
  ASSUME FlightInv, NEW t \in Tasks, NEW l \in Labels, Becomes(t, End(l)),
         l # "wait", l \notin Holding, l = "ok" => row' \/ evicted',
         UNCHANGED <<entry, status, evicted>>,
         row' \in BOOLEAN, row => row'
  PROVE  FlightInv'
  <1>1. /\ TypeOK' /\ call'[t].pc = l
        /\ \A u \in Tasks \ {t} : call'[u] = call[u]
    BY EndType DEF FlightInv, TypeOK
  <1>2. OneDownload'
    BY <1>1, OneStays DEF FlightInv
  <1>3. Told'
    BY <1>1, ToldStays DEF FlightInv, Done, Holding, Downloading, Removing
  <1> QED
    BY <1>1, <1>2, <1>3 DEF FlightInv

LEMMA GotoKeeps ==
  ASSUME FlightInv, NEW t \in Tasks, NEW l \in Labels, Goto(t, l),
         l # "wait", call[t].pc # "wait", l \in Holding <=> call[t].pc \in Holding,
         l \in Done => row', row' \in BOOLEAN, row => row',
         UNCHANGED <<entry, status, evicted>>
  PROVE  FlightInv'
  <1>1. /\ TypeOK' /\ call'[t].pc = l /\ call'[t].tx = call[t].tx
        /\ \A u \in Tasks \ {t} : call'[u] = call[u]
    BY GotoType DEF FlightInv, TypeOK
  <1>2. OneDownload'
    BY <1>1, OneStays DEF FlightInv
  <1>3. Told'
    BY <1>1, ToldStays DEF FlightInv
  <1> QED
    BY <1>1, <1>2, <1>3 DEF FlightInv

LEMMA StepKeeps ==
  ASSUME FlightInv, NEW t \in Tasks, Ensure(t) \/ Step(t) \/ Cancel(t)
  PROVE  FlightInv'
  <1> USE DEF Labels, Ends, Downloading, Removing, Holding, Done
  <1>0. row \in BOOLEAN /\ TypeOK /\ Told
    BY DEF FlightInv, TypeOK
  <1>1. CASE Ensure(t)
    BY <1>0, <1>1, EndKeeps DEF Ensure
  <1>2. CASE CheckDb(t)
    <2>1. call[t].pc = "check"
      BY <1>2 DEF CheckDb, At
    <2>2. \E l \in {"touch", "lookup"} : Goto(t, l)
      BY <1>2 DEF CheckDb
    <2> QED
      BY <1>0, <1>2, <2>1, <2>2, GotoKeeps DEF CheckDb
  <1>3. CASE Touch(t)
    BY <1>0, <1>3, EndKeeps DEF Touch
  <1>4. CASE Lookup(t)
    <2>1. CASE entry = None
      BY <1>0, <1>4, <2>1, GotoKeeps DEF Lookup, At
    <2>2. CASE entry # None
      <3> DEFINE r == [End("wait") EXCEPT !.rx = entry]
      <3>1. r \in Call /\ r.pc = "wait" /\ r.tx = None /\ r.rx = entry
        BY <1>0, <2>2 DEF End, Call, TypeOK
      <3>2. Becomes(t, r) /\ UNCHANGED <<row, entry, status, evicted>>
        BY <1>4, <2>2 DEF Lookup
      <3> HIDE DEF r
      <3>3. TypeOK' /\ call'[t] = r /\ \A u \in Tasks \ {t} : call'[u] = call[u]
        BY <1>0, <2>2, <3>1, <3>2, BecomesType DEF TypeOK
      <3>4. OneDownload' /\ Told'
        BY <1>0, <3>1, <3>2, <3>3, OneStays, ToldStays DEF FlightInv
      <3> QED
        BY <3>3, <3>4 DEF FlightInv
    <2> QED
      BY <2>1, <2>2
  <1>5. CASE Wait(t)
    <2>1. call[t].rx \in Channels
      BY <1>0, <1>5, CallType DEF Wait, At
    <2>2. status[call[t].rx] = "Complete" => row \/ evicted
      BY <1>0, <2>1 DEF Told
    <2> QED
      BY <1>0, <1>5, <2>2, EndKeeps DEF Wait
  <1>6. CASE Register(t)
    <2>0. call[t].pc = "register"
      BY <1>6 DEF Register, At
    <2>1. CASE entry # None
      BY <1>0, <1>6, <2>0, <2>1, GotoKeeps DEF Register
    <2>2. CASE entry = None
      <3>1. PICK c \in Channels :
              /\ entry' = c
              /\ status' = [status EXCEPT ![c] = "Pending"]
              /\ Becomes(t, [End("fetch") EXCEPT !.tx = c])
        BY <1>6, <2>2 DEF Register
      <3> DEFINE r == [End("fetch") EXCEPT !.tx = c]
      <3>2. r \in Call /\ r.pc = "fetch" /\ r.tx = c /\ r.rx = None /\ c # None
        BY NoneAssumption DEF End, Call
      <3>3. Becomes(t, r) /\ UNCHANGED <<row, evicted>>
        BY <1>6, <3>1 DEF Register
      <3> HIDE DEF r
      <3>4. status' \in [Channels -> Statuses] /\ evicted \in BOOLEAN
        BY <1>0, <3>1 DEF TypeOK, Statuses
      <3>5. TypeOK' /\ call'[t] = r /\ \A u \in Tasks \ {t} : call'[u] = call[u]
        BY <1>0, <3>1, <3>2, <3>3, <3>4, BecomesType
      <3>6. \A u \in Tasks : call[u].pc \notin Holding
        BY <1>0, <2>2, CallType DEF FlightInv, OneDownload
      <3>7. OneDownload'
        BY <3>1, <3>2, <3>5, <3>6 DEF OneDownload
      <3>8. Told'
        BY <1>0, <3>1, <3>2, <3>3, <3>5 DEF Told, TypeOK
      <3> QED
        BY <3>5, <3>7, <3>8 DEF FlightInv
    <2> QED
      BY <2>1, <2>2
  <1>7. CASE Fetch(t)
    BY <1>0, <1>7, GotoKeeps DEF Fetch, At
  <1>8. CASE WriteFile(t)
    BY <1>0, <1>8, GotoKeeps DEF WriteFile, At
  <1>9. CASE PutRow(t)
    BY <1>0, <1>9, GotoKeeps DEF PutRow, At
  <1>10. CASE Send(t)
    <2>1. PICK l \in {"removeok", "removeerr"} :
            /\ Goto(t, l)
            /\ l = "removeok" <=> call[t].pc = "complete"
      BY <1>10 DEF Send, At
    <2>2. call[t].pc \in {"complete", "fail"} /\ call[t].tx \in Channels
      BY <1>0, <1>10, CallType DEF Send
    <2>3. PICK s \in Statuses : /\ status' = [status EXCEPT ![call[t].tx] = s]
                                /\ s = "Complete" <=> call[t].pc = "complete"
      BY <1>10 DEF Send, Statuses, At
    <2>4. status' \in [Channels -> Statuses] /\ UNCHANGED <<row, entry, evicted>>
      BY <1>0, <1>10, <2>3 DEF TypeOK, Send
    <2>5. /\ TypeOK' /\ call'[t].pc = l /\ call'[t].tx = call[t].tx
          /\ \A u \in Tasks \ {t} : call'[u] = call[u]
      BY <1>0, <2>1, <2>2, <2>4, GotoType DEF TypeOK
    <2>6. OneDownload'
      BY <1>0, <2>2, <2>4, <2>5, OneStays DEF FlightInv
    <2>7. Told'
      BY <1>0, <2>1, <2>2, <2>3, <2>4, <2>5 DEF Told, TypeOK
    <2> QED
      BY <2>5, <2>6, <2>7 DEF FlightInv
  <1>11. CASE Remove(t)
    <2>1. PICK l \in {"ok", "error"} :
            Becomes(t, End(l)) /\ (l = "ok" <=> call[t].pc = "removeok")
      BY <1>11 DEF Remove, At
    <2>2. call[t].pc \in Holding /\ entry' = None /\ UNCHANGED <<row, status, evicted>>
      BY <1>11 DEF Remove
    <2>3. /\ TypeOK' /\ call'[t].pc = l
          /\ \A u \in Tasks \ {t} : call'[u] = call[u]
      BY <1>0, <2>1, <2>2, EndType DEF TypeOK
    <2>4. OneDownload'
      BY <2>2, <2>3 DEF FlightInv, OneDownload
    <2>5. Told'
      BY <1>0, <2>1, <2>2, <2>3, ToldStays DEF Told
    <2> QED
      BY <2>3, <2>4, <2>5 DEF FlightInv
  <1>12. CASE Cancel(t)
    BY <1>0, <1>12, EndKeeps DEF Cancel
  <1> QED
    BY <1>1, <1>2, <1>3, <1>4, <1>5, <1>6, <1>7, <1>8, <1>9, <1>10, <1>11, <1>12
       DEF Step

LEMMA InitFlight == Init => FlightInv
  <1> SUFFICES ASSUME Init PROVE FlightInv
    OBVIOUS
  <1>1. /\ End("idle") \in Call /\ End("idle").pc = "idle"
        /\ End("idle").tx = None /\ End("idle").rx = None
    BY DEF End, Call, Labels, Ends
  <1>2. \A t \in Tasks : call[t] = End("idle")
    BY DEF Init
  <1>3. TypeOK
    BY <1>1, <1>2 DEF Init, TypeOK, Statuses, At, Downloading, Removing
  <1>4. OneDownload
    BY <1>1, <1>2 DEF OneDownload, Downloading, Removing
  <1>5. Told
    BY <1>1, <1>2 DEF Init, Told, Done
  <1> QED
    BY <1>3, <1>4, <1>5 DEF FlightInv

LEMMA NextFlight ==
  ASSUME FlightInv, [Next]_vars
  PROVE  FlightInv'
  <1>1. ASSUME NEW t \in Tasks, Ensure(t) \/ Step(t) \/ Cancel(t)
        PROVE  FlightInv'
    BY <1>1, StepKeeps
  <1>2. CASE Evict
    BY <1>2 DEF Evict, FlightInv, TypeOK, OneDownload, Told, At
  <1>3. CASE UNCHANGED vars
    BY <1>3 DEF vars, FlightInv, TypeOK, OneDownload, Told, At
  <1> QED
    BY <1>1, <1>2, <1>3 DEF Next

LEMMA FlightInvariant == Spec => []FlightInv
  BY InitFlight, NextFlight, PTL DEF Spec

(* A call holds a receiver exactly while it waits and a sender exactly     *)
(* while it downloads: no return, error or dropped future of               *)
(* ensure_chunk_cached leaves one behind in its locals.                    *)
THEOREM FlightTypes == Spec => []TypeOK
  <1>1. FlightInv => TypeOK
    BY DEF FlightInv
  <1> QED
    BY <1>1, FlightInvariant, PTL

(* A call of ensure_chunk_cached that returns Ok, having downloaded or     *)
(* having waited for another, returns after the row of the chunk was       *)
(* written; only the eviction worker can have taken it away.               *)
THEOREM OkImpliesCached == Spec => []OkMeansCached
  <1>1. FlightInv => OkMeansCached
    BY DEF FlightInv, Told, OkMeansCached, Done, At
  <1> QED
    BY <1>1, FlightInvariant, PTL

=============================================================================
