---------------------------- MODULE SingleFlight ----------------------------
(***************************************************************************)
(* ensure_chunk_cached and download_and_cache_chunk (cache/mod.rs): calls  *)
(* for one chunk that is not cached share one download through a DashMap   *)
(* of watch receivers.  Chunks do not interfere, so there is one.  Steps   *)
(* are database transactions, DashMap operations and awaits; no lock spans *)
(* two of them.                                                            *)
(*                                                                         *)
(* A watch channel holds a DownloadStatus and is closed when its sender,   *)
(* a local of the downloading call, is dropped.                            *)
(*                                                                         *)
(* No handler calls ensure_chunk_cached: a GET that misses downloads for   *)
(* itself (CacheOnWriteOnly of CacheCoordinator).  What is checked here is *)
(* what a caller could rely on.                                            *)
(***************************************************************************)
CONSTANTS
  Tasks,     \* the calls, each made once
  Channels,  \* watch channels: as many as there are calls
  None

ASSUME NoneAssumption == None \notin Channels

VARIABLES
  row,      \* the chunk has a row with status Complete
  entry,    \* active_downloads: the channel registered for the chunk
  status,   \* status[c]: the DownloadStatus in channel c
  call,     \* the locals of each caller
  evicted   \* history: the row was deleted by the eviction worker

vars == <<row, entry, status, call, evicted>>

Ends == {"idle", "ok", "error"}
Downloading == {"fetch", "write", "putrow", "complete", "fail"}
Removing == {"removeok", "removeerr"}
Labels == Ends \cup Downloading \cup Removing
               \cup {"check", "touch", "lookup", "wait", "register"}
Statuses == {"Pending", "Complete", "Failed"}

(* tx is the channel a call sends on, rx the one it waits on.              *)
Call == [pc : Labels, tx : Channels \cup {None}, rx : Channels \cup {None}]

At(t, label) == call[t].pc = label
Busy(t) == call[t].pc \notin Ends
Becomes(t, r) == call' = [call EXCEPT ![t] = r]
Goto(t, label) == call' = [call EXCEPT ![t].pc = label]

(* A call returns: its locals are dropped, and with tx the channel closes. *)
End(label) == [pc |-> label, tx |-> None, rx |-> None]

Init ==
  /\ row \in BOOLEAN
  /\ entry = None
  /\ status = [c \in Channels |-> "Pending"]
  /\ call = [t \in Tasks |-> End("idle")]
  /\ evicted = FALSE

Closed(c) == \A t \in Tasks : call[t].tx # c

(* No longer referenced: the next watch::channel() may be this one.        *)
Unused(c) == Closed(c) /\ entry # c /\ \A t \in Tasks : call[t].rx # c

-----------------------------------------------------------------------------
Ensure(t) ==
  /\ At(t, "idle")
  /\ Becomes(t, End("check"))
  /\ UNCHANGED <<row, entry, status, evicted>>

(* 1. Fast path: get_chunk ...                                             *)
CheckDb(t) ==
  /\ At(t, "check")
  /\ Goto(t, IF row THEN "touch" ELSE "lookup")
  /\ UNCHANGED <<row, entry, status, evicted>>

(* ... and put_chunk with a new access time, which brings the row back if  *)
(* it was deleted in between.                                              *)
Touch(t) ==
  /\ At(t, "touch")
  /\ row' = TRUE
  /\ Becomes(t, End("ok"))
  /\ UNCHANGED <<entry, status, evicted>>

(* Mutant: the look-up is not checked.                                     *)
LookupUnchecked(t) ==
  /\ At(t, "lookup")
  /\ Becomes(t, [End("wait") EXCEPT !.rx = entry])
  /\ UNCHANGED <<row, entry, status, evicted>>

(* 2. Slow path: active_downloads.get and a clone of the receiver, ...     *)
Lookup(t) ==
  /\ At(t, "lookup")
  /\ \/ /\ entry # None
        /\ Becomes(t, [End("wait") EXCEPT !.rx = entry])
     \/ /\ entry = None
        /\ Goto(t, "register")
  /\ UNCHANGED <<row, entry, status, evicted>>

(* Mutant: a waiter goes by the map, and has no receiver of its own.       *)
WaitOnMap(t) ==
  LET s == status[call[t].rx] IN
  /\ At(t, "wait")
  /\ entry = call[t].rx
  /\ \/ s = "Complete" /\ Becomes(t, End("ok"))
     \/ s = "Failed" /\ Becomes(t, End("error"))
     \/ s = "Pending" /\ Closed(call[t].rx) /\ Becomes(t, End("lookup"))
  /\ UNCHANGED <<row, entry, status, evicted>>

(* ... rx.changed(): the status once it is set, or an error if the sender  *)
(* has gone without setting it, and then the loop starts again.            *)
Wait(t) ==
  LET s == status[call[t].rx] IN
  /\ At(t, "wait")
  /\ \/ s = "Complete" /\ Becomes(t, End("ok"))
     \/ s = "Failed" /\ Becomes(t, End("error"))
     \/ s = "Pending" /\ Closed(call[t].rx) /\ Becomes(t, End("lookup"))
  /\ UNCHANGED <<row, entry, status, evicted>>

(* The entry is taken if it is vacant; a lost race loops.                  *)
Register(t) ==
  /\ At(t, "register")
  /\ \/ /\ entry # None
        /\ Goto(t, "lookup")
        /\ UNCHANGED <<entry, status>>
     \/ /\ entry = None
        /\ \E c \in Channels :
             /\ Unused(c)
             /\ entry' = c
             /\ status' = [status EXCEPT ![c] = "Pending"]
             /\ Becomes(t, [End("fetch") EXCEPT !.tx = c])
  /\ UNCHANGED <<row, evicted>>

-----------------------------------------------------------------------------
(* download_and_cache_chunk: the range is read to its end and must have    *)
(* the length asked for, the file is written, then the row.  Each may fail.*)
Fetch(t) ==
  /\ At(t, "fetch")
  /\ Goto(t, "write") \/ Goto(t, "fail")
  /\ UNCHANGED <<row, entry, status, evicted>>

(* Mutant: the waiters are told before the row is written.                 *)
WriteOnly(t) ==
  /\ At(t, "write")
  /\ Goto(t, "complete") \/ Goto(t, "fail")
  /\ UNCHANGED <<row, entry, status, evicted>>

WriteFile(t) ==
  /\ At(t, "write")
  /\ Goto(t, "putrow") \/ Goto(t, "fail")
  /\ UNCHANGED <<row, entry, status, evicted>>

PutRow(t) ==
  /\ At(t, "putrow")
  /\ row' = TRUE
  /\ Goto(t, "complete")
  /\ UNCHANGED <<entry, status, evicted>>

(* tx.send, active_downloads.remove, return.                               *)
Send(t) ==
  /\ call[t].pc \in {"complete", "fail"}
  /\ status' = [status EXCEPT ![call[t].tx] =
                  IF At(t, "complete") THEN "Complete" ELSE "Failed"]
  /\ Goto(t, IF At(t, "complete") THEN "removeok" ELSE "removeerr")
  /\ UNCHANGED <<row, entry, evicted>>

Remove(t) ==
  /\ call[t].pc \in Removing
  /\ entry' = None
  /\ Becomes(t, End(IF At(t, "removeok") THEN "ok" ELSE "error"))
  /\ UNCHANGED <<row, status, evicted>>

-----------------------------------------------------------------------------
(* The caller is dropped at an await: nothing removes its entry.           *)
Cancel(t) ==
  /\ call[t].pc \in {"wait", "fetch", "write"}
  /\ Becomes(t, End("error"))
  /\ UNCHANGED <<row, entry, status, evicted>>

Evict ==
  /\ row
  /\ row' = FALSE
  /\ evicted' = TRUE
  /\ UNCHANGED <<entry, status, call>>

Step(t) ==
  \/ CheckDb(t) \/ Touch(t) \/ Lookup(t) \/ Wait(t) \/ Register(t)
  \/ Fetch(t) \/ WriteFile(t) \/ PutRow(t) \/ Send(t) \/ Remove(t)

Next ==
  \/ \E t \in Tasks : Ensure(t) \/ Step(t) \/ Cancel(t)
  \/ Evict

Spec == Init /\ [][Next]_vars

(* The runtime polls every call that is ready; upstream and disk answer.   *)
FairSpec == Spec /\ \A t \in Tasks : WF_vars(Step(t))

-----------------------------------------------------------------------------
TypeOK ==
  /\ row \in BOOLEAN /\ evicted \in BOOLEAN
  /\ entry \in Channels \cup {None}
  /\ status \in [Channels -> Statuses]
  /\ call \in [Tasks -> Call]
  /\ \A t \in Tasks : /\ At(t, "wait") <=> call[t].rx # None
                      /\ call[t].pc \in Downloading \cup Removing <=> call[t].tx # None

(* Ok means that the chunk is there, for a call that downloaded it as for  *)
(* one that waited, until the worker takes it away.                        *)
OkMeansCached == (\E t \in Tasks : At(t, "ok")) => row \/ evicted

(* The entry of a download whose caller was dropped.                       *)
Leaked == entry # None /\ Closed(entry)

(* Every call returns, whatever fails, and whichever of the calls that     *)
(* wait or lose a race it is, unless a downloading caller has been dropped:*)
(* then its entry stays, and those who find it loop without waiting.       *)
CallsReturn == \A t \in Tasks : Busy(t) ~> ~Busy(t) \/ Leaked
=============================================================================
