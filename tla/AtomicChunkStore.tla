-------------------------- MODULE AtomicChunkStore --------------------------
(***************************************************************************)
(* What cache/storage.rs promises its callers: "Writes a complete chunk to *)
(* the cache atomically".  A chunk path holds the whole content of one     *)
(* write or nothing, and a read returns the content the path had when it   *)
(* was opened, or an error.  Any operation may fail; a restart ends all    *)
(* reads and keeps the files.                                              *)
(***************************************************************************)
CONSTANTS Paths, Data, Readers, None

VARIABLES
  file,  \* file[p]: what the path holds
  read   \* read[r]: the state of a read, and the content it is about

vars == <<file, read>>

Idle == [st |-> "idle", data |-> None]

Init ==
  /\ file = [p \in Paths |-> None]
  /\ read = [r \in Readers |-> Idle]

Put(p, d) == file' = [file EXCEPT ![p] = d] /\ UNCHANGED read

Delete(p) == file' = [file EXCEPT ![p] = None] /\ UNCHANGED read

Open(r, p) ==
  /\ read[r] = Idle
  /\ file[p] # None
  /\ read' = [read EXCEPT ![r] = [st |-> "open", data |-> file[p]]]
  /\ UNCHANGED file

Return(r) ==
  /\ read[r].st = "open"
  /\ read' = [read EXCEPT ![r].st = "got"]
  /\ UNCHANGED file

Fail(r) ==
  /\ read[r].st \in {"idle", "open"}
  /\ read' = [read EXCEPT ![r] = [st |-> "error", data |-> None]]
  /\ UNCHANGED file

Forget(r) ==
  /\ read[r].st \in {"got", "error"}
  /\ read' = [read EXCEPT ![r] = Idle]
  /\ UNCHANGED file

Restart == read' = [r \in Readers |-> Idle] /\ UNCHANGED file

Next ==
  \/ \E p \in Paths : Delete(p) \/ \E d \in Data : Put(p, d)
  \/ \E r \in Readers : \/ Return(r) \/ Fail(r) \/ Forget(r)
                        \/ \E p \in Paths : Open(r, p)
  \/ Restart

Spec == Init /\ [][Next]_vars
=============================================================================
