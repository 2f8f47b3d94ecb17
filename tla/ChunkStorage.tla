---------------------------- MODULE ChunkStorage ----------------------------
(***************************************************************************)
(* cache/storage.rs on a POSIX file system: a chunk is written to a        *)
(* temporary file and renamed into place, read through a descriptor,       *)
(* deleted by unlink, and copied in place (tokio::fs::copy, called by      *)
(* copy_cache_object).  One step is one system call: tokio::fs runs each   *)
(* on its blocking pool and awaits it, so that anything may come between   *)
(* two of them, and write_all and read_exact take several.                 *)
(*                                                                         *)
(* A file's content is a sequence of blocks; block j of the chunk data d   *)
(* is written d, wherever it stands, and a gap is None.  Directories name  *)
(* inodes: a descriptor keeps its inode when the name goes elsewhere.      *)
(***************************************************************************)
EXTENDS Naturals, Sequences

CONSTANTS
  Paths,   \* the values of chunk_path; each has its own ".tmp" sibling
  Data,    \* chunk contents
  None,
  Inodes,  \* enough for every name and descriptor
  Blocks,  \* bound: the number of system calls that write or read a chunk
  Tasks,   \* callers of the storage: at most this many at a time
  Overlap  \* whether two writers, or a copy and a reader, may share a path

ASSUME PathsAssumption == Paths # {}
ASSUME NoneAssumption == None \notin Data /\ None \notin Inodes
ASSUME BlocksAssumption == Blocks \in Nat \ {0}
ASSUME OverlapAssumption == Overlap \in BOOLEAN

Maybe(S) == S \cup {None}
Full(d) == [j \in 1..Blocks |-> d]

VARIABLES
  target,  \* target[p]: the inode under the chunk's name
  tmp,     \* tmp[p]: the inode under its name with extension "tmp"
  data,    \* data[n]: the blocks of inode n
  task     \* the locals of each caller

vars == <<target, tmp, data, task>>

Writing == {"create", "write", "rename"}
Busy == Writing \cup {"copy", "read"}
Labels == Busy \cup {"idle", "done", "got", "error"}

Task == [pc : Labels,
         path : Paths,
         what : Maybe(Data),          \* the chunk to write
         fd : Maybe(Inodes),          \* the open file
         src : Maybe(Inodes),         \* the file a copy reads
         out : Seq(Maybe(Data))]      \* the blocks written or read so far

Rest(p, label) == [pc |-> label, path |-> p, what |-> None, fd |-> None,
                   src |-> None, out |-> <<>>]

Idle == Rest(CHOOSE p \in Paths : TRUE, "idle")

Init ==
  /\ target = [p \in Paths |-> None]
  /\ tmp = [p \in Paths |-> None]
  /\ data = [n \in Inodes |-> <<>>]
  /\ task = [t \in Tasks |-> Idle]

-----------------------------------------------------------------------------
At(t, label) == task[t].pc = label
Becomes(t, r) == task' = [task EXCEPT ![t] = r]

Unused(n) == /\ \A p \in Paths : n \notin {target[p], tmp[p]}
             /\ \A t \in Tasks : n \notin {task[t].fd, task[t].src}

(* Without Overlap, requests on one key take turns, except for reads of a  *)
(* chunk that is being written: a task with a label in ls on p is gone     *)
(* before the next begins.                                                 *)
Alone(t, p, ls) ==
  Overlap \/ \A u \in Tasks \ {t} : task[u].path = p => task[u].pc \notin ls

(* pwrite of block d after the first k blocks of content s: what lies in   *)
(* between, if another writer has truncated the file, is a gap.            *)
Put(s, k, d) ==
  [j \in 1..(IF Len(s) > k THEN Len(s) ELSE k + 1) |->
     IF j = k + 1 THEN d ELSE IF j <= Len(s) THEN s[j] ELSE None]

(* Opening the name dir[p] to write: create it, or truncate what is there. *)
OpenForWrite(dir, p, n) ==
  /\ IF dir[p] = None THEN Unused(n) ELSE n = dir[p]
  /\ data' = [data EXCEPT ![n] = <<>>]

-----------------------------------------------------------------------------
(* Storage::write_chunk.                                                   *)

WriteChunk(t, p, d) ==
  /\ At(t, "idle")
  /\ Alone(t, p, Writing)
  /\ Becomes(t, [Rest(p, "create") EXCEPT !.what = d])
  /\ UNCHANGED <<target, tmp, data>>

(* Mutant: the chunk is created and written under its final name.          *)
CreateInPlace(t) ==
  LET p == task[t].path IN
  /\ At(t, "create")
  /\ \E n \in Inodes :
       /\ OpenForWrite(target, p, n)
       /\ target' = [target EXCEPT ![p] = n]
       /\ tmp' = [tmp EXCEPT ![p] = n]
       /\ Becomes(t, [task[t] EXCEPT !.pc = "write", !.fd = n])

Create(t) ==
  LET p == task[t].path IN
  /\ At(t, "create")
  /\ \E n \in Inodes :
       /\ OpenForWrite(tmp, p, n)
       /\ tmp' = [tmp EXCEPT ![p] = n]
       /\ Becomes(t, [task[t] EXCEPT !.pc = "write", !.fd = n])
  /\ UNCHANGED target

(* Mutant: one block too many.                                             *)
WriteBlockMore(t) ==
  LET k == Len(task[t].out)
      d == task[t].what
  IN
  /\ At(t, "write")
  /\ data' = [data EXCEPT ![task[t].fd] = Put(@, k, d)]
  /\ Becomes(t, [task[t] EXCEPT !.pc = IF k = Blocks THEN "rename" ELSE "write",
                                !.out = Append(@, d)])
  /\ UNCHANGED <<target, tmp>>

(* Mutant: write in place of write_all, a short write is not continued.    *)
WriteBlockOnce(t) ==
  LET d == task[t].what IN
  /\ At(t, "write")
  /\ data' = [data EXCEPT ![task[t].fd] = Put(@, 0, d)]
  /\ Becomes(t, [task[t] EXCEPT !.pc = "rename", !.out = <<d>>])
  /\ UNCHANGED <<target, tmp>>

WriteBlock(t) ==
  LET k == Len(task[t].out)
      d == task[t].what
  IN
  /\ At(t, "write")
  /\ data' = [data EXCEPT ![task[t].fd] = Put(@, k, d)]
  /\ Becomes(t, [task[t] EXCEPT !.pc = IF k + 1 = Blocks THEN "rename" ELSE "write",
                                !.out = Append(@, d)])
  /\ UNCHANGED <<target, tmp>>

(* The name moves, whatever inode it stands for by now; without it the     *)
(* rename fails (Abort).                                                   *)
Rename(t) ==
  LET p == task[t].path IN
  /\ At(t, "rename")
  /\ tmp[p] # None
  /\ target' = [target EXCEPT ![p] = tmp[p]]
  /\ tmp' = [tmp EXCEPT ![p] = None]
  /\ Becomes(t, Rest(p, "done"))
  /\ UNCHANGED data

(* Storage::delete_chunk.                                                  *)
DeleteChunk(p) ==
  /\ target[p] # None
  /\ target' = [target EXCEPT ![p] = None]
  /\ UNCHANGED <<tmp, data, task>>

-----------------------------------------------------------------------------
(* Storage::read_chunk_range, for the whole chunk: an offset and a shorter *)
(* length, which could fit in what an unfinished copy has left, are not    *)
(* modelled.                                                               *)

Open(t, p) ==
  /\ At(t, "idle")
  /\ Alone(t, p, {"copy"})
  /\ Becomes(t, IF target[p] = None THEN Rest(p, "error")
                  ELSE [Rest(p, "read") EXCEPT !.fd = target[p]])
  /\ UNCHANGED <<target, tmp, data>>

(* read_exact: the next block, or "unexpected end of file".                *)
ReadBlock(t) ==
  LET blocks == data[task[t].fd]
      k == Len(task[t].out)
  IN
  /\ At(t, "read")
  /\ Becomes(t, IF k >= Len(blocks) THEN Rest(task[t].path, "error")
                  ELSE [task[t] EXCEPT !.out = Append(@, blocks[k + 1]),
                                       !.pc = IF k + 1 = Blocks THEN "got" ELSE "read",
                                       !.fd = IF k + 1 = Blocks THEN None ELSE @])
  /\ UNCHANGED <<target, tmp, data>>

-----------------------------------------------------------------------------
(* tokio::fs::copy of chunk q to chunk p, if q exists: the source is       *)
(* opened, the destination created or truncated, and the blocks follow.    *)
CopyChunk(t, p, q) ==
  /\ At(t, "idle")
  /\ target[q] # None
  /\ Alone(t, p, {"copy", "read"})
  /\ Alone(t, q, {"copy"})
  /\ Overlap \/ \A u \in Tasks : task[u].src # None => task[u].src # target[p]
  /\ \E n \in Inodes :
       /\ OpenForWrite(target, p, n)
       /\ target' = [target EXCEPT ![p] = n]
       /\ Becomes(t, [Rest(p, "copy") EXCEPT !.fd = n, !.src = target[q]])
  /\ UNCHANGED tmp

CopyBlock(t) ==
  LET k == Len(task[t].out)
      blocks == data[task[t].src]
  IN
  /\ At(t, "copy")
  /\ \/ /\ k < Len(blocks)
        /\ data' = [data EXCEPT ![task[t].fd] = Put(@, k, blocks[k + 1])]
        /\ Becomes(t, [task[t] EXCEPT !.out = Append(@, blocks[k + 1])])
     \/ /\ k >= Len(blocks)
        /\ Becomes(t, Rest(task[t].path, "done"))
        /\ UNCHANGED data
  /\ UNCHANGED <<target, tmp>>

-----------------------------------------------------------------------------
(* A system call fails, or the client has gone and the future is dropped   *)
(* between two calls: the files stay as they are.                          *)
Abort(t) ==
  /\ task[t].pc \in Busy
  /\ Becomes(t, Rest(task[t].path, "error"))
  /\ UNCHANGED <<target, tmp, data>>

Forget(t) ==
  /\ task[t].pc \in {"done", "got", "error"}
  /\ Becomes(t, Idle)
  /\ UNCHANGED <<target, tmp, data>>

(* The process stops and starts again; cleanup_temp_files deletes nothing. *)
Restart ==
  /\ task' = [t \in Tasks |-> Idle]
  /\ UNCHANGED <<target, tmp, data>>

Next ==
  \/ \E t \in Tasks :
       \/ Create(t) \/ WriteBlock(t) \/ Rename(t)
       \/ ReadBlock(t) \/ CopyBlock(t) \/ Abort(t) \/ Forget(t)
       \/ \E p \in Paths : \/ Open(t, p)
                           \/ \E d \in Data : WriteChunk(t, p, d)
                           \/ \E q \in Paths : CopyChunk(t, p, q)
  \/ \E p \in Paths : DeleteChunk(p)
  \/ Restart

Spec == Init /\ [][Next]_vars

-----------------------------------------------------------------------------
TypeOK ==
  /\ target \in [Paths -> Maybe(Inodes)]
  /\ tmp \in [Paths -> Maybe(Inodes)]
  /\ data \in [Inodes -> Seq(Maybe(Data))]
  /\ task \in [Tasks -> Task]
  /\ \A n \in Inodes : Len(data[n]) <= Blocks
  /\ \A t \in Tasks : Len(task[t].out) <= Blocks

(* A write_chunk that succeeds has put its own data, whole, under the name *)
(* of its chunk, whatever earlier writers of the chunk have left half-done.*)
WriteInstallsData ==
  [][\A t \in Tasks : At(t, "rename") /\ task'[t].pc = "done" =>
       data'[target'[task[t].path]] = Full(task[t].what)]_vars

(* "Writes are atomic (via temporary files and renaming) to prevent        *)
(* corruption": what write_chunk's rename puts under the chunk's name is   *)
(* some chunk, whole.  With Overlap it is violated: two PUTs of one key    *)
(* write their chunks to one temporary file.                               *)
RenameInstallsWhole ==
  [][\A t \in Tasks : At(t, "rename") /\ task'[t].pc = "done" =>
       \E d \in Data : data'[target'[task[t].path]] = Full(d)]_vars

(* What a caller of read_chunk_range can tell apart: a whole chunk, or not.*)
Whole(s) == IF \E d \in Data : s = Full(d) THEN s[1] ELSE None

(* The files and the reads as that caller sees them.                       *)
FileView ==
  [p \in Paths |-> IF target[p] = None THEN None ELSE Whole(data[target[p]])]

ReadView ==
  [t \in Tasks |->
     CASE At(t, "read") /\ Whole(data[task[t].fd]) # None ->
            [st |-> "open", data |-> Whole(data[task[t].fd])]
       [] At(t, "got") -> [st |-> "got", data |-> Whole(task[t].out)]
       [] At(t, "error") -> [st |-> "error", data |-> None]
       [] OTHER -> [st |-> "idle", data |-> None]]

Store == INSTANCE AtomicChunkStore WITH
  Readers <- Tasks, file <- FileView, read <- ReadView

(* Atomic block storage: as long as no two writers share a path and nobody *)
(* reads a chunk that is being copied over, readers see each chunk path    *)
(* change from one whole content to another or to nothing, through         *)
(* failures, disconnects and restarts at every system call.                *)
AtomicStorage == Store!Spec
=============================================================================
