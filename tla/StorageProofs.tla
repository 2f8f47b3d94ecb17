--------------------------- MODULE StorageProofs ----------------------------
(***************************************************************************)
(* The atomic rename, for any number of callers, chunks and system calls.  *)
(***************************************************************************)
EXTENDS ChunkStorage, SequenceTheorems, TLAPS

(* The labels of a task that has a file open, and of one that writes one.  *)
Opened == {"write", "rename", "copy", "read"}
Filling == {"write", "rename"}

(* What a task at each label has in its locals.                            *)
TaskOK(t) ==
  /\ task[t].fd \in Inodes <=> task[t].pc \in Opened
  /\ task[t].src \in Inodes <=> task[t].pc = "copy"
  /\ task[t].pc \in Writing => task[t].what \in Data
  /\ task[t].pc = "create" => task[t].out = <<>>
  /\ task[t].pc \in {"write", "read"} => Len(task[t].out) < Blocks

LocalsOK == TypeOK /\ \A t \in Tasks : TaskOK(t)

(* A temporary file has one name, and so has a chunk file.                 *)
OneName ==
  \A p, q \in Paths :
    /\ target[p] # None /\ target[p] = target[q] => p = q
    /\ tmp[p] # None => target[q] # tmp[p]
    /\ tmp[p] # None /\ tmp[p] = tmp[q] => p = q

(* A descriptor of a writer is its temporary file; no other is one, and it *)
(* stands for the chunk's own file or for one that has lost its name.      *)
DescriptorsOK(t) ==
  /\ task[t].pc \in Filling => task[t].fd = tmp[task[t].path]
  /\ task[t].pc \in {"copy", "read"} =>
       \A p \in Paths : /\ tmp[p] # task[t].fd
                        /\ target[p] = task[t].fd => p = task[t].path
  /\ task[t].pc = "copy" => \A p \in Paths : tmp[p] # task[t].src

(* What one task writes no other task reads or writes.                     *)
Apart ==
  \A t, u \in Tasks : t # u =>
    /\ task[t].pc \in Writing /\ task[u].pc \in Writing => task[t].path # task[u].path
    /\ task[t].pc = "copy" => task[t].fd \notin {task[u].fd, task[u].src}

(* The blocks of a file are those of one chunk.                            *)
Uniform(s) == \A j \in 1..Len(s) : s[j] \in Data /\ s[j] = s[1]

(* s is what a task has written or read of s2 so far.                      *)
PrefixOf(s, s2) == Len(s) <= Len(s2) /\ \A j \in 1..Len(s) : s[j] = s2[j]

(* What a task has written is in its file, what it has read is from its    *)
(* file, and nothing has changed there in between.                         *)
ContentsOK(t) ==
  LET out == task[t].out IN
  /\ task[t].pc \in Filling \cup {"copy"} => data[task[t].fd] = out
  /\ task[t].pc \in Filling => \A j \in 1..Len(out) : out[j] = task[t].what
  /\ task[t].pc \in {"rename", "got"} => Len(out) = Blocks
  /\ task[t].pc = "copy" => IF task[t].fd = task[t].src THEN out = <<>>
                               ELSE PrefixOf(out, data[task[t].src])
  /\ task[t].pc = "read" => PrefixOf(out, data[task[t].fd])
  /\ task[t].pc = "got" => Uniform(out)

StorageInv ==
  /\ LocalsOK
  /\ OneName
  /\ Apart
  /\ \A n \in Inodes : Uniform(data[n])
  /\ \A t \in Tasks : DescriptorsOK(t) /\ ContentsOK(t)

-----------------------------------------------------------------------------
(* Contents of files.                                                      *)

LEMMA PutType ==
  ASSUME NEW s \in Seq(Maybe(Data)), NEW k \in Nat, NEW d \in Maybe(Data),
         k < Blocks, Len(s) <= Blocks
  PROVE  Put(s, k, d) \in Seq(Maybe(Data)) /\ Len(Put(s, k, d)) <= Blocks
  <1> DEFINE m == IF Len(s) > k THEN Len(s) ELSE k + 1
             f(j) == IF j = k + 1 THEN d ELSE IF j <= Len(s) THEN s[j] ELSE None
             g == [j \in 1..m |-> f(j)]
  <1>1. m \in Nat /\ m <= Blocks
    BY BlocksAssumption
  <1>2. \A j \in 1..m : f(j) \in Maybe(Data)
    BY <1>1 DEF Maybe
  <1>3. Put(s, k, d) = g
    BY DEF Put
  <1> HIDE DEF m, f
  <1>4. g \in [1..m -> Maybe(Data)] /\ DOMAIN g = 1..m
    BY <1>2
  <1> HIDE DEF g
  <1>5. g \in Seq(Maybe(Data)) /\ Len(g) = m
    BY <1>1, <1>4
  <1> QED
    BY <1>1, <1>3, <1>5

(* pwrite at the end of the file.                                          *)
LEMMA PutAtEnd ==
  ASSUME NEW s \in Seq(Maybe(Data)), NEW d \in Maybe(Data)
  PROVE  Put(s, Len(s), d) = Append(s, d)
  <1> DEFINE a == Append(s, d)
             m == Len(s) + 1
             b == Put(s, Len(s), d)
  <1>1. /\ a \in Seq(Maybe(Data)) /\ Len(a) = m /\ a[m] = d
        /\ \A j \in 1..Len(s) : a[j] = s[j]
    BY AppendProperties
  <1>2. b = [j \in 1..m |-> IF j = m THEN d ELSE IF j <= Len(s) THEN s[j] ELSE None]
    BY DEF Put
  <1>3. b \in [1..m -> Maybe(Data)] /\ m \in Nat
    BY <1>2 DEF Maybe
  <1>4. b \in Seq(Maybe(Data)) /\ Len(b) = m
    BY <1>3
  <1>5. \A j \in 1..m : a[j] = b[j]
    BY <1>1, <1>2
  <1> HIDE DEF a, b
  <1>6. a = b
    BY <1>1, <1>4, <1>5, SeqEqual
  <1> QED
    BY <1>6 DEF a, b

LEMMA FullSeq ==
  ASSUME NEW d \in Data
  PROVE  Full(d) \in Seq(Data) /\ Len(Full(d)) = Blocks /\ Full(d)[1] = d
         /\ \A j \in 1..Blocks : Full(d)[j] = d
  BY BlocksAssumption DEF Full

LEMMA EqualToFull ==
  ASSUME NEW s \in Seq(Maybe(Data)), NEW d \in Data, Len(s) = Blocks,
         \A j \in 1..Blocks : s[j] = d
  PROVE  s = Full(d)
  BY BlocksAssumption, FullSeq DEF Full

LEMMA WholeOfFull ==
  ASSUME NEW d \in Data
  PROVE  Whole(Full(d)) = d
  BY FullSeq DEF Whole

(* A file is whole once all its blocks are there.                          *)
LEMMA WholeIffLong ==
  ASSUME NEW s \in Seq(Maybe(Data)), Uniform(s), Len(s) <= Blocks
  PROVE  /\ Whole(s) = IF Len(s) = Blocks THEN s[1] ELSE None
         /\ Whole(s) # None <=> Len(s) = Blocks
         /\ Whole(s) # None => Whole(s) \in Data /\ s = Full(Whole(s))
  <1>1. CASE Len(s) = Blocks
    <2>1. s[1] \in Data /\ \A j \in 1..Blocks : s[j] = s[1]
      BY <1>1, BlocksAssumption DEF Uniform
    <2>2. s = Full(s[1])
      BY <1>1, <2>1, EqualToFull
    <2> QED
      BY <1>1, <2>1, <2>2, WholeOfFull, NoneAssumption
  <1>2. CASE Len(s) # Blocks
    BY <1>2, FullSeq DEF Whole
  <1> QED
    BY <1>1, <1>2

LEMMA EmptyIsUniform == Uniform(<<>>)
  BY DEF Uniform

LEMMA AppendUniform ==
  ASSUME NEW s \in Seq(Maybe(Data)), NEW d \in Data, Uniform(s),
         \A j \in 1..Len(s) : s[j] = d
  PROVE  Uniform(Append(s, d)) /\ \A j \in 1..Len(Append(s, d)) : Append(s, d)[j] = d
  BY DEF Uniform

LEMMA AppendPrefix ==
  ASSUME NEW s \in Seq(Maybe(Data)), NEW s2 \in Seq(Maybe(Data)),
         PrefixOf(s, s2), Len(s) < Len(s2)
  PROVE  PrefixOf(Append(s, s2[Len(s) + 1]), s2)
  BY DEF PrefixOf

LEMMA PrefixUniform ==
  ASSUME NEW s \in Seq(Maybe(Data)), NEW s2 \in Seq(Maybe(Data)),
         PrefixOf(s, s2), Uniform(s2)
  PROVE  Uniform(s)
  BY DEF PrefixOf, Uniform

-----------------------------------------------------------------------------
(* Types, whether or not tasks overlap.                                    *)

LEMMA TaskType ==
  ASSUME LocalsOK, NEW t \in Tasks
  PROVE  /\ task[t] \in Task /\ task[t].pc \in Labels /\ task[t].path \in Paths
         /\ task[t].what \in Maybe(Data) /\ task[t].fd \in Maybe(Inodes)
         /\ task[t].src \in Maybe(Inodes) /\ task[t].out \in Seq(Maybe(Data))
         /\ Len(task[t].out) <= Blocks /\ Len(task[t].out) \in Nat
         /\ TaskOK(t)
  BY DEF LocalsOK, TypeOK, Task

LEMMA RestType ==
  ASSUME NEW p \in Paths, NEW l \in Labels
  PROVE  /\ Rest(p, l) \in Task /\ Rest(p, l).pc = l /\ Rest(p, l).fd = None
         /\ Rest(p, l).src = None /\ Rest(p, l).out = <<>> /\ Rest(p, l).path = p
  BY DEF Rest, Task, Maybe

LEMMA IdleType ==
  /\ Idle \in Task /\ Idle.pc = "idle" /\ Idle.fd = None /\ Idle.src = None
  /\ Idle.out = <<>>
  <1>1. (CHOOSE p \in Paths : TRUE) \in Paths
    BY PathsAssumption
  <1> QED
    BY <1>1, RestType DEF Idle, Labels, Busy, Writing, Opened

(* What a record r must be for a task to become r.                         *)
RecordOK(r) ==
  /\ r \in Task
  /\ r.fd \in Inodes <=> r.pc \in Opened
  /\ r.src \in Inodes <=> r.pc = "copy"
  /\ r.pc \in Writing => r.what \in Data
  /\ r.pc = "create" => r.out = <<>>
  /\ r.pc \in {"write", "read"} => Len(r.out) < Blocks
  /\ Len(r.out) <= Blocks

LEMMA BecomesOK ==
  ASSUME LocalsOK, NEW t \in Tasks, NEW r, Becomes(t, r), RecordOK(r),
         target' \in [Paths -> Maybe(Inodes)], tmp' \in [Paths -> Maybe(Inodes)],
         data' \in [Inodes -> Seq(Maybe(Data))],
         \A n \in Inodes : Len(data'[n]) <= Blocks
  PROVE  LocalsOK' /\ task'[t] = r /\ \A u \in Tasks \ {t} : task'[u] = task[u]
  <1>1. task \in [Tasks -> Task] /\ task' = [task EXCEPT ![t] = r]
    BY DEF LocalsOK, TypeOK, Becomes
  <1>2. r \in Task
    BY DEF RecordOK
  <1>3. /\ task' \in [Tasks -> Task] /\ task'[t] = r
        /\ \A u \in Tasks \ {t} : task'[u] = task[u]
    BY <1>1, <1>2
  <1>4. ASSUME NEW u \in Tasks PROVE TaskOK(u)' /\ Len(task'[u].out) <= Blocks
    <2>1. CASE u = t
      BY <1>3, <2>1 DEF TaskOK, RecordOK
    <2>2. CASE u # t
      BY <1>3, <2>2, TaskType DEF TaskOK
    <2> QED
      BY <2>1, <2>2
  <1>5. TypeOK'
    BY <1>3, <1>4 DEF TypeOK
  <1> QED
    BY <1>3, <1>4, <1>5 DEF LocalsOK

(* A task that ends, or goes back to rest.                                 *)
LEMMA RestOK ==
  ASSUME NEW p \in Paths, NEW l \in Labels \ (Opened \cup Writing)
  PROVE  RecordOK(Rest(p, l)) /\ RecordOK(Idle)
  BY RestType, IdleType, NoneAssumption, BlocksAssumption
     DEF RecordOK, Opened, Writing

LEMMA FilesSame ==
  ASSUME LocalsOK, UNCHANGED <<target, tmp, data>>
  PROVE  /\ target' \in [Paths -> Maybe(Inodes)] /\ tmp' \in [Paths -> Maybe(Inodes)]
         /\ data' \in [Inodes -> Seq(Maybe(Data))]
         /\ \A n \in Inodes : Len(data'[n]) <= Blocks
  BY DEF LocalsOK, TypeOK

(* The file that is opened to be written is emptied.                       *)
LEMMA TruncateType ==
  ASSUME LocalsOK, NEW n \in Inodes, data' = [data EXCEPT ![n] = <<>>]
  PROVE  /\ data' \in [Inodes -> Seq(Maybe(Data))]
         /\ \A m \in Inodes : Len(data'[m]) <= Blocks
         /\ data'[n] = <<>> /\ \A m \in Inodes \ {n} : data'[m] = data[m]
  BY BlocksAssumption DEF LocalsOK, TypeOK

LEMMA BlockType ==
  ASSUME LocalsOK, NEW n \in Inodes, NEW k \in Nat, NEW d \in Maybe(Data),
         k < Blocks, data' = [data EXCEPT ![n] = Put(@, k, d)]
  PROVE  /\ data' \in [Inodes -> Seq(Maybe(Data))]
         /\ \A m \in Inodes : Len(data'[m]) <= Blocks
         /\ data'[n] = Put(data[n], k, d) /\ \A m \in Inodes \ {n} : data'[m] = data[m]
  <1>1. /\ data \in [Inodes -> Seq(Maybe(Data))]
        /\ \A m \in Inodes : Len(data[m]) <= Blocks
    BY DEF LocalsOK, TypeOK
  <1>2. Put(data[n], k, d) \in Seq(Maybe(Data)) /\ Len(Put(data[n], k, d)) <= Blocks
    BY <1>1, PutType
  <1> QED
    BY <1>1, <1>2

-----------------------------------------------------------------------------
(* What each step does to the locals of its task.                          *)

Others(t) == \A u \in Tasks \ {t} : task'[u] = task[u]

(* Which inode OpenForWrite may pick.                                      *)
Opens(dir, p, n) == IF dir[p] = None THEN Unused(n) ELSE n = dir[p]

Truncates(n) ==
  data'[n] = <<>> /\ \A m \in Inodes \ {n} : data'[m] = data[m]

LEMMA WriteChunkDoes ==
  ASSUME LocalsOK, NEW t \in Tasks, NEW p \in Paths, NEW d \in Data,
         WriteChunk(t, p, d)
  PROVE  /\ LocalsOK' /\ Others(t) /\ UNCHANGED <<target, tmp, data>>
         /\ task'[t].pc = "create" /\ task'[t].path = p /\ task'[t].fd = None
         /\ task'[t].src = None
  <1> DEFINE r == [Rest(p, "create") EXCEPT !.what = d]
  <1>0. /\ r.pc = "create" /\ r.path = p /\ r.fd = None /\ r.src = None
        /\ r.what = d /\ r.out = <<>> /\ r \in Task
    <2>1. /\ Rest(p, "create") \in Task /\ Rest(p, "create").fd = None
          /\ Rest(p, "create").src = None /\ Rest(p, "create").out = <<>>
          /\ Rest(p, "create").path = p /\ Rest(p, "create").pc = "create"
      BY RestType DEF Labels, Busy, Writing
    <2> QED
      BY <2>1 DEF Task, Maybe
  <1>1. RecordOK(r)
    BY <1>0, NoneAssumption, BlocksAssumption DEF RecordOK, Writing, Opened
  <1>2. Becomes(t, r) /\ UNCHANGED <<target, tmp, data>>
    BY DEF WriteChunk
  <1> HIDE DEF r
  <1> QED
    BY <1>0, <1>1, <1>2, FilesSame, BecomesOK DEF Others

LEMMA CreateDoes ==
  ASSUME LocalsOK, NEW t \in Tasks, Create(t)
  PROVE  \E n \in Inodes :
           /\ LocalsOK' /\ Others(t) /\ UNCHANGED target
           /\ task[t].pc = "create" /\ task'[t].pc = "write"
           /\ task'[t].path = task[t].path /\ task'[t].what = task[t].what
           /\ task'[t].fd = n /\ task'[t].src = None /\ task'[t].out = <<>>
           /\ Opens(tmp, task[t].path, n) /\ Truncates(n)
           /\ tmp' = [tmp EXCEPT ![task[t].path] = n]
  <1>1. task[t].pc = "create" /\ UNCHANGED target
    BY DEF Create, At
  <1>2. PICK n \in Inodes :
          /\ OpenForWrite(tmp, task[t].path, n)
          /\ tmp' = [tmp EXCEPT ![task[t].path] = n]
          /\ Becomes(t, [task[t] EXCEPT !.pc = "write", !.fd = n])
    BY DEF Create
  <1> DEFINE r == [task[t] EXCEPT !.pc = "write", !.fd = n]
  <1>3. TaskOK(t) /\ task[t] \in Task /\ task[t].src = None /\ task[t].out = <<>>
    BY <1>1, TaskType DEF TaskOK, Maybe
  <1>4. /\ r \in Task /\ r.pc = "write" /\ r.fd = n /\ r.path = task[t].path
        /\ r.what = task[t].what /\ r.src = task[t].src /\ r.out = task[t].out
    BY <1>3 DEF Task, Labels, Busy, Writing, Maybe
  <1>5. RecordOK(r)
    BY <1>1, <1>3, <1>4, NoneAssumption, BlocksAssumption
       DEF RecordOK, TaskOK, Writing, Opened
  <1>6. target' \in [Paths -> Maybe(Inodes)] /\ tmp' \in [Paths -> Maybe(Inodes)]
    BY <1>1, <1>2 DEF LocalsOK, TypeOK, Maybe
  <1>7. data' = [data EXCEPT ![n] = <<>>] /\ Opens(tmp, task[t].path, n)
    BY <1>2 DEF OpenForWrite, Opens
  <1>8. /\ data' \in [Inodes -> Seq(Maybe(Data))] /\ Truncates(n)
        /\ \A m \in Inodes : Len(data'[m]) <= Blocks
    BY <1>7, TruncateType DEF Truncates
  <1> HIDE DEF r
  <1>9. LocalsOK' /\ task'[t] = r /\ Others(t)
    BY <1>2, <1>5, <1>6, <1>8, BecomesOK DEF Others, r
  <1> QED
    BY <1>1, <1>2, <1>3, <1>4, <1>7, <1>8, <1>9

LEMMA WriteBlockDoes ==
  ASSUME LocalsOK, NEW t \in Tasks, WriteBlock(t)
  PROVE  LET n == task[t].fd
             k == Len(task[t].out)
             d == task[t].what
         IN
         /\ LocalsOK' /\ Others(t) /\ UNCHANGED <<target, tmp>>
         /\ task[t].pc = "write" /\ n \in Inodes /\ d \in Data /\ k < Blocks
         /\ task'[t].pc = IF k + 1 = Blocks THEN "rename" ELSE "write"
         /\ task'[t].path = task[t].path /\ task'[t].what = d
         /\ task'[t].fd = n /\ task'[t].src = None
         /\ task'[t].out = Append(task[t].out, d)
         /\ data'[n] = Put(data[n], k, d) /\ \A m \in Inodes \ {n} : data'[m] = data[m]
  <1> DEFINE n == task[t].fd
             k == Len(task[t].out)
             d == task[t].what
             l == IF k + 1 = Blocks THEN "rename" ELSE "write"
             r == [task[t] EXCEPT !.pc = l, !.out = Append(@, d)]
  <1>1. task[t].pc = "write" /\ UNCHANGED <<target, tmp>>
    BY DEF WriteBlock, At
  <1>2. /\ data' = [data EXCEPT ![n] = Put(@, k, d)]
        /\ Becomes(t, r)
    BY DEF WriteBlock
  <1>3. /\ n \in Inodes /\ d \in Data /\ k < Blocks /\ k \in Nat
        /\ task[t].src = None /\ task[t] \in Task /\ task[t].out \in Seq(Maybe(Data))
    BY <1>1, TaskType DEF TaskOK, Opened, Writing, Maybe
  <1>4. Append(task[t].out, d) \in Seq(Maybe(Data)) /\ Len(Append(task[t].out, d)) = k + 1
    BY <1>3, AppendProperties DEF Maybe
  <1>5. /\ r \in Task /\ r.pc = l /\ r.fd = n /\ r.path = task[t].path
        /\ r.what = d /\ r.src = None /\ r.out = Append(task[t].out, d)
    BY <1>3, <1>4 DEF Task, Labels, Busy, Writing
  <1>6. RecordOK(r)
    BY <1>3, <1>4, <1>5, NoneAssumption, BlocksAssumption
       DEF RecordOK, Writing, Opened
  <1>7. /\ data' \in [Inodes -> Seq(Maybe(Data))]
        /\ \A m \in Inodes : Len(data'[m]) <= Blocks
        /\ data'[n] = Put(data[n], k, d) /\ \A m \in Inodes \ {n} : data'[m] = data[m]
    BY <1>2, <1>3, BlockType DEF Maybe
  <1>8. target' \in [Paths -> Maybe(Inodes)] /\ tmp' \in [Paths -> Maybe(Inodes)]
    BY <1>1 DEF LocalsOK, TypeOK
  <1> HIDE DEF r
  <1>9. LocalsOK' /\ task'[t] = r /\ Others(t)
    BY <1>2, <1>6, <1>7, <1>8, BecomesOK DEF Others
  <1> QED
    BY <1>1, <1>3, <1>5, <1>7, <1>9

LEMMA RenameDoes ==
  ASSUME LocalsOK, NEW t \in Tasks, Rename(t)
  PROVE  LET p == task[t].path IN
         /\ LocalsOK' /\ Others(t) /\ UNCHANGED data
         /\ task[t].pc = "rename" /\ p \in Paths /\ tmp[p] # None
         /\ task'[t].pc = "done" /\ task'[t].fd = None /\ task'[t].src = None
         /\ target' = [target EXCEPT ![p] = tmp[p]]
         /\ tmp' = [tmp EXCEPT ![p] = None]
  <1> DEFINE p == task[t].path
  <1>1. /\ task[t].pc = "rename" /\ UNCHANGED data /\ tmp[p] # None
        /\ target' = [target EXCEPT ![p] = tmp[p]]
        /\ tmp' = [tmp EXCEPT ![p] = None] /\ Becomes(t, Rest(p, "done"))
    BY DEF Rename, At
  <1>2. p \in Paths
    BY TaskType
  <1>3. RecordOK(Rest(p, "done")) /\ Rest(p, "done").pc = "done"
        /\ Rest(p, "done").fd = None /\ Rest(p, "done").src = None
    BY <1>2, RestOK, RestType DEF Labels, Opened, Busy, Writing
  <1>4. /\ target' \in [Paths -> Maybe(Inodes)] /\ tmp' \in [Paths -> Maybe(Inodes)]
        /\ data' \in [Inodes -> Seq(Maybe(Data))]
        /\ \A n \in Inodes : Len(data'[n]) <= Blocks
    BY <1>1, <1>2 DEF LocalsOK, TypeOK, Maybe
  <1>5. LocalsOK' /\ task'[t] = Rest(p, "done") /\ Others(t)
    BY <1>1, <1>3, <1>4, BecomesOK DEF Others
  <1> QED
    BY <1>1, <1>2, <1>3, <1>5

(* A task comes to rest: its files are closed.                             *)
LEMMA RestDoes ==
  ASSUME LocalsOK, NEW t \in Tasks, UNCHANGED <<target, tmp, data>>,
         \/ Becomes(t, Idle)
         \/ \E p \in Paths, l \in {"done", "error"} : Becomes(t, Rest(p, l))
  PROVE  /\ LocalsOK' /\ Others(t) /\ task'[t].fd = None /\ task'[t].src = None
         /\ task'[t].pc \in {"idle", "done", "error"}
  <1> USE DEF Labels, Opened, Busy, Writing
  <1>1. CASE Becomes(t, Idle)
    <2>1. RecordOK(Idle)
      BY PathsAssumption, RestOK
    <2> QED
      BY <1>1, <2>1, FilesSame, BecomesOK, IdleType DEF Others
  <1>2. CASE \E p \in Paths, l \in {"done", "error"} : Becomes(t, Rest(p, l))
    <2>1. PICK p \in Paths, l \in {"done", "error"} : Becomes(t, Rest(p, l))
      BY <1>2
    <2>2. RecordOK(Rest(p, l)) /\ Rest(p, l).pc = l
          /\ Rest(p, l).fd = None /\ Rest(p, l).src = None
      BY RestOK, RestType
    <2> QED
      BY <2>1, <2>2, FilesSame, BecomesOK DEF Others
  <1> QED
    BY <1>1, <1>2

LEMMA OpenDoes ==
  ASSUME LocalsOK, NEW t \in Tasks, NEW p \in Paths, Open(t, p), target[p] # None
  PROVE  /\ LocalsOK' /\ Others(t) /\ UNCHANGED <<target, tmp, data>>
         /\ task'[t].pc = "read" /\ task'[t].path = p /\ target[p] \in Inodes
         /\ task'[t].fd = target[p] /\ task'[t].src = None /\ task'[t].out = <<>>
  <1> DEFINE r == [Rest(p, "read") EXCEPT !.fd = target[p]]
  <1>1. target[p] \in Inodes
    BY DEF LocalsOK, TypeOK, Maybe
  <1>2. Becomes(t, r) /\ UNCHANGED <<target, tmp, data>>
    BY DEF Open
  <1>3. /\ Rest(p, "read") \in Task /\ Rest(p, "read").pc = "read"
        /\ Rest(p, "read").path = p /\ Rest(p, "read").fd = None
        /\ Rest(p, "read").src = None /\ Rest(p, "read").out = <<>>
    BY RestType DEF Labels, Busy
  <1>4. /\ r \in Task /\ r.pc = "read" /\ r.path = p /\ r.fd = target[p]
        /\ r.src = None /\ r.out = <<>>
    BY <1>1, <1>3 DEF Task, Maybe
  <1>5. RecordOK(r)
    BY <1>1, <1>4, NoneAssumption, BlocksAssumption DEF RecordOK, Writing, Opened
  <1> HIDE DEF r
  <1> QED
    BY <1>1, <1>2, <1>4, <1>5, FilesSame, BecomesOK DEF Others

LEMMA ReadBlockDoes ==
  ASSUME LocalsOK, NEW t \in Tasks, ReadBlock(t),
         Len(task[t].out) < Len(data[task[t].fd])
  PROVE  LET n == task[t].fd
             k == Len(task[t].out)
             d == data[n][k + 1]
         IN
         /\ LocalsOK' /\ Others(t) /\ UNCHANGED <<target, tmp, data>>
         /\ task[t].pc = "read" /\ n \in Inodes /\ d \in Maybe(Data)
         /\ task'[t].pc = IF k + 1 = Blocks THEN "got" ELSE "read"
         /\ task'[t].fd = IF k + 1 = Blocks THEN None ELSE n
         /\ task'[t].path = task[t].path /\ task'[t].src = None
         /\ task'[t].out = Append(task[t].out, d) /\ Len(task'[t].out) = k + 1
  <1> DEFINE n == task[t].fd
             k == Len(task[t].out)
             d == data[n][k + 1]
             l == IF k + 1 = Blocks THEN "got" ELSE "read"
             f == IF k + 1 = Blocks THEN None ELSE n
             r == [task[t] EXCEPT !.out = Append(@, d), !.pc = l, !.fd = f]
  <1>1. task[t].pc = "read" /\ UNCHANGED <<target, tmp, data>>
    BY DEF ReadBlock, At
  <1>2. /\ n \in Inodes /\ k < Blocks /\ k \in Nat
        /\ task[t].src = None /\ task[t] \in Task /\ task[t].out \in Seq(Maybe(Data))
    BY <1>1, TaskType DEF TaskOK, Opened, Writing, Maybe
  <1>3. data[n] \in Seq(Maybe(Data)) /\ Len(data[n]) \in Nat
    BY <1>2 DEF LocalsOK, TypeOK
  <1>4. d \in Maybe(Data)
    BY <1>2, <1>3, ElementOfSeq
  <1>5. Becomes(t, r)
    <2>1. ~(k >= Len(data[n]))
      BY <1>2, <1>3
    <2> QED
      BY <2>1 DEF ReadBlock
  <1>6. Append(task[t].out, d) \in Seq(Maybe(Data)) /\ Len(Append(task[t].out, d)) = k + 1
    BY <1>2, <1>4, AppendProperties
  <1>7. f \in Maybe(Inodes) /\ l \in Labels
    BY <1>2 DEF Maybe, Labels, Busy
  <1> HIDE DEF f, l
  <1>8. /\ r \in Task /\ r.pc = l /\ r.fd = f /\ r.path = task[t].path
        /\ r.src = None /\ r.out = Append(task[t].out, d)
    BY <1>2, <1>6, <1>7 DEF Task
  <1>9. RecordOK(r)
    BY <1>2, <1>6, <1>8, NoneAssumption, BlocksAssumption
       DEF RecordOK, Writing, Opened, f, l
  <1> HIDE DEF r
  <1>10. LocalsOK' /\ task'[t] = r /\ Others(t)
    BY <1>1, <1>5, <1>9, FilesSame, BecomesOK DEF Others
  <1> QED
    BY <1>1, <1>2, <1>4, <1>6, <1>8, <1>10 DEF l, f

LEMMA CopyChunkDoes ==
  ASSUME LocalsOK, NEW t \in Tasks, NEW p \in Paths, NEW q \in Paths,
         CopyChunk(t, p, q)
  PROVE  \E n \in Inodes :
           /\ LocalsOK' /\ Others(t) /\ UNCHANGED tmp /\ task[t].pc = "idle"
           /\ task'[t].pc = "copy" /\ task'[t].path = p /\ task'[t].fd = n
           /\ target[q] \in Inodes /\ task'[t].src = target[q] /\ task'[t].out = <<>>
           /\ Opens(target, p, n) /\ Truncates(n)
           /\ target' = [target EXCEPT ![p] = n]
  <1>1. target[q] \in Inodes /\ task[t].pc = "idle" /\ UNCHANGED tmp
    BY DEF CopyChunk, LocalsOK, TypeOK, Maybe, At
  <1>2. PICK n \in Inodes :
          /\ OpenForWrite(target, p, n)
          /\ target' = [target EXCEPT ![p] = n]
          /\ Becomes(t, [Rest(p, "copy") EXCEPT !.fd = n, !.src = target[q]])
    BY DEF CopyChunk
  <1> DEFINE r == [Rest(p, "copy") EXCEPT !.fd = n, !.src = target[q]]
  <1>3. /\ Rest(p, "copy") \in Task /\ Rest(p, "copy").pc = "copy"
        /\ Rest(p, "copy").path = p /\ Rest(p, "copy").out = <<>>
    BY RestType DEF Labels, Busy
  <1>4. /\ r \in Task /\ r.pc = "copy" /\ r.path = p /\ r.fd = n
        /\ r.src = target[q] /\ r.out = <<>>
    BY <1>1, <1>3 DEF Task, Maybe
  <1>5. RecordOK(r)
    BY <1>1, <1>4, BlocksAssumption DEF RecordOK, Writing, Opened
  <1>6. target' \in [Paths -> Maybe(Inodes)] /\ tmp' \in [Paths -> Maybe(Inodes)]
    BY <1>1, <1>2 DEF LocalsOK, TypeOK, Maybe
  <1>7. data' = [data EXCEPT ![n] = <<>>] /\ Opens(target, p, n)
    BY <1>2 DEF OpenForWrite, Opens
  <1>8. /\ data' \in [Inodes -> Seq(Maybe(Data))] /\ Truncates(n)
        /\ \A m \in Inodes : Len(data'[m]) <= Blocks
    BY <1>7, TruncateType DEF Truncates
  <1> HIDE DEF r
  <1>9. LocalsOK' /\ task'[t] = r /\ Others(t)
    BY <1>2, <1>5, <1>6, <1>8, BecomesOK DEF Others, r
  <1> QED
    BY <1>1, <1>2, <1>4, <1>7, <1>8, <1>9

LEMMA CopyBlockDoes ==
  ASSUME LocalsOK, NEW t \in Tasks, CopyBlock(t),
         Len(task[t].out) < Len(data[task[t].src])
  PROVE  LET n == task[t].fd
             k == Len(task[t].out)
             d == data[task[t].src][k + 1]
         IN
         /\ LocalsOK' /\ Others(t) /\ UNCHANGED <<target, tmp>>
         /\ task[t].pc = "copy" /\ n \in Inodes /\ d \in Maybe(Data) /\ k < Blocks
         /\ task'[t].pc = "copy" /\ task'[t].path = task[t].path
         /\ task'[t].fd = n /\ task'[t].src = task[t].src
         /\ task'[t].out = Append(task[t].out, d)
         /\ data'[n] = Put(data[n], k, d) /\ \A m \in Inodes \ {n} : data'[m] = data[m]
  <1> DEFINE n == task[t].fd
             k == Len(task[t].out)
             s == task[t].src
             d == data[s][k + 1]
             r == [task[t] EXCEPT !.out = Append(@, d)]
  <1>1. task[t].pc = "copy" /\ UNCHANGED <<target, tmp>>
    BY DEF CopyBlock, At
  <1>2. /\ n \in Inodes /\ s \in Inodes /\ k \in Nat
        /\ task[t] \in Task /\ task[t].out \in Seq(Maybe(Data))
    BY <1>1, TaskType DEF TaskOK, Opened
  <1>3. data[s] \in Seq(Maybe(Data)) /\ Len(data[s]) \in Nat /\ Len(data[s]) <= Blocks
    BY <1>2 DEF LocalsOK, TypeOK
  <1>4. d \in Maybe(Data) /\ k < Blocks
    BY <1>2, <1>3, ElementOfSeq, BlocksAssumption
  <1>5. data' = [data EXCEPT ![n] = Put(@, k, d)] /\ Becomes(t, r)
    <2>1. ~(k >= Len(data[s]))
      BY <1>2, <1>3
    <2> QED
      BY <2>1 DEF CopyBlock
  <1>6. Append(task[t].out, d) \in Seq(Maybe(Data)) /\ Len(Append(task[t].out, d)) = k + 1
    BY <1>2, <1>4, AppendProperties
  <1>7. /\ r \in Task /\ r.pc = "copy" /\ r.fd = n /\ r.path = task[t].path
        /\ r.src = s /\ r.out = Append(task[t].out, d)
    BY <1>1, <1>2, <1>6 DEF Task
  <1>8. RecordOK(r)
    BY <1>2, <1>4, <1>6, <1>7, BlocksAssumption DEF RecordOK, Writing, Opened
  <1>9. /\ data' \in [Inodes -> Seq(Maybe(Data))]
        /\ \A m \in Inodes : Len(data'[m]) <= Blocks
        /\ data'[n] = Put(data[n], k, d) /\ \A m \in Inodes \ {n} : data'[m] = data[m]
    BY <1>2, <1>4, <1>5, BlockType
  <1>10. target' \in [Paths -> Maybe(Inodes)] /\ tmp' \in [Paths -> Maybe(Inodes)]
    BY <1>1 DEF LocalsOK, TypeOK
  <1> HIDE DEF r
  <1>11. LocalsOK' /\ task'[t] = r /\ Others(t)
    BY <1>5, <1>8, <1>9, <1>10, BecomesOK DEF Others
  <1> QED
    BY <1>1, <1>2, <1>4, <1>7, <1>9, <1>11

(* The steps that end a task: a failed open, the end of a read or of a     *)
(* copy, Abort and Forget.                                                 *)
Ends(t) ==
  /\ UNCHANGED <<target, tmp, data>>
  /\ \/ Becomes(t, Idle)
     \/ \E p \in Paths, l \in {"done", "error"} : Becomes(t, Rest(p, l))

LEMMA OpenEnds ==
  ASSUME NEW t \in Tasks, NEW p \in Paths, Open(t, p), target[p] = None
  PROVE  Ends(t)
  BY DEF Open, Ends

LEMMA ReadBlockEnds ==
  ASSUME LocalsOK, NEW t \in Tasks, ReadBlock(t),
         ~(Len(task[t].out) < Len(data[task[t].fd]))
  PROVE  Ends(t)
  <1>1. task[t].pc = "read" /\ task[t].path \in Paths
    BY TaskType DEF ReadBlock, At
  <1>2. Len(task[t].out) \in Nat /\ Len(data[task[t].fd]) \in Nat
    BY <1>1, TaskType DEF TaskOK, Opened, LocalsOK, TypeOK
  <1> QED
    BY <1>1, <1>2 DEF ReadBlock, Ends

LEMMA CopyBlockEnds ==
  ASSUME LocalsOK, NEW t \in Tasks, CopyBlock(t),
         ~(Len(task[t].out) < Len(data[task[t].src]))
  PROVE  Ends(t)
  <1>1. task[t].path \in Paths
    BY TaskType
  <1> QED
    BY <1>1 DEF CopyBlock, Ends

LEMMA AbortEnds ==
  ASSUME LocalsOK, NEW t \in Tasks, Abort(t) \/ Forget(t)
  PROVE  Ends(t)
  BY TaskType DEF Abort, Forget, Ends

LEMMA EndsDoes ==
  ASSUME LocalsOK, NEW t \in Tasks, Ends(t)
  PROVE  /\ LocalsOK' /\ Others(t) /\ UNCHANGED <<target, tmp, data>>
         /\ task'[t].fd = None /\ task'[t].src = None
         /\ task'[t].pc \in {"idle", "done", "error"}
  BY RestDoes DEF Ends

LEMMA DeleteDoes ==
  ASSUME LocalsOK, NEW p \in Paths, DeleteChunk(p)
  PROVE  /\ LocalsOK' /\ UNCHANGED <<tmp, data, task>>
         /\ target' = [target EXCEPT ![p] = None]
  BY DEF DeleteChunk, LocalsOK, TypeOK, TaskOK, Maybe

LEMMA RestartDoes ==
  ASSUME LocalsOK, Restart
  PROVE  /\ LocalsOK' /\ UNCHANGED <<target, tmp, data>>
         /\ \A t \in Tasks : task'[t] = Idle
  <1>1. \A t \in Tasks : task'[t] = Idle
    BY DEF Restart
  <1>2. task' \in [Tasks -> Task] /\ UNCHANGED <<target, tmp, data>>
    BY IdleType DEF Restart
  <1>3. TypeOK'
    BY <1>1, <1>2, IdleType, BlocksAssumption DEF LocalsOK, TypeOK
  <1>4. \A t \in Tasks : TaskOK(t)'
    BY <1>1, IdleType, NoneAssumption, BlocksAssumption DEF TaskOK, Opened, Writing
  <1> QED
    BY <1>1, <1>2, <1>3, <1>4 DEF LocalsOK

LEMMA InitLocals == Init => LocalsOK
  <1> SUFFICES ASSUME Init PROVE LocalsOK
    OBVIOUS
  <1>1. \A t \in Tasks : task[t] = Idle
    BY DEF Init
  <1>2. TypeOK
    BY <1>1, IdleType, BlocksAssumption DEF Init, TypeOK, Maybe
  <1>3. \A t \in Tasks : TaskOK(t)
    BY <1>1, IdleType, NoneAssumption, BlocksAssumption DEF TaskOK, Opened, Writing
  <1> QED
    BY <1>2, <1>3 DEF LocalsOK

LEMMA NextLocals ==
  ASSUME LocalsOK, [Next]_vars
  PROVE  LocalsOK'
  <1>1. ASSUME NEW t \in Tasks, Create(t) \/ WriteBlock(t) \/ Rename(t)
        PROVE  LocalsOK'
    BY <1>1, CreateDoes, WriteBlockDoes, RenameDoes
  <1>2. ASSUME NEW t \in Tasks, ReadBlock(t) \/ CopyBlock(t) \/ Abort(t) \/ Forget(t)
        PROVE  LocalsOK'
    BY <1>2, ReadBlockDoes, CopyBlockDoes, ReadBlockEnds, CopyBlockEnds, AbortEnds,
       EndsDoes
  <1>3. ASSUME NEW t \in Tasks, NEW p \in Paths,
               \/ Open(t, p)
               \/ \E d \in Data : WriteChunk(t, p, d)
               \/ \E q \in Paths : CopyChunk(t, p, q)
        PROVE  LocalsOK'
    BY <1>3, OpenDoes, OpenEnds, EndsDoes, WriteChunkDoes, CopyChunkDoes
  <1>4. ASSUME NEW p \in Paths, DeleteChunk(p)
        PROVE  LocalsOK'
    BY <1>4, DeleteDoes
  <1>5. CASE Restart
    BY <1>5, RestartDoes
  <1>6. CASE UNCHANGED vars
    BY <1>6 DEF vars, LocalsOK, TypeOK, TaskOK
  <1> QED
    BY <1>1, <1>2, <1>3, <1>4, <1>5, <1>6 DEF Next

(* The locals of every caller of storage.rs and the contents of every file *)
(* keep their types, and no file grows beyond a chunk, also when writers,  *)
(* copies and readers of one chunk overlap.                                *)
THEOREM StorageTypes == Spec => []TypeOK
  <1>1. Spec => []LocalsOK
    BY InitLocals, NextLocals, PTL DEF Spec
  <1>2. LocalsOK => TypeOK
    BY DEF LocalsOK
  <1> QED
    BY <1>1, <1>2, PTL

-----------------------------------------------------------------------------
(* The atomic rename.                                                      *)

(* What a task keeps when the inodes that change are not its own.          *)
LEMMA ContentsStay ==
  ASSUME StorageInv, NEW t \in Tasks, task'[t] = task[t],
         \A m \in Inodes : m \in {task[t].fd, task[t].src} => data'[m] = data[m]
  PROVE  ContentsOK(t)'
  <1>1. /\ ContentsOK(t) /\ TaskOK(t)
    BY TaskType DEF StorageInv
  <1>2. task[t].pc \in Opened => data'[task[t].fd] = data[task[t].fd]
    BY <1>1 DEF TaskOK
  <1>3. task[t].pc = "copy" => data'[task[t].src] = data[task[t].src]
    BY <1>1 DEF TaskOK
  <1> QED
    BY <1>1, <1>2, <1>3 DEF ContentsOK, Filling, Opened

(* A step of t that leaves the names and gives it no new file.             *)
LEMMA NamesStay ==
  ASSUME StorageInv, NEW t \in Tasks, Others(t), UNCHANGED <<target, tmp>>,
         \/ task'[t].pc \notin Opened
         \/ /\ task'[t].path = task[t].path
            /\ task'[t].fd = task[t].fd /\ task'[t].src = task[t].src
            /\ task'[t].pc \in Filling <=> task[t].pc \in Filling
            /\ task'[t].pc = "copy" <=> task[t].pc = "copy"
            /\ task'[t].pc = "read" <=> task[t].pc = "read",
         task'[t].pc \in Filling \/ task'[t].pc \notin Writing,
         task'[t].fd \in {task[t].fd, None}, task'[t].src \in {task[t].src, None}
  PROVE  OneName' /\ Apart' /\ \A u \in Tasks : DescriptorsOK(u)'
  <1>1. OneName'
    BY DEF StorageInv, OneName
  <1>2. ASSUME NEW u \in Tasks PROVE DescriptorsOK(u)'
    <2>1. CASE u = t
      BY <2>1 DEF StorageInv, DescriptorsOK, Opened, Filling
    <2>2. CASE u # t
      BY <2>2 DEF StorageInv, DescriptorsOK, Others
    <2> QED
      BY <2>1, <2>2
  <1>3. ASSUME NEW u \in Tasks, NEW v \in Tasks, u # v
        PROVE  /\ task'[u].pc \in Writing /\ task'[v].pc \in Writing
                    => task'[u].path # task'[v].path
               /\ task'[u].pc = "copy" => task'[u].fd \notin {task'[v].fd, task'[v].src}
    <2>1. /\ task[u].pc \in Writing /\ task[v].pc \in Writing
               => task[u].path # task[v].path
          /\ task[u].pc = "copy" => task[u].fd \notin {task[v].fd, task[v].src}
      BY <1>3 DEF StorageInv, Apart
    <2>2. task[u].pc = "copy" => task[u].fd # None
      BY TaskType, NoneAssumption DEF StorageInv, TaskOK, Opened
    <2>3. CASE u # t /\ v # t
      BY <2>1, <2>3 DEF Others
    <2>4. CASE u = t
      BY <1>3, <2>1, <2>2, <2>4 DEF Others, Opened, Filling, Writing
    <2>5. CASE v = t
      BY <1>3, <2>1, <2>2, <2>5 DEF Others, Opened, Filling, Writing
    <2> QED
      BY <2>3, <2>4, <2>5
  <1>4. Apart'
    BY <1>3 DEF Apart
  <1> QED
    BY <1>1, <1>2, <1>4

LEMMA EndsKeeps ==
  ASSUME StorageInv, NEW t \in Tasks, Ends(t)
  PROVE  StorageInv'
  <1>1. LocalsOK
    BY DEF StorageInv
  <1>2. /\ LocalsOK' /\ Others(t) /\ UNCHANGED <<target, tmp, data>>
        /\ task'[t].fd = None /\ task'[t].src = None
        /\ task'[t].pc \in {"idle", "done", "error"}
    BY <1>1, EndsDoes
  <1>3. OneName' /\ Apart' /\ \A u \in Tasks : DescriptorsOK(u)'
    BY <1>2, NamesStay DEF Opened, Filling, Writing
  <1>4. ASSUME NEW u \in Tasks PROVE ContentsOK(u)'
    <2>1. CASE u = t
      BY <1>2, <2>1 DEF ContentsOK, Filling
    <2>2. CASE u # t
      BY <1>2, <2>2, ContentsStay DEF Others
    <2> QED
      BY <2>1, <2>2
  <1> QED
    BY <1>2, <1>3, <1>4 DEF StorageInv

(* From File::create to the rename: the writer's file has one name, and no *)
(* other task has it open.                                                 *)
LEMMA WriterIsAlone ==
  ASSUME StorageInv, NEW t \in Tasks, task[t].pc \in {"write", "rename"}
  PROVE  /\ tmp[task[t].path] = task[t].fd
         /\ \A p \in Paths : /\ target[p] # task[t].fd
                             /\ tmp[p] = task[t].fd => p = task[t].path
         /\ \A u \in Tasks \ {t} : task[t].fd \notin {task[u].fd, task[u].src}
  <1> DEFINE n == task[t].fd
  <1>0. LocalsOK /\ task[t].path \in Paths
    BY TaskType DEF StorageInv
  <1>1. n \in Inodes /\ n = tmp[task[t].path]
    BY <1>0, TaskType DEF StorageInv, DescriptorsOK, TaskOK, Opened, Filling
  <1>2. \A p \in Paths : target[p] # n /\ (tmp[p] = n => p = task[t].path)
    BY <1>0, <1>1, NoneAssumption DEF StorageInv, OneName
  <1>3. ASSUME NEW u \in Tasks \ {t} PROVE n \notin {task[u].fd, task[u].src}
    <2>1. /\ DescriptorsOK(u) /\ TaskOK(u) /\ task[u].path \in Paths
          /\ task[u].pc \in Writing => task[u].path # task[t].path
      BY <1>0, TaskType DEF StorageInv, Apart, Writing
    <2>2. CASE task[u].pc \in Filling
      <3>1. task[u].fd # n
        BY <1>2, <2>1, <2>2 DEF DescriptorsOK, Filling, Writing
      <3> QED
        BY <1>1, <2>1, <2>2, <3>1 DEF TaskOK, Filling
    <2>3. CASE task[u].pc \in {"copy", "read"}
      BY <1>0, <1>1, <2>1, <2>3 DEF DescriptorsOK, TaskOK
    <2>4. CASE task[u].pc \notin Opened
      BY <1>1, <2>1, <2>4 DEF TaskOK, Opened
    <2> QED
      BY <2>2, <2>3, <2>4 DEF Opened, Filling
  <1> QED
    BY <1>1, <1>2, <1>3

LEMMA WriteBlockKeeps ==
  ASSUME StorageInv, NEW t \in Tasks, WriteBlock(t)
  PROVE  StorageInv'
  <1> DEFINE n == task[t].fd
             out == task[t].out
             d == task[t].what
  <1>1. LocalsOK /\ task[t].pc = "write"
    BY DEF StorageInv, WriteBlock, At
  <1>2. /\ LocalsOK' /\ Others(t) /\ UNCHANGED <<target, tmp>>
        /\ n \in Inodes /\ d \in Data /\ Len(out) < Blocks
        /\ task'[t].pc = IF Len(out) + 1 = Blocks THEN "rename" ELSE "write"
        /\ task'[t].path = task[t].path /\ task'[t].what = d
        /\ task'[t].fd = n /\ task'[t].src = None
        /\ task'[t].out = Append(out, d)
        /\ data'[n] = Put(data[n], Len(out), d)
        /\ \A m \in Inodes \ {n} : data'[m] = data[m]
    BY <1>1, WriteBlockDoes
  <1>3. /\ data[n] = out /\ out \in Seq(Maybe(Data)) /\ Uniform(out)
        /\ \A j \in 1..Len(out) : out[j] = d
        /\ n = tmp[task[t].path] /\ task[t].path \in Paths /\ task[t].src = None
    BY <1>1, <1>2, TaskType
       DEF StorageInv, ContentsOK, DescriptorsOK, Filling, TaskOK, Maybe
  <1>4. /\ data'[n] = Append(out, d) /\ Uniform(Append(out, d))
        /\ \A j \in 1..Len(Append(out, d)) : Append(out, d)[j] = d
        /\ Len(Append(out, d)) = Len(out) + 1
    BY <1>2, <1>3, PutAtEnd, AppendUniform, AppendProperties DEF Maybe
  <1>5. \A u \in Tasks \ {t} : n \notin {task[u].fd, task[u].src}
    BY <1>1, WriterIsAlone
  <1>6. OneName' /\ Apart' /\ \A u \in Tasks : DescriptorsOK(u)'
    BY <1>1, <1>2, <1>3, NamesStay DEF Filling, Writing, Opened
  <1>7. ASSUME NEW u \in Tasks PROVE ContentsOK(u)'
    <2>1. CASE u = t
      BY <1>2, <1>4, <2>1 DEF ContentsOK, Filling
    <2>2. CASE u # t
      BY <1>2, <1>5, <2>2, ContentsStay DEF Others
    <2> QED
      BY <2>1, <2>2
  <1>8. \A m \in Inodes : Uniform(data'[m])
    BY <1>2, <1>4 DEF StorageInv
  <1> QED
    BY <1>2, <1>6, <1>7, <1>8 DEF StorageInv, Uniform

LEMMA WriteChunkKeeps ==
  ASSUME ~Overlap, StorageInv, NEW t \in Tasks, NEW p \in Paths, NEW d \in Data,
         WriteChunk(t, p, d)
  PROVE  StorageInv'
  <1>1. LocalsOK
    BY DEF StorageInv
  <1>2. /\ LocalsOK' /\ Others(t) /\ UNCHANGED <<target, tmp, data>>
        /\ task'[t].pc = "create" /\ task'[t].path = p /\ task'[t].fd = None
        /\ task'[t].src = None
    BY <1>1, WriteChunkDoes
  <1>3. \A u \in Tasks \ {t} : task[u].path = p => task[u].pc \notin Writing
    BY DEF WriteChunk, Alone
  <1>4. OneName' /\ \A u \in Tasks : DescriptorsOK(u)'
    BY <1>2 DEF StorageInv, OneName, DescriptorsOK, Others, Filling
  <1>5. ASSUME NEW u \in Tasks, NEW v \in Tasks, u # v
        PROVE  /\ task'[u].pc \in Writing /\ task'[v].pc \in Writing
                    => task'[u].path # task'[v].path
               /\ task'[u].pc = "copy" => task'[u].fd \notin {task'[v].fd, task'[v].src}
    <2>1. task[u].pc = "copy" => task[u].fd # None
      BY TaskType, NoneAssumption DEF StorageInv, TaskOK, Opened
    <2>2. CASE u = t \/ v = t
      BY <1>2, <1>3, <1>5, <2>1, <2>2 DEF Others
    <2>3. CASE u # t /\ v # t
      BY <1>2, <1>5, <2>3 DEF StorageInv, Apart, Others
    <2> QED
      BY <2>2, <2>3
  <1>6. ASSUME NEW u \in Tasks PROVE ContentsOK(u)'
    <2>1. CASE u = t
      BY <1>2, <2>1 DEF ContentsOK, Filling
    <2>2. CASE u # t
      BY <1>2, <2>2, ContentsStay DEF Others
    <2> QED
      BY <2>1, <2>2
  <1>7. Apart'
    BY <1>5 DEF Apart
  <1> QED
    BY <1>2, <1>4, <1>6, <1>7 DEF StorageInv

(* The temporary file that a writer opens, new or left over, is nobody's.  *)
LEMMA TempIsFree ==
  ASSUME StorageInv, NEW t \in Tasks, task[t].pc = "create", NEW n \in Inodes,
         Opens(tmp, task[t].path, n)
  PROVE  /\ \A u \in Tasks : n \notin {task[u].fd, task[u].src}
         /\ \A q \in Paths : target[q] # n /\ (tmp[q] = n => q = task[t].path)
  <1> DEFINE p == task[t].path
  <1>0. LocalsOK /\ p \in Paths
    BY TaskType DEF StorageInv
  <1>1. CASE tmp[p] = None
    BY <1>0, <1>1 DEF Opens, Unused
  <1>2. CASE tmp[p] # None
    <2>1. n = tmp[p]
      BY <1>2 DEF Opens
    <2>2. \A q \in Paths : target[q] # n /\ (tmp[q] = n => q = p)
      BY <1>0, <1>2, <2>1 DEF StorageInv, OneName
    <2>3. ASSUME NEW u \in Tasks PROVE n \notin {task[u].fd, task[u].src}
      <3>1. DescriptorsOK(u) /\ TaskOK(u) /\ task[u].path \in Paths
        BY <1>0, TaskType DEF StorageInv
      <3>2. CASE task[u].pc \in Filling
        <4>1. u # t /\ task[u].path # p
          BY <3>2 DEF StorageInv, Apart, Filling, Writing
        <4>2. task[u].fd # n
          BY <2>2, <3>1, <3>2, <4>1 DEF DescriptorsOK
        <4> QED
          BY <3>1, <3>2, <4>2 DEF TaskOK, Filling
      <3>3. CASE task[u].pc \in {"copy", "read"}
        BY <1>0, <2>1, <3>1, <3>3 DEF DescriptorsOK, TaskOK
      <3>4. CASE task[u].pc \notin Opened
        BY <3>1, <3>4 DEF TaskOK, Opened
      <3> QED
        BY <3>2, <3>3, <3>4 DEF Opened, Filling
    <2> QED
      BY <2>2, <2>3
  <1> QED
    BY <1>1, <1>2

LEMMA CreateKeeps ==
  ASSUME StorageInv, NEW t \in Tasks, Create(t)
  PROVE  StorageInv'
  <1> DEFINE p == task[t].path
  <1>0. LocalsOK /\ p \in Paths
    BY TaskType DEF StorageInv
  <1>1. PICK n \in Inodes :
           /\ LocalsOK' /\ Others(t) /\ UNCHANGED target
           /\ task[t].pc = "create" /\ task'[t].pc = "write"
           /\ task'[t].path = p /\ task'[t].what = task[t].what
           /\ task'[t].fd = n /\ task'[t].src = None /\ task'[t].out = <<>>
           /\ Opens(tmp, p, n) /\ Truncates(n)
           /\ tmp' = [tmp EXCEPT ![p] = n]
    BY <1>0, CreateDoes
  <1>2. /\ \A u \in Tasks : n \notin {task[u].fd, task[u].src}
        /\ \A q \in Paths : target[q] # n /\ (tmp[q] = n => q = p)
    BY <1>1, TempIsFree
  <1>3. tmp'[p] = n /\ \A q \in Paths \ {p} : tmp'[q] = tmp[q]
    BY <1>0, <1>1 DEF LocalsOK, TypeOK
  <1>4. OneName'
    BY <1>0, <1>1, <1>2, <1>3 DEF StorageInv, OneName
  <1>5. ASSUME NEW u \in Tasks PROVE DescriptorsOK(u)'
    <2>1. CASE u = t
      BY <1>1, <1>3, <2>1 DEF DescriptorsOK, Filling
    <2>2. CASE u # t
      <3>1. task[u].pc \in Filling => task[u].path # p
        BY <1>1, <2>2 DEF StorageInv, Apart, Filling, Writing
      <3>2. DescriptorsOK(u) /\ task'[u] = task[u] /\ task[u].path \in Paths
        BY <1>0, <1>1, <2>2, TaskType DEF StorageInv, Others
      <3> QED
        BY <1>1, <1>2, <1>3, <3>1, <3>2 DEF DescriptorsOK
    <2> QED
      BY <2>1, <2>2
  <1>6. ASSUME NEW u \in Tasks, NEW v \in Tasks, u # v
        PROVE  /\ task'[u].pc \in Writing /\ task'[v].pc \in Writing
                    => task'[u].path # task'[v].path
               /\ task'[u].pc = "copy" => task'[u].fd \notin {task'[v].fd, task'[v].src}
    <2>1. /\ task[u].pc \in Writing /\ task[v].pc \in Writing
               => task[u].path # task[v].path
          /\ task[u].pc = "copy" => task[u].fd \notin {task[v].fd, task[v].src}
          /\ task[u].pc = "copy" => task[u].fd # None
      BY <1>6, TaskType, NoneAssumption DEF StorageInv, Apart, TaskOK, Opened
    <2>2. CASE u = t
      BY <1>1, <1>6, <2>1, <2>2 DEF Others, Writing
    <2>3. CASE v = t
      BY <1>1, <1>2, <1>6, <2>1, <2>3 DEF Others, Writing
    <2>4. CASE u # t /\ v # t
      BY <1>1, <2>1, <2>4 DEF Others
    <2> QED
      BY <2>2, <2>3, <2>4
  <1>7. ASSUME NEW u \in Tasks PROVE ContentsOK(u)'
    <2>1. CASE u = t
      BY <1>1, <2>1 DEF ContentsOK, Filling, Truncates
    <2>2. CASE u # t
      BY <1>1, <1>2, <2>2, ContentsStay DEF Others, Truncates
    <2> QED
      BY <2>1, <2>2
  <1>8. \A m \in Inodes : Uniform(data'[m])
    BY <1>1, EmptyIsUniform DEF StorageInv, Truncates
  <1>9. Apart'
    BY <1>6 DEF Apart
  <1> QED
    BY <1>1, <1>4, <1>5, <1>7, <1>8, <1>9 DEF StorageInv, Uniform

LEMMA RenameKeeps ==
  ASSUME StorageInv, NEW t \in Tasks, Rename(t)
  PROVE  StorageInv'
  <1> DEFINE p == task[t].path
  <1>0. LocalsOK
    BY DEF StorageInv
  <1>1. /\ LocalsOK' /\ Others(t) /\ UNCHANGED data
        /\ task[t].pc = "rename" /\ p \in Paths /\ tmp[p] # None
        /\ task'[t].pc = "done" /\ task'[t].fd = None /\ task'[t].src = None
        /\ target' = [target EXCEPT ![p] = tmp[p]]
        /\ tmp' = [tmp EXCEPT ![p] = None]
    BY <1>0, RenameDoes
  <1>2. /\ target'[p] = tmp[p] /\ \A q \in Paths \ {p} : target'[q] = target[q]
        /\ tmp'[p] = None /\ \A q \in Paths \ {p} : tmp'[q] = tmp[q]
    BY <1>0, <1>1 DEF LocalsOK, TypeOK
  <1>3. OneName'
    BY <1>1, <1>2 DEF StorageInv, OneName
  <1>4. ASSUME NEW u \in Tasks PROVE DescriptorsOK(u)'
    <2>1. CASE u = t
      BY <1>1, <2>1 DEF DescriptorsOK, Filling
    <2>2. CASE u # t
      <3>1. task[u].pc \in Filling => task[u].path # p
        BY <1>1, <2>2 DEF StorageInv, Apart, Filling, Writing
      <3>2. DescriptorsOK(u) /\ task'[u] = task[u] /\ task[u].path \in Paths
            /\ TaskOK(u)
        BY <1>0, <1>1, <2>2, TaskType DEF StorageInv, Others
      <3> QED
        BY <1>1, <1>2, <3>1, <3>2, NoneAssumption DEF DescriptorsOK, TaskOK, Opened
    <2> QED
      BY <2>1, <2>2
  <1>5. ASSUME NEW u \in Tasks, NEW v \in Tasks, u # v
        PROVE  /\ task'[u].pc \in Writing /\ task'[v].pc \in Writing
                    => task'[u].path # task'[v].path
               /\ task'[u].pc = "copy" => task'[u].fd \notin {task'[v].fd, task'[v].src}
    <2>1. /\ task[u].pc \in Writing /\ task[v].pc \in Writing
               => task[u].path # task[v].path
          /\ task[u].pc = "copy" => task[u].fd \notin {task[v].fd, task[v].src}
          /\ task[u].pc = "copy" => task[u].fd # None
      BY <1>5, TaskType, NoneAssumption DEF StorageInv, Apart, TaskOK, Opened
    <2>2. CASE u = t \/ v = t
      BY <1>1, <1>5, <2>1, <2>2 DEF Others, Writing
    <2>3. CASE u # t /\ v # t
      BY <1>1, <2>1, <2>3 DEF Others
    <2> QED
      BY <2>2, <2>3
  <1>6. ASSUME NEW u \in Tasks PROVE ContentsOK(u)'
    <2>1. CASE u = t
      BY <1>1, <2>1 DEF ContentsOK, Filling
    <2>2. CASE u # t
      BY <1>1, <2>2, ContentsStay DEF Others
    <2> QED
      BY <2>1, <2>2
  <1>7. Apart'
    BY <1>5 DEF Apart
  <1> QED
    BY <1>1, <1>3, <1>4, <1>6, <1>7 DEF StorageInv

(* A chunk file that no copy of its path is writing is written by nobody.  *)
LEMMA TargetIsQuiet ==
  ASSUME StorageInv, NEW t \in Tasks, NEW p \in Paths, target[p] # None,
         \A u \in Tasks \ {t} : task[u].path = p => task[u].pc # "copy"
  PROVE  /\ \A u \in Tasks \ {t} : task[u].pc = "copy" => task[u].fd # target[p]
         /\ \A q \in Paths : tmp[q] # target[p]
  <1>1. \A q \in Paths : tmp[q] # target[p]
    BY DEF StorageInv, OneName
  <1>2. ASSUME NEW u \in Tasks \ {t}, task[u].pc = "copy"
        PROVE  task[u].fd # target[p]
    BY <1>2 DEF StorageInv, DescriptorsOK
  <1> QED
    BY <1>1, <1>2

LEMMA OpenKeeps ==
  ASSUME ~Overlap, StorageInv, NEW t \in Tasks, NEW p \in Paths, Open(t, p),
         target[p] # None
  PROVE  StorageInv'
  <1>0. LocalsOK
    BY DEF StorageInv
  <1>1. /\ LocalsOK' /\ Others(t) /\ UNCHANGED <<target, tmp, data>>
        /\ task'[t].pc = "read" /\ task'[t].path = p /\ target[p] \in Inodes
        /\ task'[t].fd = target[p] /\ task'[t].src = None /\ task'[t].out = <<>>
    BY <1>0, OpenDoes
  <1>2. \A u \in Tasks \ {t} : task[u].path = p => task[u].pc # "copy"
    BY DEF Open, Alone
  <1>3. /\ \A u \in Tasks \ {t} : task[u].pc = "copy" => task[u].fd # target[p]
        /\ \A q \in Paths : tmp[q] # target[p]
    BY <1>2, TargetIsQuiet
  <1>4. OneName' /\ \A u \in Tasks \ {t} : DescriptorsOK(u)'
    BY <1>1 DEF StorageInv, OneName, DescriptorsOK, Others
  <1>5. DescriptorsOK(t)'
    BY <1>1, <1>3 DEF StorageInv, OneName, DescriptorsOK, Filling
  <1>6. ASSUME NEW u \in Tasks, NEW v \in Tasks, u # v
        PROVE  /\ task'[u].pc \in Writing /\ task'[v].pc \in Writing
                    => task'[u].path # task'[v].path
               /\ task'[u].pc = "copy" => task'[u].fd \notin {task'[v].fd, task'[v].src}
    <2>1. /\ task[u].pc \in Writing /\ task[v].pc \in Writing
               => task[u].path # task[v].path
          /\ task[u].pc = "copy" => task[u].fd \notin {task[v].fd, task[v].src}
          /\ task[u].pc = "copy" => task[u].fd # None
      BY <1>6, TaskType, NoneAssumption DEF StorageInv, Apart, TaskOK, Opened
    <2>2. CASE u = t \/ v = t
      BY <1>1, <1>3, <1>6, <2>1, <2>2 DEF Others, Writing
    <2>3. CASE u # t /\ v # t
      BY <1>1, <2>1, <2>3 DEF Others
    <2> QED
      BY <2>2, <2>3
  <1>7. ASSUME NEW u \in Tasks PROVE ContentsOK(u)'
    <2>1. CASE u = t
      <3>1. data[target[p]] \in Seq(Maybe(Data))
        BY <1>0, <1>1 DEF LocalsOK, TypeOK
      <3> QED
        BY <1>1, <2>1, <3>1 DEF ContentsOK, Filling, PrefixOf
    <2>2. CASE u # t
      BY <1>1, <2>2, ContentsStay DEF Others
    <2> QED
      BY <2>1, <2>2
  <1>8. Apart'
    BY <1>6 DEF Apart
  <1> QED
    BY <1>1, <1>4, <1>5, <1>7, <1>8 DEF StorageInv

LEMMA ReadBlockKeeps ==
  ASSUME StorageInv, NEW t \in Tasks, ReadBlock(t),
         Len(task[t].out) < Len(data[task[t].fd])
  PROVE  StorageInv'
  <1> DEFINE n == task[t].fd
             out == task[t].out
             k == Len(out)
             d == data[n][k + 1]
  <1>0. LocalsOK
    BY DEF StorageInv
  <1>1. /\ LocalsOK' /\ Others(t) /\ UNCHANGED <<target, tmp, data>>
        /\ task[t].pc = "read" /\ n \in Inodes /\ d \in Maybe(Data)
        /\ task'[t].pc = IF k + 1 = Blocks THEN "got" ELSE "read"
        /\ task'[t].fd = IF k + 1 = Blocks THEN None ELSE n
        /\ task'[t].path = task[t].path /\ task'[t].src = None
        /\ task'[t].out = Append(out, d) /\ Len(task'[t].out) = k + 1
    BY <1>0, ReadBlockDoes
  <1>2. /\ data[n] \in Seq(Maybe(Data)) /\ Uniform(data[n])
        /\ out \in Seq(Maybe(Data)) /\ PrefixOf(out, data[n]) /\ task[t].src = None
    BY <1>0, <1>1, TaskType DEF StorageInv, LocalsOK, TypeOK, ContentsOK, TaskOK, Maybe
  <1>3. PrefixOf(Append(out, d), data[n])
    BY <1>2, AppendPrefix
  <1>4. Append(out, d) \in Seq(Maybe(Data))
    BY <1>1, <1>2, AppendProperties
  <1>5. Uniform(Append(out, d))
    BY <1>2, <1>3, <1>4, PrefixUniform
  <1>6. OneName' /\ Apart' /\ \A u \in Tasks : DescriptorsOK(u)'
    BY <1>1, <1>2, NamesStay DEF Filling, Writing, Opened
  <1>7. ASSUME NEW u \in Tasks PROVE ContentsOK(u)'
    <2>1. CASE u = t
      BY <1>1, <1>3, <1>5, <2>1 DEF ContentsOK, Filling, PrefixOf, Uniform
    <2>2. CASE u # t
      BY <1>1, <2>2, ContentsStay DEF Others
    <2> QED
      BY <2>1, <2>2
  <1> QED
    BY <1>1, <1>6, <1>7 DEF StorageInv

(* The file that a copy opens to write, new or the chunk's, is nobody's.   *)
LEMMA TargetIsFree ==
  ASSUME ~Overlap, StorageInv, NEW t \in Tasks, NEW p \in Paths, NEW q \in Paths,
         CopyChunk(t, p, q), NEW n \in Inodes, Opens(target, p, n)
  PROVE  /\ \A u \in Tasks : n \notin {task[u].fd, task[u].src}
         /\ \A r \in Paths : tmp[r] # n /\ (target[r] = n => r = p)
  <1>0. LocalsOK /\ task[t].pc = "idle"
    BY DEF StorageInv, CopyChunk, At
  <1>1. CASE target[p] = None
    BY <1>1 DEF Opens, Unused
  <1>2. CASE target[p] # None
    <2>1. n = target[p]
      BY <1>2 DEF Opens
    <2>2. \A r \in Paths : tmp[r] # n /\ (target[r] = n => r = p)
      BY <1>2, <2>1, NoneAssumption DEF StorageInv, OneName
    <2>3. /\ \A u \in Tasks \ {t} : task[u].path = p => task[u].pc \notin {"copy", "read"}
          /\ \A u \in Tasks : task[u].src # None => task[u].src # n
      BY <2>1 DEF CopyChunk, Alone
    <2>4. ASSUME NEW u \in Tasks PROVE n \notin {task[u].fd, task[u].src}
      <3>1. DescriptorsOK(u) /\ TaskOK(u) /\ task[u].path \in Paths
        BY <1>0, TaskType DEF StorageInv
      <3>2. task[u].src # n
        BY <2>3, NoneAssumption
      <3>3. CASE task[u].pc \in Filling
        BY <2>2, <3>1, <3>2, <3>3 DEF DescriptorsOK
      <3>4. CASE task[u].pc \in {"copy", "read"}
        BY <1>0, <2>1, <2>3, <3>1, <3>2, <3>4 DEF DescriptorsOK
      <3>5. CASE task[u].pc \notin Opened
        BY <3>1, <3>2, <3>5 DEF TaskOK
      <3> QED
        BY <3>3, <3>4, <3>5 DEF Opened, Filling
    <2> QED
      BY <2>2, <2>4
  <1> QED
    BY <1>1, <1>2

LEMMA CopyChunkKeeps ==
  ASSUME ~Overlap, StorageInv, NEW t \in Tasks, NEW p \in Paths, NEW q \in Paths,
         CopyChunk(t, p, q)
  PROVE  StorageInv'
  <1>0. LocalsOK
    BY DEF StorageInv
  <1>1. PICK n \in Inodes :
           /\ LocalsOK' /\ Others(t) /\ UNCHANGED tmp /\ task[t].pc = "idle"
           /\ task'[t].pc = "copy" /\ task'[t].path = p /\ task'[t].fd = n
           /\ target[q] \in Inodes /\ task'[t].src = target[q] /\ task'[t].out = <<>>
           /\ Opens(target, p, n) /\ Truncates(n)
           /\ target' = [target EXCEPT ![p] = n]
    BY <1>0, CopyChunkDoes
  <1>2. /\ \A u \in Tasks : n \notin {task[u].fd, task[u].src}
        /\ \A r \in Paths : tmp[r] # n /\ (target[r] = n => r = p)
    BY <1>1, TargetIsFree
  <1>3. /\ \A u \in Tasks \ {t} : task[u].pc = "copy" => task[u].fd # target[q]
        /\ \A r \in Paths : tmp[r] # target[q]
    BY TargetIsQuiet DEF CopyChunk, Alone
  <1>4. target'[p] = n /\ \A r \in Paths \ {p} : target'[r] = target[r]
    BY <1>0, <1>1 DEF LocalsOK, TypeOK
  <1>5. OneName'
    BY <1>1, <1>2, <1>4 DEF StorageInv, OneName
  <1>6. ASSUME NEW u \in Tasks PROVE DescriptorsOK(u)'
    <2>1. CASE u = t
      BY <1>1, <1>2, <1>3, <1>4, <2>1 DEF DescriptorsOK, Filling
    <2>2. CASE u # t
      <3>1. DescriptorsOK(u) /\ task'[u] = task[u]
        BY <1>1, <2>2 DEF StorageInv, Others
      <3> QED
        BY <1>1, <1>2, <1>4, <3>1 DEF DescriptorsOK
    <2> QED
      BY <2>1, <2>2
  <1>7. ASSUME NEW u \in Tasks, NEW v \in Tasks, u # v
        PROVE  /\ task'[u].pc \in Writing /\ task'[v].pc \in Writing
                    => task'[u].path # task'[v].path
               /\ task'[u].pc = "copy" => task'[u].fd \notin {task'[v].fd, task'[v].src}
    <2>1. /\ task[u].pc \in Writing /\ task[v].pc \in Writing
               => task[u].path # task[v].path
          /\ task[u].pc = "copy" => task[u].fd \notin {task[v].fd, task[v].src}
      BY <1>7 DEF StorageInv, Apart
    <2>2. CASE u = t
      BY <1>1, <1>2, <1>7, <2>2 DEF Others, Writing
    <2>3. CASE v = t
      BY <1>1, <1>2, <1>3, <1>7, <2>3 DEF Others, Writing
    <2>4. CASE u # t /\ v # t
      BY <1>1, <2>1, <2>4 DEF Others
    <2> QED
      BY <2>2, <2>3, <2>4
  <1>8. ASSUME NEW u \in Tasks PROVE ContentsOK(u)'
    <2>1. CASE u = t
      <3>1. data'[target[q]] \in Seq(Maybe(Data))
        BY <1>1 DEF LocalsOK, TypeOK
      <3> QED
        BY <1>1, <2>1, <3>1 DEF ContentsOK, Filling, Truncates, PrefixOf
    <2>2. CASE u # t
      BY <1>1, <1>2, <2>2, ContentsStay DEF Others, Truncates
    <2> QED
      BY <2>1, <2>2
  <1>9. \A m \in Inodes : Uniform(data'[m])
    BY <1>1, EmptyIsUniform DEF StorageInv, Truncates
  <1>10. Apart'
    BY <1>7 DEF Apart
  <1> QED
    BY <1>1, <1>5, <1>6, <1>8, <1>9, <1>10 DEF StorageInv, Uniform

(* The next block of a copy comes from a file that is not the one written. *)
LEMMA CopyBlockAppends ==
  ASSUME StorageInv, NEW t \in Tasks, CopyBlock(t),
         Len(task[t].out) < Len(data[task[t].src])
  PROVE  LET n == task[t].fd
             out == task[t].out
             s == task[t].src
             d == data[s][Len(out) + 1]
         IN
         /\ n # s /\ out \in Seq(Maybe(Data)) /\ data[n] = out
         /\ PrefixOf(Append(out, d), data[s]) /\ data'[n] = Append(out, d)
         /\ Uniform(Append(out, d)) /\ Append(out, d) \in Seq(Maybe(Data))
         /\ Len(Append(out, d)) = Len(out) + 1
  <1> DEFINE n == task[t].fd
             out == task[t].out
             s == task[t].src
             d == data[s][Len(out) + 1]
  <1>1. LocalsOK
    BY DEF StorageInv
  <1>2. /\ task[t].pc = "copy" /\ n \in Inodes /\ d \in Maybe(Data)
        /\ data'[n] = Put(data[n], Len(out), d)
    BY <1>1, CopyBlockDoes
  <1>3. s \in Inodes /\ out \in Seq(Maybe(Data)) /\ ContentsOK(t)
    BY <1>1, <1>2, TaskType DEF StorageInv, TaskOK
  <1>4. data[s] \in Seq(Maybe(Data)) /\ Uniform(data[s]) /\ data[n] = out
    BY <1>1, <1>2, <1>3 DEF StorageInv, LocalsOK, TypeOK, ContentsOK
  <1>5. n # s
    <2> SUFFICES ASSUME n = s PROVE FALSE
      OBVIOUS
    <2>1. Len(out) < Len(out) /\ Len(out) \in Nat
      BY <1>3, <1>4
    <2> QED
      BY <2>1
  <1>6. PrefixOf(out, data[s])
    BY <1>2, <1>3, <1>5 DEF ContentsOK
  <1>7. PrefixOf(Append(out, d), data[s])
    BY <1>3, <1>4, <1>6, AppendPrefix
  <1>8. Append(out, d) \in Seq(Maybe(Data)) /\ Len(Append(out, d)) = Len(out) + 1
    BY <1>2, <1>3, AppendProperties
  <1>9. Uniform(Append(out, d))
    BY <1>4, <1>7, <1>8, PrefixUniform
  <1>10. data'[n] = Append(out, d)
    BY <1>2, <1>3, <1>4, PutAtEnd
  <1> QED
    BY <1>3, <1>4, <1>5, <1>7, <1>8, <1>9, <1>10

LEMMA CopyBlockKeeps ==
  ASSUME StorageInv, NEW t \in Tasks, CopyBlock(t),
         Len(task[t].out) < Len(data[task[t].src])
  PROVE  StorageInv'
  <1> DEFINE n == task[t].fd
             out == task[t].out
             s == task[t].src
             d == data[s][Len(out) + 1]
  <1>0. LocalsOK
    BY DEF StorageInv
  <1>1. /\ LocalsOK' /\ Others(t) /\ UNCHANGED <<target, tmp>>
        /\ task[t].pc = "copy" /\ n \in Inodes
        /\ task'[t].pc = "copy" /\ task'[t].path = task[t].path
        /\ task'[t].fd = n /\ task'[t].src = s
        /\ task'[t].out = Append(out, d)
        /\ \A m \in Inodes \ {n} : data'[m] = data[m]
    BY <1>0, CopyBlockDoes
  <1>2. /\ n # s /\ PrefixOf(Append(out, d), data[s]) /\ data'[n] = Append(out, d)
        /\ Uniform(Append(out, d))
    BY CopyBlockAppends
  <1>3. s \in Inodes /\ data'[s] = data[s]
    BY <1>0, <1>1, <1>2, TaskType DEF TaskOK
  <1>4. ASSUME NEW u \in Tasks, u # t PROVE n \notin {task[u].fd, task[u].src}
    BY <1>1, <1>4 DEF StorageInv, Apart
  <1>5. OneName' /\ Apart' /\ \A u \in Tasks : DescriptorsOK(u)'
    BY <1>1, NamesStay DEF Filling, Writing, Opened
  <1>6. ASSUME NEW u \in Tasks PROVE ContentsOK(u)'
    <2>1. CASE u = t
      BY <1>1, <1>2, <1>3, <2>1 DEF ContentsOK, Filling, PrefixOf
    <2>2. CASE u # t
      BY <1>1, <1>4, <2>2, ContentsStay DEF Others
    <2> QED
      BY <2>1, <2>2
  <1>7. \A m \in Inodes : Uniform(data'[m])
    BY <1>1, <1>2 DEF StorageInv
  <1> QED
    BY <1>1, <1>5, <1>6, <1>7 DEF StorageInv, Uniform

LEMMA DeleteKeeps ==
  ASSUME StorageInv, NEW p \in Paths, DeleteChunk(p)
  PROVE  StorageInv'
  <1>1. /\ LocalsOK' /\ UNCHANGED <<tmp, data, task>>
        /\ target' = [target EXCEPT ![p] = None]
    BY DeleteDoes DEF StorageInv
  <1>2. target'[p] = None /\ \A q \in Paths \ {p} : target'[q] = target[q]
    BY <1>1 DEF StorageInv, LocalsOK, TypeOK
  <1>3. OneName' /\ Apart'
    BY <1>1, <1>2 DEF StorageInv, OneName, Apart
  <1>4. ASSUME NEW t \in Tasks PROVE DescriptorsOK(t)' /\ ContentsOK(t)'
    <2>1. DescriptorsOK(t) /\ ContentsOK(t) /\ TaskOK(t)
      BY TaskType DEF StorageInv
    <2>2. DescriptorsOK(t)'
      BY <1>1, <1>2, <2>1, NoneAssumption DEF DescriptorsOK, TaskOK, Opened
    <2> QED
      BY <1>1, <2>1, <2>2 DEF ContentsOK
  <1> QED
    BY <1>1, <1>3, <1>4 DEF StorageInv

(* Tasks at rest put no condition on the files.                            *)
LEMMA AllIdleKeeps ==
  ASSUME LocalsOK, OneName, \A t \in Tasks : task[t] = Idle,
         \A n \in Inodes : Uniform(data[n])
  PROVE  StorageInv
  BY IdleType DEF StorageInv, Apart, DescriptorsOK, ContentsOK, Filling, Writing

LEMMA RestartKeeps ==
  ASSUME StorageInv, Restart
  PROVE  StorageInv'
  <1>1. /\ LocalsOK' /\ UNCHANGED <<target, tmp, data>>
        /\ \A t \in Tasks : task'[t] = Idle
    BY RestartDoes DEF StorageInv
  <1>2. OneName' /\ \A n \in Inodes : Uniform(data[n])'
    BY <1>1 DEF StorageInv, OneName
  <1> QED
    BY <1>1, <1>2, IdleType DEF StorageInv, Apart, DescriptorsOK, ContentsOK, Filling, Writing

LEMMA InitStorage == Init => StorageInv
  <1> SUFFICES ASSUME Init PROVE StorageInv
    OBVIOUS
  <1>1. LocalsOK
    BY InitLocals
  <1>2. OneName /\ \A t \in Tasks : task[t] = Idle
    BY DEF Init, OneName
  <1>3. \A n \in Inodes : Uniform(data[n])
    BY EmptyIsUniform DEF Init
  <1> QED
    BY <1>1, <1>2, <1>3, AllIdleKeeps

LEMMA NextStorage ==
  ASSUME ~Overlap, StorageInv, [Next]_vars
  PROVE  StorageInv'
  <1>0. LocalsOK
    BY DEF StorageInv
  <1>1. ASSUME NEW t \in Tasks, Create(t) \/ WriteBlock(t) \/ Rename(t)
        PROVE  StorageInv'
    BY <1>1, CreateKeeps, WriteBlockKeeps, RenameKeeps
  <1>2. ASSUME NEW t \in Tasks, ReadBlock(t) \/ CopyBlock(t) \/ Abort(t) \/ Forget(t)
        PROVE  StorageInv'
    BY <1>0, <1>2, ReadBlockKeeps, CopyBlockKeeps, ReadBlockEnds, CopyBlockEnds,
       AbortEnds, EndsKeeps
  <1>3. ASSUME NEW t \in Tasks, NEW p \in Paths,
               \/ Open(t, p)
               \/ \E d \in Data : WriteChunk(t, p, d)
               \/ \E q \in Paths : CopyChunk(t, p, q)
        PROVE  StorageInv'
    BY <1>3, OpenKeeps, OpenEnds, EndsKeeps, WriteChunkKeeps, CopyChunkKeeps
  <1>4. ASSUME NEW p \in Paths, DeleteChunk(p)
        PROVE  StorageInv'
    BY <1>4, DeleteKeeps
  <1>5. CASE Restart
    BY <1>5, RestartKeeps
  <1>6. CASE UNCHANGED vars
    <2>1. LocalsOK'
      BY <1>0, NextLocals
    <2> QED
      BY <1>6, <2>1 DEF vars, StorageInv, OneName, Apart, DescriptorsOK, ContentsOK
  <1> QED
    BY <1>1, <1>2, <1>3, <1>4, <1>5, <1>6 DEF Next

LEMMA StorageInvariant ==
  ASSUME ~Overlap
  PROVE  Spec => []StorageInv
  <1>1. StorageInv /\ [Next]_vars => StorageInv'
    BY NextStorage
  <1> QED
    BY <1>1, InitStorage, PTL DEF Spec

(* write_chunk's Ok means that its own data, every block of it, is under   *)
(* the chunk's name when the rename returns.                               *)
THEOREM WriteInstalls ==
  ASSUME ~Overlap
  PROVE  Spec => WriteInstallsData
  <1>1. ASSUME StorageInv, [Next]_vars, NEW t \in Tasks, At(t, "rename"),
               task'[t].pc = "done"
        PROVE  data'[target'[task[t].path]] = Full(task[t].what)
    <2>0. LocalsOK /\ task[t].pc = "rename" /\ task[t].path \in Paths
      BY <1>1, TaskType DEF StorageInv, At
    <2>1. /\ tmp[task[t].path] = task[t].fd /\ data[task[t].fd] = Full(task[t].what)
      <3>1. /\ tmp[task[t].path] = task[t].fd /\ data[task[t].fd] = task[t].out
            /\ Len(task[t].out) = Blocks /\ task[t].what \in Data
            /\ \A j \in 1..Blocks : task[t].out[j] = task[t].what
            /\ task[t].out \in Seq(Maybe(Data))
        BY <1>1, <2>0, TaskType
           DEF StorageInv, DescriptorsOK, ContentsOK, TaskOK, Filling, Writing
      <3> QED
        BY <3>1, EqualToFull
    <2>2. Rename(t)
      <3>1. ASSUME NEW u \in Tasks, Others(u), u # t PROVE FALSE
        BY <1>1, <2>0, <3>1 DEF Others
      <3>2. ASSUME NEW u \in Tasks, u # t,
                   \/ Create(u) \/ WriteBlock(u) \/ Rename(u) \/ ReadBlock(u)
                   \/ CopyBlock(u) \/ Abort(u) \/ Forget(u)
            PROVE  FALSE
        BY <2>0, <3>1, <3>2, CreateDoes, WriteBlockDoes, RenameDoes, ReadBlockDoes,
           CopyBlockDoes, ReadBlockEnds, CopyBlockEnds, AbortEnds, EndsDoes
      <3>3. ASSUME NEW u \in Tasks, u # t, NEW p \in Paths,
                   \/ Open(u, p)
                   \/ \E d \in Data : WriteChunk(u, p, d)
                   \/ \E q \in Paths : CopyChunk(u, p, q)
            PROVE  FALSE
        BY <2>0, <3>1, <3>3, OpenDoes, OpenEnds, EndsDoes, WriteChunkDoes, CopyChunkDoes
      <3>4. ASSUME \/ Create(t) \/ WriteBlock(t) \/ ReadBlock(t)
                   \/ CopyBlock(t) \/ Forget(t)
                   \/ \E p \in Paths : \/ Open(t, p)
                                       \/ \E d \in Data : WriteChunk(t, p, d)
                                       \/ \E q \in Paths : CopyChunk(t, p, q)
            PROVE  FALSE
        BY <2>0, <3>4 DEF Create, WriteBlock, ReadBlock, CopyBlock, Forget, Open,
           WriteChunk, CopyChunk, At
      <3>5. ASSUME Abort(t) PROVE FALSE
        <4>1. Rest(task[t].path, "error").pc = "error"
          BY DEF Rest
        <4>2. task'[t] = Rest(task[t].path, "error")
          BY <2>0, <3>5 DEF Abort, Becomes, LocalsOK, TypeOK
        <4> QED
          BY <1>1, <4>1, <4>2
      <3>6. ASSUME NEW p \in Paths, DeleteChunk(p) PROVE FALSE
        BY <1>1, <2>0, <3>6 DEF DeleteChunk
      <3>7. ASSUME Restart PROVE FALSE
        BY <1>1, <2>0, <3>7, RestartDoes, IdleType
      <3>8. ASSUME UNCHANGED vars PROVE FALSE
        BY <1>1, <2>0, <3>8 DEF vars
      <3> QED
        BY <1>1, <3>2, <3>3, <3>4, <3>5, <3>6, <3>7, <3>8 DEF Next
    <2>3. data' = data /\ target' = [target EXCEPT ![task[t].path] = tmp[task[t].path]]
      BY <2>0, <2>2, RenameDoes
    <2>4. target'[task[t].path] = tmp[task[t].path]
      BY <2>0, <2>3 DEF LocalsOK, TypeOK
    <2> QED
      BY <2>1, <2>3, <2>4
  <1>2. StorageInv /\ [Next]_vars
          => [\A t \in Tasks : At(t, "rename") /\ task'[t].pc = "done" =>
                data'[target'[task[t].path]] = Full(task[t].what)]_vars
    BY <1>1
  <1> QED
    BY <1>2, StorageInvariant, PTL DEF Spec, WriteInstallsData

-----------------------------------------------------------------------------
(* Atomic storage: the mapping of one file and of one read.                *)

FileOf(n, blocks) == IF n = None THEN None ELSE Whole(blocks[n])

ReadOf(r, blocks) ==
  CASE r.pc = "read" /\ Whole(blocks[r.fd]) # None ->
         [st |-> "open", data |-> Whole(blocks[r.fd])]
    [] r.pc = "got" -> [st |-> "got", data |-> Whole(r.out)]
    [] r.pc = "error" -> [st |-> "error", data |-> None]
    [] OTHER -> [st |-> "idle", data |-> None]

NoRead == [st |-> "idle", data |-> None]
FailedRead == [st |-> "error", data |-> None]

LEMMA Views ==
  /\ FileView = [p \in Paths |-> FileOf(target[p], data)]
  /\ FileView' = [p \in Paths |-> FileOf(target'[p], data')]
  /\ ReadView = [t \in Tasks |-> ReadOf(task[t], data)]
  /\ ReadView' = [t \in Tasks |-> ReadOf(task'[t], data')]
  BY DEF FileView, ReadView, FileOf, ReadOf, At

LEMMA ReadOfIs ==
  ASSUME NEW r, NEW blocks
  PROVE  /\ r.pc \notin {"read", "got", "error"} => ReadOf(r, blocks) = NoRead
         /\ r.pc = "error" => ReadOf(r, blocks) = FailedRead
         /\ r.pc = "got" => ReadOf(r, blocks) = [st |-> "got", data |-> Whole(r.out)]
         /\ r.pc = "read" => ReadOf(r, blocks) =
              IF Whole(blocks[r.fd]) = None THEN NoRead
                ELSE [st |-> "open", data |-> Whole(blocks[r.fd])]
         /\ ReadOf(r, blocks).st \in {"idle", "open", "got", "error"}
  BY DEF ReadOf, NoRead, FailedRead

(* A step that changes one read, or none, and no file.                     *)
LEMMA OneRead ==
  ASSUME NEW t \in Tasks, NEW x, ReadOf(task'[t], data') = x,
         \A u \in Tasks \ {t} : ReadOf(task'[u], data') = ReadOf(task[u], data)
  PROVE  ReadView' = [ReadView EXCEPT ![t] = x]
  BY Views

LEMMA NoReadChanges ==
  ASSUME \A u \in Tasks : ReadOf(task'[u], data') = ReadOf(task[u], data)
  PROVE  UNCHANGED ReadView
  BY Views

LEMMA OneFile ==
  ASSUME NEW p \in Paths, NEW x, FileOf(target'[p], data') = x,
         \A q \in Paths \ {p} : FileOf(target'[q], data') = FileOf(target[q], data)
  PROVE  FileView' = [FileView EXCEPT ![p] = x]
  BY Views

LEMMA NoFileChanges ==
  ASSUME \A q \in Paths : FileOf(target'[q], data') = FileOf(target[q], data)
  PROVE  UNCHANGED FileView
  BY Views

(* A task that does not move sees no change as long as its file has none.  *)
LEMMA ReadStays ==
  ASSUME LocalsOK, NEW t \in Tasks, task'[t] = task[t],
         \A m \in Inodes : m = task[t].fd => data'[m] = data[m]
  PROVE  ReadOf(task'[t], data') = ReadOf(task[t], data)
  <1>1. task[t].pc = "read" => data'[task[t].fd] = data[task[t].fd]
    BY TaskType DEF TaskOK, Opened
  <1> QED
    BY <1>1 DEF ReadOf

LEMMA FileStays ==
  ASSUME LocalsOK, NEW p \in Paths, target'[p] = target[p],
         \A m \in Inodes : m = target[p] => data'[m] = data[m]
  PROVE  FileOf(target'[p], data') = FileOf(target[p], data)
  BY DEF FileOf, LocalsOK, TypeOK, Maybe

LEMMA EmptyIsNotWhole == Whole(<<>>) = None
  <1>1. Len(<<>>) = 0 /\ <<>> \in Seq(Maybe(Data)) /\ Len(<<>>) <= Blocks
    BY BlocksAssumption
  <1> QED
    BY <1>1, EmptyIsUniform, WholeIffLong, BlocksAssumption

(* Every step is one of the abstract store, or none.                       *)
StoreStep == [Store!Next]_(Store!vars)

LEMMA StepPut ==
  ASSUME NEW p \in Paths, NEW d \in Data,
         FileView' = [FileView EXCEPT ![p] = d], UNCHANGED ReadView
  PROVE  StoreStep
  BY DEF StoreStep, Store!Next, Store!Put

LEMMA StepDelete ==
  ASSUME NEW p \in Paths, FileView' = [FileView EXCEPT ![p] = None], UNCHANGED ReadView
  PROVE  StoreStep
  BY DEF StoreStep, Store!Next, Store!Delete

LEMMA StepNone ==
  ASSUME UNCHANGED FileView, UNCHANGED ReadView
  PROVE  StoreStep
  BY DEF StoreStep, Store!vars

LEMMA StepRead ==
  ASSUME NEW t \in Tasks, UNCHANGED FileView, NEW x,
         ReadView' = [ReadView EXCEPT ![t] = x],
         \/ x = FailedRead /\ ReadView[t].st \in {"idle", "open"}
         \/ x = NoRead /\ ReadView[t].st \in {"got", "error"}
         \/ /\ ReadView[t] = NoRead
            /\ \E p \in Paths : /\ FileView[p] # None
                                /\ x = [st |-> "open", data |-> FileView[p]]
         \/ ReadView[t].st = "open" /\ x = [ReadView[t] EXCEPT !.st = "got"]
  PROVE  StoreStep
  <1>1. CASE x = FailedRead /\ ReadView[t].st \in {"idle", "open"}
    BY <1>1 DEF StoreStep, Store!Next, Store!Fail, FailedRead
  <1>2. CASE x = NoRead /\ ReadView[t].st \in {"got", "error"}
    BY <1>2 DEF StoreStep, Store!Next, Store!Forget, Store!Idle, NoRead
  <1>3. CASE /\ ReadView[t] = NoRead
             /\ \E p \in Paths : /\ FileView[p] # None
                                 /\ x = [st |-> "open", data |-> FileView[p]]
    BY <1>3 DEF StoreStep, Store!Next, Store!Open, Store!Idle, NoRead
  <1>4. CASE ReadView[t].st = "open" /\ x = [ReadView[t] EXCEPT !.st = "got"]
    <2>1. ReadView' = [ReadView EXCEPT ![t].st = "got"]
      BY <1>4
    <2> QED
      BY <1>4, <2>1 DEF StoreStep, Store!Next, Store!Return
  <1> QED
    BY <1>1, <1>2, <1>3, <1>4

LEMMA EndsRefines ==
  ASSUME LocalsOK, NEW t \in Tasks, Ends(t),
         \/ task'[t].pc = "error" /\ task[t].pc \notin {"got", "error"}
         \/ task'[t].pc # "error" /\ task[t].pc # "read"
  PROVE  StoreStep
  <1>1. /\ Others(t) /\ UNCHANGED <<target, tmp, data>>
        /\ task'[t].pc \in {"idle", "done", "error"}
    BY EndsDoes
  <1>2. UNCHANGED FileView
    BY <1>1, NoFileChanges
  <1>3. \A u \in Tasks \ {t} : ReadOf(task'[u], data') = ReadOf(task[u], data)
    BY <1>1 DEF Others
  <1>4. ReadView[t] = ReadOf(task[t], data)
    BY Views
  <1> DEFINE x == ReadOf(task'[t], data')
  <1>5. ReadView' = [ReadView EXCEPT ![t] = x]
    BY <1>3, OneRead
  <1>6. CASE task'[t].pc = "error" /\ task[t].pc \notin {"got", "error"}
    <2>1. x = FailedRead /\ ReadView[t].st \in {"idle", "open"}
      BY <1>4, <1>6, ReadOfIs DEF NoRead
    <2> HIDE DEF x
    <2> QED
      BY <1>2, <1>5, <2>1, StepRead
  <1>7. CASE task'[t].pc # "error" /\ task[t].pc \in {"got", "error"}
    <2>1. x = NoRead /\ ReadView[t].st \in {"got", "error"}
      BY <1>1, <1>4, <1>7, ReadOfIs DEF FailedRead
    <2> HIDE DEF x
    <2> QED
      BY <1>2, <1>5, <2>1, StepRead
  <1>8. CASE task'[t].pc # "error" /\ task[t].pc \notin {"got", "error", "read"}
    <2>1. x = NoRead /\ ReadOf(task[t], data) = NoRead
      BY <1>1, <1>8, ReadOfIs
    <2> QED
      BY <1>2, <1>3, <2>1, NoReadChanges, StepNone
  <1> QED
    BY <1>6, <1>7, <1>8

LEMMA OpenRefines ==
  ASSUME LocalsOK, NEW t \in Tasks, NEW p \in Paths, Open(t, p), target[p] # None
  PROVE  StoreStep
  <1>1. /\ Others(t) /\ UNCHANGED <<target, tmp, data>>
        /\ task'[t].pc = "read" /\ task'[t].fd = target[p]
    BY OpenDoes
  <1>2. UNCHANGED FileView
    BY <1>1, NoFileChanges
  <1>3. \A u \in Tasks \ {t} : ReadOf(task'[u], data') = ReadOf(task[u], data)
    BY <1>1 DEF Others
  <1>4. ReadView[t] = ReadOf(task[t], data) /\ FileView[p] = Whole(data[target[p]])
    BY Views DEF FileOf
  <1>5. ReadOf(task[t], data) = NoRead
    BY ReadOfIs DEF Open, At
  <1> DEFINE x == ReadOf(task'[t], data')
  <1>6. x = IF FileView[p] = None THEN NoRead ELSE [st |-> "open", data |-> FileView[p]]
    BY <1>1, <1>4, ReadOfIs
  <1>7. CASE FileView[p] = None
    BY <1>2, <1>3, <1>5, <1>6, <1>7, NoReadChanges, StepNone
  <1>8. CASE FileView[p] # None
    <2>1. ReadView' = [ReadView EXCEPT ![t] = x]
      BY <1>3, OneRead
    <2> HIDE DEF x
    <2> QED
      BY <1>2, <1>4, <1>5, <1>6, <1>8, <2>1, StepRead
  <1> QED
    BY <1>7, <1>8

LEMMA ReadBlockRefines ==
  ASSUME StorageInv, StorageInv', NEW t \in Tasks, ReadBlock(t),
         Len(task[t].out) < Len(data[task[t].fd])
  PROVE  StoreStep
  <1> DEFINE n == task[t].fd
             out == task[t].out
             k == Len(out)
             d == data[n][k + 1]
             x == ReadOf(task'[t], data')
  <1>0. LocalsOK
    BY DEF StorageInv
  <1>1. /\ Others(t) /\ UNCHANGED <<target, tmp, data>>
        /\ task[t].pc = "read" /\ n \in Inodes /\ d \in Maybe(Data)
        /\ task'[t].pc = IF k + 1 = Blocks THEN "got" ELSE "read"
        /\ task'[t].fd = IF k + 1 = Blocks THEN None ELSE n
        /\ task'[t].out = Append(out, d)
    BY <1>0, ReadBlockDoes
  <1>2. UNCHANGED FileView
    BY <1>1, NoFileChanges
  <1>3. \A u \in Tasks \ {t} : ReadOf(task'[u], data') = ReadOf(task[u], data)
    BY <1>1 DEF Others
  <1>4. ReadView[t] = ReadOf(task[t], data)
    BY Views
  <1>5. CASE k + 1 # Blocks
    <2>1. x = ReadOf(task[t], data)
      BY <1>1, <1>5, ReadOfIs
    <2> QED
      BY <1>2, <1>3, <2>1, NoReadChanges, StepNone
  <1>6. CASE k + 1 = Blocks
    <2>1. /\ out \in Seq(Maybe(Data)) /\ PrefixOf(out, data[n]) /\ k \in Nat
          /\ data[n] \in Seq(Maybe(Data)) /\ Uniform(data[n])
          /\ Len(data[n]) <= Blocks /\ Len(data[n]) \in Nat
      BY <1>0, <1>1, TaskType DEF StorageInv, LocalsOK, TypeOK, ContentsOK
    <2>2. Len(data[n]) = Blocks
      BY <1>6, <2>1, BlocksAssumption
    <2>3. Whole(data[n]) # None
      BY <2>1, <2>2, WholeIffLong
    <2>4. Append(out, d) \in Seq(Maybe(Data)) /\ Len(Append(out, d)) = Blocks
          /\ PrefixOf(Append(out, d), data[n])
      BY <1>1, <1>6, <2>1, AppendProperties, AppendPrefix
    <2>5. Append(out, d) = data[n]
      BY <2>1, <2>2, <2>4, SeqEqual DEF PrefixOf
    <2>6. x = [st |-> "got", data |-> Whole(data[n])]
      BY <1>1, <1>6, <2>5, ReadOfIs
    <2>7. ReadView[t] = [st |-> "open", data |-> Whole(data[n])]
      BY <1>1, <1>4, <2>3, ReadOfIs
    <2>8. ReadView[t].st = "open" /\ x = [ReadView[t] EXCEPT !.st = "got"]
      BY <2>6, <2>7
    <2>9. ReadView' = [ReadView EXCEPT ![t] = x]
      BY <1>3, OneRead
    <2> HIDE DEF x
    <2> QED
      BY <1>2, <2>8, <2>9, StepRead
  <1> QED
    BY <1>5, <1>6

(* What a writer does before its rename shows nowhere.                     *)
LEMMA HiddenRefines ==
  ASSUME LocalsOK, NEW t \in Tasks, Others(t), UNCHANGED target, NEW D,
         task[t].pc \notin {"read", "got", "error"},
         task'[t].pc \notin {"read", "got", "error"},
         \A m \in Inodes \ D : data'[m] = data[m],
         \A p \in Paths : target[p] \notin D,
         \A u \in Tasks \ {t} : task[u].fd \notin D
  PROVE  StoreStep
  <1>1. ASSUME NEW p \in Paths PROVE FileOf(target'[p], data') = FileOf(target[p], data)
    BY FileStays
  <1>2. ASSUME NEW u \in Tasks PROVE ReadOf(task'[u], data') = ReadOf(task[u], data)
    <2>1. CASE u = t
      BY <2>1, ReadOfIs
    <2>2. CASE u # t
      BY <2>2, ReadStays DEF Others
    <2> QED
      BY <2>1, <2>2
  <1> QED
    BY <1>1, <1>2, NoFileChanges, NoReadChanges, StepNone

LEMMA WritingRefines ==
  ASSUME StorageInv, NEW t \in Tasks,
         \/ Create(t) \/ WriteBlock(t)
         \/ \E p \in Paths, d \in Data : WriteChunk(t, p, d)
  PROVE  StoreStep
  <1>0. LocalsOK
    BY DEF StorageInv
  <1>1. CASE Create(t)
    <2>1. PICK n \in Inodes :
            /\ Others(t) /\ UNCHANGED target
            /\ task[t].pc = "create" /\ task'[t].pc = "write"
            /\ Opens(tmp, task[t].path, n) /\ Truncates(n)
      BY <1>0, <1>1, CreateDoes
    <2>2. /\ \A u \in Tasks : task[u].fd # n
          /\ \A q \in Paths : target[q] # n
      BY <2>1, TempIsFree
    <2> DEFINE D == {n}
    <2>3. /\ \A m \in Inodes \ D : data'[m] = data[m]
          /\ \A q \in Paths : target[q] \notin D
          /\ \A u \in Tasks \ {t} : task[u].fd \notin D
      BY <2>1, <2>2 DEF Truncates
    <2> HIDE DEF D
    <2> QED
      BY <1>0, <2>1, <2>3, HiddenRefines
  <1>2. CASE WriteBlock(t)
    <2> DEFINE n == task[t].fd
    <2>1. /\ Others(t) /\ UNCHANGED target /\ task[t].pc = "write" /\ n \in Inodes
          /\ task'[t].pc \in {"write", "rename"}
          /\ \A m \in Inodes \ {n} : data'[m] = data[m]
      BY <1>0, <1>2, WriteBlockDoes
    <2>2. /\ \A p \in Paths : target[p] # n
          /\ \A u \in Tasks \ {t} : task[u].fd # n
      BY <2>1, WriterIsAlone
    <2> DEFINE D == {n}
    <2>3. /\ \A m \in Inodes \ D : data'[m] = data[m]
          /\ \A q \in Paths : target[q] \notin D
          /\ \A u \in Tasks \ {t} : task[u].fd \notin D
      BY <2>1, <2>2
    <2> HIDE DEF D
    <2> QED
      BY <1>0, <2>1, <2>3, HiddenRefines
  <1>3. ASSUME NEW p \in Paths, NEW d \in Data, WriteChunk(t, p, d)
        PROVE  StoreStep
    <2>1. /\ Others(t) /\ UNCHANGED <<target, data>> /\ task[t].pc = "idle"
          /\ task'[t].pc = "create"
      BY <1>0, <1>3, WriteChunkDoes DEF WriteChunk, At
    <2> DEFINE D == {}
    <2>2. /\ \A m \in Inodes \ D : data'[m] = data[m]
          /\ \A q \in Paths : target[q] \notin D
          /\ \A u \in Tasks \ {t} : task[u].fd \notin D
      BY <2>1
    <2> HIDE DEF D
    <2> QED
      BY <1>0, <2>1, <2>2, HiddenRefines
  <1> QED
    BY <1>1, <1>2, <1>3

LEMMA RenameRefines ==
  ASSUME StorageInv, NEW t \in Tasks, Rename(t)
  PROVE  StoreStep
  <1> DEFINE p == task[t].path
             d == task[t].what
  <1>0. LocalsOK
    BY DEF StorageInv
  <1>1. /\ Others(t) /\ UNCHANGED data
        /\ task[t].pc = "rename" /\ p \in Paths /\ tmp[p] # None
        /\ task'[t].pc = "done"
        /\ target' = [target EXCEPT ![p] = tmp[p]]
    BY <1>0, RenameDoes
  <1>2. /\ tmp[p] = task[t].fd /\ data[task[t].fd] = task[t].out
        /\ Len(task[t].out) = Blocks /\ d \in Data
        /\ \A j \in 1..Blocks : task[t].out[j] = d
        /\ task[t].out \in Seq(Maybe(Data))
    BY <1>0, <1>1, TaskType
       DEF StorageInv, DescriptorsOK, ContentsOK, TaskOK, Filling, Writing
  <1>3. Whole(data[tmp[p]]) = d
    BY <1>2, EqualToFull, WholeOfFull
  <1>4. target'[p] = tmp[p] /\ \A q \in Paths \ {p} : target'[q] = target[q]
    BY <1>0, <1>1 DEF LocalsOK, TypeOK
  <1>5. FileOf(target'[p], data') = d
    BY <1>1, <1>3, <1>4 DEF FileOf
  <1>6. \A q \in Paths \ {p} : FileOf(target'[q], data') = FileOf(target[q], data)
    BY <1>1, <1>4
  <1>7. FileView' = [FileView EXCEPT ![p] = d]
    BY <1>1, <1>5, <1>6, OneFile
  <1>8. ASSUME NEW u \in Tasks PROVE ReadOf(task'[u], data') = ReadOf(task[u], data)
    <2>1. CASE u = t
      BY <1>1, <2>1, ReadOfIs
    <2>2. CASE u # t
      BY <1>1, <2>2 DEF Others
    <2> QED
      BY <2>1, <2>2
  <1> QED
    BY <1>1, <1>2, <1>7, <1>8, NoReadChanges, StepPut

LEMMA CopyChunkRefines ==
  ASSUME ~Overlap, StorageInv, NEW t \in Tasks, NEW p \in Paths, NEW q \in Paths,
         CopyChunk(t, p, q)
  PROVE  StoreStep
  <1>0. LocalsOK
    BY DEF StorageInv
  <1>1. PICK n \in Inodes :
           /\ Others(t) /\ task[t].pc = "idle" /\ task'[t].pc = "copy"
           /\ Opens(target, p, n) /\ Truncates(n)
           /\ target' = [target EXCEPT ![p] = n]
    BY <1>0, CopyChunkDoes
  <1>2. /\ \A u \in Tasks : n # task[u].fd
        /\ \A r \in Paths : target[r] = n => r = p
    BY <1>1, TargetIsFree
  <1>3. target'[p] = n /\ \A r \in Paths \ {p} : target'[r] = target[r]
    BY <1>0, <1>1 DEF LocalsOK, TypeOK
  <1>4. FileOf(target'[p], data') = None
    BY <1>1, <1>3, EmptyIsNotWhole DEF FileOf, Truncates
  <1>5. ASSUME NEW r \in Paths \ {p}
        PROVE  FileOf(target'[r], data') = FileOf(target[r], data)
    BY <1>0, <1>1, <1>2, <1>3, FileStays DEF Truncates
  <1>6. ASSUME NEW u \in Tasks PROVE ReadOf(task'[u], data') = ReadOf(task[u], data)
    <2>1. CASE u = t
      BY <1>1, <2>1, ReadOfIs
    <2>2. CASE u # t
      BY <1>0, <1>1, <1>2, <2>2, ReadStays DEF Others, Truncates
    <2> QED
      BY <2>1, <2>2
  <1>7. FileView' = [FileView EXCEPT ![p] = None] /\ UNCHANGED ReadView
    BY <1>4, <1>5, <1>6, OneFile, NoReadChanges
  <1> QED
    BY <1>7, StepDelete

LEMMA CopyBlockRefines ==
  ASSUME StorageInv, NEW t \in Tasks, CopyBlock(t),
         Len(task[t].out) < Len(data[task[t].src])
  PROVE  StoreStep
  <1> DEFINE n == task[t].fd
             p == task[t].path
             out == task[t].out
             d == data[task[t].src][Len(out) + 1]
             new == Append(out, d)
  <1>0. LocalsOK /\ p \in Paths
    BY TaskType DEF StorageInv
  <1>1. /\ Others(t) /\ UNCHANGED target /\ n \in Inodes /\ LocalsOK'
        /\ task[t].pc = "copy" /\ task'[t].pc = "copy" /\ Len(out) < Blocks
        /\ \A m \in Inodes \ {n} : data'[m] = data[m]
    BY <1>0, CopyBlockDoes
  <1>2. /\ data[n] = out /\ data'[n] = new /\ Uniform(new)
        /\ out \in Seq(Maybe(Data)) /\ new \in Seq(Maybe(Data))
        /\ Len(new) = Len(out) + 1
    BY CopyBlockAppends
  <1>3. \A r \in Paths : target[r] = n => r = p
    BY <1>1 DEF StorageInv, DescriptorsOK
  <1>4. \A u \in Tasks \ {t} : task[u].fd # n
    BY <1>1 DEF StorageInv, Apart
  <1>5. ASSUME NEW r \in Paths, r # p \/ target[p] # n
        PROVE  FileOf(target'[r], data') = FileOf(target[r], data)
    BY <1>0, <1>1, <1>3, <1>5, FileStays
  <1>6. ASSUME NEW u \in Tasks PROVE ReadOf(task'[u], data') = ReadOf(task[u], data)
    <2>1. CASE u = t
      BY <1>1, <2>1, ReadOfIs
    <2>2. CASE u # t
      BY <1>0, <1>1, <1>4, <2>2, ReadStays DEF Others
    <2> QED
      BY <2>1, <2>2
  <1>7. UNCHANGED ReadView
    BY <1>6, NoReadChanges
  <1>8. Whole(out) = None
    <2>1. Uniform(out) /\ Len(out) <= Blocks /\ Len(out) # Blocks
      BY <1>1, <1>2, BlocksAssumption DEF StorageInv
    <2> QED
      BY <1>2, <2>1, WholeIffLong
  <1>9. Whole(new) \in Data \cup {None}
    <2>1. Len(new) <= Blocks
      BY <1>1, <1>2, BlocksAssumption
    <2> QED
      BY <1>2, <2>1, WholeIffLong
  <1>10. CASE target[p] = n /\ Whole(new) \in Data
    <2>1. FileOf(target'[p], data') = Whole(new)
      BY <1>1, <1>2, <1>10, NoneAssumption DEF FileOf
    <2>2. FileView' = [FileView EXCEPT ![p] = Whole(new)]
      BY <1>0, <1>5, <2>1, OneFile
    <2> QED
      BY <1>0, <1>7, <1>10, <2>2, StepPut
  <1>11. CASE target[p] = n /\ Whole(new) = None
    <2>1. FileOf(target'[p], data') = FileOf(target[p], data)
      BY <1>1, <1>2, <1>8, <1>11, NoneAssumption DEF FileOf
    <2> QED
      BY <1>5, <1>7, <2>1, NoFileChanges, StepNone
  <1>12. CASE target[p] # n
    BY <1>5, <1>7, <1>12, NoFileChanges, StepNone
  <1> QED
    BY <1>9, <1>10, <1>11, <1>12

LEMMA DeleteRefines ==
  ASSUME StorageInv, NEW p \in Paths, DeleteChunk(p)
  PROVE  StoreStep
  <1>1. UNCHANGED <<data, task>> /\ target' = [target EXCEPT ![p] = None]
    BY DeleteDoes DEF StorageInv
  <1>2. target'[p] = None /\ \A q \in Paths \ {p} : target'[q] = target[q]
    BY <1>1 DEF StorageInv, LocalsOK, TypeOK
  <1>3. FileView' = [FileView EXCEPT ![p] = None]
    BY <1>1, <1>2, OneFile DEF FileOf
  <1> QED
    BY <1>1, <1>3, NoReadChanges, StepDelete

LEMMA RestartRefines ==
  ASSUME StorageInv, Restart
  PROVE  StoreStep
  <1>1. UNCHANGED <<target, data>> /\ \A t \in Tasks : task'[t] = Idle
    BY RestartDoes DEF StorageInv
  <1>2. \A t \in Tasks : ReadOf(task'[t], data') = NoRead
    BY <1>1, IdleType, ReadOfIs
  <1>3. ReadView' = [t \in Tasks |-> NoRead]
    BY <1>2, Views
  <1>4. UNCHANGED FileView
    BY <1>1, NoFileChanges
  <1> QED
    BY <1>3, <1>4 DEF StoreStep, Store!Next, Store!Restart, Store!Idle, NoRead

LEMMA InitRefines == Init => Store!Init
  <1> SUFFICES ASSUME Init PROVE Store!Init
    OBVIOUS
  <1>1. /\ \A p \in Paths : FileOf(target[p], data) = None
        /\ \A t \in Tasks : ReadOf(task[t], data) = NoRead
    BY IdleType, ReadOfIs DEF Init, FileOf
  <1>2. FileView = [p \in Paths |-> None] /\ ReadView = [t \in Tasks |-> NoRead]
    BY <1>1, Views
  <1> QED
    BY <1>2 DEF Store!Init, Store!Idle, NoRead

LEMMA NextRefines ==
  ASSUME ~Overlap, StorageInv, StorageInv', [Next]_vars
  PROVE  StoreStep
  <1>0. LocalsOK
    BY DEF StorageInv
  <1>1. ASSUME NEW t \in Tasks, Create(t) \/ WriteBlock(t) \/ Rename(t)
        PROVE  StoreStep
    BY <1>1, WritingRefines, RenameRefines
  <1>2. ASSUME NEW t \in Tasks, ReadBlock(t)
        PROVE  StoreStep
    <2>1. CASE Len(task[t].out) < Len(data[task[t].fd])
      BY <1>2, <2>1, ReadBlockRefines
    <2>2. CASE ~(Len(task[t].out) < Len(data[task[t].fd]))
      <3>1. task[t].pc = "read" /\ Ends(t)
        BY <1>0, <1>2, <2>2, ReadBlockEnds DEF ReadBlock, At
      <3>2. Len(task[t].out) \in Nat /\ Len(data[task[t].fd]) \in Nat
        BY <1>0, <3>1, TaskType DEF TaskOK, Opened, LocalsOK, TypeOK
      <3>3. task'[t] = Rest(task[t].path, "error")
        BY <1>0, <1>2, <2>2, <3>2 DEF ReadBlock, Becomes, LocalsOK, TypeOK
      <3> QED
        BY <1>0, <3>1, <3>3, EndsRefines DEF Rest
    <2> QED
      BY <2>1, <2>2
  <1>3. ASSUME NEW t \in Tasks, CopyBlock(t)
        PROVE  StoreStep
    <2>1. CASE Len(task[t].out) < Len(data[task[t].src])
      BY <1>3, <2>1, CopyBlockRefines
    <2>2. CASE ~(Len(task[t].out) < Len(data[task[t].src]))
      <3>1. task[t].pc = "copy" /\ Ends(t)
        BY <1>0, <1>3, <2>2, CopyBlockEnds DEF CopyBlock, At
      <3> QED
        BY <1>0, <3>1, EndsRefines
    <2> QED
      BY <2>1, <2>2
  <1>4. ASSUME NEW t \in Tasks, Abort(t)
        PROVE  StoreStep
    <2>1. task[t].pc \notin {"got", "error"} /\ task'[t] = Rest(task[t].path, "error")
      BY <1>0, <1>4 DEF Abort, Busy, Writing, Becomes, LocalsOK, TypeOK
    <2> QED
      BY <1>0, <1>4, <2>1, AbortEnds, EndsRefines DEF Rest
  <1>5. ASSUME NEW t \in Tasks, Forget(t)
        PROVE  StoreStep
    <2>1. task[t].pc # "read" /\ task'[t] = Idle
      BY <1>0, <1>5 DEF Forget, Becomes, LocalsOK, TypeOK
    <2> QED
      BY <1>0, <1>5, <2>1, AbortEnds, EndsRefines, IdleType
  <1>6. ASSUME NEW t \in Tasks, NEW p \in Paths, Open(t, p)
        PROVE  StoreStep
    <2>1. CASE target[p] # None
      BY <1>0, <1>6, <2>1, OpenRefines
    <2>2. CASE target[p] = None
      <3>1. task[t].pc = "idle" /\ task'[t] = Rest(p, "error")
        BY <1>0, <1>6, <2>2 DEF Open, At, Becomes, LocalsOK, TypeOK
      <3> QED
        BY <1>0, <1>6, <2>2, <3>1, OpenEnds, EndsRefines DEF Rest
    <2> QED
      BY <2>1, <2>2
  <1>7. ASSUME NEW t \in Tasks, NEW p \in Paths, NEW d \in Data, WriteChunk(t, p, d)
        PROVE  StoreStep
    BY <1>7, WritingRefines
  <1>8. ASSUME NEW t \in Tasks, NEW p \in Paths, NEW q \in Paths, CopyChunk(t, p, q)
        PROVE  StoreStep
    BY <1>8, CopyChunkRefines
  <1>9. ASSUME NEW p \in Paths, DeleteChunk(p)
        PROVE  StoreStep
    BY <1>9, DeleteRefines
  <1>10. CASE Restart
    BY <1>10, RestartRefines
  <1>11. CASE UNCHANGED vars
    <2>1. UNCHANGED <<target, data, task>>
      BY <1>11 DEF vars
    <2> QED
      BY <2>1, NoFileChanges, NoReadChanges, StepNone
  <1> QED
    BY <1>1, <1>2, <1>3, <1>4, <1>5, <1>6, <1>7, <1>8, <1>9, <1>10, <1>11 DEF Next

(* storage.rs implements the atomic store: as long as requests on one      *)
(* chunk take turns, every system call of every task, every failure, every *)
(* dropped future and every restart is, to those who read chunks, a whole  *)
(* write, a deletion, a step of a read, or nothing.                        *)
THEOREM StorageRefinement ==
  ASSUME ~Overlap
  PROVE  Spec => AtomicStorage
  <1>1. StorageInv /\ StorageInv' /\ [Next]_vars => [Store!Next]_(Store!vars)
    BY NextRefines DEF StoreStep
  <1> QED
    BY <1>1, InitRefines, StorageInvariant, PTL DEF Spec, AtomicStorage, Store!Spec

=============================================================================
