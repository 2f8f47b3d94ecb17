------------------------------ MODULE RoundTrip -----------------------------
(***************************************************************************)
(* The bytes of one object on their way through the proxy: a PUT body that *)
(* comes in pieces is sent through a bounded channel to the upload task    *)
(* and cut into chunk files (write_and_cache_object), and a GET puts its   *)
(* range together from chunk files and upstream ranges (read_range).       *)
(* Requests on the object take turns, and wait for the upload of the one   *)
(* before; the upload task and the eviction worker run beside them, the    *)
(* worker along a list that it has made earlier.  How the coordinator's    *)
(* other steps interleave, uploads that land late, and a crash between the *)
(* rows and the metadata of a PUT are the matter of CacheCoordinator: here *)
(* a metadata refresh, a drop and the registration of all rows are one     *)
(* step each.                                                              *)
(*                                                                         *)
(* A body of n bytes is the sequence of its bytes <<n, 0>>..<<n, n-1>>, so *)
(* that bytes of different bodies differ; its ETag is n.                   *)
(***************************************************************************)
EXTENDS ByteRanges, Sequences

CONSTANTS
  BodySizes,   \* the lengths of bodies
  ChunkSizes,  \* the chunk sizes the operator may configure
  Resize,      \* whether a restart may come with another chunk size
  Declared,    \* whether a PUT states its length: {TRUE}, or {TRUE, FALSE}
  MaxPiece,    \* bound on the bytes of one piece of a body
  Capacity,    \* of the channel (16 in the code)
  MaxNumber    \* bound on the numbers of a Range header, below U64

ASSUME SizesAssumption == /\ BodySizes \subseteq Nat
                          /\ ChunkSizes \subseteq Nat \ {0}
                          /\ Declared \subseteq BOOLEAN /\ Resize \in BOOLEAN
                          /\ Capacity \in Nat \ {0} /\ MaxPiece \in Nat \ {0}
                          /\ MaxNumber \in Nat /\ MaxNumber < U64
(* Bodies are bounded, and without a declared length the upstream gets an  *)
(* empty one.                                                              *)
ASSUME BodiesAssumption == /\ \E n \in BodySizes : \A m \in BodySizes : m <= n
                           /\ FALSE \in Declared => 0 \in BodySizes
ASSUME NoMetaAssumption == None \notin [length : BodySizes, etag : BodySizes]

VARIABLES
  csize,    \* chunk_size
  upstream, \* the length (and ETag) of the upstream object, or None
  meta,     \* the recorded [length, etag], or None
  rows,     \* the chunk indices with a row
  files,    \* files[i]: the bytes of chunk file i, or None
  op,       \* the locals of the request
  chan,     \* the mpsc channel: the lengths of the pieces in it
  upl,      \* the upload task
  evict,    \* the worker: the chunks left on its list, and the one it is at
  taken     \* history: the chunks it has deleted since the PUT began

worker == <<evict, taken>>
vars == <<csize, upstream, meta, rows, files, op, chan, upl, worker>>
cacheVars == <<meta, rows, files>>

MaxBody == CHOOSE n \in BodySizes : \A m \in BodySizes : m <= n
Indices == 0..MaxBody

Body(n) == [j \in 1..n |-> <<n, j - 1>>]
Slice(n, start, end) == SubSeq(Body(n), start + 1, end)

Headers == {NoRange} \cup {Suffix(n) : n \in 0..MaxNumber}
             \cup {From(n) : n \in 0..MaxNumber}
             \cup {Span(s, e) : s \in 0..MaxNumber, e \in 0..MaxNumber}

PutLabels == {"recv", "send", "drain", "await", "register", "cleanup"}
GetLabels == {"open", "stream"}
Ends == {"ok", "nokey", "error"}

(* The fields a request does not use are those of Rest.                    *)
Rest(label) == [pc |-> label, put |-> FALSE, n |-> 0, decl |-> 0, got |-> 0,
                piece |-> 0, buf |-> <<>>, idx |-> 0, range |-> NoRange,
                start |-> 0, end |-> 0, size |-> 0, body |-> <<>>]

At(label) == op.pc = label
Idle == At("idle")
Goto(label) == op' = [op EXCEPT !.pc = label]

NoUpload == [st |-> "none", got |-> 0, n |-> 0, decl |-> 0]
NoPass == [todo |-> {}, cur |-> {}]

Init ==
  /\ csize \in ChunkSizes
  /\ upstream \in BodySizes \cup {None}
  /\ meta = None
  /\ rows = {}
  /\ files = [i \in Indices |-> None]
  /\ op = Rest("idle")
  /\ chan = <<>>
  /\ upl = NoUpload
  /\ evict = NoPass
  /\ taken = {}

-----------------------------------------------------------------------------
(* drop_cache_for_object: as many chunks as the recorded length has at the *)
(* present chunk size.                                                     *)
Dropped == IF meta = None THEN {} ELSE 0..(ChunkCount(meta.length, csize) - 1)

DropCache ==
  /\ rows' = rows \ Dropped
  /\ files' = [i \in Indices |-> IF i \in Dropped THEN None ELSE files[i]]

(* get_object_metadata of an object that the upstream has.                 *)
Refresh ==
  LET new == [length |-> upstream, etag |-> upstream] IN
  /\ meta' = new
  /\ IF meta \notin {None, new} THEN DropCache ELSE UNCHANGED <<rows, files>>

-----------------------------------------------------------------------------
(* PUT.  Without Content-Length the declared length is 0.                  *)

Put(n, d) ==
  /\ Idle
  /\ upl.st # "run"
  /\ op' = [Rest("recv") EXCEPT !.put = TRUE, !.n = n, !.decl = IF d THEN n ELSE 0]
  /\ meta' = None
  /\ DropCache
  /\ chan' = <<>>
  /\ upl' = [st |-> "run", got |-> 0, n |-> n, decl |-> op'.decl]
  /\ taken' = {}
  /\ UNCHANGED <<csize, upstream, evict>>

(* body_stream.next(): a piece, the end of the body, or an error.          *)
Receive(k) ==
  /\ At("recv")
  /\ op.got + k <= op.n
  /\ op' = [op EXCEPT !.pc = "send", !.piece = k, !.got = @ + k]
  /\ UNCHANGED <<csize, upstream, cacheVars, chan, upl, worker>>

ReceiveError ==
  /\ At("recv")
  /\ op.got < op.n
  /\ Goto("cleanup")
  /\ UNCHANGED <<csize, upstream, cacheVars, chan, upl, worker>>

(* Mutant: an unbounded channel.                                           *)
SendUnbounded ==
  /\ At("send")
  /\ \/ /\ upl.st = "run"
        /\ chan' = Append(chan, op.piece)
        /\ op' = [op EXCEPT !.pc = "drain", !.piece = 0,
                            !.buf = @ \o Slice(op.n, op.got - op.piece, op.got)]
     \/ /\ upl.st # "run"
        /\ Goto("cleanup")
        /\ UNCHANGED chan
  /\ UNCHANGED <<csize, upstream, cacheVars, upl, worker>>

(* Mutant: a send to a closed channel waits.                               *)
SendWaits ==
  /\ At("send")
  /\ upl.st = "run" /\ Len(chan) < Capacity
  /\ chan' = Append(chan, op.piece)
  /\ op' = [op EXCEPT !.pc = "drain", !.piece = 0,
                      !.buf = @ \o Slice(op.n, op.got - op.piece, op.got)]
  /\ UNCHANGED <<csize, upstream, cacheVars, upl, worker>>

(* tx.send: waits for room, and fails once the upload task has gone.       *)
Send ==
  /\ At("send")
  /\ \/ /\ upl.st = "run" /\ Len(chan) < Capacity
        /\ chan' = Append(chan, op.piece)
        /\ op' = [op EXCEPT !.pc = "drain", !.piece = 0,
                            !.buf = @ \o Slice(op.n, op.got - op.piece, op.got)]
     \/ /\ upl.st # "run"
        /\ Goto("cleanup")
        /\ UNCHANGED chan
  /\ UNCHANGED <<csize, upstream, cacheVars, upl, worker>>

(* Mutant: the buffer is cleared, not drained.                             *)
WriteChunkClear(k, label) ==
  \/ /\ files' = [files EXCEPT ![op.idx] = SubSeq(op.buf, 1, k)]
     /\ op' = [op EXCEPT !.pc = label, !.idx = @ + 1, !.buf = <<>>]
  \/ Goto("cleanup") /\ UNCHANGED files

(* storage.write_chunk of the first k bytes of the buffer.                 *)
WriteChunk(k, label) ==
  \/ /\ files' = [files EXCEPT ![op.idx] = SubSeq(op.buf, 1, k)]
     /\ op' = [op EXCEPT !.pc = label, !.idx = @ + 1,
                         !.buf = SubSeq(@, k + 1, Len(@))]
  \/ Goto("cleanup") /\ UNCHANGED files

(* while current_chunk_buffer.len() >= chunk_size.                         *)
Drain ==
  /\ At("drain")
  /\ \/ Len(op.buf) >= csize /\ WriteChunk(csize, "drain")
     \/ Len(op.buf) < csize /\ Goto("recv") /\ UNCHANGED files
  /\ UNCHANGED <<csize, upstream, meta, rows, chan, upl, worker>>

(* Mutant: what is left in the buffer is not written.                      *)
FinishFull ==
  /\ At("recv")
  /\ op.got = op.n
  /\ Goto("await")
  /\ UNCHANGED <<csize, upstream, cacheVars, chan, upl, worker>>

(* The body has ended: the rest is a last, shorter chunk; drop(tx).        *)
Finish ==
  /\ At("recv")
  /\ op.got = op.n
  /\ \/ op.buf # <<>> /\ WriteChunk(Len(op.buf), "await")
     \/ op.buf = <<>> /\ Goto("await") /\ UNCHANGED files
  /\ UNCHANGED <<csize, upstream, meta, rows, chan, upl, worker>>

(* upload_handle.await, then rows for chunks_written.                      *)
Await ==
  /\ At("await")
  /\ \/ /\ upl.st = "ok"
        /\ rows' = rows \cup 0..(op.idx - 1)
        /\ Goto("register")
     \/ /\ upl.st = "fail"
        /\ op' = Rest("error")
        /\ UNCHANGED rows
  /\ UNCHANGED <<csize, upstream, meta, files, chan, upl, worker>>

(* put_object, with the declared length; the ETag is that of what the      *)
(* upstream has stored.                                                    *)
Register ==
  /\ At("register")
  /\ meta' = [length |-> op.decl, etag |-> op.decl]
  /\ op' = [Rest("ok") EXCEPT !.put = TRUE, !.n = op.n]
  /\ UNCHANGED <<csize, upstream, rows, files, chan, upl, worker>>

(* delete_chunk for 0..=current_chunk_idx; no rows have been written.      *)
Cleanup ==
  /\ At("cleanup")
  /\ files' = [i \in Indices |-> IF i <= op.idx THEN None ELSE files[i]]
  /\ op' = Rest("error")
  /\ UNCHANGED <<csize, upstream, meta, rows, chan, upl, worker>>

(* The upload task (put_object_stream, and the HTTP client beneath it):    *)
(* the client sends as many bytes as were declared.                        *)

Pull ==
  /\ upl.st = "run"
  /\ upl.got < upl.decl
  /\ chan # <<>>
  /\ chan' = Tail(chan)
  /\ upl' = [upl EXCEPT !.got = @ + Head(chan)]
  /\ UNCHANGED <<csize, upstream, cacheVars, op, worker>>

(* All that was declared is sent, and the upstream stores it.              *)
UploadDone ==
  /\ upl.st = "run"
  /\ upl.got >= upl.decl
  /\ upstream' = upl.decl
  /\ upl' = [upl EXCEPT !.st = "ok"]
  /\ chan' = <<>>
  /\ UNCHANGED <<csize, cacheVars, op, worker>>

(* The stream has ended too early, or the upstream refuses at any time.    *)
UploadFails ==
  /\ upl.st = "run"
  /\ upl' = [upl EXCEPT !.st = "fail"]
  /\ chan' = <<>>
  /\ UNCHANGED <<csize, upstream, cacheVars, op, worker>>

-----------------------------------------------------------------------------
(* GET: the metadata and parse_range; the metadata again, and the clip of  *)
(* the range; then the chunks in turn.                                     *)

Get(h) ==
  /\ Idle
  /\ upl.st # "run"
  /\ \/ /\ upstream = None
        /\ op' = Rest("nokey")
        /\ UNCHANGED cacheVars
     \/ /\ upstream # None
        /\ Refresh
        /\ op' = [Rest("open") EXCEPT !.range = h, !.size = upstream,
                                      !.start = Wanted(h, upstream).start,
                                      !.end = Wanted(h, upstream).end]
  /\ UNCHANGED <<csize, upstream, chan, upl, worker>>

Open ==
  LET end == Least(op.end, upstream) IN
  /\ At("open")
  /\ Refresh
  /\ op' = IF op.start >= end THEN [op EXCEPT !.pc = "ok"]
             ELSE [op EXCEPT !.pc = "stream", !.end = end,
                             !.idx = FirstChunk(op.start, csize)]
  /\ UNCHANGED <<csize, upstream, chan, upl, worker>>

(* The next chunk: its file, which read_exact must find long enough, or    *)
(* the same bytes of the upstream object.                                  *)
ReadPiece ==
  LET p == Piece(op.idx, op.start, op.end, op.size, csize)
      from == op.idx * csize + p.offset
      hit == op.idx \in rows
      broken == files[op.idx] = None \/ Len(files[op.idx]) < p.offset + p.length
      bytes == IF hit THEN SubSeq(files[op.idx], p.offset + 1, p.offset + p.length)
                      ELSE Slice(upstream, from, from + p.length)
  IN
  /\ At("stream")
  /\ IF hit /\ broken
       THEN op' = Rest("error")
       ELSE op' = [op EXCEPT !.pc = IF op.idx = LastChunk(op.end, csize) THEN "ok"
                                                                        ELSE "stream",
                             !.idx = @ + 1,
                             !.body = @ \o bytes]
  /\ UNCHANGED <<csize, upstream, cacheVars, chan, upl, worker>>

(* The response has been taken.                                            *)
Reply ==
  /\ op.pc \in Ends
  /\ op' = Rest("idle")
  /\ taken' = {}
  /\ UNCHANGED <<csize, upstream, cacheVars, chan, upl, evict>>

-----------------------------------------------------------------------------
(* The eviction worker: check_and_evict lists the rows, and takes chunks   *)
(* of that list, in the order of their last access, until it has freed     *)
(* enough; for each, file and row go as they are by then, and a failure    *)
(* of either is only logged.                                               *)

Take(S) == taken' = IF op.put THEN taken \cup S ELSE {}

(* The pass before has ended, at the end of its list or by its break.      *)
EvictList ==
  /\ evict.cur = {}
  /\ evict' = [evict EXCEPT !.todo = rows]
  /\ UNCHANGED <<csize, upstream, cacheVars, op, chan, upl, taken>>

EvictFile(i) ==
  /\ evict.cur = {}
  /\ i \in evict.todo
  /\ files' = [files EXCEPT ![i] = None] \/ UNCHANGED files
  /\ evict' = [todo |-> evict.todo \ {i}, cur |-> {i}]
  /\ Take({i})
  /\ UNCHANGED <<csize, upstream, meta, rows, op, chan, upl>>

EvictRow ==
  /\ evict.cur # {}
  /\ rows' = rows \ evict.cur \/ UNCHANGED rows
  /\ evict' = [evict EXCEPT !.cur = {}]
  /\ Take(evict.cur)
  /\ UNCHANGED <<csize, upstream, meta, files, op, chan, upl>>

-----------------------------------------------------------------------------
(* The environment.                                                        *)

(* Another client writes to the upstream, between requests.                *)
DirectWrite(n) ==
  /\ Idle /\ upl.st # "run"
  /\ upstream' = n
  /\ UNCHANGED <<csize, cacheVars, op, chan, upl, worker>>

(* The client of a PUT disconnects: tx and the handle are dropped.  The    *)
(* registration has no await.                                              *)
Disconnect ==
  /\ op.pc \in PutLabels \ {"register"}
  /\ op' = Rest("error")
  /\ UNCHANGED <<csize, upstream, cacheVars, chan, upl, worker>>

Restart(c) ==
  /\ Resize \/ c = csize
  /\ ~At("register")
  /\ csize' = c
  /\ op' = Rest("idle")
  /\ chan' = <<>>
  /\ upl' = NoUpload
  /\ evict' = NoPass
  /\ taken' = {}
  /\ UNCHANGED <<upstream, cacheVars>>

Handle ==
  \/ (\E k \in 1..MaxPiece : Receive(k)) \/ Send \/ Drain \/ Finish \/ Await
  \/ Register \/ Cleanup
  \/ Open \/ ReadPiece \/ Reply

UploadTask == Pull \/ UploadDone \/ UploadFails

Evict == EvictList \/ (\E i \in Indices : EvictFile(i)) \/ EvictRow

Next ==
  \/ \E n \in BodySizes : (\E d \in Declared : Put(n, d)) \/ DirectWrite(n)
  \/ \E h \in Headers : Get(h)
  \/ Handle \/ ReceiveError \/ UploadTask \/ Evict \/ Disconnect
  \/ \E c \in ChunkSizes : Restart(c)

Spec == Init /\ [][Next]_vars

(* The client goes on sending, the runtime polls the handler, and the      *)
(* upload goes on or fails.                                                *)
FairSpec == Spec /\ WF_vars(Handle) /\ WF_vars(UploadTask)

-----------------------------------------------------------------------------
TypeOK ==
  /\ csize \in ChunkSizes
  /\ upstream \in BodySizes \cup {None}
  /\ meta # None => meta.length \in BodySizes /\ meta.etag \in BodySizes
  /\ rows \subseteq Indices
  /\ op.pc \in PutLabels \cup GetLabels \cup Ends \cup {"idle"}
  /\ op.idx \in 0..(MaxBody + 1) /\ op.got \in 0..op.n
  /\ Len(chan) <= Capacity
  /\ upl.st \in {"none", "run", "ok", "fail"}
  /\ evict.todo \subseteq Indices /\ evict.cur \subseteq Indices /\ taken \subseteq Indices

Sum(s) == LET sum[i \in 0..Len(s)] == IF i = 0 THEN 0 ELSE sum[i - 1] + s[i]
          IN  sum[Len(s)]

(* The tee: whenever a PUT waits for the next piece, the chunk files and   *)
(* the buffer hold, in order, exactly the bytes that have been handed to   *)
(* the upload task, save the files that the worker, at a list from before  *)
(* the PUT, has deleted under it; and while that task runs, what it has    *)
(* taken and what is in the channel are as many.                           *)
TeeAgrees ==
  At("recv") =>
    /\ op.idx * csize + Len(op.buf) = op.got
    /\ op.buf = Slice(op.n, op.idx * csize, op.got)
    /\ \A i \in 0..(op.idx - 1) :
         \/ files[i] = Slice(op.n, i * csize, (i + 1) * csize)
         \/ files[i] = None /\ i \in taken
    /\ upl.st = "run" => upl.got + Sum(chan) = op.got

(* A PUT with a Content-Length that is answered 200 has its whole body in  *)
(* the upstream, and recorded; each chunk of it is cached whole, or the    *)
(* worker has taken it meanwhile, whose file then has gone too or is that  *)
(* of the body; and there are no other rows: although pieces and chunks do *)
(* not line up, disk and upstream fail at any point, clients break off and *)
(* the worker deletes by the list of another time.                         *)
PutIsWhole ==
  [][At("register") /\ op.decl = op.n =>
       /\ upstream = op.n
       /\ op'.pc = "ok" => meta' = [length |-> upstream, etag |-> upstream]
       /\ rows' \subseteq 0..(ChunkCount(op.n, csize) - 1)
       /\ \A i \in 0..(ChunkCount(op.n, csize) - 1) :
            LET chunk == Slice(op.n, i * csize, Least((i + 1) * csize, op.n)) IN
            \/ i \in rows' /\ files'[i] = chunk
            \/ i \in taken' /\ files'[i] \in {None, chunk}]_vars

(* The bytes of the upstream object at the positions the header asks for.  *)
Reference(h) ==
  LET asked == Asked(h, upstream) IN
  IF asked = {} THEN <<>>
    ELSE Slice(upstream, CHOOSE j \in asked : \A k \in asked : j <= k,
                         1 + CHOOSE j \in asked : \A k \in asked : k <= j)

(* A GET that succeeds returns the bytes its Range header asks for, as     *)
(* many as its Content-Length says, from whatever mix of chunk files and   *)
(* upstream ranges.  A range without any byte gets an empty body or, if    *)
(* the header is to be ignored, the whole object.                          *)
RangeIsServed ==
  At("ok") /\ ~op.put /\ ~Overflows(op.range) =>
    /\ Len(op.body) = Greatest(op.end - op.start, 0)
    /\ op.body \in IF Asked(op.range, upstream) # {} THEN {Reference(op.range)}
                                                     ELSE {<<>>, Body(upstream)}

(* Every request ends: a PUT is not left waiting for room in the channel   *)
(* of an upload that has failed, nor for an upload that waits for bytes.   *)
RequestsEnd == ~Idle ~> Idle
=============================================================================
