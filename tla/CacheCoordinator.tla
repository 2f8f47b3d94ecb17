-------------------------- MODULE CacheCoordinator --------------------------
(***************************************************************************)
(* The caching core of s3xc: the GET, HEAD, PUT, DELETE and CopyObject     *)
(* handlers (server/handlers.rs), the CacheCoordinator they call           *)
(* (cache/mod.rs), the two redb tables (cache/metadata.rs), the chunk      *)
(* files (cache/storage.rs), the eviction worker (cache/policy.rs) and the *)
(* upstream S3 store they are all in front of (proxy/mod.rs).              *)
(*                                                                         *)
(* Grain of atomicity: one redb transaction, one file operation or one     *)
(* upstream call is one step.  The Tokio runtime is multi-threaded and no  *)
(* lock spans two of these, so every other task may run in between.        *)
(*                                                                         *)
(* Data abstraction: an object's bytes, ETag and length are a version v,   *)
(* NumChunks[v] chunks long (S3 ETags are content hashes, and a copy has   *)
(* the ETag of its source).  A file is named by <<key, index>> (its        *)
(* SHA-256 path) and holds a version: "chunk i of version v", or Partial,  *)
(* less than a chunk, which read_exact takes for an error.                 *)
(***************************************************************************)
EXTENDS Integers

CONSTANTS
  Keys,       \* the "bucket/key" strings that name objects
  Versions,   \* object contents, with their ETag and their length
  None,       \* no object, no metadata row, no file
  Partial,    \* what a copy leaves in a file that it does not complete
  MaxChunks,  \* bound on the number of chunks of an object
  NumChunks,  \* NumChunks[v]: the number of chunks of version v
  Reqs,       \* request tasks: at most this many are in flight
  Ops,        \* the operations the clients of this instance use
  Env         \* what the environment of this instance does, see EnvKinds

(* "overlap"   requests on one key may be in flight together;              *)
(* "reads"     GETs and HEADs on one key may be in flight together;        *)
(* "direct"    other clients write to the upstream without the proxy;      *)
(* "upfail"    upstream calls fail, before or after taking effect;         *)
(* "diskfail"  chunk writes and deletes fail;                              *)
(* "cancel"    clients disconnect: their handler is dropped at an await;   *)
(* "evict"     the cache is over its limit, so that the worker evicts;     *)
(* "crash"     the process stops and restarts.                             *)
EnvKinds == {"overlap", "reads", "direct", "upfail", "diskfail", "cancel",
             "evict", "crash"}

OpKinds == {"GET", "HEAD", "PUT", "DELETE", "COPY"}

ASSUME KeysAssumption == Keys # {}
ASSUME NoneAssumption == None \notin Versions /\ Partial \notin Versions \cup {None}
ASSUME SizeAssumption == /\ MaxChunks \in Nat
                         /\ NumChunks \in [Versions -> 0..MaxChunks]
ASSUME InstanceAssumption == /\ Ops \subseteq OpKinds
                             /\ Env \subseteq EnvKinds

ChunkIds == 0..(MaxChunks - 1)
Maybe(S) == S \cup {None}
Contents == Maybe(Versions) \cup {Partial}

VARIABLES
  upstream,  \* upstream[k]: the version the upstream store holds
  objects,   \* OBJECTS_TABLE: the version whose ObjectMetadata is recorded
  chunks,    \* CHUNKS_TABLE: the indices recorded with status Complete
  files,     \* files[k][i]: the version whose chunk i is in the file, or Partial
  req,       \* the locals of each request task
  upload,    \* the upload task a PUT has spawned
  evict,     \* the eviction worker's list and the chunk it is deleting
  seen       \* history: what upstream[key] was since the request began

vars == <<upstream, objects, chunks, files, req, upload, evict, seen>>
cacheVars == <<objects, chunks, files>>

(* Where a request task is: the label names the step it takes next; "ok",  *)
(* "nokey" (404) and "error" (500, a broken body or no answer) are ends.   *)
Ends == {"idle", "ok", "nokey", "error"}
MetaLabels == {"head", "compare", "putmeta"}
DropLabels == {"drop", "dropfile", "droprow"}
ReadLabels == {"status", "stream", "touch", "touchput", "read", "cold"}
WriteLabels == {"body", "write", "await", "cleanup"}
CopyLabels == {"copyup", "copyread", "copyput", "copychunk", "copyfile", "copyrow"}
Labels == Ends \cup MetaLabels \cup DropLabels \cup ReadLabels
               \cup WriteLabels \cup CopyLabels \cup {"register", "delete"}

Request == [pc : Labels,
            op : OpKinds,
            key : Keys,
            src : Keys,               \* the source of a COPY, else the key
            ver : Maybe(Versions),    \* the version read, sent or copied
            pass : {1, 2},            \* GET asks for the metadata twice
            lo : 0..MaxChunks,        \* the chunks a GET wants: lo..hi-1
            hi : 0..MaxChunks,
            idx : 0..MaxChunks,       \* loop index and bound
            cnt : 0..MaxChunks,
            cached : {"hot", "cold"},  \* the X-S3XC-CACHED header
            piece : Maybe(Versions)]  \* the last chunk of the body sent

UploadStates == {"none", "sending", "sent", "landed", "failed"}

Slots == Keys \X ChunkIds
ASSUME SlotsAssumption == None \notin Slots

Fresh(o, k, s, v) ==
  [pc |-> "idle", op |-> o, key |-> k, src |-> s, ver |-> v, pass |-> 1,
   lo |-> 0, hi |-> 0, idx |-> 0, cnt |-> 0, cached |-> "cold", piece |-> None]

(* The whole state a restart finds on an empty cache directory.            *)
Init ==
  /\ upstream \in [Keys -> Maybe(Versions)]
  /\ objects = [k \in Keys |-> None]
  /\ chunks = [k \in Keys |-> {}]
  /\ files = [k \in Keys |-> [i \in ChunkIds |-> None]]
  /\ req = [r \in Reqs |-> LET k == CHOOSE x \in Keys : TRUE
                           IN  Fresh("HEAD", k, k, None)]
  /\ upload = [r \in Reqs |-> "none"]
  /\ evict = [todo |-> {}, cur |-> None]
  /\ seen = [r \in Reqs |-> {}]

-----------------------------------------------------------------------------
(* Helpers.                                                                *)

(* The number of chunks of what a key holds: none if it holds nothing.     *)
Length(v) == IF v = None THEN 0 ELSE NumChunks[v]

At(r, label) == req[r].pc = label
Active(r) == req[r].pc \notin Ends
KeysOf(r) == {req[r].key, req[r].src}
Becomes(r, q) == req' = [req EXCEPT ![r] = q]
Goto(r, label) == Becomes(r, [req[r] EXCEPT !.pc = label])

(* A task ends; only what the response is judged by is kept.               *)
Ended(r, end) ==
  [Fresh(req[r].op, req[r].key, req[r].src, req[r].ver) EXCEPT !.pc = end]

Respond(r, end) == Becomes(r, Ended(r, end))

(* The handler that spawned the upload still holds its channel or handle.  *)
Awaited(r) == req[r].pc \in {"body", "write", "await"}

(* tx is dropped with the handler: an upload that has not got every byte   *)
(* is aborted; one that has runs on, detached.                             *)
LetGo(r) ==
  upload' = [upload EXCEPT ![r] = IF @ = "sent" THEN "sent" ELSE "none"]

(* The upstream store now holds v (or nothing) under k.                    *)
SetUpstream(k, v) ==
  /\ upstream' = [upstream EXCEPT ![k] = v]
  /\ seen' = [s \in Reqs |-> IF Active(s) /\ req[s].key = k
                               THEN seen[s] \cup {v} ELSE seen[s]]

(* Storage::delete_chunk; its error is dropped by every caller.            *)
RemoveFile(k, i) ==
  \/ files' = [files EXCEPT ![k][i] = None]
  \/ "diskfail" \in Env /\ UNCHANGED files

(* Two requests that the clients of this instance may have in flight       *)
(* together on one key.                                                    *)
MayOverlap(o, p) ==
  \/ "overlap" \in Env
  \/ "reads" \in Env /\ {o, p} \subseteq {"GET", "HEAD"}

Free(r, o, ks) ==
  /\ ~Active(r)
  /\ upload[r] = "none"
  /\ o \in Ops
  /\ \A s \in Reqs \ {r} :
       Active(s) /\ KeysOf(s) \cap ks # {} => MayOverlap(o, req[s].op)

Begin(r, o, k, s, v, label) ==
  /\ Free(r, o, {k, s})
  /\ Becomes(r, [Fresh(o, k, s, v) EXCEPT !.pc = label])
  /\ seen' = [seen EXCEPT ![r] = {upstream[k]}]
  /\ UNCHANGED <<upstream, cacheVars, upload, evict>>

-----------------------------------------------------------------------------
(* The five handlers are entered.  A PUT gives the length of its body      *)
(* (without Content-Length the code takes 0: RoundTrip has that case).     *)

GetObject(r, k) == Begin(r, "GET", k, k, None, "head")
HeadObject(r, k) == Begin(r, "HEAD", k, k, None, "head")
PutObject(r, k, v) == Begin(r, "PUT", k, k, v, "drop")
DeleteObject(r, k) == Begin(r, "DELETE", k, k, None, "delete")
CopyObject(r, k, s) == Begin(r, "COPY", k, s, None, "copyup")

-----------------------------------------------------------------------------
(* get_object_metadata: one upstream HEAD, a comparison with the recorded  *)
(* metadata, drop_cache_for_object when they differ, and put_object.       *)

UpstreamHead(r) ==
  LET k == req[r].key IN
  /\ At(r, "head")
  /\ \/ /\ upstream[k] # None
        /\ Becomes(r, [req[r] EXCEPT !.pc = "compare", !.ver = upstream[k]])
     \/ /\ upstream[k] = None
        /\ Respond(r, IF req[r].pass = 1 THEN "nokey" ELSE "error")
     \/ /\ "upfail" \in Env
        /\ Respond(r, "error")
  /\ UNCHANGED <<upstream, cacheVars, upload, evict, seen>>

(* Mutant: a changed object is recorded without dropping its old chunks.   *)
CompareNoDrop(r) ==
  /\ At(r, "compare")
  /\ Goto(r, "putmeta")
  /\ UNCHANGED <<upstream, cacheVars, upload, evict, seen>>

(* Mutant: only content_length is compared, not the ETag.                  *)
CompareLength(r) ==
  LET local == objects[req[r].key]
      changed == local # None /\ NumChunks[local] # NumChunks[req[r].ver]
  IN
  /\ At(r, "compare")
  /\ Goto(r, IF changed THEN "drop" ELSE "putmeta")
  /\ UNCHANGED <<upstream, cacheVars, upload, evict, seen>>

Compare(r) ==
  LET local == objects[req[r].key] IN
  /\ At(r, "compare")
  /\ Goto(r, IF local \notin {None, req[r].ver} THEN "drop" ELSE "putmeta")
  /\ UNCHANGED <<upstream, cacheVars, upload, evict, seen>>

(* put_object ends get_object_metadata.  HEAD goes on to its status        *)
(* header, GET to parse_range and to the second call, inside read_range;   *)
(* then read_range clips the range to the length it has now read.          *)
PutMeta(r) ==
  LET k == req[r].key
      n == NumChunks[req[r].ver]
  IN
  /\ At(r, "putmeta")
  /\ objects' = [objects EXCEPT ![k] = req[r].ver]
  /\ \/ /\ req[r].op = "HEAD"
        /\ Goto(r, "status")
     \/ /\ req[r].op = "GET" /\ req[r].pass = 1
        /\ \E lo \in 0..n : \E hi \in lo..n :
             Becomes(r, [req[r] EXCEPT !.pc = "head", !.pass = 2, !.lo = lo,
                                       !.hi = hi])
     \/ /\ req[r].op = "GET" /\ req[r].pass = 2
        /\ Becomes(r, [req[r] EXCEPT !.pc = "status", !.idx = req[r].lo,
                                     !.cnt = IF req[r].hi <= n THEN req[r].hi ELSE n])
  /\ UNCHANGED <<upstream, chunks, files, upload, evict, seen>>

-----------------------------------------------------------------------------
(* drop_cache_for_object: the number of chunks comes from the metadata row *)
(* (read again), then file and row of each chunk go, and the row last.     *)

(* Mutant: num_chunks is content_length / chunk_size, rounded down, so the *)
(* last chunk is left.                                                     *)
DropStartShort(r) ==
  LET local == objects[req[r].key] IN
  /\ At(r, "drop")
  /\ Becomes(r, [req[r] EXCEPT !.pc = "dropfile", !.idx = 0,
                               !.cnt = IF Length(local) = 0 THEN 0 ELSE Length(local) - 1])
  /\ UNCHANGED <<upstream, cacheVars, upload, evict, seen>>

DropStart(r) ==
  LET local == objects[req[r].key] IN
  /\ At(r, "drop")
  /\ Becomes(r, [req[r] EXCEPT !.pc = "dropfile", !.idx = 0,
                               !.cnt = Length(local)])
  /\ UNCHANGED <<upstream, cacheVars, upload, evict, seen>>

(* Mutant: the loop runs over 0..=num_chunks.                              *)
DropFileTooFar(r) ==
  /\ At(r, "dropfile")
  /\ req[r].idx <= req[r].cnt
  /\ RemoveFile(req[r].key, req[r].idx)
  /\ Goto(r, "droprow")
  /\ UNCHANGED <<upstream, objects, chunks, upload, evict, seen>>

DropFile(r) ==
  /\ At(r, "dropfile")
  /\ req[r].idx < req[r].cnt
  /\ RemoveFile(req[r].key, req[r].idx)
  /\ Goto(r, "droprow")
  /\ UNCHANGED <<upstream, objects, chunks, upload, evict, seen>>

(* Mutant: only the files are deleted, the rows stay.                      *)
DropRowSkipped(r) ==
  /\ At(r, "droprow")
  /\ Becomes(r, [req[r] EXCEPT !.pc = "dropfile", !.idx = @ + 1])
  /\ UNCHANGED <<upstream, cacheVars, upload, evict, seen>>

DropRow(r) ==
  LET k == req[r].key IN
  /\ At(r, "droprow")
  /\ chunks' = [chunks EXCEPT ![k] = @ \ {req[r].idx}]
  /\ Becomes(r, [req[r] EXCEPT !.pc = "dropfile", !.idx = @ + 1])
  /\ UNCHANGED <<upstream, objects, files, upload, evict, seen>>

(* delete_object, and back to the caller.  A PUT spawns its upload here.   *)
DropMeta(r) ==
  LET k == req[r].key IN
  /\ At(r, "dropfile")
  /\ req[r].idx = req[r].cnt
  /\ objects' = [objects EXCEPT ![k] = None]
  /\ \/ /\ req[r].op \in {"GET", "HEAD"}
        /\ Goto(r, "putmeta")
        /\ UNCHANGED upload
     \/ /\ req[r].op = "DELETE"
        /\ Respond(r, "ok")
        /\ UNCHANGED upload
     \/ /\ req[r].op = "PUT"
        /\ Becomes(r, [req[r] EXCEPT !.pc = "body", !.idx = 0, !.cnt = 0])
        /\ upload' = [upload EXCEPT ![r] =
                        IF NumChunks[req[r].ver] = 0 THEN "sent" ELSE "sending"]
  /\ UNCHANGED <<upstream, chunks, files, evict, seen>>

-----------------------------------------------------------------------------
(* The status header, then the body of a GET, chunk by chunk as the client *)
(* takes it: each chunk's future runs when the one before it is done.      *)

Status(r) ==
  LET k == req[r].key
      hot == /\ objects[k] # None
             /\ NumChunks[objects[k]] = 0 \/ 0 \in chunks[k]
  IN
  /\ At(r, "status")
  /\ \/ req[r].op = "HEAD" /\ Respond(r, "ok")
     \/ /\ req[r].op = "GET"
        /\ Becomes(r, [req[r] EXCEPT !.pc = "stream",
                                     !.cached = IF hot THEN "hot" ELSE "cold"])
  /\ UNCHANGED <<upstream, cacheVars, upload, evict, seen>>

(* The next chunk's future looks the chunk up; after the last the body is  *)
(* complete.                                                               *)
NextChunk(r) ==
  /\ At(r, "stream")
  /\ \/ /\ req[r].idx < req[r].cnt
        /\ Goto(r, IF req[r].idx \in chunks[req[r].key] THEN "touch" ELSE "cold")
     \/ /\ req[r].idx >= req[r].cnt
        /\ Respond(r, "ok")
  /\ UNCHANGED <<upstream, cacheVars, upload, evict, seen>>

(* A hit: read the row again, write it back with a new access time ...     *)
Touch(r) ==
  /\ At(r, "touch")
  /\ Goto(r, IF req[r].idx \in chunks[req[r].key] THEN "touchput" ELSE "read")
  /\ UNCHANGED <<upstream, cacheVars, upload, evict, seen>>

TouchPut(r) ==
  /\ At(r, "touchput")
  /\ chunks' = [chunks EXCEPT ![req[r].key] = @ \cup {req[r].idx}]
  /\ Goto(r, "read")
  /\ UNCHANGED <<upstream, objects, files, upload, evict, seen>>

(* ... and read the file, which must be there, whole.                      *)
ReadChunk(r) ==
  LET data == files[req[r].key][req[r].idx] IN
  /\ At(r, "read")
  /\ \/ /\ data \notin {None, Partial}
        /\ Becomes(r, [req[r] EXCEPT !.pc = "stream", !.piece = data,
                                     !.idx = @ + 1])
     \/ data \in {None, Partial} /\ Respond(r, "error")
  /\ UNCHANGED <<upstream, cacheVars, upload, evict, seen>>

(* Mutant: what a miss has fetched is cached.                              *)
ColdReadCaches(r) ==
  LET k == req[r].key
      i == req[r].idx
      data == upstream[k]
  IN
  /\ At(r, "cold")
  /\ i < Length(data)
  /\ Becomes(r, [req[r] EXCEPT !.pc = "stream", !.piece = data, !.idx = i + 1])
  /\ files' = [files EXCEPT ![k][i] = data]
  /\ chunks' = [chunks EXCEPT ![k] = @ \cup {i}]
  /\ UNCHANGED <<upstream, objects, upload, evict, seen>>

(* A miss: the byte range comes from the upstream and is not cached.       *)
ColdRead(r) ==
  LET data == upstream[req[r].key]
      found == req[r].idx < Length(data)
  IN
  /\ At(r, "cold")
  /\ \/ /\ found
        /\ Becomes(r, [req[r] EXCEPT !.pc = "stream", !.piece = data,
                                     !.idx = @ + 1])
     \/ ~found /\ Respond(r, "error")
     \/ "upfail" \in Env /\ Respond(r, "error")
  /\ UNCHANGED <<upstream, cacheVars, upload, evict, seen>>

-----------------------------------------------------------------------------
(* write_and_cache_object: the body goes to the upload channel and to the  *)
(* chunk files; rows and metadata are recorded when the upload succeeded.  *)

(* The bytes of chunk idx are at hand: they arrive and are piped to the    *)
(* upload task, or came with an earlier piece of the body, up to all of    *)
(* it.  Or the body breaks, or the upload has failed (channel closed).     *)
SendChunk(r) ==
  LET n == NumChunks[req[r].ver] IN
  /\ At(r, "body")
  /\ req[r].idx < n
  /\ \/ /\ Goto(r, "write")
        /\ \/ /\ upload[r] = "sending"
              /\ upload' = [upload EXCEPT ![r] = "sent"]
           \/ /\ upload[r] = "sending" => req[r].idx + 1 < n
              /\ UNCHANGED upload
     \/ /\ upload[r] = "failed" \/ (upload[r] = "sending" /\ "cancel" \in Env)
        /\ Becomes(r, [req[r] EXCEPT !.pc = "cleanup", !.cnt = req[r].idx + 1,
                                     !.idx = 0])
        /\ LetGo(r)
  /\ UNCHANGED <<upstream, cacheVars, evict, seen>>

(* Mutant: the result of write_chunk is ignored.                           *)
WriteChunkUnchecked(r) ==
  LET k == req[r].key
      i == req[r].idx
  IN
  /\ At(r, "write")
  /\ \/ files' = [files EXCEPT ![k][i] = req[r].ver]
     \/ "diskfail" \in Env /\ UNCHANGED files
  /\ Becomes(r, [req[r] EXCEPT !.pc = "body", !.idx = i + 1])
  /\ UNCHANGED <<upstream, objects, chunks, upload, evict, seen>>

WriteChunk(r) ==
  LET k == req[r].key
      i == req[r].idx
  IN
  /\ At(r, "write")
  /\ \/ /\ files' = [files EXCEPT ![k][i] = req[r].ver]
        /\ Becomes(r, [req[r] EXCEPT !.pc = "body", !.idx = i + 1])
        /\ UNCHANGED upload
     \/ /\ "diskfail" \in Env
        /\ Becomes(r, [req[r] EXCEPT !.pc = "cleanup", !.cnt = i + 1,
                                     !.idx = 0])
        /\ LetGo(r)
        /\ UNCHANGED files
  /\ UNCHANGED <<upstream, objects, chunks, evict, seen>>

(* The body is complete: drop(tx), then wait for the upload task.          *)
BodyEnd(r) ==
  /\ At(r, "body")
  /\ req[r].idx = NumChunks[req[r].ver]
  /\ Goto(r, "await")
  /\ UNCHANGED <<upstream, cacheVars, upload, evict, seen>>

(* Mutant: the result of the upload task is ignored.                       *)
AwaitUploadUnchecked(r) ==
  /\ At(r, "await")
  /\ upload[r] \in {"landed", "failed"}
  /\ Becomes(r, [req[r] EXCEPT !.pc = "register", !.idx = 0])
  /\ upload' = [upload EXCEPT ![r] = "none"]
  /\ UNCHANGED <<upstream, cacheVars, evict, seen>>

(* Mutant: a failed upload is never reported to the handler.               *)
AwaitUploadForever(r) ==
  /\ At(r, "await")
  /\ upload[r] = "landed"
  /\ Becomes(r, [req[r] EXCEPT !.pc = "register", !.idx = 0])
  /\ upload' = [upload EXCEPT ![r] = "none"]
  /\ UNCHANGED <<upstream, cacheVars, evict, seen>>

AwaitUpload(r) ==
  /\ At(r, "await")
  /\ \/ /\ upload[r] = "landed"
        /\ Becomes(r, [req[r] EXCEPT !.pc = "register", !.idx = 0])
     \/ /\ upload[r] = "failed"
        /\ Respond(r, "error")
  /\ upload' = [upload EXCEPT ![r] = "none"]
  /\ UNCHANGED <<upstream, cacheVars, evict, seen>>

(* Mutant: the trailing, partial chunk is not in chunks_written.           *)
RegisterFull(r) ==
  LET k == req[r].key
      i == req[r].idx
      last == NumChunks[req[r].ver] - 1
  IN
  /\ At(r, "register")
  /\ \/ /\ i < last
        /\ chunks' = [chunks EXCEPT ![k] = @ \cup {i}]
        /\ Becomes(r, [req[r] EXCEPT !.idx = i + 1])
        /\ UNCHANGED objects
     \/ /\ i >= last
        /\ objects' = [objects EXCEPT ![k] = req[r].ver]
        /\ Respond(r, "ok")
        /\ UNCHANGED chunks
  /\ UNCHANGED <<upstream, files, upload, evict, seen>>

(* put_chunk for each chunk written, then put_object.                      *)
Register(r) ==
  LET k == req[r].key
      i == req[r].idx
  IN
  /\ At(r, "register")
  /\ \/ /\ i < NumChunks[req[r].ver]
        /\ chunks' = [chunks EXCEPT ![k] = @ \cup {i}]
        /\ Becomes(r, [req[r] EXCEPT !.idx = i + 1])
        /\ UNCHANGED objects
     \/ /\ i = NumChunks[req[r].ver]
        /\ objects' = [objects EXCEPT ![k] = req[r].ver]
        /\ Respond(r, "ok")
        /\ UNCHANGED chunks
  /\ UNCHANGED <<upstream, files, upload, evict, seen>>

(* A broken body or a failed write: the files of this session are deleted. *)
Cleanup(r) ==
  /\ At(r, "cleanup")
  /\ \/ /\ req[r].idx < req[r].cnt
        /\ RemoveFile(req[r].key, req[r].idx)
        /\ Becomes(r, [req[r] EXCEPT !.idx = @ + 1])
     \/ /\ req[r].idx = req[r].cnt
        /\ Respond(r, "error")
        /\ UNCHANGED files
  /\ UNCHANGED <<upstream, objects, chunks, upload, evict, seen>>

(* The upload task, once it has every byte: the upstream stores the        *)
(* object; the answer may be lost.  A detached upload has no one to tell.  *)
UploadLands(r) ==
  /\ upload[r] = "sent"
  /\ SetUpstream(req[r].key, req[r].ver)
  /\ \/ upload' = [upload EXCEPT ![r] = IF Awaited(r) THEN "landed" ELSE "none"]
     \/ /\ "upfail" \in Env /\ Awaited(r)
        /\ upload' = [upload EXCEPT ![r] = "failed"]
  /\ UNCHANGED <<cacheVars, req, evict>>

(* The upload fails without effect.                                        *)
UploadFails(r) ==
  /\ "upfail" \in Env
  /\ upload[r] \in {"sending", "sent"}
  /\ upload' = [upload EXCEPT ![r] = IF Awaited(r) THEN "failed" ELSE "none"]
  /\ UNCHANGED <<upstream, cacheVars, req, evict, seen>>

-----------------------------------------------------------------------------
(* delete_object_handler: the upstream first, then drop_cache_for_object.  *)

DeleteUpstream(r) ==
  /\ At(r, "delete")
  /\ \/ /\ SetUpstream(req[r].key, None)
        /\ \/ Goto(r, "drop")
           \/ {"upfail", "cancel"} \cap Env # {} /\ Respond(r, "error")
     \/ /\ "upfail" \in Env
        /\ Respond(r, "error")
        /\ UNCHANGED <<upstream, seen>>
  /\ UNCHANGED <<cacheVars, upload, evict>>

-----------------------------------------------------------------------------
(* The CopyObject branch of put_object_handler, and copy_cache_object.     *)

CopyUpstream(r) ==
  LET s == req[r].src IN
  /\ At(r, "copyup")
  /\ \/ /\ upstream[s] # None
        /\ SetUpstream(req[r].key, upstream[s])
        /\ \/ Goto(r, "copyread")
           \/ {"upfail", "cancel"} \cap Env # {} /\ Respond(r, "error")
     \/ /\ upstream[s] = None \/ "upfail" \in Env
        /\ Respond(r, "error")
        /\ UNCHANGED <<upstream, seen>>
  /\ UNCHANGED <<cacheVars, upload, evict>>

(* Without metadata of the source nothing is copied.                       *)
CopyReadMeta(r) ==
  LET local == objects[req[r].src] IN
  /\ At(r, "copyread")
  /\ \/ local = None /\ Respond(r, "ok")
     \/ /\ local # None
        /\ Becomes(r, [req[r] EXCEPT !.pc = "copyput", !.ver = local])
  /\ UNCHANGED <<upstream, cacheVars, upload, evict, seen>>

(* The destination's own rows and files are not dropped first.             *)
CopyPutMeta(r) ==
  /\ At(r, "copyput")
  /\ objects' = [objects EXCEPT ![req[r].key] = req[r].ver]
  /\ Becomes(r, [req[r] EXCEPT !.pc = "copychunk", !.idx = 0,
                               !.cnt = NumChunks[req[r].ver]])
  /\ UNCHANGED <<upstream, chunks, files, upload, evict, seen>>

CopyChunk(r) ==
  /\ At(r, "copychunk")
  /\ \/ /\ req[r].idx < req[r].cnt
        /\ \/ req[r].idx \in chunks[req[r].src] /\ Goto(r, "copyfile")
           \/ /\ req[r].idx \notin chunks[req[r].src]
              /\ Becomes(r, [req[r] EXCEPT !.idx = @ + 1])
     \/ /\ req[r].idx = req[r].cnt
        /\ Respond(r, "ok")
  /\ UNCHANGED <<upstream, cacheVars, upload, evict, seen>>

(* Mutant: the rows are copied and the files are not.                      *)
CopyFileSkipped(r) ==
  /\ At(r, "copyfile")
  /\ Goto(r, "copyrow")
  /\ UNCHANGED <<upstream, cacheVars, upload, evict, seen>>

(* The file is copied if it exists; the row is written in either case.     *)
(* tokio::fs::copy empties the destination first: a copy that fails leaves *)
(* it so, or with a part, and a copy onto itself has nothing left to copy. *)
CopyFile(r) ==
  LET k == req[r].key
      i == req[r].idx
      data == files[req[r].src][i]
  IN
  /\ At(r, "copyfile")
  /\ \/ /\ data = None
        /\ UNCHANGED files
        /\ Goto(r, "copyrow")
     \/ /\ data # None
        /\ files' = [files EXCEPT ![k][i] = IF req[r].src = k THEN Partial ELSE data]
        /\ Goto(r, "copyrow")
     \/ /\ "diskfail" \in Env /\ data # None
        /\ UNCHANGED files \/ files' = [files EXCEPT ![k][i] = Partial]
        /\ Respond(r, "error")
  /\ UNCHANGED <<upstream, objects, chunks, upload, evict, seen>>

CopyRow(r) ==
  /\ At(r, "copyrow")
  /\ chunks' = [chunks EXCEPT ![req[r].key] = @ \cup {req[r].idx}]
  /\ Becomes(r, [req[r] EXCEPT !.pc = "copychunk", !.idx = @ + 1])
  /\ UNCHANGED <<upstream, objects, files, upload, evict, seen>>

-----------------------------------------------------------------------------
(* The eviction worker.  Which chunks it takes, and how many, is LRU order *)
(* and sizes: here it takes any of the chunks it has listed.               *)

EvictList ==
  /\ "evict" \in Env
  /\ evict = [todo |-> {}, cur |-> None]
  /\ evict' = [evict EXCEPT !.todo = {c \in Slots : c[2] \in chunks[c[1]]}]
  /\ evict'.todo # {}
  /\ UNCHANGED <<upstream, cacheVars, req, upload, seen>>

EvictFile(c) ==
  /\ evict.cur = None
  /\ c \in evict.todo
  /\ RemoveFile(c[1], c[2])
  /\ evict' = [todo |-> evict.todo \ {c}, cur |-> c]
  /\ UNCHANGED <<upstream, objects, chunks, req, upload, seen>>

EvictRow(c) ==
  /\ evict.cur = c
  /\ chunks' = [chunks EXCEPT ![c[1]] = @ \ {c[2]}]
  /\ evict' = [evict EXCEPT !.cur = None]
  /\ UNCHANGED <<upstream, objects, files, req, upload, seen>>

(* Enough is freed.                                                        *)
EvictStop ==
  /\ evict.cur = None
  /\ evict.todo # {}
  /\ evict' = [todo |-> {}, cur |-> None]
  /\ UNCHANGED <<upstream, cacheVars, req, upload, seen>>

-----------------------------------------------------------------------------
(* The environment.                                                        *)

(* Someone writes to the upstream, or deletes, without the proxy.          *)
DirectWrite(k, v) ==
  /\ "direct" \in Env
  /\ v # upstream[k]
  /\ SetUpstream(k, v)
  /\ UNCHANGED <<cacheVars, req, upload, evict>>

(* The client disconnects and the handler's future is dropped at an await: *)
(* a file operation on the blocking pool may have completed ("droprow",    *)
(* "copyrow"), what follows it in the handler is not run.                  *)
AwaitPoints == {"head", "dropfile", "droprow", "stream", "read", "cold",
                "body", "write", "await", "cleanup",
                "delete", "copyup", "copyfile", "copyrow"}

Cancel(r) ==
  /\ "cancel" \in Env
  /\ req[r].pc \in AwaitPoints
  /\ At(r, "dropfile") \/ At(r, "cleanup") => req[r].idx < req[r].cnt
  /\ Respond(r, "error")
  /\ LetGo(r)
  /\ UNCHANGED <<upstream, cacheVars, evict, seen>>

(* The process dies and starts again on the same cache directory: tables   *)
(* and files stay, tasks are gone (cleanup_temp_files changes nothing).    *)
(* Copies that were under way leave a part of the file.                    *)
Crash ==
  /\ "crash" \in Env
  /\ \E S \in SUBSET {r \in Reqs : At(r, "copyfile") /\ files[req[r].src][req[r].idx] # None} :
       files' = [k \in Keys |-> [i \in ChunkIds |->
                   IF \E r \in S : req[r].key = k /\ req[r].idx = i THEN Partial
                   ELSE files[k][i]]]
  /\ req' = [r \in Reqs |-> IF Active(r) THEN Ended(r, "error") ELSE req[r]]
  /\ upload' = [r \in Reqs |-> IF upload[r] = "sent" THEN "sent" ELSE "none"]
  /\ evict' = [todo |-> {}, cur |-> None]
  /\ UNCHANGED <<upstream, objects, chunks, seen>>

-----------------------------------------------------------------------------
Arrive(r) ==
  \/ \E k \in Keys : GetObject(r, k) \/ HeadObject(r, k) \/ DeleteObject(r, k)
  \/ \E k \in Keys, v \in Versions : PutObject(r, k, v)
  \/ \E k \in Keys : \E s \in Keys : CopyObject(r, k, s)

Handle(r) ==
  \/ UpstreamHead(r) \/ Compare(r) \/ PutMeta(r)
  \/ DropStart(r) \/ DropFile(r) \/ DropRow(r) \/ DropMeta(r)
  \/ Status(r) \/ NextChunk(r) \/ Touch(r) \/ TouchPut(r)
  \/ ReadChunk(r) \/ ColdRead(r)
  \/ SendChunk(r) \/ WriteChunk(r) \/ BodyEnd(r) \/ AwaitUpload(r)
  \/ Register(r) \/ Cleanup(r)
  \/ DeleteUpstream(r)
  \/ CopyUpstream(r) \/ CopyReadMeta(r) \/ CopyPutMeta(r)
  \/ CopyChunk(r) \/ CopyFile(r) \/ CopyRow(r)

Upload(r) == UploadLands(r) \/ UploadFails(r)

Evict == EvictList \/ EvictStop \/ \E c \in Slots : EvictFile(c) \/ EvictRow(c)

Next ==
  \/ \E r \in Reqs : Arrive(r) \/ Handle(r) \/ Upload(r) \/ Cancel(r)
  \/ Evict
  \/ \E k \in Keys, v \in Maybe(Versions) : DirectWrite(k, v)
  \/ Crash

Spec == Init /\ [][Next]_vars

-----------------------------------------------------------------------------
(* Properties.                                                             *)

TypeOK ==
  /\ upstream \in [Keys -> Maybe(Versions)]
  /\ objects \in [Keys -> Maybe(Versions)]
  /\ chunks \in [Keys -> SUBSET ChunkIds]
  /\ files \in [Keys -> [ChunkIds -> Contents]]
  /\ req \in [Reqs -> Request]
  /\ upload \in [Reqs -> UploadStates]
  /\ evict \in [todo : SUBSET Slots, cur : Maybe(Slots)]
  /\ seen \in [Reqs -> SUBSET Maybe(Versions)]

(* No stale bytes: every chunk that read_range streams to the client of a  *)
(* GET, from a chunk file or from the upstream, is of a version that the   *)
(* upstream store held at some time since that GET began, however          *)
(* evictions, failed or abandoned PUTs and writes by other clients fall    *)
(* between the look-ups.                                                   *)
FreshReads == \A r \in Reqs : req[r].piece # None => req[r].piece \in seen[r]

(* No request is working on k.                                             *)
Quiet(k) == \A r \in Reqs : Active(r) => k \notin KeysOf(r)

(* The rows of k belong to the version its metadata names, and their files *)
(* hold that version, or are gone.                                         *)
Coherent(k) ==
  \A i \in chunks[k] : /\ objects[k] # None
                       /\ i < NumChunks[objects[k]]
                       /\ files[k][i] \in {None, objects[k]}

(* What write_and_cache_object, drop_cache_for_object, the eviction worker *)
(* and aborted handlers leave behind is fit to be served: the rows and     *)
(* files of a key at rest fit its metadata.  Above all there is no row     *)
(* without metadata: get_object_metadata would not know that it has to     *)
(* drop it.                                                                *)
CoherentCache == \A k \in Keys : Quiet(k) => Coherent(k)

(* A PUT is answered 200 only when the upstream store has held the object  *)
(* it sent, a DELETE only when the upstream has been without the object,   *)
(* since that request began (write-through), whatever else goes on.        *)
WriteThrough ==
  \A r \in Reqs : At(r, "ok") =>
    /\ req[r].op = "PUT" => req[r].ver \in seen[r]
    /\ req[r].op = "DELETE" => None \in seen[r]

(* The step that answers request r with 200.                               *)
Answers(r) == Active(r) /\ req'[r].pc = "ok"

(* "Overwrites (PUTs) replace cache files and make them hot again": when a *)
(* PUT is answered, the key has a row and a file of the new version for    *)
(* every chunk, and the new metadata, whatever an earlier request or crash *)
(* left there.                                                             *)
PutCachesWhole ==
  [][\A r \in Reqs : req[r].op = "PUT" /\ Answers(r) =>
       LET k == req[r].key
           v == req[r].ver
       IN  /\ objects'[k] = v
           /\ \A i \in ChunkIds : i < NumChunks[v] =>
                i \in chunks'[k] /\ files'[k][i] = v]_vars

(* "DELETE (rm): Drops the cached chunks and database metadata locally":   *)
(* when a DELETE is answered, its key has no metadata and not one row.     *)
DeleteDropsCache ==
  [][\A r \in Reqs : req[r].op = "DELETE" /\ Answers(r) =>
       objects'[req[r].key] = None /\ chunks'[req[r].key] = {}]_vars

(* copy_cache_object: when a COPY is answered, the metadata recorded for   *)
(* the source is the destination's, and each chunk cached for the source   *)
(* is cached, with the same content, for the destination.  But a COPY of a *)
(* key onto itself leaves not one file whole.                              *)
CopyIsHot ==
  [][\A r \in Reqs : req[r].op = "COPY" /\ Answers(r) =>
       LET k == req[r].key
           s == req[r].src
       IN  objects[s] # None =>
             /\ objects'[k] = objects[s]
             /\ \A i \in chunks[s] : i < NumChunks[objects[s]] =>
                  /\ i \in chunks'[k]
                  /\ IF s = k THEN files'[k][i] \in {None, Partial}
                     ELSE files[s][i] # None => files'[k][i] = files[s][i]]_vars

(* "Cold reads (cache misses) stream directly from upstream S3 without     *)
(* disk write overhead": while GETs of one key overlap with each other,    *)
(* with writes around the proxy and with evictions, chunks come into the   *)
(* cache only by a PUT or COPY of their key, so that every GET that misses *)
(* downloads for itself; a GET writes no file, and no row but the one that *)
(* it has just read, to record the access.                                 *)
CacheOnWriteOnly ==
  [][\A k \in Keys, i \in ChunkIds :
       LET written == \E r \in Reqs : /\ Active(r) /\ req[r].key = k
                                      /\ req[r].op \in {"PUT", "COPY"}
       IN  /\ files'[k][i] \notin {None, files[k][i]} => written
           /\ i \in chunks'[k] \ chunks[k] =>
                written \/ \E r \in Reqs : /\ At(r, "touchput")
                                           /\ req[r].key = k /\ req[r].idx = i]_vars

-----------------------------------------------------------------------------
(* Fairness: the Tokio runtime polls every task that is ready, and the     *)
(* upstream answers or fails every call.  Nothing makes clients send       *)
(* requests, other clients write, or the worker find the cache full.       *)
FairSpec == Spec /\ \A r \in Reqs : WF_vars(Handle(r)) /\ WF_vars(Upload(r))

(* Every request is answered: no handler waits for ever on its upload      *)
(* task, and no drop, read, write or copy loop goes on for ever.           *)
EveryRequestEnds == \A r \in Reqs : Active(r) ~> ~Active(r)

-----------------------------------------------------------------------------
(* What the repository's documentation says and the code does not do: each *)
(* of these is violated by the run that checks it.                         *)

(* "GET/HEAD requests serve from cache if available (hits)": when neither  *)
(* a request nor the eviction worker is active, a recorded chunk is there. *)
RowsHaveFiles ==
  \A k \in Keys : Quiet(k) /\ evict.todo = {} /\ evict.cur = None =>
    \A i \in chunks[k] : files[k][i] # None

(* "Maximum disk space allocated for cache": the worker accounts for the   *)
(* disk by the rows, so at rest every chunk file has a row.                *)
DiskIsAccounted ==
  \A k \in Keys : Quiet(k) => \A i \in ChunkIds : files[k][i] # None => i \in chunks[k]

=============================================================================
