------------------------------- MODULE Gateway ------------------------------
(***************************************************************************)
(* From a client's HTTP request to the requests that the proxy sends to    *)
(* the upstream: the configuration (config.rs, main.rs), signature         *)
(* verification (server/s3_api.rs) in the middleware, the routes           *)
(* (server/mod.rs), the upstream calls of each handler (handlers.rs), the  *)
(* fallback proxy, and the URL and the signature of what goes out          *)
(* (proxy/mod.rs).  Requests do not share state here, so there is one at a *)
(* time; what the handlers do to the cache is in CacheCoordinator.         *)
(*                                                                         *)
(* A signature is the pair of a secret and of what was signed: HMAC and    *)
(* SHA-256 are taken as injective, and well-formed clients send paths and  *)
(* query strings in the encoding that they sign.  A query is the sequence  *)
(* of its parameters, a header the sequence of its values.  A key is a     *)
(* name and whether it has characters that a URL gives another meaning:    *)
(* the axum extractor has decoded it when it is put into a URL.            *)
(***************************************************************************)
EXTENDS Naturals, SequencesExt

CONSTANTS
  None,
  Methods,     \* HTTP methods
  Buckets, Names,
  Queries,     \* query strings, without the parameters of a presigned URL
  MaxName,     \* the largest name of a query parameter
  Headers,     \* header maps
  Copies,      \* values of x-amz-copy-source; bucket None: a source without '/'
  AccessKeys, Secrets,
  Configs,     \* the configurations of this instance
  MaxChunks    \* the chunks of an object

(* "question" has a '?', "percent" a '%', and "slash" starts with '/'.     *)
KeyKinds == {"plain", "question", "percent", "slash"}
Keys == [name : Names, kind : KeyKinds]
Maybe(S) == S \cup {None}

(* A query parameter is a name and a value, both numbered in the order of  *)
(* their bytes; X-Amz-Credential and X-Amz-Signature come before the names *)
(* of the subresources; KeyTail is what a key has behind a question mark.  *)
Credential == <<1, 0>>
SignatureParam == <<2, 0>>
KeyTail == <<0, 0>>
Params == (3..MaxName) \X Nat

(* A header that the code names, another plain one, and one in x-amz-*.    *)
(* "spaced" has two spaces in a row, "opaque" bytes that to_str refuses.   *)
HeaderNames == {"content-type", "cache-control", "x-amz-acl"}
Values == {"plain", "spaced", "opaque"}
NoHeaders == [h \in HeaderNames |-> <<>>]

(* credentials, S3C_CREDENTIALS, and S3C_ACCESS_KEY with S3C_SECRET_KEY,   *)
(* each as the pairs that new_from_str finds in it; the backend's pair and *)
(* the AWS_* pair, or None; S3C_BACKEND_V4_AUTH.                           *)
Creds == [AccessKeys -> Maybe(Secrets)]
Config == [credentials : Creds, envList : Creds, envPair : Creds,
           backend : Maybe(Secrets), aws : Maybe(Secrets), v4 : BOOLEAN]

ASSUME ConfigsAssumption == Configs \subseteq Config
ASSUME NoneAssumption == None \notin Secrets /\ None \notin Creds
ASSUME QueriesAssumption == \A q \in Queries : q \in Seq(Params)
ASSUME HeadersAssumption == \A hs \in Headers : hs \in [HeaderNames -> Seq(Values)]
ASSUME ChunksAssumption == MaxChunks \in Nat /\ MaxName \in Nat

Auths == {"none", "header", "query"}
Bodies == {"none", "small", "big"}  \* "big": more than 10 MiB

(* signed: the client signs all its headers, or only those in x-amz-*.     *)
Request == [method : Methods, bucket : Maybe(Buckets), key : Maybe(Keys),
            query : Queries, headers : Headers, copy : Maybe(Copies), body : Bodies,
            auth : Auths, access : AccessKeys, secret : Secrets, signed : {"all", "amz"}]

ASSUME CopiesAssumption ==
  \A c \in Copies : c = [bucket |-> c.bucket, name |-> c.name, version |-> c.version]
ASSUME RequestsAssumption == Request # {}

VARIABLES
  conf,   \* the configuration the process was started with
  req,    \* the client's request
  pc,     \* where its handling is
  left,   \* the chunks that read_range has still to yield
  sent    \* the requests sent to the upstream for it, in order

vars == <<conf, req, pc, left, sent>>

(* "broken": the 200 was sent, and the body ends early.                    *)
Ends == {"200", "broken", "403", "404", "405", "500"}
Labels == Ends \cup {"idle", "auth", "route", "head", "open", "read", "put", "delete", "fallback"}

-----------------------------------------------------------------------------
(* Signature Version 4, as S3 defines it.                                  *)

Sign(secret, what) == <<secret, what>>

Less(p, q) == p[1] < q[1] \/ (p[1] = q[1] /\ p[2] < q[2])

(* Query parameters in the order of their names, then of their values.     *)
SortedQuery(q) == SortSeq(q, Less)

(* All the values of a header, with runs of spaces made one.               *)
Folded(values) == [i \in DOMAIN values |-> IF values[i] = "spaced" THEN "plain" ELSE values[i]]

SignedHeaders(r) ==
  {h \in HeaderNames : r.headers[h] # <<>> /\ (r.signed = "all" \/ h = "x-amz-acl")}

Query(r) == r.query \o (IF r.auth = "query" THEN <<Credential, SignatureParam>> ELSE <<>>)

(* The query that is signed: without the signature.                        *)
Unsigned(q) == SelectSeq(q, LAMBDA p : p # SignatureParam)

(* What S3 clients sign.                                                   *)
Canonical(r) ==
  [method |-> r.method, bucket |-> r.bucket, key |-> r.key, copy |-> r.copy,
   query |-> SortedQuery(Unsigned(Query(r))),
   headers |-> [h \in SignedHeaders(r) |-> Folded(r.headers[h])]]

Signature(r) == Sign(r.secret, Canonical(r))

-----------------------------------------------------------------------------
(* Signature Version 4, as the code computes it.                           *)

(* extract_from_headers, else extract_from_query: the access key and the   *)
(* signature that the request carries, if it carries any.                  *)
SigParams(r) ==
  IF r.auth = "none" THEN {} ELSE {[access |-> r.access, signature |-> Signature(r)]}

(* sort_by with the names alone: a stable sort.                            *)
SortByName(q) ==
  FlattenSeq([n \in 1..MaxName + 1 |-> SelectSeq(q, LAMBDA p : p[1] = n - 1)])

(* headers.get, to_str and trim: the first value, nothing for one that is  *)
(* not text.                                                               *)
FirstValue(values) ==
  IF values = <<>> \/ values[1] = "opaque" THEN <<>> ELSE <<values[1]>>

(* Mutant: the signature itself is not left out.                           *)
CanonicalWithSignature(r) ==
  [method |-> r.method, bucket |-> r.bucket, key |-> r.key, copy |-> r.copy,
   query |-> SortByName(Query(r)),
   headers |-> [h \in SignedHeaders(r) |-> FirstValue(r.headers[h])]]

(* build_canonical_request.                                                *)
BuildCanonicalRequest(r) ==
  [method |-> r.method, bucket |-> r.bucket, key |-> r.key, copy |-> r.copy,
   query |-> SortByName(Unsigned(Query(r))),
   headers |-> [h \in SignedHeaders(r) |-> FirstValue(r.headers[h])]]

-----------------------------------------------------------------------------
(* Startup: new_from_str of the configured credentials, else of the        *)
(* environment's, else the single pair; a list without a pair is none.     *)

Empty(creds) == \A a \in AccessKeys : creds[a] = None

(* Mutant: an empty credentials string turns verification off.             *)
VerifierFirst(c) == IF Empty(c.credentials) THEN None ELSE c.credentials

Verifier(c) ==
  IF ~Empty(c.credentials) THEN c.credentials
  ELSE IF ~Empty(c.envList) THEN c.envList
  ELSE IF ~Empty(c.envPair) THEN c.envPair
  ELSE None

(* ProxyClient::new: the secret of the AuthSigner; None is Anonymous.      *)
Signer(c) ==
  IF ~c.v4 THEN None
  ELSE IF c.backend # None THEN c.backend
  ELSE c.aws

-----------------------------------------------------------------------------
(* Outgoing requests.                                                      *)

(* build_url for a decoded key: what follows a '?' becomes the query, '%'  *)
(* is read as an escape, and leading slashes are trimmed.                  *)
BuildUrl(k) ==
  [key |-> IF k = None THEN None ELSE [k EXCEPT !.kind = "plain"],
   query |-> IF k # None /\ k.kind = "question" THEN <<KeyTail>> ELSE <<>>]

(* A request without client headers, copy source, range or body.           *)
Bare(method, url) ==
  [method |-> method, bucket |-> req.bucket, key |-> url.key, query |-> url.query,
   headers |-> NoHeaders, copy |-> None, range |-> None, body |-> "none"]

(* What prepare_request signs: of the headers, those that it sets itself,  *)
(* the copy source and the range.                                          *)
SignedPart(u) ==
  [method |-> u.method, bucket |-> u.bucket, key |-> u.key,
   query |-> SortByName(u.query), copy |-> u.copy, range |-> u.range]


(* prepare_request.                                                        *)
Prepare(u) ==
  [out |-> u,
   signature |-> IF Signer(conf) = None THEN None ELSE Sign(Signer(conf), SignedPart(u))]

(* One call of the upstream, and where the handler goes on.                *)
SendUp(u, then) == sent' = Append(sent, Prepare(u)) /\ pc' \in then

NoRequest == CHOOSE r \in Request : TRUE

Init ==
  /\ conf \in Configs
  /\ req = NoRequest
  /\ pc = "idle"
  /\ left = 0
  /\ sent = <<>>

(* A request has a key only in a bucket, a copy source only with PUT, and  *)
(* a body only with PUT and POST.                                          *)
Arrive ==
  /\ pc = "idle"
  /\ \E r \in Request :
       /\ r.bucket = None => r.key = None
       /\ r.copy # None => r.method = "PUT" /\ r.key # None
       /\ r.body # "none" => r.method \in {"PUT", "POST"}
       /\ req' = r
  /\ pc' = "auth"
  /\ UNCHANGED <<conf, left, sent>>

(* s3_auth_middleware and SigV4Verifier::verify.                           *)
Authenticate ==
  LET creds == Verifier(conf)
      good == \E p \in SigParams(req) :
                /\ creds[p.access] # None
                /\ p.signature = Sign(creds[p.access], BuildCanonicalRequest(req))
  IN
  /\ pc = "auth"
  /\ pc' = IF creds = None \/ good THEN "route" ELSE "403"
  /\ UNCHANGED <<conf, req, left, sent>>

(* The Router: "/:bucket/*key" with four methods, 405 for others, and the  *)
(* fallback for other paths.  The query plays no part.                     *)
Route ==
  LET handler == [GET |-> "head", HEAD |-> "head", PUT |-> "put", DELETE |-> "delete"]
  IN
  /\ pc = "route"
  /\ pc' = IF req.key = None THEN "fallback"
           ELSE IF req.method \in DOMAIN handler THEN handler[req.method]
           ELSE "405"
  /\ UNCHANGED <<conf, req, left, sent>>

(* get_object_handler and head_object_handler: head_object, for GET once   *)
(* more inside read_range.                                                 *)
HeadUpstream ==
  /\ pc = "head"
  /\ SendUp(Bare("HEAD", BuildUrl(req.key)),
            {"404", "500", IF req.method = "HEAD" THEN "200" ELSE "open"})
  /\ UNCHANGED <<conf, req, left>>

(* The range that was asked for covers some of the chunks.                 *)
OpenUpstream ==
  /\ pc = "open"
  /\ SendUp(Bare("HEAD", BuildUrl(req.key)), {"500", "read"})
  /\ left' \in 0..MaxChunks
  /\ UNCHANGED <<conf, req>>

(* Mutant: a chunk that could not be fetched is asked for again.           *)
ReadUpstreamRetried ==
  /\ pc = "read" /\ left > 0
  /\ \/ SendUp([Bare("GET", BuildUrl(req.key)) EXCEPT !.range = left], {"read"}) /\ UNCHANGED left
     \/ pc' = "read" /\ left' = left - 1 /\ UNCHANGED sent
  /\ UNCHANGED <<conf, req>>

(* The body of the 200, chunk by chunk: from the cache, or with a GET of   *)
(* the chunk's range; an error on either way ends it.                      *)
ReadUpstream ==
  /\ pc = "read" /\ left > 0
  /\ \/ SendUp([Bare("GET", BuildUrl(req.key)) EXCEPT !.range = left], {"read", "broken"})
     \/ pc' \in {"read", "broken"} /\ UNCHANGED sent
  /\ left' = left - 1
  /\ UNCHANGED <<conf, req>>

ReadDone ==
  /\ pc = "read" /\ left = 0
  /\ pc' = "200"
  /\ UNCHANGED <<conf, req, left, sent>>

HasSource(r) == r.copy # None /\ r.copy.bucket # None

(* put_object_handler: a copy if the source has a bucket and a key, whose  *)
(* versionId is cut off; else the body is uploaded, and of the client's    *)
(* headers its content type.                                               *)
PutUpstream ==
  LET bare == Bare("PUT", BuildUrl(req.key))
  IN
  /\ pc = "put"
  /\ SendUp(IF HasSource(req)
              THEN [bare EXCEPT !.copy = [req.copy EXCEPT !.version = None]]
              ELSE [bare EXCEPT !.body = req.body,
                                !.headers["content-type"] =
                                  FirstValue(req.headers["content-type"])],
            {"200", "500"})
  /\ UNCHANGED <<conf, req, left>>

DeleteUpstream ==
  /\ pc = "delete"
  /\ SendUp(Bare("DELETE", BuildUrl(req.key)), {"200", "500"})
  /\ UNCHANGED <<conf, req, left>>

(* What proxy_request copies of the headers: none in x-amz-*, and of a     *)
(* repeated header the last value, as insert replaces the others.          *)
OutHeaders(r) ==
  [h \in HeaderNames |->
     IF h = "x-amz-acl" \/ r.headers[h] = <<>> THEN <<>> ELSE <<Last(r.headers[h])>>]

(* Mutant: the query of a bucket request is lost.                          *)
FallbackNoQuery ==
  /\ pc = "fallback"
  /\ SendUp([Bare(req.method, BuildUrl(None)) EXCEPT
               !.headers = OutHeaders(req),
               !.body = IF req.body = "big" THEN "none" ELSE req.body],
            {"200", "404", "500"})
  /\ UNCHANGED <<conf, req, left>>

(* fallback_proxy_handler and proxy_request: the query goes along with a   *)
(* bucket, the parameters of a presigned URL included, and a body that is  *)
(* too long is left out.  The upstream's status is handed on: 200 and 404  *)
(* stand for all of them.                                                  *)
Fallback ==
  /\ pc = "fallback"
  /\ SendUp([Bare(req.method, BuildUrl(None)) EXCEPT
               !.query = IF req.bucket = None THEN <<>> ELSE Query(req),
               !.headers = OutHeaders(req),
               !.body = IF req.body = "big" THEN "none" ELSE req.body],
            {"200", "404", "500"})
  /\ UNCHANGED <<conf, req, left>>

(* The response goes to the client, and the next request comes.            *)
Reply ==
  /\ pc \in Ends
  /\ req' = NoRequest
  /\ pc' = "idle"
  /\ left' = 0
  /\ sent' = <<>>
  /\ UNCHANGED conf

Next ==
  \/ Arrive \/ Authenticate \/ Route \/ HeadUpstream \/ OpenUpstream \/ ReadUpstream
  \/ ReadDone \/ PutUpstream \/ DeleteUpstream \/ Fallback \/ Reply

Spec == Init /\ [][Next]_vars

-----------------------------------------------------------------------------
(* Types; and a request makes the proxy send no more than two HEADs and,   *)
(* for each chunk of the object, one GET.                                  *)
TypeOK ==
  /\ conf \in Configs
  /\ req \in Request
  /\ pc \in Labels
  /\ left \in 0..MaxChunks
  /\ Len(sent) + left <= 2 + MaxChunks

(* The pairs the operator has configured, wherever they stand, and those   *)
(* in force.                                                               *)
Known(r) == Verifier(conf) # None /\ Verifier(conf)[r.access] = r.secret
AnyPair == ~Empty(conf.credentials) \/ ~Empty(conf.envList) \/ ~Empty(conf.envPair)

(* Once the operator has configured a pair of frontend keys, by whichever  *)
(* of the three ways, nothing is sent to the upstream, by any route, for a *)
(* request that is not signed with the secret of a known access key.       *)
OnlySignedReachUpstream ==
  sent # <<>> /\ AnyPair => req.auth # "none" /\ Known(req)

(* The query names a parameter twice, and a value before a smaller one.    *)
OutOfOrder(q) == \E i, j \in DOMAIN q : i < j /\ q[i][1] = q[j][1] /\ q[i][2] > q[j][2]

(* A signed header is repeated, or has a value that the code reads as      *)
(* another than the client.                                                *)
Misread(r) ==
  \E h \in SignedHeaders(r) :
    Len(r.headers[h]) > 1 \/ \E i \in DOMAIN r.headers[h] : r.headers[h][i] # "plain"

(* Of the clients with a known pair, whether they sign in the header or    *)
(* presign the URL, verify turns away exactly those that repeat a query    *)
(* parameter with values out of order, or that sign a header which they    *)
(* repeat, or whose value is not plain text.                               *)
RefusedClients ==
  /\ pc = "403" => req.auth = "none" \/ ~Known(req) \/ OutOfOrder(req.query) \/ Misread(req)
  /\ pc \notin {"idle", "auth", "403"} /\ Verifier(conf) # None =>
       ~OutOfOrder(req.query) /\ ~Misread(req)


(* What the client means, as one upstream request.                         *)
Meant == [method |-> req.method, bucket |-> req.bucket, key |-> req.key,
          query |-> req.query, headers |-> req.headers, copy |-> req.copy,
          body |-> IF HasSource(req) THEN "none" ELSE req.body]

OnObject == req.key # None
Reads == OnObject /\ req.method \in {"GET", "HEAD"}

(* The headers that the route hands on.                                    *)
Kept ==
  IF ~OnObject THEN HeaderNames \ {"x-amz-acl"}
  ELSE IF req.method = "PUT" /\ ~HasSource(req) THEN {"content-type"}
  ELSE {}

(* The fields of the request that do not reach the upstream as they came.  *)
Lost ==
  {f \in DOMAIN Meant :
     \/ f = "key" /\ OnObject /\ req.key.kind # "plain"
     \/ f = "query" /\ (OnObject \/ req.bucket = None) /\ req.query # <<>>
     \/ f = "query" /\ OnObject /\ req.key.kind = "question"
     \/ f = "query" /\ ~OnObject /\ req.bucket # None /\ req.auth = "query"
     \/ f = "headers" /\ \E h \in HeaderNames \ Kept : req.headers[h] # <<>>
     \/ f = "headers" /\ \E h \in Kept : Len(req.headers[h]) > 1
     \/ f = "headers" /\ OnObject /\ \E h \in Kept : FirstValue(req.headers[h]) # req.headers[h]
     \/ f = "copy" /\ req.copy # None /\ (req.copy.bucket = None \/ req.copy.version # None)
     \/ f = "body" /\ ~OnObject /\ req.body = "big"}

(* Every upstream request is about the client's own bucket, and those for  *)
(* a read, which are the proxy's, about its own key (if that is plain) and *)
(* a different chunk each.  Any other is the client's request, and differs *)
(* from it in exactly the fields that Lost names: on an object the query   *)
(* goes (a part of a multipart upload is sent as the whole object), and    *)
(* all headers but the content type of a PUT; on the fallback x-amz-* go.  *)
Transparent ==
  \A i \in DOMAIN sent :
    LET u == sent[i].out IN
    /\ u.bucket = req.bucket
    /\ IF Reads
         THEN /\ u.method \in {"GET", "HEAD"} /\ u.headers = NoHeaders
              /\ u.key = req.key <=> req.key.kind = "plain"
              /\ \A j \in DOMAIN sent :
                   i # j => u.range = None \/ u.range # sent[j].out.range
         ELSE {f \in DOMAIN Meant : u[f] # Meant[f]} = Lost
=============================================================================
