--------------------------- MODULE GatewayProofs ----------------------------
(***************************************************************************)
(* The gate in front of the upstream, for every set of keys, secrets,      *)
(* requests and configurations.                                            *)
(***************************************************************************)
EXTENDS Gateway, SequenceTheorems, TLAPS

(* The request carries a signature, by a pair in force.                    *)
Signed == req.auth # "none" /\ Known(req)

(* Before and behind the gate.                                             *)
Outside == {"idle", "auth", "403"}

GateInv ==
  /\ conf \in Config
  /\ pc # "idle" => req \in Request
  /\ pc \in Outside => sent = <<>>
  /\ pc \notin Outside => Verifier(conf) = None \/ Signed

-----------------------------------------------------------------------------
(* A request passes only if it is signed by a pair in force, whatever the  *)
(* two sides make of its canonical form.                                   *)
LEMMA VerifiedIsSigned ==
  ASSUME NEW p \in SigParams(req),
         p.signature = Sign(Verifier(conf)[p.access], BuildCanonicalRequest(req))
  PROVE  req.auth # "none" /\ Verifier(conf)[req.access] = req.secret
  <1>1. req.auth # "none" /\ p = [access |-> req.access, signature |-> Signature(req)]
    BY DEF SigParams
  <1>2. p.access = req.access /\ p.signature = <<req.secret, Canonical(req)>>
    BY <1>1 DEF Signature, Sign
  <1>3. <<req.secret, Canonical(req)>> =
          <<Verifier(conf)[req.access], BuildCanonicalRequest(req)>>
    BY <1>2 DEF Sign
  <1> QED
    BY <1>1, <1>3

(* Where a pair is configured, by whichever way, there is a verifier.      *)
LEMMA PairsMakeVerifier ==
  ASSUME conf \in Config, AnyPair
  PROVE  Verifier(conf) # None
  <1>1. /\ conf.credentials \in Creds /\ conf.envList \in Creds
        /\ conf.envPair \in Creds
    BY DEF Config
  <1> QED
    BY <1>1, NoneAssumption DEF AnyPair, Verifier

LEMMA InitGate == Init => GateInv
  BY ConfigsAssumption DEF Init, GateInv, Outside

LEMMA AuthenticateGate ==
  ASSUME GateInv, Authenticate
  PROVE  GateInv'
  <1>1. req \in Request /\ sent = <<>> /\ conf \in Config
    BY DEF GateInv, Authenticate, Outside
  <1>2. UNCHANGED <<conf, req, sent>>
    BY DEF Authenticate
  <1>3. pc' \in {"route", "403"}
    BY DEF Authenticate
  <1>4. pc' = "route" => Verifier(conf) = None \/ Signed
    <2>1. CASE Verifier(conf) = None
      BY <2>1
    <2>2. CASE \E p \in SigParams(req) :
                 p.signature = Sign(Verifier(conf)[p.access], BuildCanonicalRequest(req))
      BY <2>2, VerifiedIsSigned DEF Signed, Known
    <2> QED
      BY <2>1, <2>2 DEF Authenticate
  <1> QED
    BY <1>1, <1>2, <1>3, <1>4 DEF GateInv, Signed, Known, Outside

(* A step behind the gate that stays behind it.                            *)
LEMMA BehindGate ==
  ASSUME GateInv, pc \notin Outside, pc' \notin Outside, UNCHANGED <<conf, req>>
  PROVE  GateInv'
  BY DEF GateInv, Signed, Known, Outside

LEMMA NextGate ==
  ASSUME GateInv, [Next]_vars
  PROVE  GateInv'
  <1> USE DEF Outside
  <1>1. CASE Arrive
    <2>1. pc = "idle" /\ pc' = "auth" /\ req' \in Request /\ UNCHANGED <<conf, sent>>
      BY <1>1 DEF Arrive
    <2> QED
      BY <2>1 DEF GateInv
  <1>2. CASE Authenticate
    BY <1>2, AuthenticateGate
  <1>3. CASE Route
    <2>1. pc = "route" /\ UNCHANGED <<conf, req>>
      BY <1>3 DEF Route
    <2>2. pc' \in {"head", "put", "delete", "fallback", "405"}
      BY <1>3 DEF Route
    <2> QED
      BY <2>1, <2>2, BehindGate
  <1>4. CASE HeadUpstream \/ OpenUpstream \/ ReadUpstream \/ ReadDone
    BY <1>4, BehindGate DEF HeadUpstream, OpenUpstream, ReadUpstream, ReadDone, SendUp
  <1>5. CASE PutUpstream \/ DeleteUpstream \/ Fallback
    BY <1>5, BehindGate DEF PutUpstream, DeleteUpstream, Fallback, SendUp
  <1>6. CASE Reply
    BY <1>6 DEF Reply, GateInv
  <1>7. CASE UNCHANGED vars
    BY <1>7 DEF vars, GateInv, Signed, Known
  <1> QED
    BY <1>1, <1>2, <1>3, <1>4, <1>5, <1>6, <1>7 DEF Next

LEMMA GateInvariant == Spec => []GateInv
  BY InitGate, NextGate, PTL DEF Spec

(* With any of the three ways of configuring frontend keys in use, nothing *)
(* goes to the upstream, on an object route or on the fallback, for a      *)
(* request that s3_auth_middleware has not found signed by a known pair.   *)
THEOREM OnlySigned == Spec => []OnlySignedReachUpstream
  <1>1. GateInv => OnlySignedReachUpstream
    BY PairsMakeVerifier DEF GateInv, OnlySignedReachUpstream, Signed
  <1> QED
    BY <1>1, GateInvariant, PTL

-----------------------------------------------------------------------------

(* What is sent to the upstream.                                           *)

(* The labels before the first upstream request.                           *)
Before == Outside \cup {"route", "head", "put", "delete", "fallback", "405"}

(* How far the handler has got, by the requests that it has sent and the   *)
(* chunks that are left.                                                   *)
SentOK ==
  /\ \E S : sent \in Seq(S)
  /\ left \in Nat /\ left <= MaxChunks
  /\ Len(sent) + left <= 2 + MaxChunks
  /\ pc \in Before => sent = <<>> /\ left = 0
  /\ pc = "open" => Len(sent) = 1 /\ left = 0

(* Which requests each handler gets.                                       *)
RoutedOK ==
  /\ conf \in Configs /\ req \in Request /\ pc \in Labels
  /\ pc # "idle" => /\ req.bucket = None => req.key = None
                    /\ req.copy # None => req.method = "PUT" /\ req.key # None
                    /\ req.body # "none" => req.method \in {"PUT", "POST"}
  /\ pc \in {"head", "open", "read"} => req.key # None /\ req.method \in {"GET", "HEAD"}
  /\ pc = "put" => req.key # None /\ req.method = "PUT"
  /\ pc = "delete" => req.key # None /\ req.method = "DELETE"
  /\ pc = "fallback" => req.key = None

(* What Transparent says of one upstream request.                          *)
Faithful(u) ==
  /\ u.bucket = req.bucket
  /\ IF Reads
       THEN /\ u.method \in {"GET", "HEAD"} /\ u.headers = NoHeaders
            /\ u.key = req.key <=> req.key.kind = "plain"
       ELSE {f \in DOMAIN Meant : u[f] # Meant[f]} = Lost

RangeOf(i) == sent[i].out.range

(* The chunks asked for are behind those that are left, and all different. *)
RangesOK ==
  /\ \A i \in 1..Len(sent) :
       RangeOf(i) = None \/ (pc # "open" /\ RangeOf(i) \in Nat /\ RangeOf(i) > left)
  /\ \A i, j \in 1..Len(sent) : i # j => RangeOf(i) = None \/ RangeOf(i) # RangeOf(j)

SendInv ==
  /\ SentOK
  /\ RoutedOK
  /\ RangesOK
  /\ \A i \in 1..Len(sent) : Faithful(sent[i].out)

LEMMA AppendOne ==
  ASSUME NEW u, \E S : sent \in Seq(S)
  PROVE  /\ \E S : Append(sent, u) \in Seq(S)
         /\ Len(Append(sent, u)) = Len(sent) + 1 /\ Len(sent) \in Nat
         /\ \A i \in 1..Len(sent) : Append(sent, u)[i] = sent[i]
         /\ Append(sent, u)[Len(sent) + 1] = u
  <1>1. PICK S : sent \in Seq(S)
    OBVIOUS
  <1>2. sent \in Seq(S \cup {u})
    BY <1>1, SeqMonotonic
  <1>3. u \in S \cup {u}
    OBVIOUS
  <1> QED
    BY <1>2, <1>3, AppendProperties

(* Where a handler may go on after an upstream request, with how many      *)
(* chunks left.                                                            *)
GoesOn(then, range) ==
  /\ pc \notin Outside /\ then \subseteq Labels \ Before
  /\ left' \in Nat /\ left' <= MaxChunks
  /\ Len(sent) + 1 + left' <= 2 + MaxChunks
  /\ "open" \in then => Len(sent) = 0 /\ left' = 0 /\ range = None
  /\ \A l \in then : l \in {"open", "read"} =>
                       req.key # None /\ req.method \in {"GET", "HEAD"}
  /\ \/ range = None /\ (left' = left \/ pc \in Before \/ pc = "open")
     \/ range = left /\ left > 0 /\ left' = left - 1 /\ pc = "read"

(* One upstream request: the invariant holds if it is faithful.            *)
LEMMA SendKeeps ==
  ASSUME SendInv, NEW u, NEW then, SendUp(u, then), conf' = conf, req' = req,
         GoesOn(then, u.range), Faithful(u)
  PROVE  SendInv'
  <1> USE DEF GoesOn
  <1>0. Prepare(u).out = u
    BY DEF Prepare
  <1>1. sent' = Append(sent, Prepare(u)) /\ pc' \in then
    BY DEF SendUp
  <1>2. /\ \E S : sent' \in Seq(S)
        /\ Len(sent') = Len(sent) + 1 /\ Len(sent) \in Nat
        /\ \A i \in 1..Len(sent) : sent'[i] = sent[i]
        /\ sent'[Len(sent) + 1].out = u
    <2>1. \E S : sent \in Seq(S)
      BY DEF SendInv, SentOK
    <2> DEFINE v == Prepare(u)
    <2> HIDE DEF v
    <2>2. /\ \E S : Append(sent, v) \in Seq(S)
          /\ Len(Append(sent, v)) = Len(sent) + 1 /\ Len(sent) \in Nat
          /\ \A i \in 1..Len(sent) : Append(sent, v)[i] = sent[i]
          /\ Append(sent, v)[Len(sent) + 1] = v
      BY <2>1, AppendOne
    <2>3. sent' = Append(sent, v) /\ v.out = u
      BY <1>0, <1>1 DEF v
    <2> QED
      BY <2>2, <2>3
  <1>3. SentOK'
    <2>1. pc' \notin Before
      BY <1>1
    <2>2. pc' = "open" => Len(sent) = 0 /\ left' = 0
      BY <1>1
    <2> QED
      BY <1>2, <2>1, <2>2, ChunksAssumption DEF SentOK
  <1>4. RoutedOK'
    <2>1. pc' \in Labels /\ pc' \notin {"idle", "head", "put", "delete", "fallback"}
      BY <1>1 DEF Before, Outside
    <2>2. pc' \in {"open", "read"} => req.key # None /\ req.method \in {"GET", "HEAD"}
      BY <1>1
    <2>3. pc # "idle" /\ RoutedOK
      BY DEF SendInv, Outside
    <2> QED
      BY <2>1, <2>2, <2>3 DEF RoutedOK
  <1>5. RangesOK'
    <2>1. \A i \in 1..Len(sent) : RangeOf(i)' = RangeOf(i)
      BY <1>2 DEF RangeOf
    <2>2. \A i \in 1..Len(sent') : i = Len(sent) + 1 => RangeOf(i)' = u.range
      BY <1>2 DEF RangeOf
    <2>3. left \in Nat /\ left' \in Nat /\ RangesOK
      BY DEF SendInv, SentOK
    <2>4. \A i \in 1..Len(sent) : RangeOf(i) = None \/ (RangeOf(i) \in Nat /\ RangeOf(i) > left)
      BY <2>3 DEF RangesOK
    <2>5. pc \in Before \/ pc = "open" => \A i \in 1..Len(sent) : RangeOf(i) = None
      <3>1. pc \in Before => Len(sent) = 0
        BY DEF SendInv, SentOK
      <3> QED
        BY <1>2, <2>3, <3>1 DEF RangesOK
    <2>6. pc' = "open" => Len(sent) = 0 /\ u.range = None
      BY <1>1
    <2>7. ASSUME NEW i \in 1..Len(sent')
          PROVE  RangeOf(i)' = None \/ (pc' # "open" /\ RangeOf(i)' \in Nat /\ RangeOf(i)' > left')
      <3>1. CASE i \in 1..Len(sent)
        BY <1>2, <2>1, <2>3, <2>4, <2>5, <2>6, <3>1
      <3>2. CASE i = Len(sent) + 1
        BY <2>2, <2>3, <2>6, <3>2 DEF Before, Outside
      <3> QED
        BY <1>2, <2>7, <3>1, <3>2
    <2>8. ASSUME NEW i \in 1..Len(sent'), NEW j \in 1..Len(sent'), i # j
          PROVE  RangeOf(i)' = None \/ RangeOf(i)' # RangeOf(j)'
      <3>1. CASE i \in 1..Len(sent) /\ j \in 1..Len(sent)
        BY <2>1, <2>3, <2>8, <3>1 DEF RangesOK
      <3>2. CASE i = Len(sent) + 1 /\ j \in 1..Len(sent)
        BY <2>1, <2>2, <2>3, <2>4, <3>2
      <3>3. CASE j = Len(sent) + 1 /\ i \in 1..Len(sent)
        BY <2>1, <2>2, <2>3, <2>4, <3>3
      <3> QED
        BY <1>2, <2>8, <3>1, <3>2, <3>3
    <2> QED
      BY <2>7, <2>8 DEF RangesOK
  <1>6. ASSUME NEW i \in 1..Len(sent') PROVE Faithful(sent[i].out)'
    <2>1. Faithful(sent'[i].out)
      <3>1. CASE i \in 1..Len(sent)
        BY <1>2, <3>1 DEF SendInv
      <3>2. CASE i = Len(sent) + 1
        BY <1>2, <3>2
      <3> QED
        BY <1>2, <1>6, <3>1, <3>2
    <2> QED
      BY <2>1 DEF Faithful, Meant, Lost, Reads, OnObject, Kept, HasSource
  <1> QED
    BY <1>3, <1>4, <1>5, <1>6 DEF SendInv

(* A key survives build_url if it is plain, and only then; a question mark *)
(* in it makes a query.                                                    *)
LEMMA UrlOfKey ==
  ASSUME NEW k \in Keys, k # None
  PROVE  /\ BuildUrl(k).key = k <=> k.kind = "plain"
         /\ BuildUrl(k).query = IF k.kind = "question" THEN <<KeyTail>> ELSE <<>>
  <1>1. BuildUrl(k).key = [k EXCEPT !.kind = "plain"]
    BY DEF BuildUrl
  <1>2. [k EXCEPT !.kind = "plain"] = k <=> k.kind = "plain"
    BY DEF Keys
  <1> QED
    BY <1>1, <1>2 DEF BuildUrl

(* The requests that read_range and head_object make.                      *)
LEMMA ReadFaithful ==
  ASSUME SendInv, Reads, NEW m \in {"GET", "HEAD"}, NEW range
  PROVE  LET u == [Bare(m, BuildUrl(req.key)) EXCEPT !.range = range]
         IN  Faithful(u) /\ u.range = range
  <1>1. req.key \in Keys /\ req.key # None
    BY DEF SendInv, RoutedOK, Request, Maybe, Reads, OnObject
  <1> DEFINE url == BuildUrl(req.key)
  <1>2. url.key = req.key <=> req.key.kind = "plain"
    BY <1>1, UrlOfKey
  <1> HIDE DEF url
  <1> DEFINE u == [Bare(m, url) EXCEPT !.range = range]
  <1>3. /\ u.bucket = req.bucket /\ u.method = m /\ u.headers = NoHeaders
        /\ u.key = url.key /\ u.range = range
    BY DEF Bare
  <1> HIDE DEF u
  <1>4. Faithful(u) /\ u.range = range
    BY <1>2, <1>3 DEF Faithful
  <1> QED
    BY <1>4 DEF u, url

(* HEAD is such a request without a range.                                 *)
LEMMA HeadFaithful ==
  ASSUME SendInv, Reads
  PROVE  LET u == Bare("HEAD", BuildUrl(req.key)) IN Faithful(u) /\ u.range = None
  <1>1. [Bare("HEAD", BuildUrl(req.key)) EXCEPT !.range = None] = Bare("HEAD", BuildUrl(req.key))
    BY DEF Bare
  <1> QED
    BY <1>1, ReadFaithful

LEMMA ReadSends ==
  ASSUME SendInv, HeadUpstream \/ OpenUpstream \/ ReadUpstream \/ ReadDone
  PROVE  SendInv'
  <1> USE DEF Labels, Ends, Before, Outside
  <1>1. /\ pc \in {"head", "open", "read"} /\ req.key # None
        /\ req.method \in {"GET", "HEAD"} /\ conf' = conf /\ req' = req
    BY DEF HeadUpstream, OpenUpstream, ReadUpstream, ReadDone, SendInv, RoutedOK
  <1>2. Reads
    BY <1>1 DEF Reads, OnObject
  <1>3. /\ pc = "head" => Len(sent) = 0 /\ left = 0
        /\ pc = "open" => Len(sent) = 1 /\ left = 0
        /\ left \in Nat /\ Len(sent) \in Nat /\ Len(sent) + left <= 2 + MaxChunks
        /\ MaxChunks \in Nat /\ left <= MaxChunks
    <2>1. \A S : sent \in Seq(S) => Len(sent) \in Nat
      OBVIOUS
    <2> QED
      BY <2>1, ChunksAssumption DEF SendInv, SentOK
  <1> DEFINE h == Bare("HEAD", BuildUrl(req.key))
  <1>4. Faithful(h) /\ h.range = None
    BY <1>2, HeadFaithful
  <1>5. CASE HeadUpstream
    <2> DEFINE then == {"404", "500", IF req.method = "HEAD" THEN "200" ELSE "open"}
    <2>1. SendUp(h, then) /\ pc = "head" /\ left' = left
      BY <1>5 DEF HeadUpstream
    <2> HIDE DEF h
    <2>2. GoesOn(then, h.range)
      BY <1>1, <1>3, <1>4, <2>1 DEF GoesOn
    <2> HIDE DEF then, Labels, Ends, Before, Outside
    <2> QED
      BY <1>1, <1>4, <2>1, <2>2, SendKeeps
  <1>6. CASE OpenUpstream
    <2> DEFINE then == {"500", "read"}
    <2>1. SendUp(h, then) /\ pc = "open" /\ left' \in 0..MaxChunks
      BY <1>6 DEF OpenUpstream
    <2> HIDE DEF h
    <2>2. GoesOn(then, h.range)
      <3>0. Len(sent) = 1 /\ MaxChunks \in Nat /\ left' \in 0..MaxChunks
        BY <1>3, <2>1
      <3>1. /\ left' \in Nat /\ left' <= MaxChunks
            /\ Len(sent) + 1 + left' <= 2 + MaxChunks
        <4>1. \A n \in Nat, l \in 0..MaxChunks : n = 1 => n + 1 + l <= 2 + MaxChunks
          BY ChunksAssumption
        <4>2. left' \in Nat /\ left' <= MaxChunks
          BY <3>0
        <4> QED
          BY <3>0, <4>1, <4>2
      <3>2. "open" \notin then /\ then \subseteq Labels \ Before /\ pc \notin Outside
        BY <2>1
      <3> QED
        BY <1>1, <1>4, <2>1, <3>1, <3>2 DEF GoesOn
    <2> HIDE DEF then, Labels, Ends, Before, Outside
    <2> QED
      BY <1>1, <1>4, <2>1, <2>2, SendKeeps
  <1>7. CASE ReadUpstream
    <2> DEFINE then == {"read", "broken"}
               g == [Bare("GET", BuildUrl(req.key)) EXCEPT !.range = left]
    <2>1. pc = "read" /\ left > 0 /\ left' = left - 1
      BY <1>7 DEF ReadUpstream
    <2>2. CASE SendUp(g, then)
      <3>1. Faithful(g) /\ g.range = left
        BY <1>2, ReadFaithful
      <3> HIDE DEF g
      <3>2. GoesOn(then, g.range)
        <4>1. /\ left' \in Nat /\ left' <= MaxChunks
              /\ Len(sent) + 1 + left' <= 2 + MaxChunks
          BY <1>3, <2>1
        <4>2. "open" \notin then /\ then \subseteq Labels \ Before /\ pc \notin Outside
          BY <2>1
        <4> QED
          BY <1>1, <2>1, <3>1, <4>1, <4>2 DEF GoesOn
      <3> HIDE DEF then, Labels, Ends, Before, Outside
      <3> QED
        BY <1>1, <2>2, <3>1, <3>2, SendKeeps
    <2>3. CASE pc' \in then /\ UNCHANGED sent
      <3>1. SentOK' /\ RoutedOK'
        BY <1>1, <1>3, <2>1, <2>3 DEF SendInv, SentOK, RoutedOK
      <3>2. RangesOK'
        <4>1. pc' # "open" /\ sent' = sent /\ left \in Nat /\ left' = left - 1 /\ left > 0
          BY <1>3, <2>1, <2>3
        <4>2. RangesOK
          BY DEF SendInv
        <4> QED
          BY <4>1, <4>2 DEF RangesOK, RangeOf
      <3> QED
        BY <1>1, <2>3, <3>1, <3>2
           DEF SendInv, Faithful, Meant, Lost, Reads, OnObject, Kept, HasSource
    <2> QED
      BY <1>7, <2>2, <2>3 DEF ReadUpstream
  <1>8. CASE ReadDone
    <2>1. pc = "read" /\ pc' = "200" /\ UNCHANGED <<left, sent>>
      BY <1>8 DEF ReadDone
    <2>2. SentOK' /\ RoutedOK'
      BY <1>1, <2>1 DEF SendInv, SentOK, RoutedOK
    <2>3. RangesOK'
      BY <2>1 DEF SendInv, RangesOK, RangeOf
    <2> QED
      BY <1>1, <2>1, <2>2, <2>3
         DEF SendInv, Faithful, Meant, Lost, Reads, OnObject, Kept, HasSource
  <1> QED
    BY <1>5, <1>6, <1>7, <1>8

(* When a field is lost, by the field.                                     *)
QueryLost ==
  \/ (OnObject \/ req.bucket = None) /\ req.query # <<>>
  \/ OnObject /\ req.key.kind = "question"
  \/ ~OnObject /\ req.bucket # None /\ req.auth = "query"

HeadersLost ==
  \/ \E h \in HeaderNames \ Kept : req.headers[h] # <<>>
  \/ \E h \in Kept : Len(req.headers[h]) > 1
  \/ OnObject /\ \E h \in Kept : FirstValue(req.headers[h]) # req.headers[h]

CopyLost == req.copy # None /\ (req.copy.bucket = None \/ req.copy.version # None)

(* A write is faithful if each of its fields is.                           *)
LEMMA FieldsFaithful ==
  ASSUME NEW u, ~Reads, u.method = req.method, u.bucket = req.bucket,
         u.key = req.key <=> ~(OnObject /\ req.key.kind # "plain"),
         u.query = req.query <=> ~QueryLost,
         u.headers = req.headers <=> ~HeadersLost,
         u.copy = req.copy <=> ~CopyLost,
         u.body = (IF HasSource(req) THEN "none" ELSE req.body)
           <=> ~(~OnObject /\ req.body = "big")
  PROVE  Faithful(u)
  <1> DEFINE fields == {"method", "bucket", "key", "query", "headers", "copy", "body"}
  <1>1. DOMAIN Meant = fields
    BY DEF Meant
  <1>2. /\ Meant["method"] = req.method /\ Meant["bucket"] = req.bucket
        /\ Meant["key"] = req.key /\ Meant["query"] = req.query
        /\ Meant["headers"] = req.headers /\ Meant["copy"] = req.copy
        /\ Meant["body"] = IF HasSource(req) THEN "none" ELSE req.body
    BY DEF Meant
  <1>3. Lost =
          {f \in fields : \/ f = "key" /\ OnObject /\ req.key.kind # "plain"
                          \/ f = "query" /\ QueryLost
                          \/ f = "headers" /\ HeadersLost
                          \/ f = "copy" /\ CopyLost
                          \/ f = "body" /\ ~OnObject /\ req.body = "big"}
    BY <1>1 DEF Lost, QueryLost, HeadersLost, CopyLost
  <1>4. ASSUME NEW f \in fields PROVE u[f] # Meant[f] <=> f \in Lost
    <2>1. CASE f = "method" \/ f = "bucket"
      BY <1>2, <1>3, <2>1
    <2>2. CASE f = "key"
      BY <1>2, <1>3, <2>2
    <2>3. CASE f = "query"
      BY <1>2, <1>3, <2>3
    <2>4. CASE f = "headers"
      BY <1>2, <1>3, <2>4
    <2>5. CASE f = "copy"
      BY <1>2, <1>3, <2>5
    <2>6. CASE f = "body"
      BY <1>2, <1>3, <2>6
    <2> QED
      BY <1>4, <2>1, <2>2, <2>3, <2>4, <2>5, <2>6
  <1>5. Lost \subseteq fields
    BY <1>3
  <1>6. {f \in DOMAIN Meant : u[f] # Meant[f]} = Lost
    BY <1>1, <1>4, <1>5
  <1> QED
    BY <1>6 DEF Faithful

(* The types of the client's query, headers and copy source.               *)
LEMMA RequestTypes ==
  ASSUME req \in Request
  PROVE  /\ req.query \in Seq(Params)
         /\ req.headers \in [HeaderNames -> Seq(Values)]
         /\ req.key # None => req.key \in Keys
         /\ req.copy # None =>
              req.copy = [bucket |-> req.copy.bucket, name |-> req.copy.name,
                          version |-> req.copy.version]
  <1>1. /\ req.query \in Queries /\ req.headers \in Headers
        /\ req.key \in Maybe(Keys) /\ req.copy \in Maybe(Copies)
    BY DEF Request
  <1> QED
    BY <1>1, QueriesAssumption, HeadersAssumption, CopiesAssumption DEF Maybe

(* What follows a question mark in a key is no query of a client.          *)
LEMMA KeyTailIsNew ==
  ASSUME NEW q \in Seq(Params)
  PROVE  q # <<KeyTail>>
  <1>1. SUFFICES ASSUME q = <<KeyTail>> PROVE FALSE
    OBVIOUS
  <1>2. Len(q) = 1 /\ q[1] = KeyTail
    BY <1>1
  <1>3. q[1] \in Params
    BY <1>2
  <1>4. \A p \in Params : p[1] \in 3..MaxName
    BY DEF Params
  <1>5. KeyTail[1] \in 3..MaxName
    BY <1>2, <1>3, <1>4
  <1> QED
    BY <1>5, ChunksAssumption DEF KeyTail

(* The object handlers send no query of the client.                        *)
LEMMA ObjectUrl ==
  ASSUME req \in Request, OnObject
  PROVE  LET url == BuildUrl(req.key) IN
         /\ url.key = req.key <=> ~(OnObject /\ req.key.kind # "plain")
         /\ url.query = req.query <=> ~QueryLost
  <1>1. req.query \in Seq(Params) /\ req.key \in Keys /\ req.key # None
    BY RequestTypes DEF OnObject
  <1>2. /\ BuildUrl(req.key).key = req.key <=> req.key.kind = "plain"
        /\ BuildUrl(req.key).query = IF req.key.kind = "question" THEN <<KeyTail>> ELSE <<>>
    BY <1>1, UrlOfKey
  <1>3. req.query # <<KeyTail>>
    BY <1>1, KeyTailIsNew
  <1> QED
    BY <1>2, <1>3 DEF QueryLost, OnObject

(* The headers that each route sends are the client's unless they are lost. *)
LEMMA NoneKept ==
  ASSUME req \in Request, Kept = {}
  PROVE  NoHeaders = req.headers <=> ~HeadersLost
  <1>1. req.headers \in [HeaderNames -> Seq(Values)]
    BY RequestTypes
  <1>2. NoHeaders = req.headers <=> \A h \in HeaderNames : req.headers[h] = <<>>
    BY <1>1 DEF NoHeaders
  <1> QED
    BY <1>2 DEF HeadersLost

LEMMA ContentTypeKept ==
  ASSUME req \in Request, OnObject, Kept = {"content-type"}
  PROVE  [NoHeaders EXCEPT !["content-type"] = FirstValue(req.headers["content-type"])]
           = req.headers <=> ~HeadersLost
  <1>1. req.headers \in [HeaderNames -> Seq(Values)]
    BY RequestTypes
  <1> DEFINE ct == req.headers["content-type"]
             hs == [NoHeaders EXCEPT !["content-type"] = FirstValue(ct)]
  <1>2. /\ hs = [h \in HeaderNames |-> IF h = "content-type" THEN FirstValue(ct) ELSE <<>>]
        /\ "content-type" \in HeaderNames
    BY DEF NoHeaders, HeaderNames
  <1>3. ct \in Seq(Values)
    BY <1>1, <1>2
  <1>4. FirstValue(ct) = ct => ~(Len(ct) > 1)
    <2>1. CASE ct = <<>> \/ ct[1] = "opaque"
      <3>1. FirstValue(ct) = <<>>
        BY <2>1 DEF FirstValue
      <3>2. Len(FirstValue(ct)) = 0
        BY <3>1
      <3> QED
        BY <3>2
    <2>2. CASE ~(ct = <<>> \/ ct[1] = "opaque")
      <3>1. FirstValue(ct) = <<ct[1]>>
        BY <2>2 DEF FirstValue
      <3>2. Len(FirstValue(ct)) = 1
        BY <3>1
      <3>3. ~(1 > 1)
        OBVIOUS
      <3> HIDE DEF ct
      <3>4. FirstValue(ct) = ct => Len(ct) = 1
        BY <3>2
      <3> QED
        BY <3>3, <3>4
    <2> QED
      BY <2>1, <2>2
  <1> HIDE DEF ct, hs
  <1>5. hs = req.headers <=> /\ FirstValue(ct) = ct
                             /\ \A h \in HeaderNames \ {"content-type"} : req.headers[h] = <<>>
    BY <1>1, <1>2 DEF ct
  <1>6. HeadersLost <=> \/ \E h \in HeaderNames \ {"content-type"} : req.headers[h] # <<>>
                        \/ Len(ct) > 1
                        \/ FirstValue(ct) # ct
    BY DEF HeadersLost, ct
  <1>7. hs = req.headers <=> ~HeadersLost
    BY <1>4, <1>5, <1>6
  <1> QED
    BY <1>7 DEF hs, ct

LEMMA PlainKept ==
  ASSUME req \in Request, ~OnObject
  PROVE  OutHeaders(req) = req.headers <=> ~HeadersLost
  <1>1. req.headers \in [HeaderNames -> Seq(Values)]
    BY RequestTypes
  <1>2. Kept = HeaderNames \ {"x-amz-acl"}
    BY DEF Kept
  <1> DEFINE v(h) == req.headers[h]
             o(h) == IF h = "x-amz-acl" \/ v(h) = <<>> THEN <<>> ELSE <<Last(v(h))>>
  <1>3. ASSUME NEW h \in HeaderNames
        PROVE  o(h) = v(h) <=> IF h \in Kept THEN ~(Len(v(h)) > 1) ELSE v(h) = <<>>
    <2>1. v(h) \in Seq(Values)
      BY <1>1, <1>3
    <2>2. CASE h \notin Kept
      BY <1>2, <1>3, <2>2
    <2>3. CASE h \in Kept /\ v(h) = <<>>
      BY <1>2, <2>3
    <2>4. CASE h \in Kept /\ v(h) # <<>>
      <3>1. Len(v(h)) \in Nat /\ Len(v(h)) > 0
        BY <2>1, <2>4
      <3>2. o(h) = <<v(h)[Len(v(h))]>>
        BY <1>2, <2>4 DEF Last
      <3>3. Len(o(h)) = 1
        BY <3>2
      <3>4. Len(v(h)) = 1 => v(h) = <<v(h)[1]>>
        BY <2>1
      <3>5. ~(Len(v(h)) > 1) <=> Len(v(h)) = 1
        <4>1. \A n \in Nat : n > 0 => (~(n > 1) <=> n = 1)
          OBVIOUS
        <4> QED
          BY <3>1, <4>1
      <3>6. o(h) = v(h) => Len(v(h)) = 1
        <4> HIDE DEF v, o
        <4> QED
          BY <3>3
      <3>7. Len(v(h)) = 1 => o(h) = v(h)
        BY <3>2, <3>4
      <3> HIDE DEF v, o
      <3> QED
        BY <2>4, <3>5, <3>6, <3>7
    <2> QED
      BY <2>2, <2>3, <2>4
  <1>4. OutHeaders(req) = [h \in HeaderNames |-> o(h)]
    BY DEF OutHeaders
  <1> HIDE DEF o
  <1>5. OutHeaders(req) = req.headers <=> \A h \in HeaderNames : o(h) = v(h)
    BY <1>1, <1>4
  <1>6. HeadersLost <=> \/ \E h \in HeaderNames \ Kept : v(h) # <<>>
                        \/ \E h \in Kept : Len(v(h)) > 1
    BY DEF HeadersLost
  <1> HIDE DEF v
  <1> QED
    BY <1>2, <1>3, <1>5, <1>6

(* put_object_handler without a source.                                    *)
LEMMA StoredFaithful ==
  ASSUME req \in Request, OnObject, req.method = "PUT", ~HasSource(req)
  PROVE  LET u == [Bare("PUT", BuildUrl(req.key)) EXCEPT
                     !.body = req.body,
                     !.headers["content-type"] = FirstValue(req.headers["content-type"])]
         IN  Faithful(u) /\ u.range = None
  <1> DEFINE url == BuildUrl(req.key)
             ct == FirstValue(req.headers["content-type"])
             u == [Bare("PUT", url) EXCEPT !.body = req.body, !.headers["content-type"] = ct]
             hs == [NoHeaders EXCEPT !["content-type"] = ct]
  <1>1. /\ url.key = req.key <=> ~(OnObject /\ req.key.kind # "plain")
        /\ url.query = req.query <=> ~QueryLost
    BY ObjectUrl
  <1>2. hs = req.headers <=> ~HeadersLost
    <2>1. Kept = {"content-type"}
      BY DEF Kept
    <2> QED
      BY <2>1, ContentTypeKept
  <1>3. None = req.copy <=> ~CopyLost
    BY DEF CopyLost, HasSource
  <1>4. /\ u.method = "PUT" /\ u.bucket = req.bucket /\ u.key = url.key
        /\ u.query = url.query /\ u.headers = hs /\ u.copy = None /\ u.body = req.body
        /\ u.range = None
    BY DEF Bare
  <1>5. ~Reads
    BY DEF Reads
  <1> HIDE DEF u, url, hs, ct
  <1>6. Faithful(u) /\ u.range = None
    BY <1>1, <1>2, <1>3, <1>4, <1>5, FieldsFaithful
  <1> QED
    BY <1>6 DEF u, url, ct

(* put_object_handler with a source: the version is lost, if there is one. *)
LEMMA CopiedFaithful ==
  ASSUME req \in Request, OnObject, req.method = "PUT", HasSource(req)
  PROVE  LET u == [Bare("PUT", BuildUrl(req.key)) EXCEPT
                     !.copy = [req.copy EXCEPT !.version = None]]
         IN  Faithful(u) /\ u.range = None
  <1> DEFINE url == BuildUrl(req.key)
             c == [req.copy EXCEPT !.version = None]
             u == [Bare("PUT", url) EXCEPT !.copy = c]
  <1>1. /\ url.key = req.key <=> ~(OnObject /\ req.key.kind # "plain")
        /\ url.query = req.query <=> ~QueryLost
    BY ObjectUrl
  <1>2. NoHeaders = req.headers <=> ~HeadersLost
    BY NoneKept DEF Kept
  <1>3. c = req.copy <=> ~CopyLost
    <2> DEFINE s == req.copy
    <2>1. /\ s = [bucket |-> s.bucket, name |-> s.name, version |-> s.version]
          /\ s # None /\ s.bucket # None
      BY RequestTypes DEF HasSource
    <2>2. CopyLost <=> s.version # None
      BY <2>1 DEF CopyLost
    <2> HIDE DEF s
    <2>3. [s EXCEPT !.version = None] = s <=> s.version = None
      BY <2>1
    <2> QED
      BY <2>2, <2>3 DEF s
  <1>4. /\ u.method = "PUT" /\ u.bucket = req.bucket /\ u.key = url.key
        /\ u.query = url.query /\ u.headers = NoHeaders /\ u.copy = c /\ u.body = "none"
        /\ u.range = None
    BY DEF Bare
  <1>5. ~Reads
    BY DEF Reads
  <1> HIDE DEF u, url, c
  <1>6. Faithful(u) /\ u.range = None
    BY <1>1, <1>2, <1>3, <1>4, <1>5, FieldsFaithful
  <1> QED
    BY <1>6 DEF u, url, c

LEMMA DeleteFaithful ==
  ASSUME req \in Request, OnObject, req.method = "DELETE", req.copy = None,
         req.body = "none"
  PROVE  LET u == Bare("DELETE", BuildUrl(req.key)) IN Faithful(u) /\ u.range = None
  <1> DEFINE url == BuildUrl(req.key)
             u == Bare("DELETE", url)
  <1>1. /\ url.key = req.key <=> ~(OnObject /\ req.key.kind # "plain")
        /\ url.query = req.query <=> ~QueryLost
    BY ObjectUrl
  <1>2. NoHeaders = req.headers <=> ~HeadersLost
    BY NoneKept DEF Kept
  <1>3. ~HasSource(req) /\ ~CopyLost /\ ~Reads
    BY DEF HasSource, CopyLost, Reads
  <1>4. /\ u.method = "DELETE" /\ u.bucket = req.bucket /\ u.key = url.key
        /\ u.query = url.query /\ u.headers = NoHeaders /\ u.copy = None
        /\ u.body = "none" /\ u.range = None
    BY DEF Bare
  <1> HIDE DEF u, url
  <1>5. Faithful(u) /\ u.range = None
    BY <1>1, <1>2, <1>3, <1>4, FieldsFaithful
  <1> QED
    BY <1>5 DEF u, url

(* proxy_request.                                                          *)
LEMMA FallbackFaithful ==
  ASSUME req \in Request, ~OnObject, req.copy = None
  PROVE  LET u == [Bare(req.method, BuildUrl(None)) EXCEPT
                     !.query = IF req.bucket = None THEN <<>> ELSE Query(req),
                     !.headers = OutHeaders(req),
                     !.body = IF req.body = "big" THEN "none" ELSE req.body]
         IN  Faithful(u) /\ u.range = None
  <1> DEFINE url == BuildUrl(None)
             q == IF req.bucket = None THEN <<>> ELSE Query(req)
             b == IF req.body = "big" THEN "none" ELSE req.body
             hs == OutHeaders(req)
             u == [Bare(req.method, url) EXCEPT !.query = q, !.headers = hs, !.body = b]
  <1>1. url.key = req.key
    BY DEF BuildUrl, OnObject
  <1>2. q = req.query <=> ~QueryLost
    <2>1. req.query \in Seq(Params)
      BY RequestTypes
    <2>2. CASE req.bucket = None
      BY <2>2 DEF QueryLost
    <2>3. CASE req.bucket # None /\ req.auth = "query"
      <3> DEFINE s == <<Credential, SignatureParam>>
                 V == Params \cup {Credential, SignatureParam}
      <3>1. q = req.query \o s
        BY <2>3 DEF Query
      <3>2. req.query \in Seq(V) /\ s \in Seq(V) /\ Len(s) = 2
        BY <2>1, SeqMonotonic
      <3> HIDE DEF s, q, V
      <3>3. Len(q) = Len(req.query) + 2 /\ Len(req.query) \in Nat
        <4>1. Len(req.query \o s) = Len(req.query) + Len(s)
          BY <3>2, ConcatProperties
        <4> QED
          BY <3>1, <3>2, <4>1
      <3>4. q # req.query
        <4>1. \A n \in Nat : n # n + 2
          OBVIOUS
        <4> QED
          BY <3>3, <4>1
      <3> QED
        BY <2>3, <3>4 DEF QueryLost
    <2>4. CASE req.bucket # None /\ req.auth # "query"
      <3>1. q = req.query \o <<>>
        BY <2>4 DEF Query
      <3>2. req.query \o <<>> = req.query
        BY <2>1, ConcatEmptySeq
      <3> QED
        BY <2>4, <3>1, <3>2 DEF QueryLost
    <2> QED
      BY <2>2, <2>3, <2>4
  <1>3. hs = req.headers <=> ~HeadersLost
    BY PlainKept
  <1>4. ~HasSource(req) /\ ~CopyLost /\ ~Reads
    BY DEF HasSource, CopyLost, Reads
  <1>5. b = req.body <=> req.body # "big"
    OBVIOUS
  <1>6. /\ u.method = req.method /\ u.bucket = req.bucket /\ u.key = url.key
        /\ u.query = q /\ u.headers = hs /\ u.copy = None /\ u.body = b /\ u.range = None
    BY DEF Bare
  <1> HIDE DEF u, url, q, b, hs
  <1>7. Faithful(u) /\ u.range = None
    BY <1>1, <1>2, <1>3, <1>4, <1>5, <1>6, FieldsFaithful
  <1> QED
    BY <1>7 DEF u, url, q, b, hs

LEMMA WriteSends ==
  ASSUME SendInv, PutUpstream \/ DeleteUpstream \/ Fallback
  PROVE  SendInv'
  <1> USE DEF Labels, Ends, Before, Outside
  <1>1. /\ req \in Request /\ conf' = conf /\ req' = req /\ left' = left
        /\ sent = <<>> /\ Len(sent) = 0 /\ left = 0
        /\ pc \in {"put", "delete", "fallback"}
    BY DEF PutUpstream, DeleteUpstream, Fallback, SendInv, RoutedOK, SentOK
  <1>2. ASSUME NEW u, NEW then, SendUp(u, then), then \subseteq {"200", "404", "500"},
               Faithful(u) /\ u.range = None
        PROVE  SendInv'
    <2>1. GoesOn(then, u.range)
      <3>1. left' = 0 /\ 0 <= MaxChunks /\ Len(sent) + 1 + 0 <= 2 + MaxChunks
        BY <1>1, ChunksAssumption
      <3> QED
        BY <1>1, <1>2, <3>1 DEF GoesOn
    <2> QED
      BY <1>1, <1>2, <2>1, SendKeeps
  <1>3. CASE PutUpstream
    <2>1. OnObject /\ req.method = "PUT"
      BY <1>3 DEF PutUpstream, SendInv, RoutedOK, OnObject
    <2> DEFINE copied == [Bare("PUT", BuildUrl(req.key)) EXCEPT
                            !.copy = [req.copy EXCEPT !.version = None]]
               stored == [Bare("PUT", BuildUrl(req.key)) EXCEPT
                            !.body = req.body,
                            !.headers["content-type"] =
                              FirstValue(req.headers["content-type"])]
    <2>2. SendUp(IF HasSource(req) THEN copied ELSE stored, {"200", "500"})
      BY <1>3 DEF PutUpstream
    <2>3. HasSource(req) => Faithful(copied) /\ copied.range = None
      BY <1>1, <2>1, CopiedFaithful
    <2>4. ~HasSource(req) => Faithful(stored) /\ stored.range = None
      BY <1>1, <2>1, StoredFaithful
    <2> HIDE DEF copied, stored
    <2> QED
      BY <1>2, <2>2, <2>3, <2>4
  <1>4. CASE DeleteUpstream
    <2>1. OnObject /\ req.method = "DELETE" /\ req.copy = None /\ req.body = "none"
      BY <1>4 DEF DeleteUpstream, SendInv, RoutedOK, OnObject
    <2> DEFINE u == Bare("DELETE", BuildUrl(req.key))
    <2>2. Faithful(u) /\ u.range = None
      BY <1>1, <2>1, DeleteFaithful
    <2>3. SendUp(u, {"200", "500"})
      BY <1>4 DEF DeleteUpstream
    <2> HIDE DEF u
    <2> QED
      BY <1>2, <2>2, <2>3
  <1>5. CASE Fallback
    <2>1. ~OnObject /\ req.copy = None
      BY <1>5 DEF Fallback, SendInv, RoutedOK, OnObject
    <2> DEFINE u == [Bare(req.method, BuildUrl(None)) EXCEPT
                       !.query = IF req.bucket = None THEN <<>> ELSE Query(req),
                       !.headers = OutHeaders(req),
                       !.body = IF req.body = "big" THEN "none" ELSE req.body]
    <2>2. Faithful(u) /\ u.range = None
      BY <1>1, <2>1, FallbackFaithful
    <2>3. SendUp(u, {"200", "404", "500"})
      BY <1>5 DEF Fallback
    <2> HIDE DEF u
    <2> QED
      BY <1>2, <2>2, <2>3
  <1> QED
    BY <1>3, <1>4, <1>5

LEMMA NextSends ==
  ASSUME SendInv, [Next]_vars
  PROVE  SendInv'
  <1> USE DEF Labels, Ends, Before, Outside
  <1>0. ASSUME sent' = <<>>, SentOK', RoutedOK' PROVE SendInv'
    <2>1. Len(sent') = 0
      BY <1>0
    <2>2. RangesOK' /\ \A i \in 1..Len(sent') : Faithful(sent[i].out)'
      BY <2>1 DEF RangesOK
    <2> QED
      BY <1>0, <2>2 DEF SendInv
  <1>1. CASE Arrive
    <2>1. /\ pc = "idle" /\ pc' = "auth" /\ req' \in Request /\ UNCHANGED <<conf, left, sent>>
          /\ req'.bucket = None => req'.key = None
          /\ req'.copy # None => req'.method = "PUT" /\ req'.key # None
          /\ req'.body # "none" => req'.method \in {"PUT", "POST"}
      BY <1>1 DEF Arrive
    <2>2. sent' = <<>> /\ left' = 0
      BY <2>1 DEF SendInv, SentOK
    <2>3. SentOK' /\ RoutedOK'
      BY <2>1, <2>2 DEF SendInv, SentOK, RoutedOK
    <2> QED
      BY <1>0, <2>2, <2>3
  <1>2. CASE Authenticate \/ Route
    <2>1. /\ pc \in {"auth", "route"} /\ UNCHANGED <<conf, req, left, sent>>
          /\ pc' \in {"route", "403", "405", "head", "put", "delete", "fallback"}
      BY <1>2 DEF Authenticate, Route
    <2>2. sent' = <<>> /\ left' = 0
      BY <2>1 DEF SendInv, SentOK
    <2>3. /\ pc' = "head" => req.key # None /\ req.method \in {"GET", "HEAD"}
          /\ pc' = "put" => req.key # None /\ req.method = "PUT"
          /\ pc' = "delete" => req.key # None /\ req.method = "DELETE"
          /\ pc' = "fallback" => req.key = None
      BY <1>2 DEF Authenticate, Route
    <2>4. SentOK' /\ RoutedOK'
      BY <2>1, <2>2, <2>3 DEF SendInv, SentOK, RoutedOK
    <2> QED
      BY <1>0, <2>2, <2>4
  <1>3. CASE HeadUpstream \/ OpenUpstream \/ ReadUpstream \/ ReadDone
    BY <1>3, ReadSends
  <1>4. CASE PutUpstream \/ DeleteUpstream \/ Fallback
    BY <1>4, WriteSends
  <1>5. CASE Reply
    <2>1. pc' = "idle" /\ req' = NoRequest /\ sent' = <<>> /\ left' = 0 /\ UNCHANGED conf
      BY <1>5 DEF Reply
    <2>2. NoRequest \in Request
      BY RequestsAssumption DEF NoRequest
    <2>3. /\ \E S : sent' \in Seq(S)
          /\ Len(sent') + left' <= 2 + MaxChunks /\ left' <= MaxChunks
      BY <2>1, EmptySeq, ChunksAssumption
    <2>4. SentOK' /\ RoutedOK'
      BY <2>1, <2>2, <2>3 DEF SendInv, SentOK, RoutedOK
    <2> QED
      BY <1>0, <2>1, <2>4
  <1>6. CASE UNCHANGED vars
    BY <1>6 DEF vars, SendInv, SentOK, RoutedOK, RangesOK, RangeOf, Faithful, Meant, Lost,
                Reads, OnObject, Kept, HasSource
  <1> QED
    BY <1>1, <1>2, <1>3, <1>4, <1>5, <1>6 DEF Next

LEMMA InitSends == Init => SendInv
  <1> SUFFICES ASSUME Init PROVE SendInv
    OBVIOUS
  <1>1. NoRequest \in Request
    BY RequestsAssumption DEF NoRequest
  <1>2. (\E S : sent \in Seq(S)) /\ Len(sent) = 0 /\ left = 0
    BY EmptySeq DEF Init
  <1>3. SentOK /\ RoutedOK
    BY <1>1, <1>2, ChunksAssumption DEF Init, SentOK, RoutedOK, Labels
  <1> QED
    BY <1>2, <1>3 DEF SendInv, RangesOK

LEMMA SendInvariant == Spec => []SendInv
  BY InitSends, NextSends, PTL DEF Spec

(* No request makes the proxy send more to the upstream than two HEADs, in *)
(* the handler and in read_range, and one GET for each chunk in the range. *)
THEOREM GatewayTypes == Spec => []TypeOK
  <1>1. SendInv => TypeOK
    <2>1. \A S : sent \in Seq(S) => Len(sent) \in Nat
      OBVIOUS
    <2> QED
      BY <2>1, ChunksAssumption DEF SendInv, SentOK, RoutedOK, TypeOK
  <1> QED
    BY <1>1, SendInvariant, PTL

(* For any buckets, keys, queries, headers, secrets and configurations:    *)
(* what the object handlers and the fallback send is the client's own      *)
(* request but for the fields that Lost names, which do differ; and the    *)
(* requests of a read are about its own key and a different chunk each.    *)
THEOREM TransparentAlways == Spec => []Transparent
  <1>1. ASSUME SendInv PROVE DOMAIN sent = 1..Len(sent)
    <2>1. PICK S : sent \in Seq(S)
      BY <1>1 DEF SendInv, SentOK
    <2> QED
      BY <2>1
  <1>2. SendInv => Transparent
    BY <1>1 DEF SendInv, RangesOK, RangeOf, Transparent, Faithful
  <1> QED
    BY <1>2, SendInvariant, PTL

=============================================================================
