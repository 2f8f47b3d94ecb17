----------------------------- MODULE MCGateway ------------------------------
(* Instances of Gateway for TLC.                                           *)
EXTENDS Gateway

CONSTANTS a1, a2, s1, s2, b1, b2, n1, v1

NoPairs == [a \in AccessKeys |-> None]
OnePair == [NoPairs EXCEPT ![a1] = s1]
OtherPair == [NoPairs EXCEPT ![a2] = s2]

(* Each way of configuring frontend keys, alone and together, and each way *)
(* of configuring the backend's.                                           *)
MCConfigs ==
  [credentials : {NoPairs, OnePair}, envList : {NoPairs, OtherPair},
   envPair : {NoPairs, OtherPair}, backend : {s1}, aws : {None}, v4 : {TRUE}]
  \cup
  [credentials : {OnePair}, envList : {NoPairs}, envPair : {NoPairs},
   backend : {None, s1}, aws : {None, s2}, v4 : BOOLEAN]

(* No parameter, one, two in the order of their names and not, and one     *)
(* twice, in the order of its values and not.                              *)
MCQueries == {<<>>, <<<<3, 1>>>>, <<<<4, 1>>, <<3, 2>>>>,
              <<<<3, 1>>, <<3, 2>>>>, <<<<3, 2>>, <<3, 1>>>>}

(* None, each alone, one twice, and values that are not plain.             *)
MCHeaders ==
  {NoHeaders,
   [NoHeaders EXCEPT !["content-type"] = <<"plain">>],
   [NoHeaders EXCEPT !["content-type"] = <<"opaque">>],
   [NoHeaders EXCEPT !["cache-control"] = <<"plain", "spaced">>],
   [NoHeaders EXCEPT !["x-amz-acl"] = <<"plain">>, !["content-type"] = <<"plain">>],
   [NoHeaders EXCEPT !["x-amz-acl"] = <<"spaced">>]}

MCCopies == {[bucket |-> None, name |-> n1, version |-> None],
             [bucket |-> b2, name |-> n1, version |-> None],
             [bucket |-> b2, name |-> n1, version |-> v1]}
=============================================================================
