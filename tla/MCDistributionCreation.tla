------------------------ MODULE MCDistributionCreation ------------------------
(* Instances of DistributionCreation for TLC.                               *)
EXTENDS DistributionCreation, TLC

CONSTANTS client1, issuer, pds, null, x1, x2, x3, x4, x5

Bucket(n, collection) == [count |-> n, collection |-> collection]

Request(n, buckets) ==
  [issuer |-> issuer, defined |-> TRUE, packCount |-> n, buckets |-> buckets]

Four == <<x1, x2, x3, x4>>

(* Every number of packs and every count for one bucket, and templates of  *)
(* more: with widths that wrap, entries that are null, and repeated ones.   *)
AllOfOneBucket ==
  {Request(n, <<Bucket(m, Four)>>) : n \in 0..31, m \in 0..31}

OfMoreBuckets ==
  {Request(2, <<Bucket(1, <<x1, x2, x3>>), Bucket(1, <<x4, x5>>)>>),
   Request(1, <<Bucket(2, <<x1, x2, x3>>), Bucket(1, <<x4, x5>>)>>),
   Request(2, <<Bucket(1, <<x1, null, x2>>)>>),
   Request(2, <<Bucket(1, <<x1, x1, x2>>)>>),
   Request(2, <<Bucket(16, <<x1>>), Bucket(16, <<x2>>), Bucket(1, <<x3, x4>>)>>),
   Request(1, <<Bucket(3, <<x1, x2, x3>>), Bucket(31, <<x4>>), Bucket(1, <<x5>>)>>),
   Request(1, <<Bucket(31, <<x4>>), Bucket(3, <<x1, x2, x3>>)>>)}

Refusable ==
  {Request(1, <<>>), Request(1, <<Bucket(1, <<>>)>>),
   [Request(1, <<Bucket(1, <<x1>>)>>) EXCEPT !.issuer = pds],
   [Request(1, <<Bucket(1, <<x1>>)>>) EXCEPT !.defined = FALSE]}

AllRequests == AllOfOneBucket \cup OfMoreBuckets \cup Refusable
=============================================================================
