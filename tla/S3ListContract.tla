--------------------------- MODULE S3ListContract ---------------------------
(***************************************************************************)
(* What List(recursive, incomplete) promises its caller: the stream of    *)
(* items, a function of the backend's answers, delivered one at a time in *)
(* order and then closed.  The stream is stated as a whole, the way the  *)
(* policy of the four strategies is documented in the README:             *)
(*  - root listings: ListBuckets failing yields one error item; otherwise *)
(*    every bucket, in ListBuckets order, contributes its items;          *)
(*  - a key ending in the separator is a directory in non-recursive       *)
(*    listings; recursive object listings of a bucket drop empty          *)
(*    directory markers; incomplete uploads are temporary items;          *)
(*  - recursive object listings report every error (and, at the root, a   *)
(*    GLACIER object) as an item and go on; every other listing ends      *)
(*    after its first error item.                                         *)
(***************************************************************************)
EXTENDS S3ListData, SequencesExt

VARIABLES recursive, incomplete, target, tb, bucketsOK, buckets, listing,
          received, closed

cvars == <<recursive, incomplete, target, tb, bucketsOK, buckets, listing,
           received, closed>>

\* Recursive object listings go on after an error; all others stop.
ContinuesOnError == recursive /\ ~incomplete

\* Entry j of bucket b is left out: an empty directory marker in a
\* recursive object listing of a bucket.
Dropped(b, j) ==
    LET e == listing[b][j]
    IN  ContinuesOnError /\ target # "root" /\ ~e.err /\ e.dir /\ e.zero

EntryItem(b, j) ==
    LET e == listing[b][j]
    IN  IF e.err THEN Item("err", b, j, "backend")
        ELSE IF ContinuesOnError /\ target = "root" /\ e.glacier
             THEN Item("err", b, j, "glacier")
        ELSE IF e.dir /\ ~recursive THEN Item("dir", b, j, "none")
        ELSE IF incomplete THEN Item("temp", b, j, "none")
        ELSE Item("file", b, j, "none")

\* The items of the stream of bucket b, in stream order.
BucketItems(b) ==
    LET kept == SelectSeq([j \in 1..Len(listing[b]) |-> j],
                          LAMBDA j : ~Dropped(b, j))
    IN  [k \in 1..Len(kept) |-> EntryItem(b, kept[k])]

BucketDir(b) == Item("dir", b, 0, "none")

ListBucketsError == Item("err", NoBucket, 0, "backend")

\* s up to and including its first error item.
UpToError(s) ==
    LET errs == {i \in 1..Len(s) : s[i].type = "err"}
    IN  IF errs = {} THEN s
        ELSE SubSeq(s, 1, CHOOSE i \in errs : \A k \in errs : i <= k)

PerBucket(F(_)) == FlattenSeq([i \in 1..Len(buckets) |-> F(buckets[i])])

Expected ==
    IF target = "root"
    THEN CASE ~bucketsOK -> <<ListBucketsError>>
           [] bucketsOK /\ ~recursive /\ ~incomplete ->
                 PerBucket(LAMBDA b : <<BucketDir(b)>>)
           [] bucketsOK /\ ContinuesOnError ->
                 PerBucket(LAMBDA b : <<BucketDir(b)>> \o BucketItems(b))
           [] bucketsOK /\ incomplete -> UpToError(PerBucket(BucketItems))
    ELSE CASE target = "bucket" /\ ~recursive /\ ~incomplete ->
                 IF ~bucketsOK THEN <<ListBucketsError>>
                 ELSE IF \E i \in 1..Len(buckets) : buckets[i] = tb
                      THEN <<BucketDir(tb)>> ELSE <<>>
           [] (target = "prefix" \/ recursive \/ incomplete) /\ ContinuesOnError ->
                 BucketItems(tb)
           [] (target = "prefix" \/ recursive \/ incomplete) /\ ~ContinuesOnError ->
                 UpToError(BucketItems(tb))

CInit ==
    /\ recursive \in BOOLEAN /\ incomplete \in BOOLEAN
    /\ target \in Targets /\ tb \in BucketNames
    /\ bucketsOK \in BOOLEAN
    /\ buckets \in IF bucketsOK THEN BucketSeqs ELSE {<<>>}
    /\ listing \in [BucketNames -> Streams]
    /\ received = <<>> /\ closed = FALSE

\* The caller receives the next item of the stream.
Deliver ==
    /\ ~closed /\ Len(received) < Len(Expected)
    /\ received' = Append(received, Expected[Len(received) + 1])
    /\ UNCHANGED <<recursive, incomplete, target, tb, bucketsOK, buckets,
                   listing, closed>>

\* The stream ends once all of it has been delivered.
Finish ==
    /\ ~closed /\ received = Expected
    /\ closed' = TRUE
    /\ UNCHANGED <<recursive, incomplete, target, tb, bucketsOK, buckets,
                   listing, received>>

CNext == Deliver \/ Finish

CSpec == CInit /\ [][CNext]_cvars /\ WF_cvars(CNext)
=============================================================================
