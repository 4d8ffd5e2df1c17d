------------------------------- MODULE S3List -------------------------------
(***************************************************************************)
(* The listing engine of the S3 client (cmd/client-s3.go): List(recursive, *)
(* incomplete) spawns one producer goroutine that runs one of four         *)
(* strategies (listInRoutine, listIncompleteInRoutine,                     *)
(* listIncompleteRecursiveInRoutine, listRecursiveInRoutine) and pushes   *)
(* clientContent items into an unbuffered channel read by the caller.     *)
(*                                                                         *)
(* Data is abstracted to what the strategies test: a backend entry only   *)
(* records whether its key ends in the separator (dir), whether its size  *)
(* is zero, whether its storage class is GLACIER and whether it is an     *)
(* error.  An emitted item names the bucket and the position of the       *)
(* backend entry it stands for, so that loss, duplication and order are   *)
(* observable.  The SDK's streaming listing (ListObjects, ListObjectsV2,  *)
(* ListIncompleteUploads, a goroutine of minio-go) is the sequence        *)
(* listing[b]; like the SDK, a stream ends after its error entry.         *)
(***************************************************************************)
EXTENDS S3ListData

VARIABLES
    recursive, incomplete,   \* the arguments of List
    target, tb,              \* the address of the client and its bucket
    bucketsOK, buckets,      \* outcome of ListBuckets
    listing,                 \* the SDK stream of each bucket
    pc,                      \* the producer goroutine's place
    bi, ei,                  \* its loop indices over buckets and entries
    slot,                    \* the item the producer is blocked sending
    closed,                  \* contentCh has been closed
    received                 \* the items the caller has received

backend == <<recursive, incomplete, target, tb, bucketsOK, buckets, listing>>
vars == <<recursive, incomplete, target, tb, bucketsOK, buckets, listing,
          pc, bi, ei, slot, closed, received>>

TypeOK ==
    /\ recursive \in BOOLEAN /\ incomplete \in BOOLEAN
    /\ target \in Targets /\ tb \in BucketNames
    /\ bucketsOK \in BOOLEAN /\ buckets \in BucketSeqs
    /\ listing \in [BucketNames -> Streams]
    /\ pc \in {"start", "buckets", "objects", "return", "done"}
    /\ bi \in 1..(MaxBuckets + 1)
    /\ ei \in 0..(MaxEntries + 1)
    /\ slot \in Seq(Items) /\ Len(slot) <= 1
    /\ closed \in BOOLEAN
    /\ received \in Seq(Items)

Init ==
    /\ recursive \in BOOLEAN /\ incomplete \in BOOLEAN
    /\ target \in Targets /\ tb \in BucketNames
    /\ bucketsOK \in BOOLEAN
    \* A failed ListBuckets returns a nil slice.
    /\ buckets \in IF bucketsOK THEN BucketSeqs ELSE {<<>>}
    /\ listing \in [BucketNames -> Streams]
    /\ pc = "start" /\ bi = 1 /\ ei = 1
    /\ slot = <<>> /\ closed = FALSE /\ received = <<>>

(***************************************************************************)
(* contentCh <- item: the producer offers the item and blocks until the   *)
(* caller takes it (the channel is unbuffered).                           *)
(***************************************************************************)
Send(it) == slot' = Append(slot, it)

\* Mutant of Ready: the send does not block, as if contentCh were buffered.
ReadyBuffered == TRUE

\* The producer may only take a step when it is not blocked on a send.
Ready == slot = <<>>

\* strings.HasSuffix(object.Key, separator): the key names a directory.
IsDirKey(e) == e.dir

\* Mutant of IsEmptyDirMarker: the size test is dropped.
IsEmptyDirMarkerAnySize(e) == e.dir

\* object.Size == 0 && strings.HasSuffix(object.Key, "/"): an empty
\* directory marker, skipped by the recursive listing of a bucket.
IsEmptyDirMarker(e) == e.zero /\ e.dir

\* object.StorageClass == s3StorageClassGlacier
IsGlacier(e) == e.glacier

\* return after sending the error of a stream entry.
OnEntryError == pc' = "return" /\ UNCHANGED <<bi, ei>>

\* In listRecursiveInRoutine ei = 0 marks a bucket of the root listing
\* whose directory item has not been sent yet.
FirstEntry == IF recursive /\ ~incomplete THEN 0 ELSE 1

(***************************************************************************)
(* The goroutine starts: url2BucketAndObject and the switch of each       *)
(* strategy.  In the root case ListBuckets is called; its failure is sent *)
(* as one error item and the goroutine returns.  The "bucket" case of     *)
(* listInRoutine finds the bucket among all buckets and sends it.         *)
(***************************************************************************)
Begin ==
    /\ pc = "start"
    /\ \/ /\ target = "root"
          /\ IF bucketsOK
             THEN /\ pc' = "buckets"
                  /\ ei' = FirstEntry
                  /\ UNCHANGED slot
             ELSE /\ Send(Item("err", NoBucket, 0, "backend"))
                  /\ pc' = "return"
                  /\ UNCHANGED ei
       \/ /\ target = "bucket" /\ ~recursive /\ ~incomplete
          /\ pc' = "return"
          /\ UNCHANGED ei
          \* No return after the error: the loop then ranges over nil.
          /\ IF ~bucketsOK
             THEN Send(Item("err", NoBucket, 0, "backend"))
             ELSE IF \E i \in 1..Len(buckets) : buckets[i] = tb
                  THEN Send(Item("dir", tb, 0, "none"))
                  ELSE UNCHANGED slot
       \/ /\ \/ target = "prefix"
             \/ target = "bucket" /\ (recursive \/ incomplete)
          /\ pc' = "objects"
          /\ UNCHANGED <<ei, slot>>
    /\ UNCHANGED <<backend, bi, closed, received>>

(***************************************************************************)
(* One iteration of the loop over the buckets in the root case.          *)
(***************************************************************************)
NextBucket ==
    /\ bi' = bi + 1 /\ ei' = FirstEntry /\ UNCHANGED <<pc, slot>>

RootStep ==
    /\ pc = "buckets" /\ Ready
    /\ IF bi > Len(buckets)
       THEN pc' = "return" /\ UNCHANGED <<bi, ei, slot>>
       ELSE LET b == buckets[bi]
                s == listing[b]
                e == s[ei]
            IN CASE ~recursive /\ ~incomplete ->
                      \* listInRoutine: one directory item per bucket.
                      /\ Send(Item("dir", b, 0, "none"))
                      /\ bi' = bi + 1 /\ UNCHANGED <<pc, ei>>
                 [] recursive /\ ~incomplete ->
                      \* listRecursiveInRoutine: the bucket, then its objects;
                      \* per-entry errors are sent and the loop continues.
                      IF ei = 0
                      THEN /\ Send(Item("dir", b, 0, "none"))
                           /\ ei' = 1 /\ UNCHANGED <<pc, bi>>
                      ELSE IF ei > Len(s) THEN NextBucket
                      ELSE /\ Send(IF IsGlacier(e) THEN Item("err", b, ei, "glacier")
                                   ELSE IF e.err THEN Item("err", b, ei, "backend")
                                   ELSE Item("file", b, ei, "none"))
                           /\ ei' = ei + 1 /\ UNCHANGED <<pc, bi>>
                 [] OTHER ->
                      \* listIncomplete(Recursive)InRoutine: an error ends
                      \* the whole goroutine, remaining buckets included.
                      IF ei > Len(s) THEN NextBucket
                      ELSE IF e.err
                      THEN /\ Send(Item("err", b, ei, "backend"))
                           /\ OnEntryError
                      ELSE /\ Send(IF IsDirKey(e) /\ ~recursive THEN Item("dir", b, ei, "none")
                                   ELSE Item("temp", b, ei, "none"))
                           /\ ei' = ei + 1 /\ UNCHANGED <<pc, bi>>
    /\ UNCHANGED <<backend, closed, received>>

(***************************************************************************)
(* One iteration of the loop over the SDK stream of bucket tb (the        *)
(* default case of every strategy).                                       *)
(***************************************************************************)
ObjectsStep ==
    /\ pc = "objects" /\ Ready
    /\ LET s == listing[tb]
           e == s[ei]
       IN IF ei > Len(s)
          THEN pc' = "return" /\ UNCHANGED <<ei, slot>>
          ELSE CASE ~recursive ->
                      \* listInRoutine, listIncompleteInRoutine: an error
                      \* is sent and ends the goroutine; a key ending in
                      \* the separator is a directory.
                      IF e.err
                      THEN /\ Send(Item("err", tb, ei, "backend"))
                           /\ OnEntryError
                      ELSE /\ Send(IF IsDirKey(e) THEN Item("dir", tb, ei, "none")
                                   ELSE IF incomplete THEN Item("temp", tb, ei, "none")
                                   ELSE Item("file", tb, ei, "none"))
                           /\ ei' = ei + 1 /\ UNCHANGED pc
                 [] recursive /\ incomplete ->
                      \* listIncompleteRecursiveInRoutine
                      IF e.err
                      THEN /\ Send(Item("err", tb, ei, "backend"))
                           /\ OnEntryError
                      ELSE /\ Send(Item("temp", tb, ei, "none"))
                           /\ ei' = ei + 1 /\ UNCHANGED pc
                 [] OTHER ->
                      \* listRecursiveInRoutine: errors continue; empty
                      \* directory markers are skipped.
                      /\ ei' = ei + 1 /\ UNCHANGED pc
                      /\ IF e.err THEN Send(Item("err", tb, ei, "backend"))
                         ELSE IF IsEmptyDirMarker(e) THEN UNCHANGED slot
                         ELSE Send(Item("file", tb, ei, "none"))
    /\ UNCHANGED <<backend, bi, closed, received>>

\* The deferred close(contentCh) runs once the last send has completed.
Close ==
    /\ pc = "return" /\ Ready
    /\ pc' = "done" /\ closed' = TRUE
    /\ UNCHANGED <<backend, bi, ei, slot, received>>

\* The caller receives the item the producer is blocked sending.
Receive ==
    /\ slot # <<>>
    /\ received' = Append(received, Head(slot))
    /\ slot' = Tail(slot)
    /\ UNCHANGED <<backend, pc, bi, ei, closed>>

Producer == Begin \/ RootStep \/ ObjectsStep \/ Close

Next == Producer \/ Receive

\* The producer goroutine and a caller that drains the channel are both
\* scheduled whenever they can run.
Fairness == WF_vars(Producer) /\ WF_vars(Receive)

Spec == Init /\ [][Next]_vars /\ Fairness

-----------------------------------------------------------------------------
(***************************************************************************)
(* Claims of the spec about the listing engine.                            *)
(***************************************************************************)

\* The backend entry an item stands for, if it stands for one.
FromEntry(it) == it.bucket \in BucketNames /\ it.entry \in 1..Len(listing[it.bucket])
EntryOf(it) == listing[it.bucket][it.entry]

(***************************************************************************)
(* Spec 8.4 and 4.2: in a recursive listing an object whose storage class *)
(* is GLACIER is reported as an ObjectOnGlacier error item instead of its *)
(* metadata (listRecursiveInRoutine, both its root and its bucket case).  *)
(***************************************************************************)
GlacierReported ==
    recursive /\ ~incomplete =>
        \A k \in 1..Len(received) :
            FromEntry(received[k]) /\ EntryOf(received[k]).glacier =>
                received[k].type = "err" /\ received[k].cause = "glacier"

(***************************************************************************)
(* Spec 7: a per-item listing failure is reported inline without aborting *)
(* the enumeration of its siblings.  Once a root listing of objects or     *)
(* uploads has closed, every entry of every bucket's stream has been       *)
(* reported (listIncompleteInRoutine, listIncompleteRecursiveInRoutine,   *)
(* listRecursiveInRoutine, root case).                                     *)
(***************************************************************************)
SiblingsListed ==
    closed /\ target = "root" /\ bucketsOK /\ (recursive \/ incomplete) =>
        \A i \in 1..Len(buckets) : \A j \in 1..Len(listing[buckets[i]]) :
            \E k \in 1..Len(received) :
                received[k].bucket = buckets[i] /\ received[k].entry = j
=============================================================================
