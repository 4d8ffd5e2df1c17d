----------------------------- MODULE S3ListData -----------------------------
(***************************************************************************)
(* Constants and data of the listing engine (cmd/client-s3.go, List and   *)
(* its four strategies), shared by the detailed model S3List and the     *)
(* contract S3ListContract.                                               *)
(***************************************************************************)
EXTENDS Naturals, Sequences, FiniteSets

CONSTANTS
    BucketNames,   \* names of the buckets of the account (model values)
    NoBucket,      \* the bucket of an item that stands for no bucket
    MaxEntries,    \* longest SDK listing stream of one bucket
    MaxBuckets     \* most buckets ListBuckets returns

ASSUME ConstantsAssumption ==
    /\ NoBucket \notin BucketNames
    /\ MaxEntries \in Nat
    /\ MaxBuckets \in Nat

(***************************************************************************)
(* Backend entries (minio.ObjectInfo / minio.ObjectMultipartInfo).        *)
(***************************************************************************)
\* The size matters only for keys ending in the separator (the empty
\* directory marker), the storage class only for other objects.
ObjEntries ==
    {[dir |-> FALSE, zero |-> FALSE, glacier |-> g, err |-> FALSE] : g \in BOOLEAN}
    \cup {[dir |-> TRUE, zero |-> z, glacier |-> FALSE, err |-> FALSE] : z \in BOOLEAN}
ErrEntry == [dir |-> FALSE, zero |-> TRUE, glacier |-> FALSE, err |-> TRUE]
Entries == ObjEntries \cup {ErrEntry}

\* The streams the SDK can deliver: an error entry, if any, comes last.
Streams ==
    { s \in UNION {[1..n -> Entries] : n \in 0..MaxEntries} :
        \A i \in 1..Len(s) : s[i].err => i = Len(s) }

\* ListBuckets results: sequences of distinct bucket names.
BucketSeqs ==
    { s \in UNION {[1..n -> BucketNames] : n \in 0..MaxBuckets} :
        \A i, j \in 1..Len(s) : s[i] = s[j] => i = j }

(***************************************************************************)
(* Items (clientContent).  type: os.ModeDir, 0664 file, os.ModeTemporary  *)
(* or an item carrying only Err; cause tells a backend error from the     *)
(* ObjectOnGlacier error.                                                 *)
(***************************************************************************)
Items == [type: {"dir", "file", "temp", "err"},
          bucket: BucketNames \cup {NoBucket},
          entry: 0..MaxEntries,
          cause: {"none", "backend", "glacier"}]

Item(t, b, j, c) == [type |-> t, bucket |-> b, entry |-> j, cause |-> c]

\* What url2BucketAndObject makes of the target URL: no bucket and no
\* object ("root"); a bucket, no object and no trailing separator on the
\* URL path ("bucket"); any other address in bucket tb ("prefix").
Targets == {"root", "bucket", "prefix"}
=============================================================================
