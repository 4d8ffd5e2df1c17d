---------------------------- MODULE S3List_proofs ----------------------------
(***************************************************************************)
(* Proofs about the listing engine (S3List): type correctness of the    *)
(* producer goroutines and their caller, for every set of buckets and    *)
(* every bound on the streams.                                           *)
(***************************************************************************)
EXTENDS S3List, SequenceTheorems, TLAPS

-----------------------------------------------------------------------------
(***************************************************************************)
(* Facts about the data.                                                  *)
(***************************************************************************)

\* A ListBuckets result is a sequence of bucket names no longer than
\* MaxBuckets.
LEMMA BucketSeqsFacts ==
    ASSUME NEW s \in BucketSeqs
    PROVE  s \in Seq(BucketNames) /\ Len(s) <= MaxBuckets
<1>1. PICK n \in 0..MaxBuckets : s \in [1..n -> BucketNames]
  BY DEF BucketSeqs
<1>2. s \in Seq(BucketNames)
  BY <1>1, SeqDef, ConstantsAssumption
<1>3. DOMAIN s = 1..Len(s)
  BY <1>2, LenProperties
<1>4. Len(s) = n
  BY <1>1, <1>2, <1>3, LenProperties, ConstantsAssumption
<1>. QED  BY <1>2, <1>4

\* An SDK stream is a sequence of entries no longer than MaxEntries.
LEMMA StreamsFacts ==
    ASSUME NEW s \in Streams
    PROVE  s \in Seq(Entries) /\ Len(s) <= MaxEntries
<1>1. PICK n \in 0..MaxEntries : s \in [1..n -> Entries]
  BY DEF Streams
<1>2. s \in Seq(Entries)
  BY <1>1, SeqDef, ConstantsAssumption
<1>3. DOMAIN s = 1..Len(s)
  BY <1>2, LenProperties
<1>4. Len(s) = n
  BY <1>1, <1>2, <1>3, LenProperties, ConstantsAssumption
<1>. QED  BY <1>2, <1>4

\* The tests the strategies make of an entry are Boolean.
LEMMA EntryFields ==
    ASSUME NEW e \in Entries
    PROVE  /\ e.dir \in BOOLEAN /\ e.zero \in BOOLEAN
           /\ e.glacier \in BOOLEAN /\ e.err \in BOOLEAN
<1>1. CASE \E g \in BOOLEAN :
             e = [dir |-> FALSE, zero |-> FALSE, glacier |-> g, err |-> FALSE]
  BY <1>1
<1>2. CASE \E z \in BOOLEAN :
             e = [dir |-> TRUE, zero |-> z, glacier |-> FALSE, err |-> FALSE]
  BY <1>2
<1>3. CASE e = ErrEntry
  BY <1>3 DEF ErrEntry
<1>. QED  BY <1>1, <1>2, <1>3 DEF Entries, ObjEntries

\* Entry i of the stream of bucket b, for a stream of a well-typed state.
LEMMA StreamEntry ==
    ASSUME TypeOK, NEW b \in BucketNames, NEW i \in 1..Len(listing[b])
    PROVE  /\ listing[b][i] \in Entries
           /\ i \in 0..MaxEntries
           /\ Len(listing[b]) \in 0..MaxEntries
<1>1. listing[b] \in Streams
  BY DEF TypeOK
<1>. QED  BY <1>1, StreamsFacts, ElementOfSeq, LenProperties, ConstantsAssumption

-----------------------------------------------------------------------------
(***************************************************************************)
(* Type correctness.  TypeOK is not inductive by itself: Begin sends      *)
(* without waiting for the channel, which is sound only because nothing  *)
(* has been sent before the goroutine starts.                             *)
(***************************************************************************)
TypeInv ==
    /\ TypeOK
    /\ pc = "start" => slot = <<>>
    /\ pc \in {"start", "objects"} => ei >= 1

LEMMA TypeInit == Init => TypeInv
<1>. SUFFICES ASSUME Init PROVE TypeInv
  OBVIOUS
<1>1. buckets \in BucketSeqs
  <2>1. <<>> \in BucketSeqs
    BY ConstantsAssumption DEF BucketSeqs
  <2>. QED  BY <2>1 DEF Init
<1>2. <<>> \in Seq(Items)
  BY EmptySeq
<1>3. /\ bi \in 1..(MaxBuckets + 1)
      /\ ei \in 0..(MaxEntries + 1)
  BY ConstantsAssumption DEF Init
<1>4. slot \in Seq(Items) /\ Len(slot) <= 1 /\ received \in Seq(Items)
  BY <1>2, EmptySeq DEF Init
<1>5. /\ recursive \in BOOLEAN /\ incomplete \in BOOLEAN
      /\ target \in Targets /\ tb \in BucketNames
      /\ bucketsOK \in BOOLEAN /\ listing \in [BucketNames -> Streams]
      /\ pc \in {"start", "buckets", "objects", "return", "done"}
      /\ closed \in BOOLEAN /\ (pc = "start" => slot = <<>>)
  BY DEF Init
<1>6. pc \in {"start", "objects"} => ei >= 1
  BY DEF Init
<1>. QED  BY <1>1, <1>3, <1>4, <1>5, <1>6 DEF TypeInv, TypeOK

\* A send into the empty channel leaves one well-typed item pending.
LEMMA SendTyped ==
    ASSUME NEW sl, sl = <<>>, NEW it \in Items
    PROVE  Append(sl, it) \in Seq(Items) /\ Len(Append(sl, it)) <= 1
BY EmptySeq, AppendProperties

ItemTypes == {"dir", "file", "temp", "err"}
Causes == {"none", "backend", "glacier"}

\* A step of a loop over bucket b either sends nothing or sends one item
\* standing for entry j of b.
SendsAt(b, j) ==
    \/ slot' = slot
    \/ \E t \in ItemTypes, c \in Causes : slot' = Append(slot, Item(t, b, j, c))

LEMMA SendsAtTyped ==
    ASSUME slot = <<>>, NEW b \in BucketNames, NEW j \in 0..MaxEntries, SendsAt(b, j)
    PROVE  slot' \in Seq(Items) /\ Len(slot') <= 1
<1>1. CASE slot' = slot
  BY <1>1, EmptySeq
<1>2. ASSUME NEW t \in ItemTypes, NEW c \in Causes,
             slot' = Append(slot, Item(t, b, j, c))
      PROVE  slot' \in Seq(Items) /\ Len(slot') <= 1
  <2>1. Item(t, b, j, c) \in Items
    BY DEF Item, Items, ItemTypes, Causes
  <2>. QED  BY <1>2, <2>1, SendTyped
<1>. QED  BY <1>1, <1>2 DEF SendsAt

\* The bucket of the current iteration of the root loop.
LEMMA CurrentBucket ==
    ASSUME TypeOK, NEW i \in 1..Len(buckets)
    PROVE  buckets[i] \in BucketNames /\ i + 1 \in 1..(MaxBuckets + 1)
<1>1. buckets \in Seq(BucketNames) /\ Len(buckets) <= MaxBuckets
  BY BucketSeqsFacts DEF TypeOK
<1>. QED  BY <1>1, ElementOfSeq, LenProperties, ConstantsAssumption

LEMMA TypeStep == TypeInv /\ [Next]_vars => TypeInv'
<1>. SUFFICES ASSUME TypeInv, [Next]_vars PROVE TypeInv'
  OBVIOUS
<1>0. TypeOK  BY DEF TypeInv
<1>. recursive \in BOOLEAN /\ incomplete \in BOOLEAN  BY <1>0 DEF TypeOK
<1>. bi \in Nat /\ ei \in Nat /\ Len(buckets) \in Nat
  BY <1>0, BucketSeqsFacts, LenProperties, ConstantsAssumption DEF TypeOK
<1>1. CASE Begin
  <2>1. slot = <<>>  BY <1>1 DEF Begin, TypeInv
  <2>2. Item("err", NoBucket, 0, "backend") \in Items
    BY ConstantsAssumption DEF Items, Item
  <2>3. Item("dir", tb, 0, "none") \in Items
    BY <1>0, ConstantsAssumption DEF Items, Item, TypeOK
  <2>4. slot' \in Seq(Items) /\ Len(slot') <= 1
    <3>1. CASE slot' = slot
      BY <2>1, <3>1, EmptySeq
    <3>2. CASE slot' = Append(slot, Item("err", NoBucket, 0, "backend"))
      BY <2>1, <2>2, <3>2, SendTyped
    <3>3. CASE slot' = Append(slot, Item("dir", tb, 0, "none"))
      BY <2>1, <2>3, <3>3, SendTyped
    <3>. QED  BY <1>1, <3>1, <3>2, <3>3 DEF Begin, Send
  <2>5. ei' \in 0..(MaxEntries + 1)
    BY <1>0, <1>1, ConstantsAssumption DEF Begin, FirstEntry, TypeOK
  <2>. QED  BY <1>0, <1>1, <2>4, <2>5 DEF Begin, TypeInv, TypeOK, backend
<1>2. CASE RootStep
  <2>1. slot = <<>>  BY <1>2 DEF RootStep, Ready
  <2>2. CASE bi > Len(buckets)
    BY <1>0, <1>2, <2>2 DEF RootStep, TypeInv, TypeOK, backend
  <2>3. CASE bi <= Len(buckets)
    <3>. DEFINE b == buckets[bi]
                s == listing[b]
    <3>1. bi \in 1..Len(buckets)  BY <1>0, <2>3 DEF TypeOK
    <3>2. b \in BucketNames /\ bi + 1 \in 1..(MaxBuckets + 1)
      BY <1>0, <3>1, CurrentBucket
    <3>3. Len(s) \in 0..MaxEntries
      <4>1. s \in Streams  BY <1>0, <3>2 DEF TypeOK
      <4>. QED  BY <4>1, StreamsFacts, LenProperties
    <3>4. ei \in 0..Len(s) => ei \in 0..MaxEntries  BY <3>3, ConstantsAssumption
    <3>. DEFINE e == s[ei]
    <3>0. pc = "buckets" /\ UNCHANGED <<backend, closed, received>>
      BY <1>2 DEF RootStep
    <3>5. /\ SendsAt(b, 0) \/ (ei \in 0..Len(s) /\ SendsAt(b, ei))
          /\ bi' \in 1..(MaxBuckets + 1)
          /\ ei' \in 0..(MaxEntries + 1)
          /\ pc' \in {"buckets", "return"}
      <4>b. CASE ~recursive /\ ~incomplete
        <5>1. /\ slot' = Append(slot, Item("dir", b, 0, "none"))
              /\ bi' = bi + 1 /\ UNCHANGED <<pc, ei>>
          BY <1>2, <2>3, <4>b, SMTT(20) DEF RootStep, Send
        <5>. QED  BY <1>0, <3>0, <3>2, <5>1, ConstantsAssumption DEF SendsAt, ItemTypes, Causes, TypeOK
      <4>c. CASE recursive /\ ~incomplete
        <5>1. CASE ei = 0
          <6>1. /\ slot' = Append(slot, Item("dir", b, 0, "none"))
                /\ ei' = 1 /\ UNCHANGED <<pc, bi>>
            BY <1>2, <2>3, <4>c, <5>1, SMTT(20) DEF RootStep, Send
          <6>. QED  BY <1>0, <6>1, <3>0, <3>1, <3>2, <3>3, ConstantsAssumption DEF SendsAt, ItemTypes, Causes, TypeOK
        <5>2. CASE ei > Len(s)
          <6>1. bi' = bi + 1 /\ ei' = FirstEntry /\ UNCHANGED <<pc, slot>>
            BY <1>2, <2>3, <4>c, <5>2, SMTT(20) DEF RootStep, NextBucket
          <6>. QED  BY <3>2, <6>1, <1>0, <3>0, <3>1, <3>2, <3>3, ConstantsAssumption DEF SendsAt, FirstEntry, TypeOK
        <5>3. CASE ei # 0 /\ ei <= Len(s)
          <6>1. /\ slot' = Append(slot, IF IsGlacier(e) THEN Item("err", b, ei, "glacier")
                                      ELSE IF e.err THEN Item("err", b, ei, "backend")
                                      ELSE Item("file", b, ei, "none"))
                /\ ei' = ei + 1 /\ UNCHANGED <<pc, bi>>
            BY <1>2, <2>3, <4>c, <5>3, SMTT(20) DEF RootStep, Send
          <6>2. ei \in 0..Len(s) /\ SendsAt(b, ei)
            BY <1>0, <5>3, <6>1 DEF SendsAt, ItemTypes, Causes, TypeOK
          <6>. QED  BY <1>0, <3>3, <5>3, <6>1, <6>2, <3>0, <3>1, <3>2, <3>3, ConstantsAssumption DEF TypeOK
        <5>. QED  BY <5>1, <5>2, <5>3, <1>0 DEF TypeOK
      <4>d. CASE incomplete
        <5>1. CASE ei > Len(s)
          <6>1. bi' = bi + 1 /\ ei' = FirstEntry /\ UNCHANGED <<pc, slot>>
            BY <1>2, <2>3, <4>d, <5>1, SMTT(20) DEF RootStep, NextBucket
          <6>. QED  BY <3>2, <6>1, <1>0, <3>0, <3>1, <3>2, <3>3, ConstantsAssumption DEF SendsAt, FirstEntry, TypeOK
        <5>2. CASE ei <= Len(s) /\ e.err
          <6>1. /\ slot' = Append(slot, Item("err", b, ei, "backend"))
                /\ pc' = "return" /\ UNCHANGED <<bi, ei>>
            BY <1>2, <2>3, <4>d, <5>2, SMTT(20) DEF RootStep, Send, OnEntryError
          <6>. QED  BY <1>0, <3>1, <3>3, <5>2, <6>1, <3>0, <3>1, <3>2, <3>3, ConstantsAssumption DEF SendsAt, ItemTypes, Causes, TypeOK
        <5>3. CASE ei <= Len(s) /\ ~e.err
          <6>1. /\ slot' = Append(slot, IF IsDirKey(e) /\ ~recursive THEN Item("dir", b, ei, "none")
                                      ELSE Item("temp", b, ei, "none"))
                /\ ei' = ei + 1 /\ UNCHANGED <<pc, bi>>
            BY <1>2, <2>3, <4>d, <5>3, SMTT(20) DEF RootStep, Send
          <6>. QED  BY <1>0, <3>1, <3>3, <5>3, <6>1, <3>0, <3>1, <3>2, <3>3, ConstantsAssumption DEF SendsAt, ItemTypes, Causes, TypeOK
        <5>. QED  BY <5>1, <5>2, <5>3, <1>0 DEF TypeOK
      <4>. QED  BY <1>0, <1>2, <4>b, <4>c, <4>d DEF RootStep, TypeOK
    <3>6. slot' \in Seq(Items) /\ Len(slot') <= 1
      BY <2>1, <3>2, <3>4, <3>5, SendsAtTyped, ConstantsAssumption
    <3>. QED  BY <1>0, <3>0, <3>5, <3>6 DEF TypeInv, TypeOK, backend
  <2>. QED  BY <2>2, <2>3, <1>0 DEF TypeOK
<1>3. CASE ObjectsStep
  <2>. DEFINE s == listing[tb]
  <2>1. slot = <<>>  BY <1>3 DEF ObjectsStep, Ready
  <2>2. Len(s) \in 0..MaxEntries
    <3>1. s \in Streams  BY <1>0 DEF TypeOK
    <3>. QED  BY <3>1, StreamsFacts, LenProperties
  <2>0. pc = "objects" /\ UNCHANGED <<backend, bi, closed, received>>
    BY <1>3 DEF ObjectsStep
  <2>. DEFINE e == s[ei]
  <2>5. ei <= Len(s) => e.err \in BOOLEAN /\ e.dir \in BOOLEAN
    <3>. SUFFICES ASSUME ei <= Len(s) PROVE e.err \in BOOLEAN /\ e.dir \in BOOLEAN
      OBVIOUS
    <3>1. ei \in 1..Len(listing[tb])  BY <1>0, <2>0, <2>2 DEF TypeInv
    <3>2. e \in Entries  BY <1>0, <3>1, StreamEntry DEF TypeOK
    <3>. QED  BY <3>2, EntryFields
  <2>3. /\ (ei \in 0..Len(s) /\ SendsAt(tb, ei)) \/ slot' = slot
        /\ ei' \in {ei, ei + 1}
        /\ ei' \in 0..(MaxEntries + 1)
        /\ pc' \in {"objects", "return"}
    <3>1. CASE ei > Len(s)
      <4>1. pc' = "return" /\ UNCHANGED <<ei, slot>>
        BY <1>3, <2>2, <3>1, SMTT(20) DEF ObjectsStep
      <4>. QED  BY <1>0, <4>1 DEF TypeOK
    <3>2. CASE ei <= Len(s)
      <4>. e.err \in BOOLEAN /\ e.dir \in BOOLEAN  BY <2>5, <3>2
      <4>. ei \in 1..Len(s)  BY <1>0, <2>0, <2>2, <3>2 DEF TypeInv
      <4>0. ei + 1 \in 0..(MaxEntries + 1)  BY <2>2, <3>2, ConstantsAssumption
      <4>1. CASE ~recursive
        <5>1. IF e.err THEN Send(Item("err", tb, ei, "backend")) /\ OnEntryError
              ELSE /\ Send(IF IsDirKey(e) THEN Item("dir", tb, ei, "none")
                           ELSE IF incomplete THEN Item("temp", tb, ei, "none")
                           ELSE Item("file", tb, ei, "none"))
                   /\ ei' = ei + 1 /\ UNCHANGED pc
          BY <1>3, <2>2, <3>2, <4>1, SMTT(20) DEF ObjectsStep
        <5>. QED  BY <1>0, <2>0, <4>0, <5>1, ConstantsAssumption
                 DEF Send, OnEntryError, SendsAt, ItemTypes, Causes, TypeOK
      <4>2. CASE recursive /\ incomplete
        <5>1. IF e.err THEN Send(Item("err", tb, ei, "backend")) /\ OnEntryError
              ELSE Send(Item("temp", tb, ei, "none")) /\ ei' = ei + 1 /\ UNCHANGED pc
          BY <1>3, <2>2, <3>2, <4>2, SMTT(20) DEF ObjectsStep
        <5>. QED  BY <1>0, <2>0, <4>0, <5>1, ConstantsAssumption
                 DEF Send, OnEntryError, SendsAt, ItemTypes, Causes, TypeOK
      <4>3. CASE recursive /\ ~incomplete
        <5>1. /\ ei' = ei + 1 /\ UNCHANGED pc
              /\ \/ slot' = Append(slot, Item("err", tb, ei, "backend"))
                 \/ slot' = slot
                 \/ slot' = Append(slot, Item("file", tb, ei, "none"))
          BY <1>3, <2>2, <3>2, <4>3, SMTT(20) DEF ObjectsStep, Send
        <5>. QED  BY <1>0, <2>0, <4>0, <5>1, ConstantsAssumption
                 DEF SendsAt, ItemTypes, Causes, TypeOK
      <4>. QED  BY <4>1, <4>2, <4>3
    <3>. QED  BY <3>1, <3>2, <2>2, <1>0 DEF TypeOK
  <2>4. slot' \in Seq(Items) /\ Len(slot') <= 1
    <3>1. CASE slot' = slot  BY <2>1, <3>1, EmptySeq
    <3>2. CASE ei \in 0..Len(s) /\ SendsAt(tb, ei)
      <4>1. ei \in 0..MaxEntries  BY <2>2, <3>2, ConstantsAssumption
      <4>. QED  BY <1>0, <2>1, <3>2, <4>1, SendsAtTyped DEF TypeOK
    <3>. QED  BY <2>3, <3>1, <3>2
  <2>. QED  BY <1>0, <2>0, <2>3, <2>4 DEF TypeInv, TypeOK, backend
<1>4. CASE Close
  BY <1>0, <1>4 DEF Close, TypeInv, TypeOK, backend
<1>5. CASE Receive
  <2>1. slot \in Seq(Items) /\ slot # <<>>  BY <1>0, <1>5 DEF TypeOK, Receive
  <2>2. Head(slot) \in Items /\ Tail(slot) \in Seq(Items)
        /\ Len(Tail(slot)) <= Len(slot)
    BY <2>1, HeadTailProperties
  <2>3. Append(received, Head(slot)) \in Seq(Items)
    BY <1>0, <2>2, AppendProperties DEF TypeOK
  <2>4. pc # "start"
    BY <1>5 DEF Receive, TypeInv
  <2>. QED  BY <1>0, <1>5, <2>2, <2>3, <2>4 DEF Receive, TypeInv, TypeOK, backend
<1>6. CASE UNCHANGED vars
  BY <1>0, <1>6 DEF vars, TypeInv, TypeOK
<1>. QED  BY <1>1, <1>2, <1>3, <1>4, <1>5, <1>6 DEF Next, Producer
(***************************************************************************)
(* Every state of the listing engine is well typed: in particular at most *)
(* one item is ever pending on the unbuffered contentCh, and the loop    *)
(* indices of the strategies stay within the streams they walk.          *)
(***************************************************************************)
THEOREM TypeCorrect == Spec => []TypeOK
<1>1. Init => TypeInv  BY TypeInit
<1>2. TypeInv /\ [Next]_vars => TypeInv'  BY TypeStep
<1>3. TypeInv => TypeOK  BY DEF TypeInv
<1>. QED  BY <1>1, <1>2, <1>3, PTL DEF Spec

=============================================================================
