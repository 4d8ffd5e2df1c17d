---------------------------- MODULE S3Stat_proofs ----------------------------
(***************************************************************************)
(* Proofs about Stat and the SDK listing goroutine (S3Stat), for every    *)
(* bound on the listing and every channel capacity: the state stays well  *)
(* typed, and Stat's answer for an object is the one the first decisive   *)
(* entry of the listing calls for (StatAnswersListing).                   *)
(*                                                                         *)
(* Neither is inductive alone.  The invariant says what the channel holds *)
(* (the entries sent and not yet consumed, in listing order), that every  *)
(* entry Stat has consumed while scanning was a sibling object, and how   *)
(* the SDK goroutine's state bounds what it has sent.                     *)
(***************************************************************************)
EXTENDS S3Stat, SequenceTheorems, TLAPS

\* The channel holds exactly entries consumed + 1 .. sent of the listing.
ChanInv ==
    /\ consumed <= sent /\ sent <= Len(listing)
    /\ Len(ch) = sent - consumed
    /\ \A j \in 1..Len(ch) : ch[j] = listing[consumed + j]

\* While Stat scans an object's listing, all it has read are siblings.
ScanInv ==
    spc = "scan" => addr = "object" /\ \A i \in 1..consumed : listing[i] = "sibObj"

\* The listing starts with the range; it is complete when the SDK exits.
SDKInv ==
    /\ spc = "start" => consumed = 0 /\ sdk = "idle"
    /\ sdk = "idle" => sent = 0
    /\ sdk = "exited" => sent = Len(listing)

IInv == TypeOK /\ ChanInv /\ ScanInv /\ SDKInv /\ StatAnswersListing

-----------------------------------------------------------------------------
\* A listing is a sequence of entry kinds no longer than MaxListing.
LEMMA ListingsFacts ==
    ASSUME NEW s \in Listings
    PROVE  s \in Seq(Kinds) /\ Len(s) <= MaxListing
<1>1. PICK n \in 0..MaxListing : s \in [1..n -> Kinds]
  BY DEF Listings
<1>2. s \in Seq(Kinds)
  BY <1>1, SeqDef, StatAssumption
<1>3. Len(s) = n
  BY <1>1, <1>2, LenProperties, StatAssumption
<1>. QED  BY <1>2, <1>3

\* The first decisive entry is unique.
LEMMA DecisiveAt ==
    ASSUME listing \in Seq(Kinds), NEW c \in 1..Len(listing),
           listing[c] # "sibObj", \A i \in 1..(c - 1) : listing[i] = "sibObj"
    PROVE  Decisive = {c}
<1>1. c \in Decisive
  BY DEF Decisive, IsFirstDecisive
<1>2. ASSUME NEW i \in Decisive PROVE i = c
  <2>1. i \in 1..Len(listing) /\ IsFirstDecisive(i)
    BY DEF Decisive
  <2>2. ~(i < c)
    BY <2>1 DEF IsFirstDecisive
  <2>3. ~(c < i)
    BY <2>1 DEF IsFirstDecisive
  <2>. QED  BY <2>1, <2>2, <2>3
<1>. QED  BY <1>1, <1>2

\* A listing of siblings only has no decisive entry.
LEMMA NoDecisive ==
    ASSUME \A i \in 1..Len(listing) : listing[i] = "sibObj"
    PROVE  Decisive = {}
  BY DEF Decisive, IsFirstDecisive

-----------------------------------------------------------------------------
LEMMA InitIInv == Init => IInv
<1>. SUFFICES ASSUME Init PROVE IInv  OBVIOUS
<1>1. listing \in Seq(Kinds) /\ Len(listing) <= MaxListing
  BY ListingsFacts DEF Init
<1>2. TypeOK
  BY <1>1, StatAssumption, EmptySeq DEF Init, TypeOK, Answers
<1>3. ChanInv
  BY <1>1, EmptySeq DEF Init, ChanInv
<1>. QED  BY <1>2, <1>3 DEF Init, IInv, ScanInv, SDKInv, StatAnswersListing

LEMMA StatStartIInv == IInv /\ StatStart => IInv'
<1>. SUFFICES ASSUME IInv, StatStart PROVE IInv'  OBVIOUS
<1>1. consumed = 0 /\ sdk = "idle" /\ sent = 0
  BY DEF StatStart, IInv, SDKInv
<1>2. TypeOK'
  BY DEF StatStart, Finish, BucketAnswer, IInv, TypeOK, Answers
<1>3. ChanInv'
  BY DEF StatStart, IInv, ChanInv
<1>4. ScanInv'
  BY <1>1 DEF StatStart, Finish, ScanInv
<1>5. SDKInv'
  BY <1>1 DEF StatStart, Finish, SDKInv
<1>6. StatAnswersListing'
  BY DEF StatStart, Finish, StatAnswersListing
<1>. QED  BY <1>2, <1>3, <1>4, <1>5, <1>6 DEF IInv

LEMMA StatRecvIInv == IInv /\ StatRecv => IInv'
<1>. SUFFICES ASSUME IInv, StatRecv PROVE IInv'  OBVIOUS
<1>1. listing \in Seq(Kinds) /\ Len(listing) <= MaxListing
  BY ListingsFacts DEF IInv, TypeOK
<1>2. /\ ch \in Seq(Kinds) /\ ch # <<>> /\ Len(ch) <= SDKBuffer
      /\ consumed \in Nat /\ sent \in Nat
  BY DEF StatRecv, IInv, TypeOK
<1>3. /\ Len(ch) = sent - consumed /\ sent <= Len(listing) /\ Len(ch) >= 1
      /\ Head(ch) = listing[consumed + 1]
  BY <1>2, EmptySeq DEF IInv, ChanInv
<1>4. ChanInv'
  <2>1. Tail(ch) \in Seq(Kinds) /\ Len(Tail(ch)) = Len(ch) - 1
        /\ \A j \in 1..Len(Tail(ch)) : Tail(ch)[j] = ch[j + 1]
    BY <1>2, HeadTailProperties
  <2>2. \A j \in 1..Len(ch) : ch[j] = listing[consumed + j]
    BY DEF IInv, ChanInv
  <2>. QED  BY <1>2, <1>3, <2>1, <2>2 DEF StatRecv, ChanInv
<1>5. TypeOK'
  <2>1. Tail(ch) \in Seq(Kinds) /\ Len(Tail(ch)) = Len(ch) - 1
    BY <1>2, HeadTailProperties
  <2>2. consumed + 1 \in 0..MaxListing
    <3>1. consumed + 1 <= sent
      BY <1>2, <1>3
    <3>2. sent <= MaxListing
      <4>1. Len(listing) \in Nat
        BY <1>1, LenProperties
      <4>. QED  BY <1>1, <1>2, <1>3, <4>1, StatAssumption
    <3>. QED  BY <1>2, <3>1, <3>2, StatAssumption
  <2>3. spc' \in {"start", "scan", "returned"} /\ answer' \in Answers
    <3>1. Decide(Head(ch)) \in Answers
      BY DEF Decide, Answers
    <3>. QED  BY <3>1 DEF StatRecv, Finish, IInv, TypeOK
  <2>4. /\ addr' \in Addrs /\ exists' \in {"yes", "no", "err"}
        /\ listing' \in Listings /\ sdk' \in {"idle", "running", "exited"}
        /\ sent' \in 0..Len(listing')
    BY DEF StatRecv, IInv, TypeOK
  <2>5. ch' \in Seq(Kinds) /\ Len(ch') <= SDKBuffer
    BY <1>2, <2>1, StatAssumption DEF StatRecv
  <2>. QED  BY <2>2, <2>3, <2>4, <2>5 DEF StatRecv, TypeOK
<1>6. Decisive' = Decisive
  BY DEF StatRecv, Decisive, IsFirstDecisive
<1>7. \A i \in 1..consumed : listing[i] = "sibObj"
  BY DEF StatRecv, IInv, ScanInv
<1>8. CASE Head(ch) = "sibObj"
  <2>1. ScanInv'
    <3>1. \A i \in 1..consumed + 1 : listing[i] = "sibObj"
      BY <1>2, <1>3, <1>7, <1>8
    <3>. QED  BY <3>1, <1>8 DEF StatRecv, ScanInv, IInv
  <2>2. SDKInv' /\ StatAnswersListing'
    BY <1>8 DEF StatRecv, IInv, SDKInv, StatAnswersListing
  <2>. QED  BY <1>4, <1>5, <2>1, <2>2 DEF IInv
<1>9. CASE Head(ch) # "sibObj"
  <2>1. spc' = "returned" /\ answer' = Decide(listing[consumed + 1])
    BY <1>3, <1>9 DEF StatRecv, Finish
  <2>2. Decisive = {consumed + 1}
    BY <1>1, <1>2, <1>3, <1>7, <1>9, DecisiveAt
  <2>3. StatAnswersListing'
    BY <1>6, <2>1, <2>2 DEF StatRecv, StatAnswersListing
  <2>4. ScanInv' /\ SDKInv'
    BY <2>1 DEF StatRecv, IInv, ScanInv, SDKInv
  <2>. QED  BY <1>4, <1>5, <2>3, <2>4 DEF IInv
<1>. QED  BY <1>8, <1>9

LEMMA StatEndIInv == IInv /\ StatEnd => IInv'
<1>. SUFFICES ASSUME IInv, StatEnd PROVE IInv'  OBVIOUS
<1>1. listing \in Seq(Kinds) /\ consumed \in Nat /\ sent \in Nat
  BY ListingsFacts DEF IInv, TypeOK
<1>2. consumed = Len(listing)
  BY <1>1, EmptySeq DEF StatEnd, IInv, ChanInv, SDKInv
<1>3. Decisive = {}
  BY <1>2, NoDecisive DEF StatEnd, IInv, ScanInv
<1>4. StatAnswersListing'
  BY <1>3 DEF StatEnd, Finish, StatAnswersListing, Decisive, IsFirstDecisive
<1>5. TypeOK' /\ ChanInv' /\ ScanInv' /\ SDKInv'
  BY DEF StatEnd, Finish, IInv, TypeOK, Answers, ChanInv, ScanInv, SDKInv
<1>. QED  BY <1>4, <1>5 DEF IInv

LEMMA SDKSendIInv == IInv /\ SDKSend => IInv'
<1>. SUFFICES ASSUME IInv, SDKSend PROVE IInv'  OBVIOUS
<1>1. listing \in Seq(Kinds) /\ Len(listing) <= MaxListing
  BY ListingsFacts DEF IInv, TypeOK
<1>2. ch \in Seq(Kinds) /\ consumed \in Nat /\ sent \in Nat
      /\ Len(ch) < SDKBuffer /\ sent < Len(listing)
  BY DEF SDKSend, IInv, TypeOK
<1>3. listing[sent + 1] \in Kinds
  BY <1>1, <1>2
<1>4. /\ Append(ch, listing[sent + 1]) \in Seq(Kinds)
      /\ Len(Append(ch, listing[sent + 1])) = Len(ch) + 1
      /\ \A j \in 1..Len(ch) : Append(ch, listing[sent + 1])[j] = ch[j]
      /\ Append(ch, listing[sent + 1])[Len(ch) + 1] = listing[sent + 1]
  BY <1>2, <1>3, AppendProperties
<1>5. ChanInv'
  <2>1. Len(ch) = sent - consumed /\ consumed <= sent
        /\ \A j \in 1..Len(ch) : ch[j] = listing[consumed + j]
    BY DEF IInv, ChanInv
  <2>. QED  BY <1>2, <1>4, <2>1 DEF SDKSend, ChanInv
<1>6. TypeOK'
  <2>1. sent' \in 0..Len(listing')
    BY <1>1, <1>2 DEF SDKSend
  <2>2. ch' \in Seq(Kinds) /\ Len(ch') <= SDKBuffer
    BY <1>2, <1>4, StatAssumption DEF SDKSend
  <2>3. /\ addr' \in Addrs /\ exists' \in {"yes", "no", "err"}
        /\ listing' \in Listings /\ sdk' \in {"idle", "running", "exited"}
        /\ spc' \in {"start", "scan", "returned"} /\ answer' \in Answers
        /\ consumed' \in 0..MaxListing
    BY DEF SDKSend, IInv, TypeOK
  <2>. QED  BY <2>1, <2>2, <2>3 DEF TypeOK
<1>7. ScanInv' /\ SDKInv' /\ StatAnswersListing'
  BY DEF SDKSend, IInv, ScanInv, SDKInv, StatAnswersListing, Decisive, IsFirstDecisive
<1>. QED  BY <1>5, <1>6, <1>7 DEF IInv

LEMMA SDKCloseIInv == IInv /\ SDKClose => IInv'
<1>. SUFFICES ASSUME IInv, SDKClose PROVE IInv'  OBVIOUS
<1>. QED  BY DEF SDKClose, IInv, TypeOK, ChanInv, ScanInv, SDKInv,
                StatAnswersListing, Decisive, IsFirstDecisive

LEMMA NextIInv == IInv /\ [Next]_vars => IInv'
<1>. SUFFICES ASSUME IInv, [Next]_vars PROVE IInv'  OBVIOUS
<1>1. CASE UNCHANGED vars
  BY <1>1 DEF vars, IInv, TypeOK, ChanInv, ScanInv, SDKInv,
              StatAnswersListing, Decisive, IsFirstDecisive
<1>. QED  BY <1>1, StatStartIInv, StatRecvIInv, StatEndIInv, SDKSendIInv,
             SDKCloseIInv DEF Next

-----------------------------------------------------------------------------
(***************************************************************************)
(* Stat and the SDK goroutine keep their state well typed: the channel    *)
(* never holds more than SDKBuffer entries, and Stat never reads more     *)
(* than the listing has.                                                   *)
(***************************************************************************)
THEOREM TypeCorrect == Spec => []TypeOK
<1>1. IInv => TypeOK  BY DEF IInv
<1>. QED  BY InitIInv, NextIInv, <1>1, PTL DEF Spec

(***************************************************************************)
(* For every listing and channel capacity, Stat's answer for an object is *)
(* the one its first entry that is not a sibling object calls for, and    *)
(* ObjectMissing when there is none (the range at lines 698-715 over the  *)
(* SDK's channel).                                                         *)
(***************************************************************************)
THEOREM AnswersListing == Spec => []StatAnswersListing
<1>1. IInv => StatAnswersListing  BY DEF IInv
<1>. QED  BY InitIInv, NextIInv, <1>1, PTL DEF Spec
=============================================================================
