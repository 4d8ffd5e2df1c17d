---------------------------- MODULE S3Watch_proofs ----------------------------
(***************************************************************************)
(* Proofs about Watch and its goroutines (S3Watch), for every bound on    *)
(* the notifications and records and every channel capacity: the state   *)
(* stays well typed.  TypeOK is not inductive alone: the invariant adds   *)
(* what the SDK's channel holds (the notifications pushed and not yet     *)
(* taken, in feed order), that the forwarder's record index stays within *)
(* the current notification, and that a pending send names that record.  *)
(***************************************************************************)
EXTENDS S3Watch, SequenceTheorems, TLAPS

\* eventsCh holds exactly notifications taken + 1 .. sent of the feed.
ChanInv ==
    /\ taken <= sent /\ sent <= Len(feed)
    /\ Len(eventsCh) = sent - taken
    /\ \A j \in 1..Len(eventsCh) : eventsCh[j] = feed[taken + j]

\* In the record loop the forwarder is within a notification it has taken.
RecordInv ==
    fpc = "records" =>
        taken \in 1..Len(feed) /\ ri \in 1..(Len(Current.records) + 1)

\* A pending send of a record's event or error names the record it is at.
SendInv ==
    fpc = "send" =>
        /\ taken \in 1..Len(feed)
        /\ out.item.r # 0 => ri = out.item.r /\ ri \in 1..Len(Current.records)

IInv == TypeOK /\ ChanInv /\ RecordInv /\ SendInv

\* The record loop never runs on a notification error, and a pending send
\* carries the event or the error of the place the forwarder is at.
OutInv ==
    /\ fpc = "records" => ~Current.err
    /\ fpc = "send" =>
          /\ out.item.n = taken
          /\ out.ch = "event" =>
                /\ <<taken, out.item.r>> \in EventPlaces
                /\ out.item.type = EventType(RecordAt(taken, out.item.r))
          /\ out.ch = "error" => <<taken, out.item.r>> \in ErrorPlaces

FInv == IInv /\ OutInv /\ EventsFaithful

-----------------------------------------------------------------------------
(* Lemmas on the constants and the data. *)

\* The bounds of WatchAssumption (by Zenon: it also names the empty
\* string, which SMT does not take).
LEMMA WatchConstants ==
    /\ MaxNotifications \in Nat /\ MaxRecords \in Nat
    /\ SDKBuffer \in Nat \ {0}
  BY Zenon, WatchAssumption

LEMMA FeedFacts ==
    ASSUME NEW f \in Feeds
    PROVE  f \in Seq(Notifications) /\ Len(f) <= MaxNotifications
<1>1. PICK n \in 0..MaxNotifications : f \in [1..n -> Notifications]
  BY DEF Feeds
<1>2. f \in Seq(Notifications)
  BY <1>1, SeqDef, WatchConstants
<1>3. Len(f) = n
  BY <1>1, <1>2, LenProperties, WatchConstants
<1>. QED  BY <1>2, <1>3

LEMMA NotificationFacts ==
    ASSUME NEW x \in Notifications
    PROVE  /\ x.err \in BOOLEAN
           /\ x.records \in Seq(Records) /\ Len(x.records) <= MaxRecords
<1>1. CASE x = [err |-> TRUE, records |-> <<>>]
  BY <1>1, EmptySeq, WatchConstants
<1>2. CASE x # [err |-> TRUE, records |-> <<>>]
  <2>0. PICK n \in 0..MaxRecords :
            \E rs \in [1..n -> Records] : x = [err |-> FALSE, records |-> rs]
    BY <1>2 DEF Notifications
  <2>1. PICK rs \in [1..n -> Records] : x = [err |-> FALSE, records |-> rs]
    BY <2>0
  <2>2. rs \in Seq(Records)
    BY <2>1, SeqDef, WatchConstants
  <2>3. Len(rs) = n
    BY <2>1, <2>2, LenProperties, WatchConstants
  <2>. QED  BY <2>1, <2>2, <2>3
<1>. QED  BY <1>1, <1>2

\* The record the forwarder is at, in the notification it has taken.
LEMMA CurrentFacts ==
    ASSUME feed \in Feeds, taken \in 1..Len(feed)
    PROVE  /\ Current \in Notifications
           /\ Current.records \in Seq(Records)
           /\ Len(Current.records) <= MaxRecords
<1>1. feed \in Seq(Notifications)
  BY FeedFacts
<1>2. Current \in Notifications
  BY <1>1 DEF Current
<1>. QED  BY <1>2, NotificationFacts

LEMMA RecordKinds ==
    ASSUME NEW r \in Records
    PROVE  r.kind \in {"created", "removed", "other"} /\ r.escOK \in BOOLEAN
<1>1. CASE r \in [kind: {"created", "removed", "other"}, escOK: {TRUE}]
  BY <1>1
<1>2. CASE r = [kind |-> "other", escOK |-> FALSE]
  BY <1>2
<1>. QED  BY <1>1, <1>2 DEF Records

-----------------------------------------------------------------------------
(* Init and Watch, which name the empty string: what they fix of the     *)
(* state, by Zenon.                                                        *)

LEMMA InitFacts ==
    ASSUME Init
    PROVE  /\ params \in Params /\ wpc = "idle"
           /\ filter \in Objects \cup PrefixValues
           /\ feed \in Feeds /\ sdk = "running" /\ sent = 0 /\ eventsCh = <<>>
           /\ fpc = "recv" /\ taken = 0 /\ ri = 0 /\ out = NoOut
           /\ cancelled = FALSE /\ cpc = 0 /\ closedChs = {}
           /\ evRecv = <<>> /\ errRecv = <<>> /\ crashed = FALSE
  BY Zenon, WatchAssumption DEF Init

LEMMA WatchFacts ==
    ASSUME TypeOK, Watch
    PROVE  /\ wpc' \in {"failed", "running"}
           /\ filter' \in Objects \cup PrefixValues
           /\ UNCHANGED <<params, feed, sdk, sent, eventsCh, fpc, taken, ri, out,
                          cancelled, cpc, closedChs, evRecv, errRecv, crashed>>
<1>1. params.object \in Objects /\ params.prefix \in PrefixValues
  BY Zenon DEF TypeOK, Params
<1>. QED  BY <1>1, Zenon DEF Watch, TypeOK

-----------------------------------------------------------------------------
LEMMA InitIInv == Init => IInv
<1>. SUFFICES ASSUME Init PROVE IInv  OBVIOUS
<1>1. feed \in Seq(Notifications)
  BY InitFacts, FeedFacts
<1>2. NoOut \in [ch: {"error"}, item: ErrorItems]
  BY DEF NoOut, ErrorItems
<1>3. TypeOK
  BY InitFacts, <1>1, <1>2, EmptySeq, WatchConstants DEF TypeOK, CloseSequence
<1>. QED  BY <1>3, InitFacts, EmptySeq DEF IInv, ChanInv, RecordInv, SendInv

LEMMA WatchIInv == IInv /\ Watch => IInv'
<1>. SUFFICES ASSUME IInv, Watch PROVE IInv'  OBVIOUS
<1>1. TypeOK
  BY DEF IInv
<1>. QED  BY <1>1, WatchFacts DEF IInv, TypeOK, ChanInv, RecordInv, SendInv, Current

LEMMA SDKPushIInv == IInv /\ SDKPush => IInv'
<1>. SUFFICES ASSUME IInv, SDKPush PROVE IInv'  OBVIOUS
<1>1. feed \in Seq(Notifications) /\ eventsCh \in Seq(Notifications)
      /\ sent \in Nat /\ taken \in Nat
  BY FeedFacts DEF IInv, TypeOK
<1>2. sent < Len(feed) /\ Len(eventsCh) < SDKBuffer
  BY DEF SDKPush
<1>3. feed[sent + 1] \in Notifications
  BY <1>1, <1>2
<1>4. /\ Append(eventsCh, feed[sent + 1]) \in Seq(Notifications)
      /\ Len(Append(eventsCh, feed[sent + 1])) = Len(eventsCh) + 1
      /\ \A j \in 1..Len(eventsCh) : Append(eventsCh, feed[sent + 1])[j] = eventsCh[j]
      /\ Append(eventsCh, feed[sent + 1])[Len(eventsCh) + 1] = feed[sent + 1]
  BY <1>1, <1>3, AppendProperties
<1>5. ChanInv'
  <2>1. Len(eventsCh) = sent - taken /\ taken <= sent
        /\ \A j \in 1..Len(eventsCh) : eventsCh[j] = feed[taken + j]
    BY DEF IInv, ChanInv
  <2>. QED  BY <1>1, <1>2, <1>4, <2>1 DEF SDKPush, ChanInv
<1>6. TypeOK'
  BY <1>1, <1>2, <1>4, WatchConstants DEF SDKPush, IInv, TypeOK
<1>. QED  BY <1>5, <1>6 DEF SDKPush, IInv, RecordInv, SendInv, Current

LEMMA SDKExitIInv == IInv /\ SDKExit => IInv'
  BY DEF SDKExit, IInv, TypeOK, ChanInv, RecordInv, SendInv, Current

LEMMA FwdExitIInv == IInv /\ FwdExit => IInv'
  BY DEF FwdExit, IInv, TypeOK, ChanInv, RecordInv, SendInv, Current

LEMMA FwdReceiveIInv == IInv /\ FwdReceive => IInv'
<1>. SUFFICES ASSUME IInv, FwdReceive PROVE IInv'  OBVIOUS
<1>1. feed \in Seq(Notifications) /\ Len(feed) <= MaxNotifications
  BY FeedFacts DEF IInv, TypeOK
<1>2. /\ eventsCh \in Seq(Notifications) /\ eventsCh # <<>>
      /\ Len(eventsCh) <= SDKBuffer /\ sent \in Nat /\ taken \in Nat
  BY DEF FwdReceive, IInv, TypeOK
<1>3. /\ Len(eventsCh) = sent - taken /\ sent <= Len(feed) /\ Len(eventsCh) >= 1
      /\ Head(eventsCh) = feed[taken + 1]
  BY <1>2, EmptySeq DEF IInv, ChanInv
<1>4. Tail(eventsCh) \in Seq(Notifications) /\ Len(Tail(eventsCh)) = Len(eventsCh) - 1
      /\ \A j \in 1..Len(Tail(eventsCh)) : Tail(eventsCh)[j] = eventsCh[j + 1]
  BY <1>2, HeadTailProperties
<1>5. taken + 1 \in 1..Len(feed)
  BY <1>1, <1>2, <1>3
<1>6. ChanInv'
  <2>1. \A j \in 1..Len(eventsCh) : eventsCh[j] = feed[taken + j]
    BY DEF IInv, ChanInv
  <2>2. eventsCh' = Tail(eventsCh) /\ taken' = taken + 1 /\ sent' = sent
        /\ feed' = feed
    BY DEF FwdReceive
  <2>3. \A j \in 1..Len(Tail(eventsCh)) : Tail(eventsCh)[j] = feed[taken + 1 + j]
    BY <1>2, <1>4, <2>1
  <2>. QED  BY <1>2, <1>3, <1>4, <2>2, <2>3 DEF ChanInv
<1>7. Head(eventsCh).err \in BOOLEAN
  BY <1>1, <1>3, <1>5, NotificationFacts
<1>8. CASE Head(eventsCh).err
  <2>1. out' \in [ch: {"error"}, item: ErrorItems]
    BY <1>2, <1>8 DEF FwdReceive, ErrorItems
  <2>2. TypeOK'
    BY <1>2, <1>4, <1>5, <1>8, <2>1, WatchConstants DEF FwdReceive, IInv, TypeOK
  <2>. QED  BY <1>5, <1>6, <1>8, <2>2 DEF FwdReceive, IInv, RecordInv, SendInv
<1>9. CASE ~Head(eventsCh).err
  <2>1. Len(feed[taken + 1].records) \in Nat
    BY <1>1, <1>5, NotificationFacts
  <2>2. TypeOK'
    BY <1>2, <1>4, <1>5, <1>9, WatchConstants DEF FwdReceive, IInv, TypeOK
  <2>. QED  BY <1>5, <1>6, <1>9, <2>1, <2>2 DEF FwdReceive, IInv, RecordInv, SendInv, Current
<1>. QED  BY <1>7, <1>8, <1>9

LEMMA FwdRecordIInv == IInv /\ FwdRecord => IInv'
<1>. SUFFICES ASSUME IInv, FwdRecord PROVE IInv'  OBVIOUS
<1>. DEFINE rs == Current.records
<1>1. taken \in 1..Len(feed) /\ ri \in 1..(Len(rs) + 1)
  BY DEF FwdRecord, IInv, RecordInv
<1>2. rs \in Seq(Records) /\ Len(rs) <= MaxRecords
  BY <1>1, CurrentFacts DEF IInv, TypeOK
<1>3. UNCHANGED <<params, wpc, filter, feed, sdk, sent, eventsCh, taken,
                  cancelled, cpc, closedChs, evRecv, errRecv, crashed>>
  BY DEF FwdRecord
<1>4. UNCHANGED rs
  BY <1>3 DEF Current
<1>5. CASE ri > Len(rs)
  <2>1. fpc' = "recv" /\ UNCHANGED <<ri, out>>
    BY <1>5 DEF FwdRecord
  <2>. QED  BY <1>3, <2>1 DEF IInv, TypeOK, ChanInv, RecordInv, SendInv
<1>6. CASE ri <= Len(rs)
  <2>. DEFINE r == rs[ri]
  <2>1. r \in Records
    BY <1>1, <1>2, <1>6
  <2>2. r.kind \in {"created", "removed", "other"} /\ r.escOK \in BOOLEAN
    BY <2>1, RecordKinds
  <2>3. ri \in 1..Len(rs) /\ ri \in 0..(MaxRecords + 1)
    BY <1>1, <1>2, <1>6, WatchConstants
  <2>4. CASE ~r.escOK
    <3>1. out' = [ch |-> "error", item |-> [n |-> taken, r |-> ri]]
          /\ fpc' = "send" /\ UNCHANGED ri
      BY <1>1, <1>2, <1>6, <2>2, <2>4 DEF FwdRecord
    <3>2. out' \in [ch: {"error"}, item: ErrorItems]
      BY <1>1, <2>3, <3>1 DEF ErrorItems
    <3>. QED  BY <1>1, <1>3, <1>4, <2>3, <3>1, <3>2
              DEF IInv, TypeOK, ChanInv, RecordInv, SendInv
  <2>5. CASE r.escOK /\ r.kind \in {"created", "removed"}
    <3>1. out' = [ch |-> "event", item |-> [type |-> EventType(r), n |-> taken, r |-> ri]]
          /\ fpc' = "send" /\ UNCHANGED ri
      BY <1>1, <1>2, <1>6, <2>2, <2>5 DEF FwdRecord
    <3>2. out' \in [ch: {"event"}, item: EventItems]
      BY <1>1, <2>3, <3>1 DEF EventItems, EventType
    <3>. QED  BY <1>1, <1>3, <1>4, <2>3, <3>1, <3>2
              DEF IInv, TypeOK, ChanInv, RecordInv, SendInv
  <2>6. CASE r.escOK /\ r.kind \notin {"created", "removed"}
    <3>1. ri' = ri + 1 /\ UNCHANGED <<fpc, out>>
      BY <1>1, <1>2, <1>6, <2>2, <2>6 DEF FwdRecord
    <3>2. ri' \in 0..(MaxRecords + 1) /\ ri' \in 1..(Len(rs) + 1)
      BY <1>2, <2>3, <3>1, WatchConstants
    <3>. QED  BY <1>1, <1>3, <1>4, <3>1, <3>2
              DEF FwdRecord, IInv, TypeOK, ChanInv, RecordInv, SendInv
  <2>. QED  BY <2>2, <2>4, <2>5, <2>6
<1>. QED  BY <1>1, <1>2, <1>5, <1>6

\* A completed send returns the forwarder to its loops.
LEMMA AfterSendIInv ==
    ASSUME IInv, fpc = "send", AfterSend, UNCHANGED <<feed, taken, out>>
    PROVE  /\ fpc' \in {"recv", "records", "send", "exited"}
           /\ ri' \in 0..(MaxRecords + 1)
           /\ RecordInv' /\ SendInv'
<1>1. taken \in 1..Len(feed)
  BY DEF IInv, SendInv
<1>2. Current.records \in Seq(Records) /\ Len(Current.records) <= MaxRecords
  BY <1>1, CurrentFacts DEF IInv, TypeOK
<1>3. UNCHANGED Current
  BY DEF Current
<1>4. CASE out.item.r = 0
  BY <1>4 DEF AfterSend, IInv, TypeOK, RecordInv, SendInv
<1>5. CASE out.item.r # 0
  <2>1. ri \in 1..Len(Current.records)
    BY <1>5 DEF IInv, SendInv
  <2>2. fpc' = "records" /\ ri' = ri + 1
    BY <1>5 DEF AfterSend
  <2>. QED  BY <1>1, <1>2, <1>3, <2>1, <2>2, WatchConstants DEF RecordInv, SendInv
<1>. QED  BY <1>4, <1>5

LEMMA RecvEventIInv == IInv /\ RecvEvent => IInv'
<1>. SUFFICES ASSUME IInv, RecvEvent PROVE IInv'  OBVIOUS
<1>1. out.item \in EventItems /\ evRecv \in Seq(EventItems)
  BY DEF RecvEvent, IInv, TypeOK
<1>2. Append(evRecv, out.item) \in Seq(EventItems)
  BY <1>1, AppendProperties
<1>3. /\ fpc' \in {"recv", "records", "send", "exited"} /\ ri' \in 0..(MaxRecords + 1)
      /\ RecordInv' /\ SendInv'
  BY AfterSendIInv DEF RecvEvent
<1>. QED  BY <1>2, <1>3 DEF RecvEvent, IInv, TypeOK, ChanInv

LEMMA RecvErrorIInv == IInv /\ RecvError => IInv'
<1>. SUFFICES ASSUME IInv, RecvError PROVE IInv'  OBVIOUS
<1>1. out.item \in ErrorItems /\ errRecv \in Seq(ErrorItems)
  BY DEF RecvError, IInv, TypeOK
<1>2. Append(errRecv, out.item) \in Seq(ErrorItems)
  BY <1>1, AppendProperties
<1>3. /\ fpc' \in {"recv", "records", "send", "exited"} /\ ri' \in 0..(MaxRecords + 1)
      /\ RecordInv' /\ SendInv'
  BY AfterSendIInv DEF RecvError
<1>. QED  BY <1>2, <1>3 DEF RecvError, IInv, TypeOK, ChanInv

LEMMA FwdPanicIInv == IInv /\ FwdPanic => IInv'
  BY DEF FwdPanic, IInv, TypeOK, ChanInv, RecordInv, SendInv, Current

LEMMA CancelIInv == IInv /\ Cancel => IInv'
  BY DEF Cancel, IInv, TypeOK, ChanInv, RecordInv, SendInv, Current

LEMMA CloserStepIInv == IInv /\ CloserStep => IInv'
<1>. SUFFICES ASSUME IInv, CloserStep PROVE IInv'  OBVIOUS
<1>0. Len(CloseSequence) = 3
  BY DEF CloseSequence
<1>1. cpc \in 0..2
  BY <1>0 DEF CloserStep, IInv, TypeOK
<1>2. CloseSequence[cpc + 1] \in {"doneCh", "event", "error"}
  BY <1>1 DEF CloseSequence
<1>3. cpc' = cpc + 1
      /\ closedChs' = closedChs \cup {CloseSequence[cpc + 1]}
      /\ closedChs \subseteq {"doneCh", "event", "error"}
  BY DEF CloserStep, IInv, TypeOK
<1>5. cpc' \in 0..Len(CloseSequence)
  BY <1>0, <1>1, <1>3
<1>6. closedChs' \subseteq {"doneCh", "event", "error"}
  BY <1>2, <1>3
<1>4. UNCHANGED <<params, wpc, filter, feed, sdk, sent, eventsCh, fpc, taken,
                  ri, out, cancelled, evRecv, errRecv, crashed>>
  BY DEF CloserStep
<1>. QED  BY <1>4, <1>5, <1>6 DEF IInv, TypeOK, ChanInv, RecordInv, SendInv, Current

LEMMA NextIInv == IInv /\ [Next]_vars => IInv'
<1>. SUFFICES ASSUME IInv, [Next]_vars PROVE IInv'  OBVIOUS
<1>1. CASE UNCHANGED vars
  BY <1>1 DEF vars, IInv, TypeOK, ChanInv, RecordInv, SendInv, Current
<1>. QED  BY <1>1, WatchIInv, SDKPushIInv, SDKExitIInv, FwdReceiveIInv,
             FwdExitIInv, FwdRecordIInv, FwdPanicIInv, RecvEventIInv,
             RecvErrorIInv, CancelIInv, CloserStepIInv DEF Next, Forwarder

-----------------------------------------------------------------------------
(***************************************************************************)
(* Watch and its goroutines keep their state well typed for every bound:  *)
(* the SDK never holds more than SDKBuffer notifications in eventsCh, the *)
(* forwarder only takes notifications the SDK has pushed and only reads  *)
(* records of the notification it took, and every item sent to the caller *)
(* is an event or an error naming a notification and a record (the       *)
(* forwarder's range and record loop, lines 397-434 of Watch).            *)
(***************************************************************************)
THEOREM TypeCorrect == Spec => []TypeOK
<1>1. IInv => TypeOK  BY DEF IInv
<1>. QED  BY InitIInv, NextIInv, <1>1, PTL DEF Spec
-----------------------------------------------------------------------------
(* Lemmas on Delivers: a stream stays exact when its frontier moves over *)
(* places it does not hold, and when it receives the item at the frontier *)
(* and the frontier moves past it.                                        *)

\* Places and frontiers are ordered lexicographically on numbers.
NumPlace(x) == x.n \in Int /\ x.r \in Int

\* The place of a pair.
At(p) == [n |-> p[1], r |-> p[2]]

LEMMA DeliversAdvance ==
    ASSUME NEW S, NEW s \in Seq(S), NEW A, NEW F, NEW G,
           \A y \in S : NumPlace(y), NumPlace(F), NumPlace(G),
           F.n < G.n \/ (F.n = G.n /\ F.r <= G.r),
           \A p \in A : Precedes(At(p), G) => Precedes(At(p), F),
           Delivers(s, A, F)
    PROVE  Delivers(s, A, G)
<1>1. \A j \in 1..Len(s) : Precedes(s[j], G)
  <2>. SUFFICES ASSUME NEW j \in 1..Len(s) PROVE Precedes(s[j], G)
    OBVIOUS
  <2>1. s[j].n \in Int /\ s[j].r \in Int
    BY DEF NumPlace
  <2>2. Precedes(s[j], F)
    BY DEF Delivers
  <2>. QED  BY <2>1, <2>2 DEF Precedes, NumPlace
<1>. QED  BY <1>1 DEF Delivers, At

LEMMA DeliversAppend ==
    ASSUME NEW S, NEW s \in Seq(S), NEW A, NEW F, NEW G, NEW x \in S,
           \A y \in S : NumPlace(y), NumPlace(F), NumPlace(G),
           <<x.n, x.r>> \in A, x.n = F.n, x.r = F.r, Precedes(x, G),
           \A p \in A : Precedes(At(p), G) =>
                         Precedes(At(p), F) \/ (p[1] = x.n /\ p[2] = x.r),
           Delivers(s, A, F)
    PROVE  Delivers(Append(s, x), A, G)
<1>. DEFINE t == Append(s, x)
<1>1. t \in Seq(S) /\ Len(t) = Len(s) + 1 /\ t[Len(s) + 1] = x
      /\ \A j \in 1..Len(s) : t[j] = s[j]
  BY AppendProperties
<1>2. \A j \in 1..Len(s) : s[j] \in S /\ Precedes(s[j], F)
  <2>1. \A j \in 1..Len(s) : s[j] \in S
    OBVIOUS
  <2>2. \A j \in 1..Len(s) : Precedes(s[j], F)
    BY DEF Delivers
  <2>. QED  BY <2>1, <2>2
<1>3. \A j \in 1..Len(t) : <<t[j].n, t[j].r>> \in A /\ Precedes(t[j], G)
  <2>. SUFFICES ASSUME NEW j \in 1..Len(t)
                PROVE  <<t[j].n, t[j].r>> \in A /\ Precedes(t[j], G)
    OBVIOUS
  <2>0. j = Len(t) \/ j \in 1..Len(s)
    BY <1>1
  <2>1. CASE j = Len(t)
    BY <1>1, <2>1
  <2>2. CASE j \in 1..Len(s)
    <3>1. t[j] = s[j] /\ s[j] \in S /\ Precedes(s[j], F) /\ <<s[j].n, s[j].r>> \in A
      BY <1>1, <1>2, <2>2 DEF Delivers
    <3>2. NumPlace(s[j]) /\ NumPlace(x)
      BY <3>1
    <3>. QED  BY <3>1, <3>2 DEF Precedes, NumPlace
  <2>. QED  BY <2>0, <2>1, <2>2
<1>4. \A j, k \in 1..Len(t) : j < k => Precedes(t[j], t[k])
  <2>. SUFFICES ASSUME NEW j \in 1..Len(t), NEW k \in 1..Len(t), j < k
                PROVE  Precedes(t[j], t[k])
    OBVIOUS
  <2>1. j \in 1..Len(s) /\ t[j] = s[j] /\ Precedes(s[j], F)
    BY <1>1, <1>2
  <2>2. CASE k = Len(t)
    <3>1. NumPlace(s[j])
      BY <1>2
    <3>. QED  BY <1>1, <2>1, <2>2, <3>1 DEF Precedes, NumPlace
  <2>3. CASE k \in 1..Len(s)
    BY <1>1, <2>1, <2>3 DEF Delivers
  <2>4. k = Len(t) \/ k \in 1..Len(s)
    BY <1>1
  <2>. QED  BY <2>2, <2>3, <2>4
<1>5. \A p \in A : Precedes(At(p), G) =>
          \E j \in 1..Len(t) : t[j].n = p[1] /\ t[j].r = p[2]
  <2>. SUFFICES ASSUME NEW p \in A, Precedes(At(p), G)
                PROVE  \E j \in 1..Len(t) : t[j].n = p[1] /\ t[j].r = p[2]
    OBVIOUS
  <2>1. CASE Precedes(At(p), F)
    <3>1. PICK j \in 1..Len(s) : s[j].n = p[1] /\ s[j].r = p[2]
      BY <2>1 DEF Delivers, At
    <3>. QED  BY <1>1, <3>1
  <2>2. CASE p[1] = x.n /\ p[2] = x.r
    BY <1>1, <2>2
  <2>. QED  BY <2>1, <2>2
<1>. QED  BY <1>3, <1>4, <1>5 DEF Delivers, At
-----------------------------------------------------------------------------
(* The caller's streams against the feed. *)

\* A notification error carries no records.
LEMMA ErrNoRecords ==
    ASSUME NEW x \in Notifications, x.err
    PROVE  x.records = <<>>
  BY DEF Notifications

LEMMA ItemsNum ==
    /\ \A y \in EventItems : NumPlace(y)
    /\ \A y \in ErrorItems : NumPlace(y)
  BY DEF EventItems, ErrorItems, NumPlace

LEMMA FrontierNum ==
    ASSUME TypeOK PROVE NumPlace(Frontier)
<1>1. taken \in Nat /\ ri \in Nat /\ out.item.r \in Nat
  BY DEF TypeOK, EventItems, ErrorItems
<1>. QED  BY <1>1 DEF Frontier, NumPlace

\* What membership in the places says.
LEMMA PlacesFacts ==
    ASSUME NEW n, NEW r
    PROVE  /\ <<n, r>> \in EventPlaces <=>
                n \in 1..Len(feed) /\ r \in 0..MaxRecords /\ IsEventAt(n, r)
           /\ <<n, r>> \in ErrorPlaces <=>
                n \in 1..Len(feed) /\ r \in 0..MaxRecords /\ IsErrorAt(n, r)
  BY DEF EventPlaces, ErrorPlaces

LEMMA PlacesPairs ==
    ASSUME NEW p \in EventPlaces \cup ErrorPlaces
    PROVE  p = <<p[1], p[2]>> /\ p[1] \in 1..Len(feed) /\ p[2] \in 0..MaxRecords
  BY DEF EventPlaces, ErrorPlaces

\* With the feed unchanged, so are the places.
LEMMA SamePlaces ==
    ASSUME feed' = feed
    PROVE  /\ EventPlaces' = EventPlaces /\ ErrorPlaces' = ErrorPlaces
           /\ \A n, r : RecordAt(n, r)' = RecordAt(n, r)
  BY DEF EventPlaces, ErrorPlaces, IsEventAt, IsErrorAt, RecordAt

LEMMA InitFInv == Init => OutInv /\ EventsFaithful
<1>. SUFFICES ASSUME Init PROVE OutInv /\ EventsFaithful  OBVIOUS
<1>1. fpc = "recv" /\ taken = 0 /\ evRecv = <<>> /\ errRecv = <<>>
  BY InitFacts
<1>2. Frontier = [n |-> 1, r |-> 0]
  BY <1>1 DEF Frontier
<1>3. \A p \in EventPlaces \cup ErrorPlaces : ~Precedes(At(p), Frontier)
  BY <1>2, PlacesPairs DEF Precedes, At
<1>. QED  BY <1>1, <1>3 DEF OutInv, EventsFaithful, Delivers, At

\* A step that leaves the forwarder and the caller's streams alone.
LEMMA UnmovedFInv ==
    ASSUME OutInv, EventsFaithful,
           UNCHANGED <<feed, fpc, taken, ri, out, evRecv, errRecv>>
    PROVE  OutInv' /\ EventsFaithful'
<1>1. EventPlaces' = EventPlaces /\ ErrorPlaces' = ErrorPlaces
      /\ \A n, r : RecordAt(n, r)' = RecordAt(n, r)
  BY SamePlaces
<1>2. Frontier' = Frontier /\ Current' = Current
  BY DEF Frontier, Current
<1>. QED  BY <1>1, <1>2 DEF OutInv, EventsFaithful

LEMMA FwdExitFInv ==
    ASSUME OutInv, EventsFaithful, FwdExit
    PROVE  OutInv' /\ EventsFaithful'
<1>1. UNCHANGED <<feed, taken, ri, out, evRecv, errRecv>> /\ fpc = "recv"
      /\ fpc' = "exited"
  BY DEF FwdExit
<1>2. EventPlaces' = EventPlaces /\ ErrorPlaces' = ErrorPlaces
      /\ \A n, r : RecordAt(n, r)' = RecordAt(n, r)
  BY <1>1, SamePlaces
<1>3. Frontier' = Frontier
  BY <1>1 DEF Frontier
<1>. QED  BY <1>1, <1>2, <1>3 DEF OutInv, EventsFaithful

\* A receive moves the frontier past record 0 of a notification without an
\* error, which is no place; for an error it stays put.
LEMMA FwdReceiveFInv ==
    ASSUME IInv, OutInv, EventsFaithful, FwdReceive
    PROVE  OutInv' /\ EventsFaithful'
<1>. DEFINE x == Head(eventsCh)
<1>1. /\ eventsCh \in Seq(Notifications) /\ eventsCh # <<>>
      /\ taken \in Nat /\ fpc = "recv" /\ taken' = taken + 1
      /\ UNCHANGED <<feed, evRecv, errRecv>>
  BY DEF FwdReceive, IInv, TypeOK
<1>2. Len(eventsCh) >= 1 /\ x = feed[taken + 1] /\ taken + 1 \in 1..Len(feed)
  <2>1. sent \in Nat /\ Len(eventsCh) = sent - taken /\ sent <= Len(feed)
    BY DEF IInv, TypeOK, ChanInv
  <2>2. Len(eventsCh) >= 1
    BY <1>1, EmptySeq
  <2>3. eventsCh[1] = feed[taken + 1]
    BY <2>2 DEF IInv, ChanInv
  <2>. QED  BY <1>1, <2>1, <2>2, <2>3
<1>3. x \in Notifications /\ x.err \in BOOLEAN
  BY <1>2, FeedFacts, NotificationFacts DEF IInv, TypeOK
<1>4. EventPlaces' = EventPlaces /\ ErrorPlaces' = ErrorPlaces
      /\ \A n, r : RecordAt(n, r)' = RecordAt(n, r)
  BY <1>1, SamePlaces
<1>5. Frontier = [n |-> taken + 1, r |-> 0]
  BY <1>1 DEF Frontier
<1>6. evRecv \in Seq(EventItems) /\ errRecv \in Seq(ErrorItems)
  BY DEF IInv, TypeOK
<1>7. CASE x.err
  <2>1. fpc' = "send" /\ out' = [ch |-> "error", item |-> [n |-> taken + 1, r |-> 0]]
    BY <1>7 DEF FwdReceive
  <2>2. Frontier' = Frontier
    BY <1>1, <1>5, <2>1 DEF Frontier
  <2>3. <<taken + 1, 0>> \in ErrorPlaces
    BY <1>2, <1>7, PlacesFacts, WatchConstants DEF IsErrorAt
  <2>4. OutInv'
    BY <1>1, <1>4, <2>1, <2>3 DEF OutInv
  <2>. QED  BY <1>1, <1>4, <2>2, <2>4 DEF EventsFaithful
<1>8. CASE ~x.err
  <2>1. fpc' = "records" /\ ri' = 1
    BY <1>8 DEF FwdReceive
  <2>2. Frontier' = [n |-> taken + 1, r |-> 1]
    BY <1>1, <2>1 DEF Frontier
  <2>3. OutInv'
    BY <1>1, <1>2, <1>8, <2>1 DEF OutInv, Current
  <2>4. \A p \in EventPlaces \cup ErrorPlaces :
            Precedes(At(p), Frontier') => Precedes(At(p), Frontier)
    <3>. SUFFICES ASSUME NEW p \in EventPlaces \cup ErrorPlaces,
                         Precedes(At(p), Frontier'), ~Precedes(At(p), Frontier)
                  PROVE  FALSE
      OBVIOUS
    <3>1. p = <<taken + 1, 0>>
      BY <1>1, <1>5, <2>2, PlacesPairs DEF Precedes, At
    <3>2. ~IsEventAt(taken + 1, 0) /\ ~IsErrorAt(taken + 1, 0)
      BY <1>2, <1>8 DEF IsEventAt, IsErrorAt
    <3>. QED  BY <3>1, <3>2, PlacesFacts
  <2>5. NumPlace(Frontier) /\ NumPlace(Frontier')
    BY <1>1, <1>5, <2>2 DEF NumPlace
  <2>6. Delivers(evRecv, EventPlaces, Frontier')
    BY <1>5, <1>6, <2>2, <2>4, <2>5, ItemsNum, DeliversAdvance DEF EventsFaithful
  <2>7. Delivers(errRecv, ErrorPlaces, Frontier')
    BY <1>5, <1>6, <2>2, <2>4, <2>5, ItemsNum, DeliversAdvance DEF EventsFaithful
  <2>. QED  BY <1>1, <1>4, <2>3, <2>6, <2>7 DEF EventsFaithful
<1>. QED  BY <1>3, <1>7, <1>8

\* A record step sends the event or the error of the record it is at, or
\* moves the frontier past a record that is neither, or past the end.
LEMMA FwdRecordFInv ==
    ASSUME IInv, OutInv, EventsFaithful, FwdRecord
    PROVE  OutInv' /\ EventsFaithful'
<1>. DEFINE rs == Current.records
<1>1. /\ fpc = "records" /\ taken \in 1..Len(feed) /\ ri \in 1..(Len(rs) + 1)
      /\ UNCHANGED <<feed, taken, evRecv, errRecv>> /\ ~Current.err
  BY DEF FwdRecord, IInv, RecordInv, OutInv
<1>2. rs \in Seq(Records) /\ Len(rs) <= MaxRecords
  BY <1>1, CurrentFacts DEF IInv, TypeOK
<1>3. EventPlaces' = EventPlaces /\ ErrorPlaces' = ErrorPlaces
      /\ \A n, r : RecordAt(n, r)' = RecordAt(n, r)
  BY <1>1, SamePlaces
<1>4. Frontier = [n |-> taken, r |-> ri] /\ UNCHANGED Current
  BY <1>1 DEF Frontier, Current
<1>5. evRecv \in Seq(EventItems) /\ errRecv \in Seq(ErrorItems)
  BY DEF IInv, TypeOK
<1>6. \A r : RecordAt(taken, r) = rs[r]
  BY DEF RecordAt, Current
\* The frontier moves to G over no place.
<1>7. ASSUME NEW G, NumPlace(G), taken < G.n \/ (taken = G.n /\ ri <= G.r),
             \A p \in EventPlaces \cup ErrorPlaces :
                Precedes(At(p), G) => Precedes(At(p), Frontier)
      PROVE  Delivers(evRecv, EventPlaces, G) /\ Delivers(errRecv, ErrorPlaces, G)
  <2>1. NumPlace(Frontier)
    BY <1>1, <1>4 DEF NumPlace
  <2>. QED  BY <1>4, <1>5, <1>7, <2>1, ItemsNum, DeliversAdvance DEF EventsFaithful
<1>8. CASE ri > Len(rs)
  <2>1. fpc' = "recv" /\ UNCHANGED <<ri, out>>
    BY <1>8 DEF FwdRecord
  <2>2. Frontier' = [n |-> taken + 1, r |-> 0]
    BY <1>1, <2>1 DEF Frontier
  <2>3. \A p \in EventPlaces \cup ErrorPlaces :
            Precedes(At(p), Frontier') => Precedes(At(p), Frontier)
    <3>. SUFFICES ASSUME NEW p \in EventPlaces \cup ErrorPlaces,
                         Precedes(At(p), Frontier'), ~Precedes(At(p), Frontier)
                  PROVE  FALSE
      OBVIOUS
    <3>1. p[1] = taken /\ p[2] \in Nat /\ p[2] > Len(rs)
      BY <1>1, <1>4, <1>8, <2>2, PlacesPairs DEF Precedes, At
    <3>. QED  BY <1>6, <3>1, PlacesPairs, PlacesFacts DEF IsEventAt, IsErrorAt, Current
  <2>4. NumPlace(Frontier')
    BY <1>1, <2>2 DEF NumPlace
  <2>. QED  BY <1>1, <1>3, <1>7, <2>1, <2>2, <2>3, <2>4 DEF EventsFaithful, OutInv
<1>9. CASE ri <= Len(rs)
  <2>. DEFINE r == rs[ri]
  <2>1. r \in Records /\ ri \in 1..Len(rs) /\ ri \in 0..MaxRecords
    BY <1>1, <1>2, <1>9, WatchConstants
  <2>2. r.kind \in {"created", "removed", "other"} /\ r.escOK \in BOOLEAN
    BY <2>1, RecordKinds
  <2>3. RecordAt(taken, ri) = r
    BY <1>6
  <2>4. CASE ~r.escOK
    <3>1. out' = [ch |-> "error", item |-> [n |-> taken, r |-> ri]]
          /\ fpc' = "send" /\ UNCHANGED ri
      BY <1>1, <1>2, <1>9, <2>2, <2>4 DEF FwdRecord
    <3>2. <<taken, ri>> \in ErrorPlaces
      BY <1>1, <2>1, <2>3, <2>4, PlacesFacts DEF IsErrorAt, Current
    <3>3. Frontier' = Frontier
      BY <1>1, <1>4, <3>1 DEF Frontier
    <3>. QED  BY <1>1, <1>3, <3>1, <3>2, <3>3 DEF OutInv, EventsFaithful
  <2>5. CASE r.escOK /\ r.kind \in {"created", "removed"}
    <3>1. out' = [ch |-> "event", item |-> [type |-> EventType(r), n |-> taken, r |-> ri]]
          /\ fpc' = "send" /\ UNCHANGED ri
      BY <1>1, <1>2, <1>9, <2>2, <2>5 DEF FwdRecord
    <3>2. <<taken, ri>> \in EventPlaces
      BY <1>1, <2>1, <2>3, <2>5, PlacesFacts DEF IsEventAt, Current
    <3>3. Frontier' = Frontier
      BY <1>1, <1>4, <3>1 DEF Frontier
    <3>. QED  BY <1>1, <1>3, <2>3, <3>1, <3>2, <3>3 DEF OutInv, EventsFaithful
  <2>6. CASE r.escOK /\ r.kind \notin {"created", "removed"}
    <3>1. ri' = ri + 1 /\ UNCHANGED <<fpc, out>>
      BY <1>1, <1>2, <1>9, <2>2, <2>6 DEF FwdRecord
    <3>2. Frontier' = [n |-> taken, r |-> ri + 1]
      BY <1>1, <3>1 DEF Frontier
    <3>3. \A p \in EventPlaces \cup ErrorPlaces :
              Precedes(At(p), Frontier') => Precedes(At(p), Frontier)
      <4>. SUFFICES ASSUME NEW p \in EventPlaces \cup ErrorPlaces,
                           Precedes(At(p), Frontier'), ~Precedes(At(p), Frontier)
                    PROVE  FALSE
        OBVIOUS
      <4>1. p = <<taken, ri>>
        BY <1>1, <1>4, <3>2, PlacesPairs DEF Precedes, At
      <4>2. ~IsEventAt(taken, ri) /\ ~IsErrorAt(taken, ri)
        BY <1>1, <2>1, <2>3, <2>6 DEF IsEventAt, IsErrorAt, Current
      <4>. QED  BY <4>1, <4>2, PlacesFacts
    <3>4. NumPlace(Frontier')
      BY <1>1, <3>2 DEF NumPlace
    <3>. QED  BY <1>1, <1>3, <1>4, <1>7, <3>1, <3>2, <3>3, <3>4 DEF EventsFaithful, OutInv
  <2>. QED  BY <2>2, <2>4, <2>5, <2>6
<1>. QED  BY <1>1, <1>8, <1>9

\* The caller receives the event at the frontier, which moves past it.
LEMMA RecvEventFInv ==
    ASSUME IInv, OutInv, EventsFaithful, RecvEvent
    PROVE  OutInv' /\ EventsFaithful'
<1>. DEFINE x == out.item
<1>1. /\ fpc = "send" /\ out.ch = "event" /\ evRecv' = Append(evRecv, x)
      /\ UNCHANGED <<feed, taken, out, errRecv>> /\ AfterSend
  BY DEF RecvEvent
<1>2. x.n = taken /\ <<taken, x.r>> \in EventPlaces
      /\ x.type = EventType(RecordAt(taken, x.r))
  BY <1>1 DEF OutInv
<1>3. taken \in 1..Len(feed) /\ x.r \in 1..Len(Current.records) /\ x.r # 0
  BY <1>2, PlacesFacts DEF IsEventAt, RecordAt, Current
<1>4. ri = x.r /\ fpc' = "records" /\ ri' = ri + 1
  BY <1>1, <1>3 DEF IInv, SendInv, AfterSend
<1>5. Frontier = [n |-> taken, r |-> ri] /\ Frontier' = [n |-> taken, r |-> ri + 1]
  BY <1>1, <1>4 DEF Frontier
<1>6. EventPlaces' = EventPlaces /\ ErrorPlaces' = ErrorPlaces
      /\ \A n, r : RecordAt(n, r)' = RecordAt(n, r)
  BY <1>1, SamePlaces
<1>7. /\ evRecv \in Seq(EventItems) /\ errRecv \in Seq(ErrorItems) /\ x \in EventItems
      /\ NumPlace(Frontier) /\ NumPlace(Frontier')
  BY <1>1, <1>3, <1>4, <1>5 DEF IInv, TypeOK, NumPlace
<1>8. ~IsErrorAt(taken, ri)
  BY <1>2, <1>3, <1>4, PlacesFacts DEF IsEventAt, IsErrorAt
<1>9. Delivers(Append(evRecv, x), EventPlaces, Frontier')
  <2>1. \A p \in EventPlaces : Precedes(At(p), Frontier') =>
            Precedes(At(p), Frontier) \/ (p[1] = x.n /\ p[2] = x.r)
    BY <1>2, <1>4, <1>5, PlacesPairs DEF Precedes, At
  <2>2. Precedes(x, Frontier')
    BY <1>2, <1>4, <1>5, <1>7 DEF Precedes, NumPlace
  <2>. QED  BY <1>2, <1>4, <1>5, <1>7, <2>1, <2>2, ItemsNum, DeliversAppend
            DEF EventsFaithful
<1>10. Delivers(errRecv, ErrorPlaces, Frontier')
  <2>1. \A p \in ErrorPlaces : Precedes(At(p), Frontier') => Precedes(At(p), Frontier)
    <3>. SUFFICES ASSUME NEW p \in ErrorPlaces,
                         Precedes(At(p), Frontier'), ~Precedes(At(p), Frontier)
                  PROVE  FALSE
      OBVIOUS
    <3>1. p = <<taken, ri>>
      BY <1>3, <1>4, <1>5, PlacesPairs DEF Precedes, At
    <3>. QED  BY <1>8, <3>1, PlacesFacts
  <2>. QED  BY <1>3, <1>4, <1>5, <1>7, <2>1, ItemsNum, DeliversAdvance DEF EventsFaithful
<1>11. \A j \in 1..Len(evRecv') :
           evRecv'[j].type = EventType(RecordAt(evRecv'[j].n, evRecv'[j].r))
  BY <1>1, <1>2, <1>7, AppendProperties DEF EventsFaithful
<1>12. OutInv'
  <2>1. ~Current.err
    <3>1. Current \in Notifications
      BY <1>3, CurrentFacts DEF IInv, TypeOK
    <3>. QED  BY <1>3, <3>1, ErrNoRecords, EmptySeq
  <2>. QED  BY <1>1, <1>4, <2>1 DEF OutInv, Current
<1>. QED  BY <1>1, <1>6, <1>9, <1>10, <1>11, <1>12 DEF EventsFaithful

\* The caller receives the error at the frontier: a notification error,
\* after which the frontier moves to the next notification, or a record's.
LEMMA RecvErrorFInv ==
    ASSUME IInv, OutInv, EventsFaithful, RecvError
    PROVE  OutInv' /\ EventsFaithful'
<1>. DEFINE x == out.item
<1>1. /\ fpc = "send" /\ out.ch = "error" /\ errRecv' = Append(errRecv, x)
      /\ UNCHANGED <<feed, taken, out, evRecv>> /\ AfterSend
  BY DEF RecvError
<1>2. x.n = taken /\ <<taken, x.r>> \in ErrorPlaces
  BY <1>1 DEF OutInv
<1>3. taken \in 1..Len(feed) /\ x.r \in 0..MaxRecords /\ IsErrorAt(taken, x.r)
  BY <1>2, PlacesFacts
<1>4. Frontier = [n |-> taken, r |-> x.r]
  BY <1>1 DEF Frontier
<1>5. EventPlaces' = EventPlaces /\ ErrorPlaces' = ErrorPlaces
      /\ \A n, r : RecordAt(n, r)' = RecordAt(n, r)
  BY <1>1, SamePlaces
<1>6. /\ evRecv \in Seq(EventItems) /\ errRecv \in Seq(ErrorItems) /\ x \in ErrorItems
      /\ NumPlace(Frontier)
  BY <1>1, <1>3, <1>4, WatchConstants DEF IInv, TypeOK, NumPlace
<1>7. Current \in Notifications /\ Current.records \in Seq(Records)
  BY <1>3, CurrentFacts DEF IInv, TypeOK
<1>8. \A j \in 1..Len(evRecv') :
          evRecv'[j].type = EventType(RecordAt(evRecv'[j].n, evRecv'[j].r))
  BY <1>1, <1>5 DEF EventsFaithful
\* From F to G the frontier passes only the place of x.
<1>9. ASSUME NEW G, NumPlace(G), Precedes(x, G),
             \A p \in EventPlaces \cup ErrorPlaces :
                Precedes(At(p), G) => Precedes(At(p), Frontier) \/ p = <<taken, x.r>>,
             ~IsEventAt(taken, x.r)
      PROVE  Delivers(evRecv, EventPlaces, G) /\ Delivers(Append(errRecv, x), ErrorPlaces, G)
  <2>1. \A p \in EventPlaces : Precedes(At(p), G) => Precedes(At(p), Frontier)
    BY <1>9, PlacesFacts
  <2>2. Frontier.n < G.n \/ (Frontier.n = G.n /\ Frontier.r <= G.r)
    BY <1>2, <1>4, <1>6, <1>9 DEF Precedes, NumPlace
  <2>3. \A p \in ErrorPlaces : Precedes(At(p), G) =>
            Precedes(At(p), Frontier) \/ (p[1] = x.n /\ p[2] = x.r)
    BY <1>2, <1>9
  <2>4. Delivers(evRecv, EventPlaces, G)
    BY <1>6, <1>9, <2>1, <2>2, ItemsNum, DeliversAdvance DEF EventsFaithful
  <2>5. Delivers(Append(errRecv, x), ErrorPlaces, G)
    BY <1>2, <1>4, <1>6, <1>9, <2>3, ItemsNum, DeliversAppend DEF EventsFaithful
  <2>. QED  BY <2>4, <2>5
<1>10. CASE x.r = 0
  <2>1. feed[taken].err /\ Current.records = <<>>
    BY <1>3, <1>7, <1>10, ErrNoRecords, EmptySeq DEF IsErrorAt, Current
  <2>2. fpc' = "recv" /\ Frontier' = [n |-> taken + 1, r |-> 0]
    BY <1>1, <1>10 DEF AfterSend, Frontier
  <2>3. \A p \in EventPlaces \cup ErrorPlaces :
            Precedes(At(p), Frontier') => Precedes(At(p), Frontier) \/ p = <<taken, x.r>>
    <3>. SUFFICES ASSUME NEW p \in EventPlaces \cup ErrorPlaces,
                         Precedes(At(p), Frontier'), ~Precedes(At(p), Frontier)
                  PROVE  p = <<taken, x.r>>
      OBVIOUS
    <3>1. p[1] = taken /\ p[2] \in Nat
      BY <1>3, <1>4, <1>10, <2>2, PlacesPairs DEF Precedes, At
    <3>2. ~(p[2] \in 1..Len(feed[taken].records))
      BY <2>1, EmptySeq DEF Current
    <3>3. p[2] = 0
      BY <3>1, <3>2, PlacesPairs, PlacesFacts DEF IsEventAt, IsErrorAt
    <3>. QED  BY <1>10, <3>1, <3>3, PlacesPairs
  <2>4. ~IsEventAt(taken, x.r)
    BY <1>10 DEF IsEventAt
  <2>5. NumPlace(Frontier') /\ Precedes(x, Frontier')
    BY <1>2, <1>3, <1>10, <2>2 DEF NumPlace, Precedes
  <2>. QED  BY <1>1, <1>5, <1>8, <1>9, <2>2, <2>3, <2>4, <2>5 DEF EventsFaithful, OutInv
<1>11. CASE x.r # 0
  <2>1. ri = x.r /\ ri \in 1..Len(Current.records) /\ fpc' = "records" /\ ri' = ri + 1
    BY <1>1, <1>11 DEF IInv, SendInv, AfterSend
  <2>2. Frontier' = [n |-> taken, r |-> ri + 1]
    BY <1>1, <2>1 DEF Frontier
  <2>3. \A p \in EventPlaces \cup ErrorPlaces :
            Precedes(At(p), Frontier') => Precedes(At(p), Frontier) \/ p = <<taken, x.r>>
    BY <1>4, <2>1, <2>2, PlacesPairs DEF Precedes, At
  <2>4. ~IsEventAt(taken, x.r)
    BY <1>3, <1>11 DEF IsEventAt, IsErrorAt
  <2>5. NumPlace(Frontier') /\ Precedes(x, Frontier')
    BY <1>2, <1>3, <2>1, <2>2 DEF NumPlace, Precedes
  <2>6. ~Current.err
    BY <1>7, <2>1, ErrNoRecords, EmptySeq
  <2>. QED  BY <1>1, <1>5, <1>8, <1>9, <2>1, <2>2, <2>3, <2>4, <2>5, <2>6
            DEF EventsFaithful, OutInv, Current
<1>. QED  BY <1>10, <1>11

LEMMA NextFInv == FInv /\ [Next]_vars => FInv'
<1>. SUFFICES ASSUME FInv, [Next]_vars PROVE FInv'  OBVIOUS
<1>1. IInv /\ OutInv /\ EventsFaithful
  BY DEF FInv
<1>2. IInv'
  BY <1>1, NextIInv
<1>3. OutInv' /\ EventsFaithful'
  <2>1. CASE UNCHANGED vars
    BY <1>1, <2>1, UnmovedFInv DEF vars
  <2>2. CASE Watch \/ SDKPush \/ SDKExit \/ FwdPanic \/ Cancel \/ CloserStep
    <3>1. UNCHANGED <<feed, fpc, taken, ri, out, evRecv, errRecv>>
      BY <2>2 DEF Watch, SDKPush, SDKExit, FwdPanic, Cancel, CloserStep
    <3>. QED  BY <1>1, <3>1, UnmovedFInv
  <2>3. CASE FwdReceive
    BY <1>1, <2>3, FwdReceiveFInv
  <2>4. CASE FwdExit
    BY <1>1, <2>4, FwdExitFInv
  <2>5. CASE FwdRecord
    BY <1>1, <2>5, FwdRecordFInv
  <2>6. CASE RecvEvent
    BY <1>1, <2>6, RecvEventFInv
  <2>7. CASE RecvError
    BY <1>1, <2>7, RecvErrorFInv
  <2>. QED  BY <2>1, <2>2, <2>3, <2>4, <2>5, <2>6, <2>7 DEF Next, Forwarder
<1>. QED  BY <1>2, <1>3 DEF FInv

(***************************************************************************)
(* Spec 4.4, for every bound and channel capacity: the caller has         *)
(* received, on eventChan, exactly one event of the right type for every *)
(* created or removed record with a well-formed key, and on errorChan     *)
(* exactly one error for every notification error and every key that     *)
(* does not unescape, for all records before the forwarder, in feed      *)
(* order, with nothing duplicated or invented (the forwarder's range, its *)
(* record loop and its sends, lines 397-434 of Watch).                    *)
(***************************************************************************)
THEOREM Faithful == Spec => []EventsFaithful
<1>1. Init => FInv
  BY InitIInv, InitFInv DEF FInv
<1>2. FInv => EventsFaithful
  BY DEF FInv
<1>. QED  BY <1>1, <1>2, NextFInv, PTL DEF Spec
=============================================================================
