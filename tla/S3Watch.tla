------------------------------- MODULE S3Watch -------------------------------
(***************************************************************************)
(* Watch (cmd/client-s3.go) and the goroutines it starts.                  *)
(*                                                                         *)
(*  - the caller: receives from eventChan and errorChan and closes        *)
(*    doneChan (watchObject.done) to cancel;                               *)
(*  - the closer goroutine: <-doneChan, then close(doneCh),               *)
(*    close(eventChan), close(errorChan), one after the other;            *)
(*  - the SDK goroutine of ListenBucketNotification (minio-go): pushes    *)
(*    the server's notifications into eventsCh, a channel of capacity     *)
(*    SDKBuffer, and closes eventsCh once doneCh is closed;               *)
(*  - the forwarder goroutine: ranges over eventsCh and sends an error    *)
(*    or one event per record on the unbuffered eventChan / errorChan.   *)
(*                                                                         *)
(* A send on a closed channel panics, and an unrecovered panic ends the   *)
(* process: crashed stops every action.  A record is abstracted to its    *)
(* event-name class and whether url.QueryUnescape accepts its key.       *)
(***************************************************************************)
EXTENDS Naturals, Sequences

CONSTANTS
    MaxNotifications,  \* notifications the server sends during the watch
    MaxRecords,        \* records in one notification
    SDKBuffer,         \* capacity of the SDK's notification channel
    EventNames,        \* the names Watch may be given in params.events
    Objects,           \* object parts of the client URL ("" for none)
    PrefixValues       \* params.prefix values ("" for none)

ASSUME WatchAssumption ==
    /\ MaxNotifications \in Nat /\ MaxRecords \in Nat
    /\ SDKBuffer \in Nat \ {0}
    /\ {"put", "delete"} \subseteq EventNames
    /\ "" \in Objects /\ "" \in PrefixValues

(***************************************************************************)
(* Notifications (minio.NotificationInfo): an error, or records whose     *)
(* EventName starts with "s3:ObjectCreated:", "s3:ObjectRemoved:" or      *)
(* something else, and whose key may fail to unescape.                   *)
(***************************************************************************)
Records == [kind: {"created", "removed", "other"}, escOK: {TRUE}]
           \cup {[kind |-> "other", escOK |-> FALSE]}
Notifications ==
    {[err |-> TRUE, records |-> <<>>]}
    \cup {[err |-> FALSE, records |-> rs] :
            rs \in UNION {[1..n -> Records] : n \in 0..MaxRecords}}
Feeds == UNION {[1..n -> Notifications] : n \in 0..MaxNotifications}

\* Items sent to the caller name the notification and record they stem
\* from (record 0 for the error of a notification).
EventItems == [type: {"create", "remove"}, n: Nat, r: Nat]
ErrorItems == [n: Nat, r: Nat]

VARIABLES
    params,      \* the watchParams and URL object of the Watch call
    wpc,         \* "idle", "failed" (an error returned) or "running"
    filter,      \* the prefix given to ListenBucketNotification
    feed,        \* what the server will send during the watch
    sdk,         \* the SDK goroutine: "running" or "exited"
    sent,        \* notifications the SDK has put into eventsCh
    eventsCh,    \* the SDK's buffered channel
    fpc,         \* the forwarder: "recv", "records", "send", "exited"
    taken,       \* notifications the forwarder has received
    ri,          \* the record it is at
    out,         \* the item it is sending: [ch, item]
    cancelled,   \* the caller has closed doneChan
    cpc,         \* the closer: how many channels it has closed
    closedChs,   \* which of "doneCh", "event", "error" are closed
    evRecv,      \* events the caller has received
    errRecv,     \* errors the caller has received
    crashed      \* a send on a closed channel has panicked

vars == <<params, wpc, filter, feed, sdk, sent, eventsCh, fpc, taken, ri,
          out, cancelled, cpc, closedChs, evRecv, errRecv, crashed>>

\* The closer goroutine: close(doneCh); close(eventChan); close(errorChan).
CloseSequence == <<"doneCh", "event", "error">>

Params == [events: SUBSET EventNames, object: Objects, prefix: PrefixValues,
           bucketValid: BOOLEAN]

TypeOK ==
    /\ params \in Params
    /\ wpc \in {"idle", "failed", "running"}
    /\ filter \in Objects \cup PrefixValues
    /\ feed \in Feeds
    /\ sdk \in {"running", "exited"}
    /\ sent \in 0..Len(feed)
    /\ eventsCh \in Seq(Notifications) /\ Len(eventsCh) <= SDKBuffer
    /\ fpc \in {"recv", "records", "send", "exited"}
    /\ taken \in 0..Len(feed)
    /\ ri \in 0..(MaxRecords + 1)
    /\ out \in [ch: {"event"}, item: EventItems] \cup [ch: {"error"}, item: ErrorItems]
    /\ cancelled \in BOOLEAN
    /\ cpc \in 0..Len(CloseSequence)
    /\ closedChs \subseteq {"doneCh", "event", "error"}
    /\ evRecv \in Seq(EventItems) /\ errRecv \in Seq(ErrorItems)
    /\ crashed \in BOOLEAN

NoOut == [ch |-> "error", item |-> [n |-> 0, r |-> 0]]

Init ==
    /\ params \in Params
    /\ wpc = "idle" /\ filter = ""
    /\ feed \in Feeds
    /\ sdk = "running" /\ sent = 0 /\ eventsCh = <<>>
    /\ fpc = "recv" /\ taken = 0 /\ ri = 0 /\ out = NoOut
    /\ cancelled = FALSE /\ cpc = 0 /\ closedChs = {}
    /\ evRecv = <<>> /\ errRecv = <<>> /\ crashed = FALSE

(***************************************************************************)
(* The Watch call: validation, then the goroutines are started.  Invalid  *)
(* bucket names, unknown event names, and an object together with a      *)
(* prefix are rejected before anything is started; an object without a   *)
(* prefix becomes the prefix.                                             *)
(***************************************************************************)
ValidParams(p) ==
    /\ p.bucketValid
    /\ p.events \subseteq {"put", "delete"}
    /\ ~(p.object # "" /\ p.prefix # "")

Watch ==
    /\ wpc = "idle"
    /\ IF ValidParams(params)
       THEN /\ wpc' = "running"
            /\ filter' = IF params.object # "" THEN params.object ELSE params.prefix
       ELSE /\ wpc' = "failed" /\ UNCHANGED filter
    /\ UNCHANGED <<params, feed, sdk, sent, eventsCh, fpc, taken, ri, out,
                   cancelled, cpc, closedChs, evRecv, errRecv, crashed>>

\* Goroutines only run once Watch has started them and the process lives.
Running == wpc = "running" /\ ~crashed

(***************************************************************************)
(* The SDK goroutine.  Its send is a select with <-doneCh: while the      *)
(* buffer has room it may still push after doneCh is closed, and once     *)
(* doneCh is closed it may return, closing eventsCh.                      *)
(***************************************************************************)
\* Mutant of SDKPush: the channel capacity is ignored.
SDKPushUnbounded ==
    /\ Running /\ sdk = "running"
    /\ sent < Len(feed)
    /\ eventsCh' = Append(eventsCh, feed[sent + 1])
    /\ sent' = sent + 1
    /\ UNCHANGED <<params, wpc, filter, feed, sdk, fpc, taken, ri, out,
                   cancelled, cpc, closedChs, evRecv, errRecv, crashed>>

SDKPush ==
    /\ Running /\ sdk = "running"
    /\ sent < Len(feed) /\ Len(eventsCh) < SDKBuffer
    /\ eventsCh' = Append(eventsCh, feed[sent + 1])
    /\ sent' = sent + 1
    /\ UNCHANGED <<params, wpc, filter, feed, sdk, fpc, taken, ri, out,
                   cancelled, cpc, closedChs, evRecv, errRecv, crashed>>

SDKExit ==
    /\ Running /\ sdk = "running" /\ "doneCh" \in closedChs
    /\ sdk' = "exited"
    /\ UNCHANGED <<params, wpc, filter, feed, sent, eventsCh, fpc, taken, ri,
                   out, cancelled, cpc, closedChs, evRecv, errRecv, crashed>>

(***************************************************************************)
(* The forwarder goroutine: for notificationInfo := range eventsCh.       *)
(***************************************************************************)
\* The notification being forwarded.
Current == feed[taken]

\* Mutant of AfterSend: the record index is not advanced.
AfterSendNoAdvance ==
    IF out.item.r = 0 THEN fpc' = "recv" /\ UNCHANGED ri
    ELSE fpc' = "records" /\ UNCHANGED ri

\* Mutant of AfterSend: return instead of continue after a notification error.
AfterSendReturn ==
    IF out.item.r = 0 THEN fpc' = "exited" /\ UNCHANGED ri
    ELSE fpc' = "records" /\ ri' = ri + 1

\* Back to the loop after a send: the next record, or the next
\* notification after a notification error.
AfterSend ==
    IF out.item.r = 0 THEN fpc' = "recv" /\ UNCHANGED ri
    ELSE fpc' = "records" /\ ri' = ri + 1

\* Receive the next notification; its error goes to errorChan.
FwdReceive ==
    /\ Running /\ fpc = "recv" /\ eventsCh # <<>>
    /\ eventsCh' = Tail(eventsCh)
    /\ taken' = taken + 1
    /\ IF Head(eventsCh).err
       THEN /\ out' = [ch |-> "error", item |-> [n |-> taken + 1, r |-> 0]]
            /\ fpc' = "send" /\ UNCHANGED ri
       ELSE /\ fpc' = "records" /\ ri' = 1 /\ UNCHANGED out
    /\ UNCHANGED <<params, wpc, filter, feed, sdk, sent, cancelled, cpc,
                   closedChs, evRecv, errRecv, crashed>>

\* The range ends when eventsCh is closed and drained.
FwdExit ==
    /\ Running /\ fpc = "recv" /\ eventsCh = <<>> /\ sdk = "exited"
    /\ fpc' = "exited"
    /\ UNCHANGED <<params, wpc, filter, feed, sdk, sent, eventsCh, taken, ri,
                   out, cancelled, cpc, closedChs, evRecv, errRecv, crashed>>

\* strings.HasPrefix(record.EventName, ...): the event of a record.
EventType(r) == IF r.kind = "created" THEN "create" ELSE "remove"

\* One record: an unescape error goes to errorChan, a created or removed
\* record becomes an event, any other record is ignored.
FwdRecord ==
    /\ Running /\ fpc = "records"
    /\ IF ri > Len(Current.records)
       THEN fpc' = "recv" /\ UNCHANGED <<ri, out>>
       ELSE LET r == Current.records[ri]
            IN  \/ /\ ~r.escOK
                   /\ out' = [ch |-> "error", item |-> [n |-> taken, r |-> ri]]
                   /\ fpc' = "send" /\ UNCHANGED ri
                \/ /\ r.escOK /\ r.kind \in {"created", "removed"}
                   /\ out' = [ch |-> "event",
                              item |-> [type |-> EventType(r), n |-> taken, r |-> ri]]
                   /\ fpc' = "send" /\ UNCHANGED ri
                \/ /\ r.escOK /\ r.kind \notin {"created", "removed"}
                   /\ ri' = ri + 1 /\ UNCHANGED <<fpc, out>>
    /\ UNCHANGED <<params, wpc, filter, feed, sdk, sent, eventsCh, taken,
                   cancelled, cpc, closedChs, evRecv, errRecv, crashed>>

\* A send on a closed channel, or a send blocked when it is closed, panics.
FwdPanic ==
    /\ Running /\ fpc = "send" /\ out.ch \in closedChs
    /\ crashed' = TRUE
    /\ UNCHANGED <<params, wpc, filter, feed, sdk, sent, eventsCh, fpc, taken,
                   ri, out, cancelled, cpc, closedChs, evRecv, errRecv>>

(***************************************************************************)
(* The caller.  A receive completes the forwarder's send.  Closing        *)
(* doneChan is the caller's choice and may come at any time.              *)
(***************************************************************************)
RecvEvent ==
    /\ Running /\ fpc = "send" /\ out.ch = "event" /\ "event" \notin closedChs
    /\ evRecv' = Append(evRecv, out.item)
    /\ AfterSend
    /\ UNCHANGED <<params, wpc, filter, feed, sdk, sent, eventsCh, taken, out,
                   cancelled, cpc, closedChs, errRecv, crashed>>

RecvError ==
    /\ Running /\ fpc = "send" /\ out.ch = "error" /\ "error" \notin closedChs
    /\ errRecv' = Append(errRecv, out.item)
    /\ AfterSend
    /\ UNCHANGED <<params, wpc, filter, feed, sdk, sent, eventsCh, taken, out,
                   cancelled, cpc, closedChs, evRecv, crashed>>

Cancel ==
    /\ Running /\ ~cancelled
    /\ cancelled' = TRUE
    /\ UNCHANGED <<params, wpc, filter, feed, sdk, sent, eventsCh, fpc, taken,
                   ri, out, cpc, closedChs, evRecv, errRecv, crashed>>

(***************************************************************************)
(* The closer goroutine: <-doneChan, then the channels of CloseSequence,  *)
(* one close per step; cpc counts the closes done.                        *)
(***************************************************************************)
CloserStep ==
    /\ Running /\ cancelled /\ cpc < Len(CloseSequence)
    /\ closedChs' = closedChs \cup {CloseSequence[cpc + 1]}
    /\ cpc' = cpc + 1
    /\ UNCHANGED <<params, wpc, filter, feed, sdk, sent, eventsCh, fpc, taken,
                   ri, out, cancelled, evRecv, errRecv, crashed>>

Forwarder == FwdReceive \/ FwdExit \/ FwdRecord \/ FwdPanic

Next == Watch \/ SDKPush \/ SDKExit \/ Forwarder \/ RecvEvent \/ RecvError
        \/ Cancel \/ CloserStep

(***************************************************************************)
(* Every goroutine is scheduled whenever it can run; the caller keeps     *)
(* reading both channels (the watch loop of its users) but need never     *)
(* cancel.                                                                *)
(***************************************************************************)
Fairness ==
    /\ WF_vars(Watch) /\ WF_vars(SDKPush) /\ WF_vars(SDKExit)
    /\ WF_vars(Forwarder) /\ WF_vars(CloserStep)
    /\ WF_vars(RecvEvent) /\ WF_vars(RecvError)

Spec == Init /\ [][Next]_vars /\ Fairness

-----------------------------------------------------------------------------
\* An item's place in the feed: its notification, then its record.
Precedes(a, b) == a.n < b.n \/ (a.n = b.n /\ a.r < b.r)

RecordAt(n, r) == feed[n].records[r]

\* Record r of notification n becomes an event.
IsEventAt(n, r) ==
    /\ r \in 1..Len(feed[n].records)
    /\ RecordAt(n, r).escOK /\ RecordAt(n, r).kind \in {"created", "removed"}

\* Record r of notification n, or for r = 0 the notification, becomes an error.
IsErrorAt(n, r) ==
    \/ feed[n].err /\ r = 0
    \/ r \in 1..Len(feed[n].records) /\ ~RecordAt(n, r).escOK

\* How far the forwarder has got in the feed.
Frontier ==
    IF fpc \in {"recv", "exited"} THEN [n |-> taken + 1, r |-> 0]
    ELSE IF fpc = "records" THEN [n |-> taken, r |-> ri]
    ELSE [n |-> taken, r |-> out.item.r]

\* The places (notification, record) whose record becomes an event, an error.
EventPlaces == {p \in (1..Len(feed)) \X (0..MaxRecords) : IsEventAt(p[1], p[2])}
ErrorPlaces == {p \in (1..Len(feed)) \X (0..MaxRecords) : IsErrorAt(p[1], p[2])}

\* Stream s holds exactly the items of Places before F, in feed order.
Delivers(s, Places, F) ==
    /\ \A j \in 1..Len(s) : <<s[j].n, s[j].r>> \in Places /\ Precedes(s[j], F)
    /\ \A j, k \in 1..Len(s) : j < k => Precedes(s[j], s[k])
    /\ \A p \in Places :
          Precedes([n |-> p[1], r |-> p[2]], F) =>
              \E j \in 1..Len(s) : s[j].n = p[1] /\ s[j].r = p[2]

(***************************************************************************)
(* Spec 4.4: each notification the forwarder has taken from eventsCh is   *)
(* delivered to the caller as its events and errors, each stream in       *)
(* feed order, with nothing lost, duplicated or invented.  The caller has *)
(* received exactly one event per created or removed record with a       *)
(* well-formed key, of the record's type, and one error per notification *)
(* error and per key that does not unescape, for all records before the  *)
(* forwarder's frontier; other records are dropped (the record loop of   *)
(* the forwarder goroutine and its sends).                                *)
(***************************************************************************)
EventsFaithful ==
    /\ Delivers(evRecv, EventPlaces, Frontier)
    /\ Delivers(errRecv, ErrorPlaces, Frontier)
    /\ \A j \in 1..Len(evRecv) :
          evRecv[j].type = EventType(RecordAt(evRecv[j].n, evRecv[j].r))

\* The forwarder is done with notification k.
Forwarded(k) == taken > k \/ (taken = k /\ fpc \in {"recv", "exited"})

(***************************************************************************)
(* Spec 4.4: a notification error does not end the watch.  Every          *)
(* notification the SDK hands over is eventually forwarded in full,       *)
(* unless the caller cancels (the forwarder's continue after an error).  *)
(***************************************************************************)
NotificationsForwarded ==
    \A k \in 1..MaxNotifications : (sent >= k) ~> (Forwarded(k) \/ cancelled)

(***************************************************************************)
(* Go semantics: a send on a closed channel panics.  The forwarder never  *)
(* sends on eventChan or errorChan after the closer has closed them.      *)
(***************************************************************************)
NoSendOnClosed == ~crashed
=============================================================================
