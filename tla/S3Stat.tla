-------------------------------- MODULE S3Stat --------------------------------
(***************************************************************************)
(* Stat (cmd/client-s3.go) and the SDK listing goroutine it reads from.   *)
(* For an object, Stat ranges over a non-recursive listObjectWrapper      *)
(* listing of the trimmed key with a nil doneCh and returns from inside   *)
(* the range at the first decisive entry.  The SDK goroutine (minio-go)   *)
(* pushes the listing into a channel of capacity SDKBuffer and closes it  *)
(* at the end; with a nil doneCh it has no way to stop early.             *)
(*                                                                         *)
(* A listed key is abstracted to its relation to the trimmed key o:       *)
(* "exact" (o), "dirOf" (o + "/", a common prefix), "sibDir" (o + x + "/" *)
(* for a non-empty x), "sibObj" (o + x), or an error entry.               *)
(***************************************************************************)
EXTENDS Naturals, Sequences

CONSTANTS
    MaxListing,   \* longest listing of the key's prefix
    SDKBuffer     \* capacity of the SDK's listing channel

ASSUME StatAssumption ==
    MaxListing \in Nat /\ SDKBuffer \in Nat \ {0}

Kinds == {"exact", "dirOf", "sibDir", "sibObj", "err"}

(***************************************************************************)
(* The listings the SDK can deliver for prefix o: one page, its objects   *)
(* in key order (o, the smallest key, first) and then its common          *)
(* prefixes, each key at most once; an error entry ends the stream.       *)
(***************************************************************************)
IsObject(k) == k \in {"exact", "sibObj"}
Listings ==
    { s \in UNION {[1..n -> Kinds] : n \in 0..MaxListing} :
        /\ \A i \in 1..Len(s) : s[i] = "err" => i = Len(s)
        /\ \A i \in 1..Len(s) : s[i] = "exact" => i = 1
        /\ \A i, j \in 1..Len(s) : s[i] = "dirOf" /\ s[j] = "dirOf" => i = j
        /\ \A i, j \in 1..Len(s) :
              i < j /\ IsObject(s[j]) /\ s[i] # "err" => IsObject(s[i]) }

\* What url2BucketAndObject yields: no bucket, a bucket only, an object.
Addrs == {"noBucket", "bucket", "object"}

VARIABLES
    addr,      \* the client URL's bucket and object parts
    exists,    \* BucketExists' answer: "yes", "no" or "err"
    listing,   \* what the SDK will list for the trimmed key
    spc,       \* Stat: "start", "scan" (in the range), "returned"
    answer,    \* what Stat returned
    consumed,  \* entries Stat has received
    sdk,       \* the SDK goroutine: "idle", "running", "exited"
    sent,      \* entries it has pushed
    ch         \* its buffered channel

vars == <<addr, exists, listing, spc, answer, consumed, sdk, sent, ch>>

Answers == {"none", "file", "dir", "missing", "err", "bucketEmpty", "noSuchBucket"}

TypeOK ==
    /\ addr \in Addrs /\ exists \in {"yes", "no", "err"}
    /\ listing \in Listings
    /\ spc \in {"start", "scan", "returned"}
    /\ answer \in Answers
    /\ consumed \in 0..MaxListing
    /\ sdk \in {"idle", "running", "exited"}
    /\ sent \in 0..Len(listing)
    /\ ch \in Seq(Kinds) /\ Len(ch) <= SDKBuffer

Init ==
    /\ addr \in Addrs /\ exists \in {"yes", "no", "err"}
    /\ listing \in Listings
    /\ spc = "start" /\ answer = "none" /\ consumed = 0
    /\ sdk = "idle" /\ sent = 0 /\ ch = <<>>

Finish(a) == spc' = "returned" /\ answer' = a

(***************************************************************************)
(* Stat up to the range: an empty bucket name is an error; a bucket alone *)
(* is checked with BucketExists; for an object the listing is started.    *)
(***************************************************************************)
\* What Stat answers for a bucket, by what BucketExists said of it.
BucketAnswer == [err |-> "err", no |-> "noSuchBucket", yes |-> "dir"]

StatStart ==
    /\ spc = "start"
    /\ \/ addr = "noBucket" /\ Finish("bucketEmpty") /\ UNCHANGED sdk
       \/ addr = "bucket" /\ Finish(BucketAnswer[exists]) /\ UNCHANGED sdk
       \/ addr = "object" /\ spc' = "scan" /\ sdk' = "running" /\ UNCHANGED answer
    /\ UNCHANGED <<addr, exists, listing, consumed, sent, ch>>

(***************************************************************************)
(* What Stat returns for a listed entry that decides it: the error of an  *)
(* error entry, a file for the key itself, a directory for a key ending   *)
(* in the separator (strings.HasSuffix(objectStat.Key, separator)).        *)
(***************************************************************************)
Decide(k) == CASE k = "err" -> "err" [] k = "exact" -> "file" [] OTHER -> "dir"

\* Mutant of StatRecv: the range does not advance past the entry.
StatRecvNoAdvance ==
    /\ spc = "scan" /\ ch # <<>>
    /\ consumed' = consumed + 1
    /\ IF Head(ch) = "sibObj" THEN UNCHANGED <<spc, answer>>
       ELSE Finish(Decide(Head(ch)))
    /\ UNCHANGED <<addr, exists, listing, sdk, sent, ch>>

\* One iteration of the range over the listing.
StatRecv ==
    /\ spc = "scan" /\ ch # <<>>
    /\ ch' = Tail(ch) /\ consumed' = consumed + 1
    /\ IF Head(ch) = "sibObj" THEN UNCHANGED <<spc, answer>>
       ELSE Finish(Decide(Head(ch)))
    /\ UNCHANGED <<addr, exists, listing, sdk, sent>>

\* Mutant of StatEnd: an empty channel is taken for a closed one.
StatEndEarly ==
    /\ spc = "scan" /\ ch = <<>>
    /\ Finish("missing")
    /\ UNCHANGED <<addr, exists, listing, consumed, sdk, sent, ch>>

\* The range ends with the closed channel: ObjectMissing.
StatEnd ==
    /\ spc = "scan" /\ ch = <<>> /\ sdk = "exited"
    /\ Finish("missing")
    /\ UNCHANGED <<addr, exists, listing, consumed, sdk, sent, ch>>

\* The SDK goroutine sends the next entry when the channel has room.
SDKSend ==
    /\ sdk = "running" /\ sent < Len(listing) /\ Len(ch) < SDKBuffer
    /\ ch' = Append(ch, listing[sent + 1]) /\ sent' = sent + 1
    /\ UNCHANGED <<addr, exists, listing, spc, answer, consumed, sdk>>

\* At the end of the listing it closes the channel and exits.
SDKClose ==
    /\ sdk = "running" /\ sent = Len(listing)
    /\ sdk' = "exited"
    /\ UNCHANGED <<addr, exists, listing, spc, answer, consumed, sent, ch>>

Next == StatStart \/ StatRecv \/ StatEnd \/ SDKSend \/ SDKClose

\* Stat and the SDK goroutine are both scheduled whenever they can run.
Fairness == WF_vars(StatStart \/ StatRecv \/ StatEnd) /\ WF_vars(SDKSend \/ SDKClose)

Spec == Init /\ [][Next]_vars /\ Fairness

-----------------------------------------------------------------------------
(***************************************************************************)
(* Spec 5: only closing the done signal guarantees that a listing stream  *)
(* ends.  Stat passes none: every SDK listing goroutine Stat starts       *)
(* eventually exits, whatever is left of the listing.                      *)
(***************************************************************************)
ListingEnds == [](sdk = "running" => <>(sdk = "exited"))

(***************************************************************************)
(* Spec 4.3: the first entry whose key equals the trimmed key is an       *)
(* object; if none does but an entry's key is the key followed by the     *)
(* separator, a directory; otherwise ObjectMissing, or the error of the  *)
(* listing (which the SDK sends last).                                    *)
(***************************************************************************)
SpecAnswer ==
    LET listed == {listing[i] : i \in 1..Len(listing)}
    IN  CASE "exact" \in listed -> "file"
          [] "exact" \notin listed /\ "dirOf" \in listed -> "dir"
          [] OTHER -> IF "err" \in listed THEN "err" ELSE "missing"

StatAnswersSpec ==
    spc = "returned" /\ addr = "object" => answer = SpecAnswer

\* The first entry of the listing that is not a sibling object.
IsFirstDecisive(i) ==
    listing[i] # "sibObj" /\ \A j \in 1..(i - 1) : listing[j] = "sibObj"
Decisive == {i \in 1..Len(listing) : IsFirstDecisive(i)}

(***************************************************************************)
(* Stat's answer for an object is decided by the first listed entry that  *)
(* is not a sibling object, and is ObjectMissing when there is none: the  *)
(* SDK goroutine hands the listing over in order through its channel,     *)
(* Stat reads it in order, and the range ends only once the channel is   *)
(* closed (lines 698-715 and the SDK's sends).                            *)
(***************************************************************************)
StatAnswersListing ==
    spc = "returned" /\ addr = "object" =>
        answer = IF Decisive = {} THEN "missing"
                 ELSE Decide(listing[CHOOSE i \in Decisive : TRUE])
=============================================================================
