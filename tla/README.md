# TLA+ models of the S3 client of mc (`src/cmd/client-s3.go`)

This directory holds TLA+ models of the concurrent parts of the S3 client
(`s3Client`). It also holds the TLC configurations that check them and the
TLAPS proof modules. `PROJECT.json` lists the components, the runs, the
mutants, the map from every model definition to the Go lines it translates,
the findings, the hazards and the theorems.

## The system

`client-s3.go` implements mc's `Client` interface on top of the minio-go SDK.
Most methods make one SDK call and translate its error: `Get`, `Put`, `Copy`,
`Remove`, `MakeBucket`, the access policy methods and `Share*`. Two parts are
concurrent:

* **The listing engine.** `List(recursive, incomplete)` creates an unbuffered
  `contentCh` and starts one producer goroutine, which runs one of four
  strategies:
  * `listInRoutine`;
  * `listIncompleteInRoutine`;
  * `listIncompleteRecursiveInRoutine`;
  * `listRecursiveInRoutine`.

  Each strategy classifies the URL with `url2BucketAndObject`, which gives
  three cases: root, bucket, or any other address. It calls `ListBuckets` or
  ranges over an SDK streaming listing, which is itself a goroutine of
  minio-go. It sends `clientContent` items, and on error it either returns or
  continues. The deferred `close(contentCh)` runs when the goroutine ends. The
  caller ranges over the channel.
* **Watch.** `Watch` validates its parameters and then starts three
  goroutines, which interact with the caller:
  * a closer, which waits on `doneChan` and then closes `doneCh`, `eventChan`
    and `errorChan`, one after the other;
  * the SDK goroutine of `ListenBucketNotification`, which pushes
    notifications into a buffered channel. Its send is a select with
    `<-doneCh`, and it closes the channel once `doneCh` is closed;
  * a forwarder, which ranges over that channel and sends errors and events on
    the unbuffered `errorChan` and `eventChan`.

  The caller receives from both channels and closes `doneChan` to cancel.

Three more parts share state with other callers or with the SDK:

* **The client factory.** `s3New = newFactory()` is used by every caller. Its
  `New` rewrites virtual-host style Amazon and Google host names to the
  provider's endpoint. It hashes host name + access key + secret key with
  FNV-1a 32 and looks the hash up, under one mutex, in a process-wide cache
  of minio clients. On a miss it builds a client (`NewV2` or `NewV4`, which
  may fail) with its transport and caches it. It then sets the caller's
  application info on the client it got, which other handles may share.
* **The notification configuration.** `AddNotificationConfig` and
  `RemoveNotificationConfig` read the bucket's whole configuration with
  `GetBucketNotification`, change a local copy and write it all back with
  `SetBucketNotification`. `Remove` with an empty ARN calls
  `RemoveAllBucketNotification` instead. `ListNotificationConfigs` reads and
  filters. Nothing serialises two callers of the same bucket.
* **`Stat`.** A bucket is checked with `BucketExists`. For an object, `Stat`
  ranges over a non-recursive listing of the trimmed key with a nil `doneCh`
  and returns at the first decisive entry. The SDK's listing goroutine is
  left with the rest of the listing.

## Modules

| Module | Models |
|---|---|
| `S3ListData` | Constants and data of the listing engine: backend entries, SDK streams, `ListBuckets` results, items, targets. Has the named assumption `ConstantsAssumption`. |
| `S3List` | `List` and the four producer goroutines, with the caller. |
| `S3ListContract` | The abstract specification: the stream `List` promises, as a function of the backend's answers, delivered in order and then closed. |
| `MC_S3List` | The TLC instance: two buckets, with the contract `INSTANCE`d under the identity mapping. |
| `S3List_proofs` | TLAPS proofs about `S3List`. |
| `S3Watch` | `Watch`, its three goroutines and the caller. Has the assumption `WatchAssumption`. |
| `MC_S3Watch` | The TLC instance of `S3Watch`. |
| `S3Factory` | `newFactory`'s `New`, with the cache, the hash and the built clients. Has `FactoryAssumption`. |
| `MC_S3Factory` | The TLC instance: five hosts, two key pairs with equal concatenations, and FNV test vectors as an `ASSUME`. |
| `S3Factory_proofs` | TLAPS proofs about `S3Factory`. |
| `S3NotifyData` | Constants and data of the notification calls: ARNs, targets, configurations, requests. Has `NotifyAssumption`. |
| `S3Notify` | The three notification calls by concurrent callers, one step per backend call. |
| `S3NotifyContract` | The abstract specification: each call takes effect atomically between its entry and its return. |
| `MC_S3Notify` | The TLC instance, with the contract `INSTANCE`d under a refinement mapping. |
| `S3Notify_proofs` | TLAPS proofs about `S3Notify`: type correctness and the single-caller refinement. |
| `S3Stat` | `Stat` and the SDK listing goroutine with its buffered channel. Has `StatAssumption`. |
| `MC_S3Stat` | The TLC instance of `S3Stat`. |
| `S3Stat_proofs` | TLAPS proofs about `S3Stat`. |
| `S3Watch_proofs` | TLAPS proofs about `S3Watch`: type correctness and `EventsFaithful`. |

### S3List: state and actions against the code

State:
* `recursive`, `incomplete`: the arguments of `List`.
* `target`, `tb`: what `url2BucketAndObject` returns.
* `bucketsOK`, `buckets`: the outcome of `ListBuckets`. A failure gives a nil
  slice.
* `listing[b]`: the SDK stream of each bucket. A stream ends after its error
  entry, as minio-go's do.
* `pc`, `bi`, `ei`: the goroutine's place and its two loop indices.
* `slot`: the item the producer is blocked sending. The channel is a
  rendezvous, and `Ready` is `slot = <<>>`.
* `closed`: `contentCh` has been closed.
* `received`: what the caller has received.

An entry is abstracted to four Booleans: its key ends in the separator, its
size is zero, its storage class is GLACIER, it is an error. An item records:
* its type: dir, file (0664), temporary, or error;
* the bucket and the stream position it comes from, so that loss,
  duplication and reordering are visible;
* for errors, the cause: backend or GLACIER.

Actions:

| Action | Code |
|---|---|
| `Begin` | The `switch` head of every strategy: the root case's `ListBuckets` and its error return, the bucket case of `listInRoutine` (lines 949-966; it has no return after the error), and the entry into the object loop. |
| `RootStep` | One iteration of the root loop over buckets, per strategy: a directory per bucket (`listInRoutine`); the bucket and then its objects, with GLACIER and error items followed by `continue` (`listRecursiveInRoutine`, 1026-1057); an error followed by `return` (the incomplete strategies, 806-834 and 883-899). |
| `ObjectsStep` | One iteration of the default case's loop over one stream. Each step is the whole loop body: the error check, the directory test, the empty-marker skip (1069), and the send. |
| `Close` | The deferred `close(contentCh)`. |
| `Receive` | The caller takes the pending item. |

### S3Watch: state and actions against the code

`Watch` covers the validation (lines 358-380): the bucket name, the event
names, and an object together with a prefix. The SDK goroutine has two
actions, `SDKPush` and `SDKExit`. The forwarder has four:
* `FwdReceive`: the range and the error `continue`;
* `FwdRecord`: the record loop, covering `QueryUnescape` errors, created and
  removed events, and other records, which are ignored;
* `FwdExit`: the range ends;
* `FwdPanic`: a send on a closed channel.

`RecvEvent` and `RecvError` complete the rendezvous sends. `AfterSend` is the
`continue` or the next iteration. `Cancel` is the caller closing `doneChan`.
`CloserStep` is one close of `CloseSequence` (lines 388-390).

A record is abstracted to its event-name class and whether its key unescapes.
Items carry the index of their notification and record.

### S3Factory: state and actions against the code

State:
* `clients`: the minio clients built so far, in order. A client records its
  host name, keys, `secure`, V2 or V4 signing, insecure TLS, the trace
  transport and the application info.
* `cache`: `clientCache`, from hash to client.
* `handles`: the `s3Client`s returned, each with its configuration and its
  client.
* `calls`, `failed`: the calls of `New`, and those that returned an error.

Strings are byte sequences. `HostName` is the rewrite at lines 77-89; the
glob matches of `isAmazon` and `isGoogle` are part of the host's data.
`FNV32a` is FNV-1a 32 computed on the bytes. Its state is kept as two
16-bit halves so that the multiplication wraps modulo 2^32 as Go's does.
`MC_S3Factory` checks it against two published test vectors. `New` is one
action: the code before the lock works on the caller's own values, and the
lock is held to the return. Its three disjuncts are:
* a hit, followed by `SetAppInfo` on the cached client;
* a miss whose `NewV2`/`NewV4` fails, which caches nothing;
* a miss that builds (`NewClient`, lines 103-129) and caches.

### S3Notify: state and actions against the code

State:
* `config`: the server's configuration. It maps each target
  (service, resource) to a configuration (event types, prefix) or to none.
* `req`, `pc`: each caller's call and its place.
* `mb`: the caller's local copy.
* `result`, `listed`, `calls`: the caller's outcome, what `List` returned,
  and a count of calls.

An ARN is abstracted to what the calls test of it: whether it has six
fields, its service field and its resource. Actions:
* `AddStart`: the bucket and field-count checks.
* `AddGet`: `GetBucketNotification`, then the event loop and the service
  switch.
* `RemoveStart`: the bucket check, and for the empty ARN
  `RemoveAllBucketNotification` and its return.
* `RemoveGet`: the Get, the field and service checks, and `Remove*ByArn`.
* `SetConfig`: `SetBucketNotification`.
* `ListConfigs`: the whole of `ListNotificationConfigs`.

Every backend call may fail when `Faults` is set. The SDK's `Add*` (which
skips an ARN already present) and `Remove*ByArn` are modelled from the SDK's
behaviour (`AddByArn`, `RemoveByArn`).

### S3Stat: state and actions against the code

State:
* `addr`, `exists`: what `url2BucketAndObject` yields, and `BucketExists`'
  answer.
* `listing`: what the SDK will list. Each key is abstracted to its relation
  to the trimmed key `o`: `o` itself, `o/`, `o+x/`, `o+x`, or an error.
* `spc`, `answer`, `consumed`: Stat's place, its answer, and how much it has
  read.
* `sdk`, `sent`, `ch`: the SDK goroutine, how much it has sent, and its
  channel of capacity `SDKBuffer`.

Actions:
* `StatStart`: lines 674-698.
* `StatRecv`: one iteration of the range, lines 699-713.
* `StatEnd`: `ObjectMissing`.
* `SDKSend`, `SDKClose`: the SDK goroutine, which has no way to stop early
  with a nil `doneCh`.

## Runs

| Run | Config | Expect | Checks |
|---|---|---|---|
| `s3list_contract` | `MC_S3List.cfg` | pass | `TypeOK`, `ContractSpec` |
| `s3list_glacier` | `MC_S3List_GlacierReported.cfg` | violation | `GlacierReported` |
| `s3list_siblings` | `MC_S3List_SiblingsListed.cfg` | violation | `SiblingsListed` |
| `s3watch` | `MC_S3Watch.cfg` | pass | `TypeOK`, `EventsFaithful`, `NotificationsForwarded` |
| `s3watch_panic` | `MC_S3Watch_NoSendOnClosed.cfg` | violation | `NoSendOnClosed` |
| `s3factory` | `MC_S3Factory.cfg` | pass | `TypeOK`, `NoDuplicateClient` |
| `s3factory_credentials` | `MC_S3Factory_Credentials.cfg` | violation | `ClientForCredentials` |
| `s3notify_contract` | `MC_S3Notify.cfg` | pass | `TypeOK`, `ContractSpec` |
| `s3notify_lost_update` | `MC_S3Notify_LostUpdate.cfg` | violation | `ContractSpec` |
| `s3stat` | `MC_S3Stat.cfg` | pass | `TypeOK`, `StatAnswersListing` |
| `s3stat_leak` | `MC_S3Stat_ListingEnds.cfg` | violation | `ListingEnds` |
| `s3stat_answer` | `MC_S3Stat_Answer.cfg` | violation | `StatAnswersSpec` |

### s3list_contract

`ContractSpec` is the refinement. Every behaviour of the producer and its
caller is a behaviour of `S3ListContract!CSpec`, so the caller receives
exactly `Expected`, in order, and then sees the close. `Expected` covers all
four strategies: which items each kind of entry becomes, the empty-marker
skip, and where an error ends the stream.

No separate property states the error policy. Because the modelled SDK
streams end at their error, "an error is the last item" holds on the flat
paths whether the code returns or continues. It only differs at the root
listing of incomplete uploads, where the return at 812 is the behaviour run
`s3list_siblings` reports against spec 7. `ContractSpec` already fixes, per
strategy, where the stream ends.

### s3watch

* `EventsFaithful`: the events and the errors received are exactly those of
  the records the forwarder has passed, each once, in feed order, and each
  event has its record's type. A place is a pair (notification, record), with
  record 0 for the notification's own error. `Frontier` is the forwarder's
  place: the next notification while it waits, the record `ri` in the record
  loop, the record being sent while it sends. `Delivers` says that a received
  sequence lists, in increasing order, exactly the event (or error) places
  before the frontier. So nothing is lost, duplicated or reordered, across
  the two channels.
* `NotificationsForwarded`: every notification handed over is eventually
  forwarded in full unless the caller cancels. An error does not stop the
  loop.

No property says that both channels are closed after a cancel: the closer
closes them unconditionally after `<-doneChan` (385-391), so such a
property would only restate those calls and the closer's fairness.

### s3factory

`NoDuplicateClient`: no two clients built are for the same host name and
keys, which is spec 5's reason for the cache. It depends on the hash being
taken after the virtual-host rewrite. Hashing the raw host builds two
clients for `b1.s3.amazonaws.com` and `b2.s3.amazonaws.com`.

`New` holds the mutex from line 98 to its return, so it is one atomic step
of the model. A split critical section (hazard at line 102) is therefore not
something a property of this model could catch, and none is stated for it.

### s3notify_contract

`ContractSpec` is the refinement of `S3NotifyContract!CSpec` under this
mapping:
* a caller is busy while its `pc` is not idle;
* both kinds of failure are mapped to `"error"`.

With one caller, every call takes effect at its return or changes nothing,
whatever is invalid and whichever backend call fails.

### s3stat

`StatAnswersListing`: for an object, Stat's answer is decided by the first
listed entry that is not a sibling object (`Decide` of it), and is
`ObjectMissing` when there is none. It holds because the SDK hands the
listing over in order and the range ends only at the close. It is what the
code does; `StatAnswersSpec` (run `s3stat_answer`) is what spec 4.3 says,
and the two differ when a sibling directory `o+x/` is listed and neither
`o` nor `o/` is.

### The violation runs

The violation runs are the findings in `PROJECT.json`:
* **`GlacierReported`**: the bucket case of `listRecursiveInRoutine` does not
  test the storage class, so a GLACIER object is listed as a file. Spec 8.4
  and 4.2 say it is reported as an error.
* **`SiblingsListed`**: a stream error in a root listing of incomplete uploads
  returns, so the remaining buckets are not listed. Spec 7 says a per-item
  failure does not abort its siblings.
* **`NoSendOnClosed`**: the closer can close `eventChan` or `errorChan` while
  the forwarder is sending on it, or about to. The send then panics.
* **`ClientForCredentials`**: access key `a` with secret `bc` and access key
  `ab` with secret `c` hash to one key. The second caller gets the first
  caller's client and signs with the first caller's keys.
* **`ContractSpec` with two callers**: caller 1's Add reads the
  configuration. Caller 2's `RemoveAll` empties it. Caller 1's Set then
  writes the stale copy back, so the removal is undone.
* **`ListingEnds`**: with listing `o`, `o/`, `o+x/` and one slot, Stat
  returns at `o` and the SDK goroutine blocks forever.
* **`StatAnswersSpec`**: with only `o+x/` listed, Stat answers directory.
  Spec 4.3 says `ObjectMissing`.

### Bounds

**Listing.** There are two buckets, and `ListBuckets` returns up to two of
them in any order. Streams hold up to two entries, drawn from all five entry
kinds, with an optional trailing error. All three targets and all four
strategies are enumerated in `Init`. These bounds are enough for the cases
the listing properties are about:
* an error before a further entry;
* an error in the first bucket, with a second bucket after it;
* an empty-marker next to a file;
* a GLACIER object in either case;
* a bucket missing from the `ListBuckets` result.

**Watch.** Up to two notifications of up to two records each. The SDK channel
has one slot. Three event names give both valid and invalid parameters, and
the two object and prefix values give the object/prefix conflict. These
bounds produce:
* an error notification followed by a normal one;
* a record error followed by an event;
* a cancel at every point of the forwarder;
* a push after `doneCh` is closed.

**Factory.** The passing run uses three calls of `New` over five hosts and
two key pairs, with two application names and variants of scheme,
signature, Insecure and Debug. That covers a miss, a failed miss, a hit, a
hit by another configuration, and two virtual-host buckets of one provider.

**Notification.** There is one resource, prefixes `""` and `p`, event names
`put`, `delete` and the invalid `get`, and two initial configurations. The
contract run has one caller with three calls and backend failures. The
lost-update run has two callers with one call each, which is enough for a
Get of one to fall between the Get and the Set of the other.

**Stat.** The passing run has listings of up to four entries and a channel
of two slots, so both the case where the rest fits and the case where it
does not occur. The violation runs use three entries and one slot.

**Deadlock.** The listing and watch runs set `CHECK_DEADLOCK FALSE`. Each system really stops:
the listing after the close and the caller's last receive, and the watch
after the cancel and the closes. The factory, notification and Stat runs
also set `CHECK_DEADLOCK FALSE`: each stops after its bounded number of
calls, or, for Stat, after its return. That the listing does stop is part of
`ContractSpec`, whose `CSpec` has weak fairness on the delivery.

### Fairness

`S3List` has weak fairness on the producer and on `Receive`:
* the Go scheduler runs a runnable goroutine;
* the callers of `List` range over the channel until it is closed.

`S3Watch` has weak fairness on every goroutine and on the caller's receives:
* the caller's watch loop keeps reading both channels;
* `Cancel` is not fair, because cancelling is the caller's choice.

`S3Notify` has weak fairness on each caller's steps once it has entered a
call: every backend call answers, possibly with an error. `S3Stat` has weak
fairness on Stat and on the SDK goroutine. `S3Factory` has no liveness
property.

Under this fairness, each liveness property names its escape:
* `NotificationsForwarded` holds unless the caller cancels;
* `ListingEnds` (run `s3stat_leak`) is violated under this fairness: the
  SDK goroutine is fair, but it stays blocked on a full channel.

### Mutants

Each property of a passing run is broken by one mutant of the code it is
about (`PROJECT.json`, "mutants"):

| Mutant | Breaks |
|---|---|
| A buffered `contentCh` | `TypeOK` (S3List) |
| The empty-marker test without its size check | `ContractSpec` |
| An SDK push that ignores the channel capacity | `TypeOK` (S3Watch) |
| The record index not advanced | `EventsFaithful` |
| `return` instead of `continue` after a notification error | `NotificationsForwarded` |
| Debug trace set whatever the signature's spelling | `TypeOK` (S3Factory) |
| The hash of the host before the virtual-host rewrite | `NoDuplicateClient` |
| CLI event names stored untranslated | `TypeOK` (S3Notify) |
| No return after `RemoveAllBucketNotification` | `ContractSpec` (S3Notify) |
| The range not advancing past an entry | `TypeOK` (S3Stat) |
| An empty channel taken for a closed one | `StatAnswersListing` |

## What is proved

`S3List_proofs` proves one theorem, for every value of the constants, under
`ConstantsAssumption`. The assumption says that `NoBucket` is not a bucket
name and that the bounds are naturals.

**`TypeCorrect`: `Spec => []TypeOK`.** `TypeOK` alone is not inductive. The
inductive `TypeInv` adds two facts:
* at `start` nothing is pending;
* in the loops `ei >= 1`, so that `listing[b][ei]` is an entry.

The step proof has one case per action and one sub-case per strategy.

`S3Factory_proofs` proves two theorems for every configuration set and
bound, under `FactoryAssumption`. The assumption says that host names and
keys are byte sequences and that the flags are Booleans.

* **`TypeCorrect`: `Spec => []TypeOK`.** Every cache key is a key `New`
  computed, every cached index is a built client, and every handle holds
  one.
* **`NoDuplicate`: `Spec => []NoDuplicateClient`.** The inductive invariant
  adds `CacheIndexed`: every built client is cached under the hash of its
  own host name and keys. A second configuration with the same host name and
  keys therefore hits. The proof never looks into `FNV32a`, so it holds for
  any hash function. A miss adds a key that was not in the cache, so it
  cannot displace another client's entry. A hit changes only the
  application info.

`S3Stat_proofs` proves two theorems for every listing bound and channel
capacity, under `StatAssumption` (`MaxListing` a natural, `SDKBuffer` a
positive natural).

* **`TypeCorrect`: `Spec => []TypeOK`.**
* **`AnswersListing`: `Spec => []StatAnswersListing`.** The property says
  nothing until Stat returns, so it is not inductive. The inductive
  invariant `IInv` adds three facts:
  * `ChanInv`: `consumed <= sent <= Len(listing)`, and the channel holds
    exactly the entries `consumed+1 .. sent` of the listing, in order;
  * `ScanInv`: while Stat scans, every entry it has read is a sibling
    object;
  * `SDKInv`: the SDK is idle until the range starts, and it has sent the
    whole listing once it has exited.
  A `StatRecv` that returns reads `listing[consumed+1]` (by `ChanInv`),
  which is then the first decisive entry (by `ScanInv`). A `StatEnd` finds
  the channel empty and the SDK exited, so Stat has read the whole listing
  and, by `ScanInv`, there is no decisive entry. TLC checked `IInv` on
  `MC_S3Stat` before it was proved.

`S3Notify_proofs` proves two theorems under `NotifyAssumption`.

* **`TypeCorrect`: `Spec => []TypeOK`.** `TypeOK` is inductive here. The
  lemmas behind it say that the SDK helpers `AddByArn` and `RemoveByArn`,
  and the configuration `Add` builds, stay within `Configs`.
* **`SingleCallerRefinement`.** With one caller (`Callers = {c0}`), `Spec`
  implies `S3NotifyContract`'s initial condition and `[][CNext]_cvars`
  under the mapping of run `s3notify_contract`. This is the safety part of
  `ContractSpec`. The inductive invariant is `TypeOK` and `CallInv(c0)`.
  * Past the entry, the caller's request is a request.
  * At the Get and the Set, it is an Add, or a Remove of one ARN, and its
    bucket is valid.
  * At the Set, the request is valid and the local copy `mb` is the
    contract's `Effect` of the current configuration.
  The entry is the contract's `Call`. Each step that returns is its
  `Complete`: with `"ok"` and the effect, or with `"error"` and no change.
  The successful Set is the only step that changes the configuration. Every
  other step is a stutter of the contract. The lemmas `AddEffect` and `RemoveEffect` show that the SDK
  helpers compute `Effect`. The Set's clause is exactly what a second
  caller breaks, so the theorem assumes one caller. Run
  `s3notify_lost_update` shows that it fails with two.

`S3Watch_proofs` proves **`TypeCorrect`: `Spec => []TypeOK`** under
`WatchAssumption`. `TypeOK` bounds the SDK channel, the record index and
the items. It is not inductive alone: a record step reads the current
notification and the record `ri` of it, which must exist. The
inductive invariant adds three facts:
* `ChanInv`: the SDK channel holds exactly the notifications `taken+1 ..
  sent` of the feed;
* `RecordInv`: in the record loop, the current notification is a taken
  one and `ri` is at most one past its last record;
* `SendInv`: an item about to be sent names the record `ri`.
TLC checked it on `MC_S3Watch` (972,144 states) before it was proved.

It also proves **`Faithful`: `Spec => []EventsFaithful`**. The property is
stated over places and indices, not with `FlattenSeq`, so it needs no
induction over data. It is not inductive: while the forwarder holds an item
to send, that item must already be an event (or error) place, with its type.
The inductive invariant `FInv` is `IInv /\ OutInv /\ EventsFaithful`:
* `OutInv`: in the record loop the current notification has no error; an
  item about to be sent is for notification `taken`, and it is an event
  place with its record's type, or an error place.
Two generic lemmas over a set of places carry the step proofs:
* `DeliversAdvance`: when the frontier moves over no place of the set, the
  sequence still delivers it (a skipped record, the end of a notification,
  a receive);
* `DeliversAppend`: when the item at the frontier is appended and the
  frontier moves just past it, the sequence still delivers the set (a
  received event or error).
There is one lemma per action (`FwdRecordFInv`, `RecvEventFInv`, ...),
combined in `NextFInv`. TLC checked `FInv` on all 972,144 states before it
was proved.

To keep the SMT backend usable, three definitions are written as
disjunctions or `IF` chains rather than `CASE`: `StatStart` (with
`BucketAnswer`), `FwdRecord` and the contract's `Effect`. They are the same
relations as before, and every run was repeated after the change.

## What is only model-checked


These stay with TLC, which checks them on the bounded instances above:
* **Refinement.** `ContractSpec` is defined with `SelectSeq` and
  `FlattenSeq`. Reasoning about them needs induction theorems that take an
  operator parameter, which the installed provers cannot instantiate.
* **The liveness property** `NotificationsForwarded`, and anything stated with fairness or `ENABLED`.
  These are out of the provers' reach.

Also only model-checked:
* the liveness part of `S3Notify`'s `ContractSpec`, its weak fairness;
* the refinement of `S3NotifyContract` with two callers, which fails there.
`StatAnswersListing` and `EventsFaithful` need no induction over data,
because they are stated over sets of indices, and both are proved.

## Not modelled

The host classification is a glob match; `S3Factory` takes its outcome as
data. The parts of `url2BucketAndObject` other than its outcomes are not
modelled. Also not modelled:
* the notification suffix filter, which is handled like the prefix;
* the raw-ARN comparison of `List` (a hazard in `PROJECT.json`);
* a property for the order of validation and backend calls in Add and
  Remove. The model keeps that order, and the hazard at line 176 records
  that the code checks some arguments after `GetBucketNotification`;
* `Stat`'s per-handle mutex.
The single-call operations (`Get`, `Put`, `Copy`, `Remove`, `MakeBucket`,
access policies, `Share*`) are I/O with no state of their own.

## Plan

1. **`url2BucketAndObject`** as a pure operator over small paths and hosts,
   checked against a reference split.
2. **More proofs.** Action properties of `S3List` and `S3Watch`; the
   `S3List` refinement would first need `Expected` restated over indices.
3. **List with an abandoning caller**, reusing the SDK goroutine of
   `S3Stat`.
