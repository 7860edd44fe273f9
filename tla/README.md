# A verification of natsstore

`natsstore` implements five storage primitives (a ledger, a key-value store, a
leaser, a blob store and an ordered index) over NATS JetStream. The code is
small; what makes it hard is what lies between its calls: other processes, a
network that delays, loses and repeats, and a server that serves a request after
its caller has gone. The modules here model that, TLC checks small instances of
them, and TLAPS proves the central properties for all instances.

## 1. The system

| component | source | state | operations |
|---|---|---|---|
| ordered index: mutations | `src/ordered.go`, `src/ordered_seam.go` | one stream per namespace: the last message of each record's subject and of each scope's counter; in memory a latch per scope in use | `Create`, `Update`, `Delete`, `Get` |
| ordered index: views and queries | `src/ordered.go`, `src/ordered_seam.go` | per namespace one view: goroutine, consumer, records, sorted indexes, watermark, sticky error; the registry of views | `ListOrdered`, `ListRanked`, `ListDue`, `Close`; inside: attach, apply, advance, retire |
| ordered batch publish | `src/ordered_seam.go` | a nonce and a count per connection; staged batch members on the server | `publish`, `publishBatch`, classification of the answer |
| provisioning and verification | `src/ordered_seam.go`, `src/seam.go` | the cache of verified streams | `ensureStream`, `verifyOrderedStreamConfig` |
| ordered codec and cursors | `src/ordered_codec.go` | none | encoding of records, counters and cursor tokens |
| leaser | `src/lease.go`, `src/seam.go` | one KV entry per name; in memory a lease with a heartbeat goroutine | `Acquire`, renewal, `Release`, `Lost`; the bucket's TTL |
| ledger | `src/ledger.go`, `src/seam.go` | one stream per name; cursors | `Append`, `Read`/`Next`, `Tip`, `Delete` |
| key-value store | `src/kv.go`, `src/seam.go` | KV entries | `Put`, `Get`, `Delete`, `Keys` |
| blob store, object chunk reader | `src/blobs.go`, `src/seam.go` | objects and their chunks; an open reader | `Put`, `Get`, `Delete`, `Read`, `Close` |
| name codec | `src/subject.go` | none | names to subjects, stream names and keys |
| composite store | `src/natsstore.go` | the five primitives, `closed` | `Open`, `Close` |
| embedded engine and lock | `src/embedded.go`, `src/lockedengine.go`, `src/storelock*.go`, `src/paths.go` | an in-process server, its connection, a file lock | `OpenLockedEngine`, `openEngineAt`, `Close`, lock, unlock |

Every primitive reaches JetStream through a narrow interface, its seam, and keeps
no state of its own that outlives the process. Processes meet only on the server:
through the sequence numbers that fence a publish (ledger, ordered index) and the
revisions that fence a KV write (leaser, key-value store); a blob is stored with no
fence at all. Inside a process the leaser has one
goroutine per lease, and the ordered index one per namespace, whose callbacks
write the memory that queries read; queries wait for them on a channel that is
closed at every change, and `Close` waits for the goroutines.

What is hard, and what correctness means there (each item is a hazard of
`PROJECT.json`, with its line):

- **Creates race for one counter.** An order has to be given out once per scope,
  although a creator reads the counter, waits, and publishes; although it retries;
  and although a batch may land after its caller has returned.
- **Acknowledgements are lost.** A call that cannot know must say so or read back;
  a definite refusal has to be definite, a reported success stored.
- **The latch map** has to admit one creator per scope and process and neither
  leak nor drop an entry in use.
- **A view's watermark** stands for what the view has seen; a query trusts it. The
  subscription fails and starts over, messages are superseded before they are
  delivered, a callback of a dropped subscription is still running.
- **A view is retired and replaced** by several queries while `Close` runs.
- **A lease** may be held by one holder, although clocks run on while a renewal
  is on the wire, a renewal is served after the holder gave up on it, holders die,
  and the server reaps old entries.
- **A cursor** reads record by record while others append, and the ledger may be
  deleted under it.
- **A view's indexes** are three sorted slices searched by keys that a revision
  changes; a listing pages through them with cursors while they move, up to the
  largest order, where adding one wraps.
- **A batch is spoken by hand** over a connection that may break between its
  members, by several processes whose counts all begin at 1, and its answer has to
  be read for what it says.
- **A stream's layout is verified once** and remembered; another creator, a ledger
  or an operator may own the name.
- **A blob reader** delivers an object that others overwrite, delete or damage, and
  is closed by several goroutines while a Read waits for a chunk.
- **A key-value call** may be served after its caller gave up. A create is up to three
  requests, between which others write and delete; a listing of keys is no snapshot but
  counts entries of a stream that moves under it.
- **A store is opened and closed** in steps each of which can fail, in two processes
  over one directory, closed twice at once, and killed.

## 2. Modules

| module | what it is |
|---|---|
| `OrderedIndexSpec` | what the ordered index promises: a map with creations, updates and deletions |
| `OrderedStore` | Create, Update and Delete of any number of processes; implements `OrderedIndexSpec` |
| `OrderedStoreProofs` | proofs of its types, its order uniqueness, the implementation, what calls answer and the latches they take |
| `OrderedView`, `OrderedViewProofs` | the view goroutine, its subscription, queries, and Close, and their proofs |
| `Lease`, `LeaseProofs` | the leaser of one name, and its proofs |
| `Ledger`, `LedgerProofs` | the ledger of one name, and its proofs |
| `ViewIndex`, `ViewIndexProofs` | what is inside one view: its sorted indexes, the record and cursor codec, the three listings, and their proofs |
| `OrderedSeam`, `OrderedSeamProofs` | provisioning, verification, the cache and the atomic batch, below `OrderedStore`, and their proofs |
| `NameCodec` | names to stream names and subjects; used by `OrderedSeam` |
| `Blobs` | Put and Delete of one object |
| `BlobReader` | Get, Read and Close of one reader, composed with `Blobs` |
| `BlobProofs` | proofs about both |
| `KVStore` | the calls of the key-value store over one bucket |
| `Store` | Open and Close of the composite, the embedded engine and the directory lock, composed with `KVStore` |
| `StoreProofs` | proofs about both |
| `MC...` | values and symmetries for TLC |

Operators whose name extends another's (`FenceHoldsNoCounter` before
`FenceHolds`) are deliberately wrong variants: substituted for the operator they
stand before, each makes some property fail, which shows that the property
depends on that code. No specification uses them.

A request to the server is modelled the same way everywhere: a step sends it
(`net = "wire"`), the server's step serves it whenever it likes or never, and a
further step takes the answer. A caller may give up first, and its request stays
on the wire. What is external to the repository (JetStream's fences, its KV
bucket, the ordered consumer of nats.go, an operator changing a stream) is
modelled from how the code uses it and marked external in the map.

### OrderedStore

One namespace. `recSeq`/`rec` and `ctrSeq`/`ctr` are the last messages of the
record and counter subjects with their sequences; `latches`, `refs`, `token` and
`latchOf` are the map of `orderedScopeLatch`; `pc`, `arg`, `attempt`, `req`,
`net`, `res`, `ret` are the calls.

`Create` is `ensureStream`, the inspection of the identity and validation;
`EnterScope` and `TakeToken` are `acquireScope`; `Allocate` is one attempt, from
reading the counter to sending the batch; `Acknowledged`, `PreconditionFailed`
and `AckLost` are the three ways `publish` and `publishBatch` return;
`SettleCreate`, `SettleRevision` and `Resolve` are what follows a failed fence or
a lost acknowledgement. `Update` and `Delete` read, check and send in one step.
`Fail` is every error return and releases the latch; it also stands for the death
of the process, since all that a dead process leaves behind is its request.

Abstractions. A batch is one atomic request with one answer, which is what
`BatchWhole` and `OutcomeTrue` of `OrderedSeam` justify. Each read sees the
last committed message (the code reads with `GetLastMsgForSubject`). A record's
rank and due time are one value, `Keys`; its ranking scope has no control of its
own in the mutations and is left out. `MaxOrder` and `MaxRev` stand for the
largest `uint64`, and `Incr` wraps. The layout is verified when a Create, Update
or Delete begins; the cache of verdicts is `OrderedSeam`'s. The backoff between
attempts is the interleaving of other steps. `refs` is typed `Int` because the
code's `int` is bounded by nothing; that it stays right is `LatchSound`.

### OrderedView

One process, one namespace (views of different namespaces share only the map and
the lock). `head` holds the message of each subject; a subject has one message, so
writing it again removes the old one from the stream. `Commit` stands for the
mutations of `OrderedStore`: a first version comes with its counter message one
sequence before it. `run` is the goroutine: `Lookup`, `Attach` and `Reject` are
`watchStream` up to the subscription and the verdict on the layout, `WatchFails`
and `Reattach` its return with a failure and `run`'s next round. `Fetch`, `Apply`
and `Advance` are the callback: upsert under the lock, then the watermark under
the lock again, two steps because a query may come between. `consumeCtx.Stop`
does not wait for a callback, so a callback may outlive its subscription: the
slot `"late"`. `Begin`, `Check`, `Retire`, `Reacquire`, `ReadTip`, the three
`Barrier` actions, `Discard` and `ReadPage` are a query, `GiveUp` its deadline;
`Close`, `Stopped` and `StopTimesOut` are `orderedStore.Close`. A second Close
returns nil at once and changes nothing.

Abstractions. A page is the revision of every record the view holds; sorting, filtering
and paging are functions of that, and `ViewIndex`'s subject. Teardown of the consumer is
part of `Exit` and `Reattach`. The view's map of records is one revision per identity.
One callback of a dropped subscription is kept, the most recent.

### Lease

One name. A holder is one `Acquire` and the lease it yields. `Get` and `Decide`
read the entry and judge it; `Granted`, `Beaten` and `AcquireFails` are the
answers; `Renew`, `Renewed`, `RenewLost`, `RenewFails` and `HeartbeatStops` the
heartbeat; `Release`, `Relinquish`, `Released` and `ReleaseFails` the release.
`Crash` ends a holder and its heartbeat. `Serve` and `ServeOrphan` are the bucket
serving a write, `Reap` is its TTL. An absent entry reads as one at epoch 0 that
has expired: then `createLease` (revision "none", epoch 1) and `updateLease`
(revision read, epoch + 1) are one write.

Abstractions. All holders and the server read one clock. The code compares its
own clock with a time another process wrote and makes no allowance for skew, so
what it promises it promises up to the skew. `TTLMultiple` and `BackstopFloor` are
the 100 and the one hour of `backstopBucketTTL`, so that an instance can have them
small.

### Ledger

One name. `log` is the stream; a record is named by the append that wrote it.
`BeginAppend` is `ensureStream`, `Publish` sends, `Serve` is the fence on the last
sequence, then the four answers of `Append`. `Read` captures the tip, `CursorNext`
is one `Next` with its fetch, `Delete` drops the stream. A stream deleted and
created again starts at sequence 1. `Tip` is the bound `Read` captures and has no
step of its own. A cursor that met an error stops; calling `Next` again would only
repeat the fetch.

### ViewIndex

One view of one namespace, from the message to the page. `ApplyMessage` is the
decoder's gates (version, namespace, an identity that leads back to the subject)
and `ApplyRecord` the upsert: a revision no newer is ignored, the old version is
taken out of the ranked and due indexes by binary search *with the record they
were sorted by*, the new one put in. `Begin`, `NextOrdered` and `NextTokens` are a
caller that pages through `ListOrdered`, `ListRanked` or `ListDue` to the end, each
page under the lock and messages applied between pages; it may begin with any
order, any position, or a token of another query, scope, bound, version or
namespace. `Search`, `LowerBound`, `UpperBound` and `Locate` are the searches,
recursive functions over positions; the properties compare them with a definition
that does not mention positions.

Abstractions. A rank and a due time are small integers, a stable key one too, in
place of strings compared byte by byte. JSON and base64 are what decodes and what
does not. A tombstone is its identity's last version, as `Delete` writes it.

### OrderedSeam and NameCodec

The server's streams by name, each with a layout and the last sequence of each
subject. A call goes once through what `Create` (`"create"`), or `Update` and
`Delete` (`"revise"`), ask of the seam: `Begin` consults the cache; `Lookup`, `Make`,
`Relookup` and `Info` are `ensureStream` with the race for the creation and
`verifyAndCacheStream`; `Read` takes the fences; `SendMember`, `SendCommit` and
`SendSingle` put messages on the connection; `Deliver` is the server's side, `Break`
a connection that loses what is on it, `Expire` the server giving up on a batch;
`Acknowledged` and `GiveUp` classify. `EnsureLedger` is the ledger's `ensureStream`,
which adopts whatever has its name. `Meddle` is an operator.

`NameCodec` keeps names as sequences of characters because its properties are about
the escapes: what two names become, and whether two streams' subjects overlap. Names
are of the characters `storage.ValidateName` accepts (`SeamNames`); that segments are
not empty and begin with a letter or digit is not needed.

Abstractions. A layout is right or foreign; which of its fields is wrong is not told
apart, and a foreign stream takes a subject that no name has: an operator who takes a
name's subjects elsewhere keeps that name from being created. What a stream of a foreign
layout does with a message is either to store it or to refuse it. A record's subject, a
hash, is its identity.

### Blobs and BlobReader

One object. `Look` is Put's `getInfo` with its comparison of digests, `Store` and
`PutFails` its write, with the metadata as the moment it becomes visible; nothing
fences the two on each other. `DeleteLook` and `DeleteMark` are Delete; `Damage` is
a store that lost or altered a chunk. `BlobReader` adds a reader: `Get`, `FollowLink`,
`BadLink`, `Resolve`, `Subscribe` resolve a name through links and open it; `Deliver`
is the consumer fetching ahead; `Enter` and the `Read...`, `Take...` and `NextFails`
actions are one `Read` under `readMu`; `Cancel` the caller's context; `Close`,
`RunClose`, `Drain` and `AwaitClose` the closers around `sync.Once` and `closeDone`.

Abstractions. A digest is the content itself. The reader keeps the chunks it took,
from which the code's count, size and hash are functions. `List` has no step: it
shares `sortedDedupFiltered` with the key-value store, where it is checked.

### KVStore and Store

`bucket` has every entry ever written, by revision; the last of a key counts, and is
all the stream keeps (`Kept`, History 1 in `kvBucketConfig`). `Call` validates and
sends; the `Serve...` actions are the server, at any time or never; `Answered` and
`Fault` end the call, whose request may go on without it. Two operations are more than
a request and a reply:

- `kv.Create` is up to three requests. `ServePut` first writes the key as one that never
  was. If that is refused, or times out under a caller whose context has no deadline,
  `Look` asks for the key (`ServeLook`), and if it finds a deletion marker `Overwrite`
  writes at the marker's revision. A first request given up on is in `late` and may be
  served (`ServeLate`) before, between or after the others. A create that finds no
  marker, or cannot look, reports the error its first request ended with.
- `kv.Keys` is a watcher. `ServeKeys` makes its consumer and counts the entries in the
  stream; `Deliver` hands over one entry after the other, in the order of the stream as
  it is then, until as many have come as were counted or none is ahead. A marker counts
  and is not handed over. A key that is rewritten meanwhile leaves its place and comes
  back behind the others, so it may be met twice, or missed when a new key takes its
  place in the count.

This is nats.go and JetStream and not `src/`; the entries are marked external. Client
releases differ in whether the count is of the consumer's creation or of its first
message; what `ReadAnswers` says holds for either, since an entry that stands still is
in both counts. `Keys` under a cancelled context is a `Fault`. The leaser calls the
same `create`, but nothing deletes from its bucket, so its create is one write
(`Lease`).

`Store` has processes that open, close, crash and open again in one of three modes:
`Open` embedded, `Open` remote, and `OpenLockedEngine`. Each step of opening
(`AcquireLock`, `StartServer`, `Ready`, `Connect`, `Bind`, `CanonicalPath`,
`Provision`, `NewStore`) can fail, and `OpenFails` undoes what the error path of
that step undoes. `CallClose` to `EndClose` are `Store.Close` under its mutex, with
views that stop or do not; `DrainEngine`, `ShutdownEngine` and `Unlock` are
`LockedEngine.Close`. Calls of `KVStore` run through an open store and go on while
it closes.

Abstractions. A connection counts as open until it is told to drain: nats.go's
`Drain` returns at once and works in the background, so requests are served and
answered after it. Callers of plain `Open` open a directory once at a time, as its
comment asks of them; `OpenLockedEngine` is not given that help. The build without
`flock` refuses every lock. `openEngineAt` gives up on a server by `Shutdown` alone,
without `WaitForShutdown` (`src/embedded.go:221`, 227 and 233); `OpenFails` has the
server gone when `Shutdown` has returned. That is right as far as `Shutdown` waits for
what the server started. The goroutine that still runs `Start` after a server that was
not ready in time is not modelled.

## 3. What is checked

| run | bounds | checks |
|---|---|---|
| `ordered_create` | 3 creates of 2 identities in 1 scope, 2 processes, order limit 2, 2 attempts; fair | `OrderUnique`, `CallsReturn` |
| `ordered_revise` | 3 calls of any kind on 1 identity, 2 values, 2 revisions | `RefusalIsFinal`, `SuccessIsDurable`, `LatchSound`, `ImplementsIndex` |
| `view_fresh` | 2 records, 5 messages, 1 failed subscription, 1 undecodable payload, 1 query | `MarkCovers`, `PageCurrent`, `ViewMonotone` |
| `view_reattach` | 1 record, 4 messages, a failed subscription, a dropped message and an undecodable payload, 1 query; fair | `QueriesReturn` |
| `view_live` | 2 queries, 2 views, 1 change of layout, Close; fair | `OneGoroutine`, `CloseStops`, `QueriesReturn`, `CloseReturns` |
| `view_index` | 3 records in 2 ordering scopes and 1 ranking scope, 2 revisions, 4 shapes, order limit 3, pages of 1 | `IndexExact`, `PageExact`, `ListingExact` |
| `seam` | 3 calls of 2 connections in 4 assignments, 1 batch in flight, 2 acts of an operator | `BatchWhole`, `OutcomeTrue`, `NeverAdopted`, `NamesApart` |
| `lease` | 2 holders, TTL 1, backstop 2, clock to 2, 3 writes, 1 write given up on; fair | `OwnershipExclusive`, `ReleaseSticks`, `EpochsDistinct`, `TakeoverNoticed`, `ReleaseReturns` |
| `ledger` | 3 appends, 1 cursor, 1 Delete | `AckedInPlace`, `ConflictIsFinal`, `CursorSnapshot`, `CursorComplete` |
| `blobs` | 2 Puts, 1 Delete, objects of 0 and 2 chunks, 1 damage, 3 links, 2 closers; fair | `WholeContent`, `AckedUnlessRaced`, `LinksResolved`, `NoDataAfterClose`, `CloseReturns` |
| `store` | 2 handles in 3 modes, 2 closers, 3 calls on 3 keys and an invalid one, the third call under `Bounds`; fair | `PutAnswers`, `ReadAnswers`, `OneEngine`, `NothingLeaked`, `CloseReturns` |

`view_stale`, which refutes a comment, is in section 5. The types of `OrderedStore`,
`Lease` and `Ledger`, which are proved, are not checked again; those of the other
modules are a conjunct of `MarkCovers`, `IndexExact`, `BatchWhole`, `WholeContent` and
`NothingLeaked`.

Why these bounds. *Create*: three creates over a counter of two reach the limit, a lost
race with retry, an exhausted budget and a late batch, two of them in one process, so
that one waits for the other's latch. *Revise*: create, update and delete of one
identity meet in every order, and a lost acknowledgement can be followed by one more
writer; a second identity adds nothing, since revisions of different identities share no
state. *View*: five messages are two records with their counters and a rewrite, so that
a message is superseded, redelivered and overtaken. Two queries create at most two
views, since a query that created a view never acquires another (`created` is checked
before a retirement, and a failed barrier ends the query), so `MaxViews` cuts no
behaviour off. *Index*: two records tie in rank, in due time and in key, so that every
part of a sort key decides somewhere; one has the largest order; pages of one put a
cursor at every place. *Seam*: two connections in one namespace with a second call on
one of them; names that an escape without its own escape would confuse; an operator who
changes a stream and then removes it, or creates one first. *Lease*: a second holder, a
clock that passes a TTL and a reap, and a write served late; the theorems of section 4
cover longer ones. *Ledger*: each append may be the winner, the loser and the late one,
around one Delete. *Blobs*: an object of several chunks is overwritten by the empty one
and the other way round, before, between and after the Reads; a chain of links of the
maximal length and a cycle. *Store*: two processes contend for the directory, one Store
is closed by two goroutines, and a bucket is found empty or with a key that was written,
deleted and written again before two others. The third call is what a listing and a
create need to go wrong: a listing that passes over a live key, because one call makes
a new entry and another rewrites a key; a key listed twice; a create applied twice, and
one that is told of a conflict after its own first write. To stay within TLC's reach
the state constraint `Bounds` lets the third call join only over a server of others
whose handles are all open and stay open, and only for these two purposes, and opens
handles there only for a call to come. The steps that `CloseReturns` is about never
leave the constraint: a Close that began is followed to its end.

What the properties say, beyond the comments in the modules: `RefusalIsFinal` says
that a conflict, an exhausted counter or a contention error is never followed by
the refused write; `LatchSound` that the latch map admits one creator per scope and
process, never drops an entry in use and never keeps one that is not; `MarkCovers`
is what a watermark means: below it nothing is missing, *as the stream is now*;
`PageCurrent` is what a query gets from that: every record committed before it that
nobody has rewritten since. That is less than the code's comment claims (section 5).
`ListingExact` lets a listing miss or repeat only a record that moved meanwhile;
`AckedUnlessRaced` lets a stored blob be replaced only by a Put that overlapped it;
`NeverAdopted` lets a write go into a stream that changed after it was verified, and
into no other of a wrong layout. `PutAnswers` and `ReadAnswers` are what a caller of
the key-value store may conclude from each answer. A Put that was told of a conflict
never writes afterwards and nothing of it is in the store, although a create may have
written before and been replaced; a listing has every key that had a value and that
nobody touched while it ran, whatever was created, rewritten and deleted around it. It
may miss a key that was rewritten meanwhile (section 5).

Two of them do not reach all of a hazard that is near them. The run of `OrderUnique`
has as many records as orders, so that a counter going on past its limit would not be
seen; orders stay unique for any number of records and any limit by the theorem
`UniqueOrders`. `OwnershipExclusive` takes the expiry into what "proves
ownership" means, so that the holder's own watch over it is checked by
`TakeoverNoticed` alone.

### Fairness

- `OrderedStore`: each call in progress keeps going (`Proceed`). The server need
  not serve anything. That `AckLost` is part of it is the assumption that the wait
  ends: reads and single publishes use the JetStream client, which bounds them,
  but `publishBatch` sends its last message with `RequestMsgWithContext` and has
  no timeout of its own, so `CallsReturn` holds for callers with a deadline. A
  caller without one waits as long as the server is silent, with the scope's
  latch.
- `OrderedView`: the goroutine and the queries are scheduled and the consumer
  delivers what is in the stream. No caller has a deadline (`GiveUp` is not fair),
  no subscription has to fail, nobody has to repair anything and nobody writes.
- `Lease`: the ticker keeps firing and requests time out (the JetStream client's
  default), so the heartbeat and a begun release move on. Strong fairness of
  `HeartbeatStops` is Go's `select`: with `stop` closed and ticks arriving both
  cases are ready again and again, and `select` picks at random among ready cases.

- `BlobReader`: a goroutine inside Read or Close is scheduled, and the wait for a
  chunk ends (`blobObjectReadTimeout` and `Stop`). The server need not deliver.
- `Store`: a Close that was called goes on, each of its waits being bounded by a
  timeout or by the mutex. Nobody has to open, call or close, and a server need not
  serve.

Only `store` checks for deadlock, since its processes can always begin again; the
other models are of finitely many calls and end when they have returned.

## 4. What is proved

For all values of the constants (any number of identities, scopes, processes,
calls, holders, appends, readers, views and handles, any limits, any faults), under
the named `ASSUME` of each module, which only fixes types (sets and functions are
what they are called, bounds are naturals, the "none" values are distinct from the
others) and, for `OrderedSeam`, that names are of the characters
`storage.ValidateName` accepts:

| theorem | statement |
|---|---|
| `OrderedStoreProofs!Types` | `Spec => []TypeOK` |
| `OrderedStoreProofs!UniqueOrders` | `Spec => []OrderUnique` |
| `OrderedStoreProofs!Refinement` | `Spec => ImplementsIndex`: the store implements `OrderedIndexSpec` |
| `OrderedStoreProofs!FinalRefusals` | `Spec => []RefusalIsFinal` |
| `OrderedStoreProofs!DurableSuccesses` | `Spec => []SuccessIsDurable` |
| `OrderedStoreProofs!SoundLatches` | `Spec => []LatchSound` |
| `OrderedViewProofs!Types` | `Spec => [](TypeOK /\ StreamInv /\ QuerySteps)` |
| `OrderedViewProofs!SoleGoroutine` | `Spec => []OneGoroutine` |
| `OrderedViewProofs!ClosedForGood` | `Spec => []CloseStops` |
| `OrderedViewProofs!Monotone` | `Spec => ViewMonotone` |
| `OrderedViewProofs!MarksCover` | `Spec => [](skips = 0 => MarkCovers)` |
| `OrderedViewProofs!PagesCurrent` | `Spec => [](skips = 0 => PageCurrent)` |
| `ViewIndexProofs!ExactIndexes` | `Spec => []IndexExact` |
| `ViewIndexProofs!ExactPages` | `Spec => []PageExact` |
| `ViewIndexProofs!ExactListings` | `Spec => []ListingExact` |
| `OrderedSeamProofs!Invariant` | `Spec => []SeamInv` |
| `OrderedSeamProofs!WholeBatches` | `Spec => []BatchWhole` |
| `OrderedSeamProofs!OutcomesTrue` | `Spec => []OutcomeTrue` |
| `OrderedSeamProofs!NothingAdopted` | `Spec => []NeverAdopted` |
| `OrderedSeamProofs!NamesKeptApart` | `Spec => []NamesApart` |
| `OrderedSeamProofs!StreamNames` | `EncodeStream` is injective on names, and makes no `.`, `/` or upper case |
| `OrderedSeamProofs!SubjectNames` | `EncodeSubject` is injective on names |
| `LeaseProofs!Types` | `Spec => []TypeOK` |
| `LeaseProofs!Exclusive` | `Spec => []OwnershipExclusive` |
| `LeaseProofs!ReleasesStick` | `Spec => []ReleaseSticks` |
| `LeaseProofs!DistinctEpochs` | `Spec => []EpochsDistinct` |
| `LeaseProofs!Epochs` | `Spec => EpochMonotonic` |
| `LeaseProofs!Reaps` | `Spec => ReapsOnlyExpired` |
| `LedgerProofs!Types` | `Spec => []TypeOK` |
| `LedgerProofs!Acked` | `Spec => []AckedInPlace` |
| `LedgerProofs!Conflicts` | `Spec => []ConflictIsFinal` |
| `LedgerProofs!Snapshot` | `Spec => []CursorSnapshot` |
| `LedgerProofs!Complete` | `Spec => []CursorComplete` |
| `BlobProofs!ReadsWhole` | `Spec => []WholeContent` |
| `BlobProofs!AckedStay` | `Spec => []AckedUnlessRaced` |
| `BlobProofs!LinksFollowed` | `Spec => LinksResolved` |
| `BlobProofs!SilentAfterClose` | `Spec => NoDataAfterClose` |
| `StoreProofs!SoleEngine` | `Spec => []OneEngine` |
| `StoreProofs!NoLeak` | `Spec => []NothingLeaked` |
| `StoreProofs!PutAnswersTrue` | `Spec => []PutAnswers` |
| `StoreProofs!ReadAnswersTrue` | `Spec => []ReadAnswers` |

Hardly any of these is inductive as it stands. Each module ends with the
strengthening, a conjunction of named parts, and the proof module has a lemma for
each action or for each group of actions that move the same part of the state.

*OrderedStore, the records* (`IndInv`). That two records differ in order is kept by
`CounterCovers` (the counter is at or above every order of its scope) together with
`RequestsCurrent`: a batch on the wire *whose counter fence would still hold*
carries the counter's successor, whichever call sent it and whether or not that
call still waits. So the only step that adds a record adds one above the counter.
`SeqsBounded` is why a stale fence stays stale: a committed message gets a sequence
no pending request can expect. The same fact about revisions (`RevisionCurrent`)
makes each commit a step of `OrderedIndexSpec`, and `OnlyServe` shows that nothing
else changes the records.

*OrderedStore, the calls* (`CallInv`, `LatchInv`). A call is refused only on paths on
which its last request was served and failed its fence, or was never sent:
`CallPhases` says which answers go with which step, and `CommitsRequested` that what
was committed in a call's name is what it asked for, so that a committed call cannot
have been refused. A success found by reading back is a version of the identity,
because versions are only added. For the latch map, `RefsCount` counts the calls
between joining and leaving, as the cardinality of a set, and `PermitHeld` gives the
token to exactly one of them; that an entry is removed with its last user is then
arithmetic on the count.

*OrderedView* (`ViewInv`). `RunnerKnown`: whatever runs is the registered view, or the
one Close is waiting for. `Behind`: a view and its callbacks never run ahead of the
stream. `ViewCovers`: while a view has no error, everything at or below its watermark,
and everything its subscription has delivered, is applied or in the hands of the
callback *that has not applied it yet*, as the stream is now. A rewrite keeps it,
since the rewritten record leaves for a sequence beyond all of these. `QueryOwed`
carries this through a query: what was committed before it is at or below its target
until someone writes it again. The last two hold only until a message is skipped for
its metadata (section 5), which is what `skips = 0` says; every other fault is
included.

*ViewIndex* (`IndexInv`, `ListingInv`). The lemmas come first. `Finds`: on a sequence
whose first entries are those in a set, and the others are not, the binary search
returns how many they are; it is proved for all windows at once, from the least one
that would be wrong. `InsertExact` and `RemoveExact`: inserting at the lower bound of
the new version, and removing what the scan from the lower bound of the *old* one
locates, keep an index sorted and change its elements by one, which needs the sort
keys of records to be a strict linear order (`Linear`: identities break the ties).
`MoveExact` composes them, and `IndexInv` is then kept by every message. It has the due
index exact for a bound nobody asked for, too, and a caller's cursor always a
position of its query (`Fits`), which is what accepting a token establishes.

`Locates` says that the entries between `Start` and `Eligible` are exactly the records
beyond the cursor, for the three kinds of listings, with the largest order and the due
bound among the cases; `PageExact` is that with a count (`Counted`). `Follows` adds that
beyond the position of a page's last record lies what the page left. `ListingInv` says
of the records a listing owes (`Quiet`: beyond its first cursor and untouched since)
that each was returned at most once, in order, and that those not returned yet are those
beyond the cursor. A page appends the next of them (`Appending`); a message only takes
the identity it touched out of what is owed (`OnlyTouched`).

*OrderedSeam* (`SeamInv`). `IdsUnique`: no two calls share a batch identifier, so the
server never joins two of them. `Verified`: who reads or writes has seen the layout.
`WireInv`: what is on a connection or staged was sent by the call it names, in the
shape that call sends, and a call asks to commit once. `LogInv` and `Outcome` then
say of each entry of the server's log, and of each reply on its way, whose it is and
that it is told once. Which of several deliveries, disconnections and expiries comes
first does not matter to them.

`NamesApart` needs `ApartInv` besides: every stream is laid out as a call with that
stream wants it, or an operator touched it (`Layouts`), and what is stored lies in its
call's stream (`Placed`). So a call that finds its stream's place taken, or finds it laid
out otherwise, would share a stream or a subject with another name, and `StreamsApart`
says that two names share neither. That comes from the code of the two escapes: both
write a character as a chunk that begins no other character's chunk (`Tells`), and what
is joined of such chunks can be taken apart in one way only (`Unique`). Namespaces differ
from ledgers by the `O` they begin with, and the subjects of two namespaces by the dot
that ends the name, which no stream's name has.

*Lease* (`IndInv`, `HistoryInv`). `OwnerInEntry` says that a holder that can prove
ownership is the one in the entry, and that the entry does not expire before the
holder thinks; two of them are then the same. It is kept by `PendingFair`: a write in
flight whose fence would hold either extends its own holder's entry or takes over an
expired one at a higher epoch. `AckCurrent` carries this over the moment between the
serving of a write and its acknowledgement, and `Unwritten` over the moment between
an Acquire's read and its write. `BackstopLong` (the backstop TTL is at least the
lease TTL, from `TTLMultiple >= 1`) gives `Reaps`. For releases and epochs,
`WritesOwn` says that a write carries its writer's name and epoch, `ReleaseFinal` that
none of a releaser's writes can still pass its fence, and `EpochsOrdered` that
of the epochs granted since the last reap only its holder's is the entry's, the others
are lower.

*Ledger* (`IndInv`). `Placed` ties each answered publish to the position right after
the tip it was fenced on, and `Faithful` each open cursor to a prefix of the ledger
that only a Delete can take away.

*Blobs and BlobReader* (`StoreInv`, `ContentInv`, `SearchInv`, `CloseInv`). `StoreInv`:
an acknowledged Put that nobody raced is what the metadata names, and nobody is writing.
`ContentInv` ties a reader to the one object Get resolved, whose content no Put changes
any more (`GetSteps`), and says that what it took is within the declared size and that
nothing is taken in once the stream has ended; EOF is then the comparison of size and
digest, and the lemmas about flattening say that this is a comparison of the bytes.
`SearchInv` says that after n links the search is at the n-th name of the chain; a chain
that comes back to a name never ends, which is the part of `LinksResolved` about cycles.

*KVStore and Store* (`AnswersInv`, `EngineInv`). `AnswersInv` says of each call, by the
step it is at, what the bucket held when it was served; a revision once given stays
what it was, because the bucket only grows. `CreateSteps` says how far a create has
come and that the revision it names is a marker's; `PutWrote` under which fence each of
its entries was written; `PutUnderWay` that a request that may still write has nothing
behind it that the fence does not exclude: nothing at all before the first error, and
only what the marker replaced once a marker is named. That bounds a create to two
entries and is why a conflict is final (`PutServed`). For a listing the invariant is a
count (`KeysServed`): it waits for at least as many entries as were there when it began
and are still ahead of it (`OldAhead`). An entry that is delivered is the oldest ahead,
an entry that is replaced leaves the old ones, and a new one does not join them; so when
nothing is left to wait for, every old entry was delivered, and an untouched key is an
old entry. `EngineInv` ties each step of opening and closing to the server,
connections and lock that exist at that step, for both kinds of handles, and says
that the handles with a server or the lock over the directory are one
(`OneDirectory`).

Some of these rest on facts about data that are usually proved by induction: that a
chain of links is followed name by name, that flattening a sequence of chunks and
appending one commute, that chunks of which none begins another are read back as they
were written, that a finite set of keys has an ascending enumeration, that a binary
search ends at the boundary, that some natural number is the least or the greatest of a
set. The provers cannot use the library's induction theorems, so these are proved from
the least counterexample: the library's `WFMin` for the order on naturals, where the
predicate is a set.

`Types`, `Epochs`, `Reaps` and `Invariant` state what no run checks: they follow from
the same invariants.

Only model-checked, and why: the liveness properties (`CallsReturn`,
`QueriesReturn`, both `CloseReturns`, `TakeoverNoticed`, `ReleaseReturns`), since the
prover does not handle fairness. Every invariant and every other action property that a
passing run checks is proved.

## 5. Where the code and its comments disagree

One run is of a statement TLC refutes; the comment that makes it is quoted in
`PROJECT.json`.

| run | property | what happens |
|---|---|---|
| `view_stale` | `PageFresh` | A record at or below the tip is rewritten before the view received it. It leaves the stream and comes back at a higher sequence; meanwhile a message of another subject carries the watermark past the tip. The barrier opens and the page lacks a record that was committed before the query began. The watermark is the highest sequence applied, and under one message per subject that is not "everything up to the tip". |

Other disagreements have no run of their own; the properties are stated so as to
leave room for them:

- A lease's epoch starts at 1 again after the backstop TTL has reaped the entry, so
  that not "every new owner out-ranks every prior one" (`src/lease.go:104`, and
  138-140). `EpochsDistinct` is what holds between reaps.
- Release takes a conflict with the holder's own unacknowledged renewal for a
  takeover and returns nil (`src/lease.go:314`); the entry stays live until its TTL.
- Of two blob Puts that both find the object absent the later one replaces what the
  earlier stored, and both return nil (`src/blobs.go:130`), where `src/blobs.go:30-32`
  says that a put "never clobbers content": `AckedUnlessRaced` excuses Puts that overlap.
- A key-value update that names the revision of a deletion marker succeeds, where
  `src/kv.go:99-101` has an update of a deleted key rejected: the fence compares
  revisions only, and `PutAnswers` says no more.
- A listing of keys may lack a key that had a value all the time, where `src/kv.go:40-42`
  and `src/seam.go:216` speak of every live key. Of keys A, B and C, A is delivered, D is
  created and C is rewritten; B and D make up the count and C is not delivered.
  `ReadAnswers` speaks of keys nobody touched.
- A create whose context has no deadline may be applied twice (its first write landed
  unheard, the key was deleted, and it wrote over the marker), and may report a conflict
  after its own first write was applied and replaced, where `src/kv.go:101` has a
  conflict "leaving the stored value unchanged". `PutAnswers` allows both, and no more.
- nats.go's `Drain` returns at once, so the shutdown that follows it may come before
  the flush, and an append in flight may be lost (`src/embedded.go:269`,
  `src/natsstore.go:381`). `KVStore`'s callers are then told of a fault.
- `src/seam.go:249-252` takes one of the server's two codes for a wrong last sequence
  for a conflict, `src/ordered_seam.go:580-587` both; the models have one.
- The decoder's test for trailing bytes asks `json.Decoder.More`
  (`src/ordered_codec.go:248`), which a trailing `}` or `]` passes. What follows a
  record is not kept, so nothing in the model depends on it.
- A message dropped for its metadata is passed over by the next one, which raises
  the watermark beyond it before the subscription is torn down
  (`src/ordered_seam.go:725`): `view_fresh` has `MaxSkips = 0`, and with 1
  `MarkCovers` and `PageCurrent` fail.
- A view may look the layout up before a repair and report it after a query has
  joined (`src/ordered.go:1273`); that query fails, the next one does not.
- A Create that landed and lost its acknowledgement reports `created=false` when
  another call revised the record before the read-back (`src/ordered.go:438`), and
  of two Updates of one revision with equal fields both may report success
  (`src/ordered.go:569`): `SuccessIsDurable` asks for this call's commit *or* one
  of the same record.
- A renewal that landed and lost its answer makes the next renewal conflict with
  it, and the holder gives up a lease it owns (`src/lease.go:390`).
- After Delete and new appends an open cursor yields the new records, its bound
  and its fetches being numbers (`src/ledger.go:176`): `CursorSnapshot` speaks of a
  ledger not deleted since.

## 6. Not modelled

- The rendering of records and cursors as JSON and base64, of counters as decimal
  text, and of scopes as hashes: the model has what they decode to. The two decoders
  of names, `nameFromSubject` and `nameFromStream`, are called by tests only.
- Which field of a stream's configuration is wrong, and the texts that say so.
- `src/paths.go`: where the data directory is and that it stays inside its root, and
  `redactURL`; they are string handling without state.
- Clock skew between lease holders. The code has no allowance for it to check.
- Several namespaces in one view registry, several names of a leaser or a ledger:
  they share a map and a lock, or nothing.
- Logging, error texts, statistics counters, and the client's own reconnecting
  beyond its effect, that requests are lost.

The view of `OrderedView` and the one of `ViewIndex` are not one module: the first
has the goroutines and the watermark and one revision per record, the second the
indexes under a lock, and together they are beyond TLC. For the same reason
`OrderedStore` has the batch as one request and `OrderedSeam` the messages without
the retry loop.

## 7. Plan

Modelling is complete along the first plan: `OrderedStore` with its abstract
specification, `Lease`, `OrderedView`, `Ledger`, `KVStore`, `Blobs`, `BlobReader`,
`ViewIndex`, `OrderedSeam`, `NameCodec` and `Store`, each with proofs of all its safety
properties. What is left are type and action properties that no run checks yet and that
the same invariants give, as they are found.
