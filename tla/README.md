# A TLA+ model of rpxd

rpxd is a live-object framework in TypeScript. A *live object* is an instance
on the server with a state, rpc handlers and event handlers. Pages subscribe to it
over a stream (SSE or WebSocket), receive a full snapshot and then Immer
patches with consecutive sequence numbers, and send rpc batches upstream.
This directory holds TLA+ modules of its core, the TLC configurations that check them
on small instances, and proofs that TLAPS checks for every instance.

Paths below are relative to `src/packages/`; `wire-protocol.md` is
`src/docs-site/src/content/docs/concepts/wire-protocol.md`.

## 1. The system

| Component | Files | State | Operations | What is hard |
|---|---|---|---|---|
| Live instance | `core/src/instance.ts`, `queue.ts` | `#state`, `#seq`, pending writes, flush flag, task queue, ack window, listeners, broadcast backlog, dispose flag | `handleBatch`, `patchState`, `broadcast`, bus delivery, `resync`, `subscribe`, `dispose`, loads, `replaceDef` | handlers interleave at every await; tasks await storage in the middle; a parked handler outlives `dispose` |
| Client store | `client/src/store.ts` | confirmed state, sequence, pending calls, "awaiting a full" | `call`, `applyEnvelope`, `resendUnacked` | gaps, stale frames, repeated acks, frames that do not apply |
| Client connection | `client/src/connection.ts` | transport, stores by instance, buffered envelopes, queued mounts and releases, props baselines | `connect`, `#send`, `#control`, `mountSlot`, `#flushSlotMounts`, `remount` | drops, reconnect, requests that fail or overtake each other |
| Slots, navigation, router | `client/src/{slot,navigation,app,router}` | slot handles, navigation ticket, page on screen | mount, prop change, cleanup, navigate | the newest wins; a mount outlives what asked for it |
| Session streams and batches | `server-bun/src/handler.ts` | streams by id, listeners by stream, queued bytes | `handleStream`, `subscribeSession`, `handleRpc`, control, socket messages | a client that stalls, is killed or has left |
| Instance registry | `server-bun/src/handler.ts` | entries by key and by id, unattached list, eviction timers | mount, SSR, evict, caps, `dispose` | two mounts of one key, eviction against remount, teardown |
| Request pipeline | `server-bun/src/handler.ts`, `core/src/pipeline.ts` | throttle buckets | origin gate, throttle, authenticate, dispatch, error mapping | partial failures of a batch |
| Transport adapters | `server-bun/src/{adapter,ws}.ts`, `adapter-node` | sockets, write loops | upgrade, send, drain, close | back-pressure, an aborted response |
| Rate limit | `core/src/rate-limit.ts` | tokens, last refill, a bounded table | `take`, `takeN` | clock going back, burst, eviction of a bucket |
| Storage | `core/src/storage.ts`, `storage-{session,sqlite,redis}` | one snapshot row per session and page | get, put, delete, close | rows that outlive their instance or principal, a crash, a shutdown |
| Bus | `core/src/storage.ts`, `storage-redis` | topics, channels, one redis subscription each | publish, subscribe, unsubscribe | a subscribe answered after everyone has left |
| Servers and build | `cli/src/{dev-server,build,start,shutdown,reload-serializer}.ts` | registered definitions, loads in flight, the close sequence | boot, build, start, reload, shut down | two saves that load in any order, a build of changing files |
| Vite plugin | `vite-plugin/src` | generated tables | scan, codegen, watch, strip | three scans that must agree |
| Definitions, routing and codecs | `core/src/{live,match,props-codec,render-props,route}.ts` | none | build, match, canonicalise, encode | pure algorithms |
| Id map | `client/src/id-map.ts` | optimistic id links | link, rewrite | none concurrent |
| rsc, cli commands, generators, testing | `rsc`, `cli`, `testing` | tooling | | text to text |

**How they interact.** A GET renders a page from an instance (mounted, or reused warm)
and hands the browser its state, its sequence number and an attach token. The page opens a
stream; `subscribeSession` subscribes it to all instances of the session
and either adopts the rendered page (same sequence number) or sends fulls. Rpc batches go up
as socket frames or POSTs to `acceptBatch`, which calls `handleBatch` of the
instance; handlers write through `ctx.patchState`, the writes are buffered and
flushed by queue tasks as patches, the last of them with the ack. `ctx.broadcast`
goes through the bus to instances of all sessions. Every commit is written
through to storage, from which an evicted or restarted instance wakes. A page holds several
instances over its one connection: itself, and the slots in it, mounted and released in batches
from a microtask. Every request passes the pipeline (origin, throttle, session), and everything
sent passes a byte budget per stream. In development a watcher keeps the generated tables equal to
the files, and a saved route is loaded again and swapped into what is mounted.

What makes each of them correct:

* *Instance*: a listener's replica is the server's state; every batch gets one
  answer, after its writes; writes are not lost, repeated or reordered;
  storage holds a state the instance was in.
* *Store and connection*: what a page has confirmed is a state of the instance;
  no pending call and no needed snapshot is forgotten; an acked call shows.
* *Registry*: one instance per key; an instance with a subscriber is never
  evicted, one without is not kept for ever.
* *Slots and navigation*: a store the page keeps is one the stream has joined; a handle has its own
  store and deny sink; the newest navigation is the page that stays.
* *Pipeline and streams*: an answer says what happened; what a stream holds is bounded, and a stream
  that is dead holds nothing.
* *Storage*: the row is the snapshot of the instance it should be of; a clean exit has saved it.
* *Bus, rate limit*: the listeners redis keeps are in use, nothing is heard twice; tokens stay in bounds.
* *Build and boot*: what is served is what the files say, in development and production alike; a
  client is sent no server-only step and keeps the imports it uses; the newest definition wins.

The hazards, each at its line, are listed in `PROJECT.json`.

## 2. Modules

| Module | Models |
|---|---|
| `LiveInstance` | one instance on its queue: writes, flushes, batches, acks, broadcasts, subscription, storage, dispose |
| `LiveInstanceProofs` | its type invariant, the replica theorem and its other safety invariants, about writes, acks, snapshots and the backlog, proved |
| `LiveStore` | the client store as operators: what an envelope and a flush do to it |
| `LiveSync` | several pages with their stores and connections, a transport, and the instance at the grain of its acks |
| `LiveSyncProofs` | its invariants and that it implements `SyncPromise`, proved |
| `SyncPromise` | what `LiveSync` promises, abstractly: a log that only grows, read in order |
| `Reconcile` | a warm instance reconciled to URLs: guards, loaders, the render gate and the dedup key |
| `ReconcileProofs` | its invariants, proved |
| `Registry` | the instances of several sessions: mounts, warm reuse, races, eviction, caps, streams, shutdown |
| `RegistryProofs` | its invariants and its action property, proved |
| `Filter`, `FilterProofs` | `Only`, the elements of a sequence that are in a set, and `Total`, its sum; what they return, proved |
| `SlotMounts` | the instances of one page: slots, navigation, the client's queue and store table, the stream's joined set |
| `SlotMountsProofs`, `SlotWiresProofs` | its invariants, proved: about the store table and navigation, and about the messages to the server |
| `Ingress` | requests through the handler's pipeline, up to their status |
| `Egress` | streams of slow clients: the byte budget, the kill, the write loop of the node adapter |
| `RateLimit` | token buckets in their bounded table, under a clock that may be set back |
| `Persistence` | the snapshot row of one key through mounts, evictions, logins, shutdowns and crashes, on four adapters |
| `Bus` | one topic over several nodes, local or through redis |
| `Boot` | from files to the tables of the dev server, the build and the production server, and to the client's copy of a module |
| `Reload` | a route saved again and again while the dev server runs |
| `Services` | these seven side by side |
| `ServicesProofs` | what each of the seven promises, proved, by itself and side by side |
| `MCInstance`, `MCMounts`, `MCServices`, `MCSettles` | the passing runs: several modules side by side, see below |
| other `MC*` | constants for TLC |

### `LiveInstance`

The state of the model is the log of writes applied. A patch stream is not
idempotent (array inserts, string appends), so a replica is right exactly when
it reproduces that log. Rpc runs are control states: `idle`, `prepare` (at
the first await of a call), `body`, `final` (waiting for the final flush), `thrown`, `err`
(waiting for the error ack), and how the batch ended.

| Code | Model |
|---|---|
| `handleBatch` 357-449 | `Deliver` (refuse, re-ack or start), `Prepared`, `Return`, `Fail` |
| `patchState` 728-741 | `PatchState`; the timer is `FlushTimer` |
| `#flushChunk`, `#flushFinal` | `Chunk`, `Final`, over `Commit` (a throwing recipe discards the draft) |
| `#ackError` 924-965 | `AckError` (synchronous part), `Err` (its task), `TaskDone` (patches and ack after the write) |
| `broadcast` 676-704, bus 822-869 | `Broadcast`, `Publish`, `BusMessage`, `React`, `Event`, `EventCommitted`, `TaskDone`, `Finally` |
| `#writeThrough` 996-1012 | `Stored` |
| `resync`, SSR, attach, detach | `Resync`, `Render`, `Attach`, `Detach` |
| `dispose` 660-672 | `Dispose`, `Drained`, `Closed` |

A queue task is a start step and an end step, with everything that does not use the
queue free to happen between. The model lets a task that could start wait, which the
code's microtasks would not: it is a superset of the code's
interleavings. A reaction that is over (`EndOfReaction`) gives its place in the backlog back in a step of its own,
`Finally`: the code's `finally` runs two microtasks later, when the next task has already run its first segment, and a
broadcast that task makes over the synchronous `LocalBus` meets the stale count. The model does not contain RSC slots, nor loads and the render gate,
which are `Reconcile`'s, nor `replaceDef`, which is `Reload`'s.

### `LiveStore`, `LiveSync`, `SyncPromise`

`ApplyEnvelope` follows `applyEnvelope` branch by branch (full, stale, gap, in
order, frame that does not apply), `AsksResync` says when it requests a full,
`Settles` when a pending call is acked. `LiveSync` adds the pages (`Load`, `Bind`, `Call`,
`Close`), the stream (`Connect`, `Opened`, `Deliver`, `Drop`), the upstream
(`Send`, `Arrive`, `LosePost`) and the instance (`Receive`, `Finish`,
`OtherWrite`). The instance is a set of overlapping runs, each ending in one envelope. An entry of the log stands for
the writes of one batch being in the state, all of them. A success is usually acked with its entry; but
the error ack of another run may have taken the writes to commit them later, or a draft that threw may have
lost them (`early` and `lost` of `LiveInstance`): such a batch is `astray` (history), and `Late` is what an error ack
brings of those.
Snapshots torn by an error ack are left out here, being
`LiveInstance`'s matter. A document is a page; a reload is another page, whose rpc
counter starts over. `unsure` is a history variable: calls made before the
stream first opened, or whose request failed, not resent since. Not modelled: the
answer to a batch for an instance that is gone, optimistic replay and id linking.

`SyncPromise` is the abstract specification: a log that only grows, pages that
read prefixes of it, calls that are done once their write is in it. `KeepsPromise`
states that `LiveSync` implements it, with `seen` the confirmed states and
`done` the calls acked with success, but for those that are `astray`.

### `Reconcile`

Several requests (page loads, mounts, `url` controls) of a session share one
instance, and each brings the props of its URL.

| Code | Model |
|---|---|
| `reconcileEntry`, `reconcileUrl` (`handler.ts` 893-940) | `Begin` (the dedup decision, before the guard), `Skipped`, `Answer` (the key advances) |
| `authorize` 463-489 | `Begin` aborts the guard before it; `Superseded`, `Denied` |
| `loadForRender` 538-568 | `StartLoad` (settles the gate it overwrites), `Answer` |
| `#runLoad` 570-626 | `StartLoad` (claims the tag), `LoaderPatch`, `LoaderReturns`, `LoaderFlushed`, `LoaderThrows` |
| `#flushChunk` 743-767 | `Chunk`, `OtherChunk` (writes of others alone); `Drain` is any flush that is not a chunk |

A run of the loader is named by its request and a write by its run; the queue is
`LiveInstance`'s matter, so a flush is one step here. The histories are `newest` (last
request the guard let through), `drained` and `ruined` (writes that left with another
flush, or with a draft that threw).

### `Registry`

Mounts, streams and timers of all sessions. A mount builds at most one instance, so a mount
also names its instance and its entry; an orphan is an instance whose `create` rejected
after `setup` had subscribed it, which the code leaves alone.

| Code (`handler.ts`) | Model |
|---|---|
| `mountInstance` 1101-1268, up to its first await | `Reuse` (same session data), `Replace` (other), `Fresh` (with the cap gate `Admit`) |
| after `dispose` of the old instance | `Replaced`: the gate, without looking the key up again |
| `buildInstance` 976-1015, `create` | `Deny`, `Create`, `CreateFails`, `LoadThrows` |
| winner check and registration 1231-1268 | `Lose`, `Register` (both caps, the timer) |
| `reconcileEntry` or the loser's `dispose` is through | `Ready` (or it has thrown) |
| `mountOne` 1634, socket 2190 | `Answer`, which joins the stream named by the mount |
| `subscribeSession` 1426-1496 | `Open`, `Join`, `Release`, `Close`, `Arm` |
| eviction timer 1414-1418, `evictEntry` | `TimerFires`, `Evict` |
| `dispose` 2092-2104 | `Dispose` |

A stream killed by its egress budget is a `Close`. `Quiet` keeps events and timers out of the
few microtasks between the end of a mount and its join. Reconciling a reused
instance is `Reconcile`'s matter, and is one await here.

### `SlotMounts`

An instance is named by its path, a mount and the store it registers by the mount's number (0 is the page
the server rendered). `Idle` says that no microtask is waiting: everything but the application's own
calls happens then.

| Code | Model |
|---|---|
| `LiveSlot`'s effect, its cleanup, `sendIfChanged` (`slot.tsx`) | `MountSlot`, `Unmount`, `Patch`; `Resume` is the continuation of `mountSlot` |
| `#flushSlotMounts`, `#rebindCancelledPair`, `#flushRelease` (`connection.ts` 645-850) | `FlushSlots`: which releases a queued mount cancels (`RelOf`), the url patches, the releases, one mount request |
| `#sendSurvivingMounts`, `#settleSlotMount`, `#buildSlotHandle` | `SettleSlots` |
| `remount` 960-1060, `performNavigation`, the effect of `app.tsx` | `Navigate`, `Loaded`, `Overtaken`, `Denied`, `Swap`, `Commit` |
| `#routeRedirect`, deny sinks | `RouteRedirect` |
| `handleControl`: mount, mount-batch, release, url; socket frames | `Serve`, `JoinFrame` |
| `subscribeSession`, `unregisterStream` | `Connect`, `Opened`, `Break`, `Abort` |

Requests arrive in any order and are answered in any order; a socket keeps the order of its frames, and a
break loses them. The histories `missed` and `loose` are the stores nobody will join and the instances told
of props without a socket; what they exempt is said at the properties. The eviction of what is mounted is
`Registry`'s.

### `Ingress`, `Egress`

`Ingress` follows a request through `fetch` and `runPipeline`: `Origin`, `Throttle`, `Authenticate`, `Dispatch`,
`ReadBody`, then the message of its plane (`Accept`, `AskMount`, `Named`, `Reconcile`, `MountSettles`,
`AnswerBatch`, `Render`), then `MapError` (`mapRequestError`) when it threw. Two requests interleave
at every await and the instance they name may be evicted. What a mount does is its outcome. `Thrown` is what an
application's own code may throw (a redirect, a validation error, a crash), before or after it did something: a
route handler, a guard or loader of a `url` message, a render.

| Code | Model of `Egress` |
|---|---|
| `handleStream`, `open` of `ws.ts` | `Request`, `Start` (join and full of each instance, in one call), `Named` |
| their `send`, `#emit` | `Emit`, `Push`, `Kill` |
| `writeWebResponse`, `writeChunk` (`adapter-node/src/index.ts`) | `Write`, `Drain`, `Finish` |
| abort of the request, the socket's close | `Leave`, `Reap`, `Gone`, `Refused` |

### `RateLimit`, `Persistence`, `Bus`

`RateLimit` takes tokens in thousandths at readings of a clock in `Times`, which `Tick` sets to any of
them. `TakeHeld` and `TakeFresh` are `takeN` on a bucket that is held and on a new one, which
may evict the oldest. `Watch` only starts a window to count in.

`Persistence` follows one key: `Mount`, `Forgotten` (the row of another principal), `Read`, `Create`, `Bail`, `Register`
are `mountInstance` and `buildInstance`, and go on through a shutdown, which does not know of them; `Work`, `WriteThrough`,
`Evict`, `Drained`, `Dropped` an instance at work and its end; `AckError` the handler that was waiting when its instance was disposed
of: it throws, and its error ack writes the row, whoever's it is by then. `Store` is a write or delete whose failure is caught
(sqlite refuses all of them once closed); a failing delete of `Forgotten` is not, and ends the mount. A row of another
version (`old`) is not restored. `Signal`, `Dispose`, `Disposed`, `CloseStorage`, `Exited` the close sequence of `rpxd start`;
`Forced` a crash, a second signal, or a timeout; `Restart` loses what the adapter does not keep.

`Bus` has one topic: `Subscribe`, `Known`, `Resolved`, `Failed` are `RedisBus.subscribe` and what redis and its client
answer; `Unsubscribe` is `dispose`; `Publish`, `PublishFails`, `Route`, `Deliver` a message.

### `Boot`, `Reload`

`Boot` has a file as what a scan sees of it. `Codegen` is `runCodegen` (it rewrites the path literals, then scans),
`Watch` is `onFileEvent`; `BootDev`, `Build` and `Start` are `createDevServer`, `buildApp` and `startApp`, with
the conflict checks of `createRpxdHandler`. Of a module's code there is the chain that follows `live()`, as steps that are
server-only, kept, or break it (a parenthesis, a variable), and the uses of one imported name, each with the step it is in and the nodes
around it. `Spans` is what `stripChain` reaches, `ShadowedLocally` the walk of `isShadowedLocally` with its flag for
decorators of parameters, `ImportPruned` what `removableNames` concludes; `Stripped` and `Removed` are what the client's copy
loses. `MeansLocal` is external: what JavaScript means by the name. `Reload` has the saves of one file: `Save` claims a tag, `ReadFile`
reads what is on disk by then, `Apply` swaps it into registration and mounted instances when its tag is
the newest, `Fail` leaves things as they are; `Begin` and `Mounted` are instances built meanwhile.

## 3. Checks

| Run | Question | Properties |
|---|---|---|
| `LiveInstance` | Does every listener hold the server's state, are writes kept, once, in order, and acks and reactions after them? | `TypeOK`, `ReplicaExact`, `SnapshotFaithful`, `FlushArmed`, `AckAfterWritesButEarly`, `ReactionAfterSender`, `BacklogExact`, `WritesConserved`, `PatchOrderButEarly` |
| `Mounts` | Do registries, timers and caps survive every race of mounts, and do handles, stores, joined instances and props baselines of a page match? | `RegistryAgrees`, `NoOrphans`, `IdleArmedButReused`, `CapsSpareHeld`; `JoinedOnSockets`, `StoresMatchHandles`, `GivenIsTold`, `NewestWins` |
| `Services` | Does each service keep its promise? Is every request that reconciles answered with the right data, and does a page over requests keep the promise of its calls? | `RateBounded`, `AnswersAreTrue`, `StreamsCostLittle`, `RowFollowsInstance`, `SubscriptionsUsed`, `TablesFollowDisk`, `ClientIsStripped`, `NewestDefinition`; `TypeOK`, `GateOwned`, `PaintHasData`, `FirstPatchOpens`, `LoadOrder`, `KeyWasLoaded`; `KeepsPromise` |
| `Settles` | What has a page confirmed, and does what was begun come to an end? | `ConfirmedExact`, `NothingForgotten`, `AckedShows`, `CallsSettle`, `StoreRecovers`; `KilledIsReaped`; `EveryBatchSettles`; `EveryRequestEnds` |

A passing run holds several modules, or two settings of one. They share no variable: the variable `part` (in `MCServices` also `of`), chosen
in the initial state, says which of them takes steps, and the others rest in one initial state. This is the union of their
behaviours, not a product, and nothing is claimed of one module from another. What composes is inside the modules:
`LiveSync` has pages, transport and instance, `SlotMounts` has page, wire and handler, `Registry` has mounts, streams
and timers.

Each property has a mutant, an operator beside the one it changes, that breaks it.

**Bounds.** *LiveInstance*: two runs of handlers are enough for every interleaving of two handlers,
and a batch id may be resent to the second; two writes make one write before and one in an error ack; a dedupe window of
one ack makes eviction happen; two views make a listener that is rendered, attaches and comes back, or resyncs.
In the second setting one broadcast out and one in, with a backlog of one, make overflow happen.
*Reconcile* has the request that built the instance and two more, which is what it takes to leave some
props and come back to them; one patch per loader makes a first patch, and a
loader that ends without one. *Registry* has three mounts, which make a race of two for one
key while a third evicts, replaces or fills the cap; caps of one make every shed and
refusal happen; the requests (`MCMounts!Mixed`) are a GET and a socket's frame for one
key, an event stream's for another, a GET under a new principal, and a GET of
another session, which shares the list of unattached instances. *SlotMounts* has two slots and two paths; the
budgets (`MCMounts!Mixes`) are two slot mounts with a patch and a broken stream, or with a deny; a slot
against two navigations and a deny, or one and a patch; three navigations with a deny and a broken stream: the
smallest that make a cancelled pair, a shared identity, an overtaken remount and a return to the page on screen.
*LiveSync* over requests (in `Services`) has two calls, one drop, one failed request: every order of
resend, re-ack and snapshot, up to the close of the page (`MCServices!Followed`); over a socket (`Settles`) it has
one call, a write of another client, an unusable frame (which makes a gap), and two drops, the second of which loses
what the first reconnect sent; what runs after a page closed and two pages matter only for colliding ids
(`LiveSync_reload`). *Services*: `RateLimit` has two keys and room for one; `Ingress` two requests of
21 kinds and a burst of three against batches of up to three, one over the limit; `Egress` two streams, two
instances, three envelopes of one or two against a budget of three; `Persistence` two instances of the key, two
principals, two emissions each, and once a process has met a case `RowFollowsInstance` exempts (`MCServices!Exempt`)
only its crash and restart are explored; `Bus` three subscribers on two nodes and one message, which makes a duplicate
and an echo visible; `Boot` seven files in which every conflict, every kind of place, a broken
chain, a shadowing local, a computed name and a decorated parameter occur, and three saves; `Reload` four
saves and two instances. In *Settles* a batch of two calls or of its resend is run twice, three requests reconcile with
loaders that do not write, and one stream is killed.

**Deadlock** is not checked: a model stops when its bounded inputs are used up,
and an instance that is gone does nothing.

**Fairness.** `LiveInstance!RuntimeFairness`: timers fire and queue tasks run, as
the event loop and storage that answers guarantee. That userland's handlers come to an end is not the code's to
guarantee; it is the hypothesis `HandlersEnd` inside `EveryBatchSettles`, and of guards and loaders inside
`EveryRequestEnds`. Both say "again and again nothing is under way", which for runs that stay settled
means that all settle. `LiveSync!SyncFairness`: a page
reconnects (EventSource, or the socket's backoff), what is not lost arrives,
streams are read, runs end. Nothing is assumed of calls, drops or failures.
`Reconcile!Fairness`: a settled gate resumes its request, and pending writes
are flushed (what `LiveInstance` shows as `FlushArmed`). `Egress!Fairness`: the adapter's callbacks run (`Reap`,
`Finish`); the client may never read again.

### Findings

Runs marked `violation` state what a comment or document says and show that the code
does something else; `findings` in `PROJECT.json` quotes them.

* `LiveInstance_torn`: an error ack applies its writes, waits for storage inside its
  queue task and only then emits them; a snapshot taken meanwhile makes a client apply them twice.
* `LiveInstance_resend`: a batch resent while its first run is at an await runs twice.
* `LiveInstance_throw`: two guides and the specification say that a throw discards the handler's unflushed draft; the error ack
  commits it, and a test of the repository expects that.
* `LiveSync_reload`: rpc ids start over with each document, so a new page can get the
  ack of another page's call, and its own never runs.
* `Reconcile_latest`: a request back to the old props, while a load for new props
  runs or after one failed half way, is taken for a duplicate and skipped.
* `Registry_closed`: a socket that closes while its mount frame is being served is
  joined afterwards; nobody removes that listener, so the instance is never evicted.
* `SlotMounts_frozen`: over SSE the release of an instance and its next mount are separate requests; the release
  served last takes the listener from a store the page keeps, which is then never sent anything.
* `Persistence_principal`: after an eviction or a restart, a navigation under another login wakes the instance from the
  row of the old principal and registers it under that session.

The passing properties are the strongest we found that hold beside these.

* `ReplicaExact` exempts replicas attached to a `torn` snapshot. `PatchOrderButEarly`,
  `AckAfterWritesButEarly` and `ReactionAfterSender` exempt writes an error ack took `early`: it takes the pending list
  when it is issued and applies it when its task has its turn, behind flushes already queued.
  `WritesConserved` counts as lost what a throwing `onError` or mutator discards; what a handler wrote before it threw it counts as kept,
  as the code does (`LiveInstance_throw`).
* `BacklogExact` allows one run more than there are: the one that is over and has its `finally` to come.
* `NothingForgotten` and `CallsSettle` exempt calls that are `unsure`: made before the stream first
  opened, or whose request failed; they wait for a reconnect that may not come.
  `AckedShows` is checked with one page, where ids do not collide; it and `KeepsPromise` exempt calls whose writes
  went `astray`.
* `IdleArmedButReused` exempts entries whose timer a warm mount cleared and that no stream has joined since:
  `mountInstance` clears it (`handler.ts` 1142) and nothing sets it again if the page never connects or
  the guard denies.
* `JoinedOnSockets` is about sockets, and exempts stores that are `missed`: bound while the socket was opening, or whose
  join frame was refused, denied or throttled: nobody tells the store. `GivenIsTold` exempts instances told of props
  without a socket or lost with one (`loose`), and those a page was mounted on, which sets no baseline.
* `StreamsCostLittle` exempts a client that left while its request was authenticated (`early`): the abort
  listener is added after the abort.
* `RowFollowsInstance` and `MadeForWhoAsked` exempt a process in which (`late`) two instances of the key were there at once, one was
  being made when `handler.dispose` began or was mounted after it, an instance that was gone wrote over the row of its successor, over a deleted
  one or during the shutdown, or a write or delete failed: nothing in the code orders or repairs these.
* `AnswersAreTrue` counts 302 and 422 as refusals only where nothing ran before: a route handler, the guard or loader of a `url`
  message and a render may throw them after they did something.
* `ClientIsStripped` exempts a chain that breaks, see below.
* `RateBounded` is about buckets that are kept: one that was evicted and made anew starts full.
* `TablesFollowDisk` compares the servers without include globs and without two files for one path; see below.
* `NewestDefinition` exempts instances that were being built at a swap (`across`), and a newest load that failed.

Not claimed, because races break it: that a mount hands out an
entry that is still registered (a cap may take a reused one during its reconcile), or one built
for its own principal (the winner of a race may be another's).

Seen while modelling, with no run of their own because no line of the repository promises otherwise or a case is an input of the
models:

* Two page files for one path (`a.tsx`, `a.jsx`) are refused by the dev server, and the last wins in a build; of two http
  routes the first wins in development and the last in production, of two shells the other way round. The dev
  server's own scan does not know the plugin's include globs, and no include glob reaches a directory the walk prunes.
* `strip.ts` 428 calls a module with several `live()` calls "ambiguous (a build error the scan reports)"; the scan
  reports it outside `routes/` only, and a route file goes to the client unstripped.
* Going back to the page on screen while a navigation is in flight claims a ticket but no remount: the primary store is
  then that of the page never shown (`navigation.ts` 28-33). `NewestWins` is about the newest remount.
* `strip.ts` 2-4 says that the server-only steps of a registered module "must never reach the browser". The walk stops at a
  parenthesis or a variable (`strip.ts` 80-82): what follows is shipped, and when nothing precedes, the whole module (434).
* `instance.ts` 652 says of parked handlers that "their late flushes are dropped". That holds of their `patchState`; but a handler that throws
  after `dispose` has its pending writes committed and the row written by `#ackError`, over whatever row there is.
* `mountInstance` does not ask whether the handler was disposed: a request under way at the signal registers an instance whose
  last state nobody saves. A snapshot write that fails at the shutdown is reported, and the process exits with 0.
* A delete that throws when the session has changed fails the mount and leaves the old principal's row, with its instance already
  gone: the next mount restores it.
* `mapRequestError` answers 422 and 302 to errors thrown by a render or a route handler after an instance was mounted or something ran,
  as it does before; the comment "nothing was built" (`handler.ts` 1666) is about mounts only.
* A broadcast of the instance to itself, from the task behind a finished reaction, meets a backlog that counts that reaction
  still: at the cap it is dropped with room to spare.
* A channel entry whose SUBSCRIBE failed stays deaf until all its subscribers have left; a `setup` that throws after it
  subscribed never unsubscribes (`Bus`, `Registry`: `lost`, `orphan`).

## 4. Proofs

`LiveInstanceProofs` proves, for every number of runs, batches, listeners and
writes, from `ConstantsOK` only:

* `TypeCorrect == Spec => []TypeOK`;
* `ReplicaCorrect == Spec => []ReplicaExact`.

`ReplicaExact` is not inductive. `ReplicaInv` adds that a rendered page that still has
the current sequence number shows the current state (what makes adoption by
number sound), and `CommitInv` that the head task has applied its
writes exactly while it is in its write phase. The proof has one step per action; the
lemmas say what `Announce`, `Seen` and the queue operators keep.

`ReconcileProofs` proves, for any requests, props, loaders and numbers of patches, from
`ReconcileConstantsOK` only, `TypeOK`, `GateOwned`, `PaintHasData`, `FirstPatchOpens`,
`LoadOrder` and `KeyWasLoaded` (theorems `TypeCorrect`, `GateCorrect`, `PaintCorrect`,
`FirstPatchCorrect`, `OrderCorrect`, `KeyCorrect`). They are inductive together with three
facts: `RunsOnce` (a request has at most one loader run, none before its guard is
through), `WroteKnows` (`#loadWrote` tells whether the run in charge has written, and where
its writes are) and `SkipStands` (a decision to skip taken before the guard still stands
after it, because what was loaded is never taken back: `LoadedStays`). One lemma per
conjunct takes a step, one case per action.

The second part of `LiveInstanceProofs` proves the other seven safety invariants of the `LiveInstance` run for any runs, calls, listeners and bounds,
from `ConstantsOK`: `WritesConserved`, `FlushArmed`, `SnapshotFaithful`, `PatchOrderButEarly`, `AckAfterWritesButEarly`,
`ReactionAfterSender`, `BacklogExact` (theorems `WritesCorrect`, `ArmedCorrect`, `SnapshotCorrect`, `PatchOrderCorrect`,
`AckCorrect`, `ReactionCorrect`, `BacklogCorrect`). `StepEffect` reduces the actions to nine effects on the writes (`Effect`), and each invariant is
shown once per effect. None of them is inductive: they stand on where a write may be (`PlacesInv`), in one place at a time
(`ApartInv`) and once there (`OnceInv`), on which tasks the queue may hold (`TasksInv`), on the order between what is pending, queued and in the
state (`OrderInv`), and on what an ack or a reaction on the queue has before it (`AckInv`, `CauseInv`). The backlog needs a bijection between
the counter and the reactions under way, the one with its `finally` to come among them: what a step adds and removes of them (`More`, `Less`, `Same`).

`RegistryProofs` proves `RegistryAgrees`, `NoOrphans`, `IdleArmedButReused` and the action property `CapsSpareHeld`, for any mounts, keys,
sessions, streams and caps (theorems `RegistryAgreesAlways`, `NoOrphansEver`, `IdleArmed`, `CapsSpareHeldAlways`), under
`RegistryConstantsOK`, which says what the constants are. The inductive invariant adds what the handlers know while they await (its
conjuncts are named in the module's head). The handlers change the tables in six ways only (`Change`): they keep them, shed entries, clear a
timer, add an entry, join one or leave one. That the caps are kept is about cardinalities of the shed and remaining entries.

`SlotMountsProofs` proves `StoresMatchHandles` and `NewestWins`, for any slots, paths, props, transport and bounds, from
`SlotConstantsOK` (theorems `StoresMatchHandlesAlways`, `NewestWinsAlways`). The inductive invariant (`IInv`, proved by `IInvAlways`) says:

* `AskedOnce`: a mount is in at most one request or answer, alone if it is a page's, and in the stage `posted`. Without
  it, an answer could settle a mount a second time and bind a store nobody holds.
* `Tickets`: no two navigations have the same ticket, those past loading are the ones in `runs`, and if the last of them has a store it is
  the primary one. `NewestWins` follows once nothing is loading or asked for.
* `Released`, `Owners`, `Uses`: a slot on screen, one that is about to be and one whose release waits for the microtask each have
  a registered store of their own, and a store that is registered has such a user, is primary or belongs to a page.
  `StoresMatchHandles` speaks of the idle page only; in between the flush pairs releases with queued mounts, and the proof needs
  that `RelOf` pairs them one to one (`RelOfOne`, `RelOfOwn`), so that a store passes to one heir.

What is common to many actions is shown once: `SlotStep` and `OneSlot` (a slot changes its stage), `PageStep` and `OnePage` (a navigation does),
`RestKept` (only messages move), and of the sends `SendTells` (no mount is among them) and `SendAsks` (one is, of mounts not asked for yet).

`SlotWiresProofs` proves the other two, `JoinedOnSockets` and `GivenIsTold`, under the same assumption (theorems
`JoinedOnSocketsAlways`, `GivenIsToldAlways`). Both speak of a quiet wire, so by themselves they say nothing before a message
has arrived; the invariant (`WInv`, on top of `IInv`) says what they come to meanwhile:

* `WillBeJoined` (`Covered`): while the socket is open or opening, the instance of a store that is not `missed` is joined, or being joined, and no release
  of it is on its way, or a frame that joins it is, with no release behind. A second mount of an instance whose release is still queued is
  the case that matters: the socket keeps the order of frames, a release is sent before the join that follows it.
* `WillBeTold` (`Fits`): what the page noted as an instance's props is what the server has heard and nothing on the wire changes it, or the last
  message on the wire about them brings them; a url patch and a join frame do. `Exempt` are those the property
  exempts, and the instances whose mounts the page has not noted yet.
* `AllBuilt`: the instance of a store that is bound or about to be has been built, so a frame that joins it is not refused. `Wires` says what may
  be on the wire at all.

A socket's frames are a sequence. `Ends` ("one of these comes, and none of those after it") and `Clear` ("none of those") are predicates of sequences, and
most of the proof is what sending several messages at once, serving the first and breaking the link do to them. What a flush sends is one url patch
per instance whose props changed, then the releases, then one mount request (`FlushSlots`), in this order, which is what the proof uses.

`LiveSyncProofs` proves of pages, streams and instance, for any pages, transport, dedupe window and bounds, from `SyncConstantsOK`:

* `ConfirmedExactAlways == SyncSpec => []ConfirmedExact`, and `PagesNeverGoBack`: what a page has confirmed only grows;
* `CallsCoveredAlways == SyncSpec => []CallCovered`; and, when no request is lost (over a socket, or `MaxLost = 0`),
  `NothingForgottenAlways == SyncSpec => []NothingForgotten`. The hypothesis is the code's: a resync is a POST nobody retries, and the
  store that asked asks once, so losing it leaves the store waiting until the stream breaks;
* with one page per session, `AckedShowsAlways == SyncSpec => []AckedShows` and `SyncImplementsPromise == SyncSpec => KeepsPromise`, the
  refinement of `SyncPromise`. With two pages both are false: `LiveSync_reload` is the counterexample.

`ConfirmedExact` says nothing of what is on the wire. The invariant `IInv` says that there is a history `H` of the states announced (`Trace`): a
store has the state its number names, a full holds the state of its number, patches the difference from the one before, an ack of
success comes at or after a state that shows its write, unless that went astray. `H` is under an existential quantifier, so no history variable is needed, and the
invariant is for the prover only: TLC cannot enumerate histories, it checks what follows from it. A new envelope extends `H` (`HistoryGrows`);
`Order` says that a full on a stream is not older than what precedes it and that what is newer follows it; `Told` that a call which succeeded was
told of by a state the page has or will have; `Pending` that an outcome is never settled twice. The actions differ in five ways (`Effect`).

`FilterProofs` proves what `Only` returns for every sequence and set (`OnlyPicks`): the elements asked for, all of them, in their order, each from a place of its
own; and how `Total` changes when a sequence of numbers gets an element, loses its first or has one that grows (`TotalMore`, `TotalLess`, `TotalGrows`).
`Total` stands for the bytes of a stream's queue in `Egress` and for the tokens charged in `Ingress`. `Only` stands for `Array.filter` in `Registry` and `LiveStore`; it is a recursive function where `SelectSeq` would be
opaque to the provers. The library's induction theorems take a predicate as a parameter, which the provers cannot instantiate;
`NatSetInduction` takes the set of numbers instead, and follows from the well-foundedness of `<`. `RecursionExists` then shows that a function defined by
recursion exists, which its definition by `CHOOSE` leaves open.

`ServicesProofs` proves, for any values of the constants, the eight properties of services the `Services` run checks, as theorems of
`ServicesSpec`, one of the three parts of that run, and of the modules by themselves. `ServicesInv` says that the part that takes steps satisfies its module's inductive invariant; a step
of one part leaves the variables of the others alone, so each module's own proof carries over. The assumptions are those of the modules, instantiated in
`Services`. The theorems of the modules by themselves do not fix the first state the run fixes:

* `RateTypeCorrect == RateSpec => []RateTypeOK` and `RateBoundedAlways == RateSpec => []RateBounded`, for any keys, limit, costs and clock
  (`RateLimitConstantsOK`): tokens stay between nothing and a burst, the table within its bound, and what a kept bucket paid out in a
  window is at most a burst and the refill of the clock's forward movement. `RateBounded` alone is not inductive; `Accounted` adds the
  tokens a take would find now to what was spent. A tick adds to both sides (a clock set back, to neither), a take moves tokens from one
  summand to the other, a window begins with at most a burst.
* `TopicCorrect == Topic!Spec => []Topic!SubscriptionsUsed` (entries are numbered from 1: `BusConstantsOK`). The inductive invariant
  (`TopicInv`) says that an instance that has joined is in the entry its node now has and that nobody else is in one; that an entry
  everyone has left is not subscribed, or is told to be as soon as redis answers; and that what waits in an inbox was given
  to none of the entry's subscribers, which is why nothing is heard twice when a node changes its entry.
* `EditCorrect == Edit!Spec => []Edit!NewestDefinition`, from no assumption. A load never runs ahead of the disk, and unless
  the newest save is loading or has failed it is what is registered and mounted (`EditInv`).
* `RowsCorrect == Rows!Spec => []Rows!RowFollowsInstance` (instances are numbered from 1: `PersistConstantsOK`), on the four adapters.
  Unless `late`, at most one instance is past reading the row (`Alone`), and the row fits where it is (`Fits`: its own while it lives, going
  when it is dropped, the next one's to read once it is gone); a replacement of another session's instance finds no row (`Wakes`);
  a shutdown begins with nothing being made (`Closes`), and from then what is being saved is all there is (`Saves`). A write that does not
  make the process `late` has written or met a closed storage (`Stores`); an error ack that does not is of the
  instance whose row it is, or of one about to write or delete that row.
* `TreeCorrect == Tree!Spec => [](Tree!TablesFollowDisk /\ Tree!ClientIsStripped)` (files are finitely many and numbered, and contents
  have their fields: `BootConstantsOK`).
  The invariant is about each of the tables and bundles that is not `stale`: it was made from the disk as it is. A codegen leaves nothing
  a second one would rewrite (`MaintainedOnce`), a file no scan looks at changes no table (`AlikeSame`), and the dev server's own scan
  and the build's make the same tables of files of which no two are for one path (`SameTables`). For `ClientIsStripped` it is enough that tables that are
  not `stale` come from the files as they are: a table names, of the files for one path, the first or the last, each one a scan keeps (`Extremes`, `TableNames`), and those are
  the ones the plugin strips. That no import is pruned that the client needs is `WalkIsSound`: whatever nodes
  are around a use, if the walk of `strip.ts` takes it for a local's then JavaScript does (`ShadowedLocally => MeansLocal`). The flag it
  carries past a decorated parameter is what the proof turns on: it skips the one function whose scope does not hold there.
* `OutCorrect == Out!Spec => []Out!StreamsCostLittle` (a finite number of instances, a budget that fits the preamble, a
  largest envelope: `EgressConstantsOK`). The invariant (`StreamOK`) is about each stream by itself: until its request is authenticated it has
  no body and nobody knows it; what has a body is watched for an abort, unless it is an SSE stream killed while it was joined; and a queue over
  the budget belongs to a socket told to close, with one envelope too many (`Within`). `Joining` is what holds of it in the middle of
  `Start`, where the fulls of its instances may kill it and other streams.
* `InCorrect == In!Spec => []In!AnswersAreTrue` (finitely many requests of the planes there are: `IngressConstantsOK`). The
  invariant (`RequestOK`) says what is known of a request at each stage: nothing was done for it before its mounts or its handler; a mount message is
  charged all of its entries before the first is mounted (`PaidFor`); what is thrown after something was done is never answered with a
  status of the handler's own refusals; a well-formed batch never throws. `PaidGrows` carries a charge to the sum over all requests.

Each of these invariants was checked by TLC on the run's instance before it was proved.

`AnswersAreTrueAlways`, `StreamsCostLittleAlways`, `RowFollowsAlways`, `SubscriptionsUsedAlways`, `TablesFollowAlways`, `ClientIsStrippedAlways` and
`NewestDefinitionAlways` are the same of `ServicesSpec`.

**Model-checked only.** Every invariant and the action property of the passing runs has a theorem, and so has the refinement. What has none is
liveness under fairness (`CallsSettle`, `StoreRecovers`, `KilledIsReaped`, `EveryBatchSettles`, `EveryRequestEnds`), which is out of TLAPS' reach here: it
needs `ENABLED` and well-founded arguments. `CallsCoveredAlways` and `FlushArmed` are the safety halves of the first and the fourth: what has to come is on its way.

## 5. Not modelled

* Definitions, routing and codecs: builders without state, and pure functions on strings and JSON values, whose results are inputs
  of `Ingress` and `Reconcile`. The id map: used for keys of rendered lists only. rsc: bound to React's
  internals. Commands, generators, HTML and testing: text and harnesses.
* Instance: RSC slots, unsubscribing a topic, abort signals as such (a handler may ignore them, and the
  models let every handler do so).
* Store and connection: optimistic replay and id linking, `useSyncExternalStore` snapshots, status and sync subscriptions,
  checks on redirect targets, links, fallbacks, the popstate patch of search params.
* Handler: the byte budget of the registry, correlation ids of mount frames; origin and cookie checks are their outcome.
* Adapters and storage: the Bun adapter is a call of `Bun.serve`; the translation of requests, the encoding of rows, messages
  that do not parse, the drain tests use.
* Build: static files, SSR assets, Vite's own bundling, parsing and the text of generated and stripped modules.

## 6. Next

* A weaker promise for sessions of several pages, where rpc ids collide: `SyncPromise` without `done`, refined for any number of pages
  (`ConfirmedExactAlways` and `PagesNeverGoBack` are what it takes).
* Optimistic replay and id linking of the store, RSC slots of the instance, and the answer to a batch for an instance that is gone.
* The two hazards without a property: a flood of bus messages that keeps `dispose` from draining, and a client that leaves while its stream is authenticated.
