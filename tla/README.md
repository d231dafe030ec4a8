# A TLA+ model of ipfs-mobile

ipfs-mobile downloads content from IPFS on phones: a Go library (`client/`)
with a foreign function interface (`ffi/`) and a Kotlin wrapper (`android/`).
This directory holds TLA+ modules that describe its concurrent core, TLC
configurations that check them on small instances, and TLAPS proofs of the
components everything else leans on. Line references are to the sources of this
repository; `PROJECT.json` maps every definition to the lines it stands for.

## 1. The system

A `Client` has at most one *node*, a libp2p host with a block exchange, which
the downloads share. The first download starts it; after `IdleTimeout` without
downloads a timer closes it; the next download starts another. A download
fetches and verifies blocks from peers and gateways through the node (the
*primary phase*), and if that fails may fetch the whole file from a gateway,
unverified (the *fallback*). Either way the content is staged next to its output
and then moved onto it.

| component | state | operations | what is hard | what makes it correct |
|---|---|---|---|---|
| client lifecycle (`client.go`) | `node`, `starting`, `inflight`, `timer`, `closed` under one mutex | `acquire`, `release`, `closeIdle`, `stopTimer`, `Close` | the node is built and torn down outside the mutex; `Timer.Stop` comes too late for a callback that runs; starts fail or finish after `Close` | the node is never pulled from under a download, never lost, never built twice; it goes when idle; nobody waits for good |
| `Get` (`client.go`) | contexts, the goroutine of the primary phase and its result channel | `Get`, `getPrimary`, `awaitDownload`, `fetchFromGateways` | a goroutine that outlives the wait for it; deadline, result and `Close` racing | what success and failure mean for the output; unverified content as a last resort; it returns |
| node startup (`node.go`) | dial groups: a counter and two channels each | `startNode`, `dialAll`, `awaitConnection`, `redial` | counters and channels read one by one while the dials go on; reuse of a node whose dials failed | a start fails only with nowhere to fetch from; dials do not pile up; a warm node recovers |
| fallback (`fallback.go`, `client.go`) | process-wide cooldowns per host; the deadlines | `primaryDeadline`, `fetchFromGateways`, `startGatewayCooldown`, `retryAfterDelay` | three nested deadlines; a map shared by all clients, read before a request and written after one; durations that overflow | `Get` is bounded, the fallback gets its share, hosts are left alone for as long as they ask, up to a cap |
| output replacement (`output.go`) | a table of locks per path; the file system | `lock`, its release, `replace` | a lock table whose entries come and go; a rename tried outside the lock; clearing and renaming are two steps | mutual exclusion, a tight table, success leaves content, failure leaves none |
| staging (`node.go`) | staging directories on disk, `staging` | `claimScratch`, its release, `sweepScratchPrefix` | several processes, one directory; kills; only age tells a slow download from a dead one | nothing live is swept, nothing dead stays |
| peer snapshot (`snapshot.go`) | a file | `readPeerSnapshot`, `writePeerSnapshot`, `snapshotWorth` | one node writes while the next reads; kills | a reader sees a whole snapshot, of peers worth dialling |
| discovery (`routing.go`) | `seen`, a merged channel, a shared context | `FindProvidersAsync` | one goroutine a router, racing to a limit and cancelling each other | no provider twice, the limit holds roughly, no goroutine leaks |
| content writing (`node.go`, `fallback.go`) | bytes written against a limit, a staging directory | `materialise`, `extractTar`, `resolveTarPath`, `writeLimited` | names, kinds and sizes are chosen by whoever wrote the content; zero, negative and exhausted limits; overflow | a success is all of the content; nothing outside one tree in the directory; at most one byte past the limit |
| resolver (`resolver.go`) | a TXT cache for the whole process; a counter per client | `LookupTXT`, `lookup`, `keep`, `Dial` | a cache filled with names peers choose, kept by concurrent lookups; turns over the servers shared by all lookups | live answers stay, the cache is bounded, answers are fresh |
| configuration (`client.go`, `gateway.go`, `identity.go`, `node.go`) | none | `New`, `parsePeers`, `parseGateways`, `checkIdentitySeed` | what is skipped and what is refused | a client has somewhere to fetch from |
| FFI (`ffi.go`), Kotlin wrapper (`Ipfs.kt`) | a client and a flag behind a monitor | `NewClient`, `Get`, `get`, `client`, `close` | first downloads racing each other and `close`; durations that pass three layers, each with values that mean none | no client leaks, the monitor is never held for a teardown, bounds survive |
| gater (`gater.go`) | none | a predicate on addresses | - | modelled as far as the snapshot uses it |

How they interact: `Get` starts a goroutine that calls `acquire`, which calls
`redial` or `startNode`; then `download`, which asks `parallelDiscovery` for
providers, sweeps and claims a staging directory and calls `replace`; then
`release`. `closeIdle` and `Close` call `node.close`, which writes the snapshot
the next `startNode` reads. The fallback stages and replaces in the same way
without a node. The app calls the Kotlin wrapper, which makes one FFI client on its
first `get` and closes it with itself. Shared by all clients of a process are the
locks on outputs, the registered staging directories, the gateway cooldowns and
the TXT answers; shared by processes is the file system.

## 2. The plan

In order of what matters most, and what each module is about:

1. `SharedNode`, `Lifecycle`, `Lifecycle_proofs` - the shared node, abstract and
   as coded, with its proofs. *Done.*
2. `PathMutex`, `PathLocks`, and `Replace`, which extends `PathLocks` with the file
   system, with `Replace_proofs` about both. *Done, proved.*
3. `GetCall`, `GetCall_proofs` - one `Get` against deadlines and `Close`. *Done,
   proved.*
4. `Dialing` - startup and redial - and `Discovery`, what a node knows of its peers,
   with `Peers_proofs` about both. *Done, proved.*
5. `Fallback` and `Snapshot`, each with its proofs. *Done, proved.*
6. `Scratch`, the staging directories, and `Writing`, what `materialise` and
   `extractTar` put into one, with `Staging_proofs` about both. *Done, proved.*
7. `Resolver`, `Wrapper` and `Process`, which composes them, with
   `Process_proofs`. *Done, proved.*

What is left is liveness, which stays with TLC (section 6), and what section 7
leaves out.

## 3. The modules

A critical section under a mutex, a system call and an operation on a channel
are one step each; everything the code does between two of them can interleave
with everything else. `MC...` modules add symmetry sets, `MCFallback` the list
of gateways, `MCLifecycle` the inductive invariant, `MCProcess` the
configurations of an app, `MCWriting` the limits; the other runs check a module as
it is. Definitions whose comment begins with "Wrong variant" are not
part of a specification: each is a plausible mistake in the definition that
follows it, kept to show that the properties notice it.

**Lifecycle** (implements **SharedNode**). A call is the goroutine of
`getPrimary`: `Get`, the four outcomes of a pass through `acquire`'s loop
(`AcquireClosed`, `AcquireWarm`, `AcquireWait`, `AcquireStart`), the steps of a
start (`MakeHost` to `StartUnwound`, `RecordStart`, `Signal`, `Discard`,
`Discarded`), `Downloaded`, `release`. `waiting` calls sleep on the channel of
the starter in `waitsFor`; `Signal` is `close(pending)`. A timer is `armed`,
then `fired`, when its callback is on its way to the mutex and cannot be stopped
any more; `closeIdle(t)` is that callback in the mutex. `node.close` runs as
long as a node is `closing`. `quiet` is auxiliary: the ticks since a download
last used the client. The refinement maps `node`, the registered calls and
`closed`; SharedNode says that a node appears only on behalf of a registered
download and goes only when there is none or the client is retired.

**PathLocks** (implements **PathMutex**). `Register` is `lock` up to its select,
`Take` the send on the gate, `LockGivesUp` the branch of the context, `Unlock`
and `Release` the two halves of the function `lock` returns. Channels are drawn
from `Gates` and used again once dropped, which is how the module would notice a
table that forgets one in use. PathMutex says who is between lock and unlock of
each path; the refinement maps that to the callers that are, whatever channel
let them in, so a table that hands out two channels for one path refutes it.

**Replace** extends PathLocks. An output holds nothing, a file, a directory or
the *remains* of a directory whose removal has begun. `CanRename` is `os.Rename`,
which refuses anything onto a directory and a directory onto a file. RemoveAll
is two steps and may fail; the staged content may be swept away by
another process (`StagingSwept`); the process may be killed. That every `replace`
gets to its end is said by `NobodyIsStranded`, a state invariant: whoever waits for
the path waits for a live holder.

**GetCall**. The caller (`at`) and the goroutine it leaves behind (`worker`) are
separate; the result channel `chan` has room for one. `PublishCheck` and
`Publish` are the two looks of `replace`: at the context, and the rename.
Acquiring a node is an outcome here, since Lifecycle has the detail. `late` is
auxiliary: how many attempts a call began after `Close`.

**Dialing**. A dial is `dialling`, has its connection (`connected`), has
counted it (`counted`) and is `answered`, or `failed`. `startNode` reads the two
counters and the two channels in four steps. A *round* is a pair of groups; the
goroutines of a round live on when `redial` has recorded the next one.

**Fallback**. A clock, the end of the context each download waits under, and the
cooldown of each host. The clock may not pass the end of a context, and does not
run while a download is at a step that takes no time, so bounds on the clock are
bounds on waiting. Durations wrap around at `DurationRange`, which stands for
2^64 nanoseconds as `Second` stands for 10^9. `asked` is auxiliary: what each
host asked for last and which downloads were past their look at that moment.

**Scratch**. `staging` holds pairs of a spelling and a directory, since the code
keys it by path. `Suspends` says whether a process may be frozen between two
statements for as long as a directory takes to go stale; without it time does
not pass while a download is between `MkdirTemp` and `staging.Store` or between
the two looks of the sweep.

**Snapshot**. `Start` is `os.Stat` and the look at the age, `ReadFile` the read;
`Close`, `CreateTemp`, `Write`, `Rename`, `Remove` and `TearDown` follow
`node.close` through `writePeerSnapshot`. A half written file holds some of the
lines. Peers are known by books of addresses: one to dial, one on a private
network, one to be looked up first.

**Discovery**. `CountProvider` is the critical section on `seen`; `Deliver` and
`Drop` are the branches of the select; `Stop` cancels the siblings. `Deliver`
of an unbuffered channel is one step with the reader.

**Writing**. The entries of a DAG or an archive arrive one by one, each chosen
when it arrives: any name of up to two elements (`..` among them), a file, a
directory or a link, of any size. `RefusedOfDag` and `RefusedOfTar` are what the two
walks and the system calls below them refuse; `Directory` and `File` stage the
entry and its parents. `remaining` and `permitted` are the arithmetic of the
limit at the width of int64 (`Wrapped`), which `MaxInt` scales down; no content has
more bytes than that. `Clean` is `filepath.Clean` of a rooted name, one element
after the other (`Climb`). A DAG may first be refused for the size it claims
(`Size`). `Whole` is the reference: what all that arrived comes to, without a limit.

**Resolver**. The cache maps a name to the age of its answer and what is left of
its life; a lookup is `asking` servers, `keeping` its answer, or done. `Dial` is one
query and takes the next turn of the client; net.Resolver, which dials again after
a failure, is taken to do so `Attempts` times. `disturbed` is auxiliary: another
lookup of the client took a turn in between.

**Wrapper**. `Enter` to `MakeFails` are `Ipfs.get` up to the FFI call, with `monitor`
the thread in the monitor; `Made` is `NewClient` with `New` (`Accepted` is what
they accept of a configuration). `TakeOut`, `Retire` and `TornDown` are `close`; `OneShot`
to `OneShotClosed` the FFI's `Get`. A client is what SharedNode promises: downloads
register with it or are refused, its node comes up for them and goes with them. The
conversions of durations are operators on scaled integers, checked for every
duration in `BoundsAreKept`.

**Process** composes the two: a node that is up looks names up if its client has
DNS servers, a client that goes cancels its lookups, and the answers outlive it.

## 4. The runs

Passing runs check that the following hold. The state invariants of a module that
are not checked by their own name are the conjuncts of one that is: `IInv`,
`LInv`, and `ReplaceInv`, `GetInv` and so on, each with the module's `TypeOK`. Those
conjunctions are the inductive invariants of section 6 too, so TLC checks on a small
instance everything a proof carries over a step.

| run | instance | shows |
|---|---|---|
| `lifecycle` | 3 calls, 2 nodes, 2 timers, timeout 1 | `InflightExact`, `NodeInUseRuns`, `NodeOwned`, `OneStart`, `IdleNodeHasTimer`, the inductive invariant `IInv`, refinement of SharedNode; waiters wake, an idle node is closed, `Close` frees every node |
| `path_locks` | 3 callers, 2 paths, 3 channels | exclusion, a tight table, nobody waits for a free path, refinement of PathMutex; the lock is granted or given up |
| `replace` | 3 downloads, 1 output, any previous entry, faults, one kill | success leaves whole content, failure leaves none, half a directory only under the lock, files never vanish among files, nobody waits for a path its holder has left |
| `get` | 1 call, 3 gateways, fallback allowed or not | success is published, unverified is a last resort, `Close` costs at most the attempt under way, a `Get` that returned begins no publication, the inductive invariant `GetInv`; `Get` returns although the primary phase hangs, by itself with a fallback and with the caller's context without |
| `dialing` | 2 peers, 1 gateway, 2 rounds | a failed start has no dial in flight, peers are not dialled twice at once; a start decides although dials hang; a warm node recovers |
| `fallback` | 2 downloads, 3 gateways on 2 hosts, 2 kinds of caller | `Get` is bounded, the fallback keeps its share, pauses are capped, only requests under way intrude on a pause, every gateway has its turn |
| `scratch` | 2 downloads, 1 or 2 processes, 3 staging directories, one kill | own and young staging is kept, the living leave nothing behind; leftovers of a kill are swept |
| `snapshot` | 2 nodes, 4 peers, at most 2 written, one kill | readers see a whole snapshot of peers worth dialling; a snapshot is only replaced by another; no temporary file stays |
| `discovery` | 2 routers, 4 providers, limit 2 | no provider twice, the limit overshot by less than one a router; a lookup that met its limit or was cancelled ends |
| `writing` | up to 3 entries of 3 names, 2 deep, sizes 0 to 2, limits -1, 0, 1, 2, 3 and the largest but one | success is all of the content and within the limit; one tree, whose bytes are the bytes counted, at most one past the limit; too large only if it is |
| `process` | 2 threads, 2 clients, 2 lookups of 2 names, 2 servers of which one is dead, a cache of 1 answer, 3 configurations | no client leaks, a thread waits only for the making of a client, bounds survive the layers, the cache is bounded and its answers fresh, live answers stay, lookups fail only unserved or when another took their turn |
| `writing_limit` (violation) | as `writing`, the largest limit | `SuccessIsWhole` fails: section 5 |

Bounds and why they are enough. Every shared resource is contended by at least
two actors, with a third wherever a third can matter: a waiter behind a waiter
in the lifecycle and the lock table, a renamer outside the lock while two fight
for it. `Nodes`, `Timers` and `Gates` are identities in use at one time and are
used again, so they bound concurrency and not the length of a run. Two nodes let
one be closing while the next is built or used, and two timers let a callback be
late while the next timer is armed; what a third of either could do is left to
the proofs, which hold for any number. One channel is enough for one output,
since an entry has one. `Rounds` bounds the rounds whose dials are under way at
once: `redial` needs one that is spent. `MaxCrashes` is 1: a second kill finds
the disk in a state the first can leave. `StaleAfter`, `Lifetime` and
`IdleTimeout` of one or two ticks distinguish before, at and after. `MaxTime` of
`fallback` lets a caller without a deadline use up the primary phase and all
three attempts, and another start after that. `get` has one call, since calls
share nothing there but the output and the client's being closed; what several
do to one output is in `replace`. Faults, deadlines and cancellations are
not bounded. Three entries let an archive repeat a name, put a file where a directory
is wanted and bring a second root, each after one that was fine, and let a limit be
used up exactly before the next file. A cache of one answer is full at once, two
lookups fill it at the same time or hold answers to one name, and ages are counted
to `MaxAge`, beyond which none is different. Two FFI clients let one be torn down,
or serve a single download, while the wrapper makes the next. Durations run to
`Milli * MaxInt`, well past the `MaxInt` the lower layer can hold. Symmetry is used
where a run has no liveness property.

`CHECK_DEADLOCK FALSE` is set where the modelled episode is over after a while:
all downloads of Replace, GetCall and Fallback have returned, or were killed
with their process, a lookup of Discovery has closed, and a
download of Writing has ended.

Fairness. Goroutines that can run do; a mutex is held only across the short
steps modelled; due timers fire and time passes; `startNode` ends since its wait
is bounded by `startupTimeout`; `node.close` returns; a gateway attempt whose
context is done ends, since `net/http` honours it; a router whose context is done
closes its channel. Strong fairness is assumed where Go guarantees order: senders
blocked on a channel are served first come first served. Nothing is owed by a
caller (no `Get`, no `Close`, no deadline), by the primary phase of GetCall, which
may hang, or by the dials of Dialing while a start decides. Once a node is up its
dials settle, since connecting has timeouts of its own, downloads keep coming and
a peer dialled over and over is reached in the end. In Scratch downloads keep
coming, and the instants in which the clock stands still do not follow one upon
the other for ever.

## 5. Where comments and code part

One run finds a behaviour of the code against what a comment of the repository
says; `PROJECT.json` quotes the lines.

| run | the behaviour |
|---|---|
| `writing_limit` | With the largest limit there is, `sizeLimit+1` wraps around, the reader yields nothing, and an empty file is reported as the content. |

The models have more behaviours of this kind. Each has its property at the end of
its module, under "What comments ... say and the code does not keep"; added to
the configuration of the module it is refuted, with the changes of constants
given here. Some are smaller matters, or a question of how a comment is read.

| property | the behaviour |
|---|---|
| `Lifecycle!IdleCloseIsDue` (`IdleTimeout = 2`) | An idle callback fires and waits for the mutex; a download comes and goes; the callback closes the node at once, though it was idle for no time at all (`client.go:27`, `client.go:503`). |
| `GetCall!VerifiedIsKept` | Verified content is on the output, its result not yet on the channel, when the primary deadline passes: the fallback replaces it by unverified content (`client.go:324`, `client.go:334`). |
| `Dialing!FailsOnlyUnconnected` | The last dial answers between the read of the counters and the read of the channels: a connected node is closed as unreachable (`node.go:122`, `node.go:216`). |
| `GetCall!FailureIsFinal` | The deadline passes between `replace`'s look at the context and its rename: `Get` reports a failure and the output is replaced afterwards (`output_test.go:113`). |
| `GetCall!NothingPublishedOnceClosed` | `Close` does not reach a download that has its blocks: it publishes after `Close` has returned (`client.go:367`). |
| `Replace!OnlyDirectoriesAreCleared` | A directory onto a file removes the file first (`output.go:11`). |
| `Replace!UncancelledSucceeds` (`Faults = FALSE`, `MaxCrashes = 0`) | The rename outside the lock lands on the path a lock holder has just cleared, and the holder fails (`client_test.go:911`). |
| `Dialing!GatewayDialsDoNotStack` | `redial` looks at the peers' group only and dials a gateway again while it is being dialled (`node.go:82`). |
| `Discovery!MergeLosesNothing` | A provider counted towards the limit is dropped when the one that met the limit is delivered first: fewer providers than the limit, with some lost (`routing.go:95`). |
| `Fallback!HostIsLeftAlone` | A request goes out to a host that asked another download for a pause since this one looked (`fallback.go:124`). |
| `Fallback!PauseHonoursRetryAfter` | A Retry-After beyond 2^63 nanoseconds wraps around: the shortest pause, or any, where the cap was due (`fallback.go:27`). |
| `Scratch!OwnStagingIsKept` (two `Spellings`) | A download that spells the directory differently sweeps the old staging directory of its own process (`node.go:354`). |
| `Scratch!OwnStagingIsKept` (`Suspends = TRUE`) | A process frozen between `MkdirTemp` and `Store`, with another download's sweep past its lookup, loses the new directory on waking. |
| `Snapshot!NextNodeFindsSnapshot` | The next node starts while the last is still to write what it met, and starts without it (`client.go:45`). |

What the new parts of the model show besides, and a caller may want to know:

- A timeout of less than a millisecond becomes zero on its way down and so no
  timeout at all (`Ipfs.kt:168`, `ffi.go:186`); `BoundsAreKept` states what holds
  from a millisecond up.
- "Successive lookups start from successive servers" (`resolver.go:73`) holds of
  successive *queries*: with two servers, a lookup that has to dial twice leaves
  the next one to start from the dead server again, and two lookups at once can
  each take the other's turn and both fail (`FailsOnlyUnserved` says when). On a
  32-bit build the index turns negative after 2^31 queries (`resolver.go:77`),
  which the model leaves out.
- The scheme of a gateway URL is looked at only for want of a port
  (`gateway.go:65`): a URL of another scheme that names one passes as long as a
  multiaddress knows the scheme.

## 6. The proofs

The proofs hold for every set of calls, nodes, timers, callers, paths, channels,
downloads, directories, peers, clients, names and lookups, every list of gateways,
every timeout, limit and lifetime. What they assume is named with the constants:

- sets that are counted are finite: calls, callers, peers, and the threads of the
  wrapper, with at least as many names for FFI clients as there are threads, since a
  thread has one at most and a client that is gone leaves its name;
- nil values are none of the values they stand in for; a missing file is no set of
  lines;
- times, limits and budgets are natural, and positive where the code has a positive
  constant; a pause asked for is any integer; the range of a duration is even; a
  millisecond is more than one nanosecond;
- net.Resolver dials at least as often as there are servers;
- the routers and the providers of a lookup are finite; sizes and limits of content
  fit their integers.

*Lifecycle.* The properties do not carry themselves over a step: that a download
in use of a node survives `closeIdle` needs that it is counted, and that it
survives another starter's `RecordStart` needs that the starter is the one in
`client.starting` and that there is no node then. `IInv` therefore adds to the
properties `StartClaimed` (`starting` names exactly the call in its start phase,
and then there is no node), `ClosedHoldsNothing`, `HeldNodes` (a call that uses a
node has the client's; one that builds or discards a node is the only one to have
it) and `NodeRuns`. Counting is kept apart in lemmas: a step registers one
call, unregisters one, or leaves the set alone, and `inflight` follows. From
`IInvariance` follow `TypeCorrect`, `InflightCounts`, `NodeInUseIsSafe`,
`NodesAreOwned`, `OneStartAtATime` and `IdleNodeIsTimed`; `Refinement` maps every
step to one of SharedNode or a stutter.

*PathLocks* (in `Replace_proofs`). A channel excludes those who have the same
channel; the argument is that all who are registered for a path do. `LInv` says that
the channel a caller took is the one in the table (`GateInTable`), since the entry
lives as long as somebody is counted (`TableIsTight`), that no two paths share one
(`OwnGates`), and that a channel is full exactly while the caller that filled it
holds the path (`FullWhileHeld`). From it follow `LocksExclude`,
`TableDoesNotGrow`, `FreePathsAreOpen` and `LocksRefine`.

*Replace.* Success could be lost in two ways, by a second holder or by a holder who
clears the path and then has nothing to put there. `ReplaceInv` adds to `LInv` that
a download is where its lock is (`LockFollowsStep`), that what is at an output was
put there by the step that decided its download's outcome (`OutcomeIsEarned`), that
the holder knows what it will find, as the renames outside the lock can only make
content whole (`HolderKnowsTheWay`), and that once a download has succeeded its
output is whole or in the hand of one that is about to place its own
(`SuccessIsHandedOn`). Each is shown by itself, one action at a time. From
`ReplaceInvariance` follow `SuccessIsNotLost`, since a quiet path is in nobody's
hand, and `FilesAreNeverMissing`, since only a directory is removed before its
replacement is there.

*GetCall.* `UnverifiedIsLastResort` speaks of the output, which a call changes long
after it decided to fall back. `GetInv` carries the decision along: consent and a
failure that is not conclusive hold everywhere on the walk (`WalkIsLastResort`), what
is unverified comes from a call that has returned (`UnverifiedIsReturned`), an
attempt begun after `Close` is the last (`LateIsLast`), and the context of the
primary phase is over once `Get` has returned (`ReturnedIsCancelled`). It is shown
one conjunct at a time, one action at a time. From it follow `GetInvariance`,
`UnverifiedOnlyAtLast` and `ReturnedBeginsNothing`, the last because `replace`
refuses a context that is over.

*Dialing.* `startNode` decides by four reads, none of them in one step with
another. The proof of `FailedStartHasNothingLeft` rests on what stays true after it
is read: a group that is done has no dial in flight and gets none, and only a group
that is done is replaced (`GroupsAreSettled`); so what `startNode` read of the
groups still holds when it decides (`StartHasRead`). `DialingInvariance` has
`PeerDialsDoNotStack` with it, for any number of rounds whose goroutines live on.

*Discovery* (with Dialing in `Peers_proofs`). A goroutine sends outside the mutex
what it counted inside. That no provider is sent twice is carried by its hand: what
it is about to send was new when it was counted, so nobody has sent it and no other
hand holds it (`SendersHoldTheirOwn`). The overshoot is counted in goroutines: a
provider counted at or past the limit makes its goroutine one of the `Satisfied`,
who never read again, so the providers counted stay below the limit and the number
of those (`CountsComeFirst`), which is the number of routers at most. From both
follows `DiscoveryInvariance`.

*Scratch.* Three facts tell apart what a sweep may not take: every directory is in
one hand (`HandsAreOwn`), a directory grows older only with the clock, and one that a
sweep of its own process has judged without seeing its registration is not a tick
old (`MadeInNoTime`). `ScratchInvariance` and `YoungStagingIsSafe` hold of any
processes. `OwnStagingIsSafe`, that a process never sweeps what it is using, is
proved of processes that are not suspended between two statements for as long as a
directory takes to go stale, and that spell the scratch directory in one way.
Both hypotheses are needed: the registrations are keyed by path, and only time
stands between `MkdirTemp` and `staging.Store`. The run's instance satisfies both.

*Writing* (with Scratch in `Staging_proofs`). `WritingInv` says of a download that
goes on that what is staged is `Whole`, all that arrived and what lies above it
(`NothingIsLeftOut`), that it is one tree (`StagedIsATree`) whose bytes are those
counted (`BytesAreCounted`), and that the walk over a DAG is in directories that are
staged (`WalkIsInside`). An entry that is not refused finds directories or nothing
above it and no file where it goes (`AdmittedFits`): for an archive that is what
`extractTar` and the system calls look at, for a DAG it follows from the walk. A tree
to which such a path is added stays one (`TreeGrows`), and gains as many bytes as
were read (`FileAddsBytes`, by counting a union of disjoint finite sets), which
`PermittedIsRead` bounds by the limit at every width of an integer. No name climbs
out of the directory: `Clean` is a recursion over the elements of a name, and
`CleanNeverClimbs` proves of names of any length that it leaves no `..`. From
`WritingInvariance` follows `SuccessIsAlwaysWhole` for every limit but the largest,
for which the run `writing_limit` shows it to fail; the invariant says that nothing at
all is written then.

Induction. The library states it for an operator `P(_)`, for which the provers
cannot put an expression. The proof of `CleanNeverClimbs` uses sets instead: a set of
numbers that has zero and with each number the next is all of them (`NumbersByOne`).
That follows from the least element of its complement (`LeastNatural`), which
exists since strict inclusion of finite sets is well-founded. The first use shows
that the recursion has a solution, the second what it yields.

*Fallback.* Every step of a call is one of six moves on its own clocks
(`CallMoves`), and only an answer that asks for a pause touches a host besides. That
contexts are nested (`ContextsAreNested`, by `InTime`) is carried by what a turn may
cost at the latest, `TurnIsDueBy`, which adds up to the bound of `GetTakesNoLonger`.
`DelayIsCapped` is proved of every number in a Retry-After header and every range
of a duration, wherever the multiplication wraps around. For
`OnlyTheUnwarnedIntrude` the invariant remembers who was past the look at a host
when the host asked for its pause (`IntrudersWereUnderWay`). `NoGatewayIsPassedOver`
needs that only the walk's end and the caller's context end a walk.

*Snapshot.* What a node reads was written by another, perhaps by one that was killed
since. The invariant follows a record from the `close` that sets out to write it
(`RecordsAreWorthReading`) through the temporary file (`WritersHaveRecords`, all of it
before the rename) to the snapshot (`FileIsARecord`) and its reader: from it follow
`ReadersSeeWholeSnapshots`, `SnapshotInvariance` and `SnapshotsAreReplaced`.

*Process.* `NoClientLeaks` needs that the thread making a client is alone in the
monitor, with no client there and the wrapper open (`MakesAlone`), that a download
keeps its client from beginning to end (`UsingClients`), and that only a closed
wrapper tears down (`RunningIsClosed`): `WInv`. The resolver's half of a step leaves
all of that alone, and the wrapper's half the cache: from the two follow
`ClientsDoNotLeak` and `LiveAnswersAreKept`. `ProcessInvariance` adds the rest of
what the run checks. `EntryNeverWaits` says that a monitor that is held is held by a
thread that can go on and make its client, so a name must be free: a pigeonhole
over the threads and the client each has. `AnswersAreFresh` needs that an answer's age and what is left of its life never
exceed what the cache allows (`LivesMatchAges`). `FailsOnlyUnserved` needs that a
lookup nobody disturbed has put its question to the servers in turn, none of them
living so far (`AsksInTurn`, by `TurnsBefore` modulo the number of servers). A lookup
that asks belongs to a node that is up (`AskersAreUp`), which ties the halves
together. The conversions of durations (`BoundsAreKept`) are proved for every width
of an integer and every length of a millisecond.

Model-checked and not proved is what must eventually happen (`WaitersWake`,
`IdleNodeIsClosed`, `CloseFreesNodes`, `LockIsGranted`, `GetReturns`,
`StartDecides`, `WarmNodeRecovers`, `LimitEndsLookup`, `CancelEndsLookup`,
`LeftoversAreSwept`): liveness under fairness is out of the prover's reach. Every
other property a passing run checks is a theorem.

## 7. What is left out

Blocks, DAGs, HTTP, libp2p, the DHT and the file system's own failures are
outcomes. Content is whose it is and how it was fetched, not bytes. Error wording
is left out except for the distinctions the code itself makes. Of the Kotlin
wrapper and the FFI, the splitting of lists and the wrapping of errors are left out,
of gateway parsing and identity the values rendered or derived; the gater's
exemptions are a function without state and left to the tests of the repository.
The order in which `startNode` and `makeHost` assemble the libraries is calls into
them. `testpeer` and the build scripts are not part of the program. Process alone
has several clients in one model; what else they share is modelled on its own, with
callers that may belong to any.
