----------------------------- MODULE Lifecycle ------------------------------
(***************************************************************************)
(* The life of the node behind a Client (client/client.go): acquire,       *)
(* release, the idle timer with its callback closeIdle, and Close, with    *)
(* every critical section of client.mutex as one step and everything the   *)
(* code does outside the mutex - building a node, closing the channel its  *)
(* waiters sleep on, tearing a node down - as steps of their own, open to  *)
(* interleaving.                                                           *)
(*                                                                         *)
(* A call is the goroutine getPrimary starts: it acquires, downloads and   *)
(* releases. Time is discrete and counted in ticks; a timer is the object  *)
(* time.AfterFunc returns, and "fired" once its callback runs on a         *)
(* goroutine of its own, which Stop can no longer call back.               *)
(***************************************************************************)
EXTENDS Naturals, FiniteSets

CONSTANTS
    Calls,         \* concurrent downloads
    Nodes,         \* identities for the nodes alive at one time
    Timers,        \* identities for the timers pending at one time
    IdleTimeout,   \* Config.IdleTimeout in ticks, 0 when disabled
    NoNode, NoCall, NoTimer

ASSUME CallsAreFinite == IsFiniteSet(Calls)
ASSUME TimeoutIsNatural == IdleTimeout \in Nat
ASSUME NilValues ==
    /\ NoNode \notin Nodes
    /\ NoCall \notin Calls
    /\ NoTimer \notin Timers

VARIABLES
    \* the fields of Client the mutex guards
    node,        \* client.node
    starting,    \* whose channel client.starting is, NoCall when it is nil
    inflight,    \* client.inflight
    timer,       \* client.timer
    closed,      \* client.closed
    \* the goroutines
    pc,          \* where each call is
    held,        \* the node each call has in its hands
    waitsFor,    \* the starter whose channel a waiting call sleeps on
    \* the runtime
    nodeState,   \* each node: down, running, or closing
    timers,      \* each timer: free, armed, or fired
    left,        \* ticks until an armed timer fires
    \* auxiliary, read by properties only
    quiet        \* ticks since a download last used the client, up to IdleTimeout

clientVars == <<node, starting, inflight, timer, closed>>
callVars   == <<pc, held, waitsFor>>
timeVars   == <<timers, left, quiet>>
vars == <<clientVars, callVars, nodeState, timeVars>>

-----------------------------------------------------------------------------
\* Where a call can be.

\* From claiming client.starting until the outcome of startNode is recorded.
StartPhase == {"building", "unwinding", "built", "failed"}

\* Outcome recorded, pending not closed yet: the waiters still sleep.
SignalPhase == {"signalReady", "signalFailed", "signalClosed"}

\* After its inflight++ and before its release.
Counted ==
    StartPhase \cup SignalPhase
        \cup {"discard", "discarding", "using", "releasing"}

PC == Counted \cup {"idle", "acquire", "waiting", "woken"}

TypeOK ==
    /\ node \in Nodes \cup {NoNode}
    /\ starting \in Calls \cup {NoCall}
    /\ inflight \in Nat
    /\ timer \in Timers \cup {NoTimer}
    /\ closed \in BOOLEAN
    /\ pc \in [Calls -> PC]
    /\ held \in [Calls -> Nodes \cup {NoNode}]
    /\ waitsFor \in [Calls -> Calls \cup {NoCall}]
    /\ nodeState \in [Nodes -> {"down", "running", "closing"}]
    /\ timers \in [Timers -> {"free", "armed", "fired"}]
    /\ left \in [Timers -> 0..IdleTimeout]
    /\ quiet \in 0..IdleTimeout

Init ==
    /\ node = NoNode
    /\ starting = NoCall
    /\ inflight = 0
    /\ timer = NoTimer
    /\ closed = FALSE
    /\ pc = [c \in Calls |-> "idle"]
    /\ held = [c \in Calls |-> NoNode]
    /\ waitsFor = [c \in Calls |-> NoCall]
    /\ nodeState = [n \in Nodes |-> "down"]
    /\ timers = [t \in Timers |-> "free"]
    /\ left = [t \in Timers |-> 0]
    /\ quiet = 0

-----------------------------------------------------------------------------
\* Helpers.

\* The calls registered with the client.
CountedCalls == {c \in Calls : pc[c] \in Counted}

Goto(c, at) == pc' = [pc EXCEPT ![c] = at]

\* The timers once stopTimer has run: Stop takes back an armed timer and is
\* powerless against one whose callback already runs.
Stopped ==
    [t \in Timers |->
        IF t = timer /\ timers[t] = "armed" THEN "free" ELSE timers[t]]

stopTimer ==
    /\ timers' = Stopped
    /\ left' = [t \in Timers |-> IF Stopped[t] = "armed" THEN left[t] ELSE 0]
    /\ timer' = NoTimer

\* release on an idle client: stopTimer, then time.AfterFunc(client.idle, ...).
\* Timers bounds how many can be pending at once.
rearmTimer ==
    \E t \in Timers :
        /\ Stopped[t] = "free"
        /\ timers' = [Stopped EXCEPT ![t] = "armed"]
        /\ left' = [u \in Timers |-> IF u = t THEN IdleTimeout
                                ELSE IF Stopped[u] = "armed" THEN left[u] ELSE 0]
        /\ timer' = t

\* node.close() begins: from here on the node serves nobody.
TearDown(n) == nodeState' = [nodeState EXCEPT ![n] = "closing"]

\* An identity no running node has and no call still refers to.
Unused(n) == nodeState[n] = "down" /\ \A c \in Calls : held[c] # n

-----------------------------------------------------------------------------
\* acquire, one critical section per disjunct of its loop body.

\* getPrimary starts the goroutine under the context of the caller.
Get(c) ==
    /\ pc[c] = "idle"
    /\ Goto(c, "acquire")
    /\ UNCHANGED <<clientVars, held, waitsFor, nodeState, timeVars>>

\* ErrClosed: returned before anything is registered, so there is no release.
AcquireClosed(c) ==
    /\ pc[c] = "acquire"
    /\ closed
    /\ Goto(c, "idle")
    /\ UNCHANGED <<clientVars, held, waitsFor, nodeState, timeVars>>

\* The node is up: share it.
AcquireWarm(c) ==
    /\ pc[c] = "acquire"
    /\ ~closed
    /\ node # NoNode
    /\ stopTimer
    /\ held' = [held EXCEPT ![c] = node]
    /\ inflight' = inflight + 1
    /\ quiet' = 0
    /\ Goto(c, "using")
    /\ UNCHANGED <<node, starting, closed, waitsFor, nodeState>>

\* Another call is building the node: wait for it, unregistered.
AcquireWait(c) ==
    /\ pc[c] = "acquire"
    /\ ~closed
    /\ node = NoNode
    /\ starting # NoCall
    /\ stopTimer
    /\ waitsFor' = [waitsFor EXCEPT ![c] = starting]
    /\ Goto(c, "waiting")
    /\ UNCHANGED <<node, starting, inflight, closed, held, nodeState,
                   quiet>>

\* Wrong variant: the start is not claimed before the mutex is released.
AcquireStartUnclaimed(c) ==
    /\ pc[c] = "acquire"
    /\ ~closed
    /\ node = NoNode
    /\ starting = NoCall
    /\ stopTimer
    /\ inflight' = inflight + 1
    /\ quiet' = 0
    /\ Goto(c, "building")
    /\ UNCHANGED <<node, starting, closed, held, waitsFor, nodeState>>

\* Nobody is: claim the start and register before unlocking.
AcquireStart(c) ==
    /\ pc[c] = "acquire"
    /\ ~closed
    /\ node = NoNode
    /\ starting = NoCall
    /\ stopTimer
    /\ starting' = c
    /\ inflight' = inflight + 1
    /\ quiet' = 0
    /\ Goto(c, "building")
    /\ UNCHANGED <<node, closed, held, waitsFor, nodeState>>

\* pending was closed: round the loop again.
Retry(c) ==
    /\ pc[c] = "woken"
    /\ waitsFor' = [waitsFor EXCEPT ![c] = NoCall]
    /\ Goto(c, "acquire")
    /\ UNCHANGED <<clientVars, held, nodeState, timeVars>>

\* The context is done, which may happen at any moment: a deadline passes or the
\* caller cancels. With the channel closed as well select may take either.
GiveUp(c) ==
    /\ pc[c] \in {"waiting", "woken"}
    /\ waitsFor' = [waitsFor EXCEPT ![c] = NoCall]
    /\ Goto(c, "idle")
    /\ UNCHANGED <<clientVars, held, nodeState, timeVars>>

-----------------------------------------------------------------------------
\* startNode, outside the mutex. How its dials decide the outcome is the
\* business of Dialing.tla; here it may end either way.

\* makeHost succeeds: from here on there is a host to tear down.
MakeHost(c, n) ==
    /\ pc[c] = "building"
    /\ held[c] = NoNode
    /\ Unused(n)
    /\ held' = [held EXCEPT ![c] = n]
    /\ nodeState' = [nodeState EXCEPT ![n] = "running"]
    /\ UNCHANGED <<clientVars, pc, waitsFor, timeVars>>

MakeHostFails(c) ==
    /\ pc[c] = "building"
    /\ held[c] = NoNode
    /\ Goto(c, "failed")
    /\ UNCHANGED <<clientVars, held, waitsFor, nodeState, timeVars>>

StartSucceeds(c) ==
    /\ pc[c] = "building"
    /\ held[c] # NoNode
    /\ Goto(c, "built")
    /\ UNCHANGED <<clientVars, held, waitsFor, nodeState, timeVars>>

\* The DHT fails, or nothing can be reached: startNode unwinds what it built.
StartFails(c) ==
    /\ pc[c] = "building"
    /\ held[c] # NoNode
    /\ TearDown(held[c])
    /\ Goto(c, "unwinding")
    /\ UNCHANGED <<clientVars, held, waitsFor, timeVars>>

StartUnwound(c) ==
    /\ pc[c] = "unwinding"
    /\ nodeState[held[c]] = "down"
    /\ held' = [held EXCEPT ![c] = NoNode]
    /\ Goto(c, "failed")
    /\ UNCHANGED <<clientVars, waitsFor, nodeState, timeVars>>

\* Back under the mutex: the outcome is recorded, unless Close came first.
RecordStart(c) ==
    /\ pc[c] \in {"built", "failed"}
    /\ starting' = NoCall
    /\ IF pc[c] = "built" /\ ~closed
         THEN node' = held[c]
         ELSE UNCHANGED node
    /\ Goto(c, CASE pc[c] = "failed" -> "signalFailed"
                 [] pc[c] = "built" /\ closed -> "signalClosed"
                 [] OTHER -> "signalReady")
    /\ UNCHANGED <<inflight, timer, closed, held, waitsFor, nodeState,
                   timeVars>>

\* Wrong variant: pending is never closed.
SignalNobody(c) ==
    /\ pc[c] \in SignalPhase
    /\ Goto(c, CASE pc[c] = "signalReady"  -> "using"
                 [] pc[c] = "signalFailed" -> "releasing"
                 [] pc[c] = "signalClosed" -> "discard")
    /\ UNCHANGED <<clientVars, held, waitsFor, nodeState, timeVars>>

\* Wrong variant: a node built for a closed client is dropped, not closed.
SignalDropped(c) ==
    /\ pc[c] \in SignalPhase
    /\ pc' = [d \in Calls |->
                IF d = c
                  THEN IF pc[c] = "signalReady" THEN "using" ELSE "releasing"
                  ELSE IF pc[d] = "waiting" /\ waitsFor[d] = c
                         THEN "woken" ELSE pc[d]]
    /\ UNCHANGED <<clientVars, held, waitsFor, nodeState, timeVars>>

\* close(pending), wherever that leaves the starter itself.
Signal(c) ==
    /\ pc[c] \in SignalPhase
    /\ pc' = [d \in Calls |->
                IF d = c
                  THEN CASE pc[c] = "signalReady"  -> "using"
                         [] pc[c] = "signalFailed" -> "releasing"
                         [] pc[c] = "signalClosed" -> "discard"
                  ELSE IF pc[d] = "waiting" /\ waitsFor[d] = c
                         THEN "woken" ELSE pc[d]]
    /\ UNCHANGED <<clientVars, held, waitsFor, nodeState, timeVars>>

\* Built for a client closed meanwhile: the node is closed before the release.
Discard(c) ==
    /\ pc[c] = "discard"
    /\ TearDown(held[c])
    /\ Goto(c, "discarding")
    /\ UNCHANGED <<clientVars, held, waitsFor, timeVars>>

Discarded(c) ==
    /\ pc[c] = "discarding"
    /\ nodeState[held[c]] = "down"
    /\ held' = [held EXCEPT ![c] = NoNode]
    /\ Goto(c, "releasing")
    /\ UNCHANGED <<clientVars, waitsFor, nodeState, timeVars>>

-----------------------------------------------------------------------------
\* node.download returns, however it went; release follows.
Downloaded(c) ==
    /\ pc[c] = "using"
    /\ held' = [held EXCEPT ![c] = NoNode]
    /\ Goto(c, "releasing")
    /\ UNCHANGED <<clientVars, waitsFor, nodeState, timeVars>>

\* Wrong variant: the count is tested before it is decremented.
releaseEarlyTest(c) ==
    /\ pc[c] = "releasing"
    /\ Goto(c, "idle")
    /\ inflight' = inflight - 1
    /\ quiet' = 0
    /\ IF inflight > 0 \/ closed \/ IdleTimeout = 0
         THEN UNCHANGED <<timer, timers, left>>
         ELSE rearmTimer
    /\ UNCHANGED <<node, starting, closed, held, waitsFor, nodeState>>

release(c) ==
    /\ pc[c] = "releasing"
    /\ Goto(c, "idle")
    /\ inflight' = inflight - 1
    /\ quiet' = 0
    /\ IF inflight' > 0 \/ closed \/ IdleTimeout = 0
         THEN UNCHANGED <<timer, timers, left>>
         ELSE rearmTimer
    /\ UNCHANGED <<node, starting, closed, held, waitsFor, nodeState>>

\* Wrong variant: downloads in flight are not looked at.
closeIdleBusy(t) ==
    /\ timers[t] = "fired"
    /\ timers' = [timers EXCEPT ![t] = "free"]
    /\ IF closed \/ node = NoNode
         THEN UNCHANGED <<node, timer, nodeState>>
         ELSE /\ TearDown(node)
              /\ node' = NoNode
              /\ timer' = NoTimer
    /\ UNCHANGED <<starting, inflight, closed, callVars, left, quiet>>

\* The callback of timer t reaches the mutex.
closeIdle(t) ==
    /\ timers[t] = "fired"
    /\ timers' = [timers EXCEPT ![t] = "free"]
    /\ IF closed \/ inflight > 0 \/ node = NoNode
         THEN UNCHANGED <<node, timer, nodeState>>
         ELSE /\ TearDown(node)
              /\ node' = NoNode
              /\ timer' = NoTimer
    /\ UNCHANGED <<starting, inflight, closed, callVars, left, quiet>>

\* Wrong variant: the node is closed but not taken out of the client.
CloseKeepsNode ==
    /\ ~closed
    /\ closed' = TRUE
    /\ stopTimer
    /\ IF node # NoNode THEN TearDown(node) ELSE UNCHANGED nodeState
    /\ UNCHANGED <<node, starting, inflight, callVars, quiet>>

\* Close. A second one returns at once and changes nothing.
Close ==
    /\ ~closed
    /\ closed' = TRUE
    /\ stopTimer
    /\ node' = NoNode
    /\ IF node # NoNode THEN TearDown(node) ELSE UNCHANGED nodeState
    /\ UNCHANGED <<starting, inflight, callVars, quiet>>

\* node.close() returns.
NodeClosed(n) ==
    /\ nodeState[n] = "closing"
    /\ nodeState' = [nodeState EXCEPT ![n] = "down"]
    /\ UNCHANGED <<clientVars, callVars, timeVars>>

-----------------------------------------------------------------------------
\* The runtime.

Fire(t) ==
    /\ timers[t] = "armed"
    /\ left[t] = 0
    /\ timers' = [timers EXCEPT ![t] = "fired"]
    /\ UNCHANGED <<clientVars, callVars, nodeState, left, quiet>>

\* One tick of the clock. A timer that is due may still fire late.
Tick ==
    /\ \/ \E t \in Timers : timers[t] = "armed" /\ left[t] > 0
       \/ inflight = 0 /\ quiet < IdleTimeout
    /\ left' = [t \in Timers |->
                  IF timers[t] = "armed" /\ left[t] > 0
                    THEN left[t] - 1 ELSE left[t]]
    /\ quiet' = IF inflight = 0 /\ quiet < IdleTimeout THEN quiet + 1 ELSE quiet
    /\ UNCHANGED <<clientVars, callVars, nodeState, timers>>

acquire(c) ==
    AcquireClosed(c) \/ AcquireWarm(c) \/ AcquireWait(c) \/ AcquireStart(c)

startNode(c) ==
    \/ \E n \in Nodes : MakeHost(c, n)
    \/ MakeHostFails(c)
    \/ StartSucceeds(c)
    \/ StartFails(c)
    \/ StartUnwound(c)

finishStart(c) == RecordStart(c) \/ Signal(c) \/ Discard(c) \/ Discarded(c)

Next ==
    \/ \E c \in Calls :
        \/ Get(c)
        \/ acquire(c)
        \/ Retry(c)
        \/ GiveUp(c)
        \/ startNode(c)
        \/ finishStart(c)
        \/ Downloaded(c)
        \/ release(c)
    \/ \E t \in Timers : closeIdle(t) \/ Fire(t)
    \/ \E n \in Nodes : NodeClosed(n)
    \/ Close
    \/ Tick

Spec == Init /\ [][Next]_vars

\* What the runtime owes: a goroutine that can run does (the mutex is held only
\* across these short steps), a due timer fires, time passes, startNode returns
\* (its wait is bounded by startupTimeout) and so does node.close(). Nobody owes
\* a Get, a Close, an expiring context or the end of a download.
Fairness ==
    /\ \A c \in Calls :
        /\ WF_vars(acquire(c))
        /\ WF_vars(Retry(c))
        /\ WF_vars(startNode(c))
        /\ WF_vars(finishStart(c))
        /\ WF_vars(release(c))
    /\ \A t \in Timers : WF_vars(closeIdle(t)) /\ WF_vars(Fire(t))
    /\ \A n \in Nodes : WF_vars(NodeClosed(n))
    /\ WF_vars(Tick)

FairSpec == Spec /\ Fairness

-----------------------------------------------------------------------------
\* Properties.

Using(c) == pc[c] = "using"

\* Every registration is matched by exactly one release: client.inflight counts
\* the calls between their increment and their release, on the warm path, the
\* start path and each way a start can fail.
InflightExact == inflight = Cardinality(CountedCalls)

\* A download never works on a node that is being torn down, unless the client
\* was closed under it: neither a late idle callback nor another starter takes
\* the node away (acquire: "so the idle timer cannot close it mid-flight").
NodeInUseRuns ==
    \A c \in Calls : Using(c) /\ ~closed => nodeState[held[c]] = "running"

\* No running node is lost: it is the one of the client, which then is not
\* closed, or in the hands of the one call that is building or discarding it.
NodeOwned ==
    \A n \in Nodes : nodeState[n] = "running" =>
        \/ n = node /\ ~closed
        \/ \E c \in Calls : /\ held[c] = n
                            /\ pc[c] \in {"building", "built", "signalClosed", "discard"}

\* One caller starts the node and the rest wait: at most one start runs, it runs
\* only while the client has no node to overwrite, and it is the one registered
\* in client.starting.
OneStart ==
    \A c \in Calls : pc[c] \in StartPhase => starting = c /\ node = NoNode

\* A node left idle has a timer that will come for it, however arming, stopping
\* and firing interleave with the downloads.
IdleNodeHasTimer ==
    IdleTimeout > 0 /\ node # NoNode /\ inflight = 0 =>
        /\ timer \in Timers
        /\ timers[timer] \in {"armed", "fired"}

\* A waiter is never stranded: whatever becomes of the start it waits for, the
\* channel is closed (acquire: "A waiter left without a node starts one itself").
WaitersWake ==
    \A c \in Calls : (pc[c] = "waiting") ~> (pc[c] # "waiting")

\* Once idle, the node is closed or used again; it does not stay up for good.
IdleNodeIsClosed ==
    IdleTimeout > 0 =>
        ((node # NoNode /\ inflight = 0) ~> (node = NoNode \/ inflight > 0))

\* After Close every node ends up torn down for good, one still being built
\* included.
CloseFreesNodes ==
    closed ~> [](\A n \in Nodes : nodeState[n] # "running")

\* Config.IdleTimeout: "closes the node once it has gone this long without a
\* download", so a node taken away for being idle has been unused that long.
IdleCloseIsDue ==
    [][node # NoNode /\ node' = NoNode /\ ~closed' => quiet >= IdleTimeout]_vars

\* The client implements the abstract shared node: its users are the registered
\* calls, its node is client.node.
Shared == INSTANCE SharedNode WITH
    shared <- node,
    users <- CountedCalls,
    retired <- closed

\* Every step of acquire, release, closeIdle and Close is a step of SharedNode:
\* a node appears only for a registered call and goes only when idle or retired.
ImplementsSharedNode == Shared!Spec
=============================================================================
