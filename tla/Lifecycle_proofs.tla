-------------------------- MODULE Lifecycle_proofs --------------------------
(***************************************************************************)
(* Proofs about Lifecycle, for any number of calls, nodes and timers and   *)
(* any idle timeout. The inductive invariant adds to the properties of     *)
(* Lifecycle what the code keeps true between them: who claims the start,  *)
(* that a closed client holds no node, and that a node nobody else can     *)
(* reach yet - or any more - is in the hands of exactly one call.          *)
(***************************************************************************)
EXTENDS Lifecycle, FiniteSetTheorems, TLAPS

\* client.starting is set exactly while its owner builds, and only while the
\* client has no node.
StartClaimed ==
    /\ \A c \in Calls : pc[c] \in StartPhase <=> starting = c
    /\ starting # NoCall => node = NoNode

ClosedHoldsNothing == closed => node = NoNode

\* Calls whose node only they can reach.
Private(c) == pc[c] \in {"building", "built", "signalClosed", "discard"}

\* Calls that have a node in their hands; one still "building" may have one too.
Holds(c) ==
    pc[c] \in {"unwinding", "built", "signalReady", "signalClosed", "discard",
               "discarding", "using"}

\* What each call has in its hands.
HeldNodes ==
    \A c \in Calls :
        /\ Holds(c) => held[c] # NoNode
        /\ held[c] # NoNode => Holds(c) \/ pc[c] = "building"
        /\ pc[c] \in {"using", "signalReady"} => held[c] = node \/ closed
        /\ Private(c) /\ held[c] # NoNode =>
              /\ nodeState[held[c]] = "running"
              /\ held[c] # node
              /\ \A d \in Calls : held[d] = held[c] => d = c

NodeRuns == node # NoNode => nodeState[node] = "running"

\* The part of the invariant that does not count.
Placed ==
    /\ StartClaimed
    /\ ClosedHoldsNothing
    /\ HeldNodes
    /\ NodeRuns
    /\ NodeOwned
    /\ IdleNodeHasTimer

IInv == TypeOK /\ InflightExact /\ Placed

-----------------------------------------------------------------------------
\* Counting the registered calls.

\* Only finitely many downloads are registered.
LEMMA CountedIsFinite == IsFiniteSet(CountedCalls)
BY CallsAreFinite, FS_Subset DEF CountedCalls

\* A registered call keeps client.inflight above zero.
LEMMA RegisteredKeepsBusy ==
    ASSUME InflightExact, NEW c \in Calls, pc[c] \in Counted
    PROVE  inflight \in Nat \ {0}
<1>1. c \in CountedCalls
    BY DEF CountedCalls
<1>2. Cardinality(CountedCalls) \in Nat /\ Cardinality(CountedCalls) # 0
    BY <1>1, CountedIsFinite, FS_CardinalityType, FS_EmptySet
<1>. QED  BY <1>2 DEF InflightExact

\* With client.inflight at zero nobody is registered.
LEMMA IdleMeansNobody ==
    ASSUME InflightExact, inflight = 0
    PROVE  CountedCalls = {}
BY CountedIsFinite, FS_EmptySet DEF InflightExact

\* The registered downloads and the counter both stay.
LEMMA CountStays ==
    ASSUME InflightExact, CountedCalls' = CountedCalls, inflight' = inflight
    PROVE  InflightExact'
BY DEF InflightExact

\* One more is registered and counted.
LEMMA CountUp ==
    ASSUME InflightExact, NEW c, c \notin CountedCalls,
           CountedCalls' = CountedCalls \cup {c}, inflight' = inflight + 1
    PROVE  InflightExact'
BY CountedIsFinite, FS_AddElement DEF InflightExact

\* One less is registered and counted.
LEMMA CountDown ==
    ASSUME InflightExact, NEW c, c \in CountedCalls,
           CountedCalls' = CountedCalls \ {c}, inflight' = inflight - 1
    PROVE  InflightExact'
BY CountedIsFinite, FS_RemoveElement, FS_CardinalityType DEF InflightExact

-----------------------------------------------------------------------------
\* The initial state satisfies the invariant: nobody is registered, nothing runs.
LEMMA InitEstablishesIInv == Init => IInv
<1>. SUFFICES ASSUME Init PROVE IInv
    OBVIOUS
<1>. USE NilValues, TimeoutIsNatural DEF Init
<1>1. 0 \in 0..IdleTimeout /\ "idle" \in PC
    BY DEF PC
<1>2. TypeOK
    BY <1>1 DEF TypeOK
<1>3. InflightExact
    BY FS_EmptySet DEF InflightExact, CountedCalls, Counted, StartPhase, SignalPhase
<1>4. Placed
    BY DEF Placed, StartClaimed, ClosedHoldsNothing, HeldNodes, NodeRuns, NodeOwned,
           IdleNodeHasTimer, StartPhase, Holds, Private
<1>. QED  BY <1>2, <1>3, <1>4 DEF IInv

\* Every step keeps the invariant.
LEMMA NextPreservesIInv == IInv /\ [Next]_vars => IInv'
<1>. SUFFICES ASSUME IInv, [Next]_vars PROVE IInv'
    OBVIOUS
<1>. USE NilValues, TimeoutIsNatural
      DEF IInv, Placed, PC, Counted, StartPhase, SignalPhase, Holds, Private,
          clientVars, callVars, timeVars
<1>1. ASSUME NEW c \in Calls, Get(c) PROVE IInv'
  <2>1. TypeOK'
    BY <1>1 DEF TypeOK, Get, Goto
  <2>2. CountedCalls' = CountedCalls
    BY <1>1 DEF TypeOK, CountedCalls, Get, Goto
  <2>3. InflightExact'
    BY <1>1, <2>2, CountStays DEF Get
  <2>4. Placed'
    BY <1>1 DEF TypeOK, StartClaimed, ClosedHoldsNothing, HeldNodes, NodeRuns,
       NodeOwned, IdleNodeHasTimer, Get, Goto
  <2>. QED  BY <2>1, <2>3, <2>4
<1>2. ASSUME NEW c \in Calls, AcquireClosed(c) PROVE IInv'
  <2>1. TypeOK'
    BY <1>2 DEF TypeOK, AcquireClosed, Goto
  <2>2. CountedCalls' = CountedCalls
    BY <1>2 DEF TypeOK, CountedCalls, AcquireClosed, Goto
  <2>3. InflightExact'
    BY <1>2, <2>2, CountStays DEF AcquireClosed
  <2>4. Placed'
    BY <1>2 DEF TypeOK, StartClaimed, ClosedHoldsNothing, HeldNodes, NodeRuns,
       NodeOwned, IdleNodeHasTimer, AcquireClosed, Goto
  <2>. QED  BY <2>1, <2>3, <2>4
<1>3. ASSUME NEW c \in Calls, AcquireWarm(c) PROVE IInv'
  <2>1. TypeOK'
    BY <1>3 DEF TypeOK, AcquireWarm, Goto, stopTimer, Stopped
  <2>2. CountedCalls' = CountedCalls \cup {c} /\ c \notin CountedCalls
    BY <1>3 DEF TypeOK, CountedCalls, AcquireWarm, Goto, stopTimer, Stopped
  <2>3. InflightExact'
    BY <1>3, <2>2, CountUp DEF AcquireWarm
  <2>4. Placed'
    BY <1>3 DEF TypeOK, StartClaimed, ClosedHoldsNothing, HeldNodes, NodeRuns,
       NodeOwned, IdleNodeHasTimer, AcquireWarm, Goto, stopTimer, Stopped
  <2>. QED  BY <2>1, <2>3, <2>4
<1>4. ASSUME NEW c \in Calls, AcquireWait(c) PROVE IInv'
  <2>1. TypeOK'
    BY <1>4 DEF TypeOK, AcquireWait, Goto, stopTimer, Stopped
  <2>2. CountedCalls' = CountedCalls
    BY <1>4 DEF TypeOK, CountedCalls, AcquireWait, Goto, stopTimer, Stopped
  <2>3. InflightExact'
    BY <1>4, <2>2, CountStays DEF AcquireWait
  <2>4. Placed'
    BY <1>4 DEF TypeOK, StartClaimed, ClosedHoldsNothing, HeldNodes, NodeRuns,
       NodeOwned, IdleNodeHasTimer, AcquireWait, Goto, stopTimer, Stopped
  <2>. QED  BY <2>1, <2>3, <2>4
<1>5. ASSUME NEW c \in Calls, AcquireStart(c) PROVE IInv'
  <2>1. TypeOK'
    BY <1>5 DEF TypeOK, AcquireStart, Goto, stopTimer, Stopped
  <2>2. CountedCalls' = CountedCalls \cup {c} /\ c \notin CountedCalls
    BY <1>5 DEF TypeOK, CountedCalls, AcquireStart, Goto, stopTimer, Stopped
  <2>3. InflightExact'
    BY <1>5, <2>2, CountUp DEF AcquireStart
  <2>4. Placed'
    BY <1>5 DEF TypeOK, StartClaimed, ClosedHoldsNothing, HeldNodes, NodeRuns,
       NodeOwned, IdleNodeHasTimer, AcquireStart, Goto, stopTimer, Stopped
  <2>. QED  BY <2>1, <2>3, <2>4
<1>6. ASSUME NEW c \in Calls, Retry(c) PROVE IInv'
  <2>1. TypeOK'
    BY <1>6 DEF TypeOK, Retry, Goto
  <2>2. CountedCalls' = CountedCalls
    BY <1>6 DEF TypeOK, CountedCalls, Retry, Goto
  <2>3. InflightExact'
    BY <1>6, <2>2, CountStays DEF Retry
  <2>4. Placed'
    BY <1>6 DEF TypeOK, StartClaimed, ClosedHoldsNothing, HeldNodes, NodeRuns,
       NodeOwned, IdleNodeHasTimer, Retry, Goto
  <2>. QED  BY <2>1, <2>3, <2>4
<1>7. ASSUME NEW c \in Calls, GiveUp(c) PROVE IInv'
  <2>1. TypeOK'
    BY <1>7 DEF TypeOK, GiveUp, Goto
  <2>2. CountedCalls' = CountedCalls
    BY <1>7 DEF TypeOK, CountedCalls, GiveUp, Goto
  <2>3. InflightExact'
    BY <1>7, <2>2, CountStays DEF GiveUp
  <2>4. Placed'
    BY <1>7 DEF TypeOK, StartClaimed, ClosedHoldsNothing, HeldNodes, NodeRuns,
       NodeOwned, IdleNodeHasTimer, GiveUp, Goto
  <2>. QED  BY <2>1, <2>3, <2>4
<1>8. ASSUME NEW c \in Calls, NEW n \in Nodes, MakeHost(c, n) PROVE IInv'
  <2>1. TypeOK'
    BY <1>8 DEF TypeOK, MakeHost, Unused
  <2>2. CountedCalls' = CountedCalls
    BY <1>8 DEF TypeOK, CountedCalls, MakeHost, Unused
  <2>3. InflightExact'
    BY <1>8, <2>2, CountStays DEF MakeHost
  <2>4. Placed'
    BY <1>8 DEF TypeOK, StartClaimed, ClosedHoldsNothing, HeldNodes, NodeRuns,
       NodeOwned, IdleNodeHasTimer, MakeHost, Unused
  <2>. QED  BY <2>1, <2>3, <2>4
<1>9. ASSUME NEW c \in Calls, MakeHostFails(c) PROVE IInv'
  <2>1. TypeOK'
    BY <1>9 DEF TypeOK, MakeHostFails, Goto
  <2>2. CountedCalls' = CountedCalls
    BY <1>9 DEF TypeOK, CountedCalls, MakeHostFails, Goto
  <2>3. InflightExact'
    BY <1>9, <2>2, CountStays DEF MakeHostFails
  <2>4. Placed'
    BY <1>9 DEF TypeOK, StartClaimed, ClosedHoldsNothing, HeldNodes, NodeRuns,
       NodeOwned, IdleNodeHasTimer, MakeHostFails, Goto
  <2>. QED  BY <2>1, <2>3, <2>4
<1>10. ASSUME NEW c \in Calls, StartSucceeds(c) PROVE IInv'
  <2>1. TypeOK'
    BY <1>10 DEF TypeOK, StartSucceeds, Goto
  <2>2. CountedCalls' = CountedCalls
    BY <1>10 DEF TypeOK, CountedCalls, StartSucceeds, Goto
  <2>3. InflightExact'
    BY <1>10, <2>2, CountStays DEF StartSucceeds
  <2>4. Placed'
    BY <1>10 DEF TypeOK, StartClaimed, ClosedHoldsNothing, HeldNodes, NodeRuns,
       NodeOwned, IdleNodeHasTimer, StartSucceeds, Goto
  <2>. QED  BY <2>1, <2>3, <2>4
<1>11. ASSUME NEW c \in Calls, StartFails(c) PROVE IInv'
  <2>1. TypeOK'
    BY <1>11 DEF TypeOK, StartFails, Goto, TearDown
  <2>2. CountedCalls' = CountedCalls
    BY <1>11 DEF TypeOK, CountedCalls, StartFails, Goto, TearDown
  <2>3. InflightExact'
    BY <1>11, <2>2, CountStays DEF StartFails
  <2>4. Placed'
    BY <1>11 DEF TypeOK, StartClaimed, ClosedHoldsNothing, HeldNodes, NodeRuns,
       NodeOwned, IdleNodeHasTimer, StartFails, Goto, TearDown
  <2>. QED  BY <2>1, <2>3, <2>4
<1>12. ASSUME NEW c \in Calls, StartUnwound(c) PROVE IInv'
  <2>1. TypeOK'
    BY <1>12 DEF TypeOK, StartUnwound, Goto
  <2>2. CountedCalls' = CountedCalls
    BY <1>12 DEF TypeOK, CountedCalls, StartUnwound, Goto
  <2>3. InflightExact'
    BY <1>12, <2>2, CountStays DEF StartUnwound
  <2>4. Placed'
    BY <1>12 DEF TypeOK, StartClaimed, ClosedHoldsNothing, HeldNodes, NodeRuns,
       NodeOwned, IdleNodeHasTimer, StartUnwound, Goto
  <2>. QED  BY <2>1, <2>3, <2>4
<1>13. ASSUME NEW c \in Calls, RecordStart(c) PROVE IInv'
  <2>1. inflight \in Nat \ {0}
    BY <1>13, RegisteredKeepsBusy DEF RecordStart
  <2>2. TypeOK'
    BY <2>1, <1>13 DEF TypeOK, RecordStart, Goto
  <2>3. CountedCalls' = CountedCalls
    BY <1>13 DEF TypeOK, CountedCalls, RecordStart, Goto
  <2>4. InflightExact'
    BY <1>13, <2>3, CountStays DEF RecordStart
  <2>5. Placed'
    BY <2>1, <1>13 DEF TypeOK, StartClaimed, ClosedHoldsNothing, HeldNodes,
       NodeRuns, NodeOwned, IdleNodeHasTimer, RecordStart, Goto
  <2>. QED  BY <2>2, <2>4, <2>5
<1>14. ASSUME NEW c \in Calls, Signal(c) PROVE IInv'
  <2>1. TypeOK'
    BY <1>14 DEF TypeOK, Signal
  <2>2. CountedCalls' = CountedCalls
    BY <1>14 DEF TypeOK, CountedCalls, Signal
  <2>3. InflightExact'
    BY <1>14, <2>2, CountStays DEF Signal
  <2>4. Placed'
    BY <1>14 DEF TypeOK, StartClaimed, ClosedHoldsNothing, HeldNodes, NodeRuns,
       NodeOwned, IdleNodeHasTimer, Signal
  <2>. QED  BY <2>1, <2>3, <2>4
<1>15. ASSUME NEW c \in Calls, Discard(c) PROVE IInv'
  <2>1. TypeOK'
    BY <1>15 DEF TypeOK, Discard, Goto, TearDown
  <2>2. CountedCalls' = CountedCalls
    BY <1>15 DEF TypeOK, CountedCalls, Discard, Goto, TearDown
  <2>3. InflightExact'
    BY <1>15, <2>2, CountStays DEF Discard
  <2>4. Placed'
    BY <1>15 DEF TypeOK, StartClaimed, ClosedHoldsNothing, HeldNodes, NodeRuns,
       NodeOwned, IdleNodeHasTimer, Discard, Goto, TearDown
  <2>. QED  BY <2>1, <2>3, <2>4
<1>16. ASSUME NEW c \in Calls, Discarded(c) PROVE IInv'
  <2>1. TypeOK'
    BY <1>16 DEF TypeOK, Discarded, Goto
  <2>2. CountedCalls' = CountedCalls
    BY <1>16 DEF TypeOK, CountedCalls, Discarded, Goto
  <2>3. InflightExact'
    BY <1>16, <2>2, CountStays DEF Discarded
  <2>4. Placed'
    BY <1>16 DEF TypeOK, StartClaimed, ClosedHoldsNothing, HeldNodes, NodeRuns,
       NodeOwned, IdleNodeHasTimer, Discarded, Goto
  <2>. QED  BY <2>1, <2>3, <2>4
<1>17. ASSUME NEW c \in Calls, Downloaded(c) PROVE IInv'
  <2>1. TypeOK'
    BY <1>17 DEF TypeOK, Downloaded, Goto
  <2>2. CountedCalls' = CountedCalls
    BY <1>17 DEF TypeOK, CountedCalls, Downloaded, Goto
  <2>3. InflightExact'
    BY <1>17, <2>2, CountStays DEF Downloaded
  <2>4. Placed'
    BY <1>17 DEF TypeOK, StartClaimed, ClosedHoldsNothing, HeldNodes, NodeRuns,
       NodeOwned, IdleNodeHasTimer, Downloaded, Goto
  <2>. QED  BY <2>1, <2>3, <2>4
<1>18. ASSUME NEW c \in Calls, release(c) PROVE IInv'
  <2>1. inflight \in Nat \ {0}
    BY <1>18, RegisteredKeepsBusy DEF release
  <2>2. inflight' \in Nat
    BY <2>1, <1>18 DEF release
  <2>3. \A t \in Timers : Stopped[t] \in {"free", "armed", "fired"}
    BY DEF TypeOK, Stopped
  <2>4. /\ timer' \in Timers \cup {NoTimer}
        /\ timers' \in [Timers -> {"free", "armed", "fired"}]
        /\ left' \in [Timers -> 0..IdleTimeout]
    <3>1. CASE rearmTimer
    BY <2>3, <3>1 DEF TypeOK, rearmTimer, Stopped
    <3>2. CASE UNCHANGED <<timer, timers, left>>
    BY <3>2 DEF TypeOK
    <3>. QED    BY <1>18, <3>1, <3>2 DEF release
  <2>5. TypeOK'
    BY <2>2, <2>4, <1>18 DEF TypeOK, release, Goto
  <2>6. CountedCalls' = CountedCalls \ {c} /\ c \in CountedCalls
    BY <1>18 DEF TypeOK, CountedCalls, release, Goto
  <2>7. InflightExact'
    BY <1>18, <2>6, CountDown DEF release
  <2>8. Placed'
    BY <2>1, <1>18 DEF TypeOK, StartClaimed, ClosedHoldsNothing, HeldNodes,
       NodeRuns, NodeOwned, IdleNodeHasTimer, release, Goto, rearmTimer,
       Stopped
  <2>. QED  BY <2>5, <2>7, <2>8
<1>19. ASSUME NEW t \in Timers, closeIdle(t) PROVE IInv'
  <2>1. inflight = 0 => \A c \in Calls : pc[c] \notin Counted
    BY IdleMeansNobody DEF CountedCalls
  <2>2. TypeOK'
    BY <2>1, <1>19 DEF TypeOK, closeIdle, TearDown
  <2>3. CountedCalls' = CountedCalls
    BY <1>19 DEF TypeOK, CountedCalls, closeIdle, TearDown
  <2>4. InflightExact'
    BY <1>19, <2>3, CountStays DEF closeIdle
  <2>5. Placed'
    BY <2>1, <1>19 DEF TypeOK, StartClaimed, ClosedHoldsNothing, HeldNodes,
       NodeRuns, NodeOwned, IdleNodeHasTimer, closeIdle, TearDown
  <2>. QED  BY <2>2, <2>4, <2>5
<1>20. ASSUME NEW t \in Timers, Fire(t) PROVE IInv'
  <2>1. TypeOK'
    BY <1>20 DEF TypeOK, Fire
  <2>2. CountedCalls' = CountedCalls
    BY <1>20 DEF TypeOK, CountedCalls, Fire
  <2>3. InflightExact'
    BY <1>20, <2>2, CountStays DEF Fire
  <2>4. Placed'
    BY <1>20 DEF TypeOK, StartClaimed, ClosedHoldsNothing, HeldNodes, NodeRuns,
       NodeOwned, IdleNodeHasTimer, Fire
  <2>. QED  BY <2>1, <2>3, <2>4
<1>21. ASSUME NEW n \in Nodes, NodeClosed(n) PROVE IInv'
  <2>1. TypeOK'
    BY <1>21 DEF TypeOK, NodeClosed
  <2>2. CountedCalls' = CountedCalls
    BY <1>21 DEF TypeOK, CountedCalls, NodeClosed
  <2>3. InflightExact'
    BY <1>21, <2>2, CountStays DEF NodeClosed
  <2>4. Placed'
    BY <1>21 DEF TypeOK, StartClaimed, ClosedHoldsNothing, HeldNodes, NodeRuns,
       NodeOwned, IdleNodeHasTimer, NodeClosed
  <2>. QED  BY <2>1, <2>3, <2>4
<1>22. ASSUME Close PROVE IInv'
  <2>1. TypeOK'
    BY <1>22 DEF TypeOK, Close, TearDown, stopTimer, Stopped
  <2>2. CountedCalls' = CountedCalls
    BY <1>22 DEF TypeOK, CountedCalls, Close, TearDown, stopTimer, Stopped
  <2>3. InflightExact'
    BY <1>22, <2>2, CountStays DEF Close
  <2>4. Placed'
    BY <1>22 DEF TypeOK, StartClaimed, ClosedHoldsNothing, HeldNodes, NodeRuns,
       NodeOwned, IdleNodeHasTimer, Close, TearDown, stopTimer, Stopped
  <2>. QED  BY <2>1, <2>3, <2>4
<1>23. ASSUME Tick PROVE IInv'
  <2>1. TypeOK'
    BY <1>23 DEF TypeOK, Tick
  <2>2. CountedCalls' = CountedCalls
    BY <1>23 DEF TypeOK, CountedCalls, Tick
  <2>3. InflightExact'
    BY <1>23, <2>2, CountStays DEF Tick
  <2>4. Placed'
    BY <1>23 DEF TypeOK, StartClaimed, ClosedHoldsNothing, HeldNodes, NodeRuns,
       NodeOwned, IdleNodeHasTimer, Tick
  <2>. QED  BY <2>1, <2>3, <2>4
<1>24. CASE UNCHANGED vars
  <2>1. TypeOK' /\ Placed'
    BY <1>24 DEF TypeOK, StartClaimed, ClosedHoldsNothing, HeldNodes, NodeRuns,
       NodeOwned, IdleNodeHasTimer, vars
  <2>2. InflightExact'
    BY <1>24, CountStays DEF CountedCalls, vars
  <2>. QED  BY <2>1, <2>2
<1>. QED
    BY <1>1, <1>2, <1>3, <1>4, <1>5, <1>6, <1>7, <1>8, <1>9, <1>10, <1>11,
       <1>12, <1>13, <1>14, <1>15, <1>16, <1>17, <1>18, <1>19, <1>20, <1>21,
       <1>22, <1>23, <1>24 DEF Next, acquire, startNode, finishStart

-----------------------------------------------------------------------------
\* The theorems.

\* The invariant holds in every reachable state, however many downloads there are.
THEOREM IInvariance == Spec => []IInv
BY InitEstablishesIInv, NextPreservesIInv, PTL DEF Spec

\* The fields of Client and the goroutines around them keep their types;
\* client.inflight in particular never drops below zero.
THEOREM TypeCorrect == Spec => []TypeOK
<1>1. IInv => TypeOK
    BY DEF IInv
<1>. QED  BY <1>1, IInvariance, PTL

\* client.inflight counts the registered downloads exactly: no path through
\* acquire forgets its release or performs it twice.
THEOREM InflightCounts == Spec => []InflightExact
<1>1. IInv => InflightExact
    BY DEF IInv
<1>. QED  BY <1>1, IInvariance, PTL

\* closeIdle and Close never pull the node out from under a download of a client
\* that is still open.
THEOREM NodeInUseIsSafe == Spec => []NodeInUseRuns
<1>1. IInv => NodeInUseRuns
  <2>. SUFFICES ASSUME IInv, NEW c \in Calls, pc[c] = "using", ~closed
                PROVE  nodeState[held[c]] = "running"
    BY DEF NodeInUseRuns, Using
  <2>1. held[c] # NoNode /\ held[c] = node
    BY DEF IInv, Placed, HeldNodes, Holds
  <2>. QED  BY <2>1 DEF IInv, Placed, NodeRuns
<1>. QED  BY <1>1, IInvariance, PTL

\* No running node is ever lost: the client holds it, or the one call that is
\* still to publish or to close it does.
THEOREM NodesAreOwned == Spec => []NodeOwned
<1>1. IInv => NodeOwned
    BY DEF IInv, Placed
<1>. QED  BY <1>1, IInvariance, PTL

\* One call starts the node and the others wait for it.
THEOREM OneStartAtATime == Spec => []OneStart
<1>1. IInv => OneStart
    BY NilValues DEF IInv, Placed, StartClaimed, OneStart
<1>. QED  BY <1>1, IInvariance, PTL

\* Whatever timers were armed, stopped too late or fired, an idle node has one.
THEOREM IdleNodeIsTimed == Spec => []IdleNodeHasTimer
<1>1. IInv => IdleNodeHasTimer
    BY DEF IInv, Placed
<1>. QED  BY <1>1, IInvariance, PTL

-----------------------------------------------------------------------------
\* The refinement.

\* The refinement starts where the abstract node does.
LEMMA InitIsSharedInit == Init => Shared!Init
BY DEF Init, Shared!Init, CountedCalls, Counted, StartPhase, SignalPhase

\* Every step of the code is a step of the shared node, or none of its business.
LEMMA StepIsSharedStep == IInv /\ [Next]_vars => [Shared!Next]_Shared!vars
<1>. SUFFICES ASSUME IInv, [Next]_vars PROVE [Shared!Next]_Shared!vars
    OBVIOUS
<1>. DEFINE Stutter == UNCHANGED <<node, closed, CountedCalls>>
<1>0. Stutter => UNCHANGED Shared!vars
    BY DEF Shared!vars
<1>. USE DEF CountedCalls, Counted, StartPhase, SignalPhase, TypeOK, IInv, Goto,
            clientVars, callVars, timeVars
<1>1. ASSUME NEW c \in Calls, AcquireWarm(c) PROVE Shared!Join(c)
    BY <1>1 DEF AcquireWarm, Shared!Join
<1>2. ASSUME NEW c \in Calls, AcquireStart(c) PROVE Shared!Join(c)
    BY <1>2 DEF AcquireStart, Shared!Join
<1>3. ASSUME NEW c \in Calls, release(c) PROVE Shared!Leave(c)
    BY <1>3 DEF release, Shared!Leave
<1>4. ASSUME NEW c \in Calls, RecordStart(c)
      PROVE  Stutter \/ \E n \in Nodes : Shared!Install(n)
  <2>1. CASE pc[c] = "built" /\ ~closed
    <3>1. held[c] \in Nodes /\ node = NoNode
        BY <2>1, NilValues DEF Placed, HeldNodes, Holds, StartClaimed
    <3>2. Shared!Install(held[c])
        BY <2>1, <3>1, <1>4 DEF RecordStart, Shared!Install
    <3>. QED  BY <3>1, <3>2
  <2>2. CASE ~(pc[c] = "built" /\ ~closed)
    BY <2>2, <1>4 DEF RecordStart
  <2>. QED  BY <2>1, <2>2
<1>5. ASSUME NEW t \in Timers, closeIdle(t) PROVE Stutter \/ Shared!Shutdown
    BY <1>5, IdleMeansNobody DEF closeIdle, Shared!Shutdown
<1>6. ASSUME Close PROVE Shared!Retire
    BY <1>6 DEF Close, Shared!Retire
<1>7. ASSUME NEW c \in Calls, Get(c) PROVE Stutter
    BY <1>7 DEF Get
<1>8. ASSUME NEW c \in Calls, AcquireClosed(c) PROVE Stutter
    BY <1>8 DEF AcquireClosed
<1>9. ASSUME NEW c \in Calls, AcquireWait(c) PROVE Stutter
    BY <1>9 DEF AcquireWait, stopTimer
<1>10. ASSUME NEW c \in Calls, Retry(c) PROVE Stutter
    BY <1>10 DEF Retry
<1>11. ASSUME NEW c \in Calls, GiveUp(c) PROVE Stutter
    BY <1>11 DEF GiveUp
<1>12. ASSUME NEW c \in Calls, MakeHostFails(c) PROVE Stutter
    BY <1>12 DEF MakeHostFails
<1>13. ASSUME NEW c \in Calls, StartSucceeds(c) PROVE Stutter
    BY <1>13 DEF StartSucceeds
<1>14. ASSUME NEW c \in Calls, StartFails(c) PROVE Stutter
    BY <1>14 DEF StartFails
<1>15. ASSUME NEW c \in Calls, StartUnwound(c) PROVE Stutter
    BY <1>15 DEF StartUnwound
<1>16. ASSUME NEW c \in Calls, Signal(c) PROVE Stutter
    BY <1>16 DEF Signal
<1>17. ASSUME NEW c \in Calls, Discard(c) PROVE Stutter
    BY <1>17 DEF Discard
<1>18. ASSUME NEW c \in Calls, Discarded(c) PROVE Stutter
    BY <1>18 DEF Discarded
<1>19. ASSUME NEW c \in Calls, Downloaded(c) PROVE Stutter
    BY <1>19 DEF Downloaded
<1>20. ASSUME NEW c \in Calls, NEW n \in Nodes, MakeHost(c, n) PROVE Stutter
    BY <1>20 DEF MakeHost
<1>21. ASSUME \/ \E t \in Timers : Fire(t)
              \/ \E n \in Nodes : NodeClosed(n)
              \/ Tick
              \/ UNCHANGED vars
       PROVE  [Shared!Next]_Shared!vars
  <2>1. Stutter
    BY <1>21 DEF Fire, NodeClosed, Tick, vars
  <2>. QED  BY <2>1, <1>0
<1>. HIDE DEF Stutter, IInv, CountedCalls, TypeOK
<1>22. CASE \E c \in Calls :
            \/ Get(c) \/ acquire(c) \/ Retry(c) \/ GiveUp(c) \/ startNode(c)
            \/ finishStart(c) \/ Downloaded(c) \/ release(c)
    BY <1>22, <1>1, <1>2, <1>3, <1>4, <1>7, <1>8, <1>9, <1>10, <1>11, <1>12,
       <1>13, <1>14, <1>15, <1>16, <1>17, <1>18, <1>19, <1>20, <1>0
       DEF acquire, startNode, finishStart, Shared!Next
<1>23. CASE (\E t \in Timers : closeIdle(t)) \/ Close
    BY <1>23, <1>5, <1>6, <1>0 DEF Shared!Next
<1>. QED  BY <1>21, <1>22, <1>23 DEF Next

\* acquire, release, closeIdle and Close implement the shared node: it appears
\* only for a registered download and goes only when idle or retired.
THEOREM Refinement == Spec => ImplementsSharedNode
BY InitIsSharedInit, StepIsSharedStep, IInvariance, PTL
    DEF Spec, Shared!Spec, ImplementsSharedNode
=============================================================================
