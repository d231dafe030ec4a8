------------------------------ MODULE Dialing -------------------------------
(***************************************************************************)
(* The dials of a node (client/node.go): dialAll starts one goroutine per  *)
(* configured peer and gateway, awaitConnection waits for the first answer *)
(* and startNode decides, from counters the goroutines are still moving,   *)
(* whether the node has somewhere to fetch from. Later redial starts over  *)
(* when a download finds a node with nothing connected.                    *)
(*                                                                         *)
(* A round is one pair of dial groups, peers and gateways, started         *)
(* together by startNode or by redial. A round's goroutines live on when   *)
(* the next round has replaced it in node.peerDials and node.gatewayDials. *)
(***************************************************************************)
EXTENDS Naturals, FiniteSets

CONSTANTS
    Peers,        \* config.peers
    Gateways,     \* config.gateways
    HasIndexer,   \* config.delegated is set
    Rounds        \* identities for the rounds with dials under way at one time

ASSUME TargetsAreDisjoint == Peers \cap Gateways = {}
ASSUME IndexerIsBoolean == HasIndexer \in BOOLEAN

VARIABLES
    start,     \* where startNode is, or what became of the node
    ctxDone,   \* the context of the download that starts the node
    round,     \* the round node.peerDials and node.gatewayDials record
    dial,      \* each dial of each round
    done,      \* the groups of each round whose done channel is closed
    conn       \* the peers the host is connected to

vars == <<start, ctxDone, round, dial, done, conn>>

Targets == Peers \cup Gateways
Groups == {"peers", "gateways"}
Group(g) == IF g = "peers" THEN Peers ELSE Gateways

\* A dial runs, has its connection, has counted it, or is over.
Dial == {"none", "dialling", "connected", "counted", "answered", "failed"}
Settled == {"answered", "failed"}

Deciding == {"gatewayCount", "peerCount", "gatewaysFinished", "peersFinished"}

TypeOK ==
    /\ start \in {"idle", "awaiting", "up", "unreachable"} \cup Deciding
    /\ ctxDone \in BOOLEAN
    /\ round \in Rounds
    /\ dial \in [Rounds -> [Targets -> Dial]]
    /\ done \in [Rounds -> SUBSET Groups]
    /\ conn \subseteq Peers

NoDials == [t \in Targets |-> "none"]

Init ==
    /\ start = "idle"
    /\ ctxDone = FALSE
    /\ round \in Rounds
    /\ dial = [r \in Rounds |-> NoDials]
    /\ done = [r \in Rounds |-> Groups]
    /\ conn = {}

-----------------------------------------------------------------------------
\* dialGroup.

\* dialAll: every dial at once; a group without targets is done from the start.
dialAll(r) ==
    /\ dial' = [dial EXCEPT ![r] = [t \in Targets |-> "dialling"]]
    /\ done' = [done EXCEPT ![r] = {g \in Groups : Group(g) = {}}]
    /\ round' = r

\* group.connected has been moved by the goroutines that counted.
Count(r, g) == Cardinality({t \in Group(g) : dial[r][t] \in {"counted", "answered"}})

\* group.first is closed.
First(r, g) == \E t \in Group(g) : dial[r][t] = "answered"

Finished(r, g) == g \in done[r]

\* A round whose goroutines are gone.
Spent(r) == done[r] = Groups

Step(r, t, from, to) ==
    /\ dial[r][t] = from
    /\ dial' = [dial EXCEPT ![r][t] = to]

\* connect returns without an error.
Connects(r, t) ==
    /\ Step(r, t, "dialling", "connected")
    /\ conn' = conn \cup ({t} \cap Peers)
    /\ UNCHANGED <<start, ctxDone, round, done>>

Counts(r, t) ==
    /\ Step(r, t, "connected", "counted")
    /\ UNCHANGED <<start, ctxDone, round, done, conn>>

\* once.Do closes first, and the goroutine is done.
Answers(r, t) ==
    /\ Step(r, t, "counted", "answered")
    /\ UNCHANGED <<start, ctxDone, round, done, conn>>

DialFails(r, t) ==
    /\ Step(r, t, "dialling", "failed")
    /\ UNCHANGED <<start, ctxDone, round, done, conn>>

\* The goroutine waiting for the group closes done.
GroupDone(r, g) ==
    /\ g \notin done[r]
    /\ \A t \in Group(g) : dial[r][t] \in Settled
    /\ done' = [done EXCEPT ![r] = @ \cup {g}]
    /\ UNCHANGED <<start, ctxDone, round, dial, conn>>

-----------------------------------------------------------------------------
\* startNode.

StartDialling ==
    /\ start = "idle"
    /\ dialAll(round)
    /\ start' = "awaiting"
    /\ UNCHANGED <<ctxDone, conn>>

\* Wrong variant: only an answer or the end of every dial is waited for.
AwaitDialsOnly ==
    /\ start = "awaiting"
    /\ First(round, "gateways") \/ First(round, "peers") \/ Spent(round)
    /\ start' = "gatewayCount"
    /\ UNCHANGED <<ctxDone, round, dial, done, conn>>

\* awaitConnection returns on the first answer, when every dial has settled, and
\* otherwise on startupTimeout or the caller's deadline, at any moment.
awaitConnection ==
    /\ start = "awaiting"
    /\ start' = "gatewayCount"
    /\ UNCHANGED <<ctxDone, round, dial, done, conn>>

\* The counters and then the done channels are read one after the other, each
\* read deciding whether the next is made.
Read(from, settles, next) ==
    /\ start = from
    /\ start' = IF settles THEN "up" ELSE next
    /\ UNCHANGED <<ctxDone, round, dial, done, conn>>

ReadGatewayCount == Read("gatewayCount", Count(round, "gateways") > 0, "peerCount")

\* Wrong variant: nobody counted is taken for nobody left.
ReadPeerCountLast ==
    Read("peerCount", Count(round, "peers") > 0 \/ HasIndexer, "unreachable")

ReadPeerCount ==
    Read("peerCount", Count(round, "peers") > 0 \/ HasIndexer, "gatewaysFinished")

ReadGatewaysFinished ==
    Read("gatewaysFinished", ~Finished(round, "gateways"), "peersFinished")

ReadPeersFinished ==
    Read("peersFinished", ~Finished(round, "peers"), "unreachable")

\* Whatever ends a node - the failed start unwinding, the idle timer, Close - ends
\* its dials; the next start is another node's.
NodeEnds ==
    /\ start \in {"up", "unreachable"}
    /\ start' = "idle"
    /\ ctxDone' = FALSE
    /\ dial' = [r \in Rounds |-> NoDials]
    /\ done' = [r \in Rounds |-> Groups]
    /\ conn' = {}
    /\ UNCHANGED round

ContextEnds ==
    /\ start \in {"awaiting"} \cup Deciding
    /\ ~ctxDone
    /\ ctxDone' = TRUE
    /\ UNCHANGED <<start, round, dial, done, conn>>

-----------------------------------------------------------------------------
\* A warm node.

\* Wrong variant: dials under way are not looked at.
redialStacking ==
    /\ start = "up"
    /\ conn = {}
    /\ \E r \in Rounds \ {round} : Spent(r) /\ dialAll(r)
    /\ UNCHANGED <<start, ctxDone, conn>>

\* Wrong variant: a node that has dialled once does not dial again.
redialNever ==
    /\ start = "up"
    /\ conn = {}
    /\ \E t \in Peers : dial[round][t] = "none"
    /\ \E r \in Rounds \ {round} : Spent(r) /\ dialAll(r)
    /\ UNCHANGED <<start, ctxDone, conn>>

\* redial, by a download that acquires the warm node, where it has an effect.
redial ==
    /\ start = "up"
    /\ conn = {}
    /\ Finished(round, "peers")
    /\ \E r \in Rounds \ {round} : Spent(r) /\ dialAll(r)
    /\ UNCHANGED <<start, ctxDone, conn>>

\* A connection is lost.
Disconnects(p) ==
    /\ p \in conn
    /\ conn' = conn \ {p}
    /\ UNCHANGED <<start, ctxDone, round, dial, done>>

-----------------------------------------------------------------------------
dialGoroutine(r, t) ==
    Connects(r, t) \/ Counts(r, t) \/ Answers(r, t) \/ DialFails(r, t)

decide ==
    ReadGatewayCount \/ ReadPeerCount \/ ReadGatewaysFinished \/ ReadPeersFinished

Next ==
    \/ \E r \in Rounds :
        \/ \E t \in Targets : dialGoroutine(r, t)
        \/ \E g \in Groups : GroupDone(r, g)
    \/ StartDialling
    \/ awaitConnection
    \/ decide
    \/ NodeEnds
    \/ ContextEnds
    \/ redial
    \/ \E p \in Peers : Disconnects(p)

Spec == Init /\ [][Next]_vars

\* startNode runs, and its wait is bounded by startupTimeout. Until it has decided
\* dials are owed nothing: for all it knows they hang.
StartFairness == WF_vars(StartDialling) /\ WF_vars(awaitConnection) /\ WF_vars(decide)

\* On a node that is up every dial settles, since connecting has timeouts of its
\* own; the downloads keep coming, so redial keeps being called; and peers
\* dialled again and again are reachable in the end.
RedialFairness ==
    /\ \A r \in Rounds :
        /\ \A t \in Targets : WF_vars(start = "up" /\ dialGoroutine(r, t))
        /\ \A p \in Peers : SF_vars(start = "up" /\ Connects(r, p))
        /\ \A g \in Groups : WF_vars(start = "up" /\ GroupDone(r, g))
    /\ WF_vars(redial)

FairSpec == Spec /\ StartFairness /\ RedialFairness

-----------------------------------------------------------------------------
\* Properties.

InFlight(r, t) == dial[r][t] \notin {"none"} \cup Settled

\* "Only a node with nothing left to try has provably nowhere to go": a start that
\* failed for want of peers left no dial in flight that could still have landed.
FailureIsProvable ==
    start = "unreachable" => \A t \in Targets : ~InFlight(round, t)

\* "So a retry does not stack on one still running": no peer is dialled twice at
\* once, however often a node without connections is acquired.
PeerDialsDoNotStack ==
    \A p \in Peers : \A r, s \in Rounds : InFlight(r, p) /\ InFlight(s, p) => r = s

\* A group that says it is done has no dial in flight, and one that was replaced as
\* the peers' group of the node says so.
GroupsAreSettled ==
    \A r \in Rounds :
        /\ \A g \in done[r] : \A t \in Group(g) : ~InFlight(r, t)
        /\ r # round => Finished(r, "peers")

\* What startNode has read of the done channels stays true: the groups it reads are
\* not replaced while it decides, and what is done stays done.
StartHasRead ==
    /\ start = "peersFinished" => Finished(round, "gateways")
    /\ start = "unreachable" => Spent(round)

\* The dials are in order at any moment: one to a peer, in the round that made it.
DialingInv == TypeOK /\ PeerDialsDoNotStack /\ GroupsAreSettled /\ StartHasRead

\* startNode decides although every dial hangs.
StartDecides == (start = "awaiting") ~> (start \in {"up", "unreachable"})

\* A warm node whose dials all failed, or which lost its connections, is not left
\* "cached with nowhere to fetch from": as downloads keep acquiring it, it is
\* connected again or given up.
WarmNodeRecovers == (start = "up" /\ conn = {}) ~> (conn # {} \/ start # "up")

-----------------------------------------------------------------------------
\* What comments say and the code does not keep.

\* startNode "fails only when there is provably nowhere to fetch from": not with
\* the host connected to a peer, unless the caller's context is over.
FailsOnlyUnconnected == start = "unreachable" /\ ~ctxDone => conn = {}

\* "The dials last started, so a retry does not stack on one still running."
GatewayDialsDoNotStack ==
    \A w \in Gateways : \A r, s \in Rounds :
        dial[r][w] = "dialling" /\ dial[s][w] = "dialling" => r = s
=============================================================================
