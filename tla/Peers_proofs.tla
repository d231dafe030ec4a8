---------------------------- MODULE Peers_proofs ----------------------------
(***************************************************************************)
(* Proofs about what a node knows of its peers: how it dials them          *)
(* (Dialing) and how a lookup finds more of them (Discovery), for any      *)
(* number of peers, gateways, rounds, routers and providers.               *)
(*                                                                         *)
(* What startNode reads one by one may be stale when it acts on it; its    *)
(* proofs rest on what stays true of it: a group that is done has nothing  *)
(* in flight, and is not replaced while a start decides. A lookup delivers *)
(* outside its mutex what it counted inside; its proofs rest on what a     *)
(* count leaves behind: one sender for each provider, and a goroutine that *)
(* reads no more for each provider past the limit.                         *)
(***************************************************************************)
EXTENDS Dialing, Discovery, FiniteSetTheorems, TLAPS

\* A step keeps types.
LEMMA TypeOKStep == DialingInv /\ [Next]_vars => TypeOK'
<1>. SUFFICES ASSUME DialingInv, [Next]_vars PROVE TypeOK'
    OBVIOUS
<1>. USE TargetsAreDisjoint, IndexerIsBoolean
     DEF DialingInv, TypeOK, Dial, Deciding, vars, Step, dialAll, Finished, Spent,
         Targets, Groups, Group, NoDials, Read
<1>1. ASSUME NEW r \in Rounds, NEW t \in Targets, Connects(r, t) PROVE TypeOK'
    BY <1>1 DEF Connects
<1>2. ASSUME NEW r \in Rounds, NEW t \in Targets, Counts(r, t) PROVE TypeOK'
    BY <1>2 DEF Counts
<1>3. ASSUME NEW r \in Rounds, NEW t \in Targets, Answers(r, t) PROVE TypeOK'
    BY <1>3 DEF Answers
<1>4. ASSUME NEW r \in Rounds, NEW t \in Targets, DialFails(r, t) PROVE TypeOK'
    BY <1>4 DEF DialFails
<1>5. ASSUME NEW r \in Rounds, NEW g \in Groups, GroupDone(r, g) PROVE TypeOK'
    BY <1>5 DEF GroupDone
<1>6. ASSUME StartDialling PROVE TypeOK'
    BY <1>6 DEF StartDialling
<1>7. ASSUME awaitConnection PROVE TypeOK'
    BY <1>7 DEF awaitConnection
<1>8. ASSUME ReadGatewayCount PROVE TypeOK'
    BY <1>8 DEF ReadGatewayCount
<1>9. ASSUME ReadPeerCount PROVE TypeOK'
    BY <1>9 DEF ReadPeerCount
<1>10. ASSUME ReadGatewaysFinished PROVE TypeOK'
    BY <1>10 DEF ReadGatewaysFinished
<1>11. ASSUME ReadPeersFinished PROVE TypeOK'
    BY <1>11 DEF ReadPeersFinished
<1>12. ASSUME NodeEnds PROVE TypeOK'
    BY <1>12 DEF NodeEnds
<1>13. ASSUME ContextEnds PROVE TypeOK'
    BY <1>13 DEF ContextEnds
<1>14. ASSUME redial PROVE TypeOK'
    BY <1>14 DEF redial
<1>15. ASSUME NEW p \in Peers, Disconnects(p) PROVE TypeOK'
    BY <1>15 DEF Disconnects
<1>16. CASE UNCHANGED vars
    BY <1>16
<1>. QED
    BY <1>1, <1>2, <1>3, <1>4, <1>5, <1>6, <1>7, <1>8, <1>9, <1>10, <1>11, <1>12,
       <1>13, <1>14, <1>15, <1>16 DEF Next, dialGoroutine, decide

\* Only a group whose dials are over closes its channel, and no dial of it begins again
\* before the next dialAll, which replaces the peers' group only once it is done.
LEMMA GroupsAreSettledStep == DialingInv /\ [Next]_vars => GroupsAreSettled'
<1>. SUFFICES ASSUME DialingInv, [Next]_vars PROVE GroupsAreSettled'
    OBVIOUS
<1>. USE TargetsAreDisjoint, IndexerIsBoolean
     DEF DialingInv, TypeOK, GroupsAreSettled, InFlight, Settled, vars, Step,
         dialAll, Finished, Spent, Targets, Groups, Group, NoDials, Read
<1>1. ASSUME NEW r \in Rounds, NEW t \in Targets, Connects(r, t) PROVE GroupsAreSettled'
    BY <1>1 DEF Connects
<1>2. ASSUME NEW r \in Rounds, NEW t \in Targets, Counts(r, t) PROVE GroupsAreSettled'
    BY <1>2 DEF Counts
<1>3. ASSUME NEW r \in Rounds, NEW t \in Targets, Answers(r, t) PROVE GroupsAreSettled'
    BY <1>3 DEF Answers
<1>4. ASSUME NEW r \in Rounds, NEW t \in Targets, DialFails(r, t) PROVE GroupsAreSettled'
    BY <1>4 DEF DialFails
<1>5. ASSUME NEW r \in Rounds, NEW g \in Groups, GroupDone(r, g) PROVE GroupsAreSettled'
    BY <1>5 DEF GroupDone
<1>6. ASSUME StartDialling PROVE GroupsAreSettled'
    BY <1>6 DEF StartDialling
<1>7. ASSUME awaitConnection PROVE GroupsAreSettled'
    BY <1>7 DEF awaitConnection
<1>8. ASSUME ReadGatewayCount PROVE GroupsAreSettled'
    BY <1>8 DEF ReadGatewayCount
<1>9. ASSUME ReadPeerCount PROVE GroupsAreSettled'
    BY <1>9 DEF ReadPeerCount
<1>10. ASSUME ReadGatewaysFinished PROVE GroupsAreSettled'
    BY <1>10 DEF ReadGatewaysFinished
<1>11. ASSUME ReadPeersFinished PROVE GroupsAreSettled'
    BY <1>11 DEF ReadPeersFinished
<1>12. ASSUME NodeEnds PROVE GroupsAreSettled'
    BY <1>12 DEF NodeEnds
<1>13. ASSUME ContextEnds PROVE GroupsAreSettled'
    BY <1>13 DEF ContextEnds
<1>14. ASSUME redial PROVE GroupsAreSettled'
    BY <1>14 DEF redial
<1>15. ASSUME NEW p \in Peers, Disconnects(p) PROVE GroupsAreSettled'
    BY <1>15 DEF Disconnects
<1>16. CASE UNCHANGED vars
    BY <1>16
<1>. QED
    BY <1>1, <1>2, <1>3, <1>4, <1>5, <1>6, <1>7, <1>8, <1>9, <1>10, <1>11, <1>12,
       <1>13, <1>14, <1>15, <1>16 DEF Next, dialGoroutine, decide

\* The round stays while startNode decides.
LEMMA StartHasReadStep == DialingInv /\ [Next]_vars => StartHasRead'
<1>. SUFFICES ASSUME DialingInv, [Next]_vars PROVE StartHasRead'
    OBVIOUS
<1>. USE TargetsAreDisjoint, IndexerIsBoolean
     DEF DialingInv, TypeOK, StartHasRead, vars, Step, dialAll, Finished, Spent,
         Targets, Groups, Group, NoDials, Read
<1>1. ASSUME NEW r \in Rounds, NEW t \in Targets, Connects(r, t) PROVE StartHasRead'
    BY <1>1 DEF Connects
<1>2. ASSUME NEW r \in Rounds, NEW t \in Targets, Counts(r, t) PROVE StartHasRead'
    BY <1>2 DEF Counts
<1>3. ASSUME NEW r \in Rounds, NEW t \in Targets, Answers(r, t) PROVE StartHasRead'
    BY <1>3 DEF Answers
<1>4. ASSUME NEW r \in Rounds, NEW t \in Targets, DialFails(r, t) PROVE StartHasRead'
    BY <1>4 DEF DialFails
<1>5. ASSUME NEW r \in Rounds, NEW g \in Groups, GroupDone(r, g) PROVE StartHasRead'
    BY <1>5 DEF GroupDone
<1>6. ASSUME StartDialling PROVE StartHasRead'
    BY <1>6 DEF StartDialling
<1>7. ASSUME awaitConnection PROVE StartHasRead'
    BY <1>7 DEF awaitConnection
<1>8. ASSUME ReadGatewayCount PROVE StartHasRead'
    BY <1>8 DEF ReadGatewayCount
<1>9. ASSUME ReadPeerCount PROVE StartHasRead'
    BY <1>9 DEF ReadPeerCount
<1>10. ASSUME ReadGatewaysFinished PROVE StartHasRead'
    BY <1>10 DEF ReadGatewaysFinished
<1>11. ASSUME ReadPeersFinished PROVE StartHasRead'
    BY <1>11 DEF ReadPeersFinished
<1>12. ASSUME NodeEnds PROVE StartHasRead'
    BY <1>12 DEF NodeEnds
<1>13. ASSUME ContextEnds PROVE StartHasRead'
    BY <1>13 DEF ContextEnds
<1>14. ASSUME redial PROVE StartHasRead'
    BY <1>14 DEF redial
<1>15. ASSUME NEW p \in Peers, Disconnects(p) PROVE StartHasRead'
    BY <1>15 DEF Disconnects
<1>16. CASE UNCHANGED vars
    BY <1>16
<1>. QED
    BY <1>1, <1>2, <1>3, <1>4, <1>5, <1>6, <1>7, <1>8, <1>9, <1>10, <1>11, <1>12,
       <1>13, <1>14, <1>15, <1>16 DEF Next, dialGoroutine, decide

\* One round at a time dials peers, and one that does is not done.
LEMMA SettledPeersDoNotStack == GroupsAreSettled => PeerDialsDoNotStack
BY DEF GroupsAreSettled, PeerDialsDoNotStack, Finished, Group

\* A step keeps the invariant, conjunct by conjunct.
LEMMA DialingInvStep == DialingInv /\ [Next]_vars => DialingInv'
<1>1. GroupsAreSettled' => PeerDialsDoNotStack'
    BY SettledPeersDoNotStack, PTL
<1>. QED
    BY <1>1, TypeOKStep, GroupsAreSettledStep, StartHasReadStep DEF DialingInv

\* Before the first start nothing is dialled and nothing is read.
LEMMA InitEstablishesDialingInv == Init => DialingInv
<1>. SUFFICES ASSUME Init PROVE DialingInv
    OBVIOUS
<1>1. TypeOK
    BY DEF Init, TypeOK, NoDials, Dial, Deciding
<1>2. GroupsAreSettled
    BY DEF Init, GroupsAreSettled, NoDials, InFlight, Finished, Group, Groups,
       Targets
<1>3. StartHasRead
    BY DEF Init, StartHasRead
<1>. QED  BY <1>1, <1>2, <1>3, SettledPeersDoNotStack DEF DialingInv

-----------------------------------------------------------------------------
\* The dials are in order in every reachable state, however rounds, lost connections
\* and restarts interleave; no peer is dialled by two rounds at once.
THEOREM DialingInvariance == Spec => []DialingInv
BY InitEstablishesDialingInv, DialingInvStep, PTL DEF Spec

\* A start that failed for want of peers left no dial in flight that could still
\* have landed, although it read counters and channels while they moved.
THEOREM FailedStartHasNothingLeft == Spec => []FailureIsProvable
<1>1. DialingInv => FailureIsProvable
  <2>. SUFFICES ASSUME DialingInv, start = "unreachable", NEW t \in Targets
                PROVE  ~InFlight(round, t)
    BY DEF FailureIsProvable
  <2>1. round \in Rounds /\ done[round] = {"peers", "gateways"}
    BY DEF DialingInv, TypeOK, StartHasRead, Spent, Groups
  <2>2. t \in Group("peers") \/ t \in Group("gateways")
    BY DEF Targets, Group
  <2>. QED  BY <2>1, <2>2 DEF DialingInv, GroupsAreSettled
<1>. QED  BY <1>1, DialingInvariance, PTL

-----------------------------------------------------------------------------
\* The sets that are counted are finite.
LEMMA DiscoveryCounts ==
    ASSUME DiscoveryTypeOK
    PROVE  /\ IsFiniteSet(seen) /\ Cardinality(seen) \in Nat
           /\ IsFiniteSet(Satisfied) /\ Cardinality(Satisfied) \in Nat
           /\ Cardinality(Satisfied) <= Cardinality(Routers)
           /\ Cardinality(Routers) \in Nat
<1>1. seen \in SUBSET Providers /\ Satisfied \in SUBSET Routers
    BY DEF DiscoveryTypeOK, Satisfied
<1>2. IsFiniteSet(seen) /\ IsFiniteSet(Satisfied)
    BY <1>1, FS_Subset, RoutersAreFinite, ProvidersAreFinite
<1>. QED
    BY <1>1, <1>2, FS_Subset, FS_CardinalityType, RoutersAreFinite

\* At first nothing is counted or sent.
LEMMA InitEstablishesDiscoveryInv == DiscoveryInit => DiscoveryInv
<1>. SUFFICES ASSUME DiscoveryInit PROVE DiscoveryInv
    OBVIOUS
<1>1. Cardinality(Routers) \in Nat
    BY FS_CardinalityType, RoutersAreFinite
<1>2. DiscoveryTypeOK
  <2>1. received \in [Providers -> 0..Cardinality(Routers)]
    BY <1>1 DEF DiscoveryInit
  <2>2. hand \in [Routers -> Providers \cup {NoProvider}] /\ at \in [Routers -> Positions]
    BY DEF DiscoveryInit, Positions
  <2>. QED
    BY <2>1, <2>2, NoProviderIsNone DEF DiscoveryInit, DiscoveryTypeOK
<1>3. Delivered = {} /\ seen = {} /\ Cardinality({}) = 0 /\ NoDuplicates
    BY FS_EmptySet DEF DiscoveryInit, Delivered, NoDuplicates
<1>4. OvershootIsBounded /\ CountsComeFirst
    BY <1>1, <1>2, <1>3, DiscoveryCounts, LimitIsNatural
       DEF OvershootIsBounded, CountsComeFirst
<1>5. SendersHoldTheirOwn
    BY DEF DiscoveryInit, SendersHoldTheirOwn
<1>. QED  BY <1>2, <1>3, <1>4, <1>5 DEF DiscoveryInv

\* A step of a lookup keeps types: no provider is sent twice, so the reader counts
\* no higher than there are routers.
LEMMA DiscoveryTypeOKStep ==
    DiscoveryInv /\ [DiscoveryNext]_discoveryVars => DiscoveryTypeOK'
<1>. SUFFICES ASSUME DiscoveryInv, [DiscoveryNext]_discoveryVars PROVE DiscoveryTypeOK'
    OBVIOUS
<1>. USE NoProviderIsNone
     DEF DiscoveryInv, DiscoveryTypeOK, Positions, Goto, Outside
<1>1. ASSUME NEW r \in Routers, NEW p \in Providers, Yield(r, p) PROVE DiscoveryTypeOK'
    BY <1>1 DEF Yield
<1>2. ASSUME NEW r \in Routers, RouterCloses(r) PROVE DiscoveryTypeOK'
    BY <1>2 DEF RouterCloses
<1>3. ASSUME NEW r \in Routers, CountProvider(r) PROVE DiscoveryTypeOK'
    BY <1>3 DEF CountProvider
<1>4. ASSUME NEW r \in Routers, Deliver(r) PROVE DiscoveryTypeOK'
  <2>1. Cardinality(Routers) \in Nat /\ Cardinality(Routers) # 0
    BY FS_CardinalityType, FS_EmptySet, RoutersAreFinite
  <2>2. hand[r] \in Providers /\ received[hand[r]] = 0
    BY <1>4 DEF Deliver, SendersHoldTheirOwn
  <2>3. received' \in [Providers -> 0..Cardinality(Routers)]
    BY <1>4, <2>1, <2>2 DEF Deliver
  <2>. QED  BY <1>4, <2>3 DEF Deliver
<1>5. ASSUME NEW r \in Routers, Drop(r) PROVE DiscoveryTypeOK'
    BY <1>5 DEF Drop
<1>6. ASSUME NEW r \in Routers, Stop(r) PROVE DiscoveryTypeOK'
    BY <1>6 DEF Stop
<1>7. ASSUME NEW r \in Routers, RouterDone(r) PROVE DiscoveryTypeOK'
    BY <1>7 DEF RouterDone
<1>8. ASSUME CloseMerged PROVE DiscoveryTypeOK'
    BY <1>8 DEF CloseMerged
<1>9. ASSUME LookupEnds PROVE DiscoveryTypeOK'
    BY <1>9 DEF LookupEnds
<1>10. CASE UNCHANGED discoveryVars
    BY <1>10 DEF discoveryVars
<1>. QED
    BY <1>1, <1>2, <1>3, <1>4, <1>5, <1>6, <1>7, <1>8, <1>9, <1>10
       DEF DiscoveryNext, findProviders

\* What is sent is new under the mutex, so nobody else sends it; once sent it is in
\* no hand.
LEMMA SendersStep ==
    DiscoveryInv /\ [DiscoveryNext]_discoveryVars => SendersHoldTheirOwn' /\ NoDuplicates'
<1>. SUFFICES ASSUME DiscoveryInv, [DiscoveryNext]_discoveryVars
              PROVE  SendersHoldTheirOwn' /\ NoDuplicates'
    OBVIOUS
<1>. DEFINE Senders == SendersHoldTheirOwn /\ NoDuplicates
<1>. USE NoProviderIsNone
     DEF DiscoveryInv, DiscoveryTypeOK, Positions, Goto, Outside, NoDuplicates,
         SendersHoldTheirOwn, Senders
<1>1. ASSUME NEW r \in Routers, NEW p \in Providers, Yield(r, p) PROVE Senders'
    BY <1>1 DEF Yield
<1>2. ASSUME NEW r \in Routers, RouterCloses(r) PROVE Senders'
    BY <1>2 DEF RouterCloses
<1>3. ASSUME NEW r \in Routers, CountProvider(r) PROVE Senders'
  <2>1. hand[r] \notin seen => received[hand[r]] = 0
    BY <1>3 DEF CountProvider, CountsComeFirst, Delivered
  <2>. QED  BY <1>3, <2>1 DEF CountProvider
<1>4. ASSUME NEW r \in Routers, Deliver(r) PROVE Senders'
    BY <1>4 DEF Deliver
<1>5. ASSUME NEW r \in Routers, Drop(r) PROVE Senders'
    BY <1>5 DEF Drop
<1>6. ASSUME NEW r \in Routers, Stop(r) PROVE Senders'
    BY <1>6 DEF Stop
<1>7. ASSUME NEW r \in Routers, RouterDone(r) PROVE Senders'
    BY <1>7 DEF RouterDone
<1>8. ASSUME CloseMerged PROVE Senders'
    BY <1>8 DEF CloseMerged
<1>9. ASSUME LookupEnds PROVE Senders'
    BY <1>9 DEF LookupEnds
<1>10. CASE UNCHANGED discoveryVars
    BY <1>10 DEF discoveryVars
<1>. QED
    BY <1>1, <1>2, <1>3, <1>4, <1>5, <1>6, <1>7, <1>8, <1>9, <1>10
       DEF DiscoveryNext, findProviders

\* Whoever met the limit with a new provider stays among the satisfied.
LEMMA SatisfiedStay ==
    ASSUME DiscoveryTypeOK, [DiscoveryNext]_discoveryVars
    PROVE  Satisfied \subseteq Satisfied'
<1>. USE DEF DiscoveryTypeOK, Positions, Goto, Outside, Satisfied
<1>1. ASSUME NEW r \in Routers, NEW p \in Providers, Yield(r, p)
      PROVE  Satisfied \subseteq Satisfied'
    BY <1>1 DEF Yield
<1>2. ASSUME NEW r \in Routers, RouterCloses(r) PROVE Satisfied \subseteq Satisfied'
    BY <1>2 DEF RouterCloses
<1>3. ASSUME NEW r \in Routers, CountProvider(r) PROVE Satisfied \subseteq Satisfied'
    BY <1>3 DEF CountProvider
<1>4. ASSUME NEW r \in Routers, Deliver(r) PROVE Satisfied \subseteq Satisfied'
    BY <1>4 DEF Deliver
<1>5. ASSUME NEW r \in Routers, Drop(r) PROVE Satisfied \subseteq Satisfied'
    BY <1>5 DEF Drop
<1>6. ASSUME NEW r \in Routers, Stop(r) PROVE Satisfied \subseteq Satisfied'
    BY <1>6 DEF Stop
<1>7. ASSUME NEW r \in Routers, RouterDone(r) PROVE Satisfied \subseteq Satisfied'
    BY <1>7 DEF RouterDone
<1>8. ASSUME CloseMerged PROVE Satisfied \subseteq Satisfied'
    BY <1>8 DEF CloseMerged
<1>9. ASSUME LookupEnds PROVE Satisfied \subseteq Satisfied'
    BY <1>9 DEF LookupEnds
<1>10. CASE UNCHANGED discoveryVars
    BY <1>10 DEF discoveryVars
<1>. QED
    BY <1>1, <1>2, <1>3, <1>4, <1>5, <1>6, <1>7, <1>8, <1>9, <1>10
       DEF DiscoveryNext, findProviders

\* The provider a goroutine counts is within the limit, or that goroutine becomes one
\* of the satisfied with it.
LEMMA CountCostsAGoroutine ==
    ASSUME DiscoveryInv, Limit > 0, NEW r \in Routers, CountProvider(r),
           Satisfied \subseteq Satisfied', DiscoveryTypeOK'
    PROVE  Cardinality(seen') < Limit + Cardinality(Satisfied')
<1>. USE LimitIsNatural
<1>1. /\ IsFiniteSet(seen) /\ Cardinality(seen) \in Nat
      /\ IsFiniteSet(Satisfied) /\ Cardinality(Satisfied) \in Nat
    BY DiscoveryCounts DEF DiscoveryInv
<1>2. /\ IsFiniteSet(seen') /\ Cardinality(seen') \in Nat
      /\ IsFiniteSet(Satisfied') /\ Cardinality(Satisfied') \in Nat
  <2>1. seen' \in SUBSET Providers /\ Satisfied' \in SUBSET Routers
    BY DEF DiscoveryTypeOK, Satisfied
  <2>. QED
    BY <2>1, FS_Subset, FS_CardinalityType, RoutersAreFinite, ProvidersAreFinite
<1>3. Cardinality(seen) < Limit + Cardinality(Satisfied)
    BY DEF DiscoveryInv, CountsComeFirst
<1>4. Cardinality(Satisfied) <= Cardinality(Satisfied')
    BY <1>2, FS_Subset
<1>5. CASE hand[r] \in seen
  <2>1. seen' = seen
    BY <1>5 DEF CountProvider
  <2>. QED  BY <1>1, <1>2, <1>3, <1>4, <2>1
<1>6. CASE hand[r] \notin seen /\ Cardinality(seen') < Limit
    BY <1>2, <1>6
<1>7. CASE hand[r] \notin seen /\ ~(Cardinality(seen') < Limit)
  <2>1. seen' = seen \cup {hand[r]} /\ Cardinality(seen') = Cardinality(seen) + 1
    BY <1>1, <1>7, FS_AddElement DEF CountProvider
  <2>2. satisfied'[r] /\ at'[r] = "sending"
    <3>1. Cardinality(seen') >= Limit
        BY <1>2, <1>7
    <3>. QED
        BY <1>7, <3>1 DEF CountProvider, Goto, DiscoveryInv, DiscoveryTypeOK
  <2>3. r \in Satisfied' /\ r \notin Satisfied
    BY <2>2 DEF Satisfied, CountProvider
  <2>4. Satisfied \cup {r} \subseteq Satisfied'
    BY <2>3
  <2>5. Cardinality(Satisfied) + 1 <= Cardinality(Satisfied')
    <3>1. /\ IsFiniteSet(Satisfied \cup {r})
          /\ Cardinality(Satisfied \cup {r}) = Cardinality(Satisfied) + 1
        BY <1>1, <2>3, FS_AddElement
    <3>. QED  BY <1>2, <2>4, <3>1, FS_Subset
  <2>. QED  BY <1>1, <1>2, <1>3, <2>1, <2>5
<1>. QED  BY <1>5, <1>6, <1>7

\* A step keeps the counts: only the section under the mutex adds to them.
LEMMA CountsStep ==
    DiscoveryInv /\ [DiscoveryNext]_discoveryVars => CountsComeFirst'
<1>. SUFFICES ASSUME DiscoveryInv, [DiscoveryNext]_discoveryVars PROVE CountsComeFirst'
    OBVIOUS
<1>1. DiscoveryTypeOK' /\ Satisfied \subseteq Satisfied'
    BY DiscoveryTypeOKStep, SatisfiedStay DEF DiscoveryInv
<1>2. CASE \E r \in Routers : CountProvider(r)
  <2>1. PICK r \in Routers : CountProvider(r)
    BY <1>2
  <2>2. Delivered' \subseteq seen'
    BY <2>1 DEF CountProvider, DiscoveryInv, CountsComeFirst, Delivered
  <2>. QED  BY <1>1, <2>1, <2>2, CountCostsAGoroutine DEF CountsComeFirst
<1>3. CASE ~\E r \in Routers : CountProvider(r)
  <2>1. seen' = seen
    BY <1>3 DEF DiscoveryNext, findProviders, Yield, RouterCloses, Deliver, Drop,
       Stop, RouterDone, CloseMerged, LookupEnds, discoveryVars
  <2>2. Delivered' \subseteq seen
    <3>1. CASE \E r \in Routers : Deliver(r)
      <4>1. PICK r \in Routers : Deliver(r)
        BY <3>1
      <4>2. hand[r] \in seen
        BY <4>1 DEF Deliver, DiscoveryInv, SendersHoldTheirOwn
      <4>. QED
        BY <4>1, <4>2 DEF Deliver, DiscoveryInv, DiscoveryTypeOK, CountsComeFirst,
           Delivered
    <3>2. CASE ~\E r \in Routers : Deliver(r)
      <4>1. received' = received
        BY <1>3, <3>2 DEF DiscoveryNext, findProviders, Yield, RouterCloses, Drop,
           Stop, RouterDone, CloseMerged, LookupEnds, discoveryVars
      <4>. QED  BY <4>1 DEF DiscoveryInv, CountsComeFirst, Delivered
    <3>. QED  BY <3>1, <3>2
  <2>3. Limit > 0 => Cardinality(seen') < Limit + Cardinality(Satisfied')
    <3>1. IsFiniteSet(Satisfied') /\ Cardinality(Satisfied') \in Nat
      <4>1. Satisfied' \in SUBSET Routers
        BY DEF Satisfied
      <4>. QED  BY <4>1, FS_Subset, FS_CardinalityType, RoutersAreFinite
    <3>2. Cardinality(Satisfied) <= Cardinality(Satisfied')
        BY <1>1, <3>1, FS_Subset
    <3>3. Cardinality(seen) \in Nat /\ Cardinality(Satisfied) \in Nat
        BY DiscoveryCounts DEF DiscoveryInv
    <3>. QED
        BY <2>1, <3>1, <3>2, <3>3, LimitIsNatural DEF DiscoveryInv, CountsComeFirst
  <2>. QED  BY <2>1, <2>2, <2>3 DEF CountsComeFirst
<1>. QED  BY <1>2, <1>3

\* There is a goroutine for every provider past the limit, so fewer than one a router
\* if one of them was within it.
LEMMA CountsBoundDeliveries ==
    ASSUME DiscoveryTypeOK, CountsComeFirst
    PROVE  OvershootIsBounded
<1>1. Delivered \subseteq seen /\ IsFiniteSet(seen) /\ Cardinality(seen) \in Nat
    BY DiscoveryCounts DEF CountsComeFirst
<1>2. Cardinality(Delivered) \in Nat /\ Cardinality(Delivered) <= Cardinality(seen)
    BY <1>1, FS_Subset, FS_CardinalityType
<1>. QED
    BY <1>1, <1>2, DiscoveryCounts, LimitIsNatural
       DEF CountsComeFirst, OvershootIsBounded

\* A step of a lookup keeps the invariant.
LEMMA DiscoveryInvStep ==
    DiscoveryInv /\ [DiscoveryNext]_discoveryVars => DiscoveryInv'
<1>1. DiscoveryTypeOK' /\ CountsComeFirst' => OvershootIsBounded'
    BY CountsBoundDeliveries, PTL
<1>. QED
    BY <1>1, DiscoveryTypeOKStep, SendersStep, CountsStep DEF DiscoveryInv

\* However many routers race for however many providers, the reader of a lookup gets
\* each provider once, and fewer than one a router more than the limit.
THEOREM DiscoveryInvariance == DiscoverySpec => []DiscoveryInv
BY InitEstablishesDiscoveryInv, DiscoveryInvStep, PTL DEF DiscoverySpec
=============================================================================
