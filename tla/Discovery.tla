----------------------------- MODULE Discovery ------------------------------
(***************************************************************************)
(* parallelDiscovery (client/routing.go): one lookup asks several routers  *)
(* at once and merges what they find. A goroutine per router takes         *)
(* providers off the router's channel, counts the new ones under a mutex   *)
(* and hands them to the one reader of the merged channel; the goroutine   *)
(* that finds the limit reached cancels the others.                        *)
(*                                                                         *)
(* The routers and the reader are outside the module: a router yields some *)
(* of the providers it knows and may hang until its context is done; the   *)
(* reader reads until it has cancelled the lookup or the channel closes.   *)
(***************************************************************************)
EXTENDS Naturals, FiniteSets

CONSTANTS
    Routers,      \* the configured routers
    Providers,    \* the peers they may find
    Limit,        \* the limit of the lookup, 0 for none
    NoProvider

ASSUME RoutersAreFinite == IsFiniteSet(Routers)
ASSUME ProvidersAreFinite == IsFiniteSet(Providers)
ASSUME LimitIsNatural == Limit \in Nat
ASSUME NoProviderIsNone == NoProvider \notin Providers

VARIABLES
    outer,        \* the context of the lookup is done
    cancelled,    \* the context FindProvidersAsync derived from it is
    yielded,      \* what each router has put on its channel
    router,       \* each router: answering, or its channel closed
    at,           \* where the goroutine of each router is
    hand,         \* the provider it has taken
    satisfied,    \* what it found when it counted that provider
    seen,         \* the providers counted
    merged,       \* the merged channel is open
    received      \* how often the reader got each provider

discoveryVars == <<outer, cancelled, yielded, router, at, hand, satisfied, seen,
                   merged, received>>

\* "reading": in the range loop. "counting": a provider taken off the channel.
\* "sending": in the select. "stopping": delivered the one that met the limit.
Positions == {"reading", "counting", "sending", "stopping", "done"}

DiscoveryTypeOK ==
    /\ outer \in BOOLEAN
    /\ cancelled \in BOOLEAN
    /\ yielded \in [Routers -> SUBSET Providers]
    /\ router \in [Routers -> {"answering", "closed"}]
    /\ at \in [Routers -> Positions]
    /\ hand \in [Routers -> Providers \cup {NoProvider}]
    /\ \A r \in Routers : hand[r] # NoProvider <=> at[r] \in {"counting", "sending"}
    /\ satisfied \in [Routers -> BOOLEAN]
    /\ seen \subseteq Providers
    /\ merged \in BOOLEAN
    /\ received \in [Providers -> 0..Cardinality(Routers)]

DiscoveryInit ==
    /\ outer = FALSE
    /\ cancelled = FALSE
    /\ yielded = [r \in Routers |-> {}]
    /\ router = [r \in Routers |-> "answering"]
    /\ at = [r \in Routers |-> "reading"]
    /\ hand = [r \in Routers |-> NoProvider]
    /\ satisfied = [r \in Routers |-> FALSE]
    /\ seen = {}
    /\ merged = TRUE
    /\ received = [p \in Providers |-> 0]

Goto(r, where) == at' = [at EXCEPT ![r] = where]

Outside == UNCHANGED <<outer, yielded, router>>

-----------------------------------------------------------------------------
\* The routers.

\* A router yields a provider, which its goroutine takes; it was handed the same
\* limit and names nobody twice.
Yield(r, p) ==
    /\ router[r] = "answering"
    /\ at[r] = "reading"
    /\ p \notin yielded[r]
    /\ Limit > 0 => Cardinality(yielded[r]) < Limit
    /\ yielded' = [yielded EXCEPT ![r] = @ \cup {p}]
    /\ hand' = [hand EXCEPT ![r] = p]
    /\ Goto(r, "counting")
    /\ UNCHANGED <<outer, cancelled, router, satisfied, seen, merged, received>>

\* A router has no more to say, or gives up.
RouterCloses(r) ==
    /\ router[r] = "answering"
    /\ router' = [router EXCEPT ![r] = "closed"]
    /\ UNCHANGED <<outer, cancelled, yielded, at, hand, satisfied, seen, merged,
                   received>>

-----------------------------------------------------------------------------
\* The goroutine of a router.

\* The section under the mutex: has another router found it, and is the limit
\* met. One that was found before is dropped there and then.
CountProvider(r) ==
    /\ at[r] = "counting"
    /\ seen' = seen \cup {hand[r]}
    /\ satisfied' = [satisfied EXCEPT ![r] = Limit > 0 /\ Cardinality(seen') >= Limit]
    /\ IF hand[r] \in seen
         THEN Goto(r, "reading") /\ hand' = [hand EXCEPT ![r] = NoProvider]
         ELSE Goto(r, "sending") /\ UNCHANGED hand
    /\ Outside /\ UNCHANGED <<cancelled, merged, received>>

\* Wrong variant: the goroutine goes on after the one that met the limit.
DeliverAndRead(r) ==
    /\ at[r] = "sending"
    /\ received' = [received EXCEPT ![hand[r]] = @ + 1]
    /\ hand' = [hand EXCEPT ![r] = NoProvider]
    /\ Goto(r, "reading")
    /\ Outside /\ UNCHANGED <<cancelled, satisfied, seen, merged>>

\* merged <- provider: the reader takes it. It may, whether or not the context
\* is done: select chooses between two ready cases at random.
Deliver(r) ==
    /\ at[r] = "sending"
    /\ received' = [received EXCEPT ![hand[r]] = @ + 1]
    /\ hand' = [hand EXCEPT ![r] = NoProvider]
    /\ Goto(r, IF satisfied[r] THEN "stopping" ELSE "reading")
    /\ Outside /\ UNCHANGED <<cancelled, satisfied, seen, merged>>

\* Wrong variant: the send has no way out.
DropNever(r) == FALSE

\* <-ctx.Done(): what it has in hand is dropped.
Drop(r) ==
    /\ at[r] = "sending"
    /\ cancelled
    /\ hand' = [hand EXCEPT ![r] = NoProvider]
    /\ Goto(r, "done")
    /\ Outside /\ UNCHANGED <<cancelled, satisfied, seen, merged, received>>

\* Wrong variant: the siblings are left running.
StopAlone(r) ==
    /\ at[r] = "stopping"
    /\ Goto(r, "done")
    /\ Outside /\ UNCHANGED <<cancelled, hand, satisfied, seen, merged, received>>

\* "Stop the sibling routers too."
Stop(r) ==
    /\ at[r] = "stopping"
    /\ cancelled' = TRUE
    /\ Goto(r, "done")
    /\ Outside /\ UNCHANGED <<hand, satisfied, seen, merged, received>>

\* The range loop ends with the router's channel.
RouterDone(r) ==
    /\ at[r] = "reading"
    /\ router[r] = "closed"
    /\ Goto(r, "done")
    /\ Outside /\ UNCHANGED <<cancelled, hand, satisfied, seen, merged, received>>

\* wait.Wait() returns; the deferred cancel and close run.
CloseMerged ==
    /\ merged
    /\ \A r \in Routers : at[r] = "done"
    /\ merged' = FALSE
    /\ cancelled' = TRUE
    /\ Outside /\ UNCHANGED <<at, hand, satisfied, seen, received>>

\* The lookup is cancelled or its deadline passes.
LookupEnds ==
    /\ ~outer
    /\ outer' = TRUE
    /\ cancelled' = TRUE
    /\ UNCHANGED <<yielded, router, at, hand, satisfied, seen, merged, received>>

-----------------------------------------------------------------------------
findProviders(r) ==
    CountProvider(r) \/ Deliver(r) \/ Drop(r) \/ Stop(r) \/ RouterDone(r)

DiscoveryNext ==
    \/ \E r \in Routers :
        \/ \E p \in Providers : Yield(r, p)
        \/ RouterCloses(r)
        \/ findProviders(r)
    \/ CloseMerged
    \/ LookupEnds

DiscoverySpec == DiscoveryInit /\ [][DiscoveryNext]_discoveryVars

\* Goroutines run, the reader reads as long as the lookup is its own, and a router
\* whose context is done closes its channel. A router whose context is live owes
\* nothing, and neither does a reader that has cancelled.
Fairness ==
    /\ WF_discoveryVars(CloseMerged)
    /\ \A r \in Routers :
        /\ WF_discoveryVars(CountProvider(r))
        /\ WF_discoveryVars(~outer /\ Deliver(r))
        /\ WF_discoveryVars(Drop(r))
        /\ WF_discoveryVars(Stop(r))
        /\ WF_discoveryVars(RouterDone(r))
        /\ WF_discoveryVars(cancelled /\ RouterCloses(r))

DiscoveryFairSpec == DiscoverySpec /\ Fairness

-----------------------------------------------------------------------------
\* Properties.

Delivered == {p \in Providers : received[p] > 0}

\* "Merges the results": the reader gets no provider twice, however the routers
\* that know it race.
NoDuplicates == \A p \in Providers : received[p] <= 1

\* The limit may be overshot, since routers count before they send and the one
\* that meets the limit does not stop the others at once; but each of them
\* delivers at most one provider too many.
OvershootIsBounded ==
    Limit > 0 => Cardinality(Delivered) < Limit + Cardinality(Routers)

\* What a goroutine is about to send nobody else has sent or is about to.
SendersHoldTheirOwn ==
    \A r \in Routers : at[r] = "sending" =>
        /\ hand[r] \in seen /\ received[hand[r]] = 0
        /\ \A s \in Routers : at[s] = "sending" /\ hand[s] = hand[r] => s = r

\* The goroutines that met the limit with a new provider, and read no more.
Satisfied == {r \in Routers : satisfied[r] /\ at[r] \in {"sending", "stopping", "done"}}

\* A provider is delivered after it was counted, and each counted past the limit
\* has cost a goroutine.
CountsComeFirst ==
    /\ Delivered \subseteq seen
    /\ Limit > 0 => Cardinality(seen) < Limit + Cardinality(Satisfied)

\* What the reader has got is in order at any moment: each provider once, and not
\* many more than were asked for; no two goroutines are to send the same one.
DiscoveryInv ==
    /\ DiscoveryTypeOK
    /\ NoDuplicates
    /\ OvershootIsBounded
    /\ SendersHoldTheirOwn
    /\ CountsComeFirst

\* A lookup that met its limit ends, although the other routers never answer.
LimitEndsLookup ==
    (Limit > 0 /\ Cardinality(Delivered) >= Limit) ~> ~merged

\* A lookup whose context is over ends, though nobody reads any more: no goroutine
\* stays behind on a send.
CancelEndsLookup == outer ~> ~merged

-----------------------------------------------------------------------------
\* What the comments say and the code does not keep.

\* "Merges the results": a lookup that ended of itself, short of its limit, has
\* delivered every provider the routers found.
MergeLosesNothing ==
    ~merged /\ ~outer =>
        \/ seen \subseteq Delivered
        \/ Limit > 0 /\ Cardinality(Delivered) >= Limit
=============================================================================
