------------------------------ MODULE Fallback ------------------------------
(***************************************************************************)
(* The time a Get spends and the pauses gateways ask for                   *)
(* (client/client.go, client/fallback.go): primaryDeadline divides the     *)
(* caller's time between the verified phase and the unverified walk over   *)
(* the gateways, each attempt of the walk has a budget of its own, and the *)
(* hosts that answered "slow down" are skipped by every download of the    *)
(* process until their deadline lapses.                                    *)
(*                                                                         *)
(* Time is a clock in ticks, a tick being the unit of time.Duration. The   *)
(* clock does not pass the end of a context something waits under, and     *)
(* what the code does between waits takes none. What else ends a Get -     *)
(* Close, a size limit, a cancellation - is in GetCall.tla.                *)
(***************************************************************************)
EXTENDS Integers, Sequences

CONSTANTS
    Calls,            \* downloads of the process, with a client each or sharing one
    GatewayHosts,     \* the host of each of client.gateways, in their order
    PrimaryTimeout,   \* client.primaryTimeout
    StepTimeout,      \* client.fallbackStepTimeout
    MaxBackoff,       \* httpnet.DefaultMaxBackoff
    DefaultBackoff,   \* httpnet.DefaultConnectFailureBackoff
    Second,           \* time.Second
    DurationRange,    \* 2^w, for durations of w bits
    RetryAfters,      \* what Retry-After may say in seconds, 0 when it says nothing
    Budgets,          \* how long callers wait, 0 for a caller without a deadline
    MaxTime           \* bound on the clock

ASSUME TimesArePositive ==
    /\ {PrimaryTimeout, StepTimeout, MaxBackoff, DefaultBackoff, Second} \subseteq Nat \ {0}
    /\ DefaultBackoff <= MaxBackoff
    /\ DurationRange \in Nat \ {0} /\ DurationRange % 2 = 0
ASSUME BudgetsAreNatural == Budgets \subseteq Nat /\ MaxTime \in Nat
ASSUME RetryAftersAreIntegers == RetryAfters \subseteq Int
ASSUME GatewaysAreListed == GatewayHosts \in Seq({GatewayHosts[i] : i \in DOMAIN GatewayHosts})

VARIABLES
    now,        \* the clock
    cooldown,   \* gatewayCooldowns.deadline, 0 when absent
    at,         \* where each Get is
    turn,       \* the gateway whose turn it is
    started,    \* when each Get began
    deadline,   \* when its caller's context ends
    ends,       \* when the context it waits under ends: the phase's or the attempt's
    outcome,    \* what Get returned
    asked       \* auxiliary: what each host asked for last, and who was past it then

vars == <<now, cooldown, at, turn, started, deadline, ends, outcome, asked>>

Hosts == {GatewayHosts[i] : i \in DOMAIN GatewayHosts}
Never == MaxTime + 1
Times == 0..Never

Least(a, b) == IF a < b THEN a ELSE b
After(wait) == Least(now + wait, Never)

TypeOK ==
    /\ now \in 0..MaxTime
    /\ cooldown \in [Hosts -> 0..(MaxTime + MaxBackoff)]
    /\ at \in [Calls -> {"idle", "primary", "looping", "beginning", "asking",
                         "returned"}]
    /\ turn \in [Calls -> 1..(Len(GatewayHosts) + 1)]
    /\ started \in [Calls -> Times]
    /\ deadline \in [Calls -> Times]
    /\ ends \in [Calls -> Times]
    /\ outcome \in [Calls -> {"none", "ok", "failed"}]
    /\ asked \in [Hosts -> [when : Times, secs : RetryAfters \cup {0},
                            past : SUBSET Calls]]

Init ==
    /\ now = 0
    /\ cooldown = [h \in Hosts |-> 0]
    /\ at = [c \in Calls |-> "idle"]
    /\ turn = [c \in Calls |-> 1]
    /\ started = [c \in Calls |-> Never]
    /\ deadline = [c \in Calls |-> Never]
    /\ ends = [c \in Calls |-> Never]
    /\ outcome = [c \in Calls |-> "none"]
    /\ asked = [h \in Hosts |-> [when |-> Never, secs |-> 0, past |-> {}]]

-----------------------------------------------------------------------------
\* Durations wrap around at their width.
Wrapped(d) ==
    ((d + DurationRange \div 2) % DurationRange) - DurationRange \div 2

\* The pause a Retry-After of so many seconds asks for, capped.
retryAfterDelay(secs) ==
    LET wait == Wrapped(secs * Second)
    IN  IF wait <= 0 THEN DefaultBackoff ELSE Least(wait, MaxBackoff)

\* Wrong variant: the caller's deadline does not shorten the primary phase.
primaryTimeoutOnly(budget) == PrimaryTimeout

\* primaryDeadline: how long the primary phase may take of what the caller
\* allows. primaryShare is three quarters.
primaryDeadline(budget) ==
    IF budget > 0 THEN Least(PrimaryTimeout, (3 * budget) \div 4) ELSE PrimaryTimeout

gatewayCoolingDown(h) == now < cooldown[h]

Host(c) == GatewayHosts[turn[c]]

Goto(c, where) == at' = [at EXCEPT ![c] = where]

\* Get returns; its contexts and their clocks go.
Return(c, how) ==
    /\ Goto(c, "returned")
    /\ outcome' = [outcome EXCEPT ![c] = how]
    /\ started' = [started EXCEPT ![c] = Never]
    /\ deadline' = [deadline EXCEPT ![c] = Never]
    /\ ends' = [ends EXCEPT ![c] = Never]

Proceed(c, where) ==
    Goto(c, where) /\ UNCHANGED <<outcome, started, deadline, ends>>

-----------------------------------------------------------------------------
\* Get begins: the clocks of the caller and of the primary phase run.
Get(c) ==
    /\ at[c] = "idle"
    /\ \E budget \in Budgets :
        /\ deadline' = [deadline EXCEPT ![c] = IF budget = 0 THEN Never ELSE After(budget)]
        /\ ends' = [ends EXCEPT ![c] = After(primaryDeadline(budget))]
    /\ started' = [started EXCEPT ![c] = now]
    /\ Goto(c, "primary")
    /\ UNCHANGED <<now, cooldown, turn, outcome, asked>>

PrimarySucceeds(c) ==
    /\ at[c] = "primary"
    /\ Return(c, "ok")
    /\ UNCHANGED <<now, cooldown, turn, asked>>

\* It fails or is given up, and the walk begins unless the caller's time is over.
PrimaryFails(c) ==
    /\ at[c] = "primary"
    /\ IF now >= deadline[c] THEN Return(c, "failed") ELSE Proceed(c, "looping")
    /\ UNCHANGED <<now, cooldown, turn, asked>>

\* Wrong variant: a host that is cooling down is asked all the same.
LoopRegardless(c) ==
    /\ at[c] = "looping"
    /\ IF turn[c] > Len(GatewayHosts)
         THEN Return(c, "failed")
         ELSE Proceed(c, "beginning")
    /\ UNCHANGED <<now, cooldown, turn, asked>>

\* The head of the loop: past the last gateway, or a host cooling down, which is
\* skipped, or one to ask.
Loop(c) ==
    /\ at[c] = "looping"
    /\ \/ /\ turn[c] > Len(GatewayHosts)
          /\ Return(c, "failed")
          /\ UNCHANGED turn
       \/ /\ turn[c] <= Len(GatewayHosts)
          /\ gatewayCoolingDown(Host(c))
          /\ turn' = [turn EXCEPT ![c] = @ + 1]
          /\ Proceed(c, "looping")
       \/ /\ turn[c] <= Len(GatewayHosts)
          /\ ~gatewayCoolingDown(Host(c))
          /\ Proceed(c, "beginning")
          /\ UNCHANGED turn
    /\ UNCHANGED <<now, cooldown, asked>>

\* Wrong variant: an attempt lasts as long as its caller waits.
BeginUnbounded(c) ==
    /\ at[c] = "beginning"
    /\ ends' = [ends EXCEPT ![c] = deadline[c]]
    /\ Goto(c, "asking")
    /\ UNCHANGED <<now, cooldown, turn, started, deadline, outcome, asked>>

\* The request goes out, with the step budget and within the caller's deadline.
Begin(c) ==
    /\ at[c] = "beginning"
    /\ ends' = [ends EXCEPT ![c] = Least(After(StepTimeout), deadline[c])]
    /\ Goto(c, "asking")
    /\ UNCHANGED <<now, cooldown, turn, started, deadline, outcome, asked>>

Served(c) ==
    /\ at[c] = "asking"
    /\ Return(c, "ok")
    /\ UNCHANGED <<now, cooldown, turn, asked>>

\* Wrong variant: one step budget for the whole walk.
OneBudgetForAll(c) ==
    IF now >= Least(deadline[c], started[c] + PrimaryTimeout + StepTimeout)
      THEN Return(c, "failed") /\ UNCHANGED turn
      ELSE turn' = [turn EXCEPT ![c] = @ + 1] /\ Proceed(c, "looping")

\* An attempt failed: the caller's time is over, or the next gateway has its turn.
AttemptFails(c) ==
    IF now >= deadline[c]
      THEN Return(c, "failed") /\ UNCHANGED turn
      ELSE turn' = [turn EXCEPT ![c] = @ + 1] /\ Proceed(c, "looping")

Unserved(c) ==
    /\ at[c] = "asking"
    /\ AttemptFails(c)
    /\ UNCHANGED <<now, cooldown, asked>>

\* HTTP 429, 502, 503 or 504: startGatewayCooldown, then a failed attempt. The
\* last host to answer writes the deadline, whatever it was.
Throttled(c, secs) ==
    /\ at[c] = "asking"
    /\ cooldown' = [cooldown EXCEPT ![Host(c)] = now + retryAfterDelay(secs)]
    /\ asked' = [asked EXCEPT ![Host(c)] =
                    [when |-> now, secs |-> secs,
                     past |-> {d \in Calls : at[d] = "beginning" /\ Host(d) = Host(c)}]]
    /\ AttemptFails(c)
    /\ UNCHANGED now

\* A tick, unless something is to be done first or a context ends now.
Tick ==
    /\ now < MaxTime
    /\ \A c \in Calls :
        /\ at[c] \notin {"looping", "beginning"}
        /\ at[c] \in {"primary", "asking"} => now < ends[c]
    /\ now' = now + 1
    /\ UNCHANGED <<cooldown, at, turn, started, deadline, ends, outcome, asked>>

fetchFromGateways(c) ==
    \/ Loop(c)
    \/ Begin(c)
    \/ Served(c)
    \/ Unserved(c)
    \/ \E secs \in RetryAfters : Throttled(c, secs)

Next ==
    \/ \E c \in Calls :
        \/ Get(c)
        \/ PrimarySucceeds(c)
        \/ PrimaryFails(c)
        \/ fetchFromGateways(c)
    \/ Tick

Spec == Init /\ [][Next]_vars

-----------------------------------------------------------------------------
\* Properties.

Waiting(c) == at[c] \in {"primary", "looping", "beginning", "asking"}

\* Get never outlasts its caller, and a caller without a deadline waits for the
\* primary phase and then for each gateway once: "the fallback can therefore run
\* for this long once per configured gateway".
GetIsBounded ==
    \A c \in Calls : Waiting(c) =>
        /\ now <= deadline[c]
        /\ now - started[c] <= PrimaryTimeout + Len(GatewayHosts) * StepTimeout

\* "Some of that deadline always survives for the fallback to use": the primary
\* phase never takes more than its share of the caller's time.
FallbackKeepsItsShare ==
    \A c \in Calls : at[c] = "primary" /\ deadline[c] # Never =>
        4 * (now - started[c]) <= 3 * (deadline[c] - started[c])

\* No host is left alone for longer than the cap, whatever it asked for and
\* however often it was asked.
PausesAreCapped == \A h \in Hosts : cooldown[h] <= now + MaxBackoff

\* How long a Get whose caller waits may have been at it when a gateway has its turn.
TurnIsDueBy(i) == PrimaryTimeout + (i - 1) * StepTimeout

\* Every context of a call ends in time: the primary phase and each attempt within what
\* is left to the caller and to the turns before it.
InTime(c) ==
    /\ started[c] <= now /\ now <= deadline[c]
    /\ at[c] \in {"primary", "asking"} => now <= ends[c] /\ ends[c] <= deadline[c]
    /\ at[c] = "primary" =>
        /\ turn[c] = 1
        /\ ends[c] - started[c] <= PrimaryTimeout
        /\ deadline[c] # Never => 4 * (ends[c] - started[c]) <= 3 * (deadline[c] - started[c])
    /\ at[c] \in {"looping", "beginning"} => now - started[c] <= TurnIsDueBy(turn[c])
    /\ at[c] = "asking" => ends[c] - started[c] <= TurnIsDueBy(turn[c] + 1)
    /\ at[c] \in {"beginning", "asking"} => turn[c] <= Len(GatewayHosts)

ContextsAreNested ==
    \A c \in Calls : /\ at[c] = "idle" => turn[c] = 1
                     /\ Waiting(c) => InTime(c)

\* A download about to ask a host in a pause had looked before the host asked for it.
IntrudersWereUnderWay ==
    \A c \in Calls :
        at[c] = "beginning" /\ gatewayCoolingDown(Host(c)) => c \in asked[Host(c)].past

\* Time is shared out as promised: the fallback keeps its part of the caller's, and
\* a host is never left alone for longer than the cap.
FallbackInv ==
    /\ TypeOK
    /\ FallbackKeepsItsShare
    /\ PausesAreCapped
    /\ ContextsAreNested
    /\ IntrudersWereUnderWay

\* The request of a call goes out.
Sends(c) == at[c] = "beginning" /\ at'[c] = "asking"

\* A host in a pause gets requests only from downloads that had looked before it
\* asked for the pause, in whichever client they run.
OnlyUnderWayIntrude ==
    [][\A c \in Calls : Sends(c) /\ now < cooldown[Host(c)] => c \in asked[Host(c)].past]_vars

\* "Per attempt rather than per phase, so a run of dead gateways cannot starve the
\* one that would have answered": a Get whose caller waits as long as it takes
\* fails only when each gateway has had its turn.
EveryGatewayHasItsTurn ==
    [][\A c \in Calls :
        outcome[c] = "none" /\ outcome'[c] = "failed" /\ deadline[c] = Never
            => turn[c] > Len(GatewayHosts)]_vars

-----------------------------------------------------------------------------
\* What the comments say and the code does not keep.

\* How long a host may expect to be left alone: "Deadlines honor Retry-After and
\* are capped", and a host that names no time still gets a pause.
Pause(secs) == IF secs <= 0 THEN DefaultBackoff ELSE Least(secs * Second, MaxBackoff)

\* "A host that asked to slow down gets no request until its deadline lapses."
HostIsLeftAlone ==
    [][\A c \in Calls : Sends(c) =>
        \/ asked[Host(c)].when = Never
        \/ now >= asked[Host(c)].when + Pause(asked[Host(c)].secs)]_vars

\* "Deadlines honor Retry-After": the pause recorded is the one asked for, up to
\* the cap.
PauseHonoursRetryAfter ==
    \A h \in Hosts : asked[h].when # Never =>
        cooldown[h] = asked[h].when + Pause(asked[h].secs)
=============================================================================
