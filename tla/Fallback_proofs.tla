--------------------------- MODULE Fallback_proofs ---------------------------
(***************************************************************************)
(* Proofs about Fallback for any number of calls, any list of gateways and *)
(* any durations. A step of a call is one of six moves on its own clocks;  *)
(* only an answer that asks for a pause touches a host besides. What a     *)
(* Get may take is added up turn by turn (TurnIsDueBy).                    *)
(***************************************************************************)
EXTENDS Fallback, TLAPS

-----------------------------------------------------------------------------
\* The operators.

\* A turn within the list is the turn of a host.
LEMMA HostsAreListed ==
    Len(GatewayHosts) \in Nat /\ \A i \in 1..Len(GatewayHosts) : GatewayHosts[i] \in Hosts
BY GatewaysAreListed DEF Hosts

\* A pause is positive and never longer than the cap, whatever Retry-After said and
\* however its nanoseconds wrap around.
LEMMA DelayIsCapped == \A secs \in RetryAfters : retryAfterDelay(secs) \in 1..MaxBackoff
<1>. SUFFICES ASSUME NEW secs \in RetryAfters PROVE retryAfterDelay(secs) \in 1..MaxBackoff
    OBVIOUS
<1>. DEFINE nanos == secs * Second
<1>. DEFINE half == DurationRange \div 2
<1>1. nanos \in Int /\ half \in Int /\ DurationRange \in Nat \ {0}
    BY TimesArePositive, RetryAftersAreIntegers
<1>. HIDE DEF nanos, half
<1>2. (nanos + half) % DurationRange \in Int
    BY <1>1
<1>3. Wrapped(nanos) \in Int
    BY <1>1, <1>2 DEF Wrapped, half
<1>. QED  BY <1>3, TimesArePositive DEF retryAfterDelay, Least, nanos

\* The primary phase takes no more than its timeout and, of a caller that has a
\* deadline, no more than three quarters.
LEMMA PrimaryKeepsShare ==
    \A budget \in Budgets :
        /\ primaryDeadline(budget) \in 0..PrimaryTimeout
        /\ budget > 0 => /\ 4 * primaryDeadline(budget) <= 3 * budget
                         /\ primaryDeadline(budget) <= budget
BY TimesArePositive, BudgetsAreNatural DEF primaryDeadline, Least

\* One turn adds one step.
LEMMA TurnsFollow ==
    /\ TurnIsDueBy(1) = PrimaryTimeout
    /\ \A i \in 1..(Len(GatewayHosts) + 1) :
        TurnIsDueBy(i) \in Nat /\ TurnIsDueBy(i + 1) = TurnIsDueBy(i) + StepTimeout
<1>1. Len(GatewayHosts) \in Nat /\ PrimaryTimeout \in Nat /\ StepTimeout \in Nat
    BY HostsAreListed, TimesArePositive
<1>2. TurnIsDueBy(1) = PrimaryTimeout
    BY <1>1 DEF TurnIsDueBy
<1>3. ASSUME NEW i \in 1..(Len(GatewayHosts) + 1)
      PROVE  TurnIsDueBy(i) \in Nat /\ TurnIsDueBy(i + 1) = TurnIsDueBy(i) + StepTimeout
  <2>1. \A j \in Nat : /\ j * StepTimeout \in Nat
                       /\ (j + 1) * StepTimeout = j * StepTimeout + StepTimeout
    BY <1>1
  <2>2. i - 1 \in Nat /\ (i - 1) + 1 = (i + 1) - 1
    BY <1>1
  <2>. QED  BY <1>1, <2>1, <2>2 DEF TurnIsDueBy
<1>. QED  BY <1>2, <1>3

\* The last turn is due by the end of the walk, and no turn later.
LEMMA TurnsAreDueByTheEnd ==
    \A i \in 1..(Len(GatewayHosts) + 1) :
        TurnIsDueBy(i) <= PrimaryTimeout + Len(GatewayHosts) * StepTimeout
<1>. SUFFICES ASSUME NEW i \in 1..(Len(GatewayHosts) + 1)
              PROVE  TurnIsDueBy(i) <= PrimaryTimeout + Len(GatewayHosts) * StepTimeout
    OBVIOUS
<1>1. Len(GatewayHosts) \in Nat /\ PrimaryTimeout \in Nat /\ StepTimeout \in Nat
    BY HostsAreListed, TimesArePositive
<1>2. \A m, n \in Nat : m <= n => m * StepTimeout <= n * StepTimeout
    BY <1>1
<1>3. i - 1 \in Nat /\ i - 1 <= Len(GatewayHosts)
    BY <1>1
<1>4. (i - 1) * StepTimeout <= Len(GatewayHosts) * StepTimeout
    BY <1>1, <1>2, <1>3
<1>5. (i - 1) * StepTimeout \in Int /\ Len(GatewayHosts) * StepTimeout \in Int
    BY <1>1, <1>3
<1>. QED  BY <1>1, <1>4, <1>5 DEF TurnIsDueBy

-----------------------------------------------------------------------------
\* The moves of a call.

CallsTyped ==
    /\ at \in [Calls -> {"idle", "primary", "looping", "beginning", "asking", "returned"}]
    /\ turn \in [Calls -> 1..(Len(GatewayHosts) + 1)]
    /\ started \in [Calls -> Times]
    /\ deadline \in [Calls -> Times]
    /\ ends \in [Calls -> Times]
    /\ outcome \in [Calls -> {"none", "ok", "failed"}]

Asking == [when : Times, secs : RetryAfters \cup {0}, past : SUBSET Calls]

HostsTyped ==
    /\ now \in 0..MaxTime
    /\ cooldown \in [Hosts -> 0..(MaxTime + MaxBackoff)]
    /\ asked \in [Hosts -> Asking]

Starts(c) ==
    /\ at[c] = "idle"
    /\ at' = [at EXCEPT ![c] = "primary"]
    /\ started' = [started EXCEPT ![c] = now]
    /\ \E budget \in Budgets :
        /\ deadline' = [deadline EXCEPT ![c] = IF budget = 0 THEN Never ELSE After(budget)]
        /\ ends' = [ends EXCEPT ![c] = After(primaryDeadline(budget))]
    /\ UNCHANGED <<turn, outcome>>

Returns(c) ==
    /\ at[c] \in {"primary", "looping", "asking"}
    /\ at' = [at EXCEPT ![c] = "returned"]
    /\ \E how \in {"ok", "failed"} :
        /\ outcome' = [outcome EXCEPT ![c] = how]
        /\ how = "failed" => now >= deadline[c] \/ turn[c] > Len(GatewayHosts)
    /\ started' = [started EXCEPT ![c] = Never]
    /\ deadline' = [deadline EXCEPT ![c] = Never]
    /\ ends' = [ends EXCEPT ![c] = Never]
    /\ UNCHANGED turn

WalkBegins(c) ==
    /\ at[c] = "primary"
    /\ at' = [at EXCEPT ![c] = "looping"]
    /\ UNCHANGED <<turn, started, deadline, ends, outcome>>

NextTurn(c) ==
    /\ at[c] \in {"looping", "asking"}
    /\ turn[c] <= Len(GatewayHosts)
    /\ at' = [at EXCEPT ![c] = "looping"]
    /\ turn' = [turn EXCEPT ![c] = @ + 1]
    /\ UNCHANGED <<started, deadline, ends, outcome>>

Chooses(c) ==
    /\ at[c] = "looping"
    /\ turn[c] <= Len(GatewayHosts)
    /\ ~gatewayCoolingDown(Host(c))
    /\ at' = [at EXCEPT ![c] = "beginning"]
    /\ UNCHANGED <<turn, started, deadline, ends, outcome>>

Asks(c) ==
    /\ at[c] = "beginning"
    /\ at' = [at EXCEPT ![c] = "asking"]
    /\ ends' = [ends EXCEPT ![c] = Least(After(StepTimeout), deadline[c])]
    /\ UNCHANGED <<turn, started, deadline, outcome>>

CallMoves(c) ==
    Starts(c) \/ Returns(c) \/ WalkBegins(c) \/ NextTurn(c) \/ Chooses(c) \/ Asks(c)

\* The answer that makes a call move on asks for a pause.
Throttles(c) ==
    /\ at[c] = "asking" /\ at'[c] \in {"looping", "returned"}
    /\ turn[c] <= Len(GatewayHosts)
    /\ \E secs \in RetryAfters :
        /\ cooldown' = [cooldown EXCEPT ![Host(c)] = now + retryAfterDelay(secs)]
        /\ asked' = [asked EXCEPT ![Host(c)] =
                        [when |-> now, secs |-> secs,
                         past |-> {d \in Calls : at[d] = "beginning" /\ Host(d) = Host(c)}]]

Moves ==
    \/ /\ UNCHANGED now
       /\ \E c \in Calls : /\ CallMoves(c)
                           /\ UNCHANGED <<cooldown, asked>> \/ Throttles(c)
    \/ Tick
    \/ UNCHANGED vars

\* Each action is one of the moves, or touches no clock of a call.
LEMMA EveryMove == ASSUME FallbackInv, [Next]_vars PROVE Moves
<1>. USE DEF FallbackInv, TypeOK, ContextsAreNested, Waiting, InTime, CallMoves
<1>0. Len(GatewayHosts) \in Nat
    BY HostsAreListed
<1>1. ASSUME NEW c \in Calls, Get(c)
      PROVE  Starts(c) /\ UNCHANGED <<now, cooldown, asked>>
    BY <1>1 DEF Get, Starts, Goto
<1>2. ASSUME NEW c \in Calls, PrimarySucceeds(c)
      PROVE  Returns(c) /\ UNCHANGED <<now, cooldown, asked>>
    BY <1>2 DEF PrimarySucceeds, Return, Goto, Returns
<1>3. ASSUME NEW c \in Calls, PrimaryFails(c)
      PROVE  (Returns(c) \/ WalkBegins(c)) /\ UNCHANGED <<now, cooldown, asked>>
    BY <1>3 DEF PrimaryFails, Return, Proceed, Goto, Returns, WalkBegins
<1>4. ASSUME NEW c \in Calls, Loop(c)
      PROVE  /\ Returns(c) \/ NextTurn(c) \/ Chooses(c)
             /\ UNCHANGED <<now, cooldown, asked>>
    BY <1>4 DEF Loop, Return, Proceed, Goto, Returns, NextTurn, Chooses
<1>5. ASSUME NEW c \in Calls, Begin(c)
      PROVE  Asks(c) /\ UNCHANGED <<now, cooldown, asked>>
    BY <1>5 DEF Begin, Asks, Goto
<1>6. ASSUME NEW c \in Calls, Served(c)
      PROVE  Returns(c) /\ UNCHANGED <<now, cooldown, asked>>
    BY <1>6 DEF Served, Return, Goto, Returns
<1>7. ASSUME NEW c \in Calls, at[c] = "asking", AttemptFails(c)
      PROVE  Returns(c) \/ NextTurn(c)
    BY <1>7 DEF AttemptFails, Return, Proceed, Goto, Returns, NextTurn
<1>8. ASSUME NEW c \in Calls, Unserved(c)
      PROVE  (Returns(c) \/ NextTurn(c)) /\ UNCHANGED <<now, cooldown, asked>>
    BY <1>7, <1>8 DEF Unserved
<1>9. ASSUME NEW c \in Calls, NEW secs \in RetryAfters, Throttled(c, secs)
      PROVE  (Returns(c) \/ NextTurn(c)) /\ Throttles(c) /\ UNCHANGED now
  <2>1. at[c] = "asking" /\ AttemptFails(c) /\ UNCHANGED now
    BY <1>9 DEF Throttled
  <2>2. turn[c] <= Len(GatewayHosts)
    BY <2>1
  <2>3. Returns(c) \/ NextTurn(c)
    BY <1>7, <2>1
  <2>4. at'[c] \in {"looping", "returned"}
    BY <2>3 DEF Returns, NextTurn
  <2>. QED  BY <1>9, <2>1, <2>2, <2>3, <2>4 DEF Throttled, Throttles
<1>. HIDE DEF FallbackInv, TypeOK, ContextsAreNested, Waiting, InTime
<1>. QED
    BY <1>1, <1>2, <1>3, <1>4, <1>5, <1>6, <1>8, <1>9 DEF Next, fetchFromGateways,
       Moves

-----------------------------------------------------------------------------
\* The clocks of a call.

\* A move keeps the types of what it moves.
LEMMA MovesKeepTypes ==
    ASSUME FallbackInv, NEW c \in Calls, CallMoves(c)
    PROVE  CallsTyped'
<1>1. CallsTyped /\ now \in 0..MaxTime /\ MaxTime \in Nat
    BY BudgetsAreNatural DEF FallbackInv, TypeOK, CallsTyped
<1>2. now \in Times /\ Never \in Times /\ Times \subseteq Int
    BY <1>1 DEF Times, Never
<1>3. ASSUME NEW wait \in Nat PROVE After(wait) \in Times
    BY <1>1 DEF After, Least, Times, Never
<1>. USE <1>1, <1>2 DEF CallsTyped
<1>4. CASE Starts(c)
  <2>1. PICK budget \in Budgets :
            /\ deadline' = [deadline EXCEPT ![c] = IF budget = 0 THEN Never ELSE After(budget)]
            /\ ends' = [ends EXCEPT ![c] = After(primaryDeadline(budget))]
    BY <1>4 DEF Starts
  <2>2. After(budget) \in Times /\ After(primaryDeadline(budget)) \in Times
    BY <1>3, PrimaryKeepsShare, BudgetsAreNatural
  <2>3. at' \in [Calls -> {"idle", "primary", "looping", "beginning", "asking", "returned"}]
    BY <1>4 DEF Starts
  <2>4. deadline' \in [Calls -> Times] /\ ends' \in [Calls -> Times]
    BY <2>1, <2>2
  <2>5. started' \in [Calls -> Times] /\ UNCHANGED <<turn, outcome>>
    BY <1>4 DEF Starts
  <2>. QED  BY <2>3, <2>4, <2>5
<1>5. CASE Returns(c)
    BY <1>5 DEF Returns
<1>6. CASE WalkBegins(c)
    BY <1>6 DEF WalkBegins
<1>7. CASE NextTurn(c)
  <2>1. turn' \in [Calls -> 1..(Len(GatewayHosts) + 1)]
    BY <1>7, HostsAreListed DEF NextTurn
  <2>. QED  BY <1>7, <2>1 DEF NextTurn
<1>8. CASE Chooses(c)
    BY <1>8 DEF Chooses
<1>9. CASE Asks(c)
  <2>1. Least(After(StepTimeout), deadline[c]) \in Times
    BY <1>3, TimesArePositive DEF Least
  <2>. QED  BY <1>9, <2>1 DEF Asks
<1>. QED  BY <1>4, <1>5, <1>6, <1>7, <1>8, <1>9 DEF CallMoves

\* A call that moves keeps its time; the others are not concerned.
LEMMA MovesKeepTime ==
    ASSUME FallbackInv, NEW c \in Calls, CallMoves(c), UNCHANGED now
    PROVE  ContextsAreNested'
<1>1. /\ at[c] = "idle" => turn[c] = 1
      /\ Waiting(c) => InTime(c)
    BY DEF FallbackInv, ContextsAreNested
<1>typed. CallsTyped /\ now \in 0..MaxTime
    BY DEF FallbackInv, TypeOK, CallsTyped
<1>never. Never \in Nat /\ Never > MaxTime /\ Never' = Never
    BY BudgetsAreNatural DEF Never
<1>times. /\ StepTimeout \in Nat /\ PrimaryTimeout \in Nat /\ MaxTime \in Nat
          /\ Len(GatewayHosts) \in Nat
    BY TimesArePositive, BudgetsAreNatural, HostsAreListed
<1>own. /\ started[c] \in Int /\ deadline[c] \in Int /\ ends[c] \in Int
        /\ turn[c] \in 1..(Len(GatewayHosts) + 1)
    BY <1>typed, <1>never, <1>times DEF CallsTyped, Times
<1>. USE <1>typed, <1>never, <1>times DEF CallsTyped, Waiting
<1>2. (at'[c] = "idle" => turn'[c] = 1) /\ (Waiting(c)' => InTime(c)')
  <2>1. CASE Starts(c)
    <3>1. PICK budget \in Budgets :
            /\ deadline' = [deadline EXCEPT ![c] = IF budget = 0 THEN Never ELSE After(budget)]
            /\ ends' = [ends EXCEPT ![c] = After(primaryDeadline(budget))]
        BY <2>1 DEF Starts
    <3>2. /\ at'[c] = "primary" /\ started'[c] = now /\ turn'[c] = 1
          /\ deadline'[c] = (IF budget = 0 THEN Never ELSE After(budget))
          /\ ends'[c] = After(primaryDeadline(budget))
        BY <1>1, <2>1, <3>1 DEF Starts
    <3>3. /\ primaryDeadline(budget) \in 0..PrimaryTimeout
          /\ budget > 0 => /\ 4 * primaryDeadline(budget) <= 3 * budget
                           /\ primaryDeadline(budget) <= budget
        BY PrimaryKeepsShare
    <3>4. budget \in Nat
        BY BudgetsAreNatural
    <3>5. /\ After(primaryDeadline(budget)) \in now..Never
          /\ After(primaryDeadline(budget)) - now <= primaryDeadline(budget)
          /\ budget > 0 => /\ After(budget) \in now..Never
                           /\ After(primaryDeadline(budget)) <= After(budget)
                           /\ After(budget) # Never => After(budget) = now + budget
        BY <3>3, <3>4 DEF After, Least
    <3>6. now <= deadline'[c] /\ now <= ends'[c] /\ ends'[c] <= deadline'[c]
        BY <3>2, <3>4, <3>5
    <3>. HIDE DEF CallsTyped
    <3>7. ends'[c] \in Int /\ ends'[c] - now <= primaryDeadline(budget)
        BY <3>2, <3>5
    <3>8. deadline'[c] # Never => budget > 0 /\ deadline'[c] - now = budget
        BY <3>2, <3>4, <3>5
    <3>9. ends'[c] - now <= PrimaryTimeout
        BY <3>3, <3>7
    <3>10. deadline'[c] # Never => 4 * (ends'[c] - now) <= 3 * (deadline'[c] - now)
        BY <3>3, <3>4, <3>7, <3>8
    <3>. QED  BY <3>2, <3>4, <3>6, <3>9, <3>10 DEF InTime
  <2>2. CASE Returns(c)
    BY <2>2 DEF Returns
  <2>3. CASE WalkBegins(c)
    <3>1. /\ at[c] = "primary" /\ at'[c] = "looping" /\ turn'[c] = turn[c]
          /\ started'[c] = started[c] /\ deadline'[c] = deadline[c] /\ ends'[c] = ends[c]
        BY <2>3 DEF WalkBegins
    <3>2. TurnIsDueBy(turn[c]) = PrimaryTimeout
        BY <1>1, <3>1, TurnsFollow DEF InTime
    <3>. QED  BY <1>1, <1>own, <3>1, <3>2 DEF InTime
  <2>4. CASE NextTurn(c)
    <3>1. /\ at'[c] = "looping" /\ turn'[c] = turn[c] + 1
          /\ started'[c] = started[c] /\ deadline'[c] = deadline[c] /\ ends'[c] = ends[c]
          /\ at[c] \in {"looping", "asking"} /\ turn[c] <= Len(GatewayHosts)
        BY <2>4 DEF NextTurn
    <3>2. /\ TurnIsDueBy(turn[c]) \in Nat
          /\ TurnIsDueBy(turn[c] + 1) = TurnIsDueBy(turn[c]) + StepTimeout
        BY <1>own, TurnsFollow
    <3>. QED  BY <1>1, <1>own, <3>1, <3>2 DEF InTime
  <2>5. CASE Chooses(c)
    BY <1>1, <2>5 DEF Chooses, InTime
  <2>6. CASE Asks(c)
    <3>1. /\ at'[c] = "asking" /\ turn'[c] = turn[c] /\ at[c] = "beginning"
          /\ started'[c] = started[c] /\ deadline'[c] = deadline[c]
          /\ ends'[c] = Least(After(StepTimeout), deadline[c])
        BY <2>6 DEF Asks
    <3>2. /\ TurnIsDueBy(turn[c]) \in Nat
          /\ TurnIsDueBy(turn[c] + 1) = TurnIsDueBy(turn[c]) + StepTimeout
        BY <1>own, TurnsFollow
    <3>3. ends'[c] \in Int /\ ends'[c] <= now + StepTimeout /\ ends'[c] <= deadline[c]
        BY <1>own, <3>1 DEF After, Least
    <3>4. now <= deadline[c] => now <= ends'[c]
        BY <1>own, <3>1 DEF After, Least
    <3>. QED  BY <1>1, <1>own, <3>1, <3>2, <3>3, <3>4 DEF InTime
  <2>. QED  BY <2>1, <2>2, <2>3, <2>4, <2>5, <2>6 DEF CallMoves
<1>3. ASSUME NEW d \in Calls, d # c
      PROVE  (at'[d] = "idle" => turn'[d] = 1) /\ (Waiting(d)' => InTime(d)')
  <2>1. /\ at'[d] = at[d] /\ turn'[d] = turn[d] /\ started'[d] = started[d]
        /\ deadline'[d] = deadline[d] /\ ends'[d] = ends[d]
    BY <1>3 DEF CallMoves, Starts, Returns, WalkBegins, NextTurn, Chooses, Asks
  <2>2. (at[d] = "idle" => turn[d] = 1) /\ (Waiting(d) => InTime(d))
    BY DEF FallbackInv, ContextsAreNested
  <2>. QED  BY <2>1, <2>2 DEF InTime, TurnIsDueBy
<1>. HIDE DEF CallsTyped, Waiting
<1>. QED  BY <1>2, <1>3 DEF ContextsAreNested

\* Time passes only within the contexts that are waited under.
LEMMA TickKeepsTime == ASSUME FallbackInv, Tick PROVE ContextsAreNested'
<1>. USE TimesArePositive, BudgetsAreNatural
     DEF FallbackInv, TypeOK, Times, Never, Waiting
<1>. SUFFICES ASSUME NEW c \in Calls
              PROVE  (at'[c] = "idle" => turn'[c] = 1) /\ (Waiting(c)' => InTime(c)')
    BY DEF ContextsAreNested
<1>1. (at[c] = "idle" => turn[c] = 1) /\ (Waiting(c) => InTime(c))
    BY DEF ContextsAreNested
<1>2. /\ now' = now + 1 /\ at'[c] = at[c] /\ turn'[c] = turn[c] /\ started'[c] = started[c]
      /\ deadline'[c] = deadline[c] /\ ends'[c] = ends[c]
      /\ at[c] \notin {"looping", "beginning"}
      /\ at[c] \in {"primary", "asking"} => now < ends[c]
    BY DEF Tick
<1>3. now \in Int /\ started[c] \in Int /\ deadline[c] \in Int /\ ends[c] \in Int
    OBVIOUS
<1>4. Never' = Never /\ (Waiting(c)' <=> Waiting(c))
    BY <1>2
<1>5. Waiting(c) => at[c] \in {"primary", "asking"}
    BY <1>2
<1>. HIDE DEF FallbackInv, TypeOK, Times, Never, Waiting
<1>6. CASE Waiting(c)
  <2>1. InTime(c) /\ at[c] \in {"primary", "asking"}
    BY <1>1, <1>5, <1>6
  <2>2. now' <= ends[c] /\ started[c] <= now' /\ now' <= deadline[c]
    BY <1>2, <1>3, <2>1 DEF InTime
  <2>3. InTime(c)'
    BY <1>2, <1>4, <2>1, <2>2 DEF InTime, TurnIsDueBy
  <2>. QED  BY <1>1, <1>2, <2>3
<1>7. CASE ~Waiting(c)
    BY <1>1, <1>2, <1>4, <1>7
<1>. QED  BY <1>6, <1>7

-----------------------------------------------------------------------------
\* The pauses of the hosts.

\* A pause that is asked for is capped, counted from now.
LEMMA ThrottleKeepsTypes ==
    ASSUME FallbackInv, NEW c \in Calls, Throttles(c), UNCHANGED now
    PROVE  HostsTyped' /\ PausesAreCapped'
<1>1. PICK secs \in RetryAfters :
        /\ cooldown' = [cooldown EXCEPT ![Host(c)] = now + retryAfterDelay(secs)]
        /\ asked' = [asked EXCEPT ![Host(c)] =
                        [when |-> now, secs |-> secs,
                         past |-> {d \in Calls : at[d] = "beginning" /\ Host(d) = Host(c)}]]
    BY DEF Throttles
<1>. DEFINE a == [when |-> now, secs |-> secs,
                  past |-> {d \in Calls : at[d] = "beginning" /\ Host(d) = Host(c)}]
<1>2. now \in 0..MaxTime /\ MaxTime \in Nat /\ MaxBackoff \in Nat
    BY TimesArePositive, BudgetsAreNatural DEF FallbackInv, TypeOK
<1>3. a \in Asking
    BY <1>2 DEF Asking, Times, Never
<1>4. Host(c) \in Hosts
    BY HostsAreListed DEF Throttles, Host, FallbackInv, TypeOK
<1>5. retryAfterDelay(secs) \in 1..MaxBackoff
    BY DelayIsCapped
<1>6. /\ cooldown \in [Hosts -> 0..(MaxTime + MaxBackoff)] /\ asked \in [Hosts -> Asking]
      /\ \A h \in Hosts : cooldown[h] <= now + MaxBackoff
    BY DEF FallbackInv, TypeOK, Asking, PausesAreCapped
<1>7. asked' \in [Hosts -> Asking]
  <2>. HIDE DEF a
  <2>. QED  BY <1>1, <1>3, <1>4, <1>6 DEF a
<1>8. now + retryAfterDelay(secs) \in 0..(MaxTime + MaxBackoff)
    BY <1>2, <1>5
<1>9. cooldown' \in [Hosts -> 0..(MaxTime + MaxBackoff)]
    BY <1>1, <1>4, <1>6, <1>8
<1>10. PausesAreCapped'
    BY <1>1, <1>2, <1>4, <1>5, <1>6 DEF PausesAreCapped
<1>. QED  BY <1>2, <1>7, <1>9, <1>10 DEF HostsTyped

\* The downloads past their look at the host that asks are those it records.
LEMMA ThrottleFindsIntruders ==
    ASSUME FallbackInv, NEW c \in Calls, CallMoves(c), Throttles(c), UNCHANGED now
    PROVE  IntrudersWereUnderWay'
<1>1. PICK secs \in RetryAfters :
        /\ cooldown' = [cooldown EXCEPT ![Host(c)] = now + retryAfterDelay(secs)]
        /\ asked' = [asked EXCEPT ![Host(c)] =
                        [when |-> now, secs |-> secs,
                         past |-> {d \in Calls : at[d] = "beginning" /\ Host(d) = Host(c)}]]
    BY DEF Throttles
<1>. SUFFICES ASSUME NEW d \in Calls, at'[d] = "beginning", gatewayCoolingDown(Host(d))'
              PROVE  d \in asked'[Host(d)'].past
    BY DEF IntrudersWereUnderWay
<1>2. at[c] = "asking" /\ at'[c] # "beginning"
    BY DEF Throttles
<1>3. d # c
    BY <1>2
<1>4. at'[d] = at[d] /\ turn'[d] = turn[d]
    BY <1>3 DEF CallMoves, Starts, Returns, WalkBegins, NextTurn, Chooses, Asks,
       FallbackInv,
       TypeOK
<1>5. Host(d)' = Host(d)
    BY <1>4 DEF Host
<1>6. asked \in [Hosts -> Asking] /\ cooldown \in [Hosts -> 0..(MaxTime + MaxBackoff)]
    BY DEF FallbackInv, TypeOK, Asking
<1>7. at[d] = "beginning" => Host(d) \in Hosts
    BY HostsAreListed DEF FallbackInv, TypeOK, ContextsAreNested, Waiting, InTime,
       Host
<1>8. CASE Host(d) = Host(c)
  <2>. DEFINE a == [when |-> now, secs |-> secs,
                    past |-> {e \in Calls : at[e] = "beginning" /\ Host(e) = Host(c)}]
  <2>1. asked'[Host(d)'] = a
    BY <1>1, <1>4, <1>5, <1>6, <1>7, <1>8
  <2>2. d \in a.past
    BY <1>4, <1>8
  <2>. QED  BY <2>1, <2>2
<1>9. CASE Host(d) # Host(c)
  <2>1. asked'[Host(d)] = asked[Host(d)] /\ cooldown'[Host(d)] = cooldown[Host(d)]
    BY <1>1, <1>6, <1>7, <1>4, <1>9
  <2>2. gatewayCoolingDown(Host(d))
    BY <1>5, <2>1 DEF gatewayCoolingDown
  <2>. QED  BY <1>4, <1>5, <2>1, <2>2 DEF FallbackInv, IntrudersWereUnderWay
<1>. QED  BY <1>8, <1>9

\* Whoever goes on to ask a host has just looked, and found it in no pause.
LEMMA MovesFindIntruders ==
    ASSUME FallbackInv, NEW c \in Calls, CallMoves(c), UNCHANGED <<now, cooldown, asked>>
    PROVE  IntrudersWereUnderWay'
<1>. SUFFICES ASSUME NEW d \in Calls, at'[d] = "beginning", gatewayCoolingDown(Host(d))'
              PROVE  d \in asked[Host(d)'].past
    BY DEF IntrudersWereUnderWay
<1>1. CASE d = c
  <2>1. Chooses(c)
    BY <1>1 DEF CallMoves, Starts, Returns, WalkBegins, NextTurn, Chooses, Asks,
       FallbackInv,
       TypeOK
  <2>. QED  BY <1>1, <2>1 DEF Chooses, gatewayCoolingDown, Host
<1>2. CASE d # c
  <2>1. at'[d] = at[d] /\ turn'[d] = turn[d]
    BY <1>2 DEF CallMoves, Starts, Returns, WalkBegins, NextTurn, Chooses, Asks,
       FallbackInv,
       TypeOK
  <2>. QED  BY <2>1 DEF FallbackInv, IntrudersWereUnderWay, gatewayCoolingDown, Host
<1>. QED  BY <1>1, <1>2

\* Time does not pass between the look and the request.
LEMMA TickFindsIntruders == ASSUME FallbackInv, Tick PROVE IntrudersWereUnderWay'
<1>. SUFFICES ASSUME NEW d \in Calls, at[d] = "beginning"
              PROVE  FALSE
    BY DEF IntrudersWereUnderWay, Tick
<1>. QED  BY DEF Tick

-----------------------------------------------------------------------------
\* A phase under a context that keeps the share keeps it.
LEMMA NestedKeepsShare == TypeOK /\ ContextsAreNested => FallbackKeepsItsShare
<1>. SUFFICES ASSUME TypeOK, ContextsAreNested, NEW c \in Calls, at[c] = "primary",
                     deadline[c] # Never
              PROVE  4 * (now - started[c]) <= 3 * (deadline[c] - started[c])
    BY DEF FallbackKeepsItsShare
<1>1. now \in Int /\ started[c] \in Int /\ deadline[c] \in Int /\ ends[c] \in Int
    BY TimesArePositive, BudgetsAreNatural DEF TypeOK, Times, Never
<1>2. now <= ends[c] /\ 4 * (ends[c] - started[c]) <= 3 * (deadline[c] - started[c])
    BY DEF ContextsAreNested, Waiting, InTime
<1>. QED  BY <1>1, <1>2

\* At first nobody waits and no host is in a pause.
LEMMA InitEstablishesFallbackInv == Init => FallbackInv
<1>. SUFFICES ASSUME Init PROVE FallbackInv
    OBVIOUS
<1>0. MaxTime \in Nat /\ MaxBackoff \in Nat /\ Len(GatewayHosts) \in Nat
    BY TimesArePositive, BudgetsAreNatural, HostsAreListed
<1>1. [when |-> Never, secs |-> 0, past |-> {}] \in Asking
    BY <1>0 DEF Asking, Times, Never
<1>2. TypeOK
    BY <1>0, <1>1 DEF Init, TypeOK, Times, Never, Asking
<1>3. ContextsAreNested /\ IntrudersWereUnderWay /\ FallbackKeepsItsShare
    BY DEF Init, ContextsAreNested, Waiting, IntrudersWereUnderWay,
       FallbackKeepsItsShare
<1>4. PausesAreCapped
    BY <1>0 DEF Init, PausesAreCapped
<1>. QED  BY <1>2, <1>3, <1>4 DEF FallbackInv

\* A step keeps the invariant: of the calls, of the hosts, of both.
LEMMA FallbackInvStep == FallbackInv /\ [Next]_vars => FallbackInv'
<1>. SUFFICES ASSUME FallbackInv, [Next]_vars PROVE FallbackInv'
    OBVIOUS
<1>0. ASSUME CallsTyped', HostsTyped', ContextsAreNested', PausesAreCapped',
             IntrudersWereUnderWay'
      PROVE  FallbackInv'
  <2>1. TypeOK'
    BY <1>0 DEF TypeOK, CallsTyped, HostsTyped, Asking
  <2>2. TypeOK' /\ ContextsAreNested' => FallbackKeepsItsShare'
    BY NestedKeepsShare, PTL
  <2>. QED  BY <1>0, <2>1, <2>2 DEF FallbackInv
<1>1. ASSUME NEW c \in Calls, CallMoves(c), UNCHANGED <<now, cooldown, asked>>
      PROVE  FallbackInv'
  <2>1. HostsTyped' /\ PausesAreCapped'
    BY <1>1 DEF FallbackInv, TypeOK, HostsTyped, Asking, PausesAreCapped
  <2>. QED  BY <1>0, <1>1, <2>1, MovesKeepTypes, MovesKeepTime, MovesFindIntruders
<1>2. ASSUME NEW c \in Calls, CallMoves(c), Throttles(c), UNCHANGED now
      PROVE  FallbackInv'
    BY <1>0, <1>2, MovesKeepTypes, MovesKeepTime, ThrottleKeepsTypes,
       ThrottleFindsIntruders
<1>3. CASE Tick
  <2>0. now \in Int /\ MaxTime \in Nat /\ MaxBackoff \in Nat
    BY TimesArePositive, BudgetsAreNatural DEF FallbackInv, TypeOK
  <2>1. CallsTyped' /\ HostsTyped'
    BY <1>3, <2>0 DEF Tick, FallbackInv, TypeOK, CallsTyped, HostsTyped, Asking
  <2>2. PausesAreCapped'
    BY <1>3, <2>0 DEF Tick, FallbackInv, TypeOK, PausesAreCapped
  <2>. QED  BY <1>0, <1>3, <2>1, <2>2, TickKeepsTime, TickFindsIntruders
<1>4. CASE UNCHANGED vars
    BY <1>4 DEF vars, FallbackInv, TypeOK, FallbackKeepsItsShare, PausesAreCapped,
       ContextsAreNested, Waiting, InTime, IntrudersWereUnderWay, gatewayCoolingDown, Host,
       TurnIsDueBy
<1>. QED  BY <1>1, <1>2, <1>3, <1>4, EveryMove DEF Moves

-----------------------------------------------------------------------------
\* Whatever the durations, the gateways and what they answer: the fallback keeps its
\* share of the caller's time, no host is left alone for longer than the cap, and
\* each context ends within those around it.
THEOREM FallbackInvariance == Spec => []FallbackInv
BY InitEstablishesFallbackInv, FallbackInvStep, PTL DEF Spec

\* A Get never outlasts its caller, and takes the primary phase and one step a
\* gateway at most.
THEOREM GetTakesNoLonger == Spec => []GetIsBounded
<1>1. FallbackInv => GetIsBounded
  <2>. SUFFICES ASSUME FallbackInv, NEW c \in Calls, Waiting(c)
                PROVE  /\ now <= deadline[c]
                       /\ now - started[c] <= PrimaryTimeout + Len(GatewayHosts) * StepTimeout
    BY DEF GetIsBounded
  <2>1. InTime(c)
    BY DEF FallbackInv, ContextsAreNested
  <2>2. /\ now \in Int /\ started[c] \in Int /\ ends[c] \in Int
        /\ turn[c] \in 1..(Len(GatewayHosts) + 1) /\ Len(GatewayHosts) \in Nat
    BY TimesArePositive, BudgetsAreNatural, HostsAreListed
       DEF FallbackInv, TypeOK, Times, Never
  <2>. DEFINE whole == PrimaryTimeout + Len(GatewayHosts) * StepTimeout
  <2>3. /\ \A i \in 1..(Len(GatewayHosts) + 1) : TurnIsDueBy(i) \in Int /\ TurnIsDueBy(i) <= whole
        /\ PrimaryTimeout <= whole /\ PrimaryTimeout \in Int
    BY <2>2, TurnsFollow, TurnsAreDueByTheEnd, TimesArePositive
  <2>4. whole \in Int
    BY <2>2, TimesArePositive
  <2>. HIDE DEF whole
  <2>5. now - started[c] <= whole
    <3>1. CASE at[c] = "primary"
      BY <2>1, <2>2, <2>3, <2>4, <3>1 DEF InTime
    <3>2. CASE at[c] \in {"looping", "beginning"}
      <4>1. now - started[c] <= TurnIsDueBy(turn[c])
        BY <2>1, <3>2 DEF InTime
      <4>2. TurnIsDueBy(turn[c]) \in Int /\ TurnIsDueBy(turn[c]) <= whole
        BY <2>2, <2>3
      <4>. QED  BY <2>2, <2>4, <4>1, <4>2
    <3>3. CASE at[c] = "asking"
      <4>1. now <= ends[c] /\ ends[c] - started[c] <= TurnIsDueBy(turn[c] + 1)
        BY <2>1, <3>3 DEF InTime
      <4>2. turn[c] + 1 \in 1..(Len(GatewayHosts) + 1)
        BY <2>1, <2>2, <3>3 DEF InTime
      <4>3. TurnIsDueBy(turn[c] + 1) \in Int /\ TurnIsDueBy(turn[c] + 1) <= whole
        BY <2>3, <4>2
      <4>. QED  BY <2>2, <2>4, <4>1, <4>3
    <3>. QED  BY <3>1, <3>2, <3>3 DEF Waiting
  <2>. QED  BY <2>1, <2>5 DEF InTime, whole
<1>. QED  BY <1>1, FallbackInvariance, PTL

\* A request goes out to a host in a pause only from a download that had looked
\* before the host asked for it.
THEOREM OnlyTheUnwarnedIntrude == Spec => OnlyUnderWayIntrude
<1>. DEFINE Warned ==
        \A c \in Calls : Sends(c) /\ now < cooldown[Host(c)] => c \in asked[Host(c)].past
<1>1. FallbackInv => Warned
    BY DEF FallbackInv, IntrudersWereUnderWay, gatewayCoolingDown, Sends
<1>2. FallbackInv /\ [Next]_vars => [Warned]_vars
    BY <1>1
<1>. QED  BY <1>2, FallbackInvariance, PTL DEF Spec, OnlyUnderWayIntrude

\* A caller who waits as long as it takes is failed only when every gateway has had
\* its turn.
THEOREM NoGatewayIsPassedOver == Spec => EveryGatewayHasItsTurn
<1>. DEFINE Turned ==
        \A c \in Calls :
            outcome[c] = "none" /\ outcome'[c] = "failed" /\ deadline[c] = Never
                => turn[c] > Len(GatewayHosts)
<1>1. ASSUME FallbackInv, [Next]_vars PROVE Turned
  <2>. SUFFICES ASSUME NEW c \in Calls, outcome[c] = "none", outcome'[c] = "failed",
                       deadline[c] = Never
                PROVE  turn[c] > Len(GatewayHosts)
    OBVIOUS
  <2>1. now < Never
    BY <1>1, BudgetsAreNatural DEF FallbackInv, TypeOK, Never
  <2>2. outcome \in [Calls -> {"none", "ok", "failed"}]
    BY <1>1 DEF FallbackInv, TypeOK
  <2>3. ASSUME NEW d \in Calls, CallMoves(d) PROVE Returns(d) /\ d = c
    BY <2>2, <2>3 DEF CallMoves, Starts, Returns, WalkBegins, NextTurn, Chooses,
       Asks
  <2>4. ASSUME Returns(c) PROVE turn[c] > Len(GatewayHosts)
    <3>1. PICK how \in {"ok", "failed"} :
            /\ outcome' = [outcome EXCEPT ![c] = how]
            /\ how = "failed" => now >= deadline[c] \/ turn[c] > Len(GatewayHosts)
        BY <2>4 DEF Returns
    <3>2. how = "failed"
        BY <2>2, <3>1
    <3>3. ~(now >= Never)
        BY <1>1, <2>1, BudgetsAreNatural DEF FallbackInv, TypeOK, Never
    <3>. QED  BY <3>1, <3>2, <3>3
  <2>5. ~Tick /\ ~UNCHANGED vars
    BY DEF Tick, vars
  <2>6. Moves
    BY <1>1, EveryMove
  <2>. QED  BY <2>3, <2>4, <2>5, <2>6 DEF Moves
<1>2. FallbackInv /\ [Next]_vars => [Turned]_vars
    BY <1>1
<1>. QED  BY <1>2, FallbackInvariance, PTL DEF Spec, EveryGatewayHasItsTurn
=============================================================================
