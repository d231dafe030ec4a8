--------------------------- MODULE Process_proofs ---------------------------
(***************************************************************************)
(* Proofs about Process for any number of threads, clients, names and      *)
(* lookups: no FFI client is lost on any way a download or a close can     *)
(* take, and nothing that happens in the process costs a name its answer   *)
(* while it is live.                                                       *)
(***************************************************************************)
EXTENDS Process, FiniteSetTheorems, TLAPS

\* At first there is no client and nobody has one.
LEMMA InitEstablishesWInv == Init => WInv
BY NoneIsNone DEF Init, WrapperInit, WInv, WrapperTypeOK, NoClientLeaks, MakesAlone,
   UsingClients, RunningIsClosed

\* A download that enters the wrapper and learns what client it has, if any.
LEMMA EnteringKeepsWInv ==
    ASSUME WInv, NEW c \in Calls,
           \/ Enter(c) \/ ClientClosed(c) \/ ClientThere(c) \/ ClientMakes(c) \/ MakeFails(c)
    PROVE  WInv'
<1>. USE NoneIsNone DEF WInv, WrapperTypeOK, NoClientLeaks, MakesAlone, UsingClients,
         RunningIsClosed, Free, ipfsVars, innerVars
<1>1. CASE Enter(c)         BY <1>1 DEF Enter
<1>2. CASE ClientClosed(c)  BY <1>2 DEF ClientClosed
<1>3. CASE ClientThere(c)   BY <1>3 DEF ClientThere
<1>4. CASE ClientMakes(c)   BY <1>4 DEF ClientMakes
<1>5. CASE MakeFails(c)     BY <1>5 DEF MakeFails
<1>. HIDE DEF WInv, WrapperTypeOK, NoClientLeaks, MakesAlone, UsingClients, RunningIsClosed
<1>. QED BY <1>1, <1>2, <1>3, <1>4, <1>5

\* A download at work with its client.
LEMMA DownloadingKeepsWInv ==
    ASSUME WInv, NEW c \in Calls,
           Registered(c) \/ Refused(c) \/ Returns(c) \/ OneShotCloses(c) \/ OneShotClosed(c)
    PROVE  WInv'
<1>. USE NoneIsNone DEF WInv, WrapperTypeOK, NoClientLeaks, MakesAlone, UsingClients,
         RunningIsClosed, ipfsVars, innerVars
<1>1. CASE Registered(c)    BY <1>1 DEF Registered
<1>2. CASE Refused(c)       BY <1>2 DEF Refused
<1>3. CASE Returns(c)       BY <1>3 DEF Returns
<1>4. CASE OneShotCloses(c) BY <1>4 DEF OneShotCloses
<1>5. CASE OneShotClosed(c) BY <1>5 DEF OneShotClosed
<1>. HIDE DEF WInv, WrapperTypeOK, NoClientLeaks, MakesAlone, UsingClients, RunningIsClosed
<1>. QED BY <1>1, <1>2, <1>3, <1>4, <1>5

\* A client is made: by the thread alone in the monitor, or for one download.
LEMMA MakingKeepsWInv ==
    ASSUME WInv, NEW c \in Calls, NEW f \in Clients, Made(c, f) \/ OneShot(c, f)
    PROVE  WInv'
<1>. USE NoneIsNone DEF WInv, WrapperTypeOK, NoClientLeaks, MakesAlone, UsingClients,
         RunningIsClosed, ipfsVars, Fresh
<1>1. CASE Made(c, f)       BY <1>1 DEF Made
<1>2. CASE OneShot(c, f)    BY <1>2 DEF OneShot
<1>. HIDE DEF WInv, WrapperTypeOK, NoClientLeaks, MakesAlone, UsingClients, RunningIsClosed
<1>. QED BY <1>1, <1>2

\* The node of a client, and the closing of the wrapper.
LEMMA ClosingKeepsWInv ==
    ASSUME WInv,
           \/ \E f \in Clients : NodeUp(f) \/ NodeIdle(f)
           \/ TakeOut \/ Retire \/ TornDown \/ Rebuild
    PROVE  WInv'
<1>. USE NoneIsNone DEF WInv, WrapperTypeOK, NoClientLeaks, MakesAlone, UsingClients,
         RunningIsClosed, ipfsVars, innerVars, Free
<1>1. ASSUME NEW f \in Clients, NodeUp(f) PROVE WInv'
    BY <1>1 DEF NodeUp
<1>2. ASSUME NEW f \in Clients, NodeIdle(f) PROVE WInv'
    BY <1>2 DEF NodeIdle
<1>3. CASE TakeOut          BY <1>3 DEF TakeOut
<1>4. CASE Retire           BY <1>4 DEF Retire
<1>5. CASE TornDown         BY <1>5 DEF TornDown
<1>6. CASE Rebuild          BY <1>6 DEF Rebuild
<1>. HIDE DEF WInv, WrapperTypeOK, NoClientLeaks, MakesAlone, UsingClients, RunningIsClosed
<1>. QED BY <1>1, <1>2, <1>3, <1>4, <1>5, <1>6

\* A step of the process keeps what is true of the wrapper.
LEMMA NextPreservesWInv == WInv /\ [Next]_vars => WInv'
<1>. SUFFICES ASSUME WInv, [Next]_vars PROVE WInv'
    OBVIOUS
<1>1. CASE Serves
    BY <1>1, EnteringKeepsWInv, DownloadingKeepsWInv, ClosingKeepsWInv DEF Serves
<1>2. ASSUME NEW f \in Clients, Makes(f) PROVE WInv'
    BY <1>2, MakingKeepsWInv DEF Makes
<1>3. ASSUME NEW f \in Clients, Ends(f) PROVE WInv'
    BY <1>3, DownloadingKeepsWInv, ClosingKeepsWInv DEF Ends
<1>4. CASE UNCHANGED wrapperVars
    BY <1>4 DEF wrapperVars, ipfsVars, innerVars, WInv, WrapperTypeOK,
       NoClientLeaks,
       MakesAlone, UsingClients, RunningIsClosed
<1>. QED
    BY <1>1, <1>2, <1>3, <1>4 DEF Next, Looks, Time, vars

\* Every FFI client that is not closed, and every node that is up, belongs to the
\* wrapper, to the close() that tears it down or to the one download it was made for.
THEOREM ClientsDoNotLeak == Spec => []NoClientLeaks
<1>1. Spec => []WInv
    BY InitEstablishesWInv, NextPreservesWInv, PTL DEF Spec
<1>2. WInv => NoClientLeaks
    BY DEF WInv
<1>. QED BY <1>1, <1>2, PTL

-----------------------------------------------------------------------------
\* What the layers promise the threads.

\* Each of the other threads has one client at most, so a thread that makes one finds
\* an identity that is free.
LEMMA MakerFindsFresh ==
    ASSUME WInv, NEW c \in Calls, at[c] = "making"
    PROVE  \E f \in Clients : Fresh(f)
<1>. DEFINE others == Calls \ {c}
<1>. DEFINE taken == {using[d] : d \in others}
<1>. DEFINE holds == [d \in others |-> using[d]]
<1>1. IsFiniteSet(taken) /\ Cardinality(taken) <= Cardinality(others)
  <2>1. IsFiniteSet(others)
    BY ClientsSuffice, FS_RemoveElement
  <2>2. holds \in Surjection(others, taken)
    BY DEF Surjection
  <2>. QED  BY <2>1, <2>2, FS_Surjection
<1>2. Cardinality(taken) < Cardinality(Clients)
  <2>1. /\ Cardinality(others) = Cardinality(Calls) - 1
        /\ Cardinality(Calls) \in Nat /\ Cardinality(Clients) \in Nat
    BY ClientsSuffice, FS_RemoveElement, FS_CardinalityType
  <2>2. Cardinality(taken) \in Nat
    BY <1>1, FS_CardinalityType
  <2>. QED  BY <1>1, <2>1, <2>2, ClientsSuffice
<1>3. PICK f \in Clients : f \notin taken
  <2>1. ASSUME Clients \subseteq taken PROVE FALSE
    <3>1. Cardinality(Clients) <= Cardinality(taken)
        BY <1>1, <2>1, FS_Subset
    <3>2. Cardinality(Clients) \in Nat /\ Cardinality(taken) \in Nat
        BY <1>1, ClientsSuffice, FS_CardinalityType
    <3>. QED  BY <1>2, <3>1, <3>2
  <2>. QED  BY <2>1
<1>4. client = None /\ running = None /\ using[c] = None
    BY DEF WInv, MakesAlone, UsingClients, RunningIsClosed
<1>5. \A d \in Calls : using[d] # f
    BY <1>3, <1>4, NoneIsNone
<1>6. f \notin {client, running}
    BY <1>4, NoneIsNone
<1>7. retired[f] /\ ~up[f]
    BY <1>5, <1>6 DEF WInv, NoClientLeaks
<1>. QED  BY <1>5, <1>6, <1>7 DEF Fresh

\* Whoever is in the monitor is making a client, and can.
LEMMA MonitorIsBrief == WInv => EntryNeverWaits
<1>. SUFFICES ASSUME WInv, monitor # None
              PROVE  \E c \in Calls : /\ at[c] = "making"
                                      /\ Accepted(config) => \E f \in Clients : Fresh(f)
    BY DEF EntryNeverWaits, Free
<1>1. monitor \in Calls /\ at[monitor] = "making"
    BY DEF WInv, WrapperTypeOK, MakesAlone
<1>2. \E f \in Clients : Fresh(f)
    BY <1>1, MakerFindsFresh
<1>. QED  BY <1>1, <1>2

\* What is left of a duration in whole milliseconds.
LEMMA WholeMilliseconds ==
    ASSUME NEW d \in Nat
    PROVE  /\ d \div Milli \in Nat
           /\ (d \div Milli) * Milli \in (d - Milli + 1)..d
           /\ d >= Milli => d \div Milli \in 1..(d - 1)
<1>. DEFINE q == d \div Milli
<1>. DEFINE r == d % Milli
<1>1. Milli \in Nat /\ Milli > 1
    BY MillisecondsFit
<1>2. q \in Int /\ r \in 0..(Milli - 1) /\ d = Milli * q + r
    BY <1>1
<1>. HIDE DEF q, r
<1>3. q >= 0
  <2>1. ASSUME q <= -1 PROVE FALSE
    <3>1. Milli * q <= Milli * (-1)
        BY <1>1, <1>2, <2>1
    <3>. QED  BY <1>1, <1>2, <3>1
  <2>. QED  BY <1>2, <2>1
<1>4. q * Milli = Milli * q /\ Milli * q \in Int
    BY <1>1, <1>2
<1>5. ASSUME d >= Milli PROVE q \in 1..(d - 1)
  <2>1. q # 0
    BY <1>1, <1>2, <1>5
  <2>2. 2 * q <= Milli * q
    BY <1>1, <1>2, <1>3
  <2>3. Milli * q <= d
    BY <1>1, <1>2, <1>4
  <2>. QED  BY <1>2, <1>3, <1>4, <2>1, <2>2, <2>3
<1>6. q \in Nat /\ q * Milli \in (d - Milli + 1)..d
    BY <1>1, <1>2, <1>3, <1>4
<1>. QED  BY <1>5, <1>6 DEF q

\* A duration keeps its bound through the layers, whatever their widths.
LEMMA ConversionsKeepBounds == BoundsAreKept
<1>. SUFFICES ASSUME NEW asked \in 0..(Milli * MaxInt) \cup {Infinite}
              PROVE  LET millis   == inWholeMilliseconds(asked)
                         deadline == withTimeout(millis)
                         step     == orDefault(milliseconds(millis))
                     IN  /\ millis = 0 => deadline = Unset /\ step = Default
                         /\ millis > maxMilliseconds => deadline = Unset /\ step = MaxInt
                         /\ millis \in 1..maxMilliseconds =>
                                /\ deadline \in (asked - Milli + 1)..asked
                                /\ step = deadline
                         /\ millis >= 0
    BY DEF BoundsAreKept
<1>. DEFINE millis == inWholeMilliseconds(asked)
<1>0. Milli \in Nat /\ MaxInt \in Nat /\ MaxInt > Milli /\ Milli > 1
    BY MillisecondsFit
<1>1. maxMilliseconds \in 1..(MaxInt - 1)
  <2>1. MaxInt >= Milli
    BY <1>0
  <2>. QED  BY <1>0, <2>1, WholeMilliseconds DEF maxMilliseconds
<1>2. CASE asked = Infinite
  <2>1. millis = MaxInt
    BY <1>2 DEF inWholeMilliseconds
  <2>2. milliseconds(MaxInt) = MaxInt
    BY <1>0, <1>1 DEF milliseconds
  <2>3. withTimeout(millis) = Unset /\ orDefault(milliseconds(millis)) = MaxInt
    BY <1>0, <1>1, <2>1, <2>2 DEF withTimeout, orDefault
  <2>. QED  BY <1>0, <1>1, <2>1, <2>3
<1>3. CASE asked # Infinite
  <2>1. millis \in Nat /\ millis * Milli \in (asked - Milli + 1)..asked /\ asked \in Nat
    <3>1. asked \in Nat
        BY <1>0, <1>3
    <3>. QED  BY <1>3, <3>1, WholeMilliseconds DEF inWholeMilliseconds
  <2>. HIDE DEF millis
  <2>2. /\ millis = 0 => milliseconds(millis) = 0
        /\ millis > maxMilliseconds => milliseconds(millis) = MaxInt
        /\ millis \in 1..maxMilliseconds => milliseconds(millis) = millis * Milli
    BY <1>1, <2>1 DEF milliseconds
  <2>3. millis # 0 => millis * Milli \in Nat \ {0}
    BY <1>0, <2>1
  <2>. QED  BY <1>0, <1>1, <2>1, <2>2, <2>3 DEF millis, withTimeout, orDefault
<1>. QED  BY <1>2, <1>3

-----------------------------------------------------------------------------
\* What is left of the life of an answer.
LivesAreBounded == \A n \in DOMAIN answers : answers[n].left \in -1..Lifetime

\* An answer keeps its life or gets a whole one, and loses a tick of it at a time.
LEMMA LivesStayBounded == LivesAreBounded /\ [Next]_vars => LivesAreBounded'
<1>. SUFFICES ASSUME LivesAreBounded, [Next]_vars PROVE LivesAreBounded'
    OBVIOUS
<1>. USE CacheIsSized DEF LivesAreBounded
<1>1. ASSUME NEW l \in Lookups, Keep(l) PROVE LivesAreBounded'
    BY <1>1 DEF Keep
<1>2. CASE Elapse
    BY <1>2 DEF Elapse
<1>3. CASE UNCHANGED answers
    BY <1>3
<1>. QED
    BY <1>1, <1>2, <1>3 DEF Next, Serves, Makes, Ends, Looks, Time, Hit, Miss, Dial,
       resolverVars, vars

\* A live answer is still there after any step, and not a tick older than time made it.
LEMMA StepKeepsLiveAnswers ==
    ASSUME LivesAreBounded, [Next]_vars, NEW n \in DOMAIN answers, Live(n)
    PROVE  n \in DOMAIN answers' /\ answers'[n].left >= answers[n].left - 1
<1>. USE CacheIsSized DEF LivesAreBounded, Live
<1>1. ASSUME NEW l \in Lookups, Keep(l)
      PROVE  n \in DOMAIN answers' /\ answers'[n].left >= answers[n].left - 1
    BY <1>1 DEF Keep
<1>2. CASE Elapse
    BY <1>2 DEF Elapse
<1>3. CASE UNCHANGED answers
    BY <1>3
<1>. QED
    BY <1>1, <1>2, <1>3 DEF Next, Serves, Makes, Ends, Looks, Time, Hit, Miss, Dial,
       resolverVars, vars

\* No name loses a live answer to what a peer has the process look up, nor to the
\* closing of a client.
THEOREM LiveAnswersAreKept == Spec => LiveAnswersStay
<1>1. Init => LivesAreBounded
    BY DEF Init, ResolverInit, LivesAreBounded
<1>2. LivesAreBounded /\ [Next]_vars =>
        [\A n \in DOMAIN answers : Live(n) =>
            /\ n \in DOMAIN answers'
            /\ answers'[n].left >= answers[n].left - 1]_answers
    BY StepKeepsLiveAnswers
<1>. QED
    BY <1>1, <1>2, LivesStayBounded, PTL DEF Spec, LiveAnswersStay

-----------------------------------------------------------------------------
\* The turns of the servers.

\* The turn after the last server's is the first one's.
LEMMA TurnsGoAround ==
    ASSUME NEW turn \in 0..(Servers - 1)
    PROVE  (turn + 1) % Servers = IF turn + 1 = Servers THEN 0 ELSE turn + 1
<1>. DEFINE q == (turn + 1) \div Servers
<1>. DEFINE r == (turn + 1) % Servers
<1>1. Servers \in Nat /\ Servers > 0
    BY ServersAreTried
<1>2. q \in Int /\ r \in 0..(Servers - 1) /\ turn + 1 = Servers * q + r
    BY <1>1
<1>. HIDE DEF q, r
<1>3. q \in {0, 1}
  <2>1. ASSUME q <= -1 PROVE FALSE
    <3>1. Servers * q <= Servers * (-1)
        BY <1>1, <1>2, <2>1
    <3>. QED  BY <1>1, <1>2, <3>1
  <2>2. ASSUME q >= 2 PROVE FALSE
    <3>1. Servers * q >= Servers * 2
        BY <1>1, <1>2, <2>2
    <3>. QED  BY <1>1, <1>2, <3>1
  <2>. QED  BY <1>2, <2>1, <2>2
<1>4. r = IF turn + 1 = Servers THEN 0 ELSE turn + 1
    BY <1>1, <1>2, <1>3
<1>. QED  BY <1>4 DEF r

\* One turn more reaches back as far, and as many turns as there are servers reach all.
LEMMA TurnsCover ==
    ASSUME NEW turn \in 0..(Servers - 1), NEW dials \in Nat
    PROVE  /\ TurnsBefore(turn, 0) = {}
           /\ TurnsBefore((turn + 1) % Servers, dials + 1) \subseteq TurnsBefore(turn, dials) \cup {turn}
           /\ dials + 1 >= Servers => 0..(Servers - 1) \subseteq TurnsBefore(turn, dials) \cup {turn}
<1>1. Servers \in Nat /\ Servers > 0
    BY ServersAreTried
<1>2. CASE turn + 1 = Servers
    BY <1>1, <1>2, TurnsGoAround DEF TurnsBefore
<1>3. CASE turn + 1 # Servers
    BY <1>1, <1>3, TurnsGoAround DEF TurnsBefore
<1>. QED  BY <1>2, <1>3

-----------------------------------------------------------------------------
\* The lookups and the answers they keep.

RInv ==
    /\ ResolverTypeOK
    /\ CacheIsBounded
    /\ AnswersAreFresh
    /\ FailsOnlyUnserved
    /\ LivesMatchAges
    /\ AsksInTurn

\* What the answers alone say, and the lookups alone.
AnswersOK ==
    /\ answers \in [DOMAIN answers -> [age : 0..MaxAge, left : -1..Lifetime]]
    /\ DOMAIN answers \subseteq TXTNames /\ IsFiniteSet(DOMAIN answers)
    /\ CacheIsBounded
    /\ LivesMatchAges

LookupsOK ==
    /\ next \in [Resolvers -> 0..(Servers - 1)]
    /\ lookup \in [Lookups -> {Idle} \cup Asking \cup Keeping \cup Answered \cup Failed]
    /\ AnswersAreFresh
    /\ FailsOnlyUnserved
    /\ AsksInTurn

\* The invariant of the resolver, taken apart.
LEMMA Halves == (RInv <=> AnswersOK /\ LookupsOK) /\ (RInv' <=> AnswersOK' /\ LookupsOK')
BY DEF RInv, AnswersOK, LookupsOK, ResolverTypeOK

\* Where a lookup is says what it holds.
LEMMA LookupsAre ==
    ASSUME LookupsOK, NEW l \in Lookups
    PROVE  /\ lookup[l].at = "asking" => lookup[l] \in Asking
           /\ lookup[l].at = "keeping" => lookup[l] \in Keeping
           /\ lookup[l].at = "answered" => lookup[l] \in Answered
           /\ lookup[l].at = "failed" => lookup[l] \in Failed
BY DEF LookupsOK, Idle, Asking, Keeping, Answered, Failed

\* A lookup that is over, and one that stays as it is where nothing is asked of its
\* client's servers, keeps what is true of lookups.
LEMMA OneMoves ==
    ASSUME LookupsOK, NEW l \in Lookups, NEW now \in {Idle} \cup Asking \cup Keeping \cup Answered \cup Failed,
           lookup' = [lookup EXCEPT ![l] = now], UNCHANGED next,
           now.at = "answered" => now.age <= Lifetime + MaxQuery,
           now.at = "asking" => now.dials = 0,
           now.at # "failed"
    PROVE  LookupsOK'
<1>1. /\ next' \in [Resolvers -> 0..(Servers - 1)]
      /\ lookup' \in [Lookups -> {Idle} \cup Asking \cup Keeping \cup Answered \cup Failed]
    BY DEF LookupsOK
<1>2. \A m \in Lookups : lookup'[m] = IF m = l THEN now ELSE lookup[m]
    BY DEF LookupsOK
<1>3. AnswersAreFresh' /\ FailsOnlyUnserved'
    BY <1>2 DEF LookupsOK, AnswersAreFresh, FailsOnlyUnserved
<1>4. AsksInTurn'
  <2>. SUFFICES ASSUME NEW m \in Lookups, lookup'[m].at = "asking", ~lookup'[m].disturbed
                PROVE  TurnsBefore(next[lookup'[m].by], lookup'[m].dials) \cap Living = {}
    BY DEF AsksInTurn
  <2>1. CASE m = l
    <3>1. now \in Asking
        BY <1>2, <2>1 DEF Idle, Keeping, Answered, Failed
    <3>2. next[now.by] \in 0..(Servers - 1)
        BY <3>1 DEF Asking, LookupsOK
    <3>. QED  BY <1>2, <2>1, <3>2, TurnsCover
  <2>2. CASE m # l
    BY <1>2, <2>2 DEF LookupsOK, AsksInTurn
  <2>. QED  BY <2>1, <2>2
<1>. QED  BY <1>1, <1>3, <1>4 DEF LookupsOK

\* An answer that is live is young enough to be handed out.
LEMMA HitKeepsRInv ==
    ASSUME RInv, NEW l \in Lookups, NEW n \in TXTNames, Hit(l, n)
    PROVE  RInv'
<1>. DEFINE now == [at |-> "answered", age |-> answers[n].age]
<1>1. AnswersOK /\ LookupsOK
    BY Halves
<1>2. answers[n] \in [age : 0..MaxAge, left : -1..Lifetime] /\ answers[n].left >= 0
    BY <1>1 DEF Hit, Live, AnswersOK
<1>3. answers[n].age + answers[n].left <= Lifetime + MaxQuery
    BY <1>1 DEF Hit, Live, AnswersOK, LivesMatchAges
<1>4. now \in Answered /\ now.age <= Lifetime + MaxQuery
    BY <1>2, <1>3, CacheIsSized DEF Answered, MaxAge
<1>5. LookupsOK'
  <2>1. lookup' = [lookup EXCEPT ![l] = now] /\ UNCHANGED next
    BY DEF Hit
  <2>2. now.at = "answered"
    OBVIOUS
  <2>. HIDE DEF now
  <2>. QED  BY <1>1, <1>4, <2>1, <2>2, OneMoves
<1>6. AnswersOK'
    BY <1>1 DEF Hit, AnswersOK, CacheIsBounded, LivesMatchAges, Live
<1>. QED  BY <1>5, <1>6, Halves

\* A lookup that misses has taken no turn yet.
LEMMA MissKeepsRInv ==
    ASSUME RInv, NEW l \in Lookups, NEW n \in TXTNames, NEW f \in Resolvers, Miss(l, n, f)
    PROVE  RInv'
<1>. DEFINE now == [at |-> "asking", name |-> n, by |-> f, age |-> 0, dials |-> 0,
                    disturbed |-> FALSE]
<1>1. AnswersOK /\ LookupsOK
    BY Halves
<1>2. now \in Asking /\ now.dials = 0
    BY CacheIsSized, ServersAreTried DEF Asking
<1>3. LookupsOK'
  <2>1. lookup' = [lookup EXCEPT ![l] = now] /\ UNCHANGED next
    BY DEF Miss
  <2>2. now.at = "asking"
    OBVIOUS
  <2>. HIDE DEF now
  <2>. QED  BY <1>1, <1>2, <2>1, <2>2, OneMoves
<1>4. AnswersOK'
    BY <1>1 DEF Miss, AnswersOK, CacheIsBounded, LivesMatchAges, Live
<1>. QED  BY <1>3, <1>4, Halves

\* A query moves the turn of its client on, for the lookups it disturbs too.
LEMMA DialKeepsRInv ==
    ASSUME RInv, NEW l \in Lookups, Dial(l)
    PROVE  RInv'
<1>. DEFINE f == lookup[l].by
<1>. DEFINE dials == lookup[l].dials
<1>1. AnswersOK /\ LookupsOK
    BY Halves
<1>2. lookup[l] \in Asking
    BY <1>1, LookupsAre DEF Dial
<1>3. f \in Resolvers /\ next[f] \in 0..(Servers - 1) /\ dials \in Nat
    BY <1>1, <1>2, ServersAreTried DEF Asking, LookupsOK
<1>4. /\ (next[f] + 1) % Servers \in 0..(Servers - 1)
      /\ next' = [next EXCEPT ![f] = (next[f] + 1) % Servers]
    BY <1>3, TurnsGoAround, ServersAreTried DEF Dial
<1>5. \A m \in Lookups :
        /\ m = l => lookup'[m] = Dialled(l)
        /\ m # l /\ m \in Disturbed(l) => lookup'[m] = [lookup[m] EXCEPT !.disturbed = TRUE]
        /\ m # l /\ m \notin Disturbed(l) => lookup'[m] = lookup[m]
    BY Zenon DEF Dial
<1>6. \/ /\ next[f] \in Living
         /\ Dialled(l) \in Keeping
      \/ /\ next[f] \notin Living /\ dials + 1 = Attempts
         /\ Dialled(l) \in Failed /\ Dialled(l).disturbed = lookup[l].disturbed
      \/ /\ next[f] \notin Living
         /\ Dialled(l) \in Asking /\ Dialled(l).by = f /\ Dialled(l).dials = dials + 1
         /\ Dialled(l).disturbed = lookup[l].disturbed
    BY <1>2, <1>3, ServersAreTried DEF Dialled, server, Asking, Keeping, Failed
<1>7. \A m \in Disturbed(l) :
        /\ m \in Lookups
        /\ [lookup[m] EXCEPT !.disturbed = TRUE] \in Asking
        /\ [lookup[m] EXCEPT !.disturbed = TRUE].disturbed
  <2>. SUFFICES ASSUME NEW m \in Disturbed(l)
                PROVE  /\ m \in Lookups
                       /\ [lookup[m] EXCEPT !.disturbed = TRUE] \in Asking
                       /\ [lookup[m] EXCEPT !.disturbed = TRUE].disturbed
    OBVIOUS
  <2>1. m \in Lookups /\ lookup[m] \in Asking
    BY <1>1, LookupsAre DEF Disturbed
  <2>. QED  BY <2>1 DEF Asking
<1>8. /\ next' \in [Resolvers -> 0..(Servers - 1)]
      /\ lookup' \in [Lookups -> {Idle} \cup Asking \cup Keeping \cup Answered \cup Failed]
  <2>1. DOMAIN lookup' = Lookups /\ lookup' = [m \in Lookups |-> lookup'[m]]
    BY Zenon DEF Dial
  <2>2. \A m \in Lookups : lookup'[m] \in {Idle} \cup Asking \cup Keeping \cup Answered \cup Failed
    BY <1>1, <1>5, <1>6, <1>7 DEF LookupsOK
  <2>3. next' \in [Resolvers -> 0..(Servers - 1)]
    BY <1>1, <1>4 DEF LookupsOK
  <2>. QED  BY <2>1, <2>2, <2>3
<1>9. AnswersAreFresh'
  <2>. SUFFICES ASSUME NEW m \in Lookups, lookup'[m].at = "answered"
                PROVE  lookup'[m].age <= Lifetime + MaxQuery
    BY DEF AnswersAreFresh
  <2>1. lookup'[m] = lookup[m]
    BY <1>5, <1>6, <1>7 DEF Asking, Keeping, Failed
  <2>. QED  BY <1>1, <2>1 DEF LookupsOK, AnswersAreFresh
<1>10. ~lookup[l].disturbed => TurnsBefore(next[f], dials) \cap Living = {}
    BY <1>1, <1>2 DEF LookupsOK, AsksInTurn, Asking
<1>11. FailsOnlyUnserved'
  <2>. SUFFICES ASSUME NEW m \in Lookups, lookup'[m].at = "failed", ~lookup'[m].disturbed
                PROVE  Living = {}
    BY DEF FailsOnlyUnserved
  <2>1. CASE m = l
    <3>1. next[f] \notin Living /\ dials + 1 = Attempts /\ ~lookup[l].disturbed
        BY <1>5, <1>6, <2>1 DEF Asking, Keeping
    <3>2. dials + 1 >= Servers
        BY <3>1, ServersAreTried
    <3>3. 0..(Servers - 1) \subseteq TurnsBefore(next[f], dials) \cup {next[f]}
        BY <1>3, <3>2, TurnsCover
    <3>. QED  BY <1>10, <3>1, <3>3, ServersAreTried
  <2>2. CASE m # l
    <3>1. lookup'[m] = lookup[m]
        BY <1>5, <1>7, <2>2 DEF Asking
    <3>. QED  BY <1>1, <3>1 DEF LookupsOK, FailsOnlyUnserved
  <2>. QED  BY <2>1, <2>2
<1>12. AsksInTurn'
  <2>. SUFFICES ASSUME NEW m \in Lookups, lookup'[m].at = "asking", ~lookup'[m].disturbed
                PROVE  TurnsBefore(next'[lookup'[m].by], lookup'[m].dials) \cap Living = {}
    BY DEF AsksInTurn
  <2>1. CASE m = l
    <3>1. /\ next[f] \notin Living /\ lookup'[m].by = f /\ lookup'[m].dials = dials + 1
          /\ ~lookup[l].disturbed
        BY <1>5, <1>6, <2>1 DEF Keeping, Failed
    <3>2. next'[f] = (next[f] + 1) % Servers
        BY <1>1, <1>3, <1>4 DEF LookupsOK
    <3>3. TurnsBefore(next'[f], dials + 1) \subseteq TurnsBefore(next[f], dials) \cup {next[f]}
        BY <1>3, <3>2, TurnsCover
    <3>. QED  BY <1>10, <3>1, <3>3
  <2>2. CASE m # l
    <3>1. m \notin Disturbed(l) /\ lookup'[m] = lookup[m]
        BY <1>5, <1>7, <2>2
    <3>2. lookup[m].by # f
        BY <3>1, <2>2 DEF Disturbed
    <3>3. next'[lookup[m].by] = next[lookup[m].by]
        BY <1>1, <1>4, <3>1, <3>2, LookupsAre DEF LookupsOK, Asking
    <3>. QED  BY <1>1, <3>1, <3>3 DEF LookupsOK, AsksInTurn
  <2>. QED  BY <2>1, <2>2
<1>13. AnswersOK'
    BY <1>1 DEF Dial, AnswersOK, CacheIsBounded, LivesMatchAges, Live
<1>. QED  BY <1>8, <1>9, <1>11, <1>12, <1>13, Halves DEF LookupsOK

\* What is kept fits, and starts a life of its own.
LEMMA KeepKeepsRInv ==
    ASSUME RInv, NEW l \in Lookups, Keep(l)
    PROVE  RInv'
<1>. DEFINE stay == IF Full THEN {n \in DOMAIN answers : Live(n)} ELSE DOMAIN answers
<1>. DEFINE kept == IF Cardinality(stay) >= Limit THEN {} ELSE {lookup[l].name}
<1>. DEFINE new == [age |-> lookup[l].age, left |-> Lifetime]
<1>1. AnswersOK /\ LookupsOK
    BY Halves
<1>2. lookup[l] \in Keeping
    BY <1>1, LookupsAre DEF Keep
<1>3. answers' = [n \in stay \cup kept |-> IF n \in kept THEN new ELSE answers[n]]
    BY DEF Keep
<1>4. stay \subseteq DOMAIN answers /\ kept \subseteq TXTNames
    BY <1>2 DEF Keeping
<1>5. IsFiniteSet(stay \cup kept) /\ Cardinality(stay \cup kept) <= Limit
  <2>1. IsFiniteSet(stay) /\ Cardinality(stay) <= Limit /\ Cardinality(stay) \in Nat
    <3>1. /\ IsFiniteSet(stay) /\ Cardinality(stay) <= Cardinality(DOMAIN answers)
          /\ Cardinality(stay) \in Nat /\ Cardinality(DOMAIN answers) \in Nat
        BY <1>1, <1>4, FS_Subset, FS_CardinalityType DEF AnswersOK
    <3>. QED  BY <1>1, <3>1, CacheIsSized DEF AnswersOK, CacheIsBounded
  <2>2. CASE Cardinality(stay) >= Limit
    BY <2>1, <2>2
  <2>3. CASE ~(Cardinality(stay) >= Limit)
    <3>1. stay \cup kept = stay \cup {lookup[l].name}
        BY <2>3
    <3>2. /\ IsFiniteSet(stay \cup {lookup[l].name})
          /\ \/ Cardinality(stay \cup {lookup[l].name}) = Cardinality(stay)
             \/ Cardinality(stay \cup {lookup[l].name}) = Cardinality(stay) + 1
        BY <2>1, FS_AddElement, Zenon
    <3>3. Cardinality(stay \cup kept) \in Nat
        BY <3>1, <3>2, FS_CardinalityType
    <3>. QED  BY <2>1, <2>3, <3>1, <3>2, <3>3, CacheIsSized
  <2>. QED  BY <2>2, <2>3
<1>6. /\ new \in [age : 0..MaxAge, left : -1..Lifetime]
      /\ new.age + new.left <= Lifetime + MaxQuery
    BY <1>2, CacheIsSized DEF Keeping, MaxAge
<1>. HIDE DEF stay, kept, new
<1>7. DOMAIN answers' = stay \cup kept
    BY <1>3
<1>8. answers' \in [DOMAIN answers' -> [age : 0..MaxAge, left : -1..Lifetime]]
    BY <1>1, <1>3, <1>4, <1>6, <1>7 DEF AnswersOK
<1>9. LivesMatchAges'
  <2>. SUFFICES ASSUME NEW n \in DOMAIN answers', answers'[n].left >= 0
                PROVE  answers'[n].age + answers'[n].left <= Lifetime + MaxQuery
    BY DEF LivesMatchAges, Live
  <2>1. answers'[n] = new \/ (n \in DOMAIN answers /\ answers'[n] = answers[n])
    BY <1>3, <1>4, <1>7
  <2>. QED  BY <1>1, <1>6, <2>1 DEF AnswersOK, LivesMatchAges, Live
<1>10. AnswersOK'
    BY <1>1, <1>4, <1>5, <1>7, <1>8, <1>9 DEF AnswersOK, CacheIsBounded
<1>11. LookupsOK'
  <2>. DEFINE now == [at |-> "answered", age |-> lookup[l].age]
  <2>1. lookup' = [lookup EXCEPT ![l] = now] /\ UNCHANGED next
    BY DEF Keep
  <2>2. now.at = "answered" /\ now \in Answered /\ now.age <= Lifetime + MaxQuery
    BY <1>2, CacheIsSized DEF Keeping, Answered, MaxAge
  <2>. HIDE DEF now
  <2>. QED  BY <1>1, <2>1, <2>2, OneMoves
<1>. QED  BY <1>10, <1>11, Halves

\* A lookup that ages is the same lookup.
LEMMA Ageing ==
    ASSUME NEW age \in 0..MaxQuery
    PROVE  /\ \A r \in Asking : /\ [r EXCEPT !.age = age] \in Asking
                               /\ [r EXCEPT !.age = age].by = r.by
                               /\ [r EXCEPT !.age = age].dials = r.dials
                               /\ [r EXCEPT !.age = age].disturbed = r.disturbed
           /\ \A r \in Keeping : [r EXCEPT !.age = age] \in Keeping
BY DEF Asking, Keeping

\* A tick takes from the life of an answer what it adds to its age.
LEMMA ElapseKeepsRInv == ASSUME RInv, Elapse PROVE RInv'
<1>1. AnswersOK /\ LookupsOK
    BY Halves
<1>2. \A n \in DOMAIN answers : answers[n] \in [age : 0..MaxAge, left : -1..Lifetime]
    BY <1>1 DEF AnswersOK
<1>3. /\ DOMAIN answers' = DOMAIN answers
      /\ \A n \in DOMAIN answers :
            answers'[n] = [age  |-> IF answers[n].age = MaxAge THEN MaxAge ELSE answers[n].age + 1,
                           left |-> IF answers[n].left = -1 THEN -1 ELSE answers[n].left - 1]
    BY DEF Elapse
<1>4. answers' \in [DOMAIN answers' -> [age : 0..MaxAge, left : -1..Lifetime]]
    BY <1>2, <1>3, CacheIsSized DEF Elapse, MaxAge
<1>5. LivesMatchAges'
  <2>. SUFFICES ASSUME NEW n \in DOMAIN answers', answers'[n].left >= 0
                PROVE  answers'[n].age + answers'[n].left <= Lifetime + MaxQuery
    BY DEF LivesMatchAges, Live
  <2>1. answers[n].left >= 0 => answers[n].age + answers[n].left <= Lifetime + MaxQuery
    BY <1>1, <1>3 DEF AnswersOK, LivesMatchAges, Live
  <2>. QED  BY <1>2, <1>3, <2>1, CacheIsSized DEF MaxAge
<1>6. AnswersOK'
    BY <1>1, <1>3, <1>4, <1>5 DEF AnswersOK, CacheIsBounded
<1>7. \A l \in Lookups :
        /\ Pending(l) => lookup'[l] = [lookup[l] EXCEPT !.age = lookup[l].age + 1]
        /\ ~Pending(l) => lookup'[l] = lookup[l]
    BY Zenon DEF Elapse
<1>8. ASSUME NEW l \in Lookups, lookup[l] \in Asking
      PROVE  /\ lookup'[l] \in Asking /\ lookup'[l].by = lookup[l].by
             /\ lookup'[l].dials = lookup[l].dials
             /\ lookup'[l].disturbed = lookup[l].disturbed
  <2>1. Pending(l) /\ lookup[l].age < MaxQuery
    BY <1>8 DEF Asking, Pending, Elapse
  <2>2. lookup[l].age + 1 \in 0..MaxQuery
    BY <1>8, <2>1, CacheIsSized DEF Asking
  <2>3. lookup'[l] = [lookup[l] EXCEPT !.age = lookup[l].age + 1]
    BY <1>7, <2>1
  <2>. DEFINE age == lookup[l].age + 1
  <2>. HIDE DEF age
  <2>4. /\ [lookup[l] EXCEPT !.age = age] \in Asking
        /\ [lookup[l] EXCEPT !.age = age].by = lookup[l].by
        /\ [lookup[l] EXCEPT !.age = age].dials = lookup[l].dials
        /\ [lookup[l] EXCEPT !.age = age].disturbed = lookup[l].disturbed
    <3>1. age \in 0..MaxQuery
        BY <2>2 DEF age
    <3>. QED  BY <1>8, <3>1, Ageing
  <2>. QED  BY <2>3, <2>4 DEF age
<1>9. ASSUME NEW l \in Lookups, lookup[l] \in Keeping PROVE lookup'[l] \in Keeping
  <2>1. Pending(l) /\ lookup[l].age < MaxQuery
    BY <1>9 DEF Keeping, Pending, Elapse
  <2>2. lookup[l].age + 1 \in 0..MaxQuery
    BY <1>9, <2>1, CacheIsSized DEF Keeping
  <2>. QED  BY <1>7, <1>9, <2>1, <2>2, Ageing
<1>10. ASSUME NEW l \in Lookups, lookup[l] \in {Idle} \cup Answered \cup Failed
       PROVE  lookup'[l] = lookup[l]
    BY <1>7, <1>10 DEF Pending, Idle, Answered, Failed
<1>11. ASSUME NEW l \in Lookups
       PROVE  lookup[l] \in {Idle} \cup Answered \cup Failed \cup Asking \cup Keeping
    BY <1>1 DEF LookupsOK
<1>12. lookup' \in [Lookups -> {Idle} \cup Asking \cup Keeping \cup Answered \cup Failed]
  <2>1. DOMAIN lookup' = Lookups /\ lookup' = [m \in Lookups |-> lookup'[m]]
    BY Zenon DEF Elapse
  <2>2. \A m \in Lookups : lookup'[m] \in {Idle} \cup Asking \cup Keeping \cup Answered \cup Failed
    BY <1>8, <1>9, <1>10, <1>11
  <2>. QED  BY <2>1, <2>2
<1>13. AnswersAreFresh'
    BY <1>1, <1>8, <1>9, <1>10, <1>11 DEF LookupsOK, AnswersAreFresh, Asking,
       Keeping
<1>14. FailsOnlyUnserved'
    BY <1>1, <1>8, <1>9, <1>10, <1>11 DEF LookupsOK, FailsOnlyUnserved, Asking,
       Keeping
<1>15. UNCHANGED next
    BY DEF Elapse
<1>16. AsksInTurn'
  <2>. SUFFICES ASSUME NEW l \in Lookups, lookup'[l].at = "asking", ~lookup'[l].disturbed
                PROVE  TurnsBefore(next[lookup'[l].by], lookup'[l].dials) \cap Living = {}
    BY <1>15 DEF AsksInTurn
  <2>1. lookup[l] \in Asking
    BY <1>9, <1>10, <1>11 DEF Keeping, Idle, Answered, Failed
  <2>. QED  BY <1>1, <1>8, <2>1 DEF LookupsOK, AsksInTurn, Asking
<1>. QED  BY <1>1, <1>6, <1>12, <1>13, <1>14, <1>15, <1>16, Halves DEF LookupsOK

\* A node that goes takes its lookups with it: the others go on as they were.
LEMMA AbortingKeepsRInv ==
    ASSUME RInv, NEW f \in Clients, lookup' = Aborted(f), UNCHANGED <<answers, next>>
    PROVE  RInv'
<1>1. AnswersOK /\ LookupsOK
    BY Halves
<1>2. \A l \in Lookups : lookup'[l] \in {Idle, lookup[l]}
    BY DEF Aborted
<1>3. lookup' \in [Lookups -> {Idle} \cup Asking \cup Keeping \cup Answered \cup Failed]
    BY <1>1 DEF Aborted, LookupsOK
<1>4. AnswersAreFresh' /\ FailsOnlyUnserved'
    BY <1>1, <1>2 DEF LookupsOK, AnswersAreFresh, FailsOnlyUnserved, Idle
<1>5. AsksInTurn'
    BY <1>1, <1>2 DEF LookupsOK, AsksInTurn, Idle
<1>6. AnswersOK'
    BY <1>1 DEF AnswersOK, CacheIsBounded, LivesMatchAges, Live
<1>. QED  BY <1>1, <1>3, <1>4, <1>5, <1>6, Halves DEF LookupsOK

\* A client that is new has asked nobody.
LEMMA MakingKeepsRInv ==
    ASSUME RInv, AskersAreUp, NEW f \in Clients, Makes(f)
    PROVE  RInv'
<1>1. AnswersOK /\ LookupsOK
    BY Halves
<1>2. ~up[f] /\ next' = [next EXCEPT ![f] = 0] /\ UNCHANGED <<answers, lookup>>
    BY DEF Makes, Made, OneShot, Fresh
<1>3. \A l \in Lookups : lookup[l].at = "asking" => next'[lookup[l].by] = next[lookup[l].by]
    BY <1>1, <1>2, LookupsAre DEF AskersAreUp, LookupsOK, Asking
<1>4. next' \in [Resolvers -> 0..(Servers - 1)]
  <2>1. 0 \in 0..(Servers - 1)
    BY ServersAreTried
  <2>. QED  BY <1>1, <1>2, <2>1 DEF LookupsOK
<1>5. AsksInTurn'
    BY <1>1, <1>2, <1>3 DEF LookupsOK, AsksInTurn
<1>6. AnswersAreFresh' /\ FailsOnlyUnserved'
    BY <1>1, <1>2 DEF LookupsOK, AnswersAreFresh, FailsOnlyUnserved
<1>7. AnswersOK'
    BY <1>1, <1>2 DEF AnswersOK, CacheIsBounded, LivesMatchAges, Live
<1>. QED  BY <1>1, <1>2, <1>4, <1>5, <1>6, <1>7, Halves DEF LookupsOK

\* A step that leaves the resolver alone keeps its invariant.
LEMMA IdlingKeepsRInv == ASSUME RInv, UNCHANGED resolverVars PROVE RInv'
<1>1. AnswersOK /\ LookupsOK /\ UNCHANGED <<answers, next, lookup>>
    BY Halves DEF resolverVars
<1>2. AnswersOK'
    BY <1>1 DEF AnswersOK, CacheIsBounded, LivesMatchAges, Live
<1>3. LookupsOK'
    BY <1>1 DEF LookupsOK, AnswersAreFresh, FailsOnlyUnserved, AsksInTurn
<1>. QED  BY <1>2, <1>3, Halves

-----------------------------------------------------------------------------
\* The process.

\* No node goes without its lookups.
LEMMA AskersStayUp ==
    ASSUME WInv, RInv, AskersAreUp, [Next]_vars
    PROVE  AskersAreUp'
<1>0. /\ LookupsOK /\ up \in [Clients -> BOOLEAN]
      /\ \A l \in Lookups : lookup[l].at = "asking" => lookup[l].by \in Clients /\ up[lookup[l].by]
  <2>1. LookupsOK /\ up \in [Clients -> BOOLEAN]
    BY Halves DEF WInv, WrapperTypeOK
  <2>. QED  BY <2>1, LookupsAre, OneResolverEach DEF Asking, AskersAreUp
<1>1. ASSUME UNCHANGED lookup, UNCHANGED up PROVE AskersAreUp'
    BY <1>1 DEF AskersAreUp
<1>2. ASSUME UNCHANGED lookup, NEW f \in Clients, NodeUp(f) PROVE AskersAreUp'
    BY <1>0, <1>2 DEF AskersAreUp, NodeUp
<1>3. CASE Serves
    BY <1>1, <1>2, <1>3 DEF Serves, resolverVars, Enter, ClientClosed, ClientThere,
       ClientMakes,
       MakeFails, Registered, Refused, Returns, OneShotCloses, TakeOut, Retire, Rebuild,
       ipfsVars, innerVars
<1>4. ASSUME NEW f \in Clients, Makes(f) PROVE AskersAreUp'
    BY <1>1, <1>4 DEF Makes, Made, OneShot
<1>5. ASSUME NEW f \in Clients, Ends(f) PROVE AskersAreUp'
  <2>1. up' = [up EXCEPT ![f] = FALSE]
    BY <1>5 DEF Ends, NodeIdle, TornDown, OneShotClosed
  <2>2. \A l \in Lookups : lookup'[l].at = "asking" => lookup'[l] = lookup[l] /\ lookup[l].by # f
    BY <1>5 DEF Ends, Aborted, Idle
  <2>. QED  BY <1>0, <2>1, <2>2 DEF AskersAreUp
<1>6. ASSUME NEW l \in Lookups, Looks(l) PROVE AskersAreUp'
  <2>0. UNCHANGED up
    BY <1>6 DEF Looks, wrapperVars, innerVars
  <2>1. ASSUME NEW n \in TXTNames, NEW f \in Clients, up[f], Miss(l, n, f) PROVE AskersAreUp'
    BY <1>0, <2>0, <2>1 DEF AskersAreUp, Miss, LookupsOK
  <2>2. ASSUME NEW n \in TXTNames, Hit(l, n) PROVE AskersAreUp'
    BY <1>0, <2>0, <2>2 DEF AskersAreUp, Hit, LookupsOK
  <2>3. CASE Keep(l)
    BY <1>0, <2>0, <2>3 DEF AskersAreUp, Keep, LookupsOK
  <2>4. CASE Dial(l)
    <3>1. lookup[l] \in Asking
        BY <1>0, <2>4, LookupsAre DEF Dial
    <3>2. Dialled(l).at = "asking" => Dialled(l).by = lookup[l].by
        BY <3>1 DEF Dialled, Asking
    <3>3. \A m \in Disturbed(l) :
            lookup[m].at = "asking" /\ [lookup[m] EXCEPT !.disturbed = TRUE].by = lookup[m].by
        BY <1>0, LookupsAre DEF Disturbed, Asking
    <3>4. \A m \in Lookups :
            lookup'[m] \in {Dialled(l), [lookup[m] EXCEPT !.disturbed = TRUE], lookup[m]}
        BY <2>4, Zenon DEF Dial
    <3>5. \A m \in Lookups :
            \/ m = l /\ lookup'[m] = Dialled(l)
            \/ m \in Disturbed(l) /\ lookup'[m] = [lookup[m] EXCEPT !.disturbed = TRUE]
            \/ lookup'[m] = lookup[m]
        BY <2>4, Zenon DEF Dial
    <3>6. lookup[l].at = "asking"
        BY <2>4 DEF Dial
    <3>. QED  BY <1>0, <2>0, <3>2, <3>3, <3>5, <3>6 DEF AskersAreUp
  <2>. QED  BY <1>6, <2>1, <2>2, <2>3, <2>4 DEF Looks
<1>7. CASE Time
  <2>1. \A l \in Lookups : lookup'[l] \in {lookup[l], [lookup[l] EXCEPT !.age = lookup[l].age + 1]}
    BY <1>7, Zenon DEF Time, Elapse
  <2>2. \A l \in Lookups : lookup'[l].at = "asking" =>
                           lookup[l].at = "asking" /\ lookup'[l].by = lookup[l].by
    BY <1>0, <2>1 DEF LookupsOK, Idle, Asking, Keeping, Answered, Failed
  <2>3. UNCHANGED up
    BY <1>7 DEF Time, wrapperVars, innerVars
  <2>. QED  BY <1>0, <2>2, <2>3 DEF AskersAreUp
<1>8. CASE UNCHANGED vars
    BY <1>1, <1>8 DEF vars, wrapperVars, innerVars, resolverVars
<1>. QED  BY <1>3, <1>4, <1>5, <1>6, <1>7, <1>8 DEF Next

\* A step of the process keeps what is true of the resolver.
LEMMA NextPreservesRInv == ASSUME RInv, AskersAreUp, [Next]_vars PROVE RInv'
<1>1. CASE UNCHANGED resolverVars
    BY <1>1, IdlingKeepsRInv
<1>2. ASSUME NEW f \in Clients, Makes(f) PROVE RInv'
    BY <1>2, MakingKeepsRInv
<1>3. ASSUME NEW f \in Clients, Ends(f) PROVE RInv'
    BY <1>3, AbortingKeepsRInv DEF Ends
<1>4. ASSUME NEW l \in Lookups, Looks(l) PROVE RInv'
    BY <1>4, HitKeepsRInv, MissKeepsRInv, DialKeepsRInv, KeepKeepsRInv,
       OneResolverEach DEF Looks
<1>5. CASE Time
    BY <1>5, ElapseKeepsRInv DEF Time
<1>. QED  BY <1>1, <1>2, <1>3, <1>4, <1>5 DEF Next, Serves, vars

\* At first nothing is kept and nobody asks.
LEMMA InitEstablishesRInv == Init => RInv /\ AskersAreUp
<1>. SUFFICES ASSUME Init PROVE RInv /\ AskersAreUp
    OBVIOUS
<1>1. DOMAIN answers = {} /\ answers = <<>>
    BY DEF Init, ResolverInit
<1>2. AnswersOK
    BY <1>1, FS_EmptySet, CacheIsSized DEF AnswersOK, CacheIsBounded, LivesMatchAges
<1>3. LookupsOK /\ AskersAreUp
    BY ServersAreTried DEF Init, ResolverInit, LookupsOK, AnswersAreFresh,
       FailsOnlyUnserved,
       AsksInTurn, AskersAreUp, Idle
<1>. QED  BY <1>2, <1>3, Halves

\* Whatever threads, clients and lookups do: a thread never waits in the monitor for a
\* teardown, bounds survive the layers, the answers kept are bounded and fresh, and a
\* lookup fails for want of a server only.
THEOREM ProcessInvariance == Spec => []ProcessInv
<1>1. Init => WInv /\ RInv /\ AskersAreUp
    BY InitEstablishesWInv, InitEstablishesRInv
<1>2. WInv /\ RInv /\ AskersAreUp /\ [Next]_vars => (WInv /\ RInv /\ AskersAreUp)'
    BY NextPreservesWInv, NextPreservesRInv, AskersStayUp
<1>3. WInv /\ RInv /\ AskersAreUp => ProcessInv
    BY MonitorIsBrief, ConversionsKeepBounds DEF RInv, ProcessInv
<1>. QED  BY <1>1, <1>2, <1>3, PTL DEF Spec
=============================================================================
