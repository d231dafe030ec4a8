------------------------------ MODULE Resolver ------------------------------
(***************************************************************************)
(* TXT lookups (client/resolver.go): the answers kept for the whole        *)
(* process, whatever clients come and go, and the servers each client      *)
(* spreads its queries over.                                               *)
(*                                                                         *)
(* Ages are counted in ticks from the moment a lookup asks, so nothing of  *)
(* the absolute time is left in the state; a query ends within MaxQuery.   *)
(***************************************************************************)
EXTENDS Integers, SequencesExt

CONSTANTS
    Resolvers,    \* one per client with DNS servers of its own
    Lookups,      \* goroutines of libp2p that look names up
    TXTNames,     \* names of TXT records
    Servers,      \* how many servers a client names
    Living,       \* the servers that answer, out of 0..Servers-1
    Attempts,     \* how often net.Resolver dials for one lookup
    Limit,        \* txtAnswerLimit
    Lifetime,     \* txtAnswerLifetime
    MaxQuery      \* how long a lookup takes at most

ASSUME ServersAreTried ==
    Attempts \in Nat /\ Servers \in 1..Attempts /\ Living \subseteq 0..(Servers - 1)
ASSUME CacheIsSized == Limit \in Nat \ {0} /\ Lifetime \in Nat /\ MaxQuery \in Nat

VARIABLES
    answers,   \* the cache: by name, the age of the answer and what is left of its life
    next,      \* per client, the server the next query goes to
    lookup     \* per goroutine, the lookup it is at

resolverVars == <<answers, next, lookup>>

MaxAge == Lifetime + MaxQuery + 1     \* ages beyond are all alike
Idle == [at |-> "idle"]

\* A lookup is idle, asks a server, has its answer to keep, or is over.
Asking ==
    [at : {"asking"}, name : TXTNames, by : Resolvers, age : 0..MaxQuery,
     dials : 0..(Attempts - 1), disturbed : BOOLEAN]
Keeping == [at : {"keeping"}, name : TXTNames, age : 0..MaxQuery]
Answered == [at : {"answered"}, age : 0..MaxAge]
Failed == [at : {"failed"}, disturbed : BOOLEAN]

ResolverTypeOK ==
    /\ answers \in [DOMAIN answers -> [age : 0..MaxAge, left : -1..Lifetime]]
    /\ DOMAIN answers \subseteq TXTNames /\ IsFiniteSet(DOMAIN answers)
    /\ next \in [Resolvers -> 0..(Servers - 1)]
    /\ lookup \in [Lookups -> {Idle} \cup Asking \cup Keeping \cup Answered \cup Failed]

ResolverInit ==
    /\ answers = <<>>
    /\ next = [f \in Resolvers |-> 0]
    /\ lookup = [l \in Lookups |-> Idle]

-----------------------------------------------------------------------------
Live(n) == n \in DOMAIN answers /\ answers[n].left >= 0
Full == Cardinality(DOMAIN answers) >= Limit
Pending(l) == lookup[l].at \in {"asking", "keeping"}

\* Wrong variant: an answer that is used is given its life again.
HitRenews(l, n) ==
    /\ ~Pending(l)
    /\ Live(n)
    /\ lookup' = [lookup EXCEPT ![l] = [at |-> "answered", age |-> answers[n].age]]
    /\ answers' = [answers EXCEPT ![n].left = Lifetime]
    /\ UNCHANGED next

\* LookupTXT, when the answer is held.
Hit(l, n) ==
    /\ ~Pending(l)
    /\ Live(n)
    /\ lookup' = [lookup EXCEPT ![l] = [at |-> "answered", age |-> answers[n].age]]
    /\ UNCHANGED <<answers, next>>

\* LookupTXT, when it is not, or has lapsed.
Miss(l, n, f) ==
    /\ ~Pending(l)
    /\ ~Live(n)
    /\ lookup' = [lookup EXCEPT ![l] = [at |-> "asking", name |-> n, by |-> f, age |-> 0,
                                        dials |-> 0, disturbed |-> FALSE]]
    /\ UNCHANGED <<answers, next>>

\* Which server a query goes to: successive ones, over all lookups of the client.
server(f) == next[f]

\* One query, and what comes of it: net.Resolver dials again after a failure.
Dialled(l) ==
    IF server(lookup[l].by) \in Living
      THEN [at |-> "keeping", name |-> lookup[l].name, age |-> lookup[l].age]
      ELSE IF lookup[l].dials + 1 = Attempts
        THEN [at |-> "failed", disturbed |-> lookup[l].disturbed]
        ELSE [lookup[l] EXCEPT !.dials = @ + 1]

\* The lookups whose turns it takes one from.
Disturbed(l) ==
    {m \in Lookups \ {l} : lookup[m].at = "asking" /\ lookup[m].by = lookup[l].by}

Dial(l) ==
    /\ lookup[l].at = "asking"
    /\ lookup' = [m \in Lookups |->
                     IF m = l THEN Dialled(l)
                     ELSE IF m \in Disturbed(l) THEN [lookup[m] EXCEPT !.disturbed = TRUE]
                     ELSE lookup[m]]
    /\ next' = [next EXCEPT ![lookup[l].by] = (@ + 1) % Servers]
    /\ UNCHANGED answers

\* Wrong variant: a full cache makes room by dropping any answer.
KeepEvicting(l) ==
    /\ lookup[l].at = "keeping"
    /\ \E gone \in IF Full THEN {{n} : n \in DOMAIN answers} ELSE {{}} :
        answers' = [n \in (DOMAIN answers \ gone) \cup {lookup[l].name} |->
                        IF n = lookup[l].name THEN [age |-> lookup[l].age, left |-> Lifetime] ELSE answers[n]]
    /\ lookup' = [lookup EXCEPT ![l] = [at |-> "answered", age |-> @.age]]
    /\ UNCHANGED next

\* keep: a full cache drops what has lapsed, and one full of live answers takes
\* no more.
Keep(l) ==
    /\ lookup[l].at = "keeping"
    /\ LET stay == IF Full THEN {n \in DOMAIN answers : Live(n)} ELSE DOMAIN answers
           kept == IF Cardinality(stay) >= Limit THEN {} ELSE {lookup[l].name}
       IN  answers' = [n \in stay \cup kept |->
                          IF n \in kept THEN [age |-> lookup[l].age, left |-> Lifetime] ELSE answers[n]]
    /\ lookup' = [lookup EXCEPT ![l] = [at |-> "answered", age |-> @.age]]
    /\ UNCHANGED next

\* The lookups of a client that is closed are cancelled, unless their answer is
\* there already.
Aborted(f) == [l \in Lookups |-> IF lookup[l].at = "asking" /\ lookup[l].by = f THEN Idle ELSE lookup[l]]

Elapse ==
    /\ \A l \in Lookups : Pending(l) => lookup[l].age < MaxQuery
    /\ answers' = [n \in DOMAIN answers |->
                      [age  |-> IF answers[n].age = MaxAge THEN MaxAge ELSE answers[n].age + 1,
                       left |-> IF answers[n].left = -1 THEN -1 ELSE answers[n].left - 1]]
    /\ lookup' = [l \in Lookups |->
                     IF Pending(l) THEN [lookup[l] EXCEPT !.age = @ + 1] ELSE lookup[l]]
    /\ UNCHANGED next

-----------------------------------------------------------------------------
\* The cache holds no more answers than its limit.
CacheIsBounded == Cardinality(DOMAIN answers) <= Limit

\* What a lookup hands out is never older than the lifetime of an answer and the
\* time it took to ask, however often an answer is used and whichever of several
\* lookups of one name comes to keep its answer last.
AnswersAreFresh ==
    \A l \in Lookups : lookup[l].at = "answered" => lookup[l].age <= Lifetime + MaxQuery

\* A lookup fails while a server answers only when another lookup of the client
\* took a turn between its own queries: the turns are shared, and the server that
\* answers may fall to the other one each time (newResolver, Dial).
FailsOnlyUnserved ==
    \A l \in Lookups : lookup[l].at = "failed" /\ ~lookup[l].disturbed => Living = {}

\* An answer has no more of its life left than its age allows.
LivesMatchAges ==
    \A n \in DOMAIN answers : Live(n) => answers[n].age + answers[n].left <= Lifetime + MaxQuery

\* The servers that so many turns before the next one fell to.
TurnsBefore(turn, dials) ==
    {s \in 0..(Servers - 1) : \/ turn - dials <= s /\ s < turn
                              \/ Servers + turn - dials <= s}

\* A lookup that nobody disturbed has asked the servers before the next one in vain.
AsksInTurn ==
    \A l \in Lookups : lookup[l].at = "asking" /\ ~lookup[l].disturbed =>
        TurnsBefore(next[lookup[l].by], lookup[l].dials) \cap Living = {}

\* What is held and still live is not dropped, nor made older, for anything a peer
\* makes the process look up (txtCache.keep), and not by closing a client either.
LiveAnswersStay ==
    [][\A n \in DOMAIN answers : Live(n) =>
          /\ n \in DOMAIN answers'
          /\ answers'[n].left >= answers[n].left - 1]_answers

=============================================================================
