------------------------------ MODULE Scratch -------------------------------
(***************************************************************************)
(* Staging directories (client/node.go): a download sweeps the directory   *)
(* of its output for what dead processes left there, makes a staging       *)
(* directory next to the output, registers it with its process, works in   *)
(* it and releases it. The sweep cannot tell a slow download of another    *)
(* process from a dead one except by age, and recognises those of its own  *)
(* process by the path they registered.                                    *)
(*                                                                         *)
(* One output directory and one prefix: the downloads of nodes and of      *)
(* gateways keep to a prefix each and do not meet. Several processes may   *)
(* share the directory, and a directory may have several spellings.        *)
(***************************************************************************)
EXTENDS Naturals, FiniteSets

CONSTANTS
    Downloads,    \* goroutines that download, one after another
    Processes,    \* processes sharing the directory
    Spellings,    \* paths that name the directory
    Scratches,    \* identities for the staging directories there at one time
    NoScratch,
    StaleAfter,   \* scratchStaleAfter in ticks
    Suspends,     \* whether a process may be suspended between two statements
    MaxCrashes    \* bound on how often a process is killed

ASSUME NoScratchIsNone == NoScratch \notin Scratches
ASSUME StaleAfterIsPositive == StaleAfter \in Nat \ {0}
ASSUME SuspendsIsBoolean == Suspends \in BOOLEAN
ASSUME MaxCrashesIsNatural == MaxCrashes \in Nat

VARIABLES
    proc,       \* the process each download runs in
    spelling,   \* how each spells the directory of its output
    exists,     \* the staging directories on disk
    age,        \* ticks since each was modified, up to StaleAfter
    staging,    \* of each process: what sync.Map staging holds, spelled out
    at,         \* where each download is
    hand,       \* the staging directory each made
    todo,       \* the entries its sweep has still to look at
    target,     \* the entry its sweep is judging
    crashes,    \* how often a process was killed
    orphans     \* auxiliary: what killed processes left behind

vars == <<proc, spelling, exists, age, staging, at, hand, todo, target, crashes,
          orphans>>

Positions == {"idle", "sweeping", "judging", "making", "storing", "staging",
              "releasing", "removing"}

TypeOK ==
    /\ proc \in [Downloads -> Processes]
    /\ spelling \in [Downloads -> Spellings]
    /\ exists \subseteq Scratches
    /\ age \in [Scratches -> 0..StaleAfter]
    /\ staging \in [Processes -> SUBSET (Spellings \X Scratches)]
    /\ at \in [Downloads -> Positions]
    /\ hand \in [Downloads -> Scratches \cup {NoScratch}]
    /\ todo \in [Downloads -> SUBSET Scratches]
    /\ target \in [Downloads -> Scratches \cup {NoScratch}]
    /\ crashes \in 0..MaxCrashes
    /\ orphans \subseteq exists

Init ==
    /\ proc \in [Downloads -> Processes]
    /\ spelling \in [Downloads -> Spellings]
    /\ exists = {}
    /\ age = [s \in Scratches |-> 0]
    /\ staging = [p \in Processes |-> {}]
    /\ at = [d \in Downloads |-> "idle"]
    /\ hand = [d \in Downloads |-> NoScratch]
    /\ todo = [d \in Downloads |-> {}]
    /\ target = [d \in Downloads |-> NoScratch]
    /\ crashes = 0
    /\ orphans = {}

Goto(d, where) == at' = [at EXCEPT ![d] = where]

Outside == UNCHANGED <<proc, spelling, crashes>>

\* What a download calls its staging directory.
Name(d) == <<spelling[d], hand[d]>>

-----------------------------------------------------------------------------
\* sweepScratchPrefix.

\* os.ReadDir: what was there when the sweep began.
SweepBegins(d) ==
    /\ at[d] = "idle"
    /\ todo' = [todo EXCEPT ![d] = exists]
    /\ Goto(d, "sweeping")
    /\ Outside /\ UNCHANGED <<exists, age, staging, hand, target, orphans>>

\* Wrong variant: what this process is writing is not looked up.
SweepLooksNotUp(d) ==
    /\ at[d] = "sweeping"
    /\ \E s \in todo[d] :
        /\ todo' = [todo EXCEPT ![d] = @ \ {s}]
        /\ target' = [target EXCEPT ![d] = s]
        /\ Goto(d, "judging")
    /\ Outside /\ UNCHANGED <<exists, age, staging, hand, orphans>>

\* staging.Load: an entry this process is writing is skipped.
SweepLooks(d) ==
    /\ at[d] = "sweeping"
    /\ \E s \in todo[d] :
        /\ todo' = [todo EXCEPT ![d] = @ \ {s}]
        /\ IF <<spelling[d], s>> \in staging[proc[d]]
             THEN UNCHANGED <<at, target>>
             ELSE Goto(d, "judging") /\ target' = [target EXCEPT ![d] = s]
    /\ Outside /\ UNCHANGED <<exists, age, staging, hand, orphans>>

\* Wrong variant: age is not asked for.
SweepJudgesNothing(d) ==
    /\ at[d] = "judging"
    /\ exists' = exists \ {target[d]}
    /\ orphans' = orphans \ {target[d]}
    /\ target' = [target EXCEPT ![d] = NoScratch]
    /\ Goto(d, "sweeping")
    /\ Outside /\ UNCHANGED <<age, staging, hand, todo>>

\* Wrong variant: the first entry that is too young ends the sweep.
SweepGivesUp(d) ==
    /\ at[d] = "judging"
    /\ IF age[target[d]] >= StaleAfter
         THEN /\ exists' = exists \ {target[d]}
              /\ orphans' = orphans \ {target[d]}
              /\ UNCHANGED todo
         ELSE todo' = [todo EXCEPT ![d] = {}] /\ UNCHANGED <<exists, orphans>>
    /\ target' = [target EXCEPT ![d] = NoScratch]
    /\ Goto(d, "sweeping")
    /\ Outside /\ UNCHANGED <<age, staging, hand>>

\* entry.Info, and RemoveAll if it has been there for long enough.
SweepJudges(d) ==
    /\ at[d] = "judging"
    /\ IF age[target[d]] >= StaleAfter
         THEN exists' = exists \ {target[d]} /\ orphans' = orphans \ {target[d]}
         ELSE UNCHANGED <<exists, orphans>>
    /\ target' = [target EXCEPT ![d] = NoScratch]
    /\ Goto(d, "sweeping")
    /\ Outside /\ UNCHANGED <<age, staging, hand, todo>>

SweepEnds(d) ==
    /\ at[d] = "sweeping"
    /\ todo[d] = {}
    /\ Goto(d, "making")
    /\ Outside /\ UNCHANGED <<exists, age, staging, hand, todo, target, orphans>>

-----------------------------------------------------------------------------
\* claimScratch and the function it returns.

\* os.MkdirTemp: a name nobody has or had in view.
MakeScratch(d) ==
    /\ at[d] = "making"
    /\ \E s \in Scratches \ exists :
        /\ \A e \in Downloads : s \notin todo[e] \cup {hand[e], target[e]}
        /\ exists' = exists \cup {s}
        /\ age' = [age EXCEPT ![s] = 0]
        /\ hand' = [hand EXCEPT ![d] = s]
    /\ Goto(d, "storing")
    /\ Outside /\ UNCHANGED <<staging, todo, target, orphans>>

MakeFails(d) ==
    /\ at[d] = "making"
    /\ Goto(d, "idle")
    /\ Outside /\ UNCHANGED <<exists, age, staging, hand, todo, target, orphans>>

Store(d) ==
    /\ at[d] = "storing"
    /\ staging' = [staging EXCEPT ![proc[d]] = @ \cup {Name(d)}]
    /\ Goto(d, "staging")
    /\ Outside /\ UNCHANGED <<exists, age, hand, todo, target, orphans>>

\* The download ends, however it went: its content is on the output or it failed.
Staged(d) ==
    /\ at[d] = "staging"
    /\ Goto(d, "releasing")
    /\ Outside /\ UNCHANGED <<exists, age, staging, hand, todo, target, orphans>>

Unregister(d) ==
    /\ at[d] = "releasing"
    /\ staging' = [staging EXCEPT ![proc[d]] = @ \ {Name(d)}]
    /\ Goto(d, "removing")
    /\ Outside /\ UNCHANGED <<exists, age, hand, todo, target, orphans>>

\* Wrong variant: only the registration is given back.
RemoveNothing(d) ==
    /\ at[d] = "removing"
    /\ hand' = [hand EXCEPT ![d] = NoScratch]
    /\ Goto(d, "idle")
    /\ Outside /\ UNCHANGED <<exists, age, staging, todo, target, orphans>>

\* os.RemoveAll(scratch).
RemoveOwn(d) ==
    /\ at[d] = "removing"
    /\ exists' = exists \ {hand[d]}
    /\ hand' = [hand EXCEPT ![d] = NoScratch]
    /\ Goto(d, "idle")
    /\ Outside /\ UNCHANGED <<age, staging, todo, target, orphans>>

-----------------------------------------------------------------------------
\* A process is killed. Its downloads leave what they had made behind.
Killed(p) == {d \in Downloads : proc[d] = p}

Crash(p) ==
    /\ crashes < MaxCrashes
    /\ crashes' = crashes + 1
    /\ orphans' = orphans \cup (exists \cap {hand[d] : d \in Killed(p)})
    /\ staging' = [staging EXCEPT ![p] = {}]
    /\ at' = [d \in Downloads |-> IF d \in Killed(p) THEN "idle" ELSE at[d]]
    /\ hand' = [d \in Downloads |-> IF d \in Killed(p) THEN NoScratch ELSE hand[d]]
    /\ todo' = [d \in Downloads |-> IF d \in Killed(p) THEN {} ELSE todo[d]]
    /\ target' = [d \in Downloads |-> IF d \in Killed(p) THEN NoScratch ELSE target[d]]
    /\ UNCHANGED <<proc, spelling, exists, age>>

\* Steps a running process makes in no time worth a tick.
Instant == {"judging", "storing"}

\* Writing a file does not touch the directory it is in, so a directory ages while
\* a download works in it.
Tick ==
    /\ Suspends \/ \A d \in Downloads : at[d] \notin Instant
    /\ \E s \in Scratches : age[s] < StaleAfter
    /\ age' = [s \in Scratches |-> IF age[s] < StaleAfter THEN age[s] + 1 ELSE age[s]]
    /\ UNCHANGED <<proc, spelling, exists, staging, at, hand, todo, target, crashes,
                   orphans>>

sweepScratch(d) == SweepBegins(d) \/ SweepLooks(d) \/ SweepJudges(d) \/ SweepEnds(d)

claimScratch(d) == MakeScratch(d) \/ MakeFails(d) \/ Store(d)

release(d) == Unregister(d) \/ RemoveOwn(d)

Next ==
    \/ \E d \in Downloads :
        sweepScratch(d) \/ claimScratch(d) \/ Staged(d) \/ release(d)
    \/ \E p \in Processes : Crash(p)
    \/ Tick

Spec == Init /\ [][Next]_vars

\* Downloads keep coming and each ends, and time passes: the instants in which it
\* may not do not follow one upon the other for ever.
Fairness ==
    /\ \A d \in Downloads :
        WF_vars(sweepScratch(d) \/ claimScratch(d) \/ Staged(d) \/ release(d))
    /\ []<>(\A d \in Downloads : at[d] \notin Instant)
    /\ SF_vars(Tick)

FairSpec == Spec /\ Fairness

-----------------------------------------------------------------------------
\* Properties.

\* "Staging directories this process is writing into, which the sweep leaves alone
\* however old they look."
OwnStagingIsKept ==
    [][\A d, e \in Downloads :
        at[d] = "staging" /\ at[e] = "judging" /\ at'[e] # "judging" /\ proc[d] = proc[e] =>
            (hand[d] \in exists => hand[d] \in exists')]_vars

\* Only a download slower than scratchStaleAfter loses its staging directory, and
\* only to another process.
YoungStagingIsThere ==
    \A d \in Downloads :
        at[d] \in {"storing", "staging"} /\ hand[d] \notin exists =>
            age[hand[d]] >= StaleAfter

\* Nothing is left behind by the living: each staging directory belongs to a
\* download under way or to one that was killed, and what a process has
\* registered are those its downloads work in.
NothingIsLeftBehind ==
    /\ exists \subseteq orphans \cup {hand[d] : d \in Downloads}
    /\ \A p \in Processes :
        staging[p] = {Name(d) : d \in {e \in Killed(p) : at[e] \in {"staging", "releasing"}}}

\* A download has a staging directory while it works, and nobody else has that one.
HandsAreOwn ==
    \A d \in Downloads :
        /\ hand[d] # NoScratch <=> at[d] \in {"storing", "staging", "releasing", "removing"}
        /\ hand[d] \notin orphans
        /\ \A e \in Downloads : hand[d] = hand[e] /\ hand[d] # NoScratch => d = e

OneSpelling == \A s, t \in Spellings : s = t

\* Unless its process is suspended in between, what a download has made is registered
\* before it is a tick old, so a sweep of its process that missed the registration
\* finds it too young.
MadeInNoTime ==
    ~Suspends =>
        /\ \A d \in Downloads : at[d] = "storing" => age[hand[d]] = 0
        /\ OneSpelling =>
            \A d, e \in Downloads :
                /\ at[e] = "judging" /\ proc[d] = proc[e]
                /\ at[d] \in {"storing", "staging"} /\ target[e] = hand[d]
                => age[hand[d]] = 0

\* The directory on disk and the registrations agree with the downloads under way.
ScratchInv == TypeOK /\ NothingIsLeftBehind /\ HandsAreOwn /\ MadeInNoTime

\* "Staging directories left behind by a previous run" go, as long as downloads
\* to that directory keep coming.
LeftoversAreSwept == \A s \in Scratches : (s \in orphans) ~> (s \notin orphans)
=============================================================================
