--------------------------- MODULE Staging_proofs ---------------------------
(***************************************************************************)
(* Proofs about staging directories (Scratch) and what a download writes   *)
(* into one (Writing).                                                     *)
(*                                                                         *)
(* Scratch, for any number of downloads, processes and directories,        *)
(* however long a directory takes to go stale: what a sweep may not take   *)
(* is told apart by three facts. Every directory is in one hand, a         *)
(* directory only grows older while it is, and one that a sweep of its own *)
(* process misses is too young.                                            *)
(*                                                                         *)
(* Writing, for every DAG and every archive: what an entry needs above it  *)
(* is there or free, so what is staged stays one tree; and as long as the  *)
(* download goes on, every file is there at its full length.               *)
(***************************************************************************)
EXTENDS Scratch, Writing, FiniteSetTheorems, SequenceTheorems,
        WellFoundedInduction, TLAPS

\* The inductive invariant.
IInv == ScratchInv /\ YoungStagingIsThere

\* At first there is no staging directory.
LEMMA InitEstablishesIInv == Init => IInv
BY NoScratchIsNone, StaleAfterIsPositive, MaxCrashesIsNatural
   DEF Init, IInv, ScratchInv, TypeOK, Positions, NothingIsLeftBehind, HandsAreOwn,
       MadeInNoTime, YoungStagingIsThere, Killed

\* A step keeps types.
LEMMA TypeOKStep == IInv /\ [Next]_vars => TypeOK'
<1>. SUFFICES ASSUME IInv, [Next]_vars PROVE TypeOK'
    OBVIOUS
<1>. USE NoScratchIsNone, StaleAfterIsPositive, SuspendsIsBoolean, MaxCrashesIsNatural
     DEF IInv, Positions, TypeOK, HandsAreOwn, Name, vars, ScratchInv, Goto,
         Outside,
         Killed
<1>1. ASSUME NEW d \in Downloads, SweepBegins(d) PROVE TypeOK'
    BY <1>1 DEF SweepBegins
<1>2. ASSUME NEW d \in Downloads, SweepLooks(d) PROVE TypeOK'
    BY <1>2 DEF SweepLooks
<1>3. ASSUME NEW d \in Downloads, SweepJudges(d) PROVE TypeOK'
    BY <1>3 DEF SweepJudges
<1>4. ASSUME NEW d \in Downloads, SweepEnds(d) PROVE TypeOK'
    BY <1>4 DEF SweepEnds
<1>5. ASSUME NEW d \in Downloads, MakeScratch(d) PROVE TypeOK'
    BY <1>5 DEF MakeScratch
<1>6. ASSUME NEW d \in Downloads, MakeFails(d) PROVE TypeOK'
    BY <1>6 DEF MakeFails
<1>7. ASSUME NEW d \in Downloads, Store(d) PROVE TypeOK'
    BY <1>7 DEF Store
<1>8. ASSUME NEW d \in Downloads, Staged(d) PROVE TypeOK'
    BY <1>8 DEF Staged
<1>9. ASSUME NEW d \in Downloads, Unregister(d) PROVE TypeOK'
    BY <1>9 DEF Unregister
<1>10. ASSUME NEW d \in Downloads, RemoveOwn(d) PROVE TypeOK'
    BY <1>10 DEF RemoveOwn
<1>11. ASSUME NEW p \in Processes, Crash(p) PROVE TypeOK'
    BY <1>11 DEF Crash
<1>12. ASSUME Tick PROVE TypeOK'
    BY <1>12 DEF Tick
<1>13. CASE UNCHANGED vars
    BY <1>13
<1>. QED
    BY <1>1, <1>2, <1>3, <1>4, <1>5, <1>6, <1>7, <1>8, <1>9, <1>10, <1>11, <1>12,
       <1>13 DEF Next, sweepScratch, claimScratch, release

\* A download gets a directory nobody has, gives it back as it ends, and one that is
\* killed has none.
LEMMA HandsAreOwnStep == IInv /\ [Next]_vars => HandsAreOwn'
<1>. SUFFICES ASSUME IInv, [Next]_vars PROVE HandsAreOwn'
    OBVIOUS
<1>. USE NoScratchIsNone, StaleAfterIsPositive, SuspendsIsBoolean, MaxCrashesIsNatural
     DEF IInv, TypeOK, Positions, HandsAreOwn, vars, ScratchInv, Goto, Outside,
         Killed
<1>1. ASSUME NEW d \in Downloads, SweepBegins(d) PROVE HandsAreOwn'
    BY <1>1 DEF SweepBegins
<1>2. ASSUME NEW d \in Downloads, SweepLooks(d) PROVE HandsAreOwn'
    BY <1>2 DEF SweepLooks
<1>3. ASSUME NEW d \in Downloads, SweepJudges(d) PROVE HandsAreOwn'
    BY <1>3 DEF SweepJudges
<1>4. ASSUME NEW d \in Downloads, SweepEnds(d) PROVE HandsAreOwn'
    BY <1>4 DEF SweepEnds
<1>5. ASSUME NEW d \in Downloads, MakeScratch(d) PROVE HandsAreOwn'
    BY <1>5 DEF MakeScratch
<1>6. ASSUME NEW d \in Downloads, MakeFails(d) PROVE HandsAreOwn'
    BY <1>6 DEF MakeFails
<1>7. ASSUME NEW d \in Downloads, Store(d) PROVE HandsAreOwn'
    BY <1>7 DEF Store
<1>8. ASSUME NEW d \in Downloads, Staged(d) PROVE HandsAreOwn'
    BY <1>8 DEF Staged
<1>9. ASSUME NEW d \in Downloads, Unregister(d) PROVE HandsAreOwn'
    BY <1>9 DEF Unregister
<1>10. ASSUME NEW d \in Downloads, RemoveOwn(d) PROVE HandsAreOwn'
    BY <1>10 DEF RemoveOwn
<1>11. ASSUME NEW p \in Processes, Crash(p) PROVE HandsAreOwn'
    BY <1>11 DEF Crash
<1>12. ASSUME Tick PROVE HandsAreOwn'
    BY <1>12 DEF Tick
<1>13. CASE UNCHANGED vars
    BY <1>13
<1>. QED
    BY <1>1, <1>2, <1>3, <1>4, <1>5, <1>6, <1>7, <1>8, <1>9, <1>10, <1>11, <1>12,
       <1>13 DEF Next, sweepScratch, claimScratch, release

\* What leaves a hand leaves the disk or was left by a kill.
LEMMA NothingIsLeftBehindStep == IInv /\ [Next]_vars => NothingIsLeftBehind'
<1>. SUFFICES ASSUME IInv, [Next]_vars PROVE NothingIsLeftBehind'
    OBVIOUS
<1>. USE NoScratchIsNone, StaleAfterIsPositive, SuspendsIsBoolean, MaxCrashesIsNatural
     DEF IInv, TypeOK, Positions, HandsAreOwn, NothingIsLeftBehind, Name, vars,
         ScratchInv, Goto, Outside, Killed
<1>1. ASSUME NEW d \in Downloads, SweepBegins(d) PROVE NothingIsLeftBehind'
    BY <1>1 DEF SweepBegins
<1>2. ASSUME NEW d \in Downloads, SweepLooks(d) PROVE NothingIsLeftBehind'
    BY <1>2 DEF SweepLooks
<1>3. ASSUME NEW d \in Downloads, SweepJudges(d) PROVE NothingIsLeftBehind'
    BY <1>3 DEF SweepJudges
<1>4. ASSUME NEW d \in Downloads, SweepEnds(d) PROVE NothingIsLeftBehind'
    BY <1>4 DEF SweepEnds
<1>5. ASSUME NEW d \in Downloads, MakeScratch(d) PROVE NothingIsLeftBehind'
    <2>1. PICK s \in Scratches \ exists :
            /\ exists' = exists \cup {s}
            /\ hand' = [hand EXCEPT ![d] = s]
        BY <1>5 DEF MakeScratch
    <2>2. hand[d] = NoScratch /\ hand'[d] = s /\ UNCHANGED orphans
        BY <1>5, <2>1 DEF MakeScratch
    <2>3. exists' \subseteq orphans' \cup {hand'[e] : e \in Downloads}
        <3>. SUFFICES ASSUME NEW t \in exists', t \notin orphans'
                      PROVE  \E e \in Downloads : t = hand'[e]
            OBVIOUS
        <3>1. CASE t = s
            BY <2>2, <3>1
        <3>2. CASE t # s
          <4>1. PICK e \in Downloads : t = hand[e]
            BY <2>1, <2>2, <3>2
          <4>2. e # d
            BY <2>1, <2>2, <3>2, <4>1
          <4>. QED  BY <2>1, <4>1, <4>2
        <3>. QED  BY <3>1, <3>2
    <2>4. \A e \in Downloads : at[e] \in {"staging", "releasing"} =>
            /\ e # d /\ at'[e] = at[e] /\ Name(e)' = Name(e)
        BY <1>5, <2>1 DEF MakeScratch
    <2>5. \A e \in Downloads : at'[e] \in {"staging", "releasing"} => at[e] \in {"staging", "releasing"}
        BY <1>5 DEF MakeScratch
    <2>6. staging' = staging /\ proc' = proc
        BY <1>5 DEF MakeScratch
    <2>. HIDE DEF Name
    <2>. QED  BY <2>3, <2>4, <2>5, <2>6
<1>6. ASSUME NEW d \in Downloads, MakeFails(d) PROVE NothingIsLeftBehind'
    BY <1>6 DEF MakeFails
<1>7. ASSUME NEW d \in Downloads, Store(d) PROVE NothingIsLeftBehind'
    BY <1>7 DEF Store
<1>8. ASSUME NEW d \in Downloads, Staged(d) PROVE NothingIsLeftBehind'
    BY <1>8 DEF Staged
<1>9. ASSUME NEW d \in Downloads, Unregister(d) PROVE NothingIsLeftBehind'
    BY <1>9 DEF Unregister
<1>10. ASSUME NEW d \in Downloads, RemoveOwn(d) PROVE NothingIsLeftBehind'
    BY <1>10 DEF RemoveOwn
<1>11. ASSUME NEW p \in Processes, Crash(p) PROVE NothingIsLeftBehind'
    BY <1>11 DEF Crash
<1>12. ASSUME Tick PROVE NothingIsLeftBehind'
    BY <1>12 DEF Tick
<1>13. CASE UNCHANGED vars
    BY <1>13
<1>. QED
    BY <1>1, <1>2, <1>3, <1>4, <1>5, <1>6, <1>7, <1>8, <1>9, <1>10, <1>11, <1>12,
       <1>13 DEF Next, sweepScratch, claimScratch, release

\* The sweep takes what is old, a release what is its own.
LEMMA YoungStagingIsThereStep == IInv /\ [Next]_vars => YoungStagingIsThere'
<1>. SUFFICES ASSUME IInv, [Next]_vars PROVE YoungStagingIsThere'
    OBVIOUS
<1>. USE NoScratchIsNone, StaleAfterIsPositive, SuspendsIsBoolean, MaxCrashesIsNatural
     DEF IInv, TypeOK, Positions, HandsAreOwn, YoungStagingIsThere, vars,
         ScratchInv,
         Goto, Outside, Killed
<1>1. ASSUME NEW d \in Downloads, SweepBegins(d) PROVE YoungStagingIsThere'
    BY <1>1 DEF SweepBegins
<1>2. ASSUME NEW d \in Downloads, SweepLooks(d) PROVE YoungStagingIsThere'
    BY <1>2 DEF SweepLooks
<1>3. ASSUME NEW d \in Downloads, SweepJudges(d) PROVE YoungStagingIsThere'
    BY <1>3 DEF SweepJudges
<1>4. ASSUME NEW d \in Downloads, SweepEnds(d) PROVE YoungStagingIsThere'
    BY <1>4 DEF SweepEnds
<1>5. ASSUME NEW d \in Downloads, MakeScratch(d) PROVE YoungStagingIsThere'
    BY <1>5 DEF MakeScratch
<1>6. ASSUME NEW d \in Downloads, MakeFails(d) PROVE YoungStagingIsThere'
    BY <1>6 DEF MakeFails
<1>7. ASSUME NEW d \in Downloads, Store(d) PROVE YoungStagingIsThere'
    BY <1>7 DEF Store
<1>8. ASSUME NEW d \in Downloads, Staged(d) PROVE YoungStagingIsThere'
    BY <1>8 DEF Staged
<1>9. ASSUME NEW d \in Downloads, Unregister(d) PROVE YoungStagingIsThere'
    BY <1>9 DEF Unregister
<1>10. ASSUME NEW d \in Downloads, RemoveOwn(d) PROVE YoungStagingIsThere'
    BY <1>10 DEF RemoveOwn
<1>11. ASSUME NEW p \in Processes, Crash(p) PROVE YoungStagingIsThere'
    BY <1>11 DEF Crash
<1>12. ASSUME Tick PROVE YoungStagingIsThere'
    BY <1>12 DEF Tick
<1>13. CASE UNCHANGED vars
    BY <1>13
<1>. QED
    BY <1>1, <1>2, <1>3, <1>4, <1>5, <1>6, <1>7, <1>8, <1>9, <1>10, <1>11, <1>12,
       <1>13 DEF Next, sweepScratch, claimScratch, release

\* No tick between making and registering, nor between the looks of a sweep.
LEMMA MadeInNoTimeStep == IInv /\ [Next]_vars => MadeInNoTime'
<1>. SUFFICES ASSUME IInv, [Next]_vars PROVE MadeInNoTime'
    OBVIOUS
<1>. USE NoScratchIsNone, StaleAfterIsPositive, SuspendsIsBoolean, MaxCrashesIsNatural
     DEF IInv, TypeOK, Positions, HandsAreOwn, MadeInNoTime, Instant, OneSpelling,
         NothingIsLeftBehind, Name, Killed, vars, ScratchInv, Goto, Outside, Killed
<1>1. ASSUME NEW d \in Downloads, SweepBegins(d) PROVE MadeInNoTime'
    BY <1>1 DEF SweepBegins
<1>2. ASSUME NEW d \in Downloads, SweepLooks(d) PROVE MadeInNoTime'
    BY <1>2 DEF SweepLooks
<1>3. ASSUME NEW d \in Downloads, SweepJudges(d) PROVE MadeInNoTime'
    BY <1>3 DEF SweepJudges
<1>4. ASSUME NEW d \in Downloads, SweepEnds(d) PROVE MadeInNoTime'
    BY <1>4 DEF SweepEnds
<1>5. ASSUME NEW d \in Downloads, MakeScratch(d) PROVE MadeInNoTime'
    BY <1>5 DEF MakeScratch
<1>6. ASSUME NEW d \in Downloads, MakeFails(d) PROVE MadeInNoTime'
    BY <1>6 DEF MakeFails
<1>7. ASSUME NEW d \in Downloads, Store(d) PROVE MadeInNoTime'
    BY <1>7 DEF Store
<1>8. ASSUME NEW d \in Downloads, Staged(d) PROVE MadeInNoTime'
    BY <1>8 DEF Staged
<1>9. ASSUME NEW d \in Downloads, Unregister(d) PROVE MadeInNoTime'
    BY <1>9 DEF Unregister
<1>10. ASSUME NEW d \in Downloads, RemoveOwn(d) PROVE MadeInNoTime'
    BY <1>10 DEF RemoveOwn
<1>11. ASSUME NEW p \in Processes, Crash(p) PROVE MadeInNoTime'
    BY <1>11 DEF Crash
<1>12. ASSUME Tick PROVE MadeInNoTime'
    BY <1>12 DEF Tick
<1>13. CASE UNCHANGED vars
    BY <1>13
<1>. QED
    BY <1>1, <1>2, <1>3, <1>4, <1>5, <1>6, <1>7, <1>8, <1>9, <1>10, <1>11, <1>12,
       <1>13 DEF Next, sweepScratch, claimScratch, release

\* A step keeps the invariant, conjunct by conjunct.
LEMMA IInvStep == IInv /\ [Next]_vars => IInv'
BY TypeOKStep, HandsAreOwnStep, NothingIsLeftBehindStep, YoungStagingIsThereStep,
   MadeInNoTimeStep DEF IInv, ScratchInv

\* The two properties below follow from what every step keeps.
LEMMA IInvariance == Spec => []IInv
BY InitEstablishesIInv, IInvStep, PTL DEF Spec

-----------------------------------------------------------------------------
\* Whatever claims, sweeps, releases and kills interleave, a staging directory on
\* disk belongs to a download under way or to one that was killed, and a process has
\* registered exactly the directories its downloads work in.
THEOREM ScratchInvariance == Spec => []ScratchInv
<1>1. IInv => ScratchInv
    BY DEF IInv
<1>. QED  BY <1>1, IInvariance, PTL

\* A download that loses its staging directory has been at it for longer than
\* scratchStaleAfter, however processes are suspended and directories spelled.
THEOREM YoungStagingIsSafe == Spec => []YoungStagingIsThere
<1>1. IInv => YoungStagingIsThere
    BY DEF IInv
<1>. QED  BY <1>1, IInvariance, PTL

\* The sweep never takes what its own process is writing, as long as that process
\* spells the directory one way and is not suspended between two statements: with
\* either TLC shows that it may.
THEOREM OwnStagingIsSafe ==
    ASSUME ~Suspends, OneSpelling
    PROVE  Spec => OwnStagingIsKept
<1>. DEFINE Kept ==
        \A d, e \in Downloads :
            at[d] = "staging" /\ at[e] = "judging" /\ at'[e] # "judging" /\ proc[d] = proc[e] =>
                (hand[d] \in exists => hand[d] \in exists')
<1>1. ASSUME IInv, [Next]_vars PROVE Kept
  <2>. SUFFICES ASSUME NEW d \in Downloads, NEW e \in Downloads,
                       at[d] = "staging", at[e] = "judging", at'[e] # "judging",
                       proc[d] = proc[e], hand[d] \in exists
                PROVE  hand[d] \in exists'
    OBVIOUS
  <2>. USE DEF IInv, ScratchInv, TypeOK, Positions
  <2>1. ASSUME SweepJudges(e) PROVE hand[d] \in exists'
    <3>1. target[e] = hand[d] => age[target[e]] = 0
        BY <1>1 DEF MadeInNoTime
    <3>2. ~(0 >= StaleAfter)
        BY StaleAfterIsPositive
    <3>. QED  BY <2>1, <3>1, <3>2 DEF SweepJudges
  <2>2. ASSUME NEW f \in Downloads, f # e,
               sweepScratch(f) \/ claimScratch(f) \/ Staged(f) \/ release(f)
        PROVE  FALSE
    BY <1>1, <2>2 DEF sweepScratch, claimScratch, release, SweepBegins, SweepLooks,
       SweepJudges, SweepEnds, MakeScratch, MakeFails, Store, Staged, Unregister,
       RemoveOwn, Goto
  <2>3. ASSUME sweepScratch(e) \/ claimScratch(e) \/ Staged(e) \/ release(e)
        PROVE  SweepJudges(e)
    BY <2>3 DEF sweepScratch, claimScratch, release, SweepBegins, SweepLooks,
       SweepEnds, MakeScratch, MakeFails, Store, Staged, Unregister, RemoveOwn
  <2>4. ASSUME NEW p \in Processes, Crash(p) PROVE hand[d] \in exists'
    BY <2>4 DEF Crash
  <2>5. CASE Tick \/ UNCHANGED vars
    BY <2>5 DEF Tick, vars
  <2>. QED  BY <1>1, <2>1, <2>2, <2>3, <2>4, <2>5 DEF Next
<1>2. IInv /\ [Next]_vars => [Kept]_vars
    BY <1>1
<1>. QED  BY <1>2, IInvariance, PTL DEF Spec, OwnStagingIsKept

-----------------------------------------------------------------------------
\* What an entry consists of.
LEMMA EntryTyped ==
    ASSUME NEW e \in Entries
    PROVE  /\ e.kind \in Kinds /\ e.name \in Seq(Names) /\ e.size \in 0..MaxInt
           /\ e.kind # "file" => e.size = 0
<1>1. BoundedSeq(Names, MaxDepth) \subseteq Seq(Names)
    BY SeqDef, BoundsAreNatural DEF BoundedSeq, SeqOf
<1>2. /\ e.kind \in Kinds /\ e.name \in BoundedSeq(Names, MaxDepth)
      /\ e.size \in Sizes \cup {0}
      /\ e.kind # "file" => e.size = 0
    BY DEF Entries
<1>3. Sizes \cup {0} \subseteq 0..MaxInt
    BY SizesFit, MaxIntIsPositive
<1>. QED  BY <1>1, <1>2, <1>3

\* What fits does not wrap.
LEMMA FittingStays == ASSUME NEW n \in 0..MaxInt PROVE Wrapped(n) = n
<1>. DEFINE w == 2 * (MaxInt + 1)
<1>1. /\ MaxInt \in Nat /\ n \in Int /\ w \in Nat \ {0} 
      /\ n + MaxInt + 1 \in 0..(w - 1)
    BY MaxIntIsPositive
<1>2. (n + MaxInt + 1) % w = n + MaxInt + 1
  <2>. HIDE DEF w
  <2>. QED BY <1>1
<1>. QED  BY <1>1, <1>2 DEF Wrapped

\* One past the largest is the smallest.
LEMMA LargestWraps == Wrapped(MaxInt + 1) = -(MaxInt + 1)
<1>. DEFINE w == 2 * (MaxInt + 1)
<1>1. /\ MaxInt \in Nat /\ w \in Nat \ {0} /\ (MaxInt + 1) + MaxInt + 1 = w
    BY MaxIntIsPositive
<1>2. w % w = 0
  <2>. HIDE DEF w
  <2>. QED BY <1>1
<1>. QED  BY <1>1, <1>2 DEF Wrapped

\* Every set of numbers has a least one.
LEMMA LeastNatural ==
    ASSUME NEW T \in SUBSET Nat, T # {}
    PROVE  \E m \in T : \A n \in T : m <= n
<1>. DEFINE below == {1..n : n \in T}
<1>1. below \subseteq FiniteSubsetsOf(Nat) /\ below # {}
  <2>1. \A n \in T : IsFiniteSet(1..n) /\ 1..n \in SUBSET Nat
    BY FS_Interval
  <2>2. \A s \in below : s \in SUBSET Nat /\ IsFiniteSet(s)
    BY <2>1
  <2>. QED  BY <2>2 DEF FiniteSubsetsOf
<1>2. PICK s \in below : \A t \in below : <<t, s>> \notin StrictSubsetOrdering(Nat)
  <2>. HIDE DEF below
  <2>. QED  BY <1>1, FS_StrictSubsetOrderingWellFounded, WFMin
<1>3. PICK m \in T : s = 1..m
    BY <1>2
<1>4. ASSUME NEW n \in T, n < m PROVE FALSE
  <2>1. 1..n \subseteq 1..m /\ 1..n # 1..m /\ 1..n \subseteq Nat /\ 1..m \subseteq Nat
    <3>1. m \in 1..m /\ m \notin 1..n
        BY <1>4
    <3>2. n \in Nat /\ m \in Nat
        OBVIOUS
    <3>. QED  BY <1>4, <3>1, <3>2
  <2>2. <<1..n, 1..m>> \in StrictSubsetOrdering(Nat)
    BY <2>1 DEF StrictSubsetOrdering
  <2>. QED  BY <1>2, <1>3, <2>2
<1>. QED  BY <1>4

\* What holds of zero and passes on to the next number holds of all.
LEMMA NumbersByOne ==
    ASSUME NEW T \in SUBSET Nat, 0 \in T, \A n \in T : n + 1 \in T
    PROVE  T = Nat
<1>. SUFFICES ASSUME T # Nat PROVE FALSE
    OBVIOUS
<1>1. PICK m \in Nat \ T : \A n \in Nat \ T : m <= n
    BY LeastNatural
<1>2. m # 0 /\ m - 1 \in Nat
    BY <1>1
<1>3. m - 1 \in T
    BY <1>1, <1>2
<1>. QED  BY <1>1, <1>3

\* The recursion of Clean has a solution: one for the first k elements extends to the
\* next.
LEMMA CleanedExists ==
    ASSUME NEW name \in Seq(Names)
    PROVE  \E c : c = [i \in 0..Len(name) |->
                         IF i = 0 THEN <<>> ELSE Climb(c[i - 1], name[i])]
<1>. DEFINE Starts(k) == \E c : c = [i \in 0..k |->
                             IF i = 0 THEN <<>> ELSE Climb(c[i - 1], name[i])]
            started == {k \in Nat : Starts(k)}
<1>1. Starts(0)
  <2>1. PICK c : c = [i \in 0..0 |-> <<>>]
    OBVIOUS
  <2>2. c = [i \in 0..0 |-> IF i = 0 THEN <<>> ELSE Climb(c[i - 1], name[i])]
    BY <2>1
  <2>. QED  BY <2>2
<1>2. ASSUME NEW k \in Nat, Starts(k) PROVE Starts(k + 1)
  <2>1. PICK c : c = [i \in 0..k |-> IF i = 0 THEN <<>> ELSE Climb(c[i - 1], name[i])]
    BY <1>2
  <2>. DEFINE d == [i \in 0..(k + 1) |-> IF i <= k THEN c[i] ELSE Climb(c[k], name[i])]
  <2>2. \A i \in 0..(k + 1) :
          d[i] = IF i = 0 THEN <<>> ELSE Climb(d[i - 1], name[i])
    <3>1. ASSUME NEW i \in 0..k
          PROVE  d[i] = IF i = 0 THEN <<>> ELSE Climb(d[i - 1], name[i])
      <4>1. c[i] = IF i = 0 THEN <<>> ELSE Climb(c[i - 1], name[i])
        BY <2>1
      <4>2. d[i] = c[i] /\ (i # 0 => d[i - 1] = c[i - 1])
        OBVIOUS
      <4>. QED  BY <4>1, <4>2
    <3>2. d[k + 1] = Climb(d[k], name[k + 1])
      OBVIOUS
    <3>. QED  BY <3>1, <3>2
  <2>3. d = [i \in 0..(k + 1) |-> IF i = 0 THEN <<>> ELSE Climb(d[i - 1], name[i])]
    <3>1. d = [i \in 0..(k + 1) |-> d[i]]
        OBVIOUS
    <3>. HIDE DEF d
    <3>. QED  BY <2>2, <3>1
  <2>. QED  BY <2>3
<1>3. started = Nat
  <2>1. 0 \in started /\ \A k \in started : k + 1 \in started
    <3>. HIDE DEF Starts
    <3>. QED  BY <1>1, <1>2
  <2>2. started \in SUBSET Nat
    OBVIOUS
  <2>. HIDE DEF started
  <2>. QED  BY <2>1, <2>2, NumbersByOne
<1>4. Len(name) \in started
    BY <1>3
<1>. QED  BY <1>4

\* A step of Clean takes an element or goes up, and never takes "..".
LEMMA ClimbTyped ==
    ASSUME NEW path \in Seq(Names \ {".."}), NEW n \in Names
    PROVE  Climb(path, n) \in Seq(Names \ {".."})
<1>1. path # <<>> => Front(path) \in Seq(Names \ {".."})
  <2>1. \A i \in 1..(Len(path) - 1) : path[i] \in Names \ {".."}
    OBVIOUS
  <2>. QED  BY <2>1, SubSeqProperties DEF Front
<1>. QED  BY <1>1 DEF Climb

\* filepath.Clean of a rooted name, however long, leaves no ".." in it.
THEOREM CleanNeverClimbs ==
    ASSUME NEW name \in Seq(Names)
    PROVE  Clean(name) \in Seq(Names \ {".."})
<1>. DEFINE IsCleaned(c) == c = [i \in 0..Len(name) |->
                               IF i = 0 THEN <<>> ELSE Climb(c[i - 1], name[i])]
            cleaned == CHOOSE c : IsCleaned(c)
<1>1. IsCleaned(cleaned)
  <2>1. \E c : IsCleaned(c)
    BY CleanedExists
  <2>. HIDE DEF IsCleaned
  <2>. QED  BY <2>1
<1>2. Clean(name) = cleaned[Len(name)]
    BY DEF Clean
<1>3. \A i \in 0..Len(name) :
        cleaned[i] = IF i = 0 THEN <<>> ELSE Climb(cleaned[i - 1], name[i])
  <2>. HIDE DEF cleaned
  <2>. QED  BY <1>1
<1>. HIDE DEF cleaned, IsCleaned
<1>. DEFINE Typed(k) == k <= Len(name) => cleaned[k] \in Seq(Names \ {".."})
            typed == {k \in Nat : Typed(k)}
<1>4. Typed(0)
  <2>1. 0 \in 0..Len(name)
    OBVIOUS
  <2>2. cleaned[0] = <<>>
    BY <1>3, <2>1
  <2>. QED  BY <2>2
<1>5. ASSUME NEW k \in Nat, Typed(k) PROVE Typed(k + 1)
  <2>. SUFFICES ASSUME k + 1 <= Len(name) PROVE cleaned[k + 1] \in Seq(Names \ {".."})
    OBVIOUS
  <2>1. name[k + 1] \in Names /\ cleaned[k] \in Seq(Names \ {".."})
    BY <1>5
  <2>2. cleaned[k + 1] = Climb(cleaned[k], name[k + 1])
    BY <1>3
  <2>. QED  BY <2>1, <2>2, ClimbTyped
<1>6. typed = Nat
  <2>1. typed \in SUBSET Nat /\ 0 \in typed /\ \A k \in typed : k + 1 \in typed
    <3>. HIDE DEF Typed
    <3>. QED  BY <1>4, <1>5
  <2>. HIDE DEF typed
  <2>. QED  BY <2>1, NumbersByOne
<1>7. Len(name) \in typed
    BY <1>6
<1>. QED  BY <1>2, <1>7

\* What lies above a path is shorter than the path, starts where it does and has no
\* element of its own.
LEMMA ParentsAreBeginnings ==
    ASSUME NEW S, NEW path \in Seq(S), NEW p \in Parents(path)
    PROVE  /\ p \in Seq(S) /\ p # <<>> /\ Head(p) = Head(path)
           /\ Range(p) \subseteq Range(path)
           /\ p # path
           /\ Parents(p) \subseteq Parents(path)
<1>1. PICK i \in 1..(Len(path) - 1) : p = SubSeq(path, 1, i)
    BY DEF Parents
<1>2. /\ p \in Seq(S) /\ Len(p) = i
      /\ \A j \in 1..i : p[j] = path[j]
  <2>1. \A j \in 1..i : path[j] \in S
    BY <1>1
  <2>2. i \in Int /\ 1 <= i /\ i - 1 + 1 = i
    BY <1>1
  <2>. QED  BY <1>1, <2>1, <2>2, SubSeqProperties
<1>3. Len(path) \in Nat /\ i \in Nat /\ 1 <= i /\ i < Len(path)
    BY <1>1
<1>4. p # <<>> /\ Head(p) = Head(path)
    BY <1>2, <1>3
<1>5. Range(p) \subseteq Range(path)
    BY <1>2, <1>3, RangeEquality
<1>6. ASSUME NEW q \in Parents(p) PROVE q \in Parents(path)
  <2>1. PICK j \in 1..(i - 1) : q = SubSeq(p, 1, j)
    BY <1>2, <1>6 DEF Parents
  <2>2. q = SubSeq(path, 1, j)
    <3>1. /\ 1 \in 1..Len(path) /\ i \in 1..Len(path)
          /\ 1 \in 1..(i - 1 + 1) /\ j \in 1..(i - 1 + 1) /\ 1 + j - 1 = j
        BY <1>3, <2>1
    <3>. QED  BY <1>1, <2>1, <3>1, SubSeqOfSubSeq
  <2>3. j \in 1..(Len(path) - 1)
    BY <1>3, <2>1
  <2>. QED  BY <2>2, <2>3 DEF Parents
<1>7. p # path
    BY <1>2, <1>3
<1>. QED  BY <1>2, <1>4, <1>5, <1>6, <1>7

\* One element more: what is above it is the path before and what is above that.
LEMMA ParentsOfOneMore ==
    ASSUME NEW S, NEW path \in Seq(S), path # <<>>, NEW x \in S
    PROVE  Parents(Append(path, x)) = Parents(path) \cup {path}
<1>. DEFINE more == Append(path, x)
<1>1. more \in Seq(S) /\ Len(more) = Len(path) + 1 /\ Len(path) \in Nat \ {0}
    BY AppendProperties, EmptySeq
<1>2. \A i \in 1..Len(path) : SubSeq(more, 1, i) = SubSeq(path, 1, i)
  <2>1. more = path \o <<x>> /\ <<x>> \in Seq(S)
    BY AppendIsConcat
  <2>. HIDE DEF more
  <2>2. 1 \in 1..Len(path)
    BY <1>1
  <2>. QED  BY <2>1, <2>2, SubSeqOfConcat1
<1>3. SubSeq(path, 1, Len(path)) = path
    BY SubSeqFull
<1>. HIDE DEF more
<1>4. 1..(Len(more) - 1) = (1..(Len(path) - 1)) \cup {Len(path)}
    BY <1>1
<1>5. \A i \in 1..(Len(path) - 1) : SubSeq(more, 1, i) = SubSeq(path, 1, i)
    BY <1>1, <1>2
<1>6. SubSeq(more, 1, Len(path)) = path
    BY <1>1, <1>2, <1>3
<1>7. Parents(more) = Parents(path) \cup {path}
    BY <1>4, <1>5, <1>6 DEF Parents
<1>. QED  BY <1>7 DEF more

\* A path of a DAG is one element more than the path of its directory.
LEMMA LastIsOneMore ==
    ASSUME NEW S, NEW s \in Seq(S), s # <<>>
    PROVE  /\ Front(s) \in Seq(S) /\ Last(s) \in S
           /\ s = Append(Front(s), Last(s))
<1>1. Len(s) \in Nat \ {0} /\ \A i \in 1..Len(s) : s[i] \in S
    BY EmptySeq
<1>2. /\ Front(s) \in Seq(S) /\ Len(Front(s)) = Len(s) - 1
      /\ \A i \in 1..(Len(s) - 1) : Front(s)[i] = s[i]
  <2>1. \A i \in 1..(Len(s) - 1) : s[i] \in S
    BY <1>1
  <2>2. PICK n \in Nat : n = Len(s) - 1
    BY <1>1
  <2>3. /\ SubSeq(s, 1, n) \in Seq(S)
        /\ Len(SubSeq(s, 1, n)) = IF 1 <= n THEN n - 1 + 1 ELSE 0
        /\ \A i \in 1..(n - 1 + 1) : SubSeq(s, 1, n)[i] = s[1 + i - 1]
    BY <2>1, <2>2, SubSeqProperties
  <2>. QED  BY <2>2, <2>3 DEF Front
<1>3. Last(s) \in S
    BY <1>1 DEF Last
<1>4. /\ Append(Front(s), Last(s)) \in Seq(S)
      /\ Len(Append(Front(s), Last(s))) = Len(s)
      /\ \A i \in 1..Len(s) : Append(Front(s), Last(s))[i] = s[i]
  <2>. HIDE DEF Front
  <2>. QED  BY <1>1, <1>2, <1>3 DEF Last
<1>. QED  BY <1>2, <1>3, <1>4, SeqEqual

\* The beginnings of one element more.
LEMMA PrefixesOfOneMore ==
    ASSUME NEW S, NEW s \in Seq(S), NEW x \in S
    PROVE  Prefixes(Append(s, x)) = Prefixes(s) \cup {Append(s, x)}
<1>. DEFINE more == Append(s, x)
<1>1. more \in Seq(S) /\ Len(more) = Len(s) + 1 /\ Len(s) \in Nat
    BY AppendProperties, EmptySeq
<1>2. \A i \in 0..Len(s) : SubSeq(more, 1, i) = SubSeq(s, 1, i)
  <2>1. more = s \o <<x>> /\ <<x>> \in Seq(S)
    BY AppendIsConcat
  <2>2. SubSeq(more, 1, 0) = <<>> /\ SubSeq(s, 1, 0) = <<>>
    BY SubSeqEmpty
  <2>. HIDE DEF more
  <2>3. \A i \in 1..Len(s) : 1 \in 1..Len(s)
    BY <1>1
  <2>4. \A i \in 1..Len(s) : SubSeq(more, 1, i) = SubSeq(s, 1, i)
    BY <2>1, <2>3, SubSeqOfConcat1
  <2>. QED  BY <1>1, <2>2, <2>4
<1>3. SubSeq(more, 1, Len(more)) = more
    BY <1>1, SubSeqFull
<1>. HIDE DEF more
<1>4. 0..Len(more) = (0..Len(s)) \cup {Len(more)}
    BY <1>1
<1>5. Prefixes(more) = Prefixes(s) \cup {more}
    BY <1>2, <1>3, <1>4 DEF Prefixes
<1>. QED  BY <1>5 DEF more

\* A beginning of a beginning is a beginning.
LEMMA PrefixesOfPrefix ==
    ASSUME NEW S, NEW s \in Seq(S), NEW t \in Prefixes(s)
    PROVE  t \in Seq(S) /\ Prefixes(t) \subseteq Prefixes(s)
<1>1. PICK n \in 0..Len(s) : t = SubSeq(s, 1, n)
    BY DEF Prefixes
<1>2. t \in Seq(S) /\ Len(t) = n
  <2>1. \A j \in 1..n : s[j] \in S
    BY <1>1
  <2>2. n \in Int /\ (IF 1 <= n THEN n - 1 + 1 ELSE 0) = n
    BY <1>1
  <2>. QED  BY <1>1, <2>1, <2>2, SubSeqProperties
<1>3. ASSUME NEW m \in 0..n PROVE SubSeq(t, 1, m) = SubSeq(s, 1, m)
  <2>1. CASE m = 0
    BY <2>1, SubSeqEmpty
  <2>2. CASE m # 0
    <3>1. /\ 1 \in 1..Len(s) /\ n \in 1..Len(s)
          /\ 1 \in 1..(n - 1 + 1) /\ m \in 1..(n - 1 + 1) /\ 1 + m - 1 = m
        BY <1>1, <2>2
    <3>. QED  BY <1>1, <3>1, SubSeqOfSubSeq
  <2>. QED  BY <2>1, <2>2
<1>4. 0..n \subseteq 0..Len(s)
    BY <1>1
<1>. QED  BY <1>2, <1>3, <1>4 DEF Prefixes

\* Directories have no bytes.
LEMMA DirectoriesAreEmpty ==
    ASSUME NEW S, NEW paths
    PROVE  Bytes(S \cup {Node(p, "directory", 0) : p \in paths}) = Bytes(S)
<1>1. \A p : (1..Node(p, "directory", 0).size) = {}
    BY DEF Node
<1>. HIDE DEF Node
<1>. QED  BY <1>1 DEF Bytes

\* A file adds as many bytes as it has.
LEMMA FileAddsBytes ==
    ASSUME NEW S, NEW n, n \notin S, n.size \in Nat, IsFiniteSet(Bytes(S))
    PROVE  /\ IsFiniteSet(Bytes(S \cup {n}))
           /\ Cardinality(Bytes(S \cup {n})) = Cardinality(Bytes(S)) + n.size
<1>. DEFINE own == {n} \X (1..n.size)
<1>1. IsFiniteSet(own) /\ Cardinality(own) = n.size
  <2>1. IsFiniteSet(1..n.size) /\ Cardinality(1..n.size) = n.size
    BY FS_Interval
  <2>2. IsFiniteSet({n}) /\ Cardinality({n}) = 1
    BY FS_Singleton
  <2>3. IsFiniteSet(own) /\ Cardinality(own) = 1 * n.size
    BY <2>1, <2>2, FS_Product
  <2>. QED  BY <2>3
<1>2. Bytes(S \cup {n}) = Bytes(S) \cup own
    BY DEF Bytes
<1>3. Bytes(S) \cap own = {}
    BY DEF Bytes
<1>4. Cardinality(Bytes(S)) \in Nat
    BY FS_CardinalityType
<1>. HIDE DEF own
<1>5. /\ IsFiniteSet(Bytes(S) \cup own)
      /\ Cardinality(Bytes(S) \cup own) =
           Cardinality(Bytes(S)) + Cardinality(own) - Cardinality(Bytes(S) \cap own)
    BY <1>1, FS_Union
<1>6. Cardinality(Bytes(S) \cap own) = 0
    BY <1>3, FS_EmptySet
<1>7. Cardinality(Bytes(S) \cup own) = Cardinality(Bytes(S)) + n.size
    BY <1>1, <1>4, <1>5, <1>6
<1>. QED  BY <1>2, <1>5, <1>7

\* An entry goes to a path; one of an archive never climbs.
LEMMA PlaceTyped ==
    ASSUME NEW e \in Entries, source \in {"dag", "tar"}
    PROVE  /\ Place(e) \in Seq(Names \cup {"data"})
           /\ source = "tar" => Place(e) \in Seq(Names \ {".."})
           /\ source = "dag" => Place(e) # <<>> /\ Head(Place(e)) = "data"
<1>1. e.name \in Seq(Names)
    BY EntryTyped
<1>2. CASE source = "tar"
  <2>1. Place(e) = Clean(e.name) /\ Clean(e.name) \in Seq(Names \ {".."})
    BY <1>1, <1>2, CleanNeverClimbs DEF Place
  <2>2. Place(e) \in Seq(Names \cup {"data"})
    BY <2>1, SeqMonotonic
  <2>. QED  BY <1>2, <2>1, <2>2
<1>3. CASE source = "dag"
  <2>1. Place(e) = <<"data">> \o e.name
    BY <1>3 DEF Place
  <2>2. e.name \in Seq(Names \cup {"data"}) /\ <<"data">> \in Seq(Names \cup {"data"})
    BY <1>1, SeqMonotonic
  <2>3. /\ Place(e) \in Seq(Names \cup {"data"})
        /\ Len(Place(e)) = 1 + Len(e.name)
        /\ Place(e)[1] = "data"
    BY <2>1, <2>2, ConcatProperties
  <2>. QED  BY <1>3, <2>2, <2>3, EmptySeq
<1>. QED  BY <1>2, <1>3

\* What the content comes to, with one entry more.
LEMMA WholeOfOneMore ==
    ASSUME NEW e, Arrives(e), WritingTypeOK, e \in Entries
    PROVE  Whole' = Whole \cup {Node(Place(e), e.kind, e.size)}
                      \cup {Node(p, "directory", 0) : p \in Parents(Place(e))}
<1>1. content' = Append(content, e) /\ content \in Seq(Entries)
    BY DEF Arrives, WritingTypeOK
<1>2. Range(content') = Range(content) \cup {e}
  <2>. DEFINE one == <<e>>
  <2>1. content' = content \o one /\ one \in Seq(Entries)
    BY <1>1, AppendIsConcat
  <2>2. Len(one) = 1 /\ one[1] = e
    OBVIOUS
  <2>. HIDE DEF one
  <2>3. DOMAIN one = {1}
    BY <2>1, <2>2, LenProperties
  <2>4. Range(one) = {e}
    BY <2>2, <2>3 DEF Range
  <2>. QED  BY <1>1, <2>1, <2>4, RangeConcatenation
<1>3. \A f : Place(f)' = Place(f)
    BY DEF Arrives, Place
<1>4. \A f : Node(Place(f), f.kind, f.size)' = Node(Place(f), f.kind, f.size)
    BY <1>3 DEF Node
<1>5. Whole' = {Node(Place(f), f.kind, f.size) : f \in Range(content')}
                 \cup {Node(p, "directory", 0) :
                         p \in UNION {Parents(Place(f)) : f \in Range(content')}}
    BY <1>3 DEF Whole, Node, Parents
<1>. QED  BY <1>2, <1>5 DEF Whole

\* A staged directory is told by its path.
LEMMA DirectoryIsItsPath ==
    ASSUME WritingTypeOK, NEW n \in staged, n.what # "file"
    PROVE  n = Node(n.path, "directory", 0)
<1>1. /\ n \in [path : Seq(Names \cup {"data"}), what : {"file", "directory"}, size : 0..MaxInt]
      /\ n.what = "directory" => n.size = 0
    BY DEF WritingTypeOK, Nodes
<1>2. n.what = "directory" /\ n.size = 0
    BY <1>1
<1>3. n = [path |-> n.path, what |-> n.what, size |-> n.size]
    BY <1>1
<1>. QED  BY <1>2, <1>3 DEF Node

\* What an entry of a DAG has above it is the directories the walk is in.
LEMMA WalkHasDirectoriesAbove ==
    ASSUME WritingInv, NEW e \in Entries, Arrives(e), ~Refused(e), source = "dag"
    PROVE  /\ ".." \notin Range(Place(e))
           /\ \A p \in Parents(Place(e)) : At(p) = {Node(p, "directory", 0)}
<1>. DEFINE S == Names \cup {"data"}
<1>1. Place(e) = <<"data">> \o e.name
    BY DEF Place
<1>2. e.name \in Seq(Names) /\ e.name \in Seq(S) /\ <<"data">> \in Seq(S)
    BY EntryTyped, SeqMonotonic
<1>3. CASE content = <<>>
  <2>1. e.name = <<>>
    BY <1>3 DEF Arrives, Follows
  <2>2. Place(e) = <<"data">>
    BY <1>1, <2>1
  <2>3. Parents(Place(e)) = {}
    BY <2>2 DEF Parents
  <2>4. Range(Place(e)) = {"data"}
    BY <2>2 DEF Range
  <2>. QED  BY <2>3, <2>4
<1>4. CASE content # <<>>
  <2>. DEFINE above == <<"data">> \o Front(e.name)
              last == Last(e.name)
  <2>1. /\ content[1].kind = "directory"
        /\ e.name # <<>> /\ Front(e.name) \in Open
    BY <1>4 DEF Arrives, Follows
  <2>2. Node(above, "directory", 0) \in staged
    BY <1>4, <2>1 DEF WritingInv, WalkIsInside, Arrives
  <2>3. last \in Names /\ last # ".."
    BY <1>2, <2>1, LastIsOneMore DEF Refused, RefusedOfDag, validEntryName
  <2>4. /\ above \in Seq(S) /\ above # <<>>
        /\ Place(e) = Append(above, last)
    <3>1. /\ Front(e.name) \in Seq(S) /\ last \in S
          /\ e.name = Append(Front(e.name), last)
        BY <1>2, <2>1, LastIsOneMore
    <3>2. above \in Seq(S) /\ Len(above) = 1 + Len(Front(e.name))
        BY <1>2, <3>1, ConcatProperties
    <3>3. e.name = Front(e.name) \o <<last>> /\ <<last>> \in Seq(S)
        BY <3>1, AppendIsConcat
    <3>4. Place(e) = above \o <<last>>
      <4>1. above \o <<last>> = <<"data">> \o (Front(e.name) \o <<last>>)
        BY <1>2, <3>1, <3>3, ConcatAssociative
      <4>. QED  BY <1>1, <3>3, <4>1
    <3>. QED
        BY <3>1, <3>2, <3>4, AppendIsConcat, EmptySeq
  <2>5. ".." \notin Range(above) /\ \A p \in Parents(above) : At(p) = {Node(p, "directory", 0)}
    BY <2>2 DEF WritingInv, StagedIsATree, Node
  <2>6. At(above) = {Node(above, "directory", 0)}
    <3>1. \A n, m \in staged : n.path = m.path => n = m
        BY DEF WritingInv, StagedIsATree
    <3>2. Node(above, "directory", 0).path = above
        BY DEF Node
    <3>. QED  BY <2>2, <3>1, <3>2 DEF At
  <2>. HIDE DEF above, last
  <2>7. Parents(Place(e)) = Parents(above) \cup {above}
    BY <2>3, <2>4, ParentsOfOneMore
  <2>8. Range(Place(e)) \subseteq Range(above) \cup {last}
    <3>1. /\ Len(Place(e)) = Len(above) + 1 /\ Len(above) \in Nat
          /\ \A i \in 1..Len(above) : Place(e)[i] = above[i]
          /\ Place(e)[Len(above) + 1] = last
          /\ Place(e) \in Seq(S)
        BY <2>3, <2>4, AppendProperties, EmptySeq
    <3>2. 1..(Len(above) + 1) = (1..Len(above)) \cup {Len(above) + 1}
        BY <3>1
    <3>3. /\ Range(Place(e)) = {Place(e)[i] : i \in 1..(Len(above) + 1)}
          /\ Range(above) = {above[i] : i \in 1..Len(above)}
        BY <2>4, <3>1, RangeEquality
    <3>. QED  BY <3>1, <3>2, <3>3
  <2>. QED  BY <2>3, <2>5, <2>6, <2>7, <2>8
<1>. QED  BY <1>3, <1>4

\* An entry that is not refused has room in the tree.
LEMMA AdmittedFits ==
    ASSUME WritingInv, NEW e \in Entries, Arrives(e), ~Refused(e)
    PROVE  /\ e.kind \in {"file", "directory"}
           /\ Place(e) \in Seq(Names \cup {"data"}) /\ Place(e) # <<>>
           /\ ".." \notin Range(Place(e))
           /\ Top(e) = Head(Place(e)) /\ Top(e) \in Names \cup {"data"} /\ Top(e) # ""
           /\ root \in {"", Top(e)} /\ (source = "dag" => Top(e) = "data")
           /\ \A p \in Parents(Place(e)) : At(p) \subseteq {Node(p, "directory", 0)}
           /\ e.kind = "file" => At(Place(e)) = {}
           /\ At(Place(e)) \subseteq {Node(Place(e), "directory", 0)}
<1>1. source \in {"dag", "tar"} /\ WritingTypeOK
    BY DEF WritingInv, WritingTypeOK
<1>2. e.kind \in {"file", "directory"}
    BY EntryTyped DEF Kinds, Refused, RefusedOfDag, RefusedOfTar
<1>3. Place(e) \in Seq(Names \cup {"data"})
    BY <1>1, PlaceTyped
<1>4. CASE source = "dag"
  <2>1. Place(e) # <<>> /\ Head(Place(e)) = "data"
    BY <1>1, <1>4, PlaceTyped
  <2>2. At(Place(e)) = {} /\ root = "data"
    BY <1>4 DEF Refused, RefusedOfDag, WritingInv, StagedIsATree
  <2>3. Top(e) = "data"
    BY <2>1 DEF Top
  <2>. QED
    BY <1>2, <1>3, <1>4, <2>1, <2>2, <2>3, WalkHasDirectoriesAbove
<1>5. CASE source = "tar"
  <2>1. Place(e) # <<>> /\ Top(e) = Head(Place(e)) /\ Top(e) # "" /\ root \in {"", Top(e)}
    BY <1>5 DEF Refused, RefusedOfTar, Top
  <2>2. ".." \notin Range(Place(e))
    <3>1. Place(e) \in Seq(Names \ {".."})
        BY <1>1, <1>5, PlaceTyped
    <3>. QED  BY <3>1, RangeOfSeq
  <2>3. Top(e) \in Names \cup {"data"}
    BY <1>3, <2>1, HeadTailProperties
  <2>4. /\ \A p \in Parents(Place(e)) : \A n \in At(p) : n \in staged /\ n.path = p /\ n.what # "file"
        /\ \A n \in At(Place(e)) : n \in staged /\ n.path = Place(e) /\ n.what # "file"
        /\ e.kind = "file" => At(Place(e)) = {}
    BY <1>5 DEF Refused, RefusedOfTar, FileAbove, At
  <2>5. /\ \A p \in Parents(Place(e)) : \A n \in At(p) : n = Node(p, "directory", 0)
        /\ \A n \in At(Place(e)) : n = Node(Place(e), "directory", 0)
    BY <1>1, <2>4, DirectoryIsItsPath
  <2>. QED
    BY <1>2, <1>3, <1>5, <2>1, <2>2, <2>3, <2>4, <2>5
<1>. QED  BY <1>1, <1>4, <1>5

\* A tree stays one when a path that is free for it is added with what is above it.
LEMMA TreeGrows ==
    ASSUME StagedIsATree,
           NEW q \in Seq(Names \cup {"data"}), q # <<>>, ".." \notin Range(q),
           source' = source, source = "dag" => Head(q) = "data",
           root' = Head(q), root \in {"", Head(q)}, Head(q) # "",
           staged # {} => root # "",
           \A p \in Parents(q) : At(p) \subseteq {Node(p, "directory", 0)},
           NEW P, NEW F,
           \/ P = Parents(q) \cup {q} /\ F = {} /\ At(q) \subseteq {Node(q, "directory", 0)}
           \/ P = Parents(q) /\ At(q) = {} /\ \E c : F = {Node(q, "file", c)},
           staged' = staged \cup {Node(p, "directory", 0) : p \in P} \cup F
    PROVE  StagedIsATree'
<1>. DEFINE S == Names \cup {"data"}
            Dir(p) == Node(p, "directory", 0)
<1>1. \A p \in Parents(q) : /\ p \in Seq(S) /\ p # <<>> /\ Head(p) = Head(q)
                            /\ Range(p) \subseteq Range(q)
                            /\ p # q /\ Parents(p) \subseteq Parents(q)
  <2>. SUFFICES ASSUME NEW p \in Parents(q)
                PROVE  /\ p \in Seq(S) /\ p # <<>> /\ Head(p) = Head(q)
                       /\ Range(p) \subseteq Range(q)
                       /\ p # q /\ Parents(p) \subseteq Parents(q)
    OBVIOUS
  <2>. HIDE DEF S
  <2>1. q \in Seq(S)
    BY DEF S
  <2>. QED  BY <2>1, ParentsAreBeginnings
<1>2. \A p \in P : /\ p \in Parents(q) \cup {q} /\ Parents(p) \subseteq P
                   /\ At(p) \subseteq {Dir(p)}
    BY <1>1
<1>3. \A n \in F : n.path = q /\ q \notin P /\ P = Parents(q) /\ At(q) = {} /\ F = {n}
  <2>1. CASE F = {}
    BY <2>1
  <2>2. CASE P = Parents(q) /\ At(q) = {} /\ \E c : F = {Node(q, "file", c)}
    <3>1. q \notin Parents(q)
        BY <1>1
    <3>2. PICK c : F = {Node(q, "file", c)}
        BY <2>2
    <3>3. Node(q, "file", c).path = q
        BY DEF Node
    <3>. QED  BY <2>2, <3>1, <3>2, <3>3
  <2>. QED  BY <2>1, <2>2
<1>4. \A p : Dir(p).path = p
    BY DEF Node
<1>5. \A n \in staged' : n \in staged \/ (\E p \in P : n = Dir(p)) \/ n \in F
    OBVIOUS
<1>6. staged \subseteq staged' /\ (\A p \in P : Dir(p) \in staged') /\ F \subseteq staged'
    OBVIOUS
<1>. HIDE DEF Dir
<1>. DEFINE There(p) == {n \in staged' : n.path = p}
<1>7. ASSUME NEW p \in P PROVE There(p) = {Dir(p)}
  <2>1. ASSUME NEW n \in There(p) PROVE n = Dir(p)
    <3>1. n \in staged => n \in At(p)
        BY <2>1 DEF At
    <3>2. n \notin F
        BY <1>3, <2>1
    <3>. QED  BY <1>2, <1>4, <1>5, <2>1, <3>1, <3>2
  <2>2. Dir(p) \in There(p)
    BY <1>4, <1>6
  <2>. QED  BY <2>1, <2>2
<1>8. ASSUME NEW p, p \notin P, F = {} \/ p # q PROVE There(p) = At(p)
  <2>1. ASSUME NEW n \in There(p) PROVE n \in staged
    <3>1. n \in staged' /\ n.path = p
        BY <2>1
    <3>2. \A o \in P : n # Dir(o)
        BY <1>4, <1>8, <3>1
    <3>3. n \notin F
        BY <1>3, <1>8, <3>1
    <3>. QED  BY <1>5, <3>1, <3>2, <3>3
  <2>. QED  BY <1>6, <2>1 DEF At
<1>9. ASSUME F # {} PROVE There(q) = F
  <2>1. ASSUME NEW n \in There(q) PROVE n \in F
    <3>1. q \notin P /\ At(q) = {}
        BY <1>3, <1>9
    <3>2. n \in staged' /\ n.path = q
        BY <2>1
    <3>3. n \notin staged
        BY <3>1, <3>2 DEF At
    <3>4. \A o \in P : n # Dir(o)
        BY <1>4, <3>1, <3>2
    <3>. QED  BY <1>5, <3>2, <3>3, <3>4
  <2>2. \A n \in F : n \in There(q)
    BY <1>3, <1>6
  <2>. QED  BY <2>1, <2>2
<1>10. \A n \in staged' : n.path # <<>> /\ Head(n.path) = root' /\ ".." \notin Range(n.path)
  <2>1. \A n \in staged : n.path # <<>> /\ Head(n.path) = root' /\ ".." \notin Range(n.path)
    BY DEF StagedIsATree
  <2>2. \A p \in P \cup {q} : p # <<>> /\ Head(p) = root' /\ ".." \notin Range(p)
    BY <1>1, <1>2
  <2>. QED  BY <1>3, <1>4, <1>5, <2>1, <2>2
<1>11. \A n \in staged' : \A p \in Parents(n.path) : There(p) = {Dir(p)}
  <2>1. ASSUME NEW n \in staged, NEW p \in Parents(n.path)
        PROVE  There(p) = {Dir(p)}
    <3>1. At(p) = {Dir(p)}
        BY DEF StagedIsATree, Dir
    <3>2. F # {} => p # q
        BY <1>3, <3>1
    <3>. HIDE DEF There
    <3>. QED  BY <1>7, <1>8, <3>1, <3>2
  <2>2. \A p \in P : Parents(Dir(p).path) \subseteq P
    BY <1>2, <1>4
  <2>3. \A n \in F : Parents(n.path) \subseteq P
    BY <1>3
  <2>. HIDE DEF There
  <2>. QED  BY <1>5, <1>7, <2>1, <2>2, <2>3
<1>12. \A n, m \in staged' : n.path = m.path => n = m
  <2>. SUFFICES ASSUME NEW n \in staged', NEW m \in staged', n.path = m.path
                PROVE  n = m
    OBVIOUS
  <2>1. n \in There(n.path) /\ m \in There(n.path)
    OBVIOUS
  <2>. HIDE DEF There
  <2>2. CASE n.path \in P
    <3>1. There(n.path) = {Dir(n.path)}
        BY <1>7, <2>2
    <3>. QED  BY <2>1, <3>1
  <2>3. CASE n.path \notin P /\ F # {} /\ n.path = q
    BY <1>3, <1>9, <2>1, <2>3
  <2>4. CASE n.path \notin P /\ (F = {} \/ n.path # q)
    <3>1. n \in At(n.path) /\ m \in At(n.path)
        BY <1>8, <2>1, <2>4
    <3>. QED  BY <3>1 DEF At, StagedIsATree
  <2>. QED  BY <2>2, <2>3, <2>4
<1>13. root' # "" /\ (source' = "dag" => root' = "data")
    OBVIOUS
<1>14. (\A n \in staged : \A p \in Parents(n.path) : At(p) = {Node(p, "directory", 0)})'
    BY <1>11 DEF At, Dir, Parents, Node
<1>. QED  BY <1>10, <1>12, <1>13, <1>14 DEF StagedIsATree

\* How much of a file is read: all of it, unless that is past the limit; nothing when
\* the allowance overflows.
LEMMA PermittedIsRead ==
    ASSUME WritingTypeOK, limit > 0 => written <= limit, NEW size \in 0..MaxInt
    PROVE  /\ permitted(size) \in 0..size
           /\ limit > 0 => remaining = limit - written /\ permitted(size) <= remaining + 1
           /\ limit # MaxInt /\ ~(remaining >= 0 /\ permitted(size) > remaining)
                => permitted(size) = size
           /\ limit = MaxInt /\ written = 0 => permitted(size) = 0
<1>. DEFINE allowance == Wrapped(remaining + 1)
<1>1. MaxInt \in Nat \ {0} /\ limit \in -MaxInt..MaxInt /\ written \in 0..MaxInt
    BY MaxIntIsPositive, LimitsFit DEF WritingTypeOK
<1>2. permitted(size) = IF remaining < 0 \/ size < allowance THEN size
                        ELSE IF allowance <= 0 THEN 0 ELSE allowance
    BY DEF permitted
<1>. HIDE DEF allowance
<1>3. CASE ~(limit > 0)
  <2>1. remaining = -1
    BY <1>3 DEF remaining
  <2>. QED  BY <1>1, <1>2, <1>3, <2>1
<1>4. CASE limit > 0 /\ limit - written = MaxInt
  <2>1. remaining = MaxInt
    BY <1>4 DEF remaining
  <2>2. allowance = -(MaxInt + 1)
    BY <2>1, LargestWraps DEF allowance
  <2>3. permitted(size) = 0 /\ limit = MaxInt
    BY <1>1, <1>2, <1>4, <2>1, <2>2
  <2>. QED  BY <1>1, <1>4, <2>1, <2>3
<1>5. CASE limit > 0 /\ limit - written # MaxInt
  <2>1. remaining = limit - written /\ remaining + 1 \in 0..MaxInt /\ remaining >= 0
    BY <1>1, <1>5 DEF remaining
  <2>2. allowance = remaining + 1
    BY <2>1, FittingStays DEF allowance
  <2>3. permitted(size) = IF size < remaining + 1 THEN size ELSE remaining + 1
    BY <1>1, <1>2, <2>1, <2>2
  <2>. QED  BY <1>1, <1>5, <2>1, <2>3
<1>. QED  BY <1>3, <1>4, <1>5

\* The walk goes on in directories that are staged.
LEMMA WalkGoesOn ==
    ASSUME WritingInv, NEW e \in Entries, Arrives(e), ~Refused(e),
           staged \subseteq staged', result' # "sizing",
           e.kind = "directory" => Node(Place(e), "directory", 0) \in staged'
    PROVE  WalkIsInside'
<1>1. /\ content' = Append(content, e) /\ content \in Seq(Entries) /\ source' = source
      /\ result = "running"
    BY DEF Arrives, WritingInv, WritingTypeOK
<1>2. /\ content' # <<>> /\ Last(content') = e
      /\ content'[1] = IF content = <<>> THEN e ELSE content[1]
  <2>1. /\ content' \in Seq(Entries) /\ content' # <<>>
        /\ Len(content') = Len(content) + 1 /\ Len(content) \in Nat
        /\ \A i \in 1..Len(content) : content'[i] = content[i]
        /\ content'[Len(content) + 1] = e
    BY <1>1, AppendProperties, LenProperties
  <2>2. content = <<>> <=> Len(content) = 0
    BY <1>1, EmptySeq
  <2>. QED  BY <2>1, <2>2 DEF Last
<1>. DEFINE S == Names \cup {"data"}
            Inside(p) == Node(<<"data">> \o p, "directory", 0)
<1>3. ASSUME source = "dag", content'[1].kind = "directory"
      PROVE  \A p \in Open' : Inside(p) \in staged'
  <2>1. Open' = Prefixes(IF e.kind = "directory" THEN e.name ELSE Front(e.name))
    BY <1>2 DEF Open
  <2>2. e.name \in Seq(S)
    BY EntryTyped, SeqMonotonic
  <2>3. Place(e) = <<"data">> \o e.name
    BY <1>3 DEF Place
  <2>4. CASE content = <<>>
    <3>1. e.name = <<>> /\ e.kind = "directory"
        BY <1>2, <1>3, <2>4 DEF Arrives, Follows
    <3>2. Prefixes(<<>>) = {<<>>}
      <4>1. Len(<<>>) = 0 /\ SubSeq(<<>>, 1, 0) = <<>> /\ 0..0 = {0}
        BY SubSeqEmpty, EmptySeq
      <4>. QED  BY <4>1 DEF Prefixes
    <3>. QED  BY <2>1, <2>3, <3>1, <3>2
  <2>5. CASE content # <<>>
    <3>1. e.name # <<>> /\ Front(e.name) \in Open
        BY <1>1, <1>3, <2>5 DEF Arrives, Follows
    <3>2. \A p \in Open : Inside(p) \in staged'
        BY <1>1, <1>2, <1>3, <2>5 DEF WritingInv, WalkIsInside
    <3>3. Prefixes(Front(e.name)) \subseteq Open
      <4>1. PICK s \in Seq(Names) : Open = Prefixes(s)
        <5>1. Last(content) \in Entries
            BY <1>1, <2>5, LastIsOneMore
        <5>2. Last(content).name \in Seq(Names)
            BY <5>1, EntryTyped
        <5>3. Front(Last(content).name) \in Seq(Names)
          <6>1. CASE Last(content).name = <<>>
            BY <6>1, SubSeqEmpty, EmptySeq DEF Front
          <6>2. CASE Last(content).name # <<>>
            BY <5>2, <6>2, LastIsOneMore
          <6>. QED  BY <6>1, <6>2
        <5>. QED  BY <2>5, <5>2, <5>3 DEF Open
      <4>. QED  BY <3>1, <4>1, PrefixesOfPrefix
    <3>4. CASE e.kind = "directory"
      <4>1. Prefixes(e.name) = Prefixes(Front(e.name)) \cup {e.name}
        <5>. DEFINE above == Front(e.name)
                    last == Last(e.name)
        <5>1. above \in Seq(S) /\ last \in S /\ e.name = Append(above, last)
            BY <2>2, <3>1, LastIsOneMore
        <5>. HIDE DEF above, last
        <5>2. Prefixes(Append(above, last)) = Prefixes(above) \cup {Append(above, last)}
            BY <5>1, PrefixesOfOneMore
        <5>3. Prefixes(e.name) = Prefixes(above) \cup {e.name}
            BY <5>1, <5>2
        <5>. QED  BY <5>3 DEF above
      <4>2. Inside(e.name) \in staged'
        BY <2>3, <3>4
      <4>. HIDE DEF Inside
      <4>. QED  BY <2>1, <3>2, <3>3, <3>4, <4>1, <4>2
    <3>5. CASE e.kind # "directory"
      <4>. HIDE DEF Inside
      <4>. QED  BY <2>1, <3>2, <3>3, <3>5
    <3>. QED  BY <3>4, <3>5
  <2>. QED  BY <2>4, <2>5
<1>4. (\A p \in Open : Node(<<"data">> \o p, "directory", 0) \in staged)' <=>
        \A p \in Open' : Inside(p) \in staged'
    BY DEF Node
<1>5. source' = "dag" /\ content'[1].kind = "directory"
        => (\A p \in Open : Node(<<"data">> \o p, "directory", 0) \in staged)'
    BY <1>1, <1>3, <1>4
<1>. QED  BY <1>2, <1>5 DEF WalkIsInside

\* What an entry adds to the staging directory has the right form.
LEMMA NodesTyped ==
    ASSUME NEW path \in Seq(Names \cup {"data"}), MaxInt \in Nat
    PROVE  /\ \A count \in 0..MaxInt : Node(path, "file", count) \in Nodes
           /\ Node(path, "directory", 0) \in Nodes
           /\ \A p \in Parents(path) : Node(p, "directory", 0) \in Nodes
<1>1. \A p \in Parents(path) : p \in Seq(Names \cup {"data"})
    BY ParentsAreBeginnings
<1>2. 0 \in 0..MaxInt
    OBVIOUS
<1>. QED  BY <1>1, <1>2 DEF Node, Nodes

\* An entry that arrives keeps the types of what it is added to.
LEMMA ArrivalTyped ==
    ASSUME WritingInv, NEW e \in Entries, Arrives(e)
    PROVE  /\ content' \in Seq(Entries) /\ Len(content') <= MaxEntries
           /\ source' \in {"dag", "tar"} /\ limit' \in Limits
           /\ content' # <<>>
<1>1. content \in Seq(Entries) /\ Len(content) \in Nat /\ Len(content) < MaxEntries
    BY LenProperties DEF WritingInv, WritingTypeOK, Arrives
<1>2. content' = Append(content, e)
    BY DEF Arrives
<1>3. content' \in Seq(Entries) /\ content' # <<>> /\ Len(content') = Len(content) + 1
    BY <1>1, <1>2, AppendProperties
<1>4. Len(content') <= MaxEntries
    BY <1>1, <1>3, BoundsAreNatural
<1>. QED  BY <1>3, <1>4 DEF WritingInv, WritingTypeOK, Arrives

\* A refused entry ends the download with what was staged before.
LEMMA RefuseStep ==
    ASSUME WritingInv, NEW e \in Entries, Refuse(e)
    PROVE  WritingInv'
<1>1. Arrives(e) /\ result' = "failed" /\ UNCHANGED <<staged, written, root, limit, source>>
    BY DEF Refuse, Arrives
<1>2. WritingTypeOK'
    BY <1>1, ArrivalTyped DEF WritingInv, WritingTypeOK
<1>3. StagedIsATree'
    BY <1>1 DEF WritingInv, StagedIsATree, At, Parents, Node
<1>4. BytesAreCounted'
    BY <1>1 DEF WritingInv, BytesAreCounted, Bytes
<1>5. WalkIsInside' /\ NothingIsLeftOut'
    BY <1>1, ArrivalTyped DEF WritingInv, WalkIsInside, NothingIsLeftOut
<1>. QED  BY <1>1, <1>2, <1>3, <1>4, <1>5 DEF WritingInv

\* A directory adds itself and the directories above it.
LEMMA DirectoryStep ==
    ASSUME WritingInv, NEW e \in Entries, Directory(e)
    PROVE  WritingInv'
<1>. DEFINE q == Place(e)
            P == Parents(q) \cup {q}
            added == {Node(p, "directory", 0) : p \in P}
<1>1. /\ Arrives(e) /\ ~Refused(e) /\ e.kind = "directory"
      /\ staged' = staged \cup added /\ root' = Top(e)
      /\ UNCHANGED <<written, result, limit, source>> /\ result = "running"
    BY DEF Directory, Arrives, WithDirectories
<1>2. MaxInt \in Nat
    BY MaxIntIsPositive
<1>3. added \subseteq Nodes
    BY <1>1, <1>2, AdmittedFits, NodesTyped
<1>4. WritingTypeOK'
    BY <1>1, <1>3, ArrivalTyped, AdmittedFits DEF WritingInv, WritingTypeOK
<1>5. StagedIsATree'
  <2>1. staged # {} => root # ""
    BY DEF WritingInv, StagedIsATree, WritingTypeOK
  <2>. HIDE DEF q
  <2>2. /\ q \in Seq(Names \cup {"data"}) /\ q # <<>> /\ ".." \notin Range(q)
        /\ source = "dag" => Head(q) = "data"
        /\ root' = Head(q) /\ root \in {"", Head(q)} /\ Head(q) # ""
        /\ \A p \in Parents(q) : At(p) \subseteq {Node(p, "directory", 0)}
        /\ At(q) \subseteq {Node(q, "directory", 0)}
    BY <1>1, AdmittedFits DEF q
  <2>3. staged' = staged \cup {Node(p, "directory", 0) : p \in P} \cup {}
    BY <1>1
  <2>. QED  BY <1>1, <2>1, <2>2, <2>3, TreeGrows DEF WritingInv
<1>6. Bytes(staged') = Bytes(staged)
    BY <1>1, DirectoriesAreEmpty
<1>7. BytesAreCounted'
  <2>1. (IsFiniteSet(Bytes(staged)) /\ written = Cardinality(Bytes(staged)))'
    BY <1>1, <1>6 DEF WritingInv, BytesAreCounted, Bytes
  <2>. QED  BY <1>1, <2>1 DEF WritingInv, BytesAreCounted
<1>8. WalkIsInside'
    BY <1>1, WalkGoesOn
<1>9. NothingIsLeftOut'
  <2>1. Whole' = Whole \cup added
    <3>1. e.size = 0
        BY <1>1, EntryTyped
    <3>2. Whole' = Whole \cup {Node(q, "directory", 0)}
                     \cup {Node(p, "directory", 0) : p \in Parents(q)}
        BY <1>1, <3>1, WholeOfOneMore DEF WritingInv
    <3>. HIDE DEF q
    <3>. QED  BY <3>2
  <2>. QED  BY <1>1, <2>1 DEF WritingInv, NothingIsLeftOut
<1>. QED
    BY <1>1, <1>4, <1>5, <1>7, <1>8, <1>9 DEF WritingInv

\* A file adds as many bytes as are read of it: all of it, or one past the limit, or
\* fewer because reading failed.
LEMMA FileStep ==
    ASSUME WritingInv, NEW e \in Entries, File(e)
    PROVE  WritingInv'
<1>. DEFINE q == Place(e)
            above == {Node(p, "directory", 0) : p \in Parents(q)}
<1>1. PICK count \in 0..permitted(e.size) :
        /\ staged' = staged \cup above \cup {Node(q, "file", count)}
        /\ written' = written + count
        /\ \/ result' = "failed"
           \/ /\ count = permitted(e.size)
              /\ result' = IF remaining >= 0 /\ count > remaining THEN "tooBig" ELSE result
    BY DEF File, WithDirectories
<1>2. /\ Arrives(e) /\ ~Refused(e) /\ e.kind = "file" /\ root' = Top(e)
      /\ UNCHANGED <<limit, source>> /\ result = "running"
    BY DEF File, Arrives
<1>3. /\ MaxInt \in Nat /\ e.size \in 0..MaxInt /\ written \in 0..MaxInt
      /\ written + e.size <= MaxInt /\ limit \in -MaxInt..MaxInt
    BY <1>2, EntryTyped, MaxIntIsPositive, LimitsFit DEF WritingInv, WritingTypeOK,
       Arrives
<1>4. /\ permitted(e.size) \in 0..e.size
      /\ limit > 0 => remaining = limit - written /\ permitted(e.size) <= remaining + 1
      /\ limit # MaxInt /\ ~(remaining >= 0 /\ permitted(e.size) > remaining)
           => permitted(e.size) = e.size
      /\ limit = MaxInt /\ written = 0 => permitted(e.size) = 0
  <2>1. WritingTypeOK /\ (limit > 0 => written <= limit)
    BY <1>2 DEF WritingInv, BytesAreCounted
  <2>. QED  BY <1>3, <2>1, PermittedIsRead
<1>5. count \in 0..e.size /\ count \in Nat /\ written' \in 0..MaxInt
    BY <1>1, <1>3, <1>4
<1>6. WritingTypeOK'
  <2>1. above \subseteq Nodes /\ Node(q, "file", count) \in Nodes
    <3>1. q \in Seq(Names \cup {"data"})
        BY <1>2, AdmittedFits
    <3>2. count \in 0..MaxInt
        BY <1>3, <1>5
    <3>. HIDE DEF q
    <3>. QED  BY <1>3, <3>1, <3>2, NodesTyped
  <2>2. staged' \subseteq Nodes
    BY <1>1, <2>1 DEF WritingInv, WritingTypeOK
  <2>3. root' \in Names \cup {"", "data"} /\ result' \in {"failed", "tooBig", "running"}
    BY <1>1, <1>2, AdmittedFits
  <2>. QED  BY <1>2, <1>5, <2>2, <2>3, ArrivalTyped DEF WritingTypeOK
<1>7. StagedIsATree'
  <2>1. staged # {} => root # ""
    BY DEF WritingInv, StagedIsATree, WritingTypeOK
  <2>. HIDE DEF q
  <2>2. /\ q \in Seq(Names \cup {"data"}) /\ q # <<>> /\ ".." \notin Range(q)
        /\ source = "dag" => Head(q) = "data"
        /\ root' = Head(q) /\ root \in {"", Head(q)} /\ Head(q) # ""
        /\ \A p \in Parents(q) : At(p) \subseteq {Node(p, "directory", 0)}
        /\ At(q) = {}
    BY <1>2, AdmittedFits DEF q
  <2>. DEFINE F == {Node(q, "file", count)}
  <2>3. \E c : F = {Node(q, "file", c)}
    OBVIOUS
  <2>4. staged' = staged \cup {Node(p, "directory", 0) : p \in Parents(q)} \cup F
    BY <1>1
  <2>. HIDE DEF F
  <2>. QED  BY <1>2, <2>1, <2>2, <2>3, <2>4, TreeGrows DEF WritingInv
<1>8. /\ IsFiniteSet(Bytes(staged)) /\ Cardinality(Bytes(staged)) = written
      /\ At(q) = {}
    BY <1>2, AdmittedFits DEF WritingInv, BytesAreCounted
<1>9. ASSUME NEW length \in Nat
      PROVE  /\ IsFiniteSet(Bytes(staged \cup above \cup {Node(q, "file", length)}))
             /\ Cardinality(Bytes(staged \cup above \cup {Node(q, "file", length)})) =
                  written + length
  <2>1. Bytes(staged \cup above) = Bytes(staged)
    BY DirectoriesAreEmpty
  <2>2. Node(q, "file", length) \notin staged \cup above
    <3>1. /\ Node(q, "file", length).path = q
          /\ Node(q, "file", length).what = "file"
          /\ \A p : Node(p, "directory", 0).what = "directory"
        BY DEF Node
    <3>2. Node(q, "file", length) \notin staged
        BY <1>8, <3>1 DEF At
    <3>. QED  BY <3>1, <3>2
  <2>3. Node(q, "file", length).size \in Nat /\ Node(q, "file", length).size = length
    BY DEF Node
  <2>. HIDE DEF above
  <2>. QED  BY <1>8, <2>1, <2>2, <2>3, FileAddsBytes
<1>10. BytesAreCounted'
  <2>1. (IsFiniteSet(Bytes(staged)) /\ written = Cardinality(Bytes(staged)))'
    BY <1>1, <1>5, <1>9
  <2>2. limit > 0 => written' <= limit + 1
    BY <1>1, <1>3, <1>4, <1>5
  <2>3. limit > 0 /\ result' \in {"sizing", "running", "ok"} => written' <= limit
    <3>. SUFFICES ASSUME limit > 0, result' \in {"sizing", "running", "ok"}
                  PROVE  written' <= limit
        OBVIOUS
    <3>1. remaining = limit - written /\ written <= limit
        BY <1>2, <1>4 DEF WritingInv, BytesAreCounted
    <3>2. count <= remaining
        BY <1>1, <1>3, <1>5, <3>1
    <3>. QED  BY <1>1, <1>3, <1>5, <3>1, <3>2
  <2>. QED  BY <1>2, <2>1, <2>2, <2>3 DEF BytesAreCounted
<1>11. WalkIsInside'
    BY <1>1, <1>2, WalkGoesOn
<1>12. Whole' = Whole \cup {Node(q, "file", e.size)} \cup above
    BY <1>2, WholeOfOneMore DEF WritingInv
<1>13. NothingIsLeftOut'
  <2>1. CASE limit = MaxInt
    BY <1>1, <1>2, <1>3, <1>4, <2>1 DEF WritingInv, NothingIsLeftOut
  <2>2. CASE limit # MaxInt
    <3>1. staged = Whole
        BY <1>2, <2>2 DEF WritingInv, NothingIsLeftOut
    <3>2. result' \in {"running", "ok"} => count = e.size
        BY <1>1, <1>2, <1>4, <2>2
    <3>3. result' \in {"running", "ok"} => staged' = Whole'
        BY <1>1, <1>12, <3>1, <3>2
    <3>. QED  BY <1>2, <2>2, <3>3 DEF NothingIsLeftOut
  <2>. QED  BY <2>1, <2>2
<1>14. result' = "tooBig" => limit > 0 /\ Cardinality(Bytes(Whole')) > limit
  <2>. SUFFICES ASSUME result' = "tooBig"
                PROVE  limit > 0 /\ Cardinality(Bytes(Whole')) > limit
    OBVIOUS
  <2>1. remaining >= 0 /\ count > remaining /\ limit > 0
    BY <1>1, <1>2 DEF remaining
  <2>2. limit # MaxInt
    BY <1>1, <1>2, <1>3, <1>4, <2>1 DEF WritingInv, NothingIsLeftOut
  <2>3. staged = Whole
    BY <1>2, <2>2 DEF WritingInv, NothingIsLeftOut
  <2>4. Whole' = staged \cup above \cup {Node(q, "file", e.size)}
    BY <1>12, <2>3
  <2>5. Cardinality(Bytes(Whole')) = written + e.size
    BY <1>3, <1>9, <2>4
  <2>. QED  BY <1>3, <1>4, <1>5, <2>1, <2>5
<1>15. (result = "tooBig" => limit > 0 /\ Cardinality(Bytes(Whole)) > limit)'
    BY <1>2, <1>14 DEF Bytes
<1>. QED
    BY <1>6, <1>7, <1>10, <1>11, <1>13, <1>15 DEF WritingInv

\* A step that only says how far the download is keeps what is staged.
LEMMA VerdictStep ==
    ASSUME WritingInv, Size \/ End \/ Break
    PROVE  WritingInv'
<1>1. /\ UNCHANGED <<source, limit, content, staged, written, root>>
      /\ result \in {"sizing", "running"}
      /\ result' \in {"failed", "overclaimed", "running", "ok"}
      /\ result' = "running" => result = "sizing"
    BY DEF Size, End, Break
<1>2. WritingTypeOK'
    BY <1>1 DEF WritingInv, WritingTypeOK
<1>3. StagedIsATree'
    BY <1>1 DEF WritingInv, StagedIsATree, At, Parents, Node
<1>4. BytesAreCounted'
    BY <1>1 DEF WritingInv, BytesAreCounted, Bytes
<1>5. WalkIsInside'
    BY <1>1 DEF WritingInv, WalkIsInside
<1>6. NothingIsLeftOut'
  <2>1. Whole' = Whole
    BY <1>1 DEF Whole, Node, Place, Parents
  <2>2. result = "sizing" => staged = Whole
    <3>1. ASSUME content = <<>> PROVE Whole = {}
      <4>1. Range(content) = {}
        BY <3>1 DEF Range
      <4>. QED  BY <4>1 DEF Whole
    <3>. QED  BY <3>1 DEF WritingInv, WalkIsInside
  <2>. QED  BY <1>1, <2>1, <2>2 DEF WritingInv, NothingIsLeftOut
<1>. QED  BY <1>1, <1>2, <1>3, <1>4, <1>5, <1>6 DEF WritingInv

\* A step keeps the invariant.
LEMMA WritingInvStep == WritingInv /\ [WritingNext]_writingVars => WritingInv'
<1>. SUFFICES ASSUME WritingInv, [WritingNext]_writingVars PROVE WritingInv'
    OBVIOUS
<1>1. CASE Size \/ End \/ Break
    BY <1>1, VerdictStep
<1>2. ASSUME NEW e \in Entries, Refuse(e) PROVE WritingInv'
    BY <1>2, RefuseStep
<1>3. ASSUME NEW e \in Entries, Directory(e) PROVE WritingInv'
    BY <1>3, DirectoryStep
<1>4. ASSUME NEW e \in Entries, File(e) PROVE WritingInv'
    BY <1>4, FileStep
<1>5. CASE UNCHANGED writingVars
  <2>1. /\ UNCHANGED <<source, limit, content, staged, written, root, result>>
    BY <1>5 DEF writingVars
  <2>2. WritingTypeOK' /\ BytesAreCounted' /\ WalkIsInside'
    BY <2>1 DEF WritingInv, WritingTypeOK, BytesAreCounted, Bytes, WalkIsInside,
       Open
  <2>3. StagedIsATree'
    BY <2>1 DEF WritingInv, StagedIsATree, At, Parents, Node
  <2>4. Whole' = Whole
    BY <2>1 DEF Whole, Node, Place, Parents
  <2>5. NothingIsLeftOut'
    BY <2>1, <2>4 DEF WritingInv, NothingIsLeftOut
  <2>6. (result = "tooBig" => limit > 0 /\ Cardinality(Bytes(Whole)) > limit)'
    BY <2>1, <2>4 DEF WritingInv, Bytes
  <2>. QED  BY <2>2, <2>3, <2>5, <2>6 DEF WritingInv
<1>. QED  BY <1>1, <1>2, <1>3, <1>4, <1>5 DEF WritingNext

\* At first nothing has arrived and nothing is staged.
LEMMA InitEstablishesWritingInv == WritingInit => WritingInv
<1>. SUFFICES ASSUME WritingInit PROVE WritingInv
    OBVIOUS
<1>1. content = <<>> /\ staged = {} /\ written = 0 /\ result # "tooBig" /\ MaxInt \in Nat
    BY MaxIntIsPositive DEF WritingInit
<1>2. WritingTypeOK
  <2>1. content \in Seq(Entries) /\ Len(content) = 0
    BY <1>1, EmptySeq
  <2>2. 0 <= MaxEntries /\ 0 \in 0..MaxInt
    BY <1>1, BoundsAreNatural
  <2>3. /\ source \in {"dag", "tar"} /\ limit \in Limits
        /\ root \in {"", "data"} /\ result \in {"sizing", "running"}
    BY DEF WritingInit
  <2>. QED  BY <1>1, <2>1, <2>2, <2>3 DEF WritingTypeOK
<1>3. StagedIsATree /\ WalkIsInside
    BY <1>1 DEF WritingInit, StagedIsATree, WalkIsInside
<1>4. BytesAreCounted
  <2>1. Bytes(staged) = {}
    BY <1>1 DEF Bytes
  <2>2. limit \in Int
    <3>1. limit \in Limits
        BY DEF WritingInit
    <3>2. limit \in -MaxInt..MaxInt
        BY <3>1, LimitsFit
    <3>. QED  BY <1>1, <3>2
  <2>. QED  BY <1>1, <2>1, <2>2, FS_EmptySet DEF BytesAreCounted
<1>5. NothingIsLeftOut
  <2>1. Range(content) = {}
    BY <1>1 DEF Range
  <2>. QED  BY <1>1, <2>1 DEF NothingIsLeftOut, Whole
<1>. QED  BY <1>1, <1>2, <1>3, <1>4, <1>5 DEF WritingInv

-----------------------------------------------------------------------------
\* Whatever a DAG or an archive consists of, what is staged is one tree inside the
\* staging directory, the bytes counted are the bytes staged, and content is called
\* too large only when it is.
THEOREM WritingInvariance == WritingSpec => []WritingInv
BY InitEstablishesWritingInv, WritingInvStep, PTL DEF WritingSpec

\* Whatever limit a caller passes but the largest there is, a download reported as a
\* success has staged everything that arrived, within the limit.
THEOREM SuccessIsAlwaysWhole == WritingSpec => [](limit # MaxInt => SuccessIsWhole)
<1>1. WritingInv => (limit # MaxInt => SuccessIsWhole)
  <2>. SUFFICES ASSUME WritingInv, limit # MaxInt, result = "ok"
                PROVE  staged = Whole /\ (limit > 0 => Cardinality(Bytes(Whole)) <= limit)
    BY DEF SuccessIsWhole
  <2>1. staged = Whole
    BY DEF WritingInv, NothingIsLeftOut
  <2>2. written = Cardinality(Bytes(staged)) /\ (limit > 0 => written <= limit)
    BY DEF WritingInv, BytesAreCounted
  <2>. QED  BY <2>1, <2>2
<1>. QED  BY <1>1, WritingInvariance, PTL
=============================================================================
