--------------------------- MODULE Replace_proofs ---------------------------
(***************************************************************************)
(* Proofs about the replacement of outputs: PathLocks for any number of    *)
(* callers, paths and channels, and Replace on top of it.                  *)
(*                                                                         *)
(* That a channel excludes is plain; the argument about the table is that  *)
(* the callers registered for a path all have the channel that is in its   *)
(* entry, because the entry outlives them, and no two paths share one.     *)
(* With one holder a path, success is never lost: only the holder takes    *)
(* published content away, and it has its own to put there.                *)
(***************************************************************************)
EXTENDS Replace, FiniteSetTheorems, TLAPS

-----------------------------------------------------------------------------
\* Only finitely many callers are registered for a path.
LEMMA RegisteredIsFinite == ASSUME NEW k PROVE IsFiniteSet(Registered(k))
BY CallersAreFinite, FS_Subset DEF Registered

\* At first nobody is registered and the table is empty.
LEMMA InitEstablishesLInv == LockInit => LInv
<1>. SUFFICES ASSUME LockInit PROVE LInv
    OBVIOUS
<1>1. \A k \in Keys : Registered(k) = {}
    BY DEF LockInit, Registered
<1>2. TableIsTight
    BY <1>1, FS_EmptySet DEF LockInit, TableIsTight
<1>. QED
    BY <1>2, NilNames DEF LockInit, LInv, LockTypeOK, Positions, GateInTable,
       OwnGates, FullWhileHeld

\* The steps that register nobody and drop nobody leave the table alone.
LEMMA TableKept ==
    ASSUME TableIsTight, UNCHANGED <<held, waiting>>,
           \A k \in Keys : Registered(k)' = Registered(k)
    PROVE  TableIsTight'
BY DEF TableIsTight

\* A step of the table keeps the invariant: the entry of a path outlives its users.
LEMMA NextPreservesLInv == LInv /\ [LockNext]_lockVars => LInv'
<1>. SUFFICES ASSUME LInv, [LockNext]_lockVars PROVE LInv'
    OBVIOUS
<1>. USE NilNames DEF LInv, LockTypeOK, Positions
<1>1. ASSUME NEW c \in Callers, NEW k \in Keys, Register(c, k) PROVE LInv'
  <2>1. c \notin Registered(k) /\ Registered(k)' = Registered(k) \cup {c}
    BY <1>1 DEF Register, Registered
  <2>2. \A l \in Keys \ {k} : Registered(l)' = Registered(l)
    BY <1>1 DEF Register, Registered
  <2>3. Cardinality(Registered(k)') = Cardinality(Registered(k)) + 1
    BY <2>1, RegisteredIsFinite, FS_AddElement
  <2>4. TableIsTight'
    BY <1>1, <2>1, <2>2, <2>3 DEF Register, TableIsTight
  <2>5. LockTypeOK'
    BY <1>1 DEF Register
  <2>6. GateInTable' /\ OwnGates'
    BY <1>1 DEF Register, Fresh, GateInTable, OwnGates
  <2>7. FullWhileHeld'
    BY <1>1 DEF Register, Fresh, GateInTable, FullWhileHeld
  <2>. QED  BY <2>4, <2>5, <2>6, <2>7
<1>2. ASSUME NEW c \in Callers, Take(c) PROVE LInv'
  <2>1. TableIsTight'
    BY <1>2, TableKept DEF Take, Registered
  <2>2. LockTypeOK' /\ GateInTable' /\ OwnGates' /\ FullWhileHeld'
    BY <1>2 DEF Take, GateInTable, OwnGates, FullWhileHeld
  <2>. QED  BY <2>1, <2>2
<1>3. ASSUME NEW c \in Callers, LockGivesUp(c) PROVE LInv'
  <2>1. TableIsTight'
    BY <1>3, TableKept DEF LockGivesUp, Registered
  <2>2. LockTypeOK' /\ GateInTable' /\ OwnGates' /\ FullWhileHeld'
    BY <1>3 DEF LockGivesUp, GateInTable, OwnGates, FullWhileHeld
  <2>. QED  BY <2>1, <2>2
<1>4. ASSUME NEW c \in Callers, Unlock(c) PROVE LInv'
  <2>1. TableIsTight'
    BY <1>4, TableKept DEF Unlock, Registered
  <2>2. LockTypeOK' /\ GateInTable' /\ OwnGates' /\ FullWhileHeld'
    BY <1>4 DEF Unlock, GateInTable, OwnGates, FullWhileHeld
  <2>. QED  BY <2>1, <2>2
<1>5. ASSUME NEW c \in Callers, Release(c) PROVE LInv'
  <2>. PICK k \in Keys : k = key[c]
    BY <1>5 DEF Release, GateInTable
  <2>1. c \in Registered(k) /\ Registered(k)' = Registered(k) \ {c}
    BY <1>5 DEF Release, Registered
  <2>2. \A l \in Keys \ {k} : Registered(l)' = Registered(l)
    BY <1>5 DEF Release, Registered
  <2>3. /\ Cardinality(Registered(k)) \in Nat
        /\ Cardinality(Registered(k)') = Cardinality(Registered(k)) - 1
        /\ Cardinality(Registered(k)') \in Nat
        /\ Cardinality(Registered(k)') = 0 <=> Registered(k)' = {}
    <3>1. IsFiniteSet(Registered(k)) /\ IsFiniteSet(Registered(k) \ {c})
        BY RegisteredIsFinite, FS_RemoveElement
    <3>2. Cardinality(Registered(k)) \in Nat /\ Cardinality(Registered(k) \ {c}) \in Nat
        BY <3>1, FS_CardinalityType
    <3>3. Cardinality(Registered(k) \ {c}) = Cardinality(Registered(k)) - 1
        BY <2>1, <3>1, FS_RemoveElement
    <3>4. Cardinality(Registered(k) \ {c}) = 0 <=> Registered(k) \ {c} = {}
        BY <3>1, FS_EmptySet
    <3>. HIDE DEF LInv, LockTypeOK, Positions
    <3>. QED  BY <2>1, <3>2, <3>3, <3>4
  <2>4. waiting[k] = 1 <=> Registered(k)' = {}
    BY <2>1, <2>3 DEF TableIsTight
  <2>5. TableIsTight'
    <3>1. /\ waiting'[k] = Cardinality(Registered(k)')
          /\ held'[k] = NoGate <=> Registered(k)' = {}
        BY <1>5, <2>1, <2>3, <2>4 DEF Release, TableIsTight
    <3>2. ASSUME NEW l \in Keys, l # k
          PROVE  /\ waiting'[l] = Cardinality(Registered(l)')
                 /\ held'[l] = NoGate <=> Registered(l)' = {}
        BY <1>5, <2>2, <3>2 DEF Release, TableIsTight
    <3>. QED  BY <3>1, <3>2 DEF TableIsTight
  <2>6. LockTypeOK'
    <3>1. waiting[k] - 1 \in Nat
        BY <2>1, <2>3 DEF TableIsTight
    <3>. QED  BY <1>5, <2>1, <3>1 DEF Release
  <2>7. GateInTable'
    BY <1>5, <2>1, <2>4 DEF Release, GateInTable, Registered
  <2>8. OwnGates' /\ FullWhileHeld'
    BY <1>5 DEF Release, OwnGates, FullWhileHeld, GateInTable
  <2>. QED  BY <2>5, <2>6, <2>7, <2>8
<1>6. ASSUME NEW c \in Callers, Expire(c) \/ Renew(c) PROVE LInv'
  <2>1. UNCHANGED <<held, waiting, owner, at, key, gate>>
    BY <1>6 DEF Expire, Renew
  <2>2. done' \in [Callers -> BOOLEAN]
    BY <1>6 DEF Expire, Renew
  <2>3. TableIsTight'
    BY <2>1, TableKept DEF Registered
  <2>4. LockTypeOK' /\ GateInTable' /\ OwnGates' /\ FullWhileHeld'
    BY <2>1, <2>2 DEF GateInTable, OwnGates, FullWhileHeld
  <2>. QED  BY <2>3, <2>4
<1>7. CASE UNCHANGED lockVars
  <2>1. TableIsTight'
    BY <1>7, TableKept DEF lockVars, Registered
  <2>2. LockTypeOK' /\ GateInTable' /\ OwnGates' /\ FullWhileHeld'
    BY <1>7 DEF lockVars, GateInTable, OwnGates, FullWhileHeld
  <2>. QED  BY <2>1, <2>2
<1>. QED
    BY <1>1, <1>2, <1>3, <1>4, <1>5, <1>6, <1>7 DEF LockNext

-----------------------------------------------------------------------------
\* The invariant holds in every reachable state.
THEOREM LInvariance == LockSpec => []LInv
BY InitEstablishesLInv, NextPreservesLInv, PTL DEF LockSpec

\* No two downloads are between lock and unlock of one path, although its
\* channel is dropped and made again.
THEOREM LocksExclude == LockSpec => []MutualExclusion
<1>1. LInv => MutualExclusion
    BY DEF LInv, LockTypeOK, GateInTable, FullWhileHeld, MutualExclusion
<1>. QED  BY <1>1, LInvariance, PTL

\* The table holds an entry for each path in use and for no other, so it does
\* not grow with every path ever written.
THEOREM TableDoesNotGrow == LockSpec => []TableIsTight
<1>1. LInv => TableIsTight
    BY DEF LInv
<1>. QED  BY <1>1, LInvariance, PTL

\* A caller never waits for a path nobody holds.
THEOREM FreePathsAreOpen == LockSpec => []FreePathIsOpen
<1>1. LInv => FreePathIsOpen
  <2>. SUFFICES ASSUME LInv, NEW c \in Callers, at[c] = "select",
                       owner[gate[c]] # NoCaller
                PROVE  \E d \in Callers : at[d] = "holding" /\ key[d] = key[c]
    BY DEF FreePathIsOpen
  <2>1. gate[c] \in Gates /\ gate[c] = held[key[c]] /\ key[c] \in Keys
    BY DEF LInv, LockTypeOK, GateInTable
  <2>2. PICK d \in Callers : owner[gate[c]] = d
    BY <2>1 DEF LInv, LockTypeOK
  <2>3. at[d] = "holding" /\ gate[d] = gate[c]
    BY <2>1, <2>2 DEF LInv, FullWhileHeld
  <2>4. key[d] = key[c]
    BY <2>1, <2>3 DEF LInv, GateInTable, OwnGates
  <2>. QED  BY <2>3, <2>4
<1>. QED  BY <1>1, LInvariance, PTL

-----------------------------------------------------------------------------
\* The refinement starts where the abstract mutexes do.
LEMMA InitIsMutexInit == LockInit => Mutex!Init
BY DEF LockInit, Mutex!Init, Inside

\* A step of the table is a step of the mutexes, or none.
LEMMA StepIsMutexStep ==
    LInv /\ [LockNext]_lockVars
        => [Mutex!Next]_[k \in Keys |-> Inside(k)]
<1>. SUFFICES ASSUME LInv, [LockNext]_lockVars
              PROVE  [Mutex!Next]_[k \in Keys |-> Inside(k)]
    OBVIOUS
<1>. DEFINE Stutter == \A k \in Keys : Inside(k)' = Inside(k)
<1>. USE NilNames DEF LInv, LockTypeOK
<1>1. ASSUME NEW c \in Callers, Take(c) PROVE \E k \in Keys : Mutex!Lock(c, k)
  <2>. PICK k \in Keys : k = key[c]
    BY <1>1 DEF Take, GateInTable
  <2>1. Inside(k) = {}
    <3>. SUFFICES ASSUME NEW d \in Callers, at[d] = "holding", key[d] = k
                  PROVE  FALSE
        BY DEF Inside
    <3>1. gate[d] = gate[c] /\ gate[c] \in Gates
        BY <1>1 DEF Take, GateInTable
    <3>2. owner[gate[c]] = d
        BY <3>1 DEF FullWhileHeld
    <3>. QED  BY <1>1, <3>2 DEF Take
  <2>2. Inside(k)' = {c}
    BY <1>1, <2>1 DEF Take, Inside
  <2>3. \A l \in Keys \ {k} : Inside(l)' = Inside(l)
    BY <1>1 DEF Take, Inside
  <2>. HIDE DEF LInv, LockTypeOK
  <2>4. [l \in Keys |-> Inside(l)']
          = [[l \in Keys |-> Inside(l)] EXCEPT ![k] = {c}]
    BY <2>2, <2>3
  <2>. QED  BY <2>1, <2>4 DEF Mutex!Lock
<1>2. ASSUME NEW c \in Callers, Unlock(c) PROVE \E k \in Keys : Mutex!Unlock(c, k)
  <2>. PICK k \in Keys : k = key[c]
    BY <1>2 DEF Unlock, GateInTable
  <2>1. c \in Inside(k) /\ Inside(k)' = Inside(k) \ {c}
    BY <1>2 DEF Unlock, Inside
  <2>2. \A l \in Keys \ {k} : Inside(l)' = Inside(l)
    BY <1>2 DEF Unlock, Inside
  <2>. HIDE DEF LInv, LockTypeOK
  <2>3. [l \in Keys |-> Inside(l)']
          = [[l \in Keys |-> Inside(l)] EXCEPT ![k] = @ \ {c}]
    BY <2>1, <2>2
  <2>. QED  BY <2>1, <2>3 DEF Mutex!Unlock
<1>3. ASSUME NEW c \in Callers,
             \/ \E k \in Keys : Register(c, k)
             \/ LockGivesUp(c) \/ Release(c) \/ Expire(c) \/ Renew(c)
      PROVE  Stutter
    BY <1>3 DEF Register, LockGivesUp, Release, Expire, Renew, Inside
<1>4. UNCHANGED lockVars => Stutter
    BY DEF lockVars, Inside
<1>5. Stutter => UNCHANGED [k \in Keys |-> Inside(k)]
    OBVIOUS
<1>. HIDE DEF Stutter, LInv
<1>6. CASE UNCHANGED lockVars
    BY <1>4, <1>5, <1>6
<1>7. CASE LockNext
  <2>1. PICK c \in Callers :
            \/ \E k \in Keys : Register(c, k)
            \/ Take(c) \/ LockGivesUp(c) \/ Unlock(c)
            \/ Release(c) \/ Expire(c) \/ Renew(c)
    BY <1>7 DEF LockNext
  <2>2. CASE Take(c)
    BY <1>1, <2>2 DEF Mutex!Next
  <2>3. CASE Unlock(c)
    BY <1>2, <2>3 DEF Mutex!Next
  <2>4. CASE ~(Take(c) \/ Unlock(c))
    BY <1>3, <1>5, <2>1, <2>4
  <2>. QED  BY <2>2, <2>3, <2>4
<1>. QED  BY <1>6, <1>7

\* The table of channels implements one mutex per path.
THEOREM LocksRefine == LockSpec => ImplementsPathMutex
BY InitIsMutexInit, StepIsMutexStep, LInvariance, PTL
    DEF LockSpec, Mutex!Spec, ImplementsPathMutex

-----------------------------------------------------------------------------
\* A step of a download is a step of the lock table or none of its business; a kill
\* leaves it as it was made.
LEMMA LInvStep == ReplaceInv /\ [Next]_vars => LInv'
<1>. SUFFICES ASSUME ReplaceInv, [Next]_vars PROVE LInv'
    OBVIOUS
<1>1. CASE \E c \in Callers : replace(c) \/ Deadline(c) \/ StagingSwept(c)
  <2>1. [LockNext]_lockVars
    BY <1>1 DEF ReplaceInv, TypeOK, replace, LockNext, lockVars, Begin, CheckContext,
       Rename, Lock, LockGranted, LockRefused, RenameAgain, Clear, Cleared,
       ClearFails, Place, DeferredUnlock, DeferredRelease, Deadline, StagingSwept
  <2>. QED  BY <2>1, NextPreservesLInv DEF ReplaceInv
<1>2. CASE Crash
  <2>1. \A k \in Keys : Registered(k)' = {}
    BY <1>2 DEF Crash, Registered
  <2>2. TableIsTight'
    BY <1>2, <2>1, FS_EmptySet DEF Crash, TableIsTight
  <2>. QED
    BY <1>2, <2>2, NilNames DEF Crash, ReplaceInv, LInv, LockTypeOK, Positions,
       GateInTable,
       OwnGates, FullWhileHeld
<1>3. CASE UNCHANGED vars
  <2>1. UNCHANGED lockVars
    BY <1>3 DEF vars
  <2>. QED  BY <2>1, NextPreservesLInv DEF ReplaceInv
<1>. QED  BY <1>1, <1>2, <1>3 DEF Next

\* In the section the lock protects there is one download a path.
LEMMA ExclusiveSection ==
    ASSUME ReplaceInv
    PROVE  \A c, d \in Callers :
             step[c] \in Locked /\ step[d] \in Locked /\ output[c] = output[d] => c = d
<1>1. \A c, d \in Callers : at[c] = "holding" /\ at[d] = "holding" /\ key[c] = key[d] => c = d
    BY DEF ReplaceInv, LInv, LockTypeOK, GateInTable, FullWhileHeld
<1>. QED  BY <1>1 DEF ReplaceInv, LockFollowsStep

-----------------------------------------------------------------------------
\* What a download's step does to its output, whichever step it is.
Stays == UNCHANGED <<lockVars, output, crashes, faulted>>

\* Its content lands.
Lands(c) ==
    /\ \/ step[c] = "rename" /\ step' = [step EXCEPT ![c] = "returned"]
       \/ step[c] \in {"again", "place"} /\ step' = [step EXCEPT ![c] = "unlock"]
    /\ outcome' = [outcome EXCEPT ![c] = "ok"]
    /\ staged[c] \in {"file", "directory"}
    /\ staged' = [staged EXCEPT ![c] = "gone"]
    /\ disk' \in [Keys -> Entry]
    /\ output[c] \in Keys
    /\ staged[c] = "file" \/ disk[output[c]].what = "nothing"
    /\ disk[output[c]].what \in {"nothing", "file"}
    /\ disk'[output[c]].what = staged[c]
    /\ disk'[output[c]].of = c
    /\ \A k \in Keys \ {output[c]} : disk'[k] = disk[k]
    /\ Stays

\* A directory there is half removed.
Halves(c) ==
    /\ step[c] = "clear" /\ step' = [step EXCEPT ![c] = "clearing"]
    /\ disk' \in [Keys -> Entry]
    /\ output[c] \in Keys
    /\ disk'[output[c]].what = "remains"
    /\ disk'[output[c]].of = disk[output[c]].of
    /\ \A k \in Keys \ {output[c]} : disk'[k] = disk[k]
    /\ disk[output[c]].what \in {"directory", "remains"}
    /\ UNCHANGED <<staged, outcome>> /\ Stays

\* What was there is gone.
Empties(c) ==
    /\ step[c] = "clearing" \/ (step[c] = "clear" /\ disk[output[c]].what \in {"nothing", "file"})
    /\ step' = [step EXCEPT ![c] = "place"]
    /\ disk' \in [Keys -> Entry]
    /\ output[c] \in Keys
    /\ disk'[output[c]].what = "nothing"
    /\ disk'[output[c]].of = NoCaller
    /\ \A k \in Keys \ {output[c]} : disk'[k] = disk[k]
    /\ UNCHANGED <<staged, outcome>> /\ Stays

\* A rename fails: staging was lost or something is in the way.
Fails(c) ==
    /\ \/ step[c] = "rename" /\ step' = [step EXCEPT ![c] = "lock"] /\ UNCHANGED outcome
       \/ step[c] = "again" /\ step' = [step EXCEPT ![c] = "clear"] /\ UNCHANGED outcome
       \/ /\ step[c] = "place" /\ step' = [step EXCEPT ![c] = "unlock"]
          /\ outcome' = [outcome EXCEPT ![c] = "failed"]
    /\ ~CanRename(c)
    /\ UNCHANGED <<disk, staged>> /\ Stays

Moves ==
    \/ \E c \in Callers :
        \/ Lands(c) \/ Halves(c) \/ Empties(c) \/ Fails(c)
        \/ Begin(c) \/ CheckContext(c) \/ Lock(c) \/ LockGranted(c) \/ LockRefused(c)
        \/ ClearFails(c) \/ DeferredUnlock(c) \/ DeferredRelease(c)
        \/ Deadline(c) \/ StagingSwept(c)
    \/ Crash
    \/ UNCHANGED vars

\* A rename is one of two moves.
LEMMA RenameLandsOrFails ==
    ASSUME ReplaceInv, NEW c \in Callers, Rename(c) \/ RenameAgain(c) \/ Place(c)
    PROVE  Lands(c) \/ Fails(c)
<1>1. CASE CanRename(c)
  <2>. DEFINE e == [what |-> staged[c], of |-> c]
  <2>0. Publish(c) /\ Decide(c, "ok") /\ Stays
    BY <1>1 DEF Rename, RenameAgain, Place, Stays, Elsewhere
  <2>1. staged[c] \in {"file", "directory"} /\ output[c] \in Keys
    BY <1>1, KindsAreKnown DEF ReplaceInv, TypeOK, CanRename
  <2>2. e \in Entry /\ e.what = staged[c] /\ e.of = c
    BY <2>1 DEF Entry
  <2>3. disk' = [disk EXCEPT ![output[c]] = e]
    BY <2>0 DEF Publish
  <2>4. /\ staged[c] = "file" \/ disk[output[c]].what = "nothing"
        /\ disk[output[c]].what \in {"nothing", "file"}
    BY <1>1, <2>1 DEF CanRename
  <2>5. /\ staged' = [staged EXCEPT ![c] = "gone"]
        /\ outcome' = [outcome EXCEPT ![c] = "ok"]
    BY <2>0 DEF Publish, Decide
  <2>6. \/ step[c] = "rename" /\ step' = [step EXCEPT ![c] = "returned"]
        \/ step[c] \in {"again", "place"} /\ step' = [step EXCEPT ![c] = "unlock"]
    BY <1>1 DEF Rename, RenameAgain, Place, Goto
  <2>7. disk \in [Keys -> Entry]
    BY DEF ReplaceInv, TypeOK
  <2>. HIDE DEF e
  <2>8. /\ disk' \in [Keys -> Entry] /\ disk'[output[c]] = e
        /\ \A k \in Keys \ {output[c]} : disk'[k] = disk[k]
    BY <2>1, <2>2, <2>3, <2>7
  <2>. QED  BY <2>0, <2>1, <2>2, <2>4, <2>5, <2>6, <2>8 DEF Lands
<1>2. CASE ~CanRename(c)
    BY <1>2 DEF Rename, RenameAgain, Place, Goto, Decide, Unpublished, Elsewhere,
       Fails, Stays
<1>. QED  BY <1>1, <1>2

\* Clearing the path is one of two moves.
LEMMA ClearHalvesOrEmpties ==
    ASSUME ReplaceInv, NEW c \in Callers, Clear(c) \/ Cleared(c)
    PROVE  Halves(c) \/ Empties(c)
<1>0. /\ disk \in [Keys -> Entry] /\ output[c] \in Keys
      /\ disk[output[c]].what \in {"nothing", "file", "directory", "remains"}
      /\ disk[output[c]].of \in Callers \cup {NoCaller}
    BY DEF ReplaceInv, TypeOK, Entry
<1>. DEFINE e == [what |-> "remains", of |-> disk[output[c]].of]
<1>1. e \in Entry /\ e.what = "remains" /\ e.of = disk[output[c]].of
    BY <1>0 DEF Entry
<1>2. Nothing \in Entry /\ Nothing.what = "nothing" /\ Nothing.of = NoCaller
    BY DEF Entry, Nothing
<1>3. CASE /\ disk' = [disk EXCEPT ![output[c]] = e] /\ Goto(c, "clearing")
           /\ Clear(c) /\ disk[output[c]].what \in {"directory", "remains"}
  <2>. HIDE DEF e
  <2>1. /\ disk' \in [Keys -> Entry] /\ disk'[output[c]] = e
        /\ \A k \in Keys \ {output[c]} : disk'[k] = disk[k]
    BY <1>0, <1>1, <1>3
  <2>2. step[c] = "clear" /\ UNCHANGED <<staged, outcome>> /\ Stays
    BY <1>3 DEF Clear, Stays, Elsewhere
  <2>. QED  BY <1>0, <1>1, <1>3, <2>1, <2>2 DEF Halves, Goto
<1>4. ASSUME disk' = [disk EXCEPT ![output[c]] = Nothing], step' = [step EXCEPT ![c] = "place"],
             step[c] = "clearing" \/ (step[c] = "clear" /\ disk[output[c]].what \in {"nothing", "file"})
      PROVE  Empties(c)
  <2>1. /\ disk' \in [Keys -> Entry] /\ disk'[output[c]] = Nothing
        /\ \A k \in Keys \ {output[c]} : disk'[k] = disk[k]
    BY <1>0, <1>2, <1>4
  <2>2. UNCHANGED <<staged, outcome>> /\ Stays
    BY DEF Clear, Cleared, Stays, Elsewhere
  <2>. QED  BY <1>0, <1>2, <1>4, <2>1, <2>2 DEF Empties
<1>5. CASE Cleared(c)
  <2>1. /\ disk' = [disk EXCEPT ![output[c]] = Nothing]
        /\ step' = [step EXCEPT ![c] = "place"]
        /\ step[c] = "clearing"
    BY <1>5 DEF Cleared, Goto
  <2>2. step[c] = "clearing" \/ (step[c] = "clear" /\ disk[output[c]].what \in {"nothing", "file"})
    BY <2>1
  <2>. QED  BY <1>4, <2>1, <2>2
<1>6. CASE Clear(c) /\ disk[output[c]].what \in {"directory", "remains"}
    BY <1>3, <1>6 DEF Clear
<1>7. CASE Clear(c) /\ ~(disk[output[c]].what \in {"directory", "remains"})
  <2>1. /\ disk' = [disk EXCEPT ![output[c]] = Nothing]
        /\ step' = [step EXCEPT ![c] = "place"]
        /\ step[c] = "clear"
    BY <1>7 DEF Clear, Goto
  <2>. QED  BY <1>0, <1>4, <1>7, <2>1
<1>. QED  BY <1>5, <1>6, <1>7

\* Each action is one of the moves on what the invariant speaks of.
LEMMA EveryMove == ASSUME ReplaceInv, [Next]_vars PROVE Moves
BY RenameLandsOrFails, ClearHalvesOrEmpties DEF Next, replace, Moves

\* A step keeps types.
LEMMA TypeOKStep == ReplaceInv /\ [Next]_vars => TypeOK'
<1>. SUFFICES ASSUME ReplaceInv, [Next]_vars PROVE TypeOK'
    OBVIOUS
<1>moves. Moves
    BY EveryMove
<1>0. LockTypeOK'
    BY LInvStep DEF LInv
<1>. USE NilNames, KindsAreKnown, MaxCrashesIsNatural
     DEF ReplaceInv, TypeOK, Entry, Nothing, Steps, Locked, vars, lockVars, Stays,
         CanRename, Goto, Decide, Unpublished, Elsewhere, Register, Take,
         LockGivesUp, Unlock, Release, Expire
<1>1. ASSUME NEW c \in Callers, Lands(c) PROVE TypeOK'
    BY <1>0, <1>1 DEF Lands
<1>2. ASSUME NEW c \in Callers, Halves(c) PROVE TypeOK'
    BY <1>0, <1>2 DEF Halves
<1>3. ASSUME NEW c \in Callers, Empties(c) PROVE TypeOK'
    BY <1>0, <1>3 DEF Empties
<1>4. ASSUME NEW c \in Callers, Fails(c) PROVE TypeOK'
    BY <1>0, <1>4 DEF Fails
<1>5. ASSUME NEW c \in Callers, Begin(c) PROVE TypeOK'
    BY <1>0, <1>5 DEF Begin
<1>6. ASSUME NEW c \in Callers, CheckContext(c) PROVE TypeOK'
    BY <1>0, <1>6 DEF CheckContext
<1>7. ASSUME NEW c \in Callers, Lock(c) PROVE TypeOK'
    BY <1>0, <1>7 DEF Lock
<1>8. ASSUME NEW c \in Callers, LockGranted(c) PROVE TypeOK'
    BY <1>0, <1>8 DEF LockGranted
<1>9. ASSUME NEW c \in Callers, LockRefused(c) PROVE TypeOK'
    BY <1>0, <1>9 DEF LockRefused
<1>10. ASSUME NEW c \in Callers, ClearFails(c) PROVE TypeOK'
    BY <1>0, <1>10 DEF ClearFails
<1>11. ASSUME NEW c \in Callers, DeferredUnlock(c) PROVE TypeOK'
    BY <1>0, <1>11 DEF DeferredUnlock
<1>12. ASSUME NEW c \in Callers, DeferredRelease(c) PROVE TypeOK'
    BY <1>0, <1>12 DEF DeferredRelease
<1>13. ASSUME NEW c \in Callers, Deadline(c) PROVE TypeOK'
    BY <1>0, <1>13 DEF Deadline
<1>14. ASSUME NEW c \in Callers, StagingSwept(c) PROVE TypeOK'
    BY <1>0, <1>14 DEF StagingSwept
<1>15. CASE Crash
    BY <1>0, <1>15 DEF Crash
<1>16. CASE UNCHANGED vars
    BY <1>0, <1>16
<1>. QED
    BY <1>moves, <1>1, <1>2, <1>3, <1>4, <1>5, <1>6, <1>7, <1>8, <1>9, <1>10, <1>11,
       <1>12, <1>13, <1>14, <1>15, <1>16 DEF Moves

\* A download takes and leaves the lock where its step says so.
LEMMA LockFollowsStepStep == ReplaceInv /\ [Next]_vars => LockFollowsStep'
<1>. SUFFICES ASSUME ReplaceInv, [Next]_vars PROVE LockFollowsStep'
    OBVIOUS
<1>moves. Moves
    BY EveryMove
<1>. USE NilNames, KindsAreKnown, MaxCrashesIsNatural
     DEF ReplaceInv, TypeOK, LockTypeOK, Positions, Entry, Nothing, Steps, Locked,
         LockFollowsStep, vars, lockVars, Stays, CanRename, Goto, Decide,
         Unpublished, Elsewhere, Register, Take, LockGivesUp, Unlock, Release,
         Expire
<1>1. ASSUME NEW c \in Callers, Lands(c) PROVE LockFollowsStep'
  <2>1. CASE step[c] = "rename"
    <3>1. step' = [step EXCEPT ![c] = "returned"] /\ at' = at /\ output' = output /\ key' = key
        BY <1>1, <2>1 DEF Lands
    <3>. QED  BY <2>1, <3>1
  <2>2. CASE step[c] \in {"again", "place"}
    BY <1>1, <2>2 DEF Lands
  <2>. QED  BY <1>1, <2>1, <2>2 DEF Lands
<1>2. ASSUME NEW c \in Callers, Halves(c) PROVE LockFollowsStep'
    BY <1>2 DEF Halves
<1>3. ASSUME NEW c \in Callers, Empties(c) PROVE LockFollowsStep'
    BY <1>3 DEF Empties
<1>4. ASSUME NEW c \in Callers, Fails(c) PROVE LockFollowsStep'
    BY <1>4 DEF Fails
<1>5. ASSUME NEW c \in Callers, Begin(c) PROVE LockFollowsStep'
    BY <1>5 DEF Begin
<1>6. ASSUME NEW c \in Callers, CheckContext(c) PROVE LockFollowsStep'
    BY <1>6 DEF CheckContext
<1>7. ASSUME NEW c \in Callers, Lock(c) PROVE LockFollowsStep'
    BY <1>7 DEF Lock
<1>8. ASSUME NEW c \in Callers, LockGranted(c) PROVE LockFollowsStep'
    BY <1>8 DEF LockGranted
<1>9. ASSUME NEW c \in Callers, LockRefused(c) PROVE LockFollowsStep'
    BY <1>9 DEF LockRefused
<1>10. ASSUME NEW c \in Callers, ClearFails(c) PROVE LockFollowsStep'
    BY <1>10 DEF ClearFails
<1>11. ASSUME NEW c \in Callers, DeferredUnlock(c) PROVE LockFollowsStep'
    BY <1>11 DEF DeferredUnlock
<1>12. ASSUME NEW c \in Callers, DeferredRelease(c) PROVE LockFollowsStep'
    BY <1>12 DEF DeferredRelease
<1>13. ASSUME NEW c \in Callers, Deadline(c) PROVE LockFollowsStep'
    BY <1>13 DEF Deadline
<1>14. ASSUME NEW c \in Callers, StagingSwept(c) PROVE LockFollowsStep'
    BY <1>14 DEF StagingSwept
<1>15. CASE Crash
    BY <1>15 DEF Crash
<1>16. CASE UNCHANGED vars
    BY <1>16
<1>. QED
    BY <1>moves, <1>1, <1>2, <1>3, <1>4, <1>5, <1>6, <1>7, <1>8, <1>9, <1>10, <1>11,
       <1>12, <1>13, <1>14, <1>15, <1>16 DEF Moves

\* What is at an output was put there by the step that decided its outcome.
LEMMA OutcomeIsEarnedStep == ReplaceInv /\ [Next]_vars => OutcomeIsEarned'
<1>. SUFFICES ASSUME ReplaceInv, [Next]_vars PROVE OutcomeIsEarned'
    OBVIOUS
<1>moves. Moves
    BY EveryMove
<1>. USE NilNames, KindsAreKnown, MaxCrashesIsNatural
     DEF ReplaceInv, TypeOK, LockTypeOK, Positions, Entry, Nothing, Steps, Locked,
         OutcomeIsEarned, Undecided, vars, Stays, CanRename, Goto, Decide,
         Unpublished, Elsewhere
<1>1. ASSUME NEW c \in Callers, Lands(c) PROVE OutcomeIsEarned'
  <2>1. /\ output' = output /\ faulted' = faulted
        /\ step[c] \in {"rename", "again", "place"} /\ step'[c] \in {"returned", "unlock"}
        /\ outcome'[c] = "ok" /\ staged'[c] = "gone" /\ outcome[c] = "none"
    BY <1>1 DEF Lands
  <2>2. \A d \in Callers \ {c} :
            step'[d] = step[d] /\ outcome'[d] = outcome[d] /\ staged'[d] = staged[d]
    BY <1>1 DEF Lands
  <2>3. OutcomeIsEarned!1'
    BY <2>1, <2>2
  <2>4. OutcomeIsEarned!2'
    BY <1>1, <2>1, <2>2 DEF Lands
  <2>. QED  BY <2>3, <2>4
<1>2. ASSUME NEW c \in Callers, Halves(c) PROVE OutcomeIsEarned'
  <2>1. /\ step[c] = "clear" /\ step' = [step EXCEPT ![c] = "clearing"]
        /\ UNCHANGED <<staged, outcome, output, faulted>>
    BY <1>2 DEF Halves
  <2>2. \A k \in Keys : disk'[k].of = disk[k].of
    BY <1>2 DEF Halves
  <2>3. OutcomeIsEarned!1'
    BY <2>1
  <2>4. OutcomeIsEarned!2'
    BY <2>1, <2>2
  <2>. QED  BY <2>3, <2>4
<1>3. ASSUME NEW c \in Callers, Empties(c) PROVE OutcomeIsEarned'
    BY <1>3 DEF Empties
<1>4. ASSUME NEW c \in Callers, Fails(c) PROVE OutcomeIsEarned'
    BY <1>4 DEF Fails
<1>5. ASSUME NEW c \in Callers, Begin(c) PROVE OutcomeIsEarned'
    BY <1>5 DEF Begin
<1>6. ASSUME NEW c \in Callers, CheckContext(c) PROVE OutcomeIsEarned'
    BY <1>6 DEF CheckContext
<1>7. ASSUME NEW c \in Callers, Lock(c) PROVE OutcomeIsEarned'
    BY <1>7 DEF Lock
<1>8. ASSUME NEW c \in Callers, LockGranted(c) PROVE OutcomeIsEarned'
    BY <1>8 DEF LockGranted
<1>9. ASSUME NEW c \in Callers, LockRefused(c) PROVE OutcomeIsEarned'
    BY <1>9 DEF LockRefused
<1>10. ASSUME NEW c \in Callers, ClearFails(c) PROVE OutcomeIsEarned'
    BY <1>10 DEF ClearFails
<1>11. ASSUME NEW c \in Callers, DeferredUnlock(c) PROVE OutcomeIsEarned'
    BY <1>11 DEF DeferredUnlock
<1>12. ASSUME NEW c \in Callers, DeferredRelease(c) PROVE OutcomeIsEarned'
    BY <1>12 DEF DeferredRelease
<1>13. ASSUME NEW c \in Callers, Deadline(c) PROVE OutcomeIsEarned'
    BY <1>13 DEF Deadline
<1>14. ASSUME NEW c \in Callers, StagingSwept(c) PROVE OutcomeIsEarned'
    BY <1>14 DEF StagingSwept
<1>15. CASE Crash
    BY <1>15 DEF Crash
<1>16. CASE UNCHANGED vars
    BY <1>16
<1>. QED
    BY <1>moves, <1>1, <1>2, <1>3, <1>4, <1>5, <1>6, <1>7, <1>8, <1>9, <1>10, <1>11,
       <1>12, <1>13, <1>14, <1>15, <1>16 DEF Moves

\* Only the step of its holder makes or takes away half a directory.
LEMMA RemainsAreBeingClearedStep == ReplaceInv /\ [Next]_vars => RemainsAreBeingCleared'
<1>. SUFFICES ASSUME ReplaceInv, [Next]_vars PROVE RemainsAreBeingCleared'
    OBVIOUS
<1>moves. Moves
    BY EveryMove
<1>. USE NilNames, KindsAreKnown, MaxCrashesIsNatural
     DEF ReplaceInv, TypeOK, LockTypeOK, Positions, Entry, Nothing, Steps, Locked,
         RemainsAreBeingCleared, LockFollowsStep, vars, lockVars, Stays, CanRename,
         Goto, Decide, Unpublished, Elsewhere, Register, Take, LockGivesUp, Unlock,
         Release, Expire
<1>hyp. RemainsAreBeingCleared
    BY DEF ReplaceInv
<1>1. ASSUME NEW c \in Callers, Halves(c) PROVE RemainsAreBeingCleared'
    BY <1>1 DEF Halves
<1>2. ASSUME output' = output, faulted \subseteq faulted',
             \A k \in Keys : disk'[k].what = "remains" => disk[k].what = "remains",
             \A d \in Callers : step[d] = "killed" => step'[d] = "killed",
             \A d \in Callers :
                step[d] = "clearing" /\ at[d] = "holding" /\ disk'[output[d]].what = "remains" =>
                    \/ step'[d] = "clearing" /\ at'[d] = "holding"
                    \/ step'[d] = "killed"
                    \/ output[d] \in faulted'
      PROVE  RemainsAreBeingCleared'
  <2>. HIDE DEF ReplaceInv
  <2>. QED  BY <1>hyp, <1>2
<1>3. /\ step \in [Callers -> Steps] /\ at \in [Callers -> Positions]
      /\ \A d \in Callers : step[d] = "clearing" => at[d] = "holding"
      /\ \A d \in Callers : at[d] = "holding" => step[d] \in Locked
    OBVIOUS
<1>. HIDE DEF ReplaceInv, RemainsAreBeingCleared
<1>4. ASSUME NEW c \in Callers, Lands(c) PROVE RemainsAreBeingCleared'
    BY <1>2, <1>3, <1>4 DEF Lands
<1>5. ASSUME NEW c \in Callers, Empties(c) PROVE RemainsAreBeingCleared'
    BY <1>2, <1>3, <1>5 DEF Empties
<1>6. ASSUME NEW c \in Callers, Fails(c) PROVE RemainsAreBeingCleared'
    BY <1>2, <1>3, <1>6 DEF Fails
<1>7. ASSUME NEW c \in Callers, Begin(c) PROVE RemainsAreBeingCleared'
    BY <1>2, <1>3, <1>7 DEF Begin
<1>8. ASSUME NEW c \in Callers, CheckContext(c) PROVE RemainsAreBeingCleared'
    BY <1>2, <1>3, <1>8 DEF CheckContext
<1>9. ASSUME NEW c \in Callers, Lock(c) PROVE RemainsAreBeingCleared'
    BY <1>2, <1>3, <1>9 DEF Lock
<1>10. ASSUME NEW c \in Callers, LockGranted(c) PROVE RemainsAreBeingCleared'
    BY <1>2, <1>3, <1>10 DEF LockGranted
<1>11. ASSUME NEW c \in Callers, LockRefused(c) PROVE RemainsAreBeingCleared'
    BY <1>2, <1>3, <1>11 DEF LockRefused
<1>12. ASSUME NEW c \in Callers, ClearFails(c) PROVE RemainsAreBeingCleared'
    BY <1>2, <1>3, <1>12 DEF ClearFails
<1>13. ASSUME NEW c \in Callers, DeferredUnlock(c) PROVE RemainsAreBeingCleared'
    BY <1>2, <1>3, <1>13 DEF DeferredUnlock
<1>14. ASSUME NEW c \in Callers, DeferredRelease(c) PROVE RemainsAreBeingCleared'
    BY <1>2, <1>3, <1>14 DEF DeferredRelease
<1>15. ASSUME NEW c \in Callers, Deadline(c) PROVE RemainsAreBeingCleared'
    BY <1>2, <1>3, <1>15 DEF Deadline
<1>16. ASSUME NEW c \in Callers, StagingSwept(c) PROVE RemainsAreBeingCleared'
    BY <1>2, <1>3, <1>16 DEF StagingSwept
<1>17. CASE Crash
    BY <1>2, <1>3, <1>17 DEF Crash
<1>18. CASE UNCHANGED vars
    BY <1>2, <1>18
<1>. QED
    BY <1>moves, <1>1, <1>4, <1>5, <1>6, <1>7, <1>8, <1>9, <1>10, <1>11,
       <1>12, <1>13, <1>14, <1>15, <1>16, <1>17, <1>18 DEF Moves

\* Between two steps of the holder only renames onto its output interfere, and they
\* need nothing or a file there.
LEMMA HolderKnowsTheWayStep == ReplaceInv /\ [Next]_vars => HolderKnowsTheWay'
<1>. SUFFICES ASSUME ReplaceInv, [Next]_vars PROVE HolderKnowsTheWay'
    OBVIOUS
<1>moves. Moves
    BY EveryMove
<1>. USE NilNames, KindsAreKnown, MaxCrashesIsNatural
     DEF ReplaceInv, TypeOK, LockTypeOK, Positions, Entry, Nothing, Steps, Locked,
         HolderKnowsTheWay, IsWhole, OutcomeIsEarned, Undecided, vars, lockVars,
         Stays, CanRename, Goto, Decide, Unpublished, Elsewhere, Register, Take,
         LockGivesUp, Unlock, Release, Expire
<1>0. \A c, d \in Callers : step[c] \in Locked /\ step[d] \in Locked /\ output[c] = output[d] => c = d
    BY ExclusiveSection
<1>1. ASSUME NEW c \in Callers, Lands(c) PROVE HolderKnowsTheWay'
    BY <1>0, <1>1 DEF Lands
<1>2. ASSUME NEW c \in Callers, Halves(c) PROVE HolderKnowsTheWay'
    BY <1>0, <1>2 DEF Halves
<1>3. ASSUME NEW c \in Callers, Empties(c) PROVE HolderKnowsTheWay'
    BY <1>0, <1>3 DEF Empties
<1>4. ASSUME NEW c \in Callers, Fails(c) PROVE HolderKnowsTheWay'
    BY <1>0, <1>4 DEF Fails
<1>5. ASSUME NEW c \in Callers, Begin(c) PROVE HolderKnowsTheWay'
    BY <1>0, <1>5 DEF Begin
<1>6. ASSUME NEW c \in Callers, CheckContext(c) PROVE HolderKnowsTheWay'
    BY <1>0, <1>6 DEF CheckContext
<1>7. ASSUME NEW c \in Callers, Lock(c) PROVE HolderKnowsTheWay'
    BY <1>0, <1>7 DEF Lock
<1>8. ASSUME NEW c \in Callers, LockGranted(c) PROVE HolderKnowsTheWay'
    BY <1>0, <1>8 DEF LockGranted
<1>9. ASSUME NEW c \in Callers, LockRefused(c) PROVE HolderKnowsTheWay'
    BY <1>0, <1>9 DEF LockRefused
<1>10. ASSUME NEW c \in Callers, ClearFails(c) PROVE HolderKnowsTheWay'
    BY <1>0, <1>10 DEF ClearFails
<1>11. ASSUME NEW c \in Callers, DeferredUnlock(c) PROVE HolderKnowsTheWay'
    BY <1>0, <1>11 DEF DeferredUnlock
<1>12. ASSUME NEW c \in Callers, DeferredRelease(c) PROVE HolderKnowsTheWay'
    BY <1>0, <1>12 DEF DeferredRelease
<1>13. ASSUME NEW c \in Callers, Deadline(c) PROVE HolderKnowsTheWay'
    BY <1>0, <1>13 DEF Deadline
<1>14. ASSUME NEW c \in Callers, StagingSwept(c) PROVE HolderKnowsTheWay'
    BY <1>0, <1>14 DEF StagingSwept
<1>15. CASE Crash
    BY <1>0, <1>15 DEF Crash
<1>16. CASE UNCHANGED vars
    BY <1>0, <1>16
<1>. QED
    BY <1>moves, <1>1, <1>2, <1>3, <1>4, <1>5, <1>6, <1>7, <1>8, <1>9, <1>10, <1>11,
       <1>12, <1>13, <1>14, <1>15, <1>16 DEF Moves

\* Content goes only by the hand of a holder, who is then on the way to his own.
LEMMA SuccessIsHandedOnStep == ReplaceInv /\ [Next]_vars => SuccessIsHandedOn'
<1>. SUFFICES ASSUME ReplaceInv, [Next]_vars PROVE SuccessIsHandedOn'
    OBVIOUS
<1>moves. Moves
    BY EveryMove
<1>hyp. SuccessIsHandedOn
    BY DEF ReplaceInv
<1>. USE NilNames, KindsAreKnown, MaxCrashesIsNatural
     DEF ReplaceInv, TypeOK, LockTypeOK, Positions, Entry, Nothing, Steps, Locked,
         SuccessIsHandedOn, HolderKnowsTheWay, IsWhole, OutcomeIsEarned, Undecided,
         vars, Stays, CanRename, Goto, Decide, Unpublished, Elsewhere
<1>1. ASSUME NEW c \in Callers, Lands(c) PROVE SuccessIsHandedOn'
  <2>1. output' = output /\ faulted' = faulted /\ step[c] \in {"rename", "again", "place"}
    BY <1>1 DEF Lands
  <2>2. \A d \in Callers \ {c} : step'[d] = step[d] /\ outcome'[d] = outcome[d]
    BY <1>1 DEF Lands
  <2>3. IsWhole(output[c])'
    BY <1>1, <2>1 DEF Lands
  <2>. SUFFICES ASSUME NEW k \in Keys \ faulted', \E d \in Callers : output'[d] = k /\ outcome'[d] = "ok"
                PROVE  IsWhole(k)' \/ \E d \in Callers :
                         output'[d] = k /\ step'[d] \in {"clearing", "place", "killed"}
    OBVIOUS
  <2>4. CASE k = output[c]
    BY <2>3, <2>4, <1>1 DEF Lands
  <2>5. CASE k # output[c]
    <3>1. disk'[k] = disk[k]
        BY <1>1, <2>5 DEF Lands
    <3>2. \E d \in Callers : output[d] = k /\ outcome[d] = "ok"
        BY <2>1, <2>2, <2>5
    <3>. HIDE DEF ReplaceInv
    <3>3. IsWhole(k) \/ \E d \in Callers :
            output[d] = k /\ step[d] \in {"clearing", "place", "killed"}
        BY <1>hyp, <2>1, <3>2
    <3>. QED  BY <2>1, <2>2, <2>5, <3>1, <3>3
  <2>. QED  BY <2>4, <2>5
<1>2. ASSUME NEW c \in Callers, Halves(c) PROVE SuccessIsHandedOn'
    BY <1>2 DEF Halves
<1>3. ASSUME NEW c \in Callers, Empties(c) PROVE SuccessIsHandedOn'
    BY <1>3 DEF Empties
<1>4. ASSUME NEW c \in Callers, Fails(c) PROVE SuccessIsHandedOn'
    BY <1>4 DEF Fails
<1>5. ASSUME UNCHANGED <<disk, output>>, faulted \subseteq faulted',
             \A d \in Callers : outcome'[d] = "ok" => outcome[d] = "ok",
             \A d \in Callers : step[d] \in {"clearing", "place", "killed"} =>
                \/ step'[d] \in {"clearing", "place", "killed"}
                \/ output[d] \in faulted'
      PROVE  SuccessIsHandedOn'
  <2>. HIDE DEF ReplaceInv
  <2>. QED  BY <1>hyp, <1>5
<1>6. step \in [Callers -> Steps] /\ outcome \in [Callers -> {"none", "ok", "failed"}]
    OBVIOUS
<1>. HIDE DEF ReplaceInv, SuccessIsHandedOn
<1>7. ASSUME NEW c \in Callers, Begin(c) PROVE SuccessIsHandedOn'
    BY <1>5, <1>6, <1>7 DEF Begin
<1>8. ASSUME NEW c \in Callers, CheckContext(c) PROVE SuccessIsHandedOn'
    BY <1>5, <1>6, <1>8 DEF CheckContext
<1>9. ASSUME NEW c \in Callers, Lock(c) PROVE SuccessIsHandedOn'
    BY <1>5, <1>6, <1>9 DEF Lock
<1>10. ASSUME NEW c \in Callers, LockGranted(c) PROVE SuccessIsHandedOn'
    BY <1>5, <1>6, <1>10 DEF LockGranted
<1>11. ASSUME NEW c \in Callers, LockRefused(c) PROVE SuccessIsHandedOn'
    BY <1>5, <1>6, <1>11 DEF LockRefused
<1>12. ASSUME NEW c \in Callers, ClearFails(c) PROVE SuccessIsHandedOn'
    BY <1>5, <1>6, <1>12 DEF ClearFails
<1>13. ASSUME NEW c \in Callers, DeferredUnlock(c) PROVE SuccessIsHandedOn'
    BY <1>5, <1>6, <1>13 DEF DeferredUnlock
<1>14. ASSUME NEW c \in Callers, DeferredRelease(c) PROVE SuccessIsHandedOn'
    BY <1>5, <1>6, <1>14 DEF DeferredRelease
<1>15. ASSUME NEW c \in Callers, Deadline(c) PROVE SuccessIsHandedOn'
    BY <1>5, <1>6, <1>15 DEF Deadline
<1>16. ASSUME NEW c \in Callers, StagingSwept(c) PROVE SuccessIsHandedOn'
    BY <1>5, <1>6, <1>16 DEF StagingSwept
<1>17. CASE Crash
    BY <1>5, <1>6, <1>17 DEF Crash
<1>18. CASE UNCHANGED vars
    BY <1>5, <1>18
<1>. QED
    BY <1>moves, <1>1, <1>2, <1>3, <1>4, <1>7, <1>8, <1>9, <1>10, <1>11, <1>12,
       <1>13, <1>14, <1>15, <1>16, <1>17, <1>18 DEF Moves

\* The conjuncts of ReplaceInv that follow from the others.
LEMMA ConsequencesOfParts ==
    ASSUME TypeOK, LInv, LockFollowsStep, OutcomeIsEarned
    PROVE  FailureNotPublished /\ NobodyIsStranded
<1>1. FailureNotPublished
    BY DEF OutcomeIsEarned, FailureNotPublished
<1>2. ASSUME NEW c \in Callers, step[c] = "locking", owner[gate[c]] # NoCaller
      PROVE  \E d \in Callers : owner[gate[c]] = d /\ output[d] = output[c] /\ step[d] \in Locked
  <2>1. at[c] = "select" /\ key[c] = output[c]
    BY <1>2 DEF LockFollowsStep
  <2>2. gate[c] \in Gates /\ gate[c] = held[key[c]] /\ key[c] \in Keys
    BY <2>1 DEF LInv, LockTypeOK, GateInTable
  <2>3. PICK d \in Callers : owner[gate[c]] = d
    BY <1>2, <2>2 DEF LInv, LockTypeOK
  <2>4. at[d] = "holding" /\ gate[d] = gate[c]
    BY <2>2, <2>3 DEF LInv, FullWhileHeld
  <2>5. key[d] = key[c]
    BY <2>2, <2>4 DEF LInv, GateInTable, OwnGates
  <2>6. step[d] \in Locked /\ key[d] = output[d]
    BY <2>4 DEF LockFollowsStep
  <2>. QED  BY <2>1, <2>3, <2>5, <2>6
<1>. QED  BY <1>1, <1>2 DEF NobodyIsStranded

\* A step keeps the invariant, conjunct by conjunct.
LEMMA ReplaceInvStep == ReplaceInv /\ [Next]_vars => ReplaceInv'
<1>1. TypeOK /\ LInv /\ LockFollowsStep /\ OutcomeIsEarned => FailureNotPublished /\ NobodyIsStranded
    BY ConsequencesOfParts
<1>2. (TypeOK /\ LInv /\ LockFollowsStep /\ OutcomeIsEarned)' => (FailureNotPublished /\ NobodyIsStranded)'
    BY <1>1, PTL
<1>. QED
    BY <1>2, TypeOKStep, LInvStep, LockFollowsStepStep, OutcomeIsEarnedStep,
       RemainsAreBeingClearedStep, HolderKnowsTheWayStep, SuccessIsHandedOnStep
       DEF ReplaceInv

\* At first the output holds what it held before and nobody is there.
LEMMA InitEstablishesReplaceInv == Init => ReplaceInv
<1>. SUFFICES ASSUME Init PROVE ReplaceInv
    OBVIOUS
<1>1. LInv
    BY InitEstablishesLInv DEF Init
<1>2. TypeOK
    BY <1>1, MaxCrashesIsNatural DEF Init, TypeOK, LInv, Steps
<1>3. \A c \in Callers : /\ step[c] = "idle" /\ at[c] = "out" /\ outcome[c] = "none"
                         /\ staged[c] \in {"file", "directory"}
    BY KindsAreKnown DEF Init, LockInit
<1>4. \A k \in Keys : disk[k].of = NoCaller
    BY DEF Init
<1>5. LockFollowsStep /\ HolderKnowsTheWay /\ SuccessIsHandedOn
    BY <1>3 DEF LockFollowsStep, Locked, HolderKnowsTheWay, SuccessIsHandedOn
<1>6. OutcomeIsEarned
    BY <1>3, <1>4, NilNames DEF OutcomeIsEarned, Undecided
<1>7. RemainsAreBeingCleared
    BY PreviousIsKnown DEF Init, RemainsAreBeingCleared
<1>. QED
    BY <1>1, <1>2, <1>5, <1>6, <1>7, ConsequencesOfParts DEF ReplaceInv

-----------------------------------------------------------------------------
\* What holds of downloads and outputs holds in every reachable state: nothing of a
\* failed download is at an output, half a directory only under its lock, and
\* nobody waits for a path its holder has left.
THEOREM ReplaceInvariance == Spec => []ReplaceInv
BY InitEstablishesReplaceInv, ReplaceInvStep, PTL DEF Spec

\* A download that reports success leaves whole content behind, whatever
\* the others do to the path before it is quiet.
THEOREM SuccessIsNotLost == Spec => []SuccessStays
<1>1. ReplaceInv => SuccessStays
  <2>. SUFFICES ASSUME ReplaceInv, NEW k \in Keys \ faulted, Quiet(k),
                       \E c \in Callers : output[c] = k /\ outcome[c] = "ok"
                PROVE  IsWhole(k) /\ outcome[disk[k].of] = "ok"
    BY DEF SuccessStays, IsWhole
  <2>1. IsWhole(k)
    BY DEF ReplaceInv, SuccessIsHandedOn, Quiet
  <2>. QED  BY <2>1 DEF ReplaceInv, OutcomeIsEarned, IsWhole
<1>. QED  BY <1>1, ReplaceInvariance, PTL

\* Where only files are published, a file at an output is replaced by renames and
\* never missing: the holder of the lock clears what is no file.
THEOREM FilesAreNeverMissing == Spec => FilesNeverVanish
<1>. DEFINE Kept == \A k \in Keys :
        disk[k].what = "file" /\ OnlyFilesFor(k) => disk'[k].what = "file"
<1>1. ASSUME ReplaceInv, [Next]_vars PROVE Kept
  <2>. SUFFICES ASSUME NEW k \in Keys, disk[k].what = "file", OnlyFilesFor(k)
                PROVE  disk'[k].what = "file"
    OBVIOUS
  <2>1. ASSUME NEW c \in Callers, Lands(c) PROVE disk'[k].what = "file"
    BY <1>1, <2>1 DEF Lands, OnlyFilesFor, ReplaceInv, OutcomeIsEarned, Undecided
  <2>2. ASSUME NEW c \in Callers, Halves(c) PROVE disk'[k].what = "file"
    BY <2>2 DEF Halves
  <2>3. ASSUME NEW c \in Callers, Empties(c) PROVE disk'[k].what = "file"
    <3>1. CASE k = output[c]
      <4>1. step[c] \in {"clearing", "clear"}
        BY <2>3 DEF Empties
      <4>2. step[c] # "clearing"
        BY <1>1, <3>1 DEF ReplaceInv, HolderKnowsTheWay
      <4>3. outcome[c] = "none"
        BY <1>1, <4>1 DEF ReplaceInv, OutcomeIsEarned, Undecided
      <4>4. staged[c] = "file"
        BY <3>1, <4>1, <4>3 DEF OnlyFilesFor
      <4>. QED  BY <1>1, <3>1, <4>1, <4>2, <4>4 DEF ReplaceInv, HolderKnowsTheWay
    <3>2. CASE k # output[c]
      BY <2>3, <3>2 DEF Empties
    <3>. QED  BY <3>1, <3>2
  <2>4. CASE UNCHANGED disk
    BY <2>4
  <2>. QED
    BY <1>1, <2>1, <2>2, <2>3, <2>4, EveryMove
       DEF Moves, Fails, Begin, CheckContext, Lock, LockGranted, LockRefused,
           ClearFails,
           DeferredUnlock, DeferredRelease, Deadline, StagingSwept, Crash, Unpublished, vars
<1>2. ReplaceInv /\ [Next]_vars => [Kept]_vars
    BY <1>1
<1>. QED  BY <1>2, ReplaceInvariance, PTL DEF Spec, FilesNeverVanish
=============================================================================
