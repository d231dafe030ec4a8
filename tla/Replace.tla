------------------------------ MODULE Replace -------------------------------
(***************************************************************************)
(* replace (client/output.go): downloads that finished staging move their  *)
(* content onto their outputs. A rename is tried first, without the lock;  *)
(* where something is in the way the path is locked, the rename tried      *)
(* again, the way cleared and the rename tried a last time.                *)
(*                                                                         *)
(* Composes PathLocks with the entry the file system has at each output.   *)
(* A rename is one step. Clearing a directory takes two, since RemoveAll   *)
(* empties it before it goes.                                              *)
(***************************************************************************)
EXTENDS PathLocks

CONSTANTS
    Kinds,        \* what a download can stage: "file", "directory"
    Previous,     \* what can be at an output before: an entry's kind
    Faults,       \* whether the file system may refuse, and staging may vanish
    MaxCrashes    \* bound on how often the process is killed

ASSUME KindsAreKnown == Kinds \subseteq {"file", "directory"}
ASSUME PreviousIsKnown == Previous \subseteq {"nothing", "file", "directory"}
ASSUME FaultsIsBoolean == Faults \in BOOLEAN
ASSUME MaxCrashesIsNatural == MaxCrashes \in Nat

VARIABLES
    disk,      \* the entry at each output
    step,      \* where each download is in replace
    output,    \* the path each download publishes to
    staged,    \* the kind of entry a download staged, "gone" once moved or lost
    outcome,   \* what replace returned, or is about to
    crashes,   \* how often the process was killed
    faulted    \* the outputs where RemoveAll failed or staging was lost

vars == <<lockVars, disk, step, output, staged, outcome, crashes, faulted>>

\* An entry at an output: its kind and whose content it is. "remains" is a
\* directory whose removal has begun.
Entry == [what : {"nothing", "file", "directory", "remains"},
          of : Callers \cup {NoCaller}]
Nothing == [what |-> "nothing", of |-> NoCaller]

Steps == {"idle", "check", "rename", "lock", "locking", "leaving", "again",
          "clear", "clearing", "place", "unlock", "unlocking", "returned",
          "killed"}

\* In the section the lock protects.
Locked == {"again", "clear", "clearing", "place", "unlock"}

TypeOK ==
    /\ LockTypeOK
    /\ disk \in [Keys -> Entry]
    /\ step \in [Callers -> Steps]
    /\ output \in [Callers -> Keys]
    /\ staged \in [Callers -> Kinds \cup {"gone"}]
    /\ outcome \in [Callers -> {"none", "ok", "failed"}]
    /\ crashes \in 0..MaxCrashes
    /\ faulted \subseteq Keys

Init ==
    /\ LockInit
    /\ disk \in [Keys -> {e \in Entry : e.what \in Previous /\ e.of = NoCaller}]
    /\ step = [c \in Callers |-> "idle"]
    /\ output \in [Callers -> Keys]
    /\ staged \in [Callers -> Kinds]
    /\ outcome = [c \in Callers |-> "none"]
    /\ crashes = 0
    /\ faulted = {}

-----------------------------------------------------------------------------
Goto(c, s) == step' = [step EXCEPT ![c] = s]

Decide(c, result) == outcome' = [outcome EXCEPT ![c] = result]

\* os.Rename(staged, output): a directory in the way refuses whatever is staged,
\* a file in the way refuses a directory.
CanRename(c) ==
    /\ staged[c] # "gone"
    /\ \/ disk[output[c]].what = "nothing"
       \/ disk[output[c]].what = "file" /\ staged[c] = "file"

Publish(c) ==
    /\ disk' = [disk EXCEPT ![output[c]] = [what |-> staged[c], of |-> c]]
    /\ staged' = [staged EXCEPT ![c] = "gone"]

Unpublished == UNCHANGED <<disk, staged>>

Elsewhere == UNCHANGED <<output, crashes, faulted>>

-----------------------------------------------------------------------------
\* replace is called: staging is complete.
Begin(c) ==
    /\ step[c] = "idle"
    /\ Goto(c, "check")
    /\ UNCHANGED <<lockVars, outcome>> /\ Unpublished /\ Elsewhere

\* ctx.Err(): a download past its deadline is not published.
CheckContext(c) ==
    /\ step[c] = "check"
    /\ IF done[c]
         THEN Goto(c, "returned") /\ Decide(c, "failed")
         ELSE Goto(c, "rename") /\ UNCHANGED outcome
    /\ UNCHANGED lockVars /\ Unpublished /\ Elsewhere

\* Wrong variant: the path is cleared before anything is tried.
RenameClearing(c) ==
    /\ step[c] = "rename"
    /\ disk' = [disk EXCEPT ![output[c]] = Nothing]
    /\ Goto(c, "lock")
    /\ UNCHANGED <<lockVars, outcome, staged>> /\ Elsewhere

\* The rename outside the lock.
Rename(c) ==
    /\ step[c] = "rename"
    /\ IF CanRename(c)
         THEN Publish(c) /\ Decide(c, "ok") /\ Goto(c, "returned")
         ELSE Goto(c, "lock") /\ Unpublished /\ UNCHANGED outcome
    /\ UNCHANGED lockVars /\ Elsewhere

Lock(c) ==
    /\ step[c] = "lock"
    /\ Register(c, output[c])
    /\ Goto(c, "locking")
    /\ UNCHANGED outcome /\ Unpublished /\ Elsewhere

LockGranted(c) ==
    /\ step[c] = "locking"
    /\ Take(c)
    /\ Goto(c, "again")
    /\ UNCHANGED outcome /\ Unpublished /\ Elsewhere

LockRefused(c) ==
    /\ step[c] = "locking"
    /\ LockGivesUp(c)
    /\ Goto(c, "unlocking")
    /\ Decide(c, "failed")
    /\ Unpublished /\ Elsewhere

\* Another download may have made room while this one waited.
RenameAgain(c) ==
    /\ step[c] = "again"
    /\ IF CanRename(c)
         THEN Publish(c) /\ Decide(c, "ok") /\ Goto(c, "unlock")
         ELSE Goto(c, "clear") /\ Unpublished /\ UNCHANGED outcome
    /\ UNCHANGED lockVars /\ Elsewhere

\* RemoveAll begins. What is there goes, whatever made the rename fail.
Clear(c) ==
    /\ step[c] = "clear"
    /\ IF disk[output[c]].what \in {"directory", "remains"}
         THEN /\ disk' = [disk EXCEPT ![output[c]] = [what |-> "remains", of |-> @.of]]
              /\ Goto(c, "clearing")
         ELSE /\ disk' = [disk EXCEPT ![output[c]] = Nothing]
              /\ Goto(c, "place")
    /\ UNCHANGED <<lockVars, staged, outcome>> /\ Elsewhere

Cleared(c) ==
    /\ step[c] = "clearing"
    /\ disk' = [disk EXCEPT ![output[c]] = Nothing]
    /\ Goto(c, "place")
    /\ UNCHANGED <<lockVars, staged, outcome>> /\ Elsewhere

\* RemoveAll cannot finish.
ClearFails(c) ==
    /\ Faults
    /\ step[c] = "clearing"
    /\ Goto(c, "unlock")
    /\ Decide(c, "failed")
    /\ faulted' = faulted \cup {output[c]}
    /\ UNCHANGED <<lockVars, output, crashes>> /\ Unpublished

\* Wrong variant: a download past its deadline gives up once it has cleared.
PlaceChecking(c) ==
    /\ step[c] = "place"
    /\ IF CanRename(c) /\ ~done[c]
         THEN Publish(c) /\ Decide(c, "ok")
         ELSE Unpublished /\ Decide(c, "failed")
    /\ Goto(c, "unlock")
    /\ UNCHANGED lockVars /\ Elsewhere

\* The last rename; its error is returned.
Place(c) ==
    /\ step[c] = "place"
    /\ IF CanRename(c)
         THEN Publish(c) /\ Decide(c, "ok")
         ELSE Unpublished /\ Decide(c, "failed")
    /\ Goto(c, "unlock")
    /\ UNCHANGED lockVars /\ Elsewhere

\* Wrong variant: the lock is given back on success only.
DeferredUnlockOnSuccess(c) ==
    /\ step[c] = "unlock"
    /\ IF outcome[c] = "ok"
         THEN Unlock(c) /\ Goto(c, "unlocking")
         ELSE Goto(c, "returned") /\ UNCHANGED lockVars
    /\ UNCHANGED outcome /\ Unpublished /\ Elsewhere

\* The deferred unlock: its receive, then its release.
DeferredUnlock(c) ==
    /\ step[c] = "unlock"
    /\ Unlock(c)
    /\ Goto(c, "unlocking")
    /\ UNCHANGED outcome /\ Unpublished /\ Elsewhere

DeferredRelease(c) ==
    /\ step[c] = "unlocking"
    /\ Release(c)
    /\ Goto(c, "returned")
    /\ UNCHANGED outcome /\ Unpublished /\ Elsewhere

-----------------------------------------------------------------------------
\* The context of a download ends.
Deadline(c) ==
    /\ step[c] \notin {"returned", "killed"}
    /\ Expire(c)
    /\ UNCHANGED <<step, outcome>> /\ Unpublished /\ Elsewhere

\* Another process sweeps the staging directory as stale (sweepScratchPrefix).
StagingSwept(c) ==
    /\ Faults
    /\ step[c] \in {"check", "rename", "lock", "locking", "again", "clear",
                    "clearing", "place"}
    /\ staged[c] # "gone"
    /\ staged' = [staged EXCEPT ![c] = "gone"]
    /\ faulted' = faulted \cup {output[c]}
    /\ UNCHANGED <<lockVars, disk, step, output, outcome, crashes>>

\* The process is killed: what it had in hand is lost, the locks with it, and
\* the file system stays. Downloads that had not begun come after the restart.
Crash ==
    /\ crashes < MaxCrashes
    /\ crashes' = crashes + 1
    /\ step' = [c \in Callers |->
                  IF step[c] \in {"idle", "returned"} THEN step[c] ELSE "killed"]
    /\ held' = [k \in Keys |-> NoGate]
    /\ waiting' = [k \in Keys |-> 0]
    /\ owner' = [g \in Gates |-> NoCaller]
    /\ at' = [c \in Callers |-> "out"]
    /\ key' = [c \in Callers |-> NoKey]
    /\ gate' = [c \in Callers |-> NoGate]
    /\ UNCHANGED <<done, output, outcome, faulted>> /\ Unpublished

replace(c) ==
    \/ Begin(c)
    \/ CheckContext(c)
    \/ Rename(c)
    \/ Lock(c)
    \/ LockGranted(c)
    \/ LockRefused(c)
    \/ RenameAgain(c)
    \/ Clear(c)
    \/ Cleared(c)
    \/ ClearFails(c)
    \/ Place(c)
    \/ DeferredUnlock(c)
    \/ DeferredRelease(c)

Next ==
    \/ \E c \in Callers : replace(c) \/ Deadline(c) \/ StagingSwept(c)
    \/ Crash

Spec == Init /\ [][Next]_vars

-----------------------------------------------------------------------------
\* Properties.

\* Nobody is in the middle of replacing the path, or was when the process died.
Quiet(k) ==
    \A c \in Callers : output[c] = k => step[c] \in {"idle", "returned"}

\* Downloads that report success leave content behind: once a path is quiet it
\* holds the whole content of a download that reported success, even when others
\* cleared the path, lost their place to a rename outside the lock, or gave up.
SuccessStays ==
    \A k \in Keys \ faulted :
        Quiet(k) /\ (\E c \in Callers : output[c] = k /\ outcome[c] = "ok")
            => /\ disk[k].what \in {"file", "directory"}
               /\ disk[k].of \in Callers
               /\ outcome[disk[k].of] = "ok"

\* A download whose replace failed has not put anything at its output.
FailureNotPublished ==
    \A k \in Keys :
        disk[k].of \in Callers => outcome[disk[k].of] # "failed"

\* Half a directory is at an output only while the holder of its lock clears it;
\* after that only a kill or a refusing file system can leave it there.
RemainsAreBeingCleared ==
    \A k \in Keys :
        disk[k].what = "remains" =>
            \/ \E c \in Callers : step[c] = "clearing" /\ output[c] = k /\ at[c] = "holding"
            \/ \E c \in Callers : step[c] = "killed" /\ output[c] = k
            \/ k \in faulted

\* Nobody waits for a lock that is never given back: whoever waits for the path finds
\* its gate free, or taken by a download of this path that is still in the locked
\* section and so has the deferred unlock ahead of it, however it fails.
NobodyIsStranded ==
    \A c \in Callers : step[c] = "locking" =>
        \/ owner[gate[c]] = NoCaller
        \/ \E d \in Callers : /\ owner[gate[c]] = d
                               /\ output[d] = output[c]
                               /\ step[d] \in Locked

\* Where a download is in replace, it is in the lock or out of it, and the path it
\* locks is its output.
LockFollowsStep ==
    \A c \in Callers :
        /\ at[c] = "select" <=> step[c] = "locking"
        /\ at[c] = "holding" <=> step[c] \in Locked
        /\ at[c] = "leaving" <=> step[c] = "unlocking"
        /\ at[c] # "out" => key[c] = output[c]

Undecided == {"idle", "check", "rename", "lock", "locking", "again", "clear",
              "clearing", "place"}

\* Before it is decided a download has what it staged, or somebody took it; what is
\* at an output is of a download that goes there and succeeds.
OutcomeIsEarned ==
    /\ \A c \in Callers :
        /\ step[c] \in Undecided => /\ outcome[c] = "none"
                                    /\ staged[c] = "gone" => output[c] \in faulted
        /\ step[c] \in {"unlock", "unlocking", "returned"} => outcome[c] # "none"
        /\ outcome[c] = "ok" => staged[c] = "gone"
    /\ \A k \in Keys :
        disk[k].of \in Callers => /\ outcome[disk[k].of] = "ok"
                                  /\ output[disk[k].of] = k

\* The whole content of a download is at the output.
IsWhole(k) == disk[k].what \in {"file", "directory"} /\ disk[k].of \in Callers

\* What the holder of the lock finds at its output: the directory in the way of its
\* file, the half it has left of one, nothing, or what a rename outside the lock has
\* put there since.
HolderKnowsTheWay ==
    \A c \in Callers :
        LET there == disk[output[c]].what IN
        /\ step[c] = "clear" /\ staged[c] = "file" => there \in {"directory", "remains"}
        /\ step[c] = "clearing" => there = "remains"
        /\ step[c] = "place" => there = "nothing" \/ IsWhole(output[c])

\* Once a download has succeeded, only the holder of the lock takes its content
\* away, on the way to putting its own there.
SuccessIsHandedOn ==
    \A k \in Keys \ faulted :
        (\E c \in Callers : output[c] = k /\ outcome[c] = "ok")
            => \/ IsWhole(k)
               \/ \E c \in Callers :
                    output[c] = k /\ step[c] \in {"clearing", "place", "killed"}

\* What holds in every state of a download and its output: nothing of a failed one
\* is published, what is half removed is being removed, and nobody is stranded; with
\* what carries these over every step.
ReplaceInv ==
    /\ TypeOK
    /\ FailureNotPublished
    /\ RemainsAreBeingCleared
    /\ NobodyIsStranded
    /\ LInv
    /\ LockFollowsStep
    /\ OutcomeIsEarned
    /\ HolderKnowsTheWay
    /\ SuccessIsHandedOn

\* Those replacing the path have files to put there.
OnlyFilesFor(k) ==
    \A c \in Callers :
        output[c] = k /\ step[c] \notin {"idle", "returned", "killed"}
            => staged[c] = "file" \/ outcome[c] # "none"

\* "Rename replaces an existing file atomically, so a reader never finds the path
\* empty": where only files are published a file, once there, is replaced and
\* never missing, whatever downloads, deadlines and kills interleave.
FilesNeverVanish ==
    [][\A k \in Keys :
        disk[k].what = "file" /\ OnlyFilesFor(k) => disk'[k].what = "file"]_vars

-----------------------------------------------------------------------------
\* What comments and tests say and the code does not keep.

\* "Only a directory has to be cleared first": a file is replaced by a rename and
\* never removed.
OnlyDirectoriesAreCleared ==
    [][\A k \in Keys : disk[k].what = "file" => disk'[k].what # "nothing"]_vars

\* Downloads to one path are serialised and all succeed: one that nobody
\* cancelled, on a file system that refuses nothing, is published.
UncancelledSucceeds ==
    \A c \in Callers : outcome[c] = "failed" => done[c]
=============================================================================
