----------------------------- MODULE PathLocks ------------------------------
(***************************************************************************)
(* pathLocks (client/output.go): one lock per output path, in a table      *)
(* whose entries are made by the first caller that wants a path and        *)
(* dropped by the last that leaves it. A lock is a channel of capacity     *)
(* one, here a gate; holding the path is having put the value in.          *)
(*                                                                         *)
(* The table is guarded by locks.mutex and each section under it is one    *)
(* step. The sends and receives on a gate happen outside the mutex and are *)
(* steps of their own.                                                     *)
(***************************************************************************)
EXTENDS Naturals, FiniteSets

CONSTANTS
    Callers,   \* downloads about to replace an output
    Keys,      \* cleaned output paths
    Gates,     \* identities for the channels in use at one time
    NoCaller, NoGate, NoKey

ASSUME CallersAreFinite == IsFiniteSet(Callers)
ASSUME NilNames ==
    /\ NoCaller \notin Callers
    /\ NoGate \notin Gates
    /\ NoKey \notin Keys

VARIABLES
    held,      \* locks.held: the gate of each path, NoGate when absent
    waiting,   \* locks.waiting: holders and waiters of each path
    owner,     \* who filled each gate, NoCaller when the channel is empty
    at,        \* where each caller is in lock or in the function it returns
    key,       \* the path a caller asked for
    gate,      \* the channel a caller took out of the table
    done       \* whose context is done

lockVars == <<held, waiting, owner, at, key, gate, done>>

\* "out": no business with the locks. "select": registered, in the select.
\* "holding": its send went through. "leaving": about to call release.
Positions == {"out", "select", "holding", "leaving"}

LockTypeOK ==
    /\ held \in [Keys -> Gates \cup {NoGate}]
    /\ waiting \in [Keys -> Nat]
    /\ owner \in [Gates -> Callers \cup {NoCaller}]
    /\ at \in [Callers -> Positions]
    /\ key \in [Callers -> Keys \cup {NoKey}]
    /\ gate \in [Callers -> Gates \cup {NoGate}]
    /\ done \in [Callers -> BOOLEAN]

LockInit ==
    /\ held = [k \in Keys |-> NoGate]
    /\ waiting = [k \in Keys |-> 0]
    /\ owner = [g \in Gates |-> NoCaller]
    /\ at = [c \in Callers |-> "out"]
    /\ key = [c \in Callers |-> NoKey]
    /\ gate = [c \in Callers |-> NoGate]
    /\ done = [c \in Callers |-> FALSE]

\* The callers registered for a path.
Registered(k) == {c \in Callers : at[c] # "out" /\ key[c] = k}

\* A channel made afresh is one nobody has.
Fresh(g) ==
    /\ \A k \in Keys : held[k] # g
    /\ \A c \in Callers : gate[c] # g

-----------------------------------------------------------------------------
\* Wrong variant: every caller makes a channel of its own.
RegisterAlwaysMakes(c, k) ==
    /\ at[c] = "out"
    /\ \E g \in Gates :
        /\ Fresh(g)
        /\ held' = [held EXCEPT ![k] = g]
        /\ gate' = [gate EXCEPT ![c] = g]
    /\ waiting' = [waiting EXCEPT ![k] = @ + 1]
    /\ at' = [at EXCEPT ![c] = "select"]
    /\ key' = [key EXCEPT ![c] = k]
    /\ UNCHANGED <<owner, done>>

\* lock, up to its Unlock: find or make the gate, and count in.
Register(c, k) ==
    /\ at[c] = "out"
    /\ \E g \in Gates :
        /\ IF held[k] = NoGate THEN Fresh(g) ELSE g = held[k]
        /\ held' = [held EXCEPT ![k] = g]
        /\ gate' = [gate EXCEPT ![c] = g]
    /\ waiting' = [waiting EXCEPT ![k] = @ + 1]
    /\ at' = [at EXCEPT ![c] = "select"]
    /\ key' = [key EXCEPT ![c] = k]
    /\ UNCHANGED <<owner, done>>

\* gate <- struct{}{}: the channel has room. Taken at random when the context is
\* done as well, so a caller past its deadline may still get the lock.
Take(c) ==
    /\ at[c] = "select"
    /\ owner[gate[c]] = NoCaller
    /\ owner' = [owner EXCEPT ![gate[c]] = c]
    /\ at' = [at EXCEPT ![c] = "holding"]
    /\ UNCHANGED <<held, waiting, key, gate, done>>

\* <-ctx.Done(): leave without the lock.
LockGivesUp(c) ==
    /\ at[c] = "select"
    /\ done[c]
    /\ at' = [at EXCEPT ![c] = "leaving"]
    /\ UNCHANGED <<held, waiting, owner, key, gate, done>>

\* Wrong variant: the value is left in the channel.
UnlockKeepsGate(c) ==
    /\ at[c] = "holding"
    /\ at' = [at EXCEPT ![c] = "leaving"]
    /\ UNCHANGED <<held, waiting, owner, key, gate, done>>

\* <-gate, the first half of the function lock returned.
Unlock(c) ==
    /\ at[c] = "holding"
    /\ owner' = [owner EXCEPT ![gate[c]] = NoCaller]
    /\ at' = [at EXCEPT ![c] = "leaving"]
    /\ UNCHANGED <<held, waiting, key, gate, done>>

\* Wrong variant: the entry goes with the first who leaves.
ReleaseDrops(c) ==
    /\ at[c] = "leaving"
    /\ waiting' = [waiting EXCEPT ![key[c]] = @ - 1]
    /\ held' = [held EXCEPT ![key[c]] = NoGate]
    /\ at' = [at EXCEPT ![c] = "out"]
    /\ key' = [key EXCEPT ![c] = NoKey]
    /\ gate' = [gate EXCEPT ![c] = NoGate]
    /\ UNCHANGED <<owner, done>>

\* release: count out, and drop the entry when nobody is left. A key absent from
\* locks.waiting reads as zero.
Release(c) ==
    /\ at[c] = "leaving"
    /\ waiting' = [waiting EXCEPT ![key[c]] = @ - 1]
    /\ held' = IF waiting[key[c]] = 1
                 THEN [held EXCEPT ![key[c]] = NoGate]
                 ELSE held
    /\ at' = [at EXCEPT ![c] = "out"]
    /\ key' = [key EXCEPT ![c] = NoKey]
    /\ gate' = [gate EXCEPT ![c] = NoGate]
    /\ UNCHANGED <<owner, done>>

\* The context of a caller ends, at any moment.
Expire(c) ==
    /\ ~done[c]
    /\ done' = [done EXCEPT ![c] = TRUE]
    /\ UNCHANGED <<held, waiting, owner, at, key, gate>>

\* The next call comes with a context of its own.
Renew(c) ==
    /\ at[c] = "out"
    /\ done[c]
    /\ done' = [done EXCEPT ![c] = FALSE]
    /\ UNCHANGED <<held, waiting, owner, at, key, gate>>

LockNext ==
    \E c \in Callers :
        \/ \E k \in Keys : Register(c, k)
        \/ Take(c)
        \/ LockGivesUp(c)
        \/ Unlock(c)
        \/ Release(c)
        \/ Expire(c)
        \/ Renew(c)

LockSpec == LockInit /\ [][LockNext]_lockVars

\* A goroutine that can run does, and what is done under the lock ends. Senders
\* blocked on a channel are served first come first served, so one that waits
\* while the gate is emptied again and again is served: strong fairness of Take.
LockFairness ==
    \A c \in Callers :
        /\ SF_lockVars(Take(c))
        /\ WF_lockVars(LockGivesUp(c))
        /\ WF_lockVars(Unlock(c))
        /\ WF_lockVars(Release(c))

LockFairSpec == LockSpec /\ LockFairness

-----------------------------------------------------------------------------
\* Properties.

\* At most one caller is between lock and unlock of a path, although the channel
\* that says so is thrown away and made again as callers come and go.
MutualExclusion ==
    \A c, d \in Callers :
        at[c] = "holding" /\ at[d] = "holding" /\ key[c] = key[d] => c = d

\* locks.waiting "counts holders and waiters, so an entry is dropped once nobody
\* is using it": the table holds the paths in use and no other.
TableIsTight ==
    \A k \in Keys :
        /\ waiting[k] = Cardinality(Registered(k))
        /\ held[k] = NoGate <=> Registered(k) = {}

\* The callers registered for a path all have the channel of its entry, since the
\* entry lives as long as somebody is counted.
GateInTable ==
    \A c \in Callers :
        /\ at[c] # "out" => /\ key[c] \in Keys
                            /\ gate[c] = held[key[c]]
                            /\ gate[c] # NoGate
        /\ at[c] = "out" => gate[c] = NoGate

\* No two paths share a channel.
OwnGates == \A k, l \in Keys : held[k] = held[l] /\ held[k] # NoGate => k = l

\* A channel is full exactly while the caller that filled it holds the path.
FullWhileHeld ==
    \A g \in Gates, c \in Callers :
        owner[g] = c <=> at[c] = "holding" /\ gate[c] = g

\* Table, channels and callers agree at any moment: the inductive invariant.
LInv ==
    /\ LockTypeOK
    /\ TableIsTight
    /\ GateInTable
    /\ OwnGates
    /\ FullWhileHeld

\* "Locks are per path, so unrelated downloads never wait on each other": when
\* nobody holds the path a caller asked for, its gate is open.
FreePathIsOpen ==
    \A c \in Callers :
        at[c] = "select" =>
            \/ owner[gate[c]] = NoCaller
            \/ \E d \in Callers : at[d] = "holding" /\ key[d] = key[c]

\* A caller in the select ends up with the lock or gives up with its context.
LockIsGranted == \A c \in Callers : (at[c] = "select") ~> (at[c] # "select")

Inside(k) == {c \in Callers : at[c] = "holding" /\ key[c] = k}

Mutex == INSTANCE PathMutex WITH inside <- [k \in Keys |-> Inside(k)]

\* Looking up, counting and dropping table entries is invisible: what remains is
\* one mutex per path.
ImplementsPathMutex == Mutex!Spec
=============================================================================
