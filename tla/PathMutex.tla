----------------------------- MODULE PathMutex ------------------------------
(***************************************************************************)
(* What the locks of client/output.go promise: one holder per path, and    *)
(* paths that have nothing to do with each other. PathLocks.tla describes  *)
(* the code, whose lock table comes and goes, and implements this.         *)
(***************************************************************************)
CONSTANTS
    Callers,   \* downloads about to replace an output
    Keys       \* cleaned output paths

VARIABLE inside   \* the callers between lock and unlock of each path

TypeOK == inside \in [Keys -> SUBSET Callers]

Init == inside = [k \in Keys |-> {}]

Lock(c, k) ==
    /\ inside[k] = {}
    /\ inside' = [inside EXCEPT ![k] = {c}]

Unlock(c, k) ==
    /\ c \in inside[k]
    /\ inside' = [inside EXCEPT ![k] = @ \ {c}]

Next == \E c \in Callers, k \in Keys : Lock(c, k) \/ Unlock(c, k)

Spec == Init /\ [][Next]_inside
=============================================================================
