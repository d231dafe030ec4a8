----------------------------- MODULE SharedNode -----------------------------
(***************************************************************************)
(* What the Client promises about its node, whatever goroutines, timers    *)
(* and start attempts lie behind it: a node is shared by the downloads     *)
(* that registered with it, it is put in place only while one of them is   *)
(* registered, it is taken away for being idle only when none is, and once *)
(* the client is retired there is no node any more.                        *)
(*                                                                         *)
(* Lifecycle.tla describes the code and implements this specification.     *)
(***************************************************************************)

CONSTANTS
    Calls,   \* downloads
    Nodes,   \* identities a running node can have
    NoNode   \* the client holds no node

VARIABLES
    shared,   \* the node downloads share
    users,    \* the downloads registered with the client
    retired   \* the client was closed

vars == <<shared, users, retired>>

TypeOK ==
    /\ shared \in Nodes \cup {NoNode}
    /\ users \subseteq Calls
    /\ retired \in BOOLEAN

Init ==
    /\ shared = NoNode
    /\ users = {}
    /\ retired = FALSE

\* A download registers; a retired client takes no more of them.
Join(c) ==
    /\ ~retired
    /\ c \notin users
    /\ users' = users \cup {c}
    /\ UNCHANGED <<shared, retired>>

\* A node is put in place on behalf of a registered download.
Install(n) ==
    /\ ~retired
    /\ shared = NoNode
    /\ users # {}
    /\ shared' = n
    /\ UNCHANGED <<users, retired>>

Leave(c) ==
    /\ c \in users
    /\ users' = users \ {c}
    /\ UNCHANGED <<shared, retired>>

\* Taken away for being idle: nobody may be using it.
Shutdown ==
    /\ shared # NoNode
    /\ users = {}
    /\ shared' = NoNode
    /\ UNCHANGED <<users, retired>>

Retire ==
    /\ ~retired
    /\ retired' = TRUE
    /\ shared' = NoNode
    /\ UNCHANGED users

Next ==
    \/ \E c \in Calls : Join(c) \/ Leave(c)
    \/ \E n \in Nodes : Install(n)
    \/ Shutdown
    \/ Retire

Spec == Init /\ [][Next]_vars
=============================================================================
