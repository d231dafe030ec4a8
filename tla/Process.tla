------------------------------ MODULE Process -------------------------------
(***************************************************************************)
(* The process of an app: wrappers and clients that come and go (Wrapper)  *)
(* over the TXT answers that outlive them (Resolver). A client looks names *)
(* up while its node is up, through servers of its own if it was given any, *)
(* and closing the node cancels its lookups.                               *)
(***************************************************************************)
EXTENDS Wrapper, Resolver

ASSUME OneResolverEach ==
    /\ Resolvers = Clients
    /\ \A cfg \in Configs : cfg.dnsServers # <<>> => Len(serverAddrs(cfg.dnsServers)) = Servers

vars == <<wrapperVars, resolverVars>>

Init == WrapperInit /\ ResolverInit

\* A new client starts with its first server.
Makes(f) ==
    /\ \E c \in Calls : Made(c, f) \/ OneShot(c, f)
    /\ next' = [next EXCEPT ![f] = 0]
    /\ UNCHANGED <<answers, lookup>>

\* A node that goes takes its lookups with it.
Ends(f) ==
    /\ \/ NodeIdle(f)
       \/ f = running /\ TornDown
       \/ \E c \in Calls : using[c] = f /\ OneShotClosed(c)
    /\ lookup' = Aborted(f)
    /\ UNCHANGED <<answers, next>>

\* The rest of what the layers above the client do, none of it about names.
Serves ==
    /\ \/ \E c \in Calls :
            \/ Enter(c) \/ ClientClosed(c) \/ ClientThere(c) \/ ClientMakes(c) \/ MakeFails(c)
            \/ Registered(c) \/ Refused(c) \/ Returns(c) \/ OneShotCloses(c)
       \/ \E f \in Clients : NodeUp(f)
       \/ TakeOut \/ Retire \/ Rebuild
    /\ UNCHANGED resolverVars

\* LookupTXT of a node: only a client with DNS servers of its own has a resolver.
Looks(l) ==
    /\ \/ \E n \in TXTNames, f \in Clients :
            /\ up[f] /\ config.dnsServers # <<>>
            /\ Hit(l, n) \/ Miss(l, n, f)
       \/ Dial(l)
       \/ Keep(l)
    /\ UNCHANGED wrapperVars

Time == Elapse /\ UNCHANGED wrapperVars

Next ==
    \/ Serves
    \/ \E f \in Clients : Makes(f) \/ Ends(f)
    \/ \E l \in Lookups : Looks(l)
    \/ Time

Spec == Init /\ [][Next]_vars

-----------------------------------------------------------------------------
\* Only a client whose node is up asks.
AskersAreUp == \A l \in Lookups : lookup[l].at = "asking" => up[lookup[l].by]

\* The parts of the process hold together: a thread never waits in the monitor for a
\* teardown, bounds survive the layers, and the answers kept for all clients are
\* bounded, fresh, and asked for until a server gives one.
ProcessInv ==
    /\ WInv
    /\ ResolverTypeOK
    /\ EntryNeverWaits
    /\ BoundsAreKept
    /\ CacheIsBounded
    /\ AnswersAreFresh
    /\ FailsOnlyUnserved
    /\ LivesMatchAges
    /\ AsksInTurn
    /\ AskersAreUp

=============================================================================
