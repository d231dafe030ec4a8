------------------------------ MODULE Wrapper -------------------------------
(***************************************************************************)
(* The layers an app calls: the Kotlin class Ipfs, whose monitor guards the *)
(* client it makes on first use, and the FFI beneath it, which converts the *)
(* configuration, builds a Client (New) or one for a single download (Get). *)
(* The Client itself is what SharedNode.tla promises of it: downloads that  *)
(* register, a node that is up or not, and its retirement.                  *)
(*                                                                         *)
(* One Ipfs is in use at a time; the app may build the next once it is     *)
(* closed. Durations are in units of which Milli make a millisecond, and   *)
(* int64 holds up to MaxInt.                                               *)
(***************************************************************************)
EXTENDS Integers, SequencesExt

CONSTANTS
    Calls,      \* threads of the app that download
    Clients,    \* identities of FFI clients
    None,       \* no client, no thread
    Configs,    \* configurations an app can have
    Milli,      \* units of time in a millisecond
    MaxInt,     \* the largest int64
    Infinite,   \* Kotlin's unbounded Duration
    Default     \* a default of Config

ASSUME MillisecondsFit == Milli \in Nat \ {0, 1} /\ MaxInt \in Nat /\ MaxInt > Milli
ASSUME NoneIsNone == None \notin Calls \cup Clients
\* A thread has one client at most, so one is left for whoever needs another.
ASSUME ClientsSuffice ==
    /\ IsFiniteSet(Calls) /\ IsFiniteSet(Clients)
    /\ Cardinality(Calls) <= Cardinality(Clients)

VARIABLES
    config,     \* how the app configures the library
    monitor,    \* the thread in Ipfs' monitor
    client,     \* Ipfs.client
    closed,     \* Ipfs.closed
    running,    \* the client close() is tearing down
    at,         \* per call, where it is
    using,      \* per call, the FFI client it uses
    users,      \* per FFI client, the downloads registered with it
    up,         \* per FFI client, whether its node is up
    retired     \* per FFI client, whether it was closed, or is not there

ipfsVars == <<monitor, client, closed, running>>
innerVars == <<users, up, retired>>
wrapperVars == <<config, ipfsVars, at, using, innerVars>>

WrapperTypeOK ==
    /\ config \in Configs
    /\ monitor \in Calls \cup {None}
    /\ client \in Clients \cup {None}
    /\ closed \in BOOLEAN
    /\ running \in Clients \cup {None}
    /\ at \in [Calls -> {"idle", "entering", "making", "calling", "downloading", "oneShot", "leaving"}]
    /\ using \in [Calls -> Clients \cup {None}]
    /\ users \in [Clients -> SUBSET Calls]
    /\ up \in [Clients -> BOOLEAN]
    /\ retired \in [Clients -> BOOLEAN]

WrapperInit ==
    /\ config \in Configs
    /\ monitor = None
    /\ client = None
    /\ closed = FALSE
    /\ running = None
    /\ at = [c \in Calls |-> "idle"]
    /\ using = [c \in Calls |-> None]
    /\ users = [f \in Clients |-> {}]
    /\ up = [f \in Clients |-> FALSE]
    /\ retired = [f \in Clients |-> TRUE]

-----------------------------------------------------------------------------
\* Duration.inWholeMilliseconds; an unbounded duration is the largest Long.
inWholeMilliseconds(duration) == IF duration = Infinite THEN MaxInt ELSE duration \div Milli

maxMilliseconds == MaxInt \div Milli

Unset == -1   \* NO_TIMEOUT in Kotlin, a context without a deadline in Go

\* The deadline of a download.
withTimeout(timeout) ==
    IF timeout <= 0 \/ timeout > maxMilliseconds THEN Unset ELSE timeout * Milli

milliseconds(value) ==
    IF value <= 0 THEN 0
    ELSE IF value > maxMilliseconds THEN MaxInt ELSE value * Milli

orDefault(configured) == IF configured <= 0 THEN Default ELSE configured

\* A gateway URL the exchange can use: it has a host, and the scheme is one that
\* a multiaddr has a name for - which is looked at here only for want of a port.
gatewayMultiaddr(g) ==
    /\ g.host
    /\ ~g.port => g.scheme \in {"https", "http"}
    /\ g.scheme \in {"https", "http", "ws"}

\* Invalid entries are skipped.
parseGateways(gateways) == SelectSeq(gateways, gatewayMultiaddr)

\* Entries that name one peer are merged.
parsePeers(peers) == {p.id : p \in {q \in Range(peers) : q.valid}}

\* identitySeed refuses what is not hex, checkIdentitySeed any other length.
identitySeed(seed) == seed # "not hex"
checkIdentitySeed(seed) == seed \in {"", "32 bytes"}

\* The servers newResolver spreads queries over.
serverAddrs(servers) == SelectSeq(servers, LAMBDA server : server # "not an address")

newResolver(servers) == servers = <<>> \/ serverAddrs(servers) # <<>>

\* What NewClient and New accept: an invalid entry of a list is skipped, anything
\* else invalid refused, and something must be left to fetch from.
Accepted(cfg) ==
    /\ identitySeed(cfg.seed) /\ checkIdentitySeed(cfg.seed)
    /\ newResolver(cfg.dnsServers)
    /\ cfg.delegated # "invalid"
    /\ \/ parsePeers(cfg.peers) # {}
       \/ parseGateways(cfg.gateways) # <<>>
       \/ cfg.delegated = "valid"

-----------------------------------------------------------------------------
\* An identity free for a new FFI client.
Fresh(f) ==
    /\ retired[f] /\ ~up[f]
    /\ running # f
    /\ \A c \in Calls : using[c] # f

\* The monitor can be entered.
Free == monitor = None

\* get() of the wrapper.
Enter(c) ==
    /\ at[c] = "idle"
    /\ at' = [at EXCEPT ![c] = "entering"]
    /\ UNCHANGED <<config, ipfsVars, using, innerVars>>

\* client(), in the monitor: closed, or there is a client.
ClientClosed(c) ==
    /\ at[c] = "entering"
    /\ Free
    /\ closed
    /\ at' = [at EXCEPT ![c] = "idle"]
    /\ UNCHANGED <<config, ipfsVars, using, innerVars>>

ClientThere(c) ==
    /\ at[c] = "entering"
    /\ Free
    /\ ~closed
    /\ client # None
    /\ at' = [at EXCEPT ![c] = "calling"]
    /\ using' = [using EXCEPT ![c] = client]
    /\ UNCHANGED <<config, ipfsVars, innerVars>>

\* Wrong variant: the client is made outside the monitor.
ClientMakesOutside(c) ==
    /\ at[c] = "entering"
    /\ Free
    /\ ~closed
    /\ client = None
    /\ at' = [at EXCEPT ![c] = "making"]
    /\ UNCHANGED <<config, ipfsVars, using, innerVars>>

\* client(), when there is none: the FFI call is made in the monitor.
ClientMakes(c) ==
    /\ at[c] = "entering"
    /\ Free
    /\ ~closed
    /\ client = None
    /\ at' = [at EXCEPT ![c] = "making"]
    /\ monitor' = c
    /\ UNCHANGED <<config, client, closed, running, using, innerVars>>

\* Ffi.newClient, from the first call of the wrapper.
Made(c, f) ==
    /\ at[c] = "making"
    /\ Accepted(config)
    /\ Fresh(f)
    /\ client' = f
    /\ monitor' = None
    /\ at' = [at EXCEPT ![c] = "calling"]
    /\ using' = [using EXCEPT ![c] = f]
    /\ retired' = [retired EXCEPT ![f] = FALSE]
    /\ UNCHANGED <<config, closed, running, users, up>>

MakeFails(c) ==
    /\ at[c] = "making"
    /\ ~Accepted(config)
    /\ monitor' = None
    /\ at' = [at EXCEPT ![c] = "idle"]
    /\ UNCHANGED <<config, client, closed, running, using, innerVars>>

\* Client.Get of the FFI: acquire registers the download, or refuses it.
Registered(c) ==
    /\ at[c] = "calling"
    /\ ~retired[using[c]]
    /\ at' = [at EXCEPT ![c] = "downloading"]
    /\ users' = [users EXCEPT ![using[c]] = @ \cup {c}]
    /\ UNCHANGED <<config, ipfsVars, using, up, retired>>

Refused(c) ==
    /\ at[c] = "calling"
    /\ retired[using[c]]
    /\ at' = [at EXCEPT ![c] = "idle"]
    /\ using' = [using EXCEPT ![c] = None]
    /\ UNCHANGED <<config, ipfsVars, innerVars>>

Returns(c) ==
    /\ at[c] = "downloading"
    /\ at' = [at EXCEPT ![c] = "idle"]
    /\ using' = [using EXCEPT ![c] = None]
    /\ users' = [users EXCEPT ![using[c]] = @ \ {c}]
    /\ UNCHANGED <<config, ipfsVars, up, retired>>

\* Get of the FFI: a client of its own, closed behind the download.
OneShot(c, f) ==
    /\ at[c] = "idle"
    /\ Accepted(config)
    /\ Fresh(f)
    /\ at' = [at EXCEPT ![c] = "oneShot"]
    /\ using' = [using EXCEPT ![c] = f]
    /\ users' = [users EXCEPT ![f] = {c}]
    /\ retired' = [retired EXCEPT ![f] = FALSE]
    /\ UNCHANGED <<config, ipfsVars, up>>

OneShotCloses(c) ==
    /\ at[c] = "oneShot"
    /\ at' = [at EXCEPT ![c] = "leaving"]
    /\ users' = [users EXCEPT ![using[c]] = {}]
    /\ retired' = [retired EXCEPT ![using[c]] = TRUE]
    /\ UNCHANGED <<config, ipfsVars, using, up>>

OneShotClosed(c) ==
    /\ at[c] = "leaving"
    /\ at' = [at EXCEPT ![c] = "idle"]
    /\ using' = [using EXCEPT ![c] = None]
    /\ up' = [up EXCEPT ![using[c]] = FALSE]
    /\ UNCHANGED <<config, ipfsVars, users, retired>>

\* The node of a client comes up for a download, and may be closed when idle.
NodeUp(f) ==
    /\ ~retired[f] /\ ~up[f] /\ users[f] # {}
    /\ up' = [up EXCEPT ![f] = TRUE]
    /\ UNCHANGED <<config, ipfsVars, at, using, users, retired>>

NodeIdle(f) ==
    /\ ~retired[f] /\ up[f] /\ users[f] = {}
    /\ up' = [up EXCEPT ![f] = FALSE]
    /\ UNCHANGED <<config, ipfsVars, at, using, users, retired>>

\* close(): the client is taken out in the monitor and torn down outside it.
TakeOut ==
    /\ Free
    /\ ~closed
    /\ closed' = TRUE
    /\ running' = client
    /\ client' = None
    /\ UNCHANGED <<config, monitor, at, using, innerVars>>

Retire ==
    /\ running # None
    /\ ~retired[running]
    /\ retired' = [retired EXCEPT ![running] = TRUE]
    /\ UNCHANGED <<config, ipfsVars, at, using, users, up>>

TornDown ==
    /\ running # None
    /\ retired[running]
    /\ up' = [up EXCEPT ![running] = FALSE]
    /\ running' = None
    /\ UNCHANGED <<config, monitor, client, closed, at, using, users, retired>>

\* A closed Ipfs is let go and the app makes another.
Rebuild ==
    /\ closed /\ running = None
    /\ \A c \in Calls : at[c] # "entering"
    /\ closed' = FALSE
    /\ UNCHANGED <<config, monitor, client, running, at, using, innerVars>>

-----------------------------------------------------------------------------
\* Every FFI client that was made and not closed yet is one somebody will close:
\* the one the wrapper holds, the one a close() is tearing down, or the one of a
\* single download. The same of every node that is up, so none outlives the close()
\* that should have ended it, and a closed wrapper holds none (Ipfs.client, close).
NoClientLeaks ==
    /\ \A f \in Clients : ~retired[f] \/ up[f] =>
          \/ f \in {client, running}
          \/ \E c \in Calls : using[c] = f /\ at[c] \in {"oneShot", "leaving"}
    /\ closed => client = None

\* A thread that enters the monitor waits for nothing but the making of a client,
\* which takes no I/O, and never for the teardown of one that is closed: close() tears
\* down outside the monitor, and a client that is refused leaves it (Ipfs.client).
EntryNeverWaits ==
    ~Free => \E c \in Calls : at[c] = "making" /\ (Accepted(config) => \E f \in Clients : Fresh(f))

\* A thread that makes a client is alone in the monitor, and there is none; nothing
\* else keeps a thread in it.
MakesAlone ==
    /\ \A c \in Calls : at[c] = "making" => monitor = c /\ client = None /\ ~closed
    /\ monitor # None => at[monitor] = "making"

\* A download has a client from its making or finding to its return, and the client
\* of a single download is closed when it leaves.
UsingClients ==
    \A c \in Calls :
        /\ at[c] \in {"calling", "downloading", "oneShot", "leaving"} => using[c] \in Clients
        /\ at[c] \in {"idle", "entering", "making"} => using[c] = None
        /\ at[c] = "leaving" => retired[using[c]]

\* A client is torn down only behind a closed wrapper.
RunningIsClosed == running # None => closed

\* The inductive invariant behind NoClientLeaks.
WInv == WrapperTypeOK /\ NoClientLeaks /\ MakesAlone /\ UsingClients /\ RunningIsClosed

\* The conversions between the layers keep a caller's bound: a timeout of at least a
\* millisecond becomes a deadline that is not later, and by less than a millisecond
\* earlier, none becomes none, and one beyond what a Duration holds becomes none
\* instead of one that has passed; a configured bound is kept alike, or its default.
BoundsAreKept ==
    \A asked \in 0..(Milli * MaxInt) \cup {Infinite} :
        LET millis   == inWholeMilliseconds(asked)
            deadline == withTimeout(millis)
            step     == orDefault(milliseconds(millis))
        IN  /\ millis = 0 => deadline = Unset /\ step = Default
            /\ millis > maxMilliseconds => deadline = Unset /\ step = MaxInt
            /\ millis \in 1..maxMilliseconds => /\ deadline \in (asked - Milli + 1)..asked
                                                /\ step = deadline
            /\ millis >= 0

=============================================================================
