------------------------------ MODULE Snapshot ------------------------------
(***************************************************************************)
(* The peer snapshot (client/snapshot.go): a node that closes writes the   *)
(* peers its DHT found usable to a file beside the snapshot and renames it *)
(* over it; a node that starts reads it if it is young enough.             *)
(*                                                                         *)
(* The nodes are those of one client, so one is up or starting at a time   *)
(* (Lifecycle.tla), but a node is taken out of the client before it is     *)
(* closed and the next may start meanwhile. A line of the file is a peer   *)
(* with one of its addresses; a file half written holds some of its lines. *)
(***************************************************************************)
EXTENDS Naturals, FiniteSets

CONSTANTS
    Nodes,        \* identities for the nodes alive at one time
    Peers,        \* peers a node may meet
    Configured,   \* config.peers
    Books,        \* the sets of addresses a peer may be known by
    MaxPeers,     \* snapshotPeers
    Lifetime,     \* snapshotLifetime in ticks
    NoFile,
    MaxCrashes    \* bound on how often the process is killed

\* An address: public or loopback, on a private network, or a name.
Addresses == {"dialable", "private", "named"}
Lines == Peers \X Addresses

ASSUME BooksAreAddresses == Books \subseteq SUBSET Addresses
ASSUME ConfiguredArePeers == Configured \subseteq Peers
ASSUME BoundsAreNatural == {MaxPeers, Lifetime, MaxCrashes} \subseteq Nat
ASSUME PeersAreFinite == IsFiniteSet(Peers)
ASSUME NoFileIsNone == \A lines \in SUBSET Lines : lines # NoFile

VARIABLES
    book,       \* the addresses known of each peer, host.Peerstore()
    at,         \* where each node is
    table,      \* the peers in the routing table of each node
    seeds,      \* what each node read when it started
    worth,      \* what each closing node has to write
    partial,    \* the temporary file of each
    file,       \* the snapshot
    age,        \* ticks since it was written, up to Lifetime + 1
    crashes,    \* how often the process was killed
    recorded    \* auxiliary: what closing nodes set out to write

vars == <<book, at, table, seeds, worth, partial, file, age, crashes, recorded>>

\* Building its routing table, from readPeerSnapshot to the last of startNode, a
\* node is "starting"; the steps of node.close follow "up".
Closing == {"creating", "writing", "renaming", "removing", "tearing"}

TypeOK ==
    /\ book \in [Peers -> Books]
    /\ at \in [Nodes -> {"down", "reading", "up"} \cup Closing]
    /\ table \in [Nodes -> SUBSET Peers]
    /\ seeds \in [Nodes -> SUBSET Lines]
    /\ worth \in [Nodes -> SUBSET Lines]
    /\ partial \in [Nodes -> {NoFile} \cup SUBSET Lines]
    /\ \A n \in Nodes : at[n] \in {"writing", "renaming"} => partial[n] # NoFile
    /\ file \in {NoFile} \cup SUBSET Lines
    /\ age \in 0..(Lifetime + 1)
    /\ crashes \in 0..MaxCrashes
    /\ recorded \subseteq SUBSET Lines

Init ==
    /\ book \in [Peers -> Books]
    /\ at = [n \in Nodes |-> "down"]
    /\ table = [n \in Nodes |-> {}]
    /\ seeds = [n \in Nodes |-> {}]
    /\ worth = [n \in Nodes |-> {}]
    /\ partial = [n \in Nodes |-> NoFile]
    /\ file = NoFile
    /\ age = 0
    /\ crashes = 0
    /\ recorded = {}

Goto(n, where) == at' = [at EXCEPT ![n] = where]

-----------------------------------------------------------------------------
\* Wrong variant: what the gater refuses is written all the same.
snapshotAddrsUngated(p) == book[p] \ {"named"}

\* snapshotAddrs: no names to look up, nothing the gater would refuse.
snapshotAddrs(p) == book[p] \cap {"dialable"}

\* snapshotWorth: peers of the table that were not configured and have an address
\* worth writing, in the table's order and up to snapshotPeers of them.
snapshotWorth(n) ==
    LET usable == {p \in table[n] \ Configured : snapshotAddrs(p) # {}}
        kept(chosen) == {line \in Lines :
                            line[1] \in chosen /\ line[2] \in snapshotAddrs(line[1])}
        full == {w \in SUBSET usable : Cardinality(w) = MaxPeers}
    IN  IF Cardinality(usable) <= MaxPeers THEN {kept(usable)}
                                           ELSE {kept(w) : w \in full}

-----------------------------------------------------------------------------
\* startNode reads the snapshot: os.Stat, then, unless it is missing or stale, the
\* file, which another node may have replaced in between.
Start(n) ==
    /\ at[n] = "down"
    /\ \A m \in Nodes : at[m] \notin {"reading", "up"}
    /\ IF file # NoFile /\ age <= Lifetime
         THEN Goto(n, "reading")
         ELSE Goto(n, "up")
    /\ UNCHANGED <<book, table, seeds, worth, partial, file, age, crashes, recorded>>

ReadFile(n) ==
    /\ at[n] = "reading"
    /\ seeds' = [seeds EXCEPT ![n] = file]
    /\ Goto(n, "up")
    /\ UNCHANGED <<book, table, worth, partial, file, age, crashes, recorded>>

\* The DHT finds a peer usable.
Meet(n, p) ==
    /\ at[n] = "up"
    /\ table' = [table EXCEPT ![n] = @ \cup {p}]
    /\ UNCHANGED <<book, at, seeds, worth, partial, file, age, crashes, recorded>>

\* Wrong variant: a node that met nobody writes what it has.
CloseAnyway(n) ==
    /\ at[n] = "up"
    /\ \E w \in snapshotWorth(n) :
        /\ worth' = [worth EXCEPT ![n] = w]
        /\ Goto(n, "creating")
        /\ recorded' = recorded \cup {w}
    /\ table' = [table EXCEPT ![n] = {}]
    /\ seeds' = [seeds EXCEPT ![n] = {}]
    /\ UNCHANGED <<book, partial, file, age, crashes>>

\* node.close: with nothing worth writing the snapshot stays as it is.
Close(n) ==
    /\ at[n] = "up"
    /\ \E w \in snapshotWorth(n) :
        /\ worth' = [worth EXCEPT ![n] = w]
        /\ Goto(n, IF w = {} THEN "tearing" ELSE "creating")
        /\ recorded' = IF w = {} THEN recorded ELSE recorded \cup {w}
    /\ table' = [table EXCEPT ![n] = {}]
    /\ seeds' = [seeds EXCEPT ![n] = {}]
    /\ UNCHANGED <<book, partial, file, age, crashes>>

\* os.CreateTemp, in the directory of the snapshot.
CreateTemp(n) ==
    /\ at[n] = "creating"
    /\ \/ partial' = [partial EXCEPT ![n] = {}] /\ Goto(n, "writing")
       \/ UNCHANGED partial /\ Goto(n, "tearing")
    /\ UNCHANGED <<book, table, seeds, worth, file, age, crashes, recorded>>

\* Wrong variant: a write that failed is renamed all the same.
WriteUnchecked(n) ==
    /\ at[n] = "writing"
    /\ \E some \in SUBSET worth[n] : partial' = [partial EXCEPT ![n] = some]
    /\ Goto(n, "renaming")
    /\ UNCHANGED <<book, table, seeds, worth, file, age, crashes, recorded>>

\* Written and closed, or not all of it.
Write(n) ==
    /\ at[n] = "writing"
    /\ \/ partial' = [partial EXCEPT ![n] = worth[n]] /\ Goto(n, "renaming")
       \/ /\ \E some \in SUBSET worth[n] : partial' = [partial EXCEPT ![n] = some]
          /\ Goto(n, "removing")
    /\ UNCHANGED <<book, table, seeds, worth, file, age, crashes, recorded>>

\* os.Rename, which may be refused.
Rename(n) ==
    /\ at[n] = "renaming"
    /\ \/ /\ file' = partial[n]
          /\ age' = 0
          /\ partial' = [partial EXCEPT ![n] = NoFile]
       \/ UNCHANGED <<file, age, partial>>
    /\ Goto(n, "removing")
    /\ UNCHANGED <<book, table, seeds, worth, crashes, recorded>>

\* The deferred os.Remove of the temporary file, if it is still there.
Remove(n) ==
    /\ at[n] = "removing"
    /\ partial' = [partial EXCEPT ![n] = NoFile]
    /\ Goto(n, "tearing")
    /\ UNCHANGED <<book, table, seeds, worth, file, age, crashes, recorded>>

\* The rest of node.close.
TearDown(n) ==
    /\ at[n] = "tearing"
    /\ worth' = [worth EXCEPT ![n] = {}]
    /\ Goto(n, "down")
    /\ UNCHANGED <<book, table, seeds, partial, file, age, crashes, recorded>>

\* The process is killed. Its temporary files stay, and nothing ever reads them.
Crash ==
    /\ crashes < MaxCrashes
    /\ crashes' = crashes + 1
    /\ at' = [n \in Nodes |-> "down"]
    /\ table' = [n \in Nodes |-> {}]
    /\ seeds' = [n \in Nodes |-> {}]
    /\ worth' = [n \in Nodes |-> {}]
    /\ partial' = [n \in Nodes |-> NoFile]
    /\ UNCHANGED <<book, file, age, recorded>>

Tick ==
    /\ file # NoFile
    /\ age <= Lifetime
    /\ age' = age + 1
    /\ UNCHANGED <<book, at, table, seeds, worth, partial, file, crashes, recorded>>

writePeerSnapshot(n) == CreateTemp(n) \/ Write(n) \/ Rename(n) \/ Remove(n)

Next ==
    \/ \E n \in Nodes :
        \/ Start(n)
        \/ ReadFile(n)
        \/ \E p \in Peers : Meet(n, p)
        \/ Close(n)
        \/ writePeerSnapshot(n)
        \/ TearDown(n)
    \/ Crash
    \/ Tick

Spec == Init /\ [][Next]_vars

-----------------------------------------------------------------------------
\* Properties.

\* "A reader sees one snapshot or the other, never half of one": what a node reads
\* is what some node set out to write, whole, whatever was killed, refused or
\* written at the same time.
ReadersSeeWhole == \A n \in Nodes : seeds[n] \in {{}} \cup recorded

\* "Reading a snapshot back cannot reintroduce a dial the node would not make": no
\* line is on a private network, has to be looked up or was configured anyway.
WorthDialling(lines) ==
    /\ lines \subseteq (Peers \ Configured) \X {"dialable"}
    /\ Cardinality({line[1] : line \in lines}) <= MaxPeers

SeedsAreWorthDialling == \A n \in Nodes : WorthDialling(seeds[n])

\* A snapshot once written is only ever replaced by one with peers in it.
SnapshotIsKept == [][file # NoFile => file' \notin {NoFile, {}}]_vars

\* No temporary file outlives the close that made it, unless the process is killed.
PartialsAreRemoved ==
    \A n \in Nodes : partial[n] # NoFile => at[n] \in Closing \ {"creating", "tearing"}

\* What closing nodes set out to write is worth reading.
RecordsAreWorthReading == \A lines \in recorded : lines # {} /\ WorthDialling(lines)

\* A node writes what it set out to write, and renames all of it.
WritersHaveRecords ==
    \A n \in Nodes :
        /\ at[n] \in {"creating", "writing", "renaming"} => worth[n] \in recorded
        /\ at[n] = "renaming" => partial[n] = worth[n]

\* The snapshot is one of the records, and a reader that found it still finds one.
FileIsARecord ==
    /\ file \in {NoFile} \cup recorded
    /\ \A n \in Nodes : at[n] = "reading" => file # NoFile

\* The files are in order at any moment: seeds are worth dialling, and temporary
\* files belong to a node that is writing one.
SnapshotInv ==
    /\ TypeOK
    /\ SeedsAreWorthDialling
    /\ PartialsAreRemoved
    /\ RecordsAreWorthReading
    /\ WritersHaveRecords
    /\ FileIsARecord

-----------------------------------------------------------------------------
\* What the comments say and the code does not keep.

\* Config.PeerSnapshotPath: "so the next node starts by dialling peers already
\* known". A node that starts finds written what the one before it had to write.
NextNodeFindsSnapshot ==
    [][\A n \in Nodes : at[n] = "down" /\ at'[n] \in {"reading", "up"} =>
        \A m \in Nodes : at[m] \in {"creating", "writing", "renaming"} => worth[m] = {}]_vars
=============================================================================
