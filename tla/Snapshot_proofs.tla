-------------------------- MODULE Snapshot_proofs --------------------------
(***************************************************************************)
(* Proofs about Snapshot for any number of nodes and peers, any address    *)
(* books and any limit: what a node reads is a whole record of another,    *)
(* and worth dialling. A record keeps its worth from the close that sets   *)
(* out to write it to the node that reads it, so the invariant follows it  *)
(* through the temporary file and the snapshot.                            *)
(***************************************************************************)
EXTENDS Snapshot, FiniteSetTheorems, TLAPS

-----------------------------------------------------------------------------
\* What is written.

\* What a node has to write is worth dialling, whoever it met.
LEMMA WorthIsWorthDialling ==
    ASSUME TypeOK, NEW n \in Nodes, NEW w \in snapshotWorth(n)
    PROVE  w \subseteq Lines /\ WorthDialling(w)
<1>. DEFINE usable == {p \in table[n] \ Configured : snapshotAddrs(p) # {}}
<1>. DEFINE kept(chosen) == {line \in Lines :
                                line[1] \in chosen /\ line[2] \in snapshotAddrs(line[1])}
<1>1. usable \subseteq Peers \ Configured /\ IsFiniteSet(usable)
  <2>1. usable \subseteq Peers \ Configured
    BY DEF TypeOK
  <2>. QED  BY <2>1, PeersAreFinite, FS_Subset
<1>2. PICK chosen \in SUBSET usable : w = kept(chosen) /\ Cardinality(chosen) <= MaxPeers
  <2>1. CASE Cardinality(usable) <= MaxPeers
    <3>1. w = kept(usable)
        BY <2>1 DEF snapshotWorth
    <3>. QED  BY <2>1, <3>1
  <2>2. CASE ~(Cardinality(usable) <= MaxPeers)
    <3>1. w \in {kept(c) : c \in {d \in SUBSET usable : Cardinality(d) = MaxPeers}}
        BY <2>2 DEF snapshotWorth
    <3>. QED  BY <3>1, BoundsAreNatural
  <2>. QED  BY <2>1, <2>2
<1>. DEFINE named == {line[1] : line \in w}
<1>3. named \subseteq chosen
    BY <1>2
<1>4. Cardinality(named) <= MaxPeers
  <2>1. IsFiniteSet(chosen)
    BY <1>1, FS_Subset
  <2>2. /\ Cardinality(named) <= Cardinality(chosen)
        /\ Cardinality(named) \in Nat /\ Cardinality(chosen) \in Nat
    BY <1>3, <2>1, FS_Subset, FS_CardinalityType
  <2>. QED  BY <1>2, <2>2, BoundsAreNatural
<1>5. w \subseteq (Peers \ Configured) \X {"dialable"}
    BY <1>1, <1>2 DEF snapshotAddrs, Lines
<1>6. w \subseteq Lines
    BY <1>2
<1>. QED  BY <1>4, <1>5, <1>6 DEF WorthDialling

\* A node that read nothing dials nothing it should not.
LEMMA NothingIsWorthDialling == WorthDialling({})
<1>1. {line[1] : line \in {}} = {}
    OBVIOUS
<1>. QED  BY <1>1, FS_EmptySet, BoundsAreNatural DEF WorthDialling

\* The records kept up with, and what is read of them.
Records ==
    /\ TypeOK
    /\ ReadersSeeWhole
    /\ PartialsAreRemoved
    /\ RecordsAreWorthReading
    /\ WritersHaveRecords
    /\ FileIsARecord

\* Seeds are records, and records are worth dialling.
LEMMA RecordsAreRead == Records => SnapshotInv
<1>. SUFFICES ASSUME Records, NEW n \in Nodes PROVE WorthDialling(seeds[n])
    BY DEF Records, SnapshotInv, SeedsAreWorthDialling
<1>. QED
    BY NothingIsWorthDialling DEF Records, ReadersSeeWhole, RecordsAreWorthReading

-----------------------------------------------------------------------------
\* The steps.

\* At first there is no snapshot and nobody reads.
LEMMA InitEstablishesRecords == Init => Records
BY BoundsAreNatural DEF Init, Records, TypeOK, ReadersSeeWhole, PartialsAreRemoved,
   RecordsAreWorthReading, WritersHaveRecords, FileIsARecord, Closing

\* A node that starts, reads, meets a peer or is down again touches no file.
LEMMA RunningKeepsRecords ==
    ASSUME Records, NEW n \in Nodes,
           Start(n) \/ ReadFile(n) \/ (\E p \in Peers : Meet(n, p)) \/ TearDown(n)
    PROVE  Records'
<1>. USE NoFileIsNone DEF Records, TypeOK, ReadersSeeWhole, PartialsAreRemoved,
         RecordsAreWorthReading, WritersHaveRecords, FileIsARecord, Closing, Goto
<1>1. CASE Start(n)
    BY <1>1 DEF Start
<1>2. CASE ReadFile(n)
    BY <1>2 DEF ReadFile
<1>3. CASE \E p \in Peers : Meet(n, p)
    BY <1>3 DEF Meet
<1>4. CASE TearDown(n)
    BY <1>4 DEF TearDown
<1>. HIDE DEF Records
<1>. QED  BY <1>1, <1>2, <1>3, <1>4

\* A node that closes sets out to write what is worth it, or nothing.
LEMMA ClosingKeepsRecords == ASSUME Records, NEW n \in Nodes, Close(n) PROVE Records'
<1>1. PICK w \in snapshotWorth(n) :
        /\ worth' = [worth EXCEPT ![n] = w]
        /\ at' = [at EXCEPT ![n] = IF w = {} THEN "tearing" ELSE "creating"]
        /\ recorded' = IF w = {} THEN recorded ELSE recorded \cup {w}
    BY DEF Close, Goto
<1>2. w \subseteq Lines /\ WorthDialling(w)
    BY WorthIsWorthDialling DEF Records
<1>3. TypeOK'
    BY <1>1, <1>2 DEF Close, Records, TypeOK, Closing
<1>4. ReadersSeeWhole'
    BY <1>1 DEF Close, Records, TypeOK, ReadersSeeWhole
<1>5. PartialsAreRemoved'
    BY <1>1 DEF Close, Records, TypeOK, PartialsAreRemoved, Closing
<1>6. RecordsAreWorthReading'
    BY <1>1, <1>2 DEF Close, Records, RecordsAreWorthReading
<1>7. WritersHaveRecords'
    BY <1>1 DEF Close, Records, TypeOK, WritersHaveRecords
<1>8. FileIsARecord'
    BY <1>1 DEF Close, Records, TypeOK, FileIsARecord
<1>. QED  BY <1>3, <1>4, <1>5, <1>6, <1>7, <1>8 DEF Records

\* The steps of a write, each of which may fail.
LEMMA WritingKeepsRecords ==
    ASSUME Records, NEW n \in Nodes, writePeerSnapshot(n)
    PROVE  Records'
<1>. USE NoFileIsNone DEF Records, TypeOK, ReadersSeeWhole, PartialsAreRemoved,
         RecordsAreWorthReading, WritersHaveRecords, FileIsARecord, Closing, Goto
<1>1. CASE CreateTemp(n)
    BY <1>1 DEF CreateTemp
<1>2. CASE Write(n)
    BY <1>2 DEF Write
<1>3. CASE Rename(n)
    BY <1>3, BoundsAreNatural DEF Rename
<1>4. CASE Remove(n)
    BY <1>4 DEF Remove
<1>. HIDE DEF Records
<1>. QED  BY <1>1, <1>2, <1>3, <1>4 DEF writePeerSnapshot

\* What happens to the process: a kill, and time.
LEMMA EventsKeepRecords == ASSUME Records, Crash \/ Tick PROVE Records'
<1>. USE BoundsAreNatural DEF Records, TypeOK, ReadersSeeWhole, PartialsAreRemoved,
         RecordsAreWorthReading, WritersHaveRecords, FileIsARecord, Closing
<1>1. CASE Crash
    BY <1>1 DEF Crash
<1>2. CASE Tick
    BY <1>2 DEF Tick
<1>. HIDE DEF Records
<1>. QED  BY <1>1, <1>2

\* A step keeps the records.
LEMMA RecordsStep == Records /\ [Next]_vars => Records'
<1>. SUFFICES ASSUME Records, [Next]_vars PROVE Records'
    OBVIOUS
<1>1. CASE UNCHANGED vars
    BY <1>1 DEF vars, Records, TypeOK, ReadersSeeWhole, PartialsAreRemoved,
       RecordsAreWorthReading, WritersHaveRecords, FileIsARecord
<1>. QED
    BY <1>1, RunningKeepsRecords, ClosingKeepsRecords, WritingKeepsRecords, EventsKeepRecords
       DEF Next

-----------------------------------------------------------------------------
\* The records are kept throughout.
LEMMA RecordsAreKept == Spec => []Records
BY InitEstablishesRecords, RecordsStep, PTL DEF Spec

\* What a node reads is what some node set out to write, whole, whatever was killed,
\* refused or written at the same time.
THEOREM ReadersSeeWholeSnapshots == Spec => []ReadersSeeWhole
<1>1. Records => ReadersSeeWhole
    BY DEF Records
<1>. QED  BY <1>1, RecordsAreKept, PTL

\* Every seed is one the node would dial anyway, there are not too many, and no
\* temporary file outlives its close.
THEOREM SnapshotInvariance == Spec => []SnapshotInv
BY RecordsAreRead, RecordsAreKept, PTL

\* A snapshot once written is only ever replaced by one with peers in it.
THEOREM SnapshotsAreReplaced == Spec => SnapshotIsKept
<1>. DEFINE Kept == file # NoFile => file' \notin {NoFile, {}}
<1>1. ASSUME Records, [Next]_vars PROVE Kept
  <2>. SUFFICES ASSUME file # NoFile PROVE file' \notin {NoFile, {}}
    OBVIOUS
  <2>1. file \in recorded
    BY <1>1 DEF Records, FileIsARecord
  <2>2. \A lines \in recorded : lines \notin {NoFile, {}}
    BY <1>1, NoFileIsNone DEF Records, TypeOK, RecordsAreWorthReading
  <2>3. file' \in {file} \cup recorded
    <3>1. ASSUME NEW n \in Nodes, Rename(n) PROVE file' \in {file} \cup recorded
        BY <1>1, <3>1 DEF Rename, Records, WritersHaveRecords
    <3>2. CASE UNCHANGED file
        BY <3>2
    <3>. QED
        BY <1>1, <3>1, <3>2 DEF Next, vars, writePeerSnapshot, Start, ReadFile, Meet, Close,
           CreateTemp, Write, Remove, TearDown, Crash, Tick
  <2>. QED  BY <2>1, <2>2, <2>3
<1>2. Records /\ [Next]_vars => [Kept]_vars
    BY <1>1
<1>. QED  BY <1>2, RecordsAreKept, PTL DEF Spec, SnapshotIsKept
=============================================================================
