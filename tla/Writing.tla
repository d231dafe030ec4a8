------------------------------ MODULE Writing -------------------------------
(***************************************************************************)
(* What a download writes into its staging directory: the walk over a DAG  *)
(* (materialise, client/node.go) and the unpacking of a gateway's archive  *)
(* (extractTar, client/fallback.go), both against the caller's size limit, *)
(* which holds against the bytes that arrive (writeLimited).               *)
(*                                                                         *)
(* Whoever wrote the DAG or serves the archive decides what comes next, so *)
(* each entry is chosen as it arrives. A DAG is walked in order: an entry  *)
(* of it lies in a directory the walk is in. Integers have the width of    *)
(* int64, here 2 * (MaxInt + 1) values.                                    *)
(***************************************************************************)
EXTENDS Integers, SequencesExt

CONSTANTS
    Names,        \* path elements, among them "..", which no entry may be named
    Sizes,        \* how long a file can be
    Declared,     \* sizes a DAG can claim to have
    Limits,       \* limits a caller can pass
    MaxInt,       \* the largest int64, and more bytes than a device holds
    MaxEntries,   \* bound on the entries of a DAG or an archive
    MaxDepth      \* bound on the path elements of a name

ASSUME MaxIntIsPositive == MaxInt \in Nat \ {0}
ASSUME SizesFit == Sizes \subseteq 0..MaxInt
ASSUME LimitsFit == Limits \subseteq -MaxInt..MaxInt
ASSUME BoundsAreNatural == MaxEntries \in Nat /\ MaxDepth \in Nat

VARIABLES
    source,    \* "dag" or "tar"
    limit,     \* sizeLimit
    content,   \* the entries that have arrived
    staged,    \* what is in the staging directory
    written,   \* bytes of content written
    root,      \* the top level element, "" while there is none
    result     \* how far the download is, or how it ended

writingVars == <<source, limit, content, staged, written, root, result>>

Kinds == {"file", "directory", "link"}

\* A DAG has its root under the empty name; a link stands for whatever is neither
\* a file nor a directory.
Entries ==
    {e \in [kind : Kinds, name : BoundedSeq(Names, MaxDepth), size : Sizes \cup {0}] :
        e.kind # "file" => e.size = 0}

Node(path, what, size) == [path |-> path, what |-> what, size |-> size]

Nodes ==
    {n \in [path : Seq(Names \cup {"data"}), what : {"file", "directory"}, size : 0..MaxInt] :
        n.what = "directory" => n.size = 0}

WritingTypeOK ==
    /\ source \in {"dag", "tar"}
    /\ limit \in Limits
    /\ content \in Seq(Entries) /\ Len(content) <= MaxEntries
    /\ staged \subseteq Nodes
    /\ written \in 0..MaxInt
    /\ root \in Names \cup {"", "data"}
    /\ result \in {"sizing", "running", "ok", "failed", "tooBig", "overclaimed"}

WritingInit ==
    /\ source \in {"dag", "tar"}
    /\ limit \in Limits
    /\ content = <<>>
    /\ staged = {}
    /\ written = 0
    /\ root = IF source = "dag" THEN "data" ELSE ""
    /\ result = IF source = "dag" THEN "sizing" ELSE "running"

-----------------------------------------------------------------------------
\* int64 arithmetic wraps around.
Wrapped(n) == ((n + MaxInt + 1) % (2 * (MaxInt + 1))) - (MaxInt + 1)

\* Wrong variant: every file gets the whole limit.
limitOfEach == IF limit > 0 THEN limit ELSE -1

\* What is left of the limit; a negative value is no limit to writeLimited.
remaining == IF limit > 0 THEN limit - written ELSE -1

\* Wrong variant: the reader stops at the limit and not one byte past it.
permittedExactly(size) ==
    IF remaining < 0 \/ size <= remaining THEN size ELSE remaining

\* How much of a file writeLimited reads: one byte past the limit is enough to
\* know it was exceeded. A LimitReader whose limit is not positive yields nothing.
permitted(size) ==
    LET allowance == Wrapped(remaining + 1)
    IN  IF remaining < 0 \/ size < allowance THEN size
        ELSE IF allowance <= 0 THEN 0 ELSE allowance

\* filepath.Clean of a rooted name, element by element: ".." never climbs above the
\* root.
Climb(path, n) ==
    IF n # ".." THEN Append(path, n) ELSE IF path = <<>> THEN path ELSE Front(path)

Clean(name) ==
    LET cleaned[i \in 0..Len(name)] ==
            IF i = 0 THEN <<>> ELSE Climb(cleaned[i - 1], name[i])
    IN  cleaned[Len(name)]

\* Where an entry goes in the staging directory.
Place(e) == IF source = "dag" THEN <<"data">> \o e.name ELSE Clean(e.name)

validEntryName(name) == name # ".."

\* The top level element of a place.
Top(e) == IF Place(e) = <<>> THEN "" ELSE Head(Place(e))

At(path) == {n \in staged : n.path = path}

Parents(path) == {SubSeq(path, 1, i) : i \in 1..(Len(path) - 1)}

FileAbove(path) == \E p \in Parents(path), n \in staged : n.path = p /\ n.what = "file"

\* The directories the walk over the DAG is in.
Open ==
    LET last == Last(content)
    IN  IF content = <<>> THEN {}
        ELSE Prefixes(IF last.kind = "directory" THEN last.name ELSE Front(last.name))

\* What a DAG can hold next: its root, then entries of the directories it is in.
Follows(e) ==
    source = "dag" => IF content = <<>> THEN e.name = <<>>
                      ELSE /\ content[1].kind = "directory"
                           /\ e.name # <<>> /\ Front(e.name) \in Open

\* Entries of a DAG that materialise refuses: Mkdir and O_EXCL both fail on a name
\* that is taken.
RefusedOfDag(e) ==
    \/ e.kind = "link"
    \/ e.name # <<>> /\ ~validEntryName(Last(e.name))
    \/ At(Place(e)) # {}

\* Entries of an archive that extractTar refuses: no top level name, a second
\* root, a kind it does not unpack, a file where a directory has to be or where
\* there is an entry already.
RefusedOfTar(e) ==
    \/ Top(e) = ""
    \/ root \notin {"", Top(e)}
    \/ e.kind = "link"
    \/ FileAbove(Place(e))
    \/ e.kind = "file" /\ At(Place(e)) # {}
    \/ \E n \in At(Place(e)) : n.what = "file"

Refused(e) == IF source = "dag" THEN RefusedOfDag(e) ELSE RefusedOfTar(e)

\* Mkdir and MkdirAll: a directory and those above it.
WithDirectories(paths) == staged \cup {Node(p, "directory", 0) : p \in paths}

-----------------------------------------------------------------------------
\* The size the DAG claims, looked at before anything is written. A hint only.
Size ==
    /\ result = "sizing"
    /\ \/ result' = "failed"
       \/ \E claim \in Declared :
            result' = IF limit > 0 /\ claim > limit THEN "overclaimed" ELSE "running"
    /\ UNCHANGED <<source, limit, content, staged, written, root>>

Arrives(e) ==
    /\ result = "running"
    /\ Len(content) < MaxEntries /\ written + e.size <= MaxInt
    /\ Follows(e)
    /\ content' = Append(content, e)
    /\ UNCHANGED <<source, limit>>

Refuse(e) ==
    /\ Arrives(e)
    /\ Refused(e)
    /\ result' = "failed"
    /\ UNCHANGED <<staged, written, root>>

Directory(e) ==
    /\ Arrives(e)
    /\ ~Refused(e)
    /\ e.kind = "directory"
    /\ staged' = WithDirectories(Parents(Place(e)) \cup {Place(e)})
    /\ root' = Top(e)
    /\ UNCHANGED <<written, result>>

\* writeLimited, and what its caller makes of the outcome. Reading may fail with
\* any part of the file written.
File(e) ==
    /\ Arrives(e)
    /\ ~Refused(e)
    /\ e.kind = "file"
    /\ \E count \in 0..permitted(e.size) :
        /\ staged' = WithDirectories(Parents(Place(e))) \cup {Node(Place(e), "file", count)}
        /\ written' = written + count
        /\ \/ result' = "failed"
           \/ /\ count = permitted(e.size)
              /\ result' = IF remaining >= 0 /\ count > remaining THEN "tooBig" ELSE result
    /\ root' = Top(e)

\* The walk or the archive is at its end; an archive must have held something.
End ==
    /\ result = "running"
    /\ source = "dag" => content # <<>>
    /\ result' = IF root = "" THEN "failed" ELSE "ok"
    /\ UNCHANGED <<source, limit, content, staged, written, root>>

\* The next entry cannot be had.
Break ==
    /\ result = "running"
    /\ result' = "failed"
    /\ UNCHANGED <<source, limit, content, staged, written, root>>

WritingNext ==
    \/ Size
    \/ \E e \in Entries : Refuse(e) \/ Directory(e) \/ File(e)
    \/ End
    \/ Break

WritingSpec == WritingInit /\ [][WritingNext]_writingVars

-----------------------------------------------------------------------------
\* The bytes of what is staged, each told apart by its place.
Bytes(S) == UNION {{n} \X (1..n.size) : n \in S}

\* What all that arrived comes to: every file at its full length, and the
\* directories it lies in.
Whole ==
    {Node(Place(e), e.kind, e.size) : e \in Range(content)}
      \cup {Node(p, "directory", 0) : p \in UNION {Parents(Place(e)) : e \in Range(content)}}

\* A download reported as a success has staged all that arrived and nothing else: a
\* limit never shows as a truncated or an empty file, it fails the download
\* (materialise, extractTar, writeLimited).
SuccessIsWhole ==
    result = "ok" => staged = Whole /\ (limit > 0 => Cardinality(Bytes(Whole)) <= limit)

\* One tree under one root and inside the directory, whatever the names.
StagedIsATree ==
    /\ \A n \in staged : n.path # <<>> /\ Head(n.path) = root /\ ".." \notin Range(n.path)
    /\ \A n \in staged : \A p \in Parents(n.path) : At(p) = {Node(p, "directory", 0)}
    /\ \A n, m \in staged : n.path = m.path => n = m
    /\ IF source = "dag" THEN root = "data" ELSE root = "" => staged = {}

\* The bytes counted are those of all files together, at most one past the limit.
BytesAreCounted ==
    /\ IsFiniteSet(Bytes(staged)) /\ written = Cardinality(Bytes(staged))
    /\ limit > 0 => written <= limit + 1
    /\ limit > 0 /\ result \in {"sizing", "running", "ok"} => written <= limit

\* The walk over a DAG is in directories that are staged.
WalkIsInside ==
    /\ result = "sizing" \/ content = <<>> => content = <<>> /\ staged = {}
    /\ /\ source = "dag" /\ result = "running"
       /\ content # <<>> /\ content[1].kind = "directory"
       => \A p \in Open : Node(<<"data">> \o p, "directory", 0) \in staged

\* As long as nothing was refused, what arrived is staged. Under the largest limit
\* there is, nothing is ever written: the allowance of a file overflows.
NothingIsLeftOut ==
    IF limit = MaxInt THEN written = 0
    ELSE result \in {"running", "ok"} => staged = Whole

\* What lies in the staging directory is one tree; its bytes are the bytes counted;
\* and content is called too large, which keeps Get from trying any other source,
\* only when it is.
WritingInv ==
    /\ WritingTypeOK
    /\ StagedIsATree
    /\ BytesAreCounted
    /\ WalkIsInside
    /\ NothingIsLeftOut
    /\ result = "tooBig" => limit > 0 /\ Cardinality(Bytes(Whole)) > limit

=============================================================================
