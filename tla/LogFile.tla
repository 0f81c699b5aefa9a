------------------------------ MODULE LogFile ------------------------------
(***************************************************************************)
(* The diagnostic log (platform/diagnostic_log.rs, core/log.rs): a file    *)
(* that any thread of the window appends to, and its rotation. Nothing     *)
(* keeps two threads apart, an append is three calls of the file system    *)
(* and more when it rotates, each may fail, and the process may end        *)
(* between any two.                                                        *)
(*                                                                         *)
(* A record is its writer and number; its wording is left out. A thread    *)
(* that has opened a file goes on writing to it under whatever name it     *)
(* has been given since.                                                   *)
(***************************************************************************)
EXTENDS Integers, Sequences, FiniteSets

CONSTANTS
    Writers,        \* threads that record events
    MaxFile,        \* records a file may hold before it is rotated
    KeptRotations,  \* rotated files kept beside the current one
    MaxRecords      \* bound on the records of a behaviour

LogAssumption ==
    /\ IsFiniteSet(Writers)
    /\ MaxFile \in Nat \ {0} /\ KeptRotations \in Nat \ {0} /\ MaxRecords \in Nat

NoFile == 0
Files == 1 .. MaxRecords          \* an append creates one file at most
Records == 1 .. MaxRecords        \* by the time they were begun
LineEnd == 0

VARIABLES
    names,     \* the file under each name: 0 is the current, n its nth rotation
    contents,  \* what each file holds, records and line ends
    created,   \* number of files created
    begun,     \* number of records begun
    writer,    \* what each thread is at
    removed,   \* history: files no name leads to any more
    stopped    \* history: a rotation was begun and not ended

vars == <<names, contents, created, begun, writer, removed, stopped>>

Idle == [at |-> "idle", record |-> 0, file |-> NoFile, index |-> 0]

WriterStates ==
    [at: {"idle", "checking", "dropping", "shifting", "moving", "opening", "writing", "ending"},
     record: 0 .. MaxRecords, file: 0 .. MaxRecords, index: 0 .. KeptRotations]

Step(w, at) == writer' = [writer EXCEPT ![w].at = at]

Written(file) == {n \in Records : \E i \in DOMAIN contents[file] : contents[file][i] = n}

\* A line holds one record; the longer ones are measured by what they hold.
Size(file) == Cardinality(Written(file))

-----------------------------------------------------------------------------
Init ==
    /\ names = [n \in 0 .. KeptRotations |-> NoFile]
    /\ contents = [f \in Files |-> <<>>]
    /\ created = 0 /\ begun = 0 /\ removed = {} /\ stopped = FALSE
    /\ writer = [w \in Writers |-> Idle]

RecordEvent(w) ==
    /\ writer[w].at = "idle" /\ begun < MaxRecords
    /\ begun' = begun + 1
    /\ writer' = [writer EXCEPT ![w] = [Idle EXCEPT !.at = "checking", !.record = begun + 1]]
    /\ UNCHANGED <<names, contents, created, removed, stopped>>

\* The size is read before anything else is done, and not again.
ShouldRotate(file) == file # NoFile /\ Size(file) + 1 > MaxFile

Check(w) ==
    /\ writer[w].at = "checking"
    /\ Step(w, IF ShouldRotate(names[0]) THEN "dropping" ELSE "opening")
    /\ UNCHANGED <<names, contents, created, begun, removed, stopped>>

\* The file under a name goes to another, over the one that is there.
Rename(from, to) ==
    /\ names' = [names EXCEPT ![to] = names[from], ![from] = NoFile]
    /\ removed' = removed \cup ({names[to]} \ {NoFile})

\* A step of the rotation that fails ends it, and the record is appended all
\* the same.
RotationFails(w) ==
    /\ writer[w].at \in {"dropping", "shifting", "moving"}
    /\ Step(w, "opening")
    /\ stopped' = TRUE
    /\ UNCHANGED <<names, contents, created, begun, removed>>

DropOldest(w) ==
    /\ writer[w].at = "dropping"
    /\ writer' = [writer EXCEPT ![w].at = IF KeptRotations > 1 THEN "shifting" ELSE "moving",
                                ![w].index = KeptRotations - 1]
    /\ names' = [names EXCEPT ![KeptRotations] = NoFile]
    /\ removed' = removed \cup ({names[KeptRotations]} \ {NoFile})
    /\ UNCHANGED <<contents, created, begun, stopped>>

\* The highest first.
Shift(w) ==
    /\ writer[w].at = "shifting"
    /\ LET n == writer[w].index
       IN  IF names[n] = NoFile THEN UNCHANGED <<names, removed>> ELSE Rename(n, n + 1)
    /\ writer' = [writer EXCEPT ![w].at = IF writer[w].index > 1 THEN "shifting" ELSE "moving",
                                ![w].index = @ - 1]
    /\ UNCHANGED <<contents, created, begun, stopped>>

MoveCurrent(w) ==
    /\ writer[w].at = "moving"
    /\ IF names[0] = NoFile THEN UNCHANGED <<names, removed>> ELSE Rename(0, 1)
    /\ Step(w, "opening")
    /\ UNCHANGED <<contents, created, begun, stopped>>

\* The file under the current name, or a new one.
Open(w) ==
    /\ writer[w].at = "opening"
    /\ IF names[0] = NoFile
       THEN /\ created' = created + 1
            /\ names' = [names EXCEPT ![0] = created + 1]
            /\ writer' = [writer EXCEPT ![w].at = "writing", ![w].file = created + 1]
       ELSE /\ writer' = [writer EXCEPT ![w].at = "writing", ![w].file = names[0]]
            /\ UNCHANGED <<created, names>>
    /\ UNCHANGED <<contents, begun, removed, stopped>>

Put(w, item) ==
    contents' = [contents EXCEPT ![writer[w].file] = Append(@, item)]

WriteLine(w) ==
    /\ writer[w].at = "writing"
    /\ Put(w, writer[w].record)
    /\ Step(w, "ending")
    /\ UNCHANGED <<names, created, begun, removed, stopped>>

EndLine(w) ==
    /\ writer[w].at = "ending"
    /\ Put(w, LineEnd)
    /\ writer' = [writer EXCEPT ![w] = Idle]
    /\ UNCHANGED <<names, created, begun, removed, stopped>>

\* A file that cannot be opened or written to ends the record: nobody is told.
RecordFails(w) ==
    /\ writer[w].at \in {"opening", "writing", "ending"}
    /\ writer' = [writer EXCEPT ![w] = Idle]
    /\ UNCHANGED <<names, contents, created, begun, removed, stopped>>

\* The process ends with every thread of it.
Ends ==
    /\ writer' = [w \in Writers |-> Idle]
    /\ stopped' = (stopped \/ \E w \in Writers : writer[w].at \in {"dropping", "shifting", "moving"})
    /\ UNCHANGED <<names, contents, created, begun, removed>>

Writes(w) == RecordEvent(w) \/ Check(w) \/ Open(w) \/ WriteLine(w) \/ EndLine(w) \/ RecordFails(w)
Rotates(w) == DropOldest(w) \/ Shift(w) \/ MoveCurrent(w) \/ RotationFails(w)

Next == (\E w \in Writers : Writes(w) \/ Rotates(w)) \/ Ends

Spec == Init /\ [][Next]_vars

-----------------------------------------------------------------------------
Named == {names[n] : n \in DOMAIN names} \ {NoFile}

\* Every name leads to a file that was created, and no file has two.
TypeOK ==
    /\ names \in [0 .. KeptRotations -> 0 .. MaxRecords]
    /\ contents \in [Files -> Seq(0 .. MaxRecords)]
    /\ created \in 0 .. MaxRecords /\ begun \in 0 .. MaxRecords
    /\ writer \in [Writers -> WriterStates]
    /\ removed \subseteq 1 .. created /\ stopped \in BOOLEAN
    /\ Named = (1 .. created) \ removed
    /\ \A m, n \in DOMAIN names : m # n /\ names[m] = names[n] => names[m] = NoFile

\* A higher number is an older file, whatever rotations overtook or overwrote
\* each other. (diagnostic_log.rs rotate)
RotationsAreOlder ==
    \A m, n \in DOMAIN names :
        m < n /\ names[m] # NoFile /\ names[n] # NoFile => names[m] > names[n]

\* While no rotation stopped halfway, a file holds no more than its bound and
\* one record for each other thread, which had read the size before.
\* (diagnostic_log.rs should_rotate, append)
SizeIsBounded ==
    ~stopped => \A f \in Files : Size(f) <= MaxFile + Cardinality(Writers) - 1

\* "Number of rotated files kept beside the current one", "drop the oldest":
\* with no rotation under way and none stopped halfway, the log is its latest
\* files, the current one and those kept. (diagnostic_log.rs rotate)
KeepsTheLatest ==
    (\A w \in Writers : writer[w] = Idle) /\ ~stopped =>
        Named = {f \in 1 .. created :
                    f > created - KeptRotations - (IF names[0] = NoFile THEN 0 ELSE 1)}

\* "one record stays one line" (log.rs sanitize), "records_are_appended_one_
\* line_each" (diagnostic_log.rs).
OneRecordPerLine ==
    \A f \in Files : \A i \in 1 .. Len(contents[f]) - 1 :
        contents[f][i] = LineEnd \/ contents[f][i + 1] = LineEnd
=============================================================================
