----------------------------- MODULE DatabaseDump -----------------------------
(***************************************************************************)
(* One call of runPgDump() (src/lib/backup/pg-dump.ts) on a database that  *)
(* the application goes on writing to. The dump reads the manifest's rows, *)
(* then one table after the other, then the sequences, each in a statement *)
(* of its own and outside any transaction. The call races it against a     *)
(* timeout that does not stop it, checks the file and removes it when      *)
(* anything went wrong; the dump may still be writing it.                  *)
(*                                                                         *)
(* Two tables stand for all: Parent, and Child whose foreign key refers to *)
(* it. Tables are dumped in the order of their names, which for a pair     *)
(* like this may be either (asset_files before assets, asset_media before  *)
(* media_variants). A statement sees the rows as they are when it starts,  *)
(* so a table is read in one step however many batches its cursor takes.   *)
(***************************************************************************)
EXTENDS CopyFormat

CONSTANTS
    Parent, Child,  \* the tables
    Sentinel,       \* those in SENTINEL_TABLE_CANDIDATES
    Values,         \* what the other columns of a row may hold
    MaxId,          \* bound: the values a sequence gives out
    MaxWrites       \* bound: the application's transactions

Table == {Parent, Child}
Id == 1..MaxId

ASSUME ConstantsAssumption ==
    /\ Parent # Child /\ Null \notin Table /\ Sentinel \subseteq Table
    /\ MaxId \in Nat \ {0} /\ MaxWrites \in Nat

VARIABLES
    db,             \* db[t][i]: the row with that id, or Null
    seq,            \* seq[t]: the sequence behind the ids of t
    order,          \* the tables in the order of their names
    call,           \* where runPgDump() is
    pc,             \* where dumpAndCompress() is
    at,             \* how many tables, or sequences, it has read
    manifest,       \* the first row of each sentinel as the manifest has it
    dumped,         \* the lines of each table in the file
    setval,         \* the setval() statements in the file
    file,           \* the temporary file: does its name exist, is it written
    writes,         \* what is left of MaxWrites
    between,        \* history: tables written between manifest and rows
    moved,          \* history: parents inserted or deleted since the start
    quiet,          \* history: nothing was written since the start
    early           \* history: the timeout came before the file was made

dbVars == <<db, seq, order>>
dumpVars == <<pc, at, manifest, dumped, setval>>
historyVars == <<between, moved, quiet, early>>
vars == <<dbVars, call, dumpVars, file, writes, historyVars>>

-----------------------------------------------------------------------------
Row == [ref: Id \cup {Null}, value: Values]
SequenceState == [last: Id, called: BOOLEAN]
Dumped == [id: Id, ref: Id \cup {Null}, line: {Line(v) : v \in Values}]

ASSUME NullAssumption ==
    /\ Null \notin Row /\ Null \notin SequenceState /\ Null \notin [id: Id, row: Row]
    /\ \A lines \in SUBSET Dumped : Null # lines

TypeOK ==
    /\ db \in [Table -> [Id -> Row \cup {Null}]]
    /\ seq \in [Table -> SequenceState]
    /\ order \in {<<Parent, Child>>, <<Child, Parent>>}
    /\ call \in {"idle", "waiting", "check", "returned", "threw"}
    /\ pc \in {"idle", "manifest", "open", "tables", "sequences", "done", "failed"}
    /\ at \in 0..2
    /\ manifest \in [Table -> [id: Id, row: Row] \cup {Null}]
    /\ dumped \in [Table -> (SUBSET Dumped) \cup {Null}]
    /\ setval \in [Table -> SequenceState \cup {Null}]
    /\ file \in [exists: BOOLEAN, written: {"no", "part", "all"}]
    /\ writes \in 0..MaxWrites
    /\ between \subseteq Table /\ moved \subseteq Id
    /\ quiet \in BOOLEAN /\ early \in BOOLEAN

-----------------------------------------------------------------------------
Present(t) == {i \in Id : db[t][i] # Null}

(* Mutant: ORDER BY ... DESC. *)
MutLast(ids) == CHOOSE i \in ids : \A k \in ids : i >= k

(* ORDER BY primary key LIMIT 1 *)
First(ids) == CHOOSE i \in ids : \A k \in ids : i <= k

(* getFirstRowJson(): null for an empty table, which then is no sentinel.  *)
(* The checksum made of the row is the row.                                *)
FirstRow(t) ==
    IF Present(t) = {} THEN Null
    ELSE LET i == First(Present(t)) IN [id |-> i, row |-> db[t][i]]

DumpedRow(t, i) == [id |-> i, ref |-> db[t][i].ref, line |-> Line(db[t][i].value)]

(* Mutant: only the first batch of the cursor is written. *)
MutFirstBatch(t) == IF Present(t) = {} THEN {} ELSE {DumpedRow(t, First(Present(t)))}

(* The rows of SELECT * FROM t, as lines. *)
TableLines(t) == {DumpedRow(t, i) : i \in Present(t)}

(* The loop over the tables, or sequences, is in its last turn. *)
LastTurn == at = Len(order) - 1

(* Mutant: is_called is not kept. *)
MutNeverCalled(s) == [s EXCEPT !.called = FALSE]

(* formatSequenceSetvalStatement() *)
SequenceSetval(s) == s

(* What nextval() returns. *)
NextValue(s) == IF s.called THEN s.last + 1 ELSE s.last

Init ==
    /\ order \in {<<Parent, Child>>, <<Child, Parent>>}
    /\ \E v \in Values, filled \in {{Parent}, Table} :
           /\ db = [t \in Table |-> [i \in Id |->
                    IF i > 1 \/ t \notin filled THEN Null
                    ELSE [ref |-> IF t = Child THEN 1 ELSE Null, value |-> v]]]
           /\ seq = [t \in Table |-> [last |-> 1, called |-> t \in filled]]
    /\ call = "idle" /\ pc = "idle" /\ at = 0
    /\ manifest = [t \in Table |-> Null] /\ dumped = [t \in Table |-> Null]
    /\ setval = [t \in Table |-> Null]
    /\ file = [exists |-> FALSE, written |-> "no"]
    /\ writes = MaxWrites
    /\ between = {} /\ moved = {} /\ quiet = TRUE /\ early = FALSE

-----------------------------------------------------------------------------
(* The application. Its foreign keys hold at the end of each transaction.  *)

(* The manifest's statement for t is over. *)
ManifestRead(t) ==
    pc \in {"open", "tables"} \/ (pc = "manifest" /\ at = 1 /\ order[1] = t)

Writes(tables) ==
    /\ writes > 0 /\ writes' = writes - 1
    /\ quiet' = (quiet /\ pc = "idle")
    /\ between' = between \cup
                    {t \in tables : ManifestRead(t) /\ dumped[t] = Null}
    /\ UNCHANGED <<order, call, dumpVars, file, early>>

Insert(t, ref, value) ==
    LET i == NextValue(seq[t])
    IN  /\ i \in Id
        /\ IF t = Parent THEN ref = Null ELSE ref \in Present(Parent)
        /\ db' = [db EXCEPT ![t][i] = [ref |-> ref, value |-> value]]
        /\ seq' = [seq EXCEPT ![t] = [last |-> i, called |-> TRUE]]
        /\ moved' = IF t = Parent /\ pc # "idle" THEN moved \cup {i} ELSE moved
        /\ Writes({t})

Update(t, i, value) ==
    /\ i \in Present(t)
    /\ db[t][i].value # value
    /\ db' = [db EXCEPT ![t][i].value = value]
    /\ UNCHANGED <<seq, moved>>
    /\ Writes({t})

(* ON DELETE CASCADE: the children go with their parent. *)
Delete(i) ==
    /\ i \in Present(Parent)
    /\ db' = [db EXCEPT ![Parent][i] = Null,
                        ![Child] = [k \in Id |->
                            IF k \in Present(Child) /\ db[Child][k].ref = i THEN Null
                            ELSE db[Child][k]]]
    /\ moved' = IF pc # "idle" THEN moved \cup {i} ELSE moved
    /\ UNCHANGED seq
    /\ Writes(Table)

-----------------------------------------------------------------------------
(* dumpAndCompress(). *)

DumpStep == /\ pc \notin {"idle", "done", "failed"}
            /\ UNCHANGED <<dbVars, call, writes, historyVars>>

(* buildBackupManifest(): a statement for each sentinel in turn. *)
ReadFirstRow(t) ==
    /\ pc = "manifest" /\ DumpStep
    /\ at < 2 /\ order[at + 1] = t
    /\ manifest' = [manifest EXCEPT ![t] = IF t \in Sentinel THEN FirstRow(t) ELSE Null]
    /\ IF LastTurn THEN pc' = "open" /\ at' = 0 ELSE at' = at + 1 /\ pc' = pc
    /\ UNCHANGED <<dumped, setval, file>>

(* createWriteStream() makes the file, unless it has a name already. *)
OpenFile ==
    /\ pc = "open" /\ DumpStep
    /\ file' = [exists |-> TRUE, written |-> "part"]
    /\ pc' = "tables"
    /\ UNCHANGED <<at, manifest, dumped, setval>>

(* generateDumpChunks(): one table. *)
DumpTable(t) ==
    /\ pc = "tables" /\ DumpStep
    /\ order[at + 1] = t
    /\ dumped' = [dumped EXCEPT ![t] = TableLines(t)]
    /\ IF LastTurn THEN pc' = "sequences" /\ at' = 0 ELSE at' = at + 1 /\ pc' = pc
    /\ UNCHANGED <<manifest, setval, file>>

(* generateDumpChunks(): one sequence; after the last one the file is      *)
(* closed and the connection ended.                                        *)
DumpSequence(t) ==
    /\ pc = "sequences" /\ DumpStep
    /\ order[at + 1] = t
    /\ setval' = [setval EXCEPT ![t] = SequenceSetval(seq[t])]
    /\ IF LastTurn
       THEN pc' = "done" /\ at' = 0 /\ file' = [file EXCEPT !.written = "all"]
       ELSE pc' = pc /\ at' = at + 1 /\ file' = file
    /\ UNCHANGED <<manifest, dumped>>

(* A statement or a write throws; what is written so far stays. *)
DumpFails ==
    /\ DumpStep
    /\ pc' = "failed"
    /\ UNCHANGED <<at, manifest, dumped, setval, file>>

-----------------------------------------------------------------------------
(* runPgDump(). *)

Begin ==
    /\ call = "idle"
    /\ call' = "waiting" /\ pc' = "manifest"
    /\ UNCHANGED <<dbVars, at, manifest, dumped, setval, file, writes, historyVars>>

(* Mutant: the error is thrown without the cleanup. *)
MutNoCleanup == file' = file

(* cleanupFile(): the name goes; a dump that has the file open goes on. *)
cleanupFile == file' = [file EXCEPT !.exists = FALSE]

(* The catch block. *)
Throws == call' = "threw" /\ cleanupFile

(* Mutant: there is no timeout. *)
MutNeverDue == FALSE

(* The timer of withTimeout() may fire as long as it is not cleared. *)
TimerDue == call = "waiting"

Timeout ==
    /\ TimerDue
    /\ Throws
    /\ early' = ~file.exists
    /\ UNCHANGED <<dbVars, dumpVars, writes, between, moved, quiet>>

DumpReturns ==
    /\ call = "waiting" /\ pc = "done"
    /\ call' = "check"
    /\ UNCHANGED <<dbVars, dumpVars, file, writes, historyVars>>

DumpThrows ==
    /\ call = "waiting" /\ pc = "failed"
    /\ Throws
    /\ UNCHANGED <<dbVars, dumpVars, writes, historyVars>>

(* verifyGzipIntegrity(), whose own timeout may strike; a stream that is   *)
(* cut off does not pass.                                                  *)
CheckFile ==
    /\ call = "check"
    /\ \/ file.exists /\ file.written = "all" /\ call' = "returned" /\ UNCHANGED file
       \/ Throws
    /\ UNCHANGED <<dbVars, dumpVars, writes, historyVars>>

-----------------------------------------------------------------------------
Application ==
    \/ \E t \in Table, value \in Values :
           \/ \E ref \in Id \cup {Null} : Insert(t, ref, value)
           \/ \E i \in Id : Update(t, i, value)
    \/ \E i \in Id : Delete(i)

Dump == \/ OpenFile \/ DumpFails
        \/ \E t \in Table : ReadFirstRow(t) \/ DumpTable(t) \/ DumpSequence(t)

Next == \/ Application \/ Dump
        \/ Begin \/ Timeout \/ DumpReturns \/ DumpThrows \/ CheckFile

(* Only the two timers are owed: the database may hang for ever. *)
Spec == Init /\ [][Next]_vars
FairSpec == Spec /\ WF_vars(Timeout) /\ WF_vars(CheckFile)

-----------------------------------------------------------------------------
Returned == call = "returned"

(* The rows of t after a restore; Malformed where the COPY would stop. *)
Restored(t) ==
    {[id |-> d.id, ref |-> d.ref, value |-> ReadLine(d.line)] : d \in dumped[t]}

Live(t) ==
    {[id |-> i, ref |-> db[t][i].ref, value |-> db[t][i].value] : i \in Present(t)}

Ids(lines) == {d.id : d \in lines}

(* After a restore of a returned dump the next id a sequence gives out is  *)
(* not in use, however many rows were inserted while it was made.          *)
SequencesCoverRows ==
    Returned => \A t \in Table : \A d \in dumped[t] : NextValue(setval[t]) > d.id

(* The manifest at the head of the file has the first row of a sentinel as *)
(* the file has it, unless that table was written between the two reads.   *)
Matches(t) ==
    IF Ids(dumped[t]) = {} THEN manifest[t] = Null
    ELSE /\ manifest[t] # Null
         /\ \E d \in dumped[t] :
                /\ d.id = manifest[t].id /\ \A i \in Ids(dumped[t]) : d.id <= i
                /\ d.line = Line(manifest[t].row.value)

ManifestMatches == Returned => \A t \in Sentinel \ between : Matches(t)

(* A broken foreign key in the dump, which sends the verification to its   *)
(* fallback, is the doing of a parent that came or went while it was made. *)
DanglingOnlyIfMoved ==
    Returned => \A d \in dumped[Child] : d.ref \in Ids(dumped[Parent]) \cup moved

(* A dump during which nobody writes restores to the database: every text, *)
(* with whatever tabs, newlines and backslashes, and every plain array.    *)
QuietDumpRestores ==
    Returned /\ quiet => \A t \in Table :
        /\ Ids(dumped[t]) = Present(t)
        /\ \A r \in Live(t) : PlainArray(r.value.tags) => r \in Restored(t)

(* COPY reads back what is written for a value, and so does the array      *)
(* input of PostgreSQL if none of the texts in it holds a special one.     *)
RoundTrips == \A v \in Values : PlainArray(v.tags) => ReadLine(Line(v)) = v

(* A path is returned only for a file that is there and complete, although *)
(* a call that timed out removes it and a dump may go on without its call. *)
ReturnedFileWhole ==
    Returned => file = [exists |-> TRUE, written |-> "all"] /\ \A t \in Table :
        dumped[t] # Null /\ setval[t] # Null

(* A call that threw leaves no file behind once its dump has ended, unless *)
(* it timed out before the dump made the file: nobody removes that one.    *)
LeftoverOnlyIfEarly ==
    call = "threw" /\ pc \in {"done", "failed"} => ~file.exists \/ early

-----------------------------------------------------------------------------
(* How far a dump is: what it has read, and that it is not over before.    *)
ProgressInv ==
    /\ pc = "idle" <=> call = "idle"
    /\ call \in {"check", "returned"} => pc = "done"
    /\ pc \in {"manifest", "tables", "sequences"} => at < 2
    /\ pc = "open" => at = 0
    /\ pc \in {"idle", "manifest", "open"} => at < 2 /\ \A t \in Table : dumped[t] = Null
    /\ pc = "idle" => at = 0
    /\ pc = "tables" => \A k \in 1..2 : dumped[order[k]] # Null <=> k <= at
    /\ pc \in {"sequences", "done"} => \A t \in Table : dumped[t] # Null
    /\ pc = "sequences" => \A k \in 1..2 : k <= at => setval[order[k]] # Null
    /\ pc = "done" => \A t \in Table : setval[t] # Null

(* The file, while the call still counts on it and after it gave up.       *)
FileInv ==
    /\ call \in {"idle", "waiting"} /\ pc \in {"idle", "manifest", "open"} => ~file.exists
    /\ call = "waiting" /\ pc \in {"tables", "sequences"} =>
          file = [exists |-> TRUE, written |-> "part"]
    /\ call \in {"waiting", "check"} /\ pc = "done" =>
          file = [exists |-> TRUE, written |-> "all"]
    /\ call = "threw" => ~file.exists \/ early
    /\ call = "threw" /\ pc \in {"manifest", "open"} => early

(* The sequences are read last: they are past every row that was read.     *)
SequencesInv ==
    \A t \in Table :
        /\ \A i \in Present(t) : NextValue(seq[t]) > i
        /\ dumped[t] # Null => \A d \in dumped[t] : NextValue(seq[t]) > d.id
        /\ setval[t] # Null =>
              dumped[t] # Null /\ \A d \in dumped[t] : NextValue(setval[t]) > d.id

(* What the manifest says of a table nobody wrote since.                   *)
ManifestInv ==
    \A t \in Sentinel \ between :
        /\ ManifestRead(t) /\ dumped[t] = Null => manifest[t] = FirstRow(t)
        /\ dumped[t] # Null => Matches(t)

(* The parents that the children read, or still to be read, refer to.      *)
ReferencesInv ==
    /\ \A i \in Present(Child) : db[Child][i].ref \in Present(Parent)
    /\ dumped[Parent] # Null /\ dumped[Child] = Null =>
          Present(Parent) \subseteq Ids(dumped[Parent]) \cup moved
    /\ dumped[Child] # Null => \A d \in dumped[Child] :
          d.ref \in moved \cup IF dumped[Parent] = Null THEN Present(Parent)
                             ELSE Ids(dumped[Parent])

(* As long as nobody writes, the file has the tables as they are.          *)
QuietInv ==
    quiet => \A t \in Table : dumped[t] # Null => dumped[t] = TableLines(t)

(* The types, what the dump has read of a database that goes on changing,  *)
(* and what becomes of the file.                                           *)
DumpInv ==
    /\ TypeOK /\ ProgressInv /\ FileInv
    /\ SequencesInv /\ ManifestInv /\ ReferencesInv /\ QuietInv
    /\ ReturnedFileWhole /\ LeftoverOnlyIfEarly

(* The call ends even if the database never answers. *)
CallEnds == call = "waiting" ~> call \in {"returned", "threw"}

-----------------------------------------------------------------------------
(* "formats Postgres array literals for COPY text mode"                    *)
(* (tests/backup/pg-dump.test.ts): so do all the other arrays.             *)
ArraysRestore ==
    Returned /\ quiet => \A t \in Table : Live(t) = Restored(t)
=============================================================================
