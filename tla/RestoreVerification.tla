------------------------ MODULE RestoreVerification ------------------------
(***************************************************************************)
(* verifyBackupFromR2() (src/lib/backup/backup-verify.ts): an uploaded     *)
(* backup is restored into the verify database and compared with its own   *)
(* manifest. Every process that makes a backup verifies it in the same     *)
(* database: the daily service, and the rollout smoke run beside it.       *)
(*                                                                         *)
(* One action is the code between two awaits. A checksum is the row it was *)
(* computed from; sequences, column types and error texts are left out.    *)
(***************************************************************************)
EXTENDS Naturals, Sequences, FiniteSets

CONSTANTS
    Verifier,     \* the processes that verify
    Tables,       \* the public tables in the order psql fills them
    Parent,       \* the table a table's foreign key points to, or Null
    Artifact,     \* the backups that may lie in R2
    Null,
    MaxRuns,      \* verifications begun
    MaxCrashes    \* processes lost during one

Table == {Tables[i] : i \in 1..Len(Tables)}

(* What an artifact holds: the rows of each table, the first row of each   *)
(* sentinel as the manifest has it, whether its schema fingerprint is that *)
(* of the prepared database. A row is its primary key, the row of the      *)
(* parent it points to, and its content.                                   *)
Row == [id: Nat, ref: Nat \cup {Null}, content: Nat]
IsBackup(a) ==
    /\ DOMAIN a = {"rows", "manifest", "fits"}
    /\ a.rows \in [Table -> SUBSET Row]
    /\ \A t \in Table : \A q, r \in a.rows[t] : q.id = r.id => q = r
    /\ DOMAIN a.manifest \subseteq Table
    /\ \A t \in DOMAIN a.manifest : a.manifest[t] \in Row
    /\ a.fits \in BOOLEAN

ASSUME ConstantsAssumption ==
    /\ Tables \in Seq(STRING) /\ Len(Tables) > 0
    /\ \A i, j \in 1..Len(Tables) : Tables[i] = Tables[j] => i = j
    /\ Parent \in [Table -> Table \cup {Null}]
    /\ Null \notin Nat /\ Null \notin Table
    /\ \A a \in Artifact : IsBackup(a) /\ a # Null
    /\ MaxRuns \in Nat /\ MaxCrashes \in Nat

VARIABLES
    db,        \* the rows of the verify database
    pc,        \* where each process is suspended
    local,     \* the locals of its verification
    result,    \* what its last verification answered
    runs, crashes,
    fault,     \* history: a call of the verification has failed
    shared     \* history: another verification ran during it

vars == <<db, pc, local, result, runs, crashes, fault, shared>>

Label == {"down", "manifest", "tables", "reset", "zero", "restore",
          "data", "sentinels", "sequences", "cleanup", "cleanupZero"}

(* at: the table a loop has reached; replica: restoring with foreign keys  *)
(* switched off; eligible: cleanupEligible; failed: in the catch block.    *)
Local == [artifact: Artifact \cup {Null}, at: 1..Len(Tables), replica: BOOLEAN,
          eligible: BOOLEAN, failed: BOOLEAN]
NoLocal == [artifact |-> Null, at |-> 1, replica |-> FALSE, eligible |-> FALSE,
            failed |-> FALSE]

Here(v) == Tables[local[v].at]
Restored(v) == local[v].artifact.rows
Empty == [t \in Table |-> {}]

(* ORDER BY the primary key LIMIT 1. *)
First(rows) == CHOOSE r \in rows : \A q \in rows : r.id <= q.id

(* The foreign keys of the rows of t, with those of the parent beside them. *)
Dangling(rows, t) ==
    {r \in rows[t] : /\ Parent[t] # Null /\ r.ref # Null
                     /\ \A p \in rows[Parent[t]] : p.id # r.ref}
Sound(rows) == \A t \in Table : Dangling(rows, t) = {}

-----------------------------------------------------------------------------
Init ==
    /\ db = Empty
    /\ pc = [v \in Verifier |-> "down"]
    /\ local = [v \in Verifier |-> NoLocal]
    /\ result = [v \in Verifier |-> "none"]
    /\ runs = 0 /\ crashes = 0
    /\ fault = [v \in Verifier |-> FALSE]
    /\ shared = [v \in Verifier |-> FALSE]

Goto(v, label) == pc' = [pc EXCEPT ![v] = label]

(* The verification goes on at label, a loop there with its first table. *)
Continue(v, label) ==
    /\ Goto(v, label)
    /\ local' = [local EXCEPT ![v].at = 1]
    /\ UNCHANGED <<result, runs, crashes, shared>>

(* A loop over the tables: the next one, or on to label after the last. *)
NextTable(v, label) ==
    IF local[v].at < Len(Tables)
    THEN /\ local' = [local EXCEPT ![v].at = @ + 1]
         /\ UNCHANGED <<pc, result, runs, crashes, shared>>
    ELSE Continue(v, label)

(* verifyBackupFromR2() answers and closes its connection. *)
Return(v, verdict) ==
    /\ Goto(v, "down")
    /\ local' = [local EXCEPT ![v] = NoLocal]
    /\ result' = [result EXCEPT ![v] = verdict]
    /\ UNCHANGED <<runs, crashes, shared>>

(* The catch block: the cleanup once more, if the tables were ever read; a *)
(* failure in it is only added to the message.                             *)
Catch(v) ==
    IF local[v].eligible /\ ~local[v].failed
    THEN /\ Goto(v, "cleanup")
         /\ local' = [local EXCEPT ![v].at = 1, ![v].failed = TRUE]
         /\ UNCHANGED <<result, runs, crashes, shared>>
    ELSE Return(v, "failed")

(* The rows of the table's COPY. *)
Rows(v) == Restored(v)[Here(v)]

(* A primary key that is there already. *)
Conflict(v, rows) == \E r \in rows, q \in db[Here(v)] : r.id = q.id

(* What the table's COPY would leave behind. *)
Copied(v, rows) == [db EXCEPT ![Here(v)] = @ \cup rows]

(* The COPY breaks a foreign key, and they are switched on. *)
Broken(v, rows) ==
    ~local[v].replica /\ Dangling(Copied(v, rows), Here(v)) \cap rows # {}

(* What a call may leave that gives no answer. At the end of its input,    *)
(* also one that broke off, psql closes a COPY with the rows it has got.   *)
Leaves(v) ==
    {db} \cup (IF pc[v] \in {"reset", "cleanup"} THEN {Empty} ELSE {})
         \cup (IF pc[v] = "restore"
               THEN {Copied(v, rows) : rows \in {part \in SUBSET Rows(v) :
                                         ~Conflict(v, part) /\ ~Broken(v, part)}}
               ELSE {})

(* The call under way fails: the database or R2 answers with an error, or  *)
(* psql passes its timeout or does not get to the end of the stream.       *)
CallFails(v) ==
    /\ pc[v] # "down"
    /\ Catch(v)
    /\ fault' = [fault EXCEPT ![v] = TRUE]
    /\ db' \in Leaves(v)

-----------------------------------------------------------------------------
Start(v, a) ==
    /\ pc[v] = "down" /\ runs < MaxRuns
    /\ runs' = runs + 1
    /\ Goto(v, "manifest")
    /\ local' = [local EXCEPT ![v] = [NoLocal EXCEPT !.artifact = a]]
    /\ result' = [result EXCEPT ![v] = "none"]
    /\ fault' = [fault EXCEPT ![v] = FALSE]
    /\ shared' = [u \in Verifier |->
                     IF u = v THEN \E w \in Verifier \ {v} : pc[w] # "down"
                     ELSE shared[u] \/ pc[u] # "down"]
    /\ UNCHANGED <<db, crashes>>

(* readBackupManifestFromR2() *)
ReadManifest(v) ==
    /\ pc[v] = "manifest"
    /\ Continue(v, "tables")
    /\ UNCHANGED <<db, fault>>

(* getVerifyTableInfos() and assertManifestMatchesPreparedSchema(): from   *)
(* here on the catch block may empty the tables.                           *)
ReadTables(v) ==
    /\ pc[v] = "tables"
    /\ Goto(v, IF local[v].artifact.fits THEN "reset" ELSE "cleanup")
    /\ local' = [local EXCEPT ![v].eligible = TRUE,
                              ![v].failed = ~local[v].artifact.fits]
    /\ UNCHANGED <<db, result, runs, crashes, fault, shared>>

(* resetVerifyDb(): one TRUNCATE of all tables. *)
Reset(v) ==
    /\ pc[v] = "reset"
    /\ db' = Empty
    /\ Continue(v, "zero")
    /\ UNCHANGED fault

(* assertZeroRows(): one SELECT per table. *)
Zero(v) ==
    /\ pc[v] = "zero"
    /\ IF db[Here(v)] = {} THEN NextTable(v, "restore") ELSE Catch(v)
    /\ UNCHANGED <<db, fault>>

(* Mutant: only the exit code of psql counts, which is 0 for a stream that *)
(* broke off.                                                              *)
MutCopy(v) ==
    /\ pc[v] = "restore"
    /\ ~Conflict(v, Rows(v)) /\ ~Broken(v, Rows(v))
    /\ \E part \in SUBSET Rows(v) : db' = Copied(v, part)
    /\ NextTable(v, "data")
    /\ UNCHANGED fault

(* Mutant: the fallback starts on what the first attempt left. *)
MutFallback(v) ==
    /\ pc[v] = "restore" /\ ~Conflict(v, Rows(v)) /\ Broken(v, Rows(v))
    /\ Goto(v, "restore")
    /\ local' = [local EXCEPT ![v].at = 1, ![v].replica = TRUE]
    /\ UNCHANGED <<db, result, runs, crashes, fault, shared>>

(* restoreFromR2(): psql replays the artifact, each COPY on its own, and   *)
(* stops at the first error.                                               *)
Copy(v) ==
    /\ pc[v] = "restore"
    /\ ~Conflict(v, Rows(v)) /\ ~Broken(v, Rows(v))
    /\ db' = Copied(v, Rows(v))
    /\ NextTable(v, "data")
    /\ UNCHANGED fault

CopyConflict(v) ==
    /\ pc[v] = "restore" /\ Conflict(v, Rows(v))
    /\ Catch(v)
    /\ UNCHANGED <<db, fault>>

(* restoreWithFallbackIfNeeded(): after a foreign key failure everything   *)
(* once more with session_replication_role = replica.                      *)
Fallback(v) ==
    /\ pc[v] = "restore" /\ ~Conflict(v, Rows(v)) /\ Broken(v, Rows(v))
    /\ Goto(v, "reset")
    /\ local' = [local EXCEPT ![v].at = 1, ![v].replica = TRUE]
    /\ UNCHANGED <<db, result, runs, crashes, fault, shared>>

-----------------------------------------------------------------------------
(* verifyRestoredDb(): some table has rows. *)
HasData(v) ==
    /\ pc[v] = "data"
    /\ IF db[Here(v)] # {} THEN Continue(v, "sentinels")
       ELSE IF local[v].at < Len(Tables) THEN NextTable(v, "sentinels")
       ELSE Catch(v)
    /\ UNCHANGED <<db, fault>>

(* Mutant: an empty sentinel table counts as one that agrees. *)
MutSentinelAgrees(v, t) ==
    t \in DOMAIN local[v].artifact.manifest /\ db[t] # {} =>
        First(db[t]) = local[v].artifact.manifest[t]

SentinelAgrees(v, t) ==
    t \in DOMAIN local[v].artifact.manifest =>
        db[t] # {} /\ First(db[t]) = local[v].artifact.manifest[t]

(* assertSentinelChecksums(): the first row of each sentinel. *)
Sentinel(v) ==
    /\ pc[v] = "sentinels"
    /\ IF SentinelAgrees(v, Here(v)) THEN NextTable(v, "sequences") ELSE Catch(v)
    /\ UNCHANGED <<db, fault>>

(* assertSequenceSmoke(): nextval and back. *)
SequenceSmoke(v) ==
    /\ pc[v] = "sequences"
    /\ Continue(v, "cleanup")
    /\ UNCHANGED <<db, fault>>

(* cleanupVerifyDbAfterVerification(): the reset ... *)
Cleanup(v) ==
    /\ pc[v] = "cleanup"
    /\ db' = Empty
    /\ Continue(v, "cleanupZero")
    /\ UNCHANGED fault

(* ... and its check; after the last table the verification is over. *)
CleanupZero(v) ==
    /\ pc[v] = "cleanupZero"
    /\ IF db[Here(v)] # {} THEN Catch(v)
       ELSE IF local[v].at < Len(Tables) THEN NextTable(v, "cleanupZero")
       ELSE Return(v, IF local[v].failed THEN "failed" ELSE "passed")
    /\ UNCHANGED <<db, fault>>

(* The process dies, and its psql for want of input. *)
Crash(v) ==
    /\ pc[v] # "down" /\ crashes < MaxCrashes
    /\ crashes' = crashes + 1
    /\ Goto(v, "down")
    /\ local' = [local EXCEPT ![v] = NoLocal]
    /\ db' \in Leaves(v)
    /\ UNCHANGED <<result, runs, fault, shared>>

Next ==
    \E v \in Verifier :
        \/ \E a \in Artifact : Start(v, a)
        \/ ReadManifest(v) \/ ReadTables(v) \/ Reset(v) \/ Zero(v)
        \/ Copy(v) \/ CopyConflict(v) \/ Fallback(v)
        \/ HasData(v) \/ Sentinel(v) \/ SequenceSmoke(v)
        \/ Cleanup(v) \/ CleanupZero(v)
        \/ CallFails(v) \/ Crash(v)

Spec == Init /\ [][Next]_vars

-----------------------------------------------------------------------------
TypeOK ==
    /\ db \in [Table -> SUBSET Row]
    /\ pc \in [Verifier -> Label]
    /\ local \in [Verifier -> Local]
    /\ result \in [Verifier -> {"none", "passed", "failed"}]
    /\ runs \in 0..MaxRuns /\ crashes \in 0..MaxCrashes
    /\ fault \in [Verifier -> BOOLEAN] /\ shared \in [Verifier -> BOOLEAN]

(* A backup that can be restored and agrees with its manifest. *)
Good(a) == /\ a.fits
           /\ \E t \in Table : a.rows[t] # {}
           /\ \A t \in DOMAIN a.manifest :
                a.rows[t] # {} /\ First(a.rows[t]) = a.manifest[t]

(* What follows is said of a verification that had the database to itself, *)
(* but not of what the ones before it did, crashed in or left behind.      *)
Alone(v) == ~shared[v]

(* The last sentinel agrees. *)
Judges(v) == pc[v] = "sentinels" /\ pc'[v] = "sequences"
Answers(v, verdict) ==
    pc[v] # "down" /\ pc'[v] = "down" /\ result'[v] = verdict /\ result[v] = "none"

(* "Proves a backup is restorable" (backup-verify.ts:4): a pass is given   *)
(* to good backups only, whatever lay in the database before; and a good   *)
(* one is refused only when a call failed, also if it needs the fallback.  *)
(* A pass that does not report the fallback has shown that the foreign     *)
(* keys of the backup hold, and no pass leaves rows behind: "Keep the      *)
(* dedicated verify DB empty between runs" (backup-verify.ts).             *)
VerdictIsRight ==
    [][\A v \in Verifier : Alone(v) =>
         /\ Answers(v, "passed") => /\ Good(local[v].artifact)
                                    /\ local[v].replica \/ Sound(Restored(v))
                                    /\ db' = Empty
         /\ Answers(v, "failed") /\ ~fault'[v] => ~Good(local[v].artifact)]_vars

(* When the last sentinel agrees, what was read is the restored backup,    *)
(* every table of it and nothing else.                                     *)
AloneJudgesItsRestore ==
    [][\A v \in Verifier : Alone(v) /\ Judges(v) => db = Restored(v)]_vars

Tried(v) == local[v].replica \/ Sound(Restored(v))

(* A verification under way has its backup and no verdict; one that is     *)
(* alone stays so until another one begins.                                *)
RunInv ==
    \A v \in Verifier : pc[v] # "down" =>
        /\ local[v].artifact \in Artifact /\ result[v] = "none"
        /\ Alone(v) => \A w \in Verifier \ {v} : pc[w] = "down"

(* What the restore has filled: the tables before the one it has reached,  *)
(* each with all its rows, and nothing else; so it starts on empty tables, *)
(* the one of the fallback included. With foreign keys on they hold in all *)
(* that was filled.                                                        *)
Filled(v) ==
    \A i \in 1..Len(Tables) :
        IF i < local[v].at
        THEN /\ db[Tables[i]] = Restored(v)[Tables[i]]
             /\ local[v].replica \/ Dangling(Restored(v), Tables[i]) = {}
        ELSE db[Tables[i]] = {}

(* The loops of verifyRestoredDb(): what the tables before have shown.     *)
Compared(v) ==
    /\ db = Restored(v) /\ Tried(v)
    /\ IF pc[v] = "data"
       THEN \A i \in 1..local[v].at - 1 : db[Tables[i]] = {}
       ELSE \E t \in Table : db[t] # {}
    /\ pc[v] = "sentinels" => \A i \in 1..local[v].at - 1 : SentinelAgrees(v, Tables[i])
    /\ pc[v] = "sequences" => \A t \in Table : SentinelAgrees(v, t)

(* What a verification that is alone has shown so far.                     *)
SoFar(v) ==
    /\ pc[v] \in {"reset", "zero", "restore", "data", "sentinels", "sequences"} =>
          local[v].artifact.fits /\ ~local[v].failed
    /\ pc[v] \in {"zero", "cleanupZero"} => db = Empty
    /\ pc[v] = "restore" => Filled(v)
    /\ pc[v] \in {"data", "sentinels", "sequences"} => Compared(v)
    /\ pc[v] \in {"cleanup", "cleanupZero"} =>
          IF local[v].failed THEN fault[v] \/ ~Good(local[v].artifact)
          ELSE Good(local[v].artifact) /\ Tried(v)
AloneInv == \A v \in Verifier : Alone(v) => SoFar(v)

(* The types, who runs, and what a verification alone has shown so far.    *)
VerifyInv == TypeOK /\ RunInv /\ AloneInv

(* "restoring the uploaded backup into that isolated database"             *)
(* (backup-verify.ts:8), with nothing said of who else is at work.         *)
JudgesItsRestore ==
    [][\A v \in Verifier : Judges(v) => db = Restored(v)]_vars
=============================================================================
