---------------------- MODULE RestoreVerificationProofs ----------------------
(***************************************************************************)
(* Proofs about RestoreVerification for any number of verifiers, any       *)
(* tables and foreign keys, and any backups.                               *)
(***************************************************************************)
EXTENDS RestoreVerification, TLAPS

-----------------------------------------------------------------------------
(* The tables and what a backup has in them. *)

LEMMA TablesAre ==
    /\ Len(Tables) \in Nat /\ Len(Tables) > 0
    /\ \A i \in 1..Len(Tables) : Tables[i] \in Table
    /\ \A t \in Table : \E i \in 1..Len(Tables) : t = Tables[i]
    /\ \A i, j \in 1..Len(Tables) : Tables[i] = Tables[j] => i = j
    /\ Null \notin Nat /\ Null \notin Artifact
    /\ MaxRuns \in Nat /\ MaxCrashes \in Nat
  BY ConstantsAssumption DEF Table

LEMMA BackupRows == ASSUME NEW a \in Artifact PROVE a.rows \in [Table -> SUBSET Row]
  BY ConstantsAssumption DEF IsBackup

LEMMA LocalIs ==
    ASSUME TypeOK, NEW v \in Verifier
    PROVE  /\ local[v] \in Local
           /\ local[v].artifact \in Artifact \cup {Null}
           /\ local[v].at \in 1..Len(Tables)
           /\ local[v].replica \in BOOLEAN /\ local[v].eligible \in BOOLEAN
           /\ local[v].failed \in BOOLEAN
           /\ Here(v) \in Table
  BY TablesAre DEF TypeOK, Local, Here

LEMMA NoLocalType == NoLocal \in Local
  BY TablesAre DEF NoLocal, Local

LEMMA CopiedType ==
    ASSUME TypeOK, NEW v \in Verifier, local[v].artifact \in Artifact,
           NEW rows \in SUBSET Rows(v)
    PROVE  Copied(v, rows) \in [Table -> SUBSET Row]
<1>1. Here(v) \in Table /\ Rows(v) \subseteq Row
  BY LocalIs, BackupRows DEF Rows, Restored
<1> QED
  BY <1>1 DEF TypeOK, Copied

LEMMA LeavesType ==
    ASSUME TypeOK, NEW v \in Verifier, local[v].artifact \in Artifact
    PROVE  Leaves(v) \subseteq [Table -> SUBSET Row]
<1>1. db \in [Table -> SUBSET Row] /\ Empty \in [Table -> SUBSET Row]
  BY DEF TypeOK, Empty
<1>2. \A rows \in SUBSET Rows(v) : Copied(v, rows) \in [Table -> SUBSET Row]
  BY CopiedType
<1> QED
  BY <1>1, <1>2 DEF Leaves

-----------------------------------------------------------------------------
(* The ways a step of v moves v: its loop goes on, it gets to the catch    *)
(* block, or it answers. *)

(* What a step of v leaves to the others. *)
Mine(v) ==
    /\ \A w \in Verifier \ {v} : pc'[w] = pc[w] /\ local'[w] = local[w] /\ result'[w] = result[w]
    /\ shared' = shared

(* The locals of v after a step that stays in its verification. *)
Moved(v, label, at, eligible, failed, replica) ==
    /\ pc'[v] = label /\ label \in Label
    /\ local' \in [Verifier -> Local]
    /\ local'[v].artifact = local[v].artifact
    /\ local'[v].at = at /\ local'[v].eligible = eligible
    /\ local'[v].failed = failed /\ local'[v].replica = replica
    /\ UNCHANGED <<result, runs, crashes>>
    /\ pc' \in [Verifier -> Label]
    /\ Mine(v)

Ended(v, verdict) ==
    /\ pc'[v] = "down" /\ pc' \in [Verifier -> Label] /\ local' \in [Verifier -> Local]
    /\ result'[v] = verdict /\ result' \in [Verifier -> {"none", "passed", "failed"}]
    /\ UNCHANGED <<runs, crashes>>
    /\ Mine(v)

LEMMA SetLocal ==
    ASSUME TypeOK, NEW v \in Verifier, NEW label \in Label, Goto(v, label),
           NEW l \in Local, l.artifact = local[v].artifact,
           local' = [local EXCEPT ![v] = l],
           UNCHANGED <<result, runs, crashes, shared>>
    PROVE  Moved(v, label, l.at, l.eligible, l.failed, l.replica)
  BY DEF TypeOK, Goto, Moved, Mine

LEMMA ContinueMoves ==
    ASSUME TypeOK, NEW v \in Verifier, NEW label \in Label, Continue(v, label)
    PROVE  Moved(v, label, 1, local[v].eligible, local[v].failed, local[v].replica)
<1> DEFINE l == [local[v] EXCEPT !.at = 1]
<1>1. l \in Local /\ l.artifact = local[v].artifact /\ l.at = 1 /\ l.eligible = local[v].eligible
      /\ l.failed = local[v].failed /\ l.replica = local[v].replica
  BY LocalIs, TablesAre DEF Local
<1>2. local' = [local EXCEPT ![v] = l] /\ Goto(v, label) /\ UNCHANGED <<result, runs, crashes, shared>>
  BY DEF Continue
<1> HIDE DEF l
<1>3. Moved(v, label, l.at, l.eligible, l.failed, l.replica)
  BY <1>1, <1>2, SetLocal
<1> QED
  BY <1>1, <1>3

LEMMA NextTableMoves ==
    ASSUME TypeOK, NEW v \in Verifier, NEW label \in Label, NextTable(v, label)
    PROVE  \/ /\ local[v].at < Len(Tables)
              /\ Moved(v, pc[v], local[v].at + 1, local[v].eligible, local[v].failed, local[v].replica)
           \/ /\ local[v].at = Len(Tables)
              /\ Moved(v, label, 1, local[v].eligible, local[v].failed, local[v].replica)
<1>1. CASE local[v].at < Len(Tables)
  <2> DEFINE l == [local[v] EXCEPT !.at = @ + 1]
  <2>1. l \in Local /\ l.artifact = local[v].artifact /\ l.at = local[v].at + 1
        /\ l.eligible = local[v].eligible
        /\ l.failed = local[v].failed /\ l.replica = local[v].replica
    BY <1>1, LocalIs, TablesAre DEF Local
  <2>2. /\ local' = [local EXCEPT ![v] = l] /\ UNCHANGED <<result, runs, crashes, shared>>
        /\ pc' = pc
    BY <1>1 DEF NextTable
  <2> HIDE DEF l
  <2>3. pc[v] \in Label /\ Goto(v, pc[v])
    BY <2>2 DEF TypeOK, Goto
  <2>4. Moved(v, pc[v], l.at, l.eligible, l.failed, l.replica)
    BY <2>1, <2>2, <2>3, SetLocal
  <2> QED
    BY <1>1, <2>1, <2>4
<1>2. CASE ~(local[v].at < Len(Tables))
  BY <1>2, LocalIs, TablesAre, ContinueMoves DEF NextTable
<1> QED
  BY <1>1, <1>2

LEMMA ReturnEnds ==
    ASSUME TypeOK, NEW v \in Verifier, NEW verdict \in {"passed", "failed"}, Return(v, verdict)
    PROVE  Ended(v, verdict)
<1>1. "down" \in Label
  BY DEF Label
<1> QED
  BY <1>1, NoLocalType DEF TypeOK, Return, Goto, Ended, Mine

LEMMA CatchMoves ==
    ASSUME TypeOK, NEW v \in Verifier, Catch(v)
    PROVE  \/ /\ local[v].eligible /\ ~local[v].failed
              /\ Moved(v, "cleanup", 1, TRUE, TRUE, local[v].replica)
           \/ /\ ~local[v].eligible \/ local[v].failed
              /\ Ended(v, "failed")
<1>1. CASE local[v].eligible /\ ~local[v].failed
  <2> DEFINE l == [local[v] EXCEPT !.at = 1, !.failed = TRUE]
  <2>1. l \in Local /\ l.artifact = local[v].artifact /\ l.at = 1 /\ l.eligible = local[v].eligible
        /\ l.failed = TRUE /\ l.replica = local[v].replica
    <3>1. local[v] \in Local /\ 1 \in 1..Len(Tables)
      BY LocalIs, TablesAre
    <3> QED
      BY <3>1 DEF Local
  <2>2. local' = [local EXCEPT ![v] = l] /\ UNCHANGED <<result, runs, crashes, shared>>
    <3>1. local' = [local EXCEPT ![v].at = 1, ![v].failed = TRUE]
      BY <1>1 DEF Catch
    <3> QED
      BY <1>1, <3>1 DEF Catch, TypeOK
  <2>3. Goto(v, "cleanup") /\ "cleanup" \in Label
    BY <1>1 DEF Catch, Label
  <2> HIDE DEF l
  <2>4. Moved(v, "cleanup", l.at, l.eligible, l.failed, l.replica)
    BY <2>1, <2>2, <2>3, SetLocal
  <2> QED
    BY <1>1, <2>1, <2>4, LocalIs
<1>2. CASE ~(local[v].eligible /\ ~local[v].failed)
  <2>1. Return(v, "failed")
    BY <1>2 DEF Catch
  <2>2. Ended(v, "failed")
    BY <2>1, ReturnEnds
  <2> QED
    BY <1>2, <2>2
<1> QED
  BY <1>1, <1>2
-----------------------------------------------------------------------------
(* Steps of one verification. *)

LEMMA MovedType ==
    ASSUME TypeOK, NEW v \in Verifier, NEW label, NEW at, NEW eligible, NEW failed, NEW replica,
           Moved(v, label, at, eligible, failed, replica),
           db' \in [Table -> SUBSET Row], fault' \in [Verifier -> BOOLEAN]
    PROVE  TypeOK'
  BY DEF TypeOK, Moved, Mine

LEMMA EndedType ==
    ASSUME TypeOK, NEW v \in Verifier, NEW verdict, Ended(v, verdict),
           db' \in [Table -> SUBSET Row], fault' \in [Verifier -> BOOLEAN]
    PROVE  TypeOK'
  BY DEF TypeOK, Ended, Mine

(* The others are not concerned: who is alone has no others. *)
LEMMA StepOf ==
    ASSUME VerifyInv, NEW v \in Verifier, pc[v] # "down", Mine(v), TypeOK',
           pc'[v] # "down" => local'[v].artifact \in Artifact /\ result'[v] = "none",
           Alone(v) => SoFar(v)'
    PROVE  VerifyInv'
<1>1. ASSUME NEW u \in Verifier, pc'[u] # "down"
      PROVE  /\ local'[u].artifact \in Artifact /\ result'[u] = "none"
             /\ Alone(u)' => \A w \in Verifier \ {u} : pc'[w] = "down"
  <2>1. CASE u = v
    BY <1>1, <2>1 DEF VerifyInv, RunInv, Mine, Alone
  <2>2. CASE u # v
    BY <1>1, <2>2 DEF VerifyInv, RunInv, Mine, Alone
  <2> QED
    BY <2>1, <2>2
<1>2. ASSUME NEW u \in Verifier, Alone(u)'
      PROVE  SoFar(u)'
  <2>1. CASE u = v
    BY <1>2, <2>1 DEF Mine, Alone
  <2>2. CASE u # v
    <3>1. pc'[u] = "down"
      BY <1>2, <2>2 DEF VerifyInv, RunInv, Mine, Alone
    <3> QED
      BY <3>1 DEF SoFar
  <2> QED
    BY <2>1, <2>2
<1> QED
  BY <1>1, <1>2 DEF VerifyInv, RunInv, AloneInv

LEMMA MovedStep ==
    ASSUME VerifyInv, NEW v \in Verifier, pc[v] # "down",
           NEW label, NEW at, NEW eligible, NEW failed, NEW replica,
           Moved(v, label, at, eligible, failed, replica),
           db' \in [Table -> SUBSET Row], fault' \in [Verifier -> BOOLEAN],
           Alone(v) => SoFar(v)'
    PROVE  VerifyInv'
<1>1. Mine(v) /\ TypeOK'
  BY MovedType DEF VerifyInv, Moved
<1>2. local'[v].artifact \in Artifact /\ result'[v] = "none"
  BY DEF VerifyInv, RunInv, Moved
<1> QED
  BY <1>1, <1>2, StepOf

LEMMA EndedStep ==
    ASSUME VerifyInv, NEW v \in Verifier, pc[v] # "down", NEW verdict, Ended(v, verdict),
           db' \in [Table -> SUBSET Row], fault' \in [Verifier -> BOOLEAN]
    PROVE  VerifyInv'
<1>1. Mine(v) /\ TypeOK' /\ pc'[v] = "down"
  BY EndedType DEF VerifyInv, Ended
<1>2. SoFar(v)'
  BY <1>1 DEF SoFar
<1> QED
  BY <1>1, <1>2, StepOf

(* The catch block: what it goes on to show is why it was entered. *)
LEMMA CatchStep ==
    ASSUME VerifyInv, NEW v \in Verifier, pc[v] # "down", Catch(v),
           db' \in [Table -> SUBSET Row], fault' \in [Verifier -> BOOLEAN],
           Alone(v) => fault'[v] \/ ~Good(local[v].artifact)
    PROVE  VerifyInv'
<1>1. CASE Ended(v, "failed")
  BY <1>1, EndedStep
<1>2. CASE Moved(v, "cleanup", 1, TRUE, TRUE, local[v].replica)
  <2>1. Alone(v) => SoFar(v)'
    BY <1>2 DEF Moved, SoFar
  <2> QED
    BY <1>2, <2>1, MovedStep
<1> QED
  BY <1>1, <1>2, CatchMoves DEF VerifyInv

LEMMA SentinelsNext ==
    ASSUME NEW v \in Verifier, local'[v].artifact = local[v].artifact, db' = db, NEW t
    PROVE  SentinelAgrees(v, t)' <=> SentinelAgrees(v, t)
  BY DEF SentinelAgrees, First

LEMMA TriedNext ==
    ASSUME NEW v \in Verifier, local'[v].artifact = local[v].artifact,
           local'[v].replica = local[v].replica
    PROVE  Tried(v)' <=> Tried(v)
  BY DEF Tried, Restored, Sound, Dangling

LEMMA InitVerifyInv == Init => VerifyInv
<1> SUFFICES ASSUME Init PROVE VerifyInv
  OBVIOUS
<1>1. TypeOK
  BY NoLocalType, TablesAre DEF Init, TypeOK, Empty, Label
<1>2. \A v \in Verifier : pc[v] = "down"
  BY DEF Init
<1> QED
  BY <1>1, <1>2 DEF VerifyInv, RunInv, AloneInv, SoFar

(* A verification begins: the ones under way are no longer alone. *)
LEMMA StartStep ==
    ASSUME VerifyInv, NEW v \in Verifier, NEW a \in Artifact, Start(v, a) PROVE VerifyInv'
<1> DEFINE l == [NoLocal EXCEPT !.artifact = a]
<1>1. l \in Local /\ l.artifact = a
  BY NoLocalType DEF NoLocal, Local
<1>2. /\ TypeOK /\ pc[v] = "down" /\ local' = [local EXCEPT ![v] = l]
      /\ Goto(v, "manifest") /\ "manifest" \in Label
  BY DEF Start, VerifyInv, Label
<1> HIDE DEF l
<1>3. /\ pc' \in [Verifier -> Label] /\ pc'[v] = "manifest"
      /\ \A u \in Verifier \ {v} : pc'[u] = pc[u] /\ local'[u] = local[u] /\ result'[u] = result[u]
      /\ local' \in [Verifier -> Local] /\ local'[v].artifact = a /\ result'[v] = "none"
  BY <1>1, <1>2 DEF Start, Goto, TypeOK
<1>4. shared' \in [Verifier -> BOOLEAN]
  BY <1>2 DEF Start, TypeOK
<1>5. TypeOK'
  <2>1. runs' \in 0..MaxRuns
    BY <1>2, TablesAre DEF Start, TypeOK
  <2> QED
    BY <1>2, <1>3, <1>4, <2>1 DEF Start, TypeOK
<1>6. \A u \in Verifier : Alone(u)' /\ pc'[u] # "down" => u = v /\ \A w \in Verifier \ {v} : pc[w] = "down"
  BY <1>2, <1>3 DEF Start, Alone
<1>7. RunInv'
  BY <1>3, <1>6 DEF VerifyInv, RunInv
<1>8. AloneInv'
  <2> SUFFICES ASSUME NEW u \in Verifier, Alone(u)' PROVE SoFar(u)'
    BY DEF AloneInv
  <2>1. pc'[u] \in {"down", "manifest"}
    BY <1>3, <1>6
  <2> QED
    BY <2>1 DEF SoFar
<1> QED
  BY <1>5, <1>7, <1>8 DEF VerifyInv
-----------------------------------------------------------------------------
(* The actions. *)

(* A failed call: whatever it left in the tables, the fault is on record. *)
LEMMA CallFailsStep ==
    ASSUME VerifyInv, NEW v \in Verifier, CallFails(v) PROVE VerifyInv'
<1>1. /\ TypeOK /\ pc[v] # "down" /\ Catch(v) /\ db' \in Leaves(v)
      /\ local[v].artifact \in Artifact
  BY DEF CallFails, VerifyInv, RunInv
<1>2. db' \in [Table -> SUBSET Row]
  BY <1>1, LeavesType
<1>3. fault' \in [Verifier -> BOOLEAN] /\ fault'[v] = TRUE
  BY <1>1 DEF CallFails, TypeOK
<1> QED
  BY <1>1, <1>2, <1>3, CatchStep

LEMMA CrashStep ==
    ASSUME VerifyInv, NEW v \in Verifier, Crash(v) PROVE VerifyInv'
<1>1. /\ TypeOK /\ pc[v] # "down" /\ db' \in Leaves(v) /\ local[v].artifact \in Artifact
      /\ Goto(v, "down") /\ "down" \in Label /\ local' = [local EXCEPT ![v] = NoLocal]
      /\ UNCHANGED <<result, runs, fault, shared>>
  BY DEF Crash, VerifyInv, RunInv, Label
<1>2. db' \in [Table -> SUBSET Row]
  BY <1>1, LeavesType
<1>3. /\ Mine(v) /\ pc'[v] = "down" /\ pc' \in [Verifier -> Label] /\ local' \in [Verifier -> Local]
  BY <1>1, NoLocalType DEF Goto, TypeOK, Mine
<1>4. crashes' \in 0..MaxCrashes
  BY <1>1, TablesAre DEF Crash, TypeOK
<1>5. TypeOK'
  BY <1>1, <1>2, <1>3, <1>4 DEF TypeOK
<1>6. SoFar(v)'
  BY <1>3 DEF SoFar
<1> QED
  BY <1>1, <1>3, <1>5, <1>6, StepOf

LEMMA ReadStep ==
    ASSUME VerifyInv, NEW v \in Verifier, ReadManifest(v) \/ ReadTables(v) PROVE VerifyInv'
<1>1. TypeOK /\ pc[v] # "down" /\ UNCHANGED <<db, fault>>
      /\ db \in [Table -> SUBSET Row] /\ fault \in [Verifier -> BOOLEAN]
  BY DEF ReadManifest, ReadTables, VerifyInv, TypeOK
<1>2. CASE ReadManifest(v)
  <2>1. Moved(v, "tables", 1, local[v].eligible, local[v].failed, local[v].replica)
    BY <1>1, <1>2, ContinueMoves DEF ReadManifest, Label
  <2>2. SoFar(v)'
    BY <2>1 DEF Moved, SoFar
  <2> QED
    BY <1>1, <2>1, <2>2, MovedStep
<1>3. CASE ReadTables(v)
  <2> DEFINE fits == local[v].artifact.fits
             label == IF fits THEN "reset" ELSE "cleanup"
             m == [local[v] EXCEPT !.eligible = TRUE]
             l == [m EXCEPT !.failed = ~fits]
  <2>1. fits \in BOOLEAN /\ local[v] \in Local
    BY <1>1, <1>3, LocalIs, ConstantsAssumption DEF VerifyInv, RunInv, IsBackup
  <2>2. m \in Local /\ m.artifact = local[v].artifact /\ m.at = local[v].at
        /\ m.eligible = TRUE /\ m.replica = local[v].replica
    BY <2>1 DEF Local
  <2> HIDE DEF m
  <2>3. l \in Local /\ l.artifact = local[v].artifact /\ l.at = local[v].at
        /\ l.eligible = TRUE /\ l.failed = ~fits /\ l.replica = local[v].replica
    BY <2>1, <2>2 DEF Local
  <2>4. local' = [local EXCEPT ![v] = l]
    BY <1>1, <1>3 DEF ReadTables, TypeOK, m
  <2>5. label \in Label /\ Goto(v, label) /\ UNCHANGED <<result, runs, crashes, shared>>
    BY <1>3 DEF ReadTables, Label
  <2> HIDE DEF l, label
  <2>6. Moved(v, label, l.at, l.eligible, l.failed, l.replica)
    BY <1>1, <2>3, <2>4, <2>5, SetLocal
  <2>7. SoFar(v)'
    <3>1. /\ pc'[v] = label /\ local'[v].artifact = local[v].artifact /\ local'[v].failed = ~fits
          /\ label \in {"reset", "cleanup"} /\ (label = "reset" <=> fits)
      BY <2>3, <2>6 DEF Moved, label
    <3> QED
      BY <3>1 DEF SoFar, Good
  <2> QED
    BY <1>1, <2>6, <2>7, MovedStep
<1> QED
  BY <1>2, <1>3

LEMMA ResetStep ==
    ASSUME VerifyInv, NEW v \in Verifier, Reset(v) \/ Cleanup(v) PROVE VerifyInv'
<1>1. /\ TypeOK /\ pc[v] # "down" /\ db' = Empty /\ UNCHANGED fault
      /\ Empty \in [Table -> SUBSET Row] /\ fault \in [Verifier -> BOOLEAN]
  BY DEF Reset, Cleanup, VerifyInv, TypeOK, Empty
<1>2. CASE Reset(v)
  <2>1. Moved(v, "zero", 1, local[v].eligible, local[v].failed, local[v].replica)
    BY <1>1, <1>2, ContinueMoves DEF Reset, Label
  <2>2. Alone(v) => SoFar(v)'
    BY <1>1, <1>2, <2>1 DEF Reset, Moved, SoFar, VerifyInv, AloneInv, Empty
  <2> QED
    BY <1>1, <2>1, <2>2, MovedStep
<1>3. CASE Cleanup(v)
  <2>1. Moved(v, "cleanupZero", 1, local[v].eligible, local[v].failed, local[v].replica)
    BY <1>1, <1>3, ContinueMoves DEF Cleanup, Label
  <2>2. Alone(v) => SoFar(v)'
    <3>1. /\ pc'[v] = "cleanupZero" /\ local'[v].failed = local[v].failed
          /\ local'[v].artifact = local[v].artifact /\ local'[v].replica = local[v].replica
      BY <2>1 DEF Moved
    <3>2. Alone(v) => IF local[v].failed THEN fault[v] \/ ~Good(local[v].artifact)
                      ELSE Good(local[v].artifact) /\ Tried(v)
      BY <1>3 DEF Cleanup, VerifyInv, AloneInv, SoFar
    <3>3. Alone(v) => IF local'[v].failed THEN fault'[v] \/ ~Good(local'[v].artifact)
                      ELSE Good(local'[v].artifact) /\ Tried(v)'
      BY <1>1, <3>1, <3>2, TriedNext
    <3>4. db' = Empty
      BY <1>1
    <3> QED
      BY <3>1, <3>3, <3>4 DEF SoFar, Good, Empty
  <2> QED
    BY <1>1, <2>1, <2>2, MovedStep
<1> QED
  BY <1>2, <1>3

LEMMA ZeroStep ==
    ASSUME VerifyInv, NEW v \in Verifier, Zero(v) PROVE VerifyInv'
<1>1. /\ TypeOK /\ pc[v] = "zero" /\ UNCHANGED <<db, fault>>
      /\ db \in [Table -> SUBSET Row] /\ fault \in [Verifier -> BOOLEAN]
      /\ "restore" \in Label /\ Here(v) \in Table
  BY LocalIs DEF Zero, VerifyInv, TypeOK, Label
<1>2. Alone(v) => db = Empty /\ local[v].artifact.fits /\ ~local[v].failed
  BY <1>1 DEF VerifyInv, AloneInv, SoFar
<1>3. CASE db[Here(v)] = {}
  <2>1. NextTable(v, "restore")
    BY <1>3 DEF Zero
  <2>2. CASE Moved(v, pc[v], local[v].at + 1, local[v].eligible, local[v].failed, local[v].replica)
    <3>1. Alone(v) => SoFar(v)'
      BY <1>1, <1>2, <2>2 DEF Moved, SoFar, Empty
    <3> QED
      BY <1>1, <2>2, <3>1, MovedStep
  <2>3. CASE Moved(v, "restore", 1, local[v].eligible, local[v].failed, local[v].replica)
    <3>1. Alone(v) => Filled(v)'
      BY <1>1, <1>2, <2>3, TablesAre DEF Moved, Filled, Empty
    <3>2. Alone(v) => SoFar(v)'
      BY <1>1, <1>2, <2>3, <3>1 DEF Moved, SoFar
    <3> QED
      BY <1>1, <2>3, <3>2, MovedStep
  <2> QED
    BY <1>1, <2>1, <2>2, <2>3, NextTableMoves
<1>4. CASE db[Here(v)] # {}
  <2>1. Catch(v) /\ ~Alone(v)
    BY <1>1, <1>2, <1>4 DEF Zero, Empty
  <2> QED
    BY <1>1, <2>1, CatchStep
<1> QED
  BY <1>3, <1>4
(* A COPY puts the rows of the table into a table that was empty, so none  *)
(* conflicts; with foreign keys on none of them dangles in what is there,  *)
(* so none does in the whole backup. *)
LEMMA CopyFills ==
    ASSUME VerifyInv, NEW v \in Verifier, Copy(v), Alone(v)
    PROVE  \A i \in 1..Len(Tables) :
             IF i <= local[v].at
             THEN /\ db'[Tables[i]] = Restored(v)[Tables[i]]
                  /\ local[v].replica \/ Dangling(Restored(v), Tables[i]) = {}
             ELSE db'[Tables[i]] = {}
<1> DEFINE at == local[v].at
           h == Tables[at]
           R == Restored(v)
<1>1. /\ TypeOK /\ Filled(v) /\ at \in 1..Len(Tables) /\ h \in Table /\ Here(v) = h
      /\ R \in [Table -> SUBSET Row] /\ db \in [Table -> SUBSET Row]
      /\ local[v].replica \in BOOLEAN
  BY LocalIs, TablesAre, BackupRows
     DEF Copy, VerifyInv, RunInv, AloneInv, SoFar, Restored, Here, TypeOK
<1>2. db' = [db EXCEPT ![h] = @ \cup R[h]]
  BY <1>1 DEF Copy, Copied, Rows
<1>3. db[h] = {} /\ db'[h] = R[h]
  <2>1. ~(at < at) /\ at \in 1..Len(Tables) /\ h = Tables[at]
    BY <1>1, TablesAre
  <2>2. db[Tables[at]] = {}
    BY <1>1, <2>1 DEF Filled
  <2> HIDE DEF at, h, R
  <2>3. db[h] = {}
    BY <2>1, <2>2
  <2> QED
    BY <1>1, <1>2, <2>3
<1>4. \A t \in Table \ {h} : db'[t] = db[t]
  BY <1>1, <1>2
<1>5. \A i \in 1..Len(Tables) : i # at => Tables[i] # h /\ Tables[i] \in Table
  BY <1>1, TablesAre
<1>6. \A t \in Table : db'[t] \subseteq R[t]
  <2> SUFFICES ASSUME NEW i \in 1..Len(Tables) PROVE db'[Tables[i]] \subseteq R[Tables[i]]
    BY TablesAre
  <2>1. CASE i = at
    BY <1>3, <2>1
  <2>2. CASE i # at
    BY <1>1, <1>4, <1>5, <2>2 DEF Filled
  <2> QED
    BY <2>1, <2>2
<1>7. local[v].replica \/ Dangling(R, h) = {}
  <2> SUFFICES ASSUME ~local[v].replica PROVE Dangling(R, h) = {}
    OBVIOUS
  <2>1. Dangling(db', h) \cap R[h] = {}
    BY <1>1, <1>2 DEF Copy, Broken, Copied, Rows
  <2>2. Parent[h] # Null => Parent[h] \in Table
    BY <1>1, ConstantsAssumption
  <2>3. Dangling(R, h) \subseteq Dangling(db', h) \cap R[h]
    BY <1>3, <1>6, <2>2 DEF Dangling
  <2> QED
    BY <2>1, <2>3
<1>8. ASSUME NEW i \in 1..Len(Tables)
      PROVE  IF i <= at
             THEN /\ db'[Tables[i]] = R[Tables[i]]
                  /\ local[v].replica \/ Dangling(R, Tables[i]) = {}
             ELSE db'[Tables[i]] = {}
  <2>1. CASE i = at
    BY <1>1, <1>3, <1>7, <2>1
  <2>2. CASE i # at
    <3>1. db'[Tables[i]] = db[Tables[i]] /\ (i <= at <=> i < at)
      BY <1>1, <1>4, <1>5, <2>2
    <3> QED
      BY <1>1, <3>1 DEF Filled
  <2> QED
    BY <2>1, <2>2
<1> QED
  BY <1>8

LEMMA CopyStep ==
    ASSUME VerifyInv, NEW v \in Verifier, Copy(v) PROVE VerifyInv'
<1>1. /\ TypeOK /\ pc[v] = "restore" /\ UNCHANGED fault /\ local[v].artifact \in Artifact
      /\ fault \in [Verifier -> BOOLEAN] /\ "data" \in Label /\ local[v].at \in 1..Len(Tables)
      /\ local[v].replica \in BOOLEAN
  BY LocalIs DEF Copy, VerifyInv, RunInv, TypeOK, Label
<1>2. db' \in [Table -> SUBSET Row]
  BY <1>1, CopiedType DEF Copy
<1>3. Alone(v) => local[v].artifact.fits /\ ~local[v].failed
  BY <1>1 DEF VerifyInv, AloneInv, SoFar
<1>4. CASE Moved(v, pc[v], local[v].at + 1, local[v].eligible, local[v].failed, local[v].replica)
  <2>1. Alone(v) => Filled(v)'
    <3> SUFFICES ASSUME Alone(v), NEW i \in 1..Len(Tables)
                 PROVE  IF i < local'[v].at
                        THEN /\ db'[Tables[i]] = local'[v].artifact.rows[Tables[i]]
                             /\ local'[v].replica \/ Dangling(local'[v].artifact.rows, Tables[i]) = {}
                        ELSE db'[Tables[i]] = {}
      BY DEF Filled, Restored, Dangling
    <3>1. /\ local'[v].artifact = local[v].artifact /\ local'[v].replica = local[v].replica
          /\ i < local'[v].at <=> i <= local[v].at
      BY <1>1, <1>4 DEF Moved
    <3> QED
      BY <3>1, CopyFills DEF Restored
  <2>2. Alone(v) => SoFar(v)'
    BY <1>1, <1>3, <1>4, <2>1 DEF Moved, SoFar
  <2> QED
    BY <1>1, <1>2, <1>4, <2>2, MovedStep
<1>5. CASE /\ local[v].at = Len(Tables)
           /\ Moved(v, "data", 1, local[v].eligible, local[v].failed, local[v].replica)
  <2>1. Alone(v) => Compared(v)'
    <3> SUFFICES ASSUME Alone(v) PROVE Compared(v)'
      OBVIOUS
    <3> DEFINE R == Restored(v)
    <3>1. /\ local'[v].artifact = local[v].artifact /\ local'[v].replica = local[v].replica
          /\ local'[v].at = 1 /\ pc'[v] = "data"
      BY <1>5 DEF Moved
    <3>2. \A i \in 1..Len(Tables) :
             /\ db'[Tables[i]] = R[Tables[i]]
             /\ local[v].replica \/ Dangling(R, Tables[i]) = {}
      <4> TAKE i \in 1..Len(Tables)
      <4>1. i <= local[v].at
        BY <1>5, TablesAre
      <4> QED
        BY <4>1, CopyFills
    <3>3. /\ \A t \in Table : db'[t] = R[t]
          /\ \A t \in Table : local[v].replica \/ Dangling(R, t) = {}
      <4> SUFFICES ASSUME NEW t \in Table
                   PROVE  db'[t] = R[t] /\ (local[v].replica \/ Dangling(R, t) = {})
        OBVIOUS
      <4>1. PICK i \in 1..Len(Tables) : t = Tables[i]
        BY TablesAre
      <4> QED
        BY <3>2, <4>1
    <3>4. db' = R
      <4>1. R \in [Table -> SUBSET Row]
        BY <1>1, BackupRows DEF Restored
      <4>2. \A t \in Table : db'[t] = R[t]
        BY <3>3
      <4> HIDE DEF R
      <4> QED
        BY <1>2, <4>1, <4>2
    <3>5. local'[v].replica \/ Sound(local'[v].artifact.rows)
      <4>1. CASE local[v].replica
        BY <3>1, <4>1
      <4>2. CASE ~local[v].replica
        <5>1. Sound(R)
          BY <3>3, <4>2 DEF Sound
        <5> QED
          BY <3>1, <5>1 DEF Restored
      <4> QED
        BY <4>1, <4>2
    <3>6. Tried(v)'
      BY <3>5 DEF Tried, Restored, Sound, Dangling
    <3> QED
      BY <3>1, <3>4, <3>6 DEF Compared, Restored
  <2>2. Alone(v) => SoFar(v)'
    BY <1>1, <1>3, <1>5, <2>1 DEF Moved, SoFar
  <2> QED
    BY <1>1, <1>2, <1>5, <2>2, MovedStep
<1> QED
  BY <1>1, <1>4, <1>5, NextTableMoves DEF Copy

(* Alone, no row of a backup is in its table before its COPY. *)
LEMMA CopyConflictStep ==
    ASSUME VerifyInv, NEW v \in Verifier, CopyConflict(v) PROVE VerifyInv' /\ ~Alone(v)
<1>1. /\ TypeOK /\ pc[v] = "restore" /\ UNCHANGED <<db, fault>> /\ Catch(v)
      /\ db \in [Table -> SUBSET Row] /\ fault \in [Verifier -> BOOLEAN]
      /\ local[v].at \in 1..Len(Tables)
  BY LocalIs DEF CopyConflict, VerifyInv, TypeOK
<1>2. ~Alone(v)
  <2> SUFFICES ASSUME Alone(v) PROVE FALSE
    OBVIOUS
  <2>1. db[Here(v)] = {}
    BY <1>1 DEF VerifyInv, AloneInv, SoFar, Filled, Here
  <2> QED
    BY <2>1 DEF CopyConflict, Conflict
<1>3. VerifyInv'
  BY <1>1, <1>2, CatchStep
<1> QED
  BY <1>2, <1>3

LEMMA FallbackStep ==
    ASSUME VerifyInv, NEW v \in Verifier, Fallback(v) PROVE VerifyInv'
<1>1. /\ TypeOK /\ pc[v] = "restore" /\ UNCHANGED <<db, fault>>
      /\ db \in [Table -> SUBSET Row] /\ fault \in [Verifier -> BOOLEAN]
      /\ Goto(v, "reset") /\ "reset" \in Label /\ UNCHANGED <<result, runs, crashes, shared>>
  BY DEF Fallback, VerifyInv, TypeOK, Label
<1> DEFINE m == [local[v] EXCEPT !.at = 1]
           l == [m EXCEPT !.replica = TRUE]
<1>2. local[v] \in Local /\ 1 \in 1..Len(Tables)
  BY <1>1, LocalIs, TablesAre
<1>3. m \in Local /\ m.artifact = local[v].artifact /\ m.eligible = local[v].eligible
      /\ m.failed = local[v].failed
  BY <1>2 DEF Local
<1>4. local' = [local EXCEPT ![v] = l]
  BY <1>1 DEF Fallback, TypeOK
<1> HIDE DEF m
<1>5. l \in Local /\ l.artifact = local[v].artifact /\ l.failed = local[v].failed
  BY <1>3 DEF Local
<1> HIDE DEF l
<1>6. Moved(v, "reset", l.at, l.eligible, l.failed, l.replica)
  BY <1>1, <1>4, <1>5, SetLocal
<1>7. Alone(v) => SoFar(v)'
  BY <1>1, <1>5, <1>6 DEF Moved, SoFar, VerifyInv, AloneInv
<1> QED
  BY <1>1, <1>6, <1>7, MovedStep
-----------------------------------------------------------------------------
(* verifyRestoredDb(): its loops over the restored tables. *)

(* A step of a loop that changes nothing but the place. *)
LEMMA LoopStep ==
    ASSUME VerifyInv, NEW v \in Verifier, NEW label \in Label, NEW at,
           pc[v] \in {"data", "sentinels", "sequences"}, UNCHANGED <<db, fault>>,
           Moved(v, label, at, local[v].eligible, local[v].failed, local[v].replica),
           Alone(v) => SoFar(v)'
    PROVE  VerifyInv'
<1>1. pc[v] # "down" /\ db' \in [Table -> SUBSET Row] /\ fault' \in [Verifier -> BOOLEAN]
  BY DEF VerifyInv, TypeOK
<1> QED
  BY <1>1, MovedStep

LEMMA HasDataStep ==
    ASSUME VerifyInv, NEW v \in Verifier, HasData(v) PROVE VerifyInv'
<1>1. /\ TypeOK /\ pc[v] = "data" /\ UNCHANGED <<db, fault>> /\ local[v].artifact \in Artifact
      /\ db \in [Table -> SUBSET Row] /\ fault \in [Verifier -> BOOLEAN]
      /\ "sentinels" \in Label /\ "data" \in Label
      /\ local[v].at \in 1..Len(Tables) /\ Here(v) = Tables[local[v].at] /\ Here(v) \in Table
  BY LocalIs DEF HasData, VerifyInv, RunInv, TypeOK, Label, Here
<1>2. Alone(v) => Compared(v) /\ local[v].artifact.fits /\ ~local[v].failed
  BY <1>1 DEF VerifyInv, AloneInv, SoFar
<1>3. CASE db[Here(v)] # {}
  <2>1. Moved(v, "sentinels", 1, local[v].eligible, local[v].failed, local[v].replica)
    BY <1>1, <1>3, ContinueMoves DEF HasData
  <2>2. Alone(v) => Compared(v)'
    <3>1. /\ pc'[v] = "sentinels" /\ local'[v].at = 1
          /\ local'[v].artifact = local[v].artifact /\ local'[v].replica = local[v].replica
      BY <2>1 DEF Moved
    <3> QED
      BY <1>1, <1>2, <1>3, <3>1, TriedNext DEF Compared, Restored
  <2>3. Alone(v) => SoFar(v)'
    BY <1>2, <2>1, <2>2 DEF Moved, SoFar
  <2> QED
    BY <1>1, <2>1, <2>3, LoopStep
<1>4. CASE db[Here(v)] = {} /\ local[v].at < Len(Tables)
  <2>1. Moved(v, "data", local[v].at + 1, local[v].eligible, local[v].failed, local[v].replica)
    BY <1>1, <1>4, TablesAre, NextTableMoves DEF HasData
  <2>2. Alone(v) => Compared(v)'
    <3>1. /\ pc'[v] = "data" /\ local'[v].at = local[v].at + 1
          /\ local'[v].artifact = local[v].artifact /\ local'[v].replica = local[v].replica
      BY <2>1 DEF Moved
    <3>2. Alone(v) => \A i \in 1..local'[v].at - 1 : db'[Tables[i]] = {}
      BY <1>1, <1>2, <1>4, <3>1 DEF Compared
    <3> QED
      BY <1>1, <1>2, <3>1, <3>2, TriedNext DEF Compared, Restored
  <2>3. Alone(v) => SoFar(v)'
    BY <1>2, <2>1, <2>2 DEF Moved, SoFar
  <2> QED
    BY <1>1, <2>1, <2>3, LoopStep
<1>5. CASE db[Here(v)] = {} /\ ~(local[v].at < Len(Tables))
  <2>1. Catch(v)
    BY <1>5 DEF HasData
  <2>2. Alone(v) => ~Good(local[v].artifact)
    <3> SUFFICES ASSUME Alone(v) PROVE \A t \in Table : local[v].artifact.rows[t] = {}
      BY DEF Good
    <3>1. \A i \in 1..Len(Tables) : db[Tables[i]] = {}
      BY <1>1, <1>2, <1>5, TablesAre DEF Compared
    <3> QED
      BY <1>2, <3>1, TablesAre DEF Compared, Restored
  <2> QED
    BY <1>1, <2>1, <2>2, CatchStep
<1> QED
  BY <1>3, <1>4, <1>5

(* A sentinel that does not agree is one the manifest and the backup       *)
(* differ on. *)
LEMMA Disagreement ==
    ASSUME VerifyInv, NEW v \in Verifier, Alone(v), pc[v] = "sentinels",
           ~SentinelAgrees(v, Here(v))
    PROVE  ~Good(local[v].artifact)
<1>1. db = local[v].artifact.rows /\ Here(v) \in Table
  BY LocalIs DEF VerifyInv, AloneInv, SoFar, Compared, Restored
<1> QED
  BY <1>1 DEF SentinelAgrees, Good

LEMMA SentinelStep ==
    ASSUME VerifyInv, NEW v \in Verifier, Sentinel(v) PROVE VerifyInv'
<1>1. /\ TypeOK /\ pc[v] = "sentinels" /\ UNCHANGED <<db, fault>> /\ local[v].artifact \in Artifact
      /\ db \in [Table -> SUBSET Row] /\ fault \in [Verifier -> BOOLEAN]
      /\ "sentinels" \in Label /\ "sequences" \in Label
      /\ local[v].at \in 1..Len(Tables) /\ Here(v) = Tables[local[v].at]
  BY LocalIs DEF Sentinel, VerifyInv, RunInv, TypeOK, Label, Here
<1>2. Alone(v) => Compared(v) /\ local[v].artifact.fits /\ ~local[v].failed
  BY <1>1 DEF VerifyInv, AloneInv, SoFar
<1>3. CASE SentinelAgrees(v, Here(v))
  <2>1. NextTable(v, "sequences")
    BY <1>3 DEF Sentinel
  <2>2. Alone(v) => \A i \in 1..local[v].at : SentinelAgrees(v, Tables[i])
    <3> SUFFICES ASSUME Alone(v), NEW i \in 1..local[v].at PROVE SentinelAgrees(v, Tables[i])
      OBVIOUS
    <3>1. CASE i = local[v].at
      BY <1>1, <1>3, <3>1
    <3>2. CASE i # local[v].at
      <4>1. i \in 1..local[v].at - 1
        BY <1>1, <3>2
      <4> QED
        BY <1>1, <1>2, <4>1 DEF Compared
    <3> QED
      BY <3>1, <3>2
  <2>3. CASE Moved(v, pc[v], local[v].at + 1, local[v].eligible, local[v].failed, local[v].replica)
    <3>1. /\ pc'[v] = "sentinels" /\ local'[v].at = local[v].at + 1
          /\ local'[v].artifact = local[v].artifact /\ local'[v].replica = local[v].replica
      BY <1>1, <2>3 DEF Moved
    <3>2. Alone(v) => \A i \in 1..local'[v].at - 1 : SentinelAgrees(v, Tables[i])'
      <4> SUFFICES ASSUME Alone(v), NEW i \in 1..local'[v].at - 1
                   PROVE  SentinelAgrees(v, Tables[i])'
        OBVIOUS
      <4>1. i \in 1..local[v].at
        BY <1>1, <3>1
      <4>2. SentinelAgrees(v, Tables[i])
        BY <2>2, <4>1
      <4> QED
        BY <1>1, <3>1, <4>2, SentinelsNext
    <3>3. Alone(v) => Compared(v)'
      BY <1>1, <1>2, <3>1, <3>2, TriedNext DEF Compared, Restored
    <3>4. Alone(v) => SoFar(v)'
      BY <1>2, <2>3, <3>1, <3>3 DEF Moved, SoFar
    <3> QED
      BY <1>1, <2>3, <3>4, LoopStep
  <2>4. CASE /\ local[v].at = Len(Tables)
             /\ Moved(v, "sequences", 1, local[v].eligible, local[v].failed, local[v].replica)
    <3>1. /\ pc'[v] = "sequences"
          /\ local'[v].artifact = local[v].artifact /\ local'[v].replica = local[v].replica
      BY <2>4 DEF Moved
    <3>2. Alone(v) => \A t \in Table : SentinelAgrees(v, t)'
      <4> SUFFICES ASSUME Alone(v), NEW i \in 1..Len(Tables) PROVE SentinelAgrees(v, Tables[i])'
        BY TablesAre
      <4>1. SentinelAgrees(v, Tables[i])
        BY <2>2, <2>4
      <4> QED
        BY <1>1, <3>1, <4>1, SentinelsNext
    <3>3. Alone(v) => Compared(v)'
      BY <1>1, <1>2, <3>1, <3>2, TriedNext DEF Compared, Restored
    <3>4. Alone(v) => SoFar(v)'
      BY <1>2, <2>4, <3>1, <3>3 DEF Moved, SoFar
    <3> QED
      BY <1>1, <2>4, <3>4, LoopStep
  <2> QED
    BY <1>1, <2>1, <2>3, <2>4, NextTableMoves
<1>4. CASE ~SentinelAgrees(v, Here(v))
  <2>1. Catch(v)
    BY <1>4 DEF Sentinel
  <2> QED
    BY <1>1, <1>4, <2>1, Disagreement, CatchStep
<1> QED
  BY <1>3, <1>4

(* After the last sentinel the backup is known to be good. *)
LEMMA SequenceStep ==
    ASSUME VerifyInv, NEW v \in Verifier, SequenceSmoke(v) PROVE VerifyInv'
<1>1. /\ TypeOK /\ pc[v] = "sequences" /\ UNCHANGED <<db, fault>> /\ "cleanup" \in Label
  BY DEF SequenceSmoke, VerifyInv, Label
<1>2. Moved(v, "cleanup", 1, local[v].eligible, local[v].failed, local[v].replica)
  BY <1>1, ContinueMoves DEF SequenceSmoke
<1>3. Alone(v) => Compared(v) /\ local[v].artifact.fits /\ ~local[v].failed
  BY <1>1 DEF VerifyInv, AloneInv, SoFar
<1>4. Alone(v) => Good(local[v].artifact)
  <2> SUFFICES ASSUME Alone(v) PROVE Good(local[v].artifact)
    OBVIOUS
  <2>1. local[v].artifact \in Artifact
    BY <1>1 DEF VerifyInv, RunInv
  <2>2. DOMAIN local[v].artifact.manifest \subseteq Table
    BY <2>1, ConstantsAssumption DEF IsBackup
  <2>3. /\ db = local[v].artifact.rows /\ \E t \in Table : db[t] # {}
        /\ \A t \in Table : SentinelAgrees(v, t)
    BY <1>1, <1>3 DEF Compared, Restored
  <2> QED
    BY <1>3, <2>2, <2>3 DEF Good, SentinelAgrees
<1>5. Alone(v) => SoFar(v)'
  <2>1. /\ pc'[v] = "cleanup" /\ local'[v].failed = local[v].failed
        /\ local'[v].artifact = local[v].artifact /\ local'[v].replica = local[v].replica
    BY <1>2 DEF Moved
  <2>2. Alone(v) => Tried(v)'
    BY <1>3, <2>1, TriedNext DEF Compared
  <2> QED
    BY <1>3, <1>4, <2>1, <2>2 DEF SoFar, Good
<1> QED
  BY <1>1, <1>2, <1>5, LoopStep

LEMMA CleanupZeroStep ==
    ASSUME VerifyInv, NEW v \in Verifier, CleanupZero(v) PROVE VerifyInv'
<1>1. /\ TypeOK /\ pc[v] = "cleanupZero" /\ UNCHANGED <<db, fault>>
      /\ db \in [Table -> SUBSET Row] /\ fault \in [Verifier -> BOOLEAN]
      /\ "cleanupZero" \in Label /\ Here(v) \in Table /\ local[v].at \in 1..Len(Tables)
  BY LocalIs DEF CleanupZero, VerifyInv, TypeOK, Label
<1>2. Alone(v) => db = Empty
  BY <1>1 DEF VerifyInv, AloneInv, SoFar
<1>3. CASE db[Here(v)] # {}
  <2>1. Catch(v) /\ ~Alone(v)
    BY <1>1, <1>2, <1>3 DEF CleanupZero, Empty
  <2> QED
    BY <1>1, <2>1, CatchStep
<1>4. CASE db[Here(v)] = {} /\ local[v].at < Len(Tables)
  <2>1. Moved(v, "cleanupZero", local[v].at + 1, local[v].eligible, local[v].failed, local[v].replica)
    BY <1>1, <1>4, TablesAre, NextTableMoves DEF CleanupZero
  <2>2. /\ pc'[v] = "cleanupZero" /\ local'[v].failed = local[v].failed
        /\ local'[v].artifact = local[v].artifact /\ local'[v].replica = local[v].replica
    BY <2>1 DEF Moved
  <2>3. Alone(v) => SoFar(v)'
    <3>1. Alone(v) => IF local[v].failed THEN fault[v] \/ ~Good(local[v].artifact)
                      ELSE Good(local[v].artifact) /\ Tried(v)
      BY <1>1 DEF VerifyInv, AloneInv, SoFar
    <3>2. Alone(v) => IF local'[v].failed THEN fault'[v] \/ ~Good(local'[v].artifact)
                      ELSE Good(local'[v].artifact) /\ Tried(v)'
      BY <1>1, <2>2, <3>1, TriedNext
    <3>3. Alone(v) => db' = Empty
      BY <1>1, <1>2
    <3> QED
      BY <2>2, <3>2, <3>3 DEF SoFar, Good, Empty
  <2> QED
    BY <1>1, <2>1, <2>3, MovedStep
<1>5. CASE db[Here(v)] = {} /\ ~(local[v].at < Len(Tables))
  <2>1. PICK verdict \in {"passed", "failed"} : Return(v, verdict)
    BY <1>5 DEF CleanupZero
  <2>2. Ended(v, verdict)
    BY <1>1, <2>1, ReturnEnds
  <2> QED
    BY <1>1, <2>2, EndedStep
<1> QED
  BY <1>3, <1>4, <1>5

LEMMA NextVerifyInv == VerifyInv /\ [Next]_vars => VerifyInv'
<1> SUFFICES ASSUME VerifyInv, [Next]_vars PROVE VerifyInv'
  OBVIOUS
<1>1. CASE UNCHANGED vars
  <2>1. TypeOK' /\ RunInv'
    BY <1>1 DEF vars, VerifyInv, TypeOK, RunInv, Alone
  <2>2. ASSUME NEW v \in Verifier, Alone(v)' PROVE SoFar(v)'
    <3>1. Alone(v) /\ SoFar(v)
      BY <1>1, <2>2 DEF vars, VerifyInv, AloneInv, Alone
    <3>2. SoFar(v)' <=> SoFar(v)
      BY <1>1 DEF vars, SoFar, Filled, Compared, Restored, Tried, Sound, Dangling, Good,
                  SentinelAgrees, First, Empty
    <3> QED
      BY <3>1, <3>2
  <2> QED
    BY <2>1, <2>2 DEF VerifyInv, AloneInv
<1>2. ASSUME NEW v \in Verifier,
             \/ \E a \in Artifact : Start(v, a)
             \/ ReadManifest(v) \/ ReadTables(v) \/ Reset(v) \/ Zero(v)
             \/ Copy(v) \/ CopyConflict(v) \/ Fallback(v)
             \/ HasData(v) \/ Sentinel(v) \/ SequenceSmoke(v)
             \/ Cleanup(v) \/ CleanupZero(v)
             \/ CallFails(v) \/ Crash(v)
      PROVE  VerifyInv'
  BY <1>2, StartStep, ReadStep, ResetStep, ZeroStep, CopyStep, CopyConflictStep, FallbackStep,
     HasDataStep, SentinelStep, SequenceStep, CleanupZeroStep, CallFailsStep, CrashStep
<1> QED
  BY <1>1, <1>2 DEF Next

(* Whatever the others did before, crashed in or left behind: a            *)
(* verification that has the database to itself starts each restore on     *)
(* empty tables, has in them what it has restored so far and nothing else, *)
(* and knows at its cleanup whether the backup is good. *)
THEOREM Invariance == Spec => []VerifyInv
  BY InitVerifyInv, NextVerifyInv, PTL DEF Spec
-----------------------------------------------------------------------------
(* What an answer, and the last sentinel, say. *)

(* Only a step of v itself answers for v or judges. *)
LEMMA OwnStep ==
    ASSUME VerifyInv, [Next]_vars, NEW v \in Verifier, pc'[v] # pc[v], pc[v] # "down"
    PROVE  \/ ReadManifest(v) \/ ReadTables(v) \/ Reset(v) \/ Zero(v)
           \/ Copy(v) \/ CopyConflict(v) \/ Fallback(v)
           \/ HasData(v) \/ Sentinel(v) \/ SequenceSmoke(v)
           \/ Cleanup(v) \/ CleanupZero(v)
           \/ CallFails(v) \/ Crash(v)
<1>1. PICK u \in Verifier :
             \/ \E a \in Artifact : Start(u, a)
             \/ ReadManifest(u) \/ ReadTables(u) \/ Reset(u) \/ Zero(u)
             \/ Copy(u) \/ CopyConflict(u) \/ Fallback(u)
             \/ HasData(u) \/ Sentinel(u) \/ SequenceSmoke(u)
             \/ Cleanup(u) \/ CleanupZero(u)
             \/ CallFails(u) \/ Crash(u)
  BY DEF Next, vars
<1>2. \/ pc' = pc
      \/ \E label : pc' = [pc EXCEPT ![u] = label]
  BY <1>1 DEF Start, ReadManifest, ReadTables, Reset, Zero, Copy, CopyConflict, Fallback, HasData,
              Sentinel, SequenceSmoke, Cleanup, CleanupZero, CallFails, Crash, Goto, Continue,
              NextTable, Catch, Return
<1>3. u = v
  BY <1>2 DEF VerifyInv, TypeOK
<1>4. ~\E a \in Artifact : Start(v, a)
  BY DEF Start
<1> QED
  BY <1>1, <1>3, <1>4

(* The steps that answer, for a verification that is alone. *)
LEMMA AnswerIs ==
    ASSUME VerifyInv, [Next]_vars, NEW v \in Verifier, Alone(v),
           NEW verdict \in {"passed", "failed"}, Answers(v, verdict)
    PROVE  /\ verdict = "passed" =>
                /\ Good(local[v].artifact) /\ Tried(v) /\ db' = Empty
           /\ verdict = "failed" => fault'[v] \/ ~Good(local[v].artifact)
<1>1. /\ TypeOK /\ pc[v] # "down" /\ pc'[v] = "down" /\ result'[v] = verdict /\ result[v] = "none"
      /\ SoFar(v) /\ result' # result
  BY DEF Answers, VerifyInv, AloneInv
<1>2. CASE Continue(v, "tables") \/ Continue(v, "zero") \/ Continue(v, "sentinels")
           \/ Continue(v, "cleanup") \/ Continue(v, "cleanupZero")
           \/ NextTable(v, "restore") \/ NextTable(v, "data") \/ NextTable(v, "sentinels")
           \/ NextTable(v, "sequences") \/ NextTable(v, "cleanupZero")
           \/ UNCHANGED result
  BY <1>1, <1>2 DEF Continue, NextTable
<1>3. ASSUME Catch(v) PROVE verdict = "failed"
  BY <1>1, <1>3 DEF Catch, Return, TypeOK
<1>4. CASE ReadManifest(v) \/ ReadTables(v) \/ Reset(v) \/ Copy(v) \/ Fallback(v)
           \/ SequenceSmoke(v) \/ Cleanup(v) \/ Crash(v)
  BY <1>2, <1>4 DEF ReadManifest, ReadTables, Reset, Copy, Fallback, SequenceSmoke, Cleanup, Crash
<1>5. CASE CopyConflict(v)
  BY <1>5, CopyConflictStep
<1>6. CASE Zero(v)
  <2>1. db[Here(v)] = {}
    BY <1>1, <1>6, LocalIs DEF Zero, SoFar, Empty
  <2> QED
    BY <1>2, <1>6, <2>1 DEF Zero
<1>7. CASE HasData(v)
  <2>1. CASE Catch(v) /\ \A i \in 1..Len(Tables) : db[Tables[i]] = {}
    <3>1. \A t \in Table : local[v].artifact.rows[t] = {}
      BY <1>1, <1>7, <2>1, TablesAre DEF HasData, SoFar, Compared, Restored
    <3> QED
      BY <1>3, <2>1, <3>1 DEF Good
  <2>2. CASE ~(Catch(v) /\ \A i \in 1..Len(Tables) : db[Tables[i]] = {})
    <3>1. db[Here(v)] = {} /\ ~(local[v].at < Len(Tables)) =>
             \A i \in 1..Len(Tables) : db[Tables[i]] = {}
      BY <1>1, <1>7, LocalIs, TablesAre DEF HasData, SoFar, Compared, Here
    <3> QED
      BY <1>2, <1>7, <2>2, <3>1 DEF HasData
  <2> QED
    BY <2>1, <2>2
<1>8. CASE Sentinel(v)
  <2>1. CASE SentinelAgrees(v, Here(v))
    BY <1>2, <1>8, <2>1 DEF Sentinel
  <2>2. CASE ~SentinelAgrees(v, Here(v))
    BY <1>3, <1>8, <2>2, Disagreement DEF Sentinel
  <2> QED
    BY <2>1, <2>2
<1>9. CASE CleanupZero(v)
  <2>1. /\ db = Empty /\ db' = db /\ fault' = fault /\ db[Here(v)] = {}
        /\ IF local[v].failed THEN fault[v] \/ ~Good(local[v].artifact)
           ELSE Good(local[v].artifact) /\ Tried(v)
    BY <1>1, <1>9, LocalIs DEF CleanupZero, SoFar, Empty
  <2>2. CASE local[v].at < Len(Tables)
    BY <1>2, <1>9, <2>1, <2>2 DEF CleanupZero
  <2>3. CASE ~(local[v].at < Len(Tables))
    <3>1. Return(v, IF local[v].failed THEN "failed" ELSE "passed")
      BY <1>9, <2>1, <2>3 DEF CleanupZero
    <3>2. verdict = IF local[v].failed THEN "failed" ELSE "passed"
      BY <1>1, <3>1 DEF Return, TypeOK
    <3> QED
      BY <2>1, <3>2
  <2> QED
    BY <2>2, <2>3
<1>10. CASE CallFails(v)
  <2>1. fault'[v] = TRUE
    BY <1>1, <1>10 DEF CallFails, TypeOK
  <2> QED
    BY <1>3, <1>10, <2>1 DEF CallFails
<1>11. \/ ReadManifest(v) \/ ReadTables(v) \/ Reset(v) \/ Zero(v)
       \/ Copy(v) \/ CopyConflict(v) \/ Fallback(v)
       \/ HasData(v) \/ Sentinel(v) \/ SequenceSmoke(v)
       \/ Cleanup(v) \/ CleanupZero(v)
       \/ CallFails(v) \/ Crash(v)
  BY <1>1, OwnStep
<1> QED
  BY <1>4, <1>5, <1>6, <1>7, <1>8, <1>9, <1>10, <1>11

(* A pass is given to good backups only, says that the foreign keys hold   *)
(* unless it reports the fallback, and leaves no rows behind; a good backup *)
(* is refused only when a call failed.                                     *)
THEOREM TheVerdictIsRight == Spec => VerdictIsRight
<1>1. ASSUME VerifyInv, [Next]_vars, NEW v \in Verifier, Alone(v)
      PROVE  /\ Answers(v, "passed") => /\ Good(local[v].artifact)
                                        /\ local[v].replica \/ Sound(Restored(v))
                                        /\ db' = Empty
             /\ Answers(v, "failed") /\ ~fault'[v] => ~Good(local[v].artifact)
  BY <1>1, AnswerIs DEF Tried
<1>2. VerifyInv /\ [Next]_vars =>
        [\A v \in Verifier : Alone(v) =>
           /\ Answers(v, "passed") => /\ Good(local[v].artifact)
                                      /\ local[v].replica \/ Sound(Restored(v))
                                      /\ db' = Empty
           /\ Answers(v, "failed") /\ ~fault'[v] => ~Good(local[v].artifact)]_vars
  BY <1>1
<1> QED
  BY <1>2, Invariance, PTL DEF Spec, VerdictIsRight

(* What is judged is what was restored: every table, and nothing else. *)
THEOREM JudgesWhatItRestored == Spec => AloneJudgesItsRestore
<1>1. ASSUME VerifyInv, [Next]_vars, NEW v \in Verifier, Alone(v), Judges(v)
      PROVE  db = Restored(v)
  BY <1>1 DEF Judges, VerifyInv, AloneInv, SoFar, Compared
<1>2. VerifyInv /\ [Next]_vars =>
        [\A v \in Verifier : Alone(v) /\ Judges(v) => db = Restored(v)]_vars
  BY <1>1
<1> QED
  BY <1>2, Invariance, PTL DEF Spec, AloneJudgesItsRestore
=============================================================================
