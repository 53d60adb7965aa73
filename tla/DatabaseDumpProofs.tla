-------------------------- MODULE DatabaseDumpProofs --------------------------
(***************************************************************************)
(* Proofs about DatabaseDump for any rows, any number of ids and of writes *)
(* and any set of sentinels.                                               *)
(***************************************************************************)
EXTENDS DatabaseDump, FiniteSetTheorems, WellFoundedInduction, TLAPS

-----------------------------------------------------------------------------
(* The operators of the model. *)

(* A set of ids that is not empty has a first one. *)
LEMMA FirstIs ==
    ASSUME NEW S \in SUBSET Nat, S # {}
    PROVE  First(S) \in S /\ \A k \in S : First(S) <= k
<1> DEFINE R == {ss \in Nat \X Nat : ss[1] < ss[2]}
<1>1. IsWellFoundedOn(R, Nat)
  BY NatLessThanWellFounded DEF OpToRel
<1> HIDE DEF R
<1>2. PICK x \in S : \A y \in S : <<y, x>> \notin R
  BY <1>1, WFMin
<1> USE DEF R
<1>3. \A y \in S : y \in Nat /\ x \in Nat
  OBVIOUS
<1>4. \A y \in S : ~(y < x)
  BY <1>2, <1>3
<1>5. \A y \in S : x <= y
  BY <1>3, <1>4
<1> QED
  BY <1>2, <1>5 DEF First

LEMMA IdIs == Id \subseteq Nat /\ \A i \in Id : i >= 1 /\ i <= MaxId
  BY ConstantsAssumption DEF Id

USE ConstantsAssumption

(* The two tables, in either order. *)
LEMMA OrderIs ==
    ASSUME TypeOK
    PROVE  /\ Len(order) = 2
           /\ order[1] \in Table /\ order[2] \in Table /\ order[1] # order[2]
           /\ \A t \in Table : t = order[1] \/ t = order[2]
           /\ LastTurn <=> at = 1
           /\ at \in {0, 1, 2}
<1>1. CASE order = <<Parent, Child>>
  BY <1>1 DEF TypeOK, Table, LastTurn
<1>2. CASE order = <<Child, Parent>>
  BY <1>2 DEF TypeOK, Table, LastTurn
<1> QED
  BY <1>1, <1>2 DEF TypeOK

(* The rows of a table and their lines. *)
LEMMA RowsAre ==
    ASSUME TypeOK, NEW t \in Table
    PROVE  /\ Present(t) \subseteq Id
           /\ \A i \in Id : i \in Present(t) <=> db[t][i] # Null
           /\ \A i \in Present(t) : db[t][i] \in Row
<1>1. db[t] \in [Id -> Row \cup {Null}]
  BY DEF TypeOK
<1> QED
  BY <1>1 DEF Present

LEMMA LinesAre ==
    ASSUME TypeOK, NEW t \in Table
    PROVE  /\ TableLines(t) \in SUBSET Dumped /\ TableLines(t) # Null
           /\ Ids(TableLines(t)) = Present(t)
           /\ \A d \in TableLines(t) : /\ d.id \in Present(t)
                                       /\ d.ref = db[t][d.id].ref
                                       /\ d.line = Line(db[t][d.id].value)
           /\ \A i \in Present(t) : DumpedRow(t, i) \in TableLines(t)
<1>1. \A i \in Present(t) : DumpedRow(t, i) \in Dumped
  <2> TAKE i \in Present(t)
  <2>1. i \in Id /\ db[t][i] \in Row
    BY RowsAre
  <2>2. db[t][i].ref \in Id \cup {Null} /\ db[t][i].value \in Values
    BY <2>1 DEF Row
  <2> QED
    BY <2>1, <2>2 DEF DumpedRow, Dumped
<1>2. TableLines(t) \in SUBSET Dumped /\ TableLines(t) # Null
  BY <1>1, NullAssumption DEF TableLines
<1>3. \A i \in Present(t) : DumpedRow(t, i).id = i
  BY DEF DumpedRow
<1>4. Ids(TableLines(t)) = Present(t)
  BY <1>3 DEF Ids, TableLines
<1> QED
  BY <1>2, <1>4 DEF TableLines, DumpedRow

LEMMA FirstRowIs ==
    ASSUME TypeOK, NEW t \in Table
    PROVE  /\ Present(t) = {} => FirstRow(t) = Null
           /\ Present(t) # {} => /\ FirstRow(t) # Null /\ FirstRow(t) \in [id: Id, row: Row]
                                 /\ FirstRow(t).id \in Present(t)
                                 /\ FirstRow(t).row = db[t][FirstRow(t).id]
                                 /\ \A k \in Present(t) : FirstRow(t).id <= k
<1> DEFINE i == First(Present(t))
<1>1. CASE Present(t) # {}
  <2>1. Present(t) \in SUBSET Nat
    BY RowsAre, IdIs
  <2>2. i \in Present(t) /\ \A k \in Present(t) : i <= k
    BY <1>1, <2>1, FirstIs
  <2>3. FirstRow(t) = [id |-> i, row |-> db[t][i]]
    BY <1>1 DEF FirstRow
  <2>4. i \in Id /\ db[t][i] \in Row
    BY <2>2, RowsAre
  <2> QED
    BY <1>1, <2>2, <2>3, <2>4, NullAssumption
<1> QED
  BY <1>1 DEF FirstRow

LEMMA DumpedIs ==
    ASSUME TypeOK, NEW t \in Table, dumped[t] # Null
    PROVE  /\ dumped[t] \in SUBSET Dumped
           /\ \A d \in dumped[t] : d.id \in Id
<1>1. dumped[t] \in SUBSET Dumped
  BY DEF TypeOK
<1>2. \A d \in Dumped : d.id \in Id
  BY DEF Dumped
<1> QED
  BY <1>1, <1>2

(* The next value of a sequence. *)
LEMMA NextValueIs ==
    ASSUME NEW s \in SequenceState
    PROVE  NextValue(s) \in Nat /\ NextValue(s) >= s.last
<1>1. s.last \in Nat /\ s.called \in BOOLEAN
  BY IdIs DEF SequenceState
<1> QED
  BY <1>1 DEF NextValue

-----------------------------------------------------------------------------
(* The application's transactions. *)

(* What the invariant asks of a transaction that writes some tables.       *)
LEMMA WriteStep ==
    ASSUME DumpInv, NEW tables \in SUBSET Table, Writes(tables),
           db' \in [Table -> [Id -> Row \cup {Null}]], seq' \in [Table -> SequenceState],
           moved \subseteq moved', moved' \subseteq Id,
           \A t \in Table \ tables : db'[t] = db[t],
           \A t \in Table : NextValue(seq'[t]) >= NextValue(seq[t]),
           \A t \in Table : \A i \in Present(t)' : NextValue(seq'[t]) > i,
           \A i \in Present(Child)' : db'[Child][i].ref \in Present(Parent)',
           pc # "idle" => /\ Present(Parent)' \subseteq Present(Parent) \cup moved'
                          /\ Present(Parent) \subseteq Present(Parent)' \cup moved'
    PROVE  DumpInv'
<1>1. TypeOK /\ ProgressInv /\ FileInv /\ ReturnedFileWhole /\ LeftoverOnlyIfEarly
  BY Zenon DEF DumpInv
<1>2. SequencesInv /\ ManifestInv /\ ReferencesInv /\ QuietInv
  BY Zenon DEF DumpInv
<1>3. /\ UNCHANGED <<order, call, dumpVars, file, early>>
      /\ UNCHANGED <<pc, at, manifest, dumped, setval>>
      /\ writes > 0 /\ writes' = writes - 1 /\ quiet' = (quiet /\ pc = "idle")
      /\ between' = between \cup {t \in tables : ManifestRead(t) /\ dumped[t] = Null}
  BY DEF Writes, dumpVars
<1>4. TypeOK'
  <2>1. writes' \in 0..MaxWrites
    BY <1>1, <1>3 DEF TypeOK
  <2>2. between' \subseteq Table /\ quiet' \in BOOLEAN
    BY <1>1, <1>3 DEF TypeOK
  <2> QED
    BY <1>1, <1>3, <2>1, <2>2 DEF TypeOK
<1>5. ProgressInv' /\ FileInv' /\ ReturnedFileWhole' /\ LeftoverOnlyIfEarly'
  <2>1. ProgressInv'
    BY <1>1, <1>3, Zenon DEF ProgressInv
  <2>2. FileInv' /\ LeftoverOnlyIfEarly'
    BY <1>1, <1>3, Zenon DEF FileInv, LeftoverOnlyIfEarly
  <2>3. ReturnedFileWhole'
    BY <1>1, <1>3, Zenon DEF ReturnedFileWhole, Returned
  <2> QED
    BY <2>1, <2>2, <2>3
<1>6. SequencesInv'
  <2> SUFFICES ASSUME NEW t \in Table
               PROVE  /\ \A i \in Present(t)' : NextValue(seq'[t]) > i
                      /\ dumped[t] # Null => \A d \in dumped[t] : NextValue(seq'[t]) > d.id
                      /\ setval[t] # Null => dumped[t] # Null
                            /\ \A d \in dumped[t] : NextValue(setval[t]) > d.id
    BY <1>3 DEF SequencesInv
  <2>1. ASSUME dumped[t] # Null, NEW d \in dumped[t]
        PROVE  NextValue(seq'[t]) > d.id
    <3>1. d.id \in Nat
      BY <1>1, <2>1, DumpedIs, IdIs
    <3>2. NextValue(seq[t]) > d.id
      BY <1>2, <2>1 DEF SequencesInv
    <3>3. NextValue(seq[t]) \in Nat /\ NextValue(seq'[t]) \in Nat
      BY <1>1, NextValueIs DEF TypeOK
    <3> QED
      BY <3>1, <3>2, <3>3
  <2> QED
    BY <1>2, <2>1 DEF SequencesInv
<1>7. ManifestInv'
  <2> SUFFICES ASSUME NEW t \in Sentinel, t \notin between'
               PROVE  /\ ManifestRead(t)' /\ dumped[t] = Null => manifest[t] = FirstRow(t)'
                      /\ dumped[t] # Null => Matches(t)'
    BY <1>3 DEF ManifestInv
  <2>1. t \in Table /\ t \notin between /\ (ManifestRead(t)' <=> ManifestRead(t))
    BY <1>3 DEF ManifestRead
  <2>2. ASSUME ManifestRead(t), dumped[t] = Null
        PROVE  manifest[t] = FirstRow(t)'
    <3>1. t \notin tables
      BY <1>3, <2>2
    <3>2. db'[t] = db[t]
      BY <2>1, <3>1
    <3>3. Present(t)' = Present(t)
      BY <3>2 DEF Present
    <3>4. FirstRow(t)' = FirstRow(t)
      BY <3>2, <3>3 DEF FirstRow, First
    <3> QED
      BY <1>2, <2>1, <2>2, <3>4 DEF ManifestInv
  <2>3. ASSUME dumped[t] # Null
        PROVE  Matches(t)'
    <3>1. Matches(t)
      BY <1>2, <2>1, <2>3 DEF ManifestInv
    <3> QED
      BY <1>3, <3>1 DEF Matches
  <2> QED
    BY <2>1, <2>2, <2>3
<1>8. ReferencesInv'
  <2>1. ASSUME dumped[Parent] # Null, dumped[Child] = Null
        PROVE  Present(Parent)' \subseteq Ids(dumped[Parent]) \cup moved'
    <3>1. pc # "idle"
      BY <1>1, <2>1 DEF ProgressInv, Table
    <3>2. Present(Parent) \subseteq Ids(dumped[Parent]) \cup moved
      BY <1>2, <2>1 DEF ReferencesInv
    <3> QED
      BY <3>1, <3>2
  <2>2. ASSUME dumped[Child] # Null, NEW d \in dumped[Child]
        PROVE  d.ref \in moved' \cup IF dumped[Parent] = Null THEN Present(Parent)'
                                     ELSE Ids(dumped[Parent])
    <3>1. pc # "idle"
      BY <1>1, <2>2 DEF ProgressInv, Table
    <3>2. d.ref \in moved \cup IF dumped[Parent] = Null THEN Present(Parent)
                               ELSE Ids(dumped[Parent])
      BY <1>2, <2>2 DEF ReferencesInv
    <3> QED
      BY <3>1, <3>2
  <2> QED
    BY <1>3, <2>1, <2>2 DEF ReferencesInv
<1>9. QuietInv'
  BY <1>1, <1>3 DEF QuietInv, ProgressInv
<1> QED
  BY <1>4, <1>5, <1>6, <1>7, <1>8, <1>9, Zenon DEF DumpInv

(* A row is inserted with the next id of its table, which is not in use.   *)
LEMMA InsertStep ==
    ASSUME DumpInv, NEW t \in Table, NEW ref \in Id \cup {Null}, NEW value \in Values,
           Insert(t, ref, value)
    PROVE  DumpInv'
<1> DEFINE i == NextValue(seq[t])
           row == [ref |-> ref, value |-> value]
<1>1. TypeOK /\ SequencesInv /\ ReferencesInv
  BY Zenon DEF DumpInv
<1>2. /\ i \in Id /\ Writes({t})
      /\ IF t = Parent THEN ref = Null ELSE ref \in Present(Parent)
      /\ db' = [db EXCEPT ![t][i] = row]
      /\ seq' = [seq EXCEPT ![t] = [last |-> i, called |-> TRUE]]
      /\ moved' = IF t = Parent /\ pc # "idle" THEN moved \cup {i} ELSE moved
  BY DEF Insert
<1>3. row \in Row /\ row # Null
  BY NullAssumption DEF Row
<1> HIDE DEF i, row
<1>4. db' \in [Table -> [Id -> Row \cup {Null}]]
  BY <1>1, <1>2, <1>3 DEF TypeOK
<1>5. seq' \in [Table -> SequenceState]
  BY <1>1, <1>2 DEF TypeOK, SequenceState
<1>6. moved \subseteq moved' /\ moved' \subseteq Id
  BY <1>1, <1>2 DEF TypeOK
<1>7. \A u \in Table \ {t} : db'[u] = db[u] /\ seq'[u] = seq[u]
  BY <1>1, <1>2 DEF TypeOK
<1>8. /\ Present(t)' = Present(t) \cup {i}
      /\ \A k \in Present(t) : k # i => db'[t][k] = db[t][k]
      /\ db'[t][i] = row
  <2>1. db[t] \in [Id -> Row \cup {Null}] /\ db'[t] = [db[t] EXCEPT ![i] = row]
    BY <1>1, <1>2 DEF TypeOK
  <2> QED
    BY <1>2, <1>3, <2>1 DEF Present
<1>9. \A u \in Table \ {t} : Present(u)' = Present(u)
  BY <1>7 DEF Present
<1>10. NextValue(seq'[t]) = i + 1
  <2>1. seq'[t] = [last |-> i, called |-> TRUE]
    BY <1>1, <1>2 DEF TypeOK
  <2> QED
    BY <2>1 DEF NextValue
<1>11. \A u \in Table : NextValue(seq[u]) \in Nat
  BY <1>1, NextValueIs DEF TypeOK
<1>12. \A u \in Table : NextValue(seq'[u]) >= NextValue(seq[u])
  BY <1>7, <1>10, <1>11 DEF i
<1>13. \A u \in Table : \A k \in Present(u)' : NextValue(seq'[u]) > k
  <2> SUFFICES ASSUME NEW u \in Table, NEW k \in Present(u)'
               PROVE  NextValue(seq'[u]) > k
    OBVIOUS
  <2>1. CASE u # t
    BY <1>1, <1>7, <1>9, <2>1 DEF SequencesInv
  <2>2. CASE u = t /\ k = i
    <3>1. i \in Nat
      BY <1>2, IdIs
    <3> QED
      BY <1>10, <2>2, <3>1
  <2>3. CASE u = t /\ k # i
    <3>1. k \in Present(t) /\ k \in Nat /\ i \in Nat
      BY <1>1, <1>2, <1>8, <2>3, RowsAre, IdIs
    <3>2. i > k
      BY <1>1, <3>1 DEF SequencesInv, i
    <3> QED
      BY <1>10, <2>3, <3>1, <3>2
  <2> QED
    BY <2>1, <2>2, <2>3
<1>14. \A k \in Present(Child)' : db'[Child][k].ref \in Present(Parent)'
  <2>1. Child \in Table /\ Parent \in Table /\ Child # Parent
    BY DEF Table
  <2>2. \A k \in Present(Child) : db[Child][k].ref \in Present(Parent)
    BY <1>1 DEF ReferencesInv
  <2>3. CASE t = Parent
    BY <1>7, <1>8, <1>9, <2>1, <2>2, <2>3
  <2>4. CASE t = Child
    <3>1. ref \in Present(Parent)' /\ row.ref = ref
      BY <1>2, <1>9, <2>1, <2>4 DEF row
    <3>2. Present(Parent)' = Present(Parent)
      BY <1>9, <2>1, <2>4
    <3> QED
      BY <1>8, <2>2, <2>4, <3>1, <3>2
  <2> QED
    BY <2>3, <2>4 DEF Table
<1>15. pc # "idle" => /\ Present(Parent)' \subseteq Present(Parent) \cup moved'
                      /\ Present(Parent) \subseteq Present(Parent)' \cup moved'
  <2>1. CASE t = Parent
    BY <1>2, <1>8, <2>1
  <2>2. CASE t # Parent
    BY <1>9, <2>2 DEF Table
  <2> QED
    BY <2>1, <2>2
<1>16. {t} \in SUBSET Table /\ \A u \in Table \ {t} : db'[u] = db[u]
  BY <1>7
<1> QED
  BY <1>2, <1>4, <1>5, <1>6, <1>12, <1>13, <1>14, <1>15, <1>16, WriteStep

LEMMA UpdateStep ==
    ASSUME DumpInv, NEW t \in Table, NEW i \in Id, NEW value \in Values, Update(t, i, value)
    PROVE  DumpInv'
<1>1. TypeOK /\ SequencesInv /\ ReferencesInv
  BY Zenon DEF DumpInv
<1>2. /\ i \in Present(t) /\ Writes({t})
      /\ db' = [db EXCEPT ![t][i].value = value]
      /\ seq' = seq /\ moved' = moved
  BY DEF Update
<1> DEFINE row == [db[t][i] EXCEPT !.value = value]
<1>3. row \in Row /\ row # Null /\ row.ref = db[t][i].ref
  <2>1. db[t][i] \in Row
    BY <1>1, <1>2, RowsAre
  <2>2. row \in Row /\ row.ref = db[t][i].ref
    BY <2>1 DEF Row
  <2> QED
    BY <2>2, NullAssumption
<1>4. db' = [db EXCEPT ![t][i] = row]
  BY <1>1, <1>2 DEF TypeOK
<1> HIDE DEF row
<1>5. db' \in [Table -> [Id -> Row \cup {Null}]]
  BY <1>1, <1>3, <1>4 DEF TypeOK
<1>6. \A u \in Table \ {t} : db'[u] = db[u]
  BY <1>1, <1>4 DEF TypeOK
<1>7. /\ Present(t)' = Present(t)
      /\ \A k \in Present(t) : db'[t][k].ref = db[t][k].ref
  <2>1. db[t] \in [Id -> Row \cup {Null}] /\ db'[t] = [db[t] EXCEPT ![i] = row]
    BY <1>1, <1>4 DEF TypeOK
  <2>2. i \in Present(t) /\ db'[t][i] = row /\ \A k \in Id : k # i => db'[t][k] = db[t][k]
    BY <1>2, <2>1
  <2>3. Present(t)' = Present(t)
    BY <1>2, <1>3, <2>2 DEF Present
  <2>4. \A k \in Present(t) : db'[t][k].ref = db[t][k].ref
    BY <1>3, <2>2 DEF Present
  <2> QED
    BY <2>3, <2>4
<1>8. \A u \in Table : Present(u)' = Present(u)
  BY <1>6, <1>7 DEF Present
<1>9. \A u \in Table : NextValue(seq[u]) \in Nat
  BY <1>1, NextValueIs DEF TypeOK
<1>10. \A u \in Table : NextValue(seq'[u]) >= NextValue(seq[u])
  BY <1>2, <1>9
<1>11. \A u \in Table : \A k \in Present(u)' : NextValue(seq'[u]) > k
  BY <1>1, <1>2, <1>8 DEF SequencesInv
<1>12. \A k \in Present(Child)' : db'[Child][k].ref \in Present(Parent)'
  BY <1>1, <1>6, <1>7, <1>8 DEF ReferencesInv, Table
<1>13. Present(Parent)' = Present(Parent)
  BY <1>8 DEF Table
<1>14. {t} \in SUBSET Table /\ seq' \in [Table -> SequenceState]
       /\ moved \subseteq moved' /\ moved' \subseteq Id
  BY <1>1, <1>2 DEF TypeOK
<1> QED
  BY <1>2, <1>5, <1>6, <1>10, <1>11, <1>12, <1>13, <1>14, WriteStep

LEMMA DeleteStep ==
    ASSUME DumpInv, NEW i \in Id, Delete(i)
    PROVE  DumpInv'
<1>1. TypeOK /\ SequencesInv /\ ReferencesInv
  BY Zenon DEF DumpInv
<1> DEFINE left == [k \in Id |-> IF k \in Present(Child) /\ db[Child][k].ref = i THEN Null
                                 ELSE db[Child][k]]
<1>2. /\ Parent \in Table /\ Child \in Table /\ Parent # Child
      /\ \A t \in Table : t = Parent \/ t = Child
  BY DEF Table
<1>3. /\ i \in Present(Parent) /\ Writes(Table)
      /\ db' = [db EXCEPT ![Parent][i] = Null, ![Child] = left]
      /\ seq' = seq
      /\ moved' = IF pc # "idle" THEN moved \cup {i} ELSE moved
  BY DEF Delete
<1>4. db[Parent] \in [Id -> Row \cup {Null}] /\ db[Child] \in [Id -> Row \cup {Null}]
  BY <1>1, <1>2 DEF TypeOK
<1>5. left \in [Id -> Row \cup {Null}]
  BY <1>4
<1> HIDE DEF left
<1>6. db'[Parent] = [db[Parent] EXCEPT ![i] = Null] /\ db'[Child] = left
  BY <1>1, <1>2, <1>3 DEF TypeOK
<1>7. db' \in [Table -> [Id -> Row \cup {Null}]]
  <2>1. [db[Parent] EXCEPT ![i] = Null] \in [Id -> Row \cup {Null}]
    BY <1>4
  <2>2. db' = [t \in Table |-> db'[t]]
    BY <1>1, <1>2, <1>3 DEF TypeOK
  <2> QED
    BY <1>2, <1>5, <1>6, <2>1, <2>2
<1>8. Present(Parent)' = Present(Parent) \ {i}
  BY <1>4, <1>6 DEF Present
<1>9. \A k \in Present(Child)' : /\ k \in Present(Child) /\ db'[Child][k] = db[Child][k]
                                 /\ db[Child][k].ref # i
  BY <1>6 DEF Present, left
<1>10. \A t \in Table : Present(t)' \subseteq Present(t)
  BY <1>2, <1>8, <1>9
<1>11. \A t \in Table : NextValue(seq[t]) \in Nat
  BY <1>1, NextValueIs DEF TypeOK
<1>12. \A t \in Table : NextValue(seq'[t]) >= NextValue(seq[t])
  BY <1>3, <1>11
<1>13. \A t \in Table : \A k \in Present(t)' : NextValue(seq'[t]) > k
  BY <1>1, <1>3, <1>10 DEF SequencesInv
<1>14. \A k \in Present(Child)' : db'[Child][k].ref \in Present(Parent)'
  BY <1>1, <1>8, <1>9 DEF ReferencesInv
<1>15. pc # "idle" => /\ Present(Parent)' \subseteq Present(Parent) \cup moved'
                      /\ Present(Parent) \subseteq Present(Parent)' \cup moved'
  BY <1>3, <1>8
<1>16. /\ Table \in SUBSET Table /\ seq' \in [Table -> SequenceState]
       /\ moved \subseteq moved' /\ moved' \subseteq Id
       /\ \A t \in Table \ Table : db'[t] = db[t]
  BY <1>1, <1>3 DEF TypeOK
<1> QED
  BY <1>3, <1>7, <1>12, <1>13, <1>14, <1>15, <1>16, WriteStep
-----------------------------------------------------------------------------
(* Steps that leave the database and what was read of it alone.            *)

LEMMA SameRows ==
    ASSUME UNCHANGED db
    PROVE  \A t : /\ Present(t)' = Present(t) /\ FirstRow(t)' = FirstRow(t)
                  /\ TableLines(t)' = TableLines(t)
<1>1. \A t : Present(t)' = Present(t)
  BY DEF Present
<1> QED
  BY <1>1 DEF FirstRow, First, TableLines, DumpedRow

LEMMA SameReads ==
    ASSUME UNCHANGED <<dbVars, dumped, setval, between, moved, quiet>>,
           SequencesInv, ReferencesInv, QuietInv
    PROVE  SequencesInv' /\ ReferencesInv' /\ QuietInv'
<1>1. UNCHANGED <<db, seq, order, dumped, setval, between, moved, quiet>>
  BY DEF dbVars
<1>2. \A t : Present(t)' = Present(t) /\ TableLines(t)' = TableLines(t)
  BY <1>1, SameRows
<1>3. SequencesInv'
  BY <1>1, <1>2 DEF SequencesInv, NextValue
<1>4. ReferencesInv'
  BY <1>1, <1>2 DEF ReferencesInv, Ids
<1>5. QuietInv'
  BY <1>1, <1>2 DEF QuietInv
<1> QED
  BY <1>3, <1>4, <1>5

LEMMA SameManifest ==
    ASSUME UNCHANGED <<dbVars, manifest, dumped, between>>, ManifestInv,
           \A t \in Table : ManifestRead(t)' /\ dumped[t] = Null => ManifestRead(t)
    PROVE  ManifestInv'
<1>1. UNCHANGED <<db, manifest, dumped, between>>
  BY DEF dbVars
<1>2. \A t : FirstRow(t)' = FirstRow(t) /\ (Matches(t)' <=> Matches(t))
  BY <1>1, SameRows DEF Matches, Ids
<1> SUFFICES ASSUME NEW t \in Sentinel \ between
             PROVE  /\ ManifestRead(t)' /\ dumped[t] = Null => manifest[t] = FirstRow(t)
                    /\ dumped[t] # Null => Matches(t)
  BY <1>1, <1>2 DEF ManifestInv
<1> QED
  BY DEF ManifestInv

-----------------------------------------------------------------------------
(* The dump's own steps. *)

LEMMA ReadFirstRowStep ==
    ASSUME DumpInv, NEW t \in Table, ReadFirstRow(t)
    PROVE  DumpInv'
<1>1. /\ TypeOK /\ ProgressInv /\ FileInv /\ SequencesInv /\ ManifestInv /\ ReferencesInv
      /\ QuietInv /\ ReturnedFileWhole /\ LeftoverOnlyIfEarly
  BY Zenon DEF DumpInv
<1>2. /\ pc = "manifest" /\ at < 2 /\ order[at + 1] = t
      /\ manifest' = [manifest EXCEPT ![t] = IF t \in Sentinel THEN FirstRow(t) ELSE Null]
      /\ IF LastTurn THEN pc' = "open" /\ at' = 0 ELSE at' = at + 1 /\ pc' = pc
      /\ UNCHANGED <<dumped, setval, file>>
      /\ UNCHANGED <<dbVars, call, writes, historyVars>>
  BY DEF ReadFirstRow, DumpStep
<1>3. UNCHANGED <<db, seq, order, call, writes, between, moved, quiet, early>>
  BY <1>2 DEF dbVars, historyVars
<1>4. \/ at = 1 /\ pc' = "open" /\ at' = 0
      \/ at = 0 /\ pc' = "manifest" /\ at' = 1
  BY <1>1, <1>2, OrderIs
<1>5. TypeOK'
  <2>1. FirstRow(t) \in [id: Id, row: Row] \cup {Null}
    BY <1>1, FirstRowIs
  <2>2. manifest' \in [Table -> [id: Id, row: Row] \cup {Null}]
    BY <1>1, <1>2, <2>1 DEF TypeOK
  <2> QED
    BY <1>1, <1>2, <1>3, <1>4, <2>2 DEF TypeOK
<1>6. ProgressInv'
  BY <1>1, <1>2, <1>3, <1>4 DEF ProgressInv
<1>7. FileInv' /\ ReturnedFileWhole' /\ LeftoverOnlyIfEarly'
  BY <1>1, <1>2, <1>3, <1>4 DEF FileInv, LeftoverOnlyIfEarly, ReturnedFileWhole, Returned, ProgressInv
<1>8. SequencesInv' /\ ReferencesInv' /\ QuietInv'
  BY <1>1, <1>2, <1>3, SameReads
<1>9. ManifestInv'
  <2>1. \A u : FirstRow(u)' = FirstRow(u)
    BY <1>3, SameRows
  <2>2. \A u \in Table : dumped[u] = Null
    BY <1>1, <1>2 DEF ProgressInv
  <2> SUFFICES ASSUME NEW u \in Sentinel \ between, ManifestRead(u)'
               PROVE  manifest'[u] = FirstRow(u)
    BY <1>2, <1>3, <2>1, <2>2 DEF ManifestInv
  <2>3. u \in Table
    OBVIOUS
  <2>4. CASE u = t
    BY <1>1, <1>2, <2>4 DEF TypeOK
  <2>5. CASE u # t
    <3>1. manifest'[u] = manifest[u]
      BY <1>1, <1>2, <2>3, <2>5 DEF TypeOK
    <3>2. at = 1 /\ order[1] = u
      <4>1. CASE at = 1
        BY <1>1, <1>2, <2>3, <2>5, <4>1, OrderIs
      <4>2. CASE at = 0 /\ pc' = "manifest" /\ at' = 1
        BY <1>2, <1>3, <2>5, <4>2 DEF ManifestRead
      <4> QED
        BY <1>4, <4>1, <4>2
    <3>3. ManifestRead(u)
      BY <1>2, <3>2 DEF ManifestRead
    <3> QED
      BY <1>1, <2>2, <2>3, <3>1, <3>3 DEF ManifestInv
  <2> QED
    BY <2>4, <2>5
<1> QED
  BY <1>5, <1>6, <1>7, <1>8, <1>9, Zenon DEF DumpInv

LEMMA OpenFileStep ==
    ASSUME DumpInv, OpenFile
    PROVE  DumpInv'
<1>1. /\ TypeOK /\ ProgressInv /\ FileInv /\ SequencesInv /\ ManifestInv /\ ReferencesInv
      /\ QuietInv /\ ReturnedFileWhole /\ LeftoverOnlyIfEarly
  BY Zenon DEF DumpInv
<1>2. /\ pc = "open" /\ pc' = "tables"
      /\ file' = [exists |-> TRUE, written |-> "part"]
      /\ UNCHANGED <<at, manifest, dumped, setval>>
      /\ UNCHANGED <<dbVars, call, writes, historyVars>>
  BY DEF OpenFile, DumpStep
<1>3. UNCHANGED <<db, seq, order, call, writes, between, moved, quiet, early>>
  BY <1>2 DEF dbVars, historyVars
<1>4. TypeOK'
  BY <1>1, <1>2, <1>3 DEF TypeOK
<1>5. at = 0 /\ \A t \in Table : dumped[t] = Null
  BY <1>1, <1>2 DEF ProgressInv
<1>6. ProgressInv'
  <2>1. \A k \in 1..2 : order[k] \in Table /\ ~(k <= at)
    BY <1>1, <1>5, OrderIs
  <2> QED
    BY <1>1, <1>2, <1>3, <1>5, <2>1 DEF ProgressInv
<1>7. FileInv' /\ ReturnedFileWhole' /\ LeftoverOnlyIfEarly'
  BY <1>1, <1>2, <1>3 DEF FileInv, LeftoverOnlyIfEarly, ReturnedFileWhole, Returned, ProgressInv
<1>8. SequencesInv' /\ ReferencesInv' /\ QuietInv'
  BY <1>1, <1>2, <1>3, SameReads
<1>9. ManifestInv'
  BY <1>1, <1>2, <1>3, SameManifest DEF ManifestRead
<1> QED
  BY <1>4, <1>6, <1>7, <1>8, <1>9, Zenon DEF DumpInv

LEMMA DumpTableStep ==
    ASSUME DumpInv, NEW t \in Table, DumpTable(t)
    PROVE  DumpInv'
<1>1. /\ TypeOK /\ ProgressInv /\ FileInv /\ SequencesInv /\ ManifestInv /\ ReferencesInv
      /\ QuietInv /\ ReturnedFileWhole /\ LeftoverOnlyIfEarly
  BY Zenon DEF DumpInv
<1>2. /\ pc = "tables" /\ order[at + 1] = t
      /\ dumped' = [dumped EXCEPT ![t] = TableLines(t)]
      /\ IF LastTurn THEN pc' = "sequences" /\ at' = 0 ELSE at' = at + 1 /\ pc' = pc
      /\ UNCHANGED <<manifest, setval, file>>
      /\ UNCHANGED <<dbVars, call, writes, historyVars>>
  BY DEF DumpTable, DumpStep
<1>3. UNCHANGED <<db, seq, order, call, writes, between, moved, quiet, early>>
  BY <1>2 DEF dbVars, historyVars
<1>4. \/ at = 1 /\ pc' = "sequences" /\ at' = 0
      \/ at = 0 /\ pc' = "tables" /\ at' = 1
  <2>1. at < 2
    BY <1>1, <1>2 DEF ProgressInv
  <2> QED
    BY <1>1, <1>2, <2>1, OrderIs
<1>5. /\ dumped'[t] = TableLines(t) /\ dumped'[t] # Null
      /\ \A u \in Table \ {t} : dumped'[u] = dumped[u]
      /\ TableLines(t) \in SUBSET Dumped
  BY <1>1, <1>2, LinesAre DEF TypeOK
<1>6. dumped[t] = Null /\ setval[t] = Null
  <2>1. at + 1 \in 1..2 /\ ~(at + 1 <= at)
    BY <1>4
  <2>2. dumped[t] = Null
    BY <1>1, <1>2, <2>1 DEF ProgressInv
  <2> QED
    BY <1>1, <2>2 DEF SequencesInv
<1>7. TypeOK'
  <2>1. dumped' \in [Table -> (SUBSET Dumped) \cup {Null}]
    BY <1>1, <1>2, <1>5 DEF TypeOK
  <2> QED
    BY <1>1, <1>2, <1>3, <1>4, <2>1 DEF TypeOK
<1>8. ProgressInv'
  <2>1. /\ order[1] \in Table /\ order[2] \in Table /\ order[1] # order[2]
        /\ \A u \in Table : u = order[1] \/ u = order[2]
    BY <1>1, OrderIs
  <2>2. \A k \in 1..2 : dumped[order[k]] # Null <=> k <= at
    BY <1>1, <1>2 DEF ProgressInv
  <2>3. call = call' /\ call # "idle" /\ call \notin {"check", "returned"}
    BY <1>1, <1>2, <1>3 DEF ProgressInv
  <2>4. CASE at = 0 /\ pc' = "tables" /\ at' = 1
    <3>1. dumped'[order[1]] # Null /\ dumped'[order[2]] = Null
      BY <1>2, <1>5, <2>1, <2>2, <2>4
    <3> QED
      BY <1>3, <2>3, <2>4, <3>1 DEF ProgressInv
  <2>5. CASE at = 1 /\ pc' = "sequences" /\ at' = 0
    <3>1. dumped'[order[1]] # Null /\ dumped'[order[2]] # Null
      BY <1>2, <1>5, <2>1, <2>2, <2>5
    <3>2. \A u \in Table : dumped'[u] # Null
      BY <2>1, <3>1
    <3> QED
      BY <1>3, <2>3, <2>5, <3>2 DEF ProgressInv
  <2> QED
    BY <1>4, <2>4, <2>5
<1>9. FileInv' /\ ReturnedFileWhole' /\ LeftoverOnlyIfEarly'
  <2>1. pc' \in {"tables", "sequences"}
    BY <1>4
  <2> QED
    BY <1>1, <1>2, <1>3, <2>1 DEF FileInv, LeftoverOnlyIfEarly, ReturnedFileWhole, Returned, ProgressInv
<1>10. \A u : Present(u)' = Present(u) /\ FirstRow(u)' = FirstRow(u) /\ TableLines(u)' = TableLines(u)
  BY <1>3, SameRows
<1>11. SequencesInv'
  <2>1. \A d \in TableLines(t) : NextValue(seq[t]) > d.id
    BY <1>1, LinesAre DEF SequencesInv
  <2> SUFFICES ASSUME NEW u \in Table
               PROVE  /\ \A i \in Present(u) : NextValue(seq[u]) > i
                      /\ dumped'[u] # Null => \A d \in dumped'[u] : NextValue(seq[u]) > d.id
                      /\ setval[u] # Null => dumped'[u] # Null
                            /\ \A d \in dumped'[u] : NextValue(setval[u]) > d.id
    BY <1>2, <1>3, <1>10 DEF SequencesInv
  <2>2. CASE u = t
    BY <1>1, <1>5, <1>6, <2>1, <2>2 DEF SequencesInv
  <2>3. CASE u # t
    BY <1>1, <1>5, <2>3 DEF SequencesInv
  <2> QED
    BY <2>2, <2>3
<1>12. ManifestInv'
  <2> SUFFICES ASSUME NEW u \in Sentinel \ between
               PROVE  /\ ManifestRead(u)' /\ dumped'[u] = Null => manifest[u] = FirstRow(u)
                      /\ dumped'[u] # Null => Matches(u)'
    BY <1>2, <1>3, <1>10 DEF ManifestInv
  <2>1. u \in Table /\ ManifestRead(u)
    BY <1>2 DEF ManifestRead
  <2>2. CASE u = t
    <3>1. manifest[t] = FirstRow(t)
      BY <1>1, <1>6, <2>1, <2>2 DEF ManifestInv
    <3>2. Ids(dumped[t])' = Present(t)
      BY <1>1, <1>5, LinesAre DEF Ids
    <3>3. CASE Present(t) = {}
      <4>1. manifest[t] = Null
        BY <1>1, <3>1, <3>3, FirstRowIs
      <4> QED
        BY <1>2, <1>5, <2>2, <3>2, <3>3, <4>1 DEF Matches
    <3>4. CASE Present(t) # {}
      <4> DEFINE i == FirstRow(t).id
                 d == DumpedRow(t, i)
      <4>1. /\ FirstRow(t) # Null /\ i \in Present(t) /\ FirstRow(t).row = db[t][i]
            /\ \A k \in Present(t) : i <= k
        BY <1>1, <3>4, FirstRowIs
      <4>2. d \in TableLines(t) /\ d.id = i /\ d.line = Line(db[t][i].value)
        BY <1>1, <4>1, LinesAre DEF DumpedRow
      <4> HIDE DEF d
      <4>3. manifest'[t] = FirstRow(t)
        BY <1>2, <3>1
      <4>4. /\ d \in dumped'[t] /\ d.id = manifest'[t].id
            /\ \A k \in Ids(dumped[t])' : d.id <= k
            /\ d.line = Line(manifest'[t].row.value)
        BY <1>5, <3>2, <4>1, <4>2, <4>3
      <4>5. Matches(t)'
        BY <3>2, <3>4, <4>1, <4>3, <4>4, Zenon DEF Matches
      <4> QED
        BY <1>5, <2>2, <4>5
    <3> QED
      BY <1>5, <2>2, <3>3, <3>4
  <2>3. CASE u # t
    <3>1. dumped'[u] = dumped[u]
      BY <1>5, <2>1, <2>3
    <3>2. dumped[u] # Null => Matches(u)
      BY <1>1 DEF ManifestInv
    <3> QED
      BY <1>1, <1>2, <2>1, <3>1, <3>2 DEF ManifestInv, Matches, Ids
  <2> QED
    BY <2>2, <2>3
<1>13. ReferencesInv'
  <2>1. Child \in Table /\ Parent \in Table /\ Child # Parent
    BY DEF Table
  <2>2. \A d \in TableLines(Child) : d.ref \in Present(Parent)
    BY <1>1, <2>1, LinesAre DEF ReferencesInv
  <2>3. Ids(TableLines(Parent)) = Present(Parent)
    BY <1>1, <2>1, LinesAre
  <2>4. ASSUME dumped'[Parent] # Null, dumped'[Child] = Null
        PROVE  Present(Parent) \subseteq Ids(dumped'[Parent]) \cup moved
    <3>1. CASE t = Parent
      BY <1>5, <2>3, <3>1
    <3>2. CASE t = Child
      BY <1>5, <2>4, <3>2
    <3> QED
      BY <3>1, <3>2 DEF Table
  <2>5. ASSUME dumped'[Child] # Null, NEW d \in dumped'[Child]
        PROVE  d.ref \in moved \cup IF dumped'[Parent] = Null THEN Present(Parent)
                                    ELSE Ids(dumped'[Parent])
    <3>1. CASE t = Parent
      <4>1. dumped'[Child] = dumped[Child] /\ dumped[Parent] = Null
        BY <1>5, <1>6, <2>1, <3>1
      <4>2. d.ref \in moved \cup Present(Parent)
        BY <1>1, <2>5, <4>1 DEF ReferencesInv
      <4> QED
        BY <1>5, <2>3, <3>1, <4>2
    <3>2. CASE t = Child
      <4>1. dumped'[Parent] = dumped[Parent] /\ dumped[Child] = Null
        BY <1>5, <1>6, <2>1, <3>2
      <4>2. d.ref \in Present(Parent)
        BY <1>5, <2>2, <2>5, <3>2
      <4>3. dumped[Parent] # Null => Present(Parent) \subseteq Ids(dumped[Parent]) \cup moved
        BY <1>1, <4>1 DEF ReferencesInv
      <4> QED
        BY <4>1, <4>2, <4>3
    <3> QED
      BY <3>1, <3>2 DEF Table
  <2>6. \A i \in Present(Child) : db[Child][i].ref \in Present(Parent)
    BY <1>1 DEF ReferencesInv
  <2>7. Ids(dumped[Parent])' = Ids(dumped'[Parent])
    BY DEF Ids
  <2> QED
    BY <1>3, <1>10, <2>4, <2>5, <2>6, <2>7 DEF ReferencesInv
<1>14. QuietInv'
  <2> SUFFICES ASSUME quiet, NEW u \in Table, dumped'[u] # Null
               PROVE  dumped'[u] = TableLines(u)
    BY <1>3, <1>10 DEF QuietInv
  <2> QED
    BY <1>1, <1>5 DEF QuietInv
<1> QED
  BY <1>7, <1>8, <1>9, <1>11, <1>12, <1>13, <1>14, Zenon DEF DumpInv
LEMMA DumpSequenceStep ==
    ASSUME DumpInv, NEW t \in Table, DumpSequence(t)
    PROVE  DumpInv'
<1>1. /\ TypeOK /\ ProgressInv /\ FileInv /\ SequencesInv /\ ManifestInv /\ ReferencesInv
      /\ QuietInv /\ ReturnedFileWhole /\ LeftoverOnlyIfEarly
  BY Zenon DEF DumpInv
<1>2. /\ pc = "sequences" /\ order[at + 1] = t
      /\ setval' = [setval EXCEPT ![t] = seq[t]]
      /\ IF LastTurn
         THEN pc' = "done" /\ at' = 0 /\ file' = [file EXCEPT !.written = "all"]
         ELSE pc' = pc /\ at' = at + 1 /\ file' = file
      /\ UNCHANGED <<manifest, dumped>>
      /\ UNCHANGED <<dbVars, call, writes, historyVars>>
  BY DEF DumpSequence, DumpStep, SequenceSetval
<1>3. UNCHANGED <<db, seq, order, call, writes, between, moved, quiet, early>>
  BY <1>2 DEF dbVars, historyVars
<1>4. \/ at = 1 /\ pc' = "done" /\ at' = 0 /\ file' = [file EXCEPT !.written = "all"]
      \/ at = 0 /\ pc' = "sequences" /\ at' = 1 /\ file' = file
  <2>1. at < 2
    BY <1>1, <1>2 DEF ProgressInv
  <2> QED
    BY <1>1, <1>2, <2>1, OrderIs
<1>5. /\ setval'[t] = seq[t] /\ setval'[t] # Null
      /\ \A u \in Table \ {t} : setval'[u] = setval[u]
      /\ setval' \in [Table -> SequenceState \cup {Null}]
  <2>1. seq[t] \in SequenceState
    BY <1>1 DEF TypeOK
  <2> QED
    BY <1>1, <1>2, <2>1, NullAssumption DEF TypeOK
<1>6. file.exists \in BOOLEAN /\ file' \in [exists: BOOLEAN, written: {"no", "part", "all"}]
      /\ file'.exists = file.exists
  BY <1>1, <1>4 DEF TypeOK
<1>7. TypeOK'
  BY <1>1, <1>2, <1>3, <1>4, <1>5, <1>6 DEF TypeOK
<1>8. ProgressInv'
  <2>1. /\ order[1] \in Table /\ order[2] \in Table /\ order[1] # order[2]
        /\ \A u \in Table : u = order[1] \/ u = order[2]
    BY <1>1, OrderIs
  <2>2. \A k \in 1..2 : k <= at => setval[order[k]] # Null
    BY <1>1, <1>2 DEF ProgressInv
  <2>3. call = call' /\ call # "idle" /\ call \notin {"check", "returned"}
    BY <1>1, <1>2, <1>3 DEF ProgressInv
  <2>4. \A u \in Table : dumped'[u] # Null
    BY <1>1, <1>2 DEF ProgressInv
  <2>5. CASE at = 0 /\ pc' = "sequences" /\ at' = 1
    <3>1. setval'[order[1]] # Null
      BY <1>2, <1>5, <2>5
    <3>2. \A k \in 1..2 : k <= at' => setval'[order'[k]] # Null
      BY <1>3, <2>5, <3>1
    <3> QED
      BY <1>3, <2>3, <2>4, <2>5, <3>2 DEF ProgressInv
  <2>6. CASE at = 1 /\ pc' = "done" /\ at' = 0
    <3>1. setval'[order[1]] # Null /\ setval'[order[2]] # Null
      BY <1>2, <1>5, <2>1, <2>2, <2>6
    <3>2. \A u \in Table : setval'[u] # Null
      BY <2>1, <3>1
    <3> QED
      BY <1>3, <2>3, <2>4, <2>6, <3>2 DEF ProgressInv
  <2> QED
    BY <1>4, <2>5, <2>6
<1>9. FileInv' /\ ReturnedFileWhole' /\ LeftoverOnlyIfEarly'
  <2>1. call = call' /\ early' = early /\ call \notin {"idle", "check", "returned"}
    BY <1>1, <1>2, <1>3 DEF ProgressInv
  <2>2. call = "waiting" => file = [exists |-> TRUE, written |-> "part"]
    BY <1>1, <1>2 DEF FileInv
  <2>3. call = "threw" => ~file'.exists \/ early
    BY <1>1, <1>6 DEF FileInv
  <2>4. CASE at = 1 /\ pc' = "done" /\ file' = [file EXCEPT !.written = "all"]
    <3>1. call = "waiting" => file' = [exists |-> TRUE, written |-> "all"]
      <4>1. ASSUME call = "waiting"
            PROVE  file'.exists = TRUE /\ file'.written = "all"
        BY <1>1, <1>6, <2>2, <2>4, <4>1 DEF TypeOK
      <4> QED
        BY <1>6, <4>1
    <3> QED
      BY <2>1, <2>3, <2>4, <3>1 DEF FileInv, LeftoverOnlyIfEarly, ReturnedFileWhole, Returned
  <2>5. CASE at = 0 /\ pc' = "sequences" /\ file' = file
    BY <2>1, <2>2, <2>3, <2>5 DEF FileInv, LeftoverOnlyIfEarly, ReturnedFileWhole, Returned
  <2> QED
    BY <1>4, <2>4, <2>5
<1>10. \A u : Present(u)' = Present(u) /\ TableLines(u)' = TableLines(u)
  BY <1>3, SameRows
<1>11. SequencesInv'
  <2> SUFFICES ASSUME NEW u \in Table
               PROVE  /\ \A i \in Present(u) : NextValue(seq[u]) > i
                      /\ dumped[u] # Null => \A d \in dumped[u] : NextValue(seq[u]) > d.id
                      /\ setval'[u] # Null => dumped[u] # Null
                            /\ \A d \in dumped[u] : NextValue(setval'[u]) > d.id
    BY <1>2, <1>3, <1>10 DEF SequencesInv
  <2>1. dumped[u] # Null
    BY <1>1, <1>2 DEF ProgressInv
  <2>2. CASE u = t
    BY <1>1, <1>5, <2>1, <2>2 DEF SequencesInv
  <2>3. CASE u # t
    BY <1>1, <1>5, <2>3 DEF SequencesInv
  <2> QED
    BY <2>2, <2>3
<1>12. ManifestInv'
  <2>1. \A u : ManifestRead(u)' => ManifestRead(u)
    BY <1>4 DEF ManifestRead
  <2> QED
    BY <1>1, <1>2, <1>3, <2>1, SameManifest
<1>13. ReferencesInv'
  BY <1>1, <1>2, <1>3, <1>10 DEF ReferencesInv, Ids
<1>14. QuietInv'
  BY <1>1, <1>2, <1>3, <1>10 DEF QuietInv
<1> QED
  BY <1>7, <1>8, <1>9, <1>11, <1>12, <1>13, <1>14, Zenon DEF DumpInv

LEMMA DumpFailsStep ==
    ASSUME DumpInv, DumpFails
    PROVE  DumpInv'
<1>1. /\ TypeOK /\ ProgressInv /\ FileInv /\ SequencesInv /\ ManifestInv /\ ReferencesInv
      /\ QuietInv /\ ReturnedFileWhole /\ LeftoverOnlyIfEarly
  BY Zenon DEF DumpInv
<1>2. /\ pc \notin {"idle", "done", "failed"} /\ pc' = "failed"
      /\ UNCHANGED <<at, manifest, dumped, setval, file>>
      /\ UNCHANGED <<dbVars, call, writes, historyVars>>
  BY DEF DumpFails, DumpStep
<1>3. UNCHANGED <<db, seq, order, call, writes, between, moved, quiet, early>>
  BY <1>2 DEF dbVars, historyVars
<1>4. call \notin {"idle", "check", "returned"}
  BY <1>1, <1>2 DEF ProgressInv
<1>5. TypeOK'
  BY <1>1, <1>2, <1>3 DEF TypeOK
<1>6. ProgressInv'
  BY <1>2, <1>3, <1>4 DEF ProgressInv
<1>7. FileInv' /\ ReturnedFileWhole' /\ LeftoverOnlyIfEarly'
  BY <1>1, <1>2, <1>3, <1>4 DEF FileInv, LeftoverOnlyIfEarly, ReturnedFileWhole, Returned
<1>8. SequencesInv' /\ ReferencesInv' /\ QuietInv'
  BY <1>1, <1>2, <1>3, SameReads
<1>9. ManifestInv'
  BY <1>1, <1>2, <1>3, SameManifest DEF ManifestRead
<1> QED
  BY <1>5, <1>6, <1>7, <1>8, <1>9, Zenon DEF DumpInv

-----------------------------------------------------------------------------
(* Steps of the call. *)

LEMMA BeginStep ==
    ASSUME DumpInv, Begin
    PROVE  DumpInv'
<1>1. /\ TypeOK /\ ProgressInv /\ FileInv /\ SequencesInv /\ ManifestInv /\ ReferencesInv
      /\ QuietInv /\ ReturnedFileWhole /\ LeftoverOnlyIfEarly
  BY Zenon DEF DumpInv
<1>2. /\ call = "idle" /\ call' = "waiting" /\ pc' = "manifest"
      /\ UNCHANGED <<at, manifest, dumped, setval, file>>
      /\ UNCHANGED <<dbVars, writes, historyVars>>
  BY DEF Begin
<1>3. UNCHANGED <<db, seq, order, writes, between, moved, quiet, early>>
  BY <1>2 DEF dbVars, historyVars
<1>4. pc = "idle" /\ at = 0 /\ \A t \in Table : dumped[t] = Null
  BY <1>1, <1>2 DEF ProgressInv
<1>5. TypeOK'
  BY <1>1, <1>2, <1>3 DEF TypeOK
<1>6. ProgressInv'
  BY <1>2, <1>3, <1>4 DEF ProgressInv
<1>7. FileInv' /\ ReturnedFileWhole' /\ LeftoverOnlyIfEarly'
  BY <1>1, <1>2, <1>3, <1>4 DEF FileInv, LeftoverOnlyIfEarly, ReturnedFileWhole, Returned
<1>8. SequencesInv' /\ ReferencesInv' /\ QuietInv'
  BY <1>1, <1>2, <1>3, SameReads
<1>9. ManifestInv'
  <2>1. \A t : ~ManifestRead(t)'
    BY <1>2, <1>4 DEF ManifestRead
  <2> QED
    BY <1>1, <1>2, <1>3, <2>1, SameManifest
<1> QED
  BY <1>5, <1>6, <1>7, <1>8, <1>9, Zenon DEF DumpInv

(* The end of the call, one way or another: the dump is not disturbed. *)
LEMMA CallStep ==
    ASSUME DumpInv, UNCHANGED <<dbVars, dumpVars, writes, between, moved, quiet>>,
           TypeOK', call # "idle", call' # "idle", call' \in {"check", "returned"} => pc = "done",
           FileInv', ReturnedFileWhole', LeftoverOnlyIfEarly'
    PROVE  DumpInv'
<1>1. TypeOK /\ ProgressInv /\ SequencesInv /\ ManifestInv /\ ReferencesInv /\ QuietInv
  BY Zenon DEF DumpInv
<1>2. UNCHANGED <<order, pc, at, manifest, dumped, setval, between, moved, quiet>>
  BY DEF dbVars, dumpVars
<1>3. ProgressInv'
  <2>1. pc # "idle"
    BY <1>1 DEF ProgressInv
  <2> QED
    BY <1>1, <1>2, <2>1 DEF ProgressInv
<1>4. SequencesInv' /\ ReferencesInv' /\ QuietInv'
  BY <1>1, <1>2, SameReads
<1>5. ManifestInv'
  BY <1>1, <1>2, SameManifest DEF ManifestRead
<1> QED
  BY <1>3, <1>4, <1>5, Zenon DEF DumpInv

LEMMA CleanupIs ==
    ASSUME TypeOK, cleanupFile
    PROVE  file' \in [exists: BOOLEAN, written: {"no", "part", "all"}] /\ ~file'.exists
  BY DEF TypeOK, cleanupFile

LEMMA EndOfCallStep ==
    ASSUME DumpInv, Timeout \/ DumpReturns \/ DumpThrows \/ CheckFile
    PROVE  DumpInv'
<1>1. /\ TypeOK /\ ProgressInv /\ FileInv /\ ReturnedFileWhole /\ LeftoverOnlyIfEarly
  BY Zenon DEF DumpInv
<1>2. CASE Timeout
  <2>1. /\ call = "waiting" /\ call' = "threw" /\ cleanupFile
        /\ early' = ~file.exists
        /\ UNCHANGED <<dbVars, dumpVars, writes, between, moved, quiet>>
    BY <1>2 DEF Timeout, TimerDue, Throws
  <2>2. UNCHANGED <<db, seq, order, pc, at, manifest, dumped, setval>>
    BY <2>1 DEF dbVars, dumpVars
  <2>3. ~file'.exists /\ file' \in [exists: BOOLEAN, written: {"no", "part", "all"}]
    BY <1>1, <2>1, CleanupIs
  <2>4. file.exists \in BOOLEAN
    BY <1>1 DEF TypeOK
  <2>5. TypeOK'
    BY <1>1, <2>1, <2>2, <2>3, <2>4 DEF TypeOK
  <2>6. FileInv' /\ ReturnedFileWhole' /\ LeftoverOnlyIfEarly'
    BY <1>1, <2>1, <2>2, <2>3 DEF FileInv, ReturnedFileWhole, Returned, LeftoverOnlyIfEarly
  <2> QED
    BY <2>1, <2>5, <2>6, CallStep
<1>3. CASE DumpReturns
  <2>1. /\ call = "waiting" /\ pc = "done" /\ call' = "check"
        /\ UNCHANGED <<dbVars, dumpVars, file, writes, historyVars>>
    BY <1>3 DEF DumpReturns
  <2>2. UNCHANGED <<db, seq, order, pc, at, manifest, dumped, setval, between, moved, quiet, early>>
    BY <2>1 DEF dbVars, dumpVars, historyVars
  <2>3. TypeOK'
    BY <1>1, <2>1, <2>2 DEF TypeOK
  <2>4. FileInv' /\ ReturnedFileWhole' /\ LeftoverOnlyIfEarly'
    BY <1>1, <2>1, <2>2 DEF FileInv, ReturnedFileWhole, Returned, LeftoverOnlyIfEarly
  <2> QED
    BY <2>1, <2>2, <2>3, <2>4, CallStep
<1>4. CASE DumpThrows
  <2>1. /\ call = "waiting" /\ pc = "failed" /\ call' = "threw" /\ cleanupFile
        /\ UNCHANGED <<dbVars, dumpVars, writes, historyVars>>
    BY <1>4 DEF DumpThrows, Throws
  <2>2. UNCHANGED <<db, seq, order, pc, at, manifest, dumped, setval, between, moved, quiet, early>>
    BY <2>1 DEF dbVars, dumpVars, historyVars
  <2>3. ~file'.exists /\ file' \in [exists: BOOLEAN, written: {"no", "part", "all"}]
    BY <1>1, <2>1, CleanupIs
  <2>4. TypeOK'
    BY <1>1, <2>1, <2>2, <2>3 DEF TypeOK
  <2>5. FileInv' /\ ReturnedFileWhole' /\ LeftoverOnlyIfEarly'
    BY <1>1, <2>1, <2>2, <2>3 DEF FileInv, ReturnedFileWhole, Returned, LeftoverOnlyIfEarly
  <2> QED
    BY <2>1, <2>2, <2>4, <2>5, CallStep
<1>5. CASE CheckFile
  <2>1. /\ call = "check"
        /\ \/ file.exists /\ file.written = "all" /\ call' = "returned" /\ file' = file
           \/ call' = "threw" /\ cleanupFile
        /\ UNCHANGED <<dbVars, dumpVars, writes, historyVars>>
    BY <1>5 DEF CheckFile, Throws
  <2>2. UNCHANGED <<db, seq, order, pc, at, manifest, dumped, setval, between, moved, quiet, early>>
    BY <2>1 DEF dbVars, dumpVars, historyVars
  <2>3. pc = "done" /\ \A t \in Table : dumped[t] # Null /\ setval[t] # Null
    BY <1>1, <2>1 DEF ProgressInv
  <2>4. file = [exists |-> TRUE, written |-> "all"]
    BY <1>1, <2>1, <2>3 DEF FileInv
  <2>5. CASE call' = "returned" /\ file' = file
    <3>1. TypeOK'
      BY <1>1, <2>1, <2>2, <2>5 DEF TypeOK
    <3>2. FileInv' /\ ReturnedFileWhole' /\ LeftoverOnlyIfEarly'
      BY <1>1, <2>2, <2>3, <2>4, <2>5 DEF FileInv, ReturnedFileWhole, Returned, LeftoverOnlyIfEarly
    <3> QED
      BY <2>1, <2>2, <2>3, <2>5, <3>1, <3>2, CallStep
  <2>6. CASE call' = "threw" /\ cleanupFile
    <3>1. ~file'.exists /\ file' \in [exists: BOOLEAN, written: {"no", "part", "all"}]
      BY <1>1, <2>6, CleanupIs
    <3>2. TypeOK'
      BY <1>1, <2>1, <2>2, <2>6, <3>1 DEF TypeOK
    <3>3. FileInv' /\ ReturnedFileWhole' /\ LeftoverOnlyIfEarly'
      BY <1>1, <2>2, <2>3, <2>6, <3>1 DEF FileInv, ReturnedFileWhole, Returned, LeftoverOnlyIfEarly
    <3> QED
      BY <2>1, <2>2, <2>6, <3>2, <3>3, CallStep
  <2> QED
    BY <2>1, <2>5, <2>6
<1> QED
  BY <1>2, <1>3, <1>4, <1>5
-----------------------------------------------------------------------------
(* The invariant. *)

LEMMA InitDumpInv == Init => DumpInv
<1> SUFFICES ASSUME Init
             PROVE  DumpInv
  OBVIOUS
<1>1. /\ order \in {<<Parent, Child>>, <<Child, Parent>>}
      /\ call = "idle" /\ pc = "idle" /\ at = 0
      /\ manifest = [t \in Table |-> Null] /\ dumped = [t \in Table |-> Null]
      /\ setval = [t \in Table |-> Null]
      /\ file = [exists |-> FALSE, written |-> "no"]
      /\ writes = MaxWrites
      /\ between = {} /\ moved = {} /\ quiet = TRUE /\ early = FALSE
  BY DEF Init
<1>2. PICK v \in Values, filled \in {{Parent}, Table} :
         /\ db = [t \in Table |-> [i \in Id |->
                    IF i > 1 \/ t \notin filled THEN Null
                    ELSE [ref |-> IF t = Child THEN 1 ELSE Null, value |-> v]]]
         /\ seq = [t \in Table |-> [last |-> 1, called |-> t \in filled]]
  BY DEF Init
<1>3. 1 \in Id /\ \A i \in Id : i \in Nat /\ (i > 1 \/ i = 1)
  BY IdIs DEF Id
<1>4. Parent \in Table /\ Child \in Table /\ Parent \in filled /\ Parent # Child
  BY DEF Table
<1>5. \A t \in Table : [ref |-> IF t = Child THEN 1 ELSE Null, value |-> v] \in Row
  BY <1>3 DEF Row
<1>6. \A t \in Table, i \in Id : db[t][i] \in Row \cup {Null}
  BY <1>2, <1>5
<1>7. db \in [Table -> [Id -> Row \cup {Null}]]
  BY <1>2, <1>5
<1>8. \A t \in Table : seq[t] = [last |-> 1, called |-> t \in filled]
  BY <1>2
<1>9. seq \in [Table -> SequenceState]
  BY <1>2, <1>3 DEF SequenceState
<1>10. writes \in 0..MaxWrites
  BY <1>1
<1>11. TypeOK
  <2>1. /\ manifest \in [Table -> [id: Id, row: Row] \cup {Null}]
        /\ dumped \in [Table -> (SUBSET Dumped) \cup {Null}]
        /\ setval \in [Table -> SequenceState \cup {Null}]
    BY <1>1
  <2>2. file \in [exists: BOOLEAN, written: {"no", "part", "all"}] /\ at \in 0..2
    BY <1>1
  <2> QED
    BY <1>1, <1>7, <1>9, <1>10, <2>1, <2>2 DEF TypeOK
<1>12. ProgressInv /\ FileInv /\ ReturnedFileWhole /\ LeftoverOnlyIfEarly
  BY <1>1 DEF ProgressInv, FileInv, ReturnedFileWhole, Returned, LeftoverOnlyIfEarly
<1>13. \A t \in Table, i \in Id : db[t][i] # Null => i = 1 /\ t \in filled
  BY <1>2, <1>3
<1>14. SequencesInv
  <2> SUFFICES ASSUME NEW t \in Table, NEW i \in Present(t)
               PROVE  NextValue(seq[t]) > i
    BY <1>1 DEF SequencesInv
  <2>1. i = 1 /\ t \in filled
    BY <1>13 DEF Present
  <2>2. (t \in filled) = TRUE
    BY <2>1, Zenon
  <2>3. seq[t] = [last |-> 1, called |-> TRUE]
    BY <1>8, <2>2, Zenon
  <2> QED
    BY <2>1, <2>3 DEF NextValue
<1>15. ManifestInv
  BY <1>1 DEF ManifestInv, ManifestRead
<1>16. ReferencesInv
  <2> SUFFICES ASSUME NEW i \in Present(Child)
               PROVE  db[Child][i].ref \in Present(Parent)
    BY <1>1, <1>4 DEF ReferencesInv
  <2>1. i = 1 /\ Child \in filled
    BY <1>4, <1>13 DEF Present
  <2>2. db[Child][1] = [ref |-> 1, value |-> v]
    BY <1>2, <1>3, <1>4, <2>1
  <2>3. db[Parent][1] = [ref |-> Null, value |-> v]
    BY <1>2, <1>3, <1>4
  <2>4. db[Parent][1] # Null
    BY <1>4, <1>5, <2>3, NullAssumption
  <2> QED
    BY <1>3, <2>1, <2>2, <2>4 DEF Present
<1>17. QuietInv
  BY <1>1 DEF QuietInv
<1> QED
  BY <1>11, <1>12, <1>14, <1>15, <1>16, <1>17, Zenon DEF DumpInv

LEMMA StepDumpInv == DumpInv /\ [Next]_vars => DumpInv'
<1> SUFFICES ASSUME DumpInv, [Next]_vars
             PROVE  DumpInv'
  OBVIOUS
<1>1. CASE Application
  <2>1. ASSUME NEW t \in Table, NEW value \in Values, NEW ref \in Id \cup {Null},
               Insert(t, ref, value)
        PROVE  DumpInv'
    BY <2>1, InsertStep
  <2>2. ASSUME NEW t \in Table, NEW value \in Values, NEW i \in Id, Update(t, i, value)
        PROVE  DumpInv'
    BY <2>2, UpdateStep
  <2>3. ASSUME NEW i \in Id, Delete(i)
        PROVE  DumpInv'
    BY <2>3, DeleteStep
  <2> QED
    BY <1>1, <2>1, <2>2, <2>3 DEF Application
<1>2. CASE Dump
  <2>1. ASSUME NEW t \in Table, ReadFirstRow(t) \/ DumpTable(t) \/ DumpSequence(t)
        PROVE  DumpInv'
    BY <2>1, ReadFirstRowStep, DumpTableStep, DumpSequenceStep
  <2> QED
    BY <1>2, <2>1, OpenFileStep, DumpFailsStep DEF Dump
<1>3. CASE Begin
  BY <1>3, BeginStep
<1>4. CASE Timeout \/ DumpReturns \/ DumpThrows \/ CheckFile
  BY <1>4, EndOfCallStep
<1>5. CASE UNCHANGED vars
  <2>1. UNCHANGED <<db, seq, order, call, pc, at, manifest, dumped, setval, file, writes,
                    between, moved, quiet, early>>
    BY <1>5 DEF vars, dbVars, dumpVars, historyVars
  <2>2. UNCHANGED <<dbVars, dumpVars, historyVars>>
    BY <2>1 DEF dbVars, dumpVars, historyVars
  <2>3. /\ TypeOK /\ ProgressInv /\ FileInv /\ SequencesInv /\ ManifestInv /\ ReferencesInv
        /\ QuietInv /\ ReturnedFileWhole /\ LeftoverOnlyIfEarly
    BY Zenon DEF DumpInv
  <2>4. TypeOK'
    BY <2>1, <2>3 DEF TypeOK
  <2>5. ProgressInv' /\ FileInv' /\ LeftoverOnlyIfEarly'
    BY <2>1, <2>3, Zenon DEF ProgressInv, FileInv, LeftoverOnlyIfEarly
  <2>6. ReturnedFileWhole'
    BY <2>1, <2>3, Zenon DEF ReturnedFileWhole, Returned
  <2>7. SequencesInv' /\ ReferencesInv' /\ QuietInv'
    BY <2>1, <2>2, <2>3, SameReads
  <2>8. ManifestInv'
    BY <2>1, <2>2, <2>3, SameManifest DEF ManifestRead
  <2> QED
    BY <2>4, <2>5, <2>6, <2>7, <2>8, Zenon DEF DumpInv
<1> QED
  BY <1>1, <1>2, <1>3, <1>4, <1>5 DEF Next

(* What a dump has read of a database that goes on changing, what it has   *)
(* written of it, and what becomes of its file, whoever gives up on it.    *)
THEOREM Invariance == Spec => []DumpInv
<1> QED
  BY InitDumpInv, StepDumpInv, PTL DEF Spec

-----------------------------------------------------------------------------
(* Rows are inserted while a dump reads table after table, each outside any *)
(* transaction. The sequences are read after all of them, so the next id    *)
(* that a restored database gives out is one no dumped row has.             *)
THEOREM RestoredIdsAreFree == Spec => []SequencesCoverRows
<1>1. DumpInv => SequencesCoverRows
  <2> SUFFICES ASSUME DumpInv, Returned, NEW t \in Table, NEW d \in dumped[t]
               PROVE  NextValue(setval[t]) > d.id
    BY DEF SequencesCoverRows
  <2>1. ReturnedFileWhole /\ SequencesInv
    BY Zenon DEF DumpInv
  <2>2. setval[t] # Null
    BY <2>1 DEF ReturnedFileWhole
  <2> QED
    BY <2>1, <2>2 DEF SequencesInv
<1> QED
  BY <1>1, Invariance, PTL

(* The manifest is read long before the tables. It has the first row of a  *)
(* sentinel as the file has it, unless that table was written in between.  *)
THEOREM ManifestTellsTheFile == Spec => []ManifestMatches
<1>1. DumpInv => ManifestMatches
  <2> SUFFICES ASSUME DumpInv, Returned, NEW t \in Sentinel \ between
               PROVE  Matches(t)
    BY DEF ManifestMatches
  <2>1. ReturnedFileWhole /\ ManifestInv
    BY Zenon DEF DumpInv
  <2>2. dumped[t] # Null
    BY <2>1 DEF ReturnedFileWhole
  <2> QED
    BY <2>1, <2>2 DEF ManifestInv
<1> QED
  BY <1>1, Invariance, PTL

(* Parents and children are read one after the other, in either order. A   *)
(* dump has a child without its parent only if that parent was inserted or *)
(* deleted since the dump began.                                           *)
THEOREM DanglingHasACause == Spec => []DanglingOnlyIfMoved
<1>1. DumpInv => DanglingOnlyIfMoved
  <2> SUFFICES ASSUME DumpInv, Returned, NEW d \in dumped[Child]
               PROVE  d.ref \in Ids(dumped[Parent]) \cup moved
    BY DEF DanglingOnlyIfMoved
  <2>1. ReturnedFileWhole /\ ReferencesInv
    BY Zenon DEF DumpInv
  <2>2. dumped[Parent] # Null /\ dumped[Child] # Null
    BY <2>1 DEF ReturnedFileWhole, Table
  <2> QED
    BY <2>1, <2>2 DEF ReferencesInv
<1> QED
  BY <1>1, Invariance, PTL

(* A dump during which nobody writes has all the rows there are, and they  *)
(* come back as they were, if a line of the file can be read back at all.  *)
THEOREM QuietDumpIsFaithful ==
    ASSUME RoundTrips
    PROVE  Spec => []QuietDumpRestores
<1>1. DumpInv => QuietDumpRestores
  <2> SUFFICES ASSUME DumpInv, Returned, quiet, NEW t \in Table
               PROVE  /\ Ids(dumped[t]) = Present(t)
                      /\ \A r \in Live(t) : PlainArray(r.value.tags) => r \in Restored(t)
    BY DEF QuietDumpRestores
  <2>1. TypeOK /\ ReturnedFileWhole /\ QuietInv
    BY Zenon DEF DumpInv
  <2>2. dumped[t] = TableLines(t)
    BY <2>1 DEF ReturnedFileWhole, QuietInv
  <2>3. Ids(dumped[t]) = Present(t)
    BY <2>1, <2>2, LinesAre
  <2>4. ASSUME NEW r \in Live(t), PlainArray(r.value.tags)
        PROVE  r \in Restored(t)
    <3>1. PICK i \in Present(t) : r = [id |-> i, ref |-> db[t][i].ref, value |-> db[t][i].value]
      BY DEF Live
    <3>2. db[t][i].value \in Values
      <4>1. db[t][i] \in Row
        BY <2>1, RowsAre
      <4> QED
        BY <4>1 DEF Row
    <3>3. ReadLine(Line(db[t][i].value)) = db[t][i].value
      BY <2>4, <3>1, <3>2, RoundTrips DEF RoundTrips
    <3>4. DumpedRow(t, i) \in dumped[t]
      BY <2>1, <2>2, LinesAre
    <3> DEFINE d == DumpedRow(t, i)
    <3>5. d.id = i /\ d.ref = db[t][i].ref /\ d.line = Line(db[t][i].value)
      BY DEF DumpedRow
    <3> HIDE DEF d
    <3>6. r = [id |-> d.id, ref |-> d.ref, value |-> ReadLine(d.line)]
      BY <3>1, <3>3, <3>5
    <3> QED
      BY <3>4, <3>6 DEF Restored, d
  <2> QED
    BY <2>3, <2>4
<1> QED
  BY <1>1, Invariance, PTL
=============================================================================
