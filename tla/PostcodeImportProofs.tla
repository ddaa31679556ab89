------------------------ MODULE PostcodeImportProofs ------------------------
(***************************************************************************)
(* The postcode import replaces the table whole, for any number of         *)
(* importers and any archives, and two imports that insert never wait for  *)
(* each other in a circle.                                                 *)
(***************************************************************************)
EXTENDS PostcodeImport, TLAPS

Phases == {"idle", "read", "deleting", "inserting"}

Row == [pair : Pairs, run : Nat]

Import == [at : Phases, run : Nat, archive : Archives \cup {NoArchive}, seen : SUBSET Row,
           deleted : SUBSET Row, inserted : SUBSET Pairs, met : SUBSET Nat]

ImportTypeOK ==
    /\ table \in SUBSET Row
    /\ imports \in [Importers -> Import]
    /\ begun \in Nat
    /\ mixed \in BOOLEAN

-----------------------------------------------------------------------------
(* The invariant                                                           *)

Working(m) == m.at \in {"deleting", "inserting"}

\* An import that touches the table holds an archive that passed validation. What
\* it has inserted is of that archive, and below all that is still missing.
Orderly(m) ==
    /\ Working(m) => m.archive \in Archives /\ Loadable(m.archive)
    /\ m.at # "inserting" => m.inserted = {}
    /\ m.inserted \subseteq m.archive.rows
    /\ \A x \in m.inserted, y \in m.archive.rows \ m.inserted : x < y

\* Of the table, an import sees and then deletes just what was committed before its
\* DELETE began.
SeesTheRest(m, rows) ==
    /\ m.at = "deleting" => \A r \in rows : r \in m.seen <=> r.run \notin m.met
    /\ m.at = "inserting" => \A r \in rows : r \in m.deleted <=> r.run \notin m.met
    /\ m.deleted \subseteq m.seen

\* A pair it has inserted is in no row but those it has deleted.
OwnsItsPairs(m, rows) == \A r \in rows : r.pair \in m.inserted => r \in m.deleted

\* No row is of a run that has not committed, or has not begun.
Fresh(m, rows, n) ==
    /\ m.run <= n
    /\ \A r \in m.seen : r.run <= n
    /\ m.at # "idle" => \A r \in rows \cup m.seen : r.run # m.run

\* Before its DELETE an import has met and deleted nothing.
Resting(m) == ~Working(m) => m.met = {} /\ m.deleted = {}

Sound(m, rows, n) ==
    /\ Orderly(m) /\ SeesTheRest(m, rows) /\ OwnsItsPairs(m, rows)
    /\ Fresh(m, rows, n) /\ Resting(m)

\* Two imports are different runs, with no inserted pair in common.
Apart(m, n) ==
    /\ m.inserted \cap n.inserted = {}
    /\ m.at # "idle" => \A r \in n.seen : r.run # m.run
    /\ m.at # "idle" /\ n.at # "idle" => m.run # n.run

\* The table holds one archive unless another run committed during the last one.
OneArchive ==
    ~mixed => table = {} \/ \E a \in Archives : a.good /\ PairsIn(table) = a.rows

ImportInv ==
    /\ ImportTypeOK
    /\ \A r \in table : r.run <= begun
    /\ \A i \in Importers : Sound(imports[i], table, begun)
    /\ \A i, k \in Importers : i # k => Apart(imports[i], imports[k])
    /\ OneArchive

LEMMA PairsAreNumbers == Pairs \subseteq Nat
BY DEF Pairs

LEMMA IdleSound ==
    ASSUME NEW rows, NEW n \in Nat
    PROVE  Idle \in Import /\ Sound(Idle, rows, n)
BY DEF Idle, Import, Phases, NoArchive, Sound, Orderly, SeesTheRest, OwnsItsPairs, Fresh,
   Resting, Working

LEMMA IdleApart ==
    ASSUME NEW m \in Import
    PROVE  Apart(Idle, m) /\ Apart(m, Idle)
BY DEF Idle, Apart

LEMMA ImportInit == Init => ImportInv
<1> SUFFICES ASSUME Init PROVE ImportInv
  OBVIOUS
<1>1. ImportTypeOK
  BY IdleSound DEF Init, ImportTypeOK
<1>2. ASSUME NEW i \in Importers
      PROVE  imports[i] = Idle /\ Sound(imports[i], table, begun)
  BY IdleSound DEF Init
<1>3. ASSUME NEW i \in Importers, NEW k \in Importers
      PROVE  Apart(imports[i], imports[k])
  BY <1>2, IdleApart, IdleSound DEF Import, Init
<1>4. OneArchive
  BY DEF Init, OneArchive
<1>5. \A r \in table : r.run <= begun
  BY DEF Init
<1>6. QED
  BY <1>1, <1>2, <1>3, <1>4, <1>5 DEF ImportInv

LEMMA SoundLater ==
    ASSUME NEW m \in Import, NEW rows, NEW n \in Nat, Sound(m, rows, n)
    PROVE  Sound(m, rows, n + 1)
<1>1. \A r \in m.seen : r.run \in Nat
  BY DEF Import, Row
<1>2. Fresh(m, rows, n + 1)
  BY <1>1 DEF Sound, Fresh, Import
<1>3. QED
  BY <1>2 DEF Sound

\* A step of one import that leaves the table alone.
LEMMA OneMoves ==
    ASSUME ImportInv, NEW i \in Importers, NEW m \in Import,
           imports' = [imports EXCEPT ![i] = m], table' = table, mixed' = mixed,
           begun' \in {begun, begun + 1}, Sound(m, table, begun'),
           \A k \in Importers \ {i} : Apart(m, imports[k]) /\ Apart(imports[k], m)
    PROVE  ImportInv'
<1>1. ImportTypeOK'
  BY DEF ImportInv, ImportTypeOK
<1>2. \A k \in Importers : imports'[k] = IF k = i THEN m ELSE imports[k]
  BY DEF ImportInv, ImportTypeOK
<1>3. ASSUME NEW k \in Importers
      PROVE  Sound(imports'[k], table', begun')
  <2>1. imports[k] \in Import /\ begun \in Nat /\ Sound(imports[k], table, begun)
    BY DEF ImportInv, ImportTypeOK
  <2>2. Sound(imports[k], table, begun')
    BY <2>1, SoundLater
  <2>3. QED
    BY <1>2, <2>2
<1>4. ASSUME NEW k \in Importers, NEW j \in Importers, k # j
      PROVE  Apart(imports'[k], imports'[j])
  <2>1. Apart(imports[k], imports[j])
    BY <1>4 DEF ImportInv
  <2>2. QED
    BY <1>2, <1>4, <2>1
<1>5. OneArchive'
  BY DEF ImportInv, OneArchive
<1>6. \A r \in table' : r.run <= begun'
  BY DEF ImportInv, ImportTypeOK, Row
<1>7. QED
  BY <1>1, <1>3, <1>4, <1>5, <1>6 DEF ImportInv, Sound, Apart, Orderly, SeesTheRest,
     OwnsItsPairs, Fresh, Resting, Working

-----------------------------------------------------------------------------
(* The steps of an import                                                  *)

LEMMA LeavesImport ==
    ASSUME ImportInv, NEW i \in Importers, Refuse(i) \/ Conflict(i) \/ Crash(i)
    PROVE  ImportInv'
<1>1. /\ imports' = [imports EXCEPT ![i] = Idle]
      /\ table' = table /\ mixed' = mixed /\ begun' = begun
  BY DEF Refuse, Conflict, Crash
<1>2. begun \in Nat /\ \A k \in Importers : imports[k] \in Import
  BY DEF ImportInv, ImportTypeOK
<1>3. Idle \in Import /\ Sound(Idle, table, begun)
  BY <1>2, IdleSound
<1>4. \A k \in Importers : Apart(Idle, imports[k]) /\ Apart(imports[k], Idle)
  BY <1>2, IdleApart
<1>5. QED
  BY <1>1, <1>3, <1>4, OneMoves

LEMMA ReadImport ==
    ASSUME ImportInv, NEW i \in Importers, Read(i)
    PROVE  ImportInv'
<1>1. PICK a \in Archives :
        imports' = [imports EXCEPT ![i] = [Idle EXCEPT !.at = "read", !.run = begun + 1,
                                                       !.archive = a]]
  BY DEF Read
<1> DEFINE m == [Idle EXCEPT !.at = "read", !.run = begun + 1, !.archive = a]
<1>2. table' = table /\ mixed' = mixed /\ begun' = begun + 1 /\ begun \in Nat
  BY DEF Read, ImportInv, ImportTypeOK
<1>3. /\ m.at = "read" /\ m.run = begun + 1 /\ m.seen = {} /\ m.deleted = {}
      /\ m.met = {} /\ m.inserted = {} /\ m.archive = a
  BY DEF Idle
<1>4. m \in Import
  <2>1. Idle \in Import /\ begun + 1 \in Nat /\ "read" \in Phases
    BY <1>2, IdleSound DEF Phases
  <2>2. QED
    BY <2>1 DEF Import
<1> HIDE DEF m
<1>5. Sound(m, table, begun')
  <2>1. Orderly(m) /\ SeesTheRest(m, table) /\ OwnsItsPairs(m, table) /\ Resting(m)
    BY <1>3 DEF Orderly, SeesTheRest, OwnsItsPairs, Working, Resting
  <2>2. \A r \in table : r.run \in Nat /\ r.run <= begun
    BY DEF ImportInv, ImportTypeOK, Row
  <2>3. Fresh(m, table, begun')
    BY <1>2, <1>3, <2>2 DEF Fresh
  <2>4. QED
    BY <2>1, <2>3 DEF Sound
<1>6. ASSUME NEW k \in Importers \ {i}
      PROVE  Apart(m, imports[k]) /\ Apart(imports[k], m)
  <2>1. imports[k] \in Import /\ Fresh(imports[k], table, begun)
    BY DEF ImportInv, ImportTypeOK, Sound
  <2>2. imports[k].run \in Nat /\ \A r \in imports[k].seen : r.run \in Nat
    BY <2>1 DEF Import, Row
  <2>3. QED
    BY <1>2, <1>3, <2>1, <2>2 DEF Apart, Fresh
<1>7. QED
  BY <1>1, <1>2, <1>4, <1>5, <1>6, OneMoves DEF m

LEMMA BeginImport ==
    ASSUME ImportInv, NEW i \in Importers, BeginDelete(i)
    PROVE  ImportInv'
<1> DEFINE o == imports[i]
           m == [o EXCEPT !.at = "deleting", !.seen = table]
<1>1. /\ o \in Import /\ o.at = "read" /\ Loadable(o.archive) /\ Sound(o, table, begun)
      /\ table \in SUBSET Row /\ begun \in Nat /\ \A r \in table : r.run <= begun
  BY DEF ImportInv, ImportTypeOK, BeginDelete
<1>2. imports' = [imports EXCEPT ![i] = m] /\ table' = table /\ mixed' = mixed /\ begun' = begun
  BY DEF BeginDelete
<1>3. o.met = {} /\ o.deleted = {}
  BY <1>1 DEF Sound, Resting, Working
<1>4. /\ m \in Import /\ m.at = "deleting" /\ m.seen = table /\ m.met = {} /\ m.deleted = {}
      /\ m.run = o.run /\ m.archive = o.archive /\ m.inserted = o.inserted
  BY <1>1, <1>3 DEF Import, Phases
<1>5. o.archive \in Archives
  BY <1>1 DEF Import, Loadable, NoArchive
<1> HIDE DEF m
<1>6. Sound(m, table, begun')
  BY <1>1, <1>2, <1>4, <1>5
     DEF Sound, Orderly, SeesTheRest, OwnsItsPairs, Fresh, Working, Resting
<1>7. ASSUME NEW k \in Importers \ {i}
      PROVE  Apart(m, imports[k]) /\ Apart(imports[k], m)
  <2>1. /\ Apart(o, imports[k]) /\ Apart(imports[k], o)
        /\ Fresh(imports[k], table, begun)
    BY DEF ImportInv, Sound
  <2>2. QED
    BY <1>1, <1>4, <2>1 DEF Apart, Fresh
<1> HIDE DEF o
<1>8. QED
  BY <1>2, <1>4, <1>6, <1>7, OneMoves

LEMMA DeleteImport ==
    ASSUME ImportInv, NEW i \in Importers, Delete(i)
    PROVE  ImportInv'
<1> DEFINE o == imports[i]
           m == [o EXCEPT !.at = "inserting", !.deleted = o.seen \cap table]
<1>1. /\ o \in Import /\ o.at = "deleting" /\ Sound(o, table, begun)
      /\ table \in SUBSET Row /\ begun \in Nat
  BY DEF ImportInv, ImportTypeOK, Delete
<1>2. imports' = [imports EXCEPT ![i] = m] /\ table' = table /\ mixed' = mixed /\ begun' = begun
  BY DEF Delete, Outside
<1>3. /\ m \in Import /\ m.at = "inserting" /\ m.seen = o.seen /\ m.met = o.met
      /\ m.deleted = o.seen \cap table
      /\ m.run = o.run /\ m.archive = o.archive /\ m.inserted = o.inserted
  BY <1>1 DEF Import, Phases
<1> HIDE DEF m
<1>4. Sound(m, table, begun')
  BY <1>1, <1>2, <1>3 DEF Sound, Orderly, SeesTheRest, OwnsItsPairs, Fresh, Working, Resting
<1>5. ASSUME NEW k \in Importers \ {i}
      PROVE  Apart(m, imports[k]) /\ Apart(imports[k], m)
  <2>1. Apart(o, imports[k]) /\ Apart(imports[k], o)
    BY DEF ImportInv
  <2>2. QED
    BY <1>1, <1>3, <2>1 DEF Apart
<1> HIDE DEF o
<1>6. QED
  BY <1>2, <1>3, <1>4, <1>5, OneMoves

LEMMA InsertImport ==
    ASSUME ImportInv, NEW i \in Importers, Insert(i)
    PROVE  ImportInv'
<1>1. PICK p \in NextRows(i) :
        /\ \A k \in Importers \ {i} :
              p \notin PairsIn(imports[k].deleted) \cup imports[k].inserted
        /\ p \notin PairsIn(table \ imports[i].deleted)
        /\ imports' = [imports EXCEPT ![i].inserted = @ \cup {p}]
  BY DEF Insert
<1> DEFINE o == imports[i]
           m == [o EXCEPT !.inserted = @ \cup {p}]
<1>2. /\ o \in Import /\ o.at = "inserting" /\ Sound(o, table, begun)
      /\ table \in SUBSET Row /\ begun \in Nat
  BY DEF ImportInv, ImportTypeOK, Insert
<1>3. imports' = [imports EXCEPT ![i] = m] /\ table' = table /\ mixed' = mixed /\ begun' = begun
  BY <1>1 DEF Insert, Outside
<1>4. p \in o.archive.rows /\ p \notin o.inserted /\ \A q \in Missing(i) : p <= q
  BY <1>1 DEF NextRows, Missing
<1>5. /\ o.archive \in Archives /\ o.archive.rows \subseteq Nat /\ o.archive.rows \subseteq Pairs
  BY <1>2, ImportAssumption, PairsAreNumbers DEF Sound, Orderly, Working
<1>6. /\ m \in Import /\ m.at = "inserting" /\ m.seen = o.seen /\ m.met = o.met
      /\ m.deleted = o.deleted /\ m.run = o.run /\ m.archive = o.archive
      /\ m.inserted = o.inserted \cup {p}
  BY <1>2, <1>4, <1>5 DEF Import
<1> HIDE DEF m
<1>7. ASSUME NEW x \in m.inserted, NEW y \in m.archive.rows \ m.inserted
      PROVE  x < y
  <2>1. y \in Missing(i) /\ y # p
    BY <1>6, <1>7 DEF Missing
  <2>2. p \in Nat /\ x \in Nat /\ y \in Nat
    BY <1>2, <1>4, <1>5, <1>6, <1>7 DEF Sound, Orderly
  <2>3. CASE x = p
    BY <1>4, <2>1, <2>2, <2>3
  <2>4. CASE x \in o.inserted
    BY <1>2, <2>1, <2>4 DEF Sound, Orderly, Missing
  <2>5. QED
    BY <1>6, <1>7, <2>3, <2>4
<1>8. Sound(m, table, begun')
  <2>1. Orderly(m)
    BY <1>2, <1>4, <1>5, <1>6, <1>7 DEF Sound, Orderly, Working
  <2>2. OwnsItsPairs(m, table)
    BY <1>1, <1>2, <1>6 DEF Sound, OwnsItsPairs, PairsIn
  <2>3. SeesTheRest(m, table) /\ Fresh(m, table, begun') /\ Resting(m)
    BY <1>2, <1>3, <1>6 DEF Sound, SeesTheRest, Fresh, Resting, Working
  <2>4. QED
    BY <2>1, <2>2, <2>3 DEF Sound
<1>9. ASSUME NEW k \in Importers \ {i}
      PROVE  Apart(m, imports[k]) /\ Apart(imports[k], m)
  <2>1. Apart(o, imports[k]) /\ Apart(imports[k], o) /\ p \notin imports[k].inserted
    BY <1>1 DEF ImportInv
  <2>2. QED
    BY <1>2, <1>6, <2>1 DEF Apart
<1> HIDE DEF o
<1>10. QED
  BY <1>3, <1>6, <1>8, <1>9, OneMoves

\* What a commit leaves in the table: the archive, and the rows of those it met.
LEMMA CommittedTable ==
    ASSUME ImportInv, NEW i \in Importers, Commit(i)
    PROVE  LET import == imports[i]
               left == {r \in table : r.run \in import.met} IN
           /\ import.at = "inserting" /\ import.inserted = import.archive.rows
           /\ import.archive \in Archives /\ import.archive.good
           /\ table' = left \cup Written(import)
           /\ PairsIn(table') = import.archive.rows \cup PairsIn(left)
           /\ import.archive.rows \cap PairsIn(left) = {}
<1> DEFINE import == imports[i]
           left == {r \in table : r.run \in import.met}
<1>1. /\ import.at = "inserting" /\ Missing(i) = {}
      /\ table' = (table \ import.deleted) \cup Written(import)
  BY DEF Commit
<1>2. Sound(import, table, begun)
  BY DEF ImportInv
<1>3. import.inserted = import.archive.rows
  BY <1>1, <1>2 DEF Sound, Orderly, Missing
<1>4. left = table \ import.deleted
  BY <1>1, <1>2 DEF Sound, SeesTheRest
<1>5. PairsIn(Written(import)) = import.inserted
  <2>1. \A p \in import.inserted : [pair |-> p, run |-> import.run] \in Written(import)
    BY DEF Written
  <2>2. \A r \in Written(import) : r.pair \in import.inserted
    BY DEF Written
  <2> HIDE DEF import
  <2>3. \A p \in import.inserted : \E r \in Written(import) : r.pair = p
    BY <2>1
  <2>4. QED
    BY <2>2, <2>3 DEF PairsIn
<1>6. PairsIn(table') = PairsIn(left) \cup PairsIn(Written(import))
  BY <1>1, <1>4 DEF PairsIn
<1>7. import.inserted \cap PairsIn(left) = {}
  BY <1>2, <1>4 DEF Sound, OwnsItsPairs, PairsIn
<1>8. QED
  BY <1>1, <1>2, <1>3, <1>4, <1>5, <1>6, <1>7 DEF Sound, Orderly, Working, Loadable

LEMMA CommitImport ==
    ASSUME ImportInv, NEW i \in Importers, Commit(i)
    PROVE  ImportInv'
<1> DEFINE o == imports[i]
<1>1. /\ o.at = "inserting" /\ mixed' = (o.met # {}) /\ begun' = begun
      /\ table' = (table \ o.deleted) \cup Written(o)
  BY DEF Commit
<1>2. /\ imports \in [Importers -> Import] /\ table \in SUBSET Row /\ begun \in Nat
      /\ o \in Import /\ Sound(o, table, begun)
  BY DEF ImportInv, ImportTypeOK
<1>3. Written(o) \subseteq Row /\ \A r \in Written(o) : r.pair \in o.inserted /\ r.run = o.run
  BY <1>2 DEF Written, Row, Import
<1>4. ASSUME NEW k \in Importers
      PROVE  LET met == imports[k].met \cup {o.run} IN
             imports'[k] = IF k = i THEN Idle
                           ELSE IF Working(imports[k]) THEN [imports[k] EXCEPT !.met = met]
                           ELSE imports[k]
  BY DEF Commit, Working
<1>5. ASSUME NEW k \in Importers, k # i
      PROVE  LET n == imports[k]  m == imports'[k] IN
             /\ m \in Import /\ m.at = n.at /\ m.run = n.run /\ m.archive = n.archive
             /\ m.seen = n.seen /\ m.deleted = n.deleted /\ m.inserted = n.inserted
             /\ m.met = IF Working(n) THEN n.met \cup {o.run} ELSE n.met
  <2>1. imports[k] \in Import /\ o.run \in Nat
    BY <1>2 DEF Import
  <2>2. CASE Working(imports[k])
    <3>1. imports'[k] = [imports[k] EXCEPT !.met = imports[k].met \cup {o.run}]
      BY <1>4, <1>5, <2>2
    <3>2. QED
      BY <2>1, <2>2, <3>1 DEF Import
  <2>3. CASE ~Working(imports[k])
    BY <1>4, <1>5, <2>1, <2>3
  <2>4. QED
    BY <2>2, <2>3
<1>6. ImportTypeOK'
  <2>1. imports' = [k \in Importers |-> imports'[k]]
    BY DEF Commit
  <2>2. \A k \in Importers : imports'[k] \in Import
    BY <1>2, <1>4, <1>5, IdleSound
  <2>3. table' \in SUBSET Row
    BY <1>1, <1>2, <1>3
  <2>4. QED
    BY <1>1, <1>2, <2>1, <2>2, <2>3 DEF ImportTypeOK
<1>7. \A r \in table' : r.run <= begun'
  BY <1>1, <1>2, <1>3 DEF ImportInv, Sound, Fresh
<1>8. ASSUME NEW k \in Importers, k # i
      PROVE  Sound(imports'[k], table', begun')
  <2> DEFINE n == imports[k]
             m == imports'[k]
  <2>1. Sound(n, table, begun) /\ Apart(o, n) /\ Apart(n, o)
    BY <1>8 DEF ImportInv
  <2>2. /\ m.at = n.at /\ m.run = n.run /\ m.archive = n.archive
        /\ m.seen = n.seen /\ m.deleted = n.deleted /\ m.inserted = n.inserted
        /\ m.met = IF Working(n) THEN n.met \cup {o.run} ELSE n.met
    BY <1>5, <1>8
  <2>3. \A r \in table' : (r \in table /\ r.run # o.run) \/ r \in Written(o)
    BY <1>1, <1>2 DEF Sound, Fresh
  <2> HIDE DEF m, n, o
  <2>4. Orderly(m) /\ Resting(m)
    BY <2>1, <2>2 DEF Sound, Orderly, Resting, Working
  <2>5. SeesTheRest(m, table')
    <3>1. \A r \in Written(o) : r.run = o.run /\ r \notin n.seen /\ r \notin n.deleted
      BY <1>1, <1>3, <2>1 DEF Apart, Sound, SeesTheRest
    <3>2. QED
      BY <2>1, <2>2, <2>3, <3>1 DEF Sound, SeesTheRest, Working
  <2>6. OwnsItsPairs(m, table')
    BY <1>3, <2>1, <2>2, <2>3 DEF Sound, OwnsItsPairs, Apart
  <2>7. Fresh(m, table', begun')
    BY <1>1, <1>3, <2>1, <2>2, <2>3 DEF Sound, Fresh, Apart
  <2>8. QED
    BY <2>4, <2>5, <2>6, <2>7 DEF Sound, m
<1>9. Sound(imports'[i], table', begun')
  BY <1>1, <1>2, <1>4, IdleSound
<1>10. ASSUME NEW k \in Importers, NEW j \in Importers, k # j
       PROVE  Apart(imports'[k], imports'[j])
  <2>1. CASE k = i \/ j = i
    <3>1. imports'[i] = Idle
      BY <1>4
    <3>2. imports'[k] \in Import /\ imports'[j] \in Import
      BY <1>6 DEF ImportTypeOK
    <3>3. QED
      BY <2>1, <3>1, <3>2, IdleApart
  <2>2. CASE k # i /\ j # i
    <3>1. Apart(imports[k], imports[j])
      BY <1>10 DEF ImportInv
    <3>2. QED
      BY <1>5, <2>2, <3>1 DEF Apart
  <2>3. QED
    BY <2>1, <2>2
<1>11. OneArchive'
  <2>1. o.met = {} => {r \in table : r.run \in o.met} = {}
    OBVIOUS
  <2>2. o.met = {} => PairsIn(table') = o.archive.rows
    BY <2>1, CommittedTable DEF PairsIn
  <2>3. QED
    BY <1>1, <2>2, CommittedTable DEF OneArchive
<1>12. QED
  BY <1>6, <1>7, <1>8, <1>9, <1>10, <1>11 DEF ImportInv, Sound, Apart, Orderly, SeesTheRest,
     OwnsItsPairs, Fresh, Resting, Working

LEMMA ImportNext == ImportInv /\ [Next]_vars => ImportInv'
<1> SUFFICES ASSUME ImportInv, [Next]_vars PROVE ImportInv'
  OBVIOUS
<1>1. CASE Clean \/ UNCHANGED vars
  <2>1. table' = table /\ imports' = imports /\ mixed' = mixed /\ begun' = begun
    BY <1>1 DEF Clean, vars
  <2>2. QED
    BY <2>1 DEF ImportInv, ImportTypeOK, OneArchive, Sound, Apart, Orderly, SeesTheRest,
       OwnsItsPairs, Fresh, Resting, Working
<1>2. ASSUME NEW i \in Importers, Read(i) \/ Step(i) \/ Crash(i)
      PROVE  ImportInv'
  BY <1>2, LeavesImport, ReadImport, BeginImport, DeleteImport, InsertImport, CommitImport
     DEF Step
<1>3. QED
  BY <1>1, <1>2 DEF Next

-----------------------------------------------------------------------------
(* The theorems                                                            *)

\* Two imports that insert never wait for each other's new rows, because each has
\* inserted only rows below its next one (the rows go in sorted, line 48).
THEOREM InsertsNeverCrossHolds == Spec => []InsertsNeverCross
<1>1. ASSUME ImportInv, NEW i \in Importers, NEW k \in Importers,
             NEW x \in NextRows(i) \cap imports[k].inserted,
             NEW y \in NextRows(k) \cap imports[i].inserted
      PROVE  FALSE
  <2>1. Orderly(imports[i]) /\ Orderly(imports[k])
    BY <1>1 DEF ImportInv, Sound
  <2>2. x \in Missing(i) /\ y \in Missing(k)
    BY <1>1 DEF NextRows
  <2>3. y < x /\ x < y
    BY <1>1, <2>1, <2>2 DEF Orderly, Missing
  <2>4. x \in Nat /\ y \in Nat
    <3>1. imports[i] \in Import /\ imports[k] \in Import
      BY <1>1 DEF ImportInv, ImportTypeOK
    <3>2. QED
      BY <1>1, <3>1, PairsAreNumbers DEF Import
  <2>5. QED
    BY <2>3, <2>4
<1>2. ImportInv => InsertsNeverCross
  BY <1>1 DEF InsertsNeverCross
<1>3. QED
  BY <1>2, ImportInit, ImportNext, PTL DEF Spec

\* The table changes only when an import with a valid archive commits. It then holds that
\* archive, nothing that was there when the import's DELETE began, and beside it what
\* others have committed since, which has no pair of the archive.
THEOREM ImportsReplaceTableHolds == Spec => ImportsReplaceTable
<1> DEFINE Replaced(i) ==
             LET import == imports[i]
                 left == {r \in table : r.run \in import.met} IN
             /\ import.at = "inserting" /\ imports'[i].at = "idle"
             /\ import.archive.good
             /\ PairsIn(table') = import.archive.rows \cup PairsIn(left)
             /\ import.archive.rows \cap PairsIn(left) = {}
<1>1. ASSUME ImportInv, [Next]_vars, table' # table
      PROVE  \E i \in Importers : Replaced(i)
  <2>1. PICK i \in Importers : Commit(i)
    BY <1>1 DEF Next, Step, Read, Refuse, BeginDelete, Delete, Insert, Conflict, Crash,
                Clean, Outside, vars
  <2>2. imports'[i] = Idle
    BY <2>1 DEF Commit
  <2>3. imports'[i].at = "idle"
    BY <2>2 DEF Idle
  <2>4. QED
    BY <1>1, <2>1, <2>3, CommittedTable
<1>2. ImportInv /\ [Next]_vars => [table' # table => \E i \in Importers : Replaced(i)]_vars
  BY <1>1
<1>3. QED
  BY <1>2, ImportInit, ImportNext, PTL DEF Spec, ImportsReplaceTable

\* A form that settles on a state does so by one valid archive, however far the next
\* import has come, unless another run committed during the last one (forms.py, clean).
THEOREM FormsFollowOneArchiveHolds == Spec => FormsFollowOneArchive
<1>1. ASSUME ImportInv, [Next]_vars, answer' # answer, answer'.state # {}, ~mixed
      PROVE  \E a \in {x \in Archives : x.good} :
                LET known == {State(p) : p \in {q \in a.rows : Code(q) = answer'.code}} IN
                IF answer'.choice = Blank THEN known = answer'.state
                ELSE answer'.state = {answer'.choice} /\ answer'.choice \in known
  <2>1. Clean
    BY <1>1 DEF Next, Step, Read, Refuse, BeginDelete, Delete, Insert, Conflict, Commit,
                Crash, vars
  <2>2. PICK c \in Codes, choice \in States \cup {Blank} :
          answer' = [code |-> c, choice |-> choice, state |-> Resolved(c, choice)]
    BY <2>1 DEF Clean
  <2>3. table # {}
    BY <1>1, <2>2 DEF Resolved, StatesOf, PairsIn
  <2>4. PICK a \in Archives : a.good /\ PairsIn(table) = a.rows
    BY <1>1, <2>3 DEF ImportInv, OneArchive
  <2>5. StatesOf(c) = {State(p) : p \in {q \in a.rows : Code(q) = answer'.code}}
    BY <2>2, <2>4 DEF StatesOf
  <2>6. IF choice = Blank THEN StatesOf(c) = Resolved(c, choice)
        ELSE Resolved(c, choice) = {choice} /\ choice \in StatesOf(c)
    BY <1>1, <2>2 DEF Resolved
  <2>7. QED
    BY <2>2, <2>4, <2>5, <2>6
<1>2. ImportInv /\ [Next]_vars =>
        [answer' # answer /\ answer'.state # {} /\ ~mixed =>
            \E a \in {x \in Archives : x.good} :
                LET known == {State(p) : p \in {q \in a.rows : Code(q) = answer'.code}} IN
                IF answer'.choice = Blank THEN known = answer'.state
                ELSE answer'.state = {answer'.choice} /\ answer'.choice \in known]_vars
  BY <1>1
<1>3. QED
  BY <1>2, ImportInit, ImportNext, PTL DEF Spec, FormsFollowOneArchive
=============================================================================
