--------------------------- MODULE PostcodeImport ---------------------------
(***************************************************************************)
(* The postcode reference table: load_postcodes.py replaces it, forms.py   *)
(* reads it to resolve the postcode and state of a search.                 *)
(*                                                                         *)
(* The import takes no lock of its own, so what it does under concurrency  *)
(* is what PostgreSQL does at READ COMMITTED (external): a DELETE waits    *)
(* for whoever deletes a row it saw when it began, skips the rows that are *)
(* gone by then and never sees the ones put in their place; an INSERT of a *)
(* pair waits for a transaction that has the pair in hand and fails if a   *)
(* row of another holds it; nobody sees uncommitted rows.                  *)
(***************************************************************************)
EXTENDS Naturals

CONSTANTS
    Importers,   \* load_postcodes processes
    MaxPair,     \* a pair of a postcode and a state is a number, in sorted order
    Archives,    \* what archives may hold: the rows read, and whether all are valid
    MaxImports   \* bound: times the command is run

Pairs == 0..MaxPair
Code(p) == p \div 2
State(p) == p % 2
Codes == {Code(p) : p \in Pairs}
States == {0, 1}

ASSUME ImportAssumption ==
    /\ MaxPair \in Nat
    /\ MaxImports \in Nat
    /\ Archives \subseteq [rows : SUBSET Pairs, good : BOOLEAN]

NoArchive == [rows |-> {}, good |-> FALSE]

VARIABLES
    table,     \* the committed Postcode rows, each with the run that wrote it
    imports,   \* run, archive, snapshot and uncommitted changes of each import;
               \* history, met: the runs that committed since its DELETE began
    answer,    \* what the last form made of its postcode and state
    begun,     \* times the command was run
    mixed      \* history: another run committed during the last one to commit

vars == <<table, imports, answer, begun, mixed>>

Idle == [at |-> "idle", run |-> 0, archive |-> NoArchive, seen |-> {}, deleted |-> {},
         inserted |-> {}, met |-> {}]

PairsIn(rows) == {r.pair : r \in rows}

-----------------------------------------------------------------------------
(* load_postcodes                                                          *)

\* Mutant: every statement commits by itself.
OutsideAtOnce(rows) == rows

\* What others see of rows that are not committed.
Outside(rows) == table

Read(i) ==
    /\ imports[i].at = "idle"
    /\ begun < MaxImports
    /\ begun' = begun + 1
    /\ \E a \in Archives :
          imports' = [imports EXCEPT ![i] = [Idle EXCEPT !.at = "read", !.run = begun + 1, !.archive = a]]
    /\ UNCHANGED <<table, answer, mixed>>

\* Mutant: rows before an invalid one are loaded.
LoadableSoFar(a) == a.rows # {}

Loadable(a) == a.good /\ a.rows # {}

\* CommandError: nothing was touched.
Refuse(i) ==
    /\ imports[i].at = "read"
    /\ ~Loadable(imports[i].archive)
    /\ imports' = [imports EXCEPT ![i] = Idle]
    /\ UNCHANGED <<table, answer, begun, mixed>>

\* The snapshot of the DELETE.
BeginDelete(i) ==
    /\ imports[i].at = "read"
    /\ Loadable(imports[i].archive)
    /\ imports' = [imports EXCEPT ![i].at = "deleting", ![i].seen = table]
    /\ UNCHANGED <<table, answer, begun, mixed>>

\* Of its snapshot, what others have not deleted and committed.
Delete(i) ==
    /\ imports[i].at = "deleting"
    /\ \A k \in Importers \ {i} : imports[k].deleted \cap imports[i].seen = {}
    /\ imports' = [imports EXCEPT ![i].at = "inserting", ![i].deleted = imports[i].seen \cap table]
    /\ table' = Outside(table \ imports[i].seen)
    /\ UNCHANGED <<answer, begun, mixed>>

Missing(i) == imports[i].archive.rows \ imports[i].inserted

\* Mutant: the rows are inserted in the order of a Python set.
NextRowsUnsorted(i) == Missing(i)

NextRows(i) == {p \in Missing(i) : \A q \in Missing(i) : p <= q}

Written(m) == {[pair |-> p, run |-> m.run] : p \in m.inserted}

Insert(i) ==
    /\ imports[i].at = "inserting"
    /\ \E p \in NextRows(i) :
        /\ \A k \in Importers \ {i} : p \notin PairsIn(imports[k].deleted) \cup imports[k].inserted
        /\ p \notin PairsIn(table \ imports[i].deleted)
        /\ imports' = [imports EXCEPT ![i].inserted = @ \cup {p}]
        /\ table' = Outside(table \cup {[pair |-> p, run |-> imports[i].run]})
    /\ UNCHANGED <<answer, begun, mixed>>

\* IntegrityError: the pair is there, in a row that this import did not delete and
\* nobody is deleting.
Conflict(i) ==
    /\ imports[i].at = "inserting"
    /\ \E p \in NextRows(i) :
        p \in PairsIn(table \ UNION {imports[k].deleted : k \in Importers})
    /\ imports' = [imports EXCEPT ![i] = Idle]
    /\ UNCHANGED <<table, answer, begun, mixed>>

Commit(i) ==
    /\ imports[i].at = "inserting"
    /\ Missing(i) = {}
    /\ table' = (table \ imports[i].deleted) \cup Written(imports[i])
    /\ mixed' = (imports[i].met # {})
    /\ imports' =
         [k \in Importers |->
            IF k = i THEN Idle
            ELSE IF imports[k].at \in {"deleting", "inserting"}
                 THEN [imports[k] EXCEPT !.met = @ \cup {imports[i].run}]
                 ELSE imports[k]]
    /\ UNCHANGED <<answer, begun>>

\* The process or its connection dies, or PostgreSQL ends a deadlock at the
\* import's expense: the transaction is rolled back.
Crash(i) ==
    /\ imports[i].at # "idle"
    /\ imports' = [imports EXCEPT ![i] = Idle]
    /\ UNCHANGED <<table, answer, begun, mixed>>

-----------------------------------------------------------------------------
(* SearchForm.clean                                                        *)

Blank == 2    \* no state chosen

StatesOf(c) == {State(p) : p \in {q \in PairsIn(table) : Code(q) = c}}

\* The state the form settles on; none when it asks again.
Resolved(c, choice) ==
    IF choice = Blank THEN {s \in StatesOf(c) : StatesOf(c) = {s}}
    ELSE StatesOf(c) \cap {choice}

Clean ==
    \E c \in Codes, choice \in States \cup {Blank} :
        /\ answer' = [code |-> c, choice |-> choice, state |-> Resolved(c, choice)]
        /\ UNCHANGED <<table, imports, begun, mixed>>

-----------------------------------------------------------------------------
Init ==
    /\ table = {}
    /\ imports = [i \in Importers |-> Idle]
    /\ begun = 0
    /\ mixed = FALSE
    /\ answer = [code |-> 0, choice |-> Blank, state |-> {}]

Step(i) ==
    Refuse(i) \/ BeginDelete(i) \/ Delete(i) \/ Insert(i) \/ Conflict(i) \/ Commit(i)

Next == Clean \/ \E i \in Importers : Read(i) \/ Step(i) \/ Crash(i)

Spec == Init /\ [][Next]_vars

-----------------------------------------------------------------------------
(* Properties                                                              *)

\* The table changes only when an import with a valid archive commits, and then it is
\* that archive and nothing that was there when the import's DELETE began, whatever
\* other imports have done since. What is left beside it was committed meanwhile and
\* has no pair of the archive: an import that meets one fails. The docstring says
\* "Validate the whole archive before atomically replacing the reference table."
ImportsReplaceTable ==
    [][table' # table =>
        \E i \in Importers : LET import == imports[i]
                                left == {r \in table : r.run \in import.met} IN
            /\ import.at = "inserting" /\ imports'[i].at = "idle"
            /\ import.archive.good
            /\ PairsIn(table') = import.archive.rows \cup PairsIn(left)
            /\ import.archive.rows \cap PairsIn(left) = {}]_vars

\* After an import during which no other committed, and while the next one runs, a form
\* resolves a postcode by one archive, never by a table half replaced: without a choice
\* only when that archive knows a single state for it.
FormsFollowOneArchive ==
    [][answer' # answer /\ answer'.state # {} /\ ~mixed =>
        \E a \in {x \in Archives : x.good} :
            LET known == {State(p) : p \in {q \in a.rows : Code(q) = answer'.code}} IN
            IF answer'.choice = Blank THEN known = answer'.state
            ELSE answer'.state = {answer'.choice} /\ answer'.choice \in known]_vars

\* The rows go in sorted (line 48), so two imports never wait for each other's
\* new rows: no cycle of waits is made of inserts alone.
InsertsNeverCross ==
    \A i, k \in Importers :
        ~(NextRows(i) \cap imports[k].inserted # {} /\ NextRows(k) \cap imports[i].inserted # {})
=============================================================================
