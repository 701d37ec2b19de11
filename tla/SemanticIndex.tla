--------------------------- MODULE SemanticIndex ----------------------------
(***************************************************************************)
(* Builders of the semantic index and the check whether it is current      *)
(* (indexing/semantic.py).                                                 *)
(*                                                                         *)
(* No lock keeps builders apart.  Each reads the published lexical index   *)
(* and, one after another, the source files behind its passages: a file is *)
(* hashed, and opened a second time to be read.  What was read is the      *)
(* input; hashes, counts and vectors of a database stand for the input it  *)
(* was written from, so that two of them agree exactly if the inputs do.   *)
(* Database and health record are replaced one after the other.            *)
(*                                                                         *)
(* The lexical index is the number of the ledger it was built from, for    *)
(* the ledgers follow each other and IndexIsImage holds of it.  Its check, *)
(* the reading of its rows and the comparison of the two fingerprints are  *)
(* one step, and so are the reads of _retrieval_verification.  Size limits *)
(* and vectors of a wrong shape are a build that raises while it embeds.   *)
(***************************************************************************)
EXTENDS Naturals, Sequences, FiniteSets

CONSTANTS
    Builder,    \* processes that call ensure_semantic_index
    Reader,     \* processes that call semantic_status only
    Backend,    \* [Builder \cup Reader -> provider, model and dimensions]
    Ledger,     \* the ledgers to come: .rows are locators, .sources registered
                \* <<path, content>> pairs
    Chunks,     \* [locator -> ranges <<first, last>>]: its pieces of bounded size
    Main,       \* [event -> locator]: what its own row names
    Date,       \* [event -> Nat]
    File,       \* [path -> content] at the start
    Content,    \* contents of files; a hash is the content itself
    Mix,        \* bound: <<builds, edits, calls>> a behaviour may have; an edit is
                \* one of a file or a late publication of a lexical index
    MaxBusy,    \* bound: processes at work at the same time
    None        \* nothing

Process == Builder \cup Reader
Locator == UNION {Ledger[n].rows : n \in DOMAIN Ledger}

ASSUME SemanticConstants ==
    /\ Mix # {} /\ Mix \subseteq Nat \X Nat \X Nat /\ MaxBusy \in Nat
    /\ Builder \cap Reader = {}
    /\ Ledger # <<>> /\ Ledger \in Seq({Ledger[n] : n \in DOMAIN Ledger})
    /\ \A n \in 1..Len(Ledger) - 1 : /\ Ledger[n].rows \subseteq Ledger[n + 1].rows
                                     /\ Ledger[n].sources \subseteq Ledger[n + 1].sources
    /\ \A l \in Locator :
         /\ {l.first, l.last} \subseteq Nat /\ Chunks[l] \subseteq Nat \X Nat
         /\ \A c \in Chunks[l] : l.first <= c[1] /\ c[1] <= c[2] /\ c[2] <= l.last
         /\ l.path \in DOMAIN File
    /\ \A n \in DOMAIN Ledger : \A l \in Ledger[n].rows :
         Main[l.event] \in Ledger[n].rows /\ Main[l.event].event = l.event
    /\ File \in [DOMAIN File -> Content \cup {None}]
    /\ None \notin Content

VARIABLES
    ledger,   \* number of the canonical ledger
    lexical,  \* number of the ledger the published lexical index is of
    file,     \* content of each source file, None when it is gone
    db,       \* semantic.sqlite: .id, .input, .backend and, as history, .edits
              \* while it was built
    health,   \* its health record
    proc,     \* what each process is at
    builds,   \* builds so far
    edits,    \* edits and late publications so far
    calls     \* calls of readers so far

world == <<ledger, lexical, file>>
vars == <<world, db, health, proc, builds, edits, calls>>

Room == Cardinality({p \in Process : proc[p].at # "idle"}) < MaxBusy
Within(b, e, c) == \E m \in Mix : b <= m[1] /\ e <= m[2] /\ c <= m[3]

Idle == [at |-> "idle", then |-> None, rows |-> None, todo |-> {}, passages |-> {},
         input |-> None, health |-> None, seen |-> None, id |-> None, edits |-> 0]

NoHealth == [status |-> "none"]

Init ==
    /\ ledger = 1 /\ lexical = 1
    /\ file = File
    /\ db = None
    /\ health = NoHealth
    /\ proc = [p \in Process |-> Idle]
    /\ builds = 0 /\ edits = 0 /\ calls = 0
-----------------------------------------------------------------------------
(* The world: records and registrations are committed, lexical indexes are *)
(* published, files are edited.                                            *)

Commit ==
    /\ ledger < Len(Ledger)
    /\ ledger' = ledger + 1
    /\ UNCHANGED <<lexical, file, db, health, proc, builds, edits, calls>>

PublishLexical(n) ==
    /\ n # lexical
    /\ n = ledger \/ Within(builds, edits + 1, calls)
    /\ lexical' = n
    /\ edits' = IF n = ledger THEN edits ELSE edits + 1
    /\ UNCHANGED <<ledger, file, db, health, proc, builds, calls>>

EditFile(path, c) ==
    /\ Within(builds, edits + 1, calls)
    /\ c # file[path]
    /\ file' = [file EXCEPT ![path] = c]
    /\ edits' = edits + 1
    /\ UNCHANGED <<ledger, lexical, db, health, proc, builds, calls>>
-----------------------------------------------------------------------------
(* Steps of a process.                                                     *)

At(p, place) == proc[p].at = place
Becomes(p, r) == proc' = [proc EXCEPT ![p] = r]
Stays == UNCHANGED <<world, builds, edits, calls>>
Private == Stays /\ UNCHANGED <<db, health>>

(* _load_semantic_input, then on at the place then.                        *)
Loading(r, then) == [r EXCEPT !.at = "rows", !.then = then, !.passages = {}]
Loaded(p) == [rows |-> proc[p].rows, passages |-> proc[p].passages]

(* ensure_semantic_index after an exception: the health record says so,    *)
(* unless it cannot be written either.                                     *)
Fail(p) ==
    /\ health' \in {health, [status |-> "failed"]}
    /\ Becomes(p, Idle)
    /\ Stays /\ UNCHANGED db

Registered(l, n) == <<l.path, l.sha>> \in Ledger[n].sources

(* Mutant: passages of a source that is not registered.                    *)
PassageRowsAll(n) == Ledger[n].rows

(* Rows of which _source_passages reads anything.                          *)
PassageRows(n) == {l \in Ledger[n].rows : Registered(l, n)}

(* Inside semantic_status a failed load only means that nothing is         *)
(* current, and a build goes on.                                           *)
LoadRows(p) ==
    /\ At(p, "rows")
    /\ IF lexical = ledger
       THEN /\ Becomes(p, [proc[p] EXCEPT !.rows = lexical, !.todo = PassageRows(lexical),
                               !.at = IF PassageRows(lexical) = {} THEN proc[p].then
                                      ELSE "hash"])
            /\ Private
       ELSE IF proc[p].then = "check"
       THEN Becomes(p, IF p \in Reader THEN [Idle EXCEPT !.at = "refused"]
                       ELSE [proc[p] EXCEPT !.at = "embed"]) /\ Private
       ELSE Fail(p)

NextRow(p) == CHOOSE l \in proc[p].todo : TRUE
RowDone(p, passages) ==
    Becomes(p, [proc[p] EXCEPT
        !.todo = @ \ {NextRow(p)}, !.passages = @ \cup passages,
        !.at = IF proc[p].todo = {NextRow(p)} THEN proc[p].then ELSE "hash"])

(* _safe_source_path.                                                      *)
HashSource(p) ==
    /\ At(p, "hash")
    /\ IF file[NextRow(p).path] = NextRow(p).sha
       THEN Becomes(p, [proc[p] EXCEPT !.at = "read"]) ELSE RowDone(p, {})
    /\ Private

(* _source_passages: the file is opened again.                             *)
ReadSource(p) ==
    /\ At(p, "read")
    /\ LET l == NextRow(p)
           text == file[l.path]
       IN  RowDone(p, IF text = None THEN {}
                      ELSE {[event |-> l.event, path |-> l.path, first |-> c[1],
                             last |-> c[2], text |-> text] : c \in Chunks[l]})
    /\ Private
-----------------------------------------------------------------------------
(* semantic_status.                                                        *)

ReadHealth(p) ==
    /\ At(p, "status")
    /\ Becomes(p, Loading([proc[p] EXCEPT !.health = health,
                               !.input = IF p \in Builder THEN Loaded(p) ELSE None], "check"))
    /\ Private

(* verify_semantic_index.                                                  *)
Verified(d, input, backend) == d # None /\ d.input = input /\ d.backend = backend

(* What the checks of the database and the verification see of it.         *)
CheckDatabase(p) ==
    /\ At(p, "check")
    /\ Becomes(p, [proc[p] EXCEPT !.seen = db, !.at = "judge"])
    /\ Private

(* The health record, read at first, is of the database as it is hashed at *)
(* last.                                                                   *)
HealthCurrent(p) ==
    /\ proc[p].health.status = "succeeded"
    /\ proc[p].health.input = Loaded(p)
    /\ proc[p].health.backend = proc[p].seen.backend
    /\ db # None /\ proc[p].health.id = db.id

Judge(p) ==
    /\ At(p, "judge")
    /\ LET structural == Verified(proc[p].seen, Loaded(p), Backend[p])
           current == structural /\ HealthCurrent(p)
           r == [proc[p] EXCEPT !.rows = None, !.passages = {}, !.health = None, !.seen = None]
       IN  Becomes(p, IF p \in Reader
                      THEN [Idle EXCEPT !.at = IF current THEN "current" ELSE "refused"]
                      ELSE IF current THEN Idle
                      ELSE [r EXCEPT !.at = IF structural THEN "repair" ELSE "embed"])
    /\ Private
-----------------------------------------------------------------------------
(* ensure_semantic_index.                                                  *)

BeginBuild(p) ==
    /\ p \in Builder /\ At(p, "idle")
    /\ Room /\ Within(builds + 1, edits, calls)
    /\ builds' = builds + 1
    /\ Becomes(p, Loading([Idle EXCEPT !.id = builds + 1, !.edits = edits], "status"))
    /\ UNCHANGED <<world, db, health, edits, calls>>

(* Mutant: only the lexical fingerprint is compared.                       *)
ConfirmedLexical(p) == proc[p].rows = proc[p].input.rows

(* The input fingerprint of another load is that of the first.             *)
Confirmed(p) == Loaded(p) = proc[p].input

Events(n) == {l.event : l \in Ledger[n].rows}

(* _retrieval_verification: the latest event whose own source is           *)
(* registered, or else the latest, is in the database with its first       *)
(* passage, and its source is intact.                                      *)
Target(n) ==
    LET registered == {e \in Events(n) : Registered(Main[e], n)}
        among == IF registered = {} THEN Events(n) ELSE registered
    IN  CHOOSE e \in among : \A f \in among : Date[f] <= Date[e]

Retrieves(d, input) ==
    \/ Ledger[input.rows].rows = {}
    \/ /\ Ledger[lexical].rows # {} /\ d # None
       /\ LET e == Target(lexical)
              own == {s \in input.passages : s.event = e}
          IN  /\ e \in Events(input.rows) /\ e \in Events(d.input.rows)
              /\ Registered(Main[e], lexical) => file[Main[e].path] = Main[e].sha
              /\ own # {} => (CHOOSE s \in own : TRUE) \in d.input.passages

(* A health record that is missing or of another database is written anew. *)
Repair(p) ==
    /\ At(p, "repair")
    /\ IF Verified(db, proc[p].input, Backend[p])
       THEN Becomes(p, Loading(proc[p], "repaired")) /\ Private ELSE Fail(p)

CheckRepair(p) ==
    /\ At(p, "repaired")
    /\ IF Confirmed(p) /\ Retrieves(db, proc[p].input)
       THEN Becomes(p, Loading(proc[p], "recheck")) /\ Private ELSE Fail(p)

RecheckRepair(p) ==
    /\ At(p, "recheck")
    /\ IF Confirmed(p) THEN Becomes(p, [proc[p] EXCEPT !.at = "record"]) /\ Private ELSE Fail(p)

(* The provider answers, or the build raises; it is not asked when there   *)
(* is nothing to embed.                                                    *)
Embed(p) ==
    /\ At(p, "embed")
    /\ \/ Becomes(p, Loading(proc[p], "staged")) /\ Private
       \/ Ledger[proc[p].input.rows].rows # {} /\ Fail(p)

Staging(p) ==
    [id |-> proc[p].id, input |-> proc[p].input, backend |-> Backend[p],
     edits |-> edits - proc[p].edits]

(* What is checked last does not change before the database is replaced.   *)
Promote(p) ==
    /\ At(p, "staged")
    /\ IF Confirmed(p) /\ Retrieves(Staging(p), proc[p].input)
       THEN /\ db' = Staging(p)
            /\ Becomes(p, Loading(proc[p], "promoted"))
            /\ Stays /\ UNCHANGED health
       ELSE Fail(p)

CheckPromoted(p) ==
    /\ At(p, "promoted")
    /\ IF Confirmed(p) /\ Retrieves(db, proc[p].input)
       THEN Becomes(p, [proc[p] EXCEPT !.at = "record"]) /\ Private ELSE Fail(p)

(* _health_record names the database there is now, whoever built it.       *)
Record(p) ==
    /\ At(p, "record")
    /\ Becomes(p, [proc[p] EXCEPT !.at = "write", !.seen = db])
    /\ Private

(* The record may fail to be written, as any other step.                   *)
WriteHealth(p) ==
    /\ At(p, "write")
    /\ \/ /\ health' = [status |-> "succeeded", input |-> proc[p].input,
                        backend |-> Backend[p], id |-> proc[p].seen.id]
          /\ Becomes(p, Idle)
          /\ Stays /\ UNCHANGED db
       \/ Fail(p)

(* A builder dies; its staging file is no database.                        *)
Die(p) ==
    /\ p \in Builder /\ ~ At(p, "idle")
    /\ Becomes(p, Idle)
    /\ Private

Step(p) ==
    \/ BeginBuild(p)
    \/ LoadRows(p) \/ HashSource(p) \/ ReadSource(p)
    \/ ReadHealth(p) \/ CheckDatabase(p) \/ Judge(p)
    \/ Repair(p) \/ CheckRepair(p) \/ RecheckRepair(p)
    \/ Embed(p) \/ Promote(p) \/ CheckPromoted(p)
    \/ Record(p) \/ WriteHealth(p) \/ Die(p)

World ==
    \/ Commit
    \/ \E n \in 1..ledger : PublishLexical(n)
    \/ \E path \in DOMAIN File, c \in Content : EditFile(path, c)
-----------------------------------------------------------------------------
(* Passages that an input of a ledger may have: pieces of its registered   *)
(* rows, whatever their text.                                              *)
Piece(n) ==
    UNION {{[event |-> l.event, path |-> l.path, first |-> c[1], last |-> c[2], text |-> t] :
              c \in Chunks[l], t \in Content} : l \in {l \in Ledger[n].rows : Registered(l, n)}}
Input == [rows : DOMAIN Ledger, passages : SUBSET UNION {Piece(n) : n \in DOMAIN Ledger}]
IsInput(i) == i \in Input /\ i.passages \subseteq Piece(i.rows)

IndexTypeOK ==
    /\ ledger \in DOMAIN Ledger /\ lexical \in 1..ledger
    /\ file \in [DOMAIN File -> Content \cup {None}]
    /\ Within(builds, edits, calls)
    /\ db # None => db.id \in 1..builds /\ IsInput(db.input)
    /\ health.status = "succeeded" => health.id \in 1..builds /\ IsInput(health.input)
    /\ \A p \in Builder : proc[p].input # None => IsInput(proc[p].input)
=============================================================================
