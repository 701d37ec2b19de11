------------------------ MODULE CandidateSearchProofs -----------------------
(***************************************************************************)
(* Builders of the semantic index, and searches while they publish: for    *)
(* any ledgers, sources, builders, queries, and bounds of CandidateSearch. *)
(***************************************************************************)
EXTENDS CandidateSearch, WellFoundedInduction, TLAPS

ProcField == DOMAIN Idle
LoadPlace == {"rows", "hash", "read"}

(* What a process is loading for, or else where it is.                     *)
Stage(r) == IF r.at \in LoadPlace THEN r.then ELSE r.at

(* The stages that begin with a load: what they have loaded is an input.   *)
LoadStage(p) ==
    {"check", "judge", "staged", "repaired", "recheck", "promoted"}
      \cup IF p \in Builder THEN {"status"} ELSE {}

IsDatabase(d, b) == d.id \in 1..b /\ IsInput(d.input)

(* What a process p has in hand, with b builds so far and the database d.  *)
GoodLoad(p, r) ==
    /\ r.at \in LoadPlace => r.then \in LoadStage(p) \ {"judge"}
    /\ r.at = "rows" => r.passages = {}
    /\ r.at \in {"hash", "read"} => r.todo # {} /\ r.todo \subseteq PassageRows(r.rows)
    /\ r.at \in {"hash", "read"} \cup LoadStage(p) =>
         r.rows \in DOMAIN Ledger /\ r.passages \subseteq Piece(r.rows)

GoodReader(r) ==
    Stage(r) \in {"idle", "serving", "status", "check", "judge", "current", "refused"}

GoodBuilder(r, b, d) ==
    /\ Stage(r) \in {"idle", "status", "check", "judge", "embed", "staged", "promoted",
                     "repair", "repaired", "recheck", "record", "write"}
    /\ Stage(r) # "idle" => r.id \in 1..b
    /\ r.input # None \/ Stage(r) \notin {"idle", "status"} => IsInput(r.input)
    /\ Stage(r) \in {"promoted", "repaired", "recheck", "record", "write"} => IsDatabase(d, b)
    /\ r.at = "write" => r.seen.id \in 1..b

GoodProc(p, r, b, d) ==
    /\ GoodLoad(p, r)
    /\ p \in Reader => GoodReader(r)
    /\ p \in Builder => GoodBuilder(r, b, d)

Shape(r) == r = [f \in ProcField |-> r[f]]

ProcInv ==
    /\ proc = [p \in Process |-> proc[p]]
    /\ \A p \in Process : Shape(proc[p]) /\ GoodProc(p, proc[p], builds, db)

(* What the server's process and the call have in hand.                    *)
CallInv ==
    /\ call # None => call \in Call
    /\ proc[Server].at \notin {"idle", "serving"} => call # None /\ call.at = "semantic"
    /\ proc[Server].at = "current" => IsDatabase(db, builds)
    /\ call # None =>
         /\ call.at = "vectors" => IsDatabase(db, builds)
         /\ call.at = "resolve" => IsInput(call.rows)
         /\ call.at = "lexical" => call.mode # "semantic"

WorldInv ==
    /\ ledger \in DOMAIN Ledger /\ lexical \in 1..ledger
    /\ file \in [DOMAIN File -> Content \cup {None}]
    /\ builds \in Nat /\ edits \in Nat /\ Within(builds, edits, calls)
    /\ db # None => IsDatabase(db, builds)
    /\ health.status = "succeeded" => health.id \in 1..builds /\ IsInput(health.input)

TypeInv == WorldInv /\ ProcInv
-----------------------------------------------------------------------------
LEMMA ConstantTypes ==
    ASSUME SemanticConstants
    PROVE  /\ Len(Ledger) \in Nat \ {0} /\ DOMAIN Ledger = 1..Len(Ledger)
           /\ \A n \in DOMAIN Ledger : Ledger[n].rows \subseteq Locator
           /\ None \notin Content
<1>1. Ledger \in Seq({Ledger[n] : n \in DOMAIN Ledger}) /\ Ledger # <<>>
  BY DEF SemanticConstants
<1> DEFINE S == {Ledger[n] : n \in DOMAIN Ledger}
<1> HIDE DEF S
<1>2. Ledger \in Seq(S)
  BY <1>1 DEF S
<1>3. Len(Ledger) \in Nat \ {0} /\ DOMAIN Ledger = 1..Len(Ledger)
  BY <1>1, <1>2
<1> QED BY <1>3 DEF Locator, SemanticConstants

LEMMA Fields ==
    ProcField = {"at", "then", "rows", "todo", "passages", "input", "health", "seen", "id",
                 "edits"}
BY DEF ProcField, Idle

(* A piece of a registered row, whatever its text.                         *)
LEMMA PieceOfRow ==
    ASSUME NEW n, NEW l \in PassageRows(n), NEW t \in Content
    PROVE  {[event |-> l.event, path |-> l.path, first |-> c[1], last |-> c[2], text |-> t] :
              c \in Chunks[l]} \subseteq Piece(n)
<1> DEFINE piece(k, c, u) == [event |-> k.event, path |-> k.path, first |-> c[1],
                              last |-> c[2], text |-> u]
<1>1. \A c \in Chunks[l] : piece(l, c, t) \in {piece(l, x, u) : x \in Chunks[l], u \in Content}
  OBVIOUS
<1>2. l \in {k \in Ledger[n].rows : Registered(k, n)}
  BY DEF PassageRows
<1> QED BY <1>1, <1>2 DEF Piece

LEMMA PiecesAre ==
    ASSUME NEW n, NEW s \in Piece(n)
    PROVE  \E l \in Ledger[n].rows : \E c \in Chunks[l] : \E t \in Content :
             /\ Registered(l, n)
             /\ s = [event |-> l.event, path |-> l.path, first |-> c[1], last |-> c[2],
                     text |-> t]
BY DEF Piece

LEMMA LoadedIsInput ==
    ASSUME NEW r, r.rows \in DOMAIN Ledger, r.passages \subseteq Piece(r.rows)
    PROVE  IsInput([rows |-> r.rows, passages |-> r.passages])
BY DEF IsInput, Input

LEMMA TypeInvInit == ASSUME SemanticConstants, SearchInit PROVE TypeInv
<1>1. WorldInv
  <2>1. Within(0, 0, 0)
    <3>1. PICK m \in Mix : TRUE
      BY DEF SemanticConstants
    <3>2. m[1] \in Nat /\ m[2] \in Nat /\ m[3] \in Nat
      BY <3>1 DEF SemanticConstants
    <3> QED BY <3>1, <3>2 DEF Within
  <2>2. 1 \in DOMAIN Ledger
    BY ConstantTypes
  <2> QED BY <2>1, <2>2 DEF SearchInit, Init, WorldInv, NoHealth, SemanticConstants
<1>2. proc = [p \in Process |-> Idle]
  BY DEF SearchInit, Init
<1>3. Shape(Idle) /\ Idle.at = "idle" /\ Idle.input = None
  BY DEF Shape, ProcField, Idle
<1>4. ASSUME NEW p \in Process PROVE GoodProc(p, Idle, builds, db)
  BY <1>3 DEF GoodProc, GoodLoad, GoodReader, GoodBuilder, Stage, LoadPlace, LoadStage
<1> QED BY <1>1, <1>2, <1>3, <1>4 DEF TypeInv, ProcInv
-----------------------------------------------------------------------------
(* Steps of a process.                                                     *)

LEMMA InHand ==
    ASSUME SemanticConstants, TypeInv, NEW p \in Process
    PROVE  /\ Shape(proc[p]) /\ GoodLoad(p, proc[p])
           /\ p \in Builder => p \notin Reader /\ GoodBuilder(proc[p], builds, db)
           /\ p \notin Builder => p \in Reader /\ GoodReader(proc[p])
BY DEF TypeInv, ProcInv, GoodProc, Process, SemanticConstants

LEMMA ProcMoves ==
    ASSUME ProcInv, NEW p \in Process, NEW r, Becomes(p, r), Shape(r),
           GoodProc(p, r, builds', db'),
           \A q \in Process : GoodProc(q, proc[q], builds, db)
                                => GoodProc(q, proc[q], builds', db')
    PROVE  ProcInv'
<1>1. proc' = [proc EXCEPT ![p] = r]
  BY DEF Becomes
<1>2. proc'[p] = r /\ \A q \in Process \ {p} : proc'[q] = proc[q]
  BY <1>1 DEF ProcInv
<1>3. proc' = [q \in Process |-> proc'[q]]
  BY <1>1 DEF ProcInv
<1>4. ASSUME NEW q \in Process
      PROVE  Shape(proc'[q]) /\ GoodProc(q, proc'[q], builds', db')
  BY <1>2 DEF ProcInv
<1>5. \A q \in Process : Shape(proc[q])' <=> Shape(proc'[q])
  BY DEF Shape, ProcField
<1>6. \A q \in Process : GoodProc(q, proc[q], builds, db)' <=> GoodProc(q, proc'[q], builds', db')
  OBVIOUS
<1> QED BY <1>3, <1>4, <1>5, <1>6 DEF ProcInv

LEMMA PrivateMove ==
    ASSUME TypeInv, NEW p \in Process, NEW r, Becomes(p, r), Private, Shape(r),
           GoodProc(p, r, builds, db)
    PROVE  TypeInv'
<1>1. UNCHANGED <<ledger, lexical, file, builds, edits, calls, db, health>>
  BY DEF Private, Stays, world
<1>2. WorldInv'
  BY <1>1 DEF TypeInv, WorldInv, Within
<1>3. ProcInv'
  BY <1>1, ProcMoves DEF TypeInv
<1> QED BY <1>2, <1>3 DEF TypeInv

(* A process that is idle has nothing in hand.                             *)
LEMMA NothingInHand ==
    ASSUME NEW p \in Process, NEW b, NEW d
    PROVE  Shape(Idle) /\ Idle.at = "idle" /\ GoodProc(p, Idle, b, d)
<1>1. Shape(Idle) /\ Idle.at = "idle" /\ Idle.input = None
  BY DEF Shape, ProcField, Idle
<1> QED
  BY <1>1 DEF GoodProc, GoodLoad, GoodReader, GoodBuilder, Stage, LoadPlace, LoadStage

LEMMA FailKeepsTypes ==
    ASSUME SemanticConstants, TypeInv, NEW p \in Process, Fail(p)
    PROVE  TypeInv'
<1>1. /\ UNCHANGED <<ledger, lexical, file, builds, edits, calls, db>>
      /\ (health' = health \/ health'.status = "failed") /\ Becomes(p, Idle)
  BY DEF Fail, Stays, world
<1>2. WorldInv'
  BY <1>1 DEF TypeInv, WorldInv, Within
<1>3. Becomes(p, Idle)
  BY DEF Fail
<1>4. ProcInv'
  BY <1>1, <1>3, NothingInHand, ProcMoves DEF TypeInv
<1> QED BY <1>2, <1>4 DEF TypeInv

LEMMA LoadingIs ==
    ASSUME NEW r, Shape(r), NEW then
    PROVE  LET s == Loading(r, then) IN
           /\ Shape(s)
           /\ s.at = "rows" /\ s.then = then /\ s.passages = {}
           /\ s.input = r.input /\ s.id = r.id /\ s.edits = r.edits
BY Fields DEF Shape, Loading

(* A builder goes on to load once more.                                    *)
LEMMA LoadingIsGood ==
    ASSUME NEW p \in Process, NEW r, Shape(r), NEW then \in LoadStage(p) \ {"judge"},
           NEW b, NEW d, p \in Reader => then = "check",
           p \in Builder => /\ r.id \in 1..b
                            /\ r.input # None \/ then # "status" => IsInput(r.input)
                            /\ then \in {"promoted", "repaired", "recheck"} => IsDatabase(d, b)
    PROVE  GoodProc(p, Loading(r, then), b, d)
<1> DEFINE s == Loading(r, then)
<1>1. /\ s.at = "rows" /\ s.then = then /\ s.passages = {}
      /\ s.input = r.input /\ s.id = r.id
  BY LoadingIs
<1> HIDE DEF s
<1>2. Stage(s) = then
  BY <1>1 DEF Stage, LoadPlace
<1>3. GoodLoad(p, s)
  BY <1>1 DEF GoodLoad, LoadPlace, LoadStage
<1>4. p \in Reader => GoodReader(s)
  BY <1>2 DEF GoodReader
<1>5. p \in Builder => GoodBuilder(s, b, d)
  <2>1. then \in {"status", "check", "staged", "repaired", "recheck", "promoted"}
    BY DEF LoadStage
  <2> QED BY <1>1, <1>2, <2>1 DEF GoodBuilder
<1> QED BY <1>3, <1>4, <1>5 DEF GoodProc, s

LEMMA BeginBuildKeepsTypes ==
    ASSUME SemanticConstants, TypeInv, NEW p \in Process, BeginBuild(p)
    PROVE  TypeInv'
<1> DEFINE r == [Idle EXCEPT !.id = builds + 1, !.edits = edits]
<1>1. /\ p \in Builder /\ builds' = builds + 1 /\ builds \in Nat
      /\ Within(builds + 1, edits, calls)
      /\ UNCHANGED <<ledger, lexical, file, edits, calls, db, health>>
  BY DEF BeginBuild, world, TypeInv, WorldInv
<1>2. Becomes(p, Loading(r, "status"))
  BY DEF BeginBuild
<1>3. Shape(r) /\ r.id = builds + 1 /\ r.input = None
  BY DEF Shape, ProcField, Idle
<1> HIDE DEF r
<1>4. p \notin Reader
  BY <1>1 DEF SemanticConstants
<1>5. GoodProc(p, Loading(r, "status"), builds', db')
  <2>1. "status" \in LoadStage(p) \ {"judge"}
    BY <1>1 DEF LoadStage
  <2>2. r.id \in 1..builds'
    BY <1>1, <1>3
  <2> QED BY <1>3, <1>4, <2>1, <2>2, LoadingIsGood
<1>6. \A i : i \in 1..builds => i \in 1..builds'
  BY <1>1
<1>7. ASSUME NEW q \in Process, GoodProc(q, proc[q], builds, db)
      PROVE  GoodProc(q, proc[q], builds', db')
  BY <1>1, <1>6, <1>7 DEF GoodProc, GoodBuilder, IsDatabase
<1>8. Shape(Loading(r, "status"))
  BY <1>3, LoadingIs
<1>9. ProcInv'
  BY <1>2, <1>5, <1>7, <1>8, ProcMoves DEF TypeInv
<1>10. WorldInv'
  <2>1. builds' \in Nat /\ Within(builds', edits', calls')
    BY <1>1 DEF Within
  <2>2. /\ db' # None => IsDatabase(db', builds')
        /\ health'.status = "succeeded" => health'.id \in 1..builds' /\ IsInput(health'.input)
    BY <1>1, <1>6 DEF TypeInv, WorldInv, IsDatabase
  <2> QED BY <1>1, <2>1, <2>2 DEF TypeInv, WorldInv
<1> QED BY <1>9, <1>10 DEF TypeInv

LEMMA LoadRowsKeepsTypes ==
    ASSUME SemanticConstants, TypeInv, NEW p \in Process, LoadRows(p)
    PROVE  TypeInv'
<1>1. /\ proc[p].at = "rows" /\ Shape(proc[p]) /\ GoodLoad(p, proc[p])
      /\ proc[p].then \in LoadStage(p) \ {"judge"} /\ proc[p].passages = {}
      /\ Stage(proc[p]) = proc[p].then
  BY InHand DEF LoadRows, At, GoodLoad, LoadPlace, Stage
<1>2. CASE lexical = ledger
  <2> DEFINE todo == PassageRows(lexical)
             place == IF todo = {} THEN proc[p].then ELSE "hash"
             r == [proc[p] EXCEPT !.rows = lexical, !.todo = todo, !.at = place]
  <2>1. Becomes(p, r) /\ Private
    BY <1>2 DEF LoadRows
  <2>2. /\ Shape(r) /\ r.rows = lexical /\ r.todo = todo /\ r.at = place
        /\ r.then = proc[p].then /\ r.passages = {} /\ r.input = proc[p].input
        /\ r.id = proc[p].id /\ r.seen = proc[p].seen
    BY <1>1, Fields DEF Shape
  <2>3. lexical \in DOMAIN Ledger
    BY <1>2 DEF TypeInv, WorldInv
  <2> HIDE DEF r
  <2>4. Stage(r) = proc[p].then /\ place \notin {"rows", "write"}
    BY <1>1, <2>2 DEF Stage, LoadPlace, LoadStage
  <2>5. GoodLoad(p, r)
    <3>1. place = "hash" => todo # {}
      BY <1>1 DEF LoadStage
    <3>2. todo \subseteq PassageRows(r.rows) /\ {} \subseteq Piece(r.rows)
      BY <2>2
    <3> HIDE DEF todo, place
    <3>3. place \notin {"read"}
      BY <1>1 DEF place, LoadStage
    <3> QED BY <1>1, <2>2, <2>3, <2>4, <3>1, <3>2, <3>3 DEF GoodLoad, LoadPlace
  <2>6. GoodProc(p, r, builds, db)
    BY <1>1, <2>2, <2>4, <2>5, InHand DEF GoodProc, GoodReader, GoodBuilder
  <2> QED BY <2>1, <2>2, <2>6, PrivateMove
<1>3. CASE lexical # ledger /\ proc[p].then = "check" /\ p \in Reader
  <2> DEFINE r == [Idle EXCEPT !.at = "refused"]
  <2>1. Becomes(p, r) /\ Private
    BY <1>3 DEF LoadRows
  <2>2. Shape(r) /\ r.at = "refused"
    BY DEF Shape, ProcField, Idle
  <2> HIDE DEF r
  <2>3. p \notin Builder
    BY <1>3 DEF SemanticConstants
  <2>4. GoodProc(p, r, builds, db)
    BY <2>2, <2>3 DEF GoodProc, GoodLoad, GoodReader, Stage, LoadPlace, LoadStage
  <2> QED BY <2>1, <2>2, <2>4, PrivateMove
<1>4. CASE lexical # ledger /\ proc[p].then = "check" /\ p \notin Reader
  <2> DEFINE r == [proc[p] EXCEPT !.at = "embed"]
  <2>1. Becomes(p, r) /\ Private
    BY <1>4 DEF LoadRows
  <2>2. /\ Shape(r) /\ r.at = "embed" /\ r.input = proc[p].input /\ r.id = proc[p].id
    BY <1>1, Fields DEF Shape
  <2> HIDE DEF r
  <2>3. p \in Builder /\ GoodBuilder(proc[p], builds, db)
    BY <1>4, InHand
  <2>4. GoodLoad(p, r) /\ GoodBuilder(r, builds, db)
    BY <1>1, <1>4, <2>2, <2>3 DEF GoodLoad, GoodBuilder, Stage, LoadPlace, LoadStage
  <2> QED BY <1>4, <2>1, <2>2, <2>4, PrivateMove DEF GoodProc
<1>5. CASE Fail(p)
  BY <1>5, FailKeepsTypes
<1> QED BY <1>2, <1>3, <1>4, <1>5 DEF LoadRows

LEMMA RowDoneKeepsTypes ==
    ASSUME SemanticConstants, TypeInv, NEW p \in Process, proc[p].at \in {"hash", "read"},
           NEW S, S \subseteq Piece(proc[p].rows), RowDone(p, S), Private
    PROVE  TypeInv'
<1> DEFINE todo == proc[p].todo \ {NextRow(p)}
           place == IF proc[p].todo = {NextRow(p)} THEN proc[p].then ELSE "hash"
           r == [proc[p] EXCEPT !.todo = todo, !.passages = @ \cup S, !.at = place]
<1>1. Becomes(p, r)
  BY DEF RowDone
<1>2. /\ Shape(proc[p]) /\ GoodLoad(p, proc[p]) /\ Stage(proc[p]) = proc[p].then
      /\ proc[p].then \in LoadStage(p) \ {"judge"}
      /\ proc[p].rows \in DOMAIN Ledger /\ proc[p].passages \subseteq Piece(proc[p].rows)
      /\ proc[p].todo # {} /\ proc[p].todo \subseteq PassageRows(proc[p].rows)
  BY InHand DEF GoodLoad, LoadPlace, Stage
<1>3. /\ Shape(r) /\ r.rows = proc[p].rows /\ r.todo = todo /\ r.at = place
      /\ r.then = proc[p].then /\ r.passages = proc[p].passages \cup S
      /\ r.input = proc[p].input /\ r.id = proc[p].id /\ r.seen = proc[p].seen
  BY <1>2, Fields DEF Shape
<1>4. place = "hash" => todo # {}
  <2>1. NextRow(p) \in proc[p].todo
    BY <1>2 DEF NextRow
  <2> QED BY <1>2, <2>1 DEF LoadStage
<1> HIDE DEF r
<1>5. Stage(r) = proc[p].then /\ place \notin {"rows", "write"}
  BY <1>2, <1>3 DEF Stage, LoadPlace, LoadStage
<1>6. GoodLoad(p, r)
  <2>1. todo \subseteq PassageRows(r.rows) /\ r.passages \subseteq Piece(r.rows)
    BY <1>2, <1>3
  <2> HIDE DEF todo, place
  <2>2. place \in {"hash"} \cup LoadStage(p)
    BY <1>2 DEF place
  <2> QED BY <1>2, <1>3, <1>4, <1>5, <2>1, <2>2 DEF GoodLoad, LoadPlace, LoadStage
<1>7. GoodProc(p, r, builds, db)
  BY <1>2, <1>3, <1>5, <1>6, InHand DEF GoodProc, GoodReader, GoodBuilder
<1> QED BY <1>1, <1>3, <1>7, PrivateMove

LEMMA RowAtHand ==
    ASSUME SemanticConstants, TypeInv, NEW p \in Process, proc[p].at \in {"hash", "read"}
    PROVE  /\ NextRow(p) \in PassageRows(proc[p].rows) /\ NextRow(p) \in Locator
           /\ NextRow(p).path \in DOMAIN File
           /\ file[NextRow(p).path] \in Content \cup {None}
<1>1. /\ proc[p].todo # {} /\ proc[p].todo \subseteq PassageRows(proc[p].rows)
      /\ proc[p].rows \in DOMAIN Ledger
  BY InHand DEF GoodLoad
<1>2. NextRow(p) \in PassageRows(proc[p].rows)
  BY <1>1 DEF NextRow
<1>3. NextRow(p) \in Locator
  BY <1>1, <1>2, ConstantTypes DEF PassageRows
<1>4. NextRow(p).path \in DOMAIN File
  BY <1>3 DEF SemanticConstants
<1> QED BY <1>2, <1>3, <1>4 DEF TypeInv, WorldInv

LEMMA SourceKeepsTypes ==
    ASSUME SemanticConstants, TypeInv, NEW p \in Process, HashSource(p) \/ ReadSource(p)
    PROVE  TypeInv'
<1>1. CASE HashSource(p) /\ file[NextRow(p).path] = NextRow(p).sha
  <2> DEFINE r == [proc[p] EXCEPT !.at = "read"]
  <2>1. Becomes(p, r) /\ Private /\ proc[p].at = "hash"
    BY <1>1 DEF HashSource, At
  <2>2. Shape(proc[p]) /\ GoodLoad(p, proc[p])
    BY InHand
  <2>3. /\ Shape(r) /\ r.rows = proc[p].rows /\ r.todo = proc[p].todo /\ r.at = "read"
        /\ r.then = proc[p].then /\ r.passages = proc[p].passages
        /\ r.input = proc[p].input /\ r.id = proc[p].id /\ r.seen = proc[p].seen
    BY <2>2, Fields DEF Shape
  <2> HIDE DEF r
  <2>4. Stage(r) = Stage(proc[p])
    BY <2>1, <2>3 DEF Stage, LoadPlace
  <2>5. GoodLoad(p, r)
    BY <2>1, <2>2, <2>3 DEF GoodLoad, LoadPlace, LoadStage
  <2>6. GoodProc(p, r, builds, db)
    BY <2>3, <2>4, <2>5, InHand DEF GoodProc, GoodReader, GoodBuilder
  <2> QED BY <2>1, <2>3, <2>6, PrivateMove
<1>2. CASE HashSource(p) /\ file[NextRow(p).path] # NextRow(p).sha
  BY <1>2, RowDoneKeepsTypes DEF HashSource, At
<1>3. CASE ReadSource(p)
  <2> DEFINE l == NextRow(p)
             text == file[l.path]
             S == IF text = None THEN {}
                  ELSE {[event |-> l.event, path |-> l.path, first |-> c[1],
                         last |-> c[2], text |-> text] : c \in Chunks[l]}
  <2>1. proc[p].at = "read" /\ RowDone(p, S) /\ Private
    BY <1>3 DEF ReadSource, At
  <2>2. l \in PassageRows(proc[p].rows) /\ text \in Content \cup {None}
    BY <2>1, RowAtHand
  <2>3. S \subseteq Piece(proc[p].rows)
    <3> HIDE DEF l, text
    <3> QED BY <2>2, PieceOfRow
  <2> HIDE DEF S
  <2> QED BY <2>1, <2>3, RowDoneKeepsTypes
<1> QED BY <1>1, <1>2, <1>3

(* Where a builder, or the reader, is between two loads.                   *)
LEMMA LoadedAtHand ==
    ASSUME SemanticConstants, TypeInv, NEW p \in Process, proc[p].at \in LoadStage(p)
    PROVE  IsInput(Loaded(p))
<1>1. proc[p].rows \in DOMAIN Ledger /\ proc[p].passages \subseteq Piece(proc[p].rows)
  BY InHand DEF GoodLoad
<1> QED BY <1>1, LoadedIsInput DEF Loaded

LEMMA BuilderAtHand ==
    ASSUME SemanticConstants, TypeInv, NEW p \in Process,
           proc[p].at \in {"embed", "staged", "promoted", "repair", "repaired", "recheck",
                           "record", "write"}
    PROVE  /\ p \in Builder /\ p \notin Reader /\ Shape(proc[p])
           /\ Stage(proc[p]) = proc[p].at /\ proc[p].id \in 1..builds /\ IsInput(proc[p].input)
           /\ proc[p].at \in {"promoted", "repaired", "recheck", "record", "write"} =>
                IsDatabase(db, builds)
           /\ proc[p].at = "write" => proc[p].seen.id \in 1..builds
<1>1. Stage(proc[p]) = proc[p].at
  BY DEF Stage, LoadPlace
<1>2. p \in Builder /\ p \notin Reader
  BY <1>1, InHand DEF GoodReader
<1> QED BY <1>1, <1>2, InHand DEF GoodBuilder

LEMMA LoadsAgain ==
    ASSUME SemanticConstants, TypeInv, NEW p \in Process, NEW then,
           proc[p].at \in {"embed", "staged", "promoted", "repair", "repaired", "recheck"},
           then \in {"staged", "promoted", "repaired", "recheck"},
           then # "staged" => IsDatabase(db, builds),
           Becomes(p, Loading(proc[p], then)), Private
    PROVE  TypeInv'
<1>1. /\ p \in Builder /\ p \notin Reader /\ Shape(proc[p]) /\ proc[p].id \in 1..builds
      /\ IsInput(proc[p].input)
  BY BuilderAtHand
<1>2. then \in LoadStage(p) \ {"judge"}
  BY DEF LoadStage
<1>3. Shape(Loading(proc[p], then)) /\ GoodProc(p, Loading(proc[p], then), builds, db)
  BY <1>1, <1>2, LoadingIs, LoadingIsGood
<1> QED BY <1>3, PrivateMove

LEMMA StatusKeepsTypes ==
    ASSUME SemanticConstants, TypeInv, NEW p \in Process,
           ReadHealth(p) \/ CheckDatabase(p) \/ Judge(p)
    PROVE  TypeInv'
<1>0. Shape(proc[p]) /\ GoodLoad(p, proc[p])
  BY InHand
<1>1. CASE ReadHealth(p)
  <2> DEFINE input == IF p \in Builder THEN Loaded(p) ELSE None
             r == [proc[p] EXCEPT !.health = health, !.input = input]
  <2>1. Becomes(p, Loading(r, "check")) /\ Private /\ proc[p].at = "status"
    BY <1>1 DEF ReadHealth, At
  <2>2. Shape(r) /\ r.input = input /\ r.id = proc[p].id
    BY <1>0, Fields DEF Shape
  <2> HIDE DEF r
  <2>3. p \in Builder => IsInput(input)
    <3>1. p \in Builder => "status" \in LoadStage(p)
      BY DEF LoadStage
    <3> QED BY <2>1, <3>1, LoadedAtHand
  <2>4. p \in Builder => r.id \in 1..builds
    BY <2>1, <2>2, InHand DEF GoodBuilder, Stage, LoadPlace
  <2>5. "check" \in LoadStage(p) \ {"judge"}
    BY DEF LoadStage
  <2> HIDE DEF input
  <2>6. Shape(Loading(r, "check")) /\ GoodProc(p, Loading(r, "check"), builds, db)
    BY <2>2, <2>3, <2>4, <2>5, LoadingIs, LoadingIsGood
  <2> QED BY <2>1, <2>6, PrivateMove
<1>2. CASE CheckDatabase(p)
  <2> DEFINE r == [proc[p] EXCEPT !.seen = db, !.at = "judge"]
  <2>1. Becomes(p, r) /\ Private /\ proc[p].at = "check"
    BY <1>2 DEF CheckDatabase, At
  <2>2. /\ Shape(r) /\ r.at = "judge" /\ r.rows = proc[p].rows
        /\ r.passages = proc[p].passages /\ r.input = proc[p].input /\ r.id = proc[p].id
    BY <1>0, Fields DEF Shape
  <2> HIDE DEF r
  <2>3. GoodLoad(p, r)
    BY <1>0, <2>1, <2>2 DEF GoodLoad, LoadPlace, LoadStage
  <2>4. Stage(r) = "judge" /\ Stage(proc[p]) = "check"
    BY <2>1, <2>2 DEF Stage, LoadPlace
  <2>5. GoodProc(p, r, builds, db)
    BY <2>2, <2>3, <2>4, InHand DEF GoodProc, GoodReader, GoodBuilder
  <2> QED BY <2>1, <2>2, <2>5, PrivateMove
<1>3. CASE Judge(p)
  <2>1. Private /\ proc[p].at = "judge" /\ Stage(proc[p]) = "judge"
    BY <1>3 DEF Judge, At, Stage, LoadPlace
  <2>2. ASSUME NEW place \in {"current", "refused"}, p \in Reader,
               Becomes(p, [Idle EXCEPT !.at = place])
        PROVE  TypeInv'
    <3> DEFINE r == [Idle EXCEPT !.at = place]
    <3>1. Shape(r) /\ r.at = place
      BY DEF Shape, ProcField, Idle
    <3> HIDE DEF r
    <3>2. p \notin Builder
      BY <2>2 DEF SemanticConstants
    <3>3. GoodProc(p, r, builds, db)
      BY <3>1, <3>2 DEF GoodProc, GoodLoad, GoodReader, Stage, LoadPlace, LoadStage
    <3> QED BY <2>1, <2>2, <3>1, <3>3, PrivateMove DEF r
  <2>3. CASE Becomes(p, Idle)
    BY <2>1, <2>3, NothingInHand, PrivateMove
  <2>4. ASSUME NEW place \in {"repair", "embed"}, p \notin Reader,
               Becomes(p, [[proc[p] EXCEPT !.rows = None, !.passages = {}, !.health = None,
                                           !.seen = None] EXCEPT !.at = place])
        PROVE  TypeInv'
    <3> DEFINE r == [[proc[p] EXCEPT !.rows = None, !.passages = {}, !.health = None,
                                     !.seen = None] EXCEPT !.at = place]
    <3>1. Shape(r) /\ r.at = place /\ r.input = proc[p].input /\ r.id = proc[p].id
      BY <1>0, Fields DEF Shape
    <3> HIDE DEF r
    <3>2. p \in Builder /\ GoodBuilder(proc[p], builds, db)
      BY <2>4, InHand
    <3>3. GoodLoad(p, r) /\ GoodBuilder(r, builds, db)
      BY <2>1, <2>4, <3>1, <3>2 DEF GoodLoad, GoodBuilder, Stage, LoadPlace, LoadStage
    <3> QED BY <2>1, <2>4, <3>1, <3>3, PrivateMove DEF GoodProc, r
  <2> DEFINE structural == Verified(proc[p].seen, Loaded(p), Backend[p])
             current == structural /\ HealthCurrent(p)
  <2>5. CASE p \in Reader
    <3>1. Becomes(p, [Idle EXCEPT !.at = IF current THEN "current" ELSE "refused"])
      BY <1>3, <2>5 DEF Judge
    <3> HIDE DEF current
    <3> QED BY <2>2, <2>5, <3>1
  <2>6. CASE p \notin Reader
    <3> DEFINE r == [proc[p] EXCEPT !.rows = None, !.passages = {}, !.health = None,
                                    !.seen = None]
    <3>1. Becomes(p, IF current THEN Idle
                     ELSE [r EXCEPT !.at = IF structural THEN "repair" ELSE "embed"])
      BY <1>3, <2>6 DEF Judge
    <3>2. \/ Becomes(p, Idle) \/ Becomes(p, [r EXCEPT !.at = "repair"])
          \/ Becomes(p, [r EXCEPT !.at = "embed"])
      <4> HIDE DEF current, structural, r
      <4> QED BY <3>1
    <3> QED BY <2>3, <2>4, <2>6, <3>2
  <2> QED BY <2>5, <2>6
<1> QED BY <1>1, <1>2, <1>3

LEMMA RecordsNext ==
    ASSUME SemanticConstants, TypeInv, NEW p \in Process, proc[p].at \in {"recheck", "promoted"},
           Becomes(p, [proc[p] EXCEPT !.at = "record"]), Private
    PROVE  TypeInv'
<1> DEFINE r == [proc[p] EXCEPT !.at = "record"]
<1>1. /\ p \in Builder /\ p \notin Reader /\ Shape(proc[p]) /\ proc[p].id \in 1..builds
      /\ IsInput(proc[p].input) /\ IsDatabase(db, builds)
  BY BuilderAtHand
<1>2. Shape(r) /\ r.at = "record" /\ r.input = proc[p].input /\ r.id = proc[p].id
  BY <1>1, Fields DEF Shape
<1>3. Becomes(p, r)
  OBVIOUS
<1> HIDE DEF r
<1>4. GoodLoad(p, r) /\ GoodBuilder(r, builds, db)
  BY <1>1, <1>2 DEF GoodLoad, GoodBuilder, Stage, LoadPlace, LoadStage
<1>5. GoodProc(p, r, builds, db)
  BY <1>1, <1>4 DEF GoodProc
<1> QED BY <1>2, <1>3, <1>5, PrivateMove

LEMMA RepairKeepsTypes ==
    ASSUME SemanticConstants, TypeInv, NEW p \in Process,
           Repair(p) \/ CheckRepair(p) \/ RecheckRepair(p) \/ Embed(p) \/ CheckPromoted(p)
    PROVE  TypeInv'
<1>1. CASE Fail(p)
  BY <1>1, FailKeepsTypes
<1>2. CASE ~ Fail(p)
  <2>1. CASE Repair(p)
    <3>1. /\ proc[p].at = "repair" /\ db # None
          /\ Becomes(p, Loading(proc[p], "repaired")) /\ Private
      BY <1>2, <2>1 DEF Repair, At, Verified
    <3>2. IsDatabase(db, builds)
      BY <3>1 DEF TypeInv, WorldInv
    <3> QED BY <3>1, <3>2, LoadsAgain
  <2>2. CASE CheckRepair(p)
    <3>1. /\ proc[p].at = "repaired" /\ Becomes(p, Loading(proc[p], "recheck")) /\ Private
      BY <1>2, <2>2 DEF CheckRepair, At
    <3>2. IsDatabase(db, builds)
      BY <3>1, BuilderAtHand
    <3> QED BY <3>1, <3>2, LoadsAgain
  <2>3. CASE RecheckRepair(p)
    BY <1>2, <2>3, RecordsNext DEF RecheckRepair, At
  <2>4. CASE Embed(p)
    BY <1>2, <2>4, LoadsAgain DEF Embed, At
  <2>5. CASE CheckPromoted(p)
    BY <1>2, <2>5, RecordsNext DEF CheckPromoted, At
  <2> QED BY <2>1, <2>2, <2>3, <2>4, <2>5
<1> QED BY <1>1, <1>2

LEMMA PromoteKeepsTypes ==
    ASSUME SemanticConstants, TypeInv, NEW p \in Process, Promote(p)
    PROVE  TypeInv'
<1>1. CASE Fail(p)
  BY <1>1, FailKeepsTypes
<1>2. CASE ~ Fail(p)
  <2>1. /\ proc[p].at = "staged" /\ db' = Staging(p) /\ Becomes(p, Loading(proc[p], "promoted"))
        /\ UNCHANGED <<ledger, lexical, file, builds, edits, calls, health>>
    BY <1>2 DEF Promote, At, Stays, world
  <2>2. /\ p \in Builder /\ p \notin Reader /\ Shape(proc[p]) /\ proc[p].id \in 1..builds
        /\ IsInput(proc[p].input)
    BY <2>1, BuilderAtHand
  <2>3. IsDatabase(db', builds')
    BY <2>1, <2>2 DEF Staging, IsDatabase
  <2>4. WorldInv'
    BY <2>1, <2>3 DEF TypeInv, WorldInv, Within, IsDatabase
  <2>5. "promoted" \in LoadStage(p) \ {"judge"}
    BY DEF LoadStage
  <2>6. /\ Shape(Loading(proc[p], "promoted"))
        /\ GoodProc(p, Loading(proc[p], "promoted"), builds', db')
    BY <2>1, <2>2, <2>3, <2>5, LoadingIs, LoadingIsGood
  <2>7. ASSUME NEW q \in Process, GoodProc(q, proc[q], builds, db)
        PROVE  GoodProc(q, proc[q], builds', db')
    BY <2>1, <2>3, <2>7 DEF GoodProc, GoodBuilder
  <2>8. ProcInv'
    BY <2>1, <2>6, <2>7, ProcMoves DEF TypeInv
  <2> QED BY <2>4, <2>8 DEF TypeInv
<1> QED BY <1>1, <1>2

LEMMA RecordKeepsTypes ==
    ASSUME SemanticConstants, TypeInv, NEW p \in Process, Record(p)
    PROVE  TypeInv'
<1> DEFINE r == [proc[p] EXCEPT !.at = "write", !.seen = db]
<1>1. proc[p].at = "record" /\ Becomes(p, r) /\ Private
  BY DEF Record, At
<1>2. /\ p \in Builder /\ p \notin Reader /\ Shape(proc[p]) /\ proc[p].id \in 1..builds
      /\ IsInput(proc[p].input) /\ IsDatabase(db, builds)
  BY <1>1, BuilderAtHand
<1>3. /\ Shape(r) /\ r.at = "write" /\ r.input = proc[p].input /\ r.id = proc[p].id
      /\ r.seen = db
  BY <1>2, Fields DEF Shape
<1> HIDE DEF r
<1>4. GoodLoad(p, r) /\ GoodBuilder(r, builds, db)
  BY <1>2, <1>3 DEF GoodLoad, GoodBuilder, Stage, LoadPlace, LoadStage, IsDatabase
<1>5. GoodProc(p, r, builds, db)
  BY <1>2, <1>4 DEF GoodProc
<1> QED BY <1>1, <1>3, <1>5, PrivateMove

LEMMA WriteHealthKeepsTypes ==
    ASSUME SemanticConstants, TypeInv, NEW p \in Process, WriteHealth(p)
    PROVE  TypeInv'
<1>1. CASE Fail(p)
  BY <1>1, FailKeepsTypes
<1>2. CASE ~ Fail(p)
  <2>1. /\ proc[p].at = "write" /\ Becomes(p, Idle)
        /\ health' = [status |-> "succeeded", input |-> proc[p].input,
                      backend |-> Backend[p], id |-> proc[p].seen.id]
        /\ UNCHANGED <<ledger, lexical, file, builds, edits, calls, db>>
    BY <1>2 DEF WriteHealth, At, Stays, world
  <2>2. proc[p].seen.id \in 1..builds /\ IsInput(proc[p].input)
    BY <2>1, BuilderAtHand
  <2>3. WorldInv'
    BY <2>1, <2>2 DEF TypeInv, WorldInv, Within
  <2>4. ProcInv'
    BY <2>1, NothingInHand, ProcMoves DEF TypeInv
  <2> QED BY <2>3, <2>4 DEF TypeInv
<1> QED BY <1>1, <1>2

LEMMA StepKeepsTypes ==
    ASSUME SemanticConstants, TypeInv, NEW p \in Process, Step(p)
    PROVE  TypeInv'
<1>1. CASE Die(p)
  BY <1>1, NothingInHand, PrivateMove DEF Die
<1> QED
  BY <1>1, BeginBuildKeepsTypes, LoadRowsKeepsTypes, SourceKeepsTypes, StatusKeepsTypes,
     RepairKeepsTypes, PromoteKeepsTypes, RecordKeepsTypes, WriteHealthKeepsTypes DEF Step
-----------------------------------------------------------------------------
(* What goes on around the processes, and the server's own steps.          *)

LEMMA WorldKeepsTypes ==
    ASSUME SemanticConstants, TypeInv, World
    PROVE  TypeInv'
<1>1. UNCHANGED <<db, health, proc, builds, calls>>
  BY DEF World, Commit, PublishLexical, EditFile
<1>2. ProcInv'
  <2>1. ProcInv
    BY DEF TypeInv
  <2> QED BY <1>1, <2>1 DEF ProcInv, Shape, ProcField
<1>3. ASSUME ledger' \in DOMAIN Ledger, lexical' \in 1..ledger',
             file' \in [DOMAIN File -> Content \cup {None}],
             edits' \in Nat, Within(builds, edits', calls)
      PROVE  WorldInv'
  BY <1>1, <1>3 DEF TypeInv, WorldInv, Within
<1>4. /\ ledger \in 1..Len(Ledger) /\ lexical \in 1..ledger /\ DOMAIN Ledger = 1..Len(Ledger)
      /\ Len(Ledger) \in Nat /\ edits \in Nat /\ Within(builds, edits, calls)
      /\ file \in [DOMAIN File -> Content \cup {None}]
  BY ConstantTypes DEF TypeInv, WorldInv
<1>5. CASE Commit
  <2>1. ledger < Len(Ledger) /\ ledger' = ledger + 1 /\ UNCHANGED <<lexical, file, edits>>
    BY <1>5 DEF Commit
  <2>2. ledger' \in DOMAIN Ledger /\ lexical' \in 1..ledger'
    BY <1>4, <2>1, SMTT(30)
  <2> QED BY <1>2, <1>3, <1>4, <2>1, <2>2 DEF TypeInv
<1>6. ASSUME NEW n \in 1..ledger, PublishLexical(n) PROVE TypeInv'
  <2>1. /\ lexical' = n /\ UNCHANGED <<ledger, file>>
        /\ \/ n = ledger /\ edits' = edits
           \/ edits' = edits + 1 /\ Within(builds, edits + 1, calls)
    BY <1>6 DEF PublishLexical
  <2>2. edits' \in Nat /\ Within(builds, edits', calls)
    BY <1>4, <2>1
  <2> QED BY <1>2, <1>3, <1>4, <2>1, <2>2 DEF TypeInv
<1>7. ASSUME NEW path \in DOMAIN File, NEW c \in Content, EditFile(path, c) PROVE TypeInv'
  <2>1. /\ file' = [file EXCEPT ![path] = c] /\ UNCHANGED <<ledger, lexical>>
        /\ edits' = edits + 1 /\ Within(builds, edits + 1, calls)
    BY <1>7 DEF EditFile
  <2>2. edits' \in Nat /\ Within(builds, edits', calls)
        /\ file' \in [DOMAIN File -> Content \cup {None}]
    BY <1>4, <2>1
  <2> QED BY <1>2, <1>3, <1>4, <2>1, <2>2 DEF TypeInv
<1> QED BY <1>5, <1>6, <1>7 DEF World

LEMMA TheServer ==
    ASSUME SemanticConstants, SearchConstants
    PROVE  Server \in Process /\ Server \in Reader /\ Server \notin Builder
BY DEF SemanticConstants, SearchConstants, Process

(* The server's process answers, waits for semantic_status, or is idle.    *)
LEMMA ServerMoves ==
    ASSUME SemanticConstants, SearchConstants, TypeInv,
           NEW place \in {"idle", "serving", "status"},
           Becomes(Server, [Idle EXCEPT !.at = place]),
           UNCHANGED <<world, db, health, builds, edits>>, Within(builds, edits, calls')
    PROVE  TypeInv' /\ proc'[Server].at = place
<1> DEFINE r == [Idle EXCEPT !.at = place]
<1>1. Becomes(Server, r) /\ Shape(r) /\ r.at = place /\ r.passages = {}
  BY DEF Shape, ProcField, Idle
<1> HIDE DEF r
<1>2. Server \in Process /\ Server \notin Builder
  BY TheServer
<1>3. GoodProc(Server, r, builds, db)
  BY <1>1, <1>2 DEF GoodProc, GoodLoad, GoodReader, Stage, LoadPlace, LoadStage
<1>4. ProcInv'
  BY <1>1, <1>2, <1>3, ProcMoves DEF TypeInv
<1>5. WorldInv'
  BY DEF TypeInv, WorldInv, Within, world
<1>6. proc'[Server] = r
  BY <1>1, <1>2 DEF Becomes, TypeInv, ProcInv
<1> QED BY <1>1, <1>4, <1>5, <1>6 DEF TypeInv

LEMMA IdleIs == Idle = [Idle EXCEPT !.at = "idle"]
BY DEF Idle

(* How a step of the server, in answer to a call, changes its process.     *)
ServerTurn ==
    /\ UNCHANGED <<world, db, health, builds, edits>> /\ Within(builds, edits, calls')
    /\ \/ UNCHANGED proc
       \/ \E place \in {"idle", "serving", "status"} :
            Becomes(Server, [Idle EXCEPT !.at = place])

LEMMA ServerTurns ==
    ASSUME TypeInv, Next, ~ Meanwhile
    PROVE  ServerTurn
<1>0. Within(builds, edits, calls)
  BY DEF TypeInv, WorldInv
<1>1. ASSUME NEW c, Proceeds(c) PROVE ServerTurn
  BY <1>0, <1>1 DEF Proceeds, Quiet, ServerTurn
<1>2. ASSUME NEW why, Raises(why) PROVE ServerTurn
  BY <1>0, <1>2, IdleIs DEF Raises, Quiet, ServerTurn
<1>3. ASSUME NEW why, SemanticFails(why) PROVE ServerTurn
  BY <1>0, <1>2, <1>3 DEF SemanticFails, Serving, Quiet, ServerTurn
<1>4. ASSUME NEW mode \in Mode, NEW eventFirst \in BOOLEAN, NEW query \in Query,
             NEW structural \in BOOLEAN, Search(mode, eventFirst, query, structural)
      PROVE  ServerTurn
  BY <1>4 DEF Search, Serving, ServerTurn
<1>5. CASE FindLexical
  BY <1>1, <1>2, <1>5 DEF FindLexical
<1>6. CASE AskSemantic
  BY <1>0, <1>6 DEF AskSemantic, Quiet, ServerTurn
<1>7. CASE SemanticAnswered
  BY <1>0, <1>3, <1>7 DEF SemanticAnswered, Serving, Quiet, ServerTurn
<1>8. CASE ReadVectors
  BY <1>1, <1>2, <1>3, <1>8 DEF ReadVectors
<1>9. CASE Resolve
  BY <1>1, <1>3, <1>9 DEF Resolve
<1>10. CASE Fuse
  BY <1>1, <1>10 DEF Fuse
<1>11. CASE FuseEvents
  BY <1>1, <1>2, <1>11 DEF FuseEvents
<1>12. CASE Identify
  BY <1>0, <1>2, <1>12, IdleIs DEF Identify, Quiet, ServerTurn
<1> QED
  BY <1>4, <1>5, <1>6, <1>7, <1>8, <1>9, <1>10, <1>11, <1>12 DEF Next

LEMMA TypeInvStep ==
    ASSUME SemanticConstants, SearchConstants, TypeInv, [Next]_searchVars
    PROVE  TypeInv'
<1>1. CASE Meanwhile
  BY <1>1, StepKeepsTypes, WorldKeepsTypes DEF Meanwhile
<1>2. CASE Next /\ ~ Meanwhile
  <2>1. ServerTurn
    BY <1>2, ServerTurns
  <2>2. CASE UNCHANGED proc
    <3>1. WorldInv'
      BY <2>1 DEF ServerTurn, TypeInv, WorldInv, Within, world
    <3>2. ProcInv /\ UNCHANGED <<proc, builds, db>>
      BY <2>1, <2>2 DEF ServerTurn, TypeInv
    <3>3. ProcInv'
      BY <3>2 DEF ProcInv, Shape, ProcField
    <3> QED BY <3>1, <3>3 DEF TypeInv
  <2>3. CASE \E place \in {"idle", "serving", "status"} :
               Becomes(Server, [Idle EXCEPT !.at = place])
    BY <2>1, <2>3, ServerMoves DEF ServerTurn
  <2> QED BY <2>1, <2>2, <2>3 DEF ServerTurn
<1>3. CASE UNCHANGED searchVars
  <2>1. UNCHANGED <<ledger, lexical, file, db, health, proc, builds, edits, calls>>
    BY <1>3 DEF searchVars, vars, world
  <2>2. WorldInv'
    BY <2>1 DEF TypeInv, WorldInv, Within
  <2>3. ProcInv'
    <3>1. ProcInv
      BY DEF TypeInv
    <3> QED BY <2>1, <3>1 DEF ProcInv, Shape, ProcField
  <2> QED BY <2>2, <2>3 DEF TypeInv
<1> QED BY <1>1, <1>2, <1>3
-----------------------------------------------------------------------------
(* Pieces, rows and what a search finds.                                   *)

LEMMA PieceOfItsRow ==
    ASSUME SemanticConstants, NEW n \in DOMAIN Ledger, NEW s \in Piece(n)
    PROVE  /\ s.first \in Nat /\ s.last \in Nat /\ s.first <= s.last
           /\ \E l \in Ledger[n].rows : /\ l.event = s.event /\ l.path = s.path
                                        /\ Registered(l, n)
                                        /\ l.first <= s.first /\ s.last <= l.last
<1>0. PICK l \in Ledger[n].rows :
        \E c \in Chunks[l] : \E t \in Content :
          /\ Registered(l, n)
          /\ s = [event |-> l.event, path |-> l.path, first |-> c[1], last |-> c[2], text |-> t]
  BY PiecesAre
<1>1. PICK c \in Chunks[l] : \E t \in Content :
        /\ Registered(l, n)
        /\ s = [event |-> l.event, path |-> l.path, first |-> c[1], last |-> c[2], text |-> t]
  BY <1>0
<1>2. l \in Locator
  BY ConstantTypes
<1>3. /\ c \in Nat \X Nat /\ l.first <= c[1] /\ c[1] <= c[2] /\ c[2] <= l.last
  BY <1>2 DEF SemanticConstants
<1>4. s.event = l.event /\ s.path = l.path /\ s.first = c[1] /\ s.last = c[2]
  BY <1>1
<1> QED BY <1>1, <1>3, <1>4

(* There is a shortest one of the locators around a passage.               *)
LEMMA ParentIsOne ==
    ASSUME SemanticConstants, lexical \in DOMAIN Ledger,
           NEW s, s.first \in Nat, s.last \in Nat, s.first <= s.last, Parents(s) # {}
    PROVE  Parent(s) \in Parents(s)
<1> DEFINE R == OpToRel(<, Nat)
<1>1. IsWellFoundedOn(R, Nat)
  BY NatLessThanWellFounded
<1>2. \A x, y \in Nat : y < x => <<y, x>> \in R
  BY DEF OpToRel
<1> HIDE DEF R
<1>3. ASSUME NEW l \in Parents(s) PROVE l.last - l.first \in Nat
  <2>1. l \in Locator /\ l.first <= s.first /\ s.last <= l.last
    BY ConstantTypes DEF Parents
  <2>2. l.first \in Nat /\ l.last \in Nat
    BY <2>1 DEF SemanticConstants
  <2>3. \A a, b, c, d \in Nat : a <= c /\ c <= d /\ d <= b => b - a \in Nat
    BY SMTT(30)
  <2> QED BY <2>1, <2>2, <2>3
<1> DEFINE T == {l.last - l.first : l \in Parents(s)}
<1>4. T \in SUBSET Nat /\ T # {}
  BY <1>3
<1>5. PICK m \in T : \A y \in T : <<y, m>> \notin R
  <2> HIDE DEF T
  <2> QED BY <1>1, <1>4, WFMin
<1>6. PICK l \in Parents(s) : m = l.last - l.first
  BY <1>5
<1>7. ASSUME NEW k \in Parents(s) PROVE l.last - l.first <= k.last - k.first
  <2>1. k.last - k.first \in T /\ k.last - k.first \in Nat /\ l.last - l.first \in Nat
    BY <1>3
  <2>2. ~(k.last - k.first < l.last - l.first)
    BY <1>2, <1>5, <1>6, <2>1
  <2> QED BY <2>1, <2>2
<1> QED
  BY <1>7 DEF Parent

(* What a call that resolves its vectors finds.                            *)
Known == Events(call.rows.rows) \cap Events(lexical)
Best == {CHOOSE s \in Hit(e) : TRUE : e \in {e \in Known : Hit(e) # {}}}
Resolved == {Parent(s) : s \in Best} \cup {Main[e] : e \in {e \in Known : Hit(e) = {}}}

LEMMA BestAre ==
    ASSUME SemanticConstants, lexical \in DOMAIN Ledger, IsInput(call.rows)
    PROVE  /\ \A s \in Best : /\ s \in call.rows.passages /\ s.event \in Known
                              /\ Parents(s) # {} => Parent(s) \in Parents(s)
           /\ \A e \in Known : Hit(e) # {} => \E s \in Best : s.event = e
<1>1. ASSUME NEW e, Hit(e) # {}
      PROVE  (CHOOSE s \in Hit(e) : TRUE) \in call.rows.passages
               /\ (CHOOSE s \in Hit(e) : TRUE).event = e
  <2>1. (CHOOSE s \in Hit(e) : TRUE) \in Hit(e)
    BY <1>1
  <2> QED BY <2>1 DEF Hit
<1>2. ASSUME NEW s \in Best PROVE s \in call.rows.passages /\ s.event \in Known
  BY <1>1 DEF Best
<1>3. call.rows.rows \in DOMAIN Ledger /\ call.rows.passages \subseteq Piece(call.rows.rows)
  BY DEF IsInput, Input
<1>4. ASSUME NEW s \in Best, Parents(s) # {} PROVE Parent(s) \in Parents(s)
  <2>1. s.first \in Nat /\ s.last \in Nat /\ s.first <= s.last
    BY <1>2, <1>3, PieceOfItsRow
  <2> QED BY <1>4, <2>1, ParentIsOne
<1> QED BY <1>1, <1>2, <1>4 DEF Best

(* Each of its events is found by a locator of the lexical index.          *)
LEMMA ResolvedAre ==
    ASSUME SemanticConstants, lexical \in DOMAIN Ledger, IsInput(call.rows),
           \A s \in Best : Parents(s) # {}
    PROVE  /\ Resolved \subseteq Ledger[lexical].rows
           /\ {l.event : l \in Resolved} = Known
<1>1. ASSUME NEW s \in Best
      PROVE  Parent(s) \in Ledger[lexical].rows /\ Parent(s).event = s.event /\ s.event \in Known
  <2>1. Parent(s) \in Parents(s) /\ s.event \in Known
    BY BestAre
  <2> QED BY <2>1 DEF Parents
<1>2. ASSUME NEW e \in Known PROVE Main[e] \in Ledger[lexical].rows /\ Main[e].event = e
  <2>1. PICK l \in Ledger[lexical].rows : e = l.event
    BY DEF Known, Events
  <2> QED BY <2>1 DEF SemanticConstants
<1>3. Resolved \subseteq Ledger[lexical].rows
  BY <1>1, <1>2 DEF Resolved
<1>4. ASSUME NEW l \in Resolved PROVE l.event \in Known
  <2>1. (\E s \in Best : l = Parent(s)) \/ (\E e \in Known : l = Main[e])
    BY DEF Resolved
  <2> QED BY <1>1, <1>2, <2>1, SMTT(30)
<1>5. ASSUME NEW e \in Known PROVE \E l \in Resolved : l.event = e
  <2>1. CASE Hit(e) = {}
    BY <1>2, <2>1 DEF Resolved
  <2>2. CASE Hit(e) # {}
    <3>1. PICK s \in Best : s.event = e
      BY <2>2, BestAre
    <3> QED BY <1>1, <3>1 DEF Resolved
  <2> QED BY <2>1, <2>2
<1> QED BY <1>3, <1>4, <1>5

LEMMA ResolveDoes ==
    ASSUME Resolve
    PROVE  /\ call # None /\ call.at = "resolve"
           /\ \/ /\ \E s \in Best : Parents(s) = {}
                 /\ SemanticFails("absent passage")
              \/ /\ \A s \in Best : Parents(s) # {}
                 /\ \E at \in {"lexical", "identity", "canonical", "fuse"} :
                      /\ at = "lexical" => call.mode = "adaptive"
                      /\ Proceeds([call EXCEPT !.found = Resolved, !.rows = None, !.at = at])
<1> DEFINE events == Events(call.rows.rows) \cap Events(lexical)
           best == {CHOOSE s \in Hit(e) : TRUE : e \in {e \in events : Hit(e) # {}}}
           found == {Parent(s) : s \in best} \cup {Main[e] : e \in {e \in events : Hit(e) = {}}}
           at == IF found = {} /\ call.mode = "adaptive" THEN "lexical"
                 ELSE IF call.mode # "hybrid" THEN "identity"
                 ELSE IF call.eventFirst THEN "canonical" ELSE "fuse"
<1>1. /\ call # None /\ call.at = "resolve"
      /\ IF \E s \in best : Parents(s) = {} THEN SemanticFails("absent passage")
         ELSE Proceeds([call EXCEPT !.found = found, !.rows = None, !.at = at])
  BY DEF Resolve
<1>2. events = Known /\ best = Best /\ found = Resolved
  BY DEF Known, Best, Resolved
<1>3. at \in {"lexical", "identity", "canonical", "fuse"}
      /\ (at = "lexical" => call.mode = "adaptive")
  OBVIOUS
<1> HIDE DEF events, best, found, at
<1> QED BY <1>1, <1>2, <1>3
-----------------------------------------------------------------------------
(* What a step of a process tells a search.                                *)

LEMMA StepOf ==
    ASSUME NEW p, Step(p)
    PROVE  (\E r : Becomes(p, r)) /\ UNCHANGED <<ledger, lexical, file, edits, calls>>
<1>1. ASSUME Fail(p) PROVE (\E r : Becomes(p, r)) /\ Stays
  BY <1>1 DEF Fail
<1>2. ASSUME NEW S, RowDone(p, S) PROVE \E r : Becomes(p, r)
  BY <1>2 DEF RowDone
<1>3. CASE BeginBuild(p)
  BY <1>3 DEF BeginBuild, world
<1>4. CASE LoadRows(p)
  BY <1>1, <1>4 DEF LoadRows, Private, Stays, world
<1>5. CASE HashSource(p) \/ ReadSource(p)
  BY <1>2, <1>5 DEF HashSource, ReadSource, Private, Stays, world
<1>6. CASE ReadHealth(p) \/ CheckDatabase(p) \/ Judge(p)
  BY <1>6 DEF ReadHealth, CheckDatabase, Judge, Private, Stays, world
<1>7. CASE Repair(p) \/ CheckRepair(p) \/ RecheckRepair(p)
  BY <1>1, <1>7 DEF Repair, CheckRepair, RecheckRepair, Private, Stays, world
<1>8. CASE Embed(p) \/ Promote(p) \/ CheckPromoted(p)
  BY <1>1, <1>8 DEF Embed, Promote, CheckPromoted, Private, Stays, world
<1>9. CASE Record(p) \/ WriteHealth(p) \/ Die(p)
  BY <1>1, <1>9 DEF Record, WriteHealth, Die, Private, Stays, world
<1> QED BY <1>3, <1>4, <1>5, <1>6, <1>7, <1>8, <1>9 DEF Step

LEMMA StepDatabase ==
    ASSUME SemanticConstants, TypeInv, NEW p \in Process, Step(p), IsDatabase(db, builds)
    PROVE  IsDatabase(db', builds')
<1>1. builds \in Nat
  BY DEF TypeInv, WorldInv
<1>2. ASSUME UNCHANGED <<db, builds>> PROVE IsDatabase(db', builds')
  BY <1>2
<1>3. ASSUME Fail(p) PROVE UNCHANGED <<db, builds>>
  BY <1>3 DEF Fail, Stays
<1>4. CASE BeginBuild(p)
  BY <1>1, <1>4 DEF BeginBuild, IsDatabase
<1>5. CASE Promote(p)
  <2>1. CASE Fail(p)
    BY <1>2, <1>3, <2>1
  <2>2. CASE ~ Fail(p)
    <3>1. proc[p].at = "staged" /\ db' = Staging(p) /\ builds' = builds
      BY <1>5, <2>2 DEF Promote, At, Stays
    <3>2. proc[p].id \in 1..builds /\ IsInput(proc[p].input)
      BY <3>1, BuilderAtHand
    <3> QED BY <3>1, <3>2 DEF Staging, IsDatabase
  <2> QED BY <2>1, <2>2
<1>6. CASE LoadRows(p) \/ HashSource(p) \/ ReadSource(p) \/ ReadHealth(p)
             \/ CheckDatabase(p) \/ Judge(p)
  BY <1>2, <1>3, <1>6
     DEF LoadRows, HashSource, ReadSource, ReadHealth, CheckDatabase, Judge, Private, Stays
<1>7. CASE Repair(p) \/ CheckRepair(p) \/ RecheckRepair(p) \/ Embed(p) \/ CheckPromoted(p)
  BY <1>2, <1>3, <1>7
     DEF Repair, CheckRepair, RecheckRepair, Embed, CheckPromoted, Private, Stays
<1>8. CASE Record(p) \/ WriteHealth(p) \/ Die(p)
  BY <1>2, <1>3, <1>8 DEF Record, WriteHealth, Die, Private, Stays
<1> QED BY <1>4, <1>5, <1>6, <1>7, <1>8 DEF Step

(* semantic_status as the server's process runs it: on the way from s to t *)
(* in one step.                                                            *)
StatusStep(s, t) ==
    \/ s.at = "status" /\ t.at = "rows"
    \/ s.at = "rows" /\ t.at = "refused"
    \/ s.at = "rows" /\ t.at \in {"hash", "check"} /\ t.rows = lexical
    \/ s.at \in {"hash", "read"} /\ t.at \in {"hash", "read", "check"} /\ t.rows = s.rows
    \/ s.at = "check" /\ t.at = "judge" /\ t.rows = s.rows /\ t.seen = db
    \/ s.at = "judge" /\ t.at = "refused"
    \/ /\ s.at = "judge" /\ t.at = "current" /\ db # None
       /\ s.seen.input.rows = s.rows /\ s.seen.backend = Backend[Server]

LEMMA ServerSteps ==
    ASSUME SemanticConstants, SearchConstants, TypeInv, Step(Server)
    PROVE  StatusStep(proc[Server], proc'[Server]) /\ UNCHANGED <<db, builds>>
<1> DEFINE s == proc[Server]
           t == proc'[Server]
<1>1. Server \in Process /\ Server \in Reader /\ Server \notin Builder
  BY TheServer
<1>2. Shape(s) /\ GoodLoad(Server, s) /\ GoodReader(s)
  BY <1>1, InHand
<1>3. ASSUME NEW r, Becomes(Server, r) PROVE t = r
  BY <1>1, <1>3 DEF Becomes, TypeInv, ProcInv
<1>4. s.at \in LoadPlace => s.then = "check"
  BY <1>1, <1>2 DEF GoodLoad, GoodReader, Stage, LoadStage
<1>5. ASSUME NEW S, RowDone(Server, S), s.at \in {"hash", "read"}
      PROVE  t.at \in {"hash", "check"} /\ t.rows = s.rows
  <2> DEFINE place == IF s.todo = {NextRow(Server)} THEN s.then ELSE "hash"
             r == [s EXCEPT !.todo = @ \ {NextRow(Server)}, !.passages = @ \cup S, !.at = place]
  <2>1. t = r
    BY <1>3, <1>5 DEF RowDone
  <2>2. r.at = place /\ r.rows = s.rows
    BY <1>2, Fields DEF Shape
  <2>3. place \in {"hash", "check"}
    BY <1>4, <1>5 DEF LoadPlace
  <2> QED BY <2>1, <2>2, <2>3
<1>6. CASE LoadRows(Server)
  <2>1. s.at = "rows" /\ s.then = "check"
    BY <1>4, <1>6 DEF LoadRows, At, LoadPlace
  <2>2. Private
    BY <1>1, <1>6, <2>1 DEF LoadRows
  <2>3. CASE lexical = ledger
    <3> DEFINE place == IF PassageRows(lexical) = {} THEN s.then ELSE "hash"
               r == [s EXCEPT !.rows = lexical, !.todo = PassageRows(lexical), !.at = place]
    <3>1. t = r
      BY <1>3, <1>6, <2>3 DEF LoadRows
    <3>2. r.at = place /\ r.rows = lexical
      BY <1>2, Fields DEF Shape
    <3> QED BY <2>1, <2>2, <3>1, <3>2 DEF StatusStep, Private, Stays
  <2>4. CASE lexical # ledger
    <3>1. t = [Idle EXCEPT !.at = "refused"]
      BY <1>1, <1>3, <1>6, <2>1, <2>4 DEF LoadRows
    <3> QED BY <2>1, <2>2, <3>1 DEF StatusStep, Private, Stays, Idle
  <2> QED BY <2>3, <2>4
<1>7. CASE HashSource(Server)
  <2>1. s.at = "hash" /\ Private
    BY <1>7 DEF HashSource, At
  <2>2. t.at \in {"hash", "read", "check"} /\ t.rows = s.rows
    <3>1. CASE Becomes(Server, [s EXCEPT !.at = "read"])
      BY <1>2, <1>3, <3>1, Fields DEF Shape
    <3>2. CASE RowDone(Server, {})
      BY <1>5, <2>1, <3>2
    <3> QED BY <1>7, <3>1, <3>2 DEF HashSource
  <2> QED BY <2>1, <2>2 DEF StatusStep, Private, Stays
<1>8. CASE ReadSource(Server)
  <2>1. s.at = "read" /\ Private /\ \E S : RowDone(Server, S)
    BY <1>8 DEF ReadSource, At
  <2> QED BY <1>5, <2>1 DEF StatusStep, Private, Stays
<1>9. CASE ReadHealth(Server)
  <2> DEFINE r == [s EXCEPT !.health = health, !.input = None]
  <2>1. s.at = "status" /\ Private /\ t = Loading(r, "check")
    BY <1>1, <1>3, <1>9 DEF ReadHealth, At
  <2>2. Shape(r)
    BY <1>2, Fields DEF Shape
  <2> HIDE DEF r
  <2>3. Loading(r, "check").at = "rows"
    BY <2>2, LoadingIs
  <2> QED BY <2>1, <2>3 DEF StatusStep, Private, Stays
<1>10. CASE CheckDatabase(Server)
  <2>1. s.at = "check" /\ Private /\ t = [s EXCEPT !.seen = db, !.at = "judge"]
    BY <1>3, <1>10 DEF CheckDatabase, At
  <2>2. t.at = "judge" /\ t.rows = s.rows /\ t.seen = db
    BY <1>2, <2>1, Fields DEF Shape
  <2> QED BY <2>1, <2>2 DEF StatusStep, Private, Stays
<1>11. CASE Judge(Server)
  <2> DEFINE current == Verified(s.seen, Loaded(Server), Backend[Server])
                          /\ HealthCurrent(Server)
  <2>1. s.at = "judge" /\ Private
        /\ t = [Idle EXCEPT !.at = IF current THEN "current" ELSE "refused"]
    BY <1>1, <1>3, <1>11 DEF Judge, At
  <2>2. current => /\ db # None /\ s.seen.input.rows = s.rows
                   /\ s.seen.backend = Backend[Server]
    BY DEF Verified, HealthCurrent, Loaded
  <2>3. t.at = IF current THEN "current" ELSE "refused"
    BY <2>1 DEF Idle
  <2> HIDE DEF current
  <2> QED BY <2>1, <2>2, <2>3 DEF StatusStep, Private, Stays
<1>12. ~ (BeginBuild(Server) \/ Die(Server))
  BY <1>1 DEF BeginBuild, Die
<1>13. s.at \notin {"embed", "staged", "promoted", "repair", "repaired", "recheck",
                    "record", "write"}
  BY <1>1, BuilderAtHand
<1>14. ~ (Repair(Server) \/ CheckRepair(Server) \/ RecheckRepair(Server) \/ Embed(Server))
  BY <1>13 DEF Repair, CheckRepair, RecheckRepair, Embed, At
<1>15. ~ (Promote(Server) \/ CheckPromoted(Server) \/ Record(Server) \/ WriteHealth(Server))
  BY <1>13 DEF Promote, CheckPromoted, Record, WriteHealth, At
<1> QED
  BY <1>6, <1>7, <1>8, <1>9, <1>10, <1>11, <1>12, <1>14, <1>15 DEF Step
-----------------------------------------------------------------------------
(* A call during which neither index moves.                                *)

(* The database is of the lexical index and of the server's model.         *)
InStep == db.input.rows = lexical /\ db.backend = Backend[Server]

AllFound(c) == c.at \in {"fuse", "canonical"}
                 \/ (c.at = "identity" /\ c.mode \in {"semantic", "hybrid"})

SteadyInv ==
    call # None /\ ~ call.moved =>
      /\ lexical = call.lexical
      /\ proc[Server].at \in {"hash", "read", "check", "judge"} => proc[Server].rows = lexical
      /\ proc[Server].at = "judge" => proc[Server].seen = db
      /\ proc[Server].at = "current" \/ call.at = "vectors" => InStep
      /\ call.at = "resolve" => call.rows.rows = lexical
      /\ call.hits \cup call.found \subseteq Ledger[lexical].rows
      /\ AllFound(call) => {l.event : l \in call.found} = Events(lexical)

SearchInv == TypeInv /\ CallInv /\ SteadyInv

LEMMA Searching ==
    ASSUME SemanticConstants, SearchInv
    PROVE  /\ call # None => call \in Call
           /\ lexical \in DOMAIN Ledger /\ Ledger[lexical].rows \subseteq Locator
<1>1. lexical \in 1..ledger /\ ledger \in 1..Len(Ledger) /\ DOMAIN Ledger = 1..Len(Ledger)
      /\ Len(Ledger) \in Nat
  BY ConstantTypes DEF SearchInv, TypeInv, WorldInv
<1>2. lexical \in DOMAIN Ledger
  BY <1>1
<1> QED BY <1>2, ConstantTypes DEF SearchInv, CallInv

(* Meanwhile only what moved is noted in the call.                         *)
LEMMA CallGoesOn ==
    ASSUME Meanwhile, call # None, call \in Call
    PROVE  /\ call' \in Call /\ call'.at = call.at /\ call'.mode = call.mode
           /\ call'.hits = call.hits /\ call'.found = call.found /\ call'.rows = call.rows
           /\ call'.lexical = call.lexical
           /\ ~ call'.moved => ~ call.moved /\ UNCHANGED <<lexical, db>>
<1> DEFINE moves == <<lexical, db>>' # <<lexical, db>>
<1>1. call' = [call EXCEPT !.moved = call.moved \/ moves]
  BY DEF Meanwhile
<1>2. PICK m \in BOOLEAN : m = (call.moved \/ moves)
  OBVIOUS
<1>3. ~ m => ~ call.moved /\ ~ moves
  BY <1>2
<1>4. ~ moves => UNCHANGED <<lexical, db>>
  OBVIOUS
<1> HIDE DEF moves
<1>5. call' = [call EXCEPT !.moved = m]
  BY <1>1, <1>2
<1>6. call'.moved = m
  BY <1>5 DEF Call
<1> QED BY <1>3, <1>4, <1>5, <1>6 DEF Call

LEMMA MeanwhileKeepsSearch ==
    ASSUME SemanticConstants, SearchConstants, SearchInv, Meanwhile
    PROVE  CallInv' /\ SteadyInv'
<1>0. TypeInv /\ CallInv /\ SteadyInv /\ Server \in Process /\ Server \in Reader
      /\ Server \notin Builder
  BY TheServer DEF SearchInv
<1>1. \/ UNCHANGED proc[Server]
      \/ StatusStep(proc[Server], proc'[Server]) /\ UNCHANGED <<db, builds>>
  <2>1. CASE World
    BY <2>1 DEF World, Commit, PublishLexical, EditFile
  <2>2. ASSUME NEW p \in Process, p # Server, Step(p) PROVE UNCHANGED proc[Server]
    <3>1. PICK r : Becomes(p, r)
      BY <2>2, StepOf
    <3> QED BY <1>0, <2>2, <3>1 DEF Becomes, TypeInv, ProcInv
  <2>3. CASE Step(Server)
    BY <1>0, <2>3, ServerSteps
  <2> QED BY <2>1, <2>2, <2>3 DEF Meanwhile
<1>2. IsDatabase(db, builds) => IsDatabase(db', builds')
  <2>1. World => UNCHANGED <<db, builds>>
    BY DEF World, Commit, PublishLexical, EditFile
  <2> QED BY <1>0, <2>1, StepDatabase DEF Meanwhile
<1>3. call = None => call' = None
  BY DEF Meanwhile
<1>4. call # None =>
        /\ call \in Call
        /\ call' \in Call /\ call'.at = call.at /\ call'.mode = call.mode
        /\ call'.hits = call.hits /\ call'.found = call.found /\ call'.rows = call.rows
        /\ call'.lexical = call.lexical
        /\ ~ call'.moved => ~ call.moved /\ UNCHANGED <<lexical, db>>
  BY <1>0, CallGoesOn DEF CallInv
<1>5. db # None => IsDatabase(db, builds)
  BY <1>0 DEF TypeInv, WorldInv
<1>6. None \notin Call
  BY DEF SearchConstants
<1>7. /\ call' # None => call # None /\ call' \in Call
      /\ proc'[Server].at \notin {"idle", "serving"} => call' # None /\ call'.at = "semantic"
  BY <1>0, <1>1, <1>3, <1>4, <1>6 DEF CallInv, StatusStep
<1>8. proc'[Server].at = "current" => IsDatabase(db', builds')
  BY <1>0, <1>1, <1>2, <1>5 DEF CallInv, StatusStep
<1>9. CallInv'
  BY <1>0, <1>2, <1>4, <1>7, <1>8 DEF CallInv
<1>10. SteadyInv'
  <2> SUFFICES ASSUME call' # None, ~ call'.moved PROVE SteadyInv'
    BY DEF SteadyInv
  <2>1. call # None /\ ~ call.moved /\ UNCHANGED <<lexical, db>>
    BY <1>4, <1>7
  <2>2. /\ proc'[Server].at \in {"hash", "read", "check", "judge"} =>
             proc'[Server].rows = lexical
        /\ proc'[Server].at = "judge" => proc'[Server].seen = db
        /\ proc'[Server].at = "current" => InStep
    BY <1>0, <1>1, <2>1 DEF SteadyInv, StatusStep, InStep
  <2>3. AllFound(call') <=> AllFound(call)
    BY <1>4, <2>1 DEF AllFound
  <2>4. InStep' <=> InStep
    BY <2>1 DEF InStep
  <2>5. /\ lexical = call.lexical
        /\ call.at = "vectors" => InStep
        /\ call.at = "resolve" => call.rows.rows = lexical
        /\ call.hits \cup call.found \subseteq Ledger[lexical].rows
        /\ AllFound(call) => {l.event : l \in call.found} = Events(lexical)
    BY <1>0, <2>1 DEF SteadyInv
  <2> QED BY <1>4, <2>1, <2>2, <2>3, <2>4, <2>5 DEF SteadyInv
<1> QED BY <1>9, <1>10

(* A call goes on to c with its process as it was.                         *)
LEMMA CallProceeds ==
    ASSUME SemanticConstants, SearchInv, call # None, call.at # "semantic",
           NEW c \in Call, Proceeds(c), c.lexical = call.lexical,
           ~ c.moved => ~ call.moved,
           c.at # "vectors", c.at = "resolve" => IsInput(c.rows),
           c.at = "lexical" => c.mode # "semantic",
           ~ call.moved =>
             /\ c.at = "resolve" => c.rows.rows = lexical
             /\ c.hits \cup c.found \subseteq Ledger[lexical].rows
             /\ AllFound(c) => {l.event : l \in c.found} = Events(lexical)
    PROVE  CallInv' /\ SteadyInv'
<1>1. call' = c /\ UNCHANGED <<proc, lexical, db, builds>>
  BY DEF Proceeds, Quiet, world
<1>2. proc[Server].at \in {"idle", "serving"}
  BY DEF SearchInv, CallInv
<1>3. CallInv'
  BY <1>1, <1>2 DEF CallInv
<1>4. SteadyInv'
  <2> SUFFICES ASSUME call' # None, ~ call'.moved PROVE SteadyInv'
    BY DEF SteadyInv
  <2>1. ~ call.moved /\ lexical = call.lexical
    BY <1>1 DEF SearchInv, SteadyInv
  <2>2. (AllFound(call)' <=> AllFound(c)) /\ (InStep' <=> InStep)
    BY <1>1 DEF InStep, AllFound
  <2> QED BY <1>1, <1>2, <2>1 DEF SteadyInv
<1> QED BY <1>3, <1>4

(* A call has its answer.                                                  *)
LEMMA CallEnds ==
    ASSUME call' = None, proc'[Server].at = "idle"
    PROVE  CallInv' /\ SteadyInv'
BY DEF CallInv, SteadyInv

LEMMA ServerAt ==
    ASSUME SemanticConstants, SearchConstants, TypeInv, NEW place,
           Becomes(Server, [Idle EXCEPT !.at = place])
    PROVE  proc'[Server].at = place
<1>1. proc'[Server] = [Idle EXCEPT !.at = place]
  BY TheServer DEF Becomes, TypeInv, ProcInv
<1> QED BY <1>1 DEF Idle

LEMMA RaisesKeepsSearch ==
    ASSUME SemanticConstants, SearchConstants, SearchInv, NEW why, Raises(why)
    PROVE  CallInv' /\ SteadyInv'
<1>1. proc'[Server].at = "idle"
  BY ServerAt, IdleIs DEF SearchInv, Raises
<1> QED BY <1>1, CallEnds DEF Raises

LEMMA SemanticFailsKeepsSearch ==
    ASSUME SemanticConstants, SearchConstants, SearchInv, call # None, NEW why,
           SemanticFails(why)
    PROVE  CallInv' /\ SteadyInv'
<1>1. CASE call.mode # "adaptive"
  BY <1>1, RaisesKeepsSearch DEF SemanticFails
<1>2. CASE call.mode = "adaptive"
  <2> DEFINE c == [call EXCEPT !.at = "lexical", !.rows = None]
  <2>1. /\ call' = c /\ Becomes(Server, [Idle EXCEPT !.at = "serving"])
        /\ UNCHANGED <<lexical, db, builds>>
    BY <1>2 DEF SemanticFails, Serving, Quiet, world
  <2>2. /\ c \in Call /\ c.at = "lexical" /\ c.mode = "adaptive" /\ c.moved = call.moved
        /\ c.lexical = call.lexical /\ c.hits = call.hits /\ c.found = call.found
    BY <1>2, Searching DEF Call
  <2>3. proc'[Server].at = "serving"
    BY <2>1, ServerAt DEF SearchInv
  <2> HIDE DEF c
  <2>4. CallInv'
    BY <2>1, <2>2, <2>3 DEF CallInv
  <2>5. ASSUME call' # None, ~ call'.moved PROVE SteadyInv'
    <3>1. ~ call.moved
      BY <2>1, <2>2, <2>5
    <3>2. lexical = call.lexical /\ call.hits \cup call.found \subseteq Ledger[lexical].rows
      BY <3>1 DEF SearchInv, SteadyInv
    <3> QED BY <2>1, <2>2, <2>3, <3>2 DEF SteadyInv, AllFound
  <2> QED BY <2>4, <2>5 DEF SteadyInv
<1> QED BY <1>1, <1>2

LEMMA SearchKeepsSearch ==
    ASSUME SemanticConstants, SearchConstants, SearchInv,
           \E mode \in Mode, eventFirst \in BOOLEAN, query \in Query, structural \in BOOLEAN :
             Search(mode, eventFirst, query, structural)
    PROVE  CallInv' /\ SteadyInv'
<1>0. PICK mode \in Mode, eventFirst \in BOOLEAN, query \in Query, structural \in BOOLEAN :
        Search(mode, eventFirst, query, structural)
  OBVIOUS
<1> DEFINE c == [mode |-> mode, eventFirst |-> eventFirst, query |-> query,
                 at |-> First(mode, structural), hits |-> {}, found |-> {}, rows |-> None,
                 lexical |-> lexical, moved |-> FALSE]
<1>1. /\ call' = c /\ Becomes(Server, [Idle EXCEPT !.at = "serving"])
      /\ UNCHANGED <<lexical, db, builds>> /\ (structural => mode = "adaptive")
  BY <1>0 DEF Search, Serving, world
<1>2. proc'[Server].at = "serving"
  BY <1>1, ServerAt DEF SearchInv
<1>3. First(mode, structural) \in {"lexical", "semantic"}
      /\ (First(mode, structural) = "lexical" => mode # "semantic")
  BY <1>1 DEF First
<1>4. /\ c \in Call /\ c.mode = mode /\ c.at = First(mode, structural)
      /\ c.hits = {} /\ c.found = {} /\ c.lexical = lexical
  BY <1>3, Searching DEF Call
<1> HIDE DEF c
<1>5. CallInv'
  BY <1>1, <1>2, <1>3, <1>4 DEF CallInv
<1>6. SteadyInv'
  BY <1>1, <1>2, <1>3, <1>4 DEF SteadyInv, AllFound
<1> QED BY <1>5, <1>6

LEMMA FindLexicalKeepsSearch ==
    ASSUME SemanticConstants, SearchConstants, SearchInv, FindLexical
    PROVE  CallInv' /\ SteadyInv'
<1> DEFINE at == IF call.mode = "hybrid" THEN "semantic" ELSE "identity"
           c == [call EXCEPT !.hits = LexicalHits, !.at = at]
<1>1. call # None /\ call.at = "lexical" /\ (Raises("query") \/ Proceeds(c))
  BY DEF FindLexical
<1>2. call \in Call /\ Ledger[lexical].rows \subseteq Locator
  BY <1>1, Searching
<1>3. LexicalHits \subseteq Ledger[lexical].rows
  BY DEF LexicalHits
<1>4. /\ c \in Call /\ c.at = at /\ c.mode = call.mode /\ c.moved = call.moved
      /\ c.lexical = call.lexical /\ c.hits = LexicalHits /\ c.found = call.found
  BY <1>2, <1>3 DEF Call
<1>5. at \in {"semantic", "identity"} /\ (at = "identity" => call.mode # "hybrid")
  OBVIOUS
<1>6. call.mode # "semantic"
  BY <1>1 DEF SearchInv, CallInv
<1> HIDE DEF c, at
<1>7. ~ AllFound(c)
  BY <1>4, <1>5, <1>6 DEF AllFound
<1>8. ~ call.moved => c.hits \cup c.found \subseteq Ledger[lexical].rows
  BY <1>1, <1>3, <1>4 DEF SearchInv, SteadyInv
<1>9. CASE Raises("query")
  BY <1>9, RaisesKeepsSearch
<1> QED BY <1>1, <1>4, <1>5, <1>7, <1>8, <1>9, CallProceeds

LEMMA SemanticKeepsSearch ==
    ASSUME SemanticConstants, SearchConstants, SearchInv, AskSemantic \/ SemanticAnswered
    PROVE  CallInv' /\ SteadyInv'
<1>1. CASE AskSemantic
  <2>1. /\ call # None /\ call.at = "semantic" /\ UNCHANGED <<call, lexical, db, builds>>
        /\ Becomes(Server, [Idle EXCEPT !.at = "status"])
    BY <1>1 DEF AskSemantic, Quiet, world
  <2>2. proc'[Server].at = "status"
    BY <2>1, ServerAt DEF SearchInv
  <2>3. CallInv'
    BY <2>1, <2>2 DEF SearchInv, CallInv
  <2>4. SteadyInv'
    <3> SUFFICES ASSUME call' # None, ~ call'.moved PROVE SteadyInv'
      BY DEF SteadyInv
    <3>1. /\ lexical = call.lexical
          /\ call.hits \cup call.found \subseteq Ledger[lexical].rows
      BY <2>1 DEF SearchInv, SteadyInv
    <3> QED BY <2>1, <2>2, <3>1 DEF SteadyInv, AllFound
  <2> QED BY <2>3, <2>4
<1>2. CASE SemanticAnswered
  <2>1. call # None /\ proc[Server].at \in {"current", "refused"}
    BY <1>2 DEF SemanticAnswered
  <2>2. CASE SemanticFails("not current")
    BY <2>1, <2>2, SemanticFailsKeepsSearch
  <2>3. CASE ~ SemanticFails("not current")
    <3> DEFINE c == [call EXCEPT !.at = "vectors"]
    <3>1. /\ proc[Server].at = "current" /\ call' = c
          /\ UNCHANGED <<lexical, db, builds>>
          /\ Becomes(Server, [Idle EXCEPT !.at = "serving"])
      BY <1>2, <2>1, <2>3 DEF SemanticAnswered, Serving, Quiet, world, At
    <3>2. proc'[Server].at = "serving"
      BY <3>1, ServerAt DEF SearchInv
    <3>3. /\ c \in Call /\ c.at = "vectors" /\ c.moved = call.moved
          /\ c.lexical = call.lexical /\ c.hits = call.hits /\ c.found = call.found
      BY <2>1, Searching DEF Call
    <3> HIDE DEF c
    <3>4. IsDatabase(db, builds)
      BY <3>1 DEF SearchInv, CallInv
    <3>5. CallInv'
      BY <3>1, <3>2, <3>3, <3>4 DEF CallInv
    <3>6. SteadyInv'
      <4> SUFFICES ASSUME call' # None, ~ call'.moved PROVE SteadyInv'
        BY DEF SteadyInv
      <4>1. ~ call.moved
        BY <3>1, <3>3
      <4>2. /\ lexical = call.lexical /\ InStep
            /\ call.hits \cup call.found \subseteq Ledger[lexical].rows
        BY <2>1, <3>1, <4>1 DEF SearchInv, SteadyInv
      <4>3. InStep'
        BY <3>1, <4>2 DEF InStep
      <4> QED BY <3>1, <3>2, <3>3, <4>2, <4>3 DEF SteadyInv, AllFound
    <3> QED BY <3>5, <3>6
  <2> QED BY <2>2, <2>3
<1> QED BY <1>1, <1>2

LEMMA ReadVectorsKeepsSearch ==
    ASSUME SemanticConstants, SearchConstants, SearchInv, ReadVectors
    PROVE  CallInv' /\ SteadyInv'
<1> DEFINE c == [call EXCEPT !.rows = db.input, !.at = "resolve"]
<1>1. /\ call # None /\ call.at = "vectors"
      /\ Raises("query") \/ Proceeds(c) \/ SemanticFails("dimensions")
  BY DEF ReadVectors
<1>2. IsInput(db.input)
  BY <1>1 DEF SearchInv, CallInv, IsDatabase
<1>3. /\ c \in Call /\ c.at = "resolve" /\ c.rows = db.input /\ c.moved = call.moved
      /\ c.lexical = call.lexical /\ c.hits = call.hits /\ c.found = call.found
  BY <1>1, <1>2, Searching DEF Call, IsInput
<1> HIDE DEF c
<1>4. ~ call.moved => /\ c.rows.rows = lexical
                      /\ c.hits \cup c.found \subseteq Ledger[lexical].rows
  BY <1>1, <1>3 DEF SearchInv, SteadyInv, InStep
<1>5. ~ AllFound(c)
  BY <1>3 DEF AllFound
<1>6. CASE Proceeds(c)
  BY <1>1, <1>2, <1>3, <1>4, <1>5, <1>6, CallProceeds
<1>7. CASE SemanticFails("dimensions")
  BY <1>1, <1>7, SemanticFailsKeepsSearch
<1>8. CASE Raises("query")
  BY <1>8, RaisesKeepsSearch
<1> QED BY <1>1, <1>6, <1>7, <1>8

LEMMA ResolveKeepsSearch ==
    ASSUME SemanticConstants, SearchConstants, SearchInv, Resolve
    PROVE  CallInv' /\ SteadyInv'
<1>1. /\ call # None /\ call.at = "resolve" /\ IsInput(call.rows)
      /\ call \in Call /\ lexical \in DOMAIN Ledger /\ Ledger[lexical].rows \subseteq Locator
  BY ResolveDoes, Searching DEF SearchInv, CallInv
<1>2. CASE SemanticFails("absent passage")
  BY <1>1, <1>2, SemanticFailsKeepsSearch
<1>3. CASE ~ SemanticFails("absent passage")
  <2>1. /\ \A s \in Best : Parents(s) # {}
        /\ \E at \in {"lexical", "identity", "canonical", "fuse"} :
             /\ at = "lexical" => call.mode = "adaptive"
             /\ Proceeds([call EXCEPT !.found = Resolved, !.rows = None, !.at = at])
    BY <1>3, ResolveDoes
  <2>2. PICK at \in {"lexical", "identity", "canonical", "fuse"} :
          /\ at = "lexical" => call.mode = "adaptive"
          /\ Proceeds([call EXCEPT !.found = Resolved, !.rows = None, !.at = at])
    BY <2>1
  <2>3. Resolved \subseteq Ledger[lexical].rows /\ {l.event : l \in Resolved} = Known
    BY <1>1, <2>1, ResolvedAre
  <2> DEFINE c == [call EXCEPT !.found = Resolved, !.rows = None, !.at = at]
  <2>4. /\ c \in Call /\ c.at = at /\ c.mode = call.mode /\ c.moved = call.moved
        /\ c.lexical = call.lexical /\ c.hits = call.hits /\ c.found = Resolved
    BY <1>1, <2>3 DEF Call
  <2>5. Proceeds(c)
    BY <2>2
  <2> HIDE DEF c
  <2>6. ~ call.moved => /\ call.rows.rows = lexical
                        /\ call.hits \subseteq Ledger[lexical].rows
    BY <1>1 DEF SearchInv, SteadyInv
  <2>7. ~ call.moved => Known = Events(lexical)
    BY <2>6 DEF Known
  <2> QED BY <1>1, <2>2, <2>3, <2>4, <2>5, <2>6, <2>7, CallProceeds
<1> QED BY <1>2, <1>3

LEMMA FuseKeepsSearch ==
    ASSUME SemanticConstants, SearchConstants, SearchInv, Fuse \/ FuseEvents
    PROVE  CallInv' /\ SteadyInv'
<1>0. call # None /\ call \in Call /\ Ledger[lexical].rows \subseteq Locator
      /\ call.at \in {"fuse", "canonical"}
  BY Searching DEF Fuse, FuseEvents
<1>1. ASSUME NEW H, H \subseteq Locator,
             ~ call.moved => H \subseteq Ledger[lexical].rows,
             Proceeds([call EXCEPT !.hits = H, !.at = "identity"])
      PROVE  CallInv' /\ SteadyInv'
  <2> DEFINE c == [call EXCEPT !.hits = H, !.at = "identity"]
  <2>1. /\ c \in Call /\ c.at = "identity" /\ c.moved = call.moved
        /\ c.lexical = call.lexical /\ c.hits = H /\ c.found = call.found
    BY <1>0, <1>1 DEF Call
  <2>2. Proceeds(c)
    BY <1>1
  <2> HIDE DEF c
  <2>3. ~ call.moved => /\ call.found \subseteq Ledger[lexical].rows
                        /\ {l.event : l \in call.found} = Events(lexical)
    BY <1>0 DEF SearchInv, SteadyInv, AllFound
  <2> QED BY <1>0, <1>1, <2>1, <2>2, <2>3, CallProceeds
<1>2. CASE Fuse
  <2> DEFINE rest == {l.event : l \in call.hits} \ {l.event : l \in call.found}
  <2>1. PICK chosen \in [rest -> call.hits] :
          Proceeds([call EXCEPT !.hits = {chosen[e] : e \in rest}, !.at = "identity"])
    BY <1>2 DEF Fuse
  <2>2. {chosen[e] : e \in rest} \subseteq call.hits
    OBVIOUS
  <2>3. call.hits \subseteq Locator
    BY <1>0 DEF Call
  <2>4. ~ call.moved => call.hits \subseteq Ledger[lexical].rows
    BY <1>0 DEF SearchInv, SteadyInv
  <2> HIDE DEF rest
  <2> QED BY <1>1, <2>1, <2>2, <2>3, <2>4
<1>3. CASE FuseEvents
  <2> DEFINE events == {l.event : l \in call.found \cup call.hits}
  <2>1. CASE events \subseteq Events(lexical)
    <3>1. Proceeds([call EXCEPT !.hits = {Main[e] : e \in events}, !.at = "identity"])
      BY <1>3, <2>1 DEF FuseEvents
    <3>2. ASSUME NEW e \in Events(lexical) PROVE Main[e] \in Ledger[lexical].rows
      <4>1. lexical \in DOMAIN Ledger
        BY Searching
      <4> QED BY <4>1 DEF Events, SemanticConstants
    <3>3. {Main[e] : e \in events} \subseteq Ledger[lexical].rows
      <4> HIDE DEF events
      <4> QED BY <2>1, <3>2
    <3> HIDE DEF events
    <3> QED BY <1>0, <1>1, <3>1, <3>3
  <2>2. CASE ~ (events \subseteq Events(lexical))
    BY <1>3, <2>2, RaisesKeepsSearch DEF FuseEvents
  <2> QED BY <2>1, <2>2
<1> QED BY <1>2, <1>3

LEMMA IdentifyKeepsSearch ==
    ASSUME SemanticConstants, SearchConstants, SearchInv, Identify
    PROVE  CallInv' /\ SteadyInv'
<1>1. call' = None /\ Becomes(Server, Idle)
  BY DEF Identify, Raises
<1>2. proc'[Server].at = "idle"
  BY <1>1, ServerAt, IdleIs DEF SearchInv
<1> QED BY <1>1, <1>2, CallEnds

LEMMA SearchInvInit ==
    ASSUME SemanticConstants, SearchConstants, SearchInit PROVE SearchInv
<1>1. proc[Server].at = "idle" /\ call = None
  BY TheServer DEF SearchInit, Init, Idle
<1> QED BY <1>1, TypeInvInit DEF SearchInv, CallInv, SteadyInv

LEMMA SearchInvStep ==
    ASSUME SemanticConstants, SearchConstants, SearchInv, [Next]_searchVars
    PROVE  SearchInv'
<1>1. TypeInv'
  BY TypeInvStep DEF SearchInv
<1>2. CASE Next
  <2>1. CallInv' /\ SteadyInv'
    BY <1>2, MeanwhileKeepsSearch, SearchKeepsSearch, FindLexicalKeepsSearch,
       SemanticKeepsSearch, ReadVectorsKeepsSearch, ResolveKeepsSearch, FuseKeepsSearch,
       IdentifyKeepsSearch DEF Next
  <2> QED BY <1>1, <2>1 DEF SearchInv
<1>3. CASE UNCHANGED searchVars
  <2>1. UNCHANGED <<call, proc, lexical, db, builds>>
    BY <1>3 DEF searchVars, vars, world
  <2>2. CallInv'
    BY <2>1 DEF SearchInv, CallInv
  <2>3. SteadyInv'
    BY <2>1 DEF SearchInv, SteadyInv, InStep, AllFound
  <2> QED BY <1>1, <2>2, <2>3 DEF SearchInv
<1> QED BY <1>2, <1>3

(* Raising is right where what is raised is about the semantic index not   *)
(* being current or about the query, or where an index moved.              *)
LEMMA RaisesRightly ==
    ASSUME call \in Call, NEW why, Raises(why),
           why \in {"not current", "query"} \/ call.moved
    PROVE  SteadySearch'
<1>1. /\ answer'.status = "raised" /\ answer'.why = why
      /\ answer'.moved = call.moved
  BY DEF Raises
<1> QED BY <1>1 DEF SteadySearch

LEMMA FailsRightly ==
    ASSUME call \in Call, NEW why, SemanticFails(why),
           why \in {"not current", "query"} \/ call.moved
    PROVE  SteadySearch'
<1>1. CASE Raises(why)
  BY <1>1, RaisesRightly
<1>2. CASE answer' = NoAnswer
  BY <1>2 DEF SteadySearch, NoAnswer
<1> QED BY <1>1, <1>2 DEF SemanticFails

LEMMA SteadySearchStep ==
    ASSUME SemanticConstants, SearchConstants, SearchInv, SteadySearch, [Next]_searchVars
    PROVE  SteadySearch'
<1>1. CASE answer' = NoAnswer
  BY <1>1 DEF SteadySearch, NoAnswer
<1>2. ASSUME NEW c, Proceeds(c) PROVE SteadySearch'
  BY <1>1, <1>2 DEF Proceeds
<1>3. call # None => /\ call \in Call /\ lexical \in DOMAIN Ledger
                     /\ (call.at = "resolve" => IsInput(call.rows))
  BY Searching DEF SearchInv, CallInv
<1>4. call # None /\ ~ call.moved =>
        /\ lexical = call.lexical
        /\ proc[Server].at = "current" \/ call.at = "vectors" => InStep
        /\ call.at = "resolve" => call.rows.rows = lexical
        /\ call.hits \cup call.found \subseteq Ledger[lexical].rows
        /\ AllFound(call) => {l.event : l \in call.found} = Events(lexical)
  BY DEF SearchInv, SteadyInv
<1>5. CASE SemanticAnswered
  <2>1. SemanticFails("not current") \/ answer' = NoAnswer
    BY <1>5 DEF SemanticAnswered
  <2>2. call \in Call
    BY <1>3, <1>5 DEF SemanticAnswered
  <2> QED BY <1>1, <2>1, <2>2, FailsRightly
<1>6. CASE ReadVectors
  <2>1. call # None /\ call.at = "vectors" /\ call \in Call
    BY <1>3, <1>6 DEF ReadVectors
  <2>2. CASE db.backend # Backend[Server] /\ SemanticFails("dimensions")
    <3>1. call.moved
      BY <1>4, <2>1, <2>2 DEF InStep
    <3> QED BY <2>1, <2>2, <3>1, FailsRightly
  <2>3. CASE Raises("query")
    BY <2>1, <2>3, RaisesRightly
  <2> QED BY <1>2, <1>6, <2>2, <2>3 DEF ReadVectors
<1>7. CASE Resolve
  <2>1. call # None /\ call.at = "resolve" /\ call \in Call /\ IsInput(call.rows)
        /\ lexical \in DOMAIN Ledger
    BY <1>3, <1>7 DEF Resolve
  <2>2. ASSUME NEW s \in Best, Parents(s) = {} PROVE call.moved
    <3>1. s \in call.rows.passages /\ call.rows.passages \subseteq Piece(call.rows.rows)
          /\ call.rows.rows \in DOMAIN Ledger
      BY <2>1, BestAre DEF IsInput, Input
    <3>2. PICK l \in Ledger[call.rows.rows].rows :
            /\ l.event = s.event /\ l.path = s.path /\ Registered(l, call.rows.rows)
            /\ l.first <= s.first /\ s.last <= l.last
      BY <3>1, PieceOfItsRow
    <3>3. call.rows.rows # lexical
      BY <2>2, <3>2 DEF Parents
    <3> QED BY <1>4, <2>1, <3>3
  <2>3. CASE \E s \in Best : Parents(s) = {} /\ SemanticFails("absent passage")
    BY <2>1, <2>2, <2>3, FailsRightly
  <2> QED BY <1>2, <1>7, <2>3, ResolveDoes
<1>8. CASE FuseEvents
  <2> DEFINE events == {l.event : l \in call.found \cup call.hits}
  <2>1. call # None /\ call \in Call
    BY <1>3, <1>8 DEF FuseEvents
  <2>2. (\E c : Proceeds(c)) \/ (~ (events \subseteq Events(lexical)) /\ Raises("absent event"))
    BY <1>8 DEF FuseEvents
  <2>3. ~ call.moved => events \subseteq Events(lexical)
    BY <1>4, <2>1 DEF Events
  <2> HIDE DEF events
  <2> QED BY <1>2, <2>1, <2>2, <2>3, RaisesRightly
<1>9. CASE Identify
  <2> DEFINE locators == call.hits \cup call.found
  <2>1. call # None /\ call \in Call /\ call.at = "identity"
    BY <1>3, <1>9 DEF Identify
  <2>2. CASE locators \subseteq Ledger[lexical].rows
    <3>1. /\ answer'.status = "answered" /\ answer'.mode = call.mode
          /\ answer'.moved = call.moved
          /\ answer'.lexical = call.lexical /\ answer'.locators = locators
      BY <1>9, <2>2 DEF Identify
    <3>2. ASSUME answer'.mode \in {"semantic", "hybrid"}, ~ answer'.moved
          PROVE  {l.event : l \in answer'.locators} = Events(answer'.lexical)
      <4>1. ~ call.moved /\ AllFound(call)
        BY <2>1, <3>1, <3>2 DEF AllFound
      <4>2. /\ lexical = call.lexical /\ locators \subseteq Ledger[lexical].rows
            /\ {l.event : l \in call.found} = Events(lexical)
        BY <1>4, <2>1, <2>2, <4>1
      <4>3. {l.event : l \in locators} = Events(lexical)
        <5>1. \A l \in locators : l.event \in Events(lexical)
          BY <4>2 DEF Events
        <5>2. \A e \in Events(lexical) : \E l \in locators : e = l.event
          <6>1. \A e \in Events(lexical) : \E l \in call.found : e = l.event
            BY <4>2
          <6> QED BY <6>1
        <5> HIDE DEF locators
        <5> QED BY <5>1, <5>2
      <4> QED BY <3>1, <4>2, <4>3
    <3> QED BY <3>1, <3>2 DEF SteadySearch
  <2>3. CASE ~ (locators \subseteq Ledger[lexical].rows)
    <3>1. Raises("identity") /\ call.moved
      BY <1>4, <1>9, <2>1, <2>3 DEF Identify
    <3> QED BY <2>1, <3>1, RaisesRightly
  <2> QED BY <2>2, <2>3
<1>10. CASE FindLexical \/ Fuse
  <2>1. CASE Raises("query") /\ call # None
    BY <1>3, <2>1, RaisesRightly
  <2> QED BY <1>2, <1>10, <2>1 DEF FindLexical, Fuse
<1>11. CASE Meanwhile \/ AskSemantic
  BY <1>1, <1>11 DEF Meanwhile, AskSemantic
<1>12. ASSUME NEW mode \in Mode, NEW eventFirst \in BOOLEAN, NEW query \in Query,
              NEW structural \in BOOLEAN, Search(mode, eventFirst, query, structural)
       PROVE  SteadySearch'
  BY <1>1, <1>12 DEF Search
<1>13. CASE UNCHANGED searchVars
  BY <1>13 DEF searchVars, SteadySearch
<1> QED
  BY <1>5, <1>6, <1>7, <1>8, <1>9, <1>10, <1>11, <1>12, <1>13 DEF Next
-----------------------------------------------------------------------------
(* Texts and the edits they take.                                          *)

Unregistered(n, s) == <<s.path, s.text>> \notin Ledger[n].sources

(* As many edits since the build began as take a file n times to a text    *)
(* nobody registered, and one more where the file has it no longer.        *)
Edited(r, e, f, n, path, text) ==
    IF f[path] = text THEN n <= e - r.edits ELSE n + 1 <= e - r.edits

Row(r) == CHOOSE l \in r.todo : TRUE

(* What e edits and the files f tell of the texts a process has in hand:   *)
(* those that the first load read, those in the input, and those that the  *)
(* load after the vectors found again.                                     *)
GoodText(p, r, e, f) ==
    /\ r.edits \in Nat /\ r.edits <= e
    /\ r.at = "read" => Edited(r, e, f, 0, Row(r).path, Row(r).sha)
    /\ Stage(r) = "status" =>
         \A s \in r.passages : Unregistered(r.rows, s) => Edited(r, e, f, 1, s.path, s.text)
    /\ p \in Builder /\ Stage(r) \notin {"idle", "status"} =>
         \A s \in r.input.passages : Unregistered(r.input.rows, s) =>
           Edited(r, e, f, 1, s.path, s.text)
    /\ p \in Builder /\ Stage(r) = "staged" /\ r.rows = r.input.rows =>
         \A s \in r.input.passages : Unregistered(r.input.rows, s) =>
           /\ r.at = "read" /\ s.path = Row(r).path => Edited(r, e, f, 2, s.path, Row(r).sha)
           /\ s \in r.passages => 3 <= e - r.edits

TextInv == TextIsRegistered /\ \A p \in Process : GoodText(p, proc[p], edits, file)

LEMMA EditsAre ==
    ASSUME TypeInv, TextInv, NEW p \in Process
    PROVE  /\ edits \in Nat /\ proc[p].edits \in Nat /\ edits - proc[p].edits \in Nat
           /\ GoodText(p, proc[p], edits, file)
<1>1. edits \in Nat /\ proc[p].edits \in Nat /\ proc[p].edits <= edits
  BY DEF TypeInv, WorldInv, TextInv, GoodText
<1> QED BY <1>1 DEF TextInv

LEMMA TextMoves ==
    ASSUME ProcInv, TextInv, NEW p \in Process, NEW r, Becomes(p, r), UNCHANGED <<file, edits>>,
           GoodText(p, r, edits, file), TextIsRegistered'
    PROVE  TextInv'
<1>1. proc'[p] = r /\ \A q \in Process \ {p} : proc'[q] = proc[q]
  BY DEF Becomes, ProcInv
<1>2. \A q \in Process : GoodText(q, proc'[q], edits', file')
  BY <1>1 DEF TextInv
<1> QED BY <1>2 DEF TextInv

LEMMA PrivateText ==
    ASSUME TypeInv, TextInv, NEW p \in Process, NEW r, Becomes(p, r),
           UNCHANGED <<file, edits, db>>, GoodText(p, r, edits, file)
    PROVE  TextInv'
<1>1. TextIsRegistered'
  BY DEF TextInv, TextIsRegistered
<1> QED BY <1>1, TextMoves DEF TypeInv

(* With nothing read, or nothing to be read again, there is nothing to     *)
(* tell but of the input.                                                  *)
LEMMA NothingRead ==
    ASSUME NEW p, NEW r, NEW s, NEW e, NEW f, GoodText(p, r, e, f), s.edits = r.edits,
           s.at # "read", s.passages = {} \/ Stage(s) \notin {"status", "staged"},
           p \in Builder /\ Stage(s) \notin {"idle", "status"} =>
             s.input = r.input /\ Stage(r) \notin {"idle", "status"}
    PROVE  GoodText(p, s, e, f)
<1>1. \A n, path, text : Edited(s, e, f, n, path, text) <=> Edited(r, e, f, n, path, text)
  BY DEF Edited
<1>2. /\ s.edits \in Nat /\ s.edits <= e /\ s.at # "read"
      /\ Stage(s) = "status" => s.passages = {}
      /\ Stage(s) = "staged" => s.passages = {}
  BY DEF GoodText
<1>3. p \in Builder /\ Stage(s) \notin {"idle", "status"} =>
         \A t \in s.input.passages : Unregistered(s.input.rows, t) =>
           Edited(s, e, f, 1, t.path, t.text)
  BY <1>1 DEF GoodText
<1> QED BY <1>2, <1>3 DEF GoodText

LEMMA IdleText ==
    ASSUME NEW p, NEW place \in {"idle", "status", "serving", "current", "refused"},
           place = "idle" \/ p \notin Builder, NEW e \in Nat, NEW f
    PROVE  GoodText(p, [Idle EXCEPT !.at = place], e, f)
<1> DEFINE r == [Idle EXCEPT !.at = place]
<1>1. r.at = place /\ r.edits = 0 /\ r.passages = {}
  BY DEF Idle
<1> HIDE DEF r
<1>2. Stage(r) = place
  BY <1>1 DEF Stage, LoadPlace
<1>3. GoodText(p, r, e, f)
  BY <1>1, <1>2 DEF GoodText
<1> QED BY <1>3 DEF r

LEMMA FailKeepsText ==
    ASSUME TypeInv, TextInv, NEW p \in Process, Becomes(p, Idle), UNCHANGED <<file, edits, db>>
    PROVE  TextInv'
<1>1. edits \in Nat
  BY DEF TypeInv, WorldInv
<1>2. GoodText(p, Idle, edits, file)
  BY <1>1, IdleIs, IdleText
<1> QED BY <1>2, PrivateText

LEMMA LoadsAgainText ==
    ASSUME TypeInv, TextInv, NEW p \in Process, NEW then, then # "idle",
           Stage(proc[p]) \notin {"idle", "status"},
           Becomes(p, Loading(proc[p], then)), UNCHANGED <<file, edits>>, TextIsRegistered'
    PROVE  TextInv'
<1> DEFINE s == Loading(proc[p], then)
<1>1. Shape(proc[p])
  BY DEF TypeInv, ProcInv
<1>2. /\ s.at = "rows" /\ s.passages = {} /\ s.input = proc[p].input
      /\ s.edits = proc[p].edits
  BY <1>1, LoadingIs
<1>3. Becomes(p, s)
  OBVIOUS
<1> HIDE DEF s
<1>4. GoodText(p, s, edits, file)
  BY <1>2, EditsAre, NothingRead
<1> QED BY <1>3, <1>4, TextMoves DEF TypeInv

(* A row is about to be read whose file had the registered content when    *)
(* it was hashed.                                                          *)
LEMMA RowIsRegistered ==
    ASSUME SemanticConstants, TypeInv, NEW p \in Process, proc[p].at \in {"hash", "read"}
    PROVE  /\ Row(proc[p]) = NextRow(p)
           /\ <<NextRow(p).path, NextRow(p).sha>> \in Ledger[proc[p].rows].sources
BY RowAtHand DEF PassageRows, Registered, Row, NextRow

LEMMA HashedText ==
    ASSUME SemanticConstants, TypeInv, TextInv, NEW p \in Process, HashSource(p),
           file[NextRow(p).path] = NextRow(p).sha
    PROVE  TextInv'
<1> DEFINE r == proc[p]
           s == [proc[p] EXCEPT !.at = "read"]
           l == NextRow(p)
<1>1. r.at = "hash" /\ Becomes(p, s) /\ UNCHANGED <<file, edits, db>>
  BY DEF HashSource, At, Private, Stays, world
<1>2. /\ s.at = "read" /\ s.then = r.then /\ s.edits = r.edits /\ s.input = r.input
      /\ s.rows = r.rows /\ s.passages = r.passages /\ s.todo = r.todo
  BY Fields DEF TypeInv, ProcInv, Shape
<1>3. /\ edits \in Nat /\ r.edits \in Nat /\ edits - r.edits \in Nat
      /\ GoodText(p, r, edits, file)
  BY EditsAre
<1>4. Row(s) = l /\ <<l.path, l.sha>> \in Ledger[r.rows].sources
  BY <1>1, <1>2, RowIsRegistered DEF Row
<1> HIDE DEF s
<1>5. Stage(s) = Stage(r)
  BY <1>1, <1>2 DEF Stage, LoadPlace
<1>6. \A n, path, text : Edited(s, edits, file, n, path, text)
                           <=> Edited(r, edits, file, n, path, text)
  BY <1>2 DEF Edited
<1>7. Edited(s, edits, file, 0, Row(s).path, Row(s).sha)
  BY <1>2, <1>3, <1>4 DEF Edited
<1>8. ASSUME p \in Builder, Stage(s) = "staged", s.rows = s.input.rows,
             NEW t \in s.input.passages, Unregistered(s.input.rows, t), t.path = Row(s).path
      PROVE  Edited(s, edits, file, 2, t.path, Row(s).sha)
  <2>1. Edited(r, edits, file, 1, t.path, t.text)
    BY <1>2, <1>3, <1>5, <1>8 DEF GoodText
  <2>2. file[t.path] # t.text
    BY <1>2, <1>4, <1>8 DEF Unregistered
  <2>3. file[t.path] = Row(s).sha
    BY <1>4, <1>8
  <2> QED BY <1>2, <1>3, <2>1, <2>2, <2>3 DEF Edited
<1>9. GoodText(p, s, edits, file)
  <2>1. s.edits \in Nat /\ s.edits <= edits
    BY <1>2, <1>3 DEF GoodText
  <2>2. Stage(s) = "status" =>
         \A t \in s.passages : Unregistered(s.rows, t)
                                 => Edited(s, edits, file, 1, t.path, t.text)
    BY <1>2, <1>3, <1>5, <1>6 DEF GoodText
  <2>3. p \in Builder /\ Stage(s) \notin {"idle", "status"} =>
         \A t \in s.input.passages : Unregistered(s.input.rows, t) =>
           Edited(s, edits, file, 1, t.path, t.text)
    BY <1>2, <1>3, <1>5, <1>6 DEF GoodText
  <2>4. p \in Builder /\ Stage(s) = "staged" /\ s.rows = s.input.rows =>
         \A t \in s.input.passages : Unregistered(s.input.rows, t) =>
           (t \in s.passages => 3 <= edits - s.edits)
    BY <1>2, <1>3, <1>5 DEF GoodText
  <2> QED BY <1>7, <1>8, <2>1, <2>2, <2>3, <2>4 DEF GoodText
<1> QED BY <1>1, <1>9, PrivateText

(* Passages of the text of the row at hand.                                *)
OfRow(p, S) ==
    \A s \in S : /\ proc[p].at = "read"
                 /\ s.path = NextRow(p).path /\ s.text = file[NextRow(p).path]

LEMMA RowDoneText ==
    ASSUME TypeInv, TextInv, NEW p \in Process, NEW S,
           proc[p].at \in {"hash", "read"}, RowDone(p, S), UNCHANGED <<file, edits, db>>,
           OfRow(p, S)
    PROVE  TextInv'
<1> DEFINE r == proc[p]
           l == NextRow(p)
           place == IF r.todo = {l} THEN r.then ELSE "hash"
           s == [proc[p] EXCEPT !.todo = @ \ {l}, !.passages = @ \cup S, !.at = place]
<1>1. Becomes(p, s)
  BY DEF RowDone
<1>2. /\ Shape(r) /\ r.then \in LoadStage(p) \ {"judge"}
  BY InHand, SemanticConstants DEF GoodLoad, LoadPlace
<1>3. /\ s.at = place /\ s.then = r.then /\ s.edits = r.edits /\ s.input = r.input
      /\ s.rows = r.rows /\ s.passages = r.passages \cup S
  BY <1>2, Fields DEF Shape
<1>4. /\ edits \in Nat /\ r.edits \in Nat /\ edits - r.edits \in Nat
      /\ GoodText(p, r, edits, file)
  BY EditsAre
<1>5. place \notin {"rows", "read"} /\ place \in {"hash", r.then}
  BY <1>2 DEF LoadStage
<1>6. Row(r) = l /\ <<l.path, l.sha>> \in Ledger[r.rows].sources
  BY RowIsRegistered, SemanticConstants
<1> HIDE DEF s, place
<1>7. Stage(s) = Stage(r)
  BY <1>2, <1>3, <1>5 DEF Stage, LoadPlace, LoadStage
<1>8. \A n, path, text : Edited(s, edits, file, n, path, text)
                           <=> Edited(r, edits, file, n, path, text)
  BY <1>3 DEF Edited
<1>9. ASSUME NEW t \in S, Unregistered(r.rows, t)
      PROVE  t.path = l.path /\ file[l.path] = t.text /\ file[l.path] # l.sha
             /\ r.at = "read"
  BY <1>6, <1>9 DEF Unregistered, OfRow
<1>10. ASSUME Stage(s) = "status", NEW t \in s.passages, Unregistered(s.rows, t)
       PROVE  Edited(s, edits, file, 1, t.path, t.text)
  <2>1. CASE t \in r.passages
    BY <1>3, <1>4, <1>7, <1>8, <1>10, <2>1 DEF GoodText
  <2>2. CASE t \in S
    <3>1. t.path = l.path /\ file[l.path] = t.text /\ file[l.path] # l.sha /\ r.at = "read"
      BY <1>3, <1>9, <1>10, <2>2
    <3>2. Edited(r, edits, file, 0, l.path, l.sha)
      BY <1>4, <1>6, <3>1 DEF GoodText
    <3>3. 0 + 1 <= edits - r.edits
      BY <3>1, <3>2 DEF Edited
    <3> QED BY <1>3, <3>1, <3>3 DEF Edited
  <2> QED BY <1>3, <1>10, <2>1, <2>2
<1>11. ASSUME p \in Builder, Stage(s) = "staged", s.rows = s.input.rows,
              NEW t \in s.input.passages, Unregistered(s.input.rows, t), t \in s.passages
       PROVE  3 <= edits - s.edits
  <2>1. CASE t \in r.passages
    BY <1>3, <1>4, <1>7, <1>11, <2>1 DEF GoodText
  <2>2. CASE t \in S
    <3>1. t.path = l.path /\ file[l.path] = t.text /\ file[l.path] # l.sha /\ r.at = "read"
      BY <1>3, <1>9, <1>11, <2>2
    <3>2. Edited(r, edits, file, 2, t.path, l.sha)
      BY <1>3, <1>4, <1>6, <1>7, <1>11, <3>1 DEF GoodText
    <3>3. 2 + 1 <= edits - r.edits
      BY <3>1, <3>2 DEF Edited
    <3> QED BY <1>3, <1>4, <3>3
  <2> QED BY <1>3, <1>11, <2>1, <2>2
<1>12. GoodText(p, s, edits, file)
  <2>1. s.edits \in Nat /\ s.edits <= edits /\ s.at # "read"
    BY <1>3, <1>4, <1>5 DEF GoodText
  <2>2. p \in Builder /\ Stage(s) \notin {"idle", "status"} =>
         \A t \in s.input.passages : Unregistered(s.input.rows, t) =>
           Edited(s, edits, file, 1, t.path, t.text)
    BY <1>3, <1>4, <1>7, <1>8 DEF GoodText
  <2> QED BY <1>10, <1>11, <2>1, <2>2 DEF GoodText
<1> QED BY <1>1, <1>12, PrivateText

LEMMA StatusText ==
    ASSUME SemanticConstants, SearchConstants, TypeInv, TextInv, NEW p \in Process,
           ReadHealth(p) \/ CheckDatabase(p) \/ Judge(p)
    PROVE  TextInv'
<1> DEFINE r == proc[p]
<1>1. UNCHANGED <<file, edits, db>>
  BY DEF ReadHealth, CheckDatabase, Judge, Private, Stays, world
<1>2. Shape(r) /\ edits \in Nat /\ GoodText(p, r, edits, file)
  BY EditsAre DEF TypeInv, ProcInv
<1>3. CASE ReadHealth(p)
  <2> DEFINE input == IF p \in Builder THEN Loaded(p) ELSE None
             h == [proc[p] EXCEPT !.health = health, !.input = input]
             s == Loading(h, "check")
  <2>1. Becomes(p, s) /\ r.at = "status"
    BY <1>3 DEF ReadHealth, At
  <2>2. Shape(h) /\ h.input = input /\ h.edits = r.edits
    BY <1>2, Fields DEF Shape
  <2> HIDE DEF h
  <2>3. /\ s.at = "rows" /\ s.then = "check" /\ s.passages = {} /\ s.input = input
        /\ s.edits = r.edits
    BY <2>2, LoadingIs
  <2>4. Stage(r) = "status" /\ Stage(s) = "check"
    BY <2>1, <2>3 DEF Stage, LoadPlace
  <2>5. p \in Builder => s.input.rows = r.rows /\ s.input.passages = r.passages
    BY <2>3 DEF Loaded
  <2> HIDE DEF s, input
  <2>6. \A t \in r.passages : Unregistered(r.rows, t) => Edited(s, edits, file, 1, t.path, t.text)
    BY <1>2, <2>3, <2>4 DEF GoodText, Edited
  <2>7. GoodText(p, s, edits, file)
    <3>1. s.edits \in Nat /\ s.edits <= edits
      BY <1>2, <2>3 DEF GoodText
    <3> QED BY <2>3, <2>4, <2>5, <2>6, <3>1 DEF GoodText
  <2> QED BY <1>1, <2>1, <2>7, PrivateText
<1>4. CASE CheckDatabase(p)
  <2> DEFINE s == [proc[p] EXCEPT !.seen = db, !.at = "judge"]
  <2>1. Becomes(p, s) /\ r.at = "check"
    BY <1>4 DEF CheckDatabase, At
  <2>2. s.at = "judge" /\ s.input = r.input /\ s.edits = r.edits
    BY <1>2, Fields DEF Shape
  <2> HIDE DEF s
  <2>3. Stage(r) = "check" /\ Stage(s) = "judge"
    BY <2>1, <2>2 DEF Stage, LoadPlace
  <2>4. GoodText(p, s, edits, file)
    BY <1>2, <2>2, <2>3, NothingRead
  <2> QED BY <1>1, <2>1, <2>4, PrivateText
<1>5. CASE Judge(p)
  <2> DEFINE current == Verified(proc[p].seen, Loaded(p), Backend[p]) /\ HealthCurrent(p)
             structural == Verified(proc[p].seen, Loaded(p), Backend[p])
             h == [proc[p] EXCEPT !.rows = None, !.passages = {}, !.health = None,
                                  !.seen = None]
  <2>1. r.at = "judge" /\ Stage(r) = "judge"
    BY <1>5 DEF Judge, At, Stage, LoadPlace
  <2>2. CASE p \in Reader
    <3>1. Becomes(p, [Idle EXCEPT !.at = IF current THEN "current" ELSE "refused"])
      BY <1>5, <2>2 DEF Judge
    <3>2. PICK place \in {"current", "refused"} : Becomes(p, [Idle EXCEPT !.at = place])
      <4> HIDE DEF current
      <4> QED BY <3>1
    <3>3. p \notin Builder
      BY <2>2 DEF SemanticConstants
    <3>4. GoodText(p, [Idle EXCEPT !.at = place], edits, file)
      BY <1>2, <3>3, IdleText
    <3> QED BY <1>1, <3>2, <3>4, PrivateText
  <2>3. CASE p \notin Reader
    <3>1. Becomes(p, IF current THEN Idle
                     ELSE [h EXCEPT !.at = IF structural THEN "repair" ELSE "embed"])
      BY <1>5, <2>3 DEF Judge
    <3>2. CASE Becomes(p, Idle)
      BY <1>1, <3>2, FailKeepsText
    <3>3. ASSUME NEW place \in {"repair", "embed"}, Becomes(p, [h EXCEPT !.at = place])
          PROVE  TextInv'
      <4> DEFINE s == [h EXCEPT !.at = place]
      <4>1. s.at = place /\ s.input = r.input /\ s.edits = r.edits
        BY <1>2, Fields DEF Shape
      <4>2. Becomes(p, s)
        BY <3>3
      <4> HIDE DEF s
      <4>3. Stage(s) = place
        BY <4>1 DEF Stage, LoadPlace
      <4>4. GoodText(p, s, edits, file)
        BY <1>2, <2>1, <4>1, <4>3, NothingRead
      <4> QED BY <1>1, <4>2, <4>4, PrivateText
    <3> HIDE DEF current, structural, h
    <3> QED BY <3>1, <3>2, <3>3
  <2> QED BY <2>2, <2>3
<1> QED BY <1>3, <1>4, <1>5

(* A step of a builder after its first status, to another place where      *)
(* nothing is loaded.                                                      *)
LEMMA StandsText ==
    ASSUME TypeInv, TextInv, NEW p \in Process,
           Stage(proc[p]) \notin {"idle", "status"}, NEW s, Becomes(p, s),
           s.at \in {"embed", "record", "write"}, s.input = proc[p].input,
           s.edits = proc[p].edits, UNCHANGED <<file, edits, db>>
    PROVE  TextInv'
<1>1. Stage(s) = s.at
  BY DEF Stage, LoadPlace
<1>2. GoodText(p, s, edits, file)
  BY <1>1, EditsAre, NothingRead
<1> QED BY <1>2, PrivateText

LEMMA BuilderText ==
    ASSUME SemanticConstants, TypeInv, TextInv, NEW p \in Process,
           Repair(p) \/ CheckRepair(p) \/ RecheckRepair(p) \/ Embed(p) \/ CheckPromoted(p)
             \/ Record(p) \/ WriteHealth(p)
    PROVE  TextInv'
<1>1. UNCHANGED <<file, edits, db>>
  BY DEF Repair, CheckRepair, RecheckRepair, Embed, CheckPromoted, Record, WriteHealth, Fail,
         Private, Stays, world
<1>2. TextIsRegistered'
  BY <1>1 DEF TextInv, TextIsRegistered
<1>3. proc[p].at \in {"repair", "repaired", "recheck", "embed", "promoted", "record", "write"}
  BY DEF Repair, CheckRepair, RecheckRepair, Embed, CheckPromoted, Record, WriteHealth, At
<1>4. Stage(proc[p]) \notin {"idle", "status"} /\ Shape(proc[p])
  BY <1>3 DEF Stage, LoadPlace, TypeInv, ProcInv
<1>5. ASSUME Fail(p) PROVE TextInv'
  BY <1>1, <1>5, FailKeepsText DEF Fail
<1>6. ASSUME NEW then \in {"repaired", "recheck", "staged"}, Becomes(p, Loading(proc[p], then))
      PROVE  TextInv'
  BY <1>1, <1>2, <1>4, <1>6, LoadsAgainText
<1>7. CASE Becomes(p, [proc[p] EXCEPT !.at = "record"])
  <2> DEFINE s == [proc[p] EXCEPT !.at = "record"]
  <2>1. s.at = "record" /\ s.input = proc[p].input /\ s.edits = proc[p].edits
    BY <1>4, Fields DEF Shape
  <2>2. Becomes(p, s)
    BY <1>7
  <2> HIDE DEF s
  <2> QED BY <1>1, <1>4, <2>1, <2>2, StandsText
<1>8. CASE Record(p)
  <2> DEFINE s == [proc[p] EXCEPT !.at = "write", !.seen = db]
  <2>1. s.at = "write" /\ s.input = proc[p].input /\ s.edits = proc[p].edits
    BY <1>4, Fields DEF Shape
  <2>2. Becomes(p, s)
    BY <1>8 DEF Record
  <2> HIDE DEF s
  <2> QED BY <1>1, <1>4, <2>1, <2>2, StandsText
<1>9. CASE Becomes(p, Idle)
  BY <1>1, <1>9, FailKeepsText
<1>10. CASE Repair(p) \/ CheckRepair(p) \/ Embed(p)
  BY <1>5, <1>6, <1>10 DEF Repair, CheckRepair, Embed
<1>11. CASE RecheckRepair(p) \/ CheckPromoted(p)
  BY <1>5, <1>7, <1>11 DEF RecheckRepair, CheckPromoted
<1>12. CASE WriteHealth(p)
  BY <1>5, <1>9, <1>12 DEF WriteHealth
<1> QED BY <1>8, <1>10, <1>11, <1>12

LEMMA PromoteText ==
    ASSUME SemanticConstants, TypeInv, TextInv, NEW p \in Process, Promote(p)
    PROVE  TextInv'
<1> DEFINE r == proc[p]
<1>1. UNCHANGED <<file, edits>> /\ r.at = "staged" /\ Stage(r) = "staged"
  BY DEF Promote, Fail, Stays, world, At, Stage, LoadPlace
<1>2. CASE Fail(p)
  BY <1>1, <1>2, FailKeepsText DEF Fail
<1>3. CASE ~ Fail(p)
  <2>1. /\ Loaded(p) = r.input /\ db' = Staging(p)
        /\ Becomes(p, Loading(r, "promoted"))
    BY <1>3 DEF Promote, Confirmed
  <2>2. p \in Builder
    BY <1>1, BuilderAtHand
  <2>3. r.rows = r.input.rows /\ r.passages = r.input.passages
    BY <2>1 DEF Loaded
  <2>4. \A t \in r.input.passages : Unregistered(r.input.rows, t) => 3 <= edits - r.edits
    BY <1>1, <2>2, <2>3, EditsAre DEF GoodText
  <2>5. db'.input = r.input /\ db'.edits = edits - r.edits
    BY <2>1 DEF Staging
  <2>6. edits - r.edits \in Nat
    BY EditsAre
  <2>7. TextIsRegistered'
    BY <2>4, <2>5, <2>6 DEF TextIsRegistered, Unregistered
  <2> QED BY <1>1, <2>1, <2>7, LoadsAgainText
<1> QED BY <1>2, <1>3

LEMMA BeginText ==
    ASSUME SemanticConstants, TypeInv, TextInv, NEW p \in Process,
           BeginBuild(p) \/ LoadRows(p) \/ HashSource(p) \/ ReadSource(p) \/ Die(p)
    PROVE  TextInv'
<1> DEFINE r == proc[p]
<1>1. UNCHANGED <<file, edits, db>>
  BY DEF BeginBuild, LoadRows, HashSource, ReadSource, Die, Fail, Private, Stays, world
<1>2. Shape(r) /\ edits \in Nat /\ GoodText(p, r, edits, file)
  BY EditsAre DEF TypeInv, ProcInv
<1>3. CASE BeginBuild(p)
  <2> DEFINE h == [Idle EXCEPT !.id = builds + 1, !.edits = edits]
             s == Loading(h, "status")
  <2>1. Becomes(p, s)
    BY <1>3 DEF BeginBuild
  <2>2. Shape(h) /\ h.edits = edits
    BY DEF Shape, ProcField, Idle
  <2> HIDE DEF h
  <2>3. s.at = "rows" /\ s.then = "status" /\ s.passages = {} /\ s.edits = edits
    BY <2>2, LoadingIs
  <2> HIDE DEF s
  <2>4. Stage(s) = "status"
    BY <2>3 DEF Stage, LoadPlace
  <2>5. GoodText(p, s, edits, file)
    BY <1>2, <2>3, <2>4 DEF GoodText
  <2> QED BY <1>1, <2>1, <2>5, PrivateText
<1>4. CASE LoadRows(p)
  <2>1. r.at = "rows" /\ r.passages = {} /\ r.then \in LoadStage(p) \ {"judge"}
        /\ Stage(r) = r.then
    BY <1>4, InHand DEF LoadRows, At, GoodLoad, Stage, LoadPlace
  <2>2. CASE lexical = ledger
    <3> DEFINE place == IF PassageRows(lexical) = {} THEN r.then ELSE "hash"
               s == [proc[p] EXCEPT !.rows = lexical, !.todo = PassageRows(lexical),
                                    !.at = place]
    <3>1. Becomes(p, s)
      BY <1>4, <2>2 DEF LoadRows
    <3>2. /\ s.at = place /\ s.then = r.then /\ s.passages = {} /\ s.input = r.input
          /\ s.edits = r.edits
      BY <1>2, <2>1, Fields DEF Shape
    <3>3. place # "read" /\ place \in {"hash", r.then}
      BY <2>1 DEF LoadStage
    <3> HIDE DEF s, place
    <3>4. Stage(s) = Stage(r)
      BY <2>1, <3>2, <3>3 DEF Stage, LoadPlace, LoadStage
    <3>5. GoodText(p, s, edits, file)
      BY <1>2, <3>2, <3>3, <3>4, NothingRead
    <3> QED BY <1>1, <3>1, <3>5, PrivateText
  <2>3. CASE lexical # ledger /\ r.then = "check" /\ p \in Reader
    <3>1. Becomes(p, [Idle EXCEPT !.at = "refused"])
      BY <1>4, <2>3 DEF LoadRows
    <3>2. p \notin Builder
      BY <2>3 DEF SemanticConstants
    <3>3. GoodText(p, [Idle EXCEPT !.at = "refused"], edits, file)
      BY <1>2, <3>2, IdleText
    <3> QED BY <1>1, <3>1, <3>3, PrivateText
  <2>4. CASE lexical # ledger /\ r.then = "check" /\ p \notin Reader
    <3> DEFINE s == [proc[p] EXCEPT !.at = "embed"]
    <3>1. Becomes(p, s)
      BY <1>4, <2>4 DEF LoadRows
    <3>2. s.at = "embed" /\ s.input = r.input /\ s.edits = r.edits
      BY <1>2, Fields DEF Shape
    <3> HIDE DEF s
    <3> QED BY <1>1, <2>1, <2>4, <3>1, <3>2, StandsText
  <2>5. CASE Fail(p)
    BY <1>1, <2>5, FailKeepsText DEF Fail
  <2> QED BY <1>4, <2>2, <2>3, <2>4, <2>5 DEF LoadRows
<1>5. CASE HashSource(p)
  <2>1. CASE file[NextRow(p).path] = NextRow(p).sha
    BY <1>5, <2>1, HashedText
  <2>2. CASE file[NextRow(p).path] # NextRow(p).sha
    <3>1. RowDone(p, {}) /\ r.at = "hash"
      BY <1>5, <2>2 DEF HashSource, At
    <3>2. proc[p].at \in {"hash", "read"} /\ OfRow(p, {})
      BY <3>1 DEF OfRow
    <3> QED BY <1>1, <3>1, <3>2, RowDoneText
  <2> QED BY <2>1, <2>2
<1>6. CASE ReadSource(p)
  <2> DEFINE l == NextRow(p)
             text == file[l.path]
             S == IF text = None THEN {}
                  ELSE {[event |-> l.event, path |-> l.path, first |-> c[1],
                         last |-> c[2], text |-> text] : c \in Chunks[l]}
  <2>1. RowDone(p, S) /\ r.at = "read"
    BY <1>6 DEF ReadSource, At
  <2>2. \A s \in S : s.path = l.path /\ s.text = text
    <3> HIDE DEF l, text
    <3> QED OBVIOUS
  <2>3. proc[p].at \in {"hash", "read"} /\ OfRow(p, S)
    BY <2>1, <2>2 DEF OfRow
  <2> HIDE DEF S
  <2> QED BY <1>1, <2>1, <2>3, RowDoneText
<1>7. CASE Die(p)
  BY <1>1, <1>7, FailKeepsText DEF Die
<1> QED BY <1>3, <1>4, <1>5, <1>6, <1>7

(* An edit more, of whatever file, is an edit more for every build.        *)
LEMMA OneEditMore ==
    ASSUME NEW p, NEW r, NEW e \in Nat, NEW f, NEW g, GoodText(p, r, e, f)
    PROVE  GoodText(p, r, e + 1, g)
<1>1. r.edits \in Nat /\ r.edits <= e
  BY DEF GoodText
<1>2. ASSUME NEW n \in Nat, NEW path, NEW text, Edited(r, e, f, n, path, text)
      PROVE  Edited(r, e + 1, g, n, path, text)
  <2>1. n <= e - r.edits
    BY <1>1, <1>2 DEF Edited
  <2>2. n + 1 <= (e + 1) - r.edits /\ n <= (e + 1) - r.edits
    BY <1>1, <2>1
  <2> QED BY <2>2 DEF Edited
<1>3. 3 <= e - r.edits => 3 <= (e + 1) - r.edits
  BY <1>1
<1>4. r.edits <= e + 1
  BY <1>1
<1> QED BY <1>1, <1>2, <1>3, <1>4 DEF GoodText

LEMMA WorldText ==
    ASSUME TypeInv, TextInv, World
    PROVE  TextInv'
<1>1. UNCHANGED <<db, proc>> /\ (UNCHANGED <<file, edits>> \/ edits' = edits + 1)
  BY DEF World, Commit, PublishLexical, EditFile
<1>2. edits \in Nat
  BY DEF TypeInv, WorldInv
<1>3. ASSUME NEW p \in Process PROVE GoodText(p, proc[p], edits', file')
  BY <1>1, <1>2, OneEditMore DEF TextInv
<1>4. TextIsRegistered'
  BY <1>1 DEF TextInv, TextIsRegistered
<1> QED BY <1>1, <1>3, <1>4 DEF TextInv

LEMMA TextInvStep ==
    ASSUME SemanticConstants, SearchConstants, TypeInv, TextInv, [Next]_searchVars
    PROVE  TextInv'
<1>1. CASE World
  BY <1>1, WorldText
<1>2. ASSUME NEW p \in Process, Step(p) PROVE TextInv'
  BY <1>2, BeginText, StatusText, BuilderText, PromoteText DEF Step
<1>3. CASE Next /\ ~ Meanwhile
  <2>1. UNCHANGED <<file, edits, db>>
    BY <1>3, ServerTurns DEF ServerTurn, world
  <2>2. CASE UNCHANGED proc
    BY <2>1, <2>2 DEF TextInv, TextIsRegistered
  <2>3. CASE \E place \in {"idle", "serving", "status"} :
               Becomes(Server, [Idle EXCEPT !.at = place])
    <3>1. PICK place \in {"idle", "serving", "status"} :
            Becomes(Server, [Idle EXCEPT !.at = place])
      BY <2>3
    <3>2. GoodText(Server, [Idle EXCEPT !.at = place], edits, file)
      BY TheServer, IdleText DEF TypeInv, WorldInv
    <3> QED BY <2>1, <3>1, <3>2, TheServer, PrivateText
  <2> QED BY <1>3, <2>2, <2>3, ServerTurns DEF ServerTurn
<1>4. CASE UNCHANGED searchVars
  BY <1>4 DEF searchVars, vars, world, TextInv, TextIsRegistered
<1> QED BY <1>1, <1>2, <1>3, <1>4 DEF Next, Meanwhile

LEMMA TextInvInit ==
    ASSUME SemanticConstants, SearchConstants, SearchInit
    PROVE  TextInv
<1>1. db = None /\ proc = [p \in Process |-> Idle] /\ edits = 0
  BY DEF SearchInit, Init
<1>2. ASSUME NEW p \in Process PROVE GoodText(p, Idle, edits, file)
  <2>1. GoodText(p, [Idle EXCEPT !.at = "idle"], edits, file)
    BY <1>1, IdleText
  <2> QED BY <2>1, IdleIs
<1> QED BY <1>1, <1>2 DEF TextInv, TextIsRegistered
-----------------------------------------------------------------------------
(* The types: what a database, a health record and a builder have is the   *)
(* input of a ledger, with pieces of its registered rows only, and a call  *)
(* is one that the server's process is at.                                 *)
THEOREM SearchTypeCorrect == Spec => []TypeOK
<1>1. SearchInit => SearchInv
  BY SearchInvInit, SemanticConstants, SearchConstants
<1>2. SearchInv /\ [Next]_searchVars => SearchInv'
  BY SearchInvStep, SemanticConstants, SearchConstants
<1>3. SearchInv => TypeOK
  <2>1. SearchInv => IndexTypeOK
    <3> SUFFICES ASSUME SearchInv PROVE IndexTypeOK
      OBVIOUS
    <3>1. ASSUME NEW p \in Builder, proc[p].input # None PROVE IsInput(proc[p].input)
      BY <3>1, InHand, SemanticConstants DEF SearchInv, Process, GoodBuilder
    <3> QED BY <3>1 DEF SearchInv, TypeInv, WorldInv, IndexTypeOK, IsDatabase
  <2> QED BY <2>1 DEF SearchInv, CallInv, TypeOK
<1> QED BY <1>1, <1>2, <1>3, PTL DEF Spec

(* Text nobody registered gets into the published database only if files   *)
(* or the lexical index were changed three times while it was built: a     *)
(* build hashes each file and opens it again to read it, and compares what *)
(* it read with a second load before it replaces the database.             *)
THEOREM PublishedTextIsRegistered == Spec => []TextIsRegistered
<1>1. SearchInit => SearchInv /\ TextInv
  BY SearchInvInit, TextInvInit, SemanticConstants, SearchConstants
<1>2. SearchInv /\ TextInv /\ [Next]_searchVars => SearchInv' /\ TextInv'
  BY SearchInvStep, TextInvStep, SemanticConstants, SearchConstants DEF SearchInv
<1>3. TextInv => TextIsRegistered
  BY DEF TextInv
<1> QED BY <1>1, <1>2, <1>3, PTL DEF Spec

(* A search during which no index is replaced fails only because the       *)
(* semantic index is not current or the query has no word, and a semantic  *)
(* or hybrid one that is answered leaves out no record: what               *)
(* search_semantic, the fusion and the identity gate read in separate      *)
(* connections then agrees.                                                *)
THEOREM SteadySearches == Spec => []SteadySearch
<1>1. SearchInit => SearchInv /\ SteadySearch
  <2>1. SearchInit => SearchInv
    BY SearchInvInit, SemanticConstants, SearchConstants
  <2>2. SearchInit => SteadySearch
    BY DEF SearchInit, NoAnswer, SteadySearch
  <2> QED BY <2>1, <2>2
<1>2. SearchInv /\ SteadySearch /\ [Next]_searchVars => SearchInv' /\ SteadySearch'
  BY SearchInvStep, SteadySearchStep, SemanticConstants, SearchConstants
<1> QED BY <1>1, <1>2, PTL DEF Spec
=============================================================================
