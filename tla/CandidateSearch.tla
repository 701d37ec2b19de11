-------------------------- MODULE CandidateSearch ---------------------------
(***************************************************************************)
(* memory_search_candidates (server.py) over a lexical and a semantic      *)
(* index that builders publish while it runs.                              *)
(*                                                                         *)
(* A call opens the two databases several times: for the lexical hits, for *)
(* the rows of the semantic index, to find the canonical locators of its   *)
(* hits, for the rows of the fused candidates, and for the identity gate.  *)
(* Ranking is left out: a query is the set of locators whose text it       *)
(* matches best, none for one without a word, and no result is cut off.  Suggestions for records        *)
(* without a source, and the layout of the answer, are left out.           *)
(***************************************************************************)
EXTENDS SemanticIndex

CONSTANTS
    Server,     \* the process that answers; the only reader
    Query       \* sets of locators

Mode == {"lexical", "semantic", "hybrid", "adaptive"}
Call == [mode : Mode, eventFirst : BOOLEAN, query : Query,
         at : {"lexical", "semantic", "vectors", "resolve", "fuse", "canonical", "identity"},
         hits : SUBSET Locator, found : SUBSET Locator, rows : {None} \cup Input,
         lexical : DOMAIN Ledger, moved : BOOLEAN]

ASSUME SearchConstants ==
    /\ Reader = {Server}
    /\ None \notin Call

VARIABLES
    call,      \* the call being answered; .lexical and .moved are history: the
               \* lexical index it began with, and whether an index was replaced since
    answer     \* the answer given in the last step, if one was

searchVars == <<vars, call, answer>>

NoAnswer == [status |-> "none"]

SearchInit == Init /\ call = None /\ answer = NoAnswer

(* What goes on meanwhile.                                                 *)
Meanwhile ==
    /\ World \/ \E p \in Process : Step(p)
    /\ call' = IF call = None THEN None
               ELSE [call EXCEPT !.moved = @ \/ <<lexical, db>>' # <<lexical, db>>]
    /\ answer' = NoAnswer
-----------------------------------------------------------------------------
Quiet == UNCHANGED <<world, db, health, builds, edits, calls>>
Serving == [Idle EXCEPT !.at = "serving"]
Proceeds(c) == call' = c /\ answer' = NoAnswer /\ Quiet /\ UNCHANGED proc

(* An exception, with what it is about.                                    *)
Raises(why) ==
    /\ answer' = [status |-> "raised", why |-> why, moved |-> call.moved]
    /\ call' = None
    /\ Becomes(Server, Idle)
    /\ Quiet

(* Lexical hits come first but for a semantic search; adaptive asks for a  *)
(* semantic one unless the query looks like code.                          *)
First(mode, structural) ==
    IF mode \in {"lexical", "hybrid"} \/ (mode = "adaptive" /\ structural)
    THEN "lexical" ELSE "semantic"

(* memory_search_candidates behind _require_current_lexical_index.  The    *)
(* candidate backend plays no part in a semantic search, the shape of the  *)
(* query none but in an adaptive one.                                      *)
Search(mode, eventFirst, query, structural) ==
    /\ At(Server, "idle")
    /\ Room /\ Within(builds, edits, calls + 1)
    /\ lexical = ledger
    /\ eventFirst => mode # "semantic"
    /\ structural => mode = "adaptive"
    /\ call' = [mode |-> mode, eventFirst |-> eventFirst, query |-> query,
                at |-> First(mode, structural), hits |-> {}, found |-> {}, rows |-> None,
                lexical |-> lexical, moved |-> FALSE]
    /\ answer' = NoAnswer
    /\ calls' = calls + 1
    /\ Becomes(Server, Serving)
    /\ UNCHANGED <<world, db, health, builds, edits>>

(* search_lexical: passages and events; search_event_first_lexical: the    *)
(* events' own rows.                                                       *)
LexicalHits ==
    {l \in Ledger[lexical].rows \cap call.query : call.eventFirst => l = Main[l.event]}

(* safe_fts_query raises a ValueError for a query without a word.          *)
FindLexical ==
    /\ call # None /\ call.at = "lexical"
    /\ \/ call.query = {} /\ Raises("query")
       \/ Proceeds([call EXCEPT !.hits = LexicalHits,
               !.at = IF call.mode = "hybrid" THEN "semantic" ELSE "identity"])

(* _require_current_semantic_index asks semantic_status.                   *)
AskSemantic ==
    /\ call # None /\ call.at = "semantic" /\ At(Server, "serving")
    /\ Becomes(Server, [Idle EXCEPT !.at = "status"])
    /\ UNCHANGED call /\ answer' = NoAnswer /\ Quiet

(* RuntimeError of search_semantic: adaptive falls back to lexical hits.   *)
SemanticFails(why) ==
    IF call.mode = "adaptive"
    THEN /\ call' = [call EXCEPT !.at = "lexical", !.rows = None]
         /\ answer' = NoAnswer /\ Becomes(Server, Serving) /\ Quiet
    ELSE Raises(why)

SemanticAnswered ==
    /\ call # None /\ proc[Server].at \in {"current", "refused"}
    /\ IF At(Server, "refused") THEN SemanticFails("not current")
       ELSE /\ call' = [call EXCEPT !.at = "vectors"]
            /\ answer' = NoAnswer /\ Becomes(Server, Serving) /\ Quiet

(* search_semantic embeds the query: one without a word is a ValueError,   *)
(* from which an adaptive search does not fall back.  Then it opens the    *)
(* database that is there now; vectors of another model are taken if they  *)
(* are as long as the query's.                                             *)
ReadVectors ==
    /\ call # None /\ call.at = "vectors"
    /\ \/ call.query = {} /\ Raises("query")
       \/ Proceeds([call EXCEPT !.rows = db.input, !.at = "resolve"])
       \/ db.backend # Backend[Server] /\ SemanticFails("dimensions")

(* The passage of an event that matches, if one scores above its summary.  *)
Hit(e) ==
    {s \in call.rows.passages :
        s.event = e /\ \E l \in call.query : /\ l.event = e /\ l.path = s.path
                                             /\ l.first <= s.first /\ s.last <= l.last}

(* The registered locators around a passage.                               *)
Parents(s) ==
    {l \in Ledger[lexical].rows :
        /\ l.event = s.event /\ l.path = s.path /\ Registered(l, lexical)
        /\ l.first <= s.first /\ s.last <= l.last}

(* Mutant: the piece that was embedded is taken for the locator.           *)
ParentPiece(s) ==
    [event |-> s.event, path |-> s.path, first |-> s.first, last |-> s.last,
     sha |-> (CHOOSE l \in Parents(s) : TRUE).sha]

(* The shortest of them.                                                   *)
Parent(s) ==
    CHOOSE l \in Parents(s) : \A k \in Parents(s) : l.last - l.first <= k.last - k.first

(* Each event of the vectors that the lexical index knows, by the parent   *)
(* of its best passage or by its own row.                                  *)
Resolve ==
    /\ call # None /\ call.at = "resolve"
    /\ LET events == Events(call.rows.rows) \cap Events(lexical)
           best == {CHOOSE s \in Hit(e) : TRUE : e \in {e \in events : Hit(e) # {}}}
       IN  IF \E s \in best : Parents(s) = {}
           THEN SemanticFails("absent passage")
           ELSE LET found == {Parent(s) : s \in best}
                             \cup {Main[e] : e \in {e \in events : Hit(e) = {}}}
                IN  Proceeds([call EXCEPT !.found = found, !.rows = None,
                        !.at = IF found = {} /\ call.mode = "adaptive" THEN "lexical"
                               ELSE IF call.mode # "hybrid" THEN "identity"
                               ELSE IF call.eventFirst THEN "canonical" ELSE "fuse"])

(* search_hybrid: the semantic candidate of an event before its lexical    *)
(* one.                                                                    *)
Fuse ==
    /\ call # None /\ call.at = "fuse"
    /\ LET events == {l.event : l \in call.found}
           rest == {l.event : l \in call.hits} \ events
       IN  \E chosen \in [rest -> call.hits] :
             /\ \A e \in rest : chosen[e].event = e
             /\ Proceeds([call EXCEPT !.hits = {chosen[e] : e \in rest}, !.at = "identity"])

(* search_event_first_hybrid: the event's own row, and the semantic        *)
(* locator beside it as evidence.                                          *)
FuseEvents ==
    /\ call # None /\ call.at = "canonical"
    /\ LET events == {l.event : l \in call.found \cup call.hits}
       IN  IF events \subseteq Events(lexical)
           THEN Proceeds([call EXCEPT !.hits = {Main[e] : e \in events}, !.at = "identity"])
           ELSE Raises("absent event")

(* _apply_candidate_identity_gate: all locators, or none.                  *)
Identify ==
    /\ call # None /\ call.at = "identity"
    /\ LET locators == call.hits \cup call.found
       IN  IF locators \subseteq Ledger[lexical].rows
           THEN /\ answer' = [status |-> "answered", mode |-> call.mode, moved |-> call.moved,
                              lexical |-> call.lexical, locators |-> locators,
                              eligible |-> {l \in locators : Registered(l, lexical)}]
                /\ call' = None
                /\ Becomes(Server, Idle)
                /\ Quiet
           ELSE Raises("identity")
-----------------------------------------------------------------------------
Next ==
    \/ Meanwhile
    \/ \E mode \in Mode, eventFirst \in BOOLEAN, query \in Query, structural \in BOOLEAN :
         Search(mode, eventFirst, query, structural)
    \/ FindLexical \/ AskSemantic \/ SemanticAnswered \/ ReadVectors \/ Resolve
    \/ Fuse \/ FuseEvents \/ Identify

Spec == SearchInit /\ [][Next]_searchVars
-----------------------------------------------------------------------------
(* Types; an input has passages of registered sources only, and a health   *)
(* record that names a database has one.                                   *)
TypeOK ==
    /\ IndexTypeOK
    /\ call # None => call \in Call
    /\ proc[Server].at \notin {"idle", "serving"} => call # None /\ call.at = "semantic"

(* Text that was never registered gets into the published database only    *)
(* if the files were changed, or late index files installed, three times   *)
(* while it was built: for one file that is once after it was hashed, back *)
(* before it is hashed again, and once more before it is read.             *)
TextIsRegistered ==
    db # None =>
      \A s \in db.input.passages :
        <<s.path, s.text>> \notin Ledger[db.input.rows].sources => db.edits >= 3

(* While neither index moves, a search fails only because the semantic     *)
(* index is not current or because there is no word in the query: no hit   *)
(* of it is without its registered locator, none fails the identity gate.  *)
(* And a semantic search that is answered then leaves out no record of the *)
(* ledger.                                                                 *)
SteadySearch ==
    /\ answer.status = "raised" => answer.why \in {"not current", "query"} \/ answer.moved
    /\ answer.status = "answered" /\ answer.mode \in {"semantic", "hybrid"} =>
         answer.moved \/ {l.event : l \in answer.locators} = Events(answer.lexical)
=============================================================================
