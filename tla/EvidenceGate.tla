---------------------------- MODULE EvidenceGate -----------------------------
(***************************************************************************)
(* One MCP server session that fetches evidence and judges claims          *)
(* (server.py memory_fetch_evidence and memory_check_evidence_eligibility, *)
(* core/claim_gate.py), while registered files are edited, records are     *)
(* appended and the lexical index is published anew.                       *)
(*                                                                         *)
(* The server answers one call after another, but a call reads index and   *)
(* file in several steps: the gate, the registered hashes, the registered  *)
(* range, the file, and so on for each reference of a claim.  The index is *)
(* the set of locators it was built from (LexicalIndex!IndexIsImage).  A   *)
(* hash is the content itself.  Texts, the guidance after a mismatch and   *)
(* the path policy are left out.                                           *)
(***************************************************************************)
EXTENDS Naturals, SequencesExt

CONSTANTS
    Path,          \* registered source files
    Content,       \* contents of files
    Lines,         \* [Content -> Nat]: number of lines
    Registered,    \* [Path -> Content]: the sources table
    Locator,       \* sources of records: .event, .path, .sha, .first, .last
    Reference,     \* what callers ask for: the same fields, each may be None
    Claim,         \* claims: .type and .materiality
    Context,       \* lines of display context a fetch may ask for
    MaxFetchLines, \* UNIVERSAL_RESEARCH_MAX_FETCH_LINES
    LogLimit,      \* _SESSION_FETCH_LOG_LIMIT
    Cites,         \* bound: the references a claim may come with, sequences
    Late,          \* the locators recorded after the start
    MaxCall,       \* bound: calls in a session
    MaxEdit,       \* bound: edits of files, late publications and restarts
    DefaultSpan,   \* lines after the first when no last line is asked for
    None           \* nothing

ASSUME GateConstants ==
    /\ Lines \in [Content -> Nat]
    /\ Registered \in [Path -> Content]
    /\ {MaxFetchLines, LogLimit, DefaultSpan, MaxCall, MaxEdit} \subseteq Nat
    /\ Cites \subseteq Seq(Reference)
    /\ Late \subseteq Locator
    /\ Context \subseteq Nat
    /\ None \notin Content
    /\ IsFiniteSet(Path)
    /\ \A l \in Locator :
         /\ l.path \in Path /\ l.sha \in Content
         /\ None \notin {l.event, l.last} /\ {l.first, l.last} \subseteq Nat
         \* the build refuses a registered range past the end of its file
         /\ l.sha = Registered[l.path] /\ l.first \in 1..l.last => l.last <= Lines[l.sha]
    /\ \A r \in Reference : r.path \in Path /\ r.first \in Nat

VARIABLES
    file,     \* content of each file, None when it is gone
    ledger,   \* locators of the canonical records
    index,    \* locators of the published lexical index
    past,     \* history: the ledgers there have been
    call,     \* the call being answered; .files and .indexes are history: what
              \* the files and the index have been since it began
    log,      \* _SESSION_FETCH_LOG
    receipt,  \* the last eligibility receipt, with the call it answers
    fetched,  \* history: every fetch that was answered since the server started
    calls,    \* calls so far
    edits     \* edits, late publications and restarts so far

world == <<file, ledger, index, past>>
vars == <<world, call, log, receipt, fetched, calls, edits>>
-----------------------------------------------------------------------------
(* evidence_eligibility_plan.                                              *)

Consequential == {"comparative", "causal", "release"}

Active(claim) ==
    \/ claim.materiality = "material"
    \/ claim.materiality = "auto" /\ claim.type \in Consequential \cup {"result"}

Minimum(claim) ==
    IF ~ Active(claim) THEN 0 ELSE IF claim.type \in Consequential THEN 2 ELSE 1

(* evaluate_evidence_eligibility: every check verified, enough events.     *)
Status(claim, checks) ==
    IF ~ Active(claim) THEN "not_required"
    ELSE IF /\ \A i \in DOMAIN checks : checks[i].verified
            /\ Cardinality({checks[i].event : i \in DOMAIN checks} \ {None}) >= Minimum(claim)
         THEN "eligible" ELSE "blocked"

(* Mutant: a reference to the same file counts as well.                    *)
OmittedByPath(entries, cites) ==
    {entry \in Range(entries) :
        /\ ~ entry.matched
        /\ \A c \in Range(cites) : c.path # entry.path /\ c.event # entry.event}

(* Mutant: any mismatch of the session counts, cited or not.               *)
OmittedAny(entries, cites) == {entry \in Range(entries) : ~ entry.matched}

(* _omitted_mismatched_fetches: fetched, mismatched, its event not cited;  *)
(* a fetch without an event is matched by path.                            *)
Omitted(entries, cites) ==
    {entry \in Range(entries) :
        /\ ~ entry.matched
        /\ \A c \in Range(cites) :
             ~ IF entry.event # None THEN c.event = entry.event
               ELSE c.event = None /\ c.path = entry.path}

(* _evidence_eligibility_receipt after the checks.                         *)
Verdict(claim, checks, entries, cites) ==
    IF Status(claim, checks) = "eligible" /\ Omitted(entries, cites) # {}
    THEN "blocked" ELSE Status(claim, checks)
-----------------------------------------------------------------------------
Init ==
    /\ file = Registered
    /\ ledger = Locator \ Late
    /\ index = ledger
    /\ past = {ledger}
    /\ call = None
    /\ log = <<>>
    /\ receipt = None
    /\ fetched = <<>>
    /\ calls = 0
    /\ edits = 0

Witness(files, indexes) ==
    call' = IF call = None THEN None
            ELSE [call EXCEPT !.files = @ \cup files, !.indexes = @ \cup indexes]

(* A file is edited, removed or restored.                                  *)
EditFile(p, c) ==
    /\ edits < MaxEdit
    /\ c # file[p]
    /\ file' = [file EXCEPT ![p] = c]
    /\ edits' = edits + 1
    /\ Witness({<<p, c>>}, {})
    /\ UNCHANGED <<ledger, index, past, log, receipt, fetched, calls>>

(* A record is committed; the index waits for its next build.              *)
Record ==
    /\ ledger # Locator
    /\ ledger' = Locator
    /\ past' = past \cup {Locator}
    /\ UNCHANGED <<file, index, call, log, receipt, fetched, calls, edits>>

(* A build is published, a late one of an older ledger.                    *)
Publish(l) ==
    /\ l # index
    /\ l = ledger \/ edits < MaxEdit
    /\ edits' = IF l = ledger THEN edits ELSE edits + 1
    /\ index' = l
    /\ Witness({}, {l})
    /\ UNCHANGED <<file, ledger, past, log, receipt, fetched, calls>>

(* The host starts the server again: the session log is in its memory.     *)
Restart ==
    /\ edits < MaxEdit
    /\ call # None \/ log # <<>>
    /\ call' = None /\ log' = <<>> /\ receipt' = None /\ fetched' = <<>>
    /\ edits' = edits + 1
    /\ UNCHANGED <<world, calls>>
-----------------------------------------------------------------------------
(* Calls.                                                                  *)

Begin(c) ==
    /\ call = None
    /\ calls < MaxCall
    /\ call' = [c EXCEPT !.files = {<<p, file[p]>> : p \in Path}, !.indexes = {index}]
    /\ calls' = calls + 1
    /\ receipt' = None
    /\ UNCHANGED <<world, log, fetched, edits>>

NoCall == [kind |-> "fetch", claim |-> None, cites |-> <<>>, todo |-> <<>>,
           checks |-> <<>>, context |-> 0, step |-> "gate", sha |-> None, last |-> 0,
           files |-> {}, indexes |-> {}]

Fetch(r, context) ==
    Begin([NoCall EXCEPT !.todo = <<r>>, !.context = context])

(* Each reference is fetched with context_lines 0.                         *)
CheckEligibility(claim, cites) ==
    Begin([NoCall EXCEPT !.kind = "eligibility", !.claim = claim, !.cites = cites,
                         !.todo = cites, !.step = IF cites = <<>> THEN "judge" ELSE "check"])

ref == Head(call.todo)

(* The reference is done: a fetch returns, a claim has its next check.     *)
Done(verified) ==
    IF call.kind = "fetch" THEN call' = None
    ELSE call' = [call EXCEPT
        !.todo = Tail(@),
        !.checks = Append(@, [event |-> ref.event, path |-> ref.path, sha |-> ref.sha,
                              verified |-> verified]),
        !.step = IF Len(call.todo) = 1 THEN "judge" ELSE "check"]

(* memory_fetch_evidence raises: nothing is logged.                        *)
Raises ==
    /\ Done(FALSE)
    /\ UNCHANGED <<world, log, receipt, fetched, calls, edits>>
Proceeds(c) ==
    /\ call' = c
    /\ UNCHANGED <<world, log, receipt, fetched, calls, edits>>

(* _claim_evidence_check: a reference that is not complete is refused      *)
(* before anything is read.                                                *)
CheckReference ==
    /\ call # None /\ call.step = "check"
    /\ IF None \in {ref.event, ref.sha, ref.last} \/ ref.last < ref.first
       THEN Raises ELSE Proceeds([call EXCEPT !.step = "gate"])

(* _require_current_lexical_index.                                         *)
PassGate ==
    /\ call # None /\ call.step = "gate"
    /\ IF index = ledger THEN Proceeds([call EXCEPT !.step = "hash"]) ELSE Raises

(* indexed_source_hashes: of the event, as far as registered, or of the    *)
(* file.                                                                   *)
Hashes(event, path) ==
    IF event = None THEN {Registered[path]}
    ELSE {l.sha : l \in {l \in index : l.event = event /\ l.path = path
                                       /\ l.sha = Registered[path]}}

FindHash ==
    /\ call # None /\ call.step = "hash"
    /\ LET hashes == Hashes(ref.event, ref.path)
       IN  IF IF ref.sha = None THEN Cardinality(hashes) = 1 ELSE ref.sha \in hashes
           THEN \E sha \in hashes :
                  /\ ref.sha \in {None, sha}
                  /\ Proceeds([call EXCEPT !.step = "range", !.sha = sha])
           ELSE Raises

(* Mutant: any range inside a registered one will do.                      *)
EndsInside ==
    {IF ref.last = None THEN l.last ELSE ref.last : l \in {l \in index :
        /\ l.event = ref.event /\ l.path = ref.path /\ l.sha = call.sha
        /\ l.first <= ref.first /\ (ref.last # None => ref.last <= l.last)}}

(* _registered_evidence_end: exactly one row.                              *)
Ends ==
    {l.last : l \in {l \in index :
        /\ l.event = ref.event /\ l.path = ref.path /\ l.sha = call.sha
        /\ l.first = ref.first /\ ref.last \in {None, l.last}}}

FindRange ==
    /\ call # None /\ call.step = "range"
    /\ LET ends == IF ref.event # None THEN Ends
                   ELSE IF ref.last # None THEN {ref.last} ELSE {ref.first + DefaultSpan}
           first(last) == IF ref.first > call.context THEN ref.first - call.context ELSE 1
       IN  IF /\ Cardinality(ends) = 1
              /\ \A last \in ends : /\ last >= ref.first
                                    /\ last + call.context - first(last) < MaxFetchLines
           THEN \E last \in ends :
                  Proceeds([call EXCEPT !.step = "read", !.last = last])
           ELSE Raises

InFile(first, last, c) == first <= last /\ last <= Lines[c]

(* Mutant: the log has no limit.                                           *)
LoggedAll(entry) == Append(log, entry)

(* _record_session_fetch drops what comes after the limit.                 *)
Logged(entry) == IF Len(log) < LogLimit THEN Append(log, entry) ELSE log

(* The file is read once, compared, and the fetch is logged.               *)
ReadFile ==
    /\ call # None /\ call.step = "read"
    /\ LET c == file[ref.path]
           matched == c = call.sha
           last == IF ref.event = None /\ ref.last = None /\ c # None
                   THEN Min({call.last, Lines[c]}) ELSE call.last
           entry == [event |-> ref.event, path |-> ref.path, matched |-> matched]
       IN  IF c = None THEN Raises
           ELSE IF ~ InFile(ref.first, last, c) /\ matched THEN Raises
           ELSE /\ log' = Logged(entry)
                /\ fetched' = Append(fetched, entry)
                /\ Done(matched /\ ref.event # None /\ InFile(ref.first, last, c))
                /\ UNCHANGED <<world, receipt, calls, edits>>

Judge ==
    /\ call # None /\ call.step = "judge"
    /\ receipt' = [answers |-> call,
                   status |-> Verdict(call.claim, call.checks, log, call.cites)]
    /\ call' = None
    /\ UNCHANGED <<world, log, fetched, calls, edits>>
-----------------------------------------------------------------------------
Next ==
    \/ \E p \in Path, c \in Content \cup {None} : EditFile(p, c)
    \/ Record \/ Restart
    \/ \E l \in past : Publish(l)
    \/ \E r \in Reference, context \in Context : Fetch(r, context)
    \/ \E claim \in Claim, cites \in Cites : CheckEligibility(claim, cites)
    \/ CheckReference \/ PassGate \/ FindHash \/ FindRange \/ ReadFile \/ Judge

Spec == Init /\ [][Next]_vars
-----------------------------------------------------------------------------
Entry == [event : {r.event : r \in Reference}, path : Path, matched : BOOLEAN]
Step == {"check", "gate", "hash", "range", "read", "judge"}

(* Types; the log stays within its limit and is the beginning of what was  *)
(* answered.                                                               *)
TypeOK ==
    /\ file \in [Path -> Content \cup {None}]
    /\ ledger \in past /\ index \in past
    /\ \A l \in past : l \subseteq Locator
    /\ call # None => /\ call.step \in Step
                      /\ call.sha \in Content \cup {None}
                      /\ call.todo \in Seq(Reference)
    /\ fetched \in Seq(Entry)
    /\ log = SubSeq(fetched, 1, Min({Len(fetched), LogLimit}))
    /\ receipt # None => receipt.status \in {"not_required", "eligible", "blocked"}
    /\ calls \in 0..MaxCall
    /\ edits \in 0..MaxEdit

Cited(c) == Range(c.cites)
Intact(r, c) == <<r.path, r.sha>> \in c.files
Locates(l, r) ==
    /\ l.event = r.event /\ l.path = r.path /\ l.sha = r.sha
    /\ l.first = r.first /\ l.last = r.last

(* An eligible receipt is about registered evidence only: each reference   *)
(* is, to the line, a locator of an index there was during the call, its   *)
(* file had the registered content during the call, and the events are as  *)
(* many as the claim needs.                                                *)
EligibleIsGrounded ==
    receipt # None /\ receipt.status = "eligible" =>
      LET c == receipt.answers
      IN  /\ \A r \in Cited(c) :
               /\ \E l \in UNION c.indexes : Locates(l, r)
               /\ r.sha = Registered[r.path]
               /\ Intact(r, c)
          /\ Cardinality({r.event : r \in Cited(c)}) >= Minimum(c.claim)

(* A claim that is found eligible leaves out no mismatch of the session:   *)
(* every fetch the log could hold and that did not match is of an event    *)
(* the claim cites.                                                        *)
MismatchIsNotDropped ==
    receipt # None /\ receipt.status = "eligible" =>
      \A i \in 1..Min({Len(fetched), LogLimit}) :
        ~ fetched[i].matched =>
          \E r \in Cited(receipt.answers) : r.event # None /\ r.event = fetched[i].event

(* No false alarm: a consequential claim with enough events, all cited by  *)
(* their exact locators, is eligible when index and files stood still and  *)
(* no uncited event ever failed to match.                                  *)
CleanClaimIsEligible ==
    receipt # None =>
      LET c == receipt.answers
          still == Cardinality(c.indexes) = 1 /\ Cardinality(c.files) = Cardinality(Path)
      IN  /\ Active(c.claim)
          /\ still /\ c.indexes = {ledger}
          /\ \A r \in Cited(c) : /\ \E l \in ledger : Locates(l, r)
                                 /\ r.sha = Registered[r.path]
                                 /\ r.first \in 1..r.last
                                 /\ r.last - r.first < MaxFetchLines
                                 /\ Intact(r, c)
          /\ Cardinality({r.event : r \in Cited(c)}) >= Minimum(c.claim)
          /\ \A i \in DOMAIN fetched :
               fetched[i].matched \/ fetched[i].event \in {r.event : r \in Cited(c)}
          => receipt.status = "eligible"
=============================================================================
