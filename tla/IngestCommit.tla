---------------------------- MODULE IngestCommit ----------------------------
(***************************************************************************)
(* The canonical write path of universal_research_mcp: the two-step MCP    *)
(* ingest (core/ingest.py) with its write-ahead journal and one-time       *)
(* receipts (runtime/ingest_approval.py), and the administrator's          *)
(* single-file appends (core/input.py), all of them over the writer lock   *)
(* and the before/after-bound append of core/canonical_io.py.              *)
(*                                                                         *)
(* A canonical file is the sequence of its JSON lines; a SHA-256 of a file *)
(* is the file itself (collisions are not modelled).  A write may fail     *)
(* before or after it took effect, and a process may stop at any step;     *)
(* MaxFault bounds how often, MaxEdit how often a source file is edited.   *)
(***************************************************************************)
EXTENDS Naturals, Sequences, SequencesExt

CONSTANTS
    Proc,         \* processes that write: MCP servers and administrator CLIs
    Draft,        \* draft identifiers prepare_ingest may hand out
    Receipt,      \* receipt identifiers issue() may hand out
    Line,         \* record lines, i.e. exact JSONL bytes
    RecordId,     \* record_id values
    Day,          \* daily/<date>/events.jsonl files
    Path,         \* source artifacts (a path and its source_id)
    SourcesFile,  \* sources.jsonl
    None,         \* "no receipt", "no draft", a free lock
    Stale,        \* a lock whose process is gone
    IdOf,         \* [Line -> RecordId]
    DayOf,        \* [Line -> Day], from recorded_at
    Refs,         \* [Line -> SUBSET Path], locator paths of source_refs
    Approvals,    \* [Line -> SUBSET Line], approval_refs; {} for an approval
    LineOf,       \* [Draft -> Line], the record of a draft
    Registers,    \* [Draft -> Seq(Path)], its source_registrations
    AdminLine,    \* lines the administrator may append
    AdminPath,    \* paths the administrator may register
    Expiring,     \* receipts whose expires_at may pass
    MaxEdit,      \* bound: edits of each source file
    MaxFault      \* bound: I/O errors and crashes

ASSUME ConstantTypes ==
    /\ IdOf \in [Line -> RecordId]
    /\ DayOf \in [Line -> Day]
    /\ Refs \in [Line -> SUBSET Path]
    /\ Approvals \in [Line -> SUBSET Line]
    /\ LineOf \in [Draft -> Line]
    /\ Registers \in [Draft -> Seq(Path)]
    /\ AdminLine \subseteq Line
    /\ AdminPath \subseteq Path
    /\ Expiring \subseteq Receipt
    /\ MaxEdit \in Nat
    /\ MaxFault \in Nat

ASSUME ConstantsDistinct ==
    /\ SourcesFile \notin Day
    /\ None \notin Proc \cup Draft \cup Receipt
    /\ Stale \notin Proc \cup {None}

VARIABLES
    ledger,   \* the canonical files, each a sequence of lines
    content,  \* current bytes of each source file, as a revision number
    draft,    \* ingest-drafts/pending/<id>.json
    receipt,  \* host-state receipts and their consumption files
    journal,  \* ingest-drafts/transactions/<id>.json
    marker,   \* drafts with an ingest-drafts/consumed/<id>.json
    lock,     \* the canonical writer lock file
    pc,       \* where each process is
    arg,      \* the draft and receipt a process was called with
    txn,      \* the transaction a process holds in memory
    step,     \* the operation a process is at
    writes,   \* history: how many canonical renames each draft has made
    faults    \* how many faults have happened

vars == <<ledger, content, draft, receipt, journal, marker, lock, pc, arg,
          txn, step, writes, faults>>
local == <<pc, arg, txn, step>>
host == <<draft, receipt, content>>
-----------------------------------------------------------------------------
Target == Day \cup {SourcesFile}
Registration == [path : Path, hash : Nat]
Entry == Line \cup Registration
Ledger == [Target -> Seq(Entry)]

(* One journalled append: the file before it and the file after it.        *)
Operation == [target : Target, before : Seq(Entry), after : Seq(Entry)]

Status == {"none", "torn", "prepared", "applying", "canonical_committed",
           "committed", "failed_recoverable"}
Transaction == [status : Status, receipt : Receipt \cup {None},
                ops : Seq(Operation), applied : Nat]
NoTxn == [status |-> "none", receipt |-> None, ops |-> <<>>, applied |-> 0]

DraftFile == [status : {"none", "validated", "pending"},
              hash : [Path -> Nat], head : Ledger]
ReceiptFile == [draft : Draft \cup {None}, expired : BOOLEAN,
                use : {"none", "valid", "torn"}]
Call == [draft : Draft \cup {None}, receipt : Receipt \cup {None}]

PC == {"idle", "verify", "load", "consume", "applying", "check", "replace",
       "progress", "commit", "mark", "fail", "finalize", "release",
       "admin", "adminReplace"}

EmptyLedger == [t \in Target |-> <<>>]
NoDraft == [status |-> "none", hash |-> [p \in Path |-> 0], head |-> EmptyLedger]
NoReceipt == [draft |-> None, expired |-> FALSE, use |-> "none"]
NoArg == [draft |-> None, receipt |-> None]

TypeOK ==
    /\ ledger \in Ledger
    /\ content \in [Path -> Nat]
    /\ draft \in [Draft -> DraftFile]
    /\ receipt \in [Receipt -> ReceiptFile]
    /\ journal \in [Draft -> Transaction]
    /\ marker \subseteq Draft
    /\ lock \in Proc \cup {None, Stale}
    /\ pc \in [Proc -> PC]
    /\ arg \in [Proc -> Call]
    /\ txn \in [Proc -> Transaction]
    /\ step \in [Proc -> Nat]
    /\ writes \in [Draft -> Nat]
    /\ faults \in Nat

Init ==
    /\ ledger = EmptyLedger
    /\ content = [p \in Path |-> 0]
    /\ draft = [d \in Draft |-> NoDraft]
    /\ receipt = [r \in Receipt |-> NoReceipt]
    /\ journal = [d \in Draft |-> NoTxn]
    /\ marker = {}
    /\ lock = None
    /\ pc = [p \in Proc |-> "idle"]
    /\ arg = [p \in Proc |-> NoArg]
    /\ txn = [p \in Proc |-> NoTxn]
    /\ step = [p \in Proc |-> 0]
    /\ writes = [d \in Draft |-> 0]
    /\ faults = 0
-----------------------------------------------------------------------------
(* Validation of a record against the ledger and the registered sources.   *)

InLedger(l) == l \in ToSet(ledger[DayOf[l]])

(* validate_records: no two records anywhere in the ledger share an id.    *)
UniqueRecordIds ==
    \A t1, t2 \in Day : \A i \in DOMAIN ledger[t1], j \in DOMAIN ledger[t2] :
        IdOf[ledger[t1][i]] = IdOf[ledger[t2][j]] => t1 = t2 /\ i = j

IdTaken(id) == \E t \in Day : \E l \in ToSet(ledger[t]) : IdOf[l] = id

PathTaken(q) == \E e \in ToSet(ledger[SourcesFile]) : e.path = q

(* The hash of a source is the one the draft stages, else the one of its   *)
(* last registration; it has to be the hash of today's content.            *)
SourceMatches(q, staged, hash) ==
    LET sources == ledger[SourcesFile] IN
    IF q \in staged THEN hash[q] = content[q]
    ELSE \E i \in DOMAIN sources :
            /\ sources[i] = [path |-> q, hash |-> content[q]]
            /\ \A j \in DOMAIN sources : sources[j].path = q => j <= i

(* Mutant: the record id is not compared with the existing ones.           *)
ValidAnyId(l, staged, hash) ==
    /\ UniqueRecordIds
    /\ \A q \in Refs[l] : SourceMatches(q, staged, hash)
    /\ \A a \in Approvals[l] : InLedger(a)

(* Mutant: the referenced approvals need not exist.                        *)
ValidUnapproved(l, staged, hash) ==
    /\ UniqueRecordIds
    /\ ~IdTaken(IdOf[l])
    /\ \A q \in Refs[l] : SourceMatches(q, staged, hash)

(* validate_candidate_records_with_sources.                                *)
Valid(l, staged, hash) ==
    /\ UniqueRecordIds
    /\ ~IdTaken(IdOf[l])
    /\ \A q \in Refs[l] : SourceMatches(q, staged, hash)
    /\ \A a \in Approvals[l] : InLedger(a)

Staged(d) == ToSet(Registers[d])

(* _normalize_source_registrations: paths are new, and listed once.        *)
NewRegistrations(d) ==
    /\ \A q \in Staged(d) : ~PathTaken(q)
    /\ IsInjective(Registers[d])

(* _validate_draft_record: an MCP record is no approval and names one.     *)
ValidDraft(d, hash) ==
    /\ Approvals[LineOf[d]] # {}
    /\ Valid(LineOf[d], Staged(d), hash)

SourcesUnchanged(d) == \A q \in Staged(d) : content[q] = draft[d].hash[q]
-----------------------------------------------------------------------------
(* Actors outside the writer lock.                                         *)

(* prepare_ingest, first half: validate against the ledger of this moment. *)
PrepareValidate(d) ==
    LET hash == [q \in Path |-> IF q \in Staged(d) THEN content[q] ELSE 0] IN
    /\ draft[d].status = "none"
    /\ NewRegistrations(d)
    /\ ValidDraft(d, hash)
    /\ draft' = [draft EXCEPT ![d] = [@ EXCEPT !.status = "validated", !.hash = hash]]
    /\ UNCHANGED <<ledger, content, receipt, journal, marker, lock, local, writes, faults>>

(* ... second half: fingerprint the head as it is now, store the draft.    *)
PrepareStore(d) ==
    /\ draft[d].status = "validated"
    /\ draft' = [draft EXCEPT ![d] = [@ EXCEPT !.status = "pending", !.head = ledger]]
    /\ UNCHANGED <<ledger, content, receipt, journal, marker, lock, local, writes, faults>>

(* IngestApprovalStore.issue: a receipt for one pending, unconsumed draft. *)
IssueReceipt(r, d) ==
    /\ receipt[r].draft = None
    /\ draft[d].status = "pending"
    /\ d \notin marker
    /\ receipt' = [receipt EXCEPT ![r] = [@ EXCEPT !.draft = d]]
    /\ UNCHANGED <<ledger, content, draft, journal, marker, lock, local, writes, faults>>

ExpireReceipt(r) ==
    /\ r \in Expiring
    /\ receipt[r].draft # None
    /\ ~receipt[r].expired
    /\ receipt' = [receipt EXCEPT ![r] = [@ EXCEPT !.expired = TRUE]]
    /\ UNCHANGED <<ledger, content, draft, journal, marker, lock, local, writes, faults>>

EditSource(p) ==
    /\ content[p] < MaxEdit
    /\ content' = [content EXCEPT ![p] = @ + 1]
    /\ UNCHANGED <<ledger, draft, receipt, journal, marker, lock, local, writes, faults>>
-----------------------------------------------------------------------------
(* The writer lock and its holder.                                         *)

Goto(p, label) == pc' = [pc EXCEPT ![p] = label]

Fault == faults < MaxFault /\ faults' = faults + 1

(* Mutant: the lock file is overwritten instead of created exclusively.    *)
AcquireLockShared(p) == pc[p] = "idle" /\ lock' = p

(* canonical_write_lock: O_EXCL creation; a second writer is refused.      *)
AcquireLock(p) == pc[p] = "idle" /\ lock = None /\ lock' = p

BeginCommit(p, d, r) ==
    /\ AcquireLock(p)
    /\ draft[d].status = "pending"
    /\ receipt[r].draft # None
    /\ arg' = [arg EXCEPT ![p] = [draft |-> d, receipt |-> r]]
    /\ Goto(p, "verify")
    /\ UNCHANGED <<ledger, host, journal, marker, txn, step, writes, faults>>

(* The process is gone: its memory is lost.                                *)
Forget(p) ==
    /\ Goto(p, "idle")
    /\ arg' = [arg EXCEPT ![p] = NoArg]
    /\ txn' = [txn EXCEPT ![p] = NoTxn]
    /\ step' = [step EXCEPT ![p] = 0]

(* Mutant: the lock file is removed only after a successful commit.        *)
ReleaseLockOnSuccess(p) ==
    /\ pc[p] = "release"
    /\ Forget(p)
    /\ lock' = IF lock = p /\ txn[p].status = "committed" THEN None ELSE lock
    /\ UNCHANGED <<ledger, host, journal, marker, writes, faults>>

(* The finally of canonical_write_lock removes only its own lock file.     *)
ReleaseLock(p) ==
    /\ pc[p] = "release"
    /\ Forget(p)
    /\ lock' = IF lock = p THEN None ELSE lock
    /\ UNCHANGED <<ledger, host, journal, marker, writes, faults>>

Crash(p) ==
    /\ pc[p] # "idle"
    /\ Fault
    /\ Forget(p)
    /\ lock' = IF lock = p THEN Stale ELSE lock
    /\ UNCHANGED <<ledger, host, journal, marker, writes>>

(* An operator who verified that no writer remains active removes the lock. *)
ClearStaleLock ==
    /\ lock = Stale
    /\ lock' = None
    /\ UNCHANGED <<ledger, host, journal, marker, local, writes, faults>>
-----------------------------------------------------------------------------
(* _commit_ingest_locked, up to the first canonical write.                 *)

AppendTo(t, entries) ==
    [target |-> t, before |-> ledger[t], after |-> ledger[t] \o entries]

(* Mutant: bare paths are registered, without their hashes.                *)
RegistrationLinesBare(d) == Registers[d]

RegistrationLines(d) ==
    [i \in DOMAIN Registers[d] |-> [path |-> Registers[d][i],
                                    hash |-> draft[d].hash[Registers[d][i]]]]

(* _prepare_transaction: all registrations are one operation, then the event. *)
Operations(d) ==
    LET event == AppendTo(DayOf[LineOf[d]], <<LineOf[d]>>) IN
    IF Registers[d] = <<>> THEN <<event>>
    ELSE <<AppendTo(SourcesFile, RegistrationLines(d)), event>>

(* Mutant: sizes are compared, hashes are not.                             *)
OpStateBySize(op) ==
    CASE Len(ledger[op.target]) = Len(op.after) -> "applied"
      [] Len(ledger[op.target]) = Len(op.before) -> "pending"
      [] OTHER -> "changed"

(* Mutant: an operation already applied is applied again.                  *)
OpStateRedo(op) ==
    IF ledger[op.target] \in {op.before, op.after} THEN "pending" ELSE "changed"

(* append_state: what the target is compared with what the journal expects. *)
OpState(op) ==
    CASE ledger[op.target] = op.after -> "applied"
      [] ledger[op.target] # op.after /\ ledger[op.target] = op.before -> "pending"
      [] OTHER -> "changed"

(* Mutant: a receipt of another draft is accepted.                         *)
MayCommitAnyReceipt(d, r) ==
    /\ d \notin marker
    /\ SourcesUnchanged(d)
    /\ receipt[r].expired => receipt[r].use # "none"

(* A draft not consumed, sources as prepared, a receipt bound to the draft *)
(* that has not expired unless it was consumed.                            *)
MayCommit(d, r) ==
    /\ d \notin marker
    /\ SourcesUnchanged(d)
    /\ receipt[r].draft = d
    /\ receipt[r].expired => receipt[r].use # "none"

Verify(p) ==
    /\ pc[p] = "verify"
    /\ Goto(p, IF MayCommit(arg[p].draft, arg[p].receipt) THEN "load" ELSE "release")
    /\ UNCHANGED <<ledger, host, journal, marker, lock, arg, txn, step, writes, faults>>

(* First attempt: head unchanged and the record still valid.               *)
MayOpen(d) == ledger = draft[d].head /\ ValidDraft(d, draft[d].hash)

OpenJournal(p) ==
    LET d == arg[p].draft
        t == [status |-> "prepared", receipt |-> arg[p].receipt,
              ops |-> Operations(d), applied |-> 0] IN
    /\ pc[p] = "load"
    /\ journal[d].status = "none"
    /\ MayOpen(d)
    /\ journal' = [journal EXCEPT ![d] = t]
    /\ txn' = [txn EXCEPT ![p] = t]
    /\ Goto(p, "consume")
    /\ UNCHANGED <<ledger, host, marker, lock, arg, step, writes, faults>>

(* Mutant: a second receipt may take over a journal.                       *)
MayResumeAnyReceipt(d, r) ==
    /\ journal[d].status # "torn"
    /\ \A i \in DOMAIN journal[d].ops : OpState(journal[d].ops[i]) # "changed"

(* Mutant: the head is compared on every attempt, also after own writes.   *)
MayResumeAtHead(d, r) ==
    /\ journal[d].status # "torn"
    /\ journal[d].receipt = r
    /\ ledger = draft[d].head

(* Later attempts: the journal's own receipt, and every target file as the *)
(* journal expects it.  Neither the head nor the record is looked at again. *)
MayResume(d, r) ==
    /\ journal[d].status # "torn"
    /\ journal[d].receipt = r
    /\ \A i \in DOMAIN journal[d].ops : OpState(journal[d].ops[i]) # "changed"

ResumeJournal(p) ==
    LET d == arg[p].draft IN
    /\ pc[p] = "load"
    /\ journal[d].status # "none"
    /\ MayResume(d, arg[p].receipt)
    /\ txn' = [txn EXCEPT ![p] = journal[d]]
    /\ Goto(p, "consume")
    /\ UNCHANGED <<ledger, host, journal, marker, lock, arg, step, writes, faults>>

RefuseJournal(p) ==
    LET d == arg[p].draft IN
    /\ pc[p] = "load"
    /\ IF journal[d].status = "none" THEN ~MayOpen(d) ELSE ~MayResume(d, arg[p].receipt)
    /\ Goto(p, "release")
    /\ UNCHANGED <<ledger, host, journal, marker, lock, arg, txn, step, writes, faults>>

(* A stop between O_EXCL creation and write leaves an unreadable journal.  *)
TearJournal(p) ==
    LET d == arg[p].draft IN
    /\ pc[p] = "load"
    /\ journal[d].status = "none"
    /\ MayOpen(d)
    /\ Fault
    /\ journal' = [journal EXCEPT ![d] = [@ EXCEPT !.status = "torn"]]
    /\ Forget(p)
    /\ lock' = Stale
    /\ UNCHANGED <<ledger, host, marker, writes>>

(* Mutant: the consumption file is only asked to exist.                    *)
ConsumptionExists(r) == receipt[r].use # "none"

(* _read_consumption: a torn file is an error.                             *)
ConsumptionReadable(r) == receipt[r].use = "valid"

(* consume(): expiry is looked at before the consumption file is created.  *)
ConsumeReceipt(p) ==
    LET r == arg[p].receipt IN
    /\ pc[p] = "consume"
    /\ ~receipt[r].expired
    /\ receipt[r].use = "none"
    /\ receipt' = [receipt EXCEPT ![r] = [@ EXCEPT !.use = "valid"]]
    /\ Goto(p, "applying")
    /\ UNCHANGED <<ledger, content, draft, journal, marker, lock, arg, txn, step, writes, faults>>

(* "already consumed" leads to resume(), which needs a readable consumption. *)
ResumeReceipt(p) ==
    LET r == arg[p].receipt IN
    /\ pc[p] = "consume"
    /\ ~receipt[r].expired
    /\ receipt[r].use # "none"
    /\ ConsumptionReadable(r)
    /\ Goto(p, "applying")
    /\ UNCHANGED <<ledger, host, journal, marker, lock, arg, txn, step, writes, faults>>

RefuseReceipt(p) ==
    LET r == arg[p].receipt IN
    /\ pc[p] = "consume"
    /\ receipt[r].expired \/ (receipt[r].use # "none" /\ ~ConsumptionReadable(r))
    /\ Goto(p, "release")
    /\ UNCHANGED <<ledger, host, journal, marker, lock, arg, txn, step, writes, faults>>

(* _create_json does not remove a consumption file it failed to write.     *)
TearConsumption(p) ==
    LET r == arg[p].receipt IN
    /\ pc[p] = "consume"
    /\ ~receipt[r].expired
    /\ receipt[r].use = "none"
    /\ Fault
    /\ receipt' = [receipt EXCEPT ![r] = [@ EXCEPT !.use = "torn"]]
    /\ Goto(p, "release")
    /\ UNCHANGED <<ledger, content, draft, journal, marker, lock, arg, txn, step, writes>>
-----------------------------------------------------------------------------
(* _commit_ingest_locked, from the first journal update on.                *)

(* _store_transaction, in memory and on disk.                              *)
Store(p, t) ==
    /\ txn' = [txn EXCEPT ![p] = t]
    /\ journal' = [journal EXCEPT ![arg[p].draft] = t]

(* A store that raises may have replaced the file or not.                  *)
StoreFails(p, t) ==
    /\ Fault
    /\ txn' = [txn EXCEPT ![p] = t]
    /\ \/ journal' = [journal EXCEPT ![arg[p].draft] = t]
       \/ UNCHANGED journal

WithStatus(p, status) == [txn[p] EXCEPT !.status = status]

(* Outside the try block: a failure here leaves the journal's old status.  *)
StartApplying(p) ==
    /\ pc[p] = "applying"
    /\ \/ /\ Store(p, WithStatus(p, "applying"))
          /\ Goto(p, "check")
          /\ UNCHANGED faults
       \/ /\ StoreFails(p, WithStatus(p, "applying"))
          /\ Goto(p, "release")
    /\ step' = [step EXCEPT ![p] = 1]
    /\ UNCHANGED <<ledger, host, marker, lock, arg, writes>>

(* Mutant: a pending operation is recorded as done without the rename.     *)
CheckOperationOnly(p) ==
    LET state == OpState(txn[p].ops[step[p]]) IN
    /\ pc[p] = "check"
    /\ Goto(p, IF state = "changed" THEN "fail" ELSE "progress")
    /\ UNCHANGED <<ledger, host, journal, marker, lock, arg, txn, step, writes, faults>>

(* apply_append up to the rename: what the target is, and what it becomes. *)
CheckOperation(p) ==
    LET state == OpState(txn[p].ops[step[p]]) IN
    /\ pc[p] = "check"
    /\ Goto(p, CASE state = "applied" -> "progress"
                 [] state = "pending" -> "replace"
                 [] state = "changed" -> "fail")
    /\ UNCHANGED <<ledger, host, journal, marker, lock, arg, txn, step, writes, faults>>

CheckFails(p) ==
    /\ pc[p] = "check"
    /\ Fault
    /\ Goto(p, "fail")
    /\ UNCHANGED <<ledger, host, journal, marker, lock, arg, txn, step, writes>>

(* os.replace installs the content computed at the check.                  *)
Rename(op) == ledger' = [ledger EXCEPT ![op.target] = op.after]

ReplaceTarget(p) ==
    /\ pc[p] = "replace"
    /\ \/ /\ Goto(p, "progress")
          /\ UNCHANGED faults
       \/ /\ Fault
          /\ Goto(p, "fail")
    /\ Rename(txn[p].ops[step[p]])
    /\ writes' = [writes EXCEPT ![arg[p].draft] = @ + 1]
    /\ UNCHANGED <<host, journal, marker, lock, arg, txn, step>>

ReplaceFails(p) ==
    /\ pc[p] = "replace"
    /\ Fault
    /\ Goto(p, "fail")
    /\ UNCHANGED <<ledger, host, journal, marker, lock, arg, txn, step, writes>>

StoreProgress(p) ==
    LET t == [txn[p] EXCEPT !.applied = step[p]] IN
    /\ pc[p] = "progress"
    /\ \/ /\ Store(p, t)
          /\ Goto(p, IF step[p] = Len(txn[p].ops) THEN "commit" ELSE "check")
          /\ UNCHANGED faults
       \/ /\ StoreFails(p, t)
          /\ Goto(p, "fail")
    /\ step' = [step EXCEPT ![p] = @ + 1]
    /\ UNCHANGED <<ledger, host, marker, lock, arg, writes>>

StoreCommitted(p) ==
    LET t == WithStatus(p, "canonical_committed") IN
    /\ pc[p] = "commit"
    /\ \/ /\ Store(p, t)
          /\ Goto(p, "mark")
          /\ UNCHANGED faults
       \/ /\ StoreFails(p, t)
          /\ Goto(p, "fail")
    /\ UNCHANGED <<ledger, host, marker, lock, arg, step, writes>>

(* The consumption marker is the terminal commit authority.                *)
CreateMarker(p) ==
    /\ pc[p] = "mark"
    /\ \/ /\ marker' = marker \cup {arg[p].draft}
          /\ Goto(p, "finalize")
          /\ UNCHANGED faults
       \/ /\ Fault
          /\ Goto(p, "fail")
          /\ UNCHANGED marker
    /\ UNCHANGED <<ledger, host, journal, lock, arg, txn, step, writes>>

(* The except block: failed_recoverable, unless that store fails as well.  *)
RecordFailure(p) ==
    LET t == WithStatus(p, "failed_recoverable") IN
    /\ pc[p] = "fail"
    /\ \/ Store(p, t) /\ UNCHANGED faults
       \/ StoreFails(p, t)
    /\ Goto(p, "release")
    /\ UNCHANGED <<ledger, host, marker, lock, arg, step, writes>>

(* After the marker a failing journal store is only a warning.             *)
Finalize(p) ==
    LET t == WithStatus(p, "committed") IN
    /\ pc[p] = "finalize"
    /\ \/ Store(p, t) /\ UNCHANGED faults
       \/ StoreFails(p, t)
    /\ Goto(p, "release")
    /\ UNCHANGED <<ledger, host, marker, lock, arg, step, writes>>
-----------------------------------------------------------------------------
(* The administrator CLI: append_record and register_source.               *)

BeginAdmin(p) ==
    /\ AdminLine \cup AdminPath # {}
    /\ AcquireLock(p)
    /\ Goto(p, "admin")
    /\ UNCHANGED <<ledger, host, journal, marker, arg, txn, step, writes, faults>>

AdminPrepare(p, t, entry) ==
    /\ pc[p] = "admin"
    /\ txn' = [txn EXCEPT ![p] = [@ EXCEPT !.ops = <<AppendTo(t, <<entry>>)>>]]
    /\ Goto(p, "adminReplace")
    /\ UNCHANGED <<ledger, host, journal, marker, lock, arg, step, writes, faults>>

AppendRecord(p, l) == Valid(l, {}, content) /\ AdminPrepare(p, DayOf[l], l)

RegisterSource(p, q) ==
    /\ ~PathTaken(q)
    /\ AdminPrepare(p, SourcesFile, [path |-> q, hash |-> content[q]])

AdminRefused(p) ==
    /\ pc[p] = "admin"
    /\ Goto(p, "release")
    /\ UNCHANGED <<ledger, host, journal, marker, lock, arg, txn, step, writes, faults>>

AdminReplace(p) ==
    /\ pc[p] = "adminReplace"
    /\ \/ Rename(txn[p].ops[1]) /\ UNCHANGED faults
       \/ Fault /\ (Rename(txn[p].ops[1]) \/ UNCHANGED ledger)
    /\ Goto(p, "release")
    /\ UNCHANGED <<host, journal, marker, lock, arg, txn, step, writes>>
-----------------------------------------------------------------------------
(* What one process does next in the attempt it is in.                     *)
Advance(p) ==
    \/ Verify(p) \/ OpenJournal(p) \/ ResumeJournal(p) \/ RefuseJournal(p)
    \/ ConsumeReceipt(p) \/ ResumeReceipt(p) \/ RefuseReceipt(p)
    \/ StartApplying(p) \/ CheckOperation(p) \/ ReplaceTarget(p)
    \/ StoreProgress(p) \/ StoreCommitted(p) \/ CreateMarker(p)
    \/ RecordFailure(p) \/ Finalize(p) \/ ReleaseLock(p)
    \/ AdminRefused(p) \/ AdminReplace(p)

Begin(p) ==
    \/ \E d \in Draft, r \in Receipt : BeginCommit(p, d, r)
    \/ BeginAdmin(p)
    \/ \E l \in AdminLine : AppendRecord(p, l)
    \/ \E q \in AdminPath : RegisterSource(p, q)

Misfortune(p) ==
    \/ Crash(p) \/ TearJournal(p) \/ TearConsumption(p)
    \/ CheckFails(p) \/ ReplaceFails(p)

Environment ==
    \/ \E d \in Draft : PrepareValidate(d) \/ PrepareStore(d)
    \/ \E r \in Receipt, d \in Draft : IssueReceipt(r, d)
    \/ \E r \in Receipt : ExpireReceipt(r)
    \/ \E q \in Path : EditSource(q)
    \/ ClearStaleLock

Next == Environment \/ \E p \in Proc : Begin(p) \/ Advance(p) \/ Misfortune(p)

Spec == Init /\ [][Next]_vars

(* A started attempt runs on; a stale lock is cleared; the caller of a     *)
(* failed commit retries it with its receipt until it succeeds.            *)
Fairness ==
    /\ \A p \in Proc : WF_vars(Advance(p))
    /\ WF_vars(ClearStaleLock)
    /\ \A d \in Draft, r \in Receipt :
          SF_vars(\E p \in Proc : receipt[r].draft = d /\ BeginCommit(p, d, r))

FairSpec == Spec /\ Fairness
-----------------------------------------------------------------------------
(* Mutant: a commit that failed is reported like one that never started.   *)
ReportedStatusOptimistic(d) ==
    IF d \in marker THEN "consumed"
    ELSE IF journal[d].status \in {"applying", "canonical_committed"}
         THEN "recovery_required"
         ELSE "pending"

(* pending_ingest_status: what a client is told about a draft.             *)
ReportedStatus(d) ==
    IF d \in marker THEN "consumed"
    ELSE IF journal[d].status \in {"applying", "canonical_committed", "failed_recoverable"}
         THEN "recovery_required"
         ELSE "pending"

RegistrationsCanonical(d) ==
    \A i \in DOMAIN Registers[d] : RegistrationLines(d)[i] \in ToSet(ledger[SourcesFile])

(* Every canonical file only ever grows at its end: no write of any        *)
(* process, interleaved or interrupted in any way, loses or changes a line. *)
AppendOnly == [][\A t \in Target : IsPrefix(ledger[t], ledger'[t])]_vars

(* Within one daily file no record id ever appears twice, whichever of the *)
(* writers put the lines there and however often a commit was retried.     *)
NoDuplicateIdInFile ==
    \A t \in Day : \A i, j \in DOMAIN ledger[t] :
        IdOf[ledger[t][i]] = IdOf[ledger[t][j]] => i = j

(* Whoever wrote a record, the approvals it names are in the ledger.       *)
ApprovedRecordsOnly ==
    \A t \in Day : \A l \in ToSet(ledger[t]) : \A a \in Approvals[l] : InLedger(a)

(* No canonical write for a draft before the receipt its journal names,    *)
(* which was issued for this draft, has been consumed for good.            *)
ReceiptSpentBeforeWrite ==
    \A d \in Draft : writes[d] > 0 =>
        \E r \in Receipt : /\ journal[d].receipt = r
                           /\ receipt[r].draft = d
                           /\ receipt[r].use = "valid"

(* However many receipts were issued for a draft, its commit spends one.   *)
OneReceiptPerDraft ==
    \A r, s \in Receipt :
        /\ receipt[r].draft = receipt[s].draft
        /\ receipt[r].use # "none"
        /\ receipt[s].use # "none"
        => r = s

(* The consumption marker is only ever there when the whole transaction,   *)
(* registrations and record, is in the ledger.                             *)
ConsumedIsCanonical ==
    \A d \in marker : InLedger(LineOf[d]) /\ RegistrationsCanonical(d)

(* A draft reported "pending" has not touched the ledger: a commit that    *)
(* stopped half-way never looks as if it had not started.                  *)
PendingIsUntouched ==
    \A d \in Draft : ReportedStatus(d) = "pending" => writes[d] = 0

(* The journal never claims an operation the ledger does not hold.         *)
JournalNeverAhead ==
    \A d \in Draft :
        \A i \in 1..journal[d].applied :
            IsPrefix(journal[d].ops[i].after, ledger[journal[d].ops[i].target])

(* No canonical operation of a draft is executed twice over all attempts.  *)
OneWritePerOperation == \A d \in Draft : writes[d] <= Len(journal[d].ops)

(* With retries and without interference a transaction that began to       *)
(* append is completed, however the attempts before were interrupted.      *)
PartialCommitCompletes == \A d \in Draft : writes[d] > 0 ~> d \in marker

(* No attempt keeps the writer lock for ever.                              *)
LockIsReleased == lock # None ~> lock = None
-----------------------------------------------------------------------------
(* The receipt whose consumption a draft's commit may rely on.             *)
GrantOf(d) ==
    LET spent == {r \in Receipt : receipt[r].draft = d /\ receipt[r].use = "valid"} IN
    IF spent = {} THEN None ELSE CHOOSE r \in spent : TRUE

Governed == INSTANCE GovernedLedger WITH
    grant <- [d \in Draft |-> GrantOf(d)], done <- marker

(* Drafts, journals, locks, crashes and retries together do nothing a      *)
(* governed ledger may not do: every line enters under a grant or by the   *)
(* administrator, at the end of its file, and done means appended.         *)
ImplementsGovernedLedger == Governed!Spec
=============================================================================
