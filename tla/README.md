# A verification development for universal-research-mcp

This directory holds TLA+ models of the research-memory server, the TLC runs
that check them on small instances, and theorems about them checked by TLAPS.
Source paths below are relative to `src/universal_research_mcp/`.

## 1. The system

A *project* is a directory with an append-only **canonical ledger**
(`daily/<date>/events.jsonl` and `sources.jsonl`), derived indexes, and a
registry of immutable sources. An MCP server answers searches and evidence
fetches from it and may append to it through a two-step ingest; an
administrator appends to it with a CLI. Around this sit governance decisions,
agent approvals and a harness that runs a coding agent in a sandbox.

| Component | State | Operations | Hard behaviour | Correct when |
|---|---|---|---|---|
| Two-step ingest `core/ingest.py` | pending drafts, journals, consumption markers | prepare, commit, resume, status | stops between eight durable steps, retries, other writers in between | a draft is appended completely, once, under one receipt, or reported as needing recovery |
| Canonical files `core/canonical_io.py`, `runtime/project_io.py` | ledger files, lock file | lock, append_state, apply_append, replace | check-then-rename, dead lock holders, failing renames | the ledger only grows |
| Receipts `runtime/ingest_approval.py` | receipt and consumption files in host state | issue, verify, consume, resume | expiry between attempts, torn files, several receipts | at most one receipt per draft is spent, before the first append |
| Administrator appends `core/input.py` | (the ledger) | register_source, append_record | races with the MCP writer | same validation, same lock |
| Record validation `core/ledger.py`, `core/input.py` | none | validate_records and the candidate checks | global uniqueness over many files | no identifier and no source twice |
| Lexical index `indexing/lexical.py`, gate in `server.py` | database, health file, verdict cache | ensure, status, verify, gate | concurrent builders, publication of two files, cache keyed by file stats | a search never answers from an index of another ledger |
| Evidence and claims `server.py`, `core/claim_gate.py` | session fetch log | fetch, eligibility receipt, claim decision | log limit, dropped mismatches, sources that change after verification | no eligible receipt while a mismatch was seen and left out |
| Secure harness `secure_harness/` | plans, approvals, run directories | plan, approve, execute, review, attest, apply | approval spent and run failed, files changed between review and apply | a run executes once, only what was approved is applied |
| Agent approval `runtime/agent_approval.py`, `governance/agent_creation.py` | approval and consumption files | disclose, issue, consume | two processes, files that stop half written, expiry | one agent run per approval, of what was approved |
| Governance policies `governance/*.py`, `governance_server.py` | none: documents are the caller's | pure decisions over packets, operations, failures, reviews | precedence of rules, text containment of paths | what passes stays in scope, serious failures stop |
| Codex adapter `integrations/codex/adapter.py` | none | governor receipt, dispatch manifests, their check | unsigned documents edited between two calls | what the host is handed was governed to the last field |
| Semantic index `indexing/semantic.py` | database, health file | status, build, repair | no lock, files hashed and read in two steps, a health record of another's database | only registered text is indexed |
| Candidate search `server.py` | none | four search modes, fusion, identity gate | two databases opened up to five times while they are replaced | a steady search neither fails nor leaves records out |
| Watch daemon `scripts/watch_research_index.py` | indexes of its own | debounced rebuilds | overlapping rebuilds | not modelled (section 6) |
| Amendments `core/amendments.py`, `tools/research_event_corrections*.py` | none | resolved view | order and duplicates | corrections never change the canonical record |

The ingest calls the receipt store, the validation and the canonical file
layer; the administrator CLI calls the last two. After a commit the ingest
refreshes the lexical index; the MCP gate compares the index with the ledger
before every search, and again for every fetch and every reference of a claim.
The semantic index is built from the published lexical index and the source
files. The governance server and the Codex adapter keep nothing: they judge
documents which the caller carries from one call to the next. The harness and
the agent approvals use their own host state; the harness meets the ledger only
through promoted claims, and the project through imported changes.

## 2. Plan

The ledger is the authority for everything else, so its write path comes first.

1. `IngestCommit` (done): ingest, receipts, canonical files, administrator.
   Abstract specification `GovernedLedger` (done). Proofs (done: types,
   append-only, receipts; pending drafts are untouched, the journal is never
   ahead, one write per operation, unique ids, approvals, a consumed draft is
   canonical, and the refinement).
2. `LexicalIndex` (done): staged build, publication, health record, gate and
   its cache, over a ledger that grows. Proofs (done: types, a published
   database is the image of the ledger it names, a usable one is kept, the gate
   is of the call, the cache is sound).
3. `EvidenceGate` (done): fetches, the session log and its limit, the checks of
   cited references, the verdict. It takes from `LexicalIndex` that a published
   index is the image of one ledger (`IndexIsImage`). Proofs (done: types, an
   eligible claim is grounded, no mismatch is dropped, no clean claim is blocked).
4. `HarnessPlan`, `HarnessRun` (done): sealing, approval, run store, worker
   session, review, attestation, import. Proofs (done: types, one launch per
   approval, no replayed recipe behind a result, a result is earned, promotions
   are verified, an import record is complete, imports are of patch paths only).
5. `GovernancePolicy`, `GovernanceSession` (done): the policies as pure
   operators; documents that are edited between calls; agent approvals.
   `AgentDisclosure` is shared with the harness, as in the code. Proofs (done:
   types, one agent run per approval, what an issued receipt governs, isolation,
   preflight, serious failures, reopened gates).
6. `SemanticIndex`, `CandidateSearch` (done): builders of the semantic index,
   and the search over both indexes, which composes with them. Proofs (done:
   types, registered text, steady searches).

Left: an abstract specification of the index gate (an index is of one ledger, and
a call passes only if it was current at some time of the call), with `LexicalIndex`
shown to implement it; the same for the harness (approve, launch once, attest,
import). Every safety
property that a passing run checks has a theorem; liveness stays with TLC.

## 3. Modules

* `IngestCommit.tla` - the component of the first four rows above.
* `GovernedLedger.tla` - what it promises, without journal, lock or retry.
* `MCIngestCommit.tla` - the finite instances, with five `.cfg` files.
* `IngestCommitProofs.tla`, `IngestReceiptProofs.tla`,
  `IngestTransactionProofs.tla` - theorems, each module on top of the one before.
* `LexicalIndex.tla` - the derived index, its builders and the server's gate.
  It takes from `IngestCommit` that the ledger only grows (`AppendOnly`).
* `MCLexicalIndex.tla` - its finite instances, with two `.cfg` files.
* `LexicalIndexProofs.tla` - theorems.
* `EvidenceGate.tla`, `MCEvidenceGate.tla` - fetches and claims of a session;
  `EvidenceGateProofs.tla` - theorems.
* `SemanticIndex.tla` - builders and status of the semantic index;
  `CandidateSearch.tla` extends it by the server's search; `MCCandidateSearch.tla`;
  `CandidateSearchProofs.tla` - theorems about both.
* `AgentDisclosure.tla` - what a user is told before agents exist (pure).
* `HarnessPlan.tla` - the pure contracts of the harness; `HarnessRun.tla` - the
  runs; `MCHarnessRun.tla`, with two `.cfg` files; `HarnessRunProofs.tla` -
  theorems.
* `GovernancePolicy.tla` - the pure decisions; `GovernanceSession.tla` - what a
  caller does with them; `MCGovernance.tla`; `GovernanceProofs.tla` -
  theorems.

### How IngestCommit corresponds to the code

| Variable | Code |
|---|---|
| `ledger` | the canonical JSONL files; a file's hash is the file (no collisions) |
| `content` | current revision of each source artifact |
| `draft` | `ingest-drafts/pending/<id>.json`; `head` is `canonical_head`, `hash` the staged `source_sha256` values |
| `receipt` | receipt file, its expiry, and the consumption file (`none`, `valid`, or `torn`) |
| `journal` | `ingest-drafts/transactions/<id>.json`; `torn` is a file created and never written |
| `marker` | `ingest-drafts/consumed/<id>.json` |
| `lock` | the writer lock file: free, held by a process, or left by a dead one |
| `pc`, `arg`, `txn`, `step` | memory of each writer process, lost when it stops |
| `writes`, `faults` | history of renames per draft; number of faults so far |

Each durable step of `_commit_ingest_locked` is an action: verify, load or open
the journal, consume or resume the receipt, the store of `applying`, the check,
the rename and the progress store of each operation, the store of
`canonical_committed`, the marker, the final store, and the `except` branch
with its own store. A store or rename can raise before or after it took effect;
a process can stop (`Crash`) between any two steps; `TearJournal` and
`TearConsumption` are the two places where a file is created and its content
lost. `prepare_ingest` has two actions, because it reads the ledger twice
without a lock. Administrator writers run under the same lock.

Abstractions. A record is a line with an id, a day, its source paths and its
approvals; schema validation is assumed to pass. A record's own revision pin of
a source is not modelled, the source's registered hash is. `IssueReceipt` checks
the marker and creates the receipt in one step: a receipt created after the
marker appeared is refused by the next commit anyway, as the marker is checked
there again. HMAC signatures are not forged. Size limits, the audit log and the
index refresh after the commit are left out. The lock file of a dead process is
removed by an operator (`ClearStaleLock`) only when that process is gone, as
`docs/input-cli-tutorial.md` requires.

### How LexicalIndex corresponds to the code

| Variable | Code |
|---|---|
| `ledger` | number of lines of each canonical file, `sources.jsonl` first |
| `drift` | whether a registered source artifact has lost its registered hash |
| `db` | `data/index/research.sqlite`: stat identity, recorded fingerprint, the ledger its rows come from, readable and complete or not |
| `health` | `data/index/index-health.json`: stat identity, `index_revision`, whether the status is a failure |
| `cache` | `_LEXICAL_GATE_CACHE`: the remembered signature of each server |
| `pc`, `loc` | a call of `ensure_lexical_index` or of the gate and a search, with its local variables |
| `past`, `edits`, `faults` | ledgers there have been; edits and faults so far |

Nothing here is locked, so every file access is an action of its own: one per
canonical file read by the fingerprints, the build and the stat walk, then the
health record, the database, the source validation, the passages, the second
fingerprint, `os.replace`, and the health record. A step may raise (`Raise`: the
failure record follows, unless that is what failed), a build may be incomplete,
a process may stop (`Stop`). A builder raises again in the `except` branch only
by ending without a record.

Abstractions. The ledger is append-only, so the content of a canonical file is
known by its number of lines and a hash by the sequence of these numbers. The
listing of the daily files is read with each file. The ledger passes
`validate_records` (finding 1 is about one that does not). A published file gets
a stat identity that no remembered or half-taken signature holds; identities not
held by anyone may come back, so three are enough for one server (one in the
cache, one in a signature, one new). Rows, the reference corpus, the artifact
list of the health record and the errors of the query itself are left out; a
search is one query (`CandidateSearch` has its parts).

### How EvidenceGate corresponds to the code

| Variable | Code |
|---|---|
| `file` | content of each registered source file; a hash is the content |
| `ledger`, `past` | locators of the canonical records now, and the ledgers there have been |
| `index` | the published lexical index, as the locators it was built from |
| `call` | the request being answered: what is asked, the references still to do (`todo`), the checks made, and where it is in the code (`step`) |
| `log` | `_SESSION_FETCH_LOG`, in the memory of the server |
| `receipt` | the last eligibility receipt |
| `fetched` | history: every fetch the server answered, also beyond the limit |

The server answers one call at a time (`server.py` has no thread of its own for
tools), but a fetch reads four things one after the other, each a step: the gate
(`PassGate`), the registered hashes (`FindHash`), the registered range
(`FindRange`), the file (`ReadFile`). A claim does this for each reference anew,
with `context_lines` 0, and an exception makes a check that is not verified
(`server.py:1292`), while in a fetch it ends the call without an entry in the
log. A fetch with context may be cut to the limit of lines or refused; one
without an event takes its range from the caller. The verdict is that of
`core/claim_gate.py`, blocked when the log holds a mismatch the claim leaves out.
A restart empties the log.

Abstractions. The path policy, legacy path aliases, the guidance added to a
mismatch and the texts are left out. The verdict cache of the gate is not
repeated here: `GateIsOfThisCall` says what it may be taken for.

### How SemanticIndex and CandidateSearch correspond to the code

| Variable | Code |
|---|---|
| `ledger`, `lexical` | numbers of the canonical ledger and of the one the published lexical index is of |
| `file` | content of each source file |
| `db` | `data/index/semantic.sqlite`: the input it was written from and its backend |
| `health` | its health record: the input, the backend and the database it names |
| `proc` | each builder or reader: place in the code, the input loaded first, the load in progress, what it saw of database and record |
| `call`, `answer` | the search being answered, and its answer |

`_load_semantic_input` runs up to four times in one build (before, after the
embedding, after the promotion, and in the status). Each load checks the lexical
index, then hashes and reads the file of each passage in two steps; a later load
must equal the first (`Confirmed`). The status reads the health record first and
the database twice. A build may raise at every check, while it embeds, or while
it writes; it may die anywhere, and writing the failure record may fail too. A
search takes its lexical hits, asks for the semantic status, reads the vectors,
finds the registered parents of the hits, fuses, and passes the identity gate,
each a step with its own database connection.

Abstractions. Hashes, counts and vectors of a database stand for its input. The
ranking is a set of locators (`Query`), nothing is cut off. The lexical check,
the reading of its rows and the second fingerprint are one step: that they fit
together is `IndexIsImage`. A builder's provider is a member of `Backend`;
vectors of another model are used by the code when their length fits, so
`ReadVectors` may take or refuse them.

### How HarnessRun corresponds to the code

| Variable | Code |
|---|---|
| `project`, `temp` | project files and the `.ur-apply-tmp` files beside them; content 0 is an absent file |
| `bundle` | the sealed plan: snapshot manifest and test contracts |
| `grant`, `consumed` | `<run_id>.grant.json`, `<run_id>.consumed.json` of the approval store |
| `files`, `planOf`, `answer`, `verified`, `recorded` | the run directory: which file is absent, torn or whole, and what matters of its content |
| `shown` | the change report the user confirmed |
| `promoted` | canonical records that cite the run (`core/input.py`) |
| `workspace`, `worker` | the quarantined copy, and the worker server of the run with the calls and containers of its session |
| `proc` | the CLI processes `harness run` and `harness apply` |
| `launched`, `executions`, `installed` | history: the plans Codex was started for, whether the container of a recipe was started never, once or again, the files an import installed |

One action per step of `execute_codex`, `CodexRunner`, the worker's tools,
`attest`, `apply_changes`; a process may stop between any two after it consumed
the approval, and an `O_EXCL` file may be left torn. The timeout of a recipe
kills the docker client and leaves the container, which may go on writing; the
operation is not completed and may be called again beside it (`worker.py:146`). A
read of an absent file fails, a search passes over it.
Abstractions. The paths of an operation are the files it covers: a directory that
an operation names (`worker.py:71`, `codex_runner.py:264`) stands for the files it
may hold, and a tool call names one of them. Prompts, diagnostics, size limits, symlinks and the availability of
Docker are left out; a stream is the set of its tool calls and whether one
failed; a test contract is the set of contents a file may have.

### How GovernanceSession corresponds to the code

The server is stateless, so the variables are the caller's: `desk` (task packets),
`decision`, `receipt`, `manifest` and the hash `pinned` that the host keeps,
together with the approval store (`grant`, `marker`) and the processes that
consume an approval (`runner`). A document carries the hash of its body, and an
edit of a packet or a receipt may or may not renew it. Nothing is signed:
`adapter.py:252` compares a receipt only with a hash computed from it, so a receipt
edited and sealed anew is accepted and governs whatever it says, as
`docs/multi-agent-governance.md:63` admits. What can be promised is about the
receipts the server issued; `reviewed` and `rewritten` are the history of both
kinds, and a manifest names the hash of the receipt it was built under, by which
the two are told apart. `matter` says which of six kinds of decision a
behaviour is about; they share no state in the code, so their products would show
nothing more. `GovernancePolicy` has the decisions themselves; a field that may be
missing is a set of at most one value, and a path is the sequence of its parts.

Serialization (`HandOver`) does not ask again whether a packet has expired since
its manifest was built (`adapter.py:437`); the model says so, and
`IssuedReceiptGoverns` speaks of the time of the governor's receipt.
Abstractions. Schema shapes, text limits, prompt packs, effort and cost estimates
and the redaction of texts are left out.

## 4. Runs

| Run | Instance | Shows |
|---|---|---|
| `ingest_one_draft` | 1 draft with a registration, 2 receipts (one may expire), 2 processes, an administrator with a record and a source, 1 edit, 2 faults | types; one receipt per draft; a consumed draft is wholly in the ledger; a `pending` draft is untouched; the journal is never ahead of the ledger; refinement of `GovernedLedger` |
| `ingest_two_drafts` | 2 drafts with one record id in one file, 2 receipts, 2 processes, administrator, 2 faults | ids unique within a file; approvals present; receipt spent before any write; one write per operation; append-only |
| `ingest_recovery` | 1 draft, 2 processes, 3 faults, fairness | half-written transactions are completed; the lock comes free |
| `ingest_duplicate_id` | 2 drafts with one id in two files, 1 fault | finding 1 (violation) |
| `ingest_expired_recovery` | as `ingest_recovery`, the receipt may expire, 1 fault | finding 2 (violation) |
| `index_gate` | 1 server, 1 builder, a registry and a daily file of at most 1 line, 3 stamps, 1 fault | types; the gate is of the call; the cache is sound |
| `index_builders` | 2 builders, the same ledger, 1 drifting source, 1 fault, fairness | a published database is the image of its ledger; a usable one is kept; the index ends current |
| `evidence_gate` | 2 events over 2 files, 5 locators, 2 calls, a log of 2 entries, 2 edits, late publications or restarts | an eligible receipt is about registered, intact lines; no logged mismatch is dropped; no clean claim is blocked |
| `candidate_search` | 2 builders of different backends, 1 server, 2 ledgers, one file; builds, edits and calls as in `Mixes` | unregistered text needs three changes; a search during which nothing moves fails only for a stale semantic index or a query without a word, and leaves no records out |
| `harness_run` | 3 plans of one run identifier, 2 processes, 2 files, 1 edit, 1 write of a container, 1 fault | one launch per approval; no replayed recipe behind a result; results are earned, promotions verified, imports complete and of patch paths only |
| `harness_unconfirmed_import` | as before, a container may change a patched file | finding 3 (violation) |
| `governance` | 4 roles, 4 packets, 2 runners, 1 edit, 3 reviews | an issued receipt governs what is dispatched under it; reviewers isolated; operations inside their paths; one run per approval; serious failures stop; gates reopen only by revision |

Bounds. `MaxFault` bounds stops and I/O errors, `MaxEdit` edits of a source.
Two faults are enough to interrupt an attempt and its retry, three to do so
again; two operations per draft (registrations, record) are what the code
writes at most; two processes suffice because only one can hold the lock and
the other is the one refused, interleaved or waiting for recovery. Deadlock
checking is on in every run: an attempt that is refused ends idle, so the
system can always go on. Processes are symmetric in the two large runs, which
check no liveness.

For the index, two canonical files are the smallest ledger that a reader can
see torn (one file before, the other after an append), and one line per file
gives the empty ledger, the registry alone, and events with and without a
registry. Builders interact only through the two published files, so two of them
show every overtaking of one by another; the searches of one server do not
interact with another's. The inductive invariants behind the theorems do not
depend on these bounds.

`evidence_gate`: two calls are a fetch and then a claim, or two claims; two
entries of the log and two calls (one claim of two references) reach its limit;
two edits are a file that is changed and put back, or a change and a restart. The
sequences of cited references (`CiteLists`) are the kinds the code tells apart:
none, one, two of one file, two of two, a range that is not registered, a hash
that was never registered, an end that is missing. One record is committed late, so
a session sees at most two ledgers. Histories are bounded by the calls.

`candidate_search`: `Mix` lists the sums of builds, edits and calls a behaviour
may have, as the product of all three is out of reach: two builds that overlap
with an edit, one build with the three changes that `TextIsRegistered` needs, and
a search during a build with an edit or between two builds. At most two processes
work at once (`MaxBusy`): each pair of them is explored, and a third meets the
others only through the two published files. The source that is registered only
with the second ledger gives records with and without a registered source.

`harness_run`: one edit of the project between any two steps, one write of a
container, one fault. Two processes suffice, because a run identifier has one
approval and the second process is the one that must be refused; three plans of
one identifier are a plan that may write, one that may not, and one that may not
be sealed. A container writes the file the plan does not patch; that it may also
write the patched one is the subject of the violation run. The patch has one file: a
stop between the replaces of two files (`controller.py:545`) is covered by the
theorem `AppliedIsAlwaysComplete`, for patches of any size, and not by the run.

`governance`: one edit of any document between any two calls (`MaxEdit`), with
its hash renewed or not; every check compares whole documents, so one altered
field is as good as several. A gate reopens after three reviews at the earliest: two
reviewers disagree, and one of them takes its verdict back. A status or a severity
that blocked stays, whatever follows, so nothing else reopens a gate.
`MaxException` bounds the exceptions of a workflow.

`CHECK_DEADLOCK FALSE` is said in these four components only: their bounds on
calls, builds, edits and faults run out, and a session or a plan that has ended
stays so.

Fairness (`FairSpec`, used by the liveness runs). A started attempt runs on:
it is straight-line code without waiting. A stale lock is eventually cleared,
which the tutorial asks of the operator. The caller of a failed commit retries
with the same receipt, which the status `recovery_required` asks of the client;
strong fairness, as a retry is refused whenever another writer holds the lock.
No fairness is assumed of faults, edits, administrators or expiry.
`PartialCommitCompletes` holds only without interference between attempts: an
append to a target file or an edit of a staged source while a transaction is
half-written blocks its recovery, by design ("canonical target changed outside
ingest transaction"). `ingest_recovery` therefore has one draft, and an
administrator who cannot append while the draft is half-written: the only record
he may add is the approval, whose id is taken by then.

`FairSpec` of `LexicalIndex`: a call that began runs on; a drifted source is put
back; and `ensure_lexical_index` is called again and again, which the code does
after every append and at every start of a server, and which the gate's refusal
asks of the operator. `EventuallyCurrent` is then the claim that no leftover of
earlier attempts (a failure record, an older database, a late publication) keeps
the index from becoming current once appends and faults have ceased; it says
nothing of a project where nobody runs the refresh again.

### Findings

1. `UniqueRecordIds` (`core/ingest.py:481`). A resumed commit repeats neither
   the head check nor the validation. After a stop between two files another
   writer can add the same record id to another daily file; recovery then adds
   the second one, and from then on validation refuses every append.
2. `PartialCommitCompletes` with expiry (`runtime/ingest_approval.py:165`).
   `consume` reports "expired" before "already consumed", so a half-written
   transaction cannot be resumed after its receipt expired.
3. `ImportIsAsConfirmed` (`secure_harness/controller.py:553`). `apply_changes`
   compares the workspace with the confirmed diff hash and then copies from the
   workspace; a container that outlived its docker client may write in between,
   and what it wrote is imported.

A smaller divergence is written into `IndexIsImage`: without a daily file
`_build_empty` ignores a registry that is not empty, so the database is current
with no sources and nothing validates them.

## 5. Proofs

TLAPS proves, for all constants that satisfy the assumptions named below, none of
which bounds an instance. For `IngestCommit`, from `ConstantTypes` and
`ConstantsDistinct`:

* `TypeCorrect`: `Spec => []TypeOK`. `TypeOK` is not inductive alone: a rename
  needs the attempt to have an operation in hand. `TypeInv` adds that an attempt
  past its start has a draft and a receipt (`HasArguments`), that its transaction
  is not empty and its step within it (`HasOperations`), and that a readable
  journal is not empty, which is what a resumed attempt loads
  (`JournalHasOperations`).
* `LedgerIsAppendOnly`: `Spec => AppendOnly`. The argument is the lock:
  whoever is not idle holds it (`LockHeld`); every operation ever planned extends
  the file it starts from (`OpsGrow`); so from the comparison to the rename the
  file is what the operation starts from (`AtReplace`). `LedgerInv` is the
  conjunction, and only two actions rename.
* `WritesNeedReceipt`: `Spec => []ReceiptSpentBeforeWrite` and
  `ReceiptsAreOneTime`: `Spec => []OneReceiptPerDraft`. `ReceiptInv` follows one
  receipt through an attempt: bound to its draft since the verification, named by
  the journal since it was opened or loaded, valid since it was consumed or
  resumed. Stores rewrite a journal only under the receipt it names, and a journal
  is opened only where there was none, so a used receipt stays the one its
  draft's journal names.
* `JournalIsNeverAhead`, `PendingIsAlwaysUntouched`, `OperationsRunOnce`,
  `IdsAreUniqueInFile`, `RecordsAreApproved` and `ConsumedIsAlwaysCanonical`, from
  `CommitInv`, which adds to the above:
  - `OpsInv`: what the journals and attempts hold are operations of their draft,
    the registrations (if any) before the record, whatever the files were when they
    were planned, and a draft is unmarked until its attempt has marked it;
  - `ProgressInv`: what has landed. An operation has landed once its target file
    begins with what the operation installs; as files only grow, it stays so. The
    progress that a journal or an attempt claims has landed, and of a marked draft
    everything has. The converse is false, and this is the point of recovery: a
    rename may have taken effect although it raised, or the progress store after
    it was lost;
  - `StatusInv`: an attempt beyond its start works under a journal that says so;
    only a marked draft is `committed`; under `none`, `torn` or `prepared` nothing
    was written;
  - `CountInv`: a draft has at most as many renames as operations that landed. A
    rename happens only when the file is still what the operation starts from, so
    the operation had not landed, and each is renamed into place once;
  - `RecordInv`: daily files hold lines, under distinct ids, after their approvals.
    A record is checked against the files when its journal is opened; by the time it
    is renamed the file it joins is unchanged, and the approvals, once there, stay.
* `CommitImplementsGovernedLedger`: `Spec => ImplementsGovernedLedger`. Initial
  states map to initial states (a draft's grant is the receipt consumed
  for it, `GovernedGrant`), and each step maps to a step or a stutter: the consumption
  that takes effect is the grant, a rename is one append, the marker closes the draft,
  everything else is a stutter. The two renames of one draft stay two steps there, as the code
  promises no more: what a reader may see between them is a registry with the new
  sources and no record of them yet.

For `LexicalIndex`, from its assumption `ConstantTypes` (any number of
processes, builders, servers, canonical files and faults):

* `IndexTypeCorrect`, `PublishedIndexIsImage`, `GoodIndexIsAlwaysKept` and
  `GateIsAlwaysOfThisCall`, all from one inductive invariant, `ReadInv`. The
  ledger is the largest of the ledgers there have been (`PastInv`), so what a
  process read lies between two of them. A builder's first fingerprint is below
  some past ledger m, and everything it reads afterwards is above m; if the second
  fingerprint equals the first, both are m, and so is what was built in between
  (`BuildInv`). A signature lies between the ledger at the start of the call and
  the present one (`SigInv`); once remembered it is either a ledger there was or
  is already exceeded in some file, and then no later call can meet it again
  (`CacheSeen`): this is why a cached verdict is of the present call (`GateInv`).
* `CacheIsAlwaysSound`: `Spec => []CacheIsSound`. `SoundInv` adds what a check has
  found so far about the signature taken before it (`CheckInv`), and that behind a
  remembered signature there is a ledger, not below what was statted, that
  database and health record attest as long as they keep the statted identity
  (`Backs`). Publications choose an identity no signature holds, so they can only
  make a signature useless, never wrong.

For `EvidenceGate`, from its assumption `GateConstants` (any number of files,
references, ledgers and edits):

* `SessionTypeCorrect`, `EligibleIsAlwaysGrounded`, `MismatchIsNeverDropped`, from
  `GateInv`. `CallInv` follows one call: which references are done and which are
  still to do (`Orderly`); that its history has the present files and index
  (`Witnessed`), so that what is read now was true at some time of this call
  (`Tracked`); and what a check that passed stands for (`Checked`). The history of a
  call only grows, so a check stays justified until the verdict, which is given when no
  reference is left: grounding follows although index, ledger and files move
  between any two of the reads. `LogInv` says that the log is what was answered,
  cut at its limit; `ReceiptInv` keeps what the verdict knew. Two gaps of the code
  are outside what is promised: a mismatch beyond the limit of the log
  (`server.py:1328`) is not disclosed, and a mismatch of an event is hidden by any
  intact reference of the same event (`server.py:1347`).
* `CleanClaimsAreEligible`, the converse: of a claim that left nothing out and during
  which no cited file, index or locator was other than it should be, no check fails
  and the verdict is not `blocked`. `CleanInv` says that nothing failed so far in such
  a call. It needs that there are two ledgers only, so that the history of indexes
  tells what each read found (`PastInv`), that a finite set of files, each with one
  content during the call, is read as that content (`OneContentEach`, by counting),
  and the last clause of `GateConstants`: a registered range lies within its file,
  as the build refuses one that does not
  (`tools/build_research_ledger_index.py:207`).

For `GovernanceSession`, from `SessionConstants` and, of the registry of roles,
`RegistryAssumption`: `validate_registry` finds nothing to complain about. The code
only reports what it finds (`registry_report`) and refuses nothing for it, so these
theorems are about a deployment whose report is empty.

* `ApprovalsAreOneTime`: a grant, and what a process remembers of it, is of a
  binding the user approved (`GrantInv`), and a run is reported only by the process
  that created the marker, which stays (`MarkerInv`). All other decisions leave the
  approval store alone.
* `IssuedReceiptsGovern`. Packets, receipts and the manifest can be edited and sealed
  anew. `DocumentInv` therefore speaks not of what the documents say but of what they
  were: what a receipt was sealed with was issued by the server, for packets its
  governor reviewed, or computed anew by hand; what the host has pinned is sound,
  whatever the manifest says now. A handover compares with both, and a reviewed
  packet stays reviewed. Of a rewritten receipt nothing is claimed.
* `ReviewersStayIsolated`. `IsolationInv`: a critical batch that is handed over, and a
  batch with a critical reviewer that passed preflight, is of all the reviewers and
  nobody else, on one snapshot, with no write action. A single request or that of a
  batch member may hand one reviewer over alone (`adapter.py:283`, `:300`); the theorem
  then says that it has its own context and cannot write. That critical roles cannot
  write is `RegistryAssumption`.
* `PreflightIsInside`. What passed preflight leads, path for path, to a place under a
  path of the packet (`PassedInv`, from `DeskInv`). Where a path with `..` leads is
  computed by a fold; that it does not leave its root is shown by induction along the
  path, through the well-foundedness of the naturals.
* `SeriousFailuresStop`, from `FailureInv`: what the record of a failure says, of
  each class, against the policy of the first level that sets one.
* `GateReopensByRevision`: `Spec => GateReopensOnlyByRevision`, an action property. One
  more review adds to statuses and severities and changes the verdict of its own
  reviewer only, so a conflict can end only by that reviewer's other verdict.
* `SessionTypeCorrect`, from its `TypeInv`.

For `HarnessRun`, from `HarnessConstants`:

* `ApprovalsLaunchOnce`, from `RunInv`: a consumption is of the plan that was
  granted, and from then on neither changes (`SpentInv`); of the processes past the
  consumption and before the launch there is at most one for a run, and nothing was
  launched yet (`HolderInv`). The step that needs it is `LaunchCodex`.
* `AppliedIsAlwaysComplete`, from `ImportInv`: of the files an import was confirmed
  for, those it no longer has to do are installed, and the record is written when
  none is left.
* `ResultsHaveNoReplay`, from `ResultsAreEarned` and `SessionInv`. A recipe that timed
  out may be called again beside its first container, and the code allows that; but
  a timed-out call is a failed call of the stream, and a stream with a failed call
  becomes no result. A session that was opened is never opened again. So while no
  call has failed no container outlived its client, and the containers started are
  those of the completed recipes and of the busy one, each once; what a result
  stands behind is frozen (`Steady`).
* `ResultsAreEarned`, from `RunInv`, `SessionInv` and `DirInv`. A session becomes
  ready only under a whole and timely consumption; the run directory keeps naming
  one sealed plan, whose operations have distinct identifiers (`IdsAreDistinct`,
  from the count that `validate_run_plan` compares); so in a complete stream the
  receipt with a recipe's identifier is that recipe's (`StreamHasRecipes`), and it
  completed. `Steady` collects what no step takes back, and carries this from the
  verdict on the stream to the file.
* `ImportsOnlyPatchedPaths`: `Spec => OnlyPatchedPathsImported`. A run directory names
  the plan its approval was consumed for (`OriginInv`), so the plan by which an import
  was confirmed is the one that was approved; what it has still to do are patch paths
  of that plan (`PatchInv`), and the change report is refused for a changed path
  outside them.
* `PromotionsAreVerified`. `ReviewInv`: from the consumption of its approval to its result a
  run has one process and no result yet, so a result that was reviewed is not written
  again (`ActiveInv`); a plan that may be promoted was sealed strict (`StrictOK`); an
  attestation is of the answer, and of the verification, that passed the review, and a
  promotion of a run that was attested (`AttestInv`).
* `HarnessTypeCorrect`, from `TypeInv`: a temporary file is there only while its
  import is at work (`TempInv`), and a shown diff is of files the workspace has
  (`DiffInv`).

For `SemanticIndex` and `CandidateSearch`, from `SemanticConstants` and
`SearchConstants` (any number of builders, ledgers, files, locators and edits). What
they assume of the ledger is what validation and the lexical build enforce: locators
name paths that are registered, first and last lines are numbers, the passages of a
row lie within its lines, the row an event is represented by is of that event, and a
later ledger has the rows and sources of the earlier ones.

* `SearchTypeCorrect`, from `TypeInv`: `WorldInv` for what is published, `ProcInv` for
  what each builder and reader has in hand at each place of the code.
* `SteadySearches`: of a call during which neither index was replaced, `SteadyInv` says
  that the rows the server loaded are those of the published lexical index, that the
  database the status accepted is in step with it and of the server's model, that
  vectors and hits are of them, and that after the parents were found the events found
  are all events there are. Two failures are left: a semantic index that is not
  current, and a query in which there is no word. The lexical query refuses the latter
  (`core/search.py`), and so does the embedding of the query
  (`semantic_backends.py:84`, called at `server.py:541`); it is a `ValueError`, which the
  fallback of adaptive mode (`server.py:780`) does not catch. That each hit has a registered parent of least extent is
  shown by a well-founded minimum.
* `PublishedTextIsRegistered`: a published database holds text nobody registered only
  if there were at least three changes (edits of any files, late publications of the
  lexical index) while it was built. With three edits of one file it is possible,
  although `semantic.py:3-6` says that inputs are hash-verified lines. `GoodText` counts
  along the build. Between the hash and the read of the first load the text must have
  come: one edit. The load after the embedding hashes the registered content again: it
  was put back, a second; and it reads the bad text again: a third. The count is kept
  for every text in hand, as what it takes to find the file as it is now (`Edited`).

The theorems cover every invariant and every safety action property of the passing
runs. Only model-checked are the liveness properties, which rest on fairness and are
out of the prover's reach: `PartialCommitCompletes`, `LockIsReleased` and
`EventuallyCurrent`. The library's induction theorems cannot be instantiated here;
where an argument is by induction over data, it is made through a least
counterexample, for which the well-foundedness of the naturals suffices.

## 6. Not modelled

Two behaviours are known from the models and have no run of their own. A
registration between the two reads of `prepare_ingest` (`core/ingest.py:328`)
becomes part of the head the commit compares with, so that one path is registered
twice and the index build, whose table has a unique source path, fails. A builder
of the lexical index delayed before its `os.replace` (`indexing/lexical.py:643`)
publishes an older index over a newer one; between the gate and the query of a
search this makes the search answer from an index older than any ledger of that
call, and the next gate refuses.

Components left out.

* Watch daemon (`scripts/watch_research_index.py`): it rebuilds, after debounced
  file events, indexes that by default lie in `research-events/index`, while the
  server reads `data/index`; its semantic build is the older encoder tool
  (`tools/build_research_semantic_index.py`). It keeps no canonical state, and
  whatever it writes, the server's gates judge.
* Amendments and corrections (`core/amendments.py`): a resolved view, computed
  from the records in their order by one sequential function.
* CLI, demo and configuration; models and encoders; query tools; benchmarks,
  release and packaging scripts: argument parsing, I/O, numeric work, text.
* `core/governance.py` is used by tests only. `agent_control.py` answers that no
  backend is available, whatever is asked. `session_scope.py` is text.

A wrong health record of the semantic index (`indexing/semantic.py:1278`, two builders)
is modelled and harmless, but no property is about it: the status refuses such an
index until it is repaired.

Left out of modelled components: embeddings (but for the refusal of a query without a
word) and ranking (numeric), suggestions
for records without a source, redaction, the audit log, HMAC arithmetic, and the
path, symlink, permission and size checks of the file layer.
