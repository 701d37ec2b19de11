------------------------------ MODULE HarnessRun ------------------------------
(***************************************************************************)
(* A governed Codex run of universal_research_mcp (secure_harness/): a     *)
(* plan is sealed over a snapshot of the project, approved once, consumed, *)
(* and executed by Codex through one worker session whose recipes run in   *)
(* Docker containers; its result may be attested and cited by a canonical  *)
(* record, and its changes imported into the project file by file.         *)
(*                                                                         *)
(* Left out: the texts that travel (prompts, output, diagnostics), the     *)
(* availability of Docker, temporary files inside the workspace, symlinks. *)
(* One process reads the whole project in one step when it reviews or      *)
(* builds a manifest; the worker's copy and the import go file by file.    *)
(* A write may stop half way (a torn file), a process may stop at any      *)
(* step: MaxFault bounds both.  Codex ends with the process that reads its *)
(* output; its containers may not.                                         *)
(***************************************************************************)
EXTENDS HarnessPlan, FiniteSetsExt

CONSTANTS
    Plan,         \* plans a user may seal
    Spec0,        \* [Plan -> specification]: .run, .ops, .contracts, ...
    RunId,        \* run identifiers; two plans may name the same one
    Path,         \* project files, numbers in the order of their names
    MaxContent,   \* file contents are 1..MaxContent, Absent is 0
    Foreign,      \* contents that editors and containers write
    Patched,      \* contents the worker writes
    Proc,         \* CLI processes: harness run, harness apply
    Answers,      \* final answers Codex may give, sequences of segments
    Receipts,     \* verification receipt files a user may supply
    None,         \* no plan, no diff, no operation
    Expiring,     \* runs whose grant may expire
    SealedLate,   \* bound: plans sealed even after their run's approval is spent
    Scribbled,    \* bound: files a container may change
    MaxEdit,      \* bound: edits of project files by others
    MaxScribble,  \* bound: writes of containers
    MaxFault      \* bound: torn files and crashes

Content == 0..MaxContent

ASSUME HarnessConstants ==
    /\ \A p \in Plan : Spec0[p].run \in RunId
    /\ \A p \in Plan : {"ops", "contracts"} \subseteq DOMAIN Spec0[p]
    /\ \A p \in Plan : Spec0[p].ops \in Seq(ToSet(Spec0[p].ops))
    /\ \A p \in Plan : OperationPaths(Spec0[p].ops) \subseteq Path
    /\ Path \subseteq Nat
    /\ None \notin Plan \cup Content \cup [plan : Plan, late : BOOLEAN, whole : BOOLEAN]
    /\ SealedLate \subseteq Plan
    /\ Scribbled \subseteq Path
    /\ Foreign \cup Patched \subseteq Content
    /\ MaxContent \in Nat \ {0}
    /\ {MaxEdit, MaxScribble, MaxFault} \subseteq Nat

VARIABLES
    project,   \* current content of the project files
    temp,      \* <file>.ur-apply-tmp beside them
    bundle,    \* sealed plan bundles: snapshot manifest and contracts
    grant,     \* <run_id>.grant.json
    consumed,  \* <run_id>.consumed.json
    files,     \* files of the run directory
    planOf,    \* plan.json of the run directory
    answer,    \* structured output inside result.json
    verified,  \* receipts the attestation's review was made with
    recorded,  \* applied_paths of applied.json
    shown,     \* the change report the user last looked at
    promoted,  \* canonical records that cite an attestation
    workspace, \* the quarantined copy the worker edits
    worker,    \* the worker MCP process of the run
    proc,      \* CLI processes
    edits, scribbles, faults, \* spent bounds
    launched,  \* history: plans Codex was started for, per run
    executions, \* history: containers started, per run and recipe
    installed  \* history: what an import put into the project

host == <<project, temp, installed>>
approvals == <<bundle, grant, consumed>>
store == <<files, planOf, answer, verified, recorded, shown, promoted>>
session == <<workspace, worker, scribbles, executions>>
vars == <<host, approvals, store, session, proc, edits, faults, launched>>

FileName == {"inputs", "result", "failure", "attestation", "applied"}
FileState == {"absent", "torn", "whole"}
OpId == UNION {OperationIds(Spec0[p].ops) : p \in Plan}

NoSession == [pc |-> "none", todo |-> {}, op |-> None, completed |-> {},
              orphans |-> {}, calls |-> {}, failed |-> FALSE]
NoProc == [pc |-> "idle", plan |-> None, todo |-> {}, diff |-> None]

Init ==
    /\ project = [path \in Path |-> IF path = Min(Path) THEN Absent ELSE 1]
    /\ temp = [path \in Path |-> None]
    /\ bundle = [p \in Plan |-> None]
    /\ grant = [r \in RunId |-> None]
    /\ consumed = [r \in RunId |-> None]
    /\ files = [r \in RunId |-> [f \in FileName |-> "absent"]]
    /\ planOf = [r \in RunId |-> None]
    /\ answer = [r \in RunId |-> <<>>]
    /\ verified = [r \in RunId |-> <<>>]
    /\ recorded = [r \in RunId |-> {}]
    /\ shown = [r \in RunId |-> None]
    /\ promoted = {}
    /\ workspace = [r \in RunId |-> [path \in Path |-> Absent]]
    /\ worker = [r \in RunId |-> NoSession]
    /\ proc = [e \in Proc |-> NoProc]
    /\ edits = 0 /\ scribbles = 0 /\ faults = 0
    /\ launched = [r \in RunId |-> <<>>]
    /\ executions = [r \in RunId |-> [op \in OpId |-> "none"]]
    /\ installed = {}

Fault == faults < MaxFault /\ faults' = faults + 1
Goto(e, pc) == proc' = [proc EXCEPT ![e].pc = pc]
Stop(e) == proc' = [proc EXCEPT ![e] = NoProc]
RunOf(p) == Spec0[p].run
Manifest0(p) == bundle[p].manifest

(* plan.json, as sealed: the specification with its contracts.             *)
Sealed(p) == [Spec0[p] EXCEPT !.contracts = bundle[p].contracts]

(* _create_json is O_EXCL: the file must not exist; a crash tears it.      *)
Create(r, name, state) ==
    /\ files[r][name] = "absent"
    /\ files' = [files EXCEPT ![r][name] = state]
-----------------------------------------------------------------------------
(* The user and other programs.                                            *)

EditProject(path, content) ==
    /\ edits < MaxEdit
    /\ content # project[path]
    /\ project' = [project EXCEPT ![path] = content]
    /\ edits' = edits + 1
    /\ UNCHANGED <<temp, installed, approvals, store, session, proc, faults, launched>>

(* harness plan: build_plan_bundle.                                        *)
SealPlan(p) ==
    /\ bundle[p] = None
    /\ consumed[RunOf(p)] # None => p \in SealedLate
    /\ Sealable(project, Spec0[p].contracts, Spec0[p].ops)
    /\ bundle' = [bundle EXCEPT ![p] =
         [manifest  |-> Manifest(project, OperationPaths(Spec0[p].ops)),
          contracts |-> SealContracts(project, Spec0[p].contracts)]]
    /\ ValidPlan([Spec0[p] EXCEPT !.contracts = SealContracts(project, @)])
    /\ UNCHANGED <<host, grant, consumed, store, session, proc, edits, faults, launched>>

(* preflight: the only check of the whole snapshot and of approval_mode.   *)
Preflight(p) ==
    /\ bundle[p] # None
    /\ Spec0[p].approval = "plan_once"
    /\ Manifest(project, DOMAIN Manifest0(p)) = Manifest0(p)
    /\ VerifyContracts(project, bundle[p].contracts, Spec0[p].ops)

(* harness approve: one grant per run_id, of the exact plan.               *)
Approve(p) ==
    /\ Preflight(p)
    /\ grant[RunOf(p)] = None
    /\ grant' = [grant EXCEPT ![RunOf(p)] = [plan |-> p, expired |-> FALSE]]
    /\ UNCHANGED <<host, bundle, consumed, store, session, proc, edits, faults, launched>>

(* An expiry after the consumption changes nothing.                        *)
Expire(r) ==
    /\ r \in Expiring
    /\ grant[r] # None
    /\ consumed[r] = None
    /\ ~grant[r].expired
    /\ grant' = [grant EXCEPT ![r].expired = TRUE]
    /\ UNCHANGED <<host, bundle, consumed, store, session, proc, edits, faults, launched>>
-----------------------------------------------------------------------------
(* harness run: a CLI process.                                             *)

BeginRun(e, p) ==
    /\ proc[e].pc = "idle"
    /\ Preflight(p)
    /\ proc' = [proc EXCEPT ![e] = [NoProc EXCEPT !.pc = "preflighted", !.plan = p]]
    /\ UNCHANGED <<host, approvals, store, session, edits, faults, launched>>

(* execute_codex first verifies the test contracts.                        *)
VerifyBeforeConsume(e) ==
    /\ proc[e].pc = "preflighted"
    /\ IF VerifyContracts(project, bundle[proc[e].plan].contracts, Spec0[proc[e].plan].ops)
       THEN Goto(e, "verified") ELSE Stop(e)
    /\ UNCHANGED <<host, approvals, store, session, edits, faults, launched>>

(* Mutant: the grant is looked up by run identifier only.                  *)
GrantAllowsAnyPlan(p) ==
    /\ grant[RunOf(p)] # None
    /\ ~grant[RunOf(p)].expired

(* The grant binds the exact plan and must not have expired.               *)
GrantAllows(p) ==
    /\ grant[RunOf(p)] # None
    /\ grant[RunOf(p)].plan = p
    /\ ~grant[RunOf(p)].expired

(* Mutant: the consumption is written over an earlier one.                 *)
ConsumableAgain(p) == TRUE

(* consumed.json is O_EXCL.  consumed_at is read after the expiry check,   *)
(* so it may lie past the expiry (late); a crash leaves it unreadable.     *)
Consumable(p) == consumed[RunOf(p)] = None

ConsumeApproval(e) ==
    LET p == proc[e].plan
    IN  /\ proc[e].pc = "verified"
        /\ GrantAllows(p)
        /\ Consumable(p)
        /\ \E late \in BOOLEAN :
             /\ late => RunOf(p) \in Expiring
             /\ \/ /\ consumed' = [consumed EXCEPT ![RunOf(p)] =
                        [plan |-> p, late |-> late, whole |-> TRUE]]
                   /\ Goto(e, "consumed")
                   /\ UNCHANGED faults
                \/ /\ consumed' = [consumed EXCEPT ![RunOf(p)] =
                        [plan |-> p, late |-> late, whole |-> FALSE]]
                   /\ Stop(e)
                   /\ Fault
        /\ UNCHANGED <<host, bundle, grant, store, session, edits, launched>>

RefuseApproval(e) ==
    /\ proc[e].pc = "verified"
    /\ ~(GrantAllows(proc[e].plan) /\ Consumable(proc[e].plan))
    /\ Stop(e)
    /\ UNCHANGED <<host, approvals, store, session, edits, faults, launched>>

(* HarnessRunStore.create: the directory, then its four files.             *)
CreateRun(e) ==
    LET p == proc[e].plan
    IN  /\ proc[e].pc = "consumed"
        /\ \/ /\ Create(RunOf(p), "inputs", "whole")
              /\ planOf' = [planOf EXCEPT ![RunOf(p)] = p]
              /\ Goto(e, "created")
              /\ UNCHANGED faults
           \/ /\ Create(RunOf(p), "inputs", "torn")
              /\ Stop(e)
              /\ Fault
              /\ UNCHANGED planOf
        /\ UNCHANGED <<host, approvals, answer, verified, recorded, shown,
                       promoted, session, edits, launched>>

(* CodexRunner.run starts Codex, which starts the worker MCP server.       *)
LaunchCodex(e) ==
    LET p == proc[e].plan
    IN  /\ proc[e].pc = "created"
        /\ launched' = [launched EXCEPT ![RunOf(p)] = Append(@, p)]
        /\ Goto(e, "running")
        /\ UNCHANGED <<host, approvals, store, session, edits, faults>>

(* A process stops: nothing it wrote is taken back.  Before it consumed    *)
(* the approval it has written nothing.                                    *)
Crash(e) ==
    /\ proc[e].pc \notin {"idle", "preflighted", "verified"}
    /\ Fault
    /\ Stop(e)
    /\ UNCHANGED <<host, approvals, store, session, edits, launched>>
-----------------------------------------------------------------------------
(* The worker session of a run.                                            *)

Running(r) == \E e \in Proc : proc[e].pc = "running" /\ RunOf(proc[e].plan) = r
Plan0(r) == Sealed(planOf[r])
Operation(r, id, kinds) ==
    {op \in ToSet(Plan0(r).ops) : op.id = id /\ op.kind \in kinds}
SetWorker(r, pc) == worker' = [worker EXCEPT ![r].pc = pc]

(* materialize_snapshot creates the workspace; it must not exist yet.      *)
MayMaterialize(r) == worker[r].pc = "none"

StartWorker(r) ==
    /\ Running(r)
    /\ MayMaterialize(r)
    /\ worker' = [worker EXCEPT ![r] =
         [@ EXCEPT !.pc = "checking", !.op = None, !.completed = {},
                   !.todo = DOMAIN Manifest0(planOf[r])]]
    /\ UNCHANGED <<host, approvals, store, workspace, scribbles, executions, proc, edits,
                   faults, launched>>

(* A file is read and compared with the manifest, and then copied: what is *)
(* copied is what the project holds by then.                               *)
CheckSource(r) ==
    LET path == Min(worker[r].todo)
    IN  /\ worker[r].pc = "checking"
        /\ worker[r].todo # {}
        /\ IF project[path] # Manifest0(planOf[r])[path] THEN SetWorker(r, "ended")
           ELSE IF project[path] = Absent
                THEN worker' = [worker EXCEPT ![r].todo = @ \ {path}]
                ELSE SetWorker(r, "copying")
        /\ UNCHANGED <<host, approvals, store, workspace, scribbles, executions, proc,
                       edits, faults, launched>>

CopySource(r) ==
    LET path == Min(worker[r].todo)
    IN  /\ worker[r].pc = "copying"
        /\ workspace' = [workspace EXCEPT ![r][path] = project[path]]
        /\ worker' = [worker EXCEPT ![r].todo = @ \ {path},
                                    ![r].pc = IF project[path] = Absent THEN "ended"
                                              ELSE "checking"]
        /\ UNCHANGED <<host, approvals, store, scribbles, executions, proc, edits, faults,
                       launched>>

(* Mutant: only that the approval was consumed counts, not when.           *)
ConsumptionAcceptedLate(r) ==
    /\ consumed[r] # None
    /\ consumed[r].whole
    /\ consumed[r].plan = planOf[r]

(* verify_consumed: the worker never consumes, it accepts only an exact    *)
(* consumption inside the grant's interval.                                *)
ConsumptionAccepted(r) ==
    /\ consumed[r] # None
    /\ consumed[r].whole
    /\ consumed[r].plan = planOf[r]
    /\ grant[r].plan = planOf[r]
    /\ ~consumed[r].late

VerifyConsumed(r) ==
    /\ worker[r].pc = "checking"
    /\ worker[r].todo = {}
    /\ SetWorker(r, IF ConsumptionAccepted(r) THEN "ready" ELSE "ended")
    /\ UNCHANGED <<host, approvals, store, workspace, scribbles, executions, proc, edits,
                   faults, launched>>

(* Codex calls a tool: the command line leaves it the worker's tools and   *)
(* nothing else.  Of the calls of a session only these facts matter: which *)
(* ones succeeded, and whether one failed.                                 *)
Serving(r) == Running(r) /\ worker[r].pc = "ready"
Called(r, tool, id, paths) ==
    worker[r].calls \cup {[tool |-> tool, op |-> id, paths |-> paths]}
CallFails(r) == worker' = [worker EXCEPT ![r].failed = TRUE]

(* worker_read, worker_search: the operation's own paths; a read needs the *)
(* file, a search passes over one that is absent.                          *)
MayRead(r, op, path) ==
    /\ path \in op.paths
    /\ op.kind = "read" => workspace[r][path] # Absent

WorkerRead(r, id, path) ==
    /\ Serving(r)
    /\ \/ \E op \in Operation(r, id, {"read", "search"}) :
            /\ MayRead(r, op, path)
            /\ worker' = [worker EXCEPT ![r].calls = Called(r, ToolOf(op.kind), id, {path})]
       \/ /\ \A op \in Operation(r, id, {"read", "search"}) : ~MayRead(r, op, path)
          /\ CallFails(r)
    /\ UNCHANGED <<host, approvals, store, workspace, scribbles, executions, proc, edits,
                   faults, launched>>

WorkerInventory(r) ==
    /\ Serving(r)
    /\ worker' = [worker EXCEPT ![r].calls = Called(r, "worker_inventory", None, {})]
    /\ UNCHANGED <<host, approvals, store, workspace, scribbles, executions, proc, edits,
                   faults, launched>>

(* worker_write: a patch operation's path whose content is what the model  *)
(* last saw; otherwise the call fails and nothing is written.              *)
WorkerWrite(r, id, path, base, content) ==
    LET allowed == /\ \E op \in Operation(r, id, {"patch"}) : path \in op.paths
                   /\ workspace[r][path] = base
    IN  /\ Serving(r)
        /\ \/ /\ allowed
              /\ workspace' = [workspace EXCEPT ![r][path] = content]
              /\ worker' = [worker EXCEPT ![r].calls = Called(r, "worker_write", id, {path})]
           \/ /\ ~allowed
              /\ CallFails(r)
              /\ UNCHANGED workspace
        /\ UNCHANGED <<host, approvals, store, scribbles, executions, proc, edits, faults,
                       launched>>

(* worker_execute: a recipe of the plan that has not completed yet.        *)
Executable(r, id) ==
    id \notin worker[r].completed /\ Operation(r, id, Recipes) # {}

(* A container is started: for the first time, or again.                   *)
OnceMore(count) == IF count = "none" THEN "once" ELSE "again"

WorkerExecute(r, id) ==
    /\ Serving(r)
    /\ IF Executable(r, id)
       THEN /\ worker' = [worker EXCEPT ![r].pc = "busy", ![r].op = id]
            /\ executions' = [executions EXCEPT ![r][id] = OnceMore(@)]
       ELSE CallFails(r) /\ UNCHANGED executions
    /\ UNCHANGED <<host, approvals, store, workspace, scribbles, proc, edits, faults,
                   launched>>

(* The workspace is mounted read-write: a container may change any file of *)
(* it, also one whose client is gone.                                      *)
ContainerWrites(r, path, content) ==
    /\ worker[r].pc = "busy" \/ worker[r].orphans # {}
    /\ scribbles < MaxScribble
    /\ content # workspace[r][path]
    /\ workspace' = [workspace EXCEPT ![r][path] = content]
    /\ scribbles' = scribbles + 1
    /\ UNCHANGED <<host, approvals, store, worker, executions, proc, edits, faults, launched>>

(* The recipe ends, with any exit code: it is completed.                   *)
RecipeEnds(r) ==
    LET id == worker[r].op
    IN  /\ worker[r].pc = "busy"
        /\ worker' = [worker EXCEPT ![r].pc = "ready", ![r].op = None,
                         ![r].completed = @ \cup {id},
                         ![r].calls = Called(r, "worker_execute", id, {})]
        /\ UNCHANGED <<host, approvals, store, workspace, scribbles, executions, proc,
                       edits, faults, launched>>

(* The timeout kills the docker client, not the container; the call fails  *)
(* and the operation may be called again.                                  *)
RecipeTimesOut(r) ==
    /\ worker[r].pc = "busy"
    /\ worker' = [worker EXCEPT ![r].pc = "ready", ![r].op = None,
                     ![r].orphans = @ \cup {worker[r].op},
                     ![r].failed = TRUE]
    /\ UNCHANGED <<host, approvals, store, workspace, scribbles, executions, proc, edits,
                   faults, launched>>

OrphanEnds(r, id) ==
    /\ id \in worker[r].orphans
    /\ worker' = [worker EXCEPT ![r].orphans = @ \ {id}]
    /\ UNCHANGED <<host, approvals, store, workspace, scribbles, executions, proc, edits,
                   faults, launched>>
-----------------------------------------------------------------------------
(* Codex ends, and CodexRunner.run and execute_codex judge its stream.     *)

(* The session ends with it and the stream is judged at once; a container  *)
(* that still runs is orphaned.                                            *)
EndSession(r) ==
    worker' = [worker EXCEPT ![r].pc = "ended", ![r].op = None, ![r].todo = {},
                  ![r].calls = {}, ![r].failed = FALSE,
                  ![r].orphans = IF worker[r].pc = "busy" THEN @ \cup {worker[r].op} ELSE @]

(* A nonzero exit, the host's timeout, a forbidden tool or a stream that   *)
(* is not complete: nothing is written, the approval stays spent.          *)
CodexFails(e) ==
    /\ proc[e].pc = "running"
    /\ EndSession(RunOf(proc[e].plan))
    /\ Stop(e)
    /\ UNCHANGED <<host, approvals, store, workspace, scribbles, executions, edits, faults,
                   launched>>

(* The token ceiling is looked at before the receipts.                     *)
CodexOverCeiling(e) ==
    LET r == RunOf(proc[e].plan)
    IN  /\ proc[e].pc = "running"
        /\ EndSession(r)
        /\ Create(r, "failure", "whole")
        /\ Stop(e)
        /\ UNCHANGED <<host, approvals, planOf, answer, verified, recorded, shown,
                       promoted, workspace, scribbles, executions, edits, faults, launched>>

(* Mutant: operations that nobody called are not missed.                   *)
AcceptedIncomplete(r) ==
    /\ worker[r].pc = "ready"
    /\ worker[r].calls # {}
    /\ \A call \in worker[r].calls : Receipted(call, Plan0(r))

(* Every sealed operation must have been observed, by a receipt that       *)
(* passes; one call that failed refuses the whole stream.                  *)
Accepted(r) ==
    /\ worker[r].pc = "ready"
    /\ StreamComplete(worker[r].calls, worker[r].failed, Plan0(r))

CodexCompletes(e, segments) ==
    LET r == RunOf(proc[e].plan)
    IN  /\ proc[e].pc = "running"
        /\ Accepted(r)
        /\ EndSession(r)
        /\ answer' = [answer EXCEPT ![r] = segments]
        /\ Goto(e, "accepted")
        /\ UNCHANGED <<host, approvals, files, planOf, verified, recorded, shown, promoted,
                       workspace, scribbles, executions, edits, faults, launched>>

WriteResult(e) ==
    LET r == RunOf(proc[e].plan)
    IN  /\ proc[e].pc = "accepted"
        /\ \/ Create(r, "result", "whole") /\ UNCHANGED faults
           \/ Create(r, "result", "torn") /\ Fault
        /\ Stop(e)
        /\ UNCHANGED <<host, approvals, planOf, answer, verified, recorded, shown,
                       promoted, session, edits, launched>>
-----------------------------------------------------------------------------
(* Review, attestation and promotion.                                      *)

(* plan.json and result.json are readable and bound to each other.         *)
ResultLoads(r) == files[r].inputs = "whole" /\ files[r].result = "whole"

(* Mutant: the review forgets the plan's verification mode.                *)
ReviewAdaptive(r, receipts) ==
    /\ ResultLoads(r)
    /\ ReviewPasses(answer[r], FALSE, receipts)

ReviewOf(r, receipts) ==
    /\ ResultLoads(r)
    /\ ReviewPasses(answer[r], Plan0(r).strict, receipts)

(* harness attest, with the hash of exactly this review.                   *)
Attest(r, receipts) ==
    /\ ReviewOf(r, receipts)
    /\ Plan0(r).mode \in PromotionModes
    /\ \/ /\ Create(r, "attestation", "whole")
          /\ verified' = [verified EXCEPT ![r] = receipts]
          /\ UNCHANGED faults
       \/ /\ Create(r, "attestation", "torn")
          /\ Fault
          /\ UNCHANGED verified
    /\ UNCHANGED <<host, approvals, planOf, answer, recorded, shown, promoted, session,
                   proc, edits, launched>>

(* promotion_attestation_binding: attestation, plan and result still agree.*)
PromotionAllowed(r, mode) ==
    /\ files[r].attestation = "whole"
    /\ ResultLoads(r)
    /\ Plan0(r).mode = mode
    /\ mode \in PromotionModes

(* A canonical record that declares a governed mode must cite a persisted  *)
(* attestation of a run of that mode (core/input.py).                      *)
Promote(r, mode) ==
    /\ PromotionAllowed(r, mode)
    /\ promoted' = promoted \cup {[run |-> r, mode |-> mode]}
    /\ UNCHANGED <<host, approvals, files, planOf, answer, verified, recorded, shown,
                   session, proc, edits, faults, launched>>
-----------------------------------------------------------------------------
(* Import of the changes.  Neither a result nor an attestation is needed.  *)

Base(r, path) ==
    IF path \in DOMAIN Manifest0(planOf[r]) THEN Manifest0(planOf[r])[path] ELSE Absent
Staged(r) == {path \in Path : workspace[r][path] # Absent}
PatchPaths(r) ==
    UNION {op.paths : op \in {o \in ToSet(Plan0(r).ops) : o.kind = "patch"}}
Changed(r) ==
    {path \in DOMAIN Manifest0(planOf[r]) \cup Staged(r) : workspace[r][path] # Base(r, path)}

(* Mutant: any file the worker changed may be imported.                    *)
ReviewableAnyPath(r) ==
    /\ files[r].inputs = "whole"
    /\ \A path \in DOMAIN Manifest0(planOf[r]) \cup Staged(r) : project[path] = Base(r, path)
    /\ Changed(r) \subseteq Staged(r)

(* change_review raises unless the project is still the approved snapshot  *)
(* and the worker changed, not deleted, only patch paths.                  *)
Reviewable(r) ==
    /\ files[r].inputs = "whole"
    /\ \A path \in DOMAIN Manifest0(planOf[r]) \cup Staged(r) : project[path] = Base(r, path)
    /\ Changed(r) \subseteq PatchPaths(r) \cap Staged(r)

Diff(r) == [path \in Changed(r) |-> workspace[r][path]]

(* harness changes: the user looks at the report and its hash.             *)
ShowChanges(r) ==
    /\ Reviewable(r)
    /\ shown' = [shown EXCEPT ![r] = Diff(r)]
    /\ UNCHANGED <<host, approvals, files, planOf, answer, verified, recorded, promoted,
                   session, proc, edits, faults, launched>>

(* harness apply: the review is repeated and must have the confirmed hash. *)
BeginApply(e, r) ==
    /\ proc[e].pc = "idle"
    /\ Reviewable(r)
    /\ shown[r] = Diff(r)
    /\ files[r].applied = "absent"
    /\ proc' = [proc EXCEPT ![e] = [pc |-> "copy", plan |-> planOf[r],
                                    todo |-> Changed(r), diff |-> Diff(r)]]
    /\ UNCHANGED <<host, approvals, store, session, edits, faults, launched>>

CopyChange(e) ==
    LET path == Min(proc[e].todo)
        staged == workspace[RunOf(proc[e].plan)][path]
    IN  /\ proc[e].pc = "copy"
        /\ proc[e].todo # {}
        /\ IF temp[path] # None \/ staged = Absent
           THEN Stop(e) /\ UNCHANGED temp
           ELSE temp' = [temp EXCEPT ![path] = staged] /\ Goto(e, "replace")
        /\ UNCHANGED <<project, installed, approvals, store, session, edits, faults, launched>>

ReplaceChange(e) ==
    LET path == Min(proc[e].todo)
    IN  /\ proc[e].pc = "replace"
        /\ project' = [project EXCEPT ![path] = temp[path]]
        /\ temp' = [temp EXCEPT ![path] = None]
        /\ installed' = installed \cup
             {[run |-> RunOf(proc[e].plan), path |-> path, content |-> temp[path],
               confirmed |-> proc[e].diff[path]]}
        /\ proc' = [proc EXCEPT ![e].pc = "copy", ![e].todo = @ \ {path}]
        /\ UNCHANGED <<approvals, store, session, edits, faults, launched>>

(* Mutant: the record is written before the last file is replaced.         *)
AllReplacedEarly(e) == proc[e].pc = "copy" /\ Cardinality(proc[e].todo) <= 1

(* applied.json is written when every file has been replaced; a second     *)
(* import that comes here finds it and fails.                              *)
AllReplaced(e) == proc[e].pc = "copy" /\ proc[e].todo = {}

FinishApply(e) ==
    LET r == RunOf(proc[e].plan)
    IN  /\ AllReplaced(e)
        /\ \/ /\ Create(r, "applied", "whole")
              /\ recorded' = [recorded EXCEPT ![r] = DOMAIN proc[e].diff]
              /\ UNCHANGED faults
           \/ /\ Create(r, "applied", "torn")
              /\ Fault
              /\ UNCHANGED recorded
           \/ /\ files[r].applied # "absent"
              /\ UNCHANGED <<files, recorded, faults>>
        /\ Stop(e)
        /\ UNCHANGED <<host, approvals, planOf, answer, verified, shown, promoted, session,
                       edits, launched>>
-----------------------------------------------------------------------------
RunStep(e) ==
    \/ \E p \in Plan : BeginRun(e, p)
    \/ VerifyBeforeConsume(e) \/ ConsumeApproval(e) \/ RefuseApproval(e)
    \/ CreateRun(e) \/ LaunchCodex(e) \/ Crash(e)
    \/ CodexFails(e) \/ CodexOverCeiling(e)
    \/ \E segments \in Answers : CodexCompletes(e, segments)
    \/ WriteResult(e)

ApplyStep(e) ==
    \/ \E r \in RunId : BeginApply(e, r)
    \/ CopyChange(e) \/ ReplaceChange(e) \/ FinishApply(e)

WorkerStep(r) ==
    \/ StartWorker(r) \/ CheckSource(r) \/ CopySource(r) \/ VerifyConsumed(r)
    \/ WorkerInventory(r)
    \/ \E id \in OpId : WorkerExecute(r, id) \/ OrphanEnds(r, id)
    \/ \E id \in OpId, path \in Path :
         \/ WorkerRead(r, id, path)
         \/ \E base \in Content, content \in Patched :
              WorkerWrite(r, id, path, base, content)
    \/ \E path \in Scribbled, content \in Foreign : ContainerWrites(r, path, content)
    \/ RecipeEnds(r) \/ RecipeTimesOut(r)

UserStep ==
    \/ \E path \in Path, content \in Foreign : EditProject(path, content)
    \/ \E p \in Plan : SealPlan(p) \/ Approve(p)
    \/ \E r \in RunId :
         \/ Expire(r) \/ ShowChanges(r)
         \/ \E receipts \in Receipts : Attest(r, receipts)
         \/ \E mode \in PromotionModes : Promote(r, mode)

Next ==
    \/ UserStep
    \/ \E e \in Proc : RunStep(e) \/ ApplyStep(e)
    \/ \E r \in RunId : WorkerStep(r)

Spec == Init /\ [][Next]_vars
-----------------------------------------------------------------------------
Diffs == {None} \cup UNION {[D -> Content] : D \in SUBSET Path}
Call == [tool : {"worker_read", "worker_search", "worker_write", "worker_execute",
                 "worker_inventory"},
         op : OpId \cup {None}, paths : SUBSET Path]
Session == [pc : {"none", "checking", "copying", "ready", "busy", "ended"},
            todo : SUBSET Path, op : OpId \cup {None}, completed : SUBSET OpId,
            orphans : SUBSET OpId, calls : SUBSET Call, failed : BOOLEAN]

(* Every variable has its type.                                            *)
TypeOK ==
    /\ project \in [Path -> Content]
    /\ temp \in [Path -> Content \cup {None}]
    /\ \A p \in Plan : bundle[p] # None => bundle[p].manifest \in [OperationPaths(Spec0[p].ops) -> Content]
    /\ grant \in [RunId -> {None} \cup [plan : Plan, expired : BOOLEAN]]
    /\ consumed \in [RunId -> {None} \cup [plan : Plan, late : BOOLEAN, whole : BOOLEAN]]
    /\ files \in [RunId -> [FileName -> FileState]]
    /\ planOf \in [RunId -> Plan \cup {None}]
    /\ answer \in [RunId -> Answers \cup {<<>>}]
    /\ verified \in [RunId -> Receipts \cup {<<>>}]
    /\ recorded \in [RunId -> SUBSET Path]
    /\ shown \in [RunId -> Diffs]
    /\ promoted \subseteq [run : RunId, mode : PromotionModes]
    /\ workspace \in [RunId -> [Path -> Content]]
    /\ worker \in [RunId -> Session]
    /\ executions \in [RunId -> [OpId -> {"none", "once", "again"}]]
    /\ proc \in [Proc -> [pc : {"idle", "preflighted", "verified", "consumed", "created",
                                "running", "accepted", "copy", "replace"},
                          plan : Plan \cup {None}, todo : SUBSET Path, diff : Diffs]]

(* Codex is started at most once for a run identifier, and only for the    *)
(* plan whose grant was consumed, however many processes execute plans     *)
(* that name that run, and whatever was planned again in between.          *)
OneLaunchPerApproval ==
    \A r \in RunId :
      /\ Len(launched[r]) <= 1
      /\ \A p \in ToSet(launched[r]) : consumed[r].plan = p /\ grant[r].plan = p

(* A timed-out recipe may be called again while the container of the first *)
(* call still runs on the same workspace.  A result never stands behind    *)
(* such a session: one container was started for each recipe of the plan,  *)
(* and none of them has outlived its client.                               *)
NoReplayBehindResult ==
    \A r \in RunId : files[r].result = "whole" =>
      /\ worker[r].orphans = {}
      /\ \A op \in {o \in ToSet(Plan0(r).ops) : o.kind \in Recipes} :
           executions[r][op.id] = "once"

(* A result exists only for a session the worker opened under a timely     *)
(* consumption, in which every recipe of the plan ran to its end.          *)
ResultIsEarned ==
    \A r \in RunId : files[r].result = "whole" =>
      /\ consumed[r].whole /\ ~consumed[r].late
      /\ {op.id : op \in {o \in ToSet(Plan0(r).ops) : o.kind \in Recipes}}
           \subseteq worker[r].completed

(* A canonical record that cites a run rests on a strict review: each      *)
(* factual claim of the answer was verified at its source, with the same   *)
(* references.                                                             *)
PromotedIsVerified ==
    \A m \in promoted :
      /\ Plan0(m.run).strict
      /\ \A i \in DOMAIN answer[m.run] :
           LET s == answer[m.run][i] IN
           s.claim.kind \in FactualKinds =>
             /\ "source" \in verified[m.run][i].passed
             /\ verified[m.run][i].refs = s.refs

(* Whatever containers do to the workspace, the program changes a project  *)
(* file only if a patch operation of an approved, consumed plan names it.  *)
OnlyPatchedPathsImported ==
    [][\A path \in Path : project'[path] # project[path] =>
         \/ edits' # edits
         \/ \E r \in RunId : /\ consumed[r] # None
                             /\ planOf[r] = consumed[r].plan
                             /\ path \in PatchPaths(r)]_vars

(* applied.json says of a run that every path of the confirmed report was  *)
(* replaced, also after crashes and with two imports at once.              *)
AppliedIsComplete ==
    \A r \in RunId : files[r].applied = "whole" =>
      recorded[r] \subseteq {i.path : i \in {j \in installed : j.run = r}}

(* What an import writes is what the user confirmed.                       *)
ImportIsAsConfirmed == \A i \in installed : i.content = i.confirmed
=============================================================================
