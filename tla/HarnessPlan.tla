----------------------------- MODULE HarnessPlan -----------------------------
(***************************************************************************)
(* The pure contracts of the secure harness (secure_harness/): which run   *)
(* plan may be sealed, what a snapshot and a test contract bind, what the  *)
(* receipts of a Codex stream must show, and which claims a review lets    *)
(* through.                                                                *)
(*                                                                         *)
(* A path is a number in the order of its name and a file's content is a   *)
(* number, 0 for an absent file; a SHA-256 is the content itself.  The     *)
(* paths of an operation are the files it covers: a directory a plan names *)
(* stands for every file it may hold.  Shapes, identifiers and text limits *)
(* are data checking and left out.                                         *)
(***************************************************************************)
EXTENDS Naturals, Sequences, SequencesExt, AgentDisclosure

Absent == 0
Recipes == {"test", "build", "experiment"}
Kinds == Recipes \cup {"read", "search", "patch"}
PromotionModes == {"benchmark", "final_review"}

(* One worker operation.  command is "none", "exact", or "shell" for a     *)
(* shell, a container front end or inline interpreter source.              *)
ValidOperation(op) ==
    /\ op.kind \in Kinds
    /\ op.paths # {}
    /\ op.command = IF op.kind \in Recipes THEN "exact" ELSE "none"
    /\ ~op.network
    /\ op.gpu => op.kind = "experiment"

ValidResources(r) == r.tokens \in 1..10000000 /\ r.parallelism \in 1..16

OperationPaths(ops) == UNION {op.paths : op \in ToSet(ops)}
OperationIds(ops) == {op.id : op \in ToSet(ops)}

(* The same path set the disclosure has to state for the worker; a recipe  *)
(* writes as much as a patch does.                                         *)
OperationScope(ops) ==
    [paths   |-> OperationPaths(ops),
     network |-> FALSE,
     writes  |-> \E op \in ToSet(ops) : op.kind \in Recipes \cup {"patch"}]

(* Mutant: files that do not exist yet are left out of the manifest.       *)
ManifestOfPresent(project, paths) ==
    [path \in {p \in paths : project[p] # Absent} |-> project[path]]

(* The files a plan reads, as they are now; an absent one is recorded so.  *)
Manifest(project, paths) == [path \in paths |-> project[path]]

(* A check of a source file (symbol, literal, assignment, JSONL key) holds *)
(* in some of its contents.                                                *)
CheckHolds(check, payload) == payload # Absent /\ payload \in check.holds

TestOperations(ops) == {op \in ToSet(ops) : op.kind = "test"}
ContractPaths(c) == {k.path : k \in c.checks}

(* Each test operation has exactly one contract, whose checks read only    *)
(* paths of that operation.                                                *)
ContractsMatch(contracts, ops) ==
    /\ {c.op : c \in contracts} = {op.id : op \in TestOperations(ops)}
    /\ \A c, d \in contracts : c.op = d.op => c = d
    /\ \A c \in contracts, op \in TestOperations(ops) :
         op.id = c.op => ContractPaths(c) \subseteq op.paths

(* Sealing evaluates every check and binds the sources it read.            *)
Sealable(project, contracts, ops) ==
    /\ ContractsMatch(contracts, ops)
    /\ \A c \in contracts :
         c.checks # {} /\ \A k \in c.checks : CheckHolds(k, project[k.path])

SealContracts(project, contracts) ==
    {[op |-> c.op, checks |-> c.checks, sources |-> Manifest(project, ContractPaths(c))] :
        c \in contracts}

(* A sealed contract binds exactly the files its checks read.              *)
ValidContracts(contracts, ops) ==
    /\ \A c \in contracts : c.checks # {} /\ DOMAIN c.sources = ContractPaths(c)
    /\ ContractsMatch(contracts, ops)

VerifyContracts(project, contracts, ops) ==
    /\ ValidContracts(contracts, ops)
    /\ \A c \in contracts :
         /\ \A path \in DOMAIN c.sources : project[path] = c.sources[path]
         /\ \A k \in c.checks : CheckHolds(k, project[k.path])

(* validate_run_plan: every reader of a plan repeats it.                   *)
ValidPlan(plan) ==
    /\ plan.mode \in PromotionModes => plan.strict
    /\ plan.ops # <<>>
    /\ \A op \in ToSet(plan.ops) : ValidOperation(op)
    /\ Cardinality(OperationIds(plan.ops)) = Len(plan.ops)
    /\ ValidContracts(plan.contracts, plan.ops)
    /\ ValidDisclosure(plan.disclosure, 1)
    /\ Discloses(plan.disclosure, OperationScope(plan.ops))
    /\ ValidResources(plan.resources)
    /\ plan.created < plan.expires
-----------------------------------------------------------------------------
(* The tool calls of a Codex stream.                                       *)

ToolOf(kind) ==
    CASE kind = "read" -> "worker_read"
      [] kind = "search" -> "worker_search"
      [] kind = "patch" -> "worker_write"
      [] kind \in Recipes -> "worker_execute"

(* The sealed operation a call, [tool, op, paths], belongs to, if any.     *)
OperationForCall(call, plan) ==
    {op \in ToSet(plan.ops) : op.id = call.op /\ call.tool = ToolOf(op.kind)}

(* Any file below a directory that the operation names is authorized;      *)
(* op.paths already holds them one by one.                                 *)
AuthorizedPaths(op, paths) == paths \subseteq op.paths

(* A call that succeeded becomes a receipt if it stays within its sealed   *)
(* operation; inventory names no operation.                                *)
Receipted(call, plan) ==
    \/ call.tool = "worker_inventory"
    \/ \E op \in OperationForCall(call, plan) : AuthorizedPaths(op, call.paths)

(* A recipe counts as done whatever its exit code.                         *)
Observed(calls) == {call.op : call \in {c \in calls : c.tool # "worker_inventory"}}

(* Mutant: a call that failed and was then repeated is forgiven.           *)
StreamCompleteDespiteFailure(calls, failed, plan) ==
    /\ calls # {}
    /\ \A call \in calls : Receipted(call, plan)
    /\ Observed(calls) = OperationIds(plan.ops)

(* The stream is acceptable: no call failed, each has its receipt, and no  *)
(* sealed operation is without one.                                        *)
StreamComplete(calls, failed, plan) ==
    /\ calls # {}
    /\ ~failed
    /\ \A call \in calls : Receipted(call, plan)
    /\ Observed(calls) = OperationIds(plan.ops)
-----------------------------------------------------------------------------
(* Claims of the final answer.                                             *)

FactualKinds == {"factual", "result"}
ClaimKinds == FactualKinds \cup {"creative", "interpretation", "recommendation"}
ClaimFlags == {"final", "external", "numerical", "citation",
               "benchmark", "causal", "canonical", "conflicting"}
Claim == [kind : ClaimKinds, flags : SUBSET ClaimFlags]

BaseLevel(claim) ==
    IF claim.flags \cap {"benchmark", "causal", "canonical", "conflicting"} # {} THEN 3
    ELSE IF /\ "final" \in claim.flags
            /\ \/ claim.kind \in FactualKinds
               \/ claim.flags \cap {"external", "numerical", "citation"} # {} THEN 2
    ELSE IF claim.kind \in FactualKinds \/ "external" \in claim.flags THEN 1
    ELSE 0

(* classify_claim: L0 to L3; strict verification knows no L1.              *)
Level(claim, strict) ==
    IF strict /\ BaseLevel(claim) = 1 THEN 2 ELSE BaseLevel(claim)

(* What a receipt of the verification must say for each level.             *)
Required(level) ==
    CASE level = 0 -> {}
      [] level = 1 -> {"retrieval"}
      [] level = 2 -> {"source"}
      [] level = 3 -> {"source", "independent"}

(* receipt is [passed, refs], or [passed |-> {}, refs |-> {}] for none.    *)
NoReceipt == [given |-> FALSE, passed |-> {}, refs |-> {}]

EligibleSegment(segment, strict, receipt) ==
    /\ Level(segment.claim, strict) # 0 =>
         /\ receipt.given
         /\ segment.refs # {}
         /\ Required(Level(segment.claim, strict)) \subseteq receipt.passed
    /\ receipt.given => receipt.refs = segment.refs

(* evaluate_segments: the answer passes if no segment is blocked.          *)
ReviewPasses(segments, strict, receipts) ==
    /\ segments # <<>>
    /\ \A i \in DOMAIN segments : EligibleSegment(segments[i], strict, receipts[i])
=============================================================================
