-------------------------- MODULE GovernancePolicy --------------------------
(***************************************************************************)
(* The pure decisions of governance/: which task packet, decision and      *)
(* operation is acceptable, how a failure policy is resolved and applied,  *)
(* which workflow step is legal, and which reviews leave a claim eligible. *)
(*                                                                         *)
(* A role is a name with a manifest; a path is the sequence of its parts,  *)
(* "/" first when it is absolute; a field that may be missing is a set of  *)
(* at most one value; a SHA-256 is the content itself.  Shapes, texts, the *)
(* prompt packs and the cost of an estimate are left out.                  *)
(***************************************************************************)
EXTENDS Naturals, Sequences, SequencesExt, AgentDisclosure

CONSTANTS
    Governor,  \* the role scope_and_cost_governor
    Critical,  \* the isolated reviewers
    Corrector, \* the role correction_executor
    Roster,    \* every role
    Manifest   \* [Roster -> manifest]: .actions, .forbidden, .modes, .fetches

(* validate_registry: the roster is fixed, reviewers and the governor have *)
(* no write, the correction executor does not verify what it corrected.    *)
(* What it finds is reported, and refuses nothing: the assumption below is *)
(* that it finds nothing, as tests/test_urag_governance.py:88 asks of the  *)
(* registry that is shipped.                                               *)
ValidRegistry ==
    /\ DOMAIN Manifest = Roster
    /\ {Governor, Corrector} \cup Critical \subseteq Roster
    /\ \A role \in Critical \cup {Governor} : Manifest[role].actions \cap WriteActions = {}
    /\ "verify_correction" \notin Manifest[Corrector].actions
    /\ Manifest[Governor].modes = {"lightweight", "benchmark", "final_review"}

ASSUME RegistryAssumption == ValidRegistry /\ Governor \notin Critical
-----------------------------------------------------------------------------
(* Workflow stages.                                                        *)

Preparation == <<"draft", "scope_cost_review", "awaiting_plan_approval", "approved",
                 "retrieval_review">>
Work == <<"authorized_work", "result_available", "analysis_review">>
Evidence == <<"benchmark_precheck">> \o Work \o
            <<"paper_evidence_review", "correction_cycle", "memory_sync">>

ModeStages ==
    [lightweight  |-> Preparation \o Work \o <<"memory_sync", "completed">>,
     benchmark    |-> Preparation \o Evidence \o <<"completed">>,
     final_review |-> Preparation \o Evidence \o
                      <<"critical_review", "user_decision", "completed">>]

ExceptionStates ==
    {"blocked", "inconclusive", "stopped", "approval_expired", "evidence_missing",
     "integrity_failed", "output_invalid", "ledger_corrupt"}

(* transition: the next stage, or an exception from anywhere.              *)
CanMove(mode, current, target) ==
    \/ target \in ExceptionStates
    \/ \E i \in 1..Len(ModeStages[mode]) - 1 :
         ModeStages[mode][i] = current /\ ModeStages[mode][i + 1] = target
-----------------------------------------------------------------------------
(* Failures.                                                               *)

PolicyValues ==
    [stop   |-> {"always", "blocking_only", "current_step"},
     record |-> {"full", "metadata_only", "ask"},
     detail |-> {"full", "redacted", "hashes_only"}]
PolicyFields == DOMAIN PolicyValues
DefaultPolicy == [stop |-> "blocking_only", record |-> "ask", detail |-> "redacted"]
Unset == "unset"

(* Each field comes from the first level that sets it: task, profile,      *)
(* environment, legacy environment, defaults.                              *)
Resolve(levels) == [f \in PolicyFields |->
    LET all == Append(levels, DefaultPolicy)
        first == CHOOSE i \in DOMAIN all :
                    all[i][f] # Unset /\ \A j \in 1..i - 1 : all[j][f] = Unset
    IN  all[first][f]]

(* A value that is not known raises, even where a lower level has one.     *)
Resolvable(levels) == \A f \in PolicyFields : Resolve(levels)[f] \in PolicyValues[f]

CriticalFailures == {"validation_failure", "policy_violation", "evidence_failure"}
ResearchResults == {"scientific_negative_result", "expected_rejection"}
FailureClasses == CriticalFailures \cup ResearchResults \cup
                  {"execution_failure", "user_cancelled"}

(* Classes of the stable error-code prefixes.                              *)
CodeClass ==
    [GOV_APPROVAL |-> "policy_violation", GOV_SCOPE |-> "policy_violation",
     GOV_COST |-> "policy_violation", GOV_OPTIN |-> "policy_violation",
     GOV_OUTPUT |-> "validation_failure", INTEGRITY |-> "validation_failure",
     EVIDENCE |-> "evidence_failure", VALIDATION |-> "validation_failure",
     POLICY |-> "policy_violation", CANCEL |-> "user_cancelled",
     REJECT |-> "expected_rejection", NEGATIVE |-> "scientific_negative_result",
     RATE_LIMIT |-> "execution_failure", NETWORK |-> "execution_failure",
     DEPENDENCY |-> "execution_failure", RESOURCE |-> "execution_failure",
     PROVIDER |-> "execution_failure", EXEC |-> "execution_failure"]

(* A failure is [class, code, blocking]; class is a set of at most one, an *)
(* explicit class wins, and a code without a known prefix says nothing.    *)
FailureClass(failure) ==
    IF failure.class # {} THEN CHOOSE c \in failure.class : TRUE
    ELSE IF failure.code \in DOMAIN CodeClass THEN CodeClass[failure.code]
    ELSE "execution_failure"

Blocking(failure) == failure.blocking \/ FailureClass(failure) \in CriticalFailures

(* Mutant: the policy is asked before the class of the failure.            *)
StopScopeByPolicy(failure, policy) ==
    IF \/ policy.stop = "always"
       \/ policy.stop = "blocking_only" /\ Blocking(failure)
    THEN "workflow" ELSE "current_step"

(* Mutant: where the class does not decide, the policy's word is copied.   *)
StopScopeCopied(failure, policy) ==
    IF FailureClass(failure) \in CriticalFailures \cup {"user_cancelled"} THEN "workflow"
    ELSE IF FailureClass(failure) \in ResearchResults THEN "current_step"
    ELSE policy.stop

(* failure_directive.                                                      *)
StopScope(failure, policy) ==
    IF FailureClass(failure) \in CriticalFailures \cup {"user_cancelled"} THEN "workflow"
    ELSE IF FailureClass(failure) \in ResearchResults THEN "current_step"
    ELSE IF \/ policy.stop = "always"
            \/ policy.stop = "blocking_only" /\ Blocking(failure)
         THEN "workflow" ELSE "current_step"

(* build_failure_record; its text is redacted before anything else.        *)
FailureRecord(failure, policy) ==
    [class  |-> FailureClass(failure),
     stop   |-> StopScope(failure, policy),
     detail |-> IF policy.record # "full" THEN "none"
                ELSE IF policy.detail = "hashes_only" THEN "hash" ELSE "redacted",
     waits  |-> policy.record = "ask"]
-----------------------------------------------------------------------------
(* Reviews.  A decision here is [agent, status, verdict, severities].      *)

StrictClaims == {"publication", "comparative", "causal"}

(* Mutant: a reviewer's last decision is its verdict, stated or not.       *)
VerdictsOfLast(decisions) ==
    {decisions[i].verdict : i \in {i \in DOMAIN decisions :
        \A j \in i + 1..Len(decisions) : decisions[j].agent # decisions[i].agent}}

(* Each reviewer's verdict is that of the last decision that states one.   *)
Verdicts(decisions) ==
    {decisions[i].verdict : i \in {i \in DOMAIN decisions :
        /\ decisions[i].verdict # "none"
        /\ \A j \in i + 1..Len(decisions) :
             decisions[j].agent = decisions[i].agent => decisions[j].verdict = "none"}}

BlockedByReview(decisions, claim) ==
    \E i \in DOMAIN decisions :
      \/ decisions[i].status \in {"blocked", "inconclusive"}
      \/ "critical" \in decisions[i].severities
      \/ "high" \in decisions[i].severities /\ claim \in StrictClaims

Conflict(decisions) == {"reject_claim", "no_material_objection_found"} \subseteq Verdicts(decisions)

(* evaluate_gate.                                                          *)
GateEligible(decisions, claim) ==
    ~ BlockedByReview(decisions, claim) /\ ~ Conflict(decisions)
-----------------------------------------------------------------------------
(* Task packets.                                                           *)

(* What the scope hash binds: not the agent, the approvals or the expiry.  *)
ScopeMaterial(p) ==
    [f \in {"paths", "sources", "actions", "forbidden", "caps", "providers", "network",
            "model", "benchmark", "background", "parallel", "cost", "maxCost",
            "evidence", "snapshot", "disclosure", "policy", "plans", "optIns"} |-> p[f]]

HostVisualization == "host_visualization"
KnownCapabilities == {HostVisualization, "data_plot_generation"}

(* validate_task_packet.                                                   *)
ValidPacket(p, now) ==
    /\ p.agent \in Roster
    /\ p.mode \in Manifest[p.agent].modes
    /\ p.parallel >= 1
    /\ p.caps \subseteq KnownCapabilities
    /\ p.cost <= p.maxCost
    /\ p.actions \subseteq Manifest[p.agent].actions
    /\ Manifest[p.agent].forbidden \subseteq p.forbidden
    /\ Manifest[p.agent].fetches => p.evidence # {}
    /\ p.scopeHash = ScopeMaterial(p)
    /\ p.actions \cap WriteActions # {} => p.refs # {}
    /\ HostVisualization \in p.caps => HostVisualization \in p.optIns
    /\ \A f \in PolicyFields : p.policy[f] \in PolicyValues[f]
    /\ \A expires \in p.expires : expires > now

(* A decision is bound to the packet it answers; sound says that findings  *)
(* cite evidence and no command was run.                                   *)
ValidDecision(d, p) ==
    /\ d.packet = p
    /\ d.sound
    /\ d.used \subseteq p.actions
    /\ p.agent \in Critical => d.used \cap WriteActions = {}

(* validate_scope_governor_decision for a decision that passes: in scope,  *)
(* nothing required is left over, no choice is open.                       *)
PassingGovernance(d, p) ==
    /\ ValidDecision(d, p)
    /\ d.status = "pass"
    /\ d.necessity # "out_of_scope"
    /\ d.verdict = "within_approved_scope"
    /\ d.additional \notin {"required", "out_of_scope"}
    /\ ~ d.choice
-----------------------------------------------------------------------------
(* Operations.                                                             *)

NoPlanActions ==
    {"research_search", "research_fetch", "inspect_artifact", "emit_finding",
     "emit_decision", "assess_plan_necessity", "estimate_operation",
     "validate_operation_scope"}
InHouse == {"local", "host", "none"}

(* Mutant: ".." is followed like a name.                                   *)
PathIsWithinText(path, root) ==
    "/" \notin Range(path) \cup Range(root) /\ IsPrefix(root, path)

(* _path_is_within compares the text of two relative paths.                *)
PathIsWithin(path, root) ==
    /\ {"/", ".."} \cap (Range(path) \cup Range(root)) = {}
    /\ IsPrefix(root, path)

Necessity(op) ==
    IF op.necessity # {} THEN op.necessity
    ELSE IF op.outOfScope THEN {"out_of_scope"}
    ELSE IF op.goal THEN {"required"}
    ELSE IF op.benefit THEN {"useful_but_not_required"} ELSE {"optional"}

(* assess_plan_necessity: some reason asks for a recorded plan.            *)
PlanRequired(op) ==
    \/ op.action \notin NoPlanActions
    \/ op.writes \/ op.network \/ op.background
    \/ op.parallel > 1
    \/ op.provider \ InHouse # {}
    \/ \E cost \in op.cost : cost > 0
    \/ HostVisualization \in op.caps
    \/ Necessity(op) = {"out_of_scope"}

(* validate_operation_scope.                                               *)
WithinScope(op, p) ==
    /\ op.action \in {"inspect_artifact", "research_fetch"} \cup WriteActions => op.paths # {}
    /\ op.action \in p.actions \ p.forbidden
    /\ op.writes <=> op.action \in WriteActions
    /\ p.scopeHash = ScopeMaterial(p)
    /\ op.scopeHash = {p.scopeHash}
    /\ \A path \in op.paths : \E root \in p.paths : PathIsWithin(path, root)
    /\ op.sources \subseteq p.sources
    /\ op.provider \subseteq p.providers
    /\ \A cost \in op.cost : cost <= p.maxCost
    /\ op.network => p.network
    /\ op.model => p.model
    /\ op.benchmark => p.benchmark
    /\ op.background => p.background
    /\ op.parallel \in 1..p.parallel
    /\ op.caps \subseteq p.caps
    /\ HostVisualization \in op.caps => HostVisualization \in p.optIns
    /\ Necessity(op) # {"out_of_scope"}
    /\ op.network \/ op.model => op.provider # {} /\ op.cost # {}
    /\ PlanRequired(op) => p.plans # {}

(* operation_gate.                                                         *)
PreflightPasses(op, p, now) == ValidPacket(p, now) /\ WithinScope(op, p)
-----------------------------------------------------------------------------
(* Batches.                                                                *)

(* Mutant: the reviewers may have been given different snapshots.          *)
CriticalBatchAnySnapshot(packets) ==
    /\ {p.agent : p \in packets} = Critical
    /\ Cardinality(packets) = Cardinality(Critical)
    /\ \A p, q \in packets : p.workflow = q.workflow

(* validate_critical_review_batch: every reviewer once, one snapshot, one  *)
(* workflow.  A packet without a snapshot counts as having the text None.  *)
CriticalBatch(packets) ==
    /\ {p.agent : p \in packets} = Critical
    /\ Cardinality(packets) = Cardinality(Critical)
    /\ \A p, q \in packets : p.snapshot = q.snapshot /\ p.workflow = q.workflow

(* preflight_parallel_batch, with the declared costs of the packets.       *)
ParallelBatch(packets, workers, ceiling, now) ==
    LET working == {p \in packets : p.agent # Governor}
        critical == {p \in working : p.agent \in Critical}
    IN  /\ workers >= 1
        /\ Cardinality({p \in packets : p.agent = Governor}) = 1
        /\ Cardinality({p.agent : p \in packets}) = Cardinality(packets)
        /\ \A p \in packets : ValidPacket(p, now)
        /\ critical # {} => critical = working /\ CriticalBatch(critical)
        /\ \A p \in working : workers <= p.parallel
        /\ FoldSet(LAMBDA p, sum : p.cost + sum, 0, packets) <= ceiling
=============================================================================
