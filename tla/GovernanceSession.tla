------------------------- MODULE GovernanceSession --------------------------
(***************************************************************************)
(* What a caller does with the governance server and the Codex adapter     *)
(* (governance/, integrations/codex/adapter.py) and with the agent         *)
(* approval store (runtime/agent_approval.py).                             *)
(*                                                                         *)
(* The server keeps nothing: packets, decisions, receipts and manifests    *)
(* are documents on the caller's desk, and may be edited there between two *)
(* calls.  A document carries the hash of its body, here the body itself,  *)
(* in .seal.  No document is signed: a receipt edited with its hash        *)
(* computed anew is accepted like any other, and governs whatever it says  *)
(* (docs/multi-agent-governance.md:63).  Only the manifest's hash is kept  *)
(* elsewhere, by the host; and the manifest names the receipt's hash, by   *)
(* which a receipt the server issued is told from one it did not.          *)
(*                                                                         *)
(* Decisions about dispatches, operations, approvals, workflow, reviews    *)
(* and failures do not influence each other, so a behaviour is about one   *)
(* matter.                                                                 *)
(***************************************************************************)
EXTENDS GovernancePolicy

CONSTANTS
    Slot,        \* places on the desk for task packets
    Packet0,     \* [Slot -> packet]: the packets as first written
    Widened,     \* paths an edit adds
    Later,       \* a later evidence snapshot
    DecisionOf,  \* decisions a governor may return, without their packet
    Operation,   \* operations asked about, without their scope hash
    Binding,     \* what an approval may bind: plan, configuration, estimate, request
    RefOf,       \* [Binding -> approval reference]
    Runner,      \* processes that consume an approval
    Review,      \* decisions of reviewers
    Failure,     \* failures
    Level,       \* failure policies of a task, a profile or an environment
    MaxEdit,     \* bound: edits of documents
    MaxReview,   \* bound: decisions in one review
    MaxException,\* bound: exceptions a workflow meets
    Ceiling,     \* cost ceilings of a batch
    None         \* no document

ASSUME SessionConstants ==
    /\ {MaxEdit, MaxReview, MaxException} \subseteq Nat
    /\ Packet0 = [s \in Slot |-> Packet0[s]]
    /\ \A s \in Slot : {"agent", "paths"} \subseteq DOMAIN Packet0[s] /\ Packet0[s].agent \in Roster
    /\ \A op \in Operation : "paths" \in DOMAIN op
    /\ \A path \in Widened \cup UNION {x.paths : x \in Range(Packet0) \cup Operation} :
         path \in Seq(Range(path))
    /\ \A failure \in Failure : failure.class \subseteq FailureClasses
    /\ DOMAIN RefOf = Binding
    /\ None \notin Binding

VARIABLES
    matter,    \* what this behaviour is about
    now,       \* 0, or 1 when everything that expires has expired
    desk,      \* the task packets
    decision,  \* the governor's decision on the desk, if any
    receipt,   \* the scope governor receipt on the desk
    manifest,  \* the dispatch manifest on the desk
    pinned,    \* hash of the manifest as built, kept by the host
    edits,     \* edits so far
    handed,    \* history: manifests serialized for the host
    reviewed,  \* history: the receipts issued, for which packets, and why
    rewritten, \* history: hashes of receipts computed anew after an edit
    passed,    \* the operation or the batch that last passed preflight
    grant,     \* approval grant files
    marker,    \* consumption files
    runner,    \* processes between reading the grant and writing the marker
    granted,   \* history: bindings the user approved
    started,   \* history: bindings whose consumption was reported, per reference
    stages,    \* history and last element: the stages of a workflow
    reviews,   \* the decisions of reviewers so far
    failed     \* the last failure with its policies and its record

documents == <<desk, decision, receipt, manifest, pinned, edits, handed, reviewed,
               rewritten>>
approvals == <<grant, marker, runner, granted, started>>
vars == <<matter, now, documents, passed, approvals, stages, reviews, failed>>

Matters == {"dispatch", "operation", "approval", "workflow", "review", "failure"}
Ref == {RefOf[b] : b \in Binding}
Mode == DOMAIN ModeStages

Init ==
    /\ matter \in Matters
    /\ now = 0
    /\ desk = Packet0
    /\ decision = None /\ receipt = None /\ manifest = None /\ pinned = None
    /\ edits = 0
    /\ handed = {} /\ reviewed = {} /\ rewritten = {} /\ passed = None
    /\ grant = [r \in Ref |-> None]
    /\ marker = [r \in Ref |-> "absent"]
    /\ runner = [e \in Runner |-> None]
    /\ granted = {}
    /\ started = [r \in Ref |-> <<>>]
    /\ stages \in IF matter = "workflow"
                  THEN {[mode |-> m, path |-> <<"draft">>] : m \in Mode}
                  ELSE {[mode |-> "lightweight", path |-> <<"draft">>]}
    /\ reviews = <<>>
    /\ failed = None

Seal(body) == [body |-> body, seal |-> body]
Intact(doc) == doc.seal = doc.body
Edit == edits < MaxEdit /\ edits' = edits + 1

Tick ==
    /\ matter \in {"dispatch", "operation", "approval"}
    /\ now = 0
    /\ now' = 1
    /\ UNCHANGED <<matter, documents, passed, approvals, stages, reviews, failed>>

(* An edit widens the paths of a packet, with or without a new scope hash, *)
(* takes a later evidence snapshot, or puts the expiry off, which the      *)
(* scope hash does not bind.                                               *)
EditPacket(s) ==
    /\ matter \in {"dispatch", "operation"}
    /\ Edit
    /\ \/ desk' = [desk EXCEPT ![s].paths = @ \cup Widened]
       \/ \E p \in {[desk[s] EXCEPT !.paths = @ \cup Widened],
                    [desk[s] EXCEPT !.snapshot = Later]} :
            desk' = [desk EXCEPT ![s] = [p EXCEPT !.scopeHash = ScopeMaterial(p)]]
       \/ desk' = [desk EXCEPT ![s].expires = {}]
    /\ UNCHANGED <<matter, now, decision, receipt, manifest, pinned, handed, reviewed,
                   rewritten, passed, approvals, stages, reviews, failed>>
-----------------------------------------------------------------------------
(* Receipts of the scope and cost governor.                                *)

(* The governor answers the packet as it is now.                           *)
Decide(s, d) ==
    /\ matter = "dispatch"
    /\ decision = None
    /\ desk[s].agent = Governor
    /\ decision' = d @@ [packet |-> desk[s]]
    /\ UNCHANGED <<matter, now, desk, receipt, manifest, pinned, edits, handed, reviewed,
                   rewritten, passed, approvals, stages, reviews, failed>>

(* build_scope_governor_receipt.                                           *)
MakeReceipt(s, slots) ==
    LET packets == {desk[t] : t \in slots}
    IN  /\ matter = "dispatch"
        /\ receipt = None
        /\ decision # None
        /\ desk[s].agent = Governor
        /\ ValidPacket(desk[s], now)
        /\ PassingGovernance(decision, desk[s])
        /\ packets # {}
        /\ \A p \in packets :
             /\ ValidPacket(p, now)
             /\ p.run = desk[s].run /\ p.workflow = desk[s].workflow
             /\ p.agent # Governor
        /\ LET body == [run |-> desk[s].run, workflow |-> desk[s].workflow,
                        governor |-> desk[s], decision |-> decision, governed |-> packets]
           IN  /\ receipt' = Seal(body)
               /\ reviewed' = reviewed \cup
                    {[packets |-> packets, governor |-> desk[s], decision |-> decision,
                      at |-> now, receipt |-> body]}
        /\ UNCHANGED <<matter, now, desk, decision, manifest, pinned, edits, handed,
                       rewritten, passed, approvals, stages, reviews, failed>>

(* A packet is added to a receipt by hand; its hash is left as it was, or  *)
(* computed anew.                                                          *)
EditReceipt(s, again) ==
    LET edited == [receipt.body EXCEPT !.governed = @ \cup {desk[s]}]
    IN  /\ matter = "dispatch"
        /\ receipt # None
        /\ desk[s] \notin receipt.body.governed
        /\ Edit
        /\ receipt' = [body |-> edited, seal |-> IF again THEN edited ELSE receipt.seal]
        /\ rewritten' = IF again THEN rewritten \cup {edited} ELSE rewritten
        /\ UNCHANGED <<matter, now, desk, decision, manifest, pinned, handed, reviewed,
                       passed, approvals, stages, reviews, failed>>

(* Mutant: the hash of the receipt is not compared with its contents.      *)
CoveredUnsealed(p, doc) ==
    \/ p.agent = Governor
    \/ /\ doc # None
       /\ doc.body.run = p.run /\ doc.body.workflow = p.workflow
       /\ p \in doc.body.governed

(* validate_scope_governor_receipt: a receipt that fits its own hash and   *)
(* names exactly this packet; the governor itself needs none.              *)
Covered(p, doc) ==
    \/ p.agent = Governor
    \/ /\ doc # None
       /\ Intact(doc)
       /\ doc.body.run = p.run /\ doc.body.workflow = p.workflow
       /\ p \in doc.body.governed
-----------------------------------------------------------------------------
(* Dispatch manifests.                                                     *)

(* _render_dispatch: what the host will be told, the packet's hash, and    *)
(* the hash the receipt carries.                                           *)
Dispatch(p, doc) ==
    [kind |-> "single", packet |-> p, actions |-> p.actions, refs |-> p.refs,
     optIns |-> p.optIns, disclosure |-> p.disclosure,
     receipt |-> IF doc = None THEN None ELSE doc.seal,
     isolated |-> p.agent \in Critical]

(* _build_dispatch_request, after the batch of the packet was looked at.   *)
MayDispatch(p) == ValidPacket(p, now) /\ Covered(p, receipt)

Publish(body) ==
    /\ manifest' = Seal(body)
    /\ pinned' = body
    /\ UNCHANGED <<matter, now, desk, decision, receipt, edits, handed, reviewed,
                   rewritten, passed, approvals, stages, reviews, failed>>

(* build_dispatch_request.                                                 *)
BuildDispatch(s) ==
    /\ matter = "dispatch"
    /\ manifest = None
    /\ PacketsDisclosed({desk[s]}, 1)
    /\ MayDispatch(desk[s])
    /\ Publish(Dispatch(desk[s], receipt))

(* build_batch_member_dispatch_request: the whole batch once more.         *)
BuildMember(s, slots) ==
    LET packets == {desk[t] : t \in slots}
    IN  /\ matter = "dispatch"
        /\ manifest = None
        /\ s \in slots
        /\ Cardinality(packets) = Cardinality(slots)
        /\ \A p \in packets : ValidPacket(p, now)
        /\ PacketsDisclosed(packets, Cardinality(packets))
        /\ MayDispatch(desk[s])
        /\ Publish(Dispatch(desk[s], receipt))

(* build_critical_review_batch: all reviewers or none.                     *)
BuildCritical(slots) ==
    LET packets == {desk[t] : t \in slots}
    IN  /\ matter = "dispatch"
        /\ manifest = None
        /\ Cardinality(packets) = Cardinality(slots)
        /\ CriticalBatch(packets)
        /\ PacketsDisclosed(packets, Cardinality(Critical))
        /\ \A p \in packets : MayDispatch(p)
        /\ Publish([kind |-> "critical",
                    workflow |-> (CHOOSE p \in packets : TRUE).workflow,
                    snapshot |-> (CHOOSE p \in packets : TRUE).snapshot,
                    requests |-> {Dispatch(p, receipt) : p \in packets}])

(* The manifest is edited on the desk: a dispatch is given more actions,   *)
(* a batch loses a reviewer; its hash may be computed anew.                *)
EditManifest(again) ==
    /\ matter = "dispatch"
    /\ manifest # None
    /\ Edit
    /\ LET body == manifest.body
           edited ==
             IF body.kind = "single"
             THEN {[body EXCEPT !.actions = @ \cup {a}] : a \in WriteActions}
             ELSE {[body EXCEPT !.requests = @ \ {q}] : q \in body.requests}
       IN  \E b \in edited :
             manifest' = [body |-> b, seal |-> IF again THEN b ELSE manifest.seal]
    /\ UNCHANGED <<matter, now, desk, decision, receipt, pinned, handed, reviewed,
                   rewritten, passed, approvals, stages, reviews, failed>>

(* _validate_single_dispatch: what it says fits the role; that its packet  *)
(* has not expired since is not asked.                                     *)
SoundDispatch(body) ==
    /\ body.refs # {}
    /\ "agent_creation" \in body.optIns
    /\ body.packet.agent \in Roster
    /\ body.actions \subseteq Manifest[body.packet.agent].actions
    /\ Manifest[body.packet.agent].forbidden \subseteq body.packet.forbidden
    /\ body.isolated = (body.packet.agent \in Critical)

SoundManifest(body) ==
    IF body.kind = "single" THEN SoundDispatch(body)
    ELSE /\ \A q \in body.requests : SoundDispatch(q) /\ q.packet.workflow = body.workflow
         /\ {q.packet.agent : q \in body.requests} = Critical
         /\ {q.packet.snapshot : q \in body.requests} = {body.snapshot}

(* validate_dispatch_manifest: the hash the host kept, not the one inside. *)
ManifestAccepted(doc) == Intact(doc) /\ doc.seal = pinned /\ SoundManifest(doc.body)

(* serialize_dispatch_manifest.                                            *)
HandOver ==
    /\ matter = "dispatch"
    /\ manifest # None
    /\ ManifestAccepted(manifest)
    /\ handed' = handed \cup {manifest.body}
    /\ manifest' = None /\ pinned' = None
    /\ UNCHANGED <<matter, now, desk, decision, receipt, edits, reviewed, rewritten,
                   passed, approvals, stages, reviews, failed>>
-----------------------------------------------------------------------------
(* Preflight of operations and of parallel batches.                        *)

(* operation_gate; the caller copies the scope hash it was given.          *)
Preflight(s, operation) ==
    LET op == [f \in DOMAIN operation \cup {"scopeHash"} |->
                 IF f = "scopeHash" THEN {desk[s].scopeHash} ELSE operation[f]]
    IN  /\ matter = "operation"
        /\ PreflightPasses(op, desk[s], now)
        /\ passed' = [op |-> op, packet |-> desk[s], at |-> now]
        /\ UNCHANGED <<matter, now, documents, approvals, stages, reviews, failed>>

PreflightBatch(slots, workers, ceiling) ==
    LET packets == {desk[t] : t \in slots}
    IN  /\ matter = "operation"
        /\ Cardinality(packets) = Cardinality(slots)
        /\ ParallelBatch(packets, workers, ceiling, now)
        /\ passed' = [batch |-> packets, ceiling |-> ceiling]
        /\ UNCHANGED <<matter, now, documents, approvals, stages, reviews, failed>>
-----------------------------------------------------------------------------
(* One-time approvals of agent runs: files created with O_EXCL.            *)

(* AgentApprovalStore.create, by the user; the writer may stop in the      *)
(* middle, which leaves a file nobody can read or replace.                 *)
GrantAgents(b) ==
    /\ matter = "approval"
    /\ now = 0
    /\ grant[RefOf[b]] = None
    /\ \E whole \in BOOLEAN :
         grant' = [grant EXCEPT ![RefOf[b]] = [binding |-> b, whole |-> whole]]
    /\ granted' = granted \cup {b}
    /\ UNCHANGED <<matter, now, documents, passed, marker, runner, started, stages,
                   reviews, failed>>

(* Mutant: the grant is found by its reference.                            *)
GrantFitsRef(b) == grant[RefOf[b]] # None /\ grant[RefOf[b]].whole

(* consume compares every field of the binding.                            *)
GrantFits(b) ==
    /\ grant[RefOf[b]] # None
    /\ grant[RefOf[b]].whole
    /\ grant[RefOf[b]].binding = b

(* AgentApprovalStore.consume up to the expiry check; every packet names   *)
(* the reference.                                                          *)
BeginConsume(e, b, packets) ==
    /\ matter = "approval"
    /\ runner[e] = None
    /\ \A p \in packets : RefOf[b] \in p.refs
    /\ GrantFits(b)
    /\ now = 0
    /\ runner' = [runner EXCEPT ![e] = b]
    /\ UNCHANGED <<matter, now, documents, passed, grant, marker, granted, started,
                   stages, reviews, failed>>

(* The marker is created, or its writer stops in the middle; a marker that *)
(* exists, in whatever state, refuses.                                     *)
Consume(e) ==
    LET b == runner[e]
    IN  /\ b # None
        /\ runner' = [runner EXCEPT ![e] = None]
        /\ \/ /\ marker[RefOf[b]] = "absent"
              /\ marker' = [marker EXCEPT ![RefOf[b]] = "whole"]
              /\ started' = [started EXCEPT ![RefOf[b]] = Append(@, b)]
           \/ /\ marker[RefOf[b]] = "absent"
              /\ marker' = [marker EXCEPT ![RefOf[b]] = "torn"]
              /\ UNCHANGED started
           \/ /\ marker[RefOf[b]] # "absent"
              /\ UNCHANGED <<marker, started>>
        /\ UNCHANGED <<matter, now, documents, passed, grant, granted, stages, reviews,
                       failed>>
-----------------------------------------------------------------------------
(* Workflow, reviews, failures.                                            *)

Transition(target) ==
    /\ matter = "workflow"
    /\ CanMove(stages.mode, Last(stages.path), target)
    /\ target \in ExceptionStates =>
         Cardinality({i \in DOMAIN stages.path : stages.path[i] \in ExceptionStates})
           < MaxException
    /\ stages' = [stages EXCEPT !.path = Append(@, target)]
    /\ UNCHANGED <<matter, now, documents, passed, approvals, reviews, failed>>

AddReview(d) ==
    /\ matter = "review"
    /\ Len(reviews) < MaxReview
    /\ reviews' = Append(reviews, d)
    /\ UNCHANGED <<matter, now, documents, passed, approvals, stages, failed>>

(* governance_prepare_failure_record: the policy of task and profile, then *)
(* of the two sets of environment variables.                               *)
Fail(failure, levels) ==
    /\ matter = "failure"
    /\ failed = None
    /\ Resolvable(levels)
    /\ failed' = [failure |-> failure, levels |-> levels,
                  record |-> FailureRecord(failure, Resolve(levels))]
    /\ UNCHANGED <<matter, now, documents, passed, approvals, stages, reviews>>
-----------------------------------------------------------------------------
Next ==
    \/ Tick
    \/ \E s \in Slot :
         \/ EditPacket(s) \/ BuildDispatch(s)
         \/ \E again \in BOOLEAN : EditReceipt(s, again)
         \/ \E d \in DecisionOf : Decide(s, d)
         \/ \E slots \in SUBSET Slot : MakeReceipt(s, slots) \/ BuildMember(s, slots)
         \/ \E op \in Operation : Preflight(s, op)
    \/ \E slots \in SUBSET Slot :
         \/ BuildCritical(slots)
         \/ \E workers \in 1..2, ceiling \in Ceiling : PreflightBatch(slots, workers, ceiling)
    \/ \E again \in BOOLEAN : EditManifest(again)
    \/ HandOver
    \/ \E b \in Binding :
         \/ GrantAgents(b)
         \/ \E e \in Runner, slots \in SUBSET Slot :
              BeginConsume(e, b, {desk[s] : s \in slots})
    \/ \E e \in Runner : Consume(e)
    \/ \E target \in ExceptionStates \cup Range(ModeStages[stages.mode]) : Transition(target)
    \/ \E d \in Review : AddReview(d)
    \/ \E failure \in Failure, levels \in [1..4 -> Level] : Fail(failure, levels)

Spec == Init /\ [][Next]_vars
-----------------------------------------------------------------------------
Requests(body) == IF body.kind = "single" THEN {body} ELSE body.requests
FailureRecords ==
    [class : FailureClasses, stop : {"workflow", "current_step"},
     detail : {"none", "hash", "redacted"}, waits : BOOLEAN]

(* Every variable has its type; of a document, that it has a body and a    *)
(* hash.                                                                   *)
TypeOK ==
    /\ matter \in Matters
    /\ now \in 0..1
    /\ DOMAIN desk = Slot
    /\ \A s \in Slot : desk[s].agent \in Roster
    /\ \A doc \in {receipt, manifest} : doc # None => DOMAIN doc = {"body", "seal"}
    /\ edits \in 0..MaxEdit
    /\ \A r \in Ref : grant[r] # None => grant[r] \in [binding : Binding, whole : BOOLEAN]
    /\ marker \in [Ref -> {"absent", "torn", "whole"}]
    /\ runner \in [Runner -> Binding \cup {None}]
    /\ granted \subseteq Binding
    /\ started \in [Ref -> Seq(Binding)]
    /\ stages.mode \in Mode
    /\ \A i \in DOMAIN stages.path :
         stages.path[i] \in ExceptionStates \cup Range(ModeStages[stages.mode])
    /\ reviews \in Seq(Review)
    /\ failed # None => failed.record \in FailureRecords

(* A governor of the same run passed without an open choice, on the very   *)
(* packet it had been given, for this packet, to the last field, before it *)
(* expired.                                                                *)
Governs(review, p) ==
    /\ p \in review.packets
    /\ review.governor.run = p.run /\ review.governor.workflow = p.workflow
    /\ review.decision.packet = review.governor
    /\ review.decision.status = "pass" /\ ~ review.decision.choice
    /\ \A expires \in p.expires : review.at < expires

(* Each request the host is handed carries the actions of its packet and   *)
(* no more, and names the hash of a receipt.  That hash is one the server  *)
(* issued or somebody computed anew by hand; and when it is one the server *)
(* issued, the governor's review behind it governs this very packet,       *)
(* whatever was edited on the way.                                         *)
IssuedReceiptGoverns ==
    \A doc \in handed : \A q \in Requests(doc) :
      /\ q.actions = q.packet.actions
      /\ q.packet.scopeHash = ScopeMaterial(q.packet)
      /\ q.packet.agent # Governor =>
           /\ q.receipt \in rewritten \cup {r.receipt : r \in reviewed}
           /\ \A r \in reviewed : r.receipt = q.receipt => Governs(r, q.packet)

(* Reviewers handed over or preflighted as a batch are all the reviewers,  *)
(* with no worker, on one snapshot, and none may write.  A single request  *)
(* may hand one reviewer over alone: in its own context, and unable to     *)
(* write as well.                                                          *)
ReviewersAreIsolated ==
    LET Together(packets) ==
          /\ {p.agent : p \in packets} = Critical
          /\ Cardinality({p.snapshot : p \in packets}) = 1
          /\ \A p \in packets : p.actions \cap WriteActions = {}
    IN  /\ \A doc \in handed : doc.kind = "critical" =>
             Together({q.packet : q \in doc.requests})
        /\ \A doc \in handed : \A q \in Requests(doc) :
             q.packet.agent \in Critical =>
               q.isolated /\ q.actions \cap WriteActions = {}
        /\ passed # None /\ "batch" \in DOMAIN passed =>
             LET workers == {p \in passed.batch : p.agent # Governor}
             IN  {p.agent : p \in workers} \cap Critical # {} => Together(workers)

(* Where a path leads when it is followed from the project's root: outside *)
(* when it is absolute or climbs above it.                                 *)
Located(path) ==
    FoldLeft(LAMBDA place, part :
                 IF part = ".." /\ place # <<>> THEN Front(place) ELSE Append(place, part),
             <<>>, path)

(* An operation that passed preflight leads, when its paths are followed,  *)
(* below the paths its packet names; it writes only for a role that may,   *)
(* with an approval and a plan; and its packet had not expired.            *)
PreflightStaysInside ==
    \A x \in {passed} \ {None} : "op" \in DOMAIN x =>
      /\ \A path \in x.op.paths :
           \E root \in x.packet.paths : IsPrefix(Located(root), Located(path))
      /\ x.op.writes =>
           /\ x.packet.agent \notin Critical \cup {Governor}
           /\ x.op.action \in Manifest[x.packet.agent].actions
           /\ x.packet.refs # {} /\ x.packet.plans # {}
      /\ \A expires \in x.packet.expires : x.at < expires
      /\ x.packet.scopeHash = ScopeMaterial(x.packet)

(* An approval starts at most one agent run, whatever two processes and a  *)
(* stop in the middle of a file do, and only what the user approved.       *)
OneAgentRunPerApproval ==
    \A r \in Ref :
      /\ Len(started[r]) <= 1
      /\ Range(started[r]) \subseteq granted
      /\ Len(started[r]) = 1 => marker[r] = "whole"

(* A claim that was blocked becomes eligible by one more review only when  *)
(* that review states a verdict, and its reviewer takes back an earlier    *)
(* one by it: no review that says nothing, and no other reviewer's word,   *)
(* settles a conflict.                                                     *)
GateReopensOnlyByRevision ==
    [][\A claim \in {"publication", "exploratory"} :
         ~ GateEligible(reviews, claim) /\ GateEligible(reviews', claim) =>
           /\ Last(reviews').verdict # "none"
           /\ \E i \in DOMAIN reviews :
                /\ reviews[i].agent = Last(reviews').agent
                /\ reviews[i].verdict \notin {"none", Last(reviews').verdict}]_vars

(* No policy at any level keeps a failure of validation, policy or         *)
(* evidence, or a cancellation, from stopping the workflow, or makes a     *)
(* negative result stop it; text is kept only where the first level that   *)
(* says anything about records says full.                                  *)
SeriousFailureStops ==
    failed # None =>
      LET class == failed.record.class
          levels == failed.levels
      IN  /\ class \in CriticalFailures \cup {"user_cancelled"} =>
               failed.record.stop = "workflow"
          /\ class \in ResearchResults => failed.record.stop = "current_step"
          /\ failed.record.detail # "none" =>
               \E i \in DOMAIN levels :
                 levels[i].record = "full" /\ \A j \in 1..i - 1 : levels[j].record = Unset
=============================================================================
