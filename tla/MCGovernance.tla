---------------------------- MODULE MCGovernance ----------------------------
(* Small instance of GovernanceSession: four roles, a governor's packet,   *)
(* one executor that writes, and the packets of two reviewers.             *)
EXTENDS GovernanceSession

CONSTANTS g, w, c1, c2, b1, b2, e1, e2

Write == {"edit_derived_artifact"}
Unlimited == {"rebuild_derived_index", "repair_index"}
Modes == {"lightweight", "benchmark", "final_review"}
RoleNames == {"scope_and_cost_governor", "correction_executor",
              "cold_adversarial_reviewer", "substance_reviewer"}
Reviewers == {"cold_adversarial_reviewer", "substance_reviewer"}
Reading == {"inspect_artifact", "emit_decision"}
Manifests == [r \in RoleNames |->
    IF r = "scope_and_cost_governor"
    THEN [actions |-> {"estimate_operation", "emit_decision"}, modes |-> Modes,
          forbidden |-> Write \cup Unlimited, fetches |-> FALSE]
    ELSE IF r = "correction_executor"
    THEN [actions |-> Reading \cup Write, modes |-> {"benchmark", "final_review"},
          forbidden |-> Unlimited \cup {"verify_correction"}, fetches |-> TRUE]
    ELSE [actions |-> Reading, modes |-> {"final_review"},
          forbidden |-> Write \cup Unlimited, fetches |-> TRUE]]

Estimate == [minimum |-> 0, likely |-> 1, maximum |-> 2]
Disclosed(agents, writes) ==
    [agents |-> agents, tasks |-> 1..agents, model |-> TRUE, tokens |-> Estimate,
     minutes |-> Estimate, paths |-> {<<"docs">>}, network |-> FALSE, writes |-> writes]
Scoped(p) == p @@ [scopeHash |-> ScopeMaterial(p)]
Packet(agent, disclosure, plans, ref) ==
    Scoped([agent |-> agent, run |-> "run", workflow |-> "workflow",
            mode |-> "final_review", paths |-> {<<"docs">>}, sources |-> {"source"},
            actions |-> Manifests[agent].actions, forbidden |-> Manifests[agent].forbidden,
            caps |-> {}, providers |-> {"local"}, network |-> FALSE, model |-> TRUE,
            benchmark |-> FALSE, background |-> FALSE, parallel |-> 2,
            cost |-> 1, maxCost |-> 1, evidence |-> {"record"}, snapshot |-> "snapshot",
            disclosure |-> disclosure, policy |-> DefaultPolicy, plans |-> plans,
            optIns |-> {"agent_creation"}, refs |-> {ref}, expires |-> {1}])

Packets ==
    (g :> Packet("scope_and_cost_governor", Disclosed(1, FALSE), {}, "plan approval")) @@
    (w :> Packet("correction_executor", Disclosed(1, TRUE), {"plan"}, "once")) @@
    (c1 :> Packet("cold_adversarial_reviewer", Disclosed(2, FALSE), {}, "once")) @@
    (c2 :> Packet("substance_reviewer", Disclosed(2, FALSE), {}, "once"))

Decisions ==
    {[status |-> status, sound |-> TRUE, used |-> {"estimate_operation"},
      necessity |-> "required", verdict |-> "within_approved_scope",
      additional |-> "optional", choice |-> choice] :
         status \in {"pass", "warn"}, choice \in BOOLEAN}

Op(action, writes, paths, parallel, cost, given) ==
    [action |-> action, writes |-> writes, network |-> FALSE, model |-> FALSE,
     benchmark |-> FALSE, background |-> FALSE, parallel |-> parallel,
     provider |-> given, cost |-> cost, caps |-> {}, paths |-> paths, sources |-> {},
     necessity |-> {}, goal |-> TRUE, benefit |-> FALSE, outOfScope |-> FALSE]
Operations ==
    {Op(a, a \in Write, {path}, parallel, cost, {"local"}) :
        a \in Reading \cup Write, parallel \in {1, 3}, cost \in {{}, {2}},
        path \in {<<"docs", "page">>, <<"docs", "..", "src">>, <<"/", "docs">>}}

Refs == [b \in {b1, b2} |-> "once"]
Reviews ==
    [agent : Reviewers, status : {"pass", "blocked"},
     verdict : {"none", "reject_claim", "no_material_objection_found"},
     severities : {{}, {"high"}}]
Failures ==
    [class : {{}, {"execution_failure"}, {"scientific_negative_result"}},
     code : {"GOV_SCOPE", "CANCEL", "NETWORK", "OTHER"}, blocking : BOOLEAN]
Levels ==
    {[stop |-> Unset, record |-> Unset, detail |-> Unset],
     [stop |-> "current_step", record |-> "full", detail |-> "hashes_only"],
     [stop |-> "always", record |-> "metadata_only", detail |-> "full"],
     [stop |-> "never", record |-> Unset, detail |-> Unset]}
WiderPaths == {<<"src">>}
=============================================================================
