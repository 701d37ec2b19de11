---------------------------- MODULE MCHarnessRun ----------------------------
(* Small instances of HarnessRun: a plan of a benchmark run that patches   *)
(* and tests, a read-only one of the same run identifier, and one whose    *)
(* disclosure is too narrow.                                               *)
EXTENDS HarnessRun

CONSTANTS strictPlan, openPlan, hiddenPlan, r1, e1, e2

Estimate == [minimum |-> 0, likely |-> 1, maximum |-> 2]
DisclosureOf(ops, paths) ==
    [agents |-> 1, tasks |-> {"task"}, model |-> TRUE, tokens |-> Estimate,
     minutes |-> Estimate, paths |-> paths, network |-> FALSE,
     writes |-> OperationScope(ops).writes]

Patch(paths) == [id |-> "patch", kind |-> "patch", paths |-> paths,
                 command |-> "none", network |-> FALSE, gpu |-> FALSE]
Test(paths) == [id |-> "test", kind |-> "test", paths |-> paths,
                command |-> "exact", network |-> FALSE, gpu |-> FALSE]
Read(paths) == [id |-> "read", kind |-> "read", paths |-> paths,
                command |-> "none", network |-> FALSE, gpu |-> FALSE]
Specification(mode, strict, ops, contracts, paths) ==
    [run |-> r1, mode |-> mode, strict |-> strict, approval |-> "plan_once",
     ops |-> ops, contracts |-> contracts, disclosure |-> DisclosureOf(ops, paths),
     resources |-> [tokens |-> 1000, parallelism |-> 1], created |-> 0, expires |-> 1]

TestContract == [op |-> "test", checks |-> {[path |-> 2, holds |-> {1}]}]

Specifications ==
    (strictPlan :> Specification("benchmark", TRUE, <<Patch({1}), Test({1, 2})>>,
                                 {TestContract}, {1, 2})) @@
    (openPlan :> Specification("lightweight", FALSE, <<Read({1, 2})>>, {}, {1, 2})) @@
    (hiddenPlan :> Specification("lightweight", FALSE, <<Patch({1, 2})>>, {}, {1}))

FactualAnswer == <<[claim |-> [kind |-> "factual", flags |-> {}], refs |-> {"event"}]>>
FactualAnswers == {FactualAnswer}
ReceiptFile(passed) == <<[given |-> TRUE, passed |-> passed, refs |-> {"event"}]>>
ReceiptFiles == {ReceiptFile({"retrieval"}), ReceiptFile({"retrieval", "source"})}

Symmetry == Permutations({e1, e2})
=============================================================================
