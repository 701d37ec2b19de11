--------------------------- MODULE HarnessRunProofs ---------------------------
(***************************************************************************)
(* What one approval of a governed run is good for, what an import may     *)
(* change and what a promotion rests on, for every value of the constants  *)
(* of HarnessRun: any number of plans, run identifiers, files, processes   *)
(* and faults.                                                             *)
(***************************************************************************)
EXTENDS HarnessRun, SequenceTheorems, FiniteSetTheorems, TLAPS

(* A process that has consumed an approval and not yet started Codex.      *)
Holds(e) == proc[e].pc \in {"consumed", "created"}

(* A process that executes a plan.                                         *)
Executing ==
    {"preflighted", "verified", "consumed", "created", "running", "accepted"}
Planned(e) == proc[e].pc \in Executing

Field == DOMAIN NoProc

ProcInv ==
    /\ proc = [e \in Proc |-> [field \in Field |-> proc[e][field]]]
    /\ \A e \in Proc : Planned(e) => proc[e].plan \in Plan

(* A consumption is of the plan that was granted; from then on the grant   *)
(* stays.                                                                  *)
SpentInv ==
    /\ grant = [r \in RunId |-> grant[r]]
    /\ consumed = [r \in RunId |-> consumed[r]]
    /\ \A r \in RunId :
         consumed[r] # None => grant[r] # None /\ grant[r].plan = consumed[r].plan

(* At most one process holds the consumption of a run, before its launch.  *)
HolderInv ==
    /\ \A e \in Proc : Holds(e) =>
         /\ consumed[RunOf(proc[e].plan)] # None
         /\ consumed[RunOf(proc[e].plan)].plan = proc[e].plan
         /\ launched[RunOf(proc[e].plan)] = <<>>
    /\ \A e, f \in Proc :
         Holds(e) /\ Holds(f) /\ RunOf(proc[e].plan) = RunOf(proc[f].plan) => e = f

LaunchInv ==
    /\ launched \in [RunId -> Seq(Plan)]
    /\ \A r \in RunId : launched[r] # <<>> =>
         consumed[r] # None /\ launched[r] = <<consumed[r].plan>>

RunInv == ProcInv /\ SpentInv /\ HolderInv /\ LaunchInv
-----------------------------------------------------------------------------
LEMMA RunIds == ASSUME NEW p \in Plan PROVE RunOf(p) \in RunId
BY HarnessConstants DEF RunOf

LEMMA Fields == Field = {"pc", "plan", "todo", "diff"}
BY DEF Field, NoProc

LEMMA RunInvInit == Init => RunInv
<1> SUFFICES ASSUME Init PROVE RunInv
  OBVIOUS
<1>1. proc = [e \in Proc |-> NoProc]
  BY DEF Init
<1>2. ProcInv
  <2>1. NoProc = [field \in Field |-> NoProc[field]]
    BY DEF Field, NoProc
  <2> QED BY <1>1, <2>1 DEF ProcInv, NoProc, Planned, Executing
<1>3. SpentInv
  BY DEF Init, SpentInv
<1>4. HolderInv
  BY <1>1 DEF HolderInv, Holds, NoProc
<1>5. LaunchInv
  BY DEF Init, LaunchInv
<1> QED BY <1>2, <1>3, <1>4, <1>5 DEF RunInv

(* How a process moves: to its next step, to an import, or back to idle.   *)
LEMMA GotoMoves ==
    ASSUME ProcInv, NEW e \in Proc, NEW pc, Goto(e, pc),
           pc \in Executing => Planned(e)
    PROVE  /\ ProcInv'
           /\ proc'[e].pc = pc
           /\ \A f \in Proc : proc'[f].plan = proc[f].plan
           /\ \A f \in Proc \ {e} : proc'[f] = proc[f]
<1>1. proc' = [proc EXCEPT ![e] = [proc[e] EXCEPT !.pc = pc]]
  BY DEF Goto
<1>2. /\ proc'[e] = [proc[e] EXCEPT !.pc = pc]
      /\ \A f \in Proc \ {e} : proc'[f] = proc[f]
  BY <1>1 DEF ProcInv
<1>3. proc[e] = [field \in Field |-> proc[e][field]]
  BY DEF ProcInv
<1>4. /\ proc'[e] = [field \in Field |-> proc'[e][field]]
      /\ proc'[e].pc = pc /\ proc'[e].plan = proc[e].plan
  BY <1>2, <1>3, Fields
<1>5. \A f \in Proc : proc'[f] = [field \in Field |-> proc'[f][field]]
  BY <1>2, <1>4 DEF ProcInv
<1>6. \A f \in Proc : Planned(f)' => proc'[f].plan \in Plan
  BY <1>2, <1>4 DEF ProcInv, Planned, Executing
<1>7. proc' = [f \in Proc |-> proc'[f]]
  BY <1>1 DEF ProcInv
<1>8. ProcInv'
  BY <1>5, <1>6, <1>7 DEF ProcInv
<1> QED BY <1>2, <1>4, <1>8

LEMMA BecomesMoves ==
    ASSUME ProcInv, NEW e \in Proc, NEW state,
           state = [field \in Field |-> state[field]],
           proc' = [proc EXCEPT ![e] = state],
           state.pc \in Executing => state.plan \in Plan
    PROVE  /\ ProcInv'
           /\ proc'[e] = state
           /\ \A f \in Proc \ {e} : proc'[f] = proc[f]
<1>1. proc'[e] = state /\ \A f \in Proc \ {e} : proc'[f] = proc[f]
  BY DEF ProcInv
<1>2. proc' = [f \in Proc |-> proc'[f]]
  BY DEF ProcInv
<1>3. \A f \in Proc : proc'[f] = [field \in Field |-> proc'[f][field]]
  BY <1>1 DEF ProcInv
<1>4. \A f \in Proc : Planned(f)' => proc'[f].plan \in Plan
  BY <1>1 DEF ProcInv, Planned, Executing
<1> QED BY <1>1, <1>2, <1>3, <1>4 DEF ProcInv

LEMMA StopMoves ==
    ASSUME ProcInv, NEW e \in Proc, Stop(e)
    PROVE  /\ ProcInv'
           /\ ~Holds(e)'
           /\ \A f \in Proc \ {e} : proc'[f] = proc[f]
<1>1. NoProc = [field \in Field |-> NoProc[field]]
  BY DEF Field, NoProc
<1>2. NoProc.pc = "idle"
  BY DEF NoProc
<1>3. proc' = [proc EXCEPT ![e] = NoProc]
  BY DEF Stop
<1>4. ProcInv' /\ proc'[e] = NoProc /\ \A f \in Proc \ {e} : proc'[f] = proc[f]
  BY <1>1, <1>2, <1>3, BecomesMoves DEF Executing
<1> QED BY <1>2, <1>4 DEF Holds

(* A step that leaves the approvals and the launches alone, and makes no   *)
(* process a holder.                                                       *)
LEMMA QuietKeepsRunInv ==
    ASSUME RunInv, ProcInv', UNCHANGED <<grant, consumed, launched>>,
           \A e \in Proc : Holds(e)' => Holds(e) /\ proc'[e].plan = proc[e].plan
    PROVE  RunInv'
<1>1. SpentInv'
  BY DEF RunInv, SpentInv
<1>2. HolderInv'
  BY DEF RunInv, HolderInv, RunOf
<1>3. LaunchInv'
  BY DEF RunInv, LaunchInv
<1> QED BY <1>1, <1>2, <1>3 DEF RunInv

LEMMA GotoKeepsRunInv ==
    ASSUME RunInv, NEW e \in Proc, NEW pc, Goto(e, pc),
           pc \in Executing => Planned(e),
           pc \in {"consumed", "created"} => Holds(e),
           UNCHANGED <<grant, consumed, launched>>
    PROVE  RunInv'
<1>1. /\ ProcInv' /\ proc'[e].pc = pc
      /\ \A f \in Proc : proc'[f].plan = proc[f].plan
      /\ \A f \in Proc \ {e} : proc'[f] = proc[f]
  BY GotoMoves DEF RunInv
<1> QED BY <1>1, QuietKeepsRunInv DEF Holds

LEMMA StopKeepsRunInv ==
    ASSUME RunInv, NEW e \in Proc, Stop(e), UNCHANGED <<grant, consumed, launched>>
    PROVE  RunInv'
<1>1. ProcInv' /\ ~Holds(e)' /\ \A f \in Proc \ {e} : proc'[f] = proc[f]
  BY StopMoves DEF RunInv
<1> QED BY <1>1, QuietKeepsRunInv DEF Holds

LEMMA StillKeepsRunInv ==
    ASSUME RunInv, UNCHANGED <<proc, grant, consumed, launched>>
    PROVE  RunInv'
<1>1. ProcInv'
  BY DEF RunInv, ProcInv, Planned, Executing
<1> QED BY <1>1, QuietKeepsRunInv DEF Holds
-----------------------------------------------------------------------------
(* The steps that grant, consume and launch.                               *)

LEMMA ApproveKeepsRunInv ==
    ASSUME RunInv, NEW p \in Plan, Approve(p)
    PROVE  RunInv'
<1>1. /\ grant[RunOf(p)] = None /\ UNCHANGED <<proc, consumed, launched>>
      /\ grant' = [grant EXCEPT ![RunOf(p)] = [plan |-> p, expired |-> FALSE]]
  BY DEF Approve, session
<1>2. ProcInv'
  BY <1>1 DEF RunInv, ProcInv, Planned, Executing
<1>3. \A r \in RunId : consumed[r] # None => grant'[r] = grant[r]
  BY <1>1 DEF RunInv, SpentInv
<1>4. SpentInv'
  BY <1>1, <1>3 DEF RunInv, SpentInv
<1>5. HolderInv'
  BY <1>1 DEF RunInv, HolderInv, Holds, RunOf
<1>6. LaunchInv'
  BY <1>1 DEF RunInv, LaunchInv
<1> QED BY <1>2, <1>4, <1>5, <1>6 DEF RunInv

LEMMA ExpireKeepsRunInv ==
    ASSUME RunInv, NEW r \in RunId, Expire(r)
    PROVE  RunInv'
<1>1. /\ consumed[r] = None /\ UNCHANGED <<proc, consumed, launched>>
      /\ grant' = [grant EXCEPT ![r].expired = TRUE]
  BY DEF Expire
<1>2. ProcInv'
  BY <1>1 DEF RunInv, ProcInv, Planned, Executing
<1>3. \A q \in RunId : consumed[q] # None => grant'[q] = grant[q]
  BY <1>1 DEF RunInv, SpentInv
<1>4. SpentInv'
  BY <1>1, <1>3 DEF RunInv, SpentInv
<1>5. HolderInv'
  BY <1>1 DEF RunInv, HolderInv, Holds, RunOf
<1>6. LaunchInv'
  BY <1>1 DEF RunInv, LaunchInv
<1> QED BY <1>2, <1>4, <1>5, <1>6 DEF RunInv

(* Only a run whose approval is not spent gets a holder.                   *)
LEMMA ConsumeKeepsRunInv ==
    ASSUME RunInv, NEW e \in Proc, ConsumeApproval(e)
    PROVE  RunInv'
<1> DEFINE p == proc[e].plan
           r == RunOf(p)
<1>1. /\ proc[e].pc = "verified" /\ p \in Plan /\ r \in RunId
      /\ consumed[r] = None /\ grant[r] # None /\ grant[r].plan = p
      /\ UNCHANGED <<grant, launched>>
  BY RunIds DEF ConsumeApproval, GrantAllows, Consumable, RunInv, ProcInv, Planned, Executing
<1>2. launched[r] = <<>> /\ \A f \in Proc : Holds(f) => RunOf(proc[f].plan) # r
  BY <1>1 DEF RunInv, LaunchInv, HolderInv
<1>3. PICK late \in BOOLEAN, whole \in BOOLEAN :
        /\ consumed' = [consumed EXCEPT ![r] = [plan |-> p, late |-> late, whole |-> whole]]
        /\ Goto(e, "consumed") \/ Stop(e)
  BY DEF ConsumeApproval
<1>4. /\ consumed'[r] # None /\ consumed'[r].plan = p
      /\ \A q \in RunId \ {r} : consumed'[q] = consumed[q]
      /\ consumed' = [q \in RunId |-> consumed'[q]]
  BY <1>1, <1>3, HarnessConstants DEF RunInv, SpentInv
<1>5. SpentInv'
  BY <1>1, <1>4 DEF RunInv, SpentInv
<1>6. LaunchInv'
  BY <1>1, <1>2, <1>4 DEF RunInv, LaunchInv
<1>7. /\ ProcInv'
      /\ \A f \in Proc \ {e} : proc'[f] = proc[f]
      /\ Holds(e)' => proc'[e].plan = p
  BY <1>1, <1>3, GotoMoves, StopMoves DEF RunInv, Planned, Executing
<1>8. ASSUME NEW f \in Proc, Holds(f)'
      PROVE  /\ consumed'[RunOf(proc'[f].plan)] # None
             /\ consumed'[RunOf(proc'[f].plan)].plan = proc'[f].plan
             /\ launched'[RunOf(proc'[f].plan)] = <<>>
             /\ f # e => RunOf(proc'[f].plan) # r
  <2>1. CASE f = e
    BY <1>1, <1>2, <1>4, <1>7, <1>8, <2>1
  <2>2. CASE f # e
    <3>1. proc'[f] = proc[f] /\ Holds(f)
      BY <1>7, <1>8, <2>2 DEF Holds
    <3>2. RunOf(proc[f].plan) \in RunId \ {r}
      BY <3>1, <1>2, RunIds DEF RunInv, ProcInv, Planned, Executing, Holds
    <3> QED BY <1>1, <1>4, <3>1, <3>2 DEF RunInv, HolderInv
  <2> QED BY <2>1, <2>2
<1>9. ASSUME NEW f \in Proc, NEW g \in Proc, Holds(f)', Holds(g)',
             RunOf(proc'[f].plan) = RunOf(proc'[g].plan)
      PROVE  f = g
  <2>1. CASE f = e \/ g = e
    BY <1>7, <1>8, <1>9, <2>1
  <2>2. CASE f # e /\ g # e
    BY <1>7, <1>9, <2>2 DEF Holds, RunInv, HolderInv
  <2> QED BY <2>1, <2>2
<1>10. HolderInv'
  BY <1>8, <1>9 DEF HolderInv, RunOf
<1> QED BY <1>5, <1>6, <1>7, <1>10 DEF RunInv

LEMMA LaunchKeepsRunInv ==
    ASSUME RunInv, NEW e \in Proc, LaunchCodex(e)
    PROVE  RunInv'
<1> DEFINE p == proc[e].plan
           r == RunOf(p)
<1>1. /\ proc[e].pc = "created" /\ Holds(e) /\ p \in Plan /\ r \in RunId
      /\ UNCHANGED <<grant, consumed>> /\ Goto(e, "running")
      /\ launched' = [launched EXCEPT ![r] = Append(launched[r], p)]
  BY RunIds DEF LaunchCodex, approvals, Holds, RunInv, ProcInv, Planned, Executing
<1>2. launched[r] = <<>> /\ consumed[r] # None /\ consumed[r].plan = p
  BY <1>1 DEF RunInv, HolderInv
<1>3. launched' = [launched EXCEPT ![r] = <<p>>]
  BY <1>1, <1>2
<1>4. LaunchInv'
  BY <1>1, <1>2, <1>3 DEF RunInv, LaunchInv
<1>5. SpentInv'
  BY <1>1 DEF RunInv, SpentInv
<1>6. /\ ProcInv' /\ ~Holds(e)'
      /\ \A f \in Proc \ {e} : proc'[f] = proc[f]
  BY <1>1, GotoMoves DEF RunInv, Holds, Planned, Executing
<1>7. ASSUME NEW f \in Proc, Holds(f)'
      PROVE  /\ f # e /\ proc'[f] = proc[f] /\ Holds(f)
             /\ launched'[RunOf(proc[f].plan)] = launched[RunOf(proc[f].plan)]
  <2>1. f # e /\ proc'[f] = proc[f] /\ Holds(f)
    BY <1>6, <1>7 DEF Holds
  <2>2. RunOf(proc[f].plan) # r
    BY <1>1, <2>1 DEF RunInv, HolderInv
  <2> QED BY <1>3, <2>1, <2>2 DEF RunInv, LaunchInv
<1>8. ASSUME NEW f \in Proc, Holds(f)'
      PROVE  /\ consumed'[RunOf(proc'[f].plan)] # None
             /\ consumed'[RunOf(proc'[f].plan)].plan = proc'[f].plan
             /\ launched'[RunOf(proc'[f].plan)] = <<>>
  BY <1>1, <1>7, <1>8 DEF RunInv, HolderInv
<1>9. ASSUME NEW f \in Proc, NEW g \in Proc, Holds(f)', Holds(g)',
             RunOf(proc'[f].plan) = RunOf(proc'[g].plan)
      PROVE  f = g
  BY <1>7, <1>9 DEF RunInv, HolderInv
<1>10. HolderInv'
  BY <1>8, <1>9 DEF HolderInv, RunOf
<1> QED BY <1>4, <1>5, <1>6, <1>10 DEF RunInv
-----------------------------------------------------------------------------
(* Every other step of a process that executes a plan or imports changes.  *)
LEMMA RunStepKeepsRunInv ==
    ASSUME RunInv, NEW e \in Proc, RunStep(e)
    PROVE  RunInv'
<1>1. ASSUME NEW p \in Plan, BeginRun(e, p) PROVE RunInv'
  <2> DEFINE state == [NoProc EXCEPT !.pc = "preflighted", !.plan = p]
  <2>1. proc' = [proc EXCEPT ![e] = state] /\ UNCHANGED <<grant, consumed, launched>>
    BY <1>1 DEF BeginRun, approvals
  <2>2. state = [field \in Field |-> state[field]]
    BY DEF Field, NoProc
  <2>3. state.pc = "preflighted" /\ state.plan = p
    BY DEF NoProc
  <2> HIDE DEF state
  <2>4. ProcInv' /\ proc'[e] = state /\ \A f \in Proc \ {e} : proc'[f] = proc[f]
    BY <2>1, <2>2, <2>3, BecomesMoves DEF RunInv, Executing
  <2> QED BY <2>1, <2>3, <2>4, QuietKeepsRunInv DEF Holds
<1>2. CASE VerifyBeforeConsume(e)
  <2>1. Goto(e, "verified") \/ Stop(e)
    BY <1>2 DEF VerifyBeforeConsume
  <2>2. Planned(e) /\ UNCHANGED <<grant, consumed, launched>>
    BY <1>2 DEF VerifyBeforeConsume, approvals, Planned, Executing
  <2> QED BY <2>1, <2>2, GotoKeepsRunInv, StopKeepsRunInv
<1>3. CASE ConsumeApproval(e)
  BY <1>3, ConsumeKeepsRunInv
<1>4. CASE RefuseApproval(e)
  BY <1>4, StopKeepsRunInv DEF RefuseApproval, approvals
<1>5. CASE CreateRun(e)
  <2>1. Goto(e, "created") \/ Stop(e)
    BY <1>5 DEF CreateRun
  <2>2. Planned(e) /\ Holds(e) /\ UNCHANGED <<grant, consumed, launched>>
    BY <1>5 DEF CreateRun, approvals, Planned, Executing, Holds
  <2> QED BY <2>1, <2>2, GotoKeepsRunInv, StopKeepsRunInv
<1>6. CASE LaunchCodex(e)
  BY <1>6, LaunchKeepsRunInv
<1>7. CASE Crash(e)
  BY <1>7, StopKeepsRunInv DEF Crash, approvals
<1>8. CASE CodexFails(e)
  BY <1>8, StopKeepsRunInv DEF CodexFails, approvals
<1>9. CASE CodexOverCeiling(e)
  BY <1>9, StopKeepsRunInv DEF CodexOverCeiling, approvals
<1>10. ASSUME NEW segments \in Answers, CodexCompletes(e, segments) PROVE RunInv'
  <2>1. Goto(e, "accepted") /\ Planned(e) /\ UNCHANGED <<grant, consumed, launched>>
    BY <1>10 DEF CodexCompletes, approvals, Planned, Executing
  <2> QED BY <2>1, GotoKeepsRunInv
<1>11. CASE WriteResult(e)
  BY <1>11, StopKeepsRunInv DEF WriteResult, approvals
<1> QED
  BY <1>1, <1>2, <1>3, <1>4, <1>5, <1>6, <1>7, <1>8, <1>9, <1>10, <1>11 DEF RunStep

LEMMA ApplyStepKeepsRunInv ==
    ASSUME RunInv, NEW e \in Proc, ApplyStep(e)
    PROVE  RunInv'
<1>1. ASSUME NEW r \in RunId, BeginApply(e, r) PROVE RunInv'
  <2> DEFINE state == [pc |-> "copy", plan |-> planOf[r], todo |-> Changed(r), diff |-> Diff(r)]
  <2>1. proc' = [proc EXCEPT ![e] = state] /\ UNCHANGED <<grant, consumed, launched>>
    BY <1>1 DEF BeginApply, approvals
  <2>2. state = [field \in Field |-> state[field]] /\ state.pc = "copy"
    BY Fields
  <2> HIDE DEF state
  <2>3. ProcInv' /\ proc'[e] = state /\ \A f \in Proc \ {e} : proc'[f] = proc[f]
    BY <2>1, <2>2, BecomesMoves DEF RunInv, Executing
  <2> QED BY <2>1, <2>2, <2>3, QuietKeepsRunInv DEF Holds
<1>2. CASE CopyChange(e)
  <2>1. Goto(e, "replace") \/ Stop(e)
    BY <1>2 DEF CopyChange
  <2>2. UNCHANGED <<grant, consumed, launched>>
    BY <1>2 DEF CopyChange, approvals
  <2> QED BY <2>1, <2>2, GotoKeepsRunInv, StopKeepsRunInv DEF Executing
<1>3. CASE ReplaceChange(e)
  <2> DEFINE state == [proc[e] EXCEPT !.pc = "copy", !.todo = @ \ {Min(proc[e].todo)}]
  <2>1. proc' = [proc EXCEPT ![e] = state] /\ UNCHANGED <<grant, consumed, launched>>
    BY <1>3 DEF ReplaceChange, approvals
  <2>2. proc[e] = [field \in Field |-> proc[e][field]]
    BY DEF RunInv, ProcInv
  <2>3. state = [field \in Field |-> state[field]] /\ state.pc = "copy"
    BY <2>2, Fields
  <2> HIDE DEF state
  <2>4. ProcInv' /\ proc'[e] = state /\ \A f \in Proc \ {e} : proc'[f] = proc[f]
    BY <2>1, <2>3, BecomesMoves DEF RunInv, Executing
  <2> QED BY <2>1, <2>3, <2>4, QuietKeepsRunInv DEF Holds
<1>4. CASE FinishApply(e)
  BY <1>4, StopKeepsRunInv DEF FinishApply, approvals
<1> QED BY <1>1, <1>2, <1>3, <1>4 DEF ApplyStep

(* The worker never touches an approval, nor do its containers.            *)
LEMMA WorkerStepKeepsRunInv ==
    ASSUME RunInv, NEW r \in RunId, WorkerStep(r)
    PROVE  RunInv'
<1>1. UNCHANGED <<proc, approvals, launched>>
  <2>1. CASE StartWorker(r) \/ CheckSource(r) \/ CopySource(r) \/ VerifyConsumed(r)
             \/ WorkerInventory(r)
    BY <2>1 DEF StartWorker, CheckSource, CopySource, VerifyConsumed, WorkerInventory
  <2>2. ASSUME NEW id \in OpId, WorkerExecute(r, id) \/ OrphanEnds(r, id)
        PROVE  UNCHANGED <<proc, approvals, launched>>
    BY <2>2 DEF WorkerExecute, OrphanEnds
  <2>3. ASSUME NEW id \in OpId, NEW path \in Path, WorkerRead(r, id, path)
        PROVE  UNCHANGED <<proc, approvals, launched>>
    BY <2>3 DEF WorkerRead
  <2>4. ASSUME NEW id \in OpId, NEW path \in Path, NEW base \in Content,
               NEW content \in Patched, WorkerWrite(r, id, path, base, content)
        PROVE  UNCHANGED <<proc, approvals, launched>>
    BY <2>4 DEF WorkerWrite
  <2>5. ASSUME NEW path \in Scribbled, NEW content \in Foreign,
               ContainerWrites(r, path, content)
        PROVE  UNCHANGED <<proc, approvals, launched>>
    BY <2>5 DEF ContainerWrites
  <2>6. CASE RecipeEnds(r) \/ RecipeTimesOut(r)
    BY <2>6 DEF RecipeEnds, RecipeTimesOut
  <2> QED BY <2>1, <2>2, <2>3, <2>4, <2>5, <2>6 DEF WorkerStep
<1> QED BY <1>1, StillKeepsRunInv DEF approvals

LEMMA UserStepKeepsRunInv ==
    ASSUME RunInv, UserStep
    PROVE  RunInv'
<1>1. ASSUME NEW path \in Path, NEW content \in Foreign, EditProject(path, content)
      PROVE  RunInv'
  BY <1>1, StillKeepsRunInv DEF EditProject, approvals
<1>2. ASSUME NEW p \in Plan, SealPlan(p) PROVE RunInv'
  BY <1>2, StillKeepsRunInv DEF SealPlan
<1>3. ASSUME NEW p \in Plan, Approve(p) PROVE RunInv'
  BY <1>3, ApproveKeepsRunInv
<1>4. ASSUME NEW r \in RunId, Expire(r) PROVE RunInv'
  BY <1>4, ExpireKeepsRunInv
<1>5. ASSUME NEW r \in RunId, ShowChanges(r) PROVE RunInv'
  BY <1>5, StillKeepsRunInv DEF ShowChanges, approvals
<1>6. ASSUME NEW r \in RunId, NEW receipts \in Receipts, Attest(r, receipts) PROVE RunInv'
  BY <1>6, StillKeepsRunInv DEF Attest, approvals
<1>7. ASSUME NEW r \in RunId, NEW mode \in PromotionModes, Promote(r, mode) PROVE RunInv'
  BY <1>7, StillKeepsRunInv DEF Promote, approvals
<1> QED BY <1>1, <1>2, <1>3, <1>4, <1>5, <1>6, <1>7 DEF UserStep

LEMMA RunInvStep == RunInv /\ [Next]_vars => RunInv'
<1> SUFFICES ASSUME RunInv, [Next]_vars PROVE RunInv'
  OBVIOUS
<1>1. CASE UNCHANGED vars
  BY <1>1, StillKeepsRunInv DEF vars, approvals
<1>2. CASE Next
  BY <1>2, RunStepKeepsRunInv, ApplyStepKeepsRunInv, WorkerStepKeepsRunInv,
     UserStepKeepsRunInv DEF Next
<1> QED BY <1>1, <1>2

LEMMA LaunchesOfAnApproval == RunInv => OneLaunchPerApproval
<1> SUFFICES ASSUME RunInv, NEW r \in RunId
             PROVE  /\ Len(launched[r]) <= 1
                    /\ \A p \in ToSet(launched[r]) : consumed[r].plan = p /\ grant[r].plan = p
  BY DEF OneLaunchPerApproval
<1>1. CASE launched[r] = <<>>
  BY <1>1 DEF ToSet
<1>2. CASE launched[r] # <<>>
  <2>1. consumed[r] # None /\ launched[r] = <<consumed[r].plan>>
    BY <1>2 DEF RunInv, LaunchInv
  <2>2. grant[r].plan = consumed[r].plan
    BY <2>1 DEF RunInv, SpentInv
  <2>3. Len(launched[r]) = 1 /\ ToSet(launched[r]) = {consumed[r].plan}
    BY <2>1 DEF ToSet
  <2> QED BY <2>2, <2>3
<1> QED BY <1>1, <1>2

(* For one run identifier Codex is started at most once, and only for the  *)
(* plan that was granted and consumed, however many processes execute      *)
(* plans that name that run, whenever they stop, and whatever is sealed,   *)
(* edited or imported in between.                                          *)
THEOREM ApprovalsLaunchOnce == Spec => []OneLaunchPerApproval
<1> QED BY RunInvInit, RunInvStep, LaunchesOfAnApproval, PTL DEF Spec
-----------------------------------------------------------------------------
(* The import: what is recorded has been installed.                        *)

PathsOf(items, r) == {i.path : i \in {j \in items : j.run = r}}
Importing(e) == proc[e].pc \in {"copy", "replace"}

(* Of the confirmed files, those that are no longer to do are installed.   *)
ImportInv ==
    /\ recorded = [r \in RunId |-> recorded[r]]
    /\ \A e \in Proc : Importing(e) =>
         DOMAIN proc[e].diff \ proc[e].todo \subseteq PathsOf(installed, RunOf(proc[e].plan))
    /\ \A r \in RunId : recorded[r] \subseteq PathsOf(installed, r)

LEMMA ImportInvInit == Init => ImportInv
<1> SUFFICES ASSUME Init PROVE ImportInv
  OBVIOUS
<1>1. \A e \in Proc : ~Importing(e)
  BY DEF Init, NoProc, Importing
<1> QED BY <1>1 DEF Init, ImportInv

(* A step that installs nothing, records nothing, and leaves those that    *)
(* import where they are.                                                  *)
LEMMA QuietKeepsImport ==
    ASSUME ImportInv, UNCHANGED <<installed, recorded>>,
           \A e \in Proc : Importing(e)' =>
             /\ Importing(e)
             /\ proc'[e].plan = proc[e].plan /\ proc'[e].todo = proc[e].todo
             /\ proc'[e].diff = proc[e].diff
    PROVE  ImportInv'
<1>1. UNCHANGED installed
  OBVIOUS
<1>2. ASSUME NEW e \in Proc, Importing(e)'
      PROVE  DOMAIN proc'[e].diff \ proc'[e].todo \subseteq PathsOf(installed', RunOf(proc'[e].plan))
  BY <1>1, <1>2 DEF ImportInv
<1> QED BY <1>1, <1>2 DEF ImportInv

LEMMA StopKeepsImport ==
    ASSUME RunInv, ImportInv, NEW e \in Proc, Stop(e), UNCHANGED <<installed, recorded>>
    PROVE  ImportInv'
<1>1. proc'[e].pc = "idle" /\ \A f \in Proc \ {e} : proc'[f] = proc[f]
  BY DEF Stop, NoProc, RunInv, ProcInv
<1> QED BY <1>1, QuietKeepsImport DEF Importing

LEMMA RunStepKeepsImport ==
    ASSUME RunInv, ImportInv, NEW e \in Proc, RunStep(e)
    PROVE  ImportInv'
<1>1. UNCHANGED <<installed, recorded>>
  BY DEF RunStep, BeginRun, VerifyBeforeConsume, ConsumeApproval, RefuseApproval, CreateRun,
     LaunchCodex, Crash, CodexFails, CodexOverCeiling, CodexCompletes, WriteResult, host,
     store
<1>2. ASSUME NEW p \in Plan, BeginRun(e, p) PROVE ImportInv'
  <2> DEFINE state == [NoProc EXCEPT !.pc = "preflighted", !.plan = p]
  <2>1. proc' = [proc EXCEPT ![e] = state]
    BY <1>2 DEF BeginRun
  <2>2. state.pc = "preflighted"
    BY DEF NoProc
  <2> HIDE DEF state
  <2>3. proc'[e] = state /\ \A f \in Proc \ {e} : proc'[f] = proc[f]
    BY <2>1 DEF RunInv, ProcInv
  <2> QED BY <1>1, <2>2, <2>3, QuietKeepsImport DEF Importing
<1>3. ASSUME NEW pc \in {"verified", "consumed", "created", "running", "accepted"},
             Goto(e, pc), Planned(e)
      PROVE  ImportInv'
  <2>1. proc'[e].pc = pc /\ \A f \in Proc \ {e} : proc'[f] = proc[f]
    BY <1>3, GotoMoves DEF RunInv
  <2> QED BY <1>1, <1>3, <2>1, QuietKeepsImport DEF Importing
<1>4. CASE \E p \in Plan : BeginRun(e, p)
  BY <1>2, <1>4
<1>5. CASE ~ \E p \in Plan : BeginRun(e, p)
  <2>1. \/ Stop(e)
        \/ /\ proc[e].pc \in Executing
           /\ \E pc \in {"verified", "consumed", "created", "running", "accepted"} : Goto(e, pc)
    BY <1>5 DEF RunStep, VerifyBeforeConsume, ConsumeApproval, RefuseApproval, CreateRun,
       LaunchCodex, Crash, CodexFails, CodexOverCeiling, CodexCompletes, WriteResult, Executing
  <2> QED BY <1>1, <1>3, <2>1, StopKeepsImport DEF Planned
<1> QED BY <1>4, <1>5

(* A process that begins has all confirmed files to do.                    *)
LEMMA BeginKeepsImport ==
    ASSUME RunInv, ImportInv, NEW e \in Proc, NEW r \in RunId, BeginApply(e, r)
    PROVE  ImportInv'
<1> DEFINE state == [pc |-> "copy", plan |-> planOf[r], todo |-> Changed(r), diff |-> Diff(r)]
<1>1. proc' = [proc EXCEPT ![e] = state] /\ UNCHANGED <<installed, recorded>>
  BY DEF BeginApply, host, store
<1>2. DOMAIN state.diff \ state.todo = {}
  BY DEF Diff
<1> HIDE DEF state
<1>3. proc'[e] = state /\ \A f \in Proc \ {e} : proc'[f] = proc[f]
  BY <1>1 DEF RunInv, ProcInv
<1>4. ASSUME NEW f \in Proc, Importing(f)'
      PROVE  DOMAIN proc'[f].diff \ proc'[f].todo \subseteq PathsOf(installed', RunOf(proc'[f].plan))
  <2>1. CASE f = e
    BY <1>2, <1>3, <2>1
  <2>2. CASE f # e
    BY <1>1, <1>3, <1>4, <2>2 DEF ImportInv, Importing
  <2> QED BY <2>1, <2>2
<1> QED BY <1>1, <1>4 DEF ImportInv

(* A file is taken off the list in the step that installs it.              *)
LEMMA ReplaceKeepsImport ==
    ASSUME RunInv, ImportInv, NEW e \in Proc, ReplaceChange(e)
    PROVE  ImportInv'
<1> DEFINE path == Min(proc[e].todo)
           plan == proc[e].plan
           entry == [run |-> RunOf(plan), path |-> path, content |-> temp[path],
                     confirmed |-> proc[e].diff[path]]
           state == [proc[e] EXCEPT !.pc = "copy", !.todo = @ \ {path}]
<1>1. /\ proc[e].pc = "replace" /\ proc' = [proc EXCEPT ![e] = state]
      /\ installed' = installed \cup {entry} /\ UNCHANGED recorded
  BY DEF ReplaceChange, store
<1>2. /\ state.plan = plan /\ state.diff = proc[e].diff
      /\ state.todo = proc[e].todo \ {path}
  BY Fields DEF RunInv, ProcInv
<1>3. entry.run = RunOf(plan) /\ entry.path = path
  OBVIOUS
<1>4. proc'[e] = state /\ \A f \in Proc \ {e} : proc'[f] = proc[f]
  <2> HIDE DEF state
  <2> QED BY <1>1 DEF RunInv, ProcInv
<1>5. \A q : \A i \in PathsOf(installed, q) : i \in PathsOf(installed', q)
  <2> HIDE DEF entry, state
  <2> QED BY <1>1 DEF PathsOf
<1>6. path \in PathsOf(installed', RunOf(plan))
  <2> HIDE DEF entry, state, path, plan
  <2> QED BY <1>1, <1>3 DEF PathsOf
<1>7. DOMAIN proc[e].diff \ proc[e].todo \subseteq PathsOf(installed, RunOf(plan))
  BY <1>1 DEF ImportInv, Importing
<1>8. ASSUME NEW f \in Proc, Importing(f)'
      PROVE  DOMAIN proc'[f].diff \ proc'[f].todo
               \subseteq PathsOf(installed', RunOf(proc'[f].plan))
  <2>1. CASE f = e
    <3> HIDE DEF path, plan, state, entry
    <3> QED BY <1>2, <1>4, <1>5, <1>6, <1>7, <2>1 DEF plan
  <2>2. CASE f # e
    BY <1>4, <1>5, <1>8, <2>2 DEF ImportInv, Importing
  <2> QED BY <2>1, <2>2
<1>9. ASSUME NEW r \in RunId
      PROVE  recorded'[r] \subseteq PathsOf(installed', r)
  BY <1>1, <1>5 DEF ImportInv
<1> QED BY <1>1, <1>8, <1>9 DEF ImportInv

LEMMA FinishKeepsImport ==
    ASSUME RunInv, ImportInv, NEW e \in Proc, FinishApply(e)
    PROVE  ImportInv'
<1> DEFINE r == RunOf(proc[e].plan)
<1>1. /\ proc[e].pc = "copy" /\ proc[e].todo = {} /\ Stop(e) /\ UNCHANGED installed
      /\ \/ recorded' = [recorded EXCEPT ![r] = DOMAIN proc[e].diff]
         \/ UNCHANGED recorded
  BY DEF FinishApply, AllReplaced, host
<1>2. DOMAIN proc[e].diff \subseteq PathsOf(installed, r)
  BY <1>1 DEF ImportInv, Importing
<1>3. /\ recorded' = [q \in RunId |-> recorded'[q]]
      /\ \A q \in RunId : recorded'[q] \subseteq PathsOf(installed, q)
  <2> HIDE DEF r
  <2> QED BY <1>1, <1>2 DEF ImportInv
<1>4. proc'[e].pc = "idle" /\ \A f \in Proc \ {e} : proc'[f] = proc[f]
  BY <1>1 DEF Stop, NoProc, RunInv, ProcInv
<1>5. \A f \in Proc : Importing(f)' =>
        DOMAIN proc'[f].diff \ proc'[f].todo \subseteq PathsOf(installed, RunOf(proc'[f].plan))
  BY <1>4 DEF ImportInv, Importing
<1> QED BY <1>1, <1>3, <1>5 DEF ImportInv

LEMMA ApplyStepKeepsImport ==
    ASSUME RunInv, ImportInv, NEW e \in Proc, ApplyStep(e)
    PROVE  ImportInv'
<1>1. ASSUME NEW r \in RunId, BeginApply(e, r) PROVE ImportInv'
  BY <1>1, BeginKeepsImport
<1>2. CASE CopyChange(e)
  <2>1. /\ proc[e].pc = "copy" /\ UNCHANGED <<installed, recorded>>
        /\ Goto(e, "replace") \/ Stop(e)
    BY <1>2 DEF CopyChange, store
  <2>2. CASE Goto(e, "replace")
    <3> DEFINE state == [proc[e] EXCEPT !.pc = "replace"]
    <3>1. proc' = [proc EXCEPT ![e] = state]
      BY <2>2 DEF Goto
    <3>2. /\ state.plan = proc[e].plan /\ state.todo = proc[e].todo
          /\ state.diff = proc[e].diff
      BY Fields DEF RunInv, ProcInv
    <3> HIDE DEF state
    <3>3. proc'[e] = state /\ \A f \in Proc \ {e} : proc'[f] = proc[f]
      BY <3>1 DEF RunInv, ProcInv
    <3> QED BY <2>1, <3>2, <3>3, QuietKeepsImport DEF Importing
  <2> QED BY <2>1, <2>2, StopKeepsImport
<1>3. CASE ReplaceChange(e)
  BY <1>3, ReplaceKeepsImport
<1>4. CASE FinishApply(e)
  BY <1>4, FinishKeepsImport
<1> QED BY <1>1, <1>2, <1>3, <1>4 DEF ApplyStep

LEMMA ImportInvStep == RunInv /\ ImportInv /\ [Next]_vars => ImportInv'
<1> SUFFICES ASSUME RunInv, ImportInv, [Next]_vars PROVE ImportInv'
  OBVIOUS
<1>1. CASE UNCHANGED <<proc, installed, recorded>>
  BY <1>1, QuietKeepsImport DEF Importing
<1>2. CASE UNCHANGED vars
  BY <1>1, <1>2 DEF vars, host, store
<1>3. CASE UserStep
  BY <1>1, <1>3 DEF UserStep, EditProject, SealPlan, Approve, Expire, ShowChanges, Attest,
     Promote, host, store, session
<1>4. ASSUME NEW r \in RunId, WorkerStep(r) PROVE ImportInv'
  <2>1. CASE StartWorker(r) \/ CheckSource(r) \/ CopySource(r) \/ VerifyConsumed(r)
    BY <1>1, <2>1 DEF StartWorker, CheckSource, CopySource, VerifyConsumed, host, store
  <2>2. CASE WorkerInventory(r) \/ RecipeEnds(r) \/ RecipeTimesOut(r)
    BY <1>1, <2>2 DEF WorkerInventory, RecipeEnds, RecipeTimesOut, host, store
  <2>3. ASSUME NEW id \in OpId, WorkerExecute(r, id) \/ OrphanEnds(r, id)
        PROVE  ImportInv'
    BY <1>1, <2>3 DEF WorkerExecute, OrphanEnds, host, store
  <2>4. ASSUME NEW id \in OpId, NEW path \in Path, WorkerRead(r, id, path)
        PROVE  ImportInv'
    BY <1>1, <2>4 DEF WorkerRead, host, store
  <2>5. ASSUME NEW id, NEW path, NEW base, NEW content,
               WorkerWrite(r, id, path, base, content)
        PROVE  ImportInv'
    BY <1>1, <2>5 DEF WorkerWrite, host, store
  <2>6. ASSUME NEW path, NEW content, ContainerWrites(r, path, content)
        PROVE  ImportInv'
    BY <1>1, <2>6 DEF ContainerWrites, host, store
  <2> QED BY <1>4, <2>1, <2>2, <2>3, <2>4, <2>5, <2>6 DEF WorkerStep
<1> QED BY <1>2, <1>3, <1>4, RunStepKeepsImport, ApplyStepKeepsImport DEF Next

(* applied.json of a run names only files the import replaced, also when   *)
(* imports stop half way, are begun again, or run two at a time.           *)
THEOREM AppliedIsAlwaysComplete == Spec => []AppliedIsComplete
<1>1. ImportInv => AppliedIsComplete
  BY DEF ImportInv, AppliedIsComplete, PathsOf
<1> QED
  BY <1>1, RunInvInit, RunInvStep, ImportInvInit, ImportInvStep, PTL DEF Spec
-----------------------------------------------------------------------------
(* What the worker session of a governed run did: a result rests on all    *)
(* recipes, each executed once, and on a timely approval.                  *)

SessionField == DOMAIN NoSession

(* The run's approval was consumed in time, and whole.                     *)
Timely(r) == consumed[r] # None /\ consumed[r].whole /\ ~consumed[r].late

(* While no call has failed, the containers started are those of the       *)
(* recipes that are completed and of the one that runs.                    *)
Undisturbed(state, counts) ==
    state.pc # "ended" /\ ~state.failed =>
      /\ state.orphans = {}
      /\ \A op \in OpId :
           counts[op] = IF op \in state.completed \/ (state.pc = "busy" /\ op = state.op)
                        THEN "once" ELSE "none"

(* A session serves only under such an approval, and it has completed what *)
(* it has receipts for.                                                    *)
SessionOK(r) ==
    /\ worker[r].pc = "none" => worker[r].completed = {} /\ worker[r].calls = {}
    /\ worker[r].pc \in {"ready", "busy"} => Timely(r)
    /\ worker[r].pc = "busy" => worker[r].op \in OpId \ worker[r].completed
    /\ worker[r].completed \subseteq OpId
    /\ \A call \in worker[r].calls :
         call.tool = "worker_execute" => call.op \in worker[r].completed
    /\ Undisturbed(worker[r], executions[r])

Count == {"none", "once", "again"}

SessionInv ==
    /\ worker = [r \in RunId |-> [field \in SessionField |-> worker[r][field]]]
    /\ executions \in [RunId -> [OpId -> Count]]
    /\ \A r \in RunId : SessionOK(r)

LEMMA SessionFields ==
    SessionField = {"pc", "todo", "op", "completed", "orphans", "calls", "failed"}
BY DEF SessionField, NoSession

LEMMA SessionInvInit == Init => SessionInv
<1> SUFFICES ASSUME Init PROVE SessionInv
  OBVIOUS
<1>1. /\ worker = [r \in RunId |-> NoSession]
      /\ executions = [r \in RunId |-> [op \in OpId |-> "none"]]
  BY DEF Init
<1>2. NoSession = [field \in SessionField |-> NoSession[field]]
  BY DEF SessionField, NoSession
<1>3. \A r \in RunId : SessionOK(r)
  BY <1>1 DEF SessionOK, NoSession, Undisturbed
<1> QED BY <1>1, <1>2, <1>3 DEF SessionInv, Count

(* A consumption that is written stays as it is.                           *)
Kept == \A r \in RunId : consumed[r] # None => consumed'[r] = consumed[r]

LEMMA SessionsUntouched ==
    ASSUME SessionInv, UNCHANGED <<worker, executions>>, Kept
    PROVE  SessionInv'
<1>1. \A r \in RunId : Timely(r) => Timely(r)'
  BY DEF Kept, Timely
<1>2. \A r \in RunId : SessionOK(r)'
  BY <1>1 DEF SessionInv, SessionOK
<1> QED BY <1>2 DEF SessionInv

(* What a session may be, with its run's counts of containers.             *)
GoodSession(r, state, counts) ==
    /\ state = [field \in SessionField |-> state[field]]
    /\ counts \in [OpId -> Count]
    /\ state.pc = "none" => state.completed = {} /\ state.calls = {}
    /\ state.pc \in {"ready", "busy"} => Timely(r)
    /\ state.pc = "busy" => state.op \in OpId \ state.completed
    /\ state.completed \subseteq OpId
    /\ \A call \in state.calls :
         call.tool = "worker_execute" => call.op \in state.completed
    /\ Undisturbed(state, counts)

(* The step of one session.                                                *)
LEMMA OneSessionMoves ==
    ASSUME SessionInv, NEW r \in RunId, NEW state, NEW counts,
           GoodSession(r, state, counts),
           worker' = [worker EXCEPT ![r] = state],
           executions' = [executions EXCEPT ![r] = counts],
           UNCHANGED consumed
    PROVE  SessionInv'
<1>1. /\ worker'[r] = state /\ \A q \in RunId \ {r} : worker'[q] = worker[q]
      /\ executions'[r] = counts /\ \A q \in RunId \ {r} : executions'[q] = executions[q]
  BY DEF SessionInv
<1>2. /\ worker' = [q \in RunId |-> [field \in SessionField |-> worker'[q][field]]]
      /\ executions' \in [RunId -> [OpId -> Count]]
  <2>1. worker' = [q \in RunId |-> worker'[q]]
    BY DEF SessionInv
  <2>2. \A q \in RunId : worker'[q] = [field \in SessionField |-> worker'[q][field]]
    BY <1>1 DEF SessionInv, GoodSession
  <2>3. executions' \in [RunId -> [OpId -> Count]]
    BY DEF SessionInv, GoodSession
  <2> QED BY <2>1, <2>2, <2>3
<1>3. SessionOK(r)'
  <2>1. Timely(r) => Timely(r)'
    BY DEF Timely
  <2>2. /\ worker'[r].pc = state.pc /\ worker'[r].op = state.op
        /\ worker'[r].completed = state.completed /\ worker'[r].calls = state.calls
    BY <1>1
  <2>3. Undisturbed(worker'[r], executions'[r])
    BY <1>1 DEF GoodSession
  <2> QED BY <2>1, <2>2, <2>3 DEF GoodSession, SessionOK
<1>4. ASSUME NEW q \in RunId \ {r} PROVE SessionOK(q)'
  BY <1>1, <1>4 DEF SessionInv, SessionOK, Timely
<1> QED BY <1>2, <1>3, <1>4 DEF SessionInv

(* Where nothing but the session's other fields changes.                   *)
LEMMA SessionKeepsItsWork ==
    ASSUME SessionInv, NEW r \in RunId, NEW state,
           state = [field \in SessionField |-> state[field]],
           worker' = [worker EXCEPT ![r] = state],
           UNCHANGED <<executions, consumed>>,
           state.completed = worker[r].completed,
           worker[r].pc # "none", state.pc # "none", state.pc # "busy",
           \/ state.failed = TRUE
           \/ /\ worker[r].pc \notin {"busy", "ended"}
              /\ state.failed = worker[r].failed /\ state.orphans = worker[r].orphans,
           state.pc = "ready" => Timely(r),
           \A call \in state.calls : call \in worker[r].calls \/ call.tool # "worker_execute"
    PROVE  SessionInv'
<1> DEFINE counts == executions[r]
<1>1. counts \in [OpId -> Count] /\ executions' = [executions EXCEPT ![r] = counts]
  BY DEF SessionInv
<1>2. SessionOK(r)
  BY DEF SessionInv
<1>3. /\ state.completed \subseteq OpId
      /\ \A call \in state.calls :
           call.tool = "worker_execute" => call.op \in state.completed
      /\ Undisturbed(state, counts)
  BY <1>2 DEF SessionOK, Undisturbed
<1>4. /\ state.pc = "none" => state.completed = {} /\ state.calls = {}
      /\ state.pc \in {"ready", "busy"} => Timely(r)
      /\ state.pc = "busy" => state.op \in OpId \ state.completed
  OBVIOUS
<1>5. UNCHANGED consumed
  OBVIOUS
<1> HIDE DEF counts
<1>6. GoodSession(r, state, counts)
  BY <1>1, <1>3, <1>4 DEF GoodSession
<1> QED BY <1>1, <1>5, <1>6, OneSessionMoves
-----------------------------------------------------------------------------
(* The steps of a session.                                                 *)

LEMMA ShapeOf ==
    ASSUME SessionInv, NEW r \in RunId
    PROVE  worker[r] = [field \in SessionField |-> worker[r][field]] /\ SessionOK(r)
BY DEF SessionInv

LEMMA StartKeepsSessions ==
    ASSUME SessionInv, NEW r \in RunId, StartWorker(r)
    PROVE  SessionInv'
<1> DEFINE state == [worker[r] EXCEPT !.pc = "checking", !.op = None, !.completed = {},
                                      !.todo = DOMAIN Manifest0(planOf[r])]
<1>1. worker[r].pc = "none" /\ UNCHANGED <<executions, consumed>>
  BY DEF StartWorker, MayMaterialize, approvals
<1>2. worker' = [worker EXCEPT ![r] = state]
  BY DEF StartWorker
<1>3. /\ state = [field \in SessionField |-> state[field]]
      /\ state.pc = "checking" /\ state.completed = {} /\ state.calls = worker[r].calls
      /\ state.failed = worker[r].failed /\ state.orphans = worker[r].orphans
  BY ShapeOf, SessionFields
<1>4. worker[r].completed = {} /\ worker[r].calls = {} /\ SessionOK(r)
  BY <1>1, ShapeOf DEF SessionOK
<1> HIDE DEF state
<1> DEFINE counts == executions[r]
<1>5. /\ counts \in [OpId -> Count] /\ executions' = [executions EXCEPT ![r] = counts]
      /\ Undisturbed(state, counts)
  BY <1>1, <1>3, <1>4 DEF SessionInv, SessionOK, Undisturbed
<1> HIDE DEF counts
<1>6. GoodSession(r, state, counts)
  BY <1>3, <1>4, <1>5 DEF GoodSession
<1> QED BY <1>1, <1>2, <1>5, <1>6, OneSessionMoves

(* Steps in which the session only moves on.                               *)
LEMMA PlainStepKeepsSessions ==
    ASSUME SessionInv, NEW r \in RunId,
           CheckSource(r) \/ CopySource(r) \/ VerifyConsumed(r)
    PROVE  SessionInv'
<1>1. worker[r].pc \in {"checking", "copying"} /\ UNCHANGED <<executions, consumed>>
  BY DEF CheckSource, CopySource, VerifyConsumed, approvals
<1>2. PICK pc \in {"checking", "copying", "ready", "ended"}, todo \in SUBSET worker[r].todo :
        /\ worker' = [worker EXCEPT ![r] = [worker[r] EXCEPT !.pc = pc, !.todo = todo]]
        /\ pc = "ready" => Timely(r)
  <2>1. worker[r] = [field \in SessionField |-> worker[r][field]]
    BY ShapeOf
  <2> DEFINE Moved(pc, todo) == [worker[r] EXCEPT !.pc = pc, !.todo = todo]
  <2>2. ASSUME NEW pc, SetWorker(r, pc)
        PROVE  worker' = [worker EXCEPT ![r] = Moved(pc, worker[r].todo)]
    <3>1. [worker[r] EXCEPT !.pc = pc] = Moved(pc, worker[r].todo)
      BY <2>1, SessionFields
    <3>2. worker' = [worker EXCEPT ![r] = [worker[r] EXCEPT !.pc = pc]]
      BY <2>2 DEF SetWorker
    <3> QED BY <3>1, <3>2
  <2>3. ASSUME NEW path, worker[r].pc = "checking",
               worker' = [worker EXCEPT ![r].todo = @ \ {path}]
        PROVE  worker' = [worker EXCEPT ![r] = Moved("checking", worker[r].todo \ {path})]
    <3>1. [worker[r] EXCEPT !.todo = @ \ {path}] = Moved("checking", worker[r].todo \ {path})
      BY <2>1, <2>3, SessionFields
    <3>2. worker' = [worker EXCEPT ![r] = [worker[r] EXCEPT !.todo = @ \ {path}]]
      BY <2>3
    <3> QED BY <3>1, <3>2
  <2> DEFINE Todo == SUBSET worker[r].todo
  <2>4. worker[r].todo \in Todo /\ \A path : worker[r].todo \ {path} \in Todo
    OBVIOUS
  <2>5. CASE CheckSource(r)
    <3>1. \/ SetWorker(r, "ended") \/ SetWorker(r, "copying")
          \/ \E path : /\ worker[r].pc = "checking"
                       /\ worker' = [worker EXCEPT ![r].todo = @ \ {path}]
      BY <2>5 DEF CheckSource
    <3> HIDE DEF Moved, Todo
    <3>2. CASE SetWorker(r, "ended") \/ SetWorker(r, "copying")
      <4>1. \E pc \in {"copying", "ended"} :
              worker' = [worker EXCEPT ![r] = Moved(pc, worker[r].todo)]
        BY <2>2, <3>2
      <4> QED BY <4>1, <2>4 DEF Moved, Todo
    <3>3. ASSUME NEW path, worker[r].pc = "checking",
                 worker' = [worker EXCEPT ![r].todo = @ \ {path}]
          PROVE  \E todo \in Todo : worker' = [worker EXCEPT ![r] = Moved("checking", todo)]
      BY <2>3, <2>4, <3>3
    <3> QED BY <3>1, <3>2, <3>3 DEF Moved, Todo
  <2>6. CASE CopySource(r)
    <3> DEFINE path == Min(worker[r].todo)
               pc == IF project[path] = Absent THEN "ended" ELSE "checking"
    <3>1. worker' = [worker EXCEPT ![r] = [worker[r] EXCEPT !.todo = @ \ {path}, !.pc = pc]]
      BY <2>6 DEF CopySource
    <3>2. [worker[r] EXCEPT !.todo = @ \ {path}, !.pc = pc]
            = Moved(pc, worker[r].todo \ {path})
      BY <2>1, SessionFields
    <3>3. pc \in {"checking", "ended"}
      OBVIOUS
    <3>4. worker' = [worker EXCEPT ![r] = Moved(pc, worker[r].todo \ {path})]
      BY <3>1, <3>2
    <3> HIDE DEF pc, path, Todo
    <3> QED BY <2>4, <3>3, <3>4 DEF Todo
  <2>7. CASE VerifyConsumed(r)
    <3> DEFINE pc == IF ConsumptionAccepted(r) THEN "ready" ELSE "ended"
    <3>1. SetWorker(r, pc)
      BY <2>7 DEF VerifyConsumed
    <3>2. worker' = [worker EXCEPT ![r] = Moved(pc, worker[r].todo)]
      BY <2>2, <3>1
    <3>3. pc = "ready" => Timely(r)
      BY DEF ConsumptionAccepted, Timely
    <3>4. pc \in {"checking", "copying", "ready", "ended"}
      OBVIOUS
    <3> HIDE DEF pc
    <3> QED BY <3>2, <3>3, <3>4
  <2> QED BY <2>5, <2>6, <2>7
<1> DEFINE state == [worker[r] EXCEPT !.pc = pc, !.todo = todo]
<1>3. /\ state = [field \in SessionField |-> state[field]] /\ state.pc = pc
      /\ state.completed = worker[r].completed /\ state.calls = worker[r].calls
      /\ state.failed = worker[r].failed /\ state.orphans = worker[r].orphans
  BY ShapeOf, SessionFields
<1> HIDE DEF state
<1> QED BY <1>1, <1>2, <1>3, SessionKeepsItsWork DEF state

(* A call of Codex is answered by a session that is ready.                 *)
LEMMA CallKeepsSessions ==
    ASSUME SessionInv, NEW r \in RunId, worker[r].pc = "ready",
           UNCHANGED <<executions, consumed>>,
           NEW tool, NEW id, NEW paths, tool # "worker_execute",
           \/ worker' = [worker EXCEPT ![r].calls = Called(r, tool, id, paths)]
           \/ CallFails(r)
    PROVE  SessionInv'
<1>1. Timely(r)
  BY ShapeOf DEF SessionOK
<1>2. CASE worker' = [worker EXCEPT ![r].calls = Called(r, tool, id, paths)]
  <2> DEFINE state == [worker[r] EXCEPT !.calls = Called(r, tool, id, paths)]
  <2>1. worker' = [worker EXCEPT ![r] = state]
    BY <1>2
  <2>2. /\ state = [field \in SessionField |-> state[field]] /\ state.pc = "ready"
        /\ state.completed = worker[r].completed
        /\ state.calls = worker[r].calls \cup {[tool |-> tool, op |-> id, paths |-> paths]}
        /\ state.failed = worker[r].failed /\ state.orphans = worker[r].orphans
    BY ShapeOf, SessionFields DEF Called
  <2>3. \A call \in state.calls : call \in worker[r].calls \/ call.tool # "worker_execute"
    BY <2>2
  <2> HIDE DEF state
  <2> QED BY <1>1, <2>1, <2>2, <2>3, SessionKeepsItsWork
<1>3. CASE CallFails(r)
  <2> DEFINE state == [worker[r] EXCEPT !.failed = TRUE]
  <2>1. worker' = [worker EXCEPT ![r] = state]
    BY <1>3 DEF CallFails
  <2>2. /\ state = [field \in SessionField |-> state[field]] /\ state.pc = "ready"
        /\ state.completed = worker[r].completed /\ state.calls = worker[r].calls
        /\ state.failed = TRUE
    BY ShapeOf, SessionFields
  <2> HIDE DEF state
  <2> QED BY <1>1, <2>1, <2>2, SessionKeepsItsWork
<1> QED BY <1>2, <1>3

(* A recipe runs only if it has not completed: where no call has failed,   *)
(* it has not been started either.                                         *)
LEMMA ExecuteKeepsSessions ==
    ASSUME SessionInv, NEW r \in RunId, NEW id \in OpId, WorkerExecute(r, id)
    PROVE  SessionInv'
<1>1. worker[r].pc = "ready" /\ UNCHANGED consumed
  BY DEF WorkerExecute, Serving, approvals
<1>2. CASE CallFails(r) /\ UNCHANGED executions
  BY <1>1, <1>2, CallKeepsSessions
<1>3. CASE /\ id \notin worker[r].completed
           /\ worker' = [worker EXCEPT ![r].pc = "busy", ![r].op = id]
           /\ executions' = [executions EXCEPT ![r][id] = OnceMore(@)]
  <2> DEFINE state == [worker[r] EXCEPT !.pc = "busy", !.op = id]
             counts == [executions[r] EXCEPT ![id] = OnceMore(@)]
  <2>1. worker' = [worker EXCEPT ![r] = state]
    BY <1>3
  <2>2. /\ state = [field \in SessionField |-> state[field]]
        /\ state.pc = "busy" /\ state.op = id
        /\ state.completed = worker[r].completed /\ state.calls = worker[r].calls
        /\ state.failed = worker[r].failed /\ state.orphans = worker[r].orphans
    BY ShapeOf, SessionFields
  <2>3. executions' = [executions EXCEPT ![r] = counts]
    BY <1>3
  <2>4. SessionOK(r) /\ executions[r] \in [OpId -> Count]
    BY DEF SessionInv
  <2>5. /\ counts \in [OpId -> Count]
        /\ \A op \in OpId : counts[op] = IF op = id THEN OnceMore(executions[r][op])
                                         ELSE executions[r][op]
    BY <2>4 DEF OnceMore, Count
  <2>6. Undisturbed(state, counts)
    <3> HIDE DEF state, counts
    <3>1. Undisturbed(worker[r], executions[r])
      BY <2>4 DEF SessionOK
    <3>2. SUFFICES ASSUME ~worker[r].failed
                   PROVE  /\ worker[r].orphans = {}
                          /\ \A op \in OpId : counts[op] =
                               IF op \in worker[r].completed \/ op = id THEN "once" ELSE "none"
      BY <2>2 DEF Undisturbed
    <3>3. /\ worker[r].orphans = {}
          /\ \A op \in OpId :
               executions[r][op] = IF op \in worker[r].completed THEN "once" ELSE "none"
      BY <1>1, <3>1, <3>2 DEF Undisturbed
    <3> QED BY <1>3, <2>5, <3>3 DEF OnceMore
  <2>7. /\ state.pc = "none" => state.completed = {} /\ state.calls = {}
        /\ state.pc \in {"ready", "busy"} => Timely(r)
        /\ state.pc = "busy" => state.op \in OpId \ state.completed
        /\ state.completed \subseteq OpId
        /\ \A call \in state.calls :
             call.tool = "worker_execute" => call.op \in state.completed
    BY <1>1, <1>3, <2>2, <2>4 DEF SessionOK
  <2> HIDE DEF state, counts
  <2>8. GoodSession(r, state, counts)
    BY <2>2, <2>5, <2>6, <2>7 DEF GoodSession
  <2> QED BY <1>1, <2>1, <2>3, <2>8, OneSessionMoves
<1> QED BY <1>2, <1>3 DEF WorkerExecute, Executable

LEMMA RecipeKeepsSessions ==
    ASSUME SessionInv, NEW r \in RunId, RecipeEnds(r)
    PROVE  SessionInv'
<1> DEFINE id == worker[r].op
           call == [tool |-> "worker_execute", op |-> id, paths |-> {}]
           state == [worker[r] EXCEPT !.pc = "ready", !.op = None,
                       !.completed = @ \cup {id},
                       !.calls = Called(r, "worker_execute", id, {})]
           counts == executions[r]
<1>1. worker[r].pc = "busy" /\ UNCHANGED <<executions, consumed>>
  BY DEF RecipeEnds, approvals
<1>2. worker' = [worker EXCEPT ![r] = state]
  BY DEF RecipeEnds
<1>3. /\ state = [field \in SessionField |-> state[field]] /\ state.pc = "ready"
      /\ state.completed = worker[r].completed \cup {id}
      /\ state.calls = worker[r].calls \cup {call}
      /\ state.failed = worker[r].failed /\ state.orphans = worker[r].orphans
  BY ShapeOf, SessionFields DEF Called
<1>4. SessionOK(r)
  BY ShapeOf
<1>5. id \in OpId \ worker[r].completed /\ Timely(r) /\ worker[r].completed \subseteq OpId
  BY <1>1, <1>4 DEF SessionOK
<1>6. counts \in [OpId -> Count] /\ executions' = [executions EXCEPT ![r] = counts]
  BY <1>1 DEF SessionInv
<1>7. Undisturbed(worker[r], counts)
  BY <1>4 DEF SessionOK
<1>8. Undisturbed(state, counts)
  <2> HIDE DEF counts, state
  <2> QED BY <1>1, <1>3, <1>7 DEF Undisturbed
<1>9. \A c \in state.calls : c.tool = "worker_execute" => c.op \in state.completed
  <2>1. call.op = id
    OBVIOUS
  <2> HIDE DEF call, state, id
  <2> QED BY <1>3, <1>4, <2>1 DEF SessionOK
<1>10. state.completed \subseteq OpId
  <2> HIDE DEF state, id
  <2> QED BY <1>3, <1>5
<1> HIDE DEF state, counts
<1>11. GoodSession(r, state, counts)
  BY <1>3, <1>5, <1>6, <1>8, <1>9, <1>10 DEF GoodSession
<1> QED BY <1>1, <1>2, <1>6, <1>11, OneSessionMoves

(* A timeout is a call that failed.                                        *)
LEMMA TimeoutKeepsSessions ==
    ASSUME SessionInv, NEW r \in RunId, RecipeTimesOut(r)
    PROVE  SessionInv'
<1> DEFINE state == [worker[r] EXCEPT !.pc = "ready", !.op = None,
                       !.orphans = @ \cup {worker[r].op}, !.failed = TRUE]
<1>1. worker[r].pc = "busy" /\ UNCHANGED <<executions, consumed>>
  BY DEF RecipeTimesOut, approvals
<1>2. worker' = [worker EXCEPT ![r] = state]
  BY DEF RecipeTimesOut
<1>3. /\ state = [field \in SessionField |-> state[field]] /\ state.pc = "ready"
      /\ state.completed = worker[r].completed /\ state.calls = worker[r].calls
      /\ state.failed = TRUE
  BY ShapeOf, SessionFields
<1>4. Timely(r)
  BY <1>1, ShapeOf DEF SessionOK
<1> HIDE DEF state
<1> QED BY <1>1, <1>2, <1>3, <1>4, SessionKeepsItsWork

(* Only the set of containers left behind changes, and not where no call   *)
(* has failed.                                                             *)
LEMMA OrphanKeepsSessions ==
    ASSUME SessionInv, NEW r \in RunId, NEW id \in OpId, OrphanEnds(r, id)
    PROVE  SessionInv'
<1> DEFINE state == [worker[r] EXCEPT !.orphans = @ \ {id}]
           counts == executions[r]
<1>1. worker' = [worker EXCEPT ![r] = state] /\ UNCHANGED <<executions, consumed>>
  BY DEF OrphanEnds, approvals
<1>2. /\ state = [field \in SessionField |-> state[field]]
      /\ state.pc = worker[r].pc /\ state.op = worker[r].op
      /\ state.completed = worker[r].completed /\ state.calls = worker[r].calls
      /\ state.failed = worker[r].failed /\ state.orphans = worker[r].orphans \ {id}
  BY ShapeOf, SessionFields
<1>3. counts \in [OpId -> Count] /\ executions' = [executions EXCEPT ![r] = counts]
  BY <1>1 DEF SessionInv
<1>4. SessionOK(r)
  BY ShapeOf
<1> HIDE DEF state
<1>5. /\ state.pc = "none" => state.completed = {} /\ state.calls = {}
      /\ state.pc \in {"ready", "busy"} => Timely(r)
      /\ state.pc = "busy" => state.op \in OpId \ state.completed
      /\ state.completed \subseteq OpId
      /\ \A call \in state.calls :
           call.tool = "worker_execute" => call.op \in state.completed
  BY <1>2, <1>4 DEF SessionOK
<1>7. Undisturbed(state, counts)
  <2>1. Undisturbed(worker[r], counts)
    BY <1>4 DEF SessionOK
  <2> HIDE DEF counts
  <2> QED BY <1>2, <2>1 DEF Undisturbed
<1> HIDE DEF counts
<1>6. GoodSession(r, state, counts)
  BY <1>2, <1>3, <1>5, <1>7 DEF GoodSession
<1> QED BY <1>1, <1>3, <1>6, OneSessionMoves

(* The session ends with Codex; what it completed, and what it leaves      *)
(* running, is known from then on.                                         *)
LEMMA EndKeepsSessions ==
    ASSUME SessionInv, NEW r \in RunId, EndSession(r), UNCHANGED <<executions, consumed>>
    PROVE  /\ SessionInv'
           /\ worker'[r].pc = "ended"
           /\ worker[r].pc # "busy" => worker'[r].orphans = worker[r].orphans
           /\ worker'[r].completed = worker[r].completed
           /\ \A q \in RunId \ {r} : worker'[q] = worker[q]
<1> DEFINE left == IF worker[r].pc = "busy" THEN worker[r].orphans \cup {worker[r].op}
                   ELSE worker[r].orphans
           state == [worker[r] EXCEPT !.pc = "ended", !.op = None, !.todo = {},
                       !.calls = {}, !.failed = FALSE, !.orphans = left]
           counts == executions[r]
<1>1. worker' = [worker EXCEPT ![r] = state]
  BY DEF EndSession
<1>2. /\ state = [field \in SessionField |-> state[field]] /\ state.pc = "ended"
      /\ state.completed = worker[r].completed /\ state.calls = {}
      /\ worker[r].pc # "busy" => state.orphans = worker[r].orphans
  BY ShapeOf, SessionFields
<1>3. counts \in [OpId -> Count] /\ executions' = [executions EXCEPT ![r] = counts]
  BY DEF SessionInv
<1>4. SessionOK(r)
  BY ShapeOf
<1> HIDE DEF state
<1>5. state.completed \subseteq OpId /\ Undisturbed(state, counts)
  BY <1>2, <1>4 DEF SessionOK, Undisturbed
<1> HIDE DEF counts
<1>8. GoodSession(r, state, counts)
  BY <1>2, <1>3, <1>5 DEF GoodSession
<1>6. SessionInv'
  BY <1>1, <1>3, <1>8, OneSessionMoves
<1>7. worker'[r] = state /\ \A q \in RunId \ {r} : worker'[q] = worker[q]
  BY <1>1 DEF SessionInv
<1> QED BY <1>2, <1>6, <1>7
-----------------------------------------------------------------------------
(* All steps.                                                              *)

LEMMA RunStepKept ==
    ASSUME RunInv, NEW e \in Proc, RunStep(e)
    PROVE  Kept
<1>1. CASE ConsumeApproval(e)
  <2>1. proc[e].plan \in Plan /\ consumed[RunOf(proc[e].plan)] = None
    BY <1>1 DEF ConsumeApproval, Consumable, RunInv, ProcInv, Planned, Executing
  <2>2. PICK record : consumed' = [consumed EXCEPT ![RunOf(proc[e].plan)] = record]
    BY <1>1 DEF ConsumeApproval
  <2> QED BY <2>1, <2>2, RunIds DEF Kept, RunInv, SpentInv
<1>2. CASE ~ConsumeApproval(e)
  <2>1. UNCHANGED consumed
    BY <1>2 DEF RunStep, BeginRun, VerifyBeforeConsume, RefuseApproval, CreateRun,
       LaunchCodex, Crash, CodexFails, CodexOverCeiling, CodexCompletes, WriteResult,
       approvals
  <2> QED BY <2>1 DEF Kept
<1> QED BY <1>1, <1>2

(* Codex has ended: its process says so, and its session with it.          *)
CodexEnds(e) ==
    \/ CodexFails(e) \/ CodexOverCeiling(e)
    \/ \E segments \in Answers : CodexCompletes(e, segments)

LEMMA CodexEndsSession ==
    ASSUME RunInv, NEW e \in Proc, CodexEnds(e)
    PROVE  /\ proc[e].plan \in Plan /\ RunOf(proc[e].plan) \in RunId
           /\ EndSession(RunOf(proc[e].plan))
           /\ UNCHANGED <<executions, consumed>>
<1>1. proc[e].pc = "running"
  BY DEF CodexEnds, CodexFails, CodexOverCeiling, CodexCompletes
<1>2. proc[e].plan \in Plan
  BY <1>1 DEF RunInv, ProcInv, Planned, Executing
<1>3. EndSession(RunOf(proc[e].plan)) /\ UNCHANGED <<executions, approvals>>
  BY DEF CodexEnds, CodexFails, CodexOverCeiling, CodexCompletes
<1> QED BY <1>2, <1>3, RunIds DEF approvals

LEMMA RunStepKeepsSessions ==
    ASSUME RunInv, SessionInv, NEW e \in Proc, RunStep(e)
    PROVE  SessionInv'
<1>1. CASE CodexEnds(e)
  BY <1>1, CodexEndsSession, EndKeepsSessions
<1>2. CASE ~CodexEnds(e)
  <2>1. UNCHANGED <<worker, executions>>
    BY <1>2 DEF RunStep, BeginRun, VerifyBeforeConsume, ConsumeApproval, RefuseApproval,
       CreateRun, LaunchCodex, Crash, WriteResult, CodexEnds, session
  <2> QED BY <2>1, RunStepKept, SessionsUntouched
<1> QED BY <1>1, <1>2

LEMMA ReadTools == ToolOf("read") = "worker_read" /\ ToolOf("search") = "worker_search"
<1>1. ToolOf("read") = "worker_read"
  BY DEF ToolOf, Recipes
<1>2. ToolOf("search") = "worker_search"
  BY DEF ToolOf, Recipes
<1> QED BY <1>1, <1>2

LEMMA WorkerStepKeepsSessions ==
    ASSUME SessionInv, NEW r \in RunId, WorkerStep(r)
    PROVE  SessionInv'
<1>1. CASE StartWorker(r)
  BY <1>1, StartKeepsSessions
<1>2. CASE CheckSource(r) \/ CopySource(r) \/ VerifyConsumed(r)
  BY <1>2, PlainStepKeepsSessions
<1>3. CASE WorkerInventory(r)
  <2>1. worker' = [worker EXCEPT ![r].calls = Called(r, "worker_inventory", None, {})]
    BY <1>3 DEF WorkerInventory
  <2>2. worker[r].pc = "ready" /\ UNCHANGED <<executions, consumed>>
    BY <1>3 DEF WorkerInventory, Serving, approvals
  <2> QED BY <2>1, <2>2, CallKeepsSessions
<1>4. ASSUME NEW id \in OpId, WorkerExecute(r, id) PROVE SessionInv'
  BY <1>4, ExecuteKeepsSessions
<1>5. ASSUME NEW id \in OpId, OrphanEnds(r, id) PROVE SessionInv'
  BY <1>5, OrphanKeepsSessions
<1>6. ASSUME NEW id \in OpId, NEW path \in Path, WorkerRead(r, id, path) PROVE SessionInv'
  <2>1. worker[r].pc = "ready" /\ UNCHANGED <<executions, consumed>>
    BY <1>6 DEF WorkerRead, Serving, approvals
  <2>2. CASE CallFails(r)
    BY <2>1, <2>2, CallKeepsSessions
  <2>3. ASSUME NEW op \in Operation(r, id, {"read", "search"}),
               worker' = [worker EXCEPT ![r].calls = Called(r, ToolOf(op.kind), id, {path})]
        PROVE  SessionInv'
    <3>1. op.kind \in {"read", "search"}
      BY DEF Operation
    <3>2. ToolOf(op.kind) # "worker_execute"
      BY <3>1, ReadTools
    <3> QED BY <2>1, <2>3, <3>2, CallKeepsSessions
  <2> QED BY <1>6, <2>2, <2>3 DEF WorkerRead
<1>7. ASSUME NEW id \in OpId, NEW path \in Path, NEW base \in Content,
             NEW content \in Patched, WorkerWrite(r, id, path, base, content)
      PROVE  SessionInv'
  <2>1. worker[r].pc = "ready" /\ UNCHANGED <<executions, consumed>>
    BY <1>7 DEF WorkerWrite, Serving, approvals
  <2>2. \/ worker' = [worker EXCEPT ![r].calls = Called(r, "worker_write", id, {path})]
        \/ CallFails(r)
    BY <1>7 DEF WorkerWrite
  <2> QED BY <2>1, <2>2, CallKeepsSessions
<1>8. ASSUME NEW path \in Scribbled, NEW content \in Foreign,
             ContainerWrites(r, path, content)
      PROVE  SessionInv'
  <2>1. UNCHANGED <<worker, executions, consumed>>
    BY <1>8 DEF ContainerWrites, approvals
  <2> QED BY <2>1, SessionsUntouched DEF Kept
<1>9. CASE RecipeEnds(r) \/ RecipeTimesOut(r)
  BY <1>9, RecipeKeepsSessions, TimeoutKeepsSessions
<1> QED BY <1>1, <1>2, <1>3, <1>4, <1>5, <1>6, <1>7, <1>8, <1>9 DEF WorkerStep

LEMMA OtherStepsLeaveSessions ==
    ASSUME UserStep \/ \E e \in Proc : ApplyStep(e)
    PROVE  UNCHANGED <<worker, executions, consumed>>
<1>1. CASE UserStep
  BY <1>1 DEF UserStep, EditProject, SealPlan, Approve, Expire, ShowChanges, Attest,
     Promote, approvals, session
<1>2. ASSUME NEW e \in Proc, ApplyStep(e) PROVE UNCHANGED <<worker, executions, consumed>>
  BY <1>2 DEF ApplyStep, BeginApply, CopyChange, ReplaceChange, FinishApply, approvals,
     session
<1> QED BY <1>1, <1>2

LEMMA SessionInvStep == RunInv /\ SessionInv /\ [Next]_vars => SessionInv'
<1> SUFFICES ASSUME RunInv, SessionInv, [Next]_vars PROVE SessionInv'
  OBVIOUS
<1>1. CASE UNCHANGED vars
  <2>1. UNCHANGED <<worker, executions, consumed>>
    BY <1>1 DEF vars, session, approvals
  <2> QED BY <2>1, SessionsUntouched DEF Kept
<1>2. CASE UserStep \/ \E e \in Proc : ApplyStep(e)
  BY <1>2, OtherStepsLeaveSessions, SessionsUntouched DEF Kept
<1>3. CASE \E e \in Proc : RunStep(e)
  BY <1>3, RunStepKeepsSessions
<1>4. CASE \E r \in RunId : WorkerStep(r)
  BY <1>4, WorkerStepKeepsSessions
<1> QED BY <1>1, <1>2, <1>3, <1>4 DEF Next
-----------------------------------------------------------------------------
(* What a complete stream says of a valid plan.                            *)

DistinctIds(ops) == \A a, b \in ToSet(ops) : a.id = b.id => a = b

(* As many identifiers as operations: no two operations share one.         *)
LEMMA IdsAreDistinct ==
    ASSUME NEW S, NEW ops \in Seq(S), Cardinality(OperationIds(ops)) = Len(ops)
    PROVE  DistinctIds(ops)
<1> DEFINE n == Len(ops)
           ids == OperationIds(ops)
           f == [i \in 1..n |-> ops[i].id]
<1>1. n \in Nat /\ DOMAIN ops = 1..n
  OBVIOUS
<1>2. ToSet(ops) = {ops[i] : i \in 1..n}
  BY <1>1 DEF ToSet
<1>3. f \in [1..n -> ids]
  BY <1>2 DEF OperationIds
<1>4. \A id \in ids : \E i \in 1..n : f[i] = id
  BY <1>2 DEF OperationIds
<1>5. f \in Surjection(1..n, ids)
  BY <1>3, <1>4 DEF Surjection
<1>6. IsFiniteSet(1..n) /\ Cardinality(1..n) = n
  <2> HIDE DEF n
  <2>1. n \in Int /\ 1 \in Int /\ (IF 1 > n THEN 0 ELSE n - 1 + 1) = n
    BY <1>1
  <2>2. /\ IsFiniteSet(1..n)
        /\ Cardinality(1..n) = IF 1 > n THEN 0 ELSE n - 1 + 1
    BY <2>1, FS_Interval, Zenon
  <2> QED BY <2>1, <2>2
<1>7. Cardinality(ids) = Cardinality(1..n)
  BY <1>6
<1>8. f \in Injection(1..n, ids)
  <2> HIDE DEF f, ids, n
  <2> QED BY <1>5, <1>6, <1>7, FS_Surjection
<1>9. \A i, j \in 1..n : f[i] = f[j] => i = j
  BY <1>8 DEF Injection, IsInjective
<1> QED BY <1>2, <1>9 DEF DistinctIds

LEMMA RecipeTool == ASSUME NEW kind \in Recipes PROVE ToolOf(kind) = "worker_execute"
<1>1. ToolOf("test") = "worker_execute"
  BY DEF ToolOf, Recipes
<1>2. ToolOf("build") = "worker_execute"
  BY DEF ToolOf, Recipes
<1>3. ToolOf("experiment") = "worker_execute"
  BY DEF ToolOf, Recipes
<1> QED BY <1>1, <1>2, <1>3 DEF Recipes

(* A receipt for a recipe's identifier can only be that recipe's.          *)
LEMMA StreamHasRecipes ==
    ASSUME NEW plan, NEW calls, NEW failed, DistinctIds(plan.ops),
           StreamComplete(calls, failed, plan), NEW op \in ToSet(plan.ops), op.kind \in Recipes
    PROVE  \E call \in calls : call.tool = "worker_execute" /\ call.op = op.id
<1>1. PICK call \in calls : call.tool # "worker_inventory" /\ call.op = op.id
  BY DEF StreamComplete, Observed, OperationIds
<1>2. PICK other \in ToSet(plan.ops) : other.id = call.op /\ call.tool = ToolOf(other.kind)
  BY <1>1 DEF StreamComplete, Receipted, OperationForCall
<1>3. other = op
  BY <1>1, <1>2 DEF DistinctIds
<1> QED BY <1>1, <1>2, <1>3, RecipeTool
-----------------------------------------------------------------------------
(* The run directory: what its files rest on.                              *)

RecipesOf(r) == {op.id : op \in {o \in ToSet(Plan0(r).ops) : o.kind \in Recipes}}

(* The session of the run is over and has earned a result.                 *)
Earned(r) ==
    /\ Timely(r)
    /\ files[r].inputs = "whole"
    /\ worker[r].pc = "ended"
    /\ RecipesOf(r) \subseteq worker[r].completed
    /\ worker[r].orphans = {}
    /\ \A id \in RecipesOf(r) : executions[r][id] = "once"

ProcOK(e) ==
    /\ Planned(e) => bundle[proc[e].plan] # None
    /\ proc[e].pc \in {"created", "running"} => files[RunOf(proc[e].plan)].inputs = "whole"
    /\ proc[e].pc = "accepted" => Earned(RunOf(proc[e].plan))

RunOK(r) ==
    /\ files[r].inputs = "whole" => planOf[r] \in Plan /\ bundle[planOf[r]] # None
    /\ files[r].result # "absent" => Earned(r)

DirType ==
    /\ bundle = [p \in Plan |-> bundle[p]]
    /\ files \in [RunId -> [FileName -> FileState]]
    /\ planOf = [r \in RunId |-> planOf[r]]

SealedOK == \A p \in Plan : bundle[p] # None => DistinctIds(Sealed(p).ops)

DirInv ==
    /\ DirType
    /\ SealedOK
    /\ \A e \in Proc : ProcOK(e)
    /\ \A r \in RunId : RunOK(r)

LEMMA DirInvInit == Init => DirInv
<1> SUFFICES ASSUME Init PROVE DirInv
  OBVIOUS
<1>1. DirType
  BY DEF Init, DirType, FileState
<1>2. SealedOK
  BY DEF Init, SealedOK
<1>3. ASSUME NEW e \in Proc PROVE ProcOK(e)
  <2>1. proc[e].pc = "idle"
    BY DEF Init, NoProc
  <2> QED BY <2>1 DEF ProcOK, Planned, Executing
<1>4. ASSUME NEW r \in RunId PROVE RunOK(r)
  <2>1. files[r].inputs = "absent" /\ files[r].result = "absent"
    BY DEF Init, FileName
  <2> QED BY <2>1 DEF RunOK
<1> QED BY <1>1, <1>2, <1>3, <1>4 DEF DirInv

(* What no step takes back: a consumption, a sealed bundle, the plan of a  *)
(* run directory, the work of a session that is over.                      *)
Steady ==
    /\ Kept
    /\ \A p \in Plan : bundle[p] # None => bundle'[p] = bundle[p]
    /\ \A r \in RunId : files[r].inputs # "absent" =>
         files'[r].inputs = files[r].inputs /\ planOf'[r] = planOf[r]
    /\ \A r \in RunId : worker[r].pc = "ended" =>
         /\ worker'[r].pc = "ended" /\ worker'[r].completed = worker[r].completed
         /\ worker'[r].orphans \subseteq worker[r].orphans
         /\ executions'[r] = executions[r]

LEMMA EarnedStays ==
    ASSUME Steady, NEW r \in RunId, RunOK(r), Earned(r)
    PROVE  Earned(r)'
<1>1. /\ files'[r].inputs = "whole" /\ planOf'[r] = planOf[r]
      /\ bundle'[planOf[r]] = bundle[planOf[r]]
      /\ worker'[r].pc = "ended" /\ worker'[r].completed = worker[r].completed
      /\ worker'[r].orphans = {} /\ executions'[r] = executions[r]
  BY DEF Steady, RunOK, Earned
<1>2. Timely(r)'
  BY DEF Steady, Kept, Earned, Timely
<1>3. RecipesOf(r)' = RecipesOf(r)
  BY <1>1 DEF RecipesOf, Plan0, Sealed
<1> QED BY <1>1, <1>2, <1>3 DEF Earned

LEMMA ProcStays ==
    ASSUME RunInv, DirInv, Steady, NEW e \in Proc, proc'[e] = proc[e]
    PROVE  ProcOK(e)'
<1>1. ProcOK(e) /\ (Planned(e) => proc[e].plan \in Plan /\ RunOf(proc[e].plan) \in RunId)
  BY RunIds DEF RunInv, ProcInv, DirInv
<1>2. Planned(e)' => bundle'[proc'[e].plan] # None
  BY <1>1 DEF Steady, ProcOK, Planned
<1>3. ASSUME proc'[e].pc \in {"created", "running"}
      PROVE  files'[RunOf(proc'[e].plan)].inputs = "whole"
  BY <1>1, <1>3 DEF Steady, ProcOK, Planned, Executing
<1>4. ASSUME proc'[e].pc = "accepted"
      PROVE  Earned(RunOf(proc[e].plan))'
  <2>1. RunOf(proc[e].plan) \in RunId /\ Earned(RunOf(proc[e].plan))
    BY <1>1, <1>4 DEF ProcOK, Planned, Executing
  <2> DEFINE r == RunOf(proc[e].plan)
  <2>2. RunOK(r)
    BY <2>1 DEF DirInv
  <2>3. Earned(r)'
    BY <2>1, <2>2, EarnedStays
  <2> QED BY <2>3
<1> QED BY <1>2, <1>3, <1>4 DEF ProcOK, RunOf

(* A step keeps DirInv if it keeps what it adds to it.                     *)
LEMMA DirFrame ==
    ASSUME RunInv, DirInv, Steady, DirType', SealedOK',
           \A r \in RunId : files'[r].inputs = "whole" /\ files[r].inputs = "absent" =>
             planOf'[r] \in Plan /\ bundle'[planOf'[r]] # None,
           \A r \in RunId : files'[r].result # "absent" =>
             files[r].result # "absent" \/ Earned(r),
           \A e \in Proc : proc'[e] = proc[e] \/ ProcOK(e)'
    PROVE  DirInv'
<1>1. ASSUME NEW r \in RunId PROVE RunOK(r)'
  <2>1. RunOK(r)
    BY DEF DirInv
  <2>2. files'[r].inputs = "whole" => planOf'[r] \in Plan /\ bundle'[planOf'[r]] # None
    BY <2>1 DEF RunOK, Steady
  <2>3. files'[r].result # "absent" => Earned(r)'
    BY <2>1, EarnedStays DEF RunOK
  <2> QED BY <2>2, <2>3 DEF RunOK
<1>2. \A e \in Proc : ProcOK(e)'
  BY ProcStays
<1> QED BY <1>1, <1>2 DEF DirInv
-----------------------------------------------------------------------------
(* Steps that write into a run directory.                                  *)

FilesGrow ==
    /\ files' \in [RunId -> [FileName -> FileState]]
    /\ \A r \in RunId, name \in FileName :
         files[r][name] # "absent" => files'[r][name] = files[r][name]

LEMMA CreateGrows ==
    ASSUME DirType, NEW r \in RunId, NEW name \in FileName, NEW state \in FileState,
           Create(r, name, state)
    PROVE  /\ FilesGrow
           /\ files[r][name] = "absent" /\ files'[r][name] = state
           /\ \A q \in RunId, other \in FileName :
                q # r \/ other # name => files'[q][other] = files[q][other]
<1>1. /\ files[r][name] = "absent"
      /\ files' = [files EXCEPT ![r] = [files[r] EXCEPT ![name] = state]]
  BY DEF Create
<1>2. files \in [RunId -> [FileName -> FileState]]
  BY DEF DirType
<1>3. files' \in [RunId -> [FileName -> FileState]]
  BY <1>1, <1>2
<1>4. files'[r][name] = state
  BY <1>1, <1>2
<1>5. \A q \in RunId, other \in FileName :
        q # r \/ other # name => files'[q][other] = files[q][other]
  BY <1>1, <1>2
<1> QED BY <1>1, <1>3, <1>4, <1>5 DEF FilesGrow

LEMMA FileNames ==
    /\ {"inputs", "result", "failure", "attestation", "applied"} = FileName
    /\ {"absent", "torn", "whole"} = FileState
BY DEF FileName, FileState

(* A step that changes nothing of the host's records about runs.           *)
LEMMA QuietIsSteady ==
    ASSUME DirType, UNCHANGED <<bundle, consumed, planOf, worker, executions>>,
           FilesGrow \/ UNCHANGED files
    PROVE  Steady /\ DirType'
<1>1. DirType'
  BY DEF DirType, FilesGrow
<1>2. \A r \in RunId : files[r].inputs # "absent" => files'[r].inputs = files[r].inputs
  BY FileNames DEF FilesGrow
<1> QED BY <1>1, <1>2 DEF Steady, Kept

LEMMA SealedStays ==
    ASSUME SealedOK, UNCHANGED bundle
    PROVE  SealedOK'
BY DEF SealedOK, Sealed

(* A step that creates another file than inputs and result.                *)
LEMMA SideFileKeepsDir ==
    ASSUME RunInv, DirInv, NEW r \in RunId, NEW name \in {"failure", "attestation", "applied"},
           NEW state \in {"torn", "whole"}, Create(r, name, state), Steady,
           UNCHANGED <<bundle, planOf>>,
           \A e \in Proc : proc'[e] = proc[e] \/ ProcOK(e)'
    PROVE  DirInv'
<1>1. FilesGrow /\ \A q \in RunId : files'[q].inputs = files[q].inputs
                                   /\ files'[q].result = files[q].result
  BY CreateGrows, FileNames DEF DirInv
<1>2. DirType' /\ SealedOK'
  BY <1>1, SealedStays DEF DirInv, DirType, FilesGrow
<1> QED BY <1>1, <1>2, DirFrame

LEMMA StillKeepsDir ==
    ASSUME RunInv, DirInv, Steady, UNCHANGED <<bundle, files, planOf>>,
           \A e \in Proc : proc'[e] = proc[e] \/ ProcOK(e)'
    PROVE  DirInv'
<1>1. DirType' /\ SealedOK'
  BY SealedStays DEF DirInv, DirType
<1>2. \A r \in RunId : ~(files'[r].inputs = "whole" /\ files[r].inputs = "absent")
  OBVIOUS
<1>3. \A r \in RunId : files'[r].result # "absent" => files[r].result # "absent" \/ Earned(r)
  OBVIOUS
<1> QED BY <1>1, <1>2, <1>3, DirFrame

LEMMA IdleIsOK ==
    ASSUME NEW e \in Proc, proc'[e].pc \notin Executing
    PROVE  ProcOK(e)'
BY DEF ProcOK, Planned, Executing

LEMMA StopIsOK ==
    ASSUME RunInv, NEW e \in Proc, Stop(e)
    PROVE  \A f \in Proc : proc'[f] = proc[f] \/ ProcOK(f)'
<1>1. proc'[e].pc = "idle" /\ \A f \in Proc \ {e} : proc'[f] = proc[f]
  BY DEF Stop, NoProc, RunInv, ProcInv
<1> QED BY <1>1, IdleIsOK DEF Executing
-----------------------------------------------------------------------------
(* The user, other programs, and the import.                               *)

LEMMA SealKeepsDir ==
    ASSUME RunInv, DirInv, NEW p \in Plan, SealPlan(p)
    PROVE  DirInv'
<1> DEFINE contracts == SealContracts(project, Spec0[p].contracts)
           plan == [Spec0[p] EXCEPT !.contracts = contracts]
           record == [manifest |-> Manifest(project, OperationPaths(Spec0[p].ops)),
                      contracts |-> contracts]
<1>1. /\ bundle[p] = None /\ bundle' = [bundle EXCEPT ![p] = record]
      /\ ValidPlan(plan)
      /\ UNCHANGED <<consumed, files, planOf, worker, executions, proc>>
  BY DEF SealPlan, store, session
<1>2. /\ bundle'[p].contracts = contracts /\ \A q \in Plan \ {p} : bundle'[q] = bundle[q]
      /\ bundle' = [q \in Plan |-> bundle'[q]]
  BY <1>1 DEF DirInv, DirType
<1>3. Steady
  BY <1>1, <1>2 DEF Steady, Kept
<1>4. DirType'
  BY <1>1, <1>2 DEF DirInv, DirType
<1>5. DistinctIds(plan.ops)
  <2>1. plan.ops = Spec0[p].ops /\ Spec0[p].ops \in Seq(ToSet(Spec0[p].ops))
    BY HarnessConstants
  <2>2. Cardinality(OperationIds(plan.ops)) = Len(plan.ops)
    BY <1>1 DEF ValidPlan
  <2> HIDE DEF plan
  <2> QED BY <2>1, <2>2, IdsAreDistinct
<1>6. Sealed(p)' = plan
  BY <1>2 DEF Sealed
<1>7. \A q \in Plan \ {p} : Sealed(q)' = Sealed(q)
  BY <1>2 DEF Sealed
<1>8. SealedOK'
  BY <1>2, <1>5, <1>6, <1>7 DEF DirInv, SealedOK
<1> QED BY <1>1, <1>3, <1>4, <1>8, DirFrame

LEMMA UserStepKeepsDir ==
    ASSUME RunInv, DirInv, UserStep
    PROVE  DirInv'
<1>1. ASSUME NEW p \in Plan, SealPlan(p) PROVE DirInv'
  BY <1>1, SealKeepsDir
<1>2. ASSUME NEW r \in RunId, NEW receipts \in Receipts, Attest(r, receipts) PROVE DirInv'
  <2>1. UNCHANGED <<bundle, consumed, planOf, worker, executions, proc>>
    BY <1>2 DEF Attest, approvals, session
  <2>2. PICK state \in {"torn", "whole"} : Create(r, "attestation", state)
    BY <1>2 DEF Attest
  <2>3. FilesGrow
    BY <2>2, CreateGrows, FileNames DEF DirInv
  <2>4. Steady
    BY <2>1, <2>3, QuietIsSteady DEF DirInv
  <2> QED BY <2>1, <2>2, <2>4, SideFileKeepsDir
<1>3. CASE UNCHANGED <<bundle, consumed, files, planOf, worker, executions, proc>>
  <2>1. Steady
    BY <1>3, QuietIsSteady DEF DirInv
  <2> QED BY <1>3, <2>1, StillKeepsDir
<1>4. ASSUME NEW path \in Path, NEW content \in Foreign, EditProject(path, content)
      PROVE  DirInv'
  BY <1>3, <1>4 DEF EditProject, approvals, store, session
<1>5. ASSUME NEW p \in Plan, Approve(p) PROVE DirInv'
  BY <1>3, <1>5 DEF Approve, store, session
<1>6. ASSUME NEW r \in RunId, Expire(r) \/ ShowChanges(r) PROVE DirInv'
  BY <1>3, <1>6 DEF Expire, ShowChanges, approvals, store, session
<1>7. ASSUME NEW r \in RunId, NEW mode \in PromotionModes, Promote(r, mode) PROVE DirInv'
  BY <1>3, <1>7 DEF Promote, approvals, session
<1> QED BY <1>1, <1>2, <1>4, <1>5, <1>6, <1>7 DEF UserStep

LEMMA ApplyStepKeepsDir ==
    ASSUME RunInv, DirInv, NEW e \in Proc, ApplyStep(e)
    PROVE  DirInv'
<1>1. UNCHANGED <<bundle, consumed, planOf, worker, executions>>
  BY DEF ApplyStep, BeginApply, CopyChange, ReplaceChange, FinishApply, approvals, store,
     session
<1>2. \A f \in Proc : proc'[f] = proc[f] \/ ProcOK(f)'
  <2>1. proc'[e].pc \notin Executing /\ \A f \in Proc \ {e} : proc'[f] = proc[f]
    <3>1. ASSUME NEW r \in RunId, BeginApply(e, r)
          PROVE  proc'[e].pc = "copy" /\ \A f \in Proc \ {e} : proc'[f] = proc[f]
      BY <3>1 DEF BeginApply, RunInv, ProcInv
    <3>2. CASE CopyChange(e)
      <4>1. Goto(e, "replace") \/ Stop(e)
        BY <3>2 DEF CopyChange
      <4> QED BY <4>1, GotoMoves, StopMoves DEF RunInv, ProcInv, Stop, NoProc, Executing
    <3>3. ASSUME ReplaceChange(e)
          PROVE  proc'[e].pc = "copy" /\ \A f \in Proc \ {e} : proc'[f] = proc[f]
      <4> DEFINE state == [proc[e] EXCEPT !.pc = "copy", !.todo = @ \ {Min(proc[e].todo)}]
      <4>1. proc' = [proc EXCEPT ![e] = state]
        BY <3>3 DEF ReplaceChange
      <4>2. state.pc = "copy"
        BY Fields DEF RunInv, ProcInv
      <4> HIDE DEF state
      <4> QED BY <4>1, <4>2 DEF RunInv, ProcInv
    <3>4. CASE FinishApply(e)
      BY <3>4 DEF FinishApply, Stop, NoProc, RunInv, ProcInv, Executing
    <3> QED BY <3>1, <3>2, <3>3, <3>4 DEF ApplyStep, Executing
  <2> QED BY <2>1, IdleIsOK
<1>3. CASE UNCHANGED files
  <2>1. Steady
    BY <1>1, <1>3, QuietIsSteady DEF DirInv
  <2> QED BY <1>1, <1>2, <1>3, <2>1, StillKeepsDir
<1>4. CASE FinishApply(e) /\ ~UNCHANGED files
  <2> DEFINE r == RunOf(proc[e].plan)
  <2>1. PICK state \in {"torn", "whole"} : Create(r, "applied", state)
    BY <1>4 DEF FinishApply
  <2>2. r \in RunId
    BY <1>4, <2>1 DEF Create, DirInv, DirType
  <2> HIDE DEF r
  <2>3. FilesGrow
    BY <2>1, <2>2, CreateGrows, FileNames DEF DirInv
  <2>4. Steady
    BY <1>1, <2>3, QuietIsSteady DEF DirInv
  <2> QED BY <1>1, <1>2, <2>1, <2>2, <2>4, SideFileKeepsDir
<1>5. ~FinishApply(e) => UNCHANGED files
  BY DEF ApplyStep, BeginApply, CopyChange, ReplaceChange, store
<1> QED BY <1>3, <1>4, <1>5

(* A session that is over is not opened again.                             *)
LEMMA WorkerStepKeepsDir ==
    ASSUME RunInv, SessionInv, DirInv, NEW r \in RunId, WorkerStep(r)
    PROVE  DirInv'
<1>1. UNCHANGED <<bundle, consumed, files, planOf, proc>>
  BY DEF WorkerStep, StartWorker, CheckSource, CopySource, VerifyConsumed, WorkerInventory,
     WorkerExecute, OrphanEnds, WorkerRead, WorkerWrite, ContainerWrites, RecipeEnds,
     RecipeTimesOut, approvals, store
<1>2. \A q \in RunId \ {r} : worker'[q] = worker[q] /\ executions'[q] = executions[q]
  <2>1. \A q \in RunId \ {r} : worker'[q] = worker[q]
    BY DEF WorkerStep, StartWorker, CheckSource, CopySource, VerifyConsumed,
       WorkerInventory, WorkerExecute, OrphanEnds, WorkerRead, WorkerWrite,
       ContainerWrites, RecipeEnds, RecipeTimesOut, SetWorker, CallFails, SessionInv
  <2>2. \A q \in RunId \ {r} : executions'[q] = executions[q]
    BY DEF WorkerStep, StartWorker, CheckSource, CopySource, VerifyConsumed,
       WorkerInventory, WorkerExecute, OrphanEnds, WorkerRead, WorkerWrite,
       ContainerWrites, RecipeEnds, RecipeTimesOut, SessionInv
  <2> QED BY <2>1, <2>2
<1>3. ASSUME worker[r].pc = "ended"
      PROVE  /\ worker'[r].pc = "ended" /\ worker'[r].completed = worker[r].completed
             /\ worker'[r].orphans \subseteq worker[r].orphans
             /\ executions'[r] = executions[r]
  <2>1. /\ \/ \E id \in OpId : OrphanEnds(r, id)
           \/ UNCHANGED worker
        /\ UNCHANGED executions
    BY <1>3 DEF WorkerStep, StartWorker, MayMaterialize, CheckSource, CopySource,
       VerifyConsumed, WorkerInventory, WorkerExecute, WorkerRead, WorkerWrite, Serving,
       ContainerWrites, RecipeEnds, RecipeTimesOut, OrphanEnds
  <2>2. ASSUME NEW id \in OpId, OrphanEnds(r, id)
        PROVE  /\ worker'[r].pc = "ended" /\ worker'[r].completed = worker[r].completed
               /\ worker'[r].orphans \subseteq worker[r].orphans
    <3>1. worker' = [worker EXCEPT ![r] = [worker[r] EXCEPT !.orphans = @ \ {id}]]
      BY <2>2 DEF OrphanEnds
    <3>2. worker'[r] = [worker[r] EXCEPT !.orphans = @ \ {id}]
      BY <3>1 DEF SessionInv
    <3>3. /\ worker'[r].pc = worker[r].pc /\ worker'[r].completed = worker[r].completed
          /\ worker'[r].orphans = worker[r].orphans \ {id}
      BY <3>2, ShapeOf, SessionFields
    <3> QED BY <1>3, <3>3
  <2> QED BY <1>3, <2>1, <2>2
<1>4. Steady
  BY <1>1, <1>2, <1>3 DEF Steady, Kept
<1> QED BY <1>1, <1>4, StillKeepsDir
-----------------------------------------------------------------------------
(* harness run.                                                            *)

LEMMA EndIsSteady ==
    ASSUME RunInv, SessionInv, DirInv, NEW e \in Proc, CodexEnds(e)
    PROVE  /\ Steady
           /\ worker'[RunOf(proc[e].plan)].pc = "ended"
           /\ worker'[RunOf(proc[e].plan)].completed
                = worker[RunOf(proc[e].plan)].completed
           /\ worker[RunOf(proc[e].plan)].pc # "busy" =>
                worker'[RunOf(proc[e].plan)].orphans = worker[RunOf(proc[e].plan)].orphans
           /\ RunOf(proc[e].plan) \in RunId
           /\ UNCHANGED <<bundle, consumed, planOf, executions>>
<1> DEFINE r == RunOf(proc[e].plan)
<1>1. r \in RunId /\ EndSession(r) /\ UNCHANGED <<executions, consumed>>
  BY CodexEndsSession
<1>2. UNCHANGED <<bundle, planOf>>
  BY DEF CodexEnds, CodexFails, CodexOverCeiling, CodexCompletes, approvals, store
<1>3. /\ worker'[r].pc = "ended" /\ worker'[r].completed = worker[r].completed
      /\ worker[r].pc # "busy" => worker'[r].orphans = worker[r].orphans
      /\ \A q \in RunId \ {r} : worker'[q] = worker[q]
  <2> HIDE DEF r
  <2> QED BY <1>1, EndKeepsSessions
<1>4. FilesGrow \/ UNCHANGED files
  <2>1. Create(r, "failure", "whole") \/ UNCHANGED files
    BY DEF CodexEnds, CodexFails, CodexOverCeiling, CodexCompletes, store
  <2> HIDE DEF r
  <2> QED BY <1>1, <2>1, CreateGrows, FileNames DEF DirInv
<1>5. \A q \in RunId : files[q].inputs # "absent" => files'[q].inputs = files[q].inputs
  BY <1>4, FileNames DEF FilesGrow
<1>6. Steady
  <2> HIDE DEF r
  <2> QED BY <1>1, <1>2, <1>3, <1>5 DEF Steady, Kept
<1> QED BY <1>1, <1>2, <1>3, <1>6

(* Codex's stream is accepted: the session it ends has earned the result.  *)
LEMMA CompletesEarned ==
    ASSUME RunInv, SessionInv, DirInv, NEW e \in Proc, NEW segments \in Answers,
           CodexCompletes(e, segments), NEW r \in RunId, r = RunOf(proc[e].plan)
    PROVE  Earned(r)'
<1>1. CodexEnds(e)
  BY DEF CodexEnds
<1>2. /\ worker'[r].pc = "ended" /\ worker'[r].completed = worker[r].completed
      /\ worker[r].pc # "busy" => worker'[r].orphans = worker[r].orphans
      /\ r \in RunId /\ UNCHANGED <<bundle, consumed, planOf, files, executions>>
  BY <1>1, EndIsSteady DEF CodexCompletes
<1>3. /\ proc[e].pc = "running" /\ worker[r].pc = "ready"
      /\ StreamComplete(worker[r].calls, worker[r].failed, Plan0(r))
  BY DEF CodexCompletes, Accepted
<1>4. files[r].inputs = "whole"
  BY <1>3 DEF DirInv, ProcOK
<1>5. SessionOK(r) /\ RunOK(r)
  BY <1>2 DEF SessionInv, DirInv
<1>6. Timely(r)'
  BY <1>2, <1>3, <1>5 DEF SessionOK, Timely
<1>7. DistinctIds(Plan0(r).ops)
  BY <1>4, <1>5 DEF RunOK, DirInv, SealedOK, Plan0
<1>8. ASSUME NEW op \in ToSet(Plan0(r).ops), op.kind \in Recipes
      PROVE  op.id \in worker[r].completed
  <2>1. PICK call \in worker[r].calls : call.tool = "worker_execute" /\ call.op = op.id
    BY <1>3, <1>7, <1>8, StreamHasRecipes
  <2> QED BY <1>5, <2>1 DEF SessionOK
<1>9. RecipesOf(r) \subseteq worker[r].completed
  BY <1>8 DEF RecipesOf
<1>10. RecipesOf(r)' = RecipesOf(r)
  BY <1>2 DEF RecipesOf, Plan0, Sealed
<1>11. worker'[r].orphans = {} /\ \A id \in RecipesOf(r) : executions'[r][id] = "once"
  <2>1. ~worker[r].failed
    BY <1>3 DEF StreamComplete
  <2>2. Undisturbed(worker[r], executions[r]) /\ worker[r].completed \subseteq OpId
    BY <1>5 DEF SessionOK
  <2>3. /\ worker[r].orphans = {}
        /\ \A id \in worker[r].completed : executions[r][id] = "once"
    BY <1>3, <2>1, <2>2 DEF Undisturbed
  <2> QED BY <1>2, <1>3, <1>9, <2>3
<1> QED BY <1>2, <1>4, <1>6, <1>9, <1>10, <1>11 DEF Earned

LEMMA CodexEndsKeepsDir ==
    ASSUME RunInv, SessionInv, DirInv, NEW e \in Proc, CodexEnds(e)
    PROVE  DirInv'
<1>1. /\ Steady /\ RunOf(proc[e].plan) \in RunId
      /\ UNCHANGED <<bundle, planOf>>
  BY EndIsSteady
<1>2. CASE CodexFails(e)
  <2>1. Stop(e) /\ UNCHANGED files
    BY <1>2 DEF CodexFails, store
  <2> QED BY <1>1, <2>1, StopIsOK, StillKeepsDir
<1>3. CASE CodexOverCeiling(e)
  <2>1. Stop(e) /\ Create(RunOf(proc[e].plan), "failure", "whole")
    BY <1>3 DEF CodexOverCeiling
  <2> QED BY <1>1, <2>1, StopIsOK, SideFileKeepsDir
<1>4. ASSUME NEW segments \in Answers, CodexCompletes(e, segments) PROVE DirInv'
  <2>1. proc[e].pc = "running" /\ Goto(e, "accepted") /\ UNCHANGED files
    BY <1>4 DEF CodexCompletes
  <2>2. /\ proc'[e].pc = "accepted" /\ proc'[e].plan = proc[e].plan
        /\ \A f \in Proc \ {e} : proc'[f] = proc[f]
    BY <2>1, GotoMoves DEF RunInv, Planned, Executing
  <2>3. bundle'[proc'[e].plan] # None
    BY <1>1, <2>1, <2>2 DEF DirInv, ProcOK, Planned, Executing
  <2>4. PICK r \in RunId : r = RunOf(proc[e].plan)
    BY <1>1
  <2>5. Earned(r)' /\ r = RunOf(proc[e].plan)'
    BY <1>4, <2>2, <2>4, CompletesEarned DEF RunOf
  <2>6. ProcOK(e)'
    BY <2>2, <2>3, <2>5 DEF ProcOK, Earned, Timely, RecipesOf, Plan0
  <2> QED BY <1>1, <2>1, <2>2, <2>6, StillKeepsDir
<1> QED BY <1>2, <1>3, <1>4 DEF CodexEnds

(* The steps before Codex that write nothing into the run directory.       *)
LEMMA EarlyStepKeepsDir ==
    ASSUME RunInv, SessionInv, DirInv, NEW e \in Proc,
           \/ \E p \in Plan : BeginRun(e, p)
           \/ VerifyBeforeConsume(e) \/ ConsumeApproval(e) \/ RefuseApproval(e)
           \/ LaunchCodex(e) \/ Crash(e)
    PROVE  DirInv'
<1>1. UNCHANGED <<bundle, files, planOf, worker, executions>>
  BY DEF BeginRun, VerifyBeforeConsume, ConsumeApproval, RefuseApproval, LaunchCodex, Crash,
     approvals, store, session
<1>2. Kept
  BY RunStepKept DEF RunStep
<1>3. Steady
  BY <1>1, <1>2 DEF Steady
<1>4. ASSUME NEW p \in Plan, BeginRun(e, p)
      PROVE  \A f \in Proc : proc'[f] = proc[f] \/ ProcOK(f)'
  <2>1. /\ proc'[e].pc = "preflighted" /\ proc'[e].plan = p
        /\ \A f \in Proc \ {e} : proc'[f] = proc[f]
    <3> DEFINE state == [NoProc EXCEPT !.pc = "preflighted", !.plan = p]
    <3>1. proc' = [proc EXCEPT ![e] = state]
      BY <1>4 DEF BeginRun
    <3>2. state.pc = "preflighted" /\ state.plan = p
      BY DEF NoProc
    <3> HIDE DEF state
    <3> QED BY <3>1, <3>2 DEF RunInv, ProcInv
  <2>2. bundle'[p] # None
    BY <1>1, <1>4 DEF BeginRun, Preflight
  <2> QED BY <2>1, <2>2 DEF ProcOK
<1>5. ASSUME NEW pc \in {"verified", "consumed"}, Goto(e, pc), Planned(e)
      PROVE  \A f \in Proc : proc'[f] = proc[f] \/ ProcOK(f)'
  <2>1. /\ proc'[e].pc = pc /\ proc'[e].plan = proc[e].plan
        /\ \A f \in Proc \ {e} : proc'[f] = proc[f]
    BY <1>5, GotoMoves DEF RunInv
  <2>2. bundle'[proc'[e].plan] # None
    BY <1>1, <1>5, <2>1 DEF DirInv, ProcOK
  <2>3. pc # "created" /\ pc # "running" /\ pc # "accepted"
    BY <1>5
  <2> QED BY <2>1, <2>2, <2>3 DEF ProcOK
<1>6. CASE LaunchCodex(e)
  <2>1. proc[e].pc = "created" /\ Planned(e) /\ Goto(e, "running")
    BY <1>6 DEF LaunchCodex, Planned, Executing
  <2>2. /\ proc'[e].pc = "running" /\ proc'[e].plan = proc[e].plan
        /\ \A f \in Proc \ {e} : proc'[f] = proc[f]
    BY <2>1, GotoMoves DEF RunInv
  <2>3. /\ bundle'[proc'[e].plan] # None
        /\ files'[RunOf(proc'[e].plan)].inputs = "whole"
    BY <1>1, <2>1, <2>2 DEF DirInv, ProcOK
  <2>4. ProcOK(e)'
    BY <2>2, <2>3 DEF ProcOK, RunOf
  <2> QED BY <1>1, <1>3, <2>2, <2>4, StillKeepsDir
<1>7. CASE VerifyBeforeConsume(e)
  <2>1. Planned(e) /\ (Goto(e, "verified") \/ Stop(e))
    BY <1>7 DEF VerifyBeforeConsume, Planned, Executing
  <2> QED BY <1>1, <1>3, <1>5, <2>1, StopIsOK, StillKeepsDir
<1>8. CASE ConsumeApproval(e)
  <2>1. Planned(e) /\ (Goto(e, "consumed") \/ Stop(e))
    BY <1>8 DEF ConsumeApproval, Planned, Executing
  <2> QED BY <1>1, <1>3, <1>5, <2>1, StopIsOK, StillKeepsDir
<1>9. CASE RefuseApproval(e) \/ Crash(e)
  <2>1. Stop(e)
    BY <1>9 DEF RefuseApproval, Crash
  <2> QED BY <1>1, <1>3, <2>1, StopIsOK, StillKeepsDir
<1> QED BY <1>1, <1>3, <1>4, <1>6, <1>7, <1>8, <1>9, StillKeepsDir

(* The run directory names the plan whose approval was consumed.           *)
LEMMA CreateRunKeepsDir ==
    ASSUME RunInv, DirInv, NEW e \in Proc, CreateRun(e)
    PROVE  DirInv'
<1>1. /\ proc[e].pc = "consumed" /\ Planned(e)
      /\ UNCHANGED <<bundle, consumed, worker, executions>>
  BY DEF CreateRun, Planned, Executing, approvals, session
<1>2. PICK p \in Plan, r \in RunId : p = proc[e].plan /\ r = RunOf(p)
  BY <1>1, RunIds DEF RunInv, ProcInv
<1>3. bundle[p] # None
  BY <1>1, <1>2 DEF DirInv, ProcOK
<1>4. \/ /\ Create(r, "inputs", "whole") /\ Goto(e, "created")
         /\ planOf' = [planOf EXCEPT ![r] = p]
      \/ Create(r, "inputs", "torn") /\ Stop(e) /\ UNCHANGED planOf
  BY <1>2 DEF CreateRun
<1>5. PICK state \in {"torn", "whole"} : Create(r, "inputs", state)
  BY <1>4
<1>6. /\ FilesGrow /\ files[r].inputs = "absent" /\ files'[r].inputs = state
      /\ \A q \in RunId, name \in FileName :
           q # r \/ name # "inputs" => files'[q][name] = files[q][name]
  BY <1>5, CreateGrows, FileNames DEF DirInv
<1>7. \A q \in RunId : /\ q # r => files'[q].inputs = files[q].inputs
                       /\ files'[q].result = files[q].result
  BY <1>6, FileNames
<1>8. planOf' = [q \in RunId |-> planOf'[q]] /\ \A q \in RunId \ {r} : planOf'[q] = planOf[q]
  BY <1>4 DEF DirInv, DirType
<1>9. Steady
  BY <1>1, <1>6, <1>7, <1>8 DEF Steady, Kept
<1>10. DirType' /\ SealedOK'
  BY <1>1, <1>6, <1>8, SealedStays DEF DirInv, DirType, FilesGrow
<1>11. \A q \in RunId : files'[q].inputs = "whole" /\ files[q].inputs = "absent" =>
         planOf'[q] \in Plan /\ bundle'[planOf'[q]] # None
  <2>1. CASE state = "whole"
    <3>1. files'[r].inputs = "whole"
      BY <1>6, <2>1
    <3>2. planOf' = [planOf EXCEPT ![r] = p]
      <4>1. CASE Create(r, "inputs", "torn")
        <5>1. files'[r].inputs = "torn"
          BY <4>1, CreateGrows, FileNames DEF DirInv
        <5> QED BY <3>1, <5>1
      <4> QED BY <1>4, <4>1
    <3>3. planOf'[r] = p
      BY <3>2 DEF DirInv, DirType
    <3> QED BY <1>1, <1>3, <1>7, <3>3
  <2>2. CASE state = "torn"
    BY <1>6, <1>7, <2>2
  <2> QED BY <1>5, <2>1, <2>2
<1>12. \A f \in Proc : proc'[f] = proc[f] \/ ProcOK(f)'
  <2>1. CASE Stop(e)
    BY <2>1, StopIsOK
  <2>2. CASE Create(r, "inputs", "whole") /\ Goto(e, "created")
    <3>1. /\ proc'[e].pc = "created" /\ proc'[e].plan = p
          /\ \A f \in Proc \ {e} : proc'[f] = proc[f]
      BY <1>1, <1>2, <2>2, GotoMoves DEF RunInv
    <3>2. files'[r].inputs = "whole"
      BY <2>2, CreateGrows, FileNames DEF DirInv
    <3>3. RunOf(p)' = r
      BY <1>2 DEF RunOf
    <3> QED BY <1>1, <1>3, <3>1, <3>2, <3>3 DEF ProcOK, RunOf
  <2> QED BY <1>4, <2>1, <2>2
<1>13. \A q \in RunId : files'[q].result # "absent" => files[q].result # "absent"
  BY <1>7
<1> QED BY <1>9, <1>10, <1>11, <1>12, <1>13, DirFrame

LEMMA ResultKeepsDir ==
    ASSUME RunInv, DirInv, NEW e \in Proc, WriteResult(e)
    PROVE  DirInv'
<1>1. /\ proc[e].pc = "accepted" /\ Planned(e) /\ Stop(e)
      /\ UNCHANGED <<bundle, consumed, planOf, worker, executions>>
  BY DEF WriteResult, Planned, Executing, approvals, session
<1>2. PICK r \in RunId : r = RunOf(proc[e].plan)
  BY <1>1, RunIds DEF RunInv, ProcInv
<1>3. Earned(r)
  BY <1>1, <1>2 DEF DirInv, ProcOK
<1>4. PICK state \in {"torn", "whole"} : Create(r, "result", state)
  BY <1>2 DEF WriteResult
<1>5. /\ FilesGrow
      /\ \A q \in RunId, name \in FileName :
           q # r \/ name # "result" => files'[q][name] = files[q][name]
  BY <1>4, CreateGrows, FileNames DEF DirInv
<1>6. \A q \in RunId : /\ q # r => files'[q].result = files[q].result
                       /\ files'[q].inputs = files[q].inputs
  BY <1>5, FileNames
<1>7. Steady /\ DirType' /\ SealedOK'
  BY <1>1, <1>5, QuietIsSteady, SealedStays DEF DirInv
<1>8. \A q \in RunId : files'[q].result # "absent" => files[q].result # "absent" \/ Earned(q)
  BY <1>3, <1>6
<1>9. \A q \in RunId : ~(files'[q].inputs = "whole" /\ files[q].inputs = "absent")
  BY <1>6
<1> QED BY <1>1, <1>7, <1>8, <1>9, StopIsOK, DirFrame

LEMMA DirInvStep == RunInv /\ SessionInv /\ DirInv /\ [Next]_vars => DirInv'
<1> SUFFICES ASSUME RunInv, SessionInv, DirInv, [Next]_vars PROVE DirInv'
  OBVIOUS
<1>1. CASE UNCHANGED vars
  <2>1. UNCHANGED <<bundle, consumed, files, planOf, worker, executions, proc>>
    BY <1>1 DEF vars, approvals, store, session
  <2>2. Steady
    BY <2>1, QuietIsSteady DEF DirInv
  <2> QED BY <2>1, <2>2, StillKeepsDir
<1>2. CASE UserStep
  BY <1>2, UserStepKeepsDir
<1>3. ASSUME NEW e \in Proc, RunStep(e) PROVE DirInv'
  <2>1. \/ \E p \in Plan : BeginRun(e, p)
        \/ VerifyBeforeConsume(e) \/ ConsumeApproval(e) \/ RefuseApproval(e)
        \/ LaunchCodex(e) \/ Crash(e) \/ CreateRun(e) \/ WriteResult(e) \/ CodexEnds(e)
    BY <1>3 DEF RunStep, CodexEnds
  <2> QED BY <2>1, EarlyStepKeepsDir, CreateRunKeepsDir, ResultKeepsDir, CodexEndsKeepsDir
<1>4. ASSUME NEW e \in Proc, ApplyStep(e) PROVE DirInv'
  BY <1>4, ApplyStepKeepsDir
<1>5. ASSUME NEW r \in RunId, WorkerStep(r) PROVE DirInv'
  BY <1>5, WorkerStepKeepsDir
<1> QED BY <1>1, <1>2, <1>3, <1>4, <1>5 DEF Next

(* A result exists only for a session that was opened under a whole and    *)
(* timely consumption and ran every recipe of its plan: whatever the       *)
(* containers, the editors and the other processes of the run did, and     *)
(* wherever a process stopped.                                             *)
THEOREM ResultsAreEarned == Spec => []ResultIsEarned
<1>1. DirInv => ResultIsEarned
  <2> SUFFICES ASSUME DirInv, NEW r \in RunId, files[r].result = "whole"
               PROVE  /\ consumed[r].whole /\ ~consumed[r].late
                      /\ {op.id : op \in {o \in ToSet(Plan0(r).ops) : o.kind \in Recipes}}
                           \subseteq worker[r].completed
    BY DEF ResultIsEarned
  <2>1. Earned(r)
    BY DEF DirInv, RunOK
  <2> QED BY <2>1 DEF Earned, Timely, RecipesOf
<1> QED
  BY <1>1, RunInvInit, RunInvStep, SessionInvInit, SessionInvStep, DirInvInit, DirInvStep,
     PTL DEF Spec

(* A result never stands behind a session in which a recipe was started    *)
(* more than once: a call that timed out and is made again may find the    *)
(* first container still at work, and then no result is written.           *)
THEOREM ResultsHaveNoReplay == Spec => []NoReplayBehindResult
<1>1. DirInv => NoReplayBehindResult
  <2> SUFFICES ASSUME DirInv, NEW r \in RunId, files[r].result = "whole"
               PROVE  /\ worker[r].orphans = {}
                      /\ \A op \in {o \in ToSet(Plan0(r).ops) : o.kind \in Recipes} :
                           executions[r][op.id] = "once"
    BY DEF NoReplayBehindResult
  <2>1. Earned(r)
    BY DEF DirInv, RunOK
  <2> QED BY <2>1 DEF Earned, RecipesOf
<1> QED
  BY <1>1, RunInvInit, RunInvStep, SessionInvInit, SessionInvStep, DirInvInit, DirInvStep,
     PTL DEF Spec
-----------------------------------------------------------------------------
(* The changes an import makes, and the reviews a promotion rests on.      *)

(* The least of some natural numbers is one of them.                       *)
LEMMA LeastIsOne ==
    ASSUME NEW T \in SUBSET Nat, T # {}
    PROVE  Min(T) \in T
<1> DEFINE R == OpToRel(<, Nat)
<1>1. IsWellFoundedOn(R, Nat)
  BY NatLessThanWellFounded
<1>2. \A x, y \in Nat : y < x => <<y, x>> \in R
  BY DEF OpToRel
<1> HIDE DEF R
<1>3. PICK x \in T : \A y \in T : <<y, x>> \notin R
  BY <1>1, WFMin
<1>4. ASSUME NEW y \in T PROVE x =< y
  <2>1. x \in Nat /\ y \in Nat
    OBVIOUS
  <2>2. ~(y < x)
    BY <1>2, <1>3, <2>1
  <2> QED BY <2>1, <2>2
<1> QED
  BY <1>4 DEF Min

(* The worker and its containers change nothing but the session.           *)
LEMMA WorkerStepIsPrivate ==
    ASSUME NEW r \in RunId, WorkerStep(r)
    PROVE  UNCHANGED <<host, approvals, store, proc, edits, faults, launched>>
BY DEF WorkerStep, StartWorker, CheckSource, CopySource, VerifyConsumed, WorkerInventory,
  WorkerExecute, OrphanEnds, WorkerRead, WorkerWrite, ContainerWrites, RecipeEnds,
  RecipeTimesOut

(* Who creates which file of a run directory.                              *)
Creator(r, name) ==
    CASE name = "inputs" -> \E e \in Proc : CreateRun(e) /\ r = RunOf(proc[e].plan)
      [] name = "result" -> \E e \in Proc : WriteResult(e) /\ r = RunOf(proc[e].plan)
      [] name = "attestation" -> \E receipts \in Receipts : Attest(r, receipts)
      [] OTHER -> UNCHANGED <<bundle, planOf, answer, verified, promoted>>

LEMMA FilesStep ==
    ASSUME RunInv, DirInv, [Next]_vars
    PROVE  \/ UNCHANGED files
           \/ \E r \in RunId, name \in FileName, state \in {"torn", "whole"} :
                Create(r, name, state) /\ Creator(r, name)
<1> DEFINE One == \E r \in RunId, name \in FileName, state \in {"torn", "whole"} :
                     Create(r, name, state) /\ Creator(r, name)
<1>1. CASE UNCHANGED vars
  BY <1>1 DEF vars, store
<1>2. CASE UserStep
  <2>1. ASSUME NEW r \in RunId, NEW receipts \in Receipts, Attest(r, receipts) PROVE One
    <3>1. Creator(r, "attestation")
      BY <2>1 DEF Creator
    <3>2. \E state \in {"torn", "whole"} : Create(r, "attestation", state)
      BY <2>1 DEF Attest
    <3> QED BY <3>1, <3>2, FileNames
  <2>2. UNCHANGED files \/ \E r \in RunId, receipts \in Receipts : Attest(r, receipts)
    BY <1>2 DEF UserStep, EditProject, SealPlan, Approve, Expire, ShowChanges, Promote, store
  <2> QED BY <2>1, <2>2
<1>3. ASSUME NEW e \in Proc, RunStep(e) PROVE UNCHANGED files \/ One
  <2> DEFINE r == RunOf(proc[e].plan)
  <2>1. Planned(e) => r \in RunId
    BY RunIds DEF RunInv, ProcInv
  <2>2. CASE CreateRun(e)
    <3>1. r \in RunId
      BY <2>1, <2>2 DEF CreateRun, Planned, Executing
    <3>2. Creator(r, "inputs")
      BY <2>2 DEF Creator
    <3>3. \E state \in {"torn", "whole"} : Create(r, "inputs", state)
      BY <2>2 DEF CreateRun
    <3> QED BY <3>1, <3>2, <3>3, FileNames
  <2>3. CASE WriteResult(e)
    <3>1. r \in RunId
      BY <2>1, <2>3 DEF WriteResult, Planned, Executing
    <3>2. Creator(r, "result")
      BY <2>3 DEF Creator
    <3>3. \E state \in {"torn", "whole"} : Create(r, "result", state)
      BY <2>3 DEF WriteResult
    <3> QED BY <3>1, <3>2, <3>3, FileNames
  <2>4. CASE CodexOverCeiling(e)
    <3>1. r \in RunId
      BY <2>1, <2>4 DEF CodexOverCeiling, Planned, Executing
    <3>2. Creator(r, "failure")
      BY <2>4 DEF Creator, CodexOverCeiling, approvals
    <3>3. Create(r, "failure", "whole")
      BY <2>4 DEF CodexOverCeiling
    <3> QED BY <3>1, <3>2, <3>3, FileNames
  <2>5. CASE ~(CreateRun(e) \/ WriteResult(e) \/ CodexOverCeiling(e))
    BY <1>3, <2>5 DEF RunStep, BeginRun, VerifyBeforeConsume, ConsumeApproval,
      RefuseApproval, LaunchCodex, Crash, CodexFails, CodexCompletes, store
  <2> QED BY <2>2, <2>3, <2>4, <2>5
<1>4. ASSUME NEW e \in Proc, ApplyStep(e) PROVE UNCHANGED files \/ One
  <2>1. CASE FinishApply(e) /\ ~UNCHANGED files
    <3> DEFINE r == RunOf(proc[e].plan)
    <3>1. PICK state \in {"torn", "whole"} : Create(r, "applied", state)
      BY <2>1 DEF FinishApply
    <3>2. r \in RunId
      BY <2>1, <3>1 DEF Create, DirInv, DirType
    <3>3. Creator(r, "applied")
      BY <2>1 DEF Creator, FinishApply, approvals
    <3> QED BY <3>1, <3>2, <3>3, FileNames
  <2>2. ~FinishApply(e) => UNCHANGED files
    BY <1>4 DEF ApplyStep, BeginApply, CopyChange, ReplaceChange, store
  <2> QED BY <2>1, <2>2
<1>5. ASSUME NEW r \in RunId, WorkerStep(r) PROVE UNCHANGED files
  BY <1>5, WorkerStepIsPrivate DEF store
<1> QED BY <1>1, <1>2, <1>3, <1>4, <1>5 DEF Next

(* What the host has written about runs stays.                             *)
LEMMA StoreGrows ==
    ASSUME RunInv, DirInv, [Next]_vars
    PROVE  /\ Kept
           /\ FilesGrow
           /\ \A p \in Plan : bundle[p] # None => bundle'[p] = bundle[p]
           /\ \A r \in RunId : files[r].inputs # "absent" => planOf'[r] = planOf[r]
<1>1. Kept
  <2>1. ASSUME NEW r \in RunId, WorkerStep(r) PROVE UNCHANGED consumed
    BY <2>1, WorkerStepIsPrivate DEF approvals
  <2>2. CASE UNCHANGED consumed
    BY <2>2 DEF Kept
  <2>3. UNCHANGED vars => UNCHANGED consumed
    BY DEF vars, approvals
  <2> QED BY <2>1, <2>2, <2>3, RunStepKept, OtherStepsLeaveSessions DEF Next
<1>2. FilesGrow
  <2>1. UNCHANGED files => FilesGrow
    BY DEF FilesGrow, DirInv, DirType
  <2>2. ASSUME NEW r \in RunId, NEW name \in FileName, NEW state \in {"torn", "whole"},
               Create(r, name, state)
        PROVE  FilesGrow
    BY <2>2, CreateGrows, FileNames DEF DirInv
  <2> QED BY <2>1, <2>2, FilesStep
<1>3. ASSUME NEW p \in Plan, bundle[p] # None PROVE bundle'[p] = bundle[p]
  <2>1. ASSUME NEW q \in Plan, SealPlan(q) PROVE bundle'[p] = bundle[p]
    <3>1. q # p
      BY <1>3, <2>1 DEF SealPlan
    <3> QED BY <2>1, <3>1 DEF SealPlan, DirInv, DirType
  <2>2. UNCHANGED bundle \/ \E q \in Plan : SealPlan(q)
    <3>1. ASSUME NEW r \in RunId, WorkerStep(r) PROVE UNCHANGED bundle
      BY <3>1, WorkerStepIsPrivate DEF approvals
    <3>2. ASSUME NEW e \in Proc, RunStep(e) \/ ApplyStep(e) PROVE UNCHANGED bundle
      BY <3>2 DEF RunStep, BeginRun, VerifyBeforeConsume, ConsumeApproval, RefuseApproval,
        CreateRun, LaunchCodex, Crash, CodexFails, CodexOverCeiling, CodexCompletes,
        WriteResult, ApplyStep, BeginApply, CopyChange, ReplaceChange, FinishApply, approvals
    <3>3. UserStep => UNCHANGED bundle \/ \E q \in Plan : SealPlan(q)
      BY DEF UserStep, EditProject, Approve, Expire, ShowChanges, Attest, Promote, approvals
    <3>4. UNCHANGED vars => UNCHANGED bundle
      BY DEF vars, approvals
    <3> QED BY <3>1, <3>2, <3>3, <3>4 DEF Next
  <2> QED BY <2>1, <2>2
<1>4. ASSUME NEW r \in RunId, files[r].inputs # "absent" PROVE planOf'[r] = planOf[r]
  <2>1. ASSUME NEW e \in Proc, CreateRun(e) PROVE planOf'[r] = planOf[r]
    <3>1. /\ Create(RunOf(proc[e].plan), "inputs", "whole")
             \/ Create(RunOf(proc[e].plan), "inputs", "torn")
          /\ UNCHANGED planOf \/ planOf' = [planOf EXCEPT ![RunOf(proc[e].plan)] = proc[e].plan]
      BY <2>1 DEF CreateRun
    <3>2. r # RunOf(proc[e].plan)
      BY <1>4, <3>1 DEF Create
    <3> QED BY <3>1, <3>2 DEF DirInv, DirType
  <2>2. UNCHANGED planOf \/ \E e \in Proc : CreateRun(e)
    <3>1. ASSUME NEW q \in RunId, WorkerStep(q) PROVE UNCHANGED planOf
      BY <3>1, WorkerStepIsPrivate DEF store
    <3>2. ASSUME NEW e \in Proc, RunStep(e) \/ ApplyStep(e)
          PROVE  UNCHANGED planOf \/ CreateRun(e)
      BY <3>2 DEF RunStep, BeginRun, VerifyBeforeConsume, ConsumeApproval, RefuseApproval,
        LaunchCodex, Crash, CodexFails, CodexOverCeiling, CodexCompletes, WriteResult,
        ApplyStep, BeginApply, CopyChange, ReplaceChange, FinishApply, store
    <3>3. UserStep => UNCHANGED planOf
      BY DEF UserStep, EditProject, SealPlan, Approve, Expire, ShowChanges, Attest, Promote,
        store
    <3>4. UNCHANGED vars => UNCHANGED planOf
      BY DEF vars, store
    <3> QED BY <3>1, <3>2, <3>3, <3>4 DEF Next
  <2> QED BY <2>1, <2>2
<1> QED
  BY <1>1, <1>2, <1>3, <1>4
-----------------------------------------------------------------------------
(* A run directory names the plan its approval was consumed for.           *)
OriginInv ==
    \A r \in RunId : files[r].inputs = "whole" =>
        /\ RunOf(planOf[r]) = r
        /\ consumed[r] # None
        /\ consumed[r].plan = planOf[r]

LEMMA OriginInvInit == Init => OriginInv
BY DEF Init, OriginInv, FileName

LEMMA OriginInvStep == RunInv /\ DirInv /\ OriginInv /\ [Next]_vars => OriginInv'
<1> SUFFICES ASSUME RunInv, DirInv, OriginInv, [Next]_vars,
                    NEW r \in RunId, files'[r].inputs = "whole"
             PROVE  /\ RunOf(planOf'[r]) = r
                    /\ consumed'[r] # None
                    /\ consumed'[r].plan = planOf'[r]
  BY DEF OriginInv, RunOf
<1>1. CASE files[r].inputs # "absent"
  <2>1. files[r].inputs = "whole" /\ planOf'[r] = planOf[r]
    BY <1>1, StoreGrows, FileNames DEF FilesGrow
  <2>2. consumed'[r] = consumed[r]
    BY <2>1, StoreGrows DEF Kept, OriginInv
  <2> QED BY <2>1, <2>2 DEF OriginInv
<1>2. CASE files[r].inputs = "absent"
  <2>1. PICK q \in RunId, name \in FileName, state \in {"torn", "whole"} :
          Create(q, name, state) /\ Creator(q, name)
    BY <1>2, FilesStep
  <2>2. name = "inputs" /\ q = r
    BY <1>2, <2>1, CreateGrows, FileNames DEF DirInv
  <2>3. PICK e \in Proc : CreateRun(e) /\ r = RunOf(proc[e].plan)
    BY <2>1, <2>2 DEF Creator
  <2>4. planOf' = [planOf EXCEPT ![r] = proc[e].plan]
    <3>1. ~Create(r, "inputs", "torn")
      BY <1>2, CreateGrows, FileNames DEF DirInv
    <3> QED BY <2>3, <3>1 DEF CreateRun
  <2>5. /\ planOf'[r] = proc[e].plan
        /\ consumed[r] # None /\ consumed[r].plan = proc[e].plan
        /\ UNCHANGED consumed
    BY <2>3, <2>4 DEF CreateRun, approvals, DirInv, DirType, RunInv, HolderInv, Holds
  <2> QED BY <2>3, <2>5
<1> QED
  BY <1>1, <1>2

(* What is left to import are patched paths of a consumed plan.            *)
PatchingOK(e) ==
    LET p == proc[e].plan
    IN  /\ p \in Plan
        /\ files[RunOf(p)].inputs = "whole"
        /\ planOf[RunOf(p)] = p
        /\ proc[e].todo \subseteq PatchPaths(RunOf(p))
        /\ proc[e].pc = "replace" => proc[e].todo # {}
PatchInv == \A e \in Proc : Importing(e) => PatchingOK(e)

LEMMA PatchInvInit == Init => PatchInv
BY DEF Init, NoProc, PatchInv, Importing

LEMMA PatchesStay ==
    ASSUME RunInv, DirInv, [Next]_vars, NEW r \in RunId, files[r].inputs = "whole"
    PROVE  /\ files'[r].inputs = "whole" /\ planOf'[r] = planOf[r]
           /\ Plan0(r)' = Plan0(r) /\ PatchPaths(r)' = PatchPaths(r)
<1>1. files'[r].inputs = "whole" /\ planOf'[r] = planOf[r]
  BY StoreGrows, FileNames DEF FilesGrow
<1>2. bundle'[planOf[r]] = bundle[planOf[r]]
  BY StoreGrows DEF DirInv, RunOK
<1>3. Plan0(r)' = Plan0(r)
  BY <1>1, <1>2 DEF Plan0, Sealed
<1> QED
  BY <1>1, <1>3 DEF PatchPaths

(* How a step moves a process that imports.                                *)
LEMMA ImportMoves ==
    ASSUME RunInv, [Next]_vars, NEW e \in Proc, Importing(e)'
    PROVE  \/ proc'[e] = proc[e]
           \/ \E r \in RunId : BeginApply(e, r)
           \/ CopyChange(e) /\ ~Stop(e)
           \/ ReplaceChange(e)
<1>1. ASSUME NEW f \in Proc, RunStep(f) PROVE proc'[e] = proc[e]
  <2>1. \/ Stop(f)
        \/ \E p \in Plan : BeginRun(f, p)
        \/ /\ Planned(f)
           /\ \E pc \in {"verified", "consumed", "created", "running", "accepted"} : Goto(f, pc)
    BY <1>1 DEF RunStep, VerifyBeforeConsume, ConsumeApproval, RefuseApproval, CreateRun,
      LaunchCodex, Crash, CodexFails, CodexOverCeiling, CodexCompletes, WriteResult,
      Planned, Executing
  <2>2. CASE Stop(f)
    BY <2>2 DEF Stop, NoProc, RunInv, ProcInv, Importing
  <2>3. ASSUME NEW p \in Plan, BeginRun(f, p) PROVE proc'[e] = proc[e]
    <3> DEFINE state == [NoProc EXCEPT !.pc = "preflighted", !.plan = p]
    <3>1. proc' = [proc EXCEPT ![f] = state] /\ state.pc = "preflighted"
      BY <2>3 DEF BeginRun, NoProc
    <3> HIDE DEF state
    <3> QED BY <3>1 DEF RunInv, ProcInv, Importing
  <2>4. ASSUME Planned(f), NEW pc \in {"verified", "consumed", "created", "running", "accepted"},
               Goto(f, pc)
        PROVE  proc'[e] = proc[e]
    <3>1. proc'[f].pc = pc /\ \A g \in Proc \ {f} : proc'[g] = proc[g]
      BY <2>4, GotoMoves DEF RunInv
    <3> QED BY <3>1 DEF Importing
  <2> QED BY <2>1, <2>2, <2>3, <2>4
<1>2. ASSUME NEW f \in Proc, ApplyStep(f), f # e PROVE proc'[e] = proc[e]
  BY <1>2 DEF ApplyStep, BeginApply, CopyChange, ReplaceChange, FinishApply, Stop, Goto,
    RunInv, ProcInv
<1>3. ASSUME ApplyStep(e)
      PROVE  \/ \E r \in RunId : BeginApply(e, r)
             \/ CopyChange(e) /\ ~Stop(e)
             \/ ReplaceChange(e)
  <2>1. ~Stop(e)
    BY DEF Stop, NoProc, RunInv, ProcInv, Importing
  <2> QED BY <1>3, <2>1 DEF ApplyStep, FinishApply
<1>4. ASSUME NEW r \in RunId, WorkerStep(r) PROVE UNCHANGED proc
  BY <1>4, WorkerStepIsPrivate
<1>5. UserStep \/ UNCHANGED vars => UNCHANGED proc
  BY DEF UserStep, EditProject, SealPlan, Approve, Expire, ShowChanges, Attest, Promote, vars
<1> QED
  BY <1>1, <1>2, <1>3, <1>4, <1>5 DEF Next

(* What the steps of an import make of its process.                        *)
LEMMA BeginSets ==
    ASSUME RunInv, NEW e \in Proc, NEW r \in RunId, BeginApply(e, r)
    PROVE  /\ proc'[e].pc = "copy" /\ proc'[e].plan = planOf[r]
           /\ proc'[e].todo = Changed(r) /\ proc'[e].diff = Diff(r)
           /\ \A f \in Proc \ {e} : proc'[f] = proc[f]
<1> DEFINE state == [pc |-> "copy", plan |-> planOf[r], todo |-> Changed(r), diff |-> Diff(r)]
<1>1. proc' = [proc EXCEPT ![e] = state]
  BY DEF BeginApply
<1>2. /\ state.pc = "copy" /\ state.plan = planOf[r]
      /\ state.todo = Changed(r) /\ state.diff = Diff(r)
  OBVIOUS
<1> HIDE DEF state
<1> QED
  BY <1>1, <1>2 DEF RunInv, ProcInv

LEMMA CopySets ==
    ASSUME RunInv, NEW e \in Proc, CopyChange(e), ~Stop(e)
    PROVE  /\ proc[e].pc = "copy" /\ proc[e].todo # {}
           /\ proc'[e].pc = "replace" /\ proc'[e].plan = proc[e].plan
           /\ proc'[e].todo = proc[e].todo /\ proc'[e].diff = proc[e].diff
           /\ \A f \in Proc \ {e} : proc'[f] = proc[f]
<1> DEFINE state == [proc[e] EXCEPT !.pc = "replace"]
<1>1. proc' = [proc EXCEPT ![e] = state] /\ proc[e].pc = "copy" /\ proc[e].todo # {}
  BY DEF CopyChange, Goto
<1>2. /\ state.pc = "replace" /\ state.plan = proc[e].plan
      /\ state.todo = proc[e].todo /\ state.diff = proc[e].diff
  BY Fields DEF RunInv, ProcInv
<1> HIDE DEF state
<1> QED
  BY <1>1, <1>2 DEF RunInv, ProcInv

LEMMA ReplaceSets ==
    ASSUME RunInv, NEW e \in Proc, ReplaceChange(e)
    PROVE  /\ proc[e].pc = "replace"
           /\ proc'[e].pc = "copy" /\ proc'[e].plan = proc[e].plan
           /\ proc'[e].todo = proc[e].todo \ {Min(proc[e].todo)}
           /\ proc'[e].diff = proc[e].diff
           /\ \A f \in Proc \ {e} : proc'[f] = proc[f]
<1> DEFINE path == Min(proc[e].todo)
           state == [proc[e] EXCEPT !.pc = "copy", !.todo = @ \ {path}]
<1>1. proc' = [proc EXCEPT ![e] = state] /\ proc[e].pc = "replace"
  BY DEF ReplaceChange
<1> HIDE DEF path
<1>2. /\ state.pc = "copy" /\ state.plan = proc[e].plan
      /\ state.todo = proc[e].todo \ {path} /\ state.diff = proc[e].diff
  BY Fields DEF RunInv, ProcInv
<1> HIDE DEF state
<1>3. proc'[e] = state /\ \A f \in Proc \ {e} : proc'[f] = proc[f]
  BY <1>1 DEF RunInv, ProcInv
<1> QED
  BY <1>1, <1>2, <1>3 DEF path

LEMMA PatchInvStep == RunInv /\ DirInv /\ OriginInv /\ PatchInv /\ [Next]_vars => PatchInv'
<1> SUFFICES ASSUME RunInv, DirInv, OriginInv, PatchInv, [Next]_vars,
                    NEW e \in Proc, Importing(e)'
             PROVE  PatchingOK(e)'
  BY DEF PatchInv
<1>1. ASSUME Importing(e), proc'[e].plan = proc[e].plan, proc'[e].todo \subseteq proc[e].todo,
             proc'[e].pc = "replace" => proc'[e].todo # {}
      PROVE  PatchingOK(e)'
  <2>. PICK r \in RunId : r = RunOf(proc[e].plan)
    BY <1>1, RunIds DEF PatchInv, PatchingOK
  <2>1. PatchingOK(e)
    BY <1>1 DEF PatchInv
  <2>2. /\ files'[r].inputs = "whole" /\ planOf'[r] = planOf[r]
        /\ PatchPaths(r)' = PatchPaths(r)
    BY <2>1, PatchesStay DEF PatchingOK
  <2>3. RunOf(proc[e].plan)' = r
    BY <1>1 DEF RunOf
  <2> QED
    BY <1>1, <2>1, <2>2, <2>3 DEF PatchingOK, PatchPaths, Plan0, RunOf
<1>2. CASE proc'[e] = proc[e]
  <2>1. Importing(e)
    BY <1>2 DEF Importing
  <2>2. PatchingOK(e)
    BY <2>1 DEF PatchInv
  <2> QED
    BY <1>1, <1>2, <2>1, <2>2 DEF PatchingOK
<1>3. ASSUME NEW r \in RunId, BeginApply(e, r) PROVE PatchingOK(e)'
  <2>1. /\ proc'[e].pc = "copy" /\ proc'[e].plan = planOf[r] /\ proc'[e].todo = Changed(r)
    BY <1>3, BeginSets
  <2>2. files[r].inputs = "whole" /\ Changed(r) \subseteq PatchPaths(r)
    BY <1>3 DEF BeginApply, Reviewable
  <2>3. planOf[r] \in Plan /\ RunOf(planOf[r]) = r
    BY <2>2 DEF OriginInv, DirInv, RunOK
  <2>4. /\ files'[r].inputs = "whole" /\ planOf'[r] = planOf[r]
        /\ PatchPaths(r)' = PatchPaths(r)
    BY <2>2, PatchesStay
  <2> QED
    BY <2>1, <2>2, <2>3, <2>4 DEF PatchingOK, PatchPaths, Plan0, RunOf
<1>4. CASE CopyChange(e) /\ ~Stop(e)
  BY <1>1, <1>4, CopySets DEF Importing
<1>5. CASE ReplaceChange(e)
  BY <1>1, <1>5, ReplaceSets DEF Importing
<1> QED
  BY <1>2, <1>3, <1>4, <1>5, ImportMoves
-----------------------------------------------------------------------------
(* Types.                                                                  *)

(* Who changes which variable.                                             *)
LEMMA HostChanges ==
    ASSUME [Next]_vars
    PROVE  /\ \/ UNCHANGED project /\ UNCHANGED edits
              \/ \E path \in Path, content \in Foreign : EditProject(path, content)
              \/ \E e \in Proc : ReplaceChange(e)
           /\ \/ UNCHANGED temp
              \/ \E e \in Proc : CopyChange(e)
              \/ \E e \in Proc : ReplaceChange(e)
<1>1. CASE UserStep \/ UNCHANGED vars
  BY <1>1 DEF UserStep, EditProject, SealPlan, Approve, Expire, ShowChanges, Attest, Promote,
    vars, host
<1>2. ASSUME NEW e \in Proc, RunStep(e) PROVE UNCHANGED <<host, edits>>
  BY <1>2 DEF RunStep, BeginRun, VerifyBeforeConsume, ConsumeApproval, RefuseApproval,
    CreateRun, LaunchCodex, Crash, CodexFails, CodexOverCeiling, CodexCompletes, WriteResult
<1>3. ASSUME NEW e \in Proc, ApplyStep(e)
      PROVE  \/ UNCHANGED <<project, temp, edits>>
             \/ CopyChange(e) /\ UNCHANGED <<project, edits>>
             \/ ReplaceChange(e)
  BY <1>3 DEF ApplyStep, BeginApply, CopyChange, FinishApply, host
<1> QED
  BY <1>1, <1>2, <1>3, WorkerStepIsPrivate DEF Next, host

LEMMA ApprovalChanges ==
    ASSUME [Next]_vars
    PROVE  /\ UNCHANGED bundle \/ \E p \in Plan : SealPlan(p)
           /\ \/ UNCHANGED grant
              \/ \E p \in Plan : Approve(p)
              \/ \E r \in RunId : Expire(r)
           /\ UNCHANGED consumed \/ \E e \in Proc : ConsumeApproval(e)
<1>1. CASE UserStep \/ UNCHANGED vars
  BY <1>1 DEF UserStep, EditProject, SealPlan, Approve, Expire, ShowChanges, Attest, Promote,
    vars, approvals
<1>2. ASSUME NEW e \in Proc, RunStep(e) \/ ApplyStep(e)
      PROVE  UNCHANGED <<bundle, grant>> /\ (UNCHANGED consumed \/ ConsumeApproval(e))
  BY <1>2 DEF RunStep, BeginRun, VerifyBeforeConsume, ConsumeApproval, RefuseApproval,
    CreateRun, LaunchCodex, Crash, CodexFails, CodexOverCeiling, CodexCompletes, WriteResult,
    ApplyStep, BeginApply, CopyChange, ReplaceChange, FinishApply, approvals
<1> QED
  BY <1>1, <1>2, WorkerStepIsPrivate DEF Next, approvals

LEMMA StoreChanges ==
    ASSUME [Next]_vars
    PROVE  /\ UNCHANGED planOf \/ \E e \in Proc : CreateRun(e)
           /\ \/ UNCHANGED answer
              \/ \E e \in Proc, segments \in Answers : CodexCompletes(e, segments)
           /\ UNCHANGED verified \/ \E r \in RunId, receipts \in Receipts : Attest(r, receipts)
           /\ UNCHANGED recorded \/ \E e \in Proc : FinishApply(e)
           /\ UNCHANGED shown \/ \E r \in RunId : ShowChanges(r)
           /\ UNCHANGED promoted \/ \E r \in RunId, mode \in PromotionModes : Promote(r, mode)
<1>1. CASE UserStep \/ UNCHANGED vars
  BY <1>1 DEF UserStep, EditProject, SealPlan, Approve, Expire, ShowChanges, Attest, Promote,
    vars, store
<1>2. ASSUME NEW e \in Proc, RunStep(e)
      PROVE  /\ UNCHANGED <<verified, recorded, shown, promoted>>
             /\ UNCHANGED planOf \/ CreateRun(e)
             /\ UNCHANGED answer \/ \E segments \in Answers : CodexCompletes(e, segments)
  BY <1>2 DEF RunStep, BeginRun, VerifyBeforeConsume, ConsumeApproval, RefuseApproval,
    CreateRun, LaunchCodex, Crash, CodexFails, CodexOverCeiling, CodexCompletes, WriteResult,
    store
<1>3. ASSUME NEW e \in Proc, ApplyStep(e)
      PROVE  /\ UNCHANGED <<planOf, answer, verified, shown, promoted>>
             /\ UNCHANGED recorded \/ FinishApply(e)
  BY <1>3 DEF ApplyStep, BeginApply, CopyChange, ReplaceChange, FinishApply, store
<1> QED
  BY <1>1, <1>2, <1>3, WorkerStepIsPrivate DEF Next, store

LEMMA SessionChanges ==
    ASSUME [Next]_vars
    PROVE  \/ UNCHANGED <<workspace, worker>>
           \/ \E r \in RunId : WorkerStep(r)
           \/ \E e \in Proc : CodexEnds(e) /\ UNCHANGED workspace
<1>1. CASE UserStep \/ UNCHANGED vars
  BY <1>1 DEF UserStep, EditProject, SealPlan, Approve, Expire, ShowChanges, Attest, Promote,
    vars, session
<1>2. ASSUME NEW e \in Proc, RunStep(e) \/ ApplyStep(e)
      PROVE  UNCHANGED <<workspace, worker>> \/ (CodexEnds(e) /\ UNCHANGED workspace)
  BY <1>2 DEF RunStep, BeginRun, VerifyBeforeConsume, ConsumeApproval, RefuseApproval,
    CreateRun, LaunchCodex, Crash, CodexFails, CodexOverCeiling, CodexCompletes, WriteResult,
    ApplyStep, BeginApply, CopyChange, ReplaceChange, FinishApply, CodexEnds, session
<1> QED
  BY <1>1, <1>2 DEF Next

LEMMA OriginOf ==
    ASSUME RunInv, DirInv, TypeOK, NEW r \in RunId, files[r].inputs = "whole"
    PROVE  /\ planOf[r] \in Plan
           /\ Manifest0(planOf[r]) \in [OperationPaths(Spec0[planOf[r]].ops) -> Content]
           /\ OperationPaths(Spec0[planOf[r]].ops) \subseteq Path
           /\ Changed(r) \subseteq Path
           /\ Diff(r) \in [Changed(r) -> Content]
<1>1. planOf[r] \in Plan /\ bundle[planOf[r]] # None
  BY DEF DirInv, RunOK
<1>2. /\ Manifest0(planOf[r]) \in [OperationPaths(Spec0[planOf[r]].ops) -> Content]
      /\ OperationPaths(Spec0[planOf[r]].ops) \subseteq Path
  BY <1>1, HarnessConstants DEF TypeOK, Manifest0
<1>3. Changed(r) \subseteq Path
  BY <1>2 DEF Changed, Staged
<1>4. workspace[r] \in [Path -> Content]
  BY DEF TypeOK
<1> QED
  BY <1>1, <1>2, <1>3, <1>4 DEF Diff

(* The file an import works on is one of its own.                          *)
LEMMA NextPath ==
    ASSUME TypeOK, NEW e \in Proc, proc[e].todo # {}
    PROVE  Min(proc[e].todo) \in proc[e].todo /\ Min(proc[e].todo) \in Path
<1>1. proc[e].todo \in SUBSET Path
  BY DEF TypeOK
<1> QED
  BY <1>1, LeastIsOne, HarnessConstants

(* The temporary file of an import is its own until it is renamed.         *)
TempInv ==
    /\ \A e \in Proc : proc[e].pc = "replace" => temp[Min(proc[e].todo)] # None
    /\ \A e, f \in Proc :
         /\ proc[e].pc = "replace" /\ proc[f].pc = "replace"
         /\ Min(proc[e].todo) = Min(proc[f].todo)
         => e = f

DiffInv == \A e \in Proc : Importing(e) => \E D \in SUBSET Path : proc[e].diff \in [D -> Content]

TypeInv == TypeOK /\ TempInv /\ DiffInv /\ edits \in Nat
HarnessInv == RunInv /\ SessionInv /\ DirInv /\ OriginInv /\ PatchInv

LEMMA TypeInvInit == Init => TypeInv
<1> SUFFICES ASSUME Init PROVE TypeInv
  OBVIOUS
<1>1. /\ project \in [Path -> Content] /\ temp \in [Path -> Content \cup {None}]
      /\ workspace \in [RunId -> [Path -> Content]]
  BY HarnessConstants DEF Init, Content, Absent
<1>2. /\ \A p \in Plan : bundle[p] = None
      /\ grant \in [RunId -> {None} \cup [plan : Plan, expired : BOOLEAN]]
      /\ consumed \in [RunId -> {None} \cup [plan : Plan, late : BOOLEAN, whole : BOOLEAN]]
  BY DEF Init
<1>3. /\ files \in [RunId -> [FileName -> FileState]]
      /\ planOf \in [RunId -> Plan \cup {None}]
      /\ answer \in [RunId -> Answers \cup {<<>>}]
      /\ verified \in [RunId -> Receipts \cup {<<>>}]
      /\ recorded \in [RunId -> SUBSET Path]
      /\ shown \in [RunId -> Diffs]
      /\ promoted \subseteq [run : RunId, mode : PromotionModes]
  BY DEF Init, FileState, Diffs
<1>4. NoSession \in Session
  BY DEF NoSession, Session
<1>5. worker \in [RunId -> Session]
  BY <1>4 DEF Init
<1>6. \A e \in Proc : proc[e].pc = "idle"
  BY DEF Init, NoProc
<1>7. proc \in [Proc -> [pc : {"idle", "preflighted", "verified", "consumed", "created",
                              "running", "accepted", "copy", "replace"},
                         plan : Plan \cup {None}, todo : SUBSET Path, diff : Diffs]]
  BY DEF Init, NoProc, Diffs
<1>8. edits \in Nat
  BY DEF Init
<1>9. executions \in [RunId -> [OpId -> {"none", "once", "again"}]]
  BY DEF Init
<1> QED
  BY <1>1, <1>2, <1>3, <1>5, <1>6, <1>7, <1>8, <1>9 DEF TypeInv, TypeOK, TempInv, DiffInv, Importing

LEMMA HostTypes ==
    ASSUME HarnessInv, TypeInv, [Next]_vars
    PROVE  /\ project' \in [Path -> Content]
           /\ temp' \in [Path -> Content \cup {None}]
           /\ edits' \in Nat
<1>1. project \in [Path -> Content] /\ temp \in [Path -> Content \cup {None}] /\ edits \in Nat
  BY DEF TypeInv, TypeOK
<1>2. ASSUME NEW path \in Path, NEW content \in Foreign, EditProject(path, content)
      PROVE  project' \in [Path -> Content] /\ edits' \in Nat
  BY <1>1, <1>2, HarnessConstants DEF EditProject
<1>3. ASSUME NEW e \in Proc, CopyChange(e)
      PROVE  temp' \in [Path -> Content \cup {None}]
  <2>. PICK p \in Plan, r \in RunId : p = proc[e].plan /\ r = RunOf(p)
    BY <1>3, RunIds DEF CopyChange, HarnessInv, PatchInv, PatchingOK, Importing
  <2> DEFINE path == Min(proc[e].todo)
  <2>1. UNCHANGED temp \/ temp' = [temp EXCEPT ![path] = workspace[r][path]]
    BY <1>3 DEF CopyChange
  <2>2. path \in Path
    BY <1>3, NextPath DEF CopyChange, TypeInv
  <2>3. workspace[r][path] \in Content
    BY <2>2 DEF TypeInv, TypeOK
  <2> QED
    BY <1>1, <2>1, <2>3
<1>4. ASSUME NEW e \in Proc, ReplaceChange(e)
      PROVE  /\ project' \in [Path -> Content] /\ temp' \in [Path -> Content \cup {None}]
             /\ UNCHANGED edits
  <2> DEFINE path == Min(proc[e].todo)
  <2>1. proc[e].pc = "replace" /\ proc[e].todo # {}
    BY <1>4 DEF ReplaceChange, HarnessInv, PatchInv, PatchingOK, Importing
  <2>2. path \in Path /\ temp[path] # None
    BY <2>1, NextPath DEF TypeInv, TempInv
  <2>3. temp[path] \in Content
    BY <1>1, <2>2
  <2> QED
    BY <1>1, <1>4, <2>3 DEF ReplaceChange
<1> QED
  BY <1>1, <1>2, <1>3, <1>4, HostChanges

LEMMA ApprovalTypes ==
    ASSUME HarnessInv, TypeInv, [Next]_vars
    PROVE  /\ \A p \in Plan : bundle'[p] # None =>
                bundle'[p].manifest \in [OperationPaths(Spec0[p].ops) -> Content]
           /\ grant' \in [RunId -> {None} \cup [plan : Plan, expired : BOOLEAN]]
           /\ consumed' \in [RunId -> {None} \cup [plan : Plan, late : BOOLEAN, whole : BOOLEAN]]
<1>1. ASSUME NEW p \in Plan, bundle'[p] # None
      PROVE  bundle'[p].manifest \in [OperationPaths(Spec0[p].ops) -> Content]
  <2>1. CASE bundle'[p] = bundle[p]
    BY <1>1, <2>1 DEF TypeInv, TypeOK
  <2>2. CASE bundle'[p] # bundle[p]
    <3>1. SealPlan(p)
      <4>1. PICK q \in Plan : SealPlan(q)
        BY <2>2, ApprovalChanges
      <4> QED
        BY <2>2, <4>1 DEF SealPlan, HarnessInv, DirInv, DirType
    <3>2. bundle'[p].manifest = Manifest(project, OperationPaths(Spec0[p].ops))
      BY <3>1 DEF SealPlan, HarnessInv, DirInv, DirType
    <3> QED
      BY <3>2, HarnessConstants DEF Manifest, TypeInv, TypeOK
  <2> QED
    BY <2>1, <2>2
<1>2. grant' \in [RunId -> {None} \cup [plan : Plan, expired : BOOLEAN]]
  <2>1. grant \in [RunId -> {None} \cup [plan : Plan, expired : BOOLEAN]]
    BY DEF TypeInv, TypeOK
  <2>2. ASSUME NEW p \in Plan, Approve(p)
        PROVE  grant' \in [RunId -> {None} \cup [plan : Plan, expired : BOOLEAN]]
    BY <2>1, <2>2 DEF Approve
  <2>3. ASSUME NEW r \in RunId, Expire(r)
        PROVE  grant' \in [RunId -> {None} \cup [plan : Plan, expired : BOOLEAN]]
    BY <2>1, <2>3 DEF Expire
  <2> QED
    BY <2>1, <2>2, <2>3, ApprovalChanges
<1>3. consumed' \in [RunId -> {None} \cup [plan : Plan, late : BOOLEAN, whole : BOOLEAN]]
  <2>1. consumed \in [RunId -> {None} \cup [plan : Plan, late : BOOLEAN, whole : BOOLEAN]]
    BY DEF TypeInv, TypeOK
  <2>2. ASSUME NEW e \in Proc, ConsumeApproval(e)
        PROVE  consumed' \in [RunId -> {None} \cup [plan : Plan, late : BOOLEAN, whole : BOOLEAN]]
    <3>1. proc[e].plan \in Plan
      BY <2>2 DEF ConsumeApproval, HarnessInv, RunInv, ProcInv, Planned, Executing
    <3>2. PICK late \in BOOLEAN, whole \in BOOLEAN :
            consumed' = [consumed EXCEPT ![RunOf(proc[e].plan)] =
                           [plan |-> proc[e].plan, late |-> late, whole |-> whole]]
      BY <2>2 DEF ConsumeApproval
    <3> QED
      BY <2>1, <3>1, <3>2
  <2> QED
    BY <2>1, <2>2, ApprovalChanges
<1> QED
  BY <1>1, <1>2, <1>3
LEMMA StoreTypes ==
    ASSUME HarnessInv, TypeInv, [Next]_vars
    PROVE  /\ files' \in [RunId -> [FileName -> FileState]]
           /\ planOf' \in [RunId -> Plan \cup {None}]
           /\ answer' \in [RunId -> Answers \cup {<<>>}]
           /\ verified' \in [RunId -> Receipts \cup {<<>>}]
           /\ recorded' \in [RunId -> SUBSET Path]
           /\ shown' \in [RunId -> Diffs]
           /\ promoted' \subseteq [run : RunId, mode : PromotionModes]
<1>1. files' \in [RunId -> [FileName -> FileState]]
  BY StoreGrows DEF FilesGrow, HarnessInv
<1>2. planOf' \in [RunId -> Plan \cup {None}]
  <2>1. planOf \in [RunId -> Plan \cup {None}]
    BY DEF TypeInv, TypeOK
  <2>2. ASSUME NEW e \in Proc, CreateRun(e) PROVE planOf' \in [RunId -> Plan \cup {None}]
    <3>1. proc[e].plan \in Plan
      BY <2>2 DEF CreateRun, HarnessInv, RunInv, ProcInv, Planned, Executing
    <3> QED
      BY <2>1, <2>2, <3>1 DEF CreateRun
  <2> QED
    BY <2>1, <2>2, StoreChanges
<1>3. answer' \in [RunId -> Answers \cup {<<>>}]
  <2>1. answer \in [RunId -> Answers \cup {<<>>}]
    BY DEF TypeInv, TypeOK
  <2>2. ASSUME NEW e \in Proc, NEW segments \in Answers, CodexCompletes(e, segments)
        PROVE  answer' \in [RunId -> Answers \cup {<<>>}]
    BY <2>1, <2>2 DEF CodexCompletes
  <2> QED
    BY <2>1, <2>2, StoreChanges
<1>4. verified' \in [RunId -> Receipts \cup {<<>>}]
  <2>1. verified \in [RunId -> Receipts \cup {<<>>}]
    BY DEF TypeInv, TypeOK
  <2>2. ASSUME NEW r \in RunId, NEW receipts \in Receipts, Attest(r, receipts)
        PROVE  verified' \in [RunId -> Receipts \cup {<<>>}]
    BY <2>1, <2>2 DEF Attest
  <2> QED
    BY <2>1, <2>2, StoreChanges
<1>5. recorded' \in [RunId -> SUBSET Path]
  <2>1. recorded \in [RunId -> SUBSET Path]
    BY DEF TypeInv, TypeOK
  <2>2. ASSUME NEW e \in Proc, FinishApply(e) PROVE recorded' \in [RunId -> SUBSET Path]
    <3>1. PICK D \in SUBSET Path : proc[e].diff \in [D -> Content]
      BY <2>2 DEF FinishApply, AllReplaced, TypeInv, DiffInv, Importing
    <3>2. DOMAIN proc[e].diff \in SUBSET Path
      BY <3>1
    <3> QED
      BY <2>1, <2>2, <3>2 DEF FinishApply
  <2> QED
    BY <2>1, <2>2, StoreChanges
<1>6. shown' \in [RunId -> Diffs]
  <2>1. shown \in [RunId -> Diffs]
    BY DEF TypeInv, TypeOK
  <2>2. ASSUME NEW r \in RunId, ShowChanges(r) PROVE shown' \in [RunId -> Diffs]
    <3>1. Changed(r) \in SUBSET Path /\ Diff(r) \in [Changed(r) -> Content]
      BY <2>2, OriginOf DEF ShowChanges, Reviewable, HarnessInv, TypeInv
    <3>2. Diff(r) \in Diffs
      BY <3>1 DEF Diffs
    <3> QED
      BY <2>1, <2>2, <3>2 DEF ShowChanges
  <2> QED
    BY <2>1, <2>2, StoreChanges
<1>7. promoted' \subseteq [run : RunId, mode : PromotionModes]
  <2>1. promoted \subseteq [run : RunId, mode : PromotionModes]
    BY DEF TypeInv, TypeOK
  <2>2. ASSUME NEW r \in RunId, NEW mode \in PromotionModes, Promote(r, mode)
        PROVE  promoted' \subseteq [run : RunId, mode : PromotionModes]
    BY <2>1, <2>2 DEF Promote
  <2> QED
    BY <2>1, <2>2, StoreChanges
<1> QED
  BY <1>1, <1>2, <1>3, <1>4, <1>5, <1>6, <1>7

LEMMA SessionTypes ==
    ASSUME HarnessInv, TypeInv, [Next]_vars
    PROVE  workspace' \in [RunId -> [Path -> Content]] /\ worker' \in [RunId -> Session]
<1> DEFINE Good == workspace' \in [RunId -> [Path -> Content]] /\ worker' \in [RunId -> Session]
<1>1. /\ workspace \in [RunId -> [Path -> Content]] /\ worker \in [RunId -> Session]
      /\ project \in [Path -> Content]
  BY DEF TypeInv, TypeOK
<1>2. UNCHANGED <<workspace, worker>> => Good
  BY <1>1
<1>3. \A r \in RunId : \A tool \in {"worker_read", "worker_search", "worker_write",
                                    "worker_execute", "worker_inventory"} :
        \A id \in OpId \cup {None}, paths \in SUBSET Path :
          Called(r, tool, id, paths) \in SUBSET Call
  BY <1>1 DEF Called, Call, Session
<1>. DEFINE SessionPC == {"none", "checking", "copying", "ready", "busy", "ended"}
<1>4. ASSUME NEW r \in RunId, NEW state \in Session, worker' = [worker EXCEPT ![r] = state],
             UNCHANGED workspace
      PROVE  Good
  BY <1>1, <1>4
<1>5. ASSUME NEW r \in RunId, NEW pc \in SessionPC, SetWorker(r, pc), UNCHANGED workspace
      PROVE  Good
  <2>1. [worker[r] EXCEPT !.pc = pc] \in Session
    BY <1>1, <1>5 DEF Session
  <2> QED
    BY <1>4, <1>5, <2>1 DEF SetWorker
<1>6. ASSUME NEW r \in RunId, CallFails(r), UNCHANGED workspace PROVE Good
  <2>1. [worker[r] EXCEPT !.failed = TRUE] \in Session
    BY <1>1 DEF Session
  <2> QED
    BY <1>4, <1>6, <2>1 DEF CallFails
<1>7. ASSUME NEW r \in RunId, WorkerStep(r) PROVE Good
  <2>1. CASE StartWorker(r)
    <3>1. DOMAIN Manifest0(planOf[r]) \in SUBSET Path
      <4>1. files[r].inputs = "whole"
        BY <2>1, RunIds DEF StartWorker, Running, HarnessInv, DirInv, ProcOK
      <4> QED
        BY <4>1, OriginOf DEF HarnessInv, TypeInv
    <3> DEFINE state == [worker[r] EXCEPT !.pc = "checking", !.op = None, !.completed = {},
                                          !.todo = DOMAIN Manifest0(planOf[r])]
    <3>2. state \in Session
      BY <1>1, <3>1 DEF Session
    <3>3. UNCHANGED workspace /\ worker' = [worker EXCEPT ![r] = state]
      BY <2>1 DEF StartWorker
    <3> HIDE DEF state
    <3> QED BY <1>4, <3>2, <3>3
  <2>2. CASE CheckSource(r)
    <3> DEFINE state == [worker[r] EXCEPT !.todo = @ \ {Min(worker[r].todo)}]
    <3>1. state \in Session
      BY <1>1 DEF Session
    <3>2. /\ UNCHANGED workspace
          /\ \/ SetWorker(r, "ended") \/ SetWorker(r, "copying")
             \/ worker' = [worker EXCEPT ![r] = state]
      BY <2>2 DEF CheckSource
    <3> HIDE DEF state
    <3> QED
      BY <1>4, <1>5, <3>1, <3>2
  <2>3. CASE CopySource(r)
    BY <1>1, <2>3 DEF CopySource, Session
  <2>4. CASE VerifyConsumed(r)
    BY <1>5, <2>4 DEF VerifyConsumed
  <2>5. CASE WorkerInventory(r)
    <3>1. Called(r, "worker_inventory", None, {}) \in SUBSET Call
      BY <1>3
    <3> DEFINE state == [worker[r] EXCEPT !.calls = Called(r, "worker_inventory", None, {})]
    <3>2. state \in Session
      BY <1>1, <3>1 DEF Session
    <3>3. UNCHANGED workspace /\ worker' = [worker EXCEPT ![r] = state]
      BY <2>5 DEF WorkerInventory
    <3> HIDE DEF state
    <3> QED BY <1>4, <3>2, <3>3
  <2>6. ASSUME NEW id \in OpId, WorkerExecute(r, id) PROVE Good
    <3> DEFINE state == [worker[r] EXCEPT !.pc = "busy", !.op = id]
    <3>1. state \in Session
      BY <1>1 DEF Session
    <3>2. /\ UNCHANGED workspace
          /\ CallFails(r) \/ worker' = [worker EXCEPT ![r] = state]
      BY <2>6 DEF WorkerExecute
    <3> HIDE DEF state
    <3> QED
      BY <1>4, <1>6, <3>1, <3>2
  <2>7. ASSUME NEW id \in OpId, OrphanEnds(r, id) PROVE Good
    <3> DEFINE state == [worker[r] EXCEPT !.orphans = @ \ {id}]
    <3>1. state \in Session
      BY <1>1 DEF Session
    <3>2. UNCHANGED workspace /\ worker' = [worker EXCEPT ![r] = state]
      BY <2>7 DEF OrphanEnds
    <3> HIDE DEF state
    <3> QED BY <1>4, <3>1, <3>2
  <2>8. ASSUME NEW id \in OpId, NEW path \in Path, WorkerRead(r, id, path) PROVE Good
    <3>1. CASE CallFails(r)
      <4>1. UNCHANGED workspace
        BY <2>8 DEF WorkerRead
      <4> QED BY <1>6, <3>1, <4>1
    <3>2. ASSUME NEW op \in Operation(r, id, {"read", "search"}),
                 worker' = [worker EXCEPT ![r].calls = Called(r, ToolOf(op.kind), id, {path})]
          PROVE  Good
      <4>1. ToolOf(op.kind) \in {"worker_read", "worker_search"}
        BY ReadTools DEF Operation
      <4>2. Called(r, ToolOf(op.kind), id, {path}) \in SUBSET Call
        BY <1>3, <4>1
      <4> DEFINE state == [worker[r] EXCEPT !.calls = Called(r, ToolOf(op.kind), id, {path})]
      <4>3. state \in Session
        BY <1>1, <4>2 DEF Session
      <4>4. UNCHANGED workspace /\ worker' = [worker EXCEPT ![r] = state]
        BY <2>8, <3>2 DEF WorkerRead
      <4> HIDE DEF state
      <4> QED BY <1>4, <4>3, <4>4
    <3> QED
      BY <2>8, <3>1, <3>2 DEF WorkerRead
  <2>9. ASSUME NEW id \in OpId, NEW path \in Path, NEW base \in Content, NEW content \in Patched,
               WorkerWrite(r, id, path, base, content)
        PROVE  Good
    <3>1. content \in Content
      BY HarnessConstants
    <3>2. Called(r, "worker_write", id, {path}) \in SUBSET Call
      BY <1>3
    <3> DEFINE state == [worker[r] EXCEPT !.calls = Called(r, "worker_write", id, {path})]
    <3>3. state \in Session
      BY <1>1, <3>2 DEF Session
    <3>4. \/ CallFails(r) /\ UNCHANGED workspace
          \/ /\ worker' = [worker EXCEPT ![r] = state]
             /\ workspace' = [workspace EXCEPT ![r][path] = content]
      BY <2>9 DEF WorkerWrite
    <3>5. workspace' \in [RunId -> [Path -> Content]]
      <4>1. [workspace[r] EXCEPT ![path] = content] \in [Path -> Content]
        BY <1>1, <3>1
      <4>2. \/ UNCHANGED workspace
            \/ workspace' = [workspace EXCEPT ![r] = [workspace[r] EXCEPT ![path] = content]]
        BY <3>4
      <4> QED
        BY <1>1, <4>1, <4>2
    <3>6. worker' \in [RunId -> Session]
      <4> HIDE DEF state
      <4>1. CASE worker' = [worker EXCEPT ![r] = state]
        BY <1>1, <3>3, <4>1
      <4>2. CASE CallFails(r) /\ UNCHANGED workspace
        BY <1>6, <4>2
      <4> QED
        BY <3>4, <4>1, <4>2
    <3> QED
      BY <3>5, <3>6
  <2>10. ASSUME NEW path \in Scribbled, NEW content \in Foreign, ContainerWrites(r, path, content)
         PROVE  Good
    <3>1. path \in Path /\ content \in Content
      BY HarnessConstants
    <3> QED
      BY <1>1, <2>10, <3>1 DEF ContainerWrites
  <2>11. CASE RecipeEnds(r)
    <3> DEFINE id == worker[r].op
    <3>1. id \in OpId
      BY <2>11 DEF RecipeEnds, HarnessInv, SessionInv, SessionOK
    <3>2. Called(r, "worker_execute", id, {}) \in SUBSET Call
      BY <1>3, <3>1
    <3> DEFINE state == [worker[r] EXCEPT !.pc = "ready", !.op = None,
                                          !.completed = @ \cup {id},
                                          !.calls = Called(r, "worker_execute", id, {})]
    <3> HIDE DEF id
    <3>3. state \in Session
      BY <1>1, <3>1, <3>2 DEF Session
    <3>4. worker' = [worker EXCEPT ![r] = state] /\ UNCHANGED workspace
      BY <2>11 DEF RecipeEnds, id
    <3> HIDE DEF state
    <3> QED
      BY <1>4, <3>3, <3>4
  <2>12. CASE RecipeTimesOut(r)
    <3>1. worker[r].op \in OpId
      BY <2>12 DEF RecipeTimesOut, HarnessInv, SessionInv, SessionOK
    <3> DEFINE state == [worker[r] EXCEPT !.pc = "ready", !.op = None,
                                          !.orphans = @ \cup {worker[r].op},
                                          !.failed = TRUE]
    <3>2. state \in Session
      BY <1>1, <3>1 DEF Session
    <3>3. worker' = [worker EXCEPT ![r] = state] /\ UNCHANGED workspace
      BY <2>12 DEF RecipeTimesOut
    <3> HIDE DEF state
    <3> QED
      BY <1>4, <3>2, <3>3
  <2> QED
    BY <1>7, <2>1, <2>2, <2>3, <2>4, <2>5, <2>6, <2>7, <2>8, <2>9, <2>10, <2>11, <2>12
      DEF WorkerStep
<1>8. ASSUME NEW e \in Proc, CodexEnds(e), UNCHANGED workspace PROVE Good
  <2> DEFINE r == RunOf(proc[e].plan)
  <2>1. EndSession(r) /\ r \in RunId
    BY <1>8, CodexEndsSession DEF HarnessInv
  <2>2. worker[r].pc = "busy" => worker[r].op \in OpId
    BY <2>1 DEF HarnessInv, SessionInv, SessionOK
  <2> DEFINE orphans == IF worker[r].pc = "busy" THEN worker[r].orphans \cup {worker[r].op}
                        ELSE worker[r].orphans
             state == [worker[r] EXCEPT !.pc = "ended", !.op = None, !.todo = {},
                                        !.calls = {}, !.failed = FALSE, !.orphans = orphans]
  <2> HIDE DEF r
  <2>3. orphans \in SUBSET OpId
    BY <1>1, <2>1, <2>2 DEF Session
  <2>4. worker' = [worker EXCEPT ![r] = state]
    BY <2>1 DEF EndSession
  <2> HIDE DEF orphans
  <2>5. state \in Session
    <3>1. worker[r] \in Session
      BY <1>1, <2>1
    <3> QED BY <2>3, <3>1 DEF Session
  <2> HIDE DEF state
  <2> QED
    BY <1>8, <1>4, <2>1, <2>4, <2>5
<1> QED
  BY <1>2, <1>7, <1>8, SessionChanges

LEMMA TempInvStep == HarnessInv /\ TypeInv /\ [Next]_vars => TempInv'
<1> SUFFICES ASSUME HarnessInv, TypeInv, [Next]_vars PROVE TempInv'
  OBVIOUS
<1> DEFINE At(e) == Min(proc[e].todo)
           Renames(e) == proc[e].pc = "replace"
<1>1. \A e \in Proc : Renames(e) => temp[At(e)] # None /\ At(e) \in Path
  BY NextPath DEF TypeInv, TempInv, HarnessInv, PatchInv, PatchingOK, Importing
<1>2. \A e, f \in Proc : Renames(e) /\ Renames(f) /\ At(e) = At(f) => e = f
  BY DEF TypeInv, TempInv
<1>3. temp \in [Path -> Content \cup {None}]
  BY DEF TypeInv, TypeOK
<1>4. CASE \E e \in Proc : CopyChange(e) /\ ~Stop(e)
  <2>. PICK e \in Proc : CopyChange(e) /\ ~Stop(e)
    BY <1>4
  <2>. PICK r : r = RunOf(proc[e].plan)
    OBVIOUS
  <2>1. /\ temp[At(e)] = None /\ workspace[r][At(e)] \in Content
        /\ temp' = [temp EXCEPT ![At(e)] = workspace[r][At(e)]]
        /\ At(e) \in Path
    <3>1. At(e) \in Path /\ r \in RunId
      BY NextPath, RunIds DEF CopyChange, TypeInv, HarnessInv, PatchInv, PatchingOK, Importing
    <3> QED
      BY <3>1 DEF CopyChange, TypeInv, TypeOK
  <2>2. /\ Renames(e)' /\ At(e)' = At(e)
        /\ \A f \in Proc \ {e} : proc'[f] = proc[f]
    BY CopySets DEF HarnessInv
  <2>3. temp'[At(e)] # None /\ \A path \in Path \ {At(e)} : temp'[path] = temp[path]
    BY <1>3, <2>1, HarnessConstants
  <2> HIDE DEF At, Renames
  <2>4. \A f \in Proc \ {e} : Renames(f)' => Renames(f) /\ At(f)' = At(f) /\ At(f) # At(e)
    BY <1>1, <2>1, <2>2 DEF At, Renames
  <2>5. \A f \in Proc : Renames(f)' => temp'[At(f)'] # None
    BY <1>1, <2>2, <2>3, <2>4
  <2>6. \A f, g \in Proc : Renames(f)' /\ Renames(g)' /\ At(f)' = At(g)' => f = g
    BY <1>2, <2>2, <2>4
  <2> QED
    BY <2>5, <2>6 DEF TempInv, At, Renames
<1>5. CASE \E e \in Proc : ReplaceChange(e)
  <2>. PICK e \in Proc : ReplaceChange(e)
    BY <1>5
  <2>1. Renames(e) /\ ~Renames(e)' /\ \A f \in Proc \ {e} : proc'[f] = proc[f]
    BY ReplaceSets DEF HarnessInv
  <2>2. temp' = [temp EXCEPT ![At(e)] = None]
    BY DEF ReplaceChange
  <2> HIDE DEF At, Renames
  <2>3. \A f \in Proc : Renames(f)' => Renames(f) /\ At(f)' = At(f) /\ f # e
    BY <2>1 DEF At, Renames
  <2>4. \A f \in Proc : Renames(f)' => temp'[At(f)'] # None
    BY <1>1, <1>2, <1>3, <2>1, <2>2, <2>3
  <2>5. \A f, g \in Proc : Renames(f)' /\ Renames(g)' /\ At(f)' = At(g)' => f = g
    BY <1>2, <2>3
  <2> QED
    BY <2>4, <2>5 DEF TempInv, At, Renames
<1>6. CASE ~ \E e \in Proc : (CopyChange(e) /\ ~Stop(e)) \/ ReplaceChange(e)
  <2>1. UNCHANGED temp
    <3>1. ASSUME NEW e \in Proc, CopyChange(e), Stop(e) PROVE UNCHANGED temp
      <4>1. ~Goto(e, "replace")
        BY <3>1 DEF Goto, Stop, NoProc, HarnessInv, RunInv, ProcInv, Fields
      <4> QED
        BY <3>1, <4>1 DEF CopyChange
    <3> QED
      BY <1>6, <3>1, HostChanges
  <2>2. \A e \in Proc : proc'[e].pc = "replace" => proc'[e] = proc[e]
    <3>1. ASSUME NEW e \in Proc, proc'[e].pc = "replace" PROVE proc'[e] = proc[e]
      <4>1. ~ \E r \in RunId : BeginApply(e, r)
        BY <3>1, BeginSets DEF HarnessInv
      <4> QED
        BY <1>6, <3>1, <4>1, ImportMoves DEF HarnessInv, Importing
    <3> QED
      BY <3>1
  <2> QED
    BY <2>1, <2>2 DEF TypeInv, TempInv
<1> QED
  BY <1>4, <1>5, <1>6

LEMMA DiffInvStep == HarnessInv /\ TypeInv /\ [Next]_vars => DiffInv'
<1> SUFFICES ASSUME HarnessInv, TypeInv, [Next]_vars, NEW e \in Proc, Importing(e)'
             PROVE  \E D \in SUBSET Path : proc'[e].diff \in [D -> Content]
  BY DEF DiffInv
<1>1. ASSUME NEW r \in RunId, BeginApply(e, r)
      PROVE  \E D \in SUBSET Path : proc'[e].diff \in [D -> Content]
  <2>1. proc'[e].diff = Diff(r) /\ files[r].inputs = "whole"
    BY <1>1, BeginSets DEF HarnessInv, BeginApply, Reviewable
  <2>2. Changed(r) \in SUBSET Path /\ Diff(r) \in [Changed(r) -> Content]
    BY <2>1, OriginOf DEF HarnessInv, TypeInv
  <2> QED
    BY <2>1, <2>2
<1>2. CASE Importing(e) /\ proc'[e].diff = proc[e].diff
  BY <1>2 DEF TypeInv, DiffInv
<1> QED
  BY <1>1, <1>2, ImportMoves, CopySets, ReplaceSets DEF HarnessInv, Importing

LEMMA ProcTypes ==
    ASSUME HarnessInv, TypeInv, [Next]_vars
    PROVE  proc' \in [Proc -> [pc : {"idle", "preflighted", "verified", "consumed", "created",
                                     "running", "accepted", "copy", "replace"},
                               plan : Plan \cup {None}, todo : SUBSET Path, diff : Diffs]]
<1> DEFINE State == [pc : {"idle", "preflighted", "verified", "consumed", "created",
                           "running", "accepted", "copy", "replace"},
                     plan : Plan \cup {None}, todo : SUBSET Path, diff : Diffs]
<1>1. proc \in [Proc -> State]
  BY DEF TypeInv, TypeOK
<1>2. ASSUME NEW e \in Proc, NEW state \in State, proc' = [proc EXCEPT ![e] = state]
      PROVE  proc' \in [Proc -> State]
  BY <1>1, <1>2
<1>3. ASSUME NEW e \in Proc, Stop(e) PROVE proc' \in [Proc -> State]
  <2>1. NoProc \in State
    BY DEF NoProc, Diffs
  <2> QED
    BY <1>2, <1>3, <2>1 DEF Stop
<1>4. ASSUME NEW e \in Proc,
             NEW pc \in {"verified", "consumed", "created", "running", "accepted", "replace"},
             Goto(e, pc)
      PROVE  proc' \in [Proc -> State]
  <2>1. [proc[e] EXCEPT !.pc = pc] \in State
    BY <1>1
  <2> QED
    BY <1>2, <1>4, <2>1 DEF Goto
<1>5. ASSUME NEW e \in Proc, RunStep(e) PROVE proc' \in [Proc -> State]
  <2>1. ASSUME NEW p \in Plan, BeginRun(e, p) PROVE proc' \in [Proc -> State]
    <3>1. [NoProc EXCEPT !.pc = "preflighted", !.plan = p] \in State
      BY DEF NoProc, Diffs
    <3> QED
      BY <1>2, <2>1, <3>1 DEF BeginRun
  <2>2. \/ Stop(e)
        \/ \E p \in Plan : BeginRun(e, p)
        \/ \E pc \in {"verified", "consumed", "created", "running", "accepted"} : Goto(e, pc)
    BY <1>5 DEF RunStep, VerifyBeforeConsume, ConsumeApproval, RefuseApproval, CreateRun,
      LaunchCodex, Crash, CodexFails, CodexOverCeiling, CodexCompletes, WriteResult
  <2> HIDE DEF State
  <2> QED
    BY <1>3, <1>4, <2>1, <2>2
<1>6. ASSUME NEW e \in Proc, ApplyStep(e) PROVE proc' \in [Proc -> State]
  <2>1. ASSUME NEW r \in RunId, BeginApply(e, r) PROVE proc' \in [Proc -> State]
    <3> DEFINE state == [pc |-> "copy", plan |-> planOf[r], todo |-> Changed(r), diff |-> Diff(r)]
    <3>1. files[r].inputs = "whole" /\ proc' = [proc EXCEPT ![e] = state]
      BY <2>1 DEF BeginApply, Reviewable
    <3>2. /\ planOf[r] \in Plan /\ Changed(r) \in SUBSET Path
          /\ Diff(r) \in [Changed(r) -> Content]
      BY <3>1, OriginOf DEF HarnessInv, TypeInv
    <3>3. Diff(r) \in Diffs
      BY <3>2 DEF Diffs
    <3>4. state \in State
      BY <3>2, <3>3
    <3> QED
      BY <1>2, <3>1, <3>4
  <2>2. CASE ReplaceChange(e)
    <3> DEFINE state == [proc[e] EXCEPT !.pc = "copy", !.todo = @ \ {Min(proc[e].todo)}]
    <3>1. state \in State
      BY <1>1
    <3>2. proc' = [proc EXCEPT ![e] = state]
      BY <2>2 DEF ReplaceChange
    <3> HIDE DEF state
    <3> QED
      BY <1>2, <3>1, <3>2
  <2>3. CopyChange(e) \/ FinishApply(e) => Stop(e) \/ Goto(e, "replace")
    BY DEF CopyChange, FinishApply
  <2> HIDE DEF State
  <2> QED
    BY <1>3, <1>4, <1>6, <2>1, <2>2, <2>3 DEF ApplyStep
<1>7. UserStep \/ UNCHANGED vars => UNCHANGED proc
  BY DEF UserStep, EditProject, SealPlan, Approve, Expire, ShowChanges, Attest, Promote, vars
<1> QED
  BY <1>1, <1>5, <1>6, <1>7, WorkerStepIsPrivate DEF Next

LEMMA TypeInvStep == HarnessInv /\ TypeInv /\ [Next]_vars => TypeInv'
<1> SUFFICES ASSUME HarnessInv, TypeInv, [Next]_vars PROVE TypeInv'
  OBVIOUS
<1>1. executions' \in [RunId -> [OpId -> {"none", "once", "again"}]]
  BY SessionInvStep DEF HarnessInv, SessionInv, Count
<1>2. TypeOK'
  BY <1>1, HostTypes, ApprovalTypes, StoreTypes, SessionTypes, ProcTypes DEF TypeOK
<1> QED
  BY <1>2, HostTypes, TempInvStep, DiffInvStep DEF TypeInv

LEMMA HarnessInvHolds == Spec => [](HarnessInv /\ TypeInv)
<1>1. Init => HarnessInv /\ TypeInv
  BY RunInvInit, SessionInvInit, DirInvInit, OriginInvInit, PatchInvInit, TypeInvInit
    DEF HarnessInv
<1>2. HarnessInv /\ TypeInv /\ [Next]_vars => (HarnessInv /\ TypeInv)'
  BY RunInvStep, SessionInvStep, DirInvStep, OriginInvStep, PatchInvStep, TypeInvStep
    DEF HarnessInv
<1> QED
  BY <1>1, <1>2, PTL DEF Spec

(* Every variable keeps its type: of what a run or an import reads, the    *)
(* manifest, the diff and the temporary file it needs are there.           *)
THEOREM HarnessTypeCorrect == Spec => []TypeOK
<1>1. TypeInv => TypeOK
  BY DEF TypeInv
<1> QED
  BY <1>1, HarnessInvHolds, PTL

(* A project file that nobody edits is changed only by an import, and only *)
(* if a patch operation of the plan whose approval was consumed names it,  *)
(* whatever the containers did to the workspace and whichever imports run  *)
(* at once.                                                                *)
THEOREM ImportsOnlyPatchedPaths == Spec => OnlyPatchedPathsImported
<1> DEFINE Patched0 == \A path \in Path : project'[path] # project[path] =>
         \/ edits' # edits
         \/ \E r \in RunId : /\ consumed[r] # None
                             /\ planOf[r] = consumed[r].plan
                             /\ path \in PatchPaths(r)
<1>1. HarnessInv /\ TypeInv /\ [Next]_vars => Patched0
  <2> SUFFICES ASSUME HarnessInv, TypeInv, [Next]_vars,
                      NEW path \in Path, project'[path] # project[path], edits' = edits
               PROVE  \E r \in RunId : /\ consumed[r] # None
                                       /\ planOf[r] = consumed[r].plan
                                       /\ path \in PatchPaths(r)
    OBVIOUS
  <2>1. PICK e \in Proc : ReplaceChange(e)
    <3>1. ASSUME NEW q \in Path, NEW content \in Foreign, EditProject(q, content) PROVE FALSE
      BY <3>1 DEF EditProject, TypeInv
    <3> QED
      BY <3>1, HostChanges
  <2>2. /\ proc[e].pc = "replace"
        /\ project' = [project EXCEPT ![Min(proc[e].todo)] = temp[Min(proc[e].todo)]]
    BY <2>1 DEF ReplaceChange
  <2>3. PatchingOK(e) /\ proc[e].todo # {}
    BY <2>2 DEF HarnessInv, PatchInv, PatchingOK, Importing
  <2>4. path = Min(proc[e].todo)
    BY <2>2 DEF TypeInv, TypeOK
  <2>5. path \in proc[e].todo
    BY <2>3, <2>4, NextPath DEF TypeInv
  <2>6. PICK r \in RunId : r = RunOf(proc[e].plan)
    BY <2>3, RunIds DEF PatchingOK
  <2> QED
    BY <2>3, <2>5, <2>6 DEF PatchingOK, HarnessInv, OriginInv
<1> QED
  BY <1>1, HarnessInvHolds, PTL DEF Spec, OnlyPatchedPathsImported
-----------------------------------------------------------------------------
(* From the consumption of its approval to its result a run has one        *)
(* process, and no result yet.                                             *)
Active(e) == proc[e].pc \in {"consumed", "created", "running", "accepted"}
ActiveInv ==
    /\ \A e \in Proc : Active(e) =>
         /\ consumed[RunOf(proc[e].plan)] # None
         /\ files[RunOf(proc[e].plan)].result = "absent"
    /\ \A e, f \in Proc :
         Active(e) /\ Active(f) /\ RunOf(proc[e].plan) = RunOf(proc[f].plan) => e = f

(* A sealed plan of a mode that may be promoted is verified strictly.      *)
StrictOK == \A p \in Plan : bundle[p] # None =>
    (Sealed(p).mode \in PromotionModes => Sealed(p).strict)

(* An attestation is of the review that the run's answer passed.           *)
Attested(r) == ResultLoads(r) /\ ReviewPasses(answer[r], Plan0(r).strict, verified[r])
AttestInv ==
    /\ \A r \in RunId : files[r].attestation = "whole" => Attested(r)
    /\ \A m \in promoted :
         /\ m.run \in RunId /\ files[m.run].attestation = "whole"
         /\ Plan0(m.run).mode \in PromotionModes

ReviewInv == ActiveInv /\ StrictOK /\ AttestInv

LEMMA ReviewInvInit == Init => ReviewInv
<1> SUFFICES ASSUME Init PROVE ReviewInv
  OBVIOUS
<1>1. \A e \in Proc : ~Active(e)
  BY DEF Init, Active, NoProc
<1>2. \A r \in RunId : files[r].attestation = "absent"
  BY DEF Init, FileName
<1> QED
  BY <1>1, <1>2 DEF Init, ReviewInv, ActiveInv, StrictOK, AttestInv

LEMMA ActiveMoves ==
    ASSUME RunInv, [Next]_vars, NEW e \in Proc, Active(e)'
    PROVE  /\ proc'[e].plan = proc[e].plan
           /\ Active(e) \/ ConsumeApproval(e)
<1>1. ASSUME NEW f \in Proc, NEW pc, Goto(f, pc), Planned(f)
      PROVE  proc'[e].plan = proc[e].plan /\ (e # f => proc'[e] = proc[e])
  BY <1>1, GotoMoves DEF RunInv
<1>2. ASSUME NEW f \in Proc, Stop(f) PROVE proc'[e] = proc[e]
  <2>1. e # f
    <3>1. Stop(e) => proc'[e].pc = "idle"
      BY DEF Stop, NoProc, RunInv, ProcInv
    <3> QED BY <1>2, <3>1 DEF Active
  <2> QED BY <1>2, <2>1, StopMoves DEF RunInv
<1>3. UNCHANGED proc => proc'[e].plan = proc[e].plan /\ Active(e)
  BY DEF Active
<1>4. UserStep \/ UNCHANGED vars \/ (\E r \in RunId : WorkerStep(r)) => UNCHANGED proc
  BY WorkerStepIsPrivate DEF UserStep, EditProject, SealPlan, Approve, Expire, ShowChanges,
    Attest, Promote, vars
<1>5. ASSUME NEW f \in Proc, RunStep(f)
      PROVE  proc'[e].plan = proc[e].plan /\ (Active(e) \/ ConsumeApproval(e))
  <2>1. ASSUME NEW p \in Plan, BeginRun(f, p) PROVE proc'[e] = proc[e]
    <3> DEFINE state == [NoProc EXCEPT !.pc = "preflighted", !.plan = p]
    <3>1. proc' = [proc EXCEPT ![f] = state]
      BY <2>1 DEF BeginRun
    <3>2. state.pc = "preflighted"
      BY DEF NoProc
    <3> HIDE DEF state
    <3>3. e # f
      BY <3>1, <3>2 DEF Active, RunInv, ProcInv
    <3> QED
      BY <3>1, <3>3 DEF RunInv, ProcInv
  <2>2. CASE VerifyBeforeConsume(f) /\ ~Stop(f)
    <3>1. Goto(f, "verified") /\ Planned(f)
      BY <2>2 DEF VerifyBeforeConsume, Planned, Executing
    <3>2. e # f
      BY <3>1, GotoMoves DEF RunInv, Active, Executing
    <3> QED
      BY <1>1, <3>1, <3>2 DEF Active
  <2>3. CASE ConsumeApproval(f) /\ ~Stop(f)
    <3>1. Goto(f, "consumed") /\ Planned(f)
      BY <2>3 DEF ConsumeApproval, Planned, Executing
    <3> QED
      BY <1>1, <2>3, <3>1 DEF Active
  <2>4. ASSUME NEW pc, Goto(f, pc), Active(f)
        PROVE  proc'[e].plan = proc[e].plan /\ Active(e)
    <3>1. Planned(f)
      BY <2>4 DEF Active, Planned, Executing
    <3> QED
      BY <1>1, <2>4, <3>1 DEF Active
  <2>5. \/ Stop(f)
        \/ \E p \in Plan : BeginRun(f, p)
        \/ VerifyBeforeConsume(f)
        \/ ConsumeApproval(f)
        \/ Active(f) /\ \E pc \in {"created", "running", "accepted"} : Goto(f, pc)
    BY <1>5 DEF RunStep, RefuseApproval, CreateRun, LaunchCodex, Crash, CodexFails,
      CodexOverCeiling, CodexCompletes, WriteResult, Active
  <2>6. proc'[e] = proc[e] => proc'[e].plan = proc[e].plan /\ Active(e)
    BY DEF Active
  <2> QED
    BY <1>2, <2>1, <2>2, <2>3, <2>4, <2>5, <2>6
<1>6. ASSUME NEW f \in Proc, ApplyStep(f)
      PROVE  proc'[e].plan = proc[e].plan /\ Active(e)
  <2>1. CASE Stop(f)
    BY <1>2, <2>1 DEF Active
  <2>2. ASSUME NEW r \in RunId, BeginApply(f, r) PROVE proc'[e] = proc[e]
    BY <2>2, BeginSets DEF Active
  <2>3. CASE CopyChange(f) /\ ~Stop(f)
    BY <2>3, CopySets DEF Active
  <2>4. CASE ReplaceChange(f)
    BY <2>4, ReplaceSets DEF Active
  <2> QED
    BY <1>6, <2>1, <2>2, <2>3, <2>4 DEF ApplyStep, FinishApply, Active
<1> QED
  BY <1>3, <1>4, <1>5, <1>6 DEF Next

LEMMA ActiveInvStep == RunInv /\ DirInv /\ ActiveInv /\ [Next]_vars => ActiveInv'
<1> SUFFICES ASSUME RunInv, DirInv, ActiveInv, [Next]_vars PROVE ActiveInv'
  OBVIOUS
<1>1. ASSUME NEW e \in Proc, Active(e)'
      PROVE  proc[e].plan \in Plan /\ RunOf(proc[e].plan) \in RunId
  <2>1. Planned(e)
    BY <1>1, ActiveMoves DEF Active, ConsumeApproval, Planned, Executing
  <2> QED
    BY <2>1, RunIds DEF RunInv, ProcInv
<1>2. ASSUME NEW e \in Proc, ConsumeApproval(e), Active(e)'
      PROVE  /\ consumed[RunOf(proc[e].plan)] = None
             /\ consumed'[RunOf(proc[e].plan)] # None
             /\ UNCHANGED files
             /\ \A f \in Proc \ {e} : proc'[f] = proc[f]
  <2>1. Goto(e, "consumed") /\ Planned(e)
    <3>1. ~Stop(e)
      BY <1>2 DEF Stop, NoProc, RunInv, ProcInv, Active
    <3> QED
      BY <1>2, <3>1 DEF ConsumeApproval, Planned, Executing
  <2>2. consumed[RunOf(proc[e].plan)] = None /\ UNCHANGED files
    BY <1>2 DEF ConsumeApproval, Consumable, store
  <2>3. \E late, whole \in BOOLEAN :
          consumed' = [consumed EXCEPT ![RunOf(proc[e].plan)] =
            [plan |-> proc[e].plan, late |-> late, whole |-> whole]]
    BY <1>2 DEF ConsumeApproval
  <2>4. consumed'[RunOf(proc[e].plan)] # None
    BY <1>1, <1>2, <2>3, HarnessConstants DEF RunInv, SpentInv
  <2> QED
    BY <2>1, <2>2, <2>4, GotoMoves DEF RunInv
<1>3. ASSUME NEW e \in Proc, Active(e)'
      PROVE  /\ consumed'[RunOf(proc'[e].plan)] # None
             /\ files'[RunOf(proc'[e].plan)].result = "absent"
  <2>. PICK r \in RunId : r = RunOf(proc[e].plan)
    BY <1>1, <1>3
  <2>1. proc'[e].plan = proc[e].plan
    BY <1>3, ActiveMoves
  <2>2. CASE Active(e)
    <3>1. consumed[r] # None /\ files[r].result = "absent"
      BY <2>2 DEF ActiveInv
    <3>2. consumed'[r] # None
      BY <3>1, StoreGrows DEF Kept
    <3>3. ASSUME files'[r].result # "absent" PROVE FALSE
      <4>1. PICK q \in RunId, name \in FileName, state \in {"torn", "whole"} :
              Create(q, name, state) /\ Creator(q, name)
        BY <3>1, <3>3, FilesStep
      <4>2. name = "result" /\ q = r
        BY <3>1, <3>3, <4>1, CreateGrows, FileNames DEF DirInv
      <4>3. PICK f \in Proc : WriteResult(f) /\ r = RunOf(proc[f].plan)
        BY <4>1, <4>2 DEF Creator
      <4>4. f = e
        BY <2>2, <4>3 DEF ActiveInv, Active, WriteResult
      <4>5. ~Active(e)'
        BY <4>3, <4>4 DEF WriteResult, Stop, NoProc, RunInv, ProcInv, Active
      <4> QED
        BY <1>3, <4>5
    <3> QED
      BY <2>1, <3>2, <3>3
  <2>3. CASE ConsumeApproval(e)
    <3>1. consumed[r] = None /\ consumed'[r] # None /\ UNCHANGED files
      BY <1>2, <1>3, <2>3
    <3>2. files[r].result = "absent"
      BY <3>1 DEF DirInv, RunOK, Earned, Timely
    <3> QED
      BY <2>1, <3>1, <3>2
  <2> QED
    BY <1>3, <2>2, <2>3, ActiveMoves
<1>4. ASSUME NEW e \in Proc, NEW f \in Proc, Active(e)', Active(f)',
             RunOf(proc'[e].plan) = RunOf(proc'[f].plan), e # f
      PROVE  FALSE
  <2>1. RunOf(proc[e].plan) = RunOf(proc[f].plan)
    BY <1>4, ActiveMoves
  <2>2. ASSUME NEW g \in Proc, NEW h \in Proc, ConsumeApproval(g), Active(g)', Active(h)',
               g # h, RunOf(proc[g].plan) = RunOf(proc[h].plan)
        PROVE  FALSE
    <3>1. proc'[h] = proc[h] /\ consumed[RunOf(proc[g].plan)] = None
      BY <1>2, <2>2
    <3>2. Active(h)
      BY <2>2, <3>1 DEF Active
    <3> QED
      BY <2>2, <3>1, <3>2 DEF ActiveInv
  <2>3. Active(e) /\ Active(f)
    BY <1>4, <2>1, <2>2, ActiveMoves
  <2> QED
    BY <1>4, <2>1, <2>3 DEF ActiveInv
<1> QED
  BY <1>3, <1>4 DEF ActiveInv, Active, RunOf

LEMMA StrictOKStep == DirInv /\ StrictOK /\ [Next]_vars => StrictOK'
<1> SUFFICES ASSUME DirInv, StrictOK, [Next]_vars, NEW p \in Plan, bundle'[p] # None
             PROVE  Sealed(p)'.mode \in PromotionModes => Sealed(p)'.strict
  BY DEF StrictOK
<1>1. CASE bundle'[p] = bundle[p]
  <2>1. Sealed(p)' = Sealed(p)
    BY <1>1 DEF Sealed
  <2> QED
    BY <1>1, <2>1 DEF StrictOK
<1>2. CASE bundle'[p] # bundle[p]
  <2>1. PICK q \in Plan : SealPlan(q)
    BY <1>2, ApprovalChanges
  <2>2. p = q
    BY <1>2, <2>1 DEF SealPlan, DirInv, DirType
  <2>3. bundle'[p].contracts = SealContracts(project, Spec0[p].contracts)
    BY <2>1, <2>2 DEF SealPlan, DirInv, DirType
  <2>4. Sealed(p)' = [Spec0[p] EXCEPT !.contracts = SealContracts(project, @)]
    BY <2>3 DEF Sealed
  <2>5. ValidPlan(Sealed(p)')
    BY <2>1, <2>2, <2>4 DEF SealPlan
  <2> QED
    BY <2>5 DEF ValidPlan
<1> QED
  BY <1>1, <1>2

LEMMA AttestInvStep ==
    HarnessInv /\ TypeInv /\ ReviewInv /\ [Next]_vars => AttestInv'
<1> SUFFICES ASSUME HarnessInv, TypeInv, ReviewInv, [Next]_vars PROVE AttestInv'
  OBVIOUS
<1> USE DEF HarnessInv, ReviewInv
<1>1. ASSUME NEW r \in RunId, files[r].attestation = "whole"
      PROVE  /\ files'[r].attestation = "whole"
             /\ Plan0(r)' = Plan0(r)
             /\ Attested(r)'
  <2>1. ResultLoads(r) /\ Attested(r)
    BY <1>1 DEF AttestInv, Attested
  <2>2. Plan0(r)' = Plan0(r)
    BY <2>1, PatchesStay DEF ResultLoads
  <2>3. files'[r].attestation = "whole" /\ ResultLoads(r)'
    BY <1>1, <2>1, StoreGrows, FileNames DEF FilesGrow, ResultLoads
  <2>4. answer'[r] = answer[r]
    <3>1. ASSUME NEW e \in Proc, NEW segments \in Answers, CodexCompletes(e, segments)
          PROVE  answer'[r] = answer[r]
      <4>1. RunOf(proc[e].plan) # r
        BY <2>1, <3>1 DEF CodexCompletes, ActiveInv, Active, ResultLoads
      <4> QED
        BY <3>1, <4>1 DEF CodexCompletes, TypeInv, TypeOK
    <3> QED
      BY <3>1, StoreChanges
  <2>5. verified'[r] = verified[r]
    <3>1. ASSUME NEW q \in RunId, NEW receipts \in Receipts, Attest(q, receipts)
          PROVE  verified'[r] = verified[r]
      <4>1. q # r
        BY <1>1, <3>1 DEF Attest, Create
      <4> QED
        BY <3>1, <4>1 DEF Attest, TypeInv, TypeOK
    <3> QED
      BY <3>1, StoreChanges
  <2> QED
    BY <2>1, <2>2, <2>3, <2>4, <2>5 DEF Attested
<1>2. ASSUME NEW r \in RunId, files'[r].attestation = "whole", files[r].attestation # "whole"
      PROVE  Attested(r)'
  <2>1. PICK q \in RunId, name \in FileName, state \in {"torn", "whole"} :
          Create(q, name, state) /\ Creator(q, name)
    BY <1>2, FilesStep
  <2>2. name = "attestation" /\ q = r /\ files[r].attestation = "absent" /\ state = "whole"
    BY <1>2, <2>1, CreateGrows, FileNames DEF DirInv
  <2>3. PICK receipts \in Receipts : Attest(r, receipts)
    BY <2>1, <2>2 DEF Creator
  <2>4. verified' = [verified EXCEPT ![r] = receipts]
    <3>1. ~Create(r, "attestation", "torn")
      BY <1>2, CreateGrows, FileNames DEF DirInv
    <3> QED
      BY <2>3, <3>1 DEF Attest
  <2>5. verified'[r] = receipts /\ answer'[r] = answer[r]
    BY <2>3, <2>4 DEF Attest, TypeInv, TypeOK
  <2>6. ResultLoads(r) /\ ReviewPasses(answer[r], Plan0(r).strict, receipts)
    BY <2>3 DEF Attest, ReviewOf
  <2>7. Plan0(r)' = Plan0(r)
    BY <2>6, PatchesStay DEF ResultLoads
  <2>8. ResultLoads(r)'
    BY <2>6, StoreGrows, FileNames DEF FilesGrow, ResultLoads
  <2> QED
    BY <2>5, <2>6, <2>7, <2>8 DEF Attested
<1>3. ASSUME NEW m \in promoted'
      PROVE  /\ m.run \in RunId /\ files'[m.run].attestation = "whole"
             /\ Plan0(m.run)'.mode \in PromotionModes
  <2>1. CASE m \in promoted
    BY <1>1, <2>1 DEF AttestInv
  <2>2. CASE m \notin promoted
    <3>1. PICK r \in RunId, mode \in PromotionModes : Promote(r, mode)
      BY <1>3, <2>2, StoreChanges
    <3>2. m.run = r
      BY <1>3, <2>2, <3>1 DEF Promote
    <3>3. files[r].attestation = "whole" /\ Plan0(r).mode \in PromotionModes
      BY <3>1 DEF Promote, PromotionAllowed
    <3> QED
      BY <1>1, <3>2, <3>3
  <2> QED
    BY <2>1, <2>2
<1> QED
  BY <1>1, <1>2, <1>3 DEF AttestInv

LEMMA ReviewInvHolds == Spec => [](HarnessInv /\ TypeInv /\ ReviewInv)
<1>1. HarnessInv /\ TypeInv /\ ReviewInv /\ [Next]_vars => ReviewInv'
  BY ActiveInvStep, StrictOKStep, AttestInvStep DEF ReviewInv, HarnessInv
<1> QED
  BY <1>1, ReviewInvInit, HarnessInvHolds, PTL DEF Spec

(* Under strict verification a factual claim is never below L2.            *)
LEMMA FactsNeedTheSource ==
    ASSUME NEW segment, NEW receipt, NEW strict, strict,
           EligibleSegment(segment, strict, receipt),
           segment.claim.kind \in FactualKinds
    PROVE  "source" \in receipt.passed /\ receipt.refs = segment.refs
<1>1. BaseLevel(segment.claim) \in {1, 2, 3}
  BY DEF BaseLevel
<1>2. "source" \in Required(2) /\ "source" \in Required(3)
  BY DEF Required
<1>3. /\ receipt.given /\ receipt.refs = segment.refs
      /\ Required(2) \subseteq receipt.passed \/ Required(3) \subseteq receipt.passed
  BY <1>1 DEF EligibleSegment, Level
<1> QED
  BY <1>2, <1>3

(* A canonical record that cites a run rests on a strict review: each      *)
(* factual claim of the run's answer was verified at its source, with the  *)
(* references the answer gives; no later step changes the answer, the plan *)
(* or the receipts.                                                        *)
THEOREM PromotionsAreVerified == Spec => []PromotedIsVerified
<1>1. HarnessInv /\ TypeInv /\ ReviewInv => PromotedIsVerified
  <2> SUFFICES ASSUME HarnessInv, TypeInv, ReviewInv, NEW m \in promoted
               PROVE  /\ Plan0(m.run).strict
                      /\ \A i \in DOMAIN answer[m.run] :
                           answer[m.run][i].claim.kind \in FactualKinds =>
                             /\ "source" \in verified[m.run][i].passed
                             /\ verified[m.run][i].refs = answer[m.run][i].refs
    BY DEF PromotedIsVerified
  <2>1. m.run \in RunId /\ Attested(m.run) /\ Plan0(m.run).mode \in PromotionModes
    BY DEF ReviewInv, AttestInv
  <2>2. planOf[m.run] \in Plan /\ bundle[planOf[m.run]] # None
    BY <2>1 DEF Attested, ResultLoads, HarnessInv, DirInv, RunOK
  <2>3. Plan0(m.run).strict
    BY <2>1, <2>2 DEF Plan0, ReviewInv, StrictOK
  <2>4. \A i \in DOMAIN answer[m.run] :
          EligibleSegment(answer[m.run][i], Plan0(m.run).strict, verified[m.run][i])
    BY <2>1 DEF Attested, ReviewPasses
  <2> QED
    BY <2>3, <2>4, FactsNeedTheSource
<1> QED
  BY <1>1, ReviewInvHolds, PTL
===============================================================================
