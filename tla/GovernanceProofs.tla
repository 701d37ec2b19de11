-------------------------- MODULE GovernanceProofs --------------------------
(***************************************************************************)
(* What GovernanceSession promises, for every value of its constants: any  *)
(* number of processes, bindings, packets and policies.  The approvals     *)
(* come first, then where a path leads, what the host is handed, the       *)
(* isolation of reviewers, preflight, failures, types and reviews.         *)
(***************************************************************************)
EXTENDS GovernanceSession, FiniteSetTheorems, SequenceTheorems, WellFoundedInduction, TLAPS

(* A grant is of a binding the user approved; so is what a process that    *)
(* has read the grant will report.                                         *)
GrantInv ==
    /\ granted \subseteq Binding
    /\ grant = [r \in Ref |-> grant[r]]
    /\ \A r \in Ref : grant[r] # None => grant[r].binding \in granted
    /\ runner = [e \in Runner |-> runner[e]]
    /\ \A e \in Runner : runner[e] # None => runner[e] \in granted

(* The marker is there before a run is reported, and stays.                *)
MarkerInv ==
    /\ marker \in [Ref -> {"absent", "torn", "whole"}]
    /\ started \in [Ref -> Seq(Binding)]
    /\ \A r \in Ref :
         /\ marker[r] # "whole" => started[r] = <<>>
         /\ started[r] # <<>> => \E b \in granted : started[r] = <<b>>

ApprovalInv == GrantInv /\ MarkerInv

LEMMA ApprovalInvInit == Init => ApprovalInv
<1> SUFFICES ASSUME Init PROVE ApprovalInv
  OBVIOUS
<1>1. GrantInv
  BY DEF Init, GrantInv
<1>2. MarkerInv
  BY DEF Init, MarkerInv
<1> QED BY <1>1, <1>2 DEF ApprovalInv

LEMMA RefType == ASSUME NEW b \in Binding PROVE RefOf[b] \in Ref
BY DEF Ref

LEMMA GrantKeepsApprovalInv ==
    ASSUME ApprovalInv, NEW b \in Binding, GrantAgents(b)
    PROVE  ApprovalInv'
<1>1. PICK whole \in BOOLEAN :
        grant' = [grant EXCEPT ![RefOf[b]] = [binding |-> b, whole |-> whole]]
  BY DEF GrantAgents
<1>2. granted' = granted \cup {b} /\ UNCHANGED <<marker, runner, started>>
  BY DEF GrantAgents
<1>3. \A r \in Ref : grant'[r] = grant[r] \/ grant'[r].binding = b
  BY <1>1 DEF ApprovalInv, GrantInv
<1>4. grant' = [r \in Ref |-> grant'[r]]
  BY <1>1 DEF ApprovalInv, GrantInv
<1>5. GrantInv'
  BY <1>2, <1>3, <1>4 DEF ApprovalInv, GrantInv
<1>6. MarkerInv'
  BY <1>2 DEF ApprovalInv, MarkerInv
<1> QED BY <1>5, <1>6 DEF ApprovalInv

LEMMA BeginKeepsApprovalInv ==
    ASSUME SessionConstants, ApprovalInv, NEW e \in Runner, NEW b \in Binding, NEW packets,
           BeginConsume(e, b, packets)
    PROVE  ApprovalInv'
<1>1. /\ runner' = [runner EXCEPT ![e] = b]
      /\ UNCHANGED <<grant, marker, granted, started>>
      /\ GrantFits(b)
  BY DEF BeginConsume
<1>2. b \in granted
  BY <1>1, RefType DEF GrantFits, ApprovalInv, GrantInv
<1>3. runner' = [f \in Runner |-> runner'[f]]
  BY <1>1 DEF ApprovalInv, GrantInv
<1>4. \A f \in Runner : runner'[f] = runner[f] \/ runner'[f] = b
  BY <1>1 DEF ApprovalInv, GrantInv
<1>5. GrantInv'
  BY <1>1, <1>2, <1>3, <1>4 DEF ApprovalInv, GrantInv
<1>6. MarkerInv'
  BY <1>1 DEF ApprovalInv, MarkerInv
<1> QED BY <1>5, <1>6 DEF ApprovalInv

(* Only the process that creates the marker reports a run.                 *)
LEMMA ConsumeKeepsApprovalInv ==
    ASSUME ApprovalInv, NEW e \in Runner, Consume(e)
    PROVE  ApprovalInv'
<1> DEFINE b == runner[e]
           r == RefOf[b]
<1>1. b \in granted /\ b \in Binding /\ r \in Ref
  BY RefType DEF Consume, ApprovalInv, GrantInv
<1>2. runner' = [runner EXCEPT ![e] = None] /\ UNCHANGED <<grant, granted>>
  BY DEF Consume
<1>3. GrantInv'
  <2>1. runner' = [f \in Runner |-> runner'[f]]
    BY <1>2 DEF ApprovalInv, GrantInv
  <2>2. \A f \in Runner : runner'[f] = runner[f] \/ runner'[f] = None
    BY <1>2 DEF ApprovalInv, GrantInv
  <2> QED BY <1>2, <2>1, <2>2 DEF ApprovalInv, GrantInv
<1>4. CASE /\ marker[r] = "absent"
           /\ marker' = [marker EXCEPT ![r] = "whole"]
           /\ started' = [started EXCEPT ![r] = Append(@, b)]
  <2>1. started[r] = <<>>
    BY <1>1, <1>4 DEF ApprovalInv, MarkerInv
  <2>2. started' = [started EXCEPT ![r] = <<b>>]
    BY <1>4, <2>1
  <2>3. started' \in [Ref -> Seq(Binding)] /\ marker' \in [Ref -> {"absent", "torn", "whole"}]
    BY <1>1, <1>4, <2>2 DEF ApprovalInv, MarkerInv
  <2>4. ASSUME NEW q \in Ref
        PROVE  /\ marker'[q] # "whole" => started'[q] = <<>>
               /\ started'[q] # <<>> => \E c \in granted : started'[q] = <<c>>
    BY <1>1, <1>4, <2>2 DEF ApprovalInv, MarkerInv
  <2> QED BY <1>2, <1>3, <2>3, <2>4 DEF ApprovalInv, MarkerInv
<1>5. CASE /\ marker[r] = "absent"
           /\ marker' = [marker EXCEPT ![r] = "torn"]
           /\ UNCHANGED started
  BY <1>1, <1>2, <1>3, <1>5 DEF ApprovalInv, MarkerInv
<1>6. CASE marker[r] # "absent" /\ UNCHANGED <<marker, started>>
  BY <1>2, <1>3, <1>6 DEF ApprovalInv, MarkerInv
<1> QED BY <1>4, <1>5, <1>6 DEF Consume

(* Every other decision leaves the approval store alone.                   *)
LEMMA OthersLeaveApprovals ==
    ASSUME Next, ~ \E b \in Binding : GrantAgents(b),
           ~ \E e \in Runner, b \in Binding, slots \in SUBSET Slot :
               BeginConsume(e, b, {desk[s] : s \in slots}),
           ~ \E e \in Runner : Consume(e)
    PROVE  UNCHANGED approvals
<1>1. CASE Tick
  BY <1>1 DEF Tick
<1>2. ASSUME NEW s \in Slot,
             \/ EditPacket(s) \/ BuildDispatch(s)
             \/ \E again \in BOOLEAN : EditReceipt(s, again)
             \/ \E d \in DecisionOf : Decide(s, d)
             \/ \E slots \in SUBSET Slot : MakeReceipt(s, slots) \/ BuildMember(s, slots)
             \/ \E op \in Operation : Preflight(s, op)
      PROVE  UNCHANGED approvals
  <2>1. CASE EditPacket(s)
    BY <2>1 DEF EditPacket
  <2>2. ASSUME NEW again \in BOOLEAN, EditReceipt(s, again) PROVE UNCHANGED approvals
    BY <2>2 DEF EditReceipt
  <2>3. CASE BuildDispatch(s)
    BY <2>3 DEF BuildDispatch, Publish
  <2>4. ASSUME NEW d \in DecisionOf, Decide(s, d) PROVE UNCHANGED approvals
    BY <2>4 DEF Decide
  <2>5. ASSUME NEW slots \in SUBSET Slot, MakeReceipt(s, slots) PROVE UNCHANGED approvals
    BY <2>5 DEF MakeReceipt
  <2>6. ASSUME NEW slots \in SUBSET Slot, BuildMember(s, slots) PROVE UNCHANGED approvals
    BY <2>6 DEF BuildMember, Publish
  <2>7. ASSUME NEW op \in Operation, Preflight(s, op) PROVE UNCHANGED approvals
    BY <2>7 DEF Preflight
  <2> QED BY <1>2, <2>1, <2>2, <2>3, <2>4, <2>5, <2>6, <2>7
<1>3. ASSUME NEW slots \in SUBSET Slot,
             \/ BuildCritical(slots)
             \/ \E workers \in 1..2, ceiling \in Ceiling :
                  PreflightBatch(slots, workers, ceiling)
      PROVE  UNCHANGED approvals
  <2>1. CASE BuildCritical(slots)
    BY <2>1 DEF BuildCritical, Publish
  <2>2. ASSUME NEW workers \in 1..2, NEW ceiling \in Ceiling,
               PreflightBatch(slots, workers, ceiling)
        PROVE  UNCHANGED approvals
    BY <2>2 DEF PreflightBatch
  <2> QED BY <1>3, <2>1, <2>2
<1>4. ASSUME NEW again \in BOOLEAN, EditManifest(again) PROVE UNCHANGED approvals
  BY <1>4 DEF EditManifest
<1>5. CASE HandOver
  BY <1>5 DEF HandOver
<1>6. ASSUME NEW target, Transition(target) PROVE UNCHANGED approvals
  BY <1>6 DEF Transition
<1>7. ASSUME NEW d \in Review, AddReview(d) PROVE UNCHANGED approvals
  BY <1>7 DEF AddReview
<1>8. ASSUME NEW failure \in Failure, NEW levels \in [1..4 -> Level], Fail(failure, levels)
      PROVE  UNCHANGED approvals
  BY <1>8 DEF Fail
<1> QED BY <1>1, <1>2, <1>3, <1>4, <1>5, <1>6, <1>7, <1>8 DEF Next

LEMMA ApprovalInvStep == ASSUME SessionConstants, ApprovalInv, [Next]_vars PROVE ApprovalInv'
<1>1. ASSUME UNCHANGED approvals PROVE ApprovalInv'
  BY <1>1 DEF approvals, ApprovalInv, GrantInv, MarkerInv
<1>2. CASE UNCHANGED vars
  BY <1>1, <1>2 DEF vars
<1>3. CASE Next
  <2>1. CASE \E b \in Binding : GrantAgents(b)
    BY <2>1, GrantKeepsApprovalInv
  <2>2. CASE \E e \in Runner, b \in Binding, slots \in SUBSET Slot :
               BeginConsume(e, b, {desk[s] : s \in slots})
    BY <2>2, BeginKeepsApprovalInv
  <2>3. CASE \E e \in Runner : Consume(e)
    BY <2>3, ConsumeKeepsApprovalInv
  <2> QED BY <1>1, <1>3, <2>1, <2>2, <2>3, OthersLeaveApprovals
<1> QED BY <1>2, <1>3

LEMMA RunsOfAnApproval == ApprovalInv => OneAgentRunPerApproval
<1> SUFFICES ASSUME ApprovalInv, NEW r \in Ref
             PROVE  /\ Len(started[r]) <= 1
                    /\ Range(started[r]) \subseteq granted
                    /\ Len(started[r]) = 1 => marker[r] = "whole"
  BY DEF OneAgentRunPerApproval
<1>1. CASE started[r] = <<>>
  BY <1>1 DEF Range
<1>2. CASE started[r] # <<>>
  <2>1. PICK b \in granted : started[r] = <<b>>
    BY <1>2 DEF ApprovalInv, MarkerInv
  <2>2. marker[r] = "whole"
    BY <1>2 DEF ApprovalInv, MarkerInv
  <2>3. Len(<<b>>) = 1 /\ Range(<<b>>) = {b}
    BY DEF Range
  <2> QED BY <2>1, <2>2, <2>3
<1> QED BY <1>1, <1>2

(* An approval starts at most one agent run, and only what the user        *)
(* approved, however many processes have read its grant before one of them *)
(* writes the marker, and wherever they stop.                              *)
THEOREM ApprovalsAreOneTime == Spec => []OneAgentRunPerApproval
<1>1. ApprovalInv /\ [Next]_vars => ApprovalInv'
  BY ApprovalInvStep, SessionConstants
<1> QED BY <1>1, ApprovalInvInit, RunsOfAnApproval, PTL DEF Spec
-----------------------------------------------------------------------------
(* Where a path leads.                                                     *)

LEMMA GreatestIsOne ==
    ASSUME NEW n \in Nat, NEW S \in SUBSET (1..n), S # {}
    PROVE  Max(S) \in S /\ \A x \in S : x <= Max(S)
<1> DEFINE R == OpToRel(<, Nat)
           T == {n - x : x \in S}
<1>1. IsWellFoundedOn(R, Nat)
  BY NatLessThanWellFounded
<1>2. \A x, y \in Nat : y < x => <<y, x>> \in R
  BY DEF OpToRel
<1> HIDE DEF R
<1>3. T \in SUBSET Nat /\ T # {}
  <2>1. \A x \in S : n - x \in Nat
    OBVIOUS
  <2> QED BY <2>1
<1>4. PICK m \in T : \A y \in T : <<y, m>> \notin R
  <2> HIDE DEF T
  <2> QED BY <1>1, <1>3, WFMin
<1>5. PICK x \in S : m = n - x
  BY <1>4
<1>6. ASSUME NEW y \in S PROVE y <= x
  <2>1. n - y \in T /\ n - y \in Nat /\ m \in Nat
    BY <1>3, <1>4
  <2>2. ~(n - y < m)
    BY <1>2, <1>4, <2>1
  <2> QED BY <1>5, <2>2
<1> QED
  BY <1>6 DEF Max

LEMMA TopIsGreatest ==
    ASSUME NEW n \in Nat, NEW S \in SUBSET (1..n), n \in S
    PROVE  Max(S) = n
<1>1. Max(S) \in S /\ n <= Max(S)
  BY GreatestIsOne
<1>2. Max(S) \in 1..n
  BY <1>1
<1> QED
  BY <1>1, <1>2

Walk(place, part) == IF part = ".." /\ place # <<>> THEN Front(place) ELSE Append(place, part)

(* Where the parts of a path in a set of places lead.                      *)
Walks(path, walked, n) ==
    walked = [s \in SUBSET (1..n) |->
                IF s = {} THEN <<>> ELSE Walk(walked[s \ {Max(s)}], path[Max(s)])]

LEMMA LocatedWalks ==
    ASSUME NEW path
    PROVE  Located(path) =
             (CHOOSE walked : walked = [s \in SUBSET DOMAIN path |->
                IF s = {} THEN <<>> ELSE Walk(walked[s \ {Max(s)}], path[Max(s)])])[DOMAIN path]
BY DEF Located, FoldLeft, MapThenFoldSet, Walk

LEMMA WalkGoesOn ==
    ASSUME NEW path, NEW k \in Nat, NEW walked, Walks(path, walked, k)
    PROVE  \E further : Walks(path, further, k + 1)
<1> DEFINE further == [s \in SUBSET (1..k + 1) |->
                         IF k + 1 \in s THEN Walk(walked[s \ {k + 1}], path[k + 1]) ELSE walked[s]]
<1>1. ASSUME NEW s \in SUBSET (1..k + 1)
      PROVE  further[s] = IF s = {} THEN <<>> ELSE Walk(further[s \ {Max(s)}], path[Max(s)])
  <2>1. CASE s = {}
    BY <2>1 DEF Walks
  <2>2. CASE k + 1 \in s
    <3>1. Max(s) = k + 1
      <4>1. k + 1 \in Nat
        OBVIOUS
      <4> QED BY <2>2, <4>1, TopIsGreatest
    <3>2. s \ {k + 1} \in SUBSET (1..k) /\ s \ {k + 1} \in SUBSET (1..k + 1)
      OBVIOUS
    <3>3. further[s \ {k + 1}] = walked[s \ {k + 1}]
      BY <3>2
    <3> QED BY <2>2, <3>1, <3>3
  <2>3. CASE k + 1 \notin s /\ s # {}
    <3>1. s \in SUBSET (1..k)
      BY <2>3
    <3>2. /\ further[s] = Walk(walked[s \ {Max(s)}], path[Max(s)])
          /\ s \ {Max(s)} \in SUBSET (1..k + 1) /\ k + 1 \notin s \ {Max(s)}
      BY <2>3, <3>1 DEF Walks
    <3>3. further[s \ {Max(s)}] = walked[s \ {Max(s)}]
      BY <3>2
    <3> QED BY <2>3, <3>2, <3>3
  <2> QED BY <2>1, <2>2, <2>3
<1>2. further = [s \in SUBSET (1..k + 1) |->
                   IF s = {} THEN <<>> ELSE Walk(further[s \ {Max(s)}], path[Max(s)])]
  BY <1>1
<1> HIDE DEF further
<1> QED
  BY <1>2 DEF Walks

(* A set of numbers below a bound that leads from each to the next.        *)
LEMMA AllUpTo ==
    ASSUME NEW n \in Nat, NEW S, 0 \in S, \A k \in 0..n - 1 : k \in S => k + 1 \in S
    PROVE  n \in S
<1> DEFINE R == OpToRel(<, Nat)
           T == {k \in 0..n : k \notin S}
<1>1. IsWellFoundedOn(R, Nat)
  BY NatLessThanWellFounded
<1>2. \A x, y \in Nat : y < x => <<y, x>> \in R
  BY DEF OpToRel
<1> HIDE DEF R
<1> SUFFICES ASSUME n \notin S PROVE FALSE
  OBVIOUS
<1>3. T \in SUBSET Nat /\ T # {}
  OBVIOUS
<1>4. PICK m \in T : \A y \in T : <<y, m>> \notin R
  <2> HIDE DEF T
  <2> QED BY <1>1, <1>3, WFMin
<1>5. m \in 1..n
  BY <1>4
<1>6. m - 1 \notin T
  <2>1. m - 1 \in Nat /\ m \in Nat /\ m - 1 < m
    BY <1>5
  <2>2. <<m - 1, m>> \in R
    BY <1>2, <2>1
  <2> QED BY <1>4, <2>2
<1> QED
  BY <1>4, <1>5, <1>6

LEMMA WalksExist ==
    ASSUME NEW path, NEW n \in Nat
    PROVE  \E walked : Walks(path, walked, n)
<1> DEFINE S == {k \in Nat : \E walked : Walks(path, walked, k)}
<1>1. 0 \in S
  <2>1. [s \in SUBSET (1..0) |-> <<>>] = [s \in SUBSET (1..0) |->
           IF s = {} THEN <<>>
           ELSE Walk([t \in SUBSET (1..0) |-> <<>>][s \ {Max(s)}], path[Max(s)])]
    OBVIOUS
  <2> DEFINE walked == [s \in SUBSET (1..0) |-> <<>>]
  <2>2. Walks(path, walked, 0)
    BY <2>1 DEF Walks
  <2> QED BY <2>2
<1>2. \A k \in 0..n - 1 : k \in S => k + 1 \in S
  BY WalkGoesOn
<1> HIDE DEF S
<1>3. n \in S
  BY <1>1, <1>2, AllUpTo
<1> QED
  BY <1>3 DEF S

(* A path without ".." leads where it says.                                *)
LEMMA PlainPathIsLocated ==
    ASSUME NEW path, path \in Seq(Range(path)), ".." \notin Range(path)
    PROVE  Located(path) = path
<1> DEFINE n == Len(path)
<1>1. DOMAIN path = 1..n /\ n \in Nat
  OBVIOUS
<1>2. \A k \in 1..n : path[k] # ".." /\ path[k] \in Range(path)
  BY <1>1 DEF Range
<1> HIDE DEF n
<1>3. PICK walked : Walks(path, walked, n) /\ Located(path) = walked[1..n]
  <2>1. \E walked : walked = [s \in SUBSET DOMAIN path |->
           IF s = {} THEN <<>> ELSE Walk(walked[s \ {Max(s)}], path[Max(s)])]
    <3>1. PICK walked : Walks(path, walked, n)
      BY <1>1, WalksExist
    <3> QED BY <1>1, <3>1 DEF Walks
  <2> DEFINE walked == CHOOSE walked : walked = [s \in SUBSET DOMAIN path |->
           IF s = {} THEN <<>> ELSE Walk(walked[s \ {Max(s)}], path[Max(s)])]
  <2>2. walked = [s \in SUBSET DOMAIN path |->
           IF s = {} THEN <<>> ELSE Walk(walked[s \ {Max(s)}], path[Max(s)])]
    BY <2>1
  <2>3. Located(path) = walked[DOMAIN path]
    BY LocatedWalks
  <2> HIDE DEF walked
  <2>4. Walks(path, walked, n)
    BY <1>1, <2>2 DEF Walks
  <2> QED BY <1>1, <2>3, <2>4
<1> DEFINE S == {k \in 0..n : walked[1..k] = SubSeq(path, 1, k)}
<1>4. 0 \in S
  <2>1. 1..0 = {} /\ walked[{}] = <<>>
    BY <1>3 DEF Walks
  <2>2. SubSeq(path, 1, 0) = <<>>
    OBVIOUS
  <2>3. walked[1..0] = SubSeq(path, 1, 0)
    BY <2>1, <2>2
  <2> QED BY <1>1, <2>3
<1>5. ASSUME NEW k \in 0..n - 1, k \in S PROVE k + 1 \in S
  <2>1. k \in Nat /\ k + 1 \in 1..n
    BY <1>1
  <2>2. Max(1..k + 1) = k + 1
    <3>1. k + 1 \in Nat /\ k + 1 \in 1..k + 1
      BY <2>1
    <3> QED BY <3>1, TopIsGreatest
  <2>3. (1..k + 1) \ {k + 1} = 1..k /\ 1..k + 1 # {} /\ 1..k + 1 \in SUBSET (1..n)
    <3>1. ASSUME NEW x \in 1..k + 1 PROVE x \in 1..n
      BY <1>1, <2>1
    <3>2. k + 1 \in 1..k + 1
      BY <2>1
    <3>3. (1..k + 1) \ {k + 1} = 1..k
      BY <2>1
    <3> QED BY <3>1, <3>2, <3>3
  <2>4. walked[1..k + 1] = Walk(walked[1..k], path[k + 1])
    BY <1>3, <2>2, <2>3 DEF Walks
  <2>5. walked[1..k + 1] = Append(SubSeq(path, 1, k), path[k + 1])
    BY <1>2, <1>5, <2>1, <2>4 DEF Walk
  <2>6. Append(SubSeq(path, 1, k), path[k + 1]) = SubSeq(path, 1, k + 1)
    BY <2>1
  <2> QED BY <2>1, <2>5, <2>6
<1>6. n \in S
  <2> HIDE DEF S
  <2> QED BY <1>1, <1>4, <1>5, AllUpTo
<1>7. SubSeq(path, 1, n) = path
  BY DEF n
<1> QED
  BY <1>3, <1>6, <1>7
-----------------------------------------------------------------------------
(* Which step changes what.                                                *)

LEMMA Changes ==
    ASSUME [Next]_vars
    PROVE  /\ UNCHANGED matter
           /\ now' = now \/ now' = 1
           /\ UNCHANGED edits \/ (edits < MaxEdit /\ edits' = edits + 1)
           /\ UNCHANGED desk \/ \E s \in Slot : EditPacket(s)
           /\ \/ UNCHANGED <<receipt, reviewed, rewritten>>
              \/ \E s \in Slot : \/ \E again \in BOOLEAN : EditReceipt(s, again)
                                \/ \E slots \in SUBSET Slot : MakeReceipt(s, slots)
           /\ \/ UNCHANGED <<manifest, pinned, handed>>
              \/ \E s \in Slot : BuildDispatch(s) \/ \E slots \in SUBSET Slot : BuildMember(s, slots)
              \/ \E slots \in SUBSET Slot : BuildCritical(slots)
              \/ \E again \in BOOLEAN : EditManifest(again)
              \/ HandOver
           /\ \/ UNCHANGED passed
              \/ \E s \in Slot, op \in Operation : Preflight(s, op)
              \/ \E slots \in SUBSET Slot, workers \in 1..2, ceiling \in Ceiling :
                   PreflightBatch(slots, workers, ceiling)
           /\ \/ UNCHANGED stages
              \/ \E target \in ExceptionStates \cup Range(ModeStages[stages.mode]) : Transition(target)
           /\ UNCHANGED reviews \/ \E d \in Review : AddReview(d)
           /\ \/ UNCHANGED failed
              \/ \E failure \in Failure, levels \in [1..4 -> Level] : Fail(failure, levels)
<1>1. CASE UNCHANGED vars
  BY <1>1 DEF vars, documents
<1>2. CASE Tick
  BY <1>2 DEF Tick, documents
<1>4. ASSUME NEW s \in Slot, EditPacket(s)
      PROVE  /\ Edit
             /\ UNCHANGED <<matter, now, receipt, manifest, pinned, handed, reviewed, rewritten,
                            passed, stages, reviews, failed>>
  BY <1>4 DEF EditPacket
<1>5. ASSUME NEW s \in Slot, NEW again \in BOOLEAN, EditReceipt(s, again)
      PROVE  /\ Edit
             /\ UNCHANGED <<matter, now, desk, manifest, pinned, handed, passed, stages,
                            reviews, failed>>
  BY <1>5 DEF EditReceipt
<1>6. ASSUME NEW body, Publish(body)
      PROVE  UNCHANGED <<matter, now, edits, desk, receipt, reviewed, rewritten, passed, stages,
                         reviews, failed>>
  BY <1>6 DEF Publish
<1>7. ASSUME NEW s \in Slot, NEW slots \in SUBSET Slot, MakeReceipt(s, slots)
      PROVE  UNCHANGED <<matter, now, edits, desk, manifest, pinned, handed, passed, stages,
                         reviews, failed>>
  BY <1>7 DEF MakeReceipt
<1>8. ASSUME NEW s \in Slot, NEW d \in DecisionOf, Decide(s, d)
      PROVE  UNCHANGED <<matter, now, edits, desk, receipt, reviewed, rewritten, manifest,
                         pinned, handed, passed, stages, reviews, failed>>
  BY <1>8 DEF Decide
<1>9. ASSUME NEW again \in BOOLEAN, EditManifest(again)
      PROVE  /\ Edit
             /\ UNCHANGED <<matter, now, desk, receipt, reviewed, rewritten, passed, stages,
                            reviews, failed>>
  BY <1>9 DEF EditManifest
<1>10. CASE HandOver
  BY <1>10 DEF HandOver
<1>11. ASSUME NEW s \in Slot, NEW op \in Operation, Preflight(s, op)
       PROVE  UNCHANGED <<matter, now, edits, desk, receipt, reviewed, rewritten, manifest,
                          pinned, handed, stages, reviews, failed>>
  BY <1>11 DEF Preflight, documents
<1>12. ASSUME NEW slots \in SUBSET Slot, NEW workers \in 1..2, NEW ceiling \in Ceiling,
              PreflightBatch(slots, workers, ceiling)
       PROVE  UNCHANGED <<matter, now, edits, desk, receipt, reviewed, rewritten, manifest,
                          pinned, handed, stages, reviews, failed>>
  BY <1>12 DEF PreflightBatch, documents
<1>13. ASSUME \/ \E b \in Binding : GrantAgents(b)
              \/ \E e \in Runner, b \in Binding, slots \in SUBSET Slot :
                   BeginConsume(e, b, {desk[s] : s \in slots})
              \/ \E e \in Runner : Consume(e)
       PROVE  UNCHANGED <<matter, now, documents, passed, stages, reviews, failed>>
  BY <1>13 DEF GrantAgents, BeginConsume, Consume
<1>14. ASSUME NEW target, Transition(target)
       PROVE  UNCHANGED <<matter, now, documents, passed, reviews, failed>>
  BY <1>14 DEF Transition
<1>15. ASSUME NEW d \in Review, AddReview(d)
       PROVE  UNCHANGED <<matter, now, documents, passed, stages, failed>>
  BY <1>15 DEF AddReview
<1>16. ASSUME NEW failure \in Failure, NEW levels \in [1..4 -> Level], Fail(failure, levels)
       PROVE  UNCHANGED <<matter, now, documents, passed, stages, reviews>>
  BY <1>16 DEF Fail
<1>17. ASSUME NEW s \in Slot, BuildDispatch(s) PROVE \E body : Publish(body)
  BY <1>17 DEF BuildDispatch
<1>18. ASSUME NEW s \in Slot, NEW slots \in SUBSET Slot, BuildMember(s, slots)
       PROVE  \E body : Publish(body)
  BY <1>18 DEF BuildMember
<1>19. ASSUME NEW slots \in SUBSET Slot, BuildCritical(slots) PROVE \E body : Publish(body)
  BY <1>19 DEF BuildCritical
<1> QED
  BY <1>1, <1>2, <1>4, <1>5, <1>6, <1>7, <1>8, <1>9, <1>10, <1>11, <1>12, <1>13, <1>14, <1>15,
    <1>16, <1>17, <1>18, <1>19 DEF Next, Edit, documents
-----------------------------------------------------------------------------
(* What the host is handed.                                                *)

(* The receipts the server issued.                                         *)
Issued == {r.receipt : r \in reviewed}

(* A request carries the actions of its packet, whole, and the hash of a   *)
(* receipt, issued or computed anew, that lists the packet.                *)
RequestOK(q) ==
    /\ q.actions = q.packet.actions
    /\ q.packet.scopeHash = ScopeMaterial(q.packet)
    /\ q.packet.agent # Governor =>
         /\ q.receipt \in rewritten \cup Issued
         /\ q.packet \in q.receipt.governed
BodyOK(body) == \A q \in Requests(body) : RequestOK(q)

(* A receipt the server issued lists packets that were governed.           *)
ReviewOK(r) == r.receipt.governed = r.packets /\ \A p \in r.packets : Governs(r, p)

(* What a receipt was sealed with was issued or computed anew, whatever it *)
(* says now; what the host has pinned is sound, whatever the manifest says *)
(* now.                                                                    *)
DocumentInv ==
    /\ \A r \in reviewed : ReviewOK(r)
    /\ receipt # None =>
         /\ DOMAIN receipt = {"body", "seal"}
         /\ receipt.seal \in rewritten \cup Issued
    /\ manifest # None => DOMAIN manifest = {"body", "seal"} /\ BodyOK(pinned)
    /\ \A doc \in handed : BodyOK(doc)

LEMMA DocumentInvInit == Init => DocumentInv
BY DEF Init, DocumentInv

LEMMA IssuedStays ==
    ASSUME reviewed \subseteq reviewed'
    PROVE  Issued \subseteq Issued'
BY DEF Issued

LEMMA BodyStays ==
    ASSUME reviewed \subseteq reviewed', rewritten \subseteq rewritten', NEW body, BodyOK(body)
    PROVE  BodyOK(body)'
BY IssuedStays DEF BodyOK, RequestOK

LEMMA HistoriesGrow ==
    ASSUME [Next]_vars
    PROVE  reviewed \subseteq reviewed' /\ rewritten \subseteq rewritten'
<1>1. ASSUME NEW s \in Slot, NEW again \in BOOLEAN, EditReceipt(s, again)
      PROVE  UNCHANGED reviewed /\ rewritten \subseteq rewritten'
  BY <1>1 DEF EditReceipt
<1>2. ASSUME NEW s \in Slot, NEW slots \in SUBSET Slot, MakeReceipt(s, slots)
      PROVE  reviewed \subseteq reviewed' /\ UNCHANGED rewritten
  BY <1>2 DEF MakeReceipt
<1> QED
  BY <1>1, <1>2, Changes

(* A packet that may be dispatched is listed by an intact receipt.         *)
LEMMA DispatchesAreOK ==
    ASSUME DocumentInv, NEW p, MayDispatch(p)
    PROVE  RequestOK(Dispatch(p, receipt))
<1> DEFINE q == Dispatch(p, receipt)
<1>1. /\ q.actions = p.actions /\ q.packet = p
      /\ q.receipt = IF receipt = None THEN None ELSE receipt.seal
  BY DEF Dispatch
<1>2. p.scopeHash = ScopeMaterial(p)
  BY DEF MayDispatch, ValidPacket
<1>3. ASSUME p.agent # Governor
      PROVE  q.receipt \in rewritten \cup Issued /\ p \in q.receipt.governed
  <2>1. receipt # None /\ receipt.seal = receipt.body /\ p \in receipt.body.governed
    BY <1>3 DEF MayDispatch, Covered, Intact
  <2>2. q.receipt = receipt.seal /\ p \in receipt.seal.governed
    BY <1>1, <2>1
  <2> HIDE DEF q
  <2> QED BY <2>1, <2>2 DEF DocumentInv
<1> HIDE DEF q
<1>4. RequestOK(q)
  BY <1>1, <1>2, <1>3 DEF RequestOK
<1> QED
  BY <1>4 DEF q

LEMMA PublishKeepsDocuments ==
    ASSUME DocumentInv, NEW body, BodyOK(body), Publish(body)
    PROVE  DocumentInv'
<1>1. /\ manifest' = [body |-> body, seal |-> body] /\ pinned' = body
      /\ UNCHANGED <<receipt, reviewed, rewritten, handed>>
  BY DEF Publish, Seal
<1>2. \A doc : BodyOK(doc) => BodyOK(doc)'
  BY <1>1, BodyStays
<1>3. DOMAIN manifest' = {"body", "seal"}
  BY <1>1
<1>4. Issued' = Issued
  BY <1>1 DEF Issued
<1> QED
  BY <1>1, <1>2, <1>3, <1>4 DEF DocumentInv

LEMMA DocumentInvStep == DocumentInv /\ [Next]_vars => DocumentInv'
<1> SUFFICES ASSUME DocumentInv, [Next]_vars PROVE DocumentInv'
  OBVIOUS
<1>1. /\ \A doc : BodyOK(doc) => BodyOK(doc)'
      /\ rewritten \subseteq rewritten' /\ Issued \subseteq Issued'
  BY HistoriesGrow, IssuedStays, BodyStays
<1>2. ASSUME NEW s \in Slot, NEW again \in BOOLEAN, EditReceipt(s, again) PROVE DocumentInv'
  <2> DEFINE edited == [receipt.body EXCEPT !.governed = @ \cup {desk[s]}]
  <2>1. /\ receipt # None
        /\ receipt' = [body |-> edited, seal |-> IF again THEN edited ELSE receipt.seal]
        /\ rewritten' = IF again THEN rewritten \cup {edited} ELSE rewritten
        /\ UNCHANGED <<manifest, pinned, handed, reviewed>>
    BY <1>2 DEF EditReceipt
  <2> HIDE DEF edited
  <2>2. DOMAIN receipt' = {"body", "seal"} /\ receipt'.seal = IF again THEN edited ELSE receipt.seal
    BY <2>1
  <2>3. receipt'.seal \in rewritten' \cup Issued'
    <3>1. CASE again
      BY <2>1, <2>2, <3>1
    <3>2. CASE ~ again
      BY <1>1, <2>1, <2>2, <3>2 DEF DocumentInv
    <3> QED BY <3>1, <3>2
  <2> QED BY <1>1, <2>1, <2>2, <2>3 DEF DocumentInv
<1>3. ASSUME NEW s \in Slot, NEW slots \in SUBSET Slot, MakeReceipt(s, slots)
      PROVE  DocumentInv'
  <2> DEFINE packets == {desk[t] : t \in slots}
             body == [run |-> desk[s].run, workflow |-> desk[s].workflow,
                      governor |-> desk[s], decision |-> decision, governed |-> packets]
             review == [packets |-> packets, governor |-> desk[s], decision |-> decision,
                        at |-> now, receipt |-> body]
  <2>1. /\ receipt' = Seal(body)
        /\ reviewed' = reviewed \cup {review}
        /\ UNCHANGED <<manifest, pinned, handed, rewritten>>
    BY <1>3 DEF MakeReceipt
  <2>2. DOMAIN receipt' = {"body", "seal"} /\ receipt'.seal = body
    BY <2>1 DEF Seal
  <2>3. /\ decision.packet = desk[s] /\ decision.status = "pass" /\ ~ decision.choice
        /\ \A p \in packets : /\ p.run = desk[s].run /\ p.workflow = desk[s].workflow
                              /\ \A expires \in p.expires : now < expires
    BY <1>3 DEF MakeReceipt, PassingGovernance, ValidDecision, ValidPacket
  <2>4. /\ review.packets = packets /\ review.governor = desk[s]
        /\ review.decision = decision /\ review.at = now /\ review.receipt = body
        /\ body.governed = packets
    OBVIOUS
  <2> HIDE DEF packets, body, review
  <2>5. ReviewOK(review)
    BY <2>3, <2>4 DEF ReviewOK, Governs
  <2>6. receipt'.seal \in Issued'
    BY <2>1, <2>2, <2>4 DEF Issued
  <2>7. \A r \in reviewed' : ReviewOK(r)
    BY <2>1, <2>5 DEF DocumentInv
  <2>8. \A r : ReviewOK(r)' <=> ReviewOK(r)
    BY DEF ReviewOK, Governs
  <2> QED BY <1>1, <2>1, <2>2, <2>6, <2>7, <2>8 DEF DocumentInv
<1>4. ASSUME NEW s \in Slot, BuildDispatch(s) PROVE DocumentInv'
  <2> DEFINE body == Dispatch(desk[s], receipt)
  <2>1. Publish(body) /\ RequestOK(body)
    BY <1>4, DispatchesAreOK DEF BuildDispatch
  <2>2. BodyOK(body)
    BY <2>1 DEF BodyOK, Requests, Dispatch
  <2> HIDE DEF body
  <2> QED BY <2>1, <2>2, PublishKeepsDocuments
<1>5. ASSUME NEW s \in Slot, NEW slots \in SUBSET Slot, BuildMember(s, slots)
      PROVE  DocumentInv'
  <2> DEFINE body == Dispatch(desk[s], receipt)
  <2>1. Publish(body) /\ RequestOK(body)
    BY <1>5, DispatchesAreOK DEF BuildMember
  <2>2. BodyOK(body)
    BY <2>1 DEF BodyOK, Requests, Dispatch
  <2> HIDE DEF body
  <2> QED BY <2>1, <2>2, PublishKeepsDocuments
<1>6. ASSUME NEW slots \in SUBSET Slot, BuildCritical(slots) PROVE DocumentInv'
  <2> DEFINE packets == {desk[t] : t \in slots}
             body == [kind |-> "critical",
                      workflow |-> (CHOOSE p \in packets : TRUE).workflow,
                      snapshot |-> (CHOOSE p \in packets : TRUE).snapshot,
                      requests |-> {Dispatch(p, receipt) : p \in packets}]
  <2>1. Publish(body) /\ \A p \in packets : MayDispatch(p)
    BY <1>6 DEF BuildCritical
  <2>2. Requests(body) = {Dispatch(p, receipt) : p \in packets}
    BY DEF Requests
  <2> HIDE DEF packets, body
  <2>3. BodyOK(body)
    BY <2>1, <2>2, DispatchesAreOK DEF BodyOK
  <2> QED BY <2>1, <2>3, PublishKeepsDocuments
<1>7. ASSUME NEW again \in BOOLEAN, EditManifest(again) PROVE DocumentInv'
  <2>1. /\ manifest # None /\ UNCHANGED <<receipt, pinned, handed, reviewed, rewritten>>
        /\ \E b : manifest' = [body |-> b, seal |-> IF again THEN b ELSE manifest.seal]
    BY <1>7 DEF EditManifest
  <2>2. DOMAIN manifest' = {"body", "seal"}
    BY <2>1
  <2> QED BY <1>1, <2>1, <2>2 DEF DocumentInv
<1>8. CASE HandOver
  <2>1. /\ manifest # None /\ manifest.body = pinned
        /\ handed' = handed \cup {manifest.body} /\ manifest' = None
        /\ UNCHANGED <<receipt, reviewed, rewritten>>
    BY <1>8 DEF HandOver, ManifestAccepted, Intact
  <2> QED BY <1>1, <2>1 DEF DocumentInv
<1>9. CASE UNCHANGED <<manifest, pinned, handed, receipt, reviewed, rewritten>>
  BY <1>1, <1>9 DEF DocumentInv
<1>10. (\E s \in Slot : \/ \E again \in BOOLEAN : EditReceipt(s, again)
                        \/ \E slots \in SUBSET Slot : MakeReceipt(s, slots))
         => DocumentInv'
  BY <1>2, <1>3
<1> QED
  BY <1>4, <1>5, <1>6, <1>7, <1>8, <1>9, <1>10, Changes

(* A hash of a receipt that reaches the host was issued or computed anew   *)
(* by hand; and where it is one the server issued, a governor of the same  *)
(* run passed the very packet that is dispatched, however often packets,   *)
(* receipt and manifest were edited on the way.                            *)
THEOREM IssuedReceiptsGovern == Spec => []IssuedReceiptGoverns
<1>1. DocumentInv => IssuedReceiptGoverns
  BY DEF DocumentInv, IssuedReceiptGoverns, BodyOK, RequestOK, ReviewOK, Issued
<1>2. DocumentInv /\ [Next]_vars => DocumentInv'
  BY DocumentInvStep
<1> QED
  BY <1>1, <1>2, DocumentInvInit, PTL DEF Spec
-----------------------------------------------------------------------------
(* Reviewers.                                                              *)

(* Every reviewer, nobody else, on one snapshot, unable to write.          *)
Together(packets) ==
    /\ {p.agent : p \in packets} = Critical
    /\ Cardinality({p.snapshot : p \in packets}) = 1
    /\ \A p \in packets : p.actions \cap WriteActions = {}

BatchOK(batch) ==
    LET workers == {p \in batch : p.agent # Governor}
    IN  {p.agent : p \in workers} \cap Critical # {} => Together(workers)

(* A request for a reviewer, alone or with others.                         *)
Isolated(q) ==
    q.packet.agent \in Critical => q.isolated /\ q.actions \cap WriteActions = {}

IsolationInv ==
    /\ \A doc \in handed : doc.kind = "critical" =>
         Together({q.packet : q \in doc.requests})
    /\ \A doc \in handed : \A q \in Requests(doc) : Isolated(q)
    /\ passed # None /\ "batch" \in DOMAIN passed => BatchOK(passed.batch)

LEMMA ReviewersCannotWrite ==
    ASSUME NEW role \in Critical, NEW actions, actions \subseteq Manifest[role].actions
    PROVE  actions \cap WriteActions = {}
BY RegistryAssumption DEF ValidRegistry

LEMMA OneValue ==
    ASSUME NEW x
    PROVE  Cardinality({x}) = 1
BY FS_Singleton

(* A critical manifest the host accepts, whose requests are governed.      *)
LEMMA AcceptedIsIsolated ==
    ASSUME NEW body, body.kind = "critical", SoundManifest(body), BodyOK(body)
    PROVE  Together({q.packet : q \in body.requests})
<1> DEFINE packets == {q.packet : q \in body.requests}
<1>1. /\ \A q \in body.requests : SoundDispatch(q)
      /\ {q.packet.agent : q \in body.requests} = Critical
      /\ {q.packet.snapshot : q \in body.requests} = {body.snapshot}
  BY DEF SoundManifest
<1>2. \A q \in body.requests : q.actions = q.packet.actions
  BY DEF BodyOK, RequestOK, Requests
<1>3. ASSUME NEW q \in body.requests PROVE q.packet.actions \cap WriteActions = {}
  <2>1. q.packet.agent \in Critical /\ q.packet.actions \subseteq Manifest[q.packet.agent].actions
    BY <1>1, <1>2 DEF SoundDispatch
  <2> QED BY <2>1, ReviewersCannotWrite
<1>4. {p.agent : p \in packets} = {q.packet.agent : q \in body.requests}
  OBVIOUS
<1>5. {p.snapshot : p \in packets} = {body.snapshot}
  <2>1. {p.snapshot : p \in packets} = {q.packet.snapshot : q \in body.requests}
    OBVIOUS
  <2> QED BY <1>1, <2>1
<1>6. \A p \in packets : p.actions \cap WriteActions = {}
  BY <1>3
<1> HIDE DEF packets
<1>7. Cardinality({p.snapshot : p \in packets}) = 1
  BY <1>5, OneValue
<1>8. Together(packets)
  BY <1>1, <1>4, <1>6, <1>7 DEF Together
<1> QED
  BY <1>8 DEF packets

(* A request of a manifest the host accepts, of whatever kind.             *)
LEMMA AcceptedReviewersCannotWrite ==
    ASSUME NEW body, SoundManifest(body), NEW q \in Requests(body)
    PROVE  Isolated(q)
<1>1. SoundDispatch(q)
  BY DEF SoundManifest, Requests
<1>2. /\ q.actions \subseteq Manifest[q.packet.agent].actions
      /\ q.isolated = (q.packet.agent \in Critical)
  BY <1>1 DEF SoundDispatch
<1> QED
  BY <1>2, ReviewersCannotWrite DEF Isolated

LEMMA BatchIsIsolated ==
    ASSUME NEW packets, NEW workers, NEW ceiling, ParallelBatch(packets, workers, ceiling, now)
    PROVE  BatchOK(packets)
<1> DEFINE working == {p \in packets : p.agent # Governor}
           critical == {p \in working : p.agent \in Critical}
<1> SUFFICES ASSUME {p.agent : p \in working} \cap Critical # {} PROVE Together(working)
  BY DEF BatchOK
<1>1. critical # {}
  OBVIOUS
<1>2. critical = working /\ CriticalBatch(critical)
  BY <1>1 DEF ParallelBatch
<1>3. \A p \in packets : p.actions \subseteq Manifest[p.agent].actions
  BY DEF ParallelBatch, ValidPacket
<1>4. \A p \in working : p.actions \cap WriteActions = {}
  BY <1>2, <1>3, ReviewersCannotWrite
<1>5. PICK first : first \in working
  BY <1>1, <1>2
<1>6. {p.agent : p \in working} = Critical /\ \A p, q \in working : p.snapshot = q.snapshot
  BY <1>2 DEF CriticalBatch
<1> HIDE DEF working, critical
<1>7. {p.snapshot : p \in working} = {first.snapshot}
  BY <1>5, <1>6
<1>8. Cardinality({p.snapshot : p \in working}) = 1
  BY <1>7, OneValue
<1> QED
  BY <1>4, <1>6, <1>8 DEF Together

LEMMA IsolationInvStep == DocumentInv /\ IsolationInv /\ [Next]_vars => IsolationInv'
<1> SUFFICES ASSUME DocumentInv, IsolationInv, [Next]_vars PROVE IsolationInv'
  OBVIOUS
<1>1. ASSUME NEW doc \in handed', doc \notin handed
      PROVE  SoundManifest(doc) /\ BodyOK(doc)
  <2>1. HandOver
    <3>1. ~ \E body : Publish(body)
      BY <1>1 DEF Publish
    <3>2. ~ \E again \in BOOLEAN : EditManifest(again)
      BY <1>1 DEF EditManifest
    <3> QED
      BY <1>1, <3>1, <3>2, Changes DEF BuildDispatch, BuildMember, BuildCritical
  <2>2. /\ manifest # None /\ manifest.body = pinned /\ SoundManifest(manifest.body)
        /\ handed' = handed \cup {manifest.body}
    BY <2>1 DEF HandOver, ManifestAccepted, Intact
  <2> QED BY <1>1, <2>2 DEF DocumentInv
<1>3. ASSUME NEW doc \in handed', doc.kind = "critical"
      PROVE  Together({q.packet : q \in doc.requests})
  BY <1>1, <1>3, AcceptedIsIsolated DEF IsolationInv
<1>4. ASSUME NEW doc \in handed', NEW q \in Requests(doc)
      PROVE  Isolated(q)
  BY <1>1, <1>4, AcceptedReviewersCannotWrite DEF IsolationInv
<1>2. ASSUME passed' # None, "batch" \in DOMAIN passed' PROVE BatchOK(passed'.batch)
  <2>1. CASE UNCHANGED passed
    BY <1>2, <2>1 DEF IsolationInv
  <2>2. ASSUME NEW s \in Slot, NEW op \in Operation, Preflight(s, op) PROVE FALSE
    <3>1. DOMAIN passed' = {"op", "packet", "at"}
      BY <2>2 DEF Preflight
    <3> QED BY <1>2, <3>1
  <2>3. ASSUME NEW slots \in SUBSET Slot, NEW workers \in 1..2, NEW ceiling \in Ceiling,
               PreflightBatch(slots, workers, ceiling)
        PROVE  BatchOK(passed'.batch)
    <3> DEFINE packets == {desk[t] : t \in slots}
    <3>1. passed'.batch = packets /\ ParallelBatch(packets, workers, ceiling, now)
      BY <2>3 DEF PreflightBatch
    <3> HIDE DEF packets
    <3> QED BY <3>1, BatchIsIsolated
  <2> QED BY <2>1, <2>2, <2>3, Changes
<1> QED
  BY <1>2, <1>3, <1>4 DEF IsolationInv

(* A batch of reviewers that is handed over, or that passes preflight, is  *)
(* every reviewer and no worker, on one snapshot; and no reviewer is       *)
(* handed over able to write or in a context shared with others, alone or  *)
(* in a batch, whatever was built and edited.                              *)
THEOREM ReviewersStayIsolated == Spec => []ReviewersAreIsolated
<1>1. Init => IsolationInv
  BY DEF Init, IsolationInv
<1>2. IsolationInv => ReviewersAreIsolated
  BY DEF IsolationInv, ReviewersAreIsolated, BatchOK, Together, Isolated
<1> QED
  BY <1>1, <1>2, DocumentInvInit, DocumentInvStep, IsolationInvStep, PTL DEF Spec
-----------------------------------------------------------------------------
(* Preflight.                                                              *)

Written(path) == path \in Seq(Range(path))

(* The packets on the desk are packets of the roster, with their paths.    *)
DeskInv ==
    /\ desk = [s \in Slot |-> desk[s]]
    /\ \A s \in Slot :
         /\ {"agent", "paths"} \subseteq DOMAIN desk[s]
         /\ desk[s].agent \in Roster
         /\ \A path \in desk[s].paths : Written(path)

LEMMA DeskInvInit == Init => DeskInv
<1> SUFFICES ASSUME Init PROVE DeskInv
  OBVIOUS
<1>1. DOMAIN Packet0 = Slot /\ desk = Packet0
  BY SessionConstants DEF Init
<1>2. ASSUME NEW s \in Slot, NEW path \in desk[s].paths PROVE Written(path)
  <2>1. Packet0[s] \in Range(Packet0)
    BY <1>1 DEF Range
  <2> QED BY <1>1, <1>2, <2>1, SessionConstants DEF Written
<1>3. desk = [s \in Slot |-> desk[s]]
  BY <1>1, SessionConstants
<1> QED
  BY <1>1, <1>2, <1>3, SessionConstants DEF DeskInv

LEMMA DeskInvStep == DeskInv /\ [Next]_vars => DeskInv'
<1> SUFFICES ASSUME DeskInv, [Next]_vars PROVE DeskInv'
  OBVIOUS
<1>1. CASE UNCHANGED desk
  BY <1>1 DEF DeskInv
<1>2. ASSUME NEW s \in Slot, EditPacket(s) PROVE DeskInv'
  <2> DEFINE Good(p) == /\ {"agent", "paths"} \subseteq DOMAIN p /\ p.agent \in Roster
                        /\ \A path \in p.paths : Written(path)
  <2>1. Good(desk[s])
    BY DEF DeskInv
  <2>2. \A path \in Widened : Written(path)
    BY SessionConstants DEF Written
  <2>3. Good([desk[s] EXCEPT !.paths = @ \cup Widened])
    BY <2>1, <2>2
  <2>4. Good([desk[s] EXCEPT !.snapshot = Later]) /\ Good([desk[s] EXCEPT !.expires = {}])
    BY <2>1
  <2>5. ASSUME NEW p, Good(p), NEW hash PROVE Good([p EXCEPT !.scopeHash = hash])
    BY <2>5
  <2>6. \E p : Good(p) /\ desk' = [desk EXCEPT ![s] = p]
    <3>1. CASE desk' = [desk EXCEPT ![s].paths = @ \cup Widened]
      BY <2>3, <3>1
    <3>2. CASE \E p \in {[desk[s] EXCEPT !.paths = @ \cup Widened],
                         [desk[s] EXCEPT !.snapshot = Later]} :
                 desk' = [desk EXCEPT ![s] = [p EXCEPT !.scopeHash = ScopeMaterial(p)]]
      <4>. PICK p \in {[desk[s] EXCEPT !.paths = @ \cup Widened],
                       [desk[s] EXCEPT !.snapshot = Later]} :
              desk' = [desk EXCEPT ![s] = [p EXCEPT !.scopeHash = ScopeMaterial(p)]]
        BY <3>2
      <4>1. Good(p)
        BY <2>3, <2>4
      <4>2. Good([p EXCEPT !.scopeHash = ScopeMaterial(p)])
        BY <2>5, <4>1
      <4> QED BY <4>2
    <3>3. CASE desk' = [desk EXCEPT ![s].expires = {}]
      BY <2>4, <3>3
    <3> QED BY <1>2, <3>1, <3>2, <3>3 DEF EditPacket
  <2>7. PICK p : Good(p) /\ desk' = [desk EXCEPT ![s] = p]
    BY <2>6
  <2> QED BY <2>7 DEF DeskInv
<1> QED
  BY <1>1, <1>2, Changes

LEMMA PlainPrefix ==
    ASSUME NEW path, NEW root, Written(path), Written(root), PathIsWithin(path, root)
    PROVE  IsPrefix(Located(root), Located(path))
<1>1. ".." \notin Range(path) /\ ".." \notin Range(root)
  BY DEF PathIsWithin
<1>2. Located(path) = path /\ Located(root) = root
  BY <1>1, PlainPathIsLocated DEF Written
<1> QED
  BY <1>2 DEF PathIsWithin

(* What a passed operation is, and was asked with.                         *)
InsideOK(x) ==
    /\ \A path \in x.op.paths :
         \E root \in x.packet.paths : IsPrefix(Located(root), Located(path))
    /\ x.op.writes =>
         /\ x.packet.agent \notin Critical \cup {Governor}
         /\ x.op.action \in Manifest[x.packet.agent].actions
         /\ x.packet.refs # {} /\ x.packet.plans # {}
    /\ \A expires \in x.packet.expires : x.at < expires
    /\ x.packet.scopeHash = ScopeMaterial(x.packet)

PassedInv == \A x \in {passed} \ {None} : "op" \in DOMAIN x => InsideOK(x)

LEMMA PassesInside ==
    ASSUME NEW op, NEW p, PreflightPasses(op, p, now),
           \A path \in op.paths : Written(path), \A path \in p.paths : Written(path)
    PROVE  InsideOK([op |-> op, packet |-> p, at |-> now])
<1>1. /\ \A path \in op.paths : \E root \in p.paths : PathIsWithin(path, root)
      /\ op.action \in p.actions
      /\ op.writes => op.action \in WriteActions
      /\ PlanRequired(op) => p.plans # {}
      /\ p.scopeHash = ScopeMaterial(p)
  BY DEF PreflightPasses, WithinScope
<1>2. /\ p.agent \in Roster
      /\ p.actions \subseteq Manifest[p.agent].actions
      /\ p.actions \cap WriteActions # {} => p.refs # {}
      /\ \A expires \in p.expires : now < expires
  BY DEF PreflightPasses, ValidPacket
<1>3. \A path \in op.paths : \E root \in p.paths : IsPrefix(Located(root), Located(path))
  BY <1>1, PlainPrefix
<1>4. ASSUME op.writes
      PROVE  /\ p.agent \notin Critical \cup {Governor}
             /\ op.action \in Manifest[p.agent].actions
             /\ p.refs # {} /\ p.plans # {}
  <2>1. p.agent \notin Critical \cup {Governor}
    BY <1>1, <1>2, <1>4, RegistryAssumption DEF ValidRegistry
  <2>2. PlanRequired(op)
    BY <1>4 DEF PlanRequired
  <2> QED BY <1>1, <1>2, <1>4, <2>1, <2>2
<1> DEFINE x == [op |-> op, packet |-> p, at |-> now]
<1>5. x.op = op /\ x.packet = p /\ x.at = now
  OBVIOUS
<1> HIDE DEF x
<1>6. InsideOK(x)
  BY <1>1, <1>2, <1>3, <1>4, <1>5 DEF InsideOK
<1> QED
  BY <1>6 DEF x

LEMMA PassedInvStep == DeskInv /\ PassedInv /\ [Next]_vars => PassedInv'
<1> SUFFICES ASSUME DeskInv, PassedInv, [Next]_vars, passed' # None, "op" \in DOMAIN passed'
             PROVE  InsideOK(passed')
  BY DEF PassedInv
<1>1. CASE UNCHANGED passed
  BY <1>1 DEF PassedInv
<1>2. ASSUME NEW s \in Slot, NEW operation \in Operation, Preflight(s, operation)
      PROVE  InsideOK(passed')
  <2> DEFINE op == [f \in DOMAIN operation \cup {"scopeHash"} |->
                      IF f = "scopeHash" THEN {desk[s].scopeHash} ELSE operation[f]]
  <2>1. /\ PreflightPasses(op, desk[s], now)
        /\ passed' = [op |-> op, packet |-> desk[s], at |-> now]
    BY <1>2 DEF Preflight
  <2>2. op.paths = operation.paths
    BY SessionConstants
  <2>3. \A path \in operation.paths : Written(path)
    BY SessionConstants DEF Written
  <2> HIDE DEF op
  <2> QED BY <2>1, <2>2, <2>3, PassesInside DEF DeskInv
<1>3. ASSUME NEW slots \in SUBSET Slot, NEW workers \in 1..2, NEW ceiling \in Ceiling,
             PreflightBatch(slots, workers, ceiling)
      PROVE  FALSE
  <2>1. DOMAIN passed' = {"batch", "ceiling"}
    BY <1>3 DEF PreflightBatch
  <2> QED BY <2>1
<1> QED
  BY <1>1, <1>2, <1>3, Changes

(* An operation that passed preflight leads, followed from the project's   *)
(* root, below a path of its packet; it writes only for a role that may,   *)
(* with an approval and a plan, and before the packet expires.             *)
THEOREM PreflightIsInside == Spec => []PreflightStaysInside
<1>1. Init => PassedInv
  BY DEF Init, PassedInv
<1>2. PassedInv => PreflightStaysInside
  BY DEF PassedInv, InsideOK, PreflightStaysInside
<1> QED
  BY <1>1, <1>2, DeskInvInit, DeskInvStep, PassedInvStep, PTL DEF Spec
-----------------------------------------------------------------------------
(* Failures.                                                               *)

(* Text is kept only where the first level that says anything says full:   *)
(* the defaults ask.                                                       *)
LEMMA FirstLevelSpeaks ==
    ASSUME NEW levels \in [1..4 -> Level], Resolve(levels).record = "full"
    PROVE  \E i \in DOMAIN levels :
             levels[i].record = "full" /\ \A j \in 1..i - 1 : levels[j].record = Unset
<1> DEFINE all == Append(levels, DefaultPolicy)
           First(i) == all[i].record # Unset /\ \A j \in 1..i - 1 : all[j].record = Unset
<1>1. levels \in Seq(Level \cup {DefaultPolicy}) /\ Len(levels) = 4
  <2>1. levels = [i \in 1..4 |-> levels[i]] /\ 4 \in Nat
    OBVIOUS
  <2>2. [i \in 1..4 |-> levels[i]] \in Seq(Level \cup {DefaultPolicy})
    BY IsASeq
  <2> QED BY <2>1, <2>2, LenProperties
<1>2. DOMAIN all = 1..5 /\ all[5] = DefaultPolicy /\ \A i \in 1..4 : all[i] = levels[i]
  <2>1. /\ all \in Seq(Level \cup {DefaultPolicy}) /\ Len(all) = Len(levels) + 1
        /\ all[Len(levels) + 1] = DefaultPolicy
        /\ \A i \in 1..Len(levels) : all[i] = levels[i]
    <3>1. DefaultPolicy \in Level \cup {DefaultPolicy}
      OBVIOUS
    <3> DEFINE S == Level \cup {DefaultPolicy}
    <3>2. levels \in Seq(S) /\ DefaultPolicy \in S
      BY <1>1, <3>1
    <3> HIDE DEF S
    <3>3. all \in Seq(S)
      BY <3>2, AppendProperties
    <3>4. Len(all) = Len(levels) + 1
      BY <3>2, AppendProperties
    <3>5. all[Len(levels) + 1] = DefaultPolicy
      BY <3>2, AppendProperties
    <3>6. ASSUME NEW i \in 1..Len(levels) PROVE all[i] = levels[i]
      BY <3>2, AppendProperties
    <3> QED BY <3>3, <3>4, <3>5, <3>6 DEF S
  <2> HIDE DEF all
  <2>2. DOMAIN all = 1..5
    BY <1>1, <2>1, LenProperties
  <2> QED BY <1>1, <2>1, <2>2
<1>4. Resolve(levels).record = all[CHOOSE i \in DOMAIN all : First(i)].record
  BY DEF Resolve, PolicyFields, PolicyValues
<1> HIDE DEF all
<1>3. all[5].record # Unset /\ all[5].record # "full"
  BY <1>2 DEF DefaultPolicy, Unset
<1>5. \E i \in 1..5 : First(i)
  <2>1. CASE all[1].record # Unset
    BY <2>1
  <2>2. CASE all[1].record = Unset /\ all[2].record # Unset
    BY <2>2
  <2>3. CASE all[1].record = Unset /\ all[2].record = Unset /\ all[3].record # Unset
    BY <2>3
  <2>4. CASE /\ all[1].record = Unset /\ all[2].record = Unset /\ all[3].record = Unset
             /\ all[4].record # Unset
    <3>1. \A j \in 1..3 : j = 1 \/ j = 2 \/ j = 3
      OBVIOUS
    <3> QED BY <2>4, <3>1
  <2>5. CASE /\ all[1].record = Unset /\ all[2].record = Unset /\ all[3].record = Unset
             /\ all[4].record = Unset
    <3>1. \A j \in 1..4 : j = 1 \/ j = 2 \/ j = 3 \/ j = 4
      OBVIOUS
    <3> QED BY <1>3, <2>5, <3>1
  <2> QED BY <2>1, <2>2, <2>3, <2>4, <2>5
<1>6. PICK i \in 1..5 : First(i) /\ all[i].record = "full"
  BY <1>2, <1>4, <1>5
<1>7. i \in 1..4 /\ \A j \in 1..i - 1 : j \in 1..4
  BY <1>3, <1>6
<1> QED
  BY <1>2, <1>6, <1>7

LEMMA ClassIsKnown ==
    ASSUME NEW failure \in Failure
    PROVE  FailureClass(failure) \in FailureClasses
<1>1. CASE failure.class # {}
  BY <1>1, SessionConstants DEF FailureClass
<1>2. ASSUME NEW code \in DOMAIN CodeClass PROVE CodeClass[code] \in FailureClasses
  BY DEF CodeClass, FailureClasses, CriticalFailures, ResearchResults
<1> QED
  BY <1>1, <1>2 DEF FailureClass, FailureClasses

(* What a recorded failure is, and when it stops the workflow.             *)
FailureOK(x) ==
    /\ x.record \in FailureRecords
    /\ x.record.class \in CriticalFailures \cup {"user_cancelled"} =>
         x.record.stop = "workflow"
    /\ x.record.class \in ResearchResults => x.record.stop = "current_step"
    /\ x.record.detail # "none" =>
         \E i \in DOMAIN x.levels :
           x.levels[i].record = "full" /\ \A j \in 1..i - 1 : x.levels[j].record = Unset

FailureInv == failed # None => FailureOK(failed)

LEMMA FailureInvStep == FailureInv /\ [Next]_vars => FailureInv'
<1> SUFFICES ASSUME FailureInv, [Next]_vars PROVE FailureInv'
  OBVIOUS
<1>1. CASE UNCHANGED failed
  BY <1>1 DEF FailureInv
<1>2. ASSUME NEW failure \in Failure, NEW levels \in [1..4 -> Level], Fail(failure, levels)
      PROVE  FailureOK(failed')
  <2> DEFINE policy == Resolve(levels)
             record == FailureRecord(failure, policy)
  <2>1. failed'.levels = levels /\ failed'.record = record
    BY <1>2 DEF Fail
  <2>2. record.class = FailureClass(failure) /\ record.stop = StopScope(failure, policy)
    BY DEF FailureRecord
  <2>3. record.detail # "none" => policy.record = "full"
    BY DEF FailureRecord
  <2>4. /\ DOMAIN record = {"class", "stop", "detail", "waits"}
        /\ record.detail \in {"none", "hash", "redacted"} /\ record.waits \in BOOLEAN
        /\ record = [class |-> record.class, stop |-> record.stop,
                     detail |-> record.detail, waits |-> record.waits]
    BY DEF FailureRecord
  <2>5. /\ StopScope(failure, policy) \in {"workflow", "current_step"}
        /\ FailureClass(failure) \in CriticalFailures \cup {"user_cancelled"} =>
             StopScope(failure, policy) = "workflow"
        /\ FailureClass(failure) \in ResearchResults =>
             StopScope(failure, policy) = "current_step"
    BY DEF StopScope, CriticalFailures, ResearchResults
  <2>6. policy.record = "full" =>
          \E i \in DOMAIN levels :
            levels[i].record = "full" /\ \A j \in 1..i - 1 : levels[j].record = Unset
    BY FirstLevelSpeaks
  <2> HIDE DEF record, policy
  <2>7. record \in FailureRecords
    BY <2>2, <2>4, <2>5, ClassIsKnown DEF FailureRecords
  <2> QED BY <2>1, <2>2, <2>3, <2>5, <2>6, <2>7 DEF FailureOK
<1> QED
  BY <1>1, <1>2, Changes DEF FailureInv

(* No policy at any level keeps a failure of validation, policy or         *)
(* evidence, or a cancellation, from stopping the workflow, or makes a     *)
(* negative result stop it; text is kept only where the first level that   *)
(* says anything about records says full.                                  *)
THEOREM SeriousFailuresStop == Spec => []SeriousFailureStops
<1>1. Init => FailureInv
  BY DEF Init, FailureInv
<1>2. FailureInv => SeriousFailureStops
  BY DEF FailureInv, FailureOK, SeriousFailureStops
<1> QED
  BY <1>1, <1>2, FailureInvStep, PTL DEF Spec
-----------------------------------------------------------------------------
(* Types, and what a review can change.                                    *)

LEMMA EveryModeStarts == \A m \in Mode : "draft" \in Range(ModeStages[m])
<1> DEFINE Stages == {"draft", "scope_cost_review", "awaiting_plan_approval", "approved",
                      "retrieval_review", "authorized_work", "result_available",
                      "analysis_review", "benchmark_precheck", "paper_evidence_review",
                      "correction_cycle", "memory_sync", "critical_review",
                      "user_decision", "completed"}
<1>1. /\ Preparation \in Seq(Stages) /\ Work \in Seq(Stages) /\ Evidence \in Seq(Stages)
      /\ Len(Preparation) = 5 /\ Preparation[1] = "draft"
  BY DEF Preparation, Work, Evidence
<1>0. /\ <<"memory_sync", "completed">> \in Seq(Stages) /\ <<"completed">> \in Seq(Stages)
      /\ <<"critical_review", "user_decision", "completed">> \in Seq(Stages)
      /\ <<"paper_evidence_review", "correction_cycle", "memory_sync">> \in Seq(Stages)
  OBVIOUS
<1> HIDE DEF Stages
<1>2. ASSUME NEW rest \in Seq(Stages) PROVE "draft" \in Range(Preparation \o rest)
  <2>1. 1 \in DOMAIN (Preparation \o rest) /\ (Preparation \o rest)[1] = "draft"
    BY <1>1, ConcatProperties
  <2> QED BY <2>1 DEF Range
<1>3. ASSUME NEW a \in Seq(Stages), NEW b \in Seq(Stages)
      PROVE  (Preparation \o a) \o b = Preparation \o (a \o b)
  <2>1. Preparation \in Seq(Stages)
    BY <1>1
  <2> QED BY <2>1, ConcatAssociative
<1>4. "draft" \in Range(ModeStages.lightweight)
  <2> DEFINE rest == <<"memory_sync", "completed">>
  <2>1. ModeStages.lightweight = (Preparation \o Work) \o rest
    BY DEF ModeStages
  <2>2. rest \in Seq(Stages)
    BY <1>0
  <2> HIDE DEF rest
  <2>3. ModeStages.lightweight = Preparation \o (Work \o rest)
    BY <1>1, <1>3, <2>1, <2>2
  <2>4. Work \o rest \in Seq(Stages)
    BY <1>1, <2>2, ConcatProperties
  <2> QED BY <1>2, <2>3, <2>4
<1>5. "draft" \in Range(ModeStages.benchmark)
  <2> DEFINE rest == <<"completed">>
  <2>1. ModeStages.benchmark = (Preparation \o Evidence) \o rest
    BY DEF ModeStages
  <2>2. rest \in Seq(Stages)
    BY <1>0
  <2> HIDE DEF rest
  <2>3. ModeStages.benchmark = Preparation \o (Evidence \o rest)
    BY <1>1, <1>3, <2>1, <2>2
  <2>4. Evidence \o rest \in Seq(Stages)
    BY <1>1, <2>2, ConcatProperties
  <2> QED BY <1>2, <2>3, <2>4
<1>6. "draft" \in Range(ModeStages.final_review)
  <2> DEFINE rest == <<"critical_review", "user_decision", "completed">>
  <2>1. ModeStages.final_review = (Preparation \o Evidence) \o rest
    BY DEF ModeStages
  <2>2. rest \in Seq(Stages)
    BY <1>0
  <2> HIDE DEF rest
  <2>3. ModeStages.final_review = Preparation \o (Evidence \o rest)
    BY <1>1, <1>3, <2>1, <2>2
  <2>4. Evidence \o rest \in Seq(Stages)
    BY <1>1, <2>2, ConcatProperties
  <2> QED BY <1>2, <2>3, <2>4
<1>7. Mode = {"lightweight", "benchmark", "final_review"}
  BY DEF Mode, ModeStages
<1> QED
  BY <1>4, <1>5, <1>6, <1>7

Stage(mode) == ExceptionStates \cup Range(ModeStages[mode])

TypeInv ==
    /\ matter \in Matters
    /\ now \in 0..1
    /\ edits \in 0..MaxEdit
    /\ \A r \in Ref : grant[r] # None => grant[r] \in [binding : Binding, whole : BOOLEAN]
    /\ stages = [mode |-> stages.mode, path |-> stages.path]
    /\ stages.mode \in Mode /\ stages.path \in Seq(Stage(stages.mode))
    /\ reviews \in Seq(Review)

LEMMA TypeInvInit == Init => TypeInv
<1> SUFFICES ASSUME Init PROVE TypeInv
  OBVIOUS
<1>1. "lightweight" \in Mode
  BY DEF Mode, ModeStages
<1>2. PICK m \in Mode : stages = [mode |-> m, path |-> <<"draft">>]
  BY <1>1 DEF Init
<1>3. stages.mode = m /\ stages.path = <<"draft">>
  BY <1>2
<1>4. "draft" \in Stage(m)
  BY EveryModeStarts DEF Stage
<1>5. stages.path \in Seq(Stage(stages.mode))
  BY <1>3, <1>4
<1>6. \A r \in Ref : grant[r] = None
  BY DEF Init
<1>7. matter \in Matters /\ now \in 0..1 /\ edits \in 0..MaxEdit /\ reviews \in Seq(Review)
  BY SessionConstants DEF Init
<1> QED
  BY <1>2, <1>3, <1>5, <1>6, <1>7 DEF TypeInv

LEMMA GrantsChange ==
    ASSUME [Next]_vars
    PROVE  UNCHANGED grant \/ \E b \in Binding : GrantAgents(b)
<1>1. CASE UNCHANGED vars
  BY <1>1 DEF vars, approvals
<1>2. CASE \E e \in Runner, b \in Binding, slots \in SUBSET Slot :
             BeginConsume(e, b, {desk[s] : s \in slots})
  BY <1>2 DEF BeginConsume
<1>3. CASE \E e \in Runner : Consume(e)
  BY <1>3 DEF Consume
<1> QED
  BY <1>1, <1>2, <1>3, OthersLeaveApprovals DEF approvals

LEMMA TypeInvStep == ApprovalInv /\ TypeInv /\ [Next]_vars => TypeInv'
<1> SUFFICES ASSUME ApprovalInv, TypeInv, [Next]_vars PROVE TypeInv'
  OBVIOUS
<1>1. matter' \in Matters /\ now' \in 0..1
  <2>1. UNCHANGED matter /\ (now' = now \/ now' = 1)
    BY Changes
  <2> QED BY <2>1 DEF TypeInv
<1>2. edits' \in 0..MaxEdit
  <2>1. UNCHANGED edits \/ (edits < MaxEdit /\ edits' = edits + 1)
    BY Changes
  <2> QED BY <2>1, SessionConstants DEF TypeInv
<1>3. ASSUME NEW r \in Ref, grant'[r] # None
      PROVE  grant'[r] \in [binding : Binding, whole : BOOLEAN]
  <2>1. CASE UNCHANGED grant
    BY <1>3, <2>1 DEF TypeInv
  <2>2. ASSUME NEW b \in Binding, GrantAgents(b)
        PROVE  grant'[r] \in [binding : Binding, whole : BOOLEAN]
    <3>1. PICK whole \in BOOLEAN :
            grant' = [grant EXCEPT ![RefOf[b]] = [binding |-> b, whole |-> whole]]
      BY <2>2 DEF GrantAgents
    <3>2. grant'[r] = [binding |-> b, whole |-> whole] \/ grant'[r] = grant[r]
      BY <3>1 DEF ApprovalInv, GrantInv
    <3>3. [binding |-> b, whole |-> whole] \in [binding : Binding, whole : BOOLEAN]
      OBVIOUS
    <3> QED BY <1>3, <3>2, <3>3 DEF TypeInv
  <2> QED BY <2>1, <2>2, GrantsChange
<1>4. /\ stages' = [mode |-> stages'.mode, path |-> stages'.path]
      /\ stages'.mode \in Mode /\ stages'.path \in Seq(Stage(stages'.mode))
  <2>1. CASE UNCHANGED stages
    BY <2>1 DEF TypeInv
  <2>2. ASSUME NEW target \in Stage(stages.mode), Transition(target)
        PROVE  /\ stages' = [mode |-> stages'.mode, path |-> stages'.path]
               /\ stages'.mode \in Mode /\ stages'.path \in Seq(Stage(stages'.mode))
    <3>1. stages' = [mode |-> stages.mode, path |-> Append(stages.path, target)]
      <4>1. stages' = [stages EXCEPT !.path = Append(stages.path, target)]
        BY <2>2 DEF Transition
      <4>2. stages = [mode |-> stages.mode, path |-> stages.path]
        BY DEF TypeInv
      <4> QED BY <4>1, <4>2
    <3>2. Append(stages.path, target) \in Seq(Stage(stages.mode)) /\ stages.mode \in Mode
      BY AppendProperties DEF TypeInv
    <3>3. stages'.mode = stages.mode /\ stages'.path = Append(stages.path, target)
      BY <3>1
    <3> QED BY <3>1, <3>2, <3>3
  <2> QED BY <2>1, <2>2, Changes DEF Stage
<1>5. reviews' \in Seq(Review)
  <2>1. ASSUME NEW d \in Review, AddReview(d) PROVE reviews' \in Seq(Review)
    BY <2>1, AppendProperties DEF AddReview, TypeInv
  <2> QED BY <2>1, Changes DEF TypeInv
<1> QED
  BY <1>1, <1>2, <1>3, <1>4, <1>5 DEF TypeInv

LEMMA TypeFollows ==
    ApprovalInv /\ DocumentInv /\ DeskInv /\ FailureInv /\ TypeInv => TypeOK
<1> SUFFICES ASSUME ApprovalInv, DocumentInv, DeskInv, FailureInv, TypeInv PROVE TypeOK
  OBVIOUS
<1>1. DOMAIN desk = Slot /\ \A s \in Slot : desk[s].agent \in Roster
  BY DEF DeskInv
<1>2. \A doc \in {receipt, manifest} : doc # None => DOMAIN doc = {"body", "seal"}
  BY DEF DocumentInv
<1>3. runner \in [Runner -> Binding \cup {None}] /\ granted \subseteq Binding
  BY DEF ApprovalInv, GrantInv
<1>4. marker \in [Ref -> {"absent", "torn", "whole"}] /\ started \in [Ref -> Seq(Binding)]
  BY DEF ApprovalInv, MarkerInv
<1>5. \A i \in DOMAIN stages.path : stages.path[i] \in Stage(stages.mode)
  BY ElementOfSeq DEF TypeInv
<1>6. failed # None => failed.record \in FailureRecords
  BY DEF FailureInv, FailureOK
<1> QED
  BY <1>1, <1>2, <1>3, <1>4, <1>5, <1>6 DEF TypeOK, TypeInv, Stage

(* Every document, file, history and record has its type.                  *)
THEOREM SessionTypeCorrect == Spec => []TypeOK
<1>1. Init => FailureInv
  BY DEF Init, FailureInv
<1>2. ApprovalInv /\ [Next]_vars => ApprovalInv'
  BY ApprovalInvStep, SessionConstants
<1> QED
  BY <1>1, <1>2, ApprovalInvInit, DocumentInvInit, DocumentInvStep, DeskInvInit,
    DeskInvStep, FailureInvStep, TypeInvInit, TypeInvStep, TypeFollows, PTL DEF Spec

(* One more review makes no blocked claim eligible but by stating a        *)
(* verdict that takes back an earlier one of the same reviewer.            *)
LEMMA OneReviewMore ==
    ASSUME NEW decisions \in Seq(Review), NEW d \in Review, NEW claim,
           ~ GateEligible(decisions, claim), GateEligible(Append(decisions, d), claim)
    PROVE  /\ d.verdict # "none"
           /\ \E i \in DOMAIN decisions :
                decisions[i].agent = d.agent /\ decisions[i].verdict \notin {"none", d.verdict}
<1> DEFINE more == Append(decisions, d)
           n == Len(decisions)
<1>1. /\ n \in Nat /\ DOMAIN decisions = 1..n /\ DOMAIN more = 1..n + 1 /\ Len(more) = n + 1
      /\ more[n + 1] = d /\ \A i \in 1..n : more[i] = decisions[i]
  BY AppendProperties, LenProperties
<1>2. ~ BlockedByReview(more, claim) /\ ~ Conflict(more)
  BY DEF GateEligible
<1> HIDE DEF more, n
<1>3. ~ BlockedByReview(decisions, claim)
  <2>1. \A i \in 1..n : i \in 1..n + 1
    BY <1>1
  <2> QED BY <1>1, <1>2, <2>1 DEF BlockedByReview
<1>4. Conflict(decisions)
  BY <1>3 DEF GateEligible
<1>5. PICK v : v \in Verdicts(decisions) /\ v \notin Verdicts(more)
  BY <1>2, <1>4 DEF Conflict
<1>6. PICK i \in 1..n :
        /\ decisions[i].verdict = v /\ v # "none"
        /\ \A j \in i + 1..n : decisions[j].agent = decisions[i].agent => decisions[j].verdict = "none"
  BY <1>1, <1>5 DEF Verdicts, n
<1>7. PICK j \in i + 1..n + 1 : more[j].agent = more[i].agent /\ more[j].verdict # "none"
  <2>1. i \in 1..n + 1 /\ more[i] = decisions[i]
    BY <1>1
  <2> QED BY <1>1, <1>5, <1>6, <2>1 DEF Verdicts
<1>8. j = n + 1
  <2>1. j \in i + 1..n => j \in 1..n
    BY <1>1
  <2>2. j \notin i + 1..n
    BY <1>1, <1>6, <1>7, <2>1
  <2> QED BY <1>1, <1>7, <2>2
<1>9. d.agent = decisions[i].agent /\ d.verdict # "none"
  BY <1>1, <1>7, <1>8
<1>10. d.verdict # v
  <2>1. n + 1 \in 1..n + 1 /\ (n + 1) + 1..n + 1 = {}
    BY <1>1
  <2>2. d.verdict \in Verdicts(more)
    BY <1>1, <1>9, <2>1 DEF Verdicts
  <2> QED BY <1>5, <2>2
<1> QED
  BY <1>1, <1>6, <1>9, <1>10

(* A claim that was blocked becomes eligible by one more review only when  *)
(* its reviewer takes back an earlier verdict by stating another.          *)
THEOREM GateReopensByRevision == Spec => GateReopensOnlyByRevision
<1>1. ASSUME TypeInv, [Next]_vars
      PROVE  [\A claim \in {"publication", "exploratory"} :
                ~ GateEligible(reviews, claim) /\ GateEligible(reviews', claim) =>
                  /\ Last(reviews').verdict # "none"
                  /\ \E i \in DOMAIN reviews :
                       /\ reviews[i].agent = Last(reviews').agent
                       /\ reviews[i].verdict \notin {"none", Last(reviews').verdict}]_vars
  <2> SUFFICES ASSUME NEW claim \in {"publication", "exploratory"},
                      ~ GateEligible(reviews, claim), GateEligible(reviews', claim)
               PROVE  /\ Last(reviews').verdict # "none"
                      /\ \E i \in DOMAIN reviews :
                           /\ reviews[i].agent = Last(reviews').agent
                           /\ reviews[i].verdict \notin {"none", Last(reviews').verdict}
    OBVIOUS
  <2>1. PICK d \in Review : AddReview(d)
    <3>1. ~ UNCHANGED reviews
      OBVIOUS
    <3> QED BY <3>1, <1>1, Changes
  <2>2. reviews \in Seq(Review) /\ reviews' = Append(reviews, d)
    BY <1>1, <2>1 DEF TypeInv, AddReview
  <2>3. Last(reviews') = d
    BY <2>2, AppendProperties DEF Last
  <2> QED BY <2>2, <2>3, OneReviewMore
<1>2. ApprovalInv /\ [Next]_vars => ApprovalInv'
  BY ApprovalInvStep, SessionConstants
<1> QED
  BY <1>1, <1>2, ApprovalInvInit, TypeInvInit, TypeInvStep, PTL
  DEF Spec, GateReopensOnlyByRevision
=============================================================================
