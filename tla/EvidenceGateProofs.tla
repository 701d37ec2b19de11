------------------------- MODULE EvidenceGateProofs -------------------------
(***************************************************************************)
(* What an eligibility receipt of EvidenceGate is worth, for every value   *)
(* of its constants.                                                       *)
(***************************************************************************)
EXTENDS EvidenceGate, FiniteSetTheorems, SequenceTheorems, TLAPS

Span == Nat \cup {r.last : r \in Reference} \cup {l.last : l \in Locator}
Check == [event : {r.event : r \in Reference}, path : {r.path : r \in Reference},
          sha : {r.sha : r \in Reference}, verified : BOOLEAN]
CallRecord ==
    [kind : {"fetch", "eligibility"}, claim : Claim \cup {None}, cites : Seq(Reference),
     todo : Seq(Reference), checks : Seq(Check), context : Nat, step : Step,
     sha : Content \cup {None}, last : Span, files : SUBSET (Path \X (Content \cup {None})),
     indexes : SUBSET SUBSET Locator]

(* Types of what a call may read, and of the call.                         *)
WorldInv ==
    /\ file \in [Path -> Content \cup {None}]
    /\ ledger \in past /\ index \in past
    /\ past \subseteq SUBSET Locator

CallTyped == call # None => call \in CallRecord

(* A call works through its references in their order.                     *)
Orderly ==
    call # None =>
      /\ call.step = "judge" => call.kind = "eligibility" /\ call.todo = <<>>
      /\ call.step # "judge" => call.todo # <<>>
      /\ call.kind = "eligibility" =>
           /\ Len(call.checks) + Len(call.todo) = Len(call.cites)
           /\ \A i \in 1..Len(call.todo) : call.todo[i] = call.cites[Len(call.checks) + i]

(* Its history has the files and the index as they are now.                *)
Witnessed ==
    call # None =>
      /\ \A p \in Path : <<p, file[p]>> \in call.files
      /\ index \in call.indexes

(* What a verified check stands for.                                       *)
Grounded(r, c) ==
    /\ r.event # None
    /\ \E l \in UNION c.indexes : Locates(l, r)
    /\ r.sha = Registered[r.path]
    /\ Intact(r, c)

(* What is known of the reference at hand, step by step.                   *)
Tracked ==
    call # None /\ call.kind = "eligibility" =>
      /\ call.step \in {"gate", "hash", "range", "read"} =>
           None \notin {ref.event, ref.sha, ref.last}
      /\ call.step \in {"range", "read"} => call.sha = ref.sha /\ ref.sha = Registered[ref.path]
      /\ call.step = "read" => \E l \in UNION call.indexes : Locates(l, ref)

Checked ==
    call # None /\ call.kind = "eligibility" =>
      \A i \in 1..Len(call.checks) :
        /\ call.checks[i].event = call.cites[i].event
        /\ call.checks[i].verified => Grounded(call.cites[i], call)

CallInv == CallTyped /\ Orderly /\ Witnessed /\ Tracked /\ Checked

(* The log is the beginning of what was answered.                          *)
LogInv ==
    /\ fetched \in Seq(Entry) /\ log \in Seq(Entry)
    /\ Len(log) <= Len(fetched) /\ Len(log) <= LogLimit
    /\ Len(log) = Len(fetched) \/ Len(log) = LogLimit
    /\ \A i \in 1..Len(log) : log[i] = fetched[i]

ReceiptInv ==
    /\ call # None => receipt = None
    /\ receipt # None => receipt.status \in {"not_required", "eligible", "blocked"}
    /\ EligibleIsGrounded
    /\ MismatchIsNotDropped

BoundInv == calls \in 0..MaxCall /\ edits \in 0..MaxEdit

GateInv == WorldInv /\ CallInv /\ LogInv /\ ReceiptInv /\ BoundInv
-----------------------------------------------------------------------------
LEMMA MinOfTwo ==
    ASSUME NEW a \in Nat, NEW b \in Nat
    PROVE  Min({a, b}) = IF a <= b THEN a ELSE b
<1>1. \A x \in {a, b} : (\A y \in {a, b} : x <= y) <=> x = IF a <= b THEN a ELSE b
  OBVIOUS
<1>2. \E x \in {a, b} : \A y \in {a, b} : x <= y
  BY <1>1
<1> QED BY <1>1, <1>2 DEF Min

(* The log reaches as far as its limit lets it.                            *)
LEMMA LogReaches ==
    ASSUME GateConstants, LogInv
    PROVE  Len(log) = Min({Len(fetched), LogLimit})
<1>1. Len(fetched) \in Nat /\ LogLimit \in Nat /\ Len(log) \in Nat
  BY DEF GateConstants, LogInv
<1>2. Min({Len(fetched), LogLimit}) = IF Len(fetched) <= LogLimit THEN Len(fetched) ELSE LogLimit
  BY <1>1, MinOfTwo
<1> QED BY <1>1, <1>2 DEF LogInv

LEMMA GateInvInit == ASSUME GateConstants, Init PROVE GateInv
<1>1. WorldInv
  BY DEF GateConstants, Init, WorldInv
<1>2. CallInv
  BY DEF Init, CallInv, CallTyped, Orderly, Witnessed, Tracked, Checked
<1>3. LogInv
  BY DEF GateConstants, Init, LogInv
<1>4. ReceiptInv
  BY DEF Init, ReceiptInv, EligibleIsGrounded, MismatchIsNotDropped
<1>5. BoundInv
  BY DEF GateConstants, Init, BoundInv
<1> QED BY <1>1, <1>2, <1>3, <1>4, <1>5 DEF GateInv

(* What goes on around a call only adds to its history.                    *)
LEMMA WitnessKeepsCallInv ==
    ASSUME CallInv, NEW F \in SUBSET (Path \X (Content \cup {None})),
           NEW I \in SUBSET SUBSET Locator, Witness(F, I),
           \A p \in Path : file'[p] = file[p] \/ <<p, file'[p]>> \in F,
           index' = index \/ index' \in I
    PROVE  CallInv'
<1> SUFFICES ASSUME call # None
    PROVE  CallInv'
  BY DEF Witness, CallInv, CallTyped, Orderly, Witnessed, Tracked, Checked
<1>1. call' = [call EXCEPT !.files = @ \cup F, !.indexes = @ \cup I]
  BY DEF Witness
<1>2. call \in CallRecord /\ call' \in CallRecord
  BY <1>1 DEF CallInv, CallTyped, CallRecord
<1>3. /\ call'.kind = call.kind /\ call'.cites = call.cites /\ call'.todo = call.todo
      /\ call'.checks = call.checks /\ call'.step = call.step /\ call'.sha = call.sha
      /\ call.files \subseteq call'.files /\ call.indexes \subseteq call'.indexes
      /\ F \subseteq call'.files /\ I \subseteq call'.indexes
  BY <1>1, <1>2 DEF CallRecord
<1>4. CallTyped'
  BY <1>2 DEF CallTyped
<1>5. Orderly'
  BY <1>3 DEF CallInv, Orderly
<1>6. Witnessed'
  BY <1>3 DEF CallInv, Witnessed
<1>7. \A r : Grounded(r, call) => Grounded(r, call')
  BY <1>3 DEF Grounded, Intact
<1>8. ref' = ref
  BY <1>3 DEF ref
<1>9. Tracked'
  BY <1>3, <1>8 DEF CallInv, Tracked
<1>10. Checked'
  BY <1>3, <1>7 DEF CallInv, Checked
<1> QED BY <1>4, <1>5, <1>6, <1>9, <1>10 DEF CallInv
-----------------------------------------------------------------------------
(* The reference at hand is the next one of the claim.                     *)
LEMMA ReferenceAtHand ==
    ASSUME CallInv, call # None, call.step # "judge"
    PROVE  /\ call \in CallRecord
           /\ call.todo \in Seq(Reference) /\ Len(call.todo) \in Nat \ {0}
           /\ ref \in Reference /\ ref = call.todo[1]
           /\ call.kind = "eligibility" => ref = call.cites[Len(call.checks) + 1]
<1>1. call \in CallRecord /\ call.todo \in Seq(Reference) /\ call.todo # <<>>
  BY DEF CallInv, CallTyped, Orderly, CallRecord
<1>2. Len(call.todo) \in Nat \ {0} /\ ref = call.todo[1] /\ ref \in Reference
  BY <1>1 DEF ref
<1>3. call.kind = "eligibility" => call.todo[1] = call.cites[Len(call.checks) + 1]
  BY <1>2 DEF CallInv, Orderly
<1> QED BY <1>1, <1>2, <1>3

(* A step inside the treatment of one reference.                           *)
LEMMA SameReferenceKeepsCallInv ==
    ASSUME CallInv, call # None, call.step # "judge", UNCHANGED <<file, index>>,
           NEW s \in Step \ {"check", "judge"}, NEW h \in Content \cup {None}, NEW n \in Span,
           call' = [call EXCEPT !.step = s, !.sha = h, !.last = n],
           call.kind = "eligibility" =>
             /\ None \notin {ref.event, ref.sha, ref.last}
             /\ s \in {"range", "read"} => h = ref.sha /\ ref.sha = Registered[ref.path]
             /\ s = "read" => \E l \in UNION call.indexes : Locates(l, ref)
    PROVE  CallInv'
<1>1. call \in CallRecord /\ call' \in CallRecord
  BY ReferenceAtHand DEF CallRecord
<1>2. /\ call'.kind = call.kind /\ call'.cites = call.cites /\ call'.todo = call.todo
      /\ call'.checks = call.checks /\ call'.step = s /\ call'.sha = h
      /\ call'.files = call.files /\ call'.indexes = call.indexes
  BY <1>1 DEF CallRecord
<1>3. CallTyped'
  BY <1>1 DEF CallTyped
<1>4. Orderly'
  BY <1>2 DEF CallInv, Orderly
<1>5. Witnessed'
  BY <1>2 DEF CallInv, Witnessed
<1>6. ref' = ref
  BY <1>2 DEF ref
<1>7. Tracked'
  BY <1>2, <1>6 DEF Tracked
<1>8. \A r : Grounded(r, call) => Grounded(r, call')
  BY <1>2 DEF Grounded, Intact
<1>9. Checked'
  BY <1>2, <1>8 DEF CallInv, Checked
<1> QED BY <1>3, <1>4, <1>5, <1>7, <1>9 DEF CallInv

(* The end of a reference.                                                 *)
LEMMA DoneKeepsCallInv ==
    ASSUME CallInv, call # None, call.step # "judge", UNCHANGED <<file, index>>,
           NEW v \in BOOLEAN, Done(v),
           v /\ call.kind = "eligibility" => Grounded(ref, call)
    PROVE  CallInv'
<1>1. CASE call.kind = "fetch"
  BY <1>1 DEF Done, CallInv, CallTyped, Orderly, Witnessed, Tracked, Checked
<1>2. CASE call.kind # "fetch"
  <2> DEFINE check == [event |-> ref.event, path |-> ref.path, sha |-> ref.sha, verified |-> v]
             s == IF Len(call.todo) = 1 THEN "judge" ELSE "check"
  <2>1. /\ call \in CallRecord /\ ref \in Reference /\ call.kind = "eligibility"
        /\ call.todo \in Seq(Reference) /\ Len(call.todo) \in Nat \ {0}
        /\ call.checks \in Seq(Check) /\ call.cites \in Seq(Reference)
        /\ ref = call.cites[Len(call.checks) + 1]
    BY <1>2, ReferenceAtHand DEF CallRecord
  <2>2. call' = [call EXCEPT !.todo = Tail(@), !.checks = Append(@, check), !.step = s]
    BY <1>2 DEF Done
  <2>3. check \in Check /\ s \in Step
    BY <2>1 DEF Check, Step
  <2>4. Tail(call.todo) \in Seq(Reference) /\ Append(call.checks, check) \in Seq(Check)
    BY <2>1, <2>3
  <2>5. call' \in CallRecord
    BY <2>1, <2>2, <2>3, <2>4 DEF CallRecord
  <2>6. /\ call'.kind = "eligibility" /\ call'.cites = call.cites
        /\ call'.todo = Tail(call.todo) /\ call'.checks = Append(call.checks, check)
        /\ call'.step = s /\ call'.files = call.files /\ call'.indexes = call.indexes
    BY <2>1, <2>2 DEF CallRecord
  <2>7. CallTyped'
    BY <2>5 DEF CallTyped
  <2>8. /\ Len(call'.todo) = Len(call.todo) - 1
        /\ \A i \in 1..Len(call'.todo) : call'.todo[i] = call.todo[i + 1]
    BY <2>1, <2>6
  <2>9. /\ Len(call'.checks) = Len(call.checks) + 1 /\ Len(call.checks) \in Nat
        /\ \A i \in 1..Len(call.checks) : call'.checks[i] = call.checks[i]
        /\ call'.checks[Len(call.checks) + 1] = check
    BY <2>1, <2>3, <2>6
  <2>10. Orderly'
    <3>1. /\ Len(call.checks) + Len(call.todo) = Len(call.cites)
          /\ \A i \in 1..Len(call.todo) : call.todo[i] = call.cites[Len(call.checks) + i]
      BY <2>1 DEF CallInv, Orderly
    <3> HIDE DEF check, s
    <3>0. /\ Len(call.todo) \in Nat \ {0} /\ Len(call.checks) \in Nat
          /\ Len(call'.todo) = Len(call.todo) - 1 /\ Len(call'.checks) = Len(call.checks) + 1
          /\ call'.cites = call.cites
      BY <2>1, <2>6, <2>8, <2>9
    <3>2. Len(call'.checks) + Len(call'.todo) = Len(call'.cites)
      <4> DEFINE a == Len(call.checks)  b == Len(call.todo)
                 c == Len(call'.checks)  d == Len(call'.todo)  n == Len(call'.cites)
      <4>1. a \in Nat /\ b \in Nat \ {0} /\ c = a + 1 /\ d = b - 1 /\ a + b = n
        BY <3>0, <3>1
      <4> HIDE DEF a, b, c, d, n
      <4>2. c + d = n
        BY <4>1
      <4> QED BY <4>2 DEF c, d, n
    <3>3. ASSUME NEW i \in 1..Len(call'.todo)
          PROVE  call'.todo[i] = call'.cites[Len(call'.checks) + i]
      <4>1. i \in Nat /\ i + 1 \in 1..Len(call.todo)
        BY <3>3, <2>1, <2>8
      <4>2. Len(call'.checks) + i = Len(call.checks) + (i + 1)
        <5> DEFINE a == Len(call.checks)  c == Len(call'.checks)
        <5>1. a \in Nat /\ c = a + 1 /\ i \in Nat
          BY <3>0, <4>1
        <5> HIDE DEF a, c
        <5>2. c + i = a + (i + 1)
          BY <5>1
        <5> QED BY <5>2 DEF a, c
      <4> QED BY <3>1, <3>3, <4>1, <4>2, <2>6, <2>8
    <3>4. call'.step = "judge" => call'.todo = <<>>
      <4>1. s = "judge" => Len(call.todo) = 1
        BY DEF s
      <4>2. Len(call.todo) = 1 => Len(call'.todo) = 0
        BY <3>0
      <4>3. call'.todo \in Seq(Reference)
        BY <2>4, <2>6
      <4>4. call'.step = s
        BY <2>6
      <4> QED BY <4>1, <4>2, <4>3, <4>4, EmptySeq
    <3>5. call'.step # "judge" => call'.todo # <<>>
      <4>1. s # "judge" => Len(call.todo) # 1
        BY DEF s
      <4>2. Len(call.todo) # 1 => Len(call'.todo) # 0
        BY <3>0
      <4> QED BY <4>1, <4>2, <2>6
    <3> QED BY <3>2, <3>3, <3>4, <3>5, <2>6 DEF Orderly
  <2>11. Witnessed'
    BY <2>6 DEF CallInv, Witnessed
  <2>12. Tracked'
    BY <2>6 DEF Tracked
  <2>13. \A r : Grounded(r, call) => Grounded(r, call')
    BY <2>6 DEF Grounded, Intact
  <2>14. Checked'
    <3>1. ASSUME NEW i \in 1..Len(call'.checks)
          PROVE  /\ call'.checks[i].event = call'.cites[i].event
                 /\ call'.checks[i].verified => Grounded(call'.cites[i], call')
      <4>1. CASE i = Len(call.checks) + 1
        BY <4>1, <2>1, <2>6, <2>9, <2>13
      <4>2. CASE i # Len(call.checks) + 1
        <5>1. i \in 1..Len(call.checks)
          BY <3>1, <4>2, <2>9
        <5> QED BY <5>1, <2>1, <2>6, <2>9, <2>13 DEF CallInv, Checked
      <4> QED BY <4>1, <4>2
    <3> QED BY <3>1 DEF Checked
  <2> QED BY <2>7, <2>10, <2>11, <2>12, <2>14 DEF CallInv
<1> QED BY <1>1, <1>2
-----------------------------------------------------------------------------
(* Parts of the invariant that a step leaves alone.                        *)
LEMMA UntouchedCall ==
    ASSUME CallInv, UNCHANGED <<call, file, index>>  PROVE CallInv'
BY DEF CallInv, CallTyped, Orderly, Witnessed, Tracked, Checked, Grounded, Intact, ref

LEMMA NoCallLeft == ASSUME call' = None PROVE CallInv'
BY DEF CallInv, CallTyped, Orderly, Witnessed, Tracked, Checked

LEMMA UntouchedLog == ASSUME LogInv, UNCHANGED <<log, fetched>>  PROVE LogInv'
BY DEF LogInv

LEMMA UntouchedReceipt ==
    ASSUME ReceiptInv, UNCHANGED <<receipt, fetched>>, call = None => call' = None
    PROVE  ReceiptInv'
BY DEF ReceiptInv, EligibleIsGrounded, MismatchIsNotDropped

LEMMA NoReceiptLeft == ASSUME receipt' = None PROVE ReceiptInv'
BY DEF ReceiptInv, EligibleIsGrounded, MismatchIsNotDropped

(* A reference that fails ends without an entry in the log.                *)
LEMMA RaisesKeepsGateInv ==
    ASSUME GateInv, call # None, call.step # "judge", Raises
    PROVE  GateInv'
<1>1. UNCHANGED <<world, log, receipt, fetched, calls, edits>> /\ Done(FALSE)
  BY DEF Raises
<1>2. CallInv'
  BY <1>1, DoneKeepsCallInv DEF GateInv, world
<1>3. ReceiptInv'
  BY <1>1, UntouchedReceipt DEF GateInv
<1>4. WorldInv' /\ LogInv' /\ BoundInv'
  BY <1>1, UntouchedLog DEF GateInv, WorldInv, BoundInv, world
<1> QED BY <1>2, <1>3, <1>4 DEF GateInv

(* A step that goes on with the reference.                                 *)
LEMMA ProceedsKeepsGateInv ==
    ASSUME GateInv, call # None, call.step # "judge",
           NEW s \in Step \ {"check", "judge"}, NEW h \in Content \cup {None}, NEW n \in Span,
           Proceeds([call EXCEPT !.step = s, !.sha = h, !.last = n]),
           call.kind = "eligibility" =>
             /\ None \notin {ref.event, ref.sha, ref.last}
             /\ s \in {"range", "read"} => h = ref.sha /\ ref.sha = Registered[ref.path]
             /\ s = "read" => \E l \in UNION call.indexes : Locates(l, ref)
    PROVE  GateInv'
<1>1. /\ UNCHANGED <<world, log, receipt, fetched, calls, edits>>
      /\ call' = [call EXCEPT !.step = s, !.sha = h, !.last = n]
  BY DEF Proceeds
<1>2. CallInv'
  BY <1>1, SameReferenceKeepsCallInv DEF GateInv, world
<1>3. ReceiptInv'
  BY <1>1, UntouchedReceipt DEF GateInv
<1>4. WorldInv' /\ LogInv' /\ BoundInv'
  BY <1>1, UntouchedLog DEF GateInv, WorldInv, BoundInv, world
<1> QED BY <1>2, <1>3, <1>4 DEF GateInv

(* What happens to files, ledger, index and server between two calls or in *)
(* the middle of one.                                                      *)
LEMMA WorldStepsKeepGateInv ==
    ASSUME GateConstants, GateInv,
           \/ \E p \in Path, c \in Content \cup {None} : EditFile(p, c)
           \/ Record \/ Restart
           \/ \E l \in past : Publish(l)
    PROVE  GateInv'
<1>1. ASSUME NEW p \in Path, NEW c \in Content \cup {None}, EditFile(p, c)
      PROVE  GateInv'
  <2>1. /\ file' = [file EXCEPT ![p] = c] /\ edits' = edits + 1 /\ edits < MaxEdit
        /\ Witness({<<p, c>>}, {})
        /\ UNCHANGED <<ledger, index, past, log, receipt, fetched, calls>>
    BY <1>1 DEF EditFile
  <2>2. WorldInv'
    BY <2>1 DEF GateInv, WorldInv
  <2>3. \A q \in Path : file'[q] = file[q] \/ <<q, file'[q]>> \in {<<p, c>>}
    BY <2>1 DEF GateInv, WorldInv
  <2>4. {<<p, c>>} \in SUBSET (Path \X (Content \cup {None})) /\ {} \in SUBSET SUBSET Locator
    OBVIOUS
  <2>5. CallInv'
    BY <2>1, <2>3, <2>4, WitnessKeepsCallInv DEF GateInv
  <2>6. LogInv' /\ ReceiptInv'
    BY <2>1, UntouchedLog, UntouchedReceipt DEF GateInv, Witness
  <2>7. BoundInv'
    BY <2>1 DEF GateInv, BoundInv, GateConstants
  <2> QED BY <2>2, <2>5, <2>6, <2>7 DEF GateInv
<1>2. ASSUME Record PROVE GateInv'
  <2>1. /\ ledger' = Locator /\ past' = past \cup {Locator}
        /\ UNCHANGED <<file, index, call, log, receipt, fetched, calls, edits>>
    BY <1>2 DEF Record
  <2>2. WorldInv'
    BY <2>1 DEF GateInv, WorldInv
  <2>3. CallInv' /\ LogInv' /\ ReceiptInv'
    BY <2>1, UntouchedCall, UntouchedLog, UntouchedReceipt DEF GateInv
  <2>4. BoundInv'
    BY <2>1 DEF GateInv, BoundInv
  <2> QED BY <2>2, <2>3, <2>4 DEF GateInv
<1>3. ASSUME Restart PROVE GateInv'
  <2>1. /\ call' = None /\ log' = <<>> /\ receipt' = None /\ fetched' = <<>>
        /\ edits' = edits + 1 /\ edits < MaxEdit
        /\ UNCHANGED <<file, ledger, index, past, calls>>
    BY <1>3 DEF Restart, world
  <2>2. WorldInv'
    BY <2>1 DEF GateInv, WorldInv
  <2>3. CallInv' /\ ReceiptInv'
    BY <2>1, NoCallLeft, NoReceiptLeft
  <2>4. LogInv'
    BY <2>1 DEF LogInv, GateConstants
  <2>5. BoundInv'
    BY <2>1 DEF GateInv, BoundInv, GateConstants
  <2> QED BY <2>2, <2>3, <2>4, <2>5 DEF GateInv
<1>4. ASSUME NEW l \in past, Publish(l) PROVE GateInv'
  <2>1. /\ index' = l /\ Witness({}, {l})
        /\ edits' = IF l = ledger THEN edits ELSE edits + 1
        /\ l = ledger \/ edits < MaxEdit
        /\ UNCHANGED <<file, ledger, past, log, receipt, fetched, calls>>
    BY <1>4 DEF Publish
  <2>2. WorldInv'
    BY <2>1 DEF GateInv, WorldInv
  <2>3. {} \in SUBSET (Path \X (Content \cup {None})) /\ {l} \in SUBSET SUBSET Locator
    BY DEF GateInv, WorldInv
  <2>4. CallInv'
    BY <2>1, <2>3, WitnessKeepsCallInv DEF GateInv
  <2>5. LogInv' /\ ReceiptInv'
    BY <2>1, UntouchedLog, UntouchedReceipt DEF GateInv, Witness
  <2>6. BoundInv'
    BY <2>1 DEF GateInv, BoundInv, GateConstants
  <2> QED BY <2>2, <2>4, <2>5, <2>6 DEF GateInv
<1> QED BY <1>1, <1>2, <1>3, <1>4
-----------------------------------------------------------------------------
(* A call begins with its references before it, and none of them done.     *)
LEMMA BeginKeepsGateInv ==
    ASSUME GateConstants, GateInv, NEW c \in CallRecord, Begin(c),
           c.checks = <<>>, c.step # "judge" => c.todo # <<>>,
           c.step = "judge" => c.kind = "eligibility" /\ c.todo = <<>>,
           c.kind = "eligibility" => c.todo = c.cites /\ c.step \in {"check", "judge"}
    PROVE  GateInv'
<1>1. /\ call' = [c EXCEPT !.files = {<<p, file[p]>> : p \in Path}, !.indexes = {index}]
      /\ calls' = calls + 1 /\ calls < MaxCall /\ receipt' = None
      /\ UNCHANGED <<file, ledger, index, past, log, fetched, edits>>
  BY DEF Begin, world
<1>2. WorldInv' /\ LogInv' /\ ReceiptInv'
  BY <1>1, UntouchedLog, NoReceiptLeft DEF GateInv, WorldInv
<1>3. BoundInv'
  BY <1>1 DEF GateInv, BoundInv, GateConstants
<1>4. /\ {<<p, file[p]>> : p \in Path} \in SUBSET (Path \X (Content \cup {None}))
      /\ {index} \in SUBSET SUBSET Locator
  BY DEF GateInv, WorldInv
<1>5. call' \in CallRecord
  BY <1>1, <1>4 DEF CallRecord
<1>6. /\ call'.kind = c.kind /\ call'.cites = c.cites /\ call'.todo = c.todo
      /\ call'.checks = <<>> /\ call'.step = c.step
      /\ call'.files = {<<p, file[p]>> : p \in Path} /\ call'.indexes = {index}
  BY <1>1 DEF CallRecord
<1>7. c.kind = "eligibility" =>
        /\ Len(<<>>) + Len(c.todo) = Len(c.cites)
        /\ \A i \in 1..Len(c.todo) : c.todo[i] = c.cites[Len(<<>>) + i]
  BY DEF CallRecord
<1>8. CallTyped' /\ Checked'
  BY <1>5, <1>6 DEF CallTyped, Checked
<1>10. Witnessed'
  BY <1>1, <1>6 DEF Witnessed
<1>11. Tracked'
  BY <1>6 DEF Tracked
<1>9. Orderly'
  BY <1>6, <1>7 DEF Orderly
<1> QED BY <1>2, <1>3, <1>8, <1>9, <1>10, <1>11 DEF GateInv, CallInv

LEMMA NoCallType ==
    /\ NoCall \in CallRecord
    /\ NoCall.kind = "fetch" /\ NoCall.checks = <<>> /\ NoCall.step = "gate"
<1>1. <<>> \in Seq(Reference) /\ <<>> \in Seq(Check) /\ 0 \in Span /\ "gate" \in Step
  BY DEF Span, Step
<1>2. NoCall \in CallRecord
  BY <1>1 DEF NoCall, CallRecord
<1> QED BY <1>2 DEF NoCall

LEMMA CallsBeginInOrder ==
    ASSUME GateConstants, GateInv,
           \/ \E r \in Reference, context \in Context : Fetch(r, context)
           \/ \E claim \in Claim, cites \in Cites : CheckEligibility(claim, cites)
    PROVE  GateInv'
<1>1. ASSUME NEW r \in Reference, NEW context \in Context, Fetch(r, context)
      PROVE  GateInv'
  <2> DEFINE c == [NoCall EXCEPT !.todo = <<r>>, !.context = context]
  <2>1. Begin(c)
    BY <1>1 DEF Fetch
  <2>4. <<r>> \in Seq(Reference) /\ context \in Nat
    <3>1. context \in Nat
      BY DEF GateConstants
    <3> QED BY <3>1
  <2>2. c \in CallRecord
    BY <2>4, NoCallType DEF CallRecord
  <2>3. c.kind = "fetch" /\ c.checks = <<>> /\ c.step = "gate" /\ c.todo = <<r>>
    BY NoCallType DEF CallRecord
  <2>6. <<r>> # <<>>
    OBVIOUS
  <2> HIDE DEF c
  <2> QED BY <2>1, <2>2, <2>3, <2>6, BeginKeepsGateInv
<1>2. ASSUME NEW claim \in Claim, NEW cites \in Cites, CheckEligibility(claim, cites)
      PROVE  GateInv'
  <2> DEFINE s == IF cites = <<>> THEN "judge" ELSE "check"
             c == [NoCall EXCEPT !.kind = "eligibility", !.claim = claim, !.cites = cites,
                                 !.todo = cites, !.step = s]
  <2>1. Begin(c)
    BY <1>2 DEF CheckEligibility
  <2>2. cites \in Seq(Reference) /\ s \in Step
    BY DEF GateConstants, Step
  <2>3. c \in CallRecord
    BY <2>2, NoCallType DEF CallRecord
  <2>4. /\ c.kind = "eligibility" /\ c.checks = <<>> /\ c.step = s
        /\ c.todo = cites /\ c.cites = cites
    BY NoCallType DEF CallRecord
  <2> HIDE DEF c
  <2> QED BY <2>1, <2>3, <2>4, BeginKeepsGateInv
<1> QED BY <1>1, <1>2
-----------------------------------------------------------------------------
LEMMA SameRecord ==
    ASSUME NEW c \in CallRecord, NEW s
    PROVE  /\ [c EXCEPT !.step = s] = [c EXCEPT !.step = s, !.sha = c.sha, !.last = c.last]
           /\ c.sha \in Content \cup {None} /\ c.last \in Span /\ c.step \in Step
           /\ c.kind \in {"fetch", "eligibility"}
BY DEF CallRecord

LEMMA CheckReferenceKeepsGateInv == ASSUME GateInv, CheckReference PROVE GateInv'
<1>1. call # None /\ call.step = "check" /\ CallInv
  BY DEF CheckReference, GateInv
<1>2. call \in CallRecord
  BY <1>1, ReferenceAtHand
<1>3. CASE Raises
  BY <1>1, <1>3, RaisesKeepsGateInv
<1>4. CASE None \notin {ref.event, ref.sha, ref.last} /\ Proceeds([call EXCEPT !.step = "gate"])
  <2>1. Proceeds([call EXCEPT !.step = "gate", !.sha = call.sha, !.last = call.last])
    BY <1>2, <1>4, SameRecord
  <2>2. "gate" \in Step \ {"check", "judge"}
    BY DEF Step
  <2> QED BY <1>1, <1>2, <1>4, <2>1, <2>2, SameRecord, ProceedsKeepsGateInv
<1> QED BY <1>3, <1>4 DEF CheckReference

LEMMA PassGateKeepsGateInv == ASSUME GateInv, PassGate PROVE GateInv'
<1>1. call # None /\ call.step = "gate" /\ CallInv
  BY DEF PassGate, GateInv
<1>2. call \in CallRecord
  BY <1>1, ReferenceAtHand
<1>3. CASE Raises
  BY <1>1, <1>3, RaisesKeepsGateInv
<1>4. CASE Proceeds([call EXCEPT !.step = "hash"])
  <2>1. Proceeds([call EXCEPT !.step = "hash", !.sha = call.sha, !.last = call.last])
    BY <1>2, <1>4, SameRecord
  <2>2. "hash" \in Step \ {"check", "judge"}
    BY DEF Step
  <2>3. call.kind = "eligibility" => None \notin {ref.event, ref.sha, ref.last}
    BY <1>1 DEF CallInv, Tracked
  <2> QED BY <1>1, <1>2, <2>1, <2>2, <2>3, SameRecord, ProceedsKeepsGateInv
<1> QED BY <1>3, <1>4 DEF PassGate

(* The hash that is found is the registered one.                           *)
LEMMA FindHashKeepsGateInv == ASSUME GateConstants, GateInv, FindHash PROVE GateInv'
<1>1. call # None /\ call.step = "hash" /\ CallInv
  BY DEF FindHash, GateInv
<1>2. call \in CallRecord /\ ref \in Reference
  BY <1>1, ReferenceAtHand
<1>3. CASE Raises
  BY <1>1, <1>3, RaisesKeepsGateInv
<1>4. ASSUME NEW sha \in Hashes(ref.event, ref.path), ref.sha \in {None, sha},
             Proceeds([call EXCEPT !.step = "range", !.sha = sha])
      PROVE  GateInv'
  <2>1. [call EXCEPT !.step = "range", !.sha = sha]
          = [call EXCEPT !.step = "range", !.sha = sha, !.last = call.last]
    BY <1>2 DEF CallRecord
  <2>2. Proceeds([call EXCEPT !.step = "range", !.sha = sha, !.last = call.last])
    BY <1>4, <2>1
  <2>3. sha = Registered[ref.path]
    BY <1>4 DEF Hashes
  <2>4. sha \in Content \cup {None}
    BY <1>2, <2>3 DEF GateConstants
  <2>5. call.kind = "eligibility" =>
          None \notin {ref.event, ref.sha, ref.last} /\ sha = ref.sha
    BY <1>1, <1>4 DEF CallInv, Tracked
  <2>6. "range" \in Step \ {"check", "judge"}
    BY DEF Step
  <2> QED BY <1>1, <1>2, <2>2, <2>3, <2>4, <2>5, <2>6, SameRecord, ProceedsKeepsGateInv
<1> QED BY <1>3, <1>4 DEF FindHash

(* The range that is found is, for a complete reference, the one asked for.*)
LEMMA FindRangeKeepsGateInv == ASSUME GateConstants, GateInv, FindRange PROVE GateInv'
<1> DEFINE ends == IF ref.event # None THEN Ends
                   ELSE IF ref.last # None THEN {ref.last} ELSE {ref.first + DefaultSpan}
<1>1. call # None /\ call.step = "range" /\ CallInv
  BY DEF FindRange, GateInv
<1>2. call \in CallRecord /\ ref \in Reference
  BY <1>1, ReferenceAtHand
<1>3. CASE Raises
  BY <1>1, <1>3, RaisesKeepsGateInv
<1>4. ASSUME NEW last \in ends, Proceeds([call EXCEPT !.step = "read", !.last = last])
      PROVE  GateInv'
  <2>1. [call EXCEPT !.step = "read", !.last = last]
          = [call EXCEPT !.step = "read", !.sha = call.sha, !.last = last]
    BY <1>2 DEF CallRecord
  <2>2. Proceeds([call EXCEPT !.step = "read", !.sha = call.sha, !.last = last])
    BY <1>4, <2>1
  <2>3. index \subseteq Locator /\ index \in call.indexes
    BY <1>1 DEF GateInv, WorldInv, CallInv, Witnessed
  <2>4. last \in Span
    <3>1. CASE ref.event # None
      BY <1>4, <2>3, <3>1 DEF Ends, Span
    <3>2. CASE ref.event = None /\ ref.last # None
      BY <1>2, <1>4, <3>2 DEF Span
    <3>3. CASE ref.event = None /\ ref.last = None
      BY <1>2, <1>4, <3>3 DEF Span, GateConstants
    <3> QED BY <3>1, <3>2, <3>3
  <2>5. call.kind = "eligibility" =>
          /\ None \notin {ref.event, ref.sha, ref.last}
          /\ call.sha = ref.sha /\ ref.sha = Registered[ref.path]
    BY <1>1 DEF CallInv, Tracked
  <2>6. call.kind = "eligibility" => \E l \in UNION call.indexes : Locates(l, ref)
    BY <1>4, <2>3, <2>5 DEF Ends, Locates
  <2>7. "read" \in Step \ {"check", "judge"}
    BY DEF Step
  <2> HIDE DEF ends
  <2> QED BY <1>1, <1>2, <2>2, <2>4, <2>5, <2>6, <2>7, SameRecord, ProceedsKeepsGateInv
<1> QED BY <1>3, <1>4 DEF FindRange
-----------------------------------------------------------------------------
(* The log takes the next fetch while there is room.                       *)
LEMMA LogGrows ==
    ASSUME GateConstants, LogInv, NEW entry \in Entry,
           fetched' = Append(fetched, entry), log' = Logged(entry)
    PROVE  LogInv'
<1>1. /\ fetched \in Seq(Entry) /\ log \in Seq(Entry) /\ LogLimit \in Nat
      /\ Len(log) \in Nat /\ Len(fetched) \in Nat
      /\ Len(log) <= Len(fetched) /\ Len(log) <= LogLimit
      /\ Len(log) = Len(fetched) \/ Len(log) = LogLimit
      /\ \A i \in 1..Len(log) : log[i] = fetched[i]
  BY DEF LogInv, GateConstants
<1>2. /\ fetched' \in Seq(Entry) /\ Len(fetched') = Len(fetched) + 1
      /\ fetched'[Len(fetched) + 1] = entry
      /\ \A i \in 1..Len(fetched) : fetched'[i] = fetched[i]
  BY <1>1
<1>3. CASE Len(log) < LogLimit
  <2>1. log' = Append(log, entry) /\ Len(log) = Len(fetched)
    BY <1>1, <1>3 DEF Logged
  <2>2. /\ log' \in Seq(Entry) /\ Len(log') = Len(log) + 1
        /\ log'[Len(log) + 1] = entry
        /\ \A i \in 1..Len(log) : log'[i] = log[i]
    BY <1>1, <2>1
  <2>3. \A i \in 1..Len(log') : log'[i] = fetched'[i]
    BY <1>1, <1>2, <2>1, <2>2
  <2>4. Len(log') <= LogLimit /\ Len(log') = Len(fetched')
    BY <1>1, <1>2, <1>3, <2>1, <2>2
  <2> QED BY <1>2, <2>2, <2>3, <2>4 DEF LogInv
<1>4. CASE ~ Len(log) < LogLimit
  <2>1. log' = log
    BY <1>4 DEF Logged
  <2> QED BY <1>1, <1>2, <1>4, <2>1 DEF LogInv
<1> QED BY <1>3, <1>4

(* A check is verified when the file is, at this moment, what the index    *)
(* says of it.                                                             *)
LEMMA ReadFileKeepsGateInv == ASSUME GateConstants, GateInv, ReadFile PROVE GateInv'
<1> DEFINE c == file[ref.path]
           matched == c = call.sha
           last == IF ref.event = None /\ ref.last = None /\ c # None
                   THEN Min({call.last, Lines[c]}) ELSE call.last
           entry == [event |-> ref.event, path |-> ref.path, matched |-> matched]
           v == matched /\ ref.event # None /\ InFile(ref.first, last, c)
<1>1. call # None /\ call.step = "read" /\ CallInv
  BY DEF ReadFile, GateInv
<1>2. call \in CallRecord /\ ref \in Reference
  BY <1>1, ReferenceAtHand
<1>3. CASE Raises
  BY <1>1, <1>3, RaisesKeepsGateInv
<1>4. ASSUME log' = Logged(entry), fetched' = Append(fetched, entry), Done(v),
             UNCHANGED <<world, receipt, calls, edits>>
      PROVE  GateInv'
  <2>1. entry \in Entry
    BY <1>2 DEF Entry, GateConstants
  <2>2. LogInv'
    BY <1>4, <2>1, LogGrows DEF GateInv
  <2>3. v \in BOOLEAN
    BY DEF InFile
  <2>4. v /\ call.kind = "eligibility" => Grounded(ref, call)
    <3>1. call.kind = "eligibility" =>
            /\ call.sha = ref.sha /\ ref.sha = Registered[ref.path]
            /\ \E l \in UNION call.indexes : Locates(l, ref)
      BY <1>1 DEF CallInv, Tracked
    <3>2. ref.path \in Path /\ <<ref.path, file[ref.path]>> \in call.files
      BY <1>1, <1>2 DEF GateConstants, CallInv, Witnessed
    <3> QED BY <3>1, <3>2 DEF Grounded, Intact
  <2>5. CallInv'
    <3> HIDE DEF v
    <3> QED BY <1>1, <1>4, <2>3, <2>4, DoneKeepsCallInv DEF world
  <2>6. ReceiptInv'
    BY <1>1, <1>4, NoReceiptLeft DEF GateInv, ReceiptInv
  <2>7. WorldInv' /\ BoundInv'
    BY <1>4 DEF GateInv, WorldInv, BoundInv, world
  <2> QED BY <2>2, <2>5, <2>6, <2>7 DEF GateInv
<1> QED BY <1>3, <1>4 DEF ReadFile
-----------------------------------------------------------------------------
(* Only a claim with every check verified, with enough events and without  *)
(* an omitted mismatch is found eligible.                                  *)
LEMMA EligibleVerdict ==
    ASSUME NEW claim, NEW checks, NEW entries, NEW cites,
           Verdict(claim, checks, entries, cites) = "eligible"
    PROVE  /\ \A i \in DOMAIN checks : checks[i].verified
           /\ Cardinality({checks[i].event : i \in DOMAIN checks} \ {None}) >= Minimum(claim)
           /\ Omitted(entries, cites) = {}
<1>1. Status(claim, checks) = "eligible" /\ Omitted(entries, cites) = {}
  BY DEF Verdict
<1> QED BY <1>1 DEF Status

LEMMA JudgeKeepsGateInv == ASSUME GateConstants, GateInv, Judge PROVE GateInv'
<1>1. /\ call # None /\ call.step = "judge" /\ call' = None
      /\ receipt' = [answers |-> call,
                     status |-> Verdict(call.claim, call.checks, log, call.cites)]
      /\ UNCHANGED <<file, ledger, index, past, log, fetched, calls, edits>>
  BY DEF Judge, world
<1>2. WorldInv' /\ CallInv' /\ LogInv' /\ BoundInv'
  BY <1>1, NoCallLeft, UntouchedLog DEF GateInv, WorldInv, BoundInv
<1>3. /\ call.kind = "eligibility" /\ call \in CallRecord
      /\ Len(call.todo) = 0 /\ Len(call.checks) + Len(call.todo) = Len(call.cites)
  BY <1>1 DEF GateInv, CallInv, CallTyped, Orderly
<1>4. /\ call.checks \in Seq(Check) /\ call.cites \in Seq(Reference)
      /\ Len(call.checks) = Len(call.cites)
      /\ DOMAIN call.checks = 1..Len(call.checks) /\ DOMAIN call.cites = 1..Len(call.checks)
  BY <1>3 DEF CallRecord
<1>5. ASSUME receipt'.status = "eligible"
      PROVE  /\ \A r \in Cited(call) : Grounded(r, call)
             /\ Cardinality({r.event : r \in Cited(call)}) >= Minimum(call.claim)
             /\ Omitted(log, call.cites) = {}
  <2>1. /\ \A i \in DOMAIN call.checks : call.checks[i].verified
        /\ Cardinality({call.checks[i].event : i \in DOMAIN call.checks} \ {None})
             >= Minimum(call.claim)
        /\ Omitted(log, call.cites) = {}
    BY <1>1, <1>5, EligibleVerdict
  <2>2. \A i \in DOMAIN call.cites : /\ call.checks[i].event = call.cites[i].event
                                     /\ Grounded(call.cites[i], call)
    BY <1>1, <1>3, <1>4, <2>1 DEF GateInv, CallInv, Checked
  <2>3. \A r \in Cited(call) : Grounded(r, call)
    BY <2>2 DEF Cited, Range
  <2>4. {call.checks[i].event : i \in DOMAIN call.checks} \ {None}
          = {r.event : r \in Cited(call)}
    <3> DEFINE events == {call.cites[i].event : i \in DOMAIN call.cites}
    <3>1. {call.checks[i].event : i \in DOMAIN call.checks} = events
      BY <1>4, <2>2
    <3>2. None \notin events
      BY <2>2 DEF Grounded
    <3>3. {r.event : r \in Cited(call)} = events
      BY DEF Cited, Range
    <3> QED BY <3>1, <3>2, <3>3
  <2> QED BY <2>1, <2>3, <2>4
<1>6. EligibleIsGrounded'
  BY <1>1, <1>5 DEF EligibleIsGrounded, Grounded
<1>7. MismatchIsNotDropped'
  <2> SUFFICES ASSUME receipt'.status = "eligible",
                      NEW i \in 1..Min({Len(fetched), LogLimit}), ~ fetched[i].matched
               PROVE  \E r \in Cited(call) : r.event # None /\ r.event = fetched[i].event
    BY <1>1 DEF MismatchIsNotDropped
  <2>1. i \in 1..Len(log) /\ log[i] = fetched[i] /\ log \in Seq(Entry)
    BY LogReaches DEF GateInv, LogInv
  <2>2. log[i] \in Range(log) /\ ~ log[i].matched
    BY <2>1 DEF Range
  <2>3. PICK r \in Range(call.cites) :
           IF log[i].event # None THEN r.event = log[i].event
           ELSE r.event = None /\ r.path = log[i].path
    BY <1>5, <2>2 DEF Omitted
  <2>4. r \in Cited(call) /\ r.event # None
    BY <1>5, <2>3 DEF Cited, Grounded
  <2> QED BY <2>1, <2>3, <2>4
<1>8. receipt'.status \in {"not_required", "eligible", "blocked"}
  BY <1>1 DEF Verdict, Status
<1>9. ReceiptInv'
  BY <1>1, <1>6, <1>7, <1>8 DEF ReceiptInv
<1> QED BY <1>2, <1>9 DEF GateInv
-----------------------------------------------------------------------------
LEMMA GateInvStep == ASSUME GateConstants, GateInv, [Next]_vars PROVE GateInv'
<1>1. CASE UNCHANGED vars
  <2>1. UNCHANGED <<file, ledger, index, past, call, log, receipt, fetched, calls, edits>>
    BY <1>1 DEF vars, world
  <2> QED BY <2>1, UntouchedCall, UntouchedLog, UntouchedReceipt
          DEF GateInv, WorldInv, BoundInv
<1>2. CASE Next
  <2>1. CASE \/ \E p \in Path, c \in Content \cup {None} : EditFile(p, c)
             \/ Record \/ Restart
             \/ \E l \in past : Publish(l)
    BY <2>1, WorldStepsKeepGateInv
  <2>2. CASE \/ \E r \in Reference, context \in Context : Fetch(r, context)
             \/ \E claim \in Claim, cites \in Cites : CheckEligibility(claim, cites)
    BY <2>2, CallsBeginInOrder
  <2>3. CASE CheckReference
    BY <2>3, CheckReferenceKeepsGateInv
  <2>4. CASE PassGate
    BY <2>4, PassGateKeepsGateInv
  <2>5. CASE FindHash
    BY <2>5, FindHashKeepsGateInv
  <2>6. CASE FindRange
    BY <2>6, FindRangeKeepsGateInv
  <2>7. CASE ReadFile
    BY <2>7, ReadFileKeepsGateInv
  <2>8. CASE Judge
    BY <2>8, JudgeKeepsGateInv
  <2> QED BY <1>2, <2>1, <2>2, <2>3, <2>4, <2>5, <2>6, <2>7, <2>8 DEF Next
<1> QED BY <1>1, <1>2

LEMMA GateInvHolds == Spec => []GateInv
<1>1. Init => GateInv
  BY GateInvInit, GateConstants
<1>2. GateInv /\ [Next]_vars => GateInv'
  BY GateInvStep, GateConstants
<1> QED BY <1>1, <1>2, PTL DEF Spec

LEMMA GateInvTypes == ASSUME GateConstants, GateInv PROVE TypeOK
<1>1. Len(log) = Min({Len(fetched), LogLimit})
  BY LogReaches DEF GateInv
<1>2. log = SubSeq(fetched, 1, Len(log))
  <2>1. /\ log \in Seq(Entry) /\ fetched \in Seq(Entry) /\ Len(log) \in Nat
        /\ Len(log) <= Len(fetched) /\ \A i \in 1..Len(log) : log[i] = fetched[i]
    BY DEF GateInv, LogInv
  <2>2. /\ SubSeq(fetched, 1, Len(log)) \in Seq(Entry)
        /\ Len(SubSeq(fetched, 1, Len(log))) = Len(log)
        /\ \A i \in 1..Len(log) : SubSeq(fetched, 1, Len(log))[i] = fetched[i]
    BY <2>1
  <2> QED BY <2>1, <2>2, SeqEqual
<1>3. call # None => /\ call.step \in Step /\ call.sha \in Content \cup {None}
                     /\ call.todo \in Seq(Reference)
  BY DEF GateInv, CallInv, CallTyped, CallRecord
<1> QED BY <1>1, <1>2, <1>3 DEF GateInv, WorldInv, LogInv, ReceiptInv, BoundInv, TypeOK

(* Types, for any files, records, claims, limits and numbers of calls; the *)
(* session log is the beginning of what was answered, as far as its limit. *)
THEOREM SessionTypeCorrect == Spec => []TypeOK
<1>1. GateInv => TypeOK
  BY GateInvTypes, GateConstants
<1> QED BY <1>1, GateInvHolds, PTL

(* However files, records and publications change between the steps of a   *)
(* call, an eligible receipt rests on locators of an index of the call, on *)
(* registered hashes, and on files that had this content during the call.  *)
THEOREM EligibleIsAlwaysGrounded == Spec => []EligibleIsGrounded
<1>1. GateInv => EligibleIsGrounded
  BY DEF GateInv, ReceiptInv
<1> QED BY <1>1, GateInvHolds, PTL

(* No mismatch the session log could hold is left out of a claim that is   *)
(* found eligible.                                                         *)
THEOREM MismatchIsNeverDropped == Spec => []MismatchIsNotDropped
<1>1. GateInv => MismatchIsNotDropped
  BY DEF GateInv, ReceiptInv
<1> QED BY <1>1, GateInvHolds, PTL
-----------------------------------------------------------------------------
(* No false alarm.  What a clean claim cites, and the call that judges it. *)

CleanReference(r, c) ==
    /\ \E l \in ledger : Locates(l, r)
    /\ r.sha = Registered[r.path]
    /\ r.first \in 1..r.last
    /\ r.last - r.first < MaxFetchLines
    /\ Intact(r, c)

CleanCall(c) ==
    /\ c.kind = "eligibility"
    /\ c.indexes = {ledger} /\ Cardinality(c.files) = Cardinality(Path)
    /\ \A r \in Cited(c) : CleanReference(r, c)

(* There are two ledgers, the second after the first.                      *)
PastInv == ledger \in {Locator \ Late, Locator} /\ past = {Locator \ Late, ledger}

(* Nothing fails, so far, in a call of a clean claim.                      *)
CleanInv ==
    /\ PastInv
    /\ call # None =>
         /\ call.indexes \subseteq past /\ IsFiniteSet(call.files)
         /\ call.kind = "eligibility" =>
              call.context = 0 /\ (call.step = "read" => call.last = ref.last)
         /\ CleanCall(call) => \A i \in 1..Len(call.checks) : call.checks[i].verified
    /\ receipt # None => receipt.answers.indexes \subseteq past
    /\ CleanClaimIsEligible

(* As many pairs as files: each file had one content.                      *)
LEMMA OneContentEach ==
    ASSUME NEW f, NEW F, IsFiniteSet(F), Cardinality(F) = Cardinality(Path),
           \A p \in Path : <<p, f[p]>> \in F
    PROVE  \A x \in F : \E p \in Path : x = <<p, f[p]>>
<1> DEFINE pair == [p \in Path |-> <<p, f[p]>>]
<1>1. pair \in Injection(Path, F)
  BY DEF Injection, IsInjective
<1>2. pair \in Surjection(Path, F)
  BY <1>1, FS_Injection
<1> QED
  BY <1>2 DEF Surjection

LEMMA GraphIsFinite ==
    ASSUME GateConstants
    PROVE  IsFiniteSet({<<p, file[p]>> : p \in Path})
<1> DEFINE F == {<<p, file[p]>> : p \in Path}
           f == [p \in Path |-> <<p, file[p]>>]
<1>1. f \in Surjection(Path, F)
  BY DEF Surjection
<1> HIDE DEF F
<1>2. IsFiniteSet(F)
  BY <1>1, FS_Surjection DEF GateConstants
<1> QED
  BY <1>2 DEF F

(* The reference at hand in the call of a clean claim.                     *)
LEMMA CleanAtHand ==
    ASSUME GateConstants, GateInv, CleanInv, call # None, call.step # "judge", CleanCall(call)
    PROVE  /\ None \notin {ref.event, ref.sha, ref.last}
           /\ index = ledger /\ \E l \in index : Locates(l, ref)
           /\ ref.sha = Registered[ref.path]
           /\ {ref.first, ref.last} \subseteq Nat
           /\ ref.first \in 1..ref.last /\ ref.last - ref.first < MaxFetchLines
           /\ ref.last <= Lines[ref.sha]
           /\ file[ref.path] = ref.sha
<1>1. /\ call \in CallRecord /\ call.todo \in Seq(Reference) /\ Len(call.todo) \in Nat \ {0}
      /\ ref \in Reference /\ ref = call.cites[Len(call.checks) + 1]
  BY ReferenceAtHand DEF GateInv, CleanCall
<1>2. ref \in Cited(call)
  <2>1. /\ call.cites \in Seq(Reference) /\ call.checks \in Seq(Check)
        /\ Len(call.checks) + Len(call.todo) = Len(call.cites)
    BY <1>1 DEF GateInv, CallInv, Orderly, CleanCall, CallRecord
  <2>2. Len(call.checks) + 1 \in DOMAIN call.cites
    <3> DEFINE a == Len(call.checks) b == Len(call.todo) n == Len(call.cites)
    <3>1. a \in Nat /\ n \in Nat
      BY <2>1, LenProperties
    <3>3. b \in Nat \ {0} /\ a + b = n
      BY <1>1, <2>1
    <3> HIDE DEF a, b, n
    <3>2. a + 1 \in 1..n
      BY <3>1, <3>3
    <3> QED BY <2>1, <3>2 DEF a, n
  <2> QED BY <1>1, <2>2 DEF Cited, Range
<1>3. CleanReference(ref, call)
  BY <1>2 DEF CleanCall
<1>4. index = ledger
  BY DEF GateInv, CallInv, Witnessed, CleanCall
<1>5. PICK l \in ledger : Locates(l, ref)
  BY <1>3 DEF CleanReference
<1>6. l \in Locator
  BY DEF GateInv, WorldInv
<1>7. /\ ref.event = l.event /\ ref.path = l.path /\ ref.sha = l.sha
      /\ ref.first = l.first /\ ref.last = l.last
  BY <1>5 DEF Locates
<1>8. /\ l.path \in Path /\ l.sha \in Content /\ None \notin {l.event, l.last}
      /\ {l.first, l.last} \subseteq Nat /\ None \notin Content
      /\ l.sha = Registered[l.path] /\ l.first \in 1..l.last => l.last <= Lines[l.sha]
  BY <1>6 DEF GateConstants
<1>9. ref.sha = Registered[ref.path] /\ ref.first \in 1..ref.last
      /\ ref.last - ref.first < MaxFetchLines /\ <<ref.path, ref.sha>> \in call.files
  BY <1>3 DEF CleanReference, Intact
<1>10. file[ref.path] = ref.sha
  <2>1. \A x \in call.files : \E p \in Path : x = <<p, file[p]>>
    BY OneContentEach DEF GateInv, CallInv, Witnessed, CleanCall, CleanInv
  <2>2. PICK p \in Path : <<ref.path, ref.sha>> = <<p, file[p]>>
    BY <1>9, <2>1
  <2> QED BY <2>2
<1> QED
  BY <1>4, <1>5, <1>7, <1>8, <1>9, <1>10

(* A step inside the treatment of one reference.                           *)
LEMMA ProceedsKeepsClean ==
    ASSUME GateInv, CleanInv, call # None, call.step # "judge",
           NEW s, NEW h, NEW n, Proceeds([call EXCEPT !.step = s, !.sha = h, !.last = n]),
           call.kind = "eligibility" /\ s = "read" => n = ref.last
    PROVE  CleanInv'
<1>1. call \in CallRecord
  BY ReferenceAtHand DEF GateInv
<1>2. /\ call' = [call EXCEPT !.step = s, !.sha = h, !.last = n]
      /\ UNCHANGED <<ledger, past, file, index, receipt, fetched>>
  BY DEF Proceeds, world
<1>3. /\ UNCHANGED <<call.kind, call.indexes, call.files, call.cites, call.todo, call.checks,
                     call.context>>
      /\ call'.step = s /\ call'.last = n
  BY <1>1, <1>2 DEF CallRecord
<1>4. CleanCall(call)' => CleanCall(call)
  BY <1>2, <1>3 DEF CleanCall, CleanReference, Cited, Intact
<1>5. ref' = ref
  BY <1>3 DEF ref
<1>6. receipt = None
  BY DEF GateInv, ReceiptInv
<1>7. PastInv' /\ CleanClaimIsEligible'
  BY <1>2, <1>6 DEF CleanInv, PastInv, CleanClaimIsEligible
<1> QED
  BY <1>2, <1>3, <1>4, <1>5, <1>6, <1>7 DEF CleanInv

(* The end of a reference.                                                 *)
LEMMA DoneKeepsClean ==
    ASSUME GateInv, CleanInv, call # None, call.step # "judge",
           NEW v, Done(v), CleanCall(call) => v, UNCHANGED <<ledger, past, receipt>>
    PROVE  CleanInv'
<1>1. receipt = None
  BY DEF GateInv, ReceiptInv
<1>2. PastInv' /\ CleanClaimIsEligible'
  BY <1>1 DEF CleanInv, PastInv, CleanClaimIsEligible
<1>3. CASE call.kind = "fetch"
  BY <1>1, <1>2, <1>3 DEF Done, CleanInv
<1>4. CASE call.kind # "fetch"
  <2> DEFINE check == [event |-> ref.event, path |-> ref.path, sha |-> ref.sha, verified |-> v]
             s == IF Len(call.todo) = 1 THEN "judge" ELSE "check"
  <2>1. call \in CallRecord /\ call.checks \in Seq(Check)
    BY ReferenceAtHand DEF GateInv, CallRecord
  <2>2. call' = [call EXCEPT !.todo = Tail(@), !.checks = Append(@, check), !.step = s]
    BY <1>4 DEF Done
  <2>3. /\ UNCHANGED <<call.kind, call.indexes, call.files, call.cites, call.context>>
        /\ call'.step = s /\ call'.checks = Append(call.checks, check)
    BY <2>1, <2>2 DEF CallRecord
  <2>4. check.verified = v /\ s # "read"
    OBVIOUS
  <2> HIDE DEF check, s
  <2>5. CleanCall(call)' => CleanCall(call)
    BY <2>3 DEF CleanCall, CleanReference, Cited, Intact
  <2>6. ASSUME CleanCall(call)', NEW i \in 1..Len(call'.checks) PROVE call'.checks[i].verified
    <3>1. CleanCall(call) /\ check.verified
      BY <2>4, <2>5, <2>6
    <3>2. call.checks \in Seq(Check \cup {check}) /\ check \in Check \cup {check}
      BY <2>1
    <3>3. /\ Len(call'.checks) = Len(call.checks) + 1 /\ Len(call.checks) \in Nat
          /\ call'.checks[Len(call.checks) + 1] = check
          /\ \A j \in 1..Len(call.checks) : call'.checks[j] = call.checks[j]
      BY <2>3, <3>2, AppendProperties
    <3>4. i = Len(call.checks) + 1 \/ i \in 1..Len(call.checks)
      BY <2>6, <3>3
    <3> QED BY <3>1, <3>3, <3>4 DEF CleanInv
  <2> QED BY <1>1, <1>2, <2>3, <2>4, <2>6 DEF CleanInv
<1> QED BY <1>3, <1>4

LEMMA RaisesKeepsClean ==
    ASSUME GateInv, CleanInv, call # None, call.step # "judge", Raises, ~ CleanCall(call)
    PROVE  CleanInv'
BY DoneKeepsClean DEF Raises, world

LEMMA CleanInvInit == ASSUME GateConstants, Init PROVE CleanInv
BY DEF Init, CleanInv, PastInv, CleanClaimIsEligible

(* What happens around a call spoils a clean one or leaves it alone.       *)
LEMMA WitnessKeepsClean ==
    ASSUME GateInv, CleanInv, call # None, NEW F, NEW I, Witness(F, I),
           IsFiniteSet(F), I \subseteq past, ~ CleanCall(call)',
           UNCHANGED <<ledger, past, receipt, fetched>>
    PROVE  CleanInv'
<1>1. call \in CallRecord
  BY DEF GateInv, CallInv, CallTyped
<1>2. call' = [call EXCEPT !.files = @ \cup F, !.indexes = @ \cup I]
  BY DEF Witness
<1>3. /\ UNCHANGED <<call.kind, call.todo, call.context, call.step, call.last>>
      /\ call'.files = call.files \cup F /\ call'.indexes = call.indexes \cup I
  BY <1>1, <1>2 DEF CallRecord
<1>4. ref' = ref
  BY <1>3 DEF ref
<1>5. IsFiniteSet(call'.files) /\ call'.indexes \subseteq past
  BY <1>3, FS_Union DEF CleanInv
<1>6. receipt = None
  BY DEF GateInv, ReceiptInv
<1>7. PastInv' /\ CleanClaimIsEligible'
  BY <1>6 DEF CleanInv, PastInv, CleanClaimIsEligible
<1> QED
  BY <1>3, <1>4, <1>5, <1>6, <1>7 DEF CleanInv

LEMMA NoCallKeepsClean ==
    ASSUME CleanInv, call' = None, UNCHANGED <<ledger, past, receipt, fetched>>
    PROVE  CleanInv'
BY DEF CleanInv, PastInv, CleanClaimIsEligible

LEMMA WorldStepsKeepClean ==
    ASSUME GateConstants, GateInv, GateInv', CleanInv,
           \/ \E p \in Path, c \in Content \cup {None} : EditFile(p, c)
           \/ Record \/ Restart
           \/ \E l \in past : Publish(l)
    PROVE  CleanInv'
<1>1. ASSUME NEW p \in Path, NEW c \in Content \cup {None}, EditFile(p, c)
      PROVE  CleanInv'
  <2>1. /\ c # file[p] /\ file' = [file EXCEPT ![p] = c] /\ Witness({<<p, c>>}, {})
        /\ UNCHANGED <<ledger, index, past, receipt, fetched>>
    BY <1>1 DEF EditFile
  <2>2. CASE call = None
    BY <2>1, <2>2, NoCallKeepsClean DEF Witness
  <2>3. CASE call # None
    <3>1. call \in CallRecord
      BY <2>3 DEF GateInv, CallInv, CallTyped
    <3>2. call' = [call EXCEPT !.files = @ \cup {<<p, c>>}, !.indexes = @ \cup {}]
      BY <2>1, <2>3 DEF Witness
    <3>3. call'.files = call.files \cup {<<p, c>>}
      BY <3>1, <3>2 DEF CallRecord
    <3>4. \A q \in Path : <<q, file[q]>> \in call.files
      BY <2>3 DEF GateInv, CallInv, Witnessed
    <3>5. IsFiniteSet(call'.files)
      <4>1. IsFiniteSet(call.files)
        BY <2>3 DEF CleanInv
      <4>2. IsFiniteSet({<<p, c>>})
        BY FS_Singleton
      <4>3. IsFiniteSet(call.files \cup {<<p, c>>})
        BY <4>1, <4>2, FS_Union
      <4> QED BY <3>3, <4>3
    <3>6. ASSUME CleanCall(call)' PROVE FALSE
      <4>1. Cardinality(call'.files) = Cardinality(Path)
        BY <3>6 DEF CleanCall
      <4>2. \A x \in call'.files : \E q \in Path : x = <<q, file[q]>>
        BY <3>3, <3>4, <3>5, <4>1, OneContentEach
      <4>3. PICK q \in Path : <<p, c>> = <<q, file[q]>>
        BY <3>3, <4>2
      <4> QED BY <2>1, <4>3
    <3>7. IsFiniteSet({<<p, c>>})
      BY FS_Singleton
    <3> QED BY <2>1, <2>3, <3>6, <3>7, WitnessKeepsClean
  <2> QED BY <2>2, <2>3
<1>2. ASSUME Record PROVE CleanInv'
  <2>1. /\ ledger # Locator /\ ledger' = Locator /\ past' = past \cup {Locator}
        /\ UNCHANGED <<file, index, call, receipt, fetched>>
    BY <1>2 DEF Record
  <2>2. ledger = Locator \ Late /\ past = {ledger} /\ Locator \notin past
    BY <2>1 DEF CleanInv, PastInv
  <2>3. PastInv'
    BY <2>1, <2>2 DEF PastInv
  <2>4. ref' = ref
    BY <2>1 DEF ref
  <2>5. call # None => ~ CleanCall(call)'
    BY <2>1, <2>2 DEF CleanCall, CleanInv
  <2>6. CleanClaimIsEligible'
    <3>1. receipt # None => receipt'.answers.indexes # {ledger'}
      BY <2>1, <2>2 DEF CleanInv
    <3> QED BY <2>1, <3>1 DEF CleanClaimIsEligible
  <2> QED BY <2>1, <2>3, <2>4, <2>5, <2>6 DEF CleanInv
<1>3. ASSUME Restart PROVE CleanInv'
  BY <1>3 DEF Restart, world, CleanInv, PastInv, CleanClaimIsEligible
<1>4. ASSUME NEW l \in past, Publish(l) PROVE CleanInv'
  <2>1. /\ l # index /\ Witness({}, {l}) /\ UNCHANGED <<file, ledger, past, receipt, fetched>>
    BY <1>4 DEF Publish
  <2>2. CASE call = None
    BY <2>1, <2>2, NoCallKeepsClean DEF Witness
  <2>3. CASE call # None
    <3>1. call \in CallRecord
      BY <2>3 DEF GateInv, CallInv, CallTyped
    <3>2. call' = [call EXCEPT !.files = @ \cup {}, !.indexes = @ \cup {l}]
      BY <2>1, <2>3 DEF Witness
    <3>3. call'.indexes = call.indexes \cup {l}
      BY <3>1, <3>2 DEF CallRecord
    <3>4. index \in call.indexes
      BY <2>3 DEF GateInv, CallInv, Witnessed
    <3>5. ~ CleanCall(call)'
      <4>1. l \in call'.indexes /\ index \in call'.indexes
        BY <3>3, <3>4
      <4>2. CleanCall(call)' => call'.indexes = {ledger'}
        BY DEF CleanCall
      <4> QED BY <2>1, <4>1, <4>2
    <3>6. IsFiniteSet({})
      BY FS_EmptySet
    <3> QED BY <2>1, <2>3, <3>5, <3>6, WitnessKeepsClean
  <2> QED BY <2>2, <2>3
<1> QED BY <1>1, <1>2, <1>3, <1>4

(* A call begins with the files and the index as they are.                 *)
LEMMA BeginKeepsClean ==
    ASSUME GateConstants, GateInv, CleanInv, NEW c \in CallRecord, Begin(c), c.checks = <<>>,
           c.kind = "eligibility" => c.context = 0 /\ c.step # "read"
    PROVE  CleanInv'
<1>1. /\ call' = [c EXCEPT !.files = {<<p, file[p]>> : p \in Path}, !.indexes = {index}]
      /\ receipt' = None /\ UNCHANGED <<ledger, past, fetched>>
  BY DEF Begin, world
<1>2. /\ call'.kind = c.kind /\ call'.context = c.context /\ call'.step = c.step
      /\ call'.checks = <<>> /\ call'.indexes = {index}
      /\ call'.files = {<<p, file[p]>> : p \in Path}
  BY <1>1 DEF CallRecord
<1>3. IsFiniteSet(call'.files) /\ call'.indexes \subseteq past
  BY <1>2, GraphIsFinite DEF GateInv, WorldInv
<1>4. PastInv' /\ CleanClaimIsEligible'
  BY <1>1 DEF CleanInv, PastInv, CleanClaimIsEligible
<1>5. 1..Len(call'.checks) = {}
  BY <1>2
<1> QED
  BY <1>1, <1>2, <1>3, <1>4, <1>5 DEF CleanInv

LEMMA CallsBeginClean ==
    ASSUME GateConstants, GateInv, CleanInv,
           \/ \E r \in Reference, context \in Context : Fetch(r, context)
           \/ \E claim \in Claim, cites \in Cites : CheckEligibility(claim, cites)
    PROVE  CleanInv'
<1>1. ASSUME NEW r \in Reference, NEW context \in Context, Fetch(r, context)
      PROVE  CleanInv'
  <2> DEFINE c == [NoCall EXCEPT !.todo = <<r>>, !.context = context]
  <2>1. Begin(c)
    BY <1>1 DEF Fetch
  <2>2. context \in Nat
    BY DEF GateConstants
  <2>3. <<r>> \in Seq(Reference)
    OBVIOUS
  <2>4. c \in CallRecord
    BY <2>2, <2>3, NoCallType DEF CallRecord
  <2>5. c.kind = "fetch" /\ c.checks = <<>>
    BY NoCallType DEF CallRecord
  <2> HIDE DEF c
  <2> QED BY <2>1, <2>4, <2>5, BeginKeepsClean
<1>2. ASSUME NEW claim \in Claim, NEW cites \in Cites, CheckEligibility(claim, cites)
      PROVE  CleanInv'
  <2> DEFINE s == IF cites = <<>> THEN "judge" ELSE "check"
             c == [NoCall EXCEPT !.kind = "eligibility", !.claim = claim, !.cites = cites,
                                 !.todo = cites, !.step = s]
  <2>1. Begin(c)
    BY <1>2 DEF CheckEligibility
  <2>2. cites \in Seq(Reference) /\ s \in Step \ {"read"}
    BY DEF GateConstants, Step
  <2>3. c \in CallRecord
    BY <2>2, NoCallType DEF CallRecord
  <2>4. c.checks = <<>> /\ c.step = s /\ c.context = 0
    BY NoCallType DEF CallRecord, NoCall
  <2> HIDE DEF c, s
  <2> QED BY <2>1, <2>2, <2>3, <2>4, BeginKeepsClean
<1> QED BY <1>1, <1>2
-----------------------------------------------------------------------------
(* No step of the treatment of a reference fails in a clean call.          *)
LEMMA CheckReferenceKeepsClean ==
    ASSUME GateConstants, GateInv, CleanInv, CheckReference
    PROVE  CleanInv'
<1>1. call # None /\ call.step = "check" /\ call.step # "judge"
  BY DEF CheckReference
<1>2. call \in CallRecord
  BY <1>1, ReferenceAtHand DEF GateInv
<1>3. CASE Raises /\ (None \in {ref.event, ref.sha, ref.last} \/ ref.last < ref.first)
  <2>1. ~ CleanCall(call)
    BY <1>1, <1>3, CleanAtHand
  <2> QED BY <1>1, <1>3, <2>1, RaisesKeepsClean
<1>4. CASE Proceeds([call EXCEPT !.step = "gate"])
  <2>1. Proceeds([call EXCEPT !.step = "gate", !.sha = call.sha, !.last = call.last])
    BY <1>2, <1>4, SameRecord
  <2> QED BY <1>1, <2>1, ProceedsKeepsClean
<1> QED BY <1>3, <1>4 DEF CheckReference

LEMMA PassGateKeepsClean ==
    ASSUME GateConstants, GateInv, CleanInv, PassGate
    PROVE  CleanInv'
<1>1. call # None /\ call.step = "gate" /\ call.step # "judge"
  BY DEF PassGate
<1>2. call \in CallRecord
  BY <1>1, ReferenceAtHand DEF GateInv
<1>3. CASE Raises /\ index # ledger
  <2>1. ~ CleanCall(call)
    BY <1>1, <1>3, CleanAtHand
  <2> QED BY <1>1, <1>3, <2>1, RaisesKeepsClean
<1>4. CASE Proceeds([call EXCEPT !.step = "hash"])
  <2>1. Proceeds([call EXCEPT !.step = "hash", !.sha = call.sha, !.last = call.last])
    BY <1>2, <1>4, SameRecord
  <2> QED BY <1>1, <2>1, ProceedsKeepsClean
<1> QED BY <1>3, <1>4 DEF PassGate

LEMMA FindHashKeepsClean ==
    ASSUME GateConstants, GateInv, CleanInv, FindHash
    PROVE  CleanInv'
<1>1. call # None /\ call.step = "hash" /\ call.step # "judge"
  BY DEF FindHash
<1>2. call \in CallRecord
  BY <1>1, ReferenceAtHand DEF GateInv
<1>3. CASE Raises /\ ~ (ref.sha # None /\ ref.sha \in Hashes(ref.event, ref.path))
  <2>1. ASSUME CleanCall(call) PROVE FALSE
    <3>1. /\ None \notin {ref.event, ref.sha} /\ ref.sha = Registered[ref.path]
          /\ \E l \in index : Locates(l, ref)
      BY <1>1, <2>1, CleanAtHand
    <3>2. ref.sha \in Hashes(ref.event, ref.path)
      BY <3>1 DEF Hashes, Locates
    <3> QED BY <1>3, <3>1, <3>2
  <2> QED BY <1>1, <1>3, <2>1, RaisesKeepsClean
<1>4. ASSUME NEW sha, Proceeds([call EXCEPT !.step = "range", !.sha = sha])
      PROVE  CleanInv'
  <2>1. [call EXCEPT !.step = "range", !.sha = sha]
          = [call EXCEPT !.step = "range", !.sha = sha, !.last = call.last]
    BY <1>2 DEF CallRecord
  <2>2. Proceeds([call EXCEPT !.step = "range", !.sha = sha, !.last = call.last])
    BY <1>4, <2>1
  <2> QED BY <1>1, <2>2, ProceedsKeepsClean
<1> QED BY <1>3, <1>4 DEF FindHash

LEMMA FindRangeKeepsClean ==
    ASSUME GateConstants, GateInv, CleanInv, FindRange
    PROVE  CleanInv'
<1> DEFINE ends == IF ref.event # None THEN Ends
                   ELSE IF ref.last # None THEN {ref.last} ELSE {ref.first + DefaultSpan}
           start == IF ref.first > call.context THEN ref.first - call.context ELSE 1
           fits == /\ Cardinality(ends) = 1
                   /\ \A last \in ends : /\ last >= ref.first
                                         /\ last + call.context - start < MaxFetchLines
<1>1. call # None /\ call.step = "range" /\ call.step # "judge"
  BY DEF FindRange
<1>2. call \in CallRecord
  BY <1>1, ReferenceAtHand DEF GateInv
<1>3. call.kind = "eligibility" => ends \subseteq {ref.last}
  <2>1. call.kind = "eligibility" => None \notin {ref.event, ref.last}
    BY <1>1 DEF GateInv, CallInv, Tracked
  <2> QED BY <2>1 DEF Ends
<1>4. CASE Raises /\ ~ fits
  <2>1. ASSUME CleanCall(call) PROVE FALSE
    <3>1. /\ None \notin {ref.event, ref.sha, ref.last} /\ \E l \in index : Locates(l, ref)
          /\ {ref.first, ref.last} \subseteq Nat
          /\ ref.first \in 1..ref.last /\ ref.last - ref.first < MaxFetchLines
      BY <1>1, <2>1, CleanAtHand
    <3>2. call.kind = "eligibility" /\ call.context = 0
      BY <1>1, <2>1 DEF CleanCall, CleanInv
    <3>3. call.sha = ref.sha
      BY <1>1, <3>2 DEF GateInv, CallInv, Tracked
    <3>4. ref.last \in ends
      BY <3>1, <3>3 DEF Ends, Locates
    <3>5. ends = {ref.last}
      BY <1>3, <3>2, <3>4
    <3> HIDE DEF ends
    <3>6. Cardinality(ends) = 1
      BY <3>5, FS_Singleton
    <3>7. start = ref.first
      BY <3>1, <3>2
    <3> HIDE DEF start
    <3>8. \A last \in ends : last >= ref.first /\ last + call.context - start < MaxFetchLines
      BY <3>1, <3>2, <3>5, <3>7
    <3> QED BY <1>4, <3>6, <3>8
  <2> QED BY <1>1, <1>4, <2>1, RaisesKeepsClean
<1>5. ASSUME NEW last \in ends, Proceeds([call EXCEPT !.step = "read", !.last = last])
      PROVE  CleanInv'
  <2>1. [call EXCEPT !.step = "read", !.last = last]
          = [call EXCEPT !.step = "read", !.sha = call.sha, !.last = last]
    BY <1>2 DEF CallRecord
  <2>2. Proceeds([call EXCEPT !.step = "read", !.sha = call.sha, !.last = last])
    BY <1>5, <2>1
  <2>3. call.kind = "eligibility" => last = ref.last
    BY <1>3, <1>5
  <2> HIDE DEF ends
  <2> QED BY <1>1, <2>2, <2>3, ProceedsKeepsClean
<1> QED BY <1>4, <1>5 DEF FindRange

LEMMA ReadFileKeepsClean ==
    ASSUME GateConstants, GateInv, CleanInv, ReadFile
    PROVE  CleanInv'
<1> DEFINE c == file[ref.path]
           matched == c = call.sha
           last == IF ref.event = None /\ ref.last = None /\ c # None
                   THEN Min({call.last, Lines[c]}) ELSE call.last
           v == matched /\ ref.event # None /\ InFile(ref.first, last, c)
<1>1. call # None /\ call.step = "read" /\ call.step # "judge"
  BY DEF ReadFile
<1>2. ASSUME CleanCall(call) PROVE v /\ c # None
  <2>1. /\ None \notin {ref.event, ref.sha, ref.last} /\ file[ref.path] = ref.sha
        /\ ref.first \in 1..ref.last /\ ref.last <= Lines[ref.sha]
    BY <1>1, <1>2, CleanAtHand
  <2>2. call.kind = "eligibility" /\ call.last = ref.last
    BY <1>1, <1>2 DEF CleanCall, CleanInv
  <2>3. call.sha = ref.sha
    BY <1>1, <2>2 DEF GateInv, CallInv, Tracked
  <2>4. last = ref.last /\ c = ref.sha
    BY <2>1, <2>2
  <2>5. InFile(ref.first, last, c)
    BY <2>1, <2>4 DEF InFile
  <2> QED BY <2>1, <2>3, <2>4, <2>5
<1>3. CASE Raises /\ ~ (matched /\ InFile(ref.first, last, c) /\ c # None)
  BY <1>1, <1>2, <1>3, RaisesKeepsClean
<1>4. CASE Done(v) /\ UNCHANGED <<world, receipt>>
  <2> HIDE DEF v
  <2> QED BY <1>1, <1>2, <1>4, DoneKeepsClean DEF world
<1> QED BY <1>3, <1>4 DEF ReadFile

(* A clean claim leaves nothing to find fault with.                        *)
LEMMA JudgeKeepsClean ==
    ASSUME GateConstants, GateInv, CleanInv, Judge
    PROVE  CleanInv'
<1>1. /\ call # None /\ call.step = "judge" /\ call' = None
      /\ receipt' = [answers |-> call,
                     status |-> Verdict(call.claim, call.checks, log, call.cites)]
      /\ UNCHANGED <<ledger, past, fetched>>
  BY DEF Judge, world
<1>2. /\ call.kind = "eligibility" /\ call \in CallRecord
      /\ Len(call.todo) = 0 /\ Len(call.checks) + Len(call.todo) = Len(call.cites)
  BY <1>1 DEF GateInv, CallInv, CallTyped, Orderly
<1>3. /\ call.checks \in Seq(Check) /\ call.cites \in Seq(Reference)
      /\ DOMAIN call.checks = 1..Len(call.checks) /\ DOMAIN call.cites = 1..Len(call.checks)
  BY <1>2 DEF CallRecord
<1>4. ASSUME Active(call.claim), CleanCall(call),
             Cardinality({r.event : r \in Cited(call)}) >= Minimum(call.claim),
             \A i \in DOMAIN fetched :
               fetched[i].matched \/ fetched[i].event \in {r.event : r \in Cited(call)}
      PROVE  receipt'.status = "eligible"
  <2>1. \A i \in DOMAIN call.checks : call.checks[i].verified
    BY <1>1, <1>3, <1>4 DEF CleanInv
  <2>2. \A r \in Cited(call) : r.event # None
    <3>1. ASSUME NEW r \in Cited(call) PROVE r.event # None
      <4>1. PICK l \in ledger : Locates(l, r)
        BY <1>4 DEF CleanCall, CleanReference
      <4> QED BY <4>1 DEF Locates, GateInv, WorldInv, GateConstants
    <3> QED BY <3>1
  <2>3. {call.checks[i].event : i \in DOMAIN call.checks} \ {None}
          = {r.event : r \in Cited(call)}
    <3> DEFINE events == {call.cites[i].event : i \in DOMAIN call.cites}
    <3>1. {call.checks[i].event : i \in DOMAIN call.checks} = events
      BY <1>1, <1>2, <1>3 DEF GateInv, CallInv, Checked
    <3>2. {r.event : r \in Cited(call)} = events
      BY DEF Cited, Range
    <3> QED BY <2>2, <3>1, <3>2
  <2>4. Status(call.claim, call.checks) = "eligible"
    BY <1>4, <2>1, <2>3 DEF Status
  <2>5. Omitted(log, call.cites) = {}
    <3>1. ASSUME NEW entry \in Range(log), ~ entry.matched
          PROVE  \E r \in Cited(call) : entry.event # None /\ r.event = entry.event
      <4>1. PICK i \in DOMAIN log : entry = log[i]
        BY DEF Range
      <4>2. i \in DOMAIN fetched /\ fetched[i] = entry
        <5>1. /\ fetched \in Seq(Entry) /\ log \in Seq(Entry) /\ Len(log) <= Len(fetched)
              /\ \A j \in 1..Len(log) : log[j] = fetched[j]
          BY DEF GateInv, LogInv
        <5>2. DOMAIN log = 1..Len(log) /\ DOMAIN fetched = 1..Len(fetched)
              /\ Len(log) \in Nat /\ Len(fetched) \in Nat
          BY <5>1, LenProperties
        <5> QED BY <4>1, <5>1, <5>2
      <4> QED BY <1>4, <2>2, <3>1, <4>2
    <3> QED BY <3>1 DEF Omitted, Cited
  <2> QED BY <1>1, <2>4, <2>5 DEF Verdict
<1>5. CleanClaimIsEligible'
  <2>1. receipt'.answers = call
    BY <1>1
  <2> SUFFICES ASSUME Active(call.claim), call.indexes = {ledger},
                      Cardinality(call.files) = Cardinality(Path),
                      \A r \in Cited(call) : CleanReference(r, call),
                      Cardinality({r.event : r \in Cited(call)}) >= Minimum(call.claim),
                      \A i \in DOMAIN fetched :
                        fetched[i].matched \/ fetched[i].event \in {r.event : r \in Cited(call)}
               PROVE  receipt'.status = "eligible"
    BY <1>1, <2>1 DEF CleanClaimIsEligible, CleanReference
  <2> QED BY <1>2, <1>4 DEF CleanCall
<1> QED
  BY <1>1, <1>5 DEF CleanInv, PastInv

LEMMA CleanInvStep ==
    ASSUME GateConstants, GateInv, GateInv', CleanInv, [Next]_vars
    PROVE  CleanInv'
<1>1. CASE UNCHANGED vars
  <2>1. UNCHANGED <<ledger, past, call, receipt, fetched>>
    BY <1>1 DEF vars, world
  <2> QED BY <2>1 DEF CleanInv, PastInv, CleanCall, CleanReference, Cited, Intact, Locates, ref,
          CleanClaimIsEligible
<1>2. CASE Next
  <2>1. CASE \/ \E p \in Path, c \in Content \cup {None} : EditFile(p, c)
             \/ Record \/ Restart
             \/ \E l \in past : Publish(l)
    BY <2>1, WorldStepsKeepClean
  <2>2. CASE \/ \E r \in Reference, context \in Context : Fetch(r, context)
             \/ \E claim \in Claim, cites \in Cites : CheckEligibility(claim, cites)
    BY <2>2, CallsBeginClean
  <2>3. CASE CheckReference
    BY <2>3, CheckReferenceKeepsClean
  <2>4. CASE PassGate
    BY <2>4, PassGateKeepsClean
  <2>5. CASE FindHash
    BY <2>5, FindHashKeepsClean
  <2>6. CASE FindRange
    BY <2>6, FindRangeKeepsClean
  <2>7. CASE ReadFile
    BY <2>7, ReadFileKeepsClean
  <2>8. CASE Judge
    BY <2>8, JudgeKeepsClean
  <2> QED BY <1>2, <2>1, <2>2, <2>3, <2>4, <2>5, <2>6, <2>7, <2>8 DEF Next
<1> QED BY <1>1, <1>2

(* No false alarm: a claim that needs evidence is found eligible when it   *)
(* cites enough events by their exact locators, index and files stand      *)
(* still during the call, and no uncited event ever failed to match.       *)
THEOREM CleanClaimsAreEligible == Spec => []CleanClaimIsEligible
<1>1. Init => CleanInv
  BY CleanInvInit, GateConstants
<1>2. GateInv /\ GateInv' /\ CleanInv /\ [Next]_vars => CleanInv'
  BY CleanInvStep, GateConstants
<1>3. CleanInv => CleanClaimIsEligible
  BY DEF CleanInv
<1> QED BY <1>1, <1>2, <1>3, GateInvHolds, PTL DEF Spec
=============================================================================
