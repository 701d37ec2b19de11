----------------------- MODULE IngestTransactionProofs -----------------------
(***************************************************************************)
(* What the journalled transactions of IngestCommit guarantee, for every   *)
(* value of its constants: the journal, the ledger, the marker and the     *)
(* reported status agree over all attempts, retries and crashes, and the   *)
(* whole implements the governed ledger.                                   *)
(***************************************************************************)
EXTENDS IngestReceiptProofs, FiniteSetTheorems

-----------------------------------------------------------------------------
(* Operations.                                                             *)

(* A record whose id is not in the file goes to the end of its daily file. *)
AddsLine(l, op) ==
    /\ op.target = DayOf[l]
    /\ op.after = op.before \o <<l>>
    /\ \A i \in DOMAIN op.before : IdOf[op.before[i]] # IdOf[l]

AddsSources(lines, op) ==
    /\ op.target = SourcesFile
    /\ op.after = op.before \o lines

(* The operations of draft d, whatever the files were when they were made. *)
IsTransactionOf(d, lines, ops) ==
    IF Registers[d] = <<>> THEN Len(ops) = 1 /\ AddsLine(LineOf[d], ops[1])
    ELSE /\ Len(ops) = 2
         /\ AddsSources(lines, ops[1])
         /\ AddsLine(LineOf[d], ops[2])

Approved(l) == \A a \in Approvals[l] : InLedger(a)

(* The files f hold what the operation installs, and perhaps more by now.  *)
Landed(f, op) == IsPrefix(op.after, f[op.target])
LandedUpTo(f, ops, n) == \A i \in 1..n : Landed(f, ops[i])

LEMMA RegistrationLinesType ==
    ASSUME TypeOK, NEW d \in Draft
    PROVE  /\ RegistrationLines(d) \in Seq(Registration)
           /\ Len(RegistrationLines(d)) = Len(Registers[d])
           /\ \A i \in DOMAIN Registers[d] : RegistrationLines(d)[i].path = Registers[d][i]
<1>1. Registers[d] \in Seq(Path) /\ draft[d].hash \in [Path -> Nat]
  BY ConstantTypes DEF TypeOK, DraftFile
<1>2. DOMAIN Registers[d] = 1..Len(Registers[d]) /\ Len(Registers[d]) \in Nat
  BY <1>1
<1>3. RegistrationLines(d) = [i \in 1..Len(Registers[d]) |-> RegistrationLines(d)[i]]
  BY <1>2 DEF RegistrationLines
<1>4. \A i \in 1..Len(Registers[d]) :
          /\ RegistrationLines(d)[i] \in Registration
          /\ RegistrationLines(d)[i].path = Registers[d][i]
  BY <1>1, <1>2 DEF RegistrationLines, Registration
<1>5. RegistrationLines(d) \in Seq(Registration)
  <2> DEFINE n == Len(Registers[d])
             f == RegistrationLines(d)
  <2>1. n \in Nat /\ f = [i \in 1..n |-> f[i]] /\ \A i \in 1..n : f[i] \in Registration
    BY <1>2, <1>3, <1>4
  <2> HIDE DEF n, f
  <2> QED
    BY <2>1, IsASeq DEF f
<1> QED
  BY <1>2, <1>3, <1>4, <1>5

LEMMA EntriesDisjoint == Seq(Registration) \subseteq Seq(Entry) /\ Seq(Line) \subseteq Seq(Entry)
BY DEF Entry

(* Every operation of a transaction adds lines to its file.                *)
LEMMA TransactionGrows ==
    ASSUME TypeOK, NEW d \in Draft, NEW ops \in Seq(Operation),
           IsTransactionOf(d, RegistrationLines(d), ops), NEW i \in DOMAIN ops
    PROVE  Len(ops[i].after) > Len(ops[i].before)
<1>1. CASE Registers[d] = <<>>
  <2>1. i = 1 /\ ops[1] \in Operation
    BY <1>1 DEF IsTransactionOf
  <2> QED
    BY <1>1, <2>1 DEF IsTransactionOf, AddsLine, Operation
<1>2. CASE Registers[d] # <<>>
  <2>1. i \in {1, 2} /\ ops[i] \in Operation
    BY <1>2 DEF IsTransactionOf
  <2>2. CASE i = 1
    <3>1. ops[1].after = ops[1].before \o RegistrationLines(d)
      BY <1>2 DEF IsTransactionOf, AddsSources
    <3>2. Len(RegistrationLines(d)) > 0 /\ RegistrationLines(d) \in Seq(Entry)
      <4>1. Registers[d] \in Seq(Path)
        BY ConstantTypes
      <4>2. Len(Registers[d]) > 0
        BY <1>2, <4>1
      <4> QED
        BY <4>2, RegistrationLinesType, EntriesDisjoint
    <3>3. ops[1].before \in Seq(Entry)
      BY <2>1, <2>2 DEF Operation
    <3> QED
      BY <2>2, <3>1, <3>2, <3>3
  <2>3. CASE i = 2
    BY <1>2, <2>1, <2>3 DEF IsTransactionOf, AddsLine, Operation
  <2> QED
    BY <2>1, <2>2, <2>3
<1> QED
  BY <1>1, <1>2

(* A valid record is new to its file, and its approvals exist.             *)
LEMMA ValidLine ==
    ASSUME NEW l \in Line, ~IdTaken(IdOf[l]), \A a \in Approvals[l] : InLedger(a)
    PROVE  AddsLine(l, AppendTo(DayOf[l], <<l>>)) /\ Approved(l)
<1> DEFINE t == DayOf[l]
<1>1. t \in Day
  BY ConstantTypes
<1>2. \A i \in DOMAIN ledger[t] : ledger[t][i] \in ToSet(ledger[t])
  BY DEF ToSet
<1>3. \A i \in DOMAIN ledger[t] : IdOf[ledger[t][i]] # IdOf[l]
  BY <1>1, <1>2 DEF IdTaken
<1> QED
  BY <1>3 DEF AddsLine, AppendTo, Approved

(* A new journal holds the operations of its draft.                        *)
LEMMA NewTransaction ==
    ASSUME TypeOK, NEW d \in Draft, MayOpen(d)
    PROVE  IsTransactionOf(d, RegistrationLines(d), Operations(d)) /\ Approved(LineOf[d])
<1> DEFINE l == LineOf[d]
           event == AppendTo(DayOf[l], <<l>>)
           sources == AppendTo(SourcesFile, RegistrationLines(d))
<1>1. l \in Line /\ ~IdTaken(IdOf[l]) /\ \A a \in Approvals[l] : InLedger(a)
  BY ConstantTypes DEF MayOpen, ValidDraft, Valid
<1>2. AddsLine(l, event) /\ Approved(l)
  BY <1>1, ValidLine
<1>3. AddsSources(RegistrationLines(d), sources)
  BY DEF AddsSources, AppendTo
<1>4. Operations(d) = IF Registers[d] = <<>> THEN <<event>> ELSE <<sources, event>>
  BY DEF Operations
<1> HIDE DEF event, sources
<1> QED
  BY <1>2, <1>3, <1>4 DEF IsTransactionOf
-----------------------------------------------------------------------------
(* What no step takes away.                                                *)

(* What has landed stays; so do the approvals of a record.                 *)
LEMMA LandedStays ==
    ASSUME LedgerInv, [Next]_vars
    PROVE  /\ \A op \in Operation : Landed(ledger, op) => Landed(ledger', op)
           /\ \A l \in Line : Approved(l) => Approved(l)'
<1>1. \A t \in Target : /\ ledger[t] \in Seq(Entry) /\ ledger'[t] \in Seq(Entry)
                        /\ IsPrefix(ledger[t], ledger'[t])
  BY StepAppendsOnly, TypeInvInductive DEF LedgerInv, TypeInv, TypeOK, Ledger
<1>2. ASSUME NEW op \in Operation, Landed(ledger, op)  PROVE Landed(ledger', op)
  <2>1. op.target \in Target /\ op.after \in Seq(Entry)
    BY DEF Operation
  <2> QED
    BY <1>1, <1>2, <2>1, PrefixTransitive DEF Landed
<1>3. ASSUME NEW a \in Line, InLedger(a)  PROVE InLedger(a)'
  <2>1. DayOf[a] \in Target
    BY ConstantTypes DEF Target
  <2>2. PICK i \in DOMAIN ledger[DayOf[a]] : ledger[DayOf[a]][i] = a
    BY <1>3 DEF InLedger, ToSet
  <2>3. i \in DOMAIN ledger'[DayOf[a]] /\ ledger'[DayOf[a]][i] = a
    BY <1>1, <2>1, <2>2, PrefixElement
  <2> QED
    BY <2>3 DEF InLedger, ToSet
<1>4. ASSUME NEW l \in Line, Approved(l)  PROVE Approved(l)'
  <2>1. Approvals[l] \subseteq Line
    BY ConstantTypes
  <2> QED
    BY <1>3, <1>4, <2>1 DEF Approved
<1> QED
  BY <1>2, <1>4

(* A pending draft file is never written again.                            *)
LEMMA PendingStays ==
    ASSUME LedgerInv, [Next]_vars, NEW d \in Draft, draft[d].status = "pending"
    PROVE  /\ draft'[d] = draft[d]
           /\ RegistrationLines(d)' = RegistrationLines(d)
<1>1. draft'[d] = draft[d]
  BY ZenonT(30) DEF LedgerInv, TypeInv, TypeOK, Next, Environment, Begin, Advance, Misfortune, vars,
      local, host, PrepareValidate, PrepareStore, IssueReceipt, ExpireReceipt, EditSource,
      ClearStaleLock, BeginCommit, BeginAdmin, AppendRecord, RegisterSource, AdminPrepare,
      Verify, OpenJournal, ResumeJournal, RefuseJournal, ConsumeReceipt, ResumeReceipt,
      RefuseReceipt, StartApplying, CheckOperation, ReplaceTarget, StoreProgress,
      StoreCommitted, CreateMarker, RecordFailure, Finalize, ReleaseLock, AdminRefused,
      AdminReplace, Crash, TearJournal, TearConsumption, CheckFails, ReplaceFails
<1> QED
  BY <1>1 DEF RegistrationLines
-----------------------------------------------------------------------------
(* The operations in hand.  A journal in use holds the transaction of its  *)
(* draft, whose record was new and approved when the journal was opened;   *)
(* a process works on the operations of the journal; it never gets past    *)
(* the first check for a draft that is consumed.                           *)

InUse(t) == t.status \notin {"none", "torn"}

PendingDraft ==
    \A p \in Proc : pc[p] \in CommitPC => draft[arg[p].draft].status = "pending"

JournalOps ==
    \A d \in Draft :
        IF InUse(journal[d])
        THEN /\ draft[d].status = "pending"
             /\ IsTransactionOf(d, RegistrationLines(d), journal[d].ops)
             /\ Approved(LineOf[d])
        ELSE journal[d].ops = <<>> /\ journal[d].applied = 0

HeldOps ==
    \A p \in Proc : pc[p] \in CommitPC \ {"verify", "load"} =>
        InUse(journal[arg[p].draft]) /\ journal[arg[p].draft].ops = txn[p].ops

AddsAdminSource(op) ==
    \E q \in AdminPath, h \in Nat : AddsSources(<<[path |-> q, hash |-> h]>>, op)

AdminOps ==
    \A p \in Proc : pc[p] = "adminReplace" =>
        \/ \E l \in AdminLine : AddsLine(l, txn[p].ops[1]) /\ Approved(l)
        \/ AddsAdminSource(txn[p].ops[1])

BeforeMark ==
    \A p \in Proc :
        /\ pc[p] \in CommitPC \ {"verify", "fail", "finalize"} => arg[p].draft \notin marker
        /\ pc[p] = "finalize" => arg[p].draft \in marker

OpsInv == PendingDraft /\ JournalOps /\ HeldOps /\ AdminOps /\ BeforeMark

LEMMA OpsInvInit == Init => OpsInv
BY DEF Init, OpsInv, PendingDraft, JournalOps, HeldOps, AdminOps, BeforeMark, CommitPC,
       InUse, NoTxn

(* Only one process is at work.                                            *)
LEMMA Alone ==
    ASSUME LedgerInv, NEW p \in Proc, pc[p] # "idle"
    PROVE  \A q \in Proc \ {p} : pc[q] = "idle"
BY DEF LedgerInv, LockHeld

(* A journal that keeps its operations keeps them those of its draft.      *)
LEMMA JournalOpsStay ==
    ASSUME LedgerInv, OpsInv, [Next]_vars,
           \A d \in Draft : /\ journal'[d].ops = journal[d].ops
                            /\ journal'[d].applied = journal[d].applied \/ InUse(journal[d])
                            /\ InUse(journal'[d]) <=> InUse(journal[d])
    PROVE  JournalOps'
<1> SUFFICES ASSUME NEW d \in Draft
             PROVE  IF InUse(journal'[d])
                    THEN /\ draft'[d].status = "pending"
                         /\ IsTransactionOf(d, RegistrationLines(d)', journal'[d].ops)
                         /\ Approved(LineOf[d])'
                    ELSE journal'[d].ops = <<>> /\ journal'[d].applied = 0
  BY DEF JournalOps, InUse
<1>1. CASE InUse(journal[d])
  <2>1. /\ draft[d].status = "pending" /\ LineOf[d] \in Line
        /\ IsTransactionOf(d, RegistrationLines(d), journal[d].ops)
        /\ Approved(LineOf[d])
    BY <1>1, ConstantTypes DEF OpsInv, JournalOps
  <2> QED
    BY <1>1, <2>1, PendingStays, LandedStays
<1>2. CASE ~InUse(journal[d])
  BY <1>2 DEF OpsInv, JournalOps
<1> QED
  BY <1>1, <1>2

(* Storing a transaction changes its status and progress, nothing else.    *)
LEMMA StoreKeepsOps ==
    ASSUME LedgerInv, OpsInv, [Next]_vars, NEW p \in Proc, NEW t \in Transaction,
           t.ops = txn[p].ops, InUse(t), pc[p] \in CommitPC \ {"verify", "load"},
           Store(p, t) \/ StoreFails(p, t), UNCHANGED <<marker, arg>>,
           NEW l \in {"check", "commit", "mark", "fail", "release"},
           pc' = [pc EXCEPT ![p] = l],
           l \in {"fail", "release"} \/ pc[p] \notin {"fail", "finalize"}
    PROVE  OpsInv'
<1>1. /\ arg[p].draft \in Draft /\ InUse(journal[arg[p].draft])
      /\ journal[arg[p].draft].ops = txn[p].ops
  BY DEF LedgerInv, TypeInv, HasArguments, OpsInv, HeldOps
<1>2. /\ txn'[p] = t /\ journal'[arg[p].draft] \in {t, journal[arg[p].draft]}
      /\ \A d \in Draft \ {arg[p].draft} : journal'[d] = journal[d]
  BY StoreType DEF LedgerInv
<1>3. pc'[p] = l /\ \A q \in Proc \ {p} : pc'[q] = "idle"
  BY Alone DEF LedgerInv, TypeInv, TypeOK, CommitPC
<1>4. JournalOps'
  BY <1>1, <1>2, JournalOpsStay
<1>5. PendingDraft'
  BY <1>1, <1>3, PendingStays DEF OpsInv, PendingDraft, CommitPC
<1>6. HeldOps'
  BY <1>1, <1>2, <1>3 DEF HeldOps, CommitPC
<1>7. AdminOps' /\ BeforeMark'
  BY <1>3 DEF OpsInv, AdminOps, BeforeMark, CommitPC
<1> QED
  BY <1>4, <1>5, <1>6, <1>7 DEF OpsInv


(* Every step keeps the journals in step with the drafts.                  *)
LEMMA OpsInvInductive ==
    ASSUME LedgerInv, ReceiptInv, OpsInv, [Next]_vars
    PROVE  OpsInv'
<1>0. /\ TypeInv' /\ \A l \in Line : Approved(l) => Approved(l)'
      /\ \A d \in Draft : draft[d].status = "pending" => draft'[d] = draft[d]
      /\ AdminLine \subseteq Line
  BY TypeInvInductive, LandedStays, PendingStays, ConstantTypes DEF LedgerInv
<1>a. UNCHANGED journal => JournalOps'
  BY JournalOpsStay DEF InUse
<1>1. CASE UNCHANGED vars
  BY <1>1, <1>0, <1>a DEF OpsInv, PendingDraft, HeldOps, AdminOps, BeforeMark, vars, local
<1>2. ASSUME NEW d \in Draft, PrepareValidate(d)  PROVE OpsInv'
  BY <1>2, <1>0, <1>a DEF OpsInv, PendingDraft, HeldOps, AdminOps, BeforeMark, CommitPC,
    LedgerInv, TypeInv, TypeOK, HasArguments, PrepareValidate, host, local
<1>3. ASSUME NEW d \in Draft, PrepareStore(d)  PROVE OpsInv'
  BY <1>3, <1>0, <1>a DEF OpsInv, PendingDraft, HeldOps, AdminOps, BeforeMark, CommitPC,
    LedgerInv, TypeInv, TypeOK, HasArguments, PrepareStore, host, local
<1>4. ASSUME NEW r \in Receipt, NEW d \in Draft, IssueReceipt(r, d)  PROVE OpsInv'
  BY <1>4, <1>0, <1>a DEF OpsInv, PendingDraft, HeldOps, AdminOps, BeforeMark, CommitPC,
    LedgerInv, TypeInv, TypeOK, HasArguments, IssueReceipt, host, local
<1>5. ASSUME NEW r \in Receipt, ExpireReceipt(r)  PROVE OpsInv'
  BY <1>5, <1>0, <1>a DEF OpsInv, PendingDraft, HeldOps, AdminOps, BeforeMark, CommitPC,
    LedgerInv, TypeInv, TypeOK, HasArguments, ExpireReceipt, host, local
<1>6. ASSUME NEW q \in Path, EditSource(q)  PROVE OpsInv'
  BY <1>6, <1>0, <1>a DEF OpsInv, PendingDraft, HeldOps, AdminOps, BeforeMark, CommitPC,
    LedgerInv, TypeInv, TypeOK, HasArguments, EditSource, host, local
<1>7. ASSUME ClearStaleLock  PROVE OpsInv'
  BY <1>7, <1>0, <1>a DEF OpsInv, PendingDraft, HeldOps, AdminOps, BeforeMark, CommitPC,
    LedgerInv, TypeInv, TypeOK, HasArguments, ClearStaleLock, host, local
<1>8. ASSUME NEW p \in Proc, NEW d \in Draft, NEW r \in Receipt, BeginCommit(p, d, r)
      PROVE  OpsInv'
  BY <1>8, <1>0, <1>a DEF OpsInv, PendingDraft, HeldOps, AdminOps, BeforeMark, CommitPC,
    LedgerInv, TypeInv, TypeOK, HasArguments, BeginCommit, AcquireLock, Goto, host,
    local
<1>9. ASSUME NEW p \in Proc, BeginAdmin(p)  PROVE OpsInv'
  BY <1>9, <1>0, <1>a DEF OpsInv, PendingDraft, HeldOps, AdminOps, BeforeMark, CommitPC,
    LedgerInv, TypeInv, TypeOK, HasArguments, BeginAdmin, AcquireLock, Goto, host, local
<1>10. ASSUME NEW p \in Proc, NEW l \in AdminLine, AppendRecord(p, l)  PROVE OpsInv'
  <2> DEFINE op == AppendTo(DayOf[l], <<l>>)
  <2>1. l \in Line /\ DayOf[l] \in Target /\ <<l>> \in Seq(Entry)
    BY ConstantTypes DEF Target, Entry
  <2>2. AddsLine(l, op) /\ Approved(l)
    BY <1>10, <2>1, ValidLine DEF AppendRecord, Valid
  <2>3. op \in Operation /\ txn[p] \in Transaction
    BY <2>1, AppendToType DEF LedgerInv, TypeInv, TypeOK
  <2>4. txn' = [txn EXCEPT ![p] = [@ EXCEPT !.ops = <<op>>]]
    BY <1>10 DEF AppendRecord, AdminPrepare
  <2> HIDE DEF op
  <2>5. txn'[p].ops = <<op>> /\ \A q \in Proc \ {p} : txn'[q] = txn[q]
    BY <2>3, <2>4, TransactionUpdates DEF LedgerInv, TypeInv, TypeOK
  <2>6. AdminOps'
    BY <1>10, <1>0, <2>2, <2>5, Alone
      DEF AdminOps, LedgerInv, TypeInv, TypeOK, AppendRecord, AdminPrepare, Goto
  <2> QED
    BY <1>10, <1>0, <1>a, <2>5, <2>6
      DEF OpsInv, PendingDraft, HeldOps, BeforeMark, CommitPC, LedgerInv, TypeInv, TypeOK,
        AppendRecord, AdminPrepare, Goto, host
<1>11. ASSUME NEW p \in Proc, NEW q \in AdminPath, RegisterSource(p, q)  PROVE OpsInv'
  <2> DEFINE op == AppendTo(SourcesFile, <<[path |-> q, hash |-> content[q]]>>)
  <2>1. /\ q \in Path /\ content[q] \in Nat
        /\ SourcesFile \in Target /\ <<[path |-> q, hash |-> content[q]]>> \in Seq(Entry)
    BY ConstantTypes DEF Target, Entry, Registration, LedgerInv, TypeInv, TypeOK
  <2>2. AddsAdminSource(op)
    BY <2>1 DEF AddsAdminSource, AddsSources, AppendTo
  <2>3. op \in Operation /\ txn[p] \in Transaction
    BY <2>1, AppendToType DEF LedgerInv, TypeInv, TypeOK
  <2>4. txn' = [txn EXCEPT ![p] = [@ EXCEPT !.ops = <<op>>]]
    BY <1>11 DEF RegisterSource, AdminPrepare
  <2> HIDE DEF op
  <2>5. txn'[p].ops = <<op>> /\ \A o \in Proc \ {p} : txn'[o] = txn[o]
    BY <2>3, <2>4, TransactionUpdates DEF LedgerInv, TypeInv, TypeOK
  <2>6. AdminOps'
    BY <1>11, <1>0, <2>2, <2>5, Alone
      DEF AdminOps, LedgerInv, TypeInv, TypeOK, RegisterSource, AdminPrepare, Goto
  <2> QED
    BY <1>11, <1>0, <1>a, <2>5, <2>6
      DEF OpsInv, PendingDraft, HeldOps, BeforeMark, CommitPC, LedgerInv, TypeInv, TypeOK,
        RegisterSource, AdminPrepare, Goto, host
<1>12. ASSUME NEW p \in Proc, Verify(p)  PROVE OpsInv'
  BY <1>12, <1>0, <1>a DEF OpsInv, PendingDraft, HeldOps, AdminOps, BeforeMark,
    CommitPC, LedgerInv, TypeInv, TypeOK, HasArguments, Verify, MayCommit, Goto, host,
    local
<1>13. ASSUME NEW p \in Proc, OpenJournal(p)  PROVE OpsInv'
  <2> DEFINE d == arg[p].draft
             t == [status |-> "prepared", receipt |-> arg[p].receipt,
                   ops |-> Operations(d), applied |-> 0]
  <2>1. d \in Draft /\ draft[d].status = "pending" /\ pc[p] = "load" /\ d \notin marker
    BY <1>13
      DEF OpenJournal, LedgerInv, TypeInv, HasArguments, OpsInv, PendingDraft, BeforeMark,
        CommitPC
  <2>2. IsTransactionOf(d, RegistrationLines(d), t.ops) /\ Approved(LineOf[d]) /\ InUse(t)
    BY <1>13, <2>1, NewTransaction DEF OpenJournal, LedgerInv, TypeInv, InUse
  <2>3. /\ journal' = [journal EXCEPT ![d] = t] /\ txn' = [txn EXCEPT ![p] = t]
        /\ pc' = [pc EXCEPT ![p] = "consume"] /\ UNCHANGED <<draft, ledger, marker, arg>>
    BY <1>13 DEF OpenJournal, Goto, host
  <2> HIDE DEF t
  <2>4. /\ journal'[d] = t /\ \A e \in Draft \ {d} : journal'[e] = journal[e]
        /\ txn'[p] = t /\ pc'[p] = "consume" /\ \A q \in Proc \ {p} : pc'[q] = "idle"
    BY <2>1, <2>3, Alone DEF LedgerInv, TypeInv, TypeOK
  <2>5. /\ UNCHANGED RegistrationLines(d)
        /\ \A e \in Draft : UNCHANGED <<RegistrationLines(e), Approved(LineOf[e])>>
    BY <2>3 DEF RegistrationLines, Approved, InLedger
  <2>6. JournalOps'
    <3> SUFFICES ASSUME NEW e \in Draft
                 PROVE  IF InUse(journal'[e])
                        THEN /\ draft'[e].status = "pending"
                             /\ IsTransactionOf(e, RegistrationLines(e)', journal'[e].ops)
                             /\ Approved(LineOf[e])'
                        ELSE journal'[e].ops = <<>> /\ journal'[e].applied = 0
      BY DEF JournalOps, InUse
    <3>1. CASE e = d
      BY <2>1, <2>2, <2>3, <2>4, <2>5, <3>1
    <3>2. CASE e # d
      BY <2>3, <2>4, <2>5, <3>2 DEF OpsInv, JournalOps
    <3> QED
      BY <3>1, <3>2
  <2> HIDE DEF d
  <2>7. HeldOps'
    BY <2>1, <2>2, <2>3, <2>4 DEF HeldOps, CommitPC, d
  <2>8. PendingDraft' /\ AdminOps' /\ BeforeMark'
    BY <2>1, <2>3, <2>4 DEF PendingDraft, AdminOps, BeforeMark, CommitPC, d
  <2> QED
    BY <2>6, <2>7, <2>8 DEF OpsInv
<1>14. ASSUME NEW p \in Proc, ResumeJournal(p)  PROVE OpsInv'
  <2>1. /\ arg[p].draft \in Draft /\ draft[arg[p].draft].status = "pending"
        /\ pc[p] = "load" /\ arg[p].draft \notin marker /\ InUse(journal[arg[p].draft])
    BY <1>14
      DEF ResumeJournal, MayResume, InUse, LedgerInv, TypeInv, HasArguments, OpsInv,
        PendingDraft, BeforeMark, CommitPC
  <2>2. /\ UNCHANGED <<draft, journal, marker, arg>>
        /\ txn'[p] = journal[arg[p].draft]
        /\ pc'[p] = "consume" /\ \A q \in Proc \ {p} : pc'[q] = "idle"
    BY <1>14, <2>1, Alone DEF ResumeJournal, Goto, host, LedgerInv, TypeInv, TypeOK
  <2>3. HeldOps'
    BY <2>1, <2>2 DEF HeldOps, CommitPC
  <2>4. PendingDraft' /\ AdminOps' /\ BeforeMark'
    BY <2>1, <2>2 DEF PendingDraft, AdminOps, BeforeMark, CommitPC
  <2> QED
    BY <1>a, <2>2, <2>3, <2>4 DEF OpsInv
<1>15. ASSUME NEW p \in Proc, RefuseJournal(p)  PROVE OpsInv'
  BY <1>15, <1>0, <1>a DEF OpsInv, PendingDraft, HeldOps, AdminOps, BeforeMark,
    CommitPC, LedgerInv, TypeInv, TypeOK, HasArguments, RefuseJournal, Goto, host, local
<1>16. ASSUME NEW p \in Proc, ConsumeReceipt(p)  PROVE OpsInv'
  BY <1>16, <1>0, <1>a DEF OpsInv, PendingDraft, HeldOps, AdminOps, BeforeMark,
    CommitPC, LedgerInv, TypeInv, TypeOK, HasArguments, ConsumeReceipt, Goto, host,
    local
<1>17. ASSUME NEW p \in Proc, ResumeReceipt(p)  PROVE OpsInv'
  BY <1>17, <1>0, <1>a DEF OpsInv, PendingDraft, HeldOps, AdminOps, BeforeMark,
    CommitPC, LedgerInv, TypeInv, TypeOK, HasArguments, ResumeReceipt, Goto, host, local
<1>18. ASSUME NEW p \in Proc, RefuseReceipt(p)  PROVE OpsInv'
  BY <1>18, <1>0, <1>a DEF OpsInv, PendingDraft, HeldOps, AdminOps, BeforeMark,
    CommitPC, LedgerInv, TypeInv, TypeOK, HasArguments, RefuseReceipt, Goto, host, local
<1>19. ASSUME NEW p \in Proc, StartApplying(p)  PROVE OpsInv'
  <2> DEFINE t == WithStatus(p, "applying")
  <2>1. txn[p] \in Transaction
    BY DEF LedgerInv, TypeInv, TypeOK
  <2>2. t \in Transaction /\ t.ops = txn[p].ops /\ InUse(t)
    BY <2>1, WithStatusType DEF Status, InUse
  <2>3. /\ Store(p, t) \/ StoreFails(p, t)
        /\ pc[p] \in CommitPC \ {"verify", "load"} /\ UNCHANGED <<marker, arg>>
        /\ \E l \in {"check", "commit", "mark", "fail", "release"} :
              /\ pc' = [pc EXCEPT ![p] = l]
              /\ l \in {"fail", "release"} \/ pc[p] \notin {"fail", "finalize"}
    BY <1>19 DEF StartApplying, Goto, CommitPC
  <2> HIDE DEF t
  <2> QED
    BY <2>2, <2>3, StoreKeepsOps
<1>20. ASSUME NEW p \in Proc, CheckOperation(p)  PROVE OpsInv'
  <2>1. /\ pc[p] = "check" /\ UNCHANGED <<ledger, draft, journal, marker, arg, txn>>
        /\ \E l \in {"progress", "replace", "fail"} : pc' = [pc EXCEPT ![p] = l]
    BY <1>20 DEF CheckOperation, OpState, Goto, host
  <2> QED
    BY <1>0, <1>a, <2>1
      DEF OpsInv, PendingDraft, HeldOps, AdminOps, BeforeMark, CommitPC, LedgerInv, TypeInv,
        TypeOK, HasArguments
<1>21. ASSUME NEW p \in Proc, ReplaceTarget(p)  PROVE OpsInv'
  BY <1>21, <1>0, <1>a DEF OpsInv, PendingDraft, HeldOps, AdminOps, BeforeMark,
    CommitPC, LedgerInv, TypeInv, TypeOK, HasArguments, ReplaceTarget, Goto, host, local
<1>22. ASSUME NEW p \in Proc, StoreProgress(p)  PROVE OpsInv'
  <2> DEFINE t == [txn[p] EXCEPT !.applied = step[p]]
  <2>1. txn[p] \in Transaction /\ step[p] \in Nat
    BY DEF LedgerInv, TypeInv, TypeOK
  <2>2. t \in Transaction /\ t.ops = txn[p].ops /\ InUse(t)
    BY <1>22, <2>1, TransactionUpdates DEF StoreProgress, ReceiptInv, HeldReceipt, CommitPC, InUse, Transaction
  <2>3. /\ Store(p, t) \/ StoreFails(p, t)
        /\ pc[p] \in CommitPC \ {"verify", "load"} /\ UNCHANGED <<marker, arg>>
        /\ \E l \in {"check", "commit", "mark", "fail", "release"} :
              /\ pc' = [pc EXCEPT ![p] = l]
              /\ l \in {"fail", "release"} \/ pc[p] \notin {"fail", "finalize"}
    BY <1>22 DEF StoreProgress, Goto, CommitPC
  <2> HIDE DEF t
  <2> QED
    BY <2>2, <2>3, StoreKeepsOps
<1>23. ASSUME NEW p \in Proc, StoreCommitted(p)  PROVE OpsInv'
  <2> DEFINE t == WithStatus(p, "canonical_committed")
  <2>1. txn[p] \in Transaction
    BY DEF LedgerInv, TypeInv, TypeOK
  <2>2. t \in Transaction /\ t.ops = txn[p].ops /\ InUse(t)
    BY <2>1, WithStatusType DEF Status, InUse
  <2>3. /\ Store(p, t) \/ StoreFails(p, t)
        /\ pc[p] \in CommitPC \ {"verify", "load"} /\ UNCHANGED <<marker, arg>>
        /\ \E l \in {"check", "commit", "mark", "fail", "release"} :
              /\ pc' = [pc EXCEPT ![p] = l]
              /\ l \in {"fail", "release"} \/ pc[p] \notin {"fail", "finalize"}
    BY <1>23 DEF StoreCommitted, Goto, CommitPC
  <2> HIDE DEF t
  <2> QED
    BY <2>2, <2>3, StoreKeepsOps
<1>24. ASSUME NEW p \in Proc, CreateMarker(p)  PROVE OpsInv'
  <2>1. /\ pc[p] = "mark" /\ UNCHANGED <<draft, journal, arg, txn>>
        /\ \/ pc'[p] = "finalize" /\ marker' = marker \cup {arg[p].draft}
           \/ pc'[p] = "fail" /\ marker' = marker
        /\ \A q \in Proc \ {p} : pc'[q] = "idle"
    BY <1>24, Alone DEF CreateMarker, Goto, host, LedgerInv, TypeInv, TypeOK
  <2>2. PendingDraft' /\ HeldOps'
    BY <2>1 DEF OpsInv, PendingDraft, HeldOps, CommitPC
  <2>3. AdminOps' /\ BeforeMark'
    BY <2>1 DEF AdminOps, BeforeMark, CommitPC
  <2> QED
    BY <1>a, <2>1, <2>2, <2>3 DEF OpsInv
<1>25. ASSUME NEW p \in Proc, RecordFailure(p)  PROVE OpsInv'
  <2> DEFINE t == WithStatus(p, "failed_recoverable")
  <2>1. txn[p] \in Transaction
    BY DEF LedgerInv, TypeInv, TypeOK
  <2>2. t \in Transaction /\ t.ops = txn[p].ops /\ InUse(t)
    BY <2>1, WithStatusType DEF Status, InUse
  <2>3. /\ Store(p, t) \/ StoreFails(p, t)
        /\ pc[p] \in CommitPC \ {"verify", "load"} /\ UNCHANGED <<marker, arg>>
        /\ \E l \in {"check", "commit", "mark", "fail", "release"} :
              /\ pc' = [pc EXCEPT ![p] = l]
              /\ l \in {"fail", "release"} \/ pc[p] \notin {"fail", "finalize"}
    BY <1>25 DEF RecordFailure, Goto, CommitPC
  <2> HIDE DEF t
  <2> QED
    BY <2>2, <2>3, StoreKeepsOps
<1>26. ASSUME NEW p \in Proc, Finalize(p)  PROVE OpsInv'
  <2> DEFINE t == WithStatus(p, "committed")
  <2>1. txn[p] \in Transaction
    BY DEF LedgerInv, TypeInv, TypeOK
  <2>2. t \in Transaction /\ t.ops = txn[p].ops /\ InUse(t)
    BY <2>1, WithStatusType DEF Status, InUse
  <2>3. /\ Store(p, t) \/ StoreFails(p, t)
        /\ pc[p] \in CommitPC \ {"verify", "load"} /\ UNCHANGED <<marker, arg>>
        /\ \E l \in {"check", "commit", "mark", "fail", "release"} :
              /\ pc' = [pc EXCEPT ![p] = l]
              /\ l \in {"fail", "release"} \/ pc[p] \notin {"fail", "finalize"}
    BY <1>26 DEF Finalize, Goto, CommitPC
  <2> HIDE DEF t
  <2> QED
    BY <2>2, <2>3, StoreKeepsOps
<1>27. ASSUME NEW p \in Proc, ReleaseLock(p)  PROVE OpsInv'
  BY <1>27, <1>0, <1>a DEF OpsInv, PendingDraft, HeldOps, AdminOps, BeforeMark,
    CommitPC, LedgerInv, TypeInv, TypeOK, HasArguments, ReleaseLock, Forget, Goto, host,
    local
<1>28. ASSUME NEW p \in Proc, AdminRefused(p)  PROVE OpsInv'
  BY <1>28, <1>0, <1>a DEF OpsInv, PendingDraft, HeldOps, AdminOps, BeforeMark,
    CommitPC, LedgerInv, TypeInv, TypeOK, HasArguments, AdminRefused, Goto, host, local
<1>29. ASSUME NEW p \in Proc, AdminReplace(p)  PROVE OpsInv'
  BY <1>29, <1>0, <1>a DEF OpsInv, PendingDraft, HeldOps, AdminOps, BeforeMark,
    CommitPC, LedgerInv, TypeInv, TypeOK, HasArguments, AdminReplace, Goto, host, local
<1>30. ASSUME NEW p \in Proc, Crash(p)  PROVE OpsInv'
  BY <1>30, <1>0, <1>a DEF OpsInv, PendingDraft, HeldOps, AdminOps, BeforeMark,
    CommitPC, LedgerInv, TypeInv, TypeOK, HasArguments, Crash, Forget, Goto, host, local
<1>31. ASSUME NEW p \in Proc, TearJournal(p)  PROVE OpsInv'
  <2>1. arg[p].draft \in Draft /\ ~InUse(journal[arg[p].draft])
    BY <1>31 DEF TearJournal, LedgerInv, TypeInv, HasArguments, CommitPC, InUse
  <2>2. \A d \in Draft : /\ journal'[d].ops = journal[d].ops
                         /\ journal'[d].applied = journal[d].applied
                         /\ InUse(journal'[d]) <=> InUse(journal[d])
    BY <1>31, <2>1 DEF TearJournal, LedgerInv, TypeInv, TypeOK, Transaction, InUse
  <2>3. JournalOps'
    BY <2>2, JournalOpsStay
  <2>4. \A q \in Proc : pc'[q] = "idle"
    BY <1>31, Alone DEF TearJournal, Forget, Goto, LedgerInv, TypeInv, TypeOK
  <2>5. PendingDraft' /\ HeldOps' /\ AdminOps' /\ BeforeMark'
    BY <2>4 DEF PendingDraft, HeldOps, AdminOps, BeforeMark, CommitPC
  <2> QED
    BY <2>3, <2>5 DEF OpsInv
<1>32. ASSUME NEW p \in Proc, TearConsumption(p)  PROVE OpsInv'
  BY <1>32, <1>0, <1>a DEF OpsInv, PendingDraft, HeldOps, AdminOps, BeforeMark,
    CommitPC, LedgerInv, TypeInv, TypeOK, HasArguments, TearConsumption, Goto, host,
    local
<1>33. ASSUME NEW p \in Proc, CheckFails(p)  PROVE OpsInv'
  BY <1>33, <1>0, <1>a DEF OpsInv, PendingDraft, HeldOps, AdminOps, BeforeMark,
    CommitPC, LedgerInv, TypeInv, TypeOK, HasArguments, CheckFails, Goto, host, local
<1>34. ASSUME NEW p \in Proc, ReplaceFails(p)  PROVE OpsInv'
  BY <1>34, <1>0, <1>a DEF OpsInv, PendingDraft, HeldOps, AdminOps, BeforeMark,
    CommitPC, LedgerInv, TypeInv, TypeOK, HasArguments, ReplaceFails, Goto, host, local
<1> QED
  BY <1>1, <1>2, <1>3, <1>4, <1>5, <1>6, <1>7, <1>8, <1>9, <1>10, <1>11, <1>12, <1>13,
     <1>14, <1>15, <1>16, <1>17, <1>18, <1>19, <1>20, <1>21, <1>22, <1>23, <1>24, <1>25,
     <1>26, <1>27, <1>28, <1>29, <1>30, <1>31, <1>32, <1>33, <1>34
  DEF Next, Environment, Begin, Advance, Misfortune
-----------------------------------------------------------------------------
(* Progress.  Whatever the journal, the process at work or the marker says *)
(* was applied is in the ledger: operations land in order, and stay.       *)

JournalLanded ==
    \A d \in Draft :
        /\ journal[d].applied <= Len(journal[d].ops)
        /\ LandedUpTo(ledger, journal[d].ops, journal[d].applied)

HeldLanded ==
    \A p \in Proc : pc[p] \in CommitPC \ {"verify", "load"} =>
        /\ txn[p].applied <= Len(txn[p].ops)
        /\ LandedUpTo(ledger, txn[p].ops, txn[p].applied)

StepLanded ==
    \A p \in Proc :
        /\ pc[p] \in {"check", "replace"} => LandedUpTo(ledger, txn[p].ops, step[p] - 1)
        /\ pc[p] = "progress" => LandedUpTo(ledger, txn[p].ops, step[p])
        /\ pc[p] \in {"commit", "mark"} => LandedUpTo(ledger, txn[p].ops, Len(txn[p].ops))

MarkedLanded ==
    \A d \in marker :
        InUse(journal[d]) /\ LandedUpTo(ledger, journal[d].ops, Len(journal[d].ops))

ProgressInv == JournalLanded /\ HeldLanded /\ StepLanded /\ MarkedLanded

LEMMA ProgressInvInit == Init => ProgressInv
BY DEF Init, ProgressInv, JournalLanded, HeldLanded, StepLanded, MarkedLanded, LandedUpTo,
       CommitPC, NoTxn

LEMMA LandedUpToStays ==
    ASSUME LedgerInv, [Next]_vars
    PROVE  \A ops \in Seq(Operation), n \in Nat :
              n <= Len(ops) /\ LandedUpTo(ledger, ops, n) => LandedUpTo(ledger', ops, n)
<1> SUFFICES ASSUME NEW ops \in Seq(Operation), NEW n \in Nat, n <= Len(ops),
                    LandedUpTo(ledger, ops, n), NEW i \in 1..n
             PROVE  Landed(ledger', ops[i])
  BY DEF LandedUpTo
<1>1. ops[i] \in Operation /\ Landed(ledger, ops[i])
  BY DEF LandedUpTo
<1> QED
  BY <1>1, LandedStays

(* A store is made after the operations it counts have landed.             *)
LEMMA StoreKeepsProgress ==
    ASSUME LedgerInv, OpsInv, ProgressInv, [Next]_vars, NEW p \in Proc, NEW t \in Transaction,
           t.ops = txn[p].ops, InUse(t), pc[p] \in CommitPC \ {"verify", "load"},
           t.applied <= Len(t.ops), LandedUpTo(ledger, t.ops, t.applied),
           Store(p, t) \/ StoreFails(p, t), UNCHANGED <<ledger, marker, arg>>,
           NEW l \in {"check", "commit", "mark", "fail", "release"},
           pc' = [pc EXCEPT ![p] = l],
           l = "check" => LandedUpTo(ledger, t.ops, step'[p] - 1),
           l \in {"commit", "mark"} => LandedUpTo(ledger, t.ops, Len(t.ops))
    PROVE  ProgressInv'
<1>1. /\ arg[p].draft \in Draft /\ InUse(journal[arg[p].draft])
      /\ journal[arg[p].draft].ops = t.ops
  BY DEF LedgerInv, TypeInv, HasArguments, OpsInv, HeldOps
<1>2. /\ txn'[p] = t /\ journal'[arg[p].draft] \in {t, journal[arg[p].draft]}
      /\ \A d \in Draft \ {arg[p].draft} : journal'[d] = journal[d]
  BY StoreType DEF LedgerInv
<1>3. pc'[p] = l /\ \A q \in Proc \ {p} : pc'[q] = "idle"
  BY Alone DEF LedgerInv, TypeInv, TypeOK, CommitPC
<1>4. JournalLanded'
  BY <1>1, <1>2 DEF ProgressInv, JournalLanded
<1>5. HeldLanded' /\ StepLanded'
  BY <1>2, <1>3 DEF HeldLanded, StepLanded, CommitPC
<1>6. MarkedLanded'
  BY <1>1, <1>2 DEF ProgressInv, MarkedLanded, LedgerInv, TypeInv, TypeOK
<1> QED
  BY <1>4, <1>5, <1>6 DEF ProgressInv


(* Every step keeps what is claimed in the ledger.                         *)
LEMMA ProgressInvInductive ==
    ASSUME LedgerInv, ReceiptInv, OpsInv, ProgressInv, [Next]_vars
    PROVE  ProgressInv'
<1>0. TypeInv'
  BY TypeInvInductive DEF LedgerInv
<1>a. UNCHANGED <<journal, marker>> => JournalLanded' /\ MarkedLanded'
  <2>1. \A d \in Draft : journal[d].ops \in Seq(Operation) /\ journal[d].applied \in Nat
    BY DEF LedgerInv, TypeInv, TypeOK, Transaction
  <2>2. \A d \in Draft : Len(journal[d].ops) \in Nat
    BY <2>1
  <2>3. ASSUME UNCHANGED journal  PROVE JournalLanded'
    BY <2>1, <2>3, LandedUpToStays DEF ProgressInv, JournalLanded
  <2>4. ASSUME UNCHANGED <<journal, marker>>  PROVE MarkedLanded'
    BY <2>1, <2>2, <2>4, LandedUpToStays
      DEF ProgressInv, MarkedLanded, InUse, LedgerInv, TypeInv, TypeOK
  <2> QED
    BY <2>3, <2>4
<1>1. CASE UNCHANGED vars
  BY <1>1 DEF ProgressInv, JournalLanded, HeldLanded, StepLanded, MarkedLanded, vars, local
<1>2. ASSUME NEW d \in Draft, PrepareValidate(d)  PROVE ProgressInv'
  BY <1>2, <1>0 DEF ProgressInv, JournalLanded, HeldLanded, StepLanded, MarkedLanded,
    CommitPC, LedgerInv, TypeInv, TypeOK, HasArguments, PrepareValidate, host, local
<1>3. ASSUME NEW d \in Draft, PrepareStore(d)  PROVE ProgressInv'
  BY <1>3, <1>0 DEF ProgressInv, JournalLanded, HeldLanded, StepLanded, MarkedLanded,
    CommitPC, LedgerInv, TypeInv, TypeOK, HasArguments, PrepareStore, host, local
<1>4. ASSUME NEW r \in Receipt, NEW d \in Draft, IssueReceipt(r, d)  PROVE ProgressInv'
  BY <1>4, <1>0 DEF ProgressInv, JournalLanded, HeldLanded, StepLanded, MarkedLanded,
    CommitPC, LedgerInv, TypeInv, TypeOK, HasArguments, IssueReceipt, host, local
<1>5. ASSUME NEW r \in Receipt, ExpireReceipt(r)  PROVE ProgressInv'
  BY <1>5, <1>0 DEF ProgressInv, JournalLanded, HeldLanded, StepLanded, MarkedLanded,
    CommitPC, LedgerInv, TypeInv, TypeOK, HasArguments, ExpireReceipt, host, local
<1>6. ASSUME NEW q \in Path, EditSource(q)  PROVE ProgressInv'
  BY <1>6, <1>0 DEF ProgressInv, JournalLanded, HeldLanded, StepLanded, MarkedLanded,
    CommitPC, LedgerInv, TypeInv, TypeOK, HasArguments, EditSource, host, local
<1>7. ASSUME ClearStaleLock  PROVE ProgressInv'
  BY <1>7, <1>0 DEF ProgressInv, JournalLanded, HeldLanded, StepLanded, MarkedLanded,
    CommitPC, LedgerInv, TypeInv, TypeOK, HasArguments, ClearStaleLock, host, local
<1>8. ASSUME NEW p \in Proc, NEW d \in Draft, NEW r \in Receipt, BeginCommit(p, d, r)
      PROVE  ProgressInv'
  BY <1>8, <1>0 DEF ProgressInv, JournalLanded, HeldLanded, StepLanded, MarkedLanded,
    CommitPC, LedgerInv, TypeInv, TypeOK, HasArguments, BeginCommit, AcquireLock, Goto,
    host, local
<1>9. ASSUME NEW p \in Proc, BeginAdmin(p)  PROVE ProgressInv'
  BY <1>9, <1>0 DEF ProgressInv, JournalLanded, HeldLanded, StepLanded, MarkedLanded,
    CommitPC, LedgerInv, TypeInv, TypeOK, HasArguments, BeginAdmin, AcquireLock, Goto,
    host, local
<1>10. ASSUME NEW p \in Proc, NEW l \in AdminLine, AppendRecord(p, l)  PROVE ProgressInv'
  BY <1>10, <1>0 DEF ProgressInv, JournalLanded, HeldLanded, StepLanded, MarkedLanded,
    CommitPC, LedgerInv, TypeInv, TypeOK, HasArguments, AppendRecord, AdminPrepare,
    Goto, host, local
<1>11. ASSUME NEW p \in Proc, NEW q \in AdminPath, RegisterSource(p, q)  PROVE ProgressInv'
  BY <1>11, <1>0 DEF ProgressInv, JournalLanded, HeldLanded, StepLanded, MarkedLanded,
    CommitPC, LedgerInv, TypeInv, TypeOK, HasArguments, RegisterSource, AdminPrepare,
    Goto, host, local
<1>12. ASSUME NEW p \in Proc, Verify(p)  PROVE ProgressInv'
  BY <1>12, <1>0 DEF ProgressInv, JournalLanded, HeldLanded, StepLanded, MarkedLanded,
    CommitPC, LedgerInv, TypeInv, TypeOK, HasArguments, Verify, MayCommit, Goto, host,
    local
<1>13. ASSUME NEW p \in Proc, OpenJournal(p)  PROVE ProgressInv'
  <2> DEFINE d == arg[p].draft
             t == [status |-> "prepared", receipt |-> arg[p].receipt,
                   ops |-> Operations(d), applied |-> 0]
  <2>1. /\ d \in Draft /\ d \notin marker
        /\ journal' = [journal EXCEPT ![d] = t] /\ txn' = [txn EXCEPT ![p] = t]
        /\ pc' = [pc EXCEPT ![p] = "consume"] /\ UNCHANGED <<ledger, marker>>
        /\ pc[p] # "idle"
    BY <1>13
      DEF OpenJournal, Goto, host, LedgerInv, TypeInv, HasArguments, OpsInv, BeforeMark,
        CommitPC
  <2>2. t.applied = 0 /\ t.ops = Operations(d) /\ Operations(d) \in Seq(Operation)
    BY <2>1, OperationsType DEF LedgerInv, TypeInv
  <2>3. t.applied <= Len(t.ops) /\ LandedUpTo(ledger, t.ops, t.applied)
    BY <2>2 DEF LandedUpTo
  <2> HIDE DEF t, d
  <2>4. /\ journal'[d] = t /\ \A e \in Draft \ {d} : journal'[e] = journal[e]
        /\ txn'[p] = t /\ pc'[p] = "consume" /\ \A q \in Proc \ {p} : pc'[q] = "idle"
    BY <2>1, Alone DEF LedgerInv, TypeInv, TypeOK
  <2>5. JournalLanded' /\ MarkedLanded'
    BY <2>1, <2>3, <2>4 DEF ProgressInv, JournalLanded, MarkedLanded, LedgerInv, TypeInv, TypeOK
  <2>6. HeldLanded' /\ StepLanded'
    BY <2>1, <2>3, <2>4 DEF HeldLanded, StepLanded, CommitPC
  <2> QED
    BY <2>5, <2>6 DEF ProgressInv
<1>14. ASSUME NEW p \in Proc, ResumeJournal(p)  PROVE ProgressInv'
  BY <1>14, <1>0 DEF ProgressInv, JournalLanded, HeldLanded, StepLanded, MarkedLanded,
    CommitPC, LedgerInv, TypeInv, TypeOK, HasArguments, ResumeJournal, Goto, host, local
<1>15. ASSUME NEW p \in Proc, RefuseJournal(p)  PROVE ProgressInv'
  BY <1>15, <1>0 DEF ProgressInv, JournalLanded, HeldLanded, StepLanded, MarkedLanded,
    CommitPC, LedgerInv, TypeInv, TypeOK, HasArguments, RefuseJournal, Goto, host, local
<1>16. ASSUME NEW p \in Proc, ConsumeReceipt(p)  PROVE ProgressInv'
  BY <1>16, <1>0 DEF ProgressInv, JournalLanded, HeldLanded, StepLanded, MarkedLanded,
    CommitPC, LedgerInv, TypeInv, TypeOK, HasArguments, ConsumeReceipt, Goto, host,
    local
<1>17. ASSUME NEW p \in Proc, ResumeReceipt(p)  PROVE ProgressInv'
  BY <1>17, <1>0 DEF ProgressInv, JournalLanded, HeldLanded, StepLanded, MarkedLanded,
    CommitPC, LedgerInv, TypeInv, TypeOK, HasArguments, ResumeReceipt, Goto, host, local
<1>18. ASSUME NEW p \in Proc, RefuseReceipt(p)  PROVE ProgressInv'
  BY <1>18, <1>0 DEF ProgressInv, JournalLanded, HeldLanded, StepLanded, MarkedLanded,
    CommitPC, LedgerInv, TypeInv, TypeOK, HasArguments, RefuseReceipt, Goto, host, local
<1>19. ASSUME NEW p \in Proc, StartApplying(p)  PROVE ProgressInv'
  <2> DEFINE t == WithStatus(p, "applying")
  <2>1. txn[p] \in Transaction /\ step[p] \in Nat /\ step' \in [Proc -> Nat]
    BY <1>0 DEF LedgerInv, TypeInv, TypeOK
  <2>2. t \in Transaction /\ t.ops = txn[p].ops /\ t.applied = txn[p].applied /\ InUse(t)
    BY <2>1, WithStatusType DEF Status, InUse
  <2>3. t.applied <= Len(t.ops) /\ LandedUpTo(ledger, t.ops, t.applied)
    BY <1>19, <2>2 DEF StartApplying, ProgressInv, HeldLanded, CommitPC
  <2>4. /\ Store(p, t) \/ StoreFails(p, t)
        /\ pc[p] \in CommitPC \ {"verify", "load"} /\ UNCHANGED <<ledger, marker, arg>>
    BY <1>19 DEF StartApplying, CommitPC, host
  <2> HIDE DEF t
  <2>5. \E l \in {"check", "commit", "mark", "fail", "release"} :
              /\ pc' = [pc EXCEPT ![p] = l]
              /\ l = "check" => LandedUpTo(ledger, t.ops, step'[p] - 1)
              /\ l \in {"commit", "mark"} => LandedUpTo(ledger, t.ops, Len(t.ops))
    <3>1. step'[p] = 1 /\ \E l \in {"check", "release"} : pc' = [pc EXCEPT ![p] = l]
      BY <1>19 DEF StartApplying, Goto, LedgerInv, TypeInv, TypeOK
    <3>2. LandedUpTo(ledger, t.ops, step'[p] - 1)
      BY <3>1 DEF LandedUpTo
    <3> QED
      BY <3>1, <3>2
  <2> QED
    BY <2>2, <2>3, <2>4, <2>5, StoreKeepsProgress
<1>20. ASSUME NEW p \in Proc, CheckOperation(p)  PROVE ProgressInv'
  <2> DEFINE op == txn[p].ops[step[p]]
  <2>1. /\ pc[p] = "check" /\ UNCHANGED <<ledger, journal, marker, txn, step>>
        /\ \/ pc'[p] = "progress" /\ ledger[op.target] = op.after
           \/ pc'[p] \in {"replace", "fail"}
        /\ \A q \in Proc \ {p} : pc'[q] = "idle"
    BY <1>20, Alone DEF CheckOperation, OpState, Goto, host, LedgerInv, TypeInv, TypeOK
  <2>2. /\ step[p] \in 1..Len(txn[p].ops) /\ op \in Operation
        /\ LandedUpTo(ledger, txn[p].ops, step[p] - 1)
    BY <2>1, CurrentOperation DEF ProgressInv, StepLanded, LedgerInv, TypeInv, HasOperations
  <2>3. ledger[op.target] = op.after => LandedUpTo(ledger, txn[p].ops, step[p])
    <3>1. op.after \in Seq(Entry)
      BY <2>2 DEF Operation
    <3> QED
      BY <2>2, <3>1, PrefixReflexive DEF LandedUpTo, Landed
  <2>4. StepLanded'
    BY <2>1, <2>2, <2>3 DEF StepLanded
  <2> QED
    BY <2>1, <2>4 DEF ProgressInv, JournalLanded, HeldLanded, MarkedLanded, CommitPC
<1>21. ASSUME NEW p \in Proc, ReplaceTarget(p)  PROVE ProgressInv'
  <2> DEFINE op == txn[p].ops[step[p]]
  <2>1. /\ pc[p] = "replace" /\ UNCHANGED <<journal, marker, txn, step>>
        /\ pc'[p] \in {"progress", "fail"} /\ \A q \in Proc \ {p} : pc'[q] = "idle"
        /\ Rename(op)
    BY <1>21, Alone DEF ReplaceTarget, Goto, host, LedgerInv, TypeInv, TypeOK
  <2>2. /\ step[p] \in 1..Len(txn[p].ops) /\ op \in Operation /\ step[p] - 1 \in Nat
        /\ LandedUpTo(ledger, txn[p].ops, step[p] - 1) /\ txn[p].ops \in Seq(Operation)
    BY <2>1, CurrentOperation
      DEF ProgressInv, StepLanded, LedgerInv, TypeInv, TypeOK, Transaction, HasOperations
  <2>3. LandedUpTo(ledger', txn[p].ops, step[p])
    <3>1. op.after \in Seq(Entry) /\ ledger'[op.target] = op.after
      BY <2>1, <2>2 DEF Operation, Rename, LedgerInv, TypeInv, TypeOK, Ledger
    <3>2. LandedUpTo(ledger', txn[p].ops, step[p] - 1)
      BY <2>2, LandedUpToStays
    <3>3. Landed(ledger', op)
      BY <3>1, PrefixReflexive DEF Landed
    <3>4. \A i \in 1..step[p] : i \in 1..(step[p] - 1) \/ i = step[p]
      BY <2>2
    <3> QED
      BY <3>2, <3>3, <3>4 DEF LandedUpTo
  <2>4. StepLanded'
    BY <2>1, <2>3 DEF StepLanded
  <2>5. /\ txn[p].applied \in Nat /\ txn[p].applied <= Len(txn[p].ops)
        /\ LandedUpTo(ledger, txn[p].ops, txn[p].applied)
    BY <2>1 DEF ProgressInv, HeldLanded, CommitPC, LedgerInv, TypeInv, TypeOK, Transaction
  <2>6. HeldLanded'
    BY <2>1, <2>2, <2>5, LandedUpToStays DEF HeldLanded, CommitPC
  <2> QED
    BY <2>1, <2>4, <2>6, <1>a DEF ProgressInv
<1>22. ASSUME NEW p \in Proc, StoreProgress(p)  PROVE ProgressInv'
  <2> DEFINE t == [txn[p] EXCEPT !.applied = step[p]]
  <2>1. txn[p] \in Transaction /\ step[p] \in Nat /\ step' \in [Proc -> Nat]
    BY <1>0 DEF LedgerInv, TypeInv, TypeOK
  <2>2. t \in Transaction /\ t.ops = txn[p].ops /\ t.applied = step[p] /\ InUse(t)
    BY <1>22, <2>1, TransactionUpdates
      DEF StoreProgress, ReceiptInv, HeldReceipt, CommitPC, InUse, Transaction
  <2>3. t.applied <= Len(t.ops) /\ LandedUpTo(ledger, t.ops, t.applied)
    BY <1>22, <2>2 DEF StoreProgress, ProgressInv, StepLanded, LedgerInv, TypeInv, HasOperations
  <2>4. /\ Store(p, t) \/ StoreFails(p, t)
        /\ pc[p] \in CommitPC \ {"verify", "load"} /\ UNCHANGED <<ledger, marker, arg>>
    BY <1>22 DEF StoreProgress, CommitPC, host
  <2> HIDE DEF t
  <2>5. \E l \in {"check", "commit", "mark", "fail", "release"} :
              /\ pc' = [pc EXCEPT ![p] = l]
              /\ l = "check" => LandedUpTo(ledger, t.ops, step'[p] - 1)
              /\ l \in {"commit", "mark"} => LandedUpTo(ledger, t.ops, Len(t.ops))
    <3>1. \/ \E l \in {"commit", "fail"} : /\ pc' = [pc EXCEPT ![p] = l]
                                           /\ l = "commit" => step[p] = Len(txn[p].ops)
          \/ pc' = [pc EXCEPT ![p] = "check"] /\ step'[p] = step[p] + 1
      BY <1>22, <2>1 DEF StoreProgress, Goto, LedgerInv, TypeInv, TypeOK
    <3>2. step[p] + 1 - 1 = step[p]
      BY <2>1
    <3>3. LandedUpTo(ledger, t.ops, step[p])
      BY <2>2, <2>3
    <3>4. CASE pc' = [pc EXCEPT ![p] = "check"] /\ step'[p] = step[p] + 1
      <4>1. step'[p] - 1 = step[p]
        BY <2>1, <3>4
      <4> QED
        BY <3>3, <3>4, <4>1
    <3>5. CASE \E l \in {"commit", "fail"} : /\ pc' = [pc EXCEPT ![p] = l]
                                             /\ l = "commit" => step[p] = Len(txn[p].ops)
      BY <2>2, <3>3, <3>5
    <3> QED
      BY <3>1, <3>4, <3>5
  <2> QED
    BY <2>2, <2>3, <2>4, <2>5, StoreKeepsProgress
<1>23. ASSUME NEW p \in Proc, StoreCommitted(p)  PROVE ProgressInv'
  <2> DEFINE t == WithStatus(p, "canonical_committed")
  <2>1. txn[p] \in Transaction /\ step[p] \in Nat /\ step' \in [Proc -> Nat]
    BY <1>0 DEF LedgerInv, TypeInv, TypeOK
  <2>2. t \in Transaction /\ t.ops = txn[p].ops /\ t.applied = txn[p].applied /\ InUse(t)
    BY <2>1, WithStatusType DEF Status, InUse
  <2>3. t.applied <= Len(t.ops) /\ LandedUpTo(ledger, t.ops, t.applied)
    BY <1>23, <2>2 DEF StoreCommitted, ProgressInv, HeldLanded, CommitPC
  <2>4. /\ Store(p, t) \/ StoreFails(p, t)
        /\ pc[p] \in CommitPC \ {"verify", "load"} /\ UNCHANGED <<ledger, marker, arg>>
    BY <1>23 DEF StoreCommitted, CommitPC, host
  <2> HIDE DEF t
  <2>5. \E l \in {"check", "commit", "mark", "fail", "release"} :
              /\ pc' = [pc EXCEPT ![p] = l]
              /\ l = "check" => LandedUpTo(ledger, t.ops, step'[p] - 1)
              /\ l \in {"commit", "mark"} => LandedUpTo(ledger, t.ops, Len(t.ops))
    <3>1. pc[p] = "commit" /\ \E l \in {"mark", "fail"} : pc' = [pc EXCEPT ![p] = l]
      BY <1>23 DEF StoreCommitted, Goto
    <3> QED
      BY <2>2, <3>1 DEF ProgressInv, StepLanded
  <2> QED
    BY <2>2, <2>3, <2>4, <2>5, StoreKeepsProgress
<1>24. ASSUME NEW p \in Proc, CreateMarker(p)  PROVE ProgressInv'
  <2>1. /\ pc[p] = "mark" /\ UNCHANGED <<ledger, journal, txn, step>>
        /\ marker' \subseteq marker \cup {arg[p].draft}
        /\ pc'[p] \in {"finalize", "fail"} /\ \A q \in Proc \ {p} : pc'[q] = "idle"
    BY <1>24, Alone DEF CreateMarker, Goto, host, LedgerInv, TypeInv, TypeOK
  <2>2. /\ InUse(journal[arg[p].draft]) /\ journal[arg[p].draft].ops = txn[p].ops
        /\ LandedUpTo(ledger, txn[p].ops, Len(txn[p].ops))
    BY <2>1 DEF OpsInv, HeldOps, ProgressInv, StepLanded, CommitPC
  <2>3. MarkedLanded'
    BY <2>1, <2>2 DEF ProgressInv, MarkedLanded
  <2>4. HeldLanded' /\ StepLanded'
    BY <2>1 DEF ProgressInv, HeldLanded, StepLanded, CommitPC
  <2> QED
    BY <2>1, <2>3, <2>4 DEF ProgressInv, JournalLanded
<1>25. ASSUME NEW p \in Proc, RecordFailure(p)  PROVE ProgressInv'
  <2> DEFINE t == WithStatus(p, "failed_recoverable")
  <2>1. txn[p] \in Transaction /\ step[p] \in Nat /\ step' \in [Proc -> Nat]
    BY <1>0 DEF LedgerInv, TypeInv, TypeOK
  <2>2. t \in Transaction /\ t.ops = txn[p].ops /\ t.applied = txn[p].applied /\ InUse(t)
    BY <2>1, WithStatusType DEF Status, InUse
  <2>3. t.applied <= Len(t.ops) /\ LandedUpTo(ledger, t.ops, t.applied)
    BY <1>25, <2>2 DEF RecordFailure, ProgressInv, HeldLanded, CommitPC
  <2>4. /\ Store(p, t) \/ StoreFails(p, t)
        /\ pc[p] \in CommitPC \ {"verify", "load"} /\ UNCHANGED <<ledger, marker, arg>>
    BY <1>25 DEF RecordFailure, CommitPC, host
  <2> HIDE DEF t
  <2>5. \E l \in {"check", "commit", "mark", "fail", "release"} :
              /\ pc' = [pc EXCEPT ![p] = l]
              /\ l = "check" => LandedUpTo(ledger, t.ops, step'[p] - 1)
              /\ l \in {"commit", "mark"} => LandedUpTo(ledger, t.ops, Len(t.ops))
    BY <1>25 DEF RecordFailure, Goto
  <2> QED
    BY <2>2, <2>3, <2>4, <2>5, StoreKeepsProgress
<1>26. ASSUME NEW p \in Proc, Finalize(p)  PROVE ProgressInv'
  <2> DEFINE t == WithStatus(p, "committed")
  <2>1. txn[p] \in Transaction /\ step[p] \in Nat /\ step' \in [Proc -> Nat]
    BY <1>0 DEF LedgerInv, TypeInv, TypeOK
  <2>2. t \in Transaction /\ t.ops = txn[p].ops /\ t.applied = txn[p].applied /\ InUse(t)
    BY <2>1, WithStatusType DEF Status, InUse
  <2>3. t.applied <= Len(t.ops) /\ LandedUpTo(ledger, t.ops, t.applied)
    BY <1>26, <2>2 DEF Finalize, ProgressInv, HeldLanded, CommitPC
  <2>4. /\ Store(p, t) \/ StoreFails(p, t)
        /\ pc[p] \in CommitPC \ {"verify", "load"} /\ UNCHANGED <<ledger, marker, arg>>
    BY <1>26 DEF Finalize, CommitPC, host
  <2> HIDE DEF t
  <2>5. \E l \in {"check", "commit", "mark", "fail", "release"} :
              /\ pc' = [pc EXCEPT ![p] = l]
              /\ l = "check" => LandedUpTo(ledger, t.ops, step'[p] - 1)
              /\ l \in {"commit", "mark"} => LandedUpTo(ledger, t.ops, Len(t.ops))
    BY <1>26 DEF Finalize, Goto
  <2> QED
    BY <2>2, <2>3, <2>4, <2>5, StoreKeepsProgress
<1>27. ASSUME NEW p \in Proc, ReleaseLock(p)  PROVE ProgressInv'
  BY <1>27, <1>0 DEF ProgressInv, JournalLanded, HeldLanded, StepLanded, MarkedLanded,
    CommitPC, LedgerInv, TypeInv, TypeOK, HasArguments, ReleaseLock, Forget, Goto, host,
    local
<1>28. ASSUME NEW p \in Proc, AdminRefused(p)  PROVE ProgressInv'
  BY <1>28, <1>0 DEF ProgressInv, JournalLanded, HeldLanded, StepLanded, MarkedLanded,
    CommitPC, LedgerInv, TypeInv, TypeOK, HasArguments, AdminRefused, Goto, host, local
<1>29. ASSUME NEW p \in Proc, AdminReplace(p)  PROVE ProgressInv'
  <2>1. /\ pc[p] = "adminReplace" /\ UNCHANGED <<journal, marker, txn>>
        /\ \A q \in Proc : pc'[q] \in {"idle", "release"}
    BY <1>29, Alone DEF AdminReplace, Goto, host, LedgerInv, TypeInv, TypeOK
  <2> QED
    BY <2>1, <1>a DEF ProgressInv, HeldLanded, StepLanded, CommitPC
<1>30. ASSUME NEW p \in Proc, Crash(p)  PROVE ProgressInv'
  BY <1>30, <1>0 DEF ProgressInv, JournalLanded, HeldLanded, StepLanded, MarkedLanded,
    CommitPC, LedgerInv, TypeInv, TypeOK, HasArguments, Crash, Forget, Goto, host, local
<1>31. ASSUME NEW p \in Proc, TearJournal(p)  PROVE ProgressInv'
  <2>1. /\ arg[p].draft \in Draft /\ ~InUse(journal[arg[p].draft])
        /\ UNCHANGED <<ledger, marker>>
    BY <1>31 DEF TearJournal, LedgerInv, TypeInv, HasArguments, CommitPC, InUse, host
  <2>2. \A d \in Draft : /\ journal'[d].ops = journal[d].ops
                         /\ journal'[d].applied = journal[d].applied
                         /\ InUse(journal[d]) => InUse(journal'[d])
    BY <1>31, <2>1 DEF TearJournal, LedgerInv, TypeInv, TypeOK, Transaction, InUse
  <2>3. JournalLanded' /\ MarkedLanded'
    BY <2>1, <2>2
      DEF ProgressInv, JournalLanded, MarkedLanded, InUse, LedgerInv, TypeInv, TypeOK
  <2>4. \A q \in Proc : pc'[q] = "idle"
    BY <1>31, Alone DEF TearJournal, Forget, Goto, LedgerInv, TypeInv, TypeOK
  <2>5. HeldLanded' /\ StepLanded'
    BY <2>4 DEF HeldLanded, StepLanded, CommitPC
  <2> QED
    BY <2>3, <2>5 DEF ProgressInv
<1>32. ASSUME NEW p \in Proc, TearConsumption(p)  PROVE ProgressInv'
  BY <1>32, <1>0 DEF ProgressInv, JournalLanded, HeldLanded, StepLanded, MarkedLanded,
    CommitPC, LedgerInv, TypeInv, TypeOK, HasArguments, TearConsumption, Goto, host,
    local
<1>33. ASSUME NEW p \in Proc, CheckFails(p)  PROVE ProgressInv'
  BY <1>33, <1>0 DEF ProgressInv, JournalLanded, HeldLanded, StepLanded, MarkedLanded,
    CommitPC, LedgerInv, TypeInv, TypeOK, HasArguments, CheckFails, Goto, host, local
<1>34. ASSUME NEW p \in Proc, ReplaceFails(p)  PROVE ProgressInv'
  BY <1>34, <1>0 DEF ProgressInv, JournalLanded, HeldLanded, StepLanded, MarkedLanded,
    CommitPC, LedgerInv, TypeInv, TypeOK, HasArguments, ReplaceFails, Goto, host, local
<1> QED
  BY <1>1, <1>2, <1>3, <1>4, <1>5, <1>6, <1>7, <1>8, <1>9, <1>10, <1>11, <1>12, <1>13,
     <1>14, <1>15, <1>16, <1>17, <1>18, <1>19, <1>20, <1>21, <1>22, <1>23, <1>24, <1>25,
     <1>26, <1>27, <1>28, <1>29, <1>30, <1>31, <1>32, <1>33, <1>34
  DEF Next, Environment, Begin, Advance, Misfortune
-----------------------------------------------------------------------------
(* Status.  A journal says that it was started before the first operation  *)
(* is looked at, and never again that it was not.                          *)

Started == {"applying", "canonical_committed", "failed_recoverable"}

StartedPC == {"check", "replace", "progress", "commit", "mark", "fail", "finalize"}

StartedStatus ==
    \A p \in Proc : pc[p] \in StartedPC =>
        journal[arg[p].draft].status \in Started /\ txn[p].status \in Started

CommittedStatus == \A d \in Draft : journal[d].status = "committed" => d \in marker

UntouchedStatus ==
    \A d \in Draft : journal[d].status \in {"none", "torn", "prepared"} => writes[d] = 0

StatusInv == StartedStatus /\ CommittedStatus /\ UntouchedStatus

LEMMA StatusInvInit == Init => StatusInv
BY DEF Init, StatusInv, StartedStatus, CommittedStatus, UntouchedStatus, StartedPC, NoTxn

(* Once started, a journal is stored with a status that says so.           *)
LEMMA StoreKeepsStatus ==
    ASSUME LedgerInv, OpsInv, StatusInv, NEW p \in Proc, NEW t \in Transaction,
           pc[p] \in CommitPC \ {"verify", "load"},
           t.status \in Started \/ (t.status = "committed" /\ arg[p].draft \in marker),
           pc[p] \in StartedPC \/ Store(p, t) \/ pc' = [pc EXCEPT ![p] = "release"],
           Store(p, t) \/ StoreFails(p, t), UNCHANGED <<marker, arg, writes>>,
           NEW l \in {"check", "commit", "mark", "fail", "release"},
           pc' = [pc EXCEPT ![p] = l], t.status \in Started \/ l = "release"
    PROVE  StatusInv'
<1>1. /\ txn'[p] = t /\ arg[p].draft \in Draft
      /\ journal'[arg[p].draft] \in {t, journal[arg[p].draft]}
      /\ Store(p, t) => journal'[arg[p].draft] = t
      /\ \A d \in Draft \ {arg[p].draft} : journal'[d] = journal[d]
  BY StoreType DEF LedgerInv, TypeInv, TypeOK, HasArguments, Store
<1>2. pc'[p] = l /\ \A q \in Proc \ {p} : pc'[q] = "idle"
  BY Alone DEF LedgerInv, TypeInv, TypeOK, CommitPC
<1>3. StartedStatus'
  BY <1>1, <1>2 DEF StatusInv, StartedStatus, StartedPC, LedgerInv, TypeInv, TypeOK
<1>4. CommittedStatus' /\ UntouchedStatus'
  BY <1>1 DEF StatusInv, CommittedStatus, UntouchedStatus, Started
<1> QED
  BY <1>3, <1>4 DEF StatusInv


(* No step makes a transaction that wrote look as if it had not started.   *)
LEMMA StatusInvInductive ==
    ASSUME LedgerInv, OpsInv, StatusInv, [Next]_vars
    PROVE  StatusInv'
<1>0. TypeInv'
  BY TypeInvInductive DEF LedgerInv
<1>1. CASE UNCHANGED vars
  BY <1>1 DEF StatusInv, StartedStatus, CommittedStatus, UntouchedStatus, vars, local
<1>2. ASSUME NEW d \in Draft, PrepareValidate(d)  PROVE StatusInv'
  BY <1>2, <1>0 DEF StatusInv, StartedStatus, CommittedStatus, UntouchedStatus,
    StartedPC, CommitPC, LedgerInv, TypeInv, TypeOK, HasArguments, PrepareValidate,
    host, local
<1>3. ASSUME NEW d \in Draft, PrepareStore(d)  PROVE StatusInv'
  BY <1>3, <1>0 DEF StatusInv, StartedStatus, CommittedStatus, UntouchedStatus,
    StartedPC, CommitPC, LedgerInv, TypeInv, TypeOK, HasArguments, PrepareStore, host,
    local
<1>4. ASSUME NEW r \in Receipt, NEW d \in Draft, IssueReceipt(r, d)  PROVE StatusInv'
  BY <1>4, <1>0 DEF StatusInv, StartedStatus, CommittedStatus, UntouchedStatus,
    StartedPC, CommitPC, LedgerInv, TypeInv, TypeOK, HasArguments, IssueReceipt, host,
    local
<1>5. ASSUME NEW r \in Receipt, ExpireReceipt(r)  PROVE StatusInv'
  BY <1>5, <1>0 DEF StatusInv, StartedStatus, CommittedStatus, UntouchedStatus,
    StartedPC, CommitPC, LedgerInv, TypeInv, TypeOK, HasArguments, ExpireReceipt, host,
    local
<1>6. ASSUME NEW q \in Path, EditSource(q)  PROVE StatusInv'
  BY <1>6, <1>0 DEF StatusInv, StartedStatus, CommittedStatus, UntouchedStatus,
    StartedPC, CommitPC, LedgerInv, TypeInv, TypeOK, HasArguments, EditSource, host,
    local
<1>7. ASSUME ClearStaleLock  PROVE StatusInv'
  BY <1>7, <1>0 DEF StatusInv, StartedStatus, CommittedStatus, UntouchedStatus,
    StartedPC, CommitPC, LedgerInv, TypeInv, TypeOK, HasArguments, ClearStaleLock, host,
    local
<1>8. ASSUME NEW p \in Proc, NEW d \in Draft, NEW r \in Receipt, BeginCommit(p, d, r)
      PROVE  StatusInv'
  BY <1>8, <1>0 DEF StatusInv, StartedStatus, CommittedStatus, UntouchedStatus,
    StartedPC, CommitPC, LedgerInv, TypeInv, TypeOK, HasArguments, BeginCommit,
    AcquireLock, Goto, host, local
<1>9. ASSUME NEW p \in Proc, BeginAdmin(p)  PROVE StatusInv'
  BY <1>9, <1>0 DEF StatusInv, StartedStatus, CommittedStatus, UntouchedStatus,
    StartedPC, CommitPC, LedgerInv, TypeInv, TypeOK, HasArguments, BeginAdmin,
    AcquireLock, Goto, host, local
<1>10. ASSUME NEW p \in Proc, NEW l \in AdminLine, AppendRecord(p, l)  PROVE StatusInv'
  BY <1>10, <1>0 DEF StatusInv, StartedStatus, CommittedStatus, UntouchedStatus,
    StartedPC, CommitPC, LedgerInv, TypeInv, TypeOK, HasArguments, AppendRecord,
    AdminPrepare, Goto, host, local
<1>11. ASSUME NEW p \in Proc, NEW q \in AdminPath, RegisterSource(p, q)  PROVE StatusInv'
  BY <1>11, <1>0 DEF StatusInv, StartedStatus, CommittedStatus, UntouchedStatus,
    StartedPC, CommitPC, LedgerInv, TypeInv, TypeOK, HasArguments, RegisterSource,
    AdminPrepare, Goto, host, local
<1>12. ASSUME NEW p \in Proc, Verify(p)  PROVE StatusInv'
  BY <1>12, <1>0 DEF StatusInv, StartedStatus, CommittedStatus, UntouchedStatus,
    StartedPC, CommitPC, LedgerInv, TypeInv, TypeOK, HasArguments, Verify, MayCommit,
    Goto, host, local
<1>13. ASSUME NEW p \in Proc, OpenJournal(p)  PROVE StatusInv'
  <2>1. /\ arg[p].draft \in Draft /\ journal[arg[p].draft].status = "none"
        /\ \A d \in Draft \ {arg[p].draft} : journal'[d] = journal[d]
        /\ journal'[arg[p].draft].status = "prepared" /\ UNCHANGED <<marker, writes>>
        /\ pc[p] # "idle" /\ pc' = [pc EXCEPT ![p] = "consume"]
    BY <1>13
      DEF OpenJournal, Goto, LedgerInv, TypeInv, TypeOK, HasArguments, CommitPC
  <2>2. \A q \in Proc : pc'[q] \notin StartedPC
    BY <2>1, Alone DEF StartedPC, LedgerInv, TypeInv, TypeOK
  <2> QED
    BY <2>1, <2>2 DEF StatusInv, StartedStatus, CommittedStatus, UntouchedStatus
<1>14. ASSUME NEW p \in Proc, ResumeJournal(p)  PROVE StatusInv'
  BY <1>14, <1>0 DEF StatusInv, StartedStatus, CommittedStatus, UntouchedStatus,
    StartedPC, CommitPC, LedgerInv, TypeInv, TypeOK, HasArguments, ResumeJournal, Goto,
    host, local
<1>15. ASSUME NEW p \in Proc, RefuseJournal(p)  PROVE StatusInv'
  BY <1>15, <1>0 DEF StatusInv, StartedStatus, CommittedStatus, UntouchedStatus,
    StartedPC, CommitPC, LedgerInv, TypeInv, TypeOK, HasArguments, RefuseJournal, Goto,
    host, local
<1>16. ASSUME NEW p \in Proc, ConsumeReceipt(p)  PROVE StatusInv'
  BY <1>16, <1>0 DEF StatusInv, StartedStatus, CommittedStatus, UntouchedStatus,
    StartedPC, CommitPC, LedgerInv, TypeInv, TypeOK, HasArguments, ConsumeReceipt, Goto,
    host, local
<1>17. ASSUME NEW p \in Proc, ResumeReceipt(p)  PROVE StatusInv'
  BY <1>17, <1>0 DEF StatusInv, StartedStatus, CommittedStatus, UntouchedStatus,
    StartedPC, CommitPC, LedgerInv, TypeInv, TypeOK, HasArguments, ResumeReceipt, Goto,
    host, local
<1>18. ASSUME NEW p \in Proc, RefuseReceipt(p)  PROVE StatusInv'
  BY <1>18, <1>0 DEF StatusInv, StartedStatus, CommittedStatus, UntouchedStatus,
    StartedPC, CommitPC, LedgerInv, TypeInv, TypeOK, HasArguments, RefuseReceipt, Goto,
    host, local
<1>19. ASSUME NEW p \in Proc, StartApplying(p)  PROVE StatusInv'
  <2> DEFINE t == WithStatus(p, "applying")
  <2>1. txn[p] \in Transaction
    BY DEF LedgerInv, TypeInv, TypeOK
  <2>2. t \in Transaction /\ t.status = "applying"
    BY <2>1, WithStatusType DEF Status
  <2>3. /\ Store(p, t) \/ StoreFails(p, t)
        /\ pc[p] \in CommitPC \ {"verify", "load"} /\ UNCHANGED <<marker, arg, writes>>
        /\ pc[p] \in StartedPC \/ Store(p, t) \/ pc' = [pc EXCEPT ![p] = "release"]
        /\ \E l \in {"check", "release"} : pc' = [pc EXCEPT ![p] = l]
    BY <1>19 DEF StartApplying, CommitPC, StartedPC, Goto
  <2> HIDE DEF t
  <2> QED
    BY <2>2, <2>3, StoreKeepsStatus DEF Started
<1>20. ASSUME NEW p \in Proc, CheckOperation(p)  PROVE StatusInv'
  BY <1>20, <1>0 DEF StatusInv, StartedStatus, CommittedStatus, UntouchedStatus,
    StartedPC, CommitPC, LedgerInv, TypeInv, TypeOK, HasArguments, CheckOperation, Goto,
    host, local
<1>21. ASSUME NEW p \in Proc, ReplaceTarget(p)  PROVE StatusInv'
  <2>1. /\ pc[p] = "replace" /\ UNCHANGED <<journal, marker, arg, txn>>
        /\ \E l \in {"progress", "fail"} : pc' = [pc EXCEPT ![p] = l]
        /\ \A d \in Draft \ {arg[p].draft} : writes'[d] = writes[d]
    BY <1>21 DEF ReplaceTarget, Goto, LedgerInv, TypeInv, TypeOK
  <2>2. journal[arg[p].draft].status \in Started
    BY <2>1 DEF StatusInv, StartedStatus, StartedPC
  <2>3. UntouchedStatus'
    BY <2>1, <2>2 DEF StatusInv, UntouchedStatus, Started
  <2>4. StartedStatus'
    BY <2>1 DEF StatusInv, StartedStatus, StartedPC, LedgerInv, TypeInv, TypeOK
  <2> QED
    BY <2>1, <2>3, <2>4 DEF StatusInv, CommittedStatus
<1>22. ASSUME NEW p \in Proc, StoreProgress(p)  PROVE StatusInv'
  <2> DEFINE t == [txn[p] EXCEPT !.applied = step[p]]
  <2>1. txn[p] \in Transaction /\ step[p] \in Nat
    BY DEF LedgerInv, TypeInv, TypeOK
  <2>2. t \in Transaction /\ t.status \in Started
    BY <1>22, <2>1, TransactionUpdates
      DEF StoreProgress, StatusInv, StartedStatus, StartedPC, Transaction
  <2>3. /\ Store(p, t) \/ StoreFails(p, t)
        /\ pc[p] \in CommitPC \ {"verify", "load"} /\ UNCHANGED <<marker, arg, writes>>
        /\ pc[p] \in StartedPC \/ Store(p, t) \/ pc' = [pc EXCEPT ![p] = "release"]
        /\ \E l \in {"check", "commit", "fail"} : pc' = [pc EXCEPT ![p] = l]
    BY <1>22 DEF StoreProgress, CommitPC, StartedPC, Goto
  <2> HIDE DEF t
  <2> QED
    BY <2>2, <2>3, StoreKeepsStatus DEF Started
<1>23. ASSUME NEW p \in Proc, StoreCommitted(p)  PROVE StatusInv'
  <2> DEFINE t == WithStatus(p, "canonical_committed")
  <2>1. txn[p] \in Transaction
    BY DEF LedgerInv, TypeInv, TypeOK
  <2>2. t \in Transaction /\ t.status = "canonical_committed"
    BY <2>1, WithStatusType DEF Status
  <2>3. /\ Store(p, t) \/ StoreFails(p, t)
        /\ pc[p] \in CommitPC \ {"verify", "load"} /\ UNCHANGED <<marker, arg, writes>>
        /\ pc[p] \in StartedPC \/ Store(p, t) \/ pc' = [pc EXCEPT ![p] = "release"]
        /\ \E l \in {"mark", "fail"} : pc' = [pc EXCEPT ![p] = l]
    BY <1>23 DEF StoreCommitted, CommitPC, StartedPC, Goto
  <2> HIDE DEF t
  <2> QED
    BY <2>2, <2>3, StoreKeepsStatus DEF Started
<1>24. ASSUME NEW p \in Proc, CreateMarker(p)  PROVE StatusInv'
  BY <1>24, <1>0 DEF StatusInv, StartedStatus, CommittedStatus, UntouchedStatus,
    StartedPC, CommitPC, LedgerInv, TypeInv, TypeOK, HasArguments, CreateMarker, Goto,
    host, local
<1>25. ASSUME NEW p \in Proc, RecordFailure(p)  PROVE StatusInv'
  <2> DEFINE t == WithStatus(p, "failed_recoverable")
  <2>1. txn[p] \in Transaction
    BY DEF LedgerInv, TypeInv, TypeOK
  <2>2. t \in Transaction /\ t.status = "failed_recoverable"
    BY <2>1, WithStatusType DEF Status
  <2>3. /\ Store(p, t) \/ StoreFails(p, t)
        /\ pc[p] \in CommitPC \ {"verify", "load"} /\ UNCHANGED <<marker, arg, writes>>
        /\ pc[p] \in StartedPC \/ Store(p, t) \/ pc' = [pc EXCEPT ![p] = "release"]
        /\ \E l \in {"release"} : pc' = [pc EXCEPT ![p] = l]
    BY <1>25 DEF RecordFailure, CommitPC, StartedPC, Goto
  <2> HIDE DEF t
  <2> QED
    BY <2>2, <2>3, StoreKeepsStatus DEF Started
<1>26. ASSUME NEW p \in Proc, Finalize(p)  PROVE StatusInv'
  <2> DEFINE t == WithStatus(p, "committed")
  <2>1. txn[p] \in Transaction
    BY DEF LedgerInv, TypeInv, TypeOK
  <2>2. t \in Transaction /\ t.status = "committed"
    BY <2>1, WithStatusType DEF Status
  <2>3. /\ Store(p, t) \/ StoreFails(p, t)
        /\ pc[p] \in CommitPC \ {"verify", "load"} /\ UNCHANGED <<marker, arg, writes>>
        /\ pc[p] \in StartedPC \/ Store(p, t) \/ pc' = [pc EXCEPT ![p] = "release"]
        /\ \E l \in {"release"} : pc' = [pc EXCEPT ![p] = l]
    BY <1>26 DEF Finalize, CommitPC, StartedPC, Goto
  <2>4. arg[p].draft \in marker
    BY <1>26 DEF Finalize, OpsInv, BeforeMark
  <2> HIDE DEF t
  <2> QED
    BY <2>2, <2>3, <2>4, StoreKeepsStatus DEF Started
<1>27. ASSUME NEW p \in Proc, ReleaseLock(p)  PROVE StatusInv'
  BY <1>27, <1>0 DEF StatusInv, StartedStatus, CommittedStatus, UntouchedStatus,
    StartedPC, CommitPC, LedgerInv, TypeInv, TypeOK, HasArguments, ReleaseLock, Forget,
    Goto, host, local
<1>28. ASSUME NEW p \in Proc, AdminRefused(p)  PROVE StatusInv'
  BY <1>28, <1>0 DEF StatusInv, StartedStatus, CommittedStatus, UntouchedStatus,
    StartedPC, CommitPC, LedgerInv, TypeInv, TypeOK, HasArguments, AdminRefused, Goto,
    host, local
<1>29. ASSUME NEW p \in Proc, AdminReplace(p)  PROVE StatusInv'
  BY <1>29, <1>0 DEF StatusInv, StartedStatus, CommittedStatus, UntouchedStatus,
    StartedPC, CommitPC, LedgerInv, TypeInv, TypeOK, HasArguments, AdminReplace, Goto,
    host, local
<1>30. ASSUME NEW p \in Proc, Crash(p)  PROVE StatusInv'
  BY <1>30, <1>0 DEF StatusInv, StartedStatus, CommittedStatus, UntouchedStatus,
    StartedPC, CommitPC, LedgerInv, TypeInv, TypeOK, HasArguments, Crash, Forget, Goto,
    host, local
<1>31. ASSUME NEW p \in Proc, TearJournal(p)  PROVE StatusInv'
  <2>1. /\ arg[p].draft \in Draft /\ journal[arg[p].draft].status = "none"
        /\ \A d \in Draft \ {arg[p].draft} : journal'[d] = journal[d]
        /\ journal'[arg[p].draft].status = "torn" /\ UNCHANGED <<marker, writes>>
        /\ pc[p] # "idle" /\ pc' = [pc EXCEPT ![p] = "idle"]
    BY <1>31
      DEF TearJournal, Forget, Goto, LedgerInv, TypeInv, TypeOK, HasArguments, CommitPC,
        Transaction
  <2>2. \A q \in Proc : pc'[q] \notin StartedPC
    BY <2>1, Alone DEF StartedPC, LedgerInv, TypeInv, TypeOK
  <2> QED
    BY <2>1, <2>2 DEF StatusInv, StartedStatus, CommittedStatus, UntouchedStatus
<1>32. ASSUME NEW p \in Proc, TearConsumption(p)  PROVE StatusInv'
  BY <1>32, <1>0 DEF StatusInv, StartedStatus, CommittedStatus, UntouchedStatus,
    StartedPC, CommitPC, LedgerInv, TypeInv, TypeOK, HasArguments, TearConsumption,
    Goto, host, local
<1>33. ASSUME NEW p \in Proc, CheckFails(p)  PROVE StatusInv'
  BY <1>33, <1>0 DEF StatusInv, StartedStatus, CommittedStatus, UntouchedStatus,
    StartedPC, CommitPC, LedgerInv, TypeInv, TypeOK, HasArguments, CheckFails, Goto,
    host, local
<1>34. ASSUME NEW p \in Proc, ReplaceFails(p)  PROVE StatusInv'
  BY <1>34, <1>0 DEF StatusInv, StartedStatus, CommittedStatus, UntouchedStatus,
    StartedPC, CommitPC, LedgerInv, TypeInv, TypeOK, HasArguments, ReplaceFails, Goto,
    host, local
<1> QED
  BY <1>1, <1>2, <1>3, <1>4, <1>5, <1>6, <1>7, <1>8, <1>9, <1>10, <1>11, <1>12, <1>13,
     <1>14, <1>15, <1>16, <1>17, <1>18, <1>19, <1>20, <1>21, <1>22, <1>23, <1>24, <1>25,
     <1>26, <1>27, <1>28, <1>29, <1>30, <1>31, <1>32, <1>33, <1>34
  DEF Next, Environment, Begin, Advance, Misfortune
-----------------------------------------------------------------------------
(* Writes.  A journal never gets other operations, and each rename lands   *)
(* an operation that had not landed.                                       *)

LandedOps(d) ==
    {i \in 1..Len(journal[d].ops) : Landed(ledger, journal[d].ops[i])}

CountInv == \A d \in Draft : writes[d] <= Cardinality(LandedOps(d))

LEMMA CountInvInit == Init => CountInv
<1> SUFFICES ASSUME Init, NEW d \in Draft PROVE writes[d] <= Cardinality(LandedOps(d))
  BY DEF CountInv
<1>1. LandedOps(d) = {} /\ writes[d] = 0
  BY DEF Init, LandedOps, NoTxn
<1> QED
  BY <1>1, FS_EmptySet

LEMMA OpsKept ==
    ASSUME LedgerInv, OpsInv, [Next]_vars, NEW d \in Draft
    PROVE  journal'[d].ops = journal[d].ops \/ journal[d].ops = <<>>
<1>1. ASSUME NEW p \in Proc, OpenJournal(p) \/ TearJournal(p)  PROVE journal[d].ops = <<>> \/ UNCHANGED journal[d]
  <2>1. /\ arg[p].draft \in Draft /\ ~InUse(journal[arg[p].draft])
        /\ \A e \in Draft \ {arg[p].draft} : journal'[e] = journal[e]
    BY <1>1
      DEF OpenJournal, TearJournal, LedgerInv, TypeInv, TypeOK, HasArguments, CommitPC, InUse
  <2> QED
    BY <2>1 DEF OpsInv, JournalOps
<1>2. ASSUME NEW p \in Proc, NEW t \in Transaction, t.ops = txn[p].ops,
             pc[p] \in CommitPC \ {"verify", "load"}, Store(p, t) \/ StoreFails(p, t)
      PROVE  journal'[d].ops = journal[d].ops
  <2>1. journal[arg[p].draft].ops = t.ops
    BY <1>2 DEF OpsInv, HeldOps
  <2> QED
    BY <1>2, <2>1, StoreType DEF LedgerInv
<1>3. ASSUME NEW p \in Proc,
             \/ StartApplying(p) \/ StoreProgress(p) \/ StoreCommitted(p)
             \/ RecordFailure(p) \/ Finalize(p)
      PROVE  journal'[d].ops = journal[d].ops
  <2>1. /\ \A s \in Status : /\ WithStatus(p, s) \in Transaction
                             /\ WithStatus(p, s).ops = txn[p].ops
        /\ [txn[p] EXCEPT !.applied = step[p]] \in Transaction
        /\ [txn[p] EXCEPT !.applied = step[p]].ops = txn[p].ops
    BY WithStatusType, TransactionUpdates DEF LedgerInv, TypeInv, TypeOK
  <2>2. \E t \in Transaction :
           /\ t.ops = txn[p].ops /\ pc[p] \in CommitPC \ {"verify", "load"}
           /\ Store(p, t) \/ StoreFails(p, t)
    BY <1>3, <2>1
      DEF StartApplying, StoreProgress, StoreCommitted, RecordFailure, Finalize, Status,
        CommitPC
  <2> QED
    BY <1>2, <2>2
<1>4. CASE UNCHANGED journal
  BY <1>4
<1> QED
  BY ZenonT(30), <1>1, <1>3, <1>4
  DEF Next, Environment, Begin, Advance, Misfortune, vars, local, host, PrepareValidate,
      PrepareStore, IssueReceipt, ExpireReceipt, EditSource, ClearStaleLock, BeginCommit,
      BeginAdmin, AppendRecord, RegisterSource, AdminPrepare, Verify, ResumeJournal,
      RefuseJournal, ConsumeReceipt, ResumeReceipt, RefuseReceipt, CheckOperation,
      ReplaceTarget, CreateMarker, ReleaseLock, AdminRefused, AdminReplace, Crash,
      TearConsumption, CheckFails, ReplaceFails

(* The canonical write of a draft: one operation of its transaction, on a  *)
(* file that is as the operation expects it.                               *)
LEMMA DraftWrite ==
    ASSUME LedgerInv, OpsInv, NEW p \in Proc, ReplaceTarget(p)
    PROVE  LET op == txn[p].ops[step[p]]
               d == arg[p].draft IN
           /\ d \in Draft /\ step[p] \in 1..Len(journal[d].ops)
           /\ op \in Operation /\ op = journal[d].ops[step[p]]
           /\ Rename(op) /\ ledger[op.target] = op.before
           /\ Len(op.after) > Len(op.before)
           /\ \/ AddsLine(LineOf[d], op) /\ Approved(LineOf[d])
              \/ AddsSources(RegistrationLines(d), op)
<1> DEFINE d == arg[p].draft
           op == txn[p].ops[step[p]]
<1>1. /\ d \in Draft /\ step[p] \in 1..Len(txn[p].ops) /\ pc[p] = "replace"
      /\ op \in Operation
  BY CurrentOperation DEF ReplaceTarget, LedgerInv, TypeInv, HasArguments, HasOperations, CommitPC
<1>2. InUse(journal[d]) /\ journal[d].ops = txn[p].ops
  BY <1>1 DEF OpsInv, HeldOps, CommitPC
<1>3. /\ IsTransactionOf(d, RegistrationLines(d), journal[d].ops)
      /\ Approved(LineOf[d]) /\ journal[d].ops \in Seq(Operation)
  BY <1>1, <1>2 DEF OpsInv, JournalOps, LedgerInv, TypeInv, TypeOK, Transaction
<1>4. Len(op.after) > Len(op.before)
  BY <1>1, <1>2, <1>3, TransactionGrows DEF LedgerInv, TypeInv
<1>5. AddsLine(LineOf[d], op) \/ AddsSources(RegistrationLines(d), op)
  BY <1>1, <1>2, <1>3 DEF IsTransactionOf
<1>6. Rename(op) /\ ledger[op.target] = op.before
  BY <1>1 DEF ReplaceTarget, LedgerInv, AtReplace
<1> QED
  BY <1>1, <1>2, <1>3, <1>4, <1>5, <1>6

LEMMA OnlyReplaceWrites ==
    ASSUME [Next]_vars
    PROVE  UNCHANGED writes \/ \E p \in Proc : ReplaceTarget(p)
BY ZenonT(30) DEF Next, Environment, Begin, Advance, Misfortune, vars, local, host, PrepareValidate,
      PrepareStore, IssueReceipt, ExpireReceipt, EditSource, ClearStaleLock, BeginCommit,
      BeginAdmin, AppendRecord, RegisterSource, AdminPrepare, Verify, OpenJournal,
      ResumeJournal, RefuseJournal, ConsumeReceipt, ResumeReceipt, RefuseReceipt,
      StartApplying, CheckOperation, StoreProgress, StoreCommitted, CreateMarker,
      RecordFailure, Finalize, ReleaseLock, AdminRefused, AdminReplace, Crash,
      TearJournal, TearConsumption, CheckFails, ReplaceFails

LEMMA CountInvInductive ==
    ASSUME LedgerInv, OpsInv, CountInv, [Next]_vars
    PROVE  CountInv'
<1> SUFFICES ASSUME NEW d \in Draft PROVE writes'[d] <= Cardinality(LandedOps(d)')
  BY DEF CountInv
<1>1. /\ journal[d].ops \in Seq(Operation) /\ journal'[d].ops \in Seq(Operation)
      /\ writes[d] \in Nat /\ writes'[d] \in Nat
  BY TypeInvInductive DEF LedgerInv, TypeInv, TypeOK, Transaction
<1>2. IsFiniteSet(LandedOps(d)) /\ IsFiniteSet(LandedOps(d)')
  <2>1. /\ IsFiniteSet(1..Len(journal[d].ops)) /\ IsFiniteSet(1..Len(journal'[d].ops))
    <3>1. 1 \in Int /\ Len(journal[d].ops) \in Int /\ Len(journal'[d].ops) \in Int
      BY <1>1
    <3> QED
      BY <3>1, FS_Interval
  <2>2. /\ LandedOps(d) \subseteq 1..Len(journal[d].ops)
        /\ LandedOps(d)' \subseteq 1..Len(journal'[d].ops)
    BY DEF LandedOps
  <2> QED
    BY <2>1, <2>2, FS_Subset
<1>3. writes[d] <= Cardinality(LandedOps(d))
  BY DEF CountInv
<1>4. LandedOps(d) \subseteq LandedOps(d)'
  <2>1. CASE journal[d].ops = <<>>
    BY <2>1 DEF LandedOps
  <2>2. CASE journal'[d].ops = journal[d].ops
    BY <1>1, <2>2, LandedStays DEF LandedOps
  <2> QED
    BY <2>1, <2>2, OpsKept
<1>5. CASE UNCHANGED writes[d]
  <2>1. Cardinality(LandedOps(d)) <= Cardinality(LandedOps(d)')
    BY <1>2, <1>4, FS_Subset
  <2>2. Cardinality(LandedOps(d)) \in Nat /\ Cardinality(LandedOps(d)') \in Nat
    BY <1>2, FS_CardinalityType
  <2> QED
    BY <1>1, <1>3, <1>5, <2>1, <2>2
<1>6. ASSUME NEW p \in Proc, ReplaceTarget(p), d = arg[p].draft
      PROVE  writes'[d] <= Cardinality(LandedOps(d)')
  <2> DEFINE i == step[p]
             op == txn[p].ops[i]
  <2>1. /\ i \in 1..Len(journal[d].ops) /\ op \in Operation /\ op = journal[d].ops[i]
        /\ Rename(op) /\ ledger[op.target] = op.before /\ Len(op.after) > Len(op.before)
    BY <1>6, DraftWrite
  <2>2. op.after \in Seq(Entry) /\ op.before \in Seq(Entry) /\ ledger'[op.target] = op.after
    BY <2>1 DEF Operation, Rename, LedgerInv, TypeInv, TypeOK, Ledger
  <2>3. i \notin LandedOps(d)
    <3>1. ~IsPrefix(op.after, op.before)
      <4> HIDE DEF op
      <4>1. IsPrefix(op.after, op.before) => Len(op.after) <= Len(op.before)
        BY DEF IsPrefix
      <4>2. Len(op.after) \in Nat /\ Len(op.before) \in Nat
        BY <2>2, LenProperties
      <4> QED BY <2>1, <4>1, <4>2
    <3>2. ~Landed(ledger, journal[d].ops[i])
      BY <2>1, <3>1 DEF Landed
    <3> QED
      BY <3>2 DEF LandedOps
  <2>4. i \in LandedOps(d)'
    <3>1. journal'[d].ops = journal[d].ops
      BY <1>6 DEF ReplaceTarget
    <3>2. Landed(ledger', op)
      BY <2>2, PrefixReflexive DEF Landed
    <3> QED
      BY <2>1, <3>1, <3>2 DEF LandedOps
  <2>5. /\ Cardinality(LandedOps(d) \cup {i}) = Cardinality(LandedOps(d)) + 1
        /\ IsFiniteSet(LandedOps(d) \cup {i})
    BY <1>2, <2>3, FS_AddElement
  <2>6. Cardinality(LandedOps(d) \cup {i}) <= Cardinality(LandedOps(d)')
    BY <1>2, <1>4, <2>4, <2>5, FS_Subset
  <2>7. Cardinality(LandedOps(d)) \in Nat /\ Cardinality(LandedOps(d)') \in Nat
    BY <1>2, FS_CardinalityType
  <2>8. writes'[d] = writes[d] + 1
    BY <1>6 DEF ReplaceTarget, LedgerInv, TypeInv, TypeOK
  <2> QED
    BY <1>1, <1>3, <2>5, <2>6, <2>7, <2>8
<1>7. ASSUME NEW p \in Proc, ReplaceTarget(p), d # arg[p].draft  PROVE UNCHANGED writes[d]
  BY <1>7 DEF ReplaceTarget, LedgerInv, TypeInv, TypeOK
<1> QED
  BY <1>5, <1>6, <1>7, OnlyReplaceWrites
-----------------------------------------------------------------------------
(* Records.  A daily file holds lines, each under an id of its own and     *)
(* each after the approvals it names.                                      *)

DailyLines == \A t \in Day : ledger[t] \in Seq(Line)

RecordInv == DailyLines /\ NoDuplicateIdInFile /\ ApprovedRecordsOnly

LEMMA RecordInvInit == Init => RecordInv
BY ConstantsDistinct
  DEF Init, RecordInv, DailyLines, NoDuplicateIdInFile, ApprovedRecordsOnly, EmptyLedger, Target,
      ToSet

(* The canonical write of the administrator.                               *)
LEMMA AdminWrite ==
    ASSUME LedgerInv, OpsInv, NEW p \in Proc, AdminReplace(p), Rename(txn[p].ops[1])
    PROVE  LET op == txn[p].ops[1] IN
           /\ op \in Operation /\ ledger[op.target] = op.before
           /\ \/ \E l \in AdminLine : AddsLine(l, op) /\ Approved(l)
              \/ AddsAdminSource(op)
BY CurrentOperation
  DEF AdminReplace, LedgerInv, TypeInv, TypeOK, AtReplace, OpsInv, AdminOps

(* Every canonical write adds one approved record or some registrations.   *)
LEMMA CanonicalWrite ==
    ASSUME LedgerInv, OpsInv, [Next]_vars, ledger' # ledger
    PROVE  \E op \in Operation :
              /\ Rename(op) /\ ledger[op.target] = op.before
              /\ \/ \E l \in Line : AddsLine(l, op) /\ Approved(l)
                 \/ op.target = SourcesFile
<1>1. ASSUME NEW p \in Proc, ReplaceTarget(p)
      PROVE  \E op \in Operation :
              /\ Rename(op) /\ ledger[op.target] = op.before
              /\ \/ \E l \in Line : AddsLine(l, op) /\ Approved(l)
                 \/ op.target = SourcesFile
  <2>1. LineOf[arg[p].draft] \in Line
    BY <1>1, DraftWrite, ConstantTypes
  <2> QED
    BY <1>1, <2>1, DraftWrite DEF AddsSources
<1>2. ASSUME NEW p \in Proc, AdminReplace(p), Rename(txn[p].ops[1])
      PROVE  \E op \in Operation :
              /\ Rename(op) /\ ledger[op.target] = op.before
              /\ \/ \E l \in Line : AddsLine(l, op) /\ Approved(l)
                 \/ op.target = SourcesFile
  BY <1>2, AdminWrite, ConstantTypes DEF AddsAdminSource, AddsSources
<1> QED
  BY ZenonT(30), <1>1, <1>2
  DEF Next, Environment, Begin, Advance, Misfortune, vars, local, host, PrepareValidate,
      PrepareStore, IssueReceipt, ExpireReceipt, EditSource, ClearStaleLock, BeginCommit,
      BeginAdmin, AppendRecord, RegisterSource, AdminPrepare, Verify, OpenJournal,
      ResumeJournal, RefuseJournal, ConsumeReceipt, ResumeReceipt, RefuseReceipt,
      StartApplying, CheckOperation, StoreProgress, StoreCommitted, CreateMarker,
      RecordFailure, Finalize, ReleaseLock, AdminRefused, AdminReplace, Crash,
      TearJournal, TearConsumption, CheckFails, ReplaceFails

LEMMA RecordInvInductive ==
    ASSUME LedgerInv, OpsInv, RecordInv, [Next]_vars
    PROVE  RecordInv'
<1>1. CASE ledger' = ledger
  BY <1>1 DEF RecordInv, DailyLines, NoDuplicateIdInFile, ApprovedRecordsOnly, InLedger
<1>2. CASE ledger' # ledger
  <2>1. PICK op \in Operation :
           /\ Rename(op) /\ ledger[op.target] = op.before
           /\ \/ \E l \in Line : AddsLine(l, op) /\ Approved(l)
              \/ op.target = SourcesFile
    BY <1>2, CanonicalWrite
  <2>2. /\ op.target \in Target /\ op.before \in Seq(Entry) /\ op.after \in Seq(Entry)
        /\ ledger'[op.target] = op.after
        /\ \A t \in Target \ {op.target} : ledger'[t] = ledger[t]
        /\ Day \subseteq Target /\ SourcesFile \notin Day
    BY <2>1, ConstantsDistinct
      DEF Operation, Rename, LedgerInv, TypeInv, TypeOK, Ledger, Target
  <2>3. \A l \in Line : Approved(l) => \A a \in Approvals[l] : InLedger(a)'
    BY LandedStays DEF Approved
  <2>4. CASE op.target = SourcesFile
    <3>1. \A t \in Day : ledger'[t] = ledger[t]
      BY <2>2, <2>4
    <3>2. \A l \in Line : InLedger(l)' = InLedger(l)
      BY <3>1, ConstantTypes DEF InLedger
    <3>3. DailyLines' /\ NoDuplicateIdInFile'
      BY <3>1 DEF RecordInv, DailyLines, NoDuplicateIdInFile
    <3>4. ApprovedRecordsOnly'
      BY <2>3, <3>1 DEF RecordInv, DailyLines, ApprovedRecordsOnly, Approved, ToSet
    <3> QED
      BY <3>3, <3>4 DEF RecordInv
  <2>5. ASSUME NEW l \in Line, AddsLine(l, op), Approved(l)  PROVE RecordInv'
    <3>1. op.target \in Day /\ op.target = DayOf[l] /\ op.after = op.before \o <<l>>
      BY <2>5, ConstantTypes DEF AddsLine
    <3>2. op.before \in Seq(Line) /\ ledger[op.target] = op.before
      BY <2>1, <3>1 DEF RecordInv, DailyLines
    <3> DEFINE s == op.before
    <3>3. /\ op.after \in Seq(Line) /\ Len(s) \in Nat /\ DOMAIN op.after = 1..(Len(s) + 1)
          /\ \A i \in DOMAIN s : op.after[i] = s[i]
          /\ op.after[Len(s) + 1] = l /\ DOMAIN s = 1..Len(s)
      BY <3>1, <3>2
    <3>4. DailyLines'
      BY <2>2, <3>3 DEF RecordInv, DailyLines
    <3>5. NoDuplicateIdInFile'
      <4>1. \A i, j \in DOMAIN s : IdOf[s[i]] = IdOf[s[j]] => i = j
        BY <3>1, <3>2 DEF RecordInv, NoDuplicateIdInFile
      <4>2. \A i \in DOMAIN s : IdOf[s[i]] # IdOf[l]
        BY <2>5 DEF AddsLine
      <4>3. \A i, j \in DOMAIN op.after : IdOf[op.after[i]] = IdOf[op.after[j]] => i = j
        <5> SUFFICES ASSUME NEW i \in DOMAIN op.after, NEW j \in DOMAIN op.after,
                            IdOf[op.after[i]] = IdOf[op.after[j]]
                     PROVE  i = j
          OBVIOUS
        <5>1. CASE i \in DOMAIN s /\ j \in DOMAIN s
          BY <3>3, <4>1, <5>1
        <5>2. CASE i = Len(s) + 1 /\ j \in DOMAIN s
          BY <3>3, <4>2, <5>2
        <5>3. CASE i \in DOMAIN s /\ j = Len(s) + 1
          BY <3>3, <4>2, <5>3
        <5> QED
          BY <3>3, <5>1, <5>2, <5>3
      <4> QED
        BY <2>2, <4>3 DEF RecordInv, NoDuplicateIdInFile
    <3>6. ApprovedRecordsOnly'
      <4> SUFFICES ASSUME NEW t \in Day, NEW i \in DOMAIN ledger'[t]
                   PROVE  \A a \in Approvals[ledger'[t][i]] : InLedger(a)'
        BY DEF ApprovedRecordsOnly, ToSet
      <4>1. ASSUME NEW u \in Day, NEW j \in DOMAIN ledger[u]
            PROVE  ledger[u][j] \in Line /\ Approved(ledger[u][j])
        BY DEF RecordInv, DailyLines, ApprovedRecordsOnly, Approved, ToSet
      <4>2. \E m \in Line : ledger'[t][i] = m /\ Approved(m)
        <5>1. CASE t # op.target
          BY <2>2, <4>1, <5>1
        <5>2. CASE t = op.target /\ i \in DOMAIN s
          BY <2>2, <3>1, <3>2, <3>3, <4>1, <5>2
        <5>3. CASE t = op.target /\ i = Len(s) + 1
          BY <2>2, <2>5, <3>3, <5>3
        <5> QED
          BY <2>2, <3>3, <5>1, <5>2, <5>3
      <4> QED
        BY <2>3, <4>2
    <3> QED
      BY <3>4, <3>5, <3>6 DEF RecordInv
  <2> QED
    BY <2>1, <2>4, <2>5
<1> QED
  BY <1>1, <1>2
-----------------------------------------------------------------------------
(* The invariants together.                                                *)

CommitInv ==
    /\ LedgerInv /\ ReceiptInv /\ OpsInv /\ ProgressInv /\ StatusInv /\ CountInv
    /\ RecordInv

LEMMA CommitInvHolds == Spec => []CommitInv
<1>1. Init => CommitInv
  BY LedgerInvInit, ReceiptInvInit, OpsInvInit, ProgressInvInit, StatusInvInit, CountInvInit,
     RecordInvInit DEF CommitInv
<1>2. CommitInv /\ [Next]_vars => CommitInv'
  BY LedgerInvInductive, ReceiptInvInductive, OpsInvInductive, ProgressInvInductive,
     StatusInvInductive, CountInvInductive, RecordInvInductive DEF CommitInv
<1> QED
  BY <1>1, <1>2, PTL DEF Spec

(* After any crash, failed store or retry, every operation a journal calls *)
(* applied is in the ledger, line by line.                                 *)
THEOREM JournalIsNeverAhead == Spec => []JournalNeverAhead
<1>1. CommitInv => JournalNeverAhead
  BY DEF CommitInv, ProgressInv, JournalLanded, LandedUpTo, Landed, JournalNeverAhead
<1> QED
  BY <1>1, CommitInvHolds, PTL

(* A draft a client is told is "pending" has written nothing: whatever     *)
(* interrupted its commits, a half-way one is reported as such.            *)
THEOREM PendingIsAlwaysUntouched == Spec => []PendingIsUntouched
<1>1. CommitInv => PendingIsUntouched
  BY DEF CommitInv, StatusInv, CommittedStatus, UntouchedStatus, LedgerInv, TypeInv, TypeOK,
      Transaction, Status, PendingIsUntouched, ReportedStatus
<1> QED
  BY <1>1, CommitInvHolds, PTL

(* Over all attempts of all processes a draft renames no more files than   *)
(* its journal has operations.                                             *)
THEOREM OperationsRunOnce == Spec => []OneWritePerOperation
<1>1. CommitInv => OneWritePerOperation
  <2> SUFFICES ASSUME CommitInv, NEW d \in Draft  PROVE writes[d] <= Len(journal[d].ops)
    BY DEF OneWritePerOperation
  <2>1. Len(journal[d].ops) \in Nat /\ writes[d] \in Nat
    BY DEF CommitInv, LedgerInv, TypeInv, TypeOK, Transaction
  <2> DEFINE n == Len(journal[d].ops)
  <2>2. 1 \in Int /\ n \in Int
    BY <2>1
  <2>3. IsFiniteSet(1..n) /\ Cardinality(1..n) = IF 1 > n THEN 0 ELSE n - 1 + 1
    BY <2>2, FS_Interval
  <2>4. LandedOps(d) \in SUBSET (1..n)
    BY DEF LandedOps
  <2>5. Cardinality(LandedOps(d)) <= Cardinality(1..n) /\ IsFiniteSet(LandedOps(d))
    BY <2>3, <2>4, FS_Subset
  <2>6. Cardinality(LandedOps(d)) \in Nat
    BY <2>5, FS_CardinalityType
  <2>7. writes[d] <= Cardinality(LandedOps(d))
    BY DEF CommitInv, CountInv
  <2> QED
    BY <2>1, <2>3, <2>5, <2>6, <2>7
<1> QED
  BY <1>1, CommitInvHolds, PTL

(* No daily file ever holds two records of one id, whoever wrote them and  *)
(* however often.                                                          *)
THEOREM IdsAreUniqueInFile == Spec => []NoDuplicateIdInFile
<1>1. CommitInv => NoDuplicateIdInFile
  BY DEF CommitInv, RecordInv
<1> QED
  BY <1>1, CommitInvHolds, PTL

(* Every record in the ledger stands on approvals that are in it.          *)
THEOREM RecordsAreApproved == Spec => []ApprovedRecordsOnly
<1>1. CommitInv => ApprovedRecordsOnly
  BY DEF CommitInv, RecordInv
<1> QED
  BY <1>1, CommitInvHolds, PTL

(* The record and the registrations of a consumed draft are canonical.     *)
LEMMA WholeTransactionLanded ==
    ASSUME LedgerInv, OpsInv, NEW d \in Draft, InUse(journal[d]),
           LandedUpTo(ledger, journal[d].ops, Len(journal[d].ops))
    PROVE  InLedger(LineOf[d]) /\ RegistrationsCanonical(d)
<1>1. /\ IsTransactionOf(d, RegistrationLines(d), journal[d].ops)
      /\ journal[d].ops \in Seq(Operation)
  BY DEF OpsInv, JournalOps, LedgerInv, TypeInv, TypeOK, Transaction
<1>2. \A i \in 1..Len(journal[d].ops) :
          /\ journal[d].ops[i] \in Operation
          /\ IsPrefix(journal[d].ops[i].after, ledger[journal[d].ops[i].target])
  BY <1>1 DEF LandedUpTo, Landed
<1>3. ASSUME NEW op \in Operation, NEW new \in Seq(Entry),
             op.after = op.before \o new, IsPrefix(op.after, ledger[op.target])
      PROVE  \A i \in DOMAIN new : new[i] \in ToSet(ledger[op.target])
  <2> SUFFICES ASSUME NEW i \in DOMAIN new  PROVE new[i] \in ToSet(ledger[op.target])
    OBVIOUS
  <2>1. op.before \in Seq(Entry) /\ op.after \in Seq(Entry) /\ ledger[op.target] \in Seq(Entry)
    BY DEF Operation, LedgerInv, TypeInv, TypeOK, Ledger
  <2> DEFINE k == Len(op.before) + i
  <2>2. k \in DOMAIN op.after /\ op.after[k] = new[i]
    BY <1>3, <2>1
  <2>3. k \in DOMAIN ledger[op.target] /\ ledger[op.target][k] = new[i]
    <3> HIDE DEF k
    <3> QED
      BY <1>3, <2>1, <2>2, PrefixElement
  <2> QED
    BY <2>3 DEF ToSet
<1>4. InLedger(LineOf[d])
  <2>1. PICK i \in 1..Len(journal[d].ops) : AddsLine(LineOf[d], journal[d].ops[i])
    BY <1>1 DEF IsTransactionOf
  <2> DEFINE op == journal[d].ops[i]
             new == <<LineOf[d]>>
  <2>2. /\ op \in Operation /\ op.target = DayOf[LineOf[d]] /\ op.after = op.before \o new
        /\ IsPrefix(op.after, ledger[op.target])
    BY <1>2, <2>1 DEF AddsLine
  <2>3. new \in Seq(Entry) /\ 1 \in DOMAIN new /\ new[1] = LineOf[d]
    BY ConstantTypes DEF Entry
  <2> HIDE DEF op, new
  <2>4. new[1] \in ToSet(ledger[op.target])
    BY <1>3, <2>2, <2>3
  <2> QED
    BY <2>2, <2>3, <2>4 DEF InLedger
<1>5. RegistrationsCanonical(d)
  <2>1. CASE Registers[d] = <<>>
    BY <2>1 DEF RegistrationsCanonical
  <2>2. CASE Registers[d] # <<>>
    <3> DEFINE op == journal[d].ops[1]
               new == RegistrationLines(d)
    <3>1. 1 \in 1..Len(journal[d].ops) /\ AddsSources(new, op)
      BY <1>1, <2>2 DEF IsTransactionOf
    <3>2. /\ op \in Operation /\ op.target = SourcesFile /\ op.after = op.before \o new
          /\ IsPrefix(op.after, ledger[op.target])
      BY <1>2, <3>1 DEF AddsSources
    <3>3. new \in Seq(Entry) /\ DOMAIN new = DOMAIN Registers[d]
      BY RegistrationLinesType, EntriesDisjoint DEF LedgerInv, TypeInv, RegistrationLines
    <3> HIDE DEF op
    <3>4. \A i \in DOMAIN new : new[i] \in ToSet(ledger[op.target])
      <4> HIDE DEF new
      <4> QED
        BY <1>3, <3>2, <3>3
    <3> QED
      BY <3>2, <3>3, <3>4 DEF RegistrationsCanonical
  <2> QED
    BY <2>1, <2>2
<1> QED
  BY <1>4, <1>5

(* The marker is only there when the whole transaction is: a client that   *)
(* reads "consumed" finds the record and every registration in the ledger. *)
THEOREM ConsumedIsAlwaysCanonical == Spec => []ConsumedIsCanonical
<1>1. CommitInv => ConsumedIsCanonical
  BY WholeTransactionLanded
    DEF CommitInv, ProgressInv, MarkedLanded, ConsumedIsCanonical, LedgerInv, TypeInv, TypeOK
<1> QED
  BY <1>1, CommitInvHolds, PTL
-----------------------------------------------------------------------------
(* Refinement.  The grant of a draft is the receipt its commit consumed,   *)
(* a draft is done when it has its marker; canonical writes are appends    *)
(* under that grant, and everything else changes nothing that is seen.     *)

GovernedGrant == [d \in Draft |-> GrantOf(d)]

Spent(r, d) == receipt[r].draft = d /\ receipt[r].use = "valid"

LEMMA GrantOfSpent ==
    ASSUME ReceiptInv, NEW d \in Draft
    PROVE  /\ \A r \in Receipt : Spent(r, d) => GrantOf(d) = r
           /\ (\A r \in Receipt : ~Spent(r, d)) => GrantOf(d) = None
<1> DEFINE spent == {r \in Receipt : receipt[r].draft = d /\ receipt[r].use = "valid"}
<1>1. GrantOf(d) = IF spent = {} THEN None ELSE CHOOSE r \in spent : TRUE
  BY DEF GrantOf
<1>2. ASSUME NEW r \in Receipt, Spent(r, d)  PROVE GrantOf(d) = r
  <2>1. \A s \in spent : s = r
    BY <1>2 DEF ReceiptInv, UsedReceipt, Spent
  <2>2. r \in spent
    BY <1>2 DEF Spent
  <2> HIDE DEF spent
  <2>3. (CHOOSE s \in spent : TRUE) \in spent
    BY <2>2
  <2> QED
    BY <1>1, <2>1, <2>2, <2>3
<1>3. ASSUME \A r \in Receipt : ~Spent(r, d)  PROVE GrantOf(d) = None
  <2>1. spent = {}
    BY <1>3 DEF Spent
  <2> QED
    BY <1>1, <2>1
<1> QED
  BY <1>2, <1>3

(* Who is granted does not change while the same receipts are spent.       *)
LEMMA GrantStays ==
    ASSUME ReceiptInv, ReceiptInv', NEW d \in Draft,
           \A r \in Receipt : Spent(r, d)' <=> Spent(r, d)
    PROVE  GrantOf(d)' = GrantOf(d)
<1> DEFINE spent == {r \in Receipt : receipt[r].draft = d /\ receipt[r].use = "valid"}
<1>1. GrantOf(d) = IF spent = {} THEN None ELSE CHOOSE r \in spent : TRUE
  BY DEF GrantOf
<1>2. GrantOf(d)' = IF spent' = {} THEN None ELSE CHOOSE r \in spent' : TRUE
  BY DEF GrantOf
<1>3. spent' = spent
  BY DEF Spent
<1> HIDE DEF spent
<1> QED
  BY <1>1, <1>2, <1>3

LEMMA TailOfConcat ==
    ASSUME NEW S, NEW s \in Seq(S), NEW t \in Seq(S)
    PROVE  SubSeq(s \o t, Len(s) + 1, Len(s \o t)) = t
<1> DEFINE u == SubSeq(s \o t, Len(s) + 1, Len(s \o t))
<1>1. s \o t \in Seq(S) /\ Len(s \o t) = Len(s) + Len(t) /\ Len(s) \in Nat /\ Len(t) \in Nat
  OBVIOUS
<1>2. u \in Seq(S) /\ Len(u) = Len(t)
  BY <1>1
<1>3. \A i \in 1..Len(t) : u[i] = t[i]
  BY <1>1
<1>4. u = [i \in 1..Len(u) |-> u[i]] /\ t = [i \in 1..Len(t) |-> t[i]]
  BY <1>2
<1> HIDE DEF u
<1>5. u = t
  BY <1>2, <1>3, <1>4
<1> QED
  BY <1>5 DEF u

LEMMA InitImplements == Init => Governed!Init
<1> SUFFICES ASSUME Init PROVE Governed!Init
  OBVIOUS
<1>1. \A d \in Draft : GrantOf(d) = None
  <2>1. \A d \in Draft, r \in Receipt : ~Spent(r, d)
    BY DEF Init, NoReceipt, Spent
  <2> QED
    BY <2>1, GrantOfSpent, ReceiptInvInit
<1> QED
  BY <1>1 DEF Init, EmptyLedger, Target, Governed!Init

(* The rename of a record is an append of a line that was not there; the   *)
(* rename of registrations appends those of the given paths.               *)
LEMMA RenameIsAppend ==
    ASSUME LedgerInv, NEW op \in Operation, Rename(op), ledger[op.target] = op.before
    PROVE  /\ \A l \in Line : AddsLine(l, op) => Governed!AppendLine(l)
           /\ \A lines \in Seq(Entry), paths \in Seq(Path) :
                 /\ AddsSources(lines, op)
                 /\ Len(lines) = Len(paths)
                 /\ \A i \in DOMAIN paths : lines[i].path = paths[i]
                 => Governed!AppendSources(paths)
<1>1. /\ op.target \in Target /\ op.before \in Seq(Entry) /\ op.after \in Seq(Entry)
      /\ ledger' = [ledger EXCEPT ![op.target] = op.after]
      /\ ledger'[op.target] = op.after
  BY DEF Operation, Rename, LedgerInv, TypeInv, TypeOK, Ledger
<1>2. ASSUME NEW l \in Line, AddsLine(l, op)  PROVE Governed!AppendLine(l)
  <2>1. l \notin ToSet(ledger[DayOf[l]])
    BY <1>2 DEF AddsLine, ToSet
  <2>2. l \in Entry /\ op.after = Append(op.before, l)
    BY <1>1, <1>2 DEF AddsLine, Entry
  <2>3. op.target = DayOf[l] /\ ledger[DayOf[l]] = op.before
    BY <1>2 DEF AddsLine
  <2>4. ledger' = [ledger EXCEPT ![DayOf[l]] = Append(ledger[DayOf[l]], l)]
    BY <1>1, <2>2, <2>3
  <2> QED
    BY <2>1, <2>4 DEF Governed!AppendLine, Governed!ToSet, ToSet
<1>3. ASSUME NEW lines \in Seq(Entry), NEW paths \in Seq(Path), AddsSources(lines, op),
             Len(lines) = Len(paths), \A i \in DOMAIN paths : lines[i].path = paths[i]
      PROVE  Governed!AppendSources(paths)
  <2> DEFINE old == ledger[SourcesFile]
             new == SubSeq(ledger'[SourcesFile], Len(old) + 1, Len(ledger'[SourcesFile]))
  <2>1. op.target = SourcesFile /\ ledger'[SourcesFile] = op.before \o lines /\ old = op.before
    BY <1>1, <1>3 DEF AddsSources
  <2>2. new = lines
    <3>1. new = SubSeq(op.before \o lines, Len(op.before) + 1, Len(op.before \o lines))
      BY <2>1
    <3>2. op.before \in Seq(Entry) /\ lines \in Seq(Entry)
      BY <1>1, <1>3
    <3> QED
      BY <3>1, <3>2, TailOfConcat
  <2>3. ledger' = [ledger EXCEPT ![SourcesFile] = old \o new]
    BY <1>1, <1>3, <2>1, <2>2 DEF AddsSources
  <2> HIDE DEF old, new
  <2> QED
    BY <1>3, <2>2, <2>3 DEF Governed!AppendSources, old, new
<1> QED
  BY <1>2, <1>3

LEMMA DraftWriteImplements ==
    ASSUME CommitInv, CommitInv', NEW p \in Proc, ReplaceTarget(p)
    PROVE  Governed!Next
<1> DEFINE d == arg[p].draft
           op == txn[p].ops[step[p]]
<1>1. /\ d \in Draft /\ op \in Operation /\ Rename(op) /\ ledger[op.target] = op.before
      /\ AddsLine(LineOf[d], op) \/ AddsSources(RegistrationLines(d), op)
  BY DraftWrite DEF CommitInv
<1>2. arg[p].receipt \in Receipt /\ Spent(arg[p].receipt, d) /\ d \notin marker
  BY DEF ReplaceTarget, CommitInv, LedgerInv, TypeInv, HasArguments, OpsInv, BeforeMark,
      ReceiptInv, BoundReceipt, SpentReceipt, Spent, CommitPC
<1>3. GovernedGrant[d] # None
  BY <1>1, <1>2, GrantOfSpent, ConstantsDistinct DEF GovernedGrant, CommitInv
<1>4. UNCHANGED <<GovernedGrant, marker>>
  <2>1. \A e \in Draft : GrantOf(e)' = GrantOf(e)
    BY GrantStays DEF ReplaceTarget, host, Spent, CommitInv
  <2> QED
    BY <2>1 DEF GovernedGrant, ReplaceTarget
<1>5. Governed!AppendLine(LineOf[d]) \/ Governed!AppendSources(Registers[d])
  <2>1. CASE AddsLine(LineOf[d], op)
    BY <1>1, <2>1, RenameIsAppend, ConstantTypes DEF CommitInv
  <2>2. CASE AddsSources(RegistrationLines(d), op)
    <3>1. /\ RegistrationLines(d) \in Seq(Entry) /\ Registers[d] \in Seq(Path)
          /\ Len(RegistrationLines(d)) = Len(Registers[d])
          /\ \A i \in DOMAIN Registers[d] : RegistrationLines(d)[i].path = Registers[d][i]
      BY <1>1, RegistrationLinesType, EntriesDisjoint, ConstantTypes
        DEF CommitInv, LedgerInv, TypeInv
    <3> HIDE DEF op
    <3> QED
      BY <1>1, <2>2, <3>1, RenameIsAppend DEF CommitInv
  <2> QED
    BY <1>1, <2>1, <2>2
<1>6. Governed!DraftAppends(d)
  BY <1>2, <1>3, <1>4, <1>5 DEF Governed!DraftAppends, GovernedGrant
<1> QED
  BY <1>1, <1>6 DEF Governed!Next

LEMMA AdminWriteImplements ==
    ASSUME CommitInv, CommitInv', NEW p \in Proc, AdminReplace(p), Rename(txn[p].ops[1])
    PROVE  Governed!Next
<1> DEFINE op == txn[p].ops[1]
<1>1. /\ op \in Operation /\ ledger[op.target] = op.before
      /\ (\E l \in AdminLine : AddsLine(l, op)) \/ AddsAdminSource(op)
  BY AdminWrite DEF CommitInv
<1>2. UNCHANGED <<GovernedGrant, marker>>
  <2>1. \A e \in Draft : GrantOf(e)' = GrantOf(e)
    BY GrantStays DEF AdminReplace, host, Spent, CommitInv
  <2> QED
    BY <2>1 DEF GovernedGrant, AdminReplace
<1>3. ASSUME NEW l \in AdminLine, AddsLine(l, op)  PROVE Governed!AppendLine(l)
  BY <1>1, <1>3, RenameIsAppend, ConstantTypes DEF CommitInv
<1>4. ASSUME NEW q \in AdminPath, NEW h \in Nat, AddsSources(<<[path |-> q, hash |-> h]>>, op)
      PROVE  Governed!AppendSources(<<q>>)
  <2> DEFINE lines == <<[path |-> q, hash |-> h]>>
             paths == <<q>>
  <2>1. /\ lines \in Seq(Entry) /\ paths \in Seq(Path) /\ Len(lines) = Len(paths)
        /\ \A i \in DOMAIN paths : lines[i].path = paths[i]
    BY ConstantTypes DEF Entry, Registration
  <2>2. AddsSources(lines, op)
    BY <1>4
  <2> HIDE DEF lines, paths, op
  <2>3. Governed!AppendSources(paths)
    BY <1>1, <2>1, <2>2, RenameIsAppend DEF CommitInv, op
  <2> QED
    BY <2>3 DEF paths
<1>5. \/ \E l \in AdminLine : Governed!AppendLine(l)
      \/ \E q \in AdminPath : Governed!AppendSources(<<q>>)
  BY <1>1, <1>3, <1>4 DEF AddsAdminSource
<1> QED
  BY <1>2, <1>5 DEF Governed!AdminAppends, Governed!Next, GovernedGrant

LEMMA ConsumptionImplements ==
    ASSUME CommitInv, CommitInv', NEW p \in Proc, ConsumeReceipt(p)
    PROVE  Governed!Next
<1>. PICK d \in Draft, r \in Receipt : arg[p].draft = d /\ arg[p].receipt = r
  BY DEF ConsumeReceipt, CommitInv, LedgerInv, TypeInv, HasArguments, CommitPC
<1>1. /\ d \in Draft /\ r \in Receipt /\ d \notin marker /\ receipt[r].draft = d
      /\ journal[d].receipt = r /\ receipt[r].use = "none"
  BY DEF ConsumeReceipt, CommitInv, LedgerInv, TypeInv, HasArguments, OpsInv, BeforeMark,
      ReceiptInv, BoundReceipt, HeldReceipt, CommitPC
<1>2. /\ receipt'[r].draft = d /\ receipt'[r].use = "valid"
      /\ \A s \in Receipt \ {r} : receipt'[s] = receipt[s]
  BY <1>1 DEF ConsumeReceipt, CommitInv, LedgerInv, TypeInv, TypeOK, ReceiptFile
<1>3. \A s \in Receipt : ~Spent(s, d)
  BY <1>1 DEF Spent, CommitInv, ReceiptInv, UsedReceipt
<1>4. GrantOf(d) = None
  BY <1>1, <1>3, GrantOfSpent DEF CommitInv
<1>5. GrantOf(d)' = r
  <2>1. \A s \in Receipt, e \in Draft : Spent(s, e)' => s = r \/ Spent(s, e)
    BY <1>2 DEF Spent
  <2> DEFINE spent == {s \in Receipt : receipt[s].draft = d /\ receipt[s].use = "valid"}
  <2>2. spent' = {r}
    <3>1. \A s \in Receipt : Spent(s, d)' <=> s = r
      BY <1>1, <1>2, <1>3 DEF Spent
    <3>2. spent' = {s \in Receipt : Spent(s, d)'}
      BY DEF Spent
    <3> QED
      BY <1>1, <3>1, <3>2
  <2>3. GrantOf(d)' = IF spent' = {} THEN None ELSE CHOOSE s \in spent' : TRUE
    BY DEF ConsumeReceipt, GrantOf
  <2> HIDE DEF spent
  <2> QED
    BY <2>2, <2>3
<1>6. \A e \in Draft \ {d} : GrantOf(e)' = GrantOf(e)
  BY <1>1, <1>2, GrantStays DEF Spent, CommitInv
<1>7. \A e \in Draft : GrantOf(e) # r
  <2> SUFFICES ASSUME NEW e \in Draft, GrantOf(e) = r PROVE FALSE
    OBVIOUS
  <2>1. \A s \in Receipt : Spent(s, e) => s = r
    BY GrantOfSpent DEF CommitInv
  <2>2. ~Spent(r, e)
    BY <1>1 DEF Spent
  <2>3. \A s \in Receipt : ~Spent(s, e)
    BY <2>1, <2>2
  <2>4. GrantOf(e) = None
    BY <2>3, GrantOfSpent DEF CommitInv
  <2> QED
    BY <1>1, <2>4, ConstantsDistinct
<1>8. GovernedGrant' = [GovernedGrant EXCEPT ![d] = r]
  <2>1. \A e \in Draft : GrantOf(e)' = IF e = d THEN r ELSE GrantOf(e)
    BY <1>5, <1>6
  <2> QED
    BY <1>1, <2>1 DEF GovernedGrant
<1>9. Governed!Grant(d)
  BY <1>1, <1>4, <1>7, <1>8 DEF Governed!Grant, GovernedGrant, ConsumeReceipt
<1> QED
  BY <1>1, <1>9 DEF Governed!Next

LEMMA MarkerImplements ==
    ASSUME CommitInv, CommitInv', NEW p \in Proc, CreateMarker(p)
    PROVE  Governed!Next \/ UNCHANGED Governed!vars
<1> DEFINE d == arg[p].draft
<1>1. /\ d \in Draft /\ arg[p].receipt \in Receipt /\ Spent(arg[p].receipt, d)
      /\ InUse(journal[d]) /\ journal[d].ops = txn[p].ops
      /\ LandedUpTo(ledger, txn[p].ops, Len(txn[p].ops))
  BY DEF CreateMarker, CommitInv, LedgerInv, TypeInv, HasArguments, OpsInv, HeldOps,
      ReceiptInv, BoundReceipt, SpentReceipt, Spent, ProgressInv, StepLanded, CommitPC
<1>2. InLedger(LineOf[d])
  BY <1>1, WholeTransactionLanded DEF CommitInv
<1>3. GovernedGrant[d] # None
  BY <1>1, GrantOfSpent, ConstantsDistinct DEF GovernedGrant, CommitInv
<1>4. UNCHANGED <<GovernedGrant, ledger>>
  <2>1. \A e \in Draft : GrantOf(e)' = GrantOf(e)
    BY GrantStays DEF CreateMarker, host, Spent, CommitInv
  <2> QED
    BY <2>1 DEF GovernedGrant, CreateMarker
<1>5. CASE marker' = marker \cup {d}
  <2>1. Governed!Close(d)
    BY <1>2, <1>3, <1>4, <1>5 DEF Governed!Close, InLedger, GovernedGrant, Governed!ToSet, ToSet
  <2> QED
    BY <1>1, <2>1 DEF Governed!Next
<1>6. CASE marker' = marker
  BY <1>4, <1>6 DEF Governed!vars, GovernedGrant
<1> QED
  BY <1>5, <1>6 DEF CreateMarker

(* Handling receipts without consuming one is not seen.                    *)
LEMMA ReceiptImplements ==
    ASSUME CommitInv, CommitInv',
           \/ \E r \in Receipt, d \in Draft : IssueReceipt(r, d)
           \/ \E r \in Receipt : ExpireReceipt(r)
           \/ \E p \in Proc : TearConsumption(p)
    PROVE  UNCHANGED Governed!vars
<1>1. \A d \in Draft, r \in Receipt : Spent(r, d)' <=> Spent(r, d)
  <2>1. ASSUME NEW r \in Receipt, NEW d \in Draft, IssueReceipt(r, d)
        PROVE  \A e \in Draft, s \in Receipt : Spent(s, e)' <=> Spent(s, e)
    <3>1. receipt[r].use = "none" /\ receipt'[r].use = "none"
      BY <2>1, ConstantsDistinct
        DEF IssueReceipt, CommitInv, ReceiptInv, UsedReceipt, LedgerInv, TypeInv, TypeOK,
          ReceiptFile
    <3>2. \A s \in Receipt \ {r} : receipt'[s] = receipt[s]
      BY <2>1 DEF IssueReceipt, CommitInv, LedgerInv, TypeInv, TypeOK
    <3> QED
      BY <3>1, <3>2 DEF Spent
  <2>2. ASSUME NEW r \in Receipt, ExpireReceipt(r)
        PROVE  \A e \in Draft, s \in Receipt : Spent(s, e)' <=> Spent(s, e)
    BY <2>2 DEF ExpireReceipt, Spent, CommitInv, LedgerInv, TypeInv, TypeOK, ReceiptFile
  <2>3. ASSUME NEW p \in Proc, TearConsumption(p)
        PROVE  \A e \in Draft, s \in Receipt : Spent(s, e)' <=> Spent(s, e)
    <3>1. arg[p].receipt \in Receipt
      BY <2>3 DEF TearConsumption, CommitInv, LedgerInv, TypeInv, HasArguments, CommitPC
    <3>2. /\ receipt[arg[p].receipt].use = "none" /\ receipt'[arg[p].receipt].use = "torn"
          /\ \A s \in Receipt \ {arg[p].receipt} : receipt'[s] = receipt[s]
      BY <2>3, <3>1
        DEF TearConsumption, CommitInv, LedgerInv, TypeInv, TypeOK, ReceiptFile
    <3> QED
      BY <3>1, <3>2 DEF Spent
  <2> QED
    BY <2>1, <2>2, <2>3
<1>2. \A d \in Draft : GrantOf(d)' = GrantOf(d)
  BY <1>1, GrantStays DEF CommitInv
<1>3. UNCHANGED <<ledger, marker>>
  BY DEF IssueReceipt, ExpireReceipt, TearConsumption
<1> QED
  BY <1>2, <1>3 DEF Governed!vars

LEMMA StepImplements ==
    ASSUME CommitInv, CommitInv', [Next]_vars
    PROVE  [Governed!Next]_(Governed!vars)
<1>1. CASE UNCHANGED <<ledger, receipt, marker>>
  <2>1. \A d \in Draft : GrantOf(d)' = GrantOf(d)
    BY <1>1, GrantStays DEF Spent, CommitInv
  <2> QED
    BY <1>1, <2>1 DEF Governed!vars
<1>2. CASE \E p \in Proc : ReplaceTarget(p)
  BY <1>2, DraftWriteImplements
<1>3. CASE \E p \in Proc : AdminReplace(p) /\ Rename(txn[p].ops[1])
  BY <1>3, AdminWriteImplements
<1>4. CASE \E p \in Proc : ConsumeReceipt(p)
  BY <1>4, ConsumptionImplements
<1>5. CASE \E p \in Proc : CreateMarker(p)
  BY <1>5, MarkerImplements
<1>6. CASE \/ \E r \in Receipt, d \in Draft : IssueReceipt(r, d)
           \/ \E r \in Receipt : ExpireReceipt(r)
           \/ \E p \in Proc : TearConsumption(p)
  BY <1>6, ReceiptImplements
<1> QED
  BY ZenonT(30), <1>1, <1>2, <1>3, <1>4, <1>5, <1>6
  DEF Next, Environment, Begin, Advance, Misfortune, vars, local, host, PrepareValidate,
      PrepareStore, EditSource, ClearStaleLock, BeginCommit, BeginAdmin, AppendRecord,
      RegisterSource, AdminPrepare, Verify, OpenJournal, ResumeJournal, RefuseJournal,
      ResumeReceipt, RefuseReceipt, StartApplying, CheckOperation, StoreProgress,
      StoreCommitted, RecordFailure, Finalize, ReleaseLock, AdminRefused, AdminReplace,
      Crash, TearJournal, CheckFails, ReplaceFails

(* Drafts, journals, receipts, locks, crashes and retries together do      *)
(* nothing a governed ledger may not do: every behaviour of the write path *)
(* is one of GovernedLedger.                                               *)
THEOREM CommitImplementsGovernedLedger == Spec => ImplementsGovernedLedger
<1>1. CommitInv /\ CommitInv' /\ [Next]_vars => [Governed!Next]_(Governed!vars)
  BY StepImplements
<1> QED
  BY <1>1, InitImplements, CommitInvHolds, PTL DEF Spec, ImplementsGovernedLedger, Governed!Spec
=============================================================================
