------------------------ MODULE IngestReceiptProofs ------------------------
(***************************************************************************)
(* What the one-time receipts of IngestCommit guarantee, for every value   *)
(* of its constants.                                                       *)
(***************************************************************************)
EXTENDS IngestCommitProofs

(* The receipt an attempt goes on with is bound to its draft, the journal  *)
(* and the attempt name the same receipt, and from the first canonical     *)
(* write on it is consumed.                                                *)
BoundReceipt ==
    \A p \in Proc : pc[p] \in CommitPC \ {"verify"} =>
        receipt[arg[p].receipt].draft = arg[p].draft

HeldReceipt ==
    \A p \in Proc : pc[p] \in CommitPC \ {"verify", "load"} =>
        /\ txn[p].receipt = arg[p].receipt
        /\ txn[p].status \notin {"none", "torn"}
        /\ journal[arg[p].draft].receipt = arg[p].receipt

SpentReceipt ==
    \A p \in Proc : pc[p] \in CommitPC \ {"verify", "load", "consume"} =>
        receipt[arg[p].receipt].use = "valid"

(* A draft without a journal has no receipt yet; a receipt that was used   *)
(* is the one its draft's journal names.                                   *)
NoneReceipt ==
    \A d \in Draft : journal[d].status = "none" => journal[d].receipt = None

UsedReceipt ==
    \A r \in Receipt : receipt[r].use # "none" =>
        receipt[r].draft \in Draft /\ journal[receipt[r].draft].receipt = r

ReceiptInv ==
    /\ BoundReceipt /\ HeldReceipt /\ SpentReceipt
    /\ ReceiptSpentBeforeWrite /\ NoneReceipt /\ UsedReceipt

LEMMA ReceiptInvInit == Init => ReceiptInv
BY DEF Init, ReceiptInv, BoundReceipt, HeldReceipt, SpentReceipt, ReceiptSpentBeforeWrite,
       NoneReceipt, UsedReceipt, CommitPC, NoTxn, NoReceipt

(* Stores rewrite a journal under the receipt it already names.            *)
LEMMA StoreKeepsReceiptInv ==
    ASSUME LedgerInv, ReceiptInv, NEW p \in Proc, NEW t \in Transaction,
           t.receipt = txn[p].receipt,
           t.status = txn[p].status \/ t.status \notin {"none", "torn"},
           Store(p, t) \/ StoreFails(p, t),
           pc[p] \in CommitPC \ {"verify", "load", "consume"},
           UNCHANGED <<receipt, arg, writes>>,
           \E l \in PC : pc' = [pc EXCEPT ![p] = l]
    PROVE  ReceiptInv'
<1>1. arg[p].draft \in Draft /\ t.receipt = journal[arg[p].draft].receipt
  BY DEF LedgerInv, TypeInv, HasArguments, ReceiptInv, HeldReceipt
<1>2. t.status \notin {"none", "torn"}
  BY DEF ReceiptInv, HeldReceipt
<1>3. /\ txn'[p] = t /\ \A q \in Proc \ {p} : txn'[q] = txn[q]
      /\ \A d \in Draft : journal'[d].receipt = journal[d].receipt
      /\ \A d \in Draft : journal'[d].status = "none" => journal[d].status = "none"
  BY <1>1, <1>2, StoreType DEF LedgerInv
<1>4. \A q \in Proc \ {p} : pc'[q] = pc[q]
  BY DEF LedgerInv, TypeInv, TypeOK
<1>5. BoundReceipt' /\ SpentReceipt'
  BY <1>4 DEF ReceiptInv, BoundReceipt, SpentReceipt
<1>6. HeldReceipt'
  BY <1>2, <1>3, <1>4 DEF LedgerInv, TypeInv, HasArguments, ReceiptInv, HeldReceipt
<1>7. ReceiptSpentBeforeWrite' /\ NoneReceipt' /\ UsedReceipt'
  BY <1>3 DEF ReceiptInv, ReceiptSpentBeforeWrite, NoneReceipt, UsedReceipt
<1> QED
  BY <1>5, <1>6, <1>7 DEF ReceiptInv

LEMMA ReceiptInvInductive ==
    ASSUME LedgerInv, ReceiptInv, [Next]_vars
    PROVE  ReceiptInv'
<1>1. CASE UNCHANGED vars
  BY <1>1
    DEF ReceiptInv, BoundReceipt, HeldReceipt, SpentReceipt, ReceiptSpentBeforeWrite,
      NoneReceipt, UsedReceipt, vars, local, host
<1>2. ASSUME NEW d \in Draft, PrepareValidate(d)  PROVE ReceiptInv'
  BY <1>2
    DEF ReceiptInv, BoundReceipt, HeldReceipt, SpentReceipt, ReceiptSpentBeforeWrite,
      NoneReceipt, UsedReceipt, LedgerInv, TypeInv, TypeOK, HasArguments, CommitPC,
      PrepareValidate, host, local
<1>3. ASSUME NEW d \in Draft, PrepareStore(d)  PROVE ReceiptInv'
  BY <1>3
    DEF ReceiptInv, BoundReceipt, HeldReceipt, SpentReceipt, ReceiptSpentBeforeWrite,
      NoneReceipt, UsedReceipt, LedgerInv, TypeInv, TypeOK, HasArguments, CommitPC,
      PrepareStore, host, local
<1>4. ASSUME NEW r \in Receipt, NEW d \in Draft, IssueReceipt(r, d)  PROVE ReceiptInv'
  <2>1. r \in Receipt
    BY <1>4 DEF LedgerInv, TypeInv, TypeOK, HasArguments, CommitPC, IssueReceipt
  <2>2. /\ \A s \in Receipt \ {r} : receipt'[s] = receipt[s]
        /\ receipt'[r].draft = d /\ receipt'[r].use = receipt[r].use
    BY <1>4, <2>1 DEF LedgerInv, TypeInv, TypeOK, ReceiptFile, IssueReceipt
  <2>3. UNCHANGED <<journal, arg, txn, writes>>
    BY <1>4 DEF IssueReceipt, local
  <2> QED
    BY <1>4, <2>1, <2>2, <2>3, ConstantsDistinct
      DEF ReceiptInv, BoundReceipt, HeldReceipt, SpentReceipt, ReceiptSpentBeforeWrite,
        NoneReceipt, UsedReceipt, LedgerInv, TypeInv, TypeOK, HasArguments, CommitPC,
        IssueReceipt, local
<1>5. ASSUME NEW r \in Receipt, ExpireReceipt(r)  PROVE ReceiptInv'
  <2>1. r \in Receipt
    BY <1>5 DEF LedgerInv, TypeInv, TypeOK, HasArguments, CommitPC, ExpireReceipt
  <2>2. /\ \A s \in Receipt \ {r} : receipt'[s] = receipt[s]
        /\ receipt'[r].draft = receipt[r].draft /\ receipt'[r].use = receipt[r].use
    BY <1>5, <2>1 DEF LedgerInv, TypeInv, TypeOK, ReceiptFile, ExpireReceipt
  <2>3. UNCHANGED <<journal, arg, txn, writes>>
    BY <1>5 DEF ExpireReceipt, local
  <2> QED
    BY <1>5, <2>1, <2>2, <2>3, ConstantsDistinct
      DEF ReceiptInv, BoundReceipt, HeldReceipt, SpentReceipt, ReceiptSpentBeforeWrite,
        NoneReceipt, UsedReceipt, LedgerInv, TypeInv, TypeOK, HasArguments, CommitPC,
        ExpireReceipt, local
<1>6. ASSUME NEW q \in Path, EditSource(q)  PROVE ReceiptInv'
  BY <1>6
    DEF ReceiptInv, BoundReceipt, HeldReceipt, SpentReceipt, ReceiptSpentBeforeWrite,
      NoneReceipt, UsedReceipt, LedgerInv, TypeInv, TypeOK, HasArguments, CommitPC,
      EditSource, host, local
<1>7. ASSUME ClearStaleLock  PROVE ReceiptInv'
  BY <1>7
    DEF ReceiptInv, BoundReceipt, HeldReceipt, SpentReceipt, ReceiptSpentBeforeWrite,
      NoneReceipt, UsedReceipt, LedgerInv, TypeInv, TypeOK, HasArguments, CommitPC,
      ClearStaleLock, host, local
<1>8. ASSUME NEW p \in Proc, NEW d \in Draft, NEW r \in Receipt, BeginCommit(p, d, r)  PROVE ReceiptInv'
  BY <1>8
    DEF ReceiptInv, BoundReceipt, HeldReceipt, SpentReceipt, ReceiptSpentBeforeWrite,
      NoneReceipt, UsedReceipt, LedgerInv, TypeInv, TypeOK, HasArguments, CommitPC,
      BeginCommit, host, local, AcquireLock, Goto
<1>9. ASSUME NEW p \in Proc, BeginAdmin(p)  PROVE ReceiptInv'
  BY <1>9
    DEF ReceiptInv, BoundReceipt, HeldReceipt, SpentReceipt, ReceiptSpentBeforeWrite,
      NoneReceipt, UsedReceipt, LedgerInv, TypeInv, TypeOK, HasArguments, CommitPC,
      BeginAdmin, host, local, AcquireLock, Goto
<1>10. ASSUME NEW p \in Proc, NEW l \in AdminLine, AppendRecord(p, l)  PROVE ReceiptInv'
  BY <1>10
    DEF ReceiptInv, BoundReceipt, HeldReceipt, SpentReceipt, ReceiptSpentBeforeWrite,
      NoneReceipt, UsedReceipt, LedgerInv, TypeInv, TypeOK, HasArguments, CommitPC,
      AppendRecord, host, local, AdminPrepare, Goto
<1>11. ASSUME NEW p \in Proc, NEW q \in AdminPath, RegisterSource(p, q)  PROVE ReceiptInv'
  BY <1>11
    DEF ReceiptInv, BoundReceipt, HeldReceipt, SpentReceipt, ReceiptSpentBeforeWrite,
      NoneReceipt, UsedReceipt, LedgerInv, TypeInv, TypeOK, HasArguments, CommitPC,
      RegisterSource, host, local, AdminPrepare, Goto
<1>12. ASSUME NEW p \in Proc, Verify(p)  PROVE ReceiptInv'
  BY <1>12
    DEF ReceiptInv, BoundReceipt, HeldReceipt, SpentReceipt, ReceiptSpentBeforeWrite,
      NoneReceipt, UsedReceipt, LedgerInv, TypeInv, TypeOK, HasArguments, CommitPC,
      Verify, MayCommit, host, local, Goto
<1>13. ASSUME NEW p \in Proc, OpenJournal(p)  PROVE ReceiptInv'
  <2> DEFINE d == arg[p].draft
             t == [status |-> "prepared", receipt |-> arg[p].receipt,
                   ops |-> Operations(d), applied |-> 0]
  <2>1. d \in Draft /\ arg[p].receipt \in Receipt
    BY <1>13 DEF LedgerInv, TypeInv, TypeOK, HasArguments, CommitPC, OpenJournal
  <2>2. t.receipt = arg[p].receipt /\ t.status \notin {"none", "torn"}
    OBVIOUS
  <2>3. journal' = [journal EXCEPT ![d] = t] /\ txn' = [txn EXCEPT ![p] = t]
    BY <1>13 DEF OpenJournal
  <2>4. \A q \in Proc \ {p} : pc[q] = "idle"
    BY <1>13 DEF OpenJournal, LedgerInv, LockHeld
  <2>5. /\ journal[d].receipt = None
        /\ UNCHANGED <<receipt, arg, writes>> /\ pc' = [pc EXCEPT ![p] = "consume"]
    BY <1>13, <2>1 DEF OpenJournal, host, Goto, ReceiptInv, NoneReceipt
  <2>7. ~(writes[d] > 0)
    BY <2>1, <2>5, ConstantsDistinct DEF ReceiptInv, ReceiptSpentBeforeWrite
  <2>8. \A r \in Receipt : receipt[r].use # "none" => receipt[r].draft # d
    BY <2>1, <2>5, ConstantsDistinct DEF ReceiptInv, UsedReceipt
  <2>9. receipt[arg[p].receipt].draft = d
    BY <1>13 DEF OpenJournal, ReceiptInv, BoundReceipt, CommitPC
  <2> HIDE DEF t
  <2>10. /\ journal'[d] = t /\ \A e \in Draft \ {d} : journal'[e] = journal[e]
         /\ txn'[p] = t /\ pc'[p] = "consume" /\ \A q \in Proc \ {p} : pc'[q] = "idle"
    BY <2>1, <2>3, <2>4, <2>5 DEF LedgerInv, TypeInv, TypeOK
  <2> HIDE DEF d
  <2>11. BoundReceipt' /\ HeldReceipt' /\ SpentReceipt'
    BY <2>1, <2>2, <2>5, <2>9, <2>10
      DEF BoundReceipt, HeldReceipt, SpentReceipt, CommitPC, d
  <2>12. ReceiptSpentBeforeWrite' /\ NoneReceipt' /\ UsedReceipt'
    BY <2>1, <2>2, <2>5, <2>7, <2>8, <2>10
    DEF ReceiptInv, ReceiptSpentBeforeWrite, NoneReceipt, UsedReceipt
  <2> QED
    BY <2>11, <2>12 DEF ReceiptInv
<1>14. ASSUME NEW p \in Proc, ResumeJournal(p)  PROVE ReceiptInv'
  BY <1>14
    DEF ReceiptInv, BoundReceipt, HeldReceipt, SpentReceipt, ReceiptSpentBeforeWrite,
      NoneReceipt, UsedReceipt, LedgerInv, TypeInv, TypeOK, HasArguments, CommitPC,
      ResumeJournal, MayResume, host, local, Goto
<1>15. ASSUME NEW p \in Proc, RefuseJournal(p)  PROVE ReceiptInv'
  BY <1>15
    DEF ReceiptInv, BoundReceipt, HeldReceipt, SpentReceipt, ReceiptSpentBeforeWrite,
      NoneReceipt, UsedReceipt, LedgerInv, TypeInv, TypeOK, HasArguments, CommitPC,
      RefuseJournal, host, local, Goto
<1>16. ASSUME NEW p \in Proc, ConsumeReceipt(p)  PROVE ReceiptInv'
  <2>1. arg[p].receipt \in Receipt
    BY <1>16 DEF LedgerInv, TypeInv, TypeOK, HasArguments, CommitPC, ConsumeReceipt
  <2>2. /\ \A s \in Receipt \ {arg[p].receipt} : receipt'[s] = receipt[s]
        /\ receipt'[arg[p].receipt].draft = receipt[arg[p].receipt].draft
        /\ receipt'[arg[p].receipt].use = "valid"
    BY <1>16, <2>1 DEF LedgerInv, TypeInv, TypeOK, ReceiptFile, ConsumeReceipt
  <2>3. UNCHANGED <<journal, arg, txn, writes>>
    BY <1>16 DEF ConsumeReceipt, local
  <2> QED
    BY <1>16, <2>1, <2>2, <2>3, ConstantsDistinct
      DEF ReceiptInv, BoundReceipt, HeldReceipt, SpentReceipt, ReceiptSpentBeforeWrite,
        NoneReceipt, UsedReceipt, LedgerInv, TypeInv, TypeOK, HasArguments, CommitPC,
        ConsumeReceipt, local, Goto
<1>17. ASSUME NEW p \in Proc, ResumeReceipt(p)  PROVE ReceiptInv'
  BY <1>17
    DEF ReceiptInv, BoundReceipt, HeldReceipt, SpentReceipt, ReceiptSpentBeforeWrite,
      NoneReceipt, UsedReceipt, LedgerInv, TypeInv, TypeOK, HasArguments, CommitPC,
      ResumeReceipt, ConsumptionReadable, host, local, Goto
<1>18. ASSUME NEW p \in Proc, RefuseReceipt(p)  PROVE ReceiptInv'
  BY <1>18
    DEF ReceiptInv, BoundReceipt, HeldReceipt, SpentReceipt, ReceiptSpentBeforeWrite,
      NoneReceipt, UsedReceipt, LedgerInv, TypeInv, TypeOK, HasArguments, CommitPC,
      RefuseReceipt, host, local, Goto
<1>19. ASSUME NEW p \in Proc, StartApplying(p)  PROVE ReceiptInv'
  <2> DEFINE t == WithStatus(p, "applying")
  <2>1. txn[p] \in Transaction /\ step[p] \in Nat
    BY DEF LedgerInv, TypeInv, TypeOK, HasArguments, CommitPC
  <2>2. /\ t \in Transaction /\ t.receipt = txn[p].receipt
        /\ t.status = txn[p].status \/ t.status \notin {"none", "torn"}
    BY <2>1, WithStatusType DEF Status
  <2>3. /\ Store(p, t) \/ StoreFails(p, t)
        /\ pc[p] \in CommitPC \ {"verify", "load", "consume"}
        /\ UNCHANGED <<receipt, arg, writes>>
        /\ \E l \in PC : pc' = [pc EXCEPT ![p] = l]
    BY <1>19 DEF StartApplying, Goto, host, CommitPC, PC
  <2> HIDE DEF t
  <2> QED
    BY <2>2, <2>3, StoreKeepsReceiptInv
<1>20. ASSUME NEW p \in Proc, CheckOperation(p)  PROVE ReceiptInv'
  BY <1>20
    DEF ReceiptInv, BoundReceipt, HeldReceipt, SpentReceipt, ReceiptSpentBeforeWrite,
      NoneReceipt, UsedReceipt, LedgerInv, TypeInv, TypeOK, HasArguments, CommitPC,
      CheckOperation, host, local, Goto
<1>21. ASSUME NEW p \in Proc, ReplaceTarget(p)  PROVE ReceiptInv'
  <2>1. arg[p].draft \in Draft /\ arg[p].receipt \in Receipt
    BY <1>21 DEF LedgerInv, TypeInv, TypeOK, HasArguments, CommitPC, ReplaceTarget
  <2>2. /\ journal[arg[p].draft].receipt = arg[p].receipt
        /\ receipt[arg[p].receipt].draft = arg[p].draft
        /\ receipt[arg[p].receipt].use = "valid"
    BY <1>21
      DEF ReceiptInv, BoundReceipt, HeldReceipt, SpentReceipt, ReceiptSpentBeforeWrite,
        NoneReceipt, UsedReceipt, CommitPC, ReplaceTarget
  <2>3. /\ UNCHANGED <<receipt, journal, arg, txn>>
        /\ \E l \in {"progress", "fail"} : pc' = [pc EXCEPT ![p] = l]
    BY <1>21 DEF ReplaceTarget, host, Goto
  <2>4. \A d \in Draft \ {arg[p].draft} : writes'[d] = writes[d]
    BY <1>21, <2>1 DEF ReplaceTarget, LedgerInv, TypeInv, TypeOK
  <2>5. ReceiptSpentBeforeWrite'
    BY <2>1, <2>2, <2>3, <2>4 DEF ReceiptInv, ReceiptSpentBeforeWrite
  <2>6. pc[p] = "replace"
    BY <1>21 DEF ReplaceTarget
  <2> QED
    BY <2>3, <2>5, <2>6
      DEF ReceiptInv, BoundReceipt, HeldReceipt, SpentReceipt, NoneReceipt, UsedReceipt,
        LedgerInv, TypeInv, TypeOK, HasArguments, CommitPC
<1>22. ASSUME NEW p \in Proc, StoreProgress(p)  PROVE ReceiptInv'
  <2> DEFINE t == [txn[p] EXCEPT !.applied = step[p]]
  <2>1. txn[p] \in Transaction /\ step[p] \in Nat
    BY DEF LedgerInv, TypeInv, TypeOK, HasArguments, CommitPC
  <2>2. /\ t \in Transaction /\ t.receipt = txn[p].receipt
        /\ t.status = txn[p].status \/ t.status \notin {"none", "torn"}
    BY <2>1, TransactionUpdates DEF Transaction
  <2>3. /\ Store(p, t) \/ StoreFails(p, t)
        /\ pc[p] \in CommitPC \ {"verify", "load", "consume"}
        /\ UNCHANGED <<receipt, arg, writes>>
        /\ \E l \in PC : pc' = [pc EXCEPT ![p] = l]
    BY <1>22 DEF StoreProgress, Goto, host, CommitPC, PC
  <2> HIDE DEF t
  <2> QED
    BY <2>2, <2>3, StoreKeepsReceiptInv
<1>23. ASSUME NEW p \in Proc, StoreCommitted(p)  PROVE ReceiptInv'
  <2> DEFINE t == WithStatus(p, "canonical_committed")
  <2>1. txn[p] \in Transaction /\ step[p] \in Nat
    BY DEF LedgerInv, TypeInv, TypeOK, HasArguments, CommitPC
  <2>2. /\ t \in Transaction /\ t.receipt = txn[p].receipt
        /\ t.status = txn[p].status \/ t.status \notin {"none", "torn"}
    BY <2>1, WithStatusType DEF Status
  <2>3. /\ Store(p, t) \/ StoreFails(p, t)
        /\ pc[p] \in CommitPC \ {"verify", "load", "consume"}
        /\ UNCHANGED <<receipt, arg, writes>>
        /\ \E l \in PC : pc' = [pc EXCEPT ![p] = l]
    BY <1>23 DEF StoreCommitted, Goto, host, CommitPC, PC
  <2> HIDE DEF t
  <2> QED
    BY <2>2, <2>3, StoreKeepsReceiptInv
<1>24. ASSUME NEW p \in Proc, CreateMarker(p)  PROVE ReceiptInv'
  BY <1>24
    DEF ReceiptInv, BoundReceipt, HeldReceipt, SpentReceipt, ReceiptSpentBeforeWrite,
      NoneReceipt, UsedReceipt, LedgerInv, TypeInv, TypeOK, HasArguments, CommitPC,
      CreateMarker, host, local, Goto
<1>25. ASSUME NEW p \in Proc, RecordFailure(p)  PROVE ReceiptInv'
  <2> DEFINE t == WithStatus(p, "failed_recoverable")
  <2>1. txn[p] \in Transaction /\ step[p] \in Nat
    BY DEF LedgerInv, TypeInv, TypeOK, HasArguments, CommitPC
  <2>2. /\ t \in Transaction /\ t.receipt = txn[p].receipt
        /\ t.status = txn[p].status \/ t.status \notin {"none", "torn"}
    BY <2>1, WithStatusType DEF Status
  <2>3. /\ Store(p, t) \/ StoreFails(p, t)
        /\ pc[p] \in CommitPC \ {"verify", "load", "consume"}
        /\ UNCHANGED <<receipt, arg, writes>>
        /\ \E l \in PC : pc' = [pc EXCEPT ![p] = l]
    BY <1>25 DEF RecordFailure, Goto, host, CommitPC, PC
  <2> HIDE DEF t
  <2> QED
    BY <2>2, <2>3, StoreKeepsReceiptInv
<1>26. ASSUME NEW p \in Proc, Finalize(p)  PROVE ReceiptInv'
  <2> DEFINE t == WithStatus(p, "committed")
  <2>1. txn[p] \in Transaction /\ step[p] \in Nat
    BY DEF LedgerInv, TypeInv, TypeOK, HasArguments, CommitPC
  <2>2. /\ t \in Transaction /\ t.receipt = txn[p].receipt
        /\ t.status = txn[p].status \/ t.status \notin {"none", "torn"}
    BY <2>1, WithStatusType DEF Status
  <2>3. /\ Store(p, t) \/ StoreFails(p, t)
        /\ pc[p] \in CommitPC \ {"verify", "load", "consume"}
        /\ UNCHANGED <<receipt, arg, writes>>
        /\ \E l \in PC : pc' = [pc EXCEPT ![p] = l]
    BY <1>26 DEF Finalize, Goto, host, CommitPC, PC
  <2> HIDE DEF t
  <2> QED
    BY <2>2, <2>3, StoreKeepsReceiptInv
<1>27. ASSUME NEW p \in Proc, ReleaseLock(p)  PROVE ReceiptInv'
  BY <1>27
    DEF ReceiptInv, BoundReceipt, HeldReceipt, SpentReceipt, ReceiptSpentBeforeWrite,
      NoneReceipt, UsedReceipt, LedgerInv, TypeInv, TypeOK, HasArguments, CommitPC,
      ReleaseLock, host, local, Forget, Goto
<1>28. ASSUME NEW p \in Proc, AdminRefused(p)  PROVE ReceiptInv'
  BY <1>28
    DEF ReceiptInv, BoundReceipt, HeldReceipt, SpentReceipt, ReceiptSpentBeforeWrite,
      NoneReceipt, UsedReceipt, LedgerInv, TypeInv, TypeOK, HasArguments, CommitPC,
      AdminRefused, host, local, Goto
<1>29. ASSUME NEW p \in Proc, AdminReplace(p)  PROVE ReceiptInv'
  BY <1>29
    DEF ReceiptInv, BoundReceipt, HeldReceipt, SpentReceipt, ReceiptSpentBeforeWrite,
      NoneReceipt, UsedReceipt, LedgerInv, TypeInv, TypeOK, HasArguments, CommitPC,
      AdminReplace, host, local, Goto
<1>30. ASSUME NEW p \in Proc, Crash(p)  PROVE ReceiptInv'
  BY <1>30
    DEF ReceiptInv, BoundReceipt, HeldReceipt, SpentReceipt, ReceiptSpentBeforeWrite,
      NoneReceipt, UsedReceipt, LedgerInv, TypeInv, TypeOK, HasArguments, CommitPC, Crash,
      host, local, Forget, Goto
<1>31. ASSUME NEW p \in Proc, TearJournal(p)  PROVE ReceiptInv'
  <2>1. arg[p].draft \in Draft
    BY <1>31 DEF LedgerInv, TypeInv, TypeOK, HasArguments, CommitPC, TearJournal
  <2>2. /\ \A d \in Draft : journal'[d].receipt = journal[d].receipt
        /\ \A d \in Draft : journal'[d].status = "none" => journal[d].status = "none"
    BY <1>31, <2>1 DEF LedgerInv, TypeInv, TypeOK, Transaction, TearJournal
  <2>3. /\ UNCHANGED <<receipt, writes>> /\ pc' = [pc EXCEPT ![p] = "idle"]
        /\ arg' = [arg EXCEPT ![p] = NoArg] /\ txn' = [txn EXCEPT ![p] = NoTxn]
    BY <1>31 DEF TearJournal, host, Forget, Goto
  <2> QED
    BY <2>1, <2>2, <2>3
      DEF ReceiptInv, BoundReceipt, HeldReceipt, SpentReceipt, ReceiptSpentBeforeWrite,
        NoneReceipt, UsedReceipt, LedgerInv, TypeInv, TypeOK, HasArguments, CommitPC
<1>32. ASSUME NEW p \in Proc, TearConsumption(p)  PROVE ReceiptInv'
  <2>1. arg[p].receipt \in Receipt
    BY <1>32 DEF LedgerInv, TypeInv, TypeOK, HasArguments, CommitPC, TearConsumption
  <2>2. /\ \A s \in Receipt \ {arg[p].receipt} : receipt'[s] = receipt[s]
        /\ receipt'[arg[p].receipt].draft = receipt[arg[p].receipt].draft
        /\ receipt'[arg[p].receipt].use = "torn"
    BY <1>32, <2>1 DEF LedgerInv, TypeInv, TypeOK, ReceiptFile, TearConsumption
  <2>3. UNCHANGED <<journal, arg, txn, writes>>
    BY <1>32 DEF TearConsumption, local
  <2> QED
    BY <1>32, <2>1, <2>2, <2>3, ConstantsDistinct
      DEF ReceiptInv, BoundReceipt, HeldReceipt, SpentReceipt, ReceiptSpentBeforeWrite,
        NoneReceipt, UsedReceipt, LedgerInv, TypeInv, TypeOK, HasArguments, CommitPC,
        TearConsumption, local, Goto
<1>33. ASSUME NEW p \in Proc, CheckFails(p)  PROVE ReceiptInv'
  BY <1>33
    DEF ReceiptInv, BoundReceipt, HeldReceipt, SpentReceipt, ReceiptSpentBeforeWrite,
      NoneReceipt, UsedReceipt, LedgerInv, TypeInv, TypeOK, HasArguments, CommitPC,
      CheckFails, host, local, Goto
<1>34. ASSUME NEW p \in Proc, ReplaceFails(p)  PROVE ReceiptInv'
  BY <1>34
    DEF ReceiptInv, BoundReceipt, HeldReceipt, SpentReceipt, ReceiptSpentBeforeWrite,
      NoneReceipt, UsedReceipt, LedgerInv, TypeInv, TypeOK, HasArguments, CommitPC,
      ReplaceFails, host, local, Goto
<1> QED
  BY <1>1, <1>2, <1>3, <1>4, <1>5, <1>6, <1>7, <1>8, <1>9, <1>10, <1>11, <1>12, <1>13,
      <1>14, <1>15, <1>16, <1>17, <1>18, <1>19, <1>20, <1>21, <1>22, <1>23, <1>24, <1>25,
      <1>26, <1>27, <1>28, <1>29, <1>30, <1>31, <1>32, <1>33, <1>34
  DEF Next, Environment, Begin, Advance, Misfortune

LEMMA ReceiptInvHolds == Spec => []ReceiptInv
<1>1. Init => LedgerInv /\ ReceiptInv
  BY LedgerInvInit, ReceiptInvInit
<1>2. LedgerInv /\ ReceiptInv /\ [Next]_vars => (LedgerInv /\ ReceiptInv)'
  BY LedgerInvInductive, ReceiptInvInductive
<1> QED
  BY <1>1, <1>2, PTL DEF Spec

(* No draft touches the ledger before the receipt its journal names, which *)
(* was issued for that very draft, has been consumed.                      *)
THEOREM WritesNeedReceipt == Spec => []ReceiptSpentBeforeWrite
<1>1. ReceiptInv => ReceiptSpentBeforeWrite
  BY DEF ReceiptInv
<1> QED
  BY <1>1, ReceiptInvHolds, PTL

(* However many receipts were issued for a draft, and however often its    *)
(* commit was retried, at most one of them is spent: the journal names it. *)
THEOREM ReceiptsAreOneTime == Spec => []OneReceiptPerDraft
<1>1. ReceiptInv => OneReceiptPerDraft
  BY DEF ReceiptInv, UsedReceipt, OneReceiptPerDraft
<1> QED
  BY <1>1, ReceiptInvHolds, PTL
=============================================================================
