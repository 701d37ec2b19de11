------------------------- MODULE IngestCommitProofs -------------------------
(***************************************************************************)
(* Theorems about IngestCommit, for every value of its constants.          *)
(***************************************************************************)
EXTENDS IngestCommit, SequenceTheorems, TLAPS

-----------------------------------------------------------------------------
(* Sequences.                                                              *)

(* What apply_append installs starts with what was there.                  *)
LEMMA PrefixOfConcat ==
    ASSUME NEW S, NEW s \in Seq(S), NEW t \in Seq(S)
    PROVE  IsPrefix(s, s \o t)
BY DEF IsPrefix

LEMMA PrefixReflexive ==
    ASSUME NEW S, NEW s \in Seq(S)
    PROVE  IsPrefix(s, s)
BY DEF IsPrefix

LEMMA PrefixTransitive ==
    ASSUME NEW S, NEW s \in Seq(S), NEW t \in Seq(S), NEW u \in Seq(S),
           IsPrefix(s, t), IsPrefix(t, u)
    PROVE  IsPrefix(s, u)
BY DEF IsPrefix

LEMMA PrefixElement ==
    ASSUME NEW S, NEW s \in Seq(S), NEW t \in Seq(S), IsPrefix(s, t), NEW i \in DOMAIN s
    PROVE  i \in DOMAIN t /\ t[i] = s[i]
<1>1. Len(s) <= Len(t) /\ SubSeq(s, 1, Len(s)) = SubSeq(t, 1, Len(s))
  BY DEF IsPrefix
<1>2. SubSeq(s, 1, Len(s))[i] = s[i] /\ SubSeq(t, 1, Len(s))[i] = t[i]
  BY <1>1
<1> QED
  BY <1>1, <1>2
-----------------------------------------------------------------------------
(* Type correctness.  Beyond TypeOK: an attempt at the canonical write has *)
(* a draft, a receipt and an operation in hand, and a journal in use has   *)
(* operations.                                                             *)

CommitPC == {"verify", "load", "consume", "applying", "check", "replace",
             "progress", "commit", "mark", "fail", "finalize"}

HasArguments ==
    \A p \in Proc : pc[p] \in CommitPC =>
        arg[p].draft \in Draft /\ arg[p].receipt \in Receipt

HasOperations ==
    \A p \in Proc :
        /\ pc[p] \in CommitPC \ {"verify", "load"} => txn[p].ops # <<>>
        /\ pc[p] \in {"check", "replace", "progress"} => step[p] \in 1..Len(txn[p].ops)
        /\ pc[p] = "adminReplace" => txn[p].ops # <<>>

JournalHasOperations ==
    \A d \in Draft : journal[d].status \notin {"none", "torn"} => journal[d].ops # <<>>

TypeInv == TypeOK /\ HasArguments /\ HasOperations /\ JournalHasOperations

LEMMA AppendToType ==
    ASSUME ledger \in Ledger, NEW t \in Target, NEW entries \in Seq(Entry)
    PROVE  /\ AppendTo(t, entries) \in Operation
           /\ IsPrefix(AppendTo(t, entries).before, AppendTo(t, entries).after)
<1>1. ledger[t] \in Seq(Entry)
  BY DEF Ledger
<1>2. ledger[t] \o entries \in Seq(Entry)
  BY <1>1
<1>3. IsPrefix(ledger[t], ledger[t] \o entries)
  BY <1>1, PrefixOfConcat
<1> QED
  BY <1>1, <1>2, <1>3 DEF AppendTo, Operation

LEMMA OperationsType ==
    ASSUME TypeOK, NEW d \in Draft
    PROVE  /\ Operations(d) \in Seq(Operation)
           /\ Operations(d) # <<>>
           /\ \A i \in DOMAIN Operations(d) :
                 IsPrefix(Operations(d)[i].before, Operations(d)[i].after)
<1> DEFINE event == AppendTo(DayOf[LineOf[d]], <<LineOf[d]>>)
           sources == AppendTo(SourcesFile, RegistrationLines(d))
<1> USE ConstantTypes
<1>1. ledger \in Ledger
  BY DEF TypeOK
<1>2. LineOf[d] \in Line /\ DayOf[LineOf[d]] \in Target
  BY DEF Target
<1>3. event \in Operation /\ IsPrefix(event.before, event.after)
  <2>1. <<LineOf[d]>> \in Seq(Entry)
    BY <1>2 DEF Entry
  <2> QED
    BY <1>1, <1>2, <2>1, AppendToType
<1>4. sources \in Operation /\ IsPrefix(sources.before, sources.after)
  <2>1. \A i \in DOMAIN Registers[d] : Registers[d][i] \in Path
    OBVIOUS
  <2>2. \A q \in Path : draft[d].hash[q] \in Nat
    BY DEF TypeOK, DraftFile
  <2>3. RegistrationLines(d) \in Seq(Entry)
    <3>1. DOMAIN Registers[d] = 1..Len(Registers[d]) /\ Len(Registers[d]) \in Nat
      OBVIOUS
    <3>2. \A i \in DOMAIN Registers[d] : RegistrationLines(d)[i] \in Entry
      BY <2>1, <2>2 DEF RegistrationLines, Entry, Registration
    <3>3. RegistrationLines(d) = [i \in 1..Len(Registers[d]) |-> RegistrationLines(d)[i]]
      BY <3>1 DEF RegistrationLines
    <3> QED
      BY <3>1, <3>2, <3>3, IsASeq
  <2>4. SourcesFile \in Target
    BY DEF Target
  <2> QED
    BY <1>1, <2>3, <2>4, AppendToType
<1>5. Operations(d) = IF Registers[d] = <<>> THEN <<event>> ELSE <<sources, event>>
  BY DEF Operations
<1> HIDE DEF event, sources
<1> QED
  BY <1>3, <1>4, <1>5

(* Storing a transaction, whether the store returns or raises.             *)
LEMMA StoreType ==
    ASSUME TypeInv, NEW p \in Proc, pc[p] \in CommitPC, NEW t \in Transaction,
           Store(p, t) \/ StoreFails(p, t)
    PROVE  /\ txn' \in [Proc -> Transaction]
           /\ txn'[p] = t
           /\ \A q \in Proc \ {p} : txn'[q] = txn[q]
           /\ journal' \in [Draft -> Transaction]
           /\ journal'[arg[p].draft] \in {t, journal[arg[p].draft]}
           /\ \A d \in Draft \ {arg[p].draft} : journal'[d] = journal[d]
           /\ StoreFails(p, t) => faults' \in Nat
BY DEF TypeInv, TypeOK, HasArguments, Store, StoreFails, Fault

LEMMA WithStatusType ==
    ASSUME NEW p \in Proc, txn[p] \in Transaction, NEW s \in Status
    PROVE  /\ WithStatus(p, s) \in Transaction
           /\ WithStatus(p, s).ops = txn[p].ops
           /\ WithStatus(p, s).receipt = txn[p].receipt
           /\ WithStatus(p, s).applied = txn[p].applied
           /\ WithStatus(p, s).status = s
BY DEF WithStatus, Transaction

LEMMA NoTxnType == NoTxn \in Transaction /\ NoTxn.ops = <<>> /\ NoTxn.status = "none"
BY DEF NoTxn, Transaction, Status

(* The operation an attempt is at.                                         *)
LEMMA CurrentOperation ==
    ASSUME TypeInv, NEW p \in Proc
    PROVE  /\ pc[p] \in {"check", "replace", "progress"} => txn[p].ops[step[p]] \in Operation
           /\ pc[p] = "adminReplace" => txn[p].ops[1] \in Operation
BY DEF TypeInv, TypeOK, HasOperations, Transaction

(* The record updates of the actions keep the types of the files.          *)
LEMMA ReceiptFileUpdates ==
    ASSUME NEW f \in ReceiptFile
    PROVE  /\ \A d \in Draft : [f EXCEPT !.draft = d] \in ReceiptFile
           /\ [f EXCEPT !.expired = TRUE] \in ReceiptFile
           /\ \A u \in {"none", "valid", "torn"} : [f EXCEPT !.use = u] \in ReceiptFile
BY DEF ReceiptFile

LEMMA DraftFileUpdates ==
    ASSUME NEW f \in DraftFile
    PROVE  /\ \A h \in [Path -> Nat] :
                 [f EXCEPT !.status = "validated", !.hash = h] \in DraftFile
           /\ \A l \in Ledger : [f EXCEPT !.status = "pending", !.head = l] \in DraftFile
BY DEF DraftFile

LEMMA Increment ==
    ASSUME NEW S, NEW f \in [S -> Nat], NEW x
    PROVE  [f EXCEPT ![x] = @ + 1] \in [S -> Nat]
<1> DEFINE g == [f EXCEPT ![x] = @ + 1]
<1>1. g = [y \in S |-> IF y = x THEN f[y] + 1 ELSE f[y]]
  BY Zenon
<1>2. \A y \in S : g[y] \in Nat
  BY <1>1
<1> HIDE DEF g
<1> QED
  BY <1>1, <1>2 DEF g

LEMMA TransactionUpdates ==
    ASSUME NEW f \in Transaction
    PROVE  /\ \A s \in Status : /\ [f EXCEPT !.status = s] \in Transaction
                                /\ [f EXCEPT !.status = s].status = s
           /\ \A n \in Nat : /\ [f EXCEPT !.applied = n] \in Transaction
                             /\ [f EXCEPT !.applied = n].ops = f.ops
           /\ \A op \in Operation : /\ [f EXCEPT !.ops = <<op>>] \in Transaction
                                    /\ [f EXCEPT !.ops = <<op>>].ops = <<op>>
<1> USE DEF Transaction
<1>1. \A s \in Status : [f EXCEPT !.status = s] \in Transaction /\ [f EXCEPT !.status = s].status = s
  OBVIOUS
<1>2. \A n \in Nat : [f EXCEPT !.applied = n] \in Transaction /\ [f EXCEPT !.applied = n].ops = f.ops
  OBVIOUS
<1>3. ASSUME NEW op \in Operation
      PROVE  [f EXCEPT !.ops = <<op>>] \in Transaction /\ [f EXCEPT !.ops = <<op>>].ops = <<op>>
  <2>1. <<op>> \in Seq(Operation)
    OBVIOUS
  <2> DEFINE o == <<op>>
  <2>2. o \in Seq(Operation)
    BY <2>1
  <2> HIDE DEF o
  <2>3. [f EXCEPT !.ops = o] \in Transaction /\ [f EXCEPT !.ops = o].ops = o
    BY <2>2
  <2> QED
    BY <2>3 DEF o
<1> QED
  BY <1>1, <1>2, <1>3

(* Whatever a store leaves in the journal, the attempt goes on from a state *)
(* of the right type.                                                      *)
LEMMA StoreStep ==
    ASSUME TypeInv, NEW p \in Proc, NEW t \in Transaction, t.ops = txn[p].ops,
           pc[p] \in CommitPC \ {"verify", "load"},
           Store(p, t) \/ StoreFails(p, t), faults' = faults \/ StoreFails(p, t),
           NEW l \in {"check", "commit", "mark", "fail", "release"},
           pc' = [pc EXCEPT ![p] = l],
           step' \in [Proc -> Nat], \A q \in Proc \ {p} : step'[q] = step[q],
           l = "check" => step'[p] \in 1..Len(txn[p].ops),
           UNCHANGED <<ledger, content, draft, receipt, marker, lock, arg, writes>>
    PROVE  TypeInv'
<1>1. arg[p].draft \in Draft /\ txn[p].ops # <<>>
  BY DEF TypeInv, HasArguments, HasOperations
<1>2. /\ txn' \in [Proc -> Transaction] /\ txn'[p] = t
      /\ \A o \in Proc \ {p} : txn'[o] = txn[o]
      /\ journal' \in [Draft -> Transaction]
      /\ \A d \in Draft : journal'[d] \in {t, journal[d]}
      /\ faults' \in Nat
  BY <1>1, StoreType DEF TypeInv, TypeOK
<1>3. pc' \in [Proc -> PC] /\ pc'[p] = l /\ \A o \in Proc \ {p} : pc'[o] = pc[o]
  BY DEF TypeInv, TypeOK, PC
<1>4. TypeOK'
  BY <1>2, <1>3 DEF TypeInv, TypeOK
<1>5. HasArguments'
  BY <1>3 DEF TypeInv, HasArguments, CommitPC
<1>6. HasOperations'
  BY <1>1, <1>2, <1>3 DEF TypeInv, HasOperations, CommitPC
<1>7. JournalHasOperations'
  BY <1>1, <1>2 DEF TypeInv, JournalHasOperations
<1> QED
  BY <1>4, <1>5, <1>6, <1>7 DEF TypeInv

LEMMA TypeInvInductive ==
    ASSUME TypeInv, [Next]_vars
    PROVE  TypeInv'
<1>1. CASE UNCHANGED vars
  BY <1>1
    DEF TypeInv, TypeOK, HasArguments, HasOperations, JournalHasOperations, vars, local,
      host
<1>2. ASSUME NEW d \in Draft, PrepareValidate(d)  PROVE TypeInv'
  <2> DEFINE hash == [q \in Path |-> IF q \in Staged(d) THEN content[q] ELSE 0]
  <2>1. hash \in [Path -> Nat]
    BY DEF TypeInv, TypeOK
  <2>2. draft' = [draft EXCEPT ![d] = [@ EXCEPT !.status = "validated", !.hash = hash]]
    BY <1>2 DEF PrepareValidate
  <2> HIDE DEF hash
  <2>3. draft' \in [Draft -> DraftFile]
    BY <2>1, <2>2, DraftFileUpdates DEF TypeInv, TypeOK
  <2> QED
    BY <1>2, <2>3
      DEF TypeInv, TypeOK, HasArguments, HasOperations, JournalHasOperations,
        PrepareValidate, host, local
<1>3. ASSUME NEW d \in Draft, PrepareStore(d)  PROVE TypeInv'
  <2>1. draft' \in [Draft -> DraftFile]
    BY <1>3, DraftFileUpdates DEF TypeInv, TypeOK, PrepareStore
  <2> QED
    BY <1>3, <2>1
      DEF TypeInv, TypeOK, HasArguments, HasOperations, JournalHasOperations,
        PrepareStore, host, local
<1>4. ASSUME NEW r \in Receipt, NEW d \in Draft, IssueReceipt(r, d)  PROVE TypeInv'
  <2>1. receipt' \in [Receipt -> ReceiptFile]
    BY <1>4, ReceiptFileUpdates DEF TypeInv, TypeOK, IssueReceipt
  <2> QED
    BY <1>4, <2>1
      DEF TypeInv, TypeOK, HasArguments, HasOperations, JournalHasOperations,
        IssueReceipt, host, local
<1>5. ASSUME NEW r \in Receipt, ExpireReceipt(r)  PROVE TypeInv'
  <2>1. receipt' \in [Receipt -> ReceiptFile]
    BY <1>5, ReceiptFileUpdates DEF TypeInv, TypeOK, ExpireReceipt
  <2> QED
    BY <1>5, <2>1
      DEF TypeInv, TypeOK, HasArguments, HasOperations, JournalHasOperations,
        ExpireReceipt, host, local
<1>6. ASSUME NEW q \in Path, EditSource(q)  PROVE TypeInv'
  BY <1>6
    DEF TypeInv, TypeOK, HasArguments, HasOperations, JournalHasOperations, EditSource,
      host, local
<1>7. ASSUME ClearStaleLock  PROVE TypeInv'
  BY <1>7
    DEF TypeInv, TypeOK, HasArguments, HasOperations, JournalHasOperations,
      ClearStaleLock, host, local
<1>8. ASSUME NEW p \in Proc, NEW d \in Draft, NEW r \in Receipt, BeginCommit(p, d, r)  PROVE TypeInv'
  <2>1. arg' \in [Proc -> Call]
    BY <1>8 DEF TypeInv, TypeOK, BeginCommit, Call
  <2> QED
    BY <1>8, <2>1
      DEF TypeInv, TypeOK, HasArguments, HasOperations, JournalHasOperations, BeginCommit,
        host, local, AcquireLock, Goto, PC, CommitPC
<1>9. ASSUME NEW p \in Proc, BeginAdmin(p)  PROVE TypeInv'
  BY <1>9
    DEF TypeInv, TypeOK, HasArguments, HasOperations, JournalHasOperations, BeginAdmin,
      host, local, AcquireLock, Goto, PC, CommitPC
<1>10. ASSUME NEW p \in Proc, NEW l \in AdminLine, AppendRecord(p, l)  PROVE TypeInv'
  <2>1. DayOf[l] \in Target /\ <<l>> \in Seq(Entry)
    BY ConstantTypes DEF Target, Entry
  <2> DEFINE op == AppendTo(DayOf[l], <<l>>)
  <2>2. op \in Operation
    BY <2>1, AppendToType DEF TypeInv, TypeOK
  <2>3. txn' = [txn EXCEPT ![p] = [@ EXCEPT !.ops = <<op>>]]
    BY <1>10 DEF AppendRecord, AdminPrepare
  <2> HIDE DEF op
  <2>4. /\ [txn[p] EXCEPT !.ops = <<op>>] \in Transaction
        /\ [txn[p] EXCEPT !.ops = <<op>>].ops # <<>>
    <3>1. /\ [txn[p] EXCEPT !.ops = <<op>>] \in Transaction
          /\ [txn[p] EXCEPT !.ops = <<op>>].ops = <<op>>
      BY <2>2, TransactionUpdates DEF TypeInv, TypeOK
    <3>2. <<op>> # <<>>
      OBVIOUS
    <3> QED
      BY <3>1, <3>2
  <2>5. /\ txn' \in [Proc -> Transaction] /\ txn'[p].ops # <<>>
        /\ \A o \in Proc \ {p} : txn'[o] = txn[o]
    BY <2>3, <2>4 DEF TypeInv, TypeOK
  <2>6. pc' \in [Proc -> PC]
    BY <1>10 DEF AppendRecord, AdminPrepare, Goto, TypeInv, TypeOK, PC
  <2> QED
    BY <1>10, <2>5, <2>6
      DEF TypeInv, TypeOK, HasArguments, HasOperations, JournalHasOperations,
        AppendRecord, host, local, AdminPrepare, Goto, CommitPC
<1>11. ASSUME NEW p \in Proc, NEW q \in AdminPath, RegisterSource(p, q)  PROVE TypeInv'
  <2>1. SourcesFile \in Target /\ <<[path |-> q, hash |-> content[q]]>> \in Seq(Entry)
    BY ConstantTypes DEF Target, Entry, Registration, TypeInv, TypeOK
  <2> DEFINE op == AppendTo(SourcesFile, <<[path |-> q, hash |-> content[q]]>>)
  <2>2. op \in Operation
    BY <2>1, AppendToType DEF TypeInv, TypeOK
  <2>3. txn' = [txn EXCEPT ![p] = [@ EXCEPT !.ops = <<op>>]]
    BY <1>11 DEF RegisterSource, AdminPrepare
  <2> HIDE DEF op
  <2>4. /\ [txn[p] EXCEPT !.ops = <<op>>] \in Transaction
        /\ [txn[p] EXCEPT !.ops = <<op>>].ops # <<>>
    <3>1. /\ [txn[p] EXCEPT !.ops = <<op>>] \in Transaction
          /\ [txn[p] EXCEPT !.ops = <<op>>].ops = <<op>>
      BY <2>2, TransactionUpdates DEF TypeInv, TypeOK
    <3>2. <<op>> # <<>>
      OBVIOUS
    <3> QED
      BY <3>1, <3>2
  <2>5. /\ txn' \in [Proc -> Transaction] /\ txn'[p].ops # <<>>
        /\ \A o \in Proc \ {p} : txn'[o] = txn[o]
    BY <2>3, <2>4 DEF TypeInv, TypeOK
  <2>6. pc' \in [Proc -> PC]
    BY <1>11 DEF RegisterSource, AdminPrepare, Goto, TypeInv, TypeOK, PC
  <2> QED
    BY <1>11, <2>5, <2>6
      DEF TypeInv, TypeOK, HasArguments, HasOperations, JournalHasOperations,
        RegisterSource, host, local, AdminPrepare, Goto, CommitPC
<1>12. ASSUME NEW p \in Proc, Verify(p)  PROVE TypeInv'
  BY <1>12
    DEF TypeInv, TypeOK, HasArguments, HasOperations, JournalHasOperations, Verify, host,
      local, Goto, PC, CommitPC, Fault
<1>13. ASSUME NEW p \in Proc, OpenJournal(p)  PROVE TypeInv'
  <2> DEFINE d == arg[p].draft
             t == [status |-> "prepared", receipt |-> arg[p].receipt,
                   ops |-> Operations(d), applied |-> 0]
  <2>1. d \in Draft /\ arg[p].receipt \in Receipt
    BY <1>13 DEF TypeInv, HasArguments, CommitPC, OpenJournal
  <2>2. t \in Transaction /\ t.ops # <<>>
    BY <2>1, OperationsType DEF TypeInv, Transaction, Status
  <2>3. journal' = [journal EXCEPT ![d] = t] /\ txn' = [txn EXCEPT ![p] = t]
    BY <1>13 DEF OpenJournal
  <2> HIDE DEF t, d
  <2> QED
    BY <1>13, <2>1, <2>2, <2>3
      DEF TypeInv, TypeOK, HasArguments, HasOperations, JournalHasOperations, OpenJournal,
        host, local, Goto, PC, CommitPC
<1>14. ASSUME NEW p \in Proc, ResumeJournal(p)  PROVE TypeInv'
  <2>1. arg[p].draft \in Draft
    BY <1>14 DEF TypeInv, HasArguments, CommitPC, ResumeJournal
  <2>2. journal[arg[p].draft].ops # <<>>
    BY <1>14, <2>1 DEF TypeInv, JournalHasOperations, ResumeJournal, MayResume
  <2> QED
    BY <1>14, <2>1, <2>2
      DEF TypeInv, TypeOK, HasArguments, HasOperations, JournalHasOperations,
        ResumeJournal, host, local, Goto, PC, CommitPC
<1>15. ASSUME NEW p \in Proc, RefuseJournal(p)  PROVE TypeInv'
  BY <1>15
    DEF TypeInv, TypeOK, HasArguments, HasOperations, JournalHasOperations, RefuseJournal,
      host, local, Goto, PC, CommitPC, Fault
<1>16. ASSUME NEW p \in Proc, ConsumeReceipt(p)  PROVE TypeInv'
  <2>1. arg[p].receipt \in Receipt
    BY <1>16 DEF TypeInv, HasArguments, CommitPC, ConsumeReceipt
  <2>2. receipt' \in [Receipt -> ReceiptFile]
    BY <1>16, <2>1, ReceiptFileUpdates DEF TypeInv, TypeOK, ConsumeReceipt
  <2>3. pc' \in [Proc -> PC]
    BY <1>16 DEF TypeInv, TypeOK, ConsumeReceipt, Goto, PC
  <2> QED
    BY <1>16, <2>2, <2>3
      DEF TypeInv, TypeOK, HasArguments, HasOperations, JournalHasOperations,
        ConsumeReceipt, host, local, Goto, Fault, CommitPC
<1>17. ASSUME NEW p \in Proc, ResumeReceipt(p)  PROVE TypeInv'
  BY <1>17
    DEF TypeInv, TypeOK, HasArguments, HasOperations, JournalHasOperations, ResumeReceipt,
      host, local, Goto, PC, CommitPC, Fault
<1>18. ASSUME NEW p \in Proc, RefuseReceipt(p)  PROVE TypeInv'
  BY <1>18
    DEF TypeInv, TypeOK, HasArguments, HasOperations, JournalHasOperations, RefuseReceipt,
      host, local, Goto, PC, CommitPC, Fault
<1>19. ASSUME NEW p \in Proc, StartApplying(p)  PROVE TypeInv'
  <2> DEFINE t == WithStatus(p, "applying")
  <2>1. t \in Transaction /\ t.ops = txn[p].ops
    BY WithStatusType DEF TypeInv, TypeOK, Status
  <2>2. /\ Store(p, t) \/ StoreFails(p, t)
        /\ faults' = faults \/ StoreFails(p, t)
        /\ step' = [step EXCEPT ![p] = 1]
        /\ UNCHANGED <<ledger, content, draft, receipt, marker, lock, arg, writes>>
    BY <1>19 DEF StartApplying, host
  <2> HIDE DEF t
  <2>3. pc[p] \in CommitPC \ {"verify", "load"}
    BY <1>19 DEF StartApplying, CommitPC
  <2>4. txn[p].ops # <<>> /\ Len(txn[p].ops) \in Nat \ {0}
    BY <2>3 DEF TypeInv, TypeOK, HasOperations, Transaction
  <2>5. /\ step' \in [Proc -> Nat]
        /\ \A q \in Proc \ {p} : step'[q] = step[q]
    BY <2>2 DEF TypeInv, TypeOK
  <2>6. PICK l \in {"check", "commit", "mark", "fail", "release"} :
           /\ pc' = [pc EXCEPT ![p] = l]
           /\ l = "check" => step'[p] \in 1..Len(txn[p].ops)
    BY <1>19, <2>2, <2>4 DEF StartApplying, Goto, TypeInv, TypeOK, HasOperations
  <2> QED
    BY <2>1, <2>2, <2>3, <2>5, <2>6, StoreStep
<1>20. ASSUME NEW p \in Proc, CheckOperation(p)  PROVE TypeInv'
  <2>1. pc' \in [Proc -> PC]
    BY <1>20 DEF TypeInv, TypeOK, CheckOperation, Goto, PC, OpState
  <2> QED
    BY <1>20, <2>1
      DEF TypeInv, TypeOK, HasArguments, HasOperations, JournalHasOperations,
        CheckOperation, host, local, Goto, CommitPC, OpState
<1>21. ASSUME NEW p \in Proc, ReplaceTarget(p)  PROVE TypeInv'
  <2>1. txn[p].ops[step[p]] \in Operation
    BY <1>21, CurrentOperation DEF ReplaceTarget
  <2>2. ledger' \in Ledger
    BY <1>21, <2>1 DEF ReplaceTarget, Rename, TypeInv, TypeOK, Ledger, Operation
  <2>3. pc' \in [Proc -> PC]
    BY <1>21 DEF ReplaceTarget, Goto, TypeInv, TypeOK, PC
  <2>4. writes' \in [Draft -> Nat] /\ faults' \in Nat
    <3>1. writes \in [Draft -> Nat] /\ faults \in Nat
      BY DEF TypeInv, TypeOK
    <3>2. writes' = [writes EXCEPT ![arg[p].draft] = @ + 1] \/ writes' = writes
      BY <1>21 DEF ReplaceTarget
    <3>3. faults' = faults \/ faults' = faults + 1
      BY <1>21 DEF ReplaceTarget, Fault
    <3> QED
      BY <3>1, <3>2, <3>3, Increment
  <2>5. HasArguments' /\ HasOperations'
    BY <1>21 DEF ReplaceTarget, TypeInv, TypeOK, HasArguments, HasOperations, Goto, CommitPC
  <2> QED
    BY <1>21, <2>2, <2>3, <2>4, <2>5
      DEF ReplaceTarget, TypeInv, TypeOK, JournalHasOperations, host
<1>22. ASSUME NEW p \in Proc, StoreProgress(p)  PROVE TypeInv'
  <2> DEFINE t == [txn[p] EXCEPT !.applied = step[p]]
  <2>1. t \in Transaction /\ t.ops = txn[p].ops
    <3>1. txn[p] \in Transaction /\ step[p] \in Nat
      BY DEF TypeInv, TypeOK
    <3> QED
      BY <3>1, TransactionUpdates
  <2>2. /\ Store(p, t) \/ StoreFails(p, t)
        /\ faults' = faults \/ StoreFails(p, t)
        /\ step' = [step EXCEPT ![p] = step[p] + 1]
        /\ UNCHANGED <<ledger, content, draft, receipt, marker, lock, arg, writes>>
    BY <1>22 DEF StoreProgress, host
  <2> HIDE DEF t
  <2>3. pc[p] \in CommitPC \ {"verify", "load"}
    BY <1>22 DEF StoreProgress, CommitPC
  <2>4. txn[p].ops # <<>> /\ Len(txn[p].ops) \in Nat \ {0}
    BY <2>3 DEF TypeInv, TypeOK, HasOperations, Transaction
  <2>5. /\ step' \in [Proc -> Nat]
        /\ \A q \in Proc \ {p} : step'[q] = step[q]
    BY <2>2 DEF TypeInv, TypeOK
  <2>6. PICK l \in {"check", "commit", "mark", "fail", "release"} :
           /\ pc' = [pc EXCEPT ![p] = l]
           /\ l = "check" => step'[p] \in 1..Len(txn[p].ops)
    BY <1>22, <2>2, <2>4 DEF StoreProgress, Goto, TypeInv, TypeOK, HasOperations
  <2> QED
    BY <2>1, <2>2, <2>3, <2>5, <2>6, StoreStep
<1>23. ASSUME NEW p \in Proc, StoreCommitted(p)  PROVE TypeInv'
  <2> DEFINE t == WithStatus(p, "canonical_committed")
  <2>1. t \in Transaction /\ t.ops = txn[p].ops
    BY WithStatusType DEF TypeInv, TypeOK, Status
  <2>2. /\ Store(p, t) \/ StoreFails(p, t)
        /\ faults' = faults \/ StoreFails(p, t)
        /\ step' = step
        /\ UNCHANGED <<ledger, content, draft, receipt, marker, lock, arg, writes>>
    BY <1>23 DEF StoreCommitted, host
  <2> HIDE DEF t
  <2>3. pc[p] \in CommitPC \ {"verify", "load"}
    BY <1>23 DEF StoreCommitted, CommitPC
  <2>4. txn[p].ops # <<>> /\ Len(txn[p].ops) \in Nat \ {0}
    BY <2>3 DEF TypeInv, TypeOK, HasOperations, Transaction
  <2>5. /\ step' \in [Proc -> Nat]
        /\ \A q \in Proc \ {p} : step'[q] = step[q]
    BY <2>2 DEF TypeInv, TypeOK
  <2>6. PICK l \in {"check", "commit", "mark", "fail", "release"} :
           /\ pc' = [pc EXCEPT ![p] = l]
           /\ l = "check" => step'[p] \in 1..Len(txn[p].ops)
    BY <1>23, <2>2, <2>4 DEF StoreCommitted, Goto, TypeInv, TypeOK, HasOperations
  <2> QED
    BY <2>1, <2>2, <2>3, <2>5, <2>6, StoreStep
<1>24. ASSUME NEW p \in Proc, CreateMarker(p)  PROVE TypeInv'
  <2>1. arg[p].draft \in Draft
    BY <1>24 DEF TypeInv, HasArguments, CommitPC, CreateMarker
  <2>2. marker' \subseteq Draft /\ faults' \in Nat
    BY <1>24, <2>1 DEF TypeInv, TypeOK, CreateMarker, Fault
  <2>3. pc' \in [Proc -> PC]
    BY <1>24 DEF TypeInv, TypeOK, CreateMarker, Goto, PC
  <2>4. HasArguments' /\ HasOperations'
    BY <1>24 DEF TypeInv, TypeOK, HasArguments, HasOperations, CreateMarker, Goto, CommitPC
  <2> QED
    BY <1>24, <2>2, <2>3, <2>4 DEF TypeInv, TypeOK, JournalHasOperations, CreateMarker, host
<1>25. ASSUME NEW p \in Proc, RecordFailure(p)  PROVE TypeInv'
  <2> DEFINE t == WithStatus(p, "failed_recoverable")
  <2>1. t \in Transaction /\ t.ops = txn[p].ops
    BY WithStatusType DEF TypeInv, TypeOK, Status
  <2>2. /\ Store(p, t) \/ StoreFails(p, t)
        /\ faults' = faults \/ StoreFails(p, t)
        /\ step' = step
        /\ UNCHANGED <<ledger, content, draft, receipt, marker, lock, arg, writes>>
    BY <1>25 DEF RecordFailure, host
  <2> HIDE DEF t
  <2>3. pc[p] \in CommitPC \ {"verify", "load"}
    BY <1>25 DEF RecordFailure, CommitPC
  <2>4. txn[p].ops # <<>> /\ Len(txn[p].ops) \in Nat \ {0}
    BY <2>3 DEF TypeInv, TypeOK, HasOperations, Transaction
  <2>5. /\ step' \in [Proc -> Nat]
        /\ \A q \in Proc \ {p} : step'[q] = step[q]
    BY <2>2 DEF TypeInv, TypeOK
  <2>6. PICK l \in {"check", "commit", "mark", "fail", "release"} :
           /\ pc' = [pc EXCEPT ![p] = l]
           /\ l = "check" => step'[p] \in 1..Len(txn[p].ops)
    BY <1>25, <2>2, <2>4 DEF RecordFailure, Goto, TypeInv, TypeOK, HasOperations
  <2> QED
    BY <2>1, <2>2, <2>3, <2>5, <2>6, StoreStep
<1>26. ASSUME NEW p \in Proc, Finalize(p)  PROVE TypeInv'
  <2> DEFINE t == WithStatus(p, "committed")
  <2>1. t \in Transaction /\ t.ops = txn[p].ops
    BY WithStatusType DEF TypeInv, TypeOK, Status
  <2>2. /\ Store(p, t) \/ StoreFails(p, t)
        /\ faults' = faults \/ StoreFails(p, t)
        /\ step' = step
        /\ UNCHANGED <<ledger, content, draft, receipt, marker, lock, arg, writes>>
    BY <1>26 DEF Finalize, host
  <2> HIDE DEF t
  <2>3. pc[p] \in CommitPC \ {"verify", "load"}
    BY <1>26 DEF Finalize, CommitPC
  <2>4. txn[p].ops # <<>> /\ Len(txn[p].ops) \in Nat \ {0}
    BY <2>3 DEF TypeInv, TypeOK, HasOperations, Transaction
  <2>5. /\ step' \in [Proc -> Nat]
        /\ \A q \in Proc \ {p} : step'[q] = step[q]
    BY <2>2 DEF TypeInv, TypeOK
  <2>6. PICK l \in {"check", "commit", "mark", "fail", "release"} :
           /\ pc' = [pc EXCEPT ![p] = l]
           /\ l = "check" => step'[p] \in 1..Len(txn[p].ops)
    BY <1>26, <2>2, <2>4 DEF Finalize, Goto, TypeInv, TypeOK, HasOperations
  <2> QED
    BY <2>1, <2>2, <2>3, <2>5, <2>6, StoreStep
<1>27. ASSUME NEW p \in Proc, ReleaseLock(p)  PROVE TypeInv'
  <2>1. NoArg \in Call
    BY DEF NoArg, Call
  <2> QED
    BY <1>27, <2>1, NoTxnType
      DEF TypeInv, TypeOK, HasArguments, HasOperations, JournalHasOperations, ReleaseLock,
        host, local, Forget, Goto, Fault, PC, CommitPC
<1>28. ASSUME NEW p \in Proc, AdminRefused(p)  PROVE TypeInv'
  BY <1>28
    DEF TypeInv, TypeOK, HasArguments, HasOperations, JournalHasOperations, AdminRefused,
      host, local, Goto, PC, CommitPC, Fault
<1>29. ASSUME NEW p \in Proc, AdminReplace(p)  PROVE TypeInv'
  <2>1. txn[p].ops[1] \in Operation
    BY <1>29, CurrentOperation DEF AdminReplace
  <2>2. ledger' \in Ledger
    BY <1>29, <2>1 DEF AdminReplace, Rename, TypeInv, TypeOK, Ledger, Operation
  <2>3. pc' \in [Proc -> PC]
    BY <1>29 DEF AdminReplace, Goto, TypeInv, TypeOK, PC
  <2>4. writes' \in [Draft -> Nat] /\ faults' \in Nat
    <3>1. writes \in [Draft -> Nat] /\ faults \in Nat
      BY DEF TypeInv, TypeOK
    <3>2. writes' = [writes EXCEPT ![arg[p].draft] = @ + 1] \/ writes' = writes
      BY <1>29 DEF AdminReplace
    <3>3. faults' = faults \/ faults' = faults + 1
      BY <1>29 DEF AdminReplace, Fault
    <3> QED
      BY <3>1, <3>2, <3>3, Increment
  <2>5. HasArguments' /\ HasOperations'
    BY <1>29 DEF AdminReplace, TypeInv, TypeOK, HasArguments, HasOperations, Goto, CommitPC
  <2> QED
    BY <1>29, <2>2, <2>3, <2>4, <2>5
      DEF AdminReplace, TypeInv, TypeOK, JournalHasOperations, host
<1>30. ASSUME NEW p \in Proc, Crash(p)  PROVE TypeInv'
  <2>1. NoArg \in Call
    BY DEF NoArg, Call
  <2> QED
    BY <1>30, <2>1, NoTxnType
      DEF TypeInv, TypeOK, HasArguments, HasOperations, JournalHasOperations, Crash, host,
        local, Forget, Goto, Fault, PC, CommitPC
<1>31. ASSUME NEW p \in Proc, TearJournal(p)  PROVE TypeInv'
  <2>1. NoArg \in Call
    BY DEF NoArg, Call
  <2>2. arg[p].draft \in Draft
    BY <1>31 DEF TypeInv, HasArguments, CommitPC, TearJournal
  <2> DEFINE torn == [journal[arg[p].draft] EXCEPT !.status = "torn"]
  <2>3. torn \in Transaction /\ torn.status = "torn"
    BY <2>2, TransactionUpdates DEF TypeInv, TypeOK, Status
  <2>4. journal' = [journal EXCEPT ![arg[p].draft] = torn]
    BY <1>31 DEF TearJournal
  <2> HIDE DEF torn
  <2>5. /\ journal' \in [Draft -> Transaction]
        /\ \A d \in Draft : journal'[d].status \notin {"none", "torn"} => journal'[d] = journal[d]
    BY <2>2, <2>3, <2>4 DEF TypeInv, TypeOK
  <2> QED
    BY <1>31, <2>1, <2>5, NoTxnType
      DEF TypeInv, TypeOK, HasArguments, HasOperations, JournalHasOperations, TearJournal,
        host, local, Forget, Goto, Fault, PC, CommitPC
<1>32. ASSUME NEW p \in Proc, TearConsumption(p)  PROVE TypeInv'
  <2>1. arg[p].receipt \in Receipt
    BY <1>32 DEF TypeInv, HasArguments, CommitPC, TearConsumption
  <2>2. receipt' \in [Receipt -> ReceiptFile]
    BY <1>32, <2>1, ReceiptFileUpdates DEF TypeInv, TypeOK, TearConsumption
  <2>3. pc' \in [Proc -> PC]
    BY <1>32 DEF TypeInv, TypeOK, TearConsumption, Goto, PC
  <2> QED
    BY <1>32, <2>2, <2>3
      DEF TypeInv, TypeOK, HasArguments, HasOperations, JournalHasOperations,
        TearConsumption, host, local, Goto, Fault, CommitPC
<1>33. ASSUME NEW p \in Proc, CheckFails(p)  PROVE TypeInv'
  BY <1>33
    DEF TypeInv, TypeOK, HasArguments, HasOperations, JournalHasOperations, CheckFails,
      host, local, Goto, PC, CommitPC, Fault
<1>34. ASSUME NEW p \in Proc, ReplaceFails(p)  PROVE TypeInv'
  BY <1>34
    DEF TypeInv, TypeOK, HasArguments, HasOperations, JournalHasOperations, ReplaceFails,
      host, local, Goto, PC, CommitPC, Fault
<1> QED
  BY <1>1, <1>2, <1>3, <1>4, <1>5, <1>6, <1>7, <1>8, <1>9, <1>10, <1>11, <1>12, <1>13,
      <1>14, <1>15, <1>16, <1>17, <1>18, <1>19, <1>20, <1>21, <1>22, <1>23, <1>24, <1>25,
      <1>26, <1>27, <1>28, <1>29, <1>30, <1>31, <1>32, <1>33, <1>34
  DEF Next, Environment, Begin, Advance, Misfortune

LEMMA TypeInvInit == Init => TypeInv
<1> USE ConstantTypes, ConstantsDistinct
<1> SUFFICES ASSUME Init PROVE TypeInv
  OBVIOUS
<1>1. EmptyLedger \in Ledger
  BY DEF EmptyLedger, Ledger
<1>2. NoDraft \in DraftFile /\ NoReceipt \in ReceiptFile /\ NoArg \in Call
  BY <1>1 DEF NoDraft, DraftFile, NoReceipt, ReceiptFile, NoArg, Call
<1> QED
  BY <1>1, <1>2, NoTxnType DEF Init, TypeInv, TypeOK, HasArguments, HasOperations,
        JournalHasOperations, CommitPC, PC

(* In every reachable state the files, the memory of every process and the *)
(* lock are what their types say: a journal is a sequence of operations on *)
(* canonical files, a receipt is bound to a draft or not issued.           *)
THEOREM TypeCorrect == Spec => []TypeOK
<1>1. Spec => []TypeInv
  BY TypeInvInit, TypeInvInductive, PTL DEF Spec
<1>2. TypeInv => TypeOK
  BY DEF TypeInv
<1> QED
  BY <1>1, <1>2, PTL
-----------------------------------------------------------------------------
(* Append-only.  Whoever is not idle holds the lock, so between the moment *)
(* a writer compares a file with its journal and the moment it renames the *)
(* new version into place nobody else writes: the file still is what the   *)
(* operation starts from, and the operation only adds at its end.          *)

LockHeld == \A p \in Proc : pc[p] # "idle" => lock = p

Grows(ops) == \A i \in DOMAIN ops : IsPrefix(ops[i].before, ops[i].after)

OpsGrow ==
    /\ \A p \in Proc : Grows(txn[p].ops)
    /\ \A d \in Draft : Grows(journal[d].ops)

AtReplace ==
    \A p \in Proc :
        /\ pc[p] = "replace" =>
              ledger[txn[p].ops[step[p]].target] = txn[p].ops[step[p]].before
        /\ pc[p] = "adminReplace" => ledger[txn[p].ops[1].target] = txn[p].ops[1].before

LedgerInv == TypeInv /\ LockHeld /\ OpsGrow /\ AtReplace

LEMMA NoTxnGrows == Grows(NoTxn.ops)
BY DEF Grows, NoTxn

LEMMA LedgerInvInit == Init => LedgerInv
BY TypeInvInit, NoTxnGrows DEF Init, LedgerInv, LockHeld, OpsGrow, AtReplace

LEMMA StoreKeepsLedgerInv ==
    ASSUME LedgerInv, TypeInv', NEW p \in Proc, NEW t \in Transaction,
           t.ops = txn[p].ops, pc[p] \in CommitPC, Store(p, t) \/ StoreFails(p, t),
           UNCHANGED <<ledger, lock>>, \A q \in Proc \ {p} : step'[q] = step[q],
           \E l \in PC \ {"replace", "adminReplace"} : pc' = [pc EXCEPT ![p] = l]
    PROVE  LedgerInv'
<1>1. /\ txn'[p] = t /\ \A q \in Proc \ {p} : txn'[q] = txn[q]
      /\ \A d \in Draft : journal'[d] \in {t, journal[d]}
  BY StoreType DEF LedgerInv
<1>2. OpsGrow'
  BY <1>1 DEF LedgerInv, OpsGrow
<1>3. LockHeld'
  BY DEF LedgerInv, LockHeld, TypeInv, TypeOK, CommitPC
<1>4. AtReplace'
  BY <1>1 DEF LedgerInv, AtReplace, TypeInv, TypeOK
<1> QED
  BY <1>2, <1>3, <1>4 DEF LedgerInv

LEMMA LedgerInvInductive ==
    ASSUME LedgerInv, [Next]_vars
    PROVE  LedgerInv'
<1>0. TypeInv'
  BY TypeInvInductive DEF LedgerInv
<1>1. CASE UNCHANGED vars
  BY <1>1, <1>0 DEF LedgerInv, TypeInv, TypeOK, LockHeld, OpsGrow, AtReplace, vars, local
<1>2. ASSUME NEW d \in Draft, PrepareValidate(d)  PROVE LedgerInv'
  BY <1>2, <1>0, ConstantsDistinct
    DEF LedgerInv, TypeInv, TypeOK, LockHeld, OpsGrow, AtReplace, PrepareValidate, host,
      local
<1>3. ASSUME NEW d \in Draft, PrepareStore(d)  PROVE LedgerInv'
  BY <1>3, <1>0, ConstantsDistinct
    DEF LedgerInv, TypeInv, TypeOK, LockHeld, OpsGrow, AtReplace, PrepareStore, host, local
<1>4. ASSUME NEW r \in Receipt, NEW d \in Draft, IssueReceipt(r, d)  PROVE LedgerInv'
  BY <1>4, <1>0, ConstantsDistinct
    DEF LedgerInv, TypeInv, TypeOK, LockHeld, OpsGrow, AtReplace, IssueReceipt, host, local
<1>5. ASSUME NEW r \in Receipt, ExpireReceipt(r)  PROVE LedgerInv'
  BY <1>5, <1>0, ConstantsDistinct
    DEF LedgerInv, TypeInv, TypeOK, LockHeld, OpsGrow, AtReplace, ExpireReceipt, host, local
<1>6. ASSUME NEW q \in Path, EditSource(q)  PROVE LedgerInv'
  BY <1>6, <1>0, ConstantsDistinct
    DEF LedgerInv, TypeInv, TypeOK, LockHeld, OpsGrow, AtReplace, EditSource, host, local
<1>7. ASSUME ClearStaleLock  PROVE LedgerInv'
  BY <1>7, <1>0, ConstantsDistinct
    DEF LedgerInv, TypeInv, TypeOK, LockHeld, OpsGrow, AtReplace, ClearStaleLock, host,
      local
<1>8. ASSUME NEW p \in Proc, NEW d \in Draft, NEW r \in Receipt, BeginCommit(p, d, r)  PROVE LedgerInv'
  BY <1>8, <1>0, ConstantsDistinct
    DEF LedgerInv, TypeInv, TypeOK, LockHeld, OpsGrow, AtReplace, BeginCommit, host,
      local, AcquireLock, Goto
<1>9. ASSUME NEW p \in Proc, BeginAdmin(p)  PROVE LedgerInv'
  BY <1>9, <1>0, ConstantsDistinct
    DEF LedgerInv, TypeInv, TypeOK, LockHeld, OpsGrow, AtReplace, BeginAdmin, host, local,
      AcquireLock, Goto
<1>10. ASSUME NEW p \in Proc, NEW l \in AdminLine, AppendRecord(p, l)  PROVE LedgerInv'
  <2>1. DayOf[l] \in Target /\ <<l>> \in Seq(Entry)
    BY ConstantTypes DEF Target, Entry
  <2> DEFINE op == AppendTo(DayOf[l], <<l>>)
  <2>2. /\ IsPrefix(op.before, op.after) /\ op \in Operation
        /\ ledger[op.target] = op.before
    BY <2>1, AppendToType DEF LedgerInv, TypeInv, TypeOK, AppendTo
  <2>3. /\ txn' = [txn EXCEPT ![p] = [@ EXCEPT !.ops = <<op>>]]
        /\ pc[p] = "admin" /\ pc' = [pc EXCEPT ![p] = "adminReplace"]
        /\ UNCHANGED <<ledger, journal, lock, step>>
    BY <1>10 DEF AppendRecord, AdminPrepare, Goto
  <2> HIDE DEF op
  <2>4. txn'[p].ops = <<op>> /\ \A o \in Proc \ {p} : txn'[o] = txn[o]
    BY <2>2, <2>3, TransactionUpdates DEF LedgerInv, TypeInv, TypeOK
  <2>5. Grows(<<op>>)
    BY <2>2 DEF Grows
  <2>6. OpsGrow'
    BY <2>3, <2>4, <2>5 DEF LedgerInv, OpsGrow
  <2>7. LockHeld'
    BY <2>3 DEF LedgerInv, LockHeld, TypeInv, TypeOK
  <2>8. AtReplace'
    BY <2>2, <2>3, <2>4 DEF LedgerInv, AtReplace, TypeInv, TypeOK
  <2> QED
    BY <1>0, <2>6, <2>7, <2>8 DEF LedgerInv
<1>11. ASSUME NEW p \in Proc, NEW q \in AdminPath, RegisterSource(p, q)  PROVE LedgerInv'
  <2>1. SourcesFile \in Target /\ <<[path |-> q, hash |-> content[q]]>> \in Seq(Entry)
    BY ConstantTypes DEF Target, Entry, Registration, LedgerInv, TypeInv, TypeOK
  <2> DEFINE op == AppendTo(SourcesFile, <<[path |-> q, hash |-> content[q]]>>)
  <2>2. /\ IsPrefix(op.before, op.after) /\ op \in Operation
        /\ ledger[op.target] = op.before
    BY <2>1, AppendToType DEF LedgerInv, TypeInv, TypeOK, AppendTo
  <2>3. /\ txn' = [txn EXCEPT ![p] = [@ EXCEPT !.ops = <<op>>]]
        /\ pc[p] = "admin" /\ pc' = [pc EXCEPT ![p] = "adminReplace"]
        /\ UNCHANGED <<ledger, journal, lock, step>>
    BY <1>11 DEF RegisterSource, AdminPrepare, Goto
  <2> HIDE DEF op
  <2>4. txn'[p].ops = <<op>> /\ \A o \in Proc \ {p} : txn'[o] = txn[o]
    BY <2>2, <2>3, TransactionUpdates DEF LedgerInv, TypeInv, TypeOK
  <2>5. Grows(<<op>>)
    BY <2>2 DEF Grows
  <2>6. OpsGrow'
    BY <2>3, <2>4, <2>5 DEF LedgerInv, OpsGrow
  <2>7. LockHeld'
    BY <2>3 DEF LedgerInv, LockHeld, TypeInv, TypeOK
  <2>8. AtReplace'
    BY <2>2, <2>3, <2>4 DEF LedgerInv, AtReplace, TypeInv, TypeOK
  <2> QED
    BY <1>0, <2>6, <2>7, <2>8 DEF LedgerInv
<1>12. ASSUME NEW p \in Proc, Verify(p)  PROVE LedgerInv'
  BY <1>12, <1>0, ConstantsDistinct
    DEF LedgerInv, TypeInv, TypeOK, LockHeld, OpsGrow, AtReplace, Verify, host, local,
      Goto, Fault
<1>13. ASSUME NEW p \in Proc, OpenJournal(p)  PROVE LedgerInv'
  <2> DEFINE d == arg[p].draft
             t == [status |-> "prepared", receipt |-> arg[p].receipt,
                   ops |-> Operations(d), applied |-> 0]
  <2>1. d \in Draft
    BY <1>13 DEF LedgerInv, TypeInv, HasArguments, CommitPC, OpenJournal
  <2>2. Grows(t.ops)
    BY <2>1, OperationsType DEF LedgerInv, TypeInv, Grows
  <2>3. journal' = [journal EXCEPT ![d] = t] /\ txn' = [txn EXCEPT ![p] = t]
    BY <1>13 DEF OpenJournal
  <2> HIDE DEF t, d
  <2> QED
    BY SMTT(30), <1>13, <1>0, <2>1, <2>2, <2>3
      DEF LedgerInv, TypeInv, TypeOK, LockHeld, OpsGrow, AtReplace, OpenJournal, host, Goto
<1>14. ASSUME NEW p \in Proc, ResumeJournal(p)  PROVE LedgerInv'
  <2>1. arg[p].draft \in Draft
    BY <1>14 DEF LedgerInv, TypeInv, HasArguments, CommitPC, ResumeJournal
  <2> QED
    BY <1>14, <1>0, <2>1
      DEF LedgerInv, TypeInv, TypeOK, LockHeld, OpsGrow, AtReplace, ResumeJournal, host,
        Goto
<1>15. ASSUME NEW p \in Proc, RefuseJournal(p)  PROVE LedgerInv'
  BY <1>15, <1>0, ConstantsDistinct
    DEF LedgerInv, TypeInv, TypeOK, LockHeld, OpsGrow, AtReplace, RefuseJournal, host,
      local, Goto, Fault
<1>16. ASSUME NEW p \in Proc, ConsumeReceipt(p)  PROVE LedgerInv'
  BY <1>16, <1>0, ConstantsDistinct
    DEF LedgerInv, TypeInv, TypeOK, LockHeld, OpsGrow, AtReplace, ConsumeReceipt, host,
      local, Goto, Fault
<1>17. ASSUME NEW p \in Proc, ResumeReceipt(p)  PROVE LedgerInv'
  BY <1>17, <1>0, ConstantsDistinct
    DEF LedgerInv, TypeInv, TypeOK, LockHeld, OpsGrow, AtReplace, ResumeReceipt, host,
      local, Goto, Fault
<1>18. ASSUME NEW p \in Proc, RefuseReceipt(p)  PROVE LedgerInv'
  BY <1>18, <1>0, ConstantsDistinct
    DEF LedgerInv, TypeInv, TypeOK, LockHeld, OpsGrow, AtReplace, RefuseReceipt, host,
      local, Goto, Fault
<1>19. ASSUME NEW p \in Proc, StartApplying(p)  PROVE LedgerInv'
  <2> DEFINE t == WithStatus(p, "applying")
  <2>1. t \in Transaction /\ t.ops = txn[p].ops
    BY WithStatusType DEF LedgerInv, TypeInv, TypeOK, Status
  <2>2. (Store(p, t) \/ StoreFails(p, t)) /\ pc[p] \in CommitPC
    BY <1>19 DEF StartApplying, CommitPC
  <2>3. /\ UNCHANGED <<ledger, lock>>
        /\ \A q \in Proc \ {p} : step'[q] = step[q]
        /\ \E l \in PC \ {"replace", "adminReplace"} : pc' = [pc EXCEPT ![p] = l]
    BY <1>19 DEF StartApplying, Goto, PC, LedgerInv, TypeInv, TypeOK
  <2> HIDE DEF t
  <2> QED
    BY <1>0, <2>1, <2>2, <2>3, StoreKeepsLedgerInv
<1>20. ASSUME NEW p \in Proc, CheckOperation(p)  PROVE LedgerInv'
  BY <1>20, <1>0
    DEF LedgerInv, TypeInv, TypeOK, LockHeld, OpsGrow, AtReplace, CheckOperation, OpState,
      host, Goto
<1>21. ASSUME NEW p \in Proc, ReplaceTarget(p)  PROVE LedgerInv'
  <2>1. \A q \in Proc : pc'[q] \notin {"replace", "adminReplace"}
    BY <1>21, ConstantsDistinct
      DEF ReplaceTarget, LedgerInv, LockHeld, TypeInv, TypeOK, Goto
  <2>2. LockHeld'
    BY <1>21 DEF ReplaceTarget, LedgerInv, LockHeld, TypeInv, TypeOK, Goto
  <2> QED
    BY <1>21, <1>0, <2>1, <2>2 DEF ReplaceTarget, LedgerInv, OpsGrow, AtReplace
<1>22. ASSUME NEW p \in Proc, StoreProgress(p)  PROVE LedgerInv'
  <2> DEFINE t == [txn[p] EXCEPT !.applied = step[p]]
  <2>1. t \in Transaction /\ t.ops = txn[p].ops
    <3>1. txn[p] \in Transaction /\ step[p] \in Nat
      BY DEF LedgerInv, TypeInv, TypeOK
    <3> QED
      BY <3>1, TransactionUpdates
  <2>2. (Store(p, t) \/ StoreFails(p, t)) /\ pc[p] \in CommitPC
    BY <1>22 DEF StoreProgress, CommitPC
  <2>3. /\ UNCHANGED <<ledger, lock>>
        /\ \A q \in Proc \ {p} : step'[q] = step[q]
        /\ \E l \in PC \ {"replace", "adminReplace"} : pc' = [pc EXCEPT ![p] = l]
    BY <1>22 DEF StoreProgress, Goto, PC, LedgerInv, TypeInv, TypeOK
  <2> HIDE DEF t
  <2> QED
    BY <1>0, <2>1, <2>2, <2>3, StoreKeepsLedgerInv
<1>23. ASSUME NEW p \in Proc, StoreCommitted(p)  PROVE LedgerInv'
  <2> DEFINE t == WithStatus(p, "canonical_committed")
  <2>1. t \in Transaction /\ t.ops = txn[p].ops
    BY WithStatusType DEF LedgerInv, TypeInv, TypeOK, Status
  <2>2. (Store(p, t) \/ StoreFails(p, t)) /\ pc[p] \in CommitPC
    BY <1>23 DEF StoreCommitted, CommitPC
  <2>3. /\ UNCHANGED <<ledger, lock>>
        /\ \A q \in Proc \ {p} : step'[q] = step[q]
        /\ \E l \in PC \ {"replace", "adminReplace"} : pc' = [pc EXCEPT ![p] = l]
    BY <1>23 DEF StoreCommitted, Goto, PC, LedgerInv, TypeInv, TypeOK
  <2> HIDE DEF t
  <2> QED
    BY <1>0, <2>1, <2>2, <2>3, StoreKeepsLedgerInv
<1>24. ASSUME NEW p \in Proc, CreateMarker(p)  PROVE LedgerInv'
  BY <1>24, <1>0, ConstantsDistinct
    DEF LedgerInv, TypeInv, TypeOK, LockHeld, OpsGrow, AtReplace, CreateMarker, host,
      local, Goto, Fault
<1>25. ASSUME NEW p \in Proc, RecordFailure(p)  PROVE LedgerInv'
  <2> DEFINE t == WithStatus(p, "failed_recoverable")
  <2>1. t \in Transaction /\ t.ops = txn[p].ops
    BY WithStatusType DEF LedgerInv, TypeInv, TypeOK, Status
  <2>2. (Store(p, t) \/ StoreFails(p, t)) /\ pc[p] \in CommitPC
    BY <1>25 DEF RecordFailure, CommitPC
  <2>3. /\ UNCHANGED <<ledger, lock>>
        /\ \A q \in Proc \ {p} : step'[q] = step[q]
        /\ \E l \in PC \ {"replace", "adminReplace"} : pc' = [pc EXCEPT ![p] = l]
    BY <1>25 DEF RecordFailure, Goto, PC, LedgerInv, TypeInv, TypeOK
  <2> HIDE DEF t
  <2> QED
    BY <1>0, <2>1, <2>2, <2>3, StoreKeepsLedgerInv
<1>26. ASSUME NEW p \in Proc, Finalize(p)  PROVE LedgerInv'
  <2> DEFINE t == WithStatus(p, "committed")
  <2>1. t \in Transaction /\ t.ops = txn[p].ops
    BY WithStatusType DEF LedgerInv, TypeInv, TypeOK, Status
  <2>2. (Store(p, t) \/ StoreFails(p, t)) /\ pc[p] \in CommitPC
    BY <1>26 DEF Finalize, CommitPC
  <2>3. /\ UNCHANGED <<ledger, lock>>
        /\ \A q \in Proc \ {p} : step'[q] = step[q]
        /\ \E l \in PC \ {"replace", "adminReplace"} : pc' = [pc EXCEPT ![p] = l]
    BY <1>26 DEF Finalize, Goto, PC, LedgerInv, TypeInv, TypeOK
  <2> HIDE DEF t
  <2> QED
    BY <1>0, <2>1, <2>2, <2>3, StoreKeepsLedgerInv
<1>27. ASSUME NEW p \in Proc, ReleaseLock(p)  PROVE LedgerInv'
  BY <1>27, <1>0, ConstantsDistinct, NoTxnGrows
    DEF LedgerInv, TypeInv, TypeOK, LockHeld, OpsGrow, AtReplace, ReleaseLock, host,
      local, Forget, Goto
<1>28. ASSUME NEW p \in Proc, AdminRefused(p)  PROVE LedgerInv'
  BY <1>28, <1>0, ConstantsDistinct
    DEF LedgerInv, TypeInv, TypeOK, LockHeld, OpsGrow, AtReplace, AdminRefused, host,
      local, Goto, Fault
<1>29. ASSUME NEW p \in Proc, AdminReplace(p)  PROVE LedgerInv'
  <2>1. \A q \in Proc : pc'[q] \notin {"replace", "adminReplace"}
    BY <1>29, ConstantsDistinct DEF AdminReplace, LedgerInv, LockHeld, TypeInv, TypeOK, Goto
  <2>2. LockHeld'
    BY <1>29 DEF AdminReplace, LedgerInv, LockHeld, TypeInv, TypeOK, Goto
  <2> QED
    BY <1>29, <1>0, <2>1, <2>2 DEF AdminReplace, LedgerInv, OpsGrow, AtReplace
<1>30. ASSUME NEW p \in Proc, Crash(p)  PROVE LedgerInv'
  BY <1>30, <1>0, ConstantsDistinct, NoTxnGrows
    DEF LedgerInv, TypeInv, TypeOK, LockHeld, OpsGrow, AtReplace, Crash, host, local,
      Forget, Goto, Fault
<1>31. ASSUME NEW p \in Proc, TearJournal(p)  PROVE LedgerInv'
  <2>1. \A d \in Draft : journal'[d].ops = journal[d].ops
    BY <1>31 DEF LedgerInv, TypeInv, TypeOK, Transaction, TearJournal
  <2> QED
    BY <1>31, <1>0, <2>1, ConstantsDistinct, NoTxnGrows
      DEF LedgerInv, TypeInv, TypeOK, LockHeld, OpsGrow, AtReplace, TearJournal, host,
        Forget, Goto
<1>32. ASSUME NEW p \in Proc, TearConsumption(p)  PROVE LedgerInv'
  BY <1>32, <1>0, ConstantsDistinct
    DEF LedgerInv, TypeInv, TypeOK, LockHeld, OpsGrow, AtReplace, TearConsumption, host,
      local, Goto, Fault
<1>33. ASSUME NEW p \in Proc, CheckFails(p)  PROVE LedgerInv'
  BY <1>33, <1>0, ConstantsDistinct
    DEF LedgerInv, TypeInv, TypeOK, LockHeld, OpsGrow, AtReplace, CheckFails, host, local,
      Goto, Fault
<1>34. ASSUME NEW p \in Proc, ReplaceFails(p)  PROVE LedgerInv'
  BY <1>34, <1>0, ConstantsDistinct
    DEF LedgerInv, TypeInv, TypeOK, LockHeld, OpsGrow, AtReplace, ReplaceFails, host,
      local, Goto, Fault
<1> QED
  BY <1>1, <1>2, <1>3, <1>4, <1>5, <1>6, <1>7, <1>8, <1>9, <1>10, <1>11, <1>12, <1>13,
      <1>14, <1>15, <1>16, <1>17, <1>18, <1>19, <1>20, <1>21, <1>22, <1>23, <1>24, <1>25,
      <1>26, <1>27, <1>28, <1>29, <1>30, <1>31, <1>32, <1>33, <1>34
  DEF Next, Environment, Begin, Advance, Misfortune

(* A rename installs a version that starts with the present one.           *)
LEMMA RenameGrows ==
    ASSUME TypeInv, NEW op \in Operation, Rename(op),
           ledger[op.target] = op.before, IsPrefix(op.before, op.after)
    PROVE  \A t \in Target : IsPrefix(ledger[t], ledger'[t])
<1> SUFFICES ASSUME NEW t \in Target PROVE IsPrefix(ledger[t], ledger'[t])
  OBVIOUS
<1>1. ledger[t] \in Seq(Entry)
  BY DEF TypeInv, TypeOK, Ledger
<1>2. CASE t = op.target
  BY <1>2 DEF Rename, TypeInv, TypeOK, Ledger
<1>3. CASE t # op.target
  <2>1. ledger'[t] = ledger[t]
    BY <1>3 DEF Rename, TypeInv, TypeOK, Ledger
  <2> QED
    BY <1>1, <2>1, PrefixReflexive
<1> QED
  BY <1>2, <1>3

LEMMA StepAppendsOnly ==
    ASSUME LedgerInv, [Next]_vars
    PROVE  \A t \in Target : IsPrefix(ledger[t], ledger'[t])
<1>1. CASE \E p \in Proc : ReplaceTarget(p)
  <2>1. PICK p \in Proc : ReplaceTarget(p)
    BY <1>1
  <2> DEFINE op == txn[p].ops[step[p]]
  <2>2. op \in Operation
    BY <2>1, CurrentOperation DEF LedgerInv, ReplaceTarget
  <2>3. step[p] \in DOMAIN txn[p].ops
    BY <2>1 DEF ReplaceTarget, LedgerInv, TypeInv, TypeOK, HasOperations, Transaction
  <2>4. ledger[op.target] = op.before /\ IsPrefix(op.before, op.after) /\ Rename(op)
    BY <2>1, <2>3 DEF ReplaceTarget, LedgerInv, AtReplace, OpsGrow, Grows
  <2> HIDE DEF op
  <2> QED
    BY <2>2, <2>4, RenameGrows DEF LedgerInv
<1>2. CASE \E p \in Proc : AdminReplace(p) /\ Rename(txn[p].ops[1])
  <2>1. PICK p \in Proc : AdminReplace(p) /\ Rename(txn[p].ops[1])
    BY <1>2
  <2> DEFINE op == txn[p].ops[1]
  <2>2. op \in Operation
    BY <2>1, CurrentOperation DEF LedgerInv, AdminReplace
  <2>3. 1 \in DOMAIN txn[p].ops
    BY <2>1 DEF AdminReplace, LedgerInv, TypeInv, TypeOK, HasOperations, Transaction
  <2>4. ledger[op.target] = op.before /\ IsPrefix(op.before, op.after) /\ Rename(op)
    BY <2>1, <2>3 DEF AdminReplace, LedgerInv, AtReplace, OpsGrow, Grows
  <2> HIDE DEF op
  <2> QED
    BY <2>2, <2>4, RenameGrows DEF LedgerInv
<1>3. CASE ledger' = ledger
  BY <1>3, PrefixReflexive DEF LedgerInv, TypeInv, TypeOK, Ledger
<1> QED
  BY ZenonT(30), <1>1, <1>2, <1>3
  DEF Next, Environment, Begin, Advance, Misfortune, vars, local, host, PrepareValidate,
      PrepareStore, IssueReceipt, ExpireReceipt, EditSource, ClearStaleLock, BeginCommit,
      BeginAdmin, AppendRecord, RegisterSource, AdminPrepare, Verify, OpenJournal,
      ResumeJournal, RefuseJournal, ConsumeReceipt, ResumeReceipt, RefuseReceipt,
      StartApplying, CheckOperation, StoreProgress, StoreCommitted, CreateMarker,
      RecordFailure, Finalize, ReleaseLock, AdminRefused, AdminReplace, Crash,
      TearJournal, TearConsumption, CheckFails, ReplaceFails

(* No step of any writer, server or administrator, first attempt, retry or *)
(* crash, ever loses or changes a line of a canonical file.                *)
THEOREM LedgerIsAppendOnly == Spec => AppendOnly
<1>1. Spec => []LedgerInv
  BY LedgerInvInit, LedgerInvInductive, PTL DEF Spec
<1>2. LedgerInv /\ [Next]_vars => [\A t \in Target : IsPrefix(ledger[t], ledger'[t])]_vars
  BY StepAppendsOnly
<1> QED
  BY <1>1, <1>2, PTL DEF Spec, AppendOnly
=============================================================================
