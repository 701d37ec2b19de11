------------------------ MODULE LexicalIndexProofs ------------------------
(***************************************************************************)
(* The lexical index and the gate in front of it, for every value of the   *)
(* constants of LexicalIndex: what is published, what is kept and what the *)
(* gate and its cache may answer.                                          *)
(***************************************************************************)
EXTENDS LexicalIndex, SequenceTheorems, TLAPS

(* Line counts, file by file; the second form for files read so far.       *)
LE(s, t) == \A k \in File : s[k] <= t[k]
PrefixLE(s, t) == \A k \in File : k <= Len(t) => s[k] <= t[k]

(* The history: the ledger is its last and largest element.                *)
PastInv == ledger \in past /\ \A m \in past : LE(m, ledger)

(* A search remembers the ledger it began with; what it stats and reads    *)
(* lies between that ledger and the present one.                           *)
StartInv(p) ==
    /\ loc[p].call = "search" => /\ p \in Server
                                 /\ Len(loc[p].start) = NFile
                                 /\ LE(loc[p].start, ledger)
    /\ pc[p] \in {"stat", "lookup", "remember", "query"} => loc[p].call = "search"

Looking == {"lookup", "status", "statusHealth", "statusDb", "remember"}
SigInv(p) ==
    /\ loc[p].sig # <<>> => loc[p].call = "search"
    /\ Len(loc[p].sig) <= NFile + 2
    /\ pc[p] = "idle" => loc[p].sig = <<>>
    /\ pc[p] = "stat" => Len(loc[p].sig) < NFile + 2
    /\ pc[p] \in Looking => loc[p].sig = <<>> \/ Len(loc[p].sig) = NFile + 2
    /\ \A k \in File : k <= Len(loc[p].sig) =>
          /\ loc[p].sig[k] \in Nat
          /\ loc[p].start[k] <= loc[p].sig[k]
          /\ loc[p].sig[k] <= ledger[k]

ScanInv(p) ==
    /\ Len(loc[p].scan) <= NFile
    /\ pc[p] \in {"statusHealth", "statusDb"} => Len(loc[p].scan) = NFile
    /\ pc[p] \in {"idle", "stat", "lookup", "sources", "verify", "passages", "publish"} =>
          loc[p].scan = <<>>
    /\ pc[p] = "build" /\ ~loc[p].populated => loc[p].scan = <<>>
    /\ \A k \in File : k <= Len(loc[p].scan) => loc[p].scan[k] <= ledger[k]
    /\ loc[p].call = "search" => PrefixLE(loc[p].start, loc[p].scan)

(* What an ensure has read lies above a ledger there was when it had its   *)
(* fingerprint, so a second fingerprint equal to the first is that ledger. *)
BuildInv(p) ==
    /\ pc[p] \in {"sources", "verify", "build", "passages", "rescan"} =>
          /\ Len(loc[p].fp) = NFile
          /\ \E m \in past : /\ LE(loc[p].fp, m)
                             /\ pc[p] = "rescan" => PrefixLE(m, loc[p].scan)
    /\ pc[p] = "build" => PrefixLE(loc[p].fp, loc[p].scan)
    /\ pc[p] \in {"build", "rescan"} /\ ~loc[p].populated =>
          \A i \in File \ {1} : loc[p].fp[i] = 0
    /\ pc[p] = "build" /\ loc[p].populated =>
          \E i \in File \ {1} : /\ ledger[i] > 0
                                /\ i <= Len(loc[p].scan) => loc[p].scan[i] > 0
    /\ pc[p] = "passages" => loc[p].populated
    /\ pc[p] \in {"passages", "rescan"} /\ loc[p].populated =>
          /\ Len(loc[p].image) = NFile
          /\ LE(loc[p].fp, loc[p].image)
          /\ LE(loc[p].image, ledger)
          /\ HasEvents(loc[p].image)
    /\ pc[p] = "rescan" /\ loc[p].populated => PrefixLE(loc[p].image, loc[p].scan)
    /\ pc[p] = "rescan" /\ ~loc[p].populated => loc[p].image = EmptyLedger
    /\ pc[p] = "publish" =>
          /\ loc[p].fp \in past
          /\ loc[p].image = IF HasEvents(loc[p].fp) THEN loc[p].fp ELSE EmptyLedger
          /\ loc[p].whole

(* A published database is the image of a ledger there was.                *)
DbInv == db.whole => db.fp \in past /\ IndexIsImage

(* A cached signature is one of a ledger there was, or can never be met    *)
(* again, not even by the stat walk of a call that has begun.              *)
WasLedger(sig) == SubSeq(sig, 1, NFile) \in past
CacheSeen(p) ==
    cache[p] # <<>> =>
        /\ Len(cache[p]) = NFile + 2
        /\ \A k \in File : cache[p][k] \in Nat
        /\ WasLedger(cache[p]) \/ \E k \in File : cache[p][k] < ledger[k]
        /\ pc[p] \in {"stat", "lookup"} =>
              WasLedger(cache[p]) \/ \E k \in File : cache[p][k] < loc[p].start[k]

GateInv(p) == pc[p] \in {"remember", "query"} => Held(p, loc[p].fp)

TypeInv == TypeOK /\ \A p \in Proc : SigInv(p) /\ StartInv(p)

ReadInv ==
    /\ TypeInv
    /\ PastInv
    /\ \A p \in Proc : ScanInv(p) /\ BuildInv(p) /\ GateInv(p)
    /\ DbInv
    /\ \A s \in Server : CacheSeen(s)

LEMMA EmptyTypes ==
    /\ <<>> \in Fingerprint
    /\ <<>> \in Signature
    /\ EmptyLedger \in Fingerprint
BY ConstantTypes DEF EmptyLedger, Fingerprint, Signature, File

LEMMA LedgerType == TypeOK => ledger \in Fingerprint
BY ConstantTypes DEF TypeOK, Fingerprint, File

LEMMA NoLocalType == NoLocal \in Local
BY EmptyTypes DEF NoLocal, Local

LEMMA LocalFields ==
    ASSUME NEW l \in Local
    PROVE  /\ l.start \in Fingerprint /\ l.scan \in Fingerprint
           /\ l.fp \in Fingerprint /\ l.image \in Fingerprint
           /\ l.sig \in Signature
           /\ l.whole \in BOOLEAN /\ l.blocked \in BOOLEAN
BY DEF Local

LEMMA LocalUpdates ==
    ASSUME NEW l \in Local, NEW f \in Fingerprint, NEW g \in Signature, NEW b \in BOOLEAN
    PROVE  /\ NoLocal \in Local
           /\ [l EXCEPT !.call = "ensure"] \in Local
           /\ [l EXCEPT !.call = "search", !.start = f] \in Local
           /\ [l EXCEPT !.scan = f] \in Local
           /\ [l EXCEPT !.blocked = b] \in Local
           /\ [l EXCEPT !.scan = <<>>, !.blocked = FALSE, !.current = b] \in Local
           /\ [l EXCEPT !.fp = f, !.scan = <<>>] \in Local
           /\ [l EXCEPT !.current = FALSE, !.populated = b] \in Local
           /\ [l EXCEPT !.image = EmptyLedger, !.whole = TRUE] \in Local
           /\ [l EXCEPT !.image = f, !.scan = <<>>, !.whole = b] \in Local
           /\ [NoLocal EXCEPT !.call = "ensure", !.fp = f] \in Local
           /\ [l EXCEPT !.sig = g] \in Local
           /\ [l EXCEPT !.fp = f] \in Local
           /\ [l EXCEPT !.fp = f, !.sig = <<>>] \in Local
BY EmptyTypes, NoLocalType DEF Local

LEMMA ReadType ==
    ASSUME TypeOK, NEW p \in Proc,
           ReadFile(p) \/ \E label \in EnsurePC : ReadLastFile(p, label)
    PROVE  Read(p) \in Fingerprint
<1>1. loc[p].scan \in Seq(Nat)
  BY LocalFields DEF TypeOK, Fingerprint
<1>2. Len(loc[p].scan) + 1 <= NFile
  BY <1>1, ConstantTypes DEF ReadFile, ReadLastFile
<1>3. ledger[Len(loc[p].scan) + 1] \in Nat
  BY <1>1, <1>2, ConstantTypes DEF TypeOK, File
<1> QED
  BY <1>1, <1>3 DEF Read, Fingerprint

LEMMA NextStatType ==
    ASSUME TypeInv, NEW p \in Proc, pc[p] = "stat", NextStat(p) # Absent
    PROVE  Append(loc[p].sig, NextStat(p)) \in Signature
<1>1. loc[p].sig \in Seq(Nat \cup Stamp)
  BY LocalFields DEF TypeInv, TypeOK, Signature
<1> DEFINE k == Len(loc[p].sig) + 1
<1>2. k \in 1 .. NFile + 2
  BY <1>1, ConstantTypes DEF TypeInv, SigInv
<1>3. db.stamp \in Stamp \cup {Absent} /\ health.stamp \in Stamp \cup {Absent}
  BY DEF TypeInv, TypeOK, Database, Health
<1>4. NextStat(p) \in Nat \cup Stamp
  BY <1>2, <1>3, ConstantTypes DEF TypeInv, TypeOK, Inspected, NextStat, File
<1> QED
  BY <1>1, <1>4 DEF Signature

LEMMA FilePartType ==
    ASSUME TypeInv, NEW p \in Proc, pc[p] = "lookup", loc[p].sig # <<>>
    PROVE  SubSeq(loc[p].sig, 1, NFile) \in Fingerprint
<1>1. loc[p].sig \in Seq(Nat \cup Stamp) /\ Len(loc[p].sig) = NFile + 2
  BY LocalFields DEF TypeInv, TypeOK, Signature, SigInv, Looking
<1>2. \A k \in 1 .. NFile : loc[p].sig[k] \in Nat
  BY <1>1, ConstantTypes DEF TypeInv, SigInv, File
<1> DEFINE part == [k \in 1 .. NFile |-> loc[p].sig[k]]
<1>3. SubSeq(loc[p].sig, 1, NFile) = part
  BY <1>1, ConstantTypes
<1>4. part \in Seq(Nat)
  BY <1>2, ConstantTypes
<1> QED
  BY <1>3, <1>4 DEF Fingerprint

(* Steps to a label with given locals, and the two steps that drop them.   *)
LEMMA ConcludeType ==
    ASSUME TypeOK, NEW p \in Proc, NEW label \in {"health", "fail"}, Conclude(p, label)
    PROVE  /\ pc' \in [Proc -> EnsurePC \cup SearchPC \cup {"idle"}]
           /\ loc' \in [Proc -> Local]
<1>1. [NoLocal EXCEPT !.call = "ensure", !.fp = loc[p].fp] \in Local
  BY LocalUpdates, LocalFields, EmptyTypes DEF TypeOK
<1> QED
  BY <1>1 DEF TypeOK, Conclude, Goto, EnsurePC

LEMMA IdleType ==
    ASSUME TypeOK, NEW p \in Proc, Idle(p)
    PROVE  /\ pc' \in [Proc -> EnsurePC \cup SearchPC \cup {"idle"}]
           /\ loc' \in [Proc -> Local]
BY NoLocalType DEF TypeOK, Idle, Goto

LEMMA TypeStep == TypeInv /\ [Next]_vars => TypeOK'
<1> SUFFICES ASSUME TypeInv, [Next]_vars PROVE TypeOK'
  OBVIOUS
<1> USE ConstantTypes
<1>0. TypeOK
  BY DEF TypeInv
<1>1. CASE UNCHANGED vars
  BY <1>0, <1>1 DEF vars, TypeOK
<1>2. ASSUME NEW i \in File, AppendLine(i)  PROVE TypeOK'
  BY <1>0, <1>2 DEF AppendLine, TypeOK, canonical, File, files
<1>3. ASSUME EditSource  PROVE TypeOK'
  BY <1>0, <1>3 DEF EditSource, TypeOK, canonical, files
<1>4. ASSUME RestoreSource  PROVE TypeOK'
  BY <1>0, <1>4 DEF RestoreSource, TypeOK, canonical, files
<1>5. ASSUME NEW p \in Proc, BeginEnsure(p)  PROVE TypeOK'
  BY <1>0, <1>5, LocalUpdates, LocalFields DEF BeginEnsure, TypeOK, Goto, canonical, files, EnsurePC, SearchPC
<1>6. ASSUME NEW p \in Proc, BeginSearch(p)  PROVE TypeOK'
  BY <1>0, <1>6, LocalUpdates, LocalFields, LedgerType DEF BeginSearch, TypeOK, Goto, canonical, files, EnsurePC, SearchPC
<1>7. ASSUME NEW p \in Proc, ReadFile(p)  PROVE TypeOK'
  <2>0. Read(p) \in Fingerprint
    BY <1>0, <1>7, ReadType DEF ReadFile
  <2>1. [loc[p] EXCEPT !.scan = Read(p)] \in Local
    BY <1>0, <2>0, LocalUpdates, EmptyTypes DEF TypeOK
  <2> QED
    BY <1>0, <1>7, <2>1 DEF ReadFile, TypeOK, Goto, canonical, files, EnsurePC, SearchPC
<1>8. ASSUME NEW p \in Proc, StatusFingerprint(p)  PROVE TypeOK'
  <2>0. Read(p) \in Fingerprint
    BY <1>0, <1>8, ReadType DEF StatusFingerprint, EnsurePC
  <2>1. [loc[p] EXCEPT !.scan = Read(p)] \in Local
    BY <1>0, <2>0, LocalUpdates, EmptyTypes DEF TypeOK
  <2> QED
    BY <1>0, <1>8, <2>1 DEF StatusFingerprint, TypeOK, Goto, ReadLastFile, canonical, files, EnsurePC, SearchPC
<1>9. ASSUME NEW p \in Proc, StatusHealth(p)  PROVE TypeOK'
  BY ZenonT(30), <1>0, <1>9, LocalUpdates, LocalFields DEF StatusHealth, TypeOK, Goto, Blocks, canonical, files, EnsurePC, SearchPC
<1>10. ASSUME NEW p \in Proc, StatusOfEnsure(p)  PROVE TypeOK'
  BY <1>0, <1>10, LocalUpdates, LocalFields DEF StatusOfEnsure, TypeOK, Goto, Verdict, Matches, canonical, files, EnsurePC, SearchPC
<1>11. ASSUME NEW p \in Proc, FingerprintLedger(p)  PROVE TypeOK'
  <2>0. Read(p) \in Fingerprint
    BY <1>0, <1>11, ReadType DEF FingerprintLedger, EnsurePC
  <2>1. [loc[p] EXCEPT !.fp = Read(p), !.scan = <<>>] \in Local
    BY <1>0, <2>0, LocalUpdates, EmptyTypes DEF TypeOK
  <2> QED
    BY <1>0, <1>11, <2>1 DEF FingerprintLedger, TypeOK, Goto, ReadLastFile, canonical, files, EnsurePC, SearchPC
<1>12. ASSUME NEW p \in Proc, ValidateSources(p)  PROVE TypeOK'
  <2>1. CASE Conclude(p, "fail")
    BY <1>0, <1>12, <2>1, ConcludeType DEF ValidateSources, TypeOK, canonical, files
  <2>2. CASE loc' = [loc EXCEPT ![p] = [@ EXCEPT !.current = FALSE, !.populated = Populated]]
    <3>1. [loc[p] EXCEPT !.current = FALSE, !.populated = Populated] \in Local
      BY <1>0, LocalUpdates, EmptyTypes DEF TypeOK, Populated
    <3> QED
      BY <1>0, <1>12, <2>2, <3>1 DEF ValidateSources, TypeOK, Goto, Conclude, canonical, files, EnsurePC
  <2> QED
    BY <1>12, <2>1, <2>2 DEF ValidateSources
<1>13. ASSUME NEW p \in Proc, VerifyCurrent(p)  PROVE TypeOK'
  <2>1. Conclude(p, "health") \/ Conclude(p, "fail")
    BY <1>13 DEF VerifyCurrent
  <2> QED
    BY <1>0, <1>13, <2>1, ConcludeType DEF VerifyCurrent, TypeOK, canonical, files
<1>14. ASSUME NEW p \in Proc, BuildEmpty(p)  PROVE TypeOK'
  BY <1>0, <1>14, LocalUpdates, LocalFields DEF BuildEmpty, TypeOK, Goto, canonical, files, EnsurePC, SearchPC
<1>15. ASSUME NEW p \in Proc, BuildFromLedger(p)  PROVE TypeOK'
  <2> PICK b \in BOOLEAN :
        /\ IF b THEN UNCHANGED faults ELSE Fault
        /\ loc' = [loc EXCEPT ![p] = [@ EXCEPT !.image = Read(p), !.scan = <<>>, !.whole = b]]
    BY <1>15 DEF BuildFromLedger
  <2>0. Read(p) \in Fingerprint
    BY <1>0, <1>15, ReadType DEF BuildFromLedger, EnsurePC
  <2>1. [loc[p] EXCEPT !.image = Read(p), !.scan = <<>>, !.whole = b] \in Local
    BY <1>0, <2>0, LocalUpdates, EmptyTypes DEF TypeOK
  <2>2. faults' \in Nat
    BY <1>0 DEF TypeOK, Fault
  <2> QED
    BY <1>0, <1>15, <2>1, <2>2 DEF BuildFromLedger, TypeOK, Goto, canonical, files, EnsurePC
<1>16. ASSUME NEW p \in Proc, BuildPassages(p)  PROVE TypeOK'
  <2>1. CASE Conclude(p, "fail")
    BY <1>0, <1>16, <2>1, ConcludeType DEF BuildPassages, TypeOK, canonical, files
  <2>2. CASE Goto(p, "rescan") /\ UNCHANGED loc
    BY <1>0, <1>16, <2>2 DEF BuildPassages, TypeOK, Goto, canonical, files, EnsurePC
  <2> QED
    BY <1>16, <2>1, <2>2 DEF BuildPassages
<1>17. ASSUME NEW p \in Proc, FingerprintAgain(p)  PROVE TypeOK'
  <2>1. CASE Conclude(p, "fail")
    BY <1>0, <1>17, <2>1, ConcludeType DEF FingerprintAgain, TypeOK, canonical, files
  <2>2. CASE Goto(p, "publish") /\ loc' = [loc EXCEPT ![p] = [@ EXCEPT !.scan = <<>>]]
    <3>1. [loc[p] EXCEPT !.scan = <<>>] \in Local
      BY <1>0, LocalUpdates, EmptyTypes DEF TypeOK
    <3> QED
      BY <1>0, <1>17, <2>2, <3>1 DEF FingerprintAgain, TypeOK, Goto, canonical, files, EnsurePC
  <2> QED
    BY <1>17, <2>1, <2>2 DEF FingerprintAgain
<1>18. ASSUME NEW p \in Proc, NEW s \in Stamp, Publish(p, s)  PROVE TypeOK'
  <2>1. db' \in Database
    BY <1>0, <1>18, LocalFields DEF TypeOK, Publish, Database
  <2> QED
    BY <1>0, <1>18, <2>1, ConcludeType DEF Publish, TypeOK, canonical
<1>19. ASSUME NEW p \in Proc, NEW s \in Stamp, WriteHealth(p, s)  PROVE TypeOK'
  BY <1>0, <1>19, LocalUpdates, LocalFields DEF WriteHealth, TypeOK, Goto, Idle, Health, canonical, files, EnsurePC, SearchPC
<1>20. ASSUME NEW p \in Proc, StatFile(p)  PROVE TypeOK'
  <2>1. Append(loc[p].sig, NextStat(p)) \in Signature
    BY <1>20, NextStatType DEF StatFile, Statted
  <2>2. [loc[p] EXCEPT !.sig = Append(loc[p].sig, NextStat(p))] \in Local
    BY <1>0, <2>1, LocalUpdates, EmptyTypes DEF TypeOK
  <2> QED
    BY <1>0, <1>20, <2>2 DEF StatFile, TypeOK, Goto, canonical, files, SearchPC
<1>21. ASSUME NEW p \in Proc, StatFails(p)  PROVE TypeOK'
  <2>1. [loc[p] EXCEPT !.sig = <<>>] \in Local
    BY <1>0, LocalUpdates, EmptyTypes DEF TypeOK
  <2> QED
    BY <1>0, <1>21, <2>1 DEF StatFails, TypeOK, Goto, canonical, files, SearchPC
<1>22. ASSUME NEW p \in Proc, CacheHit(p)  PROVE TypeOK'
  BY <1>0, <1>22, LocalUpdates, LocalFields, FilePartType DEF CacheHit, TypeOK, Goto, canonical, files, EnsurePC, SearchPC
<1>23. ASSUME NEW p \in Proc, CacheMiss(p)  PROVE TypeOK'
  BY <1>0, <1>23, EmptyTypes DEF CacheMiss, TypeOK, Goto, canonical, files, EnsurePC, SearchPC
<1>24. ASSUME NEW p \in Proc, StatusOfSearch(p)  PROVE TypeOK'
  <2>1. CASE Idle(p)
    BY <1>0, <1>24, <2>1, IdleType DEF StatusOfSearch, TypeOK, canonical, files
  <2>2. CASE loc' = [loc EXCEPT ![p] = [@ EXCEPT !.fp = loc[p].scan, !.scan = <<>>]] /\ Goto(p, "remember")
    <3>1. [loc[p] EXCEPT !.fp = loc[p].scan, !.scan = <<>>] \in Local
      BY <1>0, LocalUpdates, LocalFields, EmptyTypes DEF TypeOK
    <3> QED
      BY <1>0, <1>24, <2>2, <3>1 DEF StatusOfSearch, TypeOK, Goto, canonical, files, SearchPC
  <2> QED
    BY <1>24, <2>1, <2>2 DEF StatusOfSearch
<1>25. ASSUME NEW p \in Proc, RememberVerdict(p)  PROVE TypeOK'
  BY <1>0, <1>25, LocalUpdates, LocalFields DEF RememberVerdict, TypeOK, Goto, CacheEntry, canonical, files, EnsurePC, SearchPC
<1>26. ASSUME NEW p \in Proc, Query(p)  PROVE TypeOK'
  BY <1>0, <1>26, LocalUpdates, LocalFields DEF Query, TypeOK, Goto, Database, canonical, files, EnsurePC, SearchPC
<1>27. ASSUME NEW p \in Proc, Answer(p)  PROVE TypeOK'
  BY ZenonT(30), <1>0, <1>27, LocalUpdates, LocalFields DEF Answer, TypeOK, Goto, Idle, canonical, files, EnsurePC, SearchPC
<1>28. ASSUME NEW p \in Proc, Raise(p)  PROVE TypeOK'
  <2>1. Idle(p) \/ Conclude(p, "fail")
    BY <1>28 DEF Raise
  <2> QED
    BY <1>0, <1>28, <2>1, IdleType, ConcludeType DEF Raise, Fault, TypeOK, canonical, files
<1>29. ASSUME NEW p \in Proc, Stop(p)  PROVE TypeOK'
  <2>1. cache' \in [Server -> Signature]
    BY <1>0, <1>29, EmptyTypes DEF Stop, TypeOK
  <2> QED
    BY <1>0, <1>29, <2>1, IdleType DEF Stop, Fault, TypeOK, canonical, files
<1> QED
  BY <1>1, <1>2, <1>3, <1>4, <1>5, <1>6, <1>7, <1>8, <1>9, <1>10, <1>11, <1>12, <1>13, <1>14, <1>15, <1>16, <1>17, <1>18, <1>19, <1>20, <1>21, <1>22, <1>23, <1>24, <1>25, <1>26, <1>27, <1>28, <1>29 DEF Next, EnsureStep, SearchStep
-----------------------------------------------------------------------------
(* What one process does to its own part of the invariant.                 *)

Keeps(p) == SigInv(p) /\ StartInv(p) /\ ScanInv(p) /\ BuildInv(p) /\ GateInv(p)

LEMMA LedgerFacts ==
    ASSUME TypeOK
    PROVE  /\ \A k \in File : ledger[k] \in Nat
           /\ Len(ledger) = NFile
           /\ \A m \in past : Len(m) = NFile /\ \A k \in File : m[k] \in Nat
BY ConstantTypes DEF TypeOK, File

(* The types of a process's locals, spelled out.                           *)
LEMMA LocFacts ==
    ASSUME TypeOK, NEW p \in Proc
    PROVE  /\ loc[p] \in Local
           /\ loc[p].scan \in Seq(Nat) /\ loc[p].fp \in Seq(Nat)
           /\ loc[p].image \in Seq(Nat) /\ loc[p].start \in Seq(Nat)
           /\ loc[p].sig \in Seq(Nat \cup Stamp)
BY LocalFields DEF TypeOK, Fingerprint, Signature

(* Whoever does not move keeps its part while the ledger grows.            *)
LEMMA OthersKeep ==
    ASSUME ReadInv, TypeOK', NEW q \in Proc, pc'[q] = pc[q], loc'[q] = loc[q],
           LE(ledger, ledger'), past \subseteq past'
    PROVE  Keeps(q)'
<1>1. TypeOK /\ Keeps(q)
  BY DEF ReadInv, TypeInv, Keeps
<1>2. \A k \in File : ledger[k] \in Nat /\ ledger'[k] \in Nat /\ ledger[k] <= ledger'[k]
  BY <1>1, LedgerFacts DEF LE, TypeOK
<1>3. /\ loc[q].scan \in Seq(Nat) /\ loc[q].fp \in Seq(Nat)
      /\ loc[q].image \in Seq(Nat) /\ loc[q].start \in Seq(Nat)
  BY <1>1, LocFacts
<1>4. \A s \in Seq(Nat) : Len(s) = NFile => \A k \in File : s[k] \in Nat
  BY ConstantTypes DEF File
<1>5. SigInv(q)'
  <2>1. \A k \in File : k <= Len(loc[q].sig) => loc[q].sig[k] <= ledger'[k]
    BY <1>1, <1>2 DEF Keeps, SigInv
  <2> QED
    BY <1>1, <2>1 DEF Keeps, SigInv
<1>6. StartInv(q)'
  <2>1. ASSUME loc[q].call = "search", NEW k \in File  PROVE loc[q].start[k] <= ledger'[k]
    <3>1. Len(loc[q].start) = NFile /\ loc[q].start[k] <= ledger[k]
      BY <1>1, <2>1 DEF Keeps, StartInv, LE
    <3>2. loc[q].start[k] \in Nat
      BY <1>3, <1>4, <3>1
    <3> QED
      BY <1>2, <3>1, <3>2
  <2> QED
    BY <1>1, <2>1 DEF Keeps, StartInv, LE
<1>7. ScanInv(q)'
  <2>1. \A k \in File : k <= Len(loc[q].scan) => loc[q].scan[k] <= ledger'[k]
    <3>1. \A k \in File : k <= Len(loc[q].scan) => loc[q].scan[k] \in Nat
      BY SMTT(30), <1>3, ConstantTypes DEF File
    <3> QED
      BY <1>1, <1>2, <3>1 DEF Keeps, ScanInv
  <2> QED
    BY <1>1, <2>1 DEF Keeps, ScanInv, PrefixLE
<1>8. BuildInv(q)'
  <2>1. Len(loc[q].image) = NFile /\ LE(loc[q].image, ledger) => LE(loc[q].image, ledger')
    <3> SUFFICES ASSUME Len(loc[q].image) = NFile, LE(loc[q].image, ledger), NEW k \in File
                 PROVE  loc[q].image[k] <= ledger'[k]
      BY DEF LE
    <3>1. loc[q].image[k] \in Nat /\ loc[q].image[k] <= ledger[k]
      BY <1>3, <1>4 DEF LE
    <3> QED
      BY <1>2, <3>1
  <2>2. \A i \in File : ledger[i] > 0 => ledger'[i] > 0
    BY <1>2
  <2> QED
    BY <1>1, <2>1, <2>2 DEF Keeps, BuildInv, LE, PrefixLE, HasEvents, EmptyLedger
<1>9. GateInv(q)'
  BY <1>1 DEF Keeps, GateInv, Held
<1> QED
  BY <1>5, <1>6, <1>7, <1>8, <1>9 DEF Keeps

LEMMA IdleKeeps ==
    ASSUME TypeOK, NEW p \in Proc, Idle(p)
    PROVE  Keeps(p)'
<1>1. pc'[p] = "idle" /\ loc'[p] = NoLocal
  BY DEF TypeOK, Idle, Goto
<1>2. /\ NoLocal.call = "none" /\ NoLocal.sig = <<>> /\ NoLocal.scan = <<>>
  BY DEF NoLocal
<1> QED
  BY <1>1, <1>2, ConstantTypes
  DEF Keeps, SigInv, StartInv, ScanInv, BuildInv, GateInv, PrefixLE, File

LEMMA ConcludeKeeps ==
    ASSUME TypeOK, NEW p \in Proc, NEW label \in {"health", "fail"}, Conclude(p, label)
    PROVE  Keeps(p)'
<1>1. pc'[p] = label /\ loc'[p] = [NoLocal EXCEPT !.call = "ensure", !.fp = loc[p].fp]
  BY DEF TypeOK, Conclude, Goto
<1>2. loc'[p].call = "ensure" /\ loc'[p].sig = <<>> /\ loc'[p].scan = <<>>
  BY <1>1 DEF NoLocal
<1> QED
  BY <1>1, <1>2, ConstantTypes
  DEF Keeps, SigInv, StartInv, ScanInv, BuildInv, GateInv, PrefixLE, File

(* Reading one more file keeps every bound of what was read.               *)
LEMMA ReadKeeps ==
    ASSUME TypeOK, NEW p \in Proc, ScanInv(p),
           ReadFile(p) \/ \E label \in EnsurePC : ReadLastFile(p, label)
    PROVE  /\ Read(p) \in Seq(Nat)
           /\ Len(Read(p)) = Len(loc[p].scan) + 1
           /\ Len(Read(p)) <= NFile
           /\ \A k \in File : k <= Len(Read(p)) => Read(p)[k] <= ledger[k]
           /\ \A k \in File : k <= Len(loc[p].scan) => Read(p)[k] = loc[p].scan[k]
           /\ \A b \in Seq(Nat) \cup [File -> Nat] :
                 PrefixLE(b, loc[p].scan) /\ LE(b, ledger) => PrefixLE(b, Read(p))
<1>1. loc[p].scan \in Seq(Nat)
  BY LocFacts
<1>2. Len(loc[p].scan) + 1 <= NFile
  BY <1>1, ConstantTypes DEF ReadFile, ReadLastFile
<1> DEFINE last == Len(loc[p].scan) + 1
<1>3. last \in File /\ ledger[last] \in Nat
  BY <1>1, <1>2, ConstantTypes DEF TypeOK, File
<1>4. /\ Read(p) \in Seq(Nat)
      /\ Len(Read(p)) = last
      /\ Read(p)[last] = ledger[last]
      /\ \A k \in File : k <= Len(loc[p].scan) => Read(p)[k] = loc[p].scan[k]
  BY <1>1, <1>3 DEF Read, File
<1>5. \A k \in File : k <= last => k = last \/ k <= Len(loc[p].scan)
  BY <1>1 DEF File
<1>6. \A k \in File : k <= Len(Read(p)) => Read(p)[k] <= ledger[k]
  BY SMTT(30), <1>3, <1>4, <1>5 DEF ScanInv
<1>7. \A b \in Seq(Nat) \cup [File -> Nat] :
         PrefixLE(b, loc[p].scan) /\ LE(b, ledger) => PrefixLE(b, Read(p))
  BY <1>3, <1>4, <1>5 DEF PrefixLE, LE
<1> HIDE DEF last
<1> QED
  BY <1>1, <1>2, <1>4, <1>6, <1>7 DEF last
-----------------------------------------------------------------------------
(* The steps of one process, each for all of its own part.                 *)

(* Two ledgers, or a ledger and a fingerprint, with the same lines.        *)
LEMMA SameLines ==
    ASSUME NEW f \in Seq(Nat), NEW g \in Seq(Nat), Len(f) = NFile, Len(g) = NFile,
           LE(f, g), LE(g, f)
    PROVE  f = g
<1>1. \A k \in 1 .. NFile : f[k] \in Nat /\ g[k] \in Nat /\ f[k] <= g[k] /\ g[k] <= f[k]
  BY DEF LE, File
<1>2. \A k \in 1 .. NFile : f[k] = g[k]
  BY <1>1
<1>3. f = [k \in 1 .. NFile |-> f[k]] /\ g = [k \in 1 .. NFile |-> g[k]]
  OBVIOUS
<1> QED
  BY <1>2, <1>3

LEMMA PastFacts ==
    ASSUME TypeOK, PastInv
    PROVE  /\ ledger \in Seq(Nat) /\ Len(ledger) = NFile /\ ledger \in past
           /\ \A m \in past : /\ m \in Seq(Nat) /\ Len(m) = NFile
                              /\ \A k \in File : m[k] \in Nat /\ m[k] <= ledger[k]
           /\ \A k \in File : ledger[k] \in Nat
<1>1. \A m \in [File -> Nat] : /\ m \in Seq(Nat) /\ Len(m) = NFile
                                /\ \A k \in File : m[k] \in Nat
  BY ConstantTypes DEF File
<1>2. ledger \in [File -> Nat] /\ past \subseteq [File -> Nat]
  BY DEF TypeOK
<1> QED
  BY <1>1, <1>2 DEF PastInv, LE

LEMMA BelowLedger ==
    ASSUME TypeOK, PastInv, NEW f \in Seq(Nat), Len(f) = NFile, NEW m \in past, LE(f, m)
    PROVE  LE(f, ledger)
<1>1. \A k \in File : f[k] \in Nat
  BY DEF File
<1>2. \A k \in File : m[k] \in Nat /\ m[k] <= ledger[k] /\ ledger[k] \in Nat
  BY PastFacts
<1> QED
  BY <1>1, <1>2 DEF LE

(* A step that leaves the search's own locals and the ledger alone.        *)
LEMMA SearchFrame ==
    ASSUME ReadInv, NEW p \in Proc, ledger' = ledger,
           loc'[p].call = loc[p].call, loc'[p].start = loc[p].start,
           loc'[p].sig = loc[p].sig, pc'[p] \notin {"stat", "idle"},
           pc'[p] \in Looking => pc[p] \in Looking,
           pc'[p] \in {"lookup", "remember", "query"} => loc[p].call = "search"
    PROVE  SigInv(p)' /\ StartInv(p)'
<1>1. SigInv(p) /\ StartInv(p)
  BY DEF ReadInv, TypeInv
<1>2. SigInv(p)'
  BY <1>1 DEF SigInv, Looking
<1>3. StartInv(p)'
  BY <1>1 DEF StartInv, LE
<1> QED
  BY <1>2, <1>3

LEMMA BeginEnsureKeeps ==
    ASSUME ReadInv, NEW p \in Proc, BeginEnsure(p)
    PROVE  Keeps(p)'
<1>1. pc[p] = "idle" /\ SigInv(p) /\ ScanInv(p) /\ TypeOK
  BY DEF ReadInv, TypeInv, BeginEnsure
<1>2. pc'[p] = "status" /\ loc'[p] = [loc[p] EXCEPT !.call = "ensure"] /\ ledger' = ledger
  BY <1>1 DEF BeginEnsure, Goto, TypeOK, canonical
<1>3. loc'[p].call = "ensure" /\ loc'[p].sig = <<>> /\ loc'[p].scan = <<>>
  BY <1>1, <1>2, LocFacts DEF Local, SigInv, ScanInv
<1> QED
  BY <1>2, <1>3, ConstantTypes
  DEF Keeps, SigInv, StartInv, ScanInv, BuildInv, GateInv, PrefixLE, File, Looking

LEMMA BeginSearchKeeps ==
    ASSUME ReadInv, NEW p \in Proc, BeginSearch(p)
    PROVE  Keeps(p)'
<1>1. pc[p] = "idle" /\ SigInv(p) /\ ScanInv(p) /\ TypeOK /\ PastInv /\ p \in Server
  BY DEF ReadInv, TypeInv, BeginSearch
<1>2. /\ pc'[p] = "stat" /\ ledger' = ledger
      /\ loc'[p] = [loc[p] EXCEPT !.call = "search", !.start = ledger]
  BY <1>1 DEF BeginSearch, Goto, TypeOK, canonical
<1>3. /\ loc'[p].call = "search" /\ loc'[p].start = ledger
      /\ loc'[p].sig = <<>> /\ loc'[p].scan = <<>>
  BY <1>1, <1>2, LocFacts DEF Local, SigInv, ScanInv
<1>4. Len(ledger) = NFile /\ LE(ledger, ledger)
  BY <1>1, PastFacts DEF LE
<1> QED
  BY <1>1, <1>2, <1>3, <1>4, ConstantTypes
  DEF Keeps, SigInv, StartInv, ScanInv, BuildInv, GateInv, PrefixLE, LE, File, Looking

LEMMA ReadFileKeeps ==
    ASSUME ReadInv, NEW p \in Proc, ReadFile(p)
    PROVE  Keeps(p)'
<1>1. TypeOK /\ Keeps(p) /\ PastInv
  BY DEF ReadInv, TypeInv, Keeps
<1>2. /\ pc' = pc /\ ledger' = ledger /\ past' = past
      /\ loc'[p] = [loc[p] EXCEPT !.scan = Read(p)]
  BY <1>1 DEF ReadFile, TypeOK, canonical
<1>3. /\ loc'[p].scan = Read(p) /\ loc'[p].call = loc[p].call
      /\ loc'[p].start = loc[p].start /\ loc'[p].sig = loc[p].sig
      /\ loc'[p].fp = loc[p].fp /\ loc'[p].image = loc[p].image
      /\ loc'[p].populated = loc[p].populated /\ loc'[p].whole = loc[p].whole
  BY <1>1, <1>2, LocFacts DEF Local
<1>4. /\ pc[p] \in {"status", "fingerprint", "build", "rescan"}
      /\ pc[p] = "build" => loc[p].populated
  BY DEF ReadFile
<1>5. /\ Read(p) \in Seq(Nat)
      /\ Len(Read(p)) = Len(loc[p].scan) + 1
      /\ Len(Read(p)) <= NFile
      /\ \A k \in File : k <= Len(Read(p)) => Read(p)[k] <= ledger[k]
      /\ \A k \in File : k <= Len(loc[p].scan) => Read(p)[k] = loc[p].scan[k]
      /\ \A b \in Seq(Nat) \cup [File -> Nat] :
            PrefixLE(b, loc[p].scan) /\ LE(b, ledger) => PrefixLE(b, Read(p))
  BY <1>1, ReadKeeps DEF Keeps
<1>6. SigInv(p)' /\ StartInv(p)'
  BY <1>2, <1>3, <1>4, SearchFrame
<1>7. ScanInv(p)'
  <2>1. loc[p].call = "search" => PrefixLE(loc[p].start, Read(p))
    BY <1>1, <1>5, LocFacts DEF Keeps, ScanInv, StartInv
  <2> QED
    BY <1>2, <1>3, <1>4, <1>5, <2>1 DEF ScanInv, PrefixLE
<1>8. BuildInv(p)'
  <2>1. CASE pc[p] \in {"status", "fingerprint"}
    BY <1>2, <1>3, <2>1 DEF BuildInv
  <2>2. CASE pc[p] = "build"
    <3>1. PICK m \in past : LE(loc[p].fp, m)
      BY <1>1, <2>2 DEF Keeps, BuildInv
    <3>2. Len(loc[p].fp) = NFile /\ loc[p].fp \in Seq(Nat)
      BY <1>1, <2>2, LocFacts DEF Keeps, BuildInv
    <3>3. LE(loc[p].fp, ledger)
      BY <1>1, <3>1, <3>2, BelowLedger
    <3>4. PrefixLE(loc[p].fp, Read(p))
      BY <1>1, <1>5, <2>2, <3>2, <3>3 DEF Keeps, BuildInv
    <3>5. PICK i \in File \ {1} : ledger[i] > 0 /\ (i <= Len(loc[p].scan) => loc[p].scan[i] > 0)
      BY <1>1, <1>4, <2>2 DEF Keeps, BuildInv
    <3>6. i <= Len(Read(p)) => Read(p)[i] > 0
      <4>1. CASE i <= Len(loc[p].scan)
        BY <1>5, <3>5, <4>1
      <4>2. CASE ~(i <= Len(loc[p].scan)) /\ i <= Len(Read(p))
        <5>1. i = Len(loc[p].scan) + 1
          BY <1>1, <1>5, <4>2, LocFacts, ConstantTypes DEF File
        <5> QED
          BY <1>1, <3>5, <5>1, LocFacts DEF Read
      <4> QED
        BY <4>1, <4>2
    <3> QED
      BY <1>2, <1>3, <1>4, <2>2, <3>1, <3>2, <3>4, <3>5, <3>6 DEF BuildInv, LE, PrefixLE
  <2>3. CASE pc[p] = "rescan"
    <3>1. PICK m \in past : LE(loc[p].fp, m) /\ PrefixLE(m, loc[p].scan)
      BY <1>1, <2>3 DEF Keeps, BuildInv
    <3>2. PrefixLE(m, Read(p))
      BY <1>1, <1>5, <3>1, PastFacts DEF LE
    <3>3. loc[p].populated => PrefixLE(loc[p].image, Read(p))
      BY <1>1, <1>5, <2>3, LocFacts DEF Keeps, BuildInv
    <3> QED
      BY <1>1, <1>2, <1>3, <2>3, <3>1, <3>2, <3>3 DEF Keeps, BuildInv, LE, PrefixLE, HasEvents, EmptyLedger
  <2> QED
    BY <1>4, <2>1, <2>2, <2>3
<1>9. GateInv(p)'
  BY <1>2, <1>4 DEF GateInv
<1> QED
  BY <1>6, <1>7, <1>8, <1>9 DEF Keeps

LEMMA StatusFingerprintKeeps ==
    ASSUME ReadInv, NEW p \in Proc, StatusFingerprint(p)
    PROVE  Keeps(p)'
<1>1. TypeOK /\ Keeps(p) /\ pc[p] = "status" /\ ReadLastFile(p, "status")
  BY DEF ReadInv, TypeInv, Keeps, StatusFingerprint, ReadLastFile
<1>2. /\ pc'[p] = "statusHealth" /\ ledger' = ledger
      /\ loc'[p] = [loc[p] EXCEPT !.scan = Read(p)]
  BY <1>1 DEF StatusFingerprint, TypeOK, Goto, canonical
<1>3. /\ loc'[p].scan = Read(p) /\ loc'[p].call = loc[p].call
      /\ loc'[p].start = loc[p].start /\ loc'[p].sig = loc[p].sig
  BY <1>1, <1>2, LocFacts DEF Local
<1>4. SigInv(p)' /\ StartInv(p)'
  BY <1>1, <1>2, <1>3, SearchFrame DEF Looking
<1>5. /\ Read(p) \in Seq(Nat)
      /\ Len(Read(p)) = NFile
      /\ \A k \in File : k <= Len(Read(p)) => Read(p)[k] <= ledger[k]
  BY <1>1, ReadKeeps DEF Keeps, EnsurePC, ReadLastFile
<1>6. loc[p].call = "search" => PrefixLE(loc[p].start, Read(p))
  BY <1>1, ReadKeeps, LocFacts DEF Keeps, EnsurePC, ScanInv, StartInv
<1>7. ScanInv(p)'
  BY <1>2, <1>3, <1>5, <1>6, ConstantTypes DEF ScanInv, PrefixLE
<1>8. BuildInv(p)' /\ GateInv(p)'
  BY <1>2 DEF BuildInv, GateInv
<1> QED
  BY <1>4, <1>7, <1>8 DEF Keeps

LEMMA StatusHealthKeeps ==
    ASSUME ReadInv, NEW p \in Proc, StatusHealth(p)
    PROVE  Keeps(p)'
<1>1. TypeOK /\ Keeps(p) /\ pc[p] = "statusHealth"
  BY DEF ReadInv, TypeInv, Keeps, StatusHealth
<1>2. /\ pc'[p] = "statusDb" /\ ledger' = ledger
      /\ loc'[p] = [loc[p] EXCEPT !.blocked = Blocks(loc[p].scan)]
  BY <1>1 DEF StatusHealth, TypeOK, Goto, canonical
<1>3. /\ loc'[p].scan = loc[p].scan /\ loc'[p].call = loc[p].call
      /\ loc'[p].start = loc[p].start /\ loc'[p].sig = loc[p].sig
  BY <1>1, <1>2, LocFacts DEF Local
<1>4. SigInv(p)' /\ StartInv(p)'
  BY <1>1, <1>2, <1>3, SearchFrame DEF Looking
<1>5. ScanInv(p)'
  BY <1>1, <1>2, <1>3 DEF Keeps, ScanInv, PrefixLE
<1>6. BuildInv(p)' /\ GateInv(p)'
  BY <1>2 DEF BuildInv, GateInv
<1> QED
  BY <1>4, <1>5, <1>6 DEF Keeps

LEMMA StatusOfEnsureKeeps ==
    ASSUME ReadInv, NEW p \in Proc, StatusOfEnsure(p)
    PROVE  Keeps(p)'
<1>1. TypeOK /\ Keeps(p) /\ pc[p] = "statusDb" /\ loc[p].call = "ensure"
  BY DEF ReadInv, TypeInv, Keeps, StatusOfEnsure
<1>2. /\ pc'[p] = "fingerprint" /\ ledger' = ledger
      /\ loc'[p] = [loc[p] EXCEPT !.scan = <<>>, !.blocked = FALSE, !.current = Verdict(p)]
  BY <1>1 DEF StatusOfEnsure, TypeOK, Goto, canonical
<1>3. /\ loc'[p].scan = <<>> /\ loc'[p].call = loc[p].call
      /\ loc'[p].start = loc[p].start /\ loc'[p].sig = loc[p].sig
  BY <1>1, <1>2, LocFacts DEF Local
<1>4. SigInv(p)' /\ StartInv(p)'
  BY <1>1, <1>2, <1>3, SearchFrame DEF Looking
<1>5. ScanInv(p)' /\ BuildInv(p)' /\ GateInv(p)'
  BY <1>1, <1>2, <1>3, ConstantTypes DEF ScanInv, BuildInv, GateInv, PrefixLE, File
<1> QED
  BY <1>4, <1>5 DEF Keeps

LEMMA FingerprintLedgerKeeps ==
    ASSUME ReadInv, NEW p \in Proc, FingerprintLedger(p)
    PROVE  Keeps(p)'
<1>1. /\ TypeOK /\ Keeps(p) /\ PastInv
      /\ pc[p] = "fingerprint" /\ ReadLastFile(p, "fingerprint")
  BY DEF ReadInv, TypeInv, Keeps, FingerprintLedger, ReadLastFile
<1>2. /\ pc'[p] = "sources" /\ ledger' = ledger /\ past' = past
      /\ loc'[p] = [loc[p] EXCEPT !.fp = Read(p), !.scan = <<>>]
  BY <1>1 DEF FingerprintLedger, TypeOK, Goto, canonical
<1>3. /\ loc'[p].scan = <<>> /\ loc'[p].fp = Read(p) /\ loc'[p].call = loc[p].call
      /\ loc'[p].start = loc[p].start /\ loc'[p].sig = loc[p].sig
  BY <1>1, <1>2, LocFacts DEF Local
<1>4. SigInv(p)' /\ StartInv(p)'
  BY <1>1, <1>2, <1>3, SearchFrame DEF Looking
<1>5. /\ Len(Read(p)) = NFile
      /\ LE(Read(p), ledger)
  BY <1>1, ReadKeeps, ConstantTypes DEF Keeps, EnsurePC, ReadLastFile, LE, File
<1>6. ScanInv(p)' /\ GateInv(p)'
  BY <1>1, <1>2, <1>3, ConstantTypes DEF ScanInv, GateInv, PrefixLE, File
<1>7. ledger \in past
  BY <1>1 DEF PastInv
<1>8. BuildInv(p)'
  BY <1>2, <1>3, <1>5, <1>7 DEF BuildInv, LE
<1> QED
  BY <1>4, <1>6, <1>8 DEF Keeps

LEMMA ValidateSourcesKeeps ==
    ASSUME ReadInv, NEW p \in Proc, ValidateSources(p)
    PROVE  Keeps(p)'
<1>1. TypeOK /\ Keeps(p) /\ PastInv /\ pc[p] = "sources"
  BY DEF ReadInv, TypeInv, Keeps, ValidateSources
<1>2. CASE Conclude(p, "fail")
  BY <1>1, <1>2, ConcludeKeeps
<1>3. CASE /\ Goto(p, IF NeedsBuild(p) THEN "build" ELSE "verify")
           /\ loc' = [loc EXCEPT ![p] = [@ EXCEPT !.current = FALSE, !.populated = Populated]]
  <2>1. /\ pc'[p] \in {"build", "verify"} /\ ledger' = ledger /\ past' = past
        /\ loc'[p] = [loc[p] EXCEPT !.current = FALSE, !.populated = Populated]
    BY <1>1, <1>3 DEF ValidateSources, TypeOK, Goto, canonical
  <2>2. /\ loc'[p].scan = loc[p].scan /\ loc'[p].fp = loc[p].fp
        /\ loc'[p].call = loc[p].call /\ loc'[p].populated = Populated
        /\ loc'[p].start = loc[p].start /\ loc'[p].sig = loc[p].sig
    BY <1>1, <2>1, LocFacts DEF Local
  <2>3. SigInv(p)' /\ StartInv(p)'
    BY <1>1, <2>1, <2>2, SearchFrame DEF Looking
  <2>4. loc[p].scan = <<>>
    BY <1>1 DEF Keeps, ScanInv
  <2>5. ScanInv(p)' /\ GateInv(p)'
    BY <2>1, <2>2, <2>4, ConstantTypes DEF ScanInv, GateInv, PrefixLE, File
  <2>6. Len(loc[p].fp) = NFile /\ loc[p].fp \in Seq(Nat)
    BY <1>1, LocFacts DEF Keeps, BuildInv
  <2>7. PICK m \in past : LE(loc[p].fp, m)
    BY <1>1 DEF Keeps, BuildInv
  <2>8. ~Populated => \A i \in File \ {1} : loc[p].fp[i] = 0
    <3>1. LE(loc[p].fp, ledger)
      BY <1>1, <2>6, <2>7, BelowLedger
    <3>2. \A i \in File : loc[p].fp[i] \in Nat
      BY <2>6 DEF File
    <3>3. \A i \in File : ledger[i] \in Nat
      BY <1>1, PastFacts
    <3> QED
      BY <3>1, <3>2, <3>3 DEF Populated, LE
  <2>9. Populated => \E i \in File \ {1} : ledger[i] > 0 /\ ~(i <= 0)
    BY DEF Populated, File
  <2>10. BuildInv(p)'
    BY <2>1, <2>2, <2>4, <2>6, <2>7, <2>8, <2>9 DEF BuildInv, LE, PrefixLE, File
  <2> QED
    BY <2>3, <2>5, <2>10 DEF Keeps
<1> QED
  BY <1>2, <1>3 DEF ValidateSources

LEMMA BuildEmptyKeeps ==
    ASSUME ReadInv, NEW p \in Proc, BuildEmpty(p)
    PROVE  Keeps(p)'
<1>1. TypeOK /\ Keeps(p) /\ pc[p] = "build" /\ ~loc[p].populated
  BY DEF ReadInv, TypeInv, Keeps, BuildEmpty
<1>2. /\ pc'[p] = "rescan" /\ ledger' = ledger /\ past' = past
      /\ loc'[p] = [loc[p] EXCEPT !.image = EmptyLedger, !.whole = TRUE]
  BY <1>1 DEF BuildEmpty, TypeOK, Goto, canonical
<1>3. /\ loc'[p].scan = loc[p].scan /\ loc'[p].fp = loc[p].fp
      /\ loc'[p].call = loc[p].call /\ loc'[p].populated = loc[p].populated
      /\ loc'[p].start = loc[p].start /\ loc'[p].sig = loc[p].sig
      /\ loc'[p].image = EmptyLedger
  BY <1>1, <1>2, LocFacts DEF Local
<1>4. SigInv(p)' /\ StartInv(p)'
  BY <1>1, <1>2, <1>3, SearchFrame DEF Looking
<1>5. loc[p].scan = <<>>
  BY <1>1 DEF Keeps, ScanInv
<1>6. ScanInv(p)' /\ GateInv(p)'
  BY <1>2, <1>3, <1>5, ConstantTypes DEF ScanInv, GateInv, PrefixLE, File
<1>7. PICK m \in past : LE(loc[p].fp, m)
  BY <1>1 DEF Keeps, BuildInv
<1>8. PrefixLE(m, loc[p].scan)
  BY <1>5 DEF PrefixLE, File
<1>9. BuildInv(p)'
  BY <1>1, <1>2, <1>3, <1>7, <1>8 DEF Keeps, BuildInv, LE, PrefixLE, EmptyLedger
<1> QED
  BY <1>4, <1>6, <1>9 DEF Keeps

LEMMA BuildFromLedgerKeeps ==
    ASSUME ReadInv, NEW p \in Proc, BuildFromLedger(p)
    PROVE  Keeps(p)'
<1>1. /\ TypeOK /\ Keeps(p) /\ PastInv
      /\ pc[p] = "build" /\ ReadLastFile(p, "build") /\ loc[p].populated
  BY DEF ReadInv, TypeInv, Keeps, BuildFromLedger, ReadLastFile
<1>2. PICK b \in BOOLEAN :
        loc' = [loc EXCEPT ![p] = [@ EXCEPT !.image = Read(p), !.scan = <<>>, !.whole = b]]
  BY DEF BuildFromLedger
<1>3. /\ pc'[p] = "passages" /\ ledger' = ledger /\ past' = past
      /\ loc'[p] = [loc[p] EXCEPT !.image = Read(p), !.scan = <<>>, !.whole = b]
  BY <1>1, <1>2 DEF BuildFromLedger, TypeOK, Goto, canonical
<1>4. /\ loc'[p].scan = <<>> /\ loc'[p].fp = loc[p].fp /\ loc'[p].image = Read(p)
      /\ loc'[p].call = loc[p].call /\ loc'[p].populated = loc[p].populated
      /\ loc'[p].start = loc[p].start /\ loc'[p].sig = loc[p].sig
  BY <1>1, <1>3, LocFacts DEF Local
<1>5. SigInv(p)' /\ StartInv(p)'
  BY <1>1, <1>3, <1>4, SearchFrame DEF Looking
<1>6. ScanInv(p)' /\ GateInv(p)'
  BY <1>3, <1>4, ConstantTypes DEF ScanInv, GateInv, PrefixLE, File
<1>7. Len(loc[p].fp) = NFile /\ loc[p].fp \in Seq(Nat) /\ PrefixLE(loc[p].fp, loc[p].scan)
  BY <1>1, LocFacts DEF Keeps, BuildInv
<1>8. PICK m \in past : LE(loc[p].fp, m)
  BY <1>1 DEF Keeps, BuildInv
<1>9. LE(loc[p].fp, ledger)
  BY <1>1, <1>7, <1>8, BelowLedger
<1>10. Len(Read(p)) = NFile /\ PrefixLE(loc[p].fp, Read(p)) /\ LE(Read(p), ledger)
  BY SMTT(30), <1>1, <1>7, <1>9, ReadKeeps, ConstantTypes DEF Keeps, EnsurePC, ReadLastFile, LE, File
<1>11. LE(loc[p].fp, Read(p))
  BY <1>10, ConstantTypes DEF LE, PrefixLE, File
<1>12. HasEvents(Read(p))
  <2>1. PICK i \in File \ {1} : ledger[i] > 0 /\ (i <= Len(loc[p].scan) => loc[p].scan[i] > 0)
    BY <1>1 DEF Keeps, BuildInv
  <2>2. CASE i <= Len(loc[p].scan)
    <3>1. Read(p)[i] = loc[p].scan[i]
      BY <1>1, <2>2, ReadKeeps DEF Keeps, EnsurePC
    <3> QED
      BY <2>1, <2>2, <3>1 DEF HasEvents
  <2>3. CASE ~(i <= Len(loc[p].scan))
    <3>1. i = Len(loc[p].scan) + 1
      BY <1>1, <2>3, LocFacts, ConstantTypes DEF File, ReadLastFile
    <3>2. Read(p)[i] = ledger[i]
      BY <1>1, <3>1, LocFacts DEF Read
    <3> QED
      BY <2>1, <3>2 DEF HasEvents
  <2> QED
    BY <2>2, <2>3
<1>13. BuildInv(p)'
  BY <1>1, <1>3, <1>4, <1>7, <1>8, <1>10, <1>11, <1>12 DEF BuildInv, LE, HasEvents
<1> QED
  BY <1>5, <1>6, <1>13 DEF Keeps

LEMMA BuildPassagesKeeps ==
    ASSUME ReadInv, NEW p \in Proc, BuildPassages(p)
    PROVE  Keeps(p)'
<1>1. TypeOK /\ Keeps(p) /\ pc[p] = "passages"
  BY DEF ReadInv, TypeInv, Keeps, BuildPassages
<1>2. CASE Conclude(p, "fail")
  BY <1>1, <1>2, ConcludeKeeps
<1>3. CASE Goto(p, "rescan") /\ UNCHANGED loc
  <2>1. pc'[p] = "rescan" /\ ledger' = ledger /\ past' = past /\ loc'[p] = loc[p]
    BY <1>1, <1>3 DEF BuildPassages, TypeOK, Goto, canonical
  <2>2. SigInv(p)' /\ StartInv(p)'
    BY <1>1, <2>1, SearchFrame DEF Looking
  <2>3. loc[p].scan = <<>>
    BY <1>1 DEF Keeps, ScanInv
  <2>4. ScanInv(p)' /\ GateInv(p)'
    BY <2>1, <2>3, ConstantTypes DEF ScanInv, GateInv, PrefixLE, File
  <2>5. \A m : PrefixLE(m, loc[p].scan)
    BY <2>3 DEF PrefixLE, File
  <2>6. BuildInv(p)'
    BY <1>1, <2>1, <2>5 DEF Keeps, BuildInv, LE, PrefixLE, HasEvents
  <2> QED
    BY <2>2, <2>4, <2>6 DEF Keeps
<1> QED
  BY <1>2, <1>3 DEF BuildPassages

LEMMA FingerprintAgainKeeps ==
    ASSUME ReadInv, NEW p \in Proc, FingerprintAgain(p)
    PROVE  Keeps(p)'
<1>1. TypeOK /\ Keeps(p) /\ PastInv /\ pc[p] = "rescan" /\ ReadLastFile(p, "rescan")
  BY DEF ReadInv, TypeInv, Keeps, FingerprintAgain, ReadLastFile
<1>2. CASE Conclude(p, "fail")
  BY <1>1, <1>2, ConcludeKeeps
<1>3. CASE /\ StagedIsGood(p, Read(p))
           /\ Goto(p, "publish") /\ loc' = [loc EXCEPT ![p] = [@ EXCEPT !.scan = <<>>]]
  <2>1. /\ pc'[p] = "publish" /\ ledger' = ledger /\ past' = past
        /\ loc'[p] = [loc[p] EXCEPT !.scan = <<>>]
    BY <1>1, <1>3 DEF FingerprintAgain, TypeOK, Goto, canonical
  <2>2. /\ loc'[p].scan = <<>> /\ loc'[p].fp = loc[p].fp /\ loc'[p].image = loc[p].image
        /\ loc'[p].call = loc[p].call /\ loc'[p].whole = loc[p].whole
        /\ loc'[p].start = loc[p].start /\ loc'[p].sig = loc[p].sig
    BY <1>1, <2>1, LocFacts DEF Local
  <2>3. SigInv(p)' /\ StartInv(p)'
    BY <1>1, <2>1, <2>2, SearchFrame DEF Looking
  <2>4. ScanInv(p)' /\ GateInv(p)'
    BY <2>1, <2>2, ConstantTypes DEF ScanInv, GateInv, PrefixLE, File
  <2>5. /\ Read(p) = loc[p].fp /\ loc[p].whole
        /\ Len(loc[p].fp) = NFile /\ loc[p].fp \in Seq(Nat)
    BY <1>1, <1>3, LocFacts DEF StagedIsGood, Keeps, BuildInv
  <2>6. PICK m \in past : LE(loc[p].fp, m) /\ PrefixLE(m, loc[p].scan)
    BY <1>1 DEF Keeps, BuildInv
  <2>7. m \in Seq(Nat) /\ Len(m) = NFile /\ LE(m, ledger)
    BY <1>1, PastFacts DEF LE
  <2>8. \A f \in Seq(Nat) : PrefixLE(f, loc[p].scan) /\ LE(f, ledger) => LE(f, loc[p].fp)
    <3>1. \A f \in Seq(Nat) : PrefixLE(f, loc[p].scan) /\ LE(f, ledger) => PrefixLE(f, Read(p))
      BY <1>1, ReadKeeps DEF Keeps, EnsurePC
    <3> QED
      BY <2>5, <3>1, ConstantTypes DEF PrefixLE, LE, File
  <2>9. m = loc[p].fp
    BY <2>5, <2>6, <2>7, <2>8, SameLines
  <2>10. loc[p].image = IF HasEvents(loc[p].fp) THEN loc[p].fp ELSE EmptyLedger
    <3>1. CASE loc[p].populated
      <4>1. /\ loc[p].image \in Seq(Nat) /\ Len(loc[p].image) = NFile
            /\ LE(loc[p].fp, loc[p].image) /\ LE(loc[p].image, ledger)
            /\ HasEvents(loc[p].image) /\ PrefixLE(loc[p].image, loc[p].scan)
        BY <1>1, <3>1, LocFacts DEF Keeps, BuildInv
      <4>2. loc[p].image = loc[p].fp
        BY <2>5, <2>8, <4>1, SameLines
      <4> QED
        BY <4>1, <4>2
    <3>2. CASE ~loc[p].populated
      BY <1>1, <3>2 DEF Keeps, BuildInv, HasEvents
    <3> QED
      BY <3>1, <3>2
  <2>11. BuildInv(p)'
    BY <2>1, <2>2, <2>5, <2>6, <2>9, <2>10 DEF BuildInv, HasEvents, EmptyLedger
  <2> QED
    BY <2>3, <2>4, <2>11 DEF Keeps
<1> QED
  BY <1>2, <1>3 DEF FingerprintAgain

LEMMA StatFileKeeps ==
    ASSUME ReadInv, NEW p \in Proc, StatFile(p)
    PROVE  Keeps(p)'
<1>1. TypeOK /\ Keeps(p) /\ PastInv /\ pc[p] = "stat" /\ NextStat(p) # Absent
  BY DEF ReadInv, TypeInv, Keeps, StatFile, Statted
<1> DEFINE sig == Append(loc[p].sig, NextStat(p))
<1>2. /\ pc'[p] = IF Len(loc[p].sig) = NFile + 1 THEN "lookup" ELSE "stat"
      /\ ledger' = ledger
      /\ loc'[p] = [loc[p] EXCEPT !.sig = sig]
  BY <1>1 DEF StatFile, TypeOK, Goto, canonical
<1>3. /\ loc'[p].scan = loc[p].scan /\ loc'[p].call = loc[p].call
      /\ loc'[p].start = loc[p].start /\ loc'[p].sig = sig
  BY <1>1, <1>2, LocFacts DEF Local
<1>4. loc[p].call = "search" /\ StartInv(p) /\ loc[p].scan = <<>>
  BY <1>1 DEF Keeps, StartInv, ScanInv
<1>5. loc[p].sig \in Seq(Nat \cup Stamp) /\ Len(loc[p].sig) < NFile + 2
  BY <1>1, LocFacts DEF Keeps, SigInv
<1>6. sig \in Seq(Nat \cup Stamp)
  BY <1>1, NextStatType DEF ReadInv, Signature
<1>7. /\ Len(sig) = Len(loc[p].sig) + 1
      /\ \A k \in 1 .. Len(loc[p].sig) : sig[k] = loc[p].sig[k]
      /\ sig[Len(loc[p].sig) + 1] = NextStat(p)
  BY <1>5, <1>6
<1>8. \A k \in File : k <= Len(sig) =>
         sig[k] \in Nat /\ loc[p].start[k] <= sig[k] /\ sig[k] <= ledger[k]
  <2> SUFFICES ASSUME NEW k \in File, k <= Len(sig)
               PROVE  sig[k] \in Nat /\ loc[p].start[k] <= sig[k] /\ sig[k] <= ledger[k]
    OBVIOUS
  <2>1. CASE k <= Len(loc[p].sig)
    BY <1>1, <1>7, <2>1 DEF Keeps, SigInv, File
  <2>2. CASE ~(k <= Len(loc[p].sig))
    <3>1. k = Len(loc[p].sig) + 1
      BY <1>5, <1>7, <2>2 DEF File
    <3>2. sig[k] = ledger[k]
      BY <1>7, <3>1, ConstantTypes DEF NextStat, Inspected, File
    <3>3. loc[p].start[k] <= ledger[k] /\ ledger[k] \in Nat
      BY <1>1, <1>4, PastFacts DEF StartInv, LE
    <3> QED
      BY <3>2, <3>3
  <2> QED
    BY <2>1, <2>2
<1> HIDE DEF sig
<1>9. SigInv(p)'
  <2>1. Len(loc[p].sig) \in Nat /\ NFile \in Nat
    BY <1>5, ConstantTypes
  <2>2. /\ Len(sig) <= NFile + 2
        /\ pc'[p] = "stat" => Len(sig) < NFile + 2
        /\ pc'[p] # "stat" => Len(sig) = NFile + 2
        /\ pc'[p] # "idle"
    BY <1>2, <1>5, <1>7, <2>1
  <2>3. loc'[p].sig = sig /\ loc'[p].start = loc[p].start /\ loc'[p].call = "search"
    BY <1>3, <1>4
  <2>4. pc'[p] \in {"stat", "lookup"}
    BY <1>2
  <2> QED
    BY <1>2, <1>8, <2>2, <2>3, <2>4 DEF SigInv, Looking
<1>10. StartInv(p)'
  BY <1>2, <1>3, <1>4 DEF StartInv, LE
<1>11. ScanInv(p)' /\ BuildInv(p)' /\ GateInv(p)'
  BY <1>2, <1>3, <1>4, ConstantTypes DEF ScanInv, BuildInv, GateInv, PrefixLE, File
<1> QED
  BY <1>9, <1>10, <1>11 DEF Keeps

LEMMA StatFailsKeeps ==
    ASSUME ReadInv, NEW p \in Proc, StatFails(p)
    PROVE  Keeps(p)'
<1>1. TypeOK /\ Keeps(p) /\ pc[p] = "stat"
  BY DEF ReadInv, TypeInv, Keeps, StatFails
<1>2. /\ pc'[p] = "lookup" /\ ledger' = ledger
      /\ loc'[p] = [loc[p] EXCEPT !.sig = <<>>]
  BY <1>1 DEF StatFails, TypeOK, Goto, canonical
<1>3. /\ loc'[p].scan = loc[p].scan /\ loc'[p].call = loc[p].call
      /\ loc'[p].start = loc[p].start /\ loc'[p].sig = <<>>
  BY <1>1, <1>2, LocFacts DEF Local
<1>4. loc[p].call = "search" /\ StartInv(p) /\ loc[p].scan = <<>>
  BY <1>1 DEF Keeps, StartInv, ScanInv
<1>5. SigInv(p)' /\ StartInv(p)'
  BY <1>2, <1>3, <1>4, ConstantTypes DEF SigInv, StartInv, LE, File, Looking
<1>6. ScanInv(p)' /\ BuildInv(p)' /\ GateInv(p)'
  BY <1>2, <1>3, <1>4, ConstantTypes DEF ScanInv, BuildInv, GateInv, PrefixLE, File
<1> QED
  BY <1>5, <1>6 DEF Keeps

(* The heart of the cache: a signature that is met again is of a ledger    *)
(* there was, not below the one the call began with.                       *)
LEMMA CacheHitKeeps ==
    ASSUME ReadInv, NEW p \in Proc, CacheHit(p)
    PROVE  Keeps(p)'
<1>1. /\ TypeOK /\ Keeps(p) /\ PastInv /\ pc[p] = "lookup"
      /\ loc[p].sig # <<>> /\ cache[p] = loc[p].sig
  BY DEF ReadInv, TypeInv, Keeps, CacheHit
<1> DEFINE f == SubSeq(loc[p].sig, 1, NFile)
<1>2. /\ pc'[p] = "query" /\ ledger' = ledger /\ past' = past
      /\ loc'[p] = [loc[p] EXCEPT !.fp = f]
  BY <1>1 DEF CacheHit, TypeOK, Goto, canonical
<1>3. f \in Fingerprint
  BY <1>1, FilePartType DEF ReadInv
<1>4. /\ loc'[p].scan = loc[p].scan /\ loc'[p].call = loc[p].call
      /\ loc'[p].start = loc[p].start /\ loc'[p].sig = loc[p].sig /\ loc'[p].fp = f
  <2> HIDE DEF f
  <2> QED
    BY <1>1, <1>2, LocFacts DEF Local
<1>5. loc[p].call = "search" /\ p \in Server /\ loc[p].scan = <<>>
  BY <1>1 DEF Keeps, StartInv, ScanInv
<1>6. SigInv(p)' /\ StartInv(p)'
  BY <1>1, <1>2, <1>4, <1>5, SearchFrame DEF Looking
<1>7. CacheSeen(p)
  BY <1>5 DEF ReadInv
<1>8. \A k \in File : k <= Len(loc[p].sig) =>
         loc[p].sig[k] \in Nat /\ loc[p].start[k] <= loc[p].sig[k]
  BY <1>1 DEF Keeps, SigInv
<1>9. Len(loc[p].sig) = NFile + 2 /\ loc[p].sig \in Seq(Nat \cup Stamp)
  BY <1>1, LocFacts DEF Keeps, SigInv, Looking
<1>10. \A k \in File : k <= Len(loc[p].sig) /\ f[k] = loc[p].sig[k]
  BY <1>9, ConstantTypes DEF File
<1>11. \A k \in File : loc[p].start[k] \in Nat
  <2>1. Len(loc[p].start) = NFile /\ loc[p].start \in Seq(Nat)
    BY <1>1, <1>5, LocFacts DEF Keeps, StartInv
  <2> QED
    BY <2>1 DEF File
<1>12. f \in past
  <2>1. ~ \E k \in File : cache[p][k] < loc[p].start[k]
    BY <1>1, <1>8, <1>10, <1>11
  <2> QED
    BY <1>1, <1>7, <2>1 DEF CacheSeen, WasLedger
<1>13. GateInv(p)'
  BY <1>2, <1>4, <1>8, <1>10, <1>12 DEF GateInv, Held
<1>14. ScanInv(p)' /\ BuildInv(p)'
  BY <1>2, <1>4, <1>5, ConstantTypes DEF ScanInv, BuildInv, PrefixLE, File
<1> QED
  BY <1>6, <1>13, <1>14 DEF Keeps

LEMMA CacheMissKeeps ==
    ASSUME ReadInv, NEW p \in Proc, CacheMiss(p)
    PROVE  Keeps(p)'
<1>1. TypeOK /\ Keeps(p) /\ pc[p] = "lookup"
  BY DEF ReadInv, TypeInv, Keeps, CacheMiss
<1>2. pc'[p] = "status" /\ ledger' = ledger /\ loc'[p] = loc[p]
  BY <1>1 DEF CacheMiss, TypeOK, Goto, canonical
<1>3. loc[p].scan = <<>>
  BY <1>1 DEF Keeps, ScanInv
<1>4. SigInv(p)' /\ StartInv(p)'
  BY <1>1, <1>2, SearchFrame DEF Looking
<1>5. ScanInv(p)' /\ BuildInv(p)' /\ GateInv(p)'
  BY <1>2, <1>3, ConstantTypes DEF ScanInv, BuildInv, GateInv, PrefixLE, File
<1> QED
  BY <1>4, <1>5 DEF Keeps

LEMMA StatusOfSearchKeeps ==
    ASSUME ReadInv, NEW p \in Proc, StatusOfSearch(p)
    PROVE  Keeps(p)'
<1>1. /\ TypeOK /\ Keeps(p) /\ DbInv /\ pc[p] = "statusDb" /\ loc[p].call = "search"
  BY DEF ReadInv, TypeInv, Keeps, StatusOfSearch
<1>2. CASE Idle(p)
  BY <1>1, <1>2, IdleKeeps
<1>3. CASE /\ Verdict(p) /\ Goto(p, "remember")
           /\ loc' = [loc EXCEPT ![p] = [@ EXCEPT !.fp = loc[p].scan, !.scan = <<>>]]
  <2>1. /\ pc'[p] = "remember" /\ ledger' = ledger /\ past' = past
        /\ loc'[p] = [loc[p] EXCEPT !.fp = loc[p].scan, !.scan = <<>>]
    BY <1>1, <1>3 DEF StatusOfSearch, TypeOK, Goto, canonical
  <2>2. /\ loc'[p].scan = <<>> /\ loc'[p].fp = loc[p].scan
        /\ loc'[p].call = loc[p].call
        /\ loc'[p].start = loc[p].start /\ loc'[p].sig = loc[p].sig
    BY <1>1, <2>1, LocFacts DEF Local
  <2>3. SigInv(p)' /\ StartInv(p)'
    BY <1>1, <2>1, <2>2, SearchFrame DEF Looking
  <2>4. ScanInv(p)' /\ BuildInv(p)'
    BY <2>1, <2>2, ConstantTypes DEF ScanInv, BuildInv, PrefixLE, File
  <2>5. loc[p].scan \in past
    BY <1>1, <1>3 DEF Verdict, Matches, DbInv
  <2>6. \A k \in File : loc[p].start[k] <= loc[p].scan[k]
    BY <1>1, ConstantTypes DEF Keeps, ScanInv, PrefixLE, File
  <2>7. GateInv(p)'
    BY <2>1, <2>2, <2>5, <2>6 DEF GateInv, Held
  <2> QED
    BY <2>3, <2>4, <2>7 DEF Keeps
<1> QED
  BY <1>2, <1>3 DEF StatusOfSearch

LEMMA RememberVerdictKeeps ==
    ASSUME ReadInv, NEW p \in Proc, RememberVerdict(p)
    PROVE  Keeps(p)'
<1>1. TypeOK /\ Keeps(p) /\ pc[p] = "remember"
  BY DEF ReadInv, TypeInv, Keeps, RememberVerdict
<1>2. pc'[p] = "query" /\ ledger' = ledger /\ past' = past /\ loc'[p] = loc[p]
  BY <1>1 DEF RememberVerdict, TypeOK, Goto, canonical
<1>3. SigInv(p)' /\ StartInv(p)'
  BY <1>1, <1>2, SearchFrame DEF Looking, Keeps, StartInv
<1>4. ScanInv(p)'
  BY <1>1, <1>2 DEF Keeps, ScanInv, PrefixLE
<1>5. BuildInv(p)'
  BY <1>2 DEF BuildInv
<1>6. GateInv(p)'
  BY <1>1, <1>2 DEF Keeps, GateInv, Held
<1> QED
  BY <1>3, <1>4, <1>5, <1>6 DEF Keeps

LEMMA QueryKeeps ==
    ASSUME ReadInv, NEW p \in Proc, Query(p)
    PROVE  Keeps(p)'
<1>1. TypeOK /\ Keeps(p) /\ pc[p] = "query"
  BY DEF ReadInv, TypeInv, Keeps, Query
<1>2. /\ pc'[p] = "answered" /\ ledger' = ledger
      /\ loc'[p] = [loc[p] EXCEPT !.fp = db.fp, !.sig = <<>>]
  BY <1>1 DEF Query, TypeOK, Goto, canonical
<1>3. /\ loc'[p].scan = loc[p].scan /\ loc'[p].call = loc[p].call
      /\ loc'[p].start = loc[p].start /\ loc'[p].sig = <<>>
  BY <1>1, <1>2, LocFacts DEF Local
<1>4. SigInv(p)' /\ StartInv(p)'
  BY <1>1, <1>2, <1>3, ConstantTypes DEF Keeps, SigInv, StartInv, LE, File, Looking
<1>5. ScanInv(p)'
  BY <1>1, <1>2, <1>3 DEF Keeps, ScanInv, PrefixLE
<1>6. BuildInv(p)' /\ GateInv(p)'
  BY <1>2 DEF BuildInv, GateInv
<1> QED
  BY <1>4, <1>5, <1>6 DEF Keeps

(* Every step of a process keeps its part.                                 *)
Step(p) == \/ BeginEnsure(p) \/ BeginSearch(p) \/ EnsureStep(p) \/ SearchStep(p)
           \/ Raise(p) \/ Stop(p)

LEMMA ActorKeeps ==
    ASSUME ReadInv, NEW p \in Proc, Step(p)
    PROVE  Keeps(p)'
<1>1. TypeOK
  BY DEF ReadInv, TypeInv
<1>2. CASE Idle(p)
  BY <1>1, <1>2, IdleKeeps
<1>3. CASE Conclude(p, "health") \/ Conclude(p, "fail")
  BY <1>1, <1>3, ConcludeKeeps
<1>4. \A s \in Stamp : Publish(p, s) => Conclude(p, "health")
  BY DEF Publish
<1>5. \A s \in Stamp : WriteHealth(p, s) => Idle(p)
  BY DEF WriteHealth
<1>6. Answer(p) \/ Stop(p) => Idle(p)
  BY DEF Answer, Stop
<1>7. VerifyCurrent(p) => Conclude(p, "health") \/ Conclude(p, "fail")
  BY DEF VerifyCurrent
<1>8. Raise(p) => Idle(p) \/ Conclude(p, "fail")
  BY DEF Raise
<1> QED
  BY <1>2, <1>3, <1>4, <1>5, <1>6, <1>7, <1>8, BeginEnsureKeeps, BeginSearchKeeps,
     ReadFileKeeps, StatusFingerprintKeeps, StatusHealthKeeps, StatusOfEnsureKeeps,
     FingerprintLedgerKeeps, ValidateSourcesKeeps, BuildEmptyKeeps, BuildFromLedgerKeeps,
     BuildPassagesKeeps, FingerprintAgainKeeps, StatFileKeeps, StatFailsKeeps,
     CacheHitKeeps, CacheMissKeeps, StatusOfSearchKeeps, RememberVerdictKeeps, QueryKeeps
  DEF Step, EnsureStep, SearchStep

-----------------------------------------------------------------------------
(* What a step of one process leaves alone.                                *)

OnlyMoves(p) ==
    /\ ledger' = ledger /\ past' = past
    /\ \A q \in Proc \ {p} : pc'[q] = pc[q] /\ loc'[q] = loc[q]

LEMMA StepFrame == ASSUME TypeOK, NEW p \in Proc, Step(p) PROVE OnlyMoves(p)
<1>1. ASSUME BeginEnsure(p)  PROVE OnlyMoves(p)
  BY <1>1 DEF BeginEnsure, OnlyMoves, Goto, canonical, TypeOK
<1>2. ASSUME BeginSearch(p)  PROVE OnlyMoves(p)
  BY <1>2 DEF BeginSearch, OnlyMoves, Goto, canonical, TypeOK
<1>3. ASSUME ReadFile(p)  PROVE OnlyMoves(p)
  BY <1>3 DEF ReadFile, OnlyMoves, Goto, canonical, TypeOK
<1>4. ASSUME StatusFingerprint(p)  PROVE OnlyMoves(p)
  BY <1>4 DEF StatusFingerprint, OnlyMoves, Goto, canonical, TypeOK
<1>5. ASSUME StatusHealth(p)  PROVE OnlyMoves(p)
  BY <1>5 DEF StatusHealth, OnlyMoves, Goto, canonical, TypeOK
<1>6. ASSUME StatusOfEnsure(p)  PROVE OnlyMoves(p)
  BY <1>6 DEF StatusOfEnsure, OnlyMoves, Goto, canonical, TypeOK
<1>7. ASSUME FingerprintLedger(p)  PROVE OnlyMoves(p)
  BY <1>7 DEF FingerprintLedger, OnlyMoves, Goto, canonical, TypeOK
<1>8. ASSUME ValidateSources(p)  PROVE OnlyMoves(p)
  BY <1>8 DEF ValidateSources, OnlyMoves, Conclude, Goto, canonical, TypeOK
<1>9. ASSUME VerifyCurrent(p)  PROVE OnlyMoves(p)
  BY <1>9 DEF VerifyCurrent, OnlyMoves, Conclude, Goto, canonical, TypeOK
<1>10. ASSUME BuildEmpty(p)  PROVE OnlyMoves(p)
  BY <1>10 DEF BuildEmpty, OnlyMoves, Goto, canonical, TypeOK
<1>11. ASSUME BuildFromLedger(p)  PROVE OnlyMoves(p)
  BY <1>11 DEF BuildFromLedger, OnlyMoves, Goto, canonical, TypeOK
<1>12. ASSUME BuildPassages(p)  PROVE OnlyMoves(p)
  BY <1>12 DEF BuildPassages, OnlyMoves, Conclude, Goto, canonical, TypeOK
<1>13. ASSUME FingerprintAgain(p)  PROVE OnlyMoves(p)
  BY <1>13 DEF FingerprintAgain, OnlyMoves, Conclude, Goto, canonical, TypeOK
<1>14. ASSUME NEW s \in Stamp, Publish(p, s)  PROVE OnlyMoves(p)
  BY <1>14 DEF Publish, OnlyMoves, Conclude, Goto, canonical, TypeOK
<1>15. ASSUME NEW s \in Stamp, WriteHealth(p, s)  PROVE OnlyMoves(p)
  BY <1>15 DEF WriteHealth, OnlyMoves, Idle, Goto, canonical, TypeOK
<1>16. ASSUME StatFile(p)  PROVE OnlyMoves(p)
  BY <1>16 DEF StatFile, OnlyMoves, Goto, canonical, TypeOK
<1>17. ASSUME StatFails(p)  PROVE OnlyMoves(p)
  BY <1>17 DEF StatFails, OnlyMoves, Goto, canonical, TypeOK
<1>18. ASSUME CacheHit(p)  PROVE OnlyMoves(p)
  BY <1>18 DEF CacheHit, OnlyMoves, Goto, canonical, TypeOK
<1>19. ASSUME CacheMiss(p)  PROVE OnlyMoves(p)
  BY <1>19 DEF CacheMiss, OnlyMoves, Goto, canonical, TypeOK
<1>20. ASSUME StatusOfSearch(p)  PROVE OnlyMoves(p)
  BY <1>20 DEF StatusOfSearch, OnlyMoves, Idle, Goto, canonical, TypeOK
<1>21. ASSUME RememberVerdict(p)  PROVE OnlyMoves(p)
  BY <1>21 DEF RememberVerdict, OnlyMoves, Goto, canonical, TypeOK
<1>22. ASSUME Query(p)  PROVE OnlyMoves(p)
  BY <1>22 DEF Query, OnlyMoves, Goto, canonical, TypeOK
<1>23. ASSUME Answer(p)  PROVE OnlyMoves(p)
  BY <1>23 DEF Answer, OnlyMoves, Idle, Goto, canonical, TypeOK
<1>24. ASSUME Raise(p)  PROVE OnlyMoves(p)
  BY <1>24 DEF Raise, OnlyMoves, Idle, Conclude, Goto, canonical, TypeOK
<1>25. ASSUME Stop(p)  PROVE OnlyMoves(p)
  BY <1>25 DEF Stop, OnlyMoves, Idle, Goto, canonical, TypeOK
<1> QED
  BY <1>1, <1>2, <1>3, <1>4, <1>5, <1>6, <1>7, <1>8, <1>9, <1>10, <1>11, <1>12, <1>13, <1>14, <1>15, <1>16, <1>17, <1>18, <1>19, <1>20, <1>21, <1>22, <1>23, <1>24, <1>25
  DEF Step, EnsureStep, SearchStep

LEMMA DbFrame ==
    ASSUME NEW p \in Proc, Step(p), db' # db
    PROVE  \E s \in Stamp : Publish(p, s)
<1>1. ASSUME BeginEnsure(p)  PROVE FALSE
  BY <1>1 DEF BeginEnsure, files
<1>2. ASSUME BeginSearch(p)  PROVE FALSE
  BY <1>2 DEF BeginSearch, files
<1>3. ASSUME ReadFile(p)  PROVE FALSE
  BY <1>3 DEF ReadFile, files
<1>4. ASSUME StatusFingerprint(p)  PROVE FALSE
  BY <1>4 DEF StatusFingerprint, files
<1>5. ASSUME StatusHealth(p)  PROVE FALSE
  BY <1>5 DEF StatusHealth, files
<1>6. ASSUME StatusOfEnsure(p)  PROVE FALSE
  BY <1>6 DEF StatusOfEnsure, files
<1>7. ASSUME FingerprintLedger(p)  PROVE FALSE
  BY <1>7 DEF FingerprintLedger, files
<1>8. ASSUME ValidateSources(p)  PROVE FALSE
  BY <1>8 DEF ValidateSources, files
<1>9. ASSUME VerifyCurrent(p)  PROVE FALSE
  BY <1>9 DEF VerifyCurrent, files
<1>10. ASSUME BuildEmpty(p)  PROVE FALSE
  BY <1>10 DEF BuildEmpty, files
<1>11. ASSUME BuildFromLedger(p)  PROVE FALSE
  BY <1>11 DEF BuildFromLedger, files
<1>12. ASSUME BuildPassages(p)  PROVE FALSE
  BY <1>12 DEF BuildPassages, files
<1>13. ASSUME FingerprintAgain(p)  PROVE FALSE
  BY <1>13 DEF FingerprintAgain, files
<1>14. ASSUME NEW s \in Stamp, WriteHealth(p, s)  PROVE FALSE
  BY <1>14 DEF WriteHealth, files
<1>15. ASSUME StatFile(p)  PROVE FALSE
  BY <1>15 DEF StatFile, files
<1>16. ASSUME StatFails(p)  PROVE FALSE
  BY <1>16 DEF StatFails, files
<1>17. ASSUME CacheHit(p)  PROVE FALSE
  BY <1>17 DEF CacheHit, files
<1>18. ASSUME CacheMiss(p)  PROVE FALSE
  BY <1>18 DEF CacheMiss, files
<1>19. ASSUME StatusOfSearch(p)  PROVE FALSE
  BY <1>19 DEF StatusOfSearch, files
<1>20. ASSUME RememberVerdict(p)  PROVE FALSE
  BY <1>20 DEF RememberVerdict, files
<1>21. ASSUME Query(p)  PROVE FALSE
  BY <1>21 DEF Query, files
<1>22. ASSUME Answer(p)  PROVE FALSE
  BY <1>22 DEF Answer, files
<1>23. ASSUME Raise(p)  PROVE FALSE
  BY <1>23 DEF Raise, files
<1>24. ASSUME Stop(p)  PROVE FALSE
  BY <1>24 DEF Stop, files
<1> QED
  BY <1>1, <1>2, <1>3, <1>4, <1>5, <1>6, <1>7, <1>8, <1>9, <1>10, <1>11, <1>12, <1>13, <1>14, <1>15, <1>16, <1>17, <1>18, <1>19, <1>20, <1>21, <1>22, <1>23, <1>24
  DEF Step, EnsureStep, SearchStep

LEMMA CacheFrame ==
    ASSUME NEW p \in Proc, Step(p), cache' # cache
    PROVE  CacheMiss(p) \/ RememberVerdict(p) \/ Stop(p)
<1>1. ASSUME BeginEnsure(p)  PROVE FALSE
  BY <1>1 DEF BeginEnsure
<1>2. ASSUME BeginSearch(p)  PROVE FALSE
  BY <1>2 DEF BeginSearch
<1>3. ASSUME ReadFile(p)  PROVE FALSE
  BY <1>3 DEF ReadFile
<1>4. ASSUME StatusFingerprint(p)  PROVE FALSE
  BY <1>4 DEF StatusFingerprint
<1>5. ASSUME StatusHealth(p)  PROVE FALSE
  BY <1>5 DEF StatusHealth
<1>6. ASSUME StatusOfEnsure(p)  PROVE FALSE
  BY <1>6 DEF StatusOfEnsure
<1>7. ASSUME FingerprintLedger(p)  PROVE FALSE
  BY <1>7 DEF FingerprintLedger
<1>8. ASSUME ValidateSources(p)  PROVE FALSE
  BY <1>8 DEF ValidateSources
<1>9. ASSUME VerifyCurrent(p)  PROVE FALSE
  BY <1>9 DEF VerifyCurrent
<1>10. ASSUME BuildEmpty(p)  PROVE FALSE
  BY <1>10 DEF BuildEmpty
<1>11. ASSUME BuildFromLedger(p)  PROVE FALSE
  BY <1>11 DEF BuildFromLedger
<1>12. ASSUME BuildPassages(p)  PROVE FALSE
  BY <1>12 DEF BuildPassages
<1>13. ASSUME FingerprintAgain(p)  PROVE FALSE
  BY <1>13 DEF FingerprintAgain
<1>14. ASSUME NEW s \in Stamp, Publish(p, s)  PROVE FALSE
  BY <1>14 DEF Publish
<1>15. ASSUME NEW s \in Stamp, WriteHealth(p, s)  PROVE FALSE
  BY <1>15 DEF WriteHealth
<1>16. ASSUME StatFile(p)  PROVE FALSE
  BY <1>16 DEF StatFile
<1>17. ASSUME StatFails(p)  PROVE FALSE
  BY <1>17 DEF StatFails
<1>18. ASSUME CacheHit(p)  PROVE FALSE
  BY <1>18 DEF CacheHit
<1>19. ASSUME StatusOfSearch(p)  PROVE FALSE
  BY <1>19 DEF StatusOfSearch
<1>20. ASSUME Query(p)  PROVE FALSE
  BY <1>20 DEF Query
<1>21. ASSUME Answer(p)  PROVE FALSE
  BY <1>21 DEF Answer
<1>22. ASSUME Raise(p)  PROVE FALSE
  BY <1>22 DEF Raise
<1> QED
  BY <1>1, <1>2, <1>3, <1>4, <1>5, <1>6, <1>7, <1>8, <1>9, <1>10, <1>11, <1>12, <1>13, <1>14, <1>15, <1>16, <1>17, <1>18, <1>19, <1>20, <1>21, <1>22
  DEF Step, EnsureStep, SearchStep

Walks(p) == pc[p] = "stat" /\ loc'[p].start = loc[p].start

(* Only a search that begins gets to its stat walk.                        *)
LEMMA StatFrame ==
    ASSUME ReadInv, NEW p \in Proc, Step(p), pc'[p] \in {"stat", "lookup"}
    PROVE  BeginSearch(p) \/ Walks(p)
<1>0. TypeOK
  BY DEF ReadInv, TypeInv
<1>1. ASSUME BeginEnsure(p)  PROVE FALSE
  BY <1>0, <1>1 DEF BeginEnsure, Goto, TypeOK
<1>2. ASSUME ReadFile(p)  PROVE FALSE
  BY <1>0, <1>2 DEF ReadFile, Goto, TypeOK
<1>3. ASSUME StatusFingerprint(p)  PROVE FALSE
  BY <1>0, <1>3 DEF StatusFingerprint, Goto, TypeOK
<1>4. ASSUME StatusHealth(p)  PROVE FALSE
  BY <1>0, <1>4 DEF StatusHealth, Goto, TypeOK
<1>5. ASSUME StatusOfEnsure(p)  PROVE FALSE
  BY <1>0, <1>5 DEF StatusOfEnsure, Goto, TypeOK
<1>6. ASSUME FingerprintLedger(p)  PROVE FALSE
  BY <1>0, <1>6 DEF FingerprintLedger, Goto, TypeOK
<1>7. ASSUME ValidateSources(p)  PROVE FALSE
  BY <1>0, <1>7 DEF ValidateSources, Conclude, Goto, TypeOK
<1>8. ASSUME VerifyCurrent(p)  PROVE FALSE
  BY <1>0, <1>8 DEF VerifyCurrent, Conclude, Goto, TypeOK
<1>9. ASSUME BuildEmpty(p)  PROVE FALSE
  BY <1>0, <1>9 DEF BuildEmpty, Goto, TypeOK
<1>10. ASSUME BuildFromLedger(p)  PROVE FALSE
  BY <1>0, <1>10 DEF BuildFromLedger, Goto, TypeOK
<1>11. ASSUME BuildPassages(p)  PROVE FALSE
  BY <1>0, <1>11 DEF BuildPassages, Conclude, Goto, TypeOK
<1>12. ASSUME FingerprintAgain(p)  PROVE FALSE
  BY <1>0, <1>12 DEF FingerprintAgain, Conclude, Goto, TypeOK
<1>13. ASSUME NEW s \in Stamp, Publish(p, s)  PROVE FALSE
  BY <1>0, <1>13 DEF Publish, Conclude, Goto, TypeOK
<1>14. ASSUME NEW s \in Stamp, WriteHealth(p, s)  PROVE FALSE
  BY <1>0, <1>14 DEF WriteHealth, Idle, Goto, TypeOK
<1>15. ASSUME StatFile(p)  PROVE Walks(p)
  BY <1>0, <1>15, LocFacts DEF Walks, StatFile, TypeOK, Local
<1>16. ASSUME StatFails(p)  PROVE Walks(p)
  BY <1>0, <1>16, LocFacts DEF Walks, StatFails, TypeOK, Local
<1>17. ASSUME CacheHit(p)  PROVE FALSE
  BY <1>0, <1>17 DEF CacheHit, Goto, TypeOK
<1>18. ASSUME CacheMiss(p)  PROVE FALSE
  BY <1>0, <1>18 DEF CacheMiss, Goto, TypeOK
<1>19. ASSUME StatusOfSearch(p)  PROVE FALSE
  BY <1>0, <1>19 DEF StatusOfSearch, Idle, Goto, TypeOK
<1>20. ASSUME RememberVerdict(p)  PROVE FALSE
  BY <1>0, <1>20 DEF RememberVerdict, Goto, TypeOK
<1>21. ASSUME Query(p)  PROVE FALSE
  BY <1>0, <1>21 DEF Query, Goto, TypeOK
<1>22. ASSUME Answer(p)  PROVE FALSE
  BY <1>0, <1>22 DEF Answer, Idle, Goto, TypeOK
<1>23. ASSUME Raise(p)  PROVE FALSE
  BY <1>0, <1>23 DEF Raise, Idle, Conclude, Goto, TypeOK
<1>24. ASSUME Stop(p)  PROVE FALSE
  BY <1>0, <1>24 DEF Stop, Idle, Goto, TypeOK
<1> QED
  BY <1>0, <1>1, <1>2, <1>3, <1>4, <1>5, <1>6, <1>7, <1>8, <1>9, <1>10, <1>11, <1>12, <1>13, <1>14, <1>15, <1>16, <1>17, <1>18, <1>19, <1>20, <1>21, <1>22, <1>23, <1>24
  DEF Step, EnsureStep, SearchStep

-----------------------------------------------------------------------------
(* The invariant.                                                          *)

LEMMA NextSteps ==
    [Next]_vars => \/ UNCHANGED vars
                   \/ \E i \in File : AppendLine(i)
                   \/ EditSource \/ RestoreSource
                   \/ \E p \in Proc : Step(p)
BY DEF Next, Step

LEMMA InitReadInv == Init => ReadInv
<1> SUFFICES ASSUME Init PROVE ReadInv
  OBVIOUS
<1> USE ConstantTypes
<1>1. \A k \in File : EmptyLedger[k] = 0
  BY DEF EmptyLedger
<1>2. EmptyLedger \in [File -> Nat]
  BY DEF EmptyLedger
<1>3. \A p \in Proc : pc[p] = "idle" /\ loc[p] = NoLocal
  BY DEF Init
<1>4. NoLocal.call = "none" /\ NoLocal.sig = <<>> /\ NoLocal.scan = <<>>
  BY DEF NoLocal
<1>5. TypeOK
  <2>1. health \in Health
    BY EmptyTypes DEF Init, Health, NoHealth
  <2>4. NoDatabase \in Database
    BY EmptyTypes DEF Database, NoDatabase
  <2>5. \A s \in Stamp :
           [stamp |-> s, fp |-> EmptyLedger, image |-> EmptyLedger, whole |-> FALSE] \in Database
    BY EmptyTypes DEF Database
  <2>6. db \in Database
    BY <2>4, <2>5 DEF Init
  <2>2. pc \in [Proc -> EnsurePC \cup SearchPC \cup {"idle"}] /\ loc \in [Proc -> Local]
    BY NoLocalType DEF Init
  <2>3. cache \in [Server -> Signature]
    BY EmptyTypes DEF Init
  <2> QED
    BY <1>2, <2>1, <2>6, <2>2, <2>3 DEF Init, TypeOK
<1>6. ASSUME NEW p \in Proc
      PROVE  SigInv(p) /\ StartInv(p) /\ ScanInv(p) /\ BuildInv(p) /\ GateInv(p)
  <2>1. /\ pc[p] = "idle" /\ loc[p].call = "none"
        /\ loc[p].sig = <<>> /\ loc[p].scan = <<>>
    BY <1>3, <1>4, <1>6
  <2> QED
    BY <2>1 DEF SigInv, StartInv, ScanInv, BuildInv, GateInv, PrefixLE, File, Looking
<1>7. PastInv
  BY <1>1 DEF Init, PastInv, LE
<1>8. DbInv
  BY DEF Init, DbInv, NoDatabase
<1>9. \A s \in Server : CacheSeen(s)
  BY DEF Init, CacheSeen
<1> QED
  BY <1>5, <1>6, <1>7, <1>8, <1>9 DEF ReadInv, TypeInv

LEMMA PastGrows ==
    ASSUME ReadInv, [Next]_vars
    PROVE  past \subseteq past' /\ LE(ledger, ledger') /\ PastInv'
<1>1. TypeOK /\ PastInv
  BY DEF ReadInv, TypeInv
<1>2. \A k \in File : ledger[k] \in Nat
  BY <1>1, PastFacts
<1>3. CASE ledger' = ledger /\ past' = past
  BY <1>1, <1>2, <1>3 DEF PastInv, LE
<1>4. ASSUME NEW i \in File, AppendLine(i)
      PROVE  past \subseteq past' /\ LE(ledger, ledger') /\ PastInv'
  <2>1. ledger' = [ledger EXCEPT ![i] = @ + 1] /\ past' = past \cup {ledger'}
    BY <1>4 DEF AppendLine
  <2>2. \A k \in File : ledger'[k] \in Nat /\ ledger[k] <= ledger'[k]
    BY <1>1, <1>2, <2>1 DEF TypeOK
  <2>3. \A m \in past : \A k \in File : m[k] \in Nat /\ m[k] <= ledger[k]
    BY <1>1, PastFacts
  <2>4. \A m \in past : LE(m, ledger')
    BY <1>2, <2>2, <2>3 DEF LE
  <2>5. LE(ledger, ledger') /\ LE(ledger', ledger')
    BY <2>2 DEF LE
  <2> QED
    BY <2>1, <2>4, <2>5 DEF PastInv
<1>5. ASSUME NEW p \in Proc, Step(p)  PROVE ledger' = ledger /\ past' = past
  BY <1>1, <1>5, StepFrame DEF OnlyMoves
<1>6. UNCHANGED vars \/ EditSource \/ RestoreSource => ledger' = ledger /\ past' = past
  BY DEF vars, EditSource, RestoreSource, canonical
<1> QED
  BY <1>3, <1>4, <1>5, <1>6, NextSteps

(* A published database is of the ledger: the heart of IndexIsImage.       *)
LEMMA DbInvStep ==
    ASSUME ReadInv, [Next]_vars
    PROVE  DbInv' /\ (db.whole => db'.whole)
<1>1. DbInv /\ past \subseteq past'
  BY PastGrows DEF ReadInv
<1>2. CASE db' = db
  BY <1>1, <1>2 DEF DbInv, IndexIsImage, HasEvents, EmptyLedger
<1>3. ASSUME NEW p \in Proc, NEW s \in Stamp, Publish(p, s)
      PROVE  DbInv' /\ (db.whole => db'.whole)
  <2>1. BuildInv(p) /\ pc[p] = "publish"
    BY <1>3 DEF ReadInv, Publish
  <2>2. db'.fp = loc[p].fp /\ db'.image = loc[p].image /\ db'.whole = loc[p].whole
    BY <1>3 DEF Publish
  <2>3. /\ loc[p].fp \in past /\ loc[p].whole
        /\ loc[p].image = IF HasEvents(loc[p].fp) THEN loc[p].fp ELSE EmptyLedger
    BY <2>1 DEF BuildInv
  <2> QED
    BY <1>1, <2>2, <2>3 DEF DbInv, IndexIsImage, HasEvents, EmptyLedger
<1>4. CASE \E p \in Proc : Step(p)
  BY <1>2, <1>3, <1>4, DbFrame
<1>5. (\E i \in File : AppendLine(i)) \/ UNCHANGED vars \/ EditSource \/ RestoreSource => db' = db
  BY DEF vars, AppendLine, EditSource, RestoreSource, files
<1> QED
  BY <1>2, <1>4, <1>5, NextSteps

(* A server that does not touch its cache keeps what is known of it.       *)
LEMMA CacheKept ==
    ASSUME ReadInv, [Next]_vars, NEW s \in Server, s \in Proc, cache'[s] = cache[s],
           pc'[s] \in {"stat", "lookup"} =>
              \/ pc[s] \in {"stat", "lookup"} /\ loc'[s].start = loc[s].start
              \/ loc'[s].start = ledger
    PROVE  CacheSeen(s)'
<1>1. CacheSeen(s) /\ past \subseteq past' /\ LE(ledger, ledger') /\ TypeOK
  BY PastGrows DEF ReadInv, TypeInv
<1>2. \A k \in File : ledger[k] \in Nat
  BY <1>1, LedgerFacts
<1>3. \A k \in File : ledger'[k] \in Nat
  BY TypeStep, LedgerFacts DEF ReadInv, TypeOK
<1>4. ASSUME cache[s] # <<>>, NEW k \in File, cache[s][k] < ledger[k]
      PROVE  cache[s][k] < ledger'[k]
  <2>1. cache[s][k] \in Nat
    BY <1>1, <1>4 DEF CacheSeen
  <2>2. ledger[k] <= ledger'[k]
    BY <1>1 DEF LE
  <2> QED
    BY <1>2, <1>3, <1>4, <2>1, <2>2
<1> QED
  BY <1>1, <1>4 DEF CacheSeen, WasLedger

LEMMA RememberedIsSeen ==
    ASSUME ReadInv, NEW p \in Server, p \in Proc, RememberVerdict(p)
    PROVE  CacheSeen(p)'
<1>1. TypeOK /\ PastInv /\ SigInv(p) /\ pc[p] = "remember"
  BY DEF ReadInv, TypeInv, RememberVerdict
<1>2. /\ cache'[p] = loc[p].sig /\ pc'[p] = "query" /\ ledger' = ledger /\ past' = past
  BY <1>1 DEF RememberVerdict, CacheEntry, Goto, TypeOK, canonical
<1>3. CASE loc[p].sig = <<>>
  BY <1>2, <1>3 DEF CacheSeen
<1>4. CASE loc[p].sig # <<>>
  <2>1. Len(loc[p].sig) = NFile + 2 /\ loc[p].sig \in Seq(Nat \cup Stamp)
    BY <1>1, <1>4, LocFacts DEF SigInv, Looking
  <2>2. \A k \in File : loc[p].sig[k] \in Nat /\ loc[p].sig[k] <= ledger[k]
    BY <1>1, <2>1, ConstantTypes DEF SigInv, File
  <2>3. \A k \in File : ledger[k] \in Nat
    BY <1>1, PastFacts
  <2>4. CASE \E k \in File : loc[p].sig[k] < ledger[k]
    BY <1>2, <2>1, <2>2, <2>4 DEF CacheSeen
  <2>5. CASE ~ \E k \in File : loc[p].sig[k] < ledger[k]
    <3>1. \A k \in 1 .. NFile : loc[p].sig[k] = ledger[k]
      BY <2>2, <2>3, <2>5 DEF File
    <3>2. SubSeq(loc[p].sig, 1, NFile) = [k \in 1 .. NFile |-> loc[p].sig[k]]
      BY <2>1, ConstantTypes
    <3>3. ledger = [k \in 1 .. NFile |-> ledger[k]]
      BY <1>1 DEF TypeOK, File
    <3>4. SubSeq(loc[p].sig, 1, NFile) = ledger
      BY <3>1, <3>2, <3>3
    <3>5. SubSeq(loc[p].sig, 1, NFile) \in past
      BY <1>1, <3>4 DEF PastInv
    <3> QED
      BY <1>2, <2>1, <2>2, <3>5 DEF CacheSeen, WasLedger
  <2> QED
    BY <2>4, <2>5
<1> QED
  BY <1>3, <1>4

LEMMA CacheSeenStep ==
    ASSUME ReadInv, [Next]_vars, NEW s \in Server
    PROVE  CacheSeen(s)'
<1>0. TypeOK /\ s \in Proc
  BY ConstantTypes DEF ReadInv, TypeInv
<1>1. CASE cache' = cache /\ pc' = pc /\ loc' = loc
  BY <1>0, <1>1, CacheKept
<1>2. (\E i \in File : AppendLine(i)) \/ UNCHANGED vars \/ EditSource \/ RestoreSource =>
         cache' = cache /\ pc' = pc /\ loc' = loc
  BY DEF vars, AppendLine, EditSource, RestoreSource
<1>3. ASSUME NEW p \in Proc, Step(p)  PROVE CacheSeen(s)'
  <2>1. CASE p # s /\ cache'[s] = cache[s]
    BY <1>0, <1>3, <2>1, StepFrame, CacheKept DEF OnlyMoves
  <2>2. CASE p # s /\ cache' # cache
    <3>1. cache'[s] = cache[s]
      BY <1>0, <1>3, <2>2, CacheFrame DEF CacheMiss, RememberVerdict, Stop, TypeOK
    <3> QED
      BY <2>1, <2>2, <3>1
  <2>3. CASE p = s /\ cache' = cache
    <3>1. pc'[s] \in {"stat", "lookup"} => BeginSearch(s) \/ Walks(s)
      BY <1>3, <2>3, StatFrame
    <3>2. BeginSearch(s) => loc'[s].start = ledger
      BY <1>0, LocFacts DEF BeginSearch, TypeOK, Local
    <3> QED
      BY <1>0, <2>3, <3>1, <3>2, CacheKept DEF Walks
  <2>4. CASE p = s /\ cache' # cache
    <3>1. CASE RememberVerdict(s)
      BY <1>0, <3>1, RememberedIsSeen
    <3>2. CASE CacheMiss(s) \/ Stop(s)
      BY <1>0, <3>2 DEF CacheMiss, Stop, TypeOK, CacheSeen
    <3> QED
      BY <1>3, <2>4, <3>1, <3>2, CacheFrame
  <2> QED
    BY <2>1, <2>2, <2>3, <2>4
<1> QED
  BY <1>1, <1>2, <1>3, NextSteps

LEMMA ReadInvStep == ReadInv /\ [Next]_vars => ReadInv'
<1> SUFFICES ASSUME ReadInv, [Next]_vars PROVE ReadInv'
  OBVIOUS
<1>1. TypeOK /\ TypeOK'
  BY TypeStep DEF ReadInv, TypeInv
<1>2. past \subseteq past' /\ LE(ledger, ledger') /\ PastInv'
  BY PastGrows
<1>3. ASSUME NEW q \in Proc  PROVE Keeps(q)'
  <2>1. CASE pc'[q] = pc[q] /\ loc'[q] = loc[q]
    BY <1>1, <1>2, <1>3, <2>1, OthersKeep
  <2>2. (\E i \in File : AppendLine(i)) \/ UNCHANGED vars \/ EditSource \/ RestoreSource =>
           pc'[q] = pc[q] /\ loc'[q] = loc[q]
    BY DEF vars, AppendLine, EditSource, RestoreSource
  <2>3. ASSUME NEW p \in Proc, Step(p)  PROVE Keeps(q)'
    <3>1. CASE p = q
      BY <2>3, <3>1, ActorKeeps
    <3>2. CASE p # q
      BY <1>1, <1>3, <2>1, <2>3, <3>2, StepFrame DEF OnlyMoves
    <3> QED
      BY <3>1, <3>2
  <2> QED
    BY <2>1, <2>2, <2>3, NextSteps
<1>4. DbInv' /\ \A s \in Server : CacheSeen(s)'
  BY DbInvStep, CacheSeenStep
<1> QED
  BY <1>1, <1>2, <1>3, <1>4 DEF ReadInv, TypeInv, Keeps

THEOREM ReadInvariant == Spec => []ReadInv
<1>1. Init => ReadInv
  BY InitReadInv
<1>2. ReadInv /\ [Next]_vars => ReadInv'
  BY ReadInvStep
<1> QED
  BY <1>1, <1>2, PTL DEF Spec

(* The variables keep their types, whatever is written, read, published,   *)
(* cached or stopped by any number of processes over any number of files.  *)
THEOREM IndexTypeCorrect == Spec => []TypeOK
<1>1. ReadInv => TypeOK
  BY DEF ReadInv, TypeInv
<1> QED
  BY <1>1, ReadInvariant, PTL

(* A usable database holds exactly the ledger its fingerprint names: the   *)
(* second fingerprint of ensure_lexical_index makes a build that read file *)
(* by file, without a lock, one of a single ledger.                        *)
THEOREM PublishedIndexIsImage == Spec => []IndexIsImage
<1>1. ReadInv => IndexIsImage
  BY DEF ReadInv, DbInv, IndexIsImage
<1> QED
  BY <1>1, ReadInvariant, PTL

(* No failed, interrupted or incomplete rebuild replaces a usable database.*)
THEOREM GoodIndexIsAlwaysKept == Spec => GoodIndexIsKept
<1>1. ReadInv /\ [Next]_vars => [db.whole => db'.whole]_vars
  BY DbInvStep
<1> QED
  BY <1>1, ReadInvariant, PTL DEF Spec, GoodIndexIsKept

(* The staleness gate, computed or cached, lets a search through only on   *)
(* an index of a ledger there was during that very call.                   *)
THEOREM GateIsAlwaysOfThisCall == Spec => []GateIsOfThisCall
<1>1. ReadInv => GateIsOfThisCall
  BY ConstantTypes DEF ReadInv, GateInv, GateIsOfThisCall
<1> QED
  BY <1>1, ReadInvariant, PTL

-----------------------------------------------------------------------------
(* The soundness of the gate's verdict cache.                              *)

(* The ledger f, which a check found to be the indexed one, stands behind  *)
(* the signature sig: it is not below what was statted, and as long as     *)
(* database and health record have the statted identity, they say so.      *)
Backs(sig, f, l, d, h) ==
    /\ \A k \in File : sig[k] \in Nat /\ sig[k] <= f[k] /\ f[k] <= l[k]
    /\ sig[NFile + 1] = d.stamp => d.whole /\ d.fp = f
    /\ sig[NFile + 2] = h.stamp => ~(h.failed /\ h.revision = f)

Full(f) == f \in Fingerprint /\ Len(f) = NFile

(* What a check has found so far stands behind the signature taken first.  *)
CheckInv(p) ==
    loc[p].sig # <<>> =>
        /\ pc[p] \in {"status", "statusHealth", "statusDb"} => PrefixLE(loc[p].sig, loc[p].scan)
        /\ pc[p] = "statusDb" /\ loc[p].sig[NFile + 2] = health.stamp =>
              loc[p].blocked = Blocks(loc[p].scan)
        /\ pc[p] = "remember" => Full(loc[p].fp) /\ Backs(loc[p].sig, loc[p].fp, ledger, db, health)

CacheInv(s) ==
    cache[s] # <<>> =>
        /\ Len(cache[s]) = NFile + 2
        /\ \E f \in Fingerprint : Full(f) /\ Backs(cache[s], f, ledger, db, health)

SoundInv ==
    /\ ReadInv
    /\ \A p \in Proc : CheckInv(p)
    /\ \A s \in Server : CacheInv(s)

LEMMA HealthFrame ==
    ASSUME NEW p \in Proc, Step(p), health' # health
    PROVE  \E s \in Stamp : WriteHealth(p, s)
<1>1. ASSUME BeginSearch(p)  PROVE FALSE
  BY <1>1 DEF BeginSearch, files
<1>2. ASSUME StatusOfEnsure(p)  PROVE FALSE
  BY <1>2 DEF StatusOfEnsure, files
<1>3. ASSUME FingerprintLedger(p)  PROVE FALSE
  BY <1>3 DEF FingerprintLedger, files
<1>4. ASSUME ValidateSources(p)  PROVE FALSE
  BY <1>4 DEF ValidateSources, files
<1>5. ASSUME VerifyCurrent(p)  PROVE FALSE
  BY <1>5 DEF VerifyCurrent, files
<1>6. ASSUME BuildEmpty(p)  PROVE FALSE
  BY <1>6 DEF BuildEmpty, files
<1>7. ASSUME BuildFromLedger(p)  PROVE FALSE
  BY <1>7 DEF BuildFromLedger, files
<1>8. ASSUME BuildPassages(p)  PROVE FALSE
  BY <1>8 DEF BuildPassages, files
<1>9. ASSUME FingerprintAgain(p)  PROVE FALSE
  BY <1>9 DEF FingerprintAgain, files
<1>10. ASSUME NEW s \in Stamp, Publish(p, s)  PROVE FALSE
  BY <1>10 DEF Publish, files
<1>11. ASSUME StatFile(p)  PROVE FALSE
  BY <1>11 DEF StatFile, files
<1>12. ASSUME StatFails(p)  PROVE FALSE
  BY <1>12 DEF StatFails, files
<1>13. ASSUME CacheHit(p)  PROVE FALSE
  BY <1>13 DEF CacheHit, files
<1>14. ASSUME RememberVerdict(p)  PROVE FALSE
  BY <1>14 DEF RememberVerdict, files
<1>15. ASSUME Query(p)  PROVE FALSE
  BY <1>15 DEF Query, files
<1>16. ASSUME Answer(p)  PROVE FALSE
  BY <1>16 DEF Answer, files
<1>17. ASSUME Raise(p)  PROVE FALSE
  BY <1>17 DEF Raise, files
<1>18. ASSUME Stop(p)  PROVE FALSE
  BY <1>18 DEF Stop, files
<1>19. ASSUME BeginEnsure(p)  PROVE FALSE
  BY <1>19 DEF BeginEnsure, files
<1>20. ASSUME ReadFile(p)  PROVE FALSE
  BY <1>20 DEF ReadFile, files
<1>21. ASSUME StatusFingerprint(p)  PROVE FALSE
  BY <1>21 DEF StatusFingerprint, files
<1>22. ASSUME StatusHealth(p)  PROVE FALSE
  BY <1>22 DEF StatusHealth, files
<1>23. ASSUME CacheMiss(p)  PROVE FALSE
  BY <1>23 DEF CacheMiss, files
<1>24. ASSUME StatusOfSearch(p)  PROVE FALSE
  BY <1>24 DEF StatusOfSearch, files
<1> QED
  BY <1>1, <1>2, <1>3, <1>4, <1>5, <1>6, <1>7, <1>8, <1>9, <1>10, <1>11, <1>12, <1>13, <1>14, <1>15, <1>16, <1>17, <1>18, <1>19, <1>20, <1>21, <1>22, <1>23, <1>24
  DEF Step, EnsureStep, SearchStep

(* The steps of a check that begins or goes on.                            *)
Checking == {"status", "statusHealth", "statusDb", "remember"}
Checks(p) == \/ BeginEnsure(p) \/ CacheMiss(p) \/ ReadFile(p) \/ StatusFingerprint(p)
             \/ StatusHealth(p) \/ StatusOfSearch(p)

LEMMA CheckFrame ==
    ASSUME TypeOK, NEW p \in Proc, Step(p), pc'[p] \in Checking
    PROVE  Checks(p)
<1>1. ASSUME BeginSearch(p)  PROVE FALSE
  BY <1>1 DEF BeginSearch, Goto, TypeOK, Checking
<1>2. ASSUME StatusOfEnsure(p)  PROVE FALSE
  BY <1>2 DEF StatusOfEnsure, Goto, TypeOK, Checking
<1>3. ASSUME FingerprintLedger(p)  PROVE FALSE
  BY <1>3 DEF FingerprintLedger, Goto, TypeOK, Checking
<1>4. ASSUME ValidateSources(p)  PROVE FALSE
  BY <1>4 DEF ValidateSources, Conclude, Goto, TypeOK, Checking
<1>5. ASSUME VerifyCurrent(p)  PROVE FALSE
  BY <1>5 DEF VerifyCurrent, Conclude, Goto, TypeOK, Checking
<1>6. ASSUME BuildEmpty(p)  PROVE FALSE
  BY <1>6 DEF BuildEmpty, Goto, TypeOK, Checking
<1>7. ASSUME BuildFromLedger(p)  PROVE FALSE
  BY <1>7 DEF BuildFromLedger, Goto, TypeOK, Checking
<1>8. ASSUME BuildPassages(p)  PROVE FALSE
  BY <1>8 DEF BuildPassages, Conclude, Goto, TypeOK, Checking
<1>9. ASSUME FingerprintAgain(p)  PROVE FALSE
  BY <1>9 DEF FingerprintAgain, Conclude, Goto, TypeOK, Checking
<1>10. ASSUME NEW s \in Stamp, Publish(p, s)  PROVE FALSE
  BY <1>10 DEF Publish, Conclude, Goto, TypeOK, Checking
<1>11. ASSUME NEW s \in Stamp, WriteHealth(p, s)  PROVE FALSE
  BY <1>11 DEF WriteHealth, Idle, Goto, TypeOK, Checking
<1>12. ASSUME StatFile(p)  PROVE FALSE
  BY <1>12 DEF StatFile, Goto, TypeOK, Checking
<1>13. ASSUME StatFails(p)  PROVE FALSE
  BY <1>13 DEF StatFails, Goto, TypeOK, Checking
<1>14. ASSUME CacheHit(p)  PROVE FALSE
  BY <1>14 DEF CacheHit, Goto, TypeOK, Checking
<1>15. ASSUME RememberVerdict(p)  PROVE FALSE
  BY <1>15 DEF RememberVerdict, Goto, TypeOK, Checking
<1>16. ASSUME Query(p)  PROVE FALSE
  BY <1>16 DEF Query, Goto, TypeOK, Checking
<1>17. ASSUME Answer(p)  PROVE FALSE
  BY <1>17 DEF Answer, Idle, Goto, TypeOK, Checking
<1>18. ASSUME Raise(p)  PROVE FALSE
  BY <1>18 DEF Raise, Idle, Conclude, Goto, TypeOK, Checking
<1>19. ASSUME Stop(p)  PROVE FALSE
  BY <1>19 DEF Stop, Idle, Goto, TypeOK, Checking
<1> QED
  BY <1>1, <1>2, <1>3, <1>4, <1>5, <1>6, <1>7, <1>8, <1>9, <1>10, <1>11, <1>12, <1>13, <1>14, <1>15, <1>16, <1>17, <1>18, <1>19
  DEF Step, EnsureStep, SearchStep, Checks

(* A published file gets an identity no signature holds.                   *)
LEMMA FreshDb ==
    ASSUME [Next]_vars, NEW sig,
           \/ \E s \in Server : cache[s] = sig
           \/ \E q \in Proc : loc[q].sig = sig,
           Len(sig) = NFile + 2
    PROVE  db' = db \/ sig[NFile + 1] # db'.stamp
<1>1. sig[NFile + 1] \in Remembered(NFile + 1)
  BY ConstantTypes DEF Remembered
<1>2. ASSUME NEW p \in Proc, NEW s \in Stamp, Publish(p, s)
      PROVE  sig[NFile + 1] # db'.stamp
  BY <1>1, <1>2 DEF Publish, FreshStamp
<1>3. (\E i \in File : AppendLine(i)) \/ UNCHANGED vars \/ EditSource \/ RestoreSource => db' = db
  BY DEF vars, AppendLine, EditSource, RestoreSource, files
<1> QED
  BY <1>2, <1>3, DbFrame, NextSteps

LEMMA FreshHealth ==
    ASSUME [Next]_vars, NEW sig,
           \/ \E s \in Server : cache[s] = sig
           \/ \E q \in Proc : loc[q].sig = sig,
           Len(sig) = NFile + 2
    PROVE  health' = health \/ sig[NFile + 2] # health'.stamp
<1>1. sig[NFile + 2] \in Remembered(NFile + 2)
  BY ConstantTypes DEF Remembered
<1>2. ASSUME NEW p \in Proc, NEW s \in Stamp, WriteHealth(p, s)
      PROVE  sig[NFile + 2] # health'.stamp
  BY <1>1, <1>2 DEF WriteHealth, FreshStamp
<1>3. (\E i \in File : AppendLine(i)) \/ UNCHANGED vars \/ EditSource \/ RestoreSource => health' = health
  BY DEF vars, AppendLine, EditSource, RestoreSource, files
<1> QED
  BY <1>2, <1>3, HealthFrame, NextSteps

LEMMA BacksKept ==
    ASSUME ReadInv, [Next]_vars, NEW sig, NEW f,
           \/ \E s \in Server : cache[s] = sig
           \/ \E q \in Proc : loc[q].sig = sig,
           Len(sig) = NFile + 2, Full(f), Backs(sig, f, ledger, db, health)
    PROVE  Backs(sig, f, ledger', db', health')
<1>1. LE(ledger, ledger') /\ TypeOK /\ TypeOK'
  BY PastGrows, TypeStep DEF ReadInv, TypeInv
<1>2. \A k \in File : ledger[k] \in Nat /\ ledger'[k] \in Nat /\ ledger[k] <= ledger'[k]
  BY <1>1 DEF LE, TypeOK
<1>3. \A k \in File : f[k] \in Nat
  BY DEF Full, Fingerprint, File
<1>4. \A k \in File : sig[k] \in Nat /\ sig[k] <= f[k] /\ f[k] <= ledger'[k]
  BY <1>2, <1>3 DEF Backs
<1>5. db' = db \/ sig[NFile + 1] # db'.stamp
  BY FreshDb
<1>6. health' = health \/ sig[NFile + 2] # health'.stamp
  BY FreshHealth
<1> QED
  BY <1>4, <1>5, <1>6 DEF Backs

LEMMA CheckKept ==
    ASSUME SoundInv, [Next]_vars, NEW q \in Proc, pc'[q] = pc[q], loc'[q] = loc[q]
    PROVE  CheckInv(q)'
<1> SUFFICES ASSUME loc[q].sig # <<>>, pc[q] \in Checking  PROVE CheckInv(q)'
  BY DEF CheckInv, Checking
<1>1. ReadInv /\ CheckInv(q) /\ SigInv(q) /\ TypeOK
  BY DEF SoundInv, ReadInv, TypeInv
<1>2. Len(loc[q].sig) = NFile + 2
  BY <1>1 DEF SigInv, Looking, Checking
<1>3. pc[q] \in {"status", "statusHealth", "statusDb"} => PrefixLE(loc[q].sig, loc[q].scan)
  BY <1>1 DEF CheckInv
<1>4. pc[q] = "statusDb" /\ loc[q].sig[NFile + 2] = health'.stamp =>
         loc[q].blocked = (health'.failed /\ health'.revision = loc[q].scan)
  BY <1>1, <1>2, FreshHealth DEF CheckInv, Blocks
<1>5. pc[q] = "remember" =>
         Full(loc[q].fp) /\ Backs(loc[q].sig, loc[q].fp, ledger', db', health')
  BY <1>1, <1>2, BacksKept DEF CheckInv
<1> QED
  BY <1>3, <1>4, <1>5 DEF CheckInv, PrefixLE, Blocks

(* One more file of the fingerprint, never below what was statted.         *)
LEMMA ReadIsAboveSig ==
    ASSUME ReadInv, NEW p \in Proc, CheckInv(p), pc[p] = "status", loc[p].sig # <<>>,
           ReadFile(p) \/ StatusFingerprint(p)
    PROVE  PrefixLE(loc[p].sig, Read(p))
<1>1. TypeOK /\ SigInv(p) /\ ScanInv(p)
  BY DEF ReadInv, TypeInv
<1>2. Len(loc[p].sig) = NFile + 2
  BY <1>1 DEF SigInv, Looking
<1>3. \A k \in File : loc[p].sig[k] \in Nat /\ loc[p].sig[k] <= ledger[k]
  BY <1>1, <1>2, ConstantTypes DEF SigInv, File
<1>4. ReadFile(p) \/ \E label \in EnsurePC : ReadLastFile(p, label)
  BY DEF StatusFingerprint, EnsurePC
<1>5. /\ Len(Read(p)) = Len(loc[p].scan) + 1
      /\ \A k \in File : k <= Len(loc[p].scan) => Read(p)[k] = loc[p].scan[k]
  BY <1>1, <1>4, ReadKeeps
<1>6. loc[p].scan \in Seq(Nat) /\ PrefixLE(loc[p].sig, loc[p].scan)
  BY <1>1, LocFacts DEF CheckInv
<1>7. ASSUME NEW k \in File, k <= Len(Read(p))  PROVE loc[p].sig[k] <= Read(p)[k]
  <2>1. CASE k <= Len(loc[p].scan)
    BY <1>5, <1>6, <2>1 DEF PrefixLE
  <2>2. CASE ~(k <= Len(loc[p].scan))
    <3>1. k = Len(loc[p].scan) + 1
      BY <1>5, <1>6, <1>7, <2>2 DEF File
    <3>2. Read(p)[k] = ledger[k]
      BY <1>6, <3>1 DEF Read
    <3> QED
      BY <1>3, <3>2
  <2> QED
    BY <2>1, <2>2
<1> QED
  BY <1>7 DEF PrefixLE

LEMMA CheckStep ==
    ASSUME SoundInv, [Next]_vars, NEW p \in Proc, Step(p)
    PROVE  CheckInv(p)'
<1> SUFFICES ASSUME pc'[p] \in Checking  PROVE CheckInv(p)'
  BY DEF CheckInv, Checking
<1>0. ReadInv /\ CheckInv(p) /\ SigInv(p) /\ ScanInv(p) /\ TypeOK
  BY DEF SoundInv, ReadInv, TypeInv
<1>1. CASE BeginEnsure(p)
  <2>1. loc'[p] = [loc[p] EXCEPT !.call = "ensure"] /\ pc[p] = "idle"
    BY <1>0, <1>1 DEF BeginEnsure, TypeOK
  <2>2. loc'[p].sig = <<>>
    BY <1>0, <2>1, LocFacts DEF Local, SigInv
  <2> QED
    BY <2>2 DEF CheckInv
<1>2. CASE CacheMiss(p)
  <2>1. pc'[p] = "status" /\ loc'[p] = loc[p] /\ loc[p].scan = <<>>
    BY <1>0, <1>2 DEF CacheMiss, Goto, TypeOK, ScanInv
  <2> QED
    BY <2>1 DEF CheckInv, PrefixLE, File
<1>3. CASE ReadFile(p) \/ StatusFingerprint(p)
  <2>1. /\ loc'[p] = [loc[p] EXCEPT !.scan = Read(p)]
        /\ pc[p] = "status" /\ pc'[p] \in {"status", "statusHealth"}
    BY <1>0, <1>3 DEF ReadFile, StatusFingerprint, ReadLastFile, Goto, TypeOK, Checking
  <2>2. loc'[p].sig = loc[p].sig /\ loc'[p].scan = Read(p)
    BY <1>0, <2>1, LocFacts DEF Local
  <2>3. loc[p].sig # <<>> => PrefixLE(loc[p].sig, Read(p))
    BY <1>0, <1>3, <2>1, ReadIsAboveSig
  <2> QED
    BY <2>1, <2>2, <2>3 DEF CheckInv, PrefixLE
<1>4. CASE StatusHealth(p)
  <2>1. /\ loc'[p] = [loc[p] EXCEPT !.blocked = Blocks(loc[p].scan)]
        /\ pc[p] = "statusHealth" /\ pc'[p] = "statusDb" /\ health' = health
    BY <1>0, <1>4 DEF StatusHealth, Goto, TypeOK, files
  <2>2. /\ loc'[p].sig = loc[p].sig /\ loc'[p].scan = loc[p].scan
        /\ loc'[p].blocked = Blocks(loc[p].scan)
    BY <1>0, <2>1, LocFacts DEF Local
  <2> QED
    BY <1>0, <2>1, <2>2 DEF CheckInv, PrefixLE, Blocks
<1>5. CASE StatusOfSearch(p)
  <2>1. /\ loc'[p] = [loc[p] EXCEPT !.fp = loc[p].scan, !.scan = <<>>]
        /\ pc[p] = "statusDb" /\ pc'[p] = "remember" /\ Verdict(p)
        /\ ledger' = ledger /\ db' = db /\ health' = health
    BY <1>0, <1>5 DEF StatusOfSearch, Idle, Goto, TypeOK, canonical, files, Checking
  <2>2. loc'[p].sig = loc[p].sig /\ loc'[p].fp = loc[p].scan
    BY <1>0, <2>1, LocFacts DEF Local
  <2> SUFFICES ASSUME loc[p].sig # <<>>
               PROVE  Full(loc[p].scan) /\ Backs(loc[p].sig, loc[p].scan, ledger, db, health)
    BY <2>1, <2>2 DEF CheckInv
  <2>3. Len(loc[p].sig) = NFile + 2 /\ Len(loc[p].scan) = NFile /\ loc[p].scan \in Fingerprint
    BY <1>0, <2>1, LocalFields, LocFacts DEF SigInv, ScanInv, Looking
  <2>4. \A k \in File : loc[p].sig[k] \in Nat
    BY <1>0, <2>3, ConstantTypes DEF SigInv, File
  <2>5. \A k \in File : loc[p].sig[k] <= loc[p].scan[k] /\ loc[p].scan[k] <= ledger[k]
    BY <1>0, <2>1, <2>3, ConstantTypes DEF CheckInv, ScanInv, PrefixLE, File
  <2>6. loc[p].sig[NFile + 2] = health.stamp => ~Blocks(loc[p].scan)
    BY <1>0, <2>1 DEF CheckInv, Verdict
  <2>7. db.whole /\ db.fp = loc[p].scan
    BY <2>1 DEF Verdict, Matches
  <2> QED
    BY <2>3, <2>4, <2>5, <2>6, <2>7 DEF Backs, Full, Blocks
<1> QED
  BY <1>0, <1>1, <1>2, <1>3, <1>4, <1>5, CheckFrame DEF Checks

LEMMA CacheInvStep ==
    ASSUME SoundInv, [Next]_vars, NEW s \in Server
    PROVE  CacheInv(s)'
<1>0. ReadInv /\ CacheInv(s) /\ TypeOK /\ s \in Proc
  BY ConstantTypes DEF SoundInv, ReadInv, TypeInv
<1>1. CASE cache'[s] = cache[s]
  <2> SUFFICES ASSUME cache[s] # <<>>  PROVE CacheInv(s)'
    BY <1>1 DEF CacheInv
  <2>1. PICK f \in Fingerprint : Full(f) /\ Backs(cache[s], f, ledger, db, health)
    BY <1>0 DEF CacheInv
  <2>2. Len(cache[s]) = NFile + 2
    BY <1>0 DEF CacheInv
  <2>3. Backs(cache[s], f, ledger', db', health')
    BY <1>0, <2>1, <2>2, BacksKept
  <2> QED
    BY <1>1, <2>1, <2>2, <2>3 DEF CacheInv
<1>2. CASE RememberVerdict(s)
  <2>1. /\ cache'[s] = loc[s].sig /\ pc[s] = "remember"
        /\ ledger' = ledger /\ db' = db /\ health' = health
    BY <1>0, <1>2 DEF RememberVerdict, CacheEntry, TypeOK, canonical, files
  <2>2. CheckInv(s) /\ SigInv(s)
    BY <1>0 DEF SoundInv, ReadInv, TypeInv
  <2>3. loc[s].sig # <<>> =>
           /\ Len(loc[s].sig) = NFile + 2
           /\ Full(loc[s].fp) /\ Backs(loc[s].sig, loc[s].fp, ledger, db, health)
    BY <2>1, <2>2 DEF CheckInv, SigInv, Looking
  <2> QED
    BY <2>1, <2>3 DEF CacheInv, Full
<1>3. CASE cache'[s] = <<>>
  BY <1>3 DEF CacheInv
<1>4. ASSUME NEW p \in Proc, Step(p), cache' # cache
      PROVE  cache'[s] = cache[s] \/ cache'[s] = <<>> \/ RememberVerdict(s)
  <2>1. CacheMiss(p) \/ RememberVerdict(p) \/ Stop(p)
    BY <1>4, CacheFrame
  <2> QED
    BY <1>0, <2>1 DEF CacheMiss, RememberVerdict, Stop, TypeOK
<1>5. (\E i \in File : AppendLine(i)) \/ UNCHANGED vars \/ EditSource \/ RestoreSource =>
         cache' = cache
  BY DEF vars, AppendLine, EditSource, RestoreSource
<1> QED
  BY <1>1, <1>2, <1>3, <1>4, <1>5, NextSteps

LEMMA SoundInvStep == SoundInv /\ [Next]_vars => SoundInv'
<1> SUFFICES ASSUME SoundInv, [Next]_vars PROVE SoundInv'
  OBVIOUS
<1>1. ReadInv'
  BY ReadInvStep DEF SoundInv
<1>2. ASSUME NEW q \in Proc  PROVE CheckInv(q)'
  <2>1. (\E i \in File : AppendLine(i)) \/ UNCHANGED vars \/ EditSource \/ RestoreSource =>
           pc'[q] = pc[q] /\ loc'[q] = loc[q]
    BY DEF vars, AppendLine, EditSource, RestoreSource
  <2>2. ASSUME NEW p \in Proc, Step(p)  PROVE CheckInv(q)'
    <3>1. TypeOK
      BY DEF SoundInv, ReadInv, TypeInv
    <3>2. p # q => pc'[q] = pc[q] /\ loc'[q] = loc[q]
      BY <2>2, <3>1, StepFrame DEF OnlyMoves
    <3> QED
      BY <1>2, <2>2, <3>2, CheckStep, CheckKept
  <2> QED
    BY <1>2, <2>1, <2>2, CheckKept, NextSteps
<1>3. \A s \in Server : CacheInv(s)'
  BY CacheInvStep
<1> QED
  BY <1>1, <1>2, <1>3 DEF SoundInv

LEMMA SoundInvImplies == SoundInv => CacheIsSound
<1> SUFFICES ASSUME SoundInv, NEW s \in Server, cache[s] = Inspected  PROVE IndexCurrent
  BY DEF CacheIsSound
<1>1. TypeOK /\ PastInv /\ CacheInv(s)
  BY DEF SoundInv, ReadInv, TypeInv
<1>2. /\ DOMAIN Inspected = 1 .. NFile + 2
      /\ \A k \in File : Inspected[k] = ledger[k]
      /\ Inspected[NFile + 1] = db.stamp /\ Inspected[NFile + 2] = health.stamp
  BY ConstantTypes DEF Inspected, File
<1>3. cache[s] # <<>>
  BY <1>2, ConstantTypes
<1>4. PICK f \in Fingerprint : Full(f) /\ Backs(cache[s], f, ledger, db, health)
  BY <1>1, <1>3 DEF CacheInv
<1>5. /\ ledger \in Seq(Nat) /\ Len(ledger) = NFile /\ f \in Seq(Nat) /\ Len(f) = NFile
  BY <1>1, <1>4, PastFacts DEF Full, Fingerprint
<1>6. LE(ledger, f) /\ LE(f, ledger)
  BY <1>2, <1>4 DEF Backs, LE
<1>7. f = ledger
  BY <1>5, <1>6, SameLines
<1> QED
  BY <1>2, <1>4, <1>7 DEF Backs, IndexCurrent, Matches, Blocks

LEMMA InitSoundInv == Init => SoundInv
<1> SUFFICES ASSUME Init PROVE SoundInv
  OBVIOUS
<1>1. ReadInv
  BY InitReadInv
<1>2. \A p \in Proc : CheckInv(p)
  BY DEF Init, CheckInv
<1>3. \A s \in Server : CacheInv(s)
  BY DEF Init, CacheInv
<1> QED
  BY <1>1, <1>2, <1>3 DEF SoundInv

(* A cached verdict that would be reused now is one a full check would     *)
(* give now: a signature is taken before the check it stands for, and      *)
(* every later publication has an identity the signature does not hold.    *)
THEOREM CacheIsAlwaysSound == Spec => []CacheIsSound
<1>1. SoundInv => CacheIsSound
  BY SoundInvImplies
<1>2. Init => SoundInv
  BY InitSoundInv
<1>3. SoundInv /\ [Next]_vars => SoundInv'
  BY SoundInvStep
<1> QED
  BY <1>1, <1>2, <1>3, PTL DEF Spec
=============================================================================
