---------------------------- MODULE LexicalIndex ----------------------------
(***************************************************************************)
(* The derived lexical index (indexing/lexical.py): staged rebuilds that   *)
(* publish a database and then a health record, by processes that do not   *)
(* lock each other out, and the staleness gate of the MCP server with its  *)
(* verdict cache (server.py), both over a canonical ledger that grows.     *)
(*                                                                         *)
(* The ledger is append-only (IngestCommit!AppendOnly), so a canonical     *)
(* file is known by its number of lines, and a fingerprint is the sequence *)
(* of these numbers, read one file after the other: first sources.jsonl,   *)
(* then the daily files.  sources.jsonl is created empty with the project; *)
(* a daily file exists once it has a line.  The stat identity of a         *)
(* published file (time and size) is a stamp.                              *)
(***************************************************************************)
EXTENDS Naturals, Sequences

CONSTANTS
    Proc,      \* processes of the package on this project
    Builder,   \* those that call ensure_lexical_index
    Server,    \* MCP servers, which answer searches
    NFile,     \* canonical files; file 1 is sources.jsonl
    Stamp,     \* stat identities of databases and health records
    Absent,    \* the stat identity of a file that does not exist
    MaxLine,   \* bound: lines per canonical file
    MaxEdit,   \* bound: edits of registered source artifacts
    MaxFault   \* bound: exceptions, incomplete builds and process stops

ASSUME ConstantTypes ==
    /\ Builder \subseteq Proc
    /\ Server \subseteq Proc
    /\ NFile \in Nat \ {0}
    /\ Absent \notin Stamp
    /\ MaxLine \in Nat
    /\ MaxEdit \in Nat
    /\ MaxFault \in Nat

VARIABLES
    ledger,   \* lines of each canonical file
    drift,    \* a registered source no longer has its registered hash
    db,       \* data/index/research.sqlite
    health,   \* data/index/index-health.json
    cache,    \* _LEXICAL_GATE_CACHE of each server process
    pc,       \* where each process is
    loc,      \* its local variables
    past,     \* history: the ledgers there have been
    edits,    \* how many edits have happened
    faults    \* how many faults have happened

vars == <<ledger, drift, db, health, cache, pc, loc, past, edits, faults>>
canonical == <<ledger, drift, past, edits>>
files == <<db, health>>
-----------------------------------------------------------------------------
File == 1 .. NFile
Fingerprint == Seq(Nat)
EmptyLedger == [i \in File |-> 0]

(* whole: readable, all tables, this schema version.                       *)
Database == [stamp : Stamp \cup {Absent}, fp : Fingerprint,
             image : Fingerprint, whole : BOOLEAN]
NoDatabase == [stamp |-> Absent, fp |-> <<>>, image |-> <<>>, whole |-> FALSE]

(* failed: status "failed", "stale" or "partial".                          *)
Health == [stamp : Stamp \cup {Absent}, revision : Fingerprint, failed : BOOLEAN]
NoHealth == [stamp |-> Absent, revision |-> <<>>, failed |-> FALSE]

Signature == Seq(Nat \cup Stamp)

Local == [call : {"none", "ensure", "search"}, start : Fingerprint,
          scan : Fingerprint, fp : Fingerprint, blocked : BOOLEAN,
          current : BOOLEAN, populated : BOOLEAN, image : Fingerprint,
          whole : BOOLEAN, sig : Signature]
NoLocal == [call |-> "none", start |-> <<>>, scan |-> <<>>, fp |-> <<>>,
            blocked |-> FALSE, current |-> FALSE, populated |-> FALSE,
            image |-> <<>>, whole |-> FALSE, sig |-> <<>>]

EnsurePC == {"status", "statusHealth", "statusDb", "fingerprint", "sources",
             "verify", "build", "passages", "rescan", "publish", "health", "fail"}
SearchPC == {"stat", "lookup", "status", "statusHealth", "statusDb",
             "remember", "query", "answered"}

TypeOK ==
    /\ ledger \in [File -> Nat]
    /\ drift \in BOOLEAN
    /\ db \in Database
    /\ health \in Health
    /\ cache \in [Server -> Signature]
    /\ pc \in [Proc -> EnsurePC \cup SearchPC \cup {"idle"}]
    /\ loc \in [Proc -> Local]
    /\ past \subseteq [File -> Nat]
    /\ edits \in Nat
    /\ faults \in Nat

(* A project without an index, or with one of an older package version.    *)
Init ==
    /\ ledger = EmptyLedger
    /\ drift = FALSE
    /\ \/ db = NoDatabase
       \/ \E s \in Stamp :
            db = [stamp |-> s, fp |-> EmptyLedger, image |-> EmptyLedger, whole |-> FALSE]
    /\ health = NoHealth
    /\ cache = [s \in Server |-> <<>>]
    /\ pc = [p \in Proc |-> "idle"]
    /\ loc = [p \in Proc |-> NoLocal]
    /\ past = {ledger}
    /\ edits = 0
    /\ faults = 0
-----------------------------------------------------------------------------
(* The ledger's writers and the source artifacts.                          *)

AppendLine(i) ==
    /\ ledger[i] < MaxLine
    /\ ledger' = [ledger EXCEPT ![i] = @ + 1]
    /\ past' = past \cup {ledger'}
    /\ UNCHANGED <<drift, files, cache, pc, loc, edits, faults>>

EditSource ==
    /\ ~drift
    /\ edits < MaxEdit
    /\ drift' = TRUE
    /\ edits' = edits + 1
    /\ UNCHANGED <<ledger, files, cache, pc, loc, past, faults>>

RestoreSource ==
    /\ drift
    /\ drift' = FALSE
    /\ UNCHANGED <<ledger, files, cache, pc, loc, past, edits, faults>>
-----------------------------------------------------------------------------
(* Steps of the processes.                                                 *)

Goto(p, label) == pc' = [pc EXCEPT ![p] = label]
Idle(p) == Goto(p, "idle") /\ loc' = [loc EXCEPT ![p] = NoLocal]
Fault == faults < MaxFault /\ faults' = faults + 1

(* What is left to do is to write a health record for the fingerprint.     *)
Conclude(p, label) ==
    /\ Goto(p, label)
    /\ loc' = [loc EXCEPT ![p] = [NoLocal EXCEPT !.call = "ensure", !.fp = loc[p].fp]]

BeginEnsure(p) ==
    /\ p \in Builder
    /\ pc[p] = "idle"
    /\ Goto(p, "status")
    /\ loc' = [loc EXCEPT ![p] = [@ EXCEPT !.call = "ensure"]]
    /\ UNCHANGED <<canonical, files, cache, faults>>

BeginSearch(p) ==
    /\ p \in Server
    /\ pc[p] = "idle"
    /\ Goto(p, "stat")
    /\ loc' = [loc EXCEPT ![p] = [@ EXCEPT !.call = "search", !.start = ledger]]
    /\ UNCHANGED <<canonical, files, cache, faults>>

(* canonical_fingerprint and the builder read the files one by one.        *)
Read(p) == Append(loc[p].scan, ledger[Len(loc[p].scan) + 1])

ReadFile(p) ==
    /\ pc[p] \in {"status", "fingerprint", "build", "rescan"}
    /\ pc[p] = "build" => loc[p].populated
    /\ Len(loc[p].scan) + 1 < NFile
    /\ loc' = [loc EXCEPT ![p] = [@ EXCEPT !.scan = Read(p)]]
    /\ UNCHANGED <<canonical, files, cache, pc, faults>>

ReadLastFile(p, label) == pc[p] = label /\ Len(loc[p].scan) + 1 = NFile

(* index_status: the fingerprint, then the health record, then the database. *)
StatusFingerprint(p) ==
    /\ ReadLastFile(p, "status")
    /\ loc' = [loc EXCEPT ![p] = [@ EXCEPT !.scan = Read(p)]]
    /\ Goto(p, "statusHealth")
    /\ UNCHANGED <<canonical, files, cache, faults>>

(* failed_current_health                                                   *)
Blocks(fp) == health.failed /\ health.revision = fp

StatusHealth(p) ==
    /\ pc[p] = "statusHealth"
    /\ loc' = [loc EXCEPT ![p] = [@ EXCEPT !.blocked = Blocks(loc[p].scan)]]
    /\ Goto(p, "statusDb")
    /\ UNCHANGED <<canonical, files, cache, faults>>

Matches(fp) == db.whole /\ db.fp = fp

(* Mutant: the database is asked to be whole, not to be of this ledger.    *)
VerdictAnyRevision(p) == db.whole /\ ~loc[p].blocked

Verdict(p) == Matches(loc[p].scan) /\ ~loc[p].blocked
-----------------------------------------------------------------------------
(* ensure_lexical_index.                                                   *)

StatusOfEnsure(p) ==
    /\ pc[p] = "statusDb"
    /\ loc[p].call = "ensure"
    /\ loc' = [loc EXCEPT ![p] = [@ EXCEPT !.scan = <<>>, !.blocked = FALSE,
                                            !.current = Verdict(p)]]
    /\ Goto(p, "fingerprint")
    /\ UNCHANGED <<canonical, files, cache, faults>>

FingerprintLedger(p) ==
    /\ ReadLastFile(p, "fingerprint")
    /\ loc' = [loc EXCEPT ![p] = [@ EXCEPT !.fp = Read(p), !.scan = <<>>]]
    /\ Goto(p, "sources")
    /\ UNCHANGED <<canonical, files, cache, faults>>

Populated == \E i \in File \ {1} : ledger[i] > 0
Drifted == drift /\ ledger[1] > 0

(* Mutant: only a missing database is built.                               *)
NeedsBuildIfMissing(p) == db = NoDatabase

NeedsBuild(p) == ~loc[p].current

(* validate_registered_sources, only when there is a daily file.           *)
ValidateSources(p) ==
    /\ pc[p] = "sources"
    /\ IF Populated /\ Drifted THEN Conclude(p, "fail")
       ELSE /\ Goto(p, IF NeedsBuild(p) THEN "build" ELSE "verify")
            /\ loc' = [loc EXCEPT ![p] = [@ EXCEPT !.current = FALSE,
                                                    !.populated = Populated]]
    /\ UNCHANGED <<canonical, files, cache, faults>>

(* verify_lexical_index of the published database ("already_current").     *)
VerifyCurrent(p) ==
    /\ pc[p] = "verify"
    /\ Conclude(p, IF Matches(loc[p].fp) THEN "health" ELSE "fail")
    /\ UNCHANGED <<canonical, files, cache, faults>>

(* _build_empty reads nothing.                                             *)
BuildEmpty(p) ==
    /\ pc[p] = "build"
    /\ ~loc[p].populated
    /\ loc' = [loc EXCEPT ![p] = [@ EXCEPT !.image = EmptyLedger, !.whole = TRUE]]
    /\ Goto(p, "rescan")
    /\ UNCHANGED <<canonical, files, cache, faults>>

(* build: the registry and the events; the output may be incomplete.       *)
BuildFromLedger(p) ==
    /\ ReadLastFile(p, "build")
    /\ loc[p].populated
    /\ \E complete \in BOOLEAN :
        /\ IF complete THEN UNCHANGED faults ELSE Fault
        /\ loc' = [loc EXCEPT ![p] = [@ EXCEPT !.image = Read(p), !.scan = <<>>,
                                                !.whole = complete]]
    /\ Goto(p, "passages")
    /\ UNCHANGED <<canonical, files, cache>>

(* _source_passage re-hashes what an event quotes of a registered source.  *)
MayQuoteDrift(p) == drift /\ loc[p].image[1] > 0

BuildPassages(p) ==
    /\ pc[p] = "passages"
    /\ \/ MayQuoteDrift(p) /\ Conclude(p, "fail")
       \/ Goto(p, "rescan") /\ UNCHANGED loc
    /\ UNCHANGED <<canonical, files, cache, faults>>

(* Mutant: the ledger is not read again after the build.                   *)
StagedIsGoodUnchecked(p, after) == loc[p].whole

(* Mutant: the staged database is not verified before it is published.     *)
StagedIsGoodUnverified(p, after) == after = loc[p].fp

(* The ledger did not change during the build, and verify_lexical_index.   *)
StagedIsGood(p, after) == after = loc[p].fp /\ loc[p].whole

FingerprintAgain(p) ==
    /\ ReadLastFile(p, "rescan")
    /\ IF StagedIsGood(p, Read(p))
       THEN Goto(p, "publish") /\ loc' = [loc EXCEPT ![p] = [@ EXCEPT !.scan = <<>>]]
       ELSE Conclude(p, "fail")
    /\ UNCHANGED <<canonical, files, cache, faults>>

(* The stat identity of a new file is one that no signature holds (entry k *)
(* of it): times and sizes do not come back.                               *)
Remembered(k) == {cache[s][k] : s \in {r \in Server : Len(cache[r]) >= k}}
            \cup {loc[q].sig[k] : q \in {r \in Proc : Len(loc[r].sig) >= k}}
FreshStamp(k) == Stamp \ Remembered(k)

(* os.replace(staging, lexical_db)                                         *)
Publish(p, s) ==
    /\ pc[p] = "publish"
    /\ s \in FreshStamp(NFile + 1)
    /\ db' = [stamp |-> s, fp |-> loc[p].fp, image |-> loc[p].image,
              whole |-> loc[p].whole]
    /\ Conclude(p, "health")
    /\ UNCHANGED <<canonical, health, cache, faults>>

(* _atomic_write_health, after success or in the except branch.            *)
WriteHealth(p, s) ==
    /\ pc[p] \in {"health", "fail"}
    /\ s \in FreshStamp(NFile + 2)
    /\ health' = [stamp |-> s, revision |-> loc[p].fp, failed |-> pc[p] = "fail"]
    /\ Idle(p)
    /\ UNCHANGED <<canonical, db, cache, faults>>

(* Any call may raise; an exception in the except branch ends the attempt. *)
Raise(p) ==
    /\ pc[p] \in EnsurePC
    /\ loc[p].call = "ensure"
    /\ Fault
    /\ IF pc[p] = "fail" THEN Idle(p) ELSE Conclude(p, "fail")
    /\ UNCHANGED <<canonical, files, cache>>

(* The process is gone, with its staging file and its cache.               *)
Stop(p) ==
    /\ pc[p] # "idle"
    /\ Fault
    /\ Idle(p)
    /\ cache' = [s \in Server |-> IF s = p THEN <<>> ELSE cache[s]]
    /\ UNCHANGED <<canonical, files>>
-----------------------------------------------------------------------------
(* The gate of the MCP server and a search behind it.                      *)

(* What _canonical_state_signature stats, in its order.                    *)
Inspected == [k \in 1 .. NFile + 2 |->
                 CASE k <= NFile -> ledger[k]
                   [] k = NFile + 1 -> db.stamp
                   [] OTHER -> health.stamp]

NextStat(p) == Inspected[Len(loc[p].sig) + 1]

(* Mutant: a missing file is part of the signature.                        *)
StattedAny(p) == TRUE

Statted(p) == NextStat(p) # Absent

StatFile(p) ==
    /\ pc[p] = "stat"
    /\ Statted(p)
    /\ loc' = [loc EXCEPT ![p] = [@ EXCEPT !.sig = Append(loc[p].sig, NextStat(p))]]
    /\ Goto(p, IF Len(loc[p].sig) = NFile + 1 THEN "lookup" ELSE "stat")
    /\ UNCHANGED <<canonical, files, cache, faults>>

(* A file that cannot be statted: no signature, the full check.            *)
StatFails(p) ==
    /\ pc[p] = "stat"
    /\ ~Statted(p)
    /\ loc' = [loc EXCEPT ![p] = [@ EXCEPT !.sig = <<>>]]
    /\ Goto(p, "lookup")
    /\ UNCHANGED <<canonical, files, cache, faults>>

CacheHit(p) ==
    /\ pc[p] = "lookup"
    /\ loc[p].sig # <<>>
    /\ cache[p] = loc[p].sig
    /\ Goto(p, "query")
    /\ loc' = [loc EXCEPT ![p] = [@ EXCEPT !.fp = SubSeq(loc[p].sig, 1, NFile)]]
    /\ UNCHANGED <<canonical, files, cache, faults>>

CacheMiss(p) ==
    /\ pc[p] = "lookup"
    /\ loc[p].sig = <<>> \/ cache[p] # loc[p].sig
    /\ cache' = [cache EXCEPT ![p] = <<>>]
    /\ Goto(p, "status")
    /\ UNCHANGED <<canonical, files, loc, faults>>

StatusOfSearch(p) ==
    /\ pc[p] = "statusDb"
    /\ loc[p].call = "search"
    /\ IF Verdict(p)
       THEN /\ Goto(p, "remember")
            /\ loc' = [loc EXCEPT ![p] = [@ EXCEPT !.fp = loc[p].scan, !.scan = <<>>]]
       ELSE Idle(p)
    /\ UNCHANGED <<canonical, files, cache, faults>>

(* Mutant: the signature is taken after the check.                         *)
CacheEntryLate(p) == Inspected

CacheEntry(p) == loc[p].sig

RememberVerdict(p) ==
    /\ pc[p] = "remember"
    /\ cache' = [cache EXCEPT ![p] = CacheEntry(p)]
    /\ Goto(p, "query")
    /\ UNCHANGED <<canonical, files, loc, faults>>

(* open_readonly(RESEARCH_DB), after the gate.                             *)
Query(p) ==
    /\ pc[p] = "query"
    /\ Goto(p, "answered")
    /\ loc' = [loc EXCEPT ![p] = [@ EXCEPT !.fp = db.fp, !.sig = <<>>]]
    /\ UNCHANGED <<canonical, files, cache, faults>>

Answer(p) ==
    /\ pc[p] = "answered"
    /\ Idle(p)
    /\ UNCHANGED <<canonical, files, cache, faults>>
-----------------------------------------------------------------------------
EnsureStep(p) ==
    \/ ReadFile(p) \/ StatusFingerprint(p) \/ StatusHealth(p) \/ StatusOfEnsure(p)
    \/ FingerprintLedger(p) \/ ValidateSources(p) \/ VerifyCurrent(p)
    \/ BuildEmpty(p) \/ BuildFromLedger(p) \/ BuildPassages(p)
    \/ FingerprintAgain(p)
    \/ \E s \in Stamp : Publish(p, s) \/ WriteHealth(p, s)

SearchStep(p) ==
    \/ StatFile(p) \/ StatFails(p) \/ CacheHit(p) \/ CacheMiss(p) \/ StatusOfSearch(p)
    \/ RememberVerdict(p) \/ Query(p) \/ Answer(p)

Next ==
    \/ \E i \in File : AppendLine(i)
    \/ EditSource
    \/ RestoreSource
    \/ \E p \in Proc : \/ BeginEnsure(p) \/ BeginSearch(p)
                       \/ EnsureStep(p) \/ SearchStep(p)
                       \/ Raise(p) \/ Stop(p)

Spec == Init /\ [][Next]_vars

(* A call that began runs on; the index is ensured again and again: every  *)
(* append of the MCP and every start of a server does it; and a drifted    *)
(* source is restored.                                                     *)
FairSpec ==
    /\ Spec
    /\ WF_vars(RestoreSource)
    /\ \A p \in Builder : WF_vars(BeginEnsure(p))
    /\ \A p \in Proc : WF_vars(EnsureStep(p) \/ SearchStep(p))
-----------------------------------------------------------------------------
(* Properties.                                                             *)

(* A usable database holds exactly the ledger its fingerprint names,       *)
(* although the builder reads the ledger file by file while writers append *)
(* and other builders publish.  Without any daily file the registry is not *)
(* indexed either: _build_empty (lexical.py:626) ignores sources.jsonl.    *)
HasEvents(fp) == \E i \in File \ {1} : fp[i] > 0
IndexIsImage ==
    db.whole => db.image = IF HasEvents(db.fp) THEN db.fp ELSE EmptyLedger

(* A failed, interrupted or incomplete rebuild never replaces a usable     *)
(* database ("Failed builds preserve the previous good database",          *)
(* docs/architecture.md:62).                                               *)
GoodIndexIsKept == [][db.whole => db'.whole]_vars

(* f was the ledger at some moment since process p's call began.           *)
Held(p, f) == f \in past /\ \A i \in File : loc[p].start[i] <= f[i]

(* The gate lets a search through only on an index of a ledger there was   *)
(* during that very call, whether the verdict was computed or cached, and  *)
(* although neither the stat walk nor the fingerprint is atomic.           *)
GateIsOfThisCall ==
    \A p \in Server : pc[p] \in {"remember", "query"} => Held(p, loc[p].fp)

(* The index a full check would call current now.                          *)
IndexCurrent == Matches(ledger) /\ ~Blocks(ledger)

(* A cached verdict that would be reused now is a verdict a full check     *)
(* would give now: a signature is taken before the check it stands for, so *)
(* whatever changes meanwhile makes it useless.                            *)
CacheIsSound ==
    \A s \in Server : cache[s] = Inspected => IndexCurrent

(* However appends, drifting sources, failures and concurrent builders     *)
(* interleave, once they cease the index becomes current and stays so:     *)
(* neither a late publication nor a leftover failure record is final.      *)
EventuallyCurrent == <>[]IndexCurrent
=============================================================================
