--------------------------- MODULE GovernedLedger ---------------------------
(***************************************************************************)
(* What the canonical write path promises, without journals, locks, drafts *)
(* or retries: canonical files only grow; a line enters either because the *)
(* administrator appends it or, once, for a draft that holds a grant; a    *)
(* draft is granted at most once; and a draft is done only when its record *)
(* is in the ledger.  IngestCommit implements it.                          *)
(***************************************************************************)
EXTENDS Naturals, Sequences, SequencesExt

CONSTANTS Draft, Receipt, Line, Day, SourcesFile, None, DayOf, LineOf,
          Registers, AdminLine, AdminPath

VARIABLES
    ledger,  \* the canonical files
    grant,   \* the consumed receipt of each draft, or None
    done     \* drafts whose transaction is closed

vars == <<ledger, grant, done>>

Init ==
    /\ ledger = [t \in Day \cup {SourcesFile} |-> <<>>]
    /\ grant = [d \in Draft |-> None]
    /\ done = {}

Grant(d) ==
    /\ grant[d] = None
    /\ d \notin done
    /\ \E r \in Receipt :
          /\ \A e \in Draft : grant[e] # r
          /\ grant' = [grant EXCEPT ![d] = r]
    /\ UNCHANGED <<ledger, done>>

(* The record goes to its daily file, where it is not yet.                 *)
AppendLine(l) ==
    /\ l \notin ToSet(ledger[DayOf[l]])
    /\ ledger' = [ledger EXCEPT ![DayOf[l]] = Append(@, l)]

(* Registrations of the given paths, with whatever hashes, in order.       *)
AppendSources(paths) ==
    LET old == ledger[SourcesFile]
        new == SubSeq(ledger'[SourcesFile], Len(old) + 1, Len(ledger'[SourcesFile])) IN
    /\ Len(new) = Len(paths)
    /\ \A i \in DOMAIN paths : new[i].path = paths[i]
    /\ ledger' = [ledger EXCEPT ![SourcesFile] = old \o new]

DraftAppends(d) ==
    /\ grant[d] # None
    /\ d \notin done
    /\ \/ AppendLine(LineOf[d])
       \/ AppendSources(Registers[d])
    /\ UNCHANGED <<grant, done>>

AdminAppends ==
    /\ \/ \E l \in AdminLine : AppendLine(l)
       \/ \E q \in AdminPath : AppendSources(<<q>>)
    /\ UNCHANGED <<grant, done>>

Close(d) ==
    /\ grant[d] # None
    /\ LineOf[d] \in ToSet(ledger[DayOf[LineOf[d]]])
    /\ done' = done \cup {d}
    /\ UNCHANGED <<ledger, grant>>

Next == AdminAppends \/ \E d \in Draft : Grant(d) \/ DraftAppends(d) \/ Close(d)

Spec == Init /\ [][Next]_vars
=============================================================================
