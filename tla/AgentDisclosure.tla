--------------------------- MODULE AgentDisclosure ---------------------------
(***************************************************************************)
(* The explanation a user sees before any governed agent exists            *)
(* (governance/agent_creation.py): what one disclosure must contain, the   *)
(* scope a batch of agent packets really asks for, and when the two agree. *)
(*                                                                         *)
(* Texts are members of sets; that they are non-empty and short, and the   *)
(* schema version, is data checking and left out.                          *)
(***************************************************************************)
EXTENDS Naturals, FiniteSets, Sequences

MaxAgents == 16
MaxTokens == 100000000
MaxMinutes == 100000

(* Actions of a packet that write (scope_policy.py WRITE_ACTIONS).         *)
WriteActions == {"edit_derived_artifact", "rebuild_derived_index", "repair_index"}

(* An estimate [minimum, likely, maximum], in order and bounded.           *)
OrderedRange(r, ceiling) ==
    /\ r.minimum <= r.likely
    /\ r.likely <= r.maximum
    /\ r.maximum <= ceiling

(* A disclosure for the given number of agents.  Its tasks are distinct,   *)
(* one for each agent; it says that a model runs.                          *)
ValidDisclosure(d, agents) ==
    /\ d.agents \in 1..MaxAgents
    /\ d.agents = agents
    /\ Cardinality(d.tasks) = d.agents
    /\ d.model
    /\ OrderedRange(d.tokens, MaxTokens)
    /\ OrderedRange(d.minutes, MaxMinutes)

(* What the packets together may touch.                                    *)
RequestedScope(packets) ==
    [paths   |-> UNION {p.paths : p \in packets},
     network |-> \E p \in packets : p.network,
     writes  |-> \E p \in packets : p.actions \cap WriteActions # {}]

(* The disclosure names that scope, neither less nor more.                 *)
Discloses(d, scope) ==
    /\ d.paths = scope.paths
    /\ d.network = scope.network
    /\ d.writes = scope.writes

(* No issue is found in a batch: each packet carries the same valid        *)
(* disclosure and the opt-in, and all share one approval reference.        *)
PacketsDisclosed(packets, agents) ==
    /\ packets # {}
    /\ \A p \in packets :
         /\ ValidDisclosure(p.disclosure, agents)
         /\ p.refs # {}
         /\ "agent_creation" \in p.optIns
         /\ Discloses(p.disclosure, RequestedScope(packets))
    /\ \A p, q \in packets : p.disclosure = q.disclosure
    /\ \E r \in UNION {p.refs : p \in packets} : \A p \in packets : r \in p.refs
=============================================================================
