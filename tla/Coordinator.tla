------------------------------ MODULE Coordinator ------------------------------
(***************************************************************************)
(* Votes and leaders among nodes: DistributedCoordinator of                 *)
(* crates/pyroboframes-core/src/distributed.rs.                             *)
(*                                                                         *)
(* Votes and availabilities are in hundredths, latencies in tens of         *)
(* milliseconds: availability - latency_ms / 1000 is their difference.  The  *)
(* code computes in doubles: sums are taken exactly here, and where the two  *)
(* numbers of a comparison are the same their rounding decides, so either   *)
(* outcome is taken.                                                        *)
(***************************************************************************)
EXTENDS Integers, Sequences, FiniteSets

CONSTANTS
    Nodes, Regions,
    Profiles,     \* what a node may register with: [region, latency, availability]
    Ballots,      \* the votes callers bring: sequences of [node, value]
    quorum_size,
    MaxConsensus  \* bound on the history

CoordinatorAssumption ==
    /\ quorum_size \in Nat
    /\ \A p \in Profiles : p.latency \in Int /\ p.availability \in Int
    /\ \A b \in Ballots : /\ Len(b) \in Nat /\ DOMAIN b = 1 .. Len(b)
                          /\ \A k \in DOMAIN b : b[k].value \in Int

VARIABLES
    nodes,             \* the registered nodes: id -> its profile and `active`
    node_metrics,      \* the nodes whose metrics were updated
    consensus_history

coordinatorVars == <<nodes, node_metrics, consensus_history>>

Init == nodes = <<>> /\ node_metrics = {} /\ consensus_history = <<>>

register_node(n, p, active) ==
    /\ nodes' = [k \in DOMAIN nodes \cup {n} |->
                   IF k = n THEN [profile |-> p, active |-> active] ELSE nodes[k]]
    /\ UNCHANGED <<node_metrics, consensus_history>>

(* mark_node_online, mark_node_offline *)
mark_node(n, active) ==
    /\ n \in DOMAIN nodes
    /\ nodes' = [nodes EXCEPT ![n].active = active]
    /\ UNCHANGED <<node_metrics, consensus_history>>

update_node_metrics(n) ==
    /\ node_metrics' = node_metrics \cup {n}
    /\ UNCHANGED <<nodes, consensus_history>>

(* The votes' sum and n^2 times their variance, about their mean. *)
Total(numbers) ==
    LET sum[k \in 0 .. Len(numbers)] == IF k = 0 THEN 0 ELSE sum[k - 1] + numbers[k]
    IN  sum[Len(numbers)]
Sum(b) == Total([k \in 1 .. Len(b) |-> b[k].value])
Squares(b) == Total([k \in 1 .. Len(b) |->
                       (Len(b) * b[k].value - Sum(b)) * (Len(b) * b[k].value - Sum(b))])

(* Mutant: the variance of a sample, over n - 1. *)
RequiresArbitrationSample(b) ==
    {Len(b) > 1 /\ Squares(b) > 15 * 15 * Len(b) * Len(b) * (Len(b) - 1)}

(* std_dev > 0.15, of the population: over n.  For a deviation of 0.15 itself
   both answers, for its double may be larger: that of 0.50 and 0.80 is.  The
   one of no votes is not a number, and not larger. *)
RequiresArbitration(b) ==
    LET threshold == 15 * 15 * Len(b) * Len(b) * Len(b)
    IN  {answer \in BOOLEAN : /\ answer => b # <<>> /\ Squares(b) >= threshold
                              /\ ~answer => Squares(b) <= threshold}

(* Any votes count towards the quorum, whoever cast them. *)
aggregate_distributed_votes(b) ==
    /\ Len(consensus_history) < MaxConsensus
    /\ \E requires_arbitration \in RequiresArbitration(b) :
         consensus_history' = IF Len(b) < quorum_size THEN consensus_history
           ELSE Append(consensus_history,
                       [votes |-> b, sum |-> Sum(b), arbitration |-> requires_arbitration])
    /\ UNCHANGED <<nodes, node_metrics>>

get_active_nodes == {n \in DOMAIN nodes : nodes[n].active}
get_node_by_region(r) == {n \in get_active_nodes : nodes[n].profile.region = r}
Score(n) == nodes[n].profile.availability - nodes[n].profile.latency

(* elect_leader: one of the best, the order of a HashMap decides. *)
elect_leader ==
    {n \in get_active_nodes : \A m \in get_active_nodes : Score(m) <= Score(n)}

can_reach_quorum == Cardinality(get_active_nodes) >= quorum_size

get_arbitration_cases == SelectSeq(consensus_history, LAMBDA v : v.arbitration)

Next ==
    \/ \E n \in Nodes :
          \/ \E p \in Profiles, active \in BOOLEAN : register_node(n, p, active)
          \/ \E active \in BOOLEAN : mark_node(n, active)
          \/ update_node_metrics(n)
    \/ \E b \in Ballots : aggregate_distributed_votes(b)

Spec == Init /\ [][Next]_coordinatorVars
-----------------------------------------------------------------------------
(* The consensus lies within the votes, of which there is a quorum (that of no
   votes, for a quorum of none, is not a number).  Votes that are all less than
   0.30 apart never go to arbitration, and two camps as large as each other that
   are further apart always do; at 0.30 the rounding decides.  A node leads
   whenever one is active, and no active node of its region has both less latency
   and more availability. *)
ConsensusSound ==
    /\ \A k \in DOMAIN consensus_history :
         LET c == consensus_history[k]
             values == {c.votes[j].value : j \in DOMAIN c.votes}
             camp(x) == Cardinality({j \in DOMAIN c.votes : c.votes[j].value = x})
         IN  /\ Len(c.votes) >= quorum_size
             /\ values # {} => /\ \E v \in values : v * Len(c.votes) <= c.sum
                               /\ \E v \in values : c.sum <= v * Len(c.votes)
             /\ (\A v, w \in values : v - w < 30) => ~c.arbitration
             /\ \A v, w \in values :
                  values = {v, w} /\ camp(v) = camp(w) /\ v - w > 30 => c.arbitration
    /\ get_active_nodes # {} <=> elect_leader # {}
    /\ \A n \in elect_leader : \A m \in get_node_by_region(nodes[n].profile.region) :
          ~(/\ nodes[m].profile.latency < nodes[n].profile.latency
            /\ nodes[m].profile.availability > nodes[n].profile.availability)
=============================================================================
