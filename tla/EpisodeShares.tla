----------------------------- MODULE EpisodeShares -----------------------------
(***************************************************************************)
(* Who trains on which episode: split_episodes                              *)
(* (crates/pyroboframes-core/src/split.rs) and, over the ranks of a         *)
(* distributed run, DistributedSampler and shard_episodes                   *)
(* (python/pyroboframes/distributed.py).  A seeded draw is any draw; ranks  *)
(* that shuffle with one seed and epoch shuffle alike.                      *)
(***************************************************************************)
EXTENDS Integers, Sequences, FiniteSets

CONSTANTS
    Plans   \* records [kind, episodes, ranks, val_percent, shuffle, drop_last]

SharesAssumption ==
    \A p \in Plans : /\ p.kind \in {"split", "sampler", "round_robin"}
                     /\ p.episodes \in Nat /\ p.ranks \in Nat \ {0}
                     /\ p.val_percent \in Int

VARIABLES
    plan, order,
    left,      \* the shuffle has still to place the positions 0 .. left
    shares     \* shares[r]: what rank r got; of a split, 0 is train and 1 val

sharesVars == <<plan, order, left, shares>>

Identity(n) == [k \in 1 .. n |-> k - 1]
Shuffled == plan.kind = "split" \/ (plan.kind = "sampler" /\ plan.shuffle)

Init ==
    /\ plan \in Plans
    /\ order = Identity(plan.episodes)
    /\ left = plan.episodes - 1
    /\ shares = <<>>

(* Fisher-Yates, from the end; numpy's shuffle is one as well. *)
Shuffle ==
    /\ Shuffled /\ left >= 1
    /\ \E j \in 0 .. left :
          order' = [order EXCEPT ![left + 1] = order[j + 1], ![j + 1] = order[left + 1]]
    /\ left' = left - 1
    /\ UNCHANGED <<plan, shares>>

Ready == ~Shuffled \/ left < 1

(* sort_unstable: each number at the place of how many are not behind it. *)
Sorted(s) ==
    LET place(k) == Cardinality({j \in DOMAIN s : s[j] < s[k] \/ (s[j] = s[k] /\ j <= k)})
    IN  [n \in DOMAIN s |-> s[CHOOSE k \in DOMAIN s : place(k) = n]]

Clamp(x, low, high) == IF x < low THEN low ELSE IF x > high THEN high ELSE x

(* The fraction is clamped, the number of episodes rounded half up. *)
ValCount == (plan.episodes * Clamp(plan.val_percent, 0, 100) * 2 + 100) \div 200

split_episodes ==
    /\ plan.kind = "split" /\ Ready /\ shares = <<>>
    /\ shares' = [r \in {0, 1} |->
                      Sorted(IF r = 0 THEN SubSeq(order, ValCount + 1, plan.episodes)
                             ELSE SubSeq(order, 1, ValCount))]
    /\ UNCHANGED <<plan, order, left>>

CeilDiv(a, b) == -((-a) \div b)

(* Mutant: with drop_last the share is rounded up all the same. *)
num_samples_up == CeilDiv(plan.episodes, plan.ranks)

num_samples ==
    IF plan.drop_last /\ plan.episodes % plan.ranks # 0
    THEN CeilDiv(plan.episodes - plan.ranks, plan.ranks)
    ELSE CeilDiv(plan.episodes, plan.ranks)
total_size == num_samples * plan.ranks

(* Padded with episodes from the front, around if need be, or cut. *)
Padded ==
    [k \in 1 .. total_size |->
        IF k <= plan.episodes THEN order[k] ELSE order[((k - plan.episodes - 1) % plan.episodes) + 1]]

(* Rank r has its share. *)
Given(r, share) == [q \in DOMAIN shares \cup {r} |-> IF q = r THEN share ELSE shares[q]]

(* DistributedSampler.__iter__ of one rank; the ranks come in any order. *)
SampleRank(r) ==
    /\ plan.kind = "sampler" /\ Ready /\ r \notin DOMAIN shares
    /\ shares' = Given(r, SubSeq(Padded, r * num_samples + 1, (r + 1) * num_samples))
    /\ UNCHANGED <<plan, order, left>>

(* range(first, last, step) of positive numbers. *)
Stride(first, last, step) == [k \in 1 .. CeilDiv(last - first, step) |-> first + (k - 1) * step]

shard_episodes(r) ==
    /\ plan.kind = "round_robin" /\ r \notin DOMAIN shares
    /\ shares' = Given(r, Stride(r, plan.episodes, plan.ranks))
    /\ UNCHANGED <<plan, order, left>>

Next == Shuffle \/ split_episodes
        \/ \E r \in 0 .. plan.ranks - 1 : SampleRank(r) \/ shard_episodes(r)
-----------------------------------------------------------------------------
Times(e) == Cardinality({at \in (DOMAIN shares) \X (1 .. 2 * plan.episodes) :
                            at[2] <= Len(shares[at[1]]) /\ shares[at[1]][at[2]] = e})
Complete ==
    IF plan.kind = "split" THEN shares # <<>> ELSE Cardinality(DOMAIN shares) = plan.ranks

(* "Divides episodes evenly across workers (no overlap)", "split by episode":
   when every rank has its share, no episode is in two, and none is missing,
   but for what drop_last drops - less than one episode per rank - and for the
   padding, which repeats no episode before all have been repeated.  The
   sampler's shares have one length; a split has the fraction asked for, to
   half an episode. *)
SharesCover ==
    Complete =>
        LET E == 0 .. plan.episodes - 1
            padded == plan.kind = "sampler" /\ ~plan.drop_last
            missing == {e \in E : Times(e) = 0}
        IN  /\ ~padded => \A e \in E : Times(e) <= 1
            /\ padded => \A e, f \in E : Times(e) <= Times(f) + 1
            /\ IF plan.kind = "sampler" /\ plan.drop_last
               THEN Cardinality(missing) < plan.ranks ELSE missing = {}
            /\ plan.kind = "sampler" =>
                 \A r, s \in DOMAIN shares : Len(shares[r]) = Len(shares[s])
            /\ plan.kind = "split" /\ plan.val_percent \in 0 .. 100 =>
                 200 * Len(shares[1]) - 2 * plan.val_percent * plan.episodes \in -100 .. 100
=============================================================================
