------------------------------ MODULE Governor ------------------------------
(***************************************************************************)
(* The governor contract (contracts/contracts/governor/src/lib.rs): the    *)
(* admin sets stakes and executors, members propose and vote, and whoever  *)
(* may execute decides when the vote ends: there is no voting period.  An  *)
(* invocation is atomic and a panic undoes it, so checks are guards; a     *)
(* call that returns false without writing changes nothing.                *)
(***************************************************************************)
EXTENDS Naturals, Sequences, FiniteSets, Totals

CONSTANTS Members, GovAdmin,
          Threshold,       \* stake a proposer needs
          VoteStakes,      \* stakes the admin may set
          FeeValues,       \* values a SetFeeBps proposal may carry
          DefaultFee,      \* DEFAULT_FEE_BPS
          MaxProposals     \* bound on the proposals

ASSUME GovernorAssumption ==
    /\ IsFiniteSet(Members) /\ GovAdmin \in Members
    /\ VoteStakes \subseteq Nat /\ Threshold \in Nat /\ MaxProposals \in Nat

VARIABLES proposals,    \* the proposals, in the order of their ids
          voteStake,    \* Stakes
          votes,        \* votes[i][m]: VoteStatus
          weight,       \* history, weight[i][m]: the stake m voted with
          enacted,      \* history: the proposals that passed, in the order of their execution
          feeBps, ammPairs, executors

govVars == <<proposals, voteStake, votes, weight, enacted, feeBps, ammPairs, executors>>

Ids == 1..MaxProposals
Proposal == [proposer : Members, action : {"SetFeeBps", "AddAmmPair"}, value : FeeValues,
             state : {"Pending", "Active", "Defeated", "Executed"},
             for : Nat, against : Nat]

GovTypeOK ==
    /\ proposals \in Seq(Proposal) /\ Len(proposals) <= MaxProposals
    /\ voteStake \in [Members -> Nat]
    /\ votes \in [Ids -> [Members -> {"NotVoted", "For", "Against"}]]
    /\ weight \in [Ids -> [Members -> Nat]]
    /\ enacted \in Seq(Ids)
    /\ feeBps \in FeeValues \cup {DefaultFee} /\ ammPairs \in Nat /\ executors \subseteq Members

(* initialize; a call before it panics.  migrate adds an empty Executors   *)
(* map, which is what an absent one reads as.                              *)
GovInit ==
    /\ proposals = << >>
    /\ voteStake = [m \in Members |-> 0]
    /\ votes = [i \in Ids |-> [m \in Members |-> "NotVoted"]]
    /\ weight = [i \in Ids |-> [m \in Members |-> 0]]
    /\ enacted = << >>
    /\ feeBps = DefaultFee /\ ammPairs = 0 /\ executors = {}

ballotVars == <<proposals, votes, weight, enacted>>

AddExecutor(m) ==
    /\ executors' = executors \cup {m}
    /\ UNCHANGED <<ballotVars, voteStake, feeBps, ammPairs>>

RemoveExecutor(m) ==
    /\ executors' = executors \ {m}
    /\ UNCHANGED <<ballotVars, voteStake, feeBps, ammPairs>>

SetStake(m, amount) ==
    /\ voteStake' = [voteStake EXCEPT ![m] = amount]
    /\ UNCHANGED <<ballotVars, feeBps, ammPairs, executors>>

Propose(m, action, value) ==
    /\ Len(proposals) < MaxProposals
    /\ voteStake[m] >= Threshold
    /\ proposals' = Append(proposals, [proposer |-> m, action |-> action, value |-> value,
                                       state |-> "Pending", for |-> 0, against |-> 0])
    /\ UNCHANGED <<voteStake, votes, weight, enacted, feeBps, ammPairs, executors>>

(* The vote goes on after the decision.                                    *)
AlwaysOpen(i) == TRUE
IsOpenForVotes(i) == proposals[i].state \in {"Pending", "Active"}

CastVote(m, i, support) ==
    /\ IsOpenForVotes(i)
    /\ votes[i][m] = "NotVoted"
    /\ voteStake[m] > 0
    /\ proposals' =
           [proposals EXCEPT ![i].for = IF support THEN @ + voteStake[m] ELSE @,
                             ![i].against = IF support THEN @ ELSE @ + voteStake[m],
                             ![i].state = IF @ = "Pending" THEN "Active" ELSE @]
    /\ votes' = [votes EXCEPT ![i][m] = IF support THEN "For" ELSE "Against"]
    /\ weight' = [weight EXCEPT ![i][m] = voteStake[m]]
    /\ UNCHANGED <<voteStake, enacted, feeBps, ammPairs, executors>>

MayExecute(m, i) == m \in {GovAdmin, proposals[i].proposer} \cup executors

Passed(i) == proposals[i].for > proposals[i].against

Defeat(i) ==
    /\ ~Passed(i)
    /\ proposals' = [proposals EXCEPT ![i].state = "Defeated"]
    /\ UNCHANGED <<feeBps, ammPairs>>

Enact(i) ==
    /\ Passed(i)
    /\ proposals' = [proposals EXCEPT ![i].state = "Executed"]
    /\ feeBps' = IF proposals[i].action = "SetFeeBps" THEN proposals[i].value ELSE feeBps
    /\ ammPairs' = IF proposals[i].action = "AddAmmPair" THEN ammPairs + 1 ELSE ammPairs

Execute(m, i) ==
    /\ MayExecute(m, i)
    /\ proposals[i].state = "Active"
    /\ Defeat(i) \/ Enact(i)
    /\ enacted' = IF Passed(i) THEN Append(enacted, i) ELSE enacted
    /\ UNCHANGED <<voteStake, votes, weight, executors>>

GovNext ==
    \/ \E m \in Members :
          \/ AddExecutor(m) \/ RemoveExecutor(m)
          \/ \E amount \in VoteStakes : SetStake(m, amount)
          \/ \E action \in {"SetFeeBps", "AddAmmPair"}, value \in FeeValues :
                Propose(m, action, value)
          \/ \E i \in DOMAIN proposals :
                Execute(m, i) \/ \E support \in BOOLEAN : CastVote(m, i, support)

GovSpec == GovInit /\ [][GovNext]_govVars

-----------------------------------------------------------------------------
Cast(i, side) == Total(weight[i], {m \in Members : votes[i][m] = side})

Executed == {i \in DOMAIN proposals : proposals[i].state = "Executed"}

(* A tally is the sum of the stakes the ballots were cast with.            *)
TalliesAddUp ==
    \A i \in DOMAIN proposals :
        proposals[i].for = Cast(i, "For") /\ proposals[i].against = Cast(i, "Against")

(* A decided proposal stays on the side its ballots are on.                *)
DecisionsStand ==
    \A i \in DOMAIN proposals :
        /\ i \in Executed => Passed(i)
        /\ proposals[i].state = "Defeated" => ~Passed(i)

(* Each executed proposal took effect once, in the order of execution: the *)
(* pairs are those of the executed proposals and the fee is that of the    *)
(* latest one that sets it.                                                *)
PairsEnacted == {i \in Executed : proposals[i].action = "AddAmmPair"}
FeeTurns == {n \in DOMAIN enacted : proposals[enacted[n]].action = "SetFeeBps"}

EffectsAreEnacted ==
    /\ Executed = {enacted[n] : n \in DOMAIN enacted}
    /\ \A k, n \in DOMAIN enacted : enacted[k] = enacted[n] => k = n
    /\ ammPairs = Cardinality(PairsEnacted)
    /\ FeeTurns = {} => feeBps = DefaultFee
    /\ \A n \in FeeTurns :
          (\A k \in FeeTurns : k <= n) => feeBps = proposals[enacted[n]].value

(* What governance has changed is what its ballots decided, however stakes *)
(* and executors change during and after the votes: tallies add up,        *)
(* decisions stand, and each executed proposal took effect once and in     *)
(* turn.                                                                   *)
EffectsFollowBallots == TalliesAddUp /\ DecisionsStand /\ EffectsAreEnacted
=============================================================================
