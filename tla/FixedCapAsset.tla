---------------------------- MODULE FixedCapAsset ----------------------------
(***************************************************************************)
(* What $FURGE promises its holders: units exist up to a cap, are issued   *)
(* to somebody, and otherwise only change hands, at the cost of one payer. *)
(***************************************************************************)
EXTENDS Integers, Functions

CONSTANTS
    Holder,
    Cap

VARIABLES
    holdings,       \* the units each holder has
    issued          \* the units issued so far

assetVars == <<holdings, issued>>

Total(h) == SumFunction(h)

Init ==
    /\ holdings = [a \in Holder |-> 0]
    /\ issued = 0

\* Nobody but the payer has less after the step.
OnlyPays(payer) == \A a \in Holder \ {payer} : holdings'[a] >= holdings[a]

\* New units go to the holders, and the cap holds.
Issue ==
    /\ holdings' \in [Holder -> Nat]
    /\ \A a \in Holder : holdings'[a] >= holdings[a]
    /\ issued' = issued + (Total(holdings') - Total(holdings))
    /\ issued' <= Cap

\* What the payer spends the others receive.
Pay ==
    /\ holdings' \in [Holder -> Nat]
    /\ \E payer \in Holder : OnlyPays(payer)
    /\ Total(holdings') = Total(holdings)
    /\ UNCHANGED issued

Next == Issue \/ Pay

Spec == Init /\ [][Next]_assetVars
==============================================================================
