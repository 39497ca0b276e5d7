---------------------------- MODULE ReplicatedLog ----------------------------
(***************************************************************************)
(* What the chains promise while one agent proposes: there is one log of   *)
(* decisions, its leader decides each proposal at most once, and every     *)
(* other node learns the same decisions in the same order.                 *)
(***************************************************************************)
EXTENDS Naturals, Sequences

CONSTANTS
    Node,
    Leader,         \* the node that decides, one of Node
    Proposal,
    Outcome

VARIABLE log        \* the decisions each node knows, oldest first

Entry == [proposal : Proposal, status : Outcome]

Init == log = [n \in Node |-> <<>>]

Undecided(p) == \A i \in DOMAIN log[Leader] : log[Leader][i].proposal # p

Decide ==
    \E e \in Entry :
        /\ Undecided(e.proposal)
        /\ log' = [log EXCEPT ![Leader] = Append(@, e)]

Learn(n) ==
    /\ n # Leader
    /\ Len(log[n]) < Len(log[Leader])
    /\ log' = [log EXCEPT ![n] = Append(@, log[Leader][Len(@) + 1])]

Next == Decide \/ \E n \in Node : Learn(n)

Spec == Init /\ [][Next]_log

-----------------------------------------------------------------------------
TypeOK == log \in [Node -> Seq(Entry)]

\* Every node knows an initial part of what the leader has decided.
Prefix ==
    \A n \in Node :
        /\ Len(log[n]) <= Len(log[Leader])
        /\ \A i \in DOMAIN log[n] : log[n][i] = log[Leader][i]

\* No log holds two decisions on one proposal.
DecidedOnce ==
    \A n \in Node : \A i, j \in DOMAIN log[n] :
        log[n][i].proposal = log[n][j].proposal => i = j
==============================================================================
