---------------------------- MODULE MCLocalNetwork ----------------------------
(* LocalNetwork with three nodes: what the clients ask for. *)
EXTENDS LocalNetwork

CONSTANTS n1, n2, n3, c1, c2, c3, treasury

Proposals == Call \X Lane

Nodes == <<n1, n2, n3>>

\* Everybody supports, or the vote turns the proposal down.
Votes == { [a \in Agent |-> "support"],
           [a \in Agent |-> IF a = n3 THEN "support" ELSE "reject"] }

TransferRequest(from, nonce) ==
    [kind |-> "transfer", from |-> from, to |-> n3, amount |-> 4, nonce |-> nonce]

BridgeRequest(from, amount) == [kind |-> "bridge", from |-> from, amount |-> amount]

ProposalRequest == [kind |-> "proposal"]

\* A transfer is asked for twice, and its payer cannot pay for the bridge run too.
Contended ==
    [c \in Call |-> IF c = c3 THEN BridgeRequest(n2, 6) ELSE TransferRequest(n2, 0)]

\* Bridge runs for which the payer can pay.
BridgeRuns == [c \in Call |-> BridgeRequest(n2, 3)]

\* One call of each kind; a payer cannot pay for both the transfer and the run.
EveryKind ==
    [c \in Call |-> CASE c = c1 -> ProposalRequest
                      [] c = c2 -> TransferRequest(n2, 0)
                      [] c = c3 -> BridgeRequest(n2, 6)]

\* A proposal, and a transfer from the coordinator.
CoordinatorPays ==
    [c \in Call |-> IF c = c1 THEN ProposalRequest ELSE TransferRequest(n1, 0)]

\* A scenario: the calls made, whether there is Redis, and the bounds.
Bounded(r, calls, redis, active, ends, n) ==
    [ request |-> [c \in calls |-> r[c]], redis |-> redis, active |-> active,
      crashes |-> ends, resets |-> n ]

\* Two calls that contend, with a restart; one call at a time, with two restarts or
\* with a restart and a reset; two calls that overlap a reset.
AllScenarios ==
    { Bounded(Contended, Call, FALSE, 2, 1, 0),
      Bounded(EveryKind, Call, FALSE, 1, 2, 0),
      Bounded(EveryKind, {c2, c3}, TRUE, 1, 1, 1),
      Bounded(Contended, {c1, c3}, TRUE, 2, 0, 1) }

SpentByCoordinator == {Bounded(CoordinatorPays, Call, TRUE, 1, 0, 0)}

RunsAndRestart == {Bounded(BridgeRuns, Call, TRUE, 1, 1, 0)}
===============================================================================
