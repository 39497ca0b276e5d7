----------------------------- MODULE MCVoteRound -----------------------------
(* VoteRound with four agents: every reputation up to MaxScore, every vote. *)
EXTENDS VoteRound

CONSTANTS a1, a2, a3, a4
==============================================================================
