---------------------------- MODULE MCTokenLedger ----------------------------
(* TokenLedger with three agents and a supply small enough to run out. *)
EXTENDS TokenLedger

CONSTANTS a1, a2, a3, r1, treasury

Order == <<a1, a2, a3>>
==============================================================================
