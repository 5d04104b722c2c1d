----------------------------- MODULE MCAiUsage -----------------------------
(* AiUsage for TLC. *)
EXTENDS AiUsage

CONSTANTS assessment, turn

OneOfEach == [k \in Keys |-> IF k = turn THEN "turn" ELSE "product"]
=============================================================================
