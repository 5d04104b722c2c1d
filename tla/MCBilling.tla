------------------------------ MODULE MCBilling -----------------------------
(* Billing for TLC. *)
EXTENDS Billing

=============================================================================
