----------------------------- MODULE MCCheckout -----------------------------
(* Checkout for TLC. *)
EXTENDS Checkout

=============================================================================
