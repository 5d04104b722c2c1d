------------------------- MODULE MCAccountDeletion -------------------------
(* AccountDeletion for TLC. *)
EXTENDS AccountDeletion

=============================================================================
