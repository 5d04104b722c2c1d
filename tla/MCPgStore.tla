------------------------------ MODULE MCPgStore ------------------------------
(* PgStore for TLC. *)
EXTENDS PgStore

==============================================================================
