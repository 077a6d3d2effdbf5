-------------------------- MODULE MCConnectionManager --------------------------
(* Small instances of the SSH transport for TLC.                            *)
EXTENDS ConnectionManager

Sessions == {"session"}
Queries == {"query"}
SessionsAndQueries == {"session", "query"}

===============================================================================
