-------------------------- MODULE MCPersistenceHost --------------------------
(* Instances of PersistenceHost for the model checker.                       *)
EXTENDS PersistenceHost, TLC
=============================================================================
