--------------------------- MODULE MCFactoryWorker ---------------------------
(* An instance of FactoryWorker small enough for TLC. *)
EXTENDS FactoryWorker

MCMaxAttempts == [t \in Tasks |-> 3]
=============================================================================
