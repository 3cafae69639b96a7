------------------------------ MODULE MCBroker -------------------------------
(* Three brokers on the same paths; they are interchangeable.              *)
EXTENDS Broker, TLC

Interchangeable == Permutations(Brokers)
=============================================================================
