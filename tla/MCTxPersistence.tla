---- MODULE MCTxPersistence ----
(* Model checking of TxPersistence on small instances. *)
EXTENDS TxPersistence
====
