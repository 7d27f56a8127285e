---- MODULE MCQueryCache ----
(* Model checking of QueryCache on small instances. *)
EXTENDS QueryCache
====
