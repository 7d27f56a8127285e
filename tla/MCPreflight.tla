---------------------------- MODULE MCPreflight ----------------------------
(* Preflight with the errors that a contract write may meet. *)
EXTENDS Preflight

MCWords == {{}, {"reverted", "funds"}, {"reverted", "balance"}, {"allowance", "params"}}
           \union {{w} : w \in Words}
MCNode == [class : Classes, says : MCWords]
MCThrown == {<<n>> : n \in MCNode} \union {<<n, m>> : n, m \in MCNode}

MCPreflightSpec == PreflightInit /\ [][PreflightNext]_preflightVars
=============================================================================
