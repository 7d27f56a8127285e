------------------------------ MODULE MCPages ------------------------------
(***************************************************************************)
(* What a page shows: a transaction under way, the wallet's account, the   *)
(* results of hooks that run again with other inputs, and whatever runs in *)
(* the runtime of a layer that may change.  A behaviour is one of a single *)
(* part while the others stay where they begin: TLC explores the sum of    *)
(* the state spaces, not their product.                                    *)
(***************************************************************************)
EXTENDS TxTracking, WalletView, HookRuns, PageRuntime

VARIABLE part  \* the part this behaviour is about

mcVars == <<part, vars, viewVars, runVars, pageVars>>

MCInit ==
    /\ part \in {"tx", "wallet", "memo", "execution", "runtime"}
    /\ Init /\ WalletInit /\ MemoInit /\ ExecutionInit /\ PageInit
    \* A part that rests has one initial state.
    /\ part # "memo" => hook = "memo"
    /\ part # "execution" => safes = {} /\ probing
    /\ part # "runtime" => providerKind = "async"
    /\ \A s, t \in safes : s = t

TxPart(A) == part = "tx" /\ A /\ UNCHANGED <<part, viewVars, runVars, pageVars>>
WalletPart == part = "wallet" /\ WalletNext /\ UNCHANGED <<part, vars, runVars, pageVars>>
MemoPart == part = "memo" /\ MemoNext /\ UNCHANGED <<part, vars, viewVars, executionVars, pageVars>>
ExecutionPart ==
    part = "execution" /\ ExecutionNext /\ UNCHANGED <<part, vars, viewVars, memoVars, pageVars>>
RuntimePart(A) == part = "runtime" /\ A /\ UNCHANGED <<part, vars, viewVars, runVars>>

MCNext == TxPart(Next) \/ WalletPart \/ MemoPart \/ ExecutionPart \/ RuntimePart(PageNext)

(* The fairness of each module's specification, for the part it is about. *)
MCFairness ==
    /\ WF_mcVars(TxPart(RunStep)) /\ WF_mcVars(TxPart(CloseStep))
    /\ \A n \in Mounts : WF_mcVars(RuntimePart(PageStep(n)))

MCSpec == MCInit /\ [][MCNext]_mcVars /\ MCFairness
=============================================================================
