------------------------------ MODULE MCFlows ------------------------------
(***************************************************************************)
(* The ways a user's request takes outside writeAndTrack: the machines     *)
(* that a form or a page drives, the server's cache and rate limit,        *)
(* transactions that go through a Safe, a Solana cluster, or several calls *)
(* of the contract writer, and what is made of a wallet's refusal.  They   *)
(* share no state in the program, so a behaviour is one of a single part   *)
(* while the others stay where they begin: TLC explores the sum of the     *)
(* state spaces, not their product.                                        *)
(***************************************************************************)
EXTENDS Workflows, NextServer, SafeTracking, SolanaConfirm, Submissions, Rejections

VARIABLE part  \* the part this behaviour is about

mcVars == <<part, workflowVars, serverVars, safeVars, solVars, submitVars, rejectVars>>

(* A part that rests has one initial state.  At "processed", where the most
   can happen to a transaction, a batch is confirmed one by one. *)
AtRest ==
    /\ part # "persistent" => entry = NoEntry /\ \A r \in Reqs : policy[r] = "fail-open"
    /\ part # "safe" => infoCached = FALSE
    /\ part # "solana" => sequential = TRUE /\ commitment = "confirmed"
    /\ commitment = "processed" => sequential = TRUE
    /\ part # "ensure" => zeroFirst = TRUE /\ strict = TRUE /\ granted = 0
    /\ part # "allow" => strategy = "require" /\ multiSend = TRUE
    /\ part # "delegate" => givenNonce = -1 /\ accountNonce = 0

(* The errors of the refusals, Errs being 1..3: the first two may hold the
   third twice, the second may be a Cause, and the third may close a cycle. *)
ErrorGraphs ==
    IF part # "refusal"
      THEN /\ kind = [e \in Errs |-> "error"] /\ mark = [e \in Errs |-> "plain"]
           /\ cause = [e \in Errs |-> NoErr] /\ others = [e \in Errs |-> {}]
      ELSE /\ kind \in {[e \in Errs |-> IF e = 2 THEN k ELSE "error"] : k \in {"error", "Cause"}}
           /\ mark \in {<<m1, m2, m3>> : m1, m2 \in Marks, m3 \in {"plain", "rejected", "nonce"}}
           /\ cause \in {<<c1, c2, c3>> : c1 \in {NoErr, 2, 3}, c2 \in {NoErr, 1, 3}, c3 \in {NoErr, 1}}
           /\ others \in {<<o1, o2, {}>> : o1, o2 \in {{}, {3}}}

MCInit ==
    /\ part \in {"tx", "form", "facilitator", "persistent", "limit", "safe", "solana",
                 "ensure", "allow", "delegate", "deploy", "refusal"}
    /\ TxMachineInit /\ FormMachineInit /\ FacilitatorInit
    /\ wall = 0 /\ CacheInit /\ LimitInit
    /\ SafeInit /\ SolInit
    /\ EnsureInit /\ AllowInit /\ DelegateInit /\ DeployInit
    /\ AtRest
    /\ ErrorGraphs /\ RejectInit

Workflow == UNCHANGED <<part, serverVars, safeVars, solVars, submitVars, rejectVars>>
Server == UNCHANGED <<part, workflowVars, safeVars, solVars, submitVars, rejectVars>>
Submission == UNCHANGED <<part, workflowVars, serverVars, safeVars, solVars, rejectVars>>

TxPart == part = "tx" /\ TxMachineNext /\ Workflow /\ UNCHANGED <<formVars, facVars>>
FormPart == part = "form" /\ FormMachineNext /\ Workflow /\ UNCHANGED <<txVars, facVars>>
FacPart == part = "facilitator" /\ FacilitatorNext /\ Workflow /\ UNCHANGED <<txVars, formVars>>

PersistentPart(A) == part = "persistent" /\ A /\ Server /\ UNCHANGED <<wall, limitVars>>
LimitPart == part = "limit" /\ LimitNext /\ Server /\ UNCHANGED <<wall, persistentVars>>
TimePasses ==
    part \in {"persistent", "limit"} /\ WallTick /\ Server /\ UNCHANGED <<persistentVars, limitVars>>

SafePart(A) == part = "safe" /\ A /\ UNCHANGED <<part, workflowVars, serverVars, solVars, submitVars, rejectVars>>
SolanaPart(A) == part = "solana" /\ A /\ UNCHANGED <<part, workflowVars, serverVars, safeVars, submitVars, rejectVars>>

EnsurePart == part = "ensure" /\ EnsureNext /\ Submission /\ UNCHANGED <<allowVars, delegateVars, deployVars>>
AllowPart == part = "allow" /\ AllowNext /\ Submission /\ UNCHANGED <<ensureVars, delegateVars, deployVars>>
DelegatePart == part = "delegate" /\ DelegateNext /\ Submission /\ UNCHANGED <<ensureVars, allowVars, deployVars>>
DeployPart == part = "deploy" /\ DeployNext /\ Submission /\ UNCHANGED <<ensureVars, allowVars, delegateVars>>

RefusalPart ==
    /\ part = "refusal" /\ RejectNext
    /\ UNCHANGED <<part, workflowVars, serverVars, safeVars, solVars, submitVars>>

MCNext ==
    \/ TxPart \/ FormPart \/ FacPart
    \/ PersistentPart(CacheNext) \/ LimitPart \/ TimePasses
    \/ SafePart(SafeNext) \/ SolanaPart(SolNext)
    \/ EnsurePart \/ AllowPart \/ DelegatePart \/ DeployPart
    \/ RefusalPart

(* The fairness of each module's specification, for the part it is about. *)
MCFairness ==
    /\ \A r \in Reqs : WF_mcVars(PersistentPart(CacheServes(r)))
    /\ WF_mcVars(SafePart(SafeRunStep)) /\ WF_mcVars(SafePart(SafeMirrorStep))
    /\ \A t \in Txs : WF_mcVars(SolanaPart(ConfirmTimeout(t)))

MCSpec == MCInit /\ [][MCNext]_mcVars /\ MCFairness
=============================================================================
