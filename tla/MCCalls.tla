------------------------------ MODULE MCCalls ------------------------------
(***************************************************************************)
(* What stands between an application and the chain: for reads the query   *)
(* cache, the batcher, the circuit breaker and the transport, for writes   *)
(* the preflight and the fees.  They share no state in the program, so a   *)
(* behaviour is one of a single part while the others stay where they      *)
(* begin: TLC explores the sum of the state spaces, not their product.     *)
(***************************************************************************)
EXTENDS QueryCache, RpcGuards, ReadBatch, MCPreflight, Fees

VARIABLE part  \* the part this behaviour is about

readVars == <<breakerVars, transportVars, batchVars>>
writeVars == <<preflightVars, feeVars>>
mcVars == <<part, vars, readVars, writeVars>>

(* The caller sets no fee, or some of the three; with a policy for the slow, so
   that tips are rounded, or the fast. *)
MCOverrides ==
    LET offers == {[gasPrice |-> p, maxFeePerGas |-> m, maxPriorityFeePerGas |-> t] :
                     p, m \in {Unset, 3}, t \in {Unset, 2, 9}}
    IN [type : {Unset, "legacy", "eip2930", "eip1559"}, offer : offers]
MCPolicies ==
    [txType : {Unset, "legacy", "eip1559"}, speed : {"slow", "fast"},
     maxFeePerGas : {Unset, 2}, maxPriorityFeePerGas : {Unset, 3}]

(* A part that rests has one initial state. *)
WriteAtRest ==
    /\ part # "preflight" => mode = "none" /\ explicitGas = NoGas
    /\ part # "fees" =>
         /\ override = [type |-> Unset, offer |-> NoOffer] /\ hasBaseFee = TRUE
         /\ policy = [txType |-> Unset, speed |-> "slow",
                      maxFeePerGas |-> Unset, maxPriorityFeePerGas |-> Unset]

MCInit ==
    /\ part \in {"query", "breaker", "transport", "batch", "preflight", "fees"}
    /\ Init /\ BreakerInit /\ TransportInit /\ BatchInit
    /\ part # "batch" => Cardinality({keyFor[r] : r \in Requests} \union AccountKeys) = 1
    /\ WriteAtRest /\ PreflightInit /\ FeesInit
    \* The speed changes what the library offers, not what the caller does.
    /\ override.offer # NoOffer => policy.speed = "slow"

QueryPart(A) == part = "query" /\ A /\ UNCHANGED <<part, readVars, writeVars>>

Reads == UNCHANGED <<part, vars, writeVars>>
BreakerPart(A) == part = "breaker" /\ A /\ Reads /\ UNCHANGED <<transportVars, batchVars>>
TransportPart == part = "transport" /\ TransportNext /\ Reads /\ UNCHANGED <<breakerVars, batchVars>>
BatchPart == part = "batch" /\ BatchNext /\ Reads /\ UNCHANGED <<breakerVars, transportVars>>

Writes == UNCHANGED <<part, vars, readVars>>
PreflightPart == part = "preflight" /\ PreflightNext /\ Writes /\ UNCHANGED feeVars
FeesPart == part = "fees" /\ FeesNext /\ Writes /\ UNCHANGED preflightVars

MCNext ==
    \/ QueryPart(Next) \/ BreakerPart(BreakerNext) \/ TransportPart \/ BatchPart
    \/ PreflightPart \/ FeesPart

(* The fairness of each module's specification, for the part it is about. *)
MCFairness ==
    /\ \A r \in Readers : WF_mcVars(QueryPart(ReaderStep(r)))
    /\ WF_mcVars(BreakerPart(BreakerTick))
    /\ \A c \in GuardCallers :
         WF_mcVars(BreakerPart(execute(c))) /\ SF_mcVars(BreakerPart(Answered(c)))

MCSpec == MCInit /\ [][MCNext]_mcVars /\ MCFairness
=============================================================================
