----------------------------- MODULE Preflight -----------------------------
(***************************************************************************)
(* A contract write up to the wallet: gas is estimated and the call is     *)
(* simulated before it is sent (contract/pipeline/internal/prepare.ts),    *)
(* each may throw, what was thrown becomes one of the library's errors     *)
(* (core/errors/viem-mapper.ts, execution-failure.ts), and of that the     *)
(* user is told a category (core/errors/user-facing.ts).                   *)
(*                                                                         *)
(* Outside the code are viem and the provider: what they throw is an error *)
(* and perhaps its cause, each of a class of viem's and saying some words. *)
(***************************************************************************)
EXTENDS Integers, Sequences

CONSTANTS
    Thrown,      \* the errors that may be thrown: sequences of nodes
    Estimates,   \* gas that may be estimated
    Multipliers, \* gasLimitMultiplier in basis points; those below 0 are invalid
    ExplicitGas, \* gas the caller may set
    NoGas

(* "core" is viem's BaseError, and so are "execution", the error that viem makes
   of any failure of a contract call, "revert" and "funds", a sender without
   the funds for gas and value. *)
Classes == {"plain", "core", "execution", "revert", "funds"}
isCore(node) == node.class # "plain"

(* What a message can say: that the user declined; "insufficient funds" or
   "insufficient balance"; that some amount "exceeds balance"; that memory is
   short; that a raw transaction cannot be decoded; that the execution reverted,
   the rest then being the reason; gas required exceeds allowance; missing or
   invalid parameters. *)
Words == {"declined", "funds", "balance", "memory", "undecodable", "reverted", "allowance", "params"}
Node == [class : Classes, says : SUBSET Words]

ASSUME PreflightAssumption ==
    /\ \A e \in Thrown : Len(e) \in 1..2 /\ \A k \in 1..Len(e) : e[k] \in Node
    /\ Estimates \subseteq Nat /\ Multipliers \subseteq Int
    /\ ExplicitGas \subseteq Nat /\ NoGas \notin Nat

VARIABLES
    mode,        \* of the preflight
    explicitGas, multiplier,
    writeAt,     \* "estimate", "simulate", "write", then "sent" or "failed"
    finalGas,    \* the gas of the simulation and of the write
    estimated,   \* history: what was estimated
    warning,     \* history: what the error that the preflight went on after was
                 \* besides a failed call, "no" without a warning
    thrown,      \* the error that ended the write
    failedAt     \* where it was thrown

preflightVars ==
    <<mode, explicitGas, multiplier, writeAt, finalGas, estimated, warning, thrown, failedAt>>

----------------------------------------------------------------------------
(* How an error is read. *)

(* All that an error says, itself or by its cause. *)
wordsOf(e) == UNION {e[k].says : k \in DOMAIN e}

says(e, word) == \E k \in DOMAIN e : word \in e[k].says
hasClass(e, class) == \E k \in DOMAIN e : e[k].class = class

reverted(node) == node.class = "revert" \/ "reverted" \in node.says
decodeExecutionFailure(e) == \E k \in DOMAIN e : reverted(e[k])

isUserRejection(e) == says(e, "declined")

(* Only viem's errors are searched for the class; of the words only the outermost
   error's count, and none of a revert's do. *)
isInsufficientFunds(e) ==
    \/ isCore(e[1]) /\ hasClass(e, "funds")
    \/ e[1].says \intersect {"funds", "balance"} # {} /\ ~decodeExecutionFailure(e)

(* Mutant: the words of a revert count as well. *)
isInsufficientFundsAny(e) ==
    (isCore(e[1]) /\ hasClass(e, "funds")) \/ e[1].says \intersect {"funds", "balance"} # {}

isResourceExhaustion(e) ==
    "memory" \in e[1].says \/ (isCore(e[1]) /\ "memory" \in e[Len(e)].says)

isRawTransactionDecodingError(e) == says(e, "undecodable")

(* The first that says it reverted gives the reason, but a revert inside an error
   of viem's comes before all, and one without a reason leaves it to the next. *)
executionFailureReason(e) ==
    LET order == IF Len(e) = 2 /\ isCore(e[1]) /\ e[2].class = "revert" THEN <<e[2], e[1]>> ELSE e
        gives(node) == reverted(node) /\ ~(node.class = "revert" /\ node.says = {})
        giving == {k \in DOMAIN order : gives(order[k])}
    IN IF giving = {} THEN {}
       ELSE order[CHOOSE k \in giving : \A j \in giving : k <= j].says \ {"reverted"}

(* What all three operations look for first. *)
CommonError(e) ==
    IF isUserRejection(e) THEN "UserRejectedError"
    ELSE IF isInsufficientFunds(e) THEN "InsufficientFundsError"
    ELSE IF isResourceExhaustion(e) THEN "ResourceExhaustionError" ELSE "none"

classifyGasEstimationError(e) ==
    IF CommonError(e) # "none" THEN CommonError(e) ELSE "GasEstimationError"

classifyContractError(e) ==
    IF CommonError(e) # "none" THEN CommonError(e)
    ELSE IF e[1].class \in {"execution", "revert"} \/ decodeExecutionFailure(e)
      THEN "SimulationFailedError" ELSE "ContractReadError"

classifyWriteError(e) ==
    IF CommonError(e) # "none" THEN CommonError(e)
    ELSE IF isRawTransactionDecodingError(e) THEN "TransactionSubmissionError"
    ELSE "ContractWriteError"

errorOf(op, e) ==
    CASE op = "estimate" -> classifyGasEstimationError(e)
      [] op = "simulate" -> classifyContractError(e)
      [] op = "write" -> classifyWriteError(e)

(* The words that the library's error, with its causes, still says: a failed
   simulation keeps the reason only.  viem's error about funds says so. *)
getMessageCandidates(op, e) ==
    IF errorOf(op, e) = "SimulationFailedError" THEN executionFailureReason(e)
    ELSE wordsOf(e) \union (IF hasClass(e, "funds") THEN {"funds"} ELSE {})

isInferredInsufficientFundsError(op, e) ==
    "funds" \in getMessageCandidates(op, e) \/ {"allowance", "params"} \subseteq getMessageCandidates(op, e)

(* The category; "retryable" says to try again. *)
toUserFacingTxError(op, e) ==
    LET error == errorOf(op, e)
    IN IF error = "UserRejectedError" THEN "cancelled"
       ELSE IF error = "TransactionSubmissionError" THEN "retryable"
       ELSE IF error = "InsufficientFundsError" \/ isInferredInsufficientFundsError(op, e)
         THEN "insufficient-funds"
       ELSE IF error = "ResourceExhaustionError" THEN "retryable" ELSE "tx-failed"

----------------------------------------------------------------------------
applyGasLimitMultiplier(gas) ==
    IF multiplier < 0 THEN gas ELSE (gas * multiplier) \div 10000

(* Mutant: whatever the simulation throws is a warning. *)
isRecoverableAny(op, e) == op \in {"estimate", "simulate"}

isRecoverablePreflightError(op, e) == errorOf(op, e) \in {"SimulationFailedError", "GasEstimationError"}

PreflightInit ==
    /\ mode \in {"strict", "best-effort", "none"}
    /\ explicitGas \in ExplicitGas \union {NoGas} /\ multiplier \in Multipliers
    /\ writeAt = IF mode = "none" THEN "write" ELSE "estimate"
    /\ finalGas = explicitGas /\ estimated = NoGas
    /\ warning = "no" /\ thrown = <<>> /\ failedAt = "none"

Estimated(gas) ==
    /\ writeAt = "estimate" /\ writeAt' = "simulate"
    /\ finalGas' = IF explicitGas # NoGas THEN explicitGas ELSE applyGasLimitMultiplier(gas)
    /\ estimated' = gas
    /\ UNCHANGED <<mode, explicitGas, multiplier, warning, thrown, failedAt>>

Simulated ==
    /\ writeAt = "simulate" /\ writeAt' = "write"
    /\ UNCHANGED <<mode, explicitGas, multiplier, finalGas, estimated, warning, thrown, failedAt>>

Written ==
    /\ writeAt = "write" /\ writeAt' = "sent"
    /\ UNCHANGED <<mode, explicitGas, multiplier, finalGas, estimated, warning, thrown, failedAt>>

(* A failed preflight ends the write, or in mode best-effort becomes a warning: a
   failed estimate skips the simulation too. *)
GoesOn(e) ==
    mode = "best-effort" /\ writeAt # "write" /\ isRecoverablePreflightError(writeAt, e)

Throws(e) ==
    /\ \/ GoesOn(e) /\ warning' = CommonError(e) /\ writeAt' = "write" /\ UNCHANGED <<thrown, failedAt>>
       \/ ~GoesOn(e) /\ thrown' = e /\ failedAt' = writeAt /\ writeAt' = "failed" /\ UNCHANGED warning
    /\ UNCHANGED <<mode, explicitGas, multiplier, finalGas, estimated>>

PreflightNext ==
    \/ \E gas \in Estimates : Estimated(gas)
    \/ Simulated \/ Written
    \/ writeAt \in {"estimate", "simulate", "write"} /\ \E e \in Thrown : Throws(e)

PreflightSpec == PreflightInit /\ [][PreflightNext]_preflightVars

----------------------------------------------------------------------------
(* A wallet is never asked after the user has declined, the sender proved to lack
   the funds, or memory ran short in the preflight, whatever its mode.  What the
   user is told does not depend on which of the three steps happened to throw the
   error, but for a raw transaction that only a write sends and for the words
   that a failed simulation drops; it is a lack of funds only if some error
   said so, and worth trying again only if the device or the provider was at
   fault.  And the gas of the write is the caller's or follows the estimate. *)
PreflightSound ==
    /\ warning \in {"no", "none"}
    /\ thrown # <<>> =>
         LET told == toUserFacingTxError(failedAt, thrown)
             words == wordsOf(thrown)
         IN /\ \A op \in {"estimate", "simulate", "write"} :
                 \/ toUserFacingTxError(op, thrown) = told
                 \/ "write" \in {op, failedAt} /\ isRawTransactionDecodingError(thrown)
                 \/ "simulate" \in {op, failedAt} /\ classifyContractError(thrown) = "SimulationFailedError"
            /\ told = "insufficient-funds" =>
                 \/ hasClass(thrown, "funds") \/ words \intersect {"funds", "balance"} # {}
                 \/ {"allowance", "params"} \subseteq words
            /\ told = "retryable" => words \intersect {"memory", "undecodable"} # {}
            /\ told = "cancelled" <=> isUserRejection(thrown)
    /\ explicitGas # NoGas => finalGas = explicitGas
    /\ explicitGas = NoGas /\ estimated # NoGas /\ multiplier >= 10000 => finalGas >= estimated
    /\ writeAt = "sent" /\ mode = "strict" => finalGas # NoGas

(* A revert that can be told as one is a failed transaction to the user, wherever
   it is thrown, and not a lack of the native funds that pay for gas: "Token-balance
   reverts belong to contract execution failures, not native gas funding."  The
   code sees to it when it reads the error, but what it then says of it, the
   reason included, is searched for the same words once more. *)
RevertIsNoGasShortage ==
    /\ thrown # <<>>
    /\ decodeExecutionFailure(thrown) /\ CommonError(thrown) = "none"
    /\ ~hasClass(thrown, "funds") /\ ~says(thrown, "params")
    => toUserFacingTxError(failedAt, thrown) # "insufficient-funds"
=============================================================================
