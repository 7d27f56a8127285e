---------------------------- MODULE Submissions ----------------------------
(***************************************************************************)
(* Calls of the library that bring one or more transactions on their way   *)
(* around the contract writer: ensureAllowance of the two ERC-20 allowance *)
(* services (evm/src/erc20/allowance/core.ts; no-output.ts has the same    *)
(* steps), safeMultisigAllowAndWrite (evm-safe/src/safe/allowance.ts),     *)
(* delegateAndExecuteErc7579Batch (evm/src/eip7702/service.ts) and         *)
(* deployAndTrack (evm/src/deploy/service.ts).                             *)
(*                                                                         *)
(* The chain, the token's spender, the Safe's signers and whoever else     *)
(* sends from the account act between their steps.                         *)
(***************************************************************************)
EXTENDS Integers

CONSTANTS
    Required,    \* required of ensureAllowance
    Approve,     \* approveAmount
    MaxAccountNonce  \* bound on the account's nonce

ASSUME SubmissionsAssumption ==
    Required \in Nat \ {0} /\ Approve \in Nat \ {0} /\ MaxAccountNonce \in Nat \ {0}

----------------------------------------------------------------------------
(* ensureAllowance. *)

VARIABLES
    ensureAt,     \* where the call is
    zeroFirst,    \* its parameter
    strict,       \* the token refuses to change a nonzero allowance to another
    granted,      \* the allowance on chain
    current,      \* currentAllowance, as it was read
    sentAmount,   \* the amount of the approval that was sent last, -1 for none
    receiptOf,    \* what became of it
    prompts,      \* history: transactions the wallet was asked for
    refused       \* history: the wallet, or the node for it, has refused one

ensureVars == <<ensureAt, zeroFirst, strict, granted, current, sentAmount, receiptOf, prompts, refused>>

EnsureEnded == {"sufficient", "approved", "failed"}

EnsureInit ==
    /\ ensureAt = "checking" /\ zeroFirst \in BOOLEAN /\ strict \in BOOLEAN
    /\ granted \in 0..Required /\ current = 0
    /\ sentAmount = -1 /\ receiptOf = "none" /\ prompts = 0 /\ refused = FALSE

checkAllowance ==
    /\ ensureAt = "checking"
    /\ \/ /\ current' = granted
          /\ ensureAt' = IF granted >= Required THEN "sufficient" ELSE "direct"
       \/ ensureAt' = "failed" /\ UNCHANGED current
    /\ UNCHANGED <<zeroFirst, strict, granted, sentAmount, receiptOf, prompts, refused>>

(* Mutant: any failure of the direct approval leads to the reset. *)
AfterFailureAny(errorIs) ==
    IF ensureAt \in {"direct", "directWrite"} /\ zeroFirst /\ current > 0
      THEN "reset" ELSE "failed"

(* Only an approval that could not be simulated is tried over a reset. *)
AfterFailure(errorIs) ==
    IF ensureAt = "direct" /\ errorIs = "ApprovalError" /\ zeroFirst /\ current > 0
      THEN "reset" ELSE "failed"

Amount == IF ensureAt \in {"reset", "resetWrite"} THEN 0 ELSE Approve

(* approve, first half: the simulation says whether the token would take it,
   or fails by itself; some errors mean that the wallet cannot pay for it. *)
simulateApproval ==
    /\ ensureAt \in {"direct", "reset", "final"}
    /\ \/ /\ ~(strict /\ granted > 0 /\ Amount > 0)
          /\ ensureAt' = CASE ensureAt = "direct" -> "directWrite"
                           [] ensureAt = "reset"  -> "resetWrite"
                           [] OTHER               -> "finalWrite"
          /\ UNCHANGED refused
       \/ ensureAt' = AfterFailure("ApprovalError") /\ UNCHANGED refused
       \/ ensureAt' = AfterFailure("InsufficientFundsError") /\ refused' = TRUE
    /\ UNCHANGED <<zeroFirst, strict, granted, current, sentAmount, receiptOf, prompts>>

(* approve, second half: the wallet is asked. *)
writeApproval ==
    /\ ensureAt \in {"directWrite", "resetWrite", "finalWrite"}
    /\ prompts' = prompts + 1
    /\ \/ /\ ensureAt' = IF ensureAt = "resetWrite" THEN "resetWait" ELSE "approved"
          /\ sentAmount' = Amount /\ receiptOf' = "none"
          /\ UNCHANGED refused
       \/ /\ ensureAt' = AfterFailure("UserRejectedError")
          /\ refused' = TRUE
          /\ UNCHANGED <<sentAmount, receiptOf>>
    /\ UNCHANGED <<zeroFirst, strict, granted, current>>

(* waitForReceipt of the reset: reverted, replaced or not there in time end
   the call. *)
resetMined ==
    /\ ensureAt = "resetWait"
    /\ \/ receiptOf = "success" /\ ensureAt' = "final"
       \/ ensureAt' = "failed"
    /\ UNCHANGED <<zeroFirst, strict, granted, current, sentAmount, receiptOf, prompts, refused>>

(* The chain: the approval is mined, or replaced in the wallet; and the
   spender spends. *)
MineApproval ==
    /\ sentAmount >= 0 /\ receiptOf = "none"
    /\ \/ IF strict /\ granted > 0 /\ sentAmount > 0
            THEN receiptOf' = "reverted" /\ UNCHANGED granted
            ELSE \/ receiptOf' = "success" /\ granted' = sentAmount
                 \/ receiptOf' = "reverted" /\ UNCHANGED granted
       \/ receiptOf' = "replaced" /\ UNCHANGED granted
    /\ UNCHANGED <<ensureAt, zeroFirst, strict, current, sentAmount, prompts, refused>>

Spend ==
    /\ granted > 0 /\ granted' = granted - 1
    /\ UNCHANGED <<ensureAt, zeroFirst, strict, current, sentAmount, receiptOf, prompts, refused>>

EnsureNext ==
    \/ checkAllowance \/ simulateApproval \/ writeApproval \/ resetMined
    \/ MineApproval \/ Spend

----------------------------------------------------------------------------
(* safeMultisigAllowAndWrite. *)

VARIABLES
    allowAt,     \* where the call is
    strategy,    \* multiSendStrategy
    multiSend,   \* MultiSend is deployed on the Safe's chain
    proposals    \* history: proposals the Safe has

allowVars == <<allowAt, strategy, multiSend, proposals>>

AllowInit ==
    /\ allowAt = "batching" /\ strategy \in {"require", "fallback"}
    /\ multiSend \in BOOLEAN /\ proposals = {}

(* Mutant: every failed submission falls back. *)
FallsBackAlways(error) == strategy = "fallback"

FallsBack(error) == error = "SafeMultiSendUnavailableError" /\ strategy = "fallback"

(* sendTxs of the batch: without MultiSend it cannot be proposed; otherwise it
   may be, and the call fail all the same, for its answer or for the Safe's
   info that is asked for afterwards. *)
batchWrite ==
    /\ allowAt = "batching"
    /\ \/ /\ multiSend
          /\ \/ allowAt' = "batched" /\ proposals' = {"batch"}
             \/ /\ allowAt' = IF FallsBack("SafeMultisigTxSubmissionError") THEN "approving" ELSE "failed"
                /\ proposals' \in {{}, {"batch"}}
       \/ /\ ~multiSend
          /\ \E error \in {"SafeMultiSendUnavailableError", "SafeMultisigTxSubmissionError"} :
               allowAt' = IF FallsBack(error) THEN "approving" ELSE "failed"
          /\ UNCHANGED proposals
    /\ UNCHANGED <<strategy, multiSend>>

singleWrite ==
    /\ allowAt \in {"approving", "acting"}
    /\ LET one == IF allowAt = "approving" THEN "approve" ELSE "main"
       IN \/ /\ allowAt' = IF one = "approve" THEN "acting" ELSE "fallback"
             /\ proposals' = proposals \union {one}
          \/ /\ allowAt' = "failed"
             /\ proposals' \in {proposals, proposals \union {one}}
    /\ UNCHANGED <<strategy, multiSend>>

AllowNext == batchWrite \/ singleWrite

----------------------------------------------------------------------------
(* delegateAndExecuteErc7579Batch. *)

VARIABLES
    delegateAt,    \* where the call is
    givenNonce,    \* tx.nonce, -1 when it is not given
    authNonce,     \* the nonce of the authorization
    txNonce,       \* the nonce of the transaction that was sent, -1 before that
    accountNonce,  \* the account's next nonce, pending transactions included
    executed,      \* history: the calls of the batch were executed
    crossed        \* history: another transaction of the account came in between

delegateVars == <<delegateAt, givenNonce, authNonce, txNonce, accountNonce, executed, crossed>>

DelegateInit ==
    /\ delegateAt = "preparing" /\ accountNonce \in 0..1
    /\ givenNonce \in {-1} \union 0..MaxAccountNonce
    /\ authNonce = 0 /\ txNonce = -1 /\ executed = FALSE /\ crossed = FALSE

(* The account sends the transaction itself, and so the authorization counts
   one more; when no nonce is given the library counts from the chain's. *)
authorizationNonce == IF givenNonce = -1 THEN accountNonce + 1 ELSE givenNonce + 1

prepareAuthorization ==
    /\ delegateAt = "preparing"
    /\ \/ delegateAt' = "signing" /\ authNonce' = authorizationNonce
       \/ delegateAt' = "failed" /\ UNCHANGED authNonce
    /\ UNCHANGED <<givenNonce, txNonce, accountNonce, executed, crossed>>

signAuthorization ==
    /\ delegateAt = "signing" /\ delegateAt' \in {"sending", "failed"}
    /\ UNCHANGED <<givenNonce, authNonce, txNonce, accountNonce, executed, crossed>>

(* The wallet takes the nonce that is given, or the next one.  A nonce that is
   used already is refused; one ahead of the account's waits for its turn. *)
sendDelegation ==
    /\ delegateAt = "sending"
    /\ \/ /\ givenNonce = -1 \/ givenNonce >= accountNonce
          /\ txNonce' = IF givenNonce = -1 THEN accountNonce ELSE givenNonce
          /\ delegateAt' = "sent"
       \/ delegateAt' = "failed" /\ UNCHANGED txNonce
    /\ UNCHANGED <<givenNonce, authNonce, accountNonce, executed, crossed>>

(* The turn of the transaction: the authorization is good when its nonce is
   the account's after the transaction took its own, and is skipped otherwise;
   the receipt says "success" either way. *)
MineDelegation ==
    /\ delegateAt = "sent" /\ txNonce = accountNonce
    /\ accountNonce' = accountNonce + 1
    /\ executed' = (authNonce = accountNonce + 1)
    /\ delegateAt' \in {"success", "failed"}
    /\ UNCHANGED <<givenNonce, authNonce, txNonce, crossed>>

AnotherTransaction ==
    /\ delegateAt \in {"preparing", "signing", "sending", "sent"}
    /\ accountNonce < MaxAccountNonce /\ accountNonce # txNonce
    /\ accountNonce' = accountNonce + 1
    /\ crossed' = (crossed \/ delegateAt \in {"signing", "sending"})
    /\ UNCHANGED <<delegateAt, givenNonce, authNonce, txNonce, executed>>

DelegateNext ==
    \/ prepareAuthorization \/ signAuthorization \/ sendDelegation
    \/ MineDelegation \/ AnotherTransaction

----------------------------------------------------------------------------
(* deployAndTrack; deploy is the same without a tracker. *)

VARIABLES
    deployAt,       \* where the call is
    tracker,        \* the status in stateRef
    deployReceipt,  \* what the chain says of the transaction
    code            \* there is code at the new address

deployVars == <<deployAt, tracker, deployReceipt, code>>

DeployInit == deployAt = "preparing" /\ tracker = "idle" /\ deployReceipt = "none" /\ code = FALSE

(* The clients and the fees are there; or they, or the account, are not. *)
prepareDeploy ==
    /\ deployAt = "preparing"
    /\ \/ deployAt' = "signing" /\ tracker' = "signing"
       \/ deployAt' = "failed" /\ UNCHANGED tracker
    /\ UNCHANGED <<deployReceipt, code>>

deployContract ==
    /\ deployAt = "signing"
    /\ \/ deployAt' = "waiting" /\ tracker' = "submitted"
       \/ deployAt' = "failed" /\ UNCHANGED tracker
    /\ UNCHANGED <<deployReceipt, code>>

(* Whether anyone still waits or not. *)
MineDeployment ==
    /\ tracker = "submitted" /\ deployReceipt = "none"
    /\ deployReceipt' \in {"success", "reverted", "replaced"}
    /\ code' = (deployReceipt' = "success")
    /\ UNCHANGED <<deployAt, tracker>>

(* A receipt, of a revert too, names the address that was or would have been
   created; the wait may end without one. *)
deployMined ==
    /\ deployAt = "waiting"
    /\ \/ deployReceipt \in {"success", "reverted"} /\ deployAt' = "checking"
       \/ deployAt' = "failed"
    /\ UNCHANGED <<tracker, deployReceipt, code>>

(* getBytecode: a node that lags knows of no code yet, or it does not answer. *)
checkBytecode ==
    /\ deployAt = "checking"
    /\ \/ code /\ deployAt' = "done" /\ tracker' = "mined"
       \/ deployAt' = "failed" /\ UNCHANGED tracker
    /\ UNCHANGED <<deployReceipt, code>>

DeployNext == prepareDeploy \/ deployContract \/ MineDeployment \/ deployMined \/ checkBytecode

----------------------------------------------------------------------------
submitVars == <<ensureVars, allowVars, delegateVars, deployVars>>

SubmissionsInit == EnsureInit /\ AllowInit /\ DelegateInit /\ DeployInit

SubmissionsNext ==
    \/ EnsureNext /\ UNCHANGED <<allowVars, delegateVars, deployVars>>
    \/ AllowNext /\ UNCHANGED <<ensureVars, delegateVars, deployVars>>
    \/ DelegateNext /\ UNCHANGED <<ensureVars, allowVars, deployVars>>
    \/ DeployNext /\ UNCHANGED <<ensureVars, allowVars, delegateVars>>

SubmissionsSpec == SubmissionsInit /\ [][SubmissionsNext]_submitVars

----------------------------------------------------------------------------
SubmissionsTypeOK ==
    /\ ensureAt \in {"checking", "direct", "directWrite", "reset", "resetWrite", "resetWait",
                     "final", "finalWrite"} \union EnsureEnded
    /\ zeroFirst \in BOOLEAN /\ strict \in BOOLEAN /\ refused \in BOOLEAN
    /\ granted \in Nat /\ current \in Nat /\ sentAmount \in {-1, 0, Approve} /\ prompts \in 0..2
    /\ receiptOf \in {"none", "success", "reverted", "replaced"}
    /\ allowAt \in {"batching", "batched", "approving", "acting", "fallback", "failed"}
    /\ strategy \in {"require", "fallback"} /\ multiSend \in BOOLEAN
    /\ proposals \in SUBSET {"batch", "approve", "main"}
    /\ delegateAt \in {"preparing", "signing", "sending", "sent", "success", "failed"}
    /\ givenNonce \in -1..MaxAccountNonce /\ authNonce \in Nat
    /\ txNonce \in -1..MaxAccountNonce /\ accountNonce \in Nat
    /\ executed \in BOOLEAN /\ crossed \in BOOLEAN
    /\ deployAt \in {"preparing", "signing", "waiting", "checking", "done", "failed"}
    /\ tracker \in {"idle", "signing", "submitted", "mined"}
    /\ deployReceipt \in {"none", "success", "reverted", "replaced"} /\ code \in BOOLEAN

(* The user is never asked again once a transaction was refused, and for the
   final approval only when the reset has been mined: the comment in
   ensureAllowance on wallet-level failures, and zeroFirst's on resets. *)
ApprovalAsksInTurn ==
    [][prompts' > prompts =>
         /\ ~refused
         /\ prompts = 1 => sentAmount = 0 /\ receiptOf = "success"]_ensureVars

(* The Safe is given the main transaction once: a batch that may have been
   proposed is not proposed again in parts, and a result names what is there. *)
MainProposedOnce ==
    /\ ~({"batch", "main"} \subseteq proposals)
    /\ "main" \in proposals => "approve" \in proposals
    /\ allowAt = "batched" => proposals = {"batch"}
    /\ allowAt = "fallback" => proposals = {"approve", "main"}

(* When the caller gave the transaction's nonce, or no other transaction of the
   account came between the authorization and the transaction, a successful
   receipt means that the account was delegated and the calls were executed. *)
DelegationExecutes ==
    delegateAt = "success" /\ (givenNonce >= 0 \/ ~crossed) => executed

(* "mined" is shown, and a result returned, for a contract that exists: never
   for a deployment that was reverted, whose receipt has an address as well. *)
DeployedIsThere ==
    /\ tracker = "mined" <=> deployAt = "done"
    /\ deployAt = "done" => code /\ deployReceipt = "success"

(* What several calls of the writer add up to: a Safe that is asked once, an
   account that is delegated, a contract that is there. *)
SubmissionsSound ==
    SubmissionsTypeOK /\ MainProposedOnce /\ DelegationExecutes /\ DeployedIsThere
============================================================================
