---------------------------- MODULE SafeTracking ----------------------------
(***************************************************************************)
(* One write through a Safe multisig: safeWriteAndTrack and the wait it    *)
(* runs (evm-safe/src/safe/write-and-track.ts, tx-lifecycle.ts), the parts *)
(* of SafeAppsService it calls (live.ts), and the execution adapter that   *)
(* shows the Safe's state as a TxState (pipeline-adapter.ts).              *)
(*                                                                         *)
(* Outside the code are the Safe's signers, who decide the fate of the     *)
(* proposal, the Safe Transaction Service, which learns that fate late,    *)
(* and the chain, which is asked for the receipt.                          *)
(***************************************************************************)
EXTENDS Integers, Sequences

CONSTANT SafeAttempts  \* maxAttempts of waitForSafeMultisigTx

ASSUME SafeAttemptsAssumption == SafeAttempts \in Nat \ {0}

VARIABLES
    fate,         \* what has become of the proposal
    indexed,      \* the fate as far as the Safe Transaction Service knows it
    infoCached,   \* infoRef holds the Safe's info
    safeRun,      \* the program: where it is
    attempt,      \* attempts of the wait that are over
    polled,       \* the last answer of getTx, while it is worked on
    safeState,    \* stateRef: its status
    safeHash,     \* safeTxHashRef holds the hash
    failedHash,   \* the hash a failed state can name
    result,       \* resultDeferred
    safeOpen,     \* the caller's scope
    published,    \* states the adapter's subscription has still to deliver
    mirror,       \* the adapter's fiber: off, or subscribed
    txState       \* the adapter's TxState: its status

worldVars == <<fate, indexed>>
stateVars == <<safeState, failedHash, published>>
mirrorVars == <<mirror, txState>>
safeVars == <<worldVars, infoCached, safeRun, attempt, polled, stateVars, safeHash, result, safeOpen, mirrorVars>>

OnChain == {"relayed", "executed", "reverted"}
Fates == {"none", "unconfirmed", "confirmed", "cancelled", "rejected"} \union OnChain
Outcomes == {"success", "queued", "cancelled", "failed"}
PollStates == {"awaiting_confirmations", "awaiting_execution", "pending"}
Waiting == {"polling", "resolving", "receipt", "sleeping"}

NoAnswer == [status |-> "none", hash |-> FALSE]
Answers == [status : {"AWAITING_CONFIRMATIONS", "AWAITING_EXECUTION", "OTHER", "SUCCESS", "CANCELLED", "FAILED"},
            hash : BOOLEAN]

(* A status and, when the proposal has reached the chain, its hash: the hash
   may be indexed before or after the status. *)
Reports(f) ==
    CASE f = "unconfirmed" -> {[status |-> "AWAITING_CONFIRMATIONS", hash |-> FALSE]}
      [] f = "confirmed"   -> {[status |-> "AWAITING_EXECUTION", hash |-> FALSE]}
      [] f = "cancelled"   -> {[status |-> "CANCELLED", hash |-> FALSE]}
      [] f = "rejected"    -> {[status |-> "FAILED", hash |-> FALSE]}
      [] f = "relayed"     -> {[status |-> s, hash |-> TRUE] : s \in {"AWAITING_EXECUTION", "OTHER"}}
      [] f = "executed"    -> [status : {"AWAITING_EXECUTION", "OTHER", "SUCCESS"}, hash : BOOLEAN]
      [] f = "reverted"    -> [status : {"AWAITING_EXECUTION", "FAILED"}, hash : BOOLEAN]
      [] OTHER             -> {}

mapStatusState(raw) ==
    CASE raw = "AWAITING_CONFIRMATIONS" -> "awaiting_confirmations"
      [] raw = "AWAITING_EXECUTION"     -> "awaiting_execution"
      [] OTHER                          -> "pending"

mapSafeStateToTxState(s) ==
    CASE s = "submitting"   -> "signing"
      [] s \in PollStates   -> "pending"
      [] s = "success"      -> "mined"
      [] OTHER              -> s

SafeInit ==
    /\ fate = "none" /\ indexed = "none"
    /\ infoCached \in BOOLEAN
    /\ safeRun = "forked" /\ attempt = 0 /\ polled = NoAnswer
    /\ safeState = "submitting" /\ safeHash = FALSE /\ failedHash = "unknown"
    /\ result = "none" /\ safeOpen = TRUE
    /\ published = <<>> /\ mirror = "off" /\ txState = "idle"

----------------------------------------------------------------------------
(* The signers, the chain and the service. *)

Decide ==
    /\ fate' \in CASE fate = "unconfirmed" -> {"confirmed", "cancelled"}
                   [] fate = "confirmed"   -> {"relayed", "cancelled", "rejected"}
                   [] fate = "relayed"     -> {"executed", "reverted", "cancelled"}
                   [] OTHER                -> {}
    /\ UNCHANGED <<indexed, infoCached, safeRun, attempt, polled, stateVars, safeHash, result, safeOpen, mirrorVars>>

Index ==
    /\ indexed # fate
    /\ indexed' = fate
    /\ UNCHANGED <<fate, infoCached, safeRun, attempt, polled, stateVars, safeHash, result, safeOpen, mirrorVars>>

(* The user signs in the Safe's own window; the answer is still to come. *)
Propose ==
    /\ safeRun = "sending" /\ fate = "none"
    /\ fate' \in {"unconfirmed", "confirmed"}
    /\ UNCHANGED <<indexed, infoCached, safeRun, attempt, polled, stateVars, safeHash, result, safeOpen, mirrorVars>>

----------------------------------------------------------------------------
(* The program that is forked. *)

setState(s) ==
    /\ safeState' = s
    /\ published' = IF mirror = "off" THEN published ELSE Append(published, s)

setPollState(s) ==
    IF s = safeState THEN UNCHANGED <<safeState, published>> ELSE setState(s)

(* The handler around the program: it fails again, and result with it. *)
SafeFail ==
    /\ safeRun' = "done" /\ result' = "error"
    /\ setState("failed")
    /\ failedHash' = IF safeHash THEN "safe" ELSE "unknown"

(* The caller gave a chain id, or the Safe is asked for its own first. *)
SafeStart ==
    /\ safeOpen /\ safeRun = "forked"
    /\ \/ /\ safeRun' = "sending"
          /\ infoCached' \in {infoCached, TRUE}
          /\ UNCHANGED <<stateVars, result>>
       \/ /\ ~infoCached
          /\ SafeFail /\ UNCHANGED infoCached
    /\ UNCHANGED <<worldVars, attempt, polled, safeHash, safeOpen, mirrorVars>>

(* sendTxs answers: the proposal is with the Safe, its hash is valid, and the
   Safe's info is there, or is asked for now. *)
sendTxs ==
    /\ safeOpen /\ safeRun = "sending" /\ fate # "none"
    /\ infoCached' = TRUE
    /\ safeHash' = TRUE
    /\ safeRun' = "submitted"
    /\ UNCHANGED <<worldVars, attempt, polled, stateVars, result, safeOpen, mirrorVars>>

(* The user rejects it, the call fails, its answer is lost or malformed, or the
   info that is asked for after the submission cannot be had. *)
sendTxsFails ==
    /\ safeOpen /\ safeRun = "sending"
    /\ SafeFail
    /\ UNCHANGED <<worldVars, infoCached, attempt, polled, safeHash, safeOpen, mirrorVars>>

(* The first look at the transaction: whatever goes wrong, it is "pending". *)
FirstLook ==
    /\ safeOpen /\ safeRun = "submitted"
    /\ \E s \in {mapStatusState(r.status) : r \in Reports(indexed)} \union {"pending"} : setState(s)
    /\ safeRun' = "polling"
    /\ UNCHANGED <<worldVars, infoCached, attempt, polled, safeHash, failedHash, result, safeOpen, mirrorVars>>

(* Sleep, unless that was the last attempt: the wait ends as "queued". *)
NextAttempt ==
    /\ attempt' = attempt + 1
    /\ polled' = NoAnswer
    /\ safeRun' = IF attempt + 1 < SafeAttempts THEN "sleeping" ELSE "ending"

(* resolveTerminalWaitResult, as far as it needs no receipt. *)
ResolvedBy(r) ==
    CASE r.status = "CANCELLED"            -> "cancelled"
      [] r.status = "FAILED" /\ ~r.hash    -> "failed"
      [] OTHER                             -> "none"

(* Reporting: the state is published, then the caller's callback runs, then
   the result. *)
Report(tag, hash) ==
    /\ safeRun' = "reporting"
    /\ setState(tag)
    /\ failedHash' = hash

getTx ==
    /\ safeOpen /\ safeRun = "polling"
    /\ \E r \in Reports(indexed) :
         /\ polled' = r
         /\ setPollState(mapStatusState(r.status))
         /\ safeRun' = "resolving"
    /\ UNCHANGED <<worldVars, infoCached, attempt, safeHash, failedHash, result, safeOpen, mirrorVars>>

Resolve ==
    /\ safeOpen /\ safeRun = "resolving"
    /\ \/ /\ ResolvedBy(polled) # "none"
          /\ Report(ResolvedBy(polled), "safe")
          /\ UNCHANGED <<attempt, polled>>
       \/ /\ ResolvedBy(polled) = "none" /\ polled.hash
          /\ safeRun' = "receipt"
          /\ UNCHANGED <<attempt, polled, stateVars>>
       \/ /\ ResolvedBy(polled) = "none" /\ ~polled.hash
          /\ NextAttempt
          /\ UNCHANGED stateVars
    /\ UNCHANGED <<worldVars, infoCached, safeHash, result, safeOpen, mirrorVars>>

(* A lookup that may be tried again. *)
getTxRetried ==
    /\ safeOpen /\ safeRun = "polling"
    /\ NextAttempt
    /\ UNCHANGED <<worldVars, infoCached, stateVars, safeHash, result, safeOpen, mirrorVars>>

(* The SDK is not to be had, or its answer has a malformed hash. *)
getTxFails ==
    /\ safeOpen /\ safeRun = "polling"
    /\ SafeFail
    /\ UNCHANGED <<worldVars, infoCached, attempt, polled, safeHash, safeOpen, mirrorVars>>

(* Mutant: the hash alone makes a success. *)
ReceiptUnread ==
    /\ safeOpen /\ safeRun = "receipt"
    /\ fate \in {"executed", "reverted"}
    /\ Report("success", "safe")
    /\ UNCHANGED <<worldVars, infoCached, attempt, polled, safeHash, result, safeOpen, mirrorVars>>

Receipt ==
    /\ safeOpen /\ safeRun = "receipt"
    /\ fate \in {"executed", "reverted"}
    /\ IF fate = "reverted" THEN Report("failed", "onchain") ELSE Report("success", "safe")
    /\ UNCHANGED <<worldVars, infoCached, attempt, polled, safeHash, result, safeOpen, mirrorVars>>

(* Not mined within receiptTimeoutMs, replaced, or any other error: all of them
   are retryable. *)
ReceiptNot ==
    /\ safeOpen /\ safeRun = "receipt"
    /\ NextAttempt
    /\ UNCHANGED <<worldVars, infoCached, stateVars, safeHash, result, safeOpen, mirrorVars>>

Wake ==
    /\ safeOpen /\ safeRun = "sleeping"
    /\ safeRun' = "polling"
    /\ UNCHANGED <<worldVars, infoCached, attempt, polled, stateVars, safeHash, result, safeOpen, mirrorVars>>

(* timeoutOption: maxWait is over while the wait waits for something. *)
MaxWaitOver ==
    /\ safeOpen /\ safeRun \in Waiting
    /\ safeRun' = "ending"
    /\ polled' = NoAnswer
    /\ UNCHANGED <<worldVars, infoCached, attempt, stateVars, safeHash, result, safeOpen, mirrorVars>>

Queued ==
    /\ safeOpen /\ safeRun = "ending"
    /\ Report("queued", "safe")
    /\ UNCHANGED <<worldVars, infoCached, attempt, polled, safeHash, result, safeOpen, mirrorVars>>

Reported ==
    /\ safeOpen /\ safeRun = "reporting"
    /\ safeRun' = "done" /\ result' = safeState
    /\ UNCHANGED <<worldVars, infoCached, attempt, polled, stateVars, safeHash, safeOpen, mirrorVars>>

----------------------------------------------------------------------------
(* The adapter's fiber, and the end of the scope. *)

(* Mutant: only what is set from now on is delivered. *)
SubscribeToChanges ==
    /\ safeOpen /\ mirror = "off"
    /\ mirror' = "on"
    /\ UNCHANGED <<worldVars, infoCached, safeRun, attempt, polled, stateVars, safeHash, result, safeOpen, txState>>

(* SubscriptionRef.changes begins with the value the reference has. *)
Subscribe ==
    /\ safeOpen /\ mirror = "off"
    /\ mirror' = "on"
    /\ published' = <<safeState>>
    /\ UNCHANGED <<worldVars, infoCached, safeRun, attempt, polled, safeState, failedHash, safeHash, result, safeOpen, txState>>

Forward ==
    /\ safeOpen /\ mirror = "on" /\ published # <<>>
    /\ txState' = mapSafeStateToTxState(Head(published))
    /\ published' = Tail(published)
    /\ UNCHANGED <<worldVars, infoCached, safeRun, attempt, polled, safeState, failedHash, safeHash, result, safeOpen, mirror>>

CloseSafeScope ==
    /\ safeOpen /\ safeOpen' = FALSE
    /\ UNCHANGED <<worldVars, infoCached, safeRun, attempt, polled, stateVars, safeHash, result, mirrorVars>>

(* The fibers are interrupted, and the finalizer completes what they had not. *)
Finalize ==
    /\ ~safeOpen /\ safeRun # "done"
    /\ safeRun' = "done" /\ result' = "interrupted"
    /\ UNCHANGED <<worldVars, infoCached, attempt, polled, stateVars, safeHash, safeOpen, mirrorVars>>

(* What runs by itself: a fiber that has no answer to wait for, or whose wait
   has a timeout. *)
SafeRunStep ==
    \/ Resolve \/ MaxWaitOver \/ Queued \/ Reported \/ Finalize

SafeMirrorStep == Subscribe \/ Forward

SafeNext ==
    \/ Decide \/ Index \/ Propose
    \/ SafeStart \/ sendTxs \/ sendTxsFails \/ FirstLook
    \/ getTx \/ getTxRetried \/ getTxFails \/ Receipt \/ ReceiptNot \/ Wake
    \/ SafeRunStep
    \/ SafeMirrorStep
    \/ CloseSafeScope

(* The fibers go on by themselves, and the scope's end interrupts them. *)
SafeSpec ==
    /\ SafeInit /\ [][SafeNext]_safeVars
    /\ WF_safeVars(SafeRunStep) /\ WF_safeVars(SafeMirrorStep)

----------------------------------------------------------------------------
SafeTypeOK ==
    /\ fate \in Fates /\ indexed \in Fates /\ infoCached \in BOOLEAN
    /\ safeRun \in {"forked", "sending", "submitted", "ending", "reporting", "done"} \union Waiting
    /\ attempt \in 0..SafeAttempts
    /\ polled \in Answers \union {NoAnswer}
    /\ safeState \in {"submitting"} \union PollStates \union Outcomes
    /\ safeHash \in BOOLEAN /\ failedHash \in {"unknown", "safe", "onchain"}
    /\ result \in {"none", "error", "interrupted"} \union Outcomes
    /\ safeOpen \in BOOLEAN
    /\ published \in Seq({"submitting"} \union PollStates \union Outcomes)
    /\ mirror \in {"off", "on"}
    /\ txState \in {"idle", "signing", "pending", "mined", "queued", "cancelled", "failed"}

(* What the caller is told has happened: a success is an execution on chain,
   whatever the service says; a cancellation and a failure are final, and a
   failure that names an on-chain hash is a revert.  The result, the Safe's
   state and the TxState never tell different stories. *)
SafeOutcomeTrue ==
    /\ SafeTypeOK
    /\ safeState = "success" => fate = "executed"
    /\ safeState = "cancelled" => fate = "cancelled"
    /\ safeState = "failed" /\ result \in Outcomes =>
         fate \in {"reverted", IF failedHash = "onchain" THEN "reverted" ELSE "rejected"}
    /\ result \in Outcomes => safeState = result
    /\ result = "error" => safeState = "failed"
    /\ txState \notin {"idle", "signing", "pending"} => txState = mapSafeStateToTxState(safeState)

(* Once the wait has begun it ends within maxWait, even if the host and the
   chain never answer again; and the result is there when the scope closes,
   even if the program has never run. *)
ResultResolves == (safeRun \in Waiting \/ ~safeOpen) ~> (result # "none")

(* The adapter's TxState comes to show the outcome while its scope is open,
   however late its fiber subscribes. *)
TxShowsOutcome ==
    (safeState \in Outcomes) ~> (~safeOpen \/ txState = mapSafeStateToTxState(safeState))

(* Whoever waits for a proposal, the caller or a page that shows it, learns how
   it ended. *)
SafeResolves == ResultResolves /\ TxShowsOutcome
=============================================================================
