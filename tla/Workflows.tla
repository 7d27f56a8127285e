----------------------------- MODULE Workflows -----------------------------
(***************************************************************************)
(* The three state machines of the xstate package: transactions            *)
(* (machines/tx.ts), forms (machines/form.ts) and facilitators             *)
(* (machines/facilitator.ts).                                              *)
(*                                                                         *)
(* Data is replaced by where it comes from: what a submission, a save or a *)
(* check brought about carries its number, and 0 stands for null.  An      *)
(* event that a state does not handle is ignored, and so has no action. A  *)
(* service called by a state that was left is interrupted, but may have    *)
(* its effect and may answer all the same.                                 *)
(***************************************************************************)
EXTENDS Integers

CONSTANT MaxEvents  \* bound on the events of each kind a user sends

ASSUME MaxEventsAssumption == MaxEvents \in Nat

Numbers == 0..MaxEvents

----------------------------------------------------------------------------
(* The transaction machine. *)

VARIABLES
    txAt,      \* its state
    txCtx,     \* its context
    submits,   \* history: submissions so far
    wallet,    \* getWalletType of the payload
    signed     \* history: transactions that left the wallet, by submission

txVars == <<txAt, txCtx, submits, wallet, signed>>

TxFields == {"payload", "preprocess", "gasLimit", "gasLimitOverflow", "signResult", "hash", "result", "error"}
TxRest == {"initial", "failure", "success", "gasLimitOverflow"}
TxStates == TxRest \union {"validate", "gasCheck", "simulate", "signing", "pending"}

TxEmpty == [f \in TxFields |-> 0]

TxMachineInit ==
    /\ txAt = "initial" /\ txCtx = TxEmpty
    /\ submits = 0 /\ wallet = "eoa"
    /\ signed = [s \in Numbers |-> 0]

doCache(p) == [TxEmpty EXCEPT !.payload = p]

doTxReset == txCtx' = TxEmpty

(* What a state's service answers is about the payload it was given. *)
TxSet(field) == txCtx' = [txCtx EXCEPT ![field] = txCtx.payload]

doPreprocess == TxSet("preprocess")

(* A limit, or none: the service may be missing, or leave it to the wallet. *)
doGasLimit == TxSet("gasLimit") \/ txCtx' = [txCtx EXCEPT !.gasLimit = 0]

doGasLimitOverflow == TxSet("gasLimitOverflow")

doSignResult ==
    \E h \in {0, txCtx.payload} : txCtx' = [txCtx EXCEPT !.signResult = txCtx.payload, !.hash = h]

doResult ==
    \E h \in {txCtx.hash, 0, txCtx.payload} :
        txCtx' = [txCtx EXCEPT !.result = txCtx.payload, !.hash = h]

doTxError == TxSet("error")

SUBMIT ==
    /\ txAt \in {"initial", "failure", "success"} /\ submits < MaxEvents
    /\ submits' = submits + 1
    /\ txAt' = "validate" /\ txCtx' = doCache(submits + 1)
    /\ wallet' \in {"safe", "eoa"}
    /\ UNCHANGED signed

TxRESET ==
    /\ txAt \in {"failure", "success", "gasLimitOverflow"}
    /\ txAt' = "initial" /\ doTxReset
    /\ UNCHANGED <<submits, wallet, signed>>

ValidateDone ==
    /\ txAt = "validate"
    /\ txAt' = IF wallet = "safe" THEN "simulate" ELSE "gasCheck"
    /\ doPreprocess
    /\ UNCHANGED <<submits, wallet, signed>>

GasCheckDone ==
    /\ txAt = "gasCheck"
    /\ txAt' = "signing" /\ doGasLimit
    /\ UNCHANGED <<submits, wallet, signed>>

SimulateDone ==
    /\ txAt = "simulate"
    /\ txAt' = "signing"
    /\ UNCHANGED <<txCtx, submits, wallet, signed>>

(* As an output, or as an error that is recognised. *)
GasOverflow ==
    /\ txAt \in {"gasCheck", "simulate"}
    /\ txAt' = "gasLimitOverflow" /\ doGasLimitOverflow
    /\ UNCHANGED <<submits, wallet, signed>>

Signs == signed' = [signed EXCEPT ![txCtx.payload] = @ + 1]

SignDone ==
    /\ txAt = "signing"
    /\ txAt' = "pending" /\ doSignResult
    /\ Signs
    /\ UNCHANGED <<submits, wallet>>

UserRejected ==
    /\ txAt = "signing"
    /\ txAt' = "initial" /\ doTxReset
    /\ UNCHANGED <<submits, wallet, signed>>

ConfirmDone ==
    /\ txAt = "pending"
    /\ txAt' = "success" /\ doResult
    /\ UNCHANGED <<submits, wallet, signed>>

(* Mutant: a confirmation that fails is signed once more. *)
TxFailureSignsAgain ==
    /\ txAt \notin TxRest
    /\ txAt' = IF txAt = "pending" THEN "signing" ELSE "failure"
    /\ doTxError
    /\ UNCHANGED <<submits, wallet, signed>>

(* Any service fails; the one that signs may have sent the transaction. *)
TxFailure ==
    /\ txAt \notin TxRest
    /\ txAt' = "failure" /\ doTxError
    /\ \/ UNCHANGED signed
       \/ txAt = "signing" /\ Signs
    /\ UNCHANGED <<submits, wallet>>

TxMachineNext ==
    \/ SUBMIT \/ TxRESET
    \/ ValidateDone \/ GasCheckDone \/ SimulateDone \/ GasOverflow
    \/ SignDone \/ UserRejected \/ ConfirmDone \/ TxFailure

----------------------------------------------------------------------------
(* The form machine. *)

VARIABLES
    formAt, formCtx,
    saves,      \* history: saves that were taken
    checks,     \* history: checks that were asked for and taken
    checking,   \* the check whose actor the machine listens to
    asked,      \* checks whose service has not answered
    verdict     \* history: the last check that was answered to the machine

formVars == <<formAt, formCtx, saves, checks, checking, asked, verdict>>

FormFields == {"payload", "preprocess", "result", "error"}
FormEmpty == [f \in FormFields |-> 0]

doFormReset == formCtx' = FormEmpty

doFormError(n) == formCtx' = [formCtx EXCEPT !.error = n]

FormMachineInit ==
    /\ formAt = "initial" /\ formCtx = FormEmpty
    /\ saves = 0 /\ checks = 0 /\ checking = 0 /\ asked = {} /\ verdict = 0

(* A check under way is left and entered again. *)
FormCHECK ==
    /\ formAt \in {"initial", "check"} /\ checks < MaxEvents
    /\ checks' = checks + 1 /\ checking' = checks + 1
    /\ asked' = asked \union {checks + 1}
    /\ formAt' = "check"
    /\ IF formAt = "check" THEN doFormReset ELSE UNCHANGED formCtx
    /\ UNCHANGED <<saves, verdict>>

(* The actor of a state that was left is stopped: its answer is dropped. *)
FormCheckAnswered(c) ==
    /\ c \in asked
    /\ asked' = asked \ {c}
    /\ IF formAt = "check" /\ c = checking
         THEN /\ formAt' = "initial" /\ verdict' = c
              /\ doFormReset \/ doFormError(c)
         ELSE UNCHANGED <<formAt, formCtx, verdict>>
    /\ UNCHANGED <<saves, checks, checking>>

(* doPrepareSave, then doCache. *)
doPrepareSave(n) == formCtx' = [FormEmpty EXCEPT !.payload = n]

SAVE ==
    /\ formAt \in {"initial", "failure", "success"} /\ saves < MaxEvents
    /\ saves' = saves + 1
    /\ formAt' = "validate"
    /\ doPrepareSave(saves + 1)
    /\ UNCHANGED <<checks, checking, asked, verdict>>

FormRESET ==
    /\ formAt \in {"failure", "success"}
    /\ formAt' = "initial" /\ doFormReset
    /\ UNCHANGED <<saves, checks, checking, asked, verdict>>

FormValidated ==
    /\ formAt = "validate"
    /\ formAt' = "process" /\ formCtx' = [formCtx EXCEPT !.preprocess = formCtx.payload]
    /\ UNCHANGED <<saves, checks, checking, asked, verdict>>

FormProcessed ==
    /\ formAt = "process"
    /\ formAt' = "success" /\ formCtx' = [formCtx EXCEPT !.result = formCtx.payload, !.error = 0]
    /\ UNCHANGED <<saves, checks, checking, asked, verdict>>

(* doError, or, for a process the user rejects, doReset. *)
FormFails ==
    /\ \/ /\ formAt \in {"validate", "process"}
          /\ formAt' = "failure" /\ doFormError(formCtx.payload)
       \/ /\ formAt = "process"
          /\ formAt' = "initial" /\ doFormReset
    /\ UNCHANGED <<saves, checks, checking, asked, verdict>>

FormMachineNext ==
    \/ FormCHECK \/ (\E c \in asked : FormCheckAnswered(c))
    \/ SAVE \/ FormRESET \/ FormValidated \/ FormProcessed \/ FormFails

----------------------------------------------------------------------------
(* The facilitator machine. *)

VARIABLES
    facAt,
    facStatus, transitive,  \* the context
    facChecks,   \* history: checks that were taken
    facAsked,    \* checks whose service has not answered
    eligible,    \* history: checks that were answered with "true"
    creates,     \* creations whose service has not answered, by their check
    made         \* history: creations that took effect, by their check

facVars == <<facAt, facStatus, transitive, facChecks, facAsked, eligible, creates, made>>

FacilitatorInit ==
    /\ facAt = "idle" /\ facStatus = "idle" /\ transitive = 0
    /\ facChecks = 0 /\ facAsked = {} /\ eligible = {} /\ creates = {} /\ made = {}

doFacCache(status, check) == facStatus' = status /\ transitive' = check

doClean == facStatus' = "idle" /\ transitive' = 0

FacCHECK ==
    /\ facAt \in {"idle", "checking", "checked", "failed"} /\ facChecks < MaxEvents
    /\ facChecks' = facChecks + 1
    /\ facAt' = "checking" /\ doClean
    /\ facAsked' = facAsked \union {facChecks + 1}
    /\ UNCHANGED <<eligible, creates, made>>

(* The check whose actor is alive; there is one while the state is checking. *)
Alive(c) == facAt = "checking" /\ c = facChecks

FacCheckAnswered(c) ==
    /\ facAsked' = facAsked \ {c}
    /\ \E s \in {"true", "false"} :
         /\ eligible' = IF s = "true" THEN eligible \union {c} ELSE eligible
         /\ IF Alive(c)
              THEN facAt' = "checked" /\ doFacCache(s, c)
              ELSE UNCHANGED <<facAt, facStatus, transitive>>
    /\ UNCHANGED <<facChecks, creates, made>>

FacCheckFailed(c) ==
    /\ facAsked' = facAsked \ {c}
    /\ facAt' = IF Alive(c) THEN "failed" ELSE facAt
    /\ UNCHANGED <<facStatus, transitive, facChecks, eligible, creates, made>>

canCreate == facStatus = "true"

CREATE ==
    /\ facAt = "checked" /\ canCreate
    /\ facAt' = "creating"
    /\ creates' = creates \union {transitive}
    /\ UNCHANGED <<facStatus, transitive, facChecks, facAsked, eligible, made>>

(* The service has its effect, whoever still listens; its answer may be lost. *)
Made(c) ==
    /\ c \in creates \ made
    /\ made' = made \union {c}
    /\ UNCHANGED <<facAt, facStatus, transitive, facChecks, facAsked, eligible, creates>>

CreateAnswered(c) ==
    /\ creates' = creates \ {c}
    /\ IF facAt = "creating" /\ c = transitive
         THEN facAt' \in {"failed"} \union (IF c \in made THEN {"created"} ELSE {})
         ELSE UNCHANGED facAt
    /\ UNCHANGED <<facStatus, transitive, facChecks, facAsked, eligible, made>>

FacRESET ==
    /\ facAt # "idle"
    /\ facAt' = "idle" /\ doClean
    /\ UNCHANGED <<facChecks, facAsked, eligible, creates, made>>

FacilitatorNext ==
    \/ FacCHECK \/ FacRESET \/ CREATE
    \/ \E c \in facAsked : FacCheckAnswered(c) \/ FacCheckFailed(c)
    \/ \E c \in creates : Made(c) \/ CreateAnswered(c)

----------------------------------------------------------------------------
(* The three machines, side by side. *)

workflowVars == <<txVars, formVars, facVars>>

WorkflowsInit == TxMachineInit /\ FormMachineInit /\ FacilitatorInit

WorkflowsNext ==
    \/ TxMachineNext /\ UNCHANGED <<formVars, facVars>>
    \/ FormMachineNext /\ UNCHANGED <<txVars, facVars>>
    \/ FacilitatorNext /\ UNCHANGED <<txVars, formVars>>

WorkflowsSpec == WorkflowsInit /\ [][WorkflowsNext]_workflowVars

----------------------------------------------------------------------------
WorkflowsTypeOK ==
    /\ txAt \in TxStates /\ txCtx \in [TxFields -> Numbers]
    /\ submits \in Numbers /\ wallet \in {"safe", "eoa"} /\ signed \in [Numbers -> Nat]
    /\ formAt \in {"initial", "check", "validate", "process", "success", "failure"}
    /\ formCtx \in [FormFields -> Numbers]
    /\ saves \in Numbers /\ checks \in Numbers /\ checking \in Numbers
    /\ asked \in SUBSET Numbers /\ verdict \in Numbers
    /\ facAt \in {"idle", "checking", "checked", "creating", "created", "failed"}
    /\ facStatus \in {"idle", "true", "false"} /\ transitive \in Numbers
    /\ facChecks \in Numbers /\ facAsked \in SUBSET Numbers
    /\ eligible \in SUBSET Numbers /\ creates \in SUBSET Numbers /\ made \in SUBSET Numbers

(* What is signed and confirmed belongs to the submission on screen: nothing
   an earlier attempt left behind, no gas limit of another wallet's path. *)
TxOwnInputs ==
    /\ \A f \in TxFields : txCtx[f] \in {0, submits}
    /\ txAt # "initial" => txCtx.payload = submits
    /\ txAt \in {"gasCheck", "simulate", "signing", "pending"} => txCtx.preprocess = submits
    /\ txAt = "signing" /\ wallet = "safe" => txCtx.gasLimit = 0
    /\ txAt = "pending" => txCtx.signResult = submits /\ txCtx.result = 0
    /\ txAt = "success" => txCtx.result = submits /\ txCtx.error = 0

(* One submission signs one transaction, and it succeeds by that one. *)
TxSignsOnce ==
    /\ \A s \in Numbers : signed[s] <= (IF s \in 1..submits THEN 1 ELSE 0)
    /\ txAt \in {"pending", "success"} => signed[submits] = 1

(* When checks were asked for in a row, the form waits for the verdict on the
   last one before it can be saved; and what it shows as processed is what was
   saved last. *)
FormWaitsForCheck ==
    /\ formAt # "check" => verdict = checks
    /\ formAt \in {"validate", "process", "success"} => formCtx.payload = saves /\ formCtx.error = 0
    /\ formAt = "process" => formCtx.preprocess = saves
    /\ formAt = "success" => formCtx.result = saves

(* A creation is for what the latest check found eligible, however many checks
   and resets came before it, and "created" is shown for that one alone. *)
FacCreatesEligible ==
    /\ facAt \in {"creating", "created"} =>
         transitive = facChecks /\ transitive \in eligible /\ canCreate
    /\ facAt = "created" => transitive \in made
    /\ creates \union made \subseteq eligible

(* The three machines show, sign and save what belongs to the user's last
   request. *)
WorkflowsSound ==
    WorkflowsTypeOK /\ TxOwnInputs /\ TxSignsOnce /\ FormWaitsForCheck /\ FacCreatesEligible
============================================================================
