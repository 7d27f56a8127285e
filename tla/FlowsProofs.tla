---------------------------- MODULE FlowsProofs ----------------------------
(***************************************************************************)
(* Proofs about Workflows, NextServer, Submissions, SafeTracking,          *)
(* SolanaConfirm and Rejections.                                           *)
(***************************************************************************)
EXTENDS Workflows, NextServer, Submissions, SafeTracking, SolanaConfirm, Rejections, SeqFilterProofs

----------------------------------------------------------------------------
(* The transaction machine.  A submission is not signed before its machine is
   in "signing", and what the next state will read is empty until then. *)

TxTypeOK ==
    /\ txAt \in TxStates /\ txCtx \in [TxFields -> Numbers]
    /\ submits \in Numbers /\ wallet \in {"safe", "eoa"} /\ signed \in [Numbers -> Nat]

TxClean ==
    /\ txAt # "initial" => submits >= 1
    /\ txAt \in {"validate", "gasCheck", "simulate", "signing"} => signed[submits] = 0
    /\ txAt \notin TxRest => txCtx.result = 0 /\ txCtx.error = 0
    /\ txAt \in {"validate", "simulate"} => txCtx.gasLimit = 0
    /\ txAt = "gasCheck" => wallet = "eoa"

TxInv == TxTypeOK /\ TxOwnInputs /\ TxSignsOnce /\ TxClean

LEMMA TxFieldsAre ==
  /\ "payload" \in TxFields /\ "preprocess" \in TxFields /\ "gasLimit" \in TxFields
  /\ "gasLimitOverflow" \in TxFields /\ "signResult" \in TxFields /\ "hash" \in TxFields
  /\ "result" \in TxFields /\ "error" \in TxFields
  BY DEF TxFields

(* A service's answer goes to one field, and carries the submission. *)
LEMMA TxSetKeeps ==
  ASSUME TxInv, txAt # "initial", NEW f \in TxFields, TxSet(f)
  PROVE  /\ txCtx' = [txCtx EXCEPT ![f] = submits] /\ txCtx' \in [TxFields -> Numbers]
         /\ \A g \in TxFields : txCtx'[g] \in {0, submits}
  BY DEF TxInv, TxTypeOK, TxOwnInputs, TxSet, TxFields

LEMMA TxStep ==
  ASSUME TxInv, TxMachineNext
  PROVE  TxInv'
<1> USE DEF TxInv
<1>0. ASSUME txAt' = "initial", doTxReset, UNCHANGED <<submits, wallet, signed>> PROVE TxInv'
  <2>1. txCtx' = [f \in TxFields |-> 0] /\ 0 \in Numbers
    BY <1>0, MaxEventsAssumption DEF doTxReset, TxEmpty, Numbers
  <2>2. TxTypeOK'
    BY <1>0, <2>1 DEF TxTypeOK, TxStates, TxRest
  <2>3. TxOwnInputs' /\ TxSignsOnce' /\ TxClean'
    BY <1>0, <2>1, TxFieldsAre DEF TxOwnInputs, TxSignsOnce, TxClean, TxRest
  <2> QED BY <2>2, <2>3
<1>1. CASE SUBMIT
  <2>1. /\ submits < MaxEvents /\ submits' = submits + 1 /\ txAt' = "validate"
        /\ txCtx' = [[f \in TxFields |-> 0] EXCEPT !.payload = submits + 1]
        /\ wallet' \in {"safe", "eoa"} /\ signed' = signed
    BY <1>1 DEF SUBMIT, doCache, TxEmpty
  <2>2. submits' \in Numbers /\ 0 \in Numbers /\ submits + 1 \in Numbers /\ submits \in Nat
    BY <2>1, MaxEventsAssumption DEF TxTypeOK, Numbers
  <2>3. TxTypeOK'
    BY <2>1, <2>2, TxFieldsAre DEF TxTypeOK, TxStates
  <2>4. TxOwnInputs'
    BY <2>1, <2>2, TxFieldsAre DEF TxOwnInputs
  <2>5. signed[submits + 1] = 0
    BY <2>2 DEF TxSignsOnce, TxTypeOK
  <2>6. TxSignsOnce'
    BY <2>1, <2>2, <2>5 DEF TxSignsOnce, TxTypeOK
  <2>7. TxClean'
    BY <2>1, <2>2, <2>5, TxFieldsAre DEF TxClean, TxRest
  <2> QED BY <2>3, <2>4, <2>6, <2>7
<1>2. CASE TxRESET
  BY <1>0, <1>2 DEF TxRESET
<1>3. CASE ValidateDone
  <2>1. txAt = "validate" /\ txAt' \in {"simulate", "gasCheck"} /\ (txAt' = "gasCheck" => wallet # "safe")
        /\ UNCHANGED <<submits, wallet, signed>>
    BY <1>3 DEF ValidateDone
  <2>2. /\ txCtx' = [txCtx EXCEPT !["preprocess"] = submits] /\ txCtx' \in [TxFields -> Numbers]
        /\ \A g \in TxFields : txCtx'[g] \in {0, submits}
    BY <1>3, <2>1, TxSetKeeps, TxFieldsAre DEF ValidateDone, doPreprocess
  <2> QED
    BY <2>1, <2>2, TxFieldsAre
       DEF TxTypeOK, TxOwnInputs, TxSignsOnce, TxClean, TxStates, TxRest
<1>4. CASE GasCheckDone
  <2>1. txAt = "gasCheck" /\ txAt' = "signing" /\ UNCHANGED <<submits, wallet, signed>> /\ wallet = "eoa"
    BY <1>4 DEF GasCheckDone, TxClean
  <2>2. /\ \E v \in {0, submits} : txCtx' = [txCtx EXCEPT !["gasLimit"] = v]
        /\ txCtx' \in [TxFields -> Numbers]
        /\ \A g \in TxFields : txCtx'[g] \in {0, submits}
    <3>1. CASE TxSet("gasLimit")
      BY <2>1, <3>1, TxSetKeeps, TxFieldsAre
    <3>2. CASE txCtx' = [txCtx EXCEPT !.gasLimit = 0]
      <4>1. 0 \in Numbers
        BY MaxEventsAssumption DEF Numbers
      <4>2. txCtx' = [txCtx EXCEPT !["gasLimit"] = 0]
        BY <3>2
      <4>3. txCtx' \in [TxFields -> Numbers] /\ \A g \in TxFields : txCtx'[g] \in {0, submits}
        BY <4>1, <4>2 DEF TxTypeOK, TxOwnInputs
      <4> QED BY <4>2, <4>3
    <3> QED BY <1>4, <3>1, <3>2 DEF GasCheckDone, doGasLimit
  <2>3. \A g \in TxFields \ {"gasLimit"} : txCtx'[g] = txCtx[g]
    BY <2>2 DEF TxTypeOK
  <2>4. TxTypeOK'
    BY <2>1, <2>2 DEF TxTypeOK, TxStates
  <2>5. TxOwnInputs' /\ TxSignsOnce' /\ TxClean'
    BY <2>1, <2>2, <2>3, TxFieldsAre DEF TxOwnInputs, TxSignsOnce, TxClean, TxRest
  <2> QED BY <2>4, <2>5
<1>5. CASE SimulateDone
  BY <1>5, TxFieldsAre
     DEF SimulateDone, TxTypeOK, TxOwnInputs, TxSignsOnce, TxClean, TxStates, TxRest
<1>6. CASE GasOverflow
  <2>1. txAt \in {"gasCheck", "simulate"} /\ txAt' = "gasLimitOverflow" /\ UNCHANGED <<submits, wallet, signed>>
    BY <1>6 DEF GasOverflow
  <2>2. /\ txCtx' = [txCtx EXCEPT !["gasLimitOverflow"] = submits] /\ txCtx' \in [TxFields -> Numbers]
        /\ \A g \in TxFields : txCtx'[g] \in {0, submits}
    BY <1>6, <2>1, TxSetKeeps, TxFieldsAre DEF GasOverflow, doGasLimitOverflow
  <2> QED
    BY <2>1, <2>2, TxFieldsAre
       DEF TxTypeOK, TxOwnInputs, TxSignsOnce, TxClean, TxStates, TxRest
<1>7. ASSUME txAt = "signing", Signs
      PROVE  /\ signed' \in [Numbers -> Nat] /\ signed'[submits] = 1
             /\ \A s \in Numbers : signed'[s] <= (IF s \in 1..submits THEN 1 ELSE 0)
  <2>1. txCtx.payload = submits /\ signed[submits] = 0 /\ submits \in Numbers /\ submits >= 1
    BY <1>7 DEF TxOwnInputs, TxClean, TxTypeOK
  <2>2. signed' = [signed EXCEPT ![submits] = 1]
    BY <1>7, <2>1 DEF Signs
  <2> QED BY <2>1, <2>2 DEF TxTypeOK, TxSignsOnce, Numbers
<1>8. CASE SignDone
  <2>1. txAt = "signing" /\ txAt' = "pending" /\ UNCHANGED <<submits, wallet>> /\ txCtx.payload = submits
    BY <1>8 DEF SignDone, TxOwnInputs
  <2>2. /\ \E h \in {0, submits} : txCtx' = [txCtx EXCEPT !.signResult = submits, !.hash = h]
    BY <1>8, <2>1 DEF SignDone, doSignResult
  <2>3. 0 \in Numbers
    BY MaxEventsAssumption DEF Numbers
  <2>4. /\ signed' \in [Numbers -> Nat] /\ signed'[submits] = 1
        /\ \A s \in Numbers : signed'[s] <= (IF s \in 1..submits THEN 1 ELSE 0)
    BY <1>7, <1>8, <2>1 DEF SignDone
  <2>5. /\ txCtx' \in [TxFields -> Numbers] /\ txCtx'.signResult = submits
        /\ \A g \in TxFields : txCtx'[g] \in {0, submits}
        /\ \A g \in TxFields \ {"signResult", "hash"} : txCtx'[g] = txCtx[g]
    BY <2>2, <2>3, TxFieldsAre DEF TxTypeOK, TxOwnInputs
  <2>6. TxTypeOK' /\ TxSignsOnce'
    BY <2>1, <2>4, <2>5 DEF TxTypeOK, TxStates, TxSignsOnce
  <2>7. TxOwnInputs' /\ TxClean'
    BY <2>1, <2>5, TxFieldsAre DEF TxOwnInputs, TxClean, TxRest
  <2> QED BY <2>6, <2>7
<1>9. CASE UserRejected
  BY <1>0, <1>9 DEF UserRejected
<1>10. CASE ConfirmDone
  <2>1. txAt = "pending" /\ txAt' = "success" /\ UNCHANGED <<submits, wallet, signed>> /\ txCtx.payload = submits
    BY <1>10 DEF ConfirmDone, TxOwnInputs
  <2>2. \E h \in {txCtx.hash, 0, submits} : txCtx' = [txCtx EXCEPT !.result = submits, !.hash = h]
    BY <1>10, <2>1 DEF ConfirmDone, doResult
  <2>3. 0 \in Numbers
    BY MaxEventsAssumption DEF Numbers
  <2> QED
    BY <2>1, <2>2, <2>3, TxFieldsAre
       DEF TxTypeOK, TxOwnInputs, TxSignsOnce, TxClean, TxStates, TxRest
<1>11. CASE TxFailure
  <2>1. txAt \notin TxRest /\ txAt' = "failure" /\ UNCHANGED <<submits, wallet>> /\ txAt # "initial"
    BY <1>11 DEF TxFailure, TxRest
  <2>2. /\ txCtx' = [txCtx EXCEPT !["error"] = submits] /\ txCtx' \in [TxFields -> Numbers]
        /\ \A g \in TxFields : txCtx'[g] \in {0, submits}
    BY <1>11, <2>1, TxSetKeeps, TxFieldsAre DEF TxFailure, doTxError
  <2>3. /\ signed' \in [Numbers -> Nat]
        /\ \A s \in Numbers : signed'[s] <= (IF s \in 1..submits THEN 1 ELSE 0)
    BY <1>7, <1>11 DEF TxFailure, TxTypeOK, TxSignsOnce
  <2>4. TxTypeOK' /\ TxOwnInputs' /\ TxClean'
    BY <2>1, <2>2, <2>3, TxFieldsAre DEF TxTypeOK, TxOwnInputs, TxClean, TxStates, TxRest
  <2>5. TxSignsOnce'
    BY <2>1, <2>3 DEF TxSignsOnce
  <2> QED BY <2>4, <2>5
<1> QED
  BY <1>1, <1>2, <1>3, <1>4, <1>5, <1>6, <1>8, <1>9, <1>10, <1>11 DEF TxMachineNext

----------------------------------------------------------------------------
(* The form machine: what it checks is what was asked for last. *)

FormTypeOK ==
    /\ formAt \in {"initial", "check", "validate", "process", "success", "failure"}
    /\ formCtx \in [FormFields -> Numbers]
    /\ saves \in Numbers /\ checks \in Numbers /\ checking \in Numbers
    /\ asked \in SUBSET Numbers /\ verdict \in Numbers

FormInv == FormTypeOK /\ FormWaitsForCheck /\ checking = checks

LEMMA FormFieldsAre ==
  "payload" \in FormFields /\ "preprocess" \in FormFields /\ "result" \in FormFields /\ "error" \in FormFields
  BY DEF FormFields

LEMMA FormStep ==
  ASSUME FormInv, FormMachineNext
  PROVE  FormInv'
<1> USE DEF FormInv
<1>0. 0 \in Numbers
  BY MaxEventsAssumption DEF Numbers
<1>1. doFormReset => formCtx' = [f \in FormFields |-> 0] /\ formCtx' \in [FormFields -> Numbers]
  BY <1>0 DEF doFormReset, FormEmpty
<1>2. \A n \in Numbers : doFormError(n) => formCtx' \in [FormFields -> Numbers]
  BY DEF doFormError, FormTypeOK
<1>3. CASE FormCHECK
  <2>1. /\ checks' = checks + 1 /\ checking' = checks + 1 /\ checks < MaxEvents
        /\ asked' = asked \union {checks + 1} /\ formAt' = "check" /\ UNCHANGED <<saves, verdict>>
    BY <1>3 DEF FormCHECK
  <2>2. formCtx' \in [FormFields -> Numbers]
    BY <1>1, <1>3 DEF FormCHECK, FormTypeOK
  <2>3. checks' \in Numbers
    BY <2>1, MaxEventsAssumption DEF FormTypeOK, Numbers
  <2> QED BY <2>1, <2>2, <2>3 DEF FormTypeOK, FormWaitsForCheck
<1>4. ASSUME NEW c \in asked, FormCheckAnswered(c) PROVE FormInv'
  <2>1. /\ asked' = asked \ {c} /\ UNCHANGED <<saves, checks, checking>> /\ c \in Numbers
    BY <1>4 DEF FormCheckAnswered, FormTypeOK
  <2>2. CASE formAt = "check" /\ c = checking
    <3>1. formAt' = "initial" /\ verdict' = c /\ formCtx' \in [FormFields -> Numbers]
      BY <1>1, <1>2, <1>4, <2>1, <2>2 DEF FormCheckAnswered
    <3> QED BY <2>1, <2>2, <3>1 DEF FormTypeOK, FormWaitsForCheck
  <2>3. CASE ~(formAt = "check" /\ c = checking)
    BY <1>4, <2>1, <2>3 DEF FormCheckAnswered, FormTypeOK, FormWaitsForCheck
  <2> QED BY <2>2, <2>3
<1>5. CASE SAVE
  <2>1. /\ saves < MaxEvents /\ saves' = saves + 1 /\ formAt' = "validate" /\ formAt # "check"
        /\ formCtx' = [[f \in FormFields |-> 0] EXCEPT !.payload = saves + 1]
        /\ UNCHANGED <<checks, checking, asked, verdict>>
    BY <1>5 DEF SAVE, doPrepareSave, FormEmpty
  <2>2. saves' \in Numbers
    BY <2>1, MaxEventsAssumption DEF FormTypeOK, Numbers
  <2> QED BY <1>0, <2>1, <2>2, FormFieldsAre DEF FormTypeOK, FormWaitsForCheck
<1>6. CASE FormRESET
  BY <1>1, <1>6 DEF FormRESET, FormTypeOK, FormWaitsForCheck
<1>7. CASE FormValidated
  <2>1. formCtx' = [formCtx EXCEPT !["preprocess"] = saves] /\ formCtx' \in [FormFields -> Numbers]
    BY <1>7 DEF FormValidated, FormTypeOK, FormWaitsForCheck
  <2> QED BY <1>7, <2>1, FormFieldsAre DEF FormValidated, FormTypeOK, FormWaitsForCheck
<1>8. CASE FormProcessed
  <2>1. formCtx' = [formCtx EXCEPT !.result = saves, !.error = 0] /\ formCtx' \in [FormFields -> Numbers]
    BY <1>0, <1>8 DEF FormProcessed, FormTypeOK, FormWaitsForCheck
  <2> QED BY <1>8, <2>1, FormFieldsAre DEF FormProcessed, FormTypeOK, FormWaitsForCheck
<1>9. CASE FormFails
  <2>1. /\ formAt \notin {"check"} /\ formAt' \in {"failure", "initial"}
        /\ UNCHANGED <<saves, checks, checking, asked, verdict>>
    BY <1>9 DEF FormFails
  <2>2. formCtx' \in [FormFields -> Numbers]
    BY <1>1, <1>2, <1>9 DEF FormFails, FormTypeOK, FormWaitsForCheck
  <2> QED BY <2>1, <2>2 DEF FormTypeOK, FormWaitsForCheck
<1> QED BY <1>3, <1>4, <1>5, <1>6, <1>7, <1>8, <1>9 DEF FormMachineNext

----------------------------------------------------------------------------
(* The facilitator machine: a check that was found good is remembered for as
   long as the machine holds its answer. *)

FacTypeOK ==
    /\ facAt \in {"idle", "checking", "checked", "creating", "created", "failed"}
    /\ facStatus \in {"idle", "true", "false"} /\ transitive \in Numbers
    /\ facChecks \in Numbers /\ facAsked \in SUBSET Numbers
    /\ eligible \in SUBSET Numbers /\ creates \in SUBSET Numbers /\ made \in SUBSET Numbers

FacCheckedIsLatest ==
    facAt = "checked" => transitive = facChecks /\ (canCreate => transitive \in eligible)

FacInv == FacTypeOK /\ FacCreatesEligible /\ FacCheckedIsLatest

LEMMA FacStep ==
  ASSUME FacInv, FacilitatorNext
  PROVE  FacInv'
<1> USE DEF FacInv
<1>0. 0 \in Numbers
  BY MaxEventsAssumption DEF Numbers
<1>1. CASE FacCHECK
  <2>1. facChecks + 1 \in Numbers
    BY <1>1, MaxEventsAssumption DEF FacCHECK, FacTypeOK, Numbers
  <2> QED BY <1>0, <1>1, <2>1
             DEF FacCHECK, doClean, FacTypeOK, FacCreatesEligible, FacCheckedIsLatest, canCreate
<1>2. CASE FacRESET
  BY <1>0, <1>2 DEF FacRESET, doClean, FacTypeOK, FacCreatesEligible, FacCheckedIsLatest, canCreate
<1>3. CASE CREATE
  BY <1>3 DEF CREATE, FacTypeOK, FacCreatesEligible, FacCheckedIsLatest, canCreate
<1>4. ASSUME NEW c \in facAsked, FacCheckAnswered(c) PROVE FacInv'
  <2>1. PICK s \in {"true", "false"} :
          /\ eligible' = IF s = "true" THEN eligible \union {c} ELSE eligible
          /\ IF Alive(c)
               THEN facAt' = "checked" /\ doFacCache(s, c)
               ELSE UNCHANGED <<facAt, facStatus, transitive>>
    BY <1>4 DEF FacCheckAnswered
  <2>2. facAsked' = facAsked \ {c} /\ UNCHANGED <<facChecks, creates, made>> /\ c \in Numbers
    BY <1>4 DEF FacCheckAnswered, FacTypeOK
  <2>3. CASE Alive(c)
    BY <2>1, <2>2, <2>3
       DEF Alive, doFacCache, FacTypeOK, FacCreatesEligible, FacCheckedIsLatest, canCreate
  <2>4. CASE ~Alive(c)
    BY <2>1, <2>2, <2>4 DEF FacTypeOK, FacCreatesEligible, FacCheckedIsLatest, canCreate
  <2> QED BY <2>3, <2>4
<1>5. ASSUME NEW c \in facAsked, FacCheckFailed(c) PROVE FacInv'
  BY <1>5 DEF FacCheckFailed, FacTypeOK, FacCreatesEligible, FacCheckedIsLatest, canCreate, Alive
<1>6. ASSUME NEW c \in creates, Made(c) PROVE FacInv'
  BY <1>6 DEF Made, FacTypeOK, FacCreatesEligible, FacCheckedIsLatest, canCreate
<1>7. ASSUME NEW c \in creates, CreateAnswered(c) PROVE FacInv'
  BY <1>7 DEF CreateAnswered, FacTypeOK, FacCreatesEligible, FacCheckedIsLatest, canCreate
<1> QED BY <1>1, <1>2, <1>3, <1>4, <1>5, <1>6, <1>7 DEF FacilitatorNext

LEMMA WorkflowsParts ==
  TxInv /\ FormInv /\ FacInv => WorkflowsSound
  BY DEF TxInv, TxTypeOK, FormInv, FormTypeOK, FacInv, FacTypeOK, WorkflowsSound, WorkflowsTypeOK

(* Whatever the user sends in whatever state, and whenever services answer:
   the transaction machine signs a submission once and with inputs of its own,
   the form waits for the check that was asked for last, and a facilitator
   creates what its latest check found eligible: WorkflowsSound. *)
THEOREM WorkflowsAreSound == WorkflowsSpec => []WorkflowsSound
<1>1. WorkflowsInit => TxInv /\ FormInv /\ FacInv
  <2> SUFFICES ASSUME WorkflowsInit PROVE TxInv /\ FormInv /\ FacInv
    OBVIOUS
  <2>0. 0 \in Numbers
    BY MaxEventsAssumption DEF Numbers
  <2>1. TxInv
    BY <2>0, TxFieldsAre
       DEF WorkflowsInit, TxMachineInit, TxEmpty, TxInv, TxTypeOK, TxOwnInputs, TxSignsOnce, TxClean,
           TxStates, TxRest
  <2>2. FormInv
    BY <2>0, FormFieldsAre
       DEF WorkflowsInit, FormMachineInit, FormEmpty, FormInv, FormTypeOK, FormWaitsForCheck
  <2>3. FacInv
    BY <2>0
       DEF WorkflowsInit, FacilitatorInit, FacInv, FacTypeOK, FacCreatesEligible, FacCheckedIsLatest,
           canCreate
  <2> QED BY <2>1, <2>2, <2>3
<1>2. TxInv /\ FormInv /\ FacInv /\ [WorkflowsNext]_workflowVars => (TxInv /\ FormInv /\ FacInv)'
  <2> SUFFICES ASSUME TxInv, FormInv, FacInv, [WorkflowsNext]_workflowVars
               PROVE  TxInv' /\ FormInv' /\ FacInv'
    OBVIOUS
  <2>1. UNCHANGED txVars => TxInv'
    BY DEF txVars, TxInv, TxTypeOK, TxOwnInputs, TxSignsOnce, TxClean
  <2>2. UNCHANGED formVars => FormInv'
    BY DEF formVars, FormInv, FormTypeOK, FormWaitsForCheck
  <2>3. UNCHANGED facVars => FacInv'
    BY DEF facVars, FacInv, FacTypeOK, FacCreatesEligible, FacCheckedIsLatest, canCreate
  <2> QED
    BY <2>1, <2>2, <2>3, TxStep, FormStep, FacStep DEF WorkflowsNext, workflowVars
<1> QED BY <1>1, <1>2, WorkflowsParts, PTL DEF WorkflowsSpec

----------------------------------------------------------------------------
(* ensureAllowance: where the call is says how often the wallet was asked,
   that it has not refused yet, and what became of the reset. *)

EnsureTypeOK ==
    /\ ensureAt \in {"checking", "direct", "directWrite", "reset", "resetWrite", "resetWait",
                     "final", "finalWrite"} \union EnsureEnded
    /\ zeroFirst \in BOOLEAN /\ strict \in BOOLEAN /\ refused \in BOOLEAN
    /\ granted \in Nat /\ current \in Nat /\ sentAmount \in {-1, 0, Approve} /\ prompts \in 0..2
    /\ receiptOf \in {"none", "success", "reverted", "replaced"}

AskedInTurn ==
    /\ ensureAt \notin EnsureEnded => refused = FALSE
    /\ ensureAt \in {"checking", "direct", "directWrite", "reset", "resetWrite"} => prompts = 0
    /\ ensureAt \in {"resetWait", "final", "finalWrite"} => prompts = 1 /\ sentAmount = 0
    /\ ensureAt \in {"final", "finalWrite"} => receiptOf = "success"

EnsureInv == EnsureTypeOK /\ AskedInTurn

LEMMA AfterFailureIs ==
  ASSUME NEW e
  PROVE  /\ AfterFailure(e) \in {"reset", "failed"}
         /\ AfterFailure(e) = "reset" => ensureAt = "direct" /\ e = "ApprovalError"
  BY DEF AfterFailure

LEMMA EnsureStep ==
  ASSUME EnsureInv, EnsureNext
  PROVE  /\ EnsureInv'
         /\ prompts' > prompts => ~refused /\ (prompts = 1 => sentAmount = 0 /\ receiptOf = "success")
<1> USE DEF EnsureInv
<1>1. CASE checkAllowance
  <2>1. ensureAt = "checking" /\ ensureAt' \in {"sufficient", "direct", "failed"} /\ current' \in Nat
    BY <1>1 DEF checkAllowance, EnsureTypeOK
  <2>2. UNCHANGED <<zeroFirst, strict, granted, sentAmount, receiptOf, prompts, refused>>
    BY <1>1 DEF checkAllowance
  <2>3. EnsureTypeOK'
    BY <2>1, <2>2 DEF EnsureTypeOK, EnsureEnded
  <2>4. AskedInTurn'
    BY <2>1, <2>2 DEF AskedInTurn, EnsureEnded
  <2>5. prompts' = prompts /\ prompts \in Int
    BY <2>2 DEF EnsureTypeOK
  <2> QED BY <2>3, <2>4, <2>5
<1>2. CASE simulateApproval
  <2>1. /\ ensureAt \in {"direct", "reset", "final"}
        /\ UNCHANGED <<zeroFirst, strict, granted, current, sentAmount, receiptOf, prompts>>
    BY <1>2 DEF simulateApproval
  <2>2. \/ /\ ensureAt' = CASE ensureAt = "direct" -> "directWrite"
                             [] ensureAt = "reset"  -> "resetWrite"
                             [] OTHER               -> "finalWrite"
           /\ refused' = refused
        \/ /\ ensureAt' \in {"reset", "failed"} /\ (ensureAt' = "reset" => ensureAt = "direct")
           /\ refused' = refused
        \/ ensureAt' = "failed" /\ refused' = TRUE
    BY <1>2, AfterFailureIs DEF simulateApproval
  <2>3. EnsureTypeOK'
    BY <2>1, <2>2 DEF EnsureTypeOK, EnsureEnded
  <2>4. AskedInTurn'
    BY <2>1, <2>2 DEF AskedInTurn, EnsureEnded
  <2>5. prompts' = prompts /\ prompts \in Int
    BY <2>1 DEF EnsureTypeOK
  <2> QED BY <2>3, <2>4, <2>5
<1>3. CASE writeApproval
  <2>1. /\ ensureAt \in {"directWrite", "resetWrite", "finalWrite"} /\ prompts' = prompts + 1
        /\ UNCHANGED <<zeroFirst, strict, granted, current>>
    BY <1>3 DEF writeApproval
  <2>2. /\ ~refused /\ prompts \in {0, 1}
        /\ prompts = 1 => sentAmount = 0 /\ receiptOf = "success"
        /\ ensureAt = "resetWrite" => prompts = 0
    <3>1. /\ prompts \in {0, 1} /\ (prompts = 1 => sentAmount = 0 /\ receiptOf = "success")
          /\ ensureAt = "resetWrite" => prompts = 0
      BY <2>1 DEF AskedInTurn
    <3>2. ~refused
      BY <2>1 DEF AskedInTurn, EnsureEnded
    <3> QED BY <3>1, <3>2
  <2>3. \/ /\ ensureAt' = IF ensureAt = "resetWrite" THEN "resetWait" ELSE "approved"
           /\ sentAmount' = Amount /\ receiptOf' = "none"
           /\ refused' = refused
        \/ /\ ensureAt' = "failed" /\ refused' = TRUE
           /\ UNCHANGED <<sentAmount, receiptOf>>
    BY <1>3, <2>1, AfterFailureIs DEF writeApproval
  <2>4. sentAmount' \in {-1, 0, Approve} /\ (ensureAt' = "resetWait" => sentAmount' = 0)
    BY <2>1, <2>3 DEF Amount, EnsureTypeOK
  <2>5. /\ ensureAt' \in {"resetWait"} \union EnsureEnded /\ prompts' \in 0..2
        /\ (ensureAt' = "resetWait" => prompts' = 1)
        /\ receiptOf' \in {"none", "success", "reverted", "replaced"}
    BY <2>1, <2>2, <2>3 DEF EnsureTypeOK, EnsureEnded
  <2>6. refused' \in BOOLEAN /\ (ensureAt' \notin EnsureEnded => refused' = FALSE)
    BY <2>2, <2>3 DEF EnsureTypeOK, EnsureEnded
  <2>7. EnsureTypeOK'
    BY <2>1, <2>4, <2>5, <2>6 DEF EnsureTypeOK, EnsureEnded
  <2>8. AskedInTurn'
    BY <2>4, <2>5, <2>6 DEF AskedInTurn, EnsureEnded
  <2> QED BY <2>2, <2>7, <2>8
<1>4. CASE resetMined
  <2>1. /\ ensureAt = "resetWait"
        /\ \/ receiptOf = "success" /\ ensureAt' = "final"
           \/ ensureAt' = "failed"
        /\ UNCHANGED <<zeroFirst, strict, granted, current, sentAmount, receiptOf, prompts, refused>>
    BY <1>4 DEF resetMined
  <2>2. EnsureTypeOK'
    BY <2>1 DEF EnsureTypeOK, EnsureEnded
  <2>3. AskedInTurn'
    BY <2>1 DEF AskedInTurn, EnsureEnded
  <2>4. prompts' = prompts /\ prompts \in Int
    BY <2>1 DEF EnsureTypeOK
  <2> QED BY <2>2, <2>3, <2>4
<1>5. CASE MineApproval
  <2>1. /\ sentAmount >= 0 /\ receiptOf = "none" /\ granted' \in {granted, sentAmount}
        /\ receiptOf' \in {"success", "reverted", "replaced"}
    BY <1>5 DEF MineApproval
  <2>2. UNCHANGED <<ensureAt, zeroFirst, strict, current, sentAmount, prompts, refused>>
    BY <1>5 DEF MineApproval
  <2>3. granted' \in Nat
    BY <2>1, SubmissionsAssumption DEF EnsureTypeOK, SubmissionsAssumption
  <2>4. EnsureTypeOK'
    BY <2>1, <2>2, <2>3 DEF EnsureTypeOK
  <2>5. AskedInTurn'
    BY <2>1, <2>2 DEF AskedInTurn
  <2>6. prompts' = prompts /\ prompts \in Int
    BY <2>2 DEF EnsureTypeOK
  <2> QED BY <2>4, <2>5, <2>6
<1>6. CASE Spend
  <2>1. granted > 0 /\ granted' = granted - 1
    BY <1>6 DEF Spend
  <2>2. UNCHANGED <<ensureAt, zeroFirst, strict, current, sentAmount, receiptOf, prompts, refused>>
    BY <1>6 DEF Spend
  <2>3. granted' \in Nat
    BY <2>1 DEF EnsureTypeOK
  <2>4. EnsureTypeOK' /\ AskedInTurn'
    BY <2>2, <2>3 DEF EnsureTypeOK, AskedInTurn
  <2>5. prompts' = prompts /\ prompts \in Int
    BY <2>2 DEF EnsureTypeOK
  <2> QED BY <2>4, <2>5
<1> QED BY <1>1, <1>2, <1>3, <1>4, <1>5, <1>6 DEF EnsureNext

----------------------------------------------------------------------------
(* The Safe, the delegation and the deployment. *)

AllowInv ==
    /\ allowAt \in {"batching", "batched", "approving", "acting", "fallback", "failed"}
    /\ strategy \in {"require", "fallback"} /\ multiSend \in BOOLEAN
    /\ proposals \in SUBSET {"batch", "approve", "main"}
    /\ MainProposedOnce
    /\ allowAt \in {"batching", "approving"} => proposals = {}
    /\ allowAt = "acting" => proposals = {"approve"}

LEMMA AllowStep ==
  ASSUME AllowInv, AllowNext
  PROVE  AllowInv'
<1>1. CASE batchWrite
  BY <1>1 DEF batchWrite, FallsBack, AllowInv, MainProposedOnce
<1>2. CASE singleWrite
  BY <1>2 DEF singleWrite, AllowInv, MainProposedOnce
<1> QED BY <1>1, <1>2 DEF AllowNext

(* The authorization is one ahead of the transaction, or something crossed. *)
DelegateTypeOK ==
    /\ delegateAt \in {"preparing", "signing", "sending", "sent", "success", "failed"}
    /\ givenNonce \in -1..MaxAccountNonce /\ authNonce \in Nat
    /\ txNonce \in -1..MaxAccountNonce /\ accountNonce \in Nat
    /\ executed \in BOOLEAN /\ crossed \in BOOLEAN

OneAhead ==
    /\ delegateAt \in {"preparing", "signing", "sending", "sent"} => accountNonce <= MaxAccountNonce
    /\ delegateAt \in {"signing", "sending"} =>
         IF givenNonce >= 0 THEN authNonce = givenNonce + 1
                            ELSE crossed \/ authNonce = accountNonce + 1
    /\ delegateAt = "sent" => (givenNonce >= 0 \/ ~crossed => authNonce = txNonce + 1)

DelegateInv == DelegateTypeOK /\ DelegationExecutes /\ OneAhead

LEMMA DelegateStep ==
  ASSUME DelegateInv, DelegateNext
  PROVE  DelegateInv'
<1> USE DEF DelegateInv
<1>1. CASE prepareAuthorization
  <2>1. /\ delegateAt = "preparing" /\ delegateAt' \in {"signing", "failed"}
        /\ delegateAt' = "signing" => authNonce' = IF givenNonce = -1 THEN accountNonce + 1 ELSE givenNonce + 1
        /\ authNonce' \in Nat
        /\ UNCHANGED <<givenNonce, txNonce, accountNonce>>
    BY <1>1 DEF prepareAuthorization, authorizationNonce, DelegateTypeOK
  <2>2. UNCHANGED <<executed, crossed>>
    BY <1>1 DEF prepareAuthorization
  <2> QED BY <2>1, <2>2 DEF DelegateTypeOK, OneAhead, DelegationExecutes
<1>2. CASE signAuthorization
  BY <1>2 DEF signAuthorization, DelegateTypeOK, OneAhead, DelegationExecutes
<1>3. CASE sendDelegation
  <2>1. /\ delegateAt = "sending" /\ delegateAt' \in {"sent", "failed"}
        /\ delegateAt' = "sent" => txNonce' = IF givenNonce = -1 THEN accountNonce ELSE givenNonce
        /\ delegateAt' = "failed" => txNonce' = txNonce
        /\ UNCHANGED <<givenNonce, authNonce, accountNonce>>
    BY <1>3 DEF sendDelegation
  <2>2. UNCHANGED <<executed, crossed>>
    BY <1>3 DEF sendDelegation
  <2>3. txNonce' \in -1..MaxAccountNonce
    BY <2>1, SubmissionsAssumption DEF DelegateTypeOK, OneAhead, SubmissionsAssumption
  <2>4. DelegateTypeOK'
    BY <2>1, <2>2, <2>3 DEF DelegateTypeOK
  <2>5. OneAhead' /\ DelegationExecutes'
    BY <2>1, <2>2 DEF DelegateTypeOK, OneAhead, DelegationExecutes
  <2> QED BY <2>4, <2>5
<1>4. CASE MineDelegation
  <2>1. /\ delegateAt = "sent" /\ txNonce = accountNonce /\ accountNonce' = accountNonce + 1
        /\ delegateAt' \in {"success", "failed"}
        /\ UNCHANGED <<givenNonce, authNonce, txNonce>>
    BY <1>4 DEF MineDelegation
  <2>2. executed' = (authNonce = accountNonce + 1) /\ crossed' = crossed
    BY <1>4 DEF MineDelegation
  <2>3. givenNonce >= 0 \/ ~crossed => executed'
    BY <2>1, <2>2 DEF OneAhead
  <2>4. executed' \in BOOLEAN /\ accountNonce' \in Nat
    BY <2>1, <2>2 DEF DelegateTypeOK
  <2> QED BY <2>1, <2>2, <2>3, <2>4 DEF DelegateTypeOK, OneAhead, DelegationExecutes
<1>5. CASE AnotherTransaction
  <2>1. /\ delegateAt \in {"preparing", "signing", "sending", "sent"}
        /\ accountNonce < MaxAccountNonce /\ accountNonce' = accountNonce + 1
        /\ UNCHANGED <<delegateAt, givenNonce, authNonce, txNonce>>
    BY <1>5 DEF AnotherTransaction
  <2>2. /\ executed' = executed /\ crossed' \in BOOLEAN
        /\ crossed => crossed'
        /\ delegateAt \in {"signing", "sending"} => crossed'
        /\ delegateAt = "sent" => (crossed' <=> crossed)
    BY <1>5 DEF AnotherTransaction, DelegateTypeOK
  <2>3. accountNonce' \in Nat /\ accountNonce' <= MaxAccountNonce
    BY <2>1, SubmissionsAssumption DEF DelegateTypeOK, SubmissionsAssumption
  <2> QED BY <2>1, <2>2, <2>3 DEF DelegateTypeOK, OneAhead, DelegationExecutes
<1> QED BY <1>1, <1>2, <1>3, <1>4, <1>5 DEF DelegateNext

(* What is shown follows the call, and code the chain's answer. *)
DeployInv ==
    /\ deployAt \in {"preparing", "signing", "waiting", "checking", "done", "failed"}
    /\ tracker \in {"idle", "signing", "submitted", "mined"}
    /\ deployReceipt \in {"none", "success", "reverted", "replaced"} /\ code \in BOOLEAN
    /\ DeployedIsThere
    /\ code <=> deployReceipt = "success"
    /\ deployAt \in {"preparing", "signing"} => tracker \notin {"submitted", "mined"}

LEMMA DeployStep ==
  ASSUME DeployInv, DeployNext
  PROVE  DeployInv'
<1>1. CASE prepareDeploy
  BY <1>1 DEF prepareDeploy, DeployInv, DeployedIsThere
<1>2. CASE deployContract
  BY <1>2 DEF deployContract, DeployInv, DeployedIsThere
<1>3. CASE MineDeployment
  BY <1>3 DEF MineDeployment, DeployInv, DeployedIsThere
<1>4. CASE deployMined
  BY <1>4 DEF deployMined, DeployInv, DeployedIsThere
<1>5. CASE checkBytecode
  BY <1>5 DEF checkBytecode, DeployInv, DeployedIsThere
<1> QED BY <1>1, <1>2, <1>3, <1>4, <1>5 DEF DeployNext

SubmissionsInv == EnsureInv /\ AllowInv /\ DelegateInv /\ DeployInv

LEMMA SubmissionsStart == SubmissionsInit => SubmissionsInv
<1> SUFFICES ASSUME SubmissionsInit PROVE SubmissionsInv
  OBVIOUS
<1>1. EnsureInv
  <2>1. granted \in Nat
    BY SubmissionsAssumption DEF SubmissionsInit, EnsureInit, SubmissionsAssumption
  <2>2. EnsureTypeOK
    <3>1. zeroFirst \in BOOLEAN /\ strict \in BOOLEAN /\ refused \in BOOLEAN
      BY DEF SubmissionsInit, EnsureInit
    <3>2. /\ current = 0 /\ sentAmount = -1 /\ prompts = 0 /\ receiptOf = "none"
          /\ ensureAt = "checking"
      BY DEF SubmissionsInit, EnsureInit
    <3> QED BY <2>1, <3>1, <3>2 DEF EnsureTypeOK
  <2>3. AskedInTurn
    BY DEF SubmissionsInit, EnsureInit, AskedInTurn
  <2> QED BY <2>2, <2>3 DEF EnsureInv
<1>2. AllowInv
  BY DEF SubmissionsInit, AllowInit, AllowInv, MainProposedOnce
<1>3. DelegateInv
  <2>1. /\ delegateAt = "preparing" /\ accountNonce \in 0..1 /\ authNonce = 0 /\ txNonce = -1
        /\ givenNonce \in -1..MaxAccountNonce /\ MaxAccountNonce \in Nat \ {0}
    BY SubmissionsAssumption DEF SubmissionsInit, DelegateInit, SubmissionsAssumption
  <2>2. executed \in BOOLEAN /\ crossed \in BOOLEAN
    BY DEF SubmissionsInit, DelegateInit
  <2>3. /\ authNonce \in Nat /\ accountNonce \in Nat /\ txNonce \in -1..MaxAccountNonce
    BY <2>1
  <2>4. DelegateTypeOK
    BY <2>1, <2>2, <2>3 DEF DelegateTypeOK
  <2>5. DelegationExecutes /\ OneAhead
    BY <2>1 DEF DelegationExecutes, OneAhead
  <2> QED BY <2>4, <2>5 DEF DelegateInv
<1>4. DeployInv
  BY DEF SubmissionsInit, DeployInit, DeployInv, DeployedIsThere
<1> QED BY <1>1, <1>2, <1>3, <1>4 DEF SubmissionsInv

LEMMA SubmissionsStep ==
  SubmissionsInv /\ [SubmissionsNext]_submitVars => SubmissionsInv'
<1> SUFFICES ASSUME SubmissionsInv, [SubmissionsNext]_submitVars
             PROVE  EnsureInv' /\ AllowInv' /\ DelegateInv' /\ DeployInv'
  BY DEF SubmissionsInv
<1> USE DEF SubmissionsInv
<1>1. UNCHANGED ensureVars => EnsureInv'
  BY DEF ensureVars, EnsureInv, EnsureTypeOK, AskedInTurn
<1>2. UNCHANGED allowVars => AllowInv'
  BY DEF allowVars, AllowInv, MainProposedOnce
<1>3. UNCHANGED delegateVars => DelegateInv'
  BY DEF delegateVars, DelegateInv, DelegateTypeOK, DelegationExecutes, OneAhead
<1>4. UNCHANGED deployVars => DeployInv'
  BY DEF deployVars, DeployInv, DeployedIsThere
<1> QED
  BY <1>1, <1>2, <1>3, <1>4, EnsureStep, AllowStep, DelegateStep, DeployStep
     DEF SubmissionsNext, submitVars

(* A Safe is given the main transaction once, a delegation that succeeds with
   nothing in between has executed, and "mined" is a contract that is there,
   for every amount and every number of other transactions: SubmissionsSound. *)
THEOREM SubmissionsAreSound == SubmissionsSpec => []SubmissionsSound
<1>1. SubmissionsInv => SubmissionsSound
  BY DEF SubmissionsInv, EnsureInv, EnsureTypeOK, AllowInv, DelegateInv, DelegateTypeOK, DeployInv,
         SubmissionsSound, SubmissionsTypeOK
<1> QED BY <1>1, SubmissionsStart, SubmissionsStep, PTL DEF SubmissionsSpec

(* The wallet is never asked after a refusal, and for the final approval only
   when the reset is mined, whatever the token, the spender and the chain do
   meanwhile: ApprovalAsksInTurn. *)
THEOREM ApprovalsAskInTurn == SubmissionsSpec => ApprovalAsksInTurn
<1>1. SubmissionsInv /\ [SubmissionsNext]_submitVars =>
        [prompts' > prompts =>
           ~refused /\ (prompts = 1 => sentAmount = 0 /\ receiptOf = "success")]_ensureVars
  BY EnsureStep DEF SubmissionsInv, SubmissionsNext, submitVars
<1> QED BY <1>1, SubmissionsStart, SubmissionsStep, PTL DEF SubmissionsSpec, ApprovalAsksInTurn

----------------------------------------------------------------------------
(* The server's cache. *)

Entries(n) == [made : 0..MaxWall, run : -1..n, sound : BOOLEAN]

CacheTypeOK ==
    /\ runs \in Nat /\ entry \in Entries(runs)
    /\ snap \in [Reqs -> Entries(runs)] /\ fresh \in [Reqs -> Entries(runs)]
    /\ req \in [Reqs -> {"idle"} \union Running \union Ended]
    /\ policy \in [Reqs -> {"fail-open", "fail-closed"}]
    /\ flight \in Reqs \union {Nobody}
    /\ refresh \in [Reqs -> {"none", "running", "writing", "done"}]

CacheInv == CacheTypeOK /\ CacheOneRefresh

LEMMA EntriesGrow ==
  ASSUME NEW n \in Nat
  PROVE  /\ Entries(n) \subseteq Entries(n + 1) /\ NoEntry \in Entries(n)
         /\ [made |-> 0, run |-> n + 1, sound |-> TRUE] \in Entries(n + 1)
  BY ServerAssumption DEF Entries, NoEntry, ServerAssumption

LEMMA PlacesAre ==
  /\ {"reading", "deciding", "deleting", "discarding", "leading", "waiting",
      "served", "failed", "interrupted"} \subseteq {"idle"} \union Running \union Ended
  /\ "waiting" \notin Ended /\ "leading" \notin Ended
  BY DEF Running, Ended

(* A request that moves without touching the refresh in flight. *)
LEMMA MoveKeeps ==
  ASSUME CacheInv, NEW r \in Reqs, NEW p \in {"idle"} \union Running \union Ended, MoveTo(r, p),
         p = "waiting" => flight # Nobody, p # "leading",
         UNCHANGED <<flight, refresh, fresh, runs, policy>>,
         snap' \in [Reqs -> Entries(runs)], entry' \in Entries(runs)
  PROVE  CacheInv'
<1>1. CacheTypeOK'
  BY DEF CacheInv, CacheTypeOK, MoveTo
<1>2. CacheOneRefresh'
  BY DEF CacheInv, CacheTypeOK, CacheOneRefresh, MoveTo
<1> QED BY <1>1, <1>2 DEF CacheInv

(* Whoever leads takes the slot, and it was free. *)
LEMMA LeadKeeps ==
  ASSUME CacheInv, NEW r \in Reqs, NEW p \in {"leading", "served"}, MoveTo(r, p),
         flight = Nobody, Lead(r), UNCHANGED <<policy, snap>>, entry' \in Entries(runs)
  PROVE  CacheInv'
<1> USE DEF CacheInv
<1>1. /\ runs' = runs + 1 /\ runs \in Nat /\ flight' = r /\ r # Nobody
      /\ refresh' = [refresh EXCEPT ![r] = "running"]
      /\ req' = [req EXCEPT ![r] = p]
      /\ fresh' = [fresh EXCEPT ![r] = [made |-> 0, run |-> runs + 1, sound |-> TRUE]]
  BY ServerAssumption DEF Lead, MoveTo, CacheTypeOK, ServerAssumption
<1>2. CacheTypeOK'
  <2>1. runs' \in Nat /\ entry' \in Entries(runs') /\ snap' \in [Reqs -> Entries(runs')]
    BY <1>1, EntriesGrow DEF CacheTypeOK
  <2>2. fresh' \in [Reqs -> Entries(runs')]
    BY <1>1, EntriesGrow DEF CacheTypeOK
  <2>3. /\ req' \in [Reqs -> {"idle"} \union Running \union Ended]
        /\ refresh' \in [Reqs -> {"none", "running", "writing", "done"}]
        /\ policy' \in [Reqs -> {"fail-open", "fail-closed"}]
        /\ flight' \in Reqs \union {Nobody}
    BY <1>1, PlacesAre DEF CacheTypeOK
  <2> QED BY <2>1, <2>2, <2>3 DEF CacheTypeOK
<1>3. CacheOneRefresh'
  <2>1. \A q \in Reqs : refresh[q] \notin {"running", "writing"} /\ req[q] # "waiting" /\ req[q] # "leading"
    BY ServerAssumption DEF CacheOneRefresh, ServerAssumption
  <2> QED BY <1>1, <2>1 DEF CacheOneRefresh, CacheTypeOK
<1> QED BY <1>2, <1>3

LEMMA CoalesceKeeps ==
  ASSUME CacheInv, NEW r \in Reqs, coalesceRefresh(r), UNCHANGED <<policy, snap>>,
         entry' \in Entries(runs)
  PROVE  CacheInv'
<1>1. CASE flight # Nobody
  BY <1>1, MoveKeeps, PlacesAre DEF coalesceRefresh, CacheInv, CacheTypeOK
<1>2. CASE flight = Nobody
  BY <1>2, LeadKeeps DEF coalesceRefresh
<1> QED BY <1>1, <1>2

(* The end of the refresh takes everyone along who waits for it. *)
LEMMA SettleRefreshKeeps ==
  ASSUME CacheInv, NEW r \in Reqs, flight = r, NEW outcome \in Ended, SettleRefresh(r, outcome),
         UNCHANGED <<policy, snap, runs>>, fresh' \in [Reqs -> Entries(runs)], entry' \in Entries(runs)
  PROVE  CacheInv'
<1> USE DEF CacheInv
<1>1. /\ flight' = Nobody /\ refresh' = [refresh EXCEPT ![r] = "done"]
      /\ req' = [q \in Reqs |-> IF req[q] = "waiting" \/ (q = r /\ req[q] = "leading")
                                  THEN outcome ELSE req[q]]
  BY DEF SettleRefresh
<1>2. CacheTypeOK'
  BY <1>1 DEF CacheTypeOK
<1>3. \A q \in Reqs : refresh'[q] \notin {"running", "writing"} /\ Nobody # q
  BY <1>1, ServerAssumption DEF CacheTypeOK, CacheOneRefresh, ServerAssumption
<1>4. \A q \in Reqs : req'[q] # "waiting" /\ req'[q] # "leading"
  BY <1>1, PlacesAre DEF CacheOneRefresh
<1> QED BY <1>1, <1>2, <1>3, <1>4 DEF CacheOneRefresh

LEMMA CacheStep ==
  ASSUME CacheInv, CacheNext, wall \in 0..MaxWall
  PROVE  CacheInv'
<1> USE DEF CacheInv
<1> SUFFICES ASSUME NEW r \in Reqs, Arrive(r) \/ CacheServes(r) \/ Interrupt(r) PROVE CacheInv'
  BY DEF CacheNext
<1>1. CASE Arrive(r)
  BY <1>1, MoveKeeps, PlacesAre DEF Arrive, CacheTypeOK
<1>2. CASE StoreReads(r)
  <2>1. snap' \in [Reqs -> Entries(runs)]
    BY <1>2 DEF StoreReads, CacheTypeOK
  <2> QED BY <1>2, <2>1, MoveKeeps, PlacesAre DEF StoreReads, CacheTypeOK
<1>3. CASE ReadFails(r)
  <2>1. UNCHANGED <<entry, snap, policy>>
    BY <1>3 DEF ReadFails
  <2>2. CASE policy[r] = "fail-open"
    BY <1>3, <2>1, <2>2, CoalesceKeeps DEF ReadFails, CacheTypeOK
  <2>3. CASE policy[r] # "fail-open"
    BY <1>3, <2>1, <2>3, MoveKeeps, PlacesAre DEF ReadFails, CacheTypeOK
  <2> QED BY <2>2, <2>3
<1>4. CASE classifyEntry(r)
  <2>1. UNCHANGED <<entry, snap, policy>>
    BY <1>4 DEF classifyEntry
  <2>2. \/ coalesceRefresh(r)
        \/ \E p \in {"deleting", "discarding", "served"} :
             MoveTo(r, p) /\ UNCHANGED <<flight, refresh, fresh, runs>>
        \/ MoveTo(r, "served") /\ flight = Nobody /\ Lead(r)
    BY <1>4 DEF classifyEntry
  <2>3. ASSUME NEW p \in {"deleting", "discarding", "served"},
               MoveTo(r, p), UNCHANGED <<flight, refresh, fresh, runs>>
        PROVE  CacheInv'
    BY <2>1, <2>3, MoveKeeps, PlacesAre DEF CacheTypeOK
  <2>4. CASE coalesceRefresh(r)
    BY <2>1, <2>4, CoalesceKeeps DEF CacheTypeOK
  <2>5. CASE MoveTo(r, "served") /\ flight = Nobody /\ Lead(r)
    BY <2>1, <2>5, LeadKeeps DEF CacheTypeOK
  <2> QED BY <2>2, <2>3, <2>4, <2>5
<1>5. CASE DeleteEnds(r)
  <2>1. UNCHANGED <<snap, policy>> /\ entry' \in {entry, NoEntry}
    BY <1>5 DEF DeleteEnds
  <2>2. entry' \in Entries(runs)
    BY <2>1, EntriesGrow DEF CacheTypeOK
  <2>3. \/ MoveTo(r, "failed") /\ UNCHANGED <<flight, refresh, fresh, runs>>
        \/ coalesceRefresh(r)
    BY <1>5 DEF DeleteEnds
  <2>4. CASE MoveTo(r, "failed") /\ UNCHANGED <<flight, refresh, fresh, runs>>
    BY <2>1, <2>2, <2>4, MoveKeeps, PlacesAre DEF CacheTypeOK
  <2>5. CASE coalesceRefresh(r)
    BY <2>1, <2>2, <2>5, CoalesceKeeps
  <2> QED BY <2>3, <2>4, <2>5
<1>6. CASE EffectEnds(r)
  <2>1. refresh[r] = "running" /\ UNCHANGED <<entry, snap, policy, runs>> /\ flight = r
    BY <1>6 DEF EffectEnds, CacheOneRefresh
  <2>2. CASE /\ refresh' = [refresh EXCEPT ![r] = "writing"]
             /\ fresh' = [fresh EXCEPT ![r].made = wall]
             /\ UNCHANGED <<flight, req>>
    <3>1. fresh' \in [Reqs -> Entries(runs)]
      BY <2>2 DEF CacheTypeOK, Entries
    <3>2. CacheTypeOK'
      BY <2>1, <2>2, <3>1 DEF CacheTypeOK
    <3>3. CacheOneRefresh'
      BY <2>1, <2>2 DEF CacheOneRefresh, CacheTypeOK
    <3> QED BY <3>2, <3>3
  <2>3. CASE SettleRefresh(r, "failed") /\ UNCHANGED fresh
    BY <2>1, <2>3, SettleRefreshKeeps DEF CacheTypeOK, Ended
  <2> QED BY <1>6, <2>2, <2>3 DEF EffectEnds
<1>7. CASE WriteEnds(r)
  <2>1. refresh[r] = "writing" /\ UNCHANGED <<snap, policy, fresh, runs>> /\ flight = r
    BY <1>7 DEF WriteEnds, CacheOneRefresh
  <2>2. entry' \in Entries(runs)
    BY <1>7 DEF WriteEnds, CacheTypeOK
  <2>3. \E outcome \in Ended : SettleRefresh(r, outcome)
    BY <1>7 DEF WriteEnds, Ended
  <2> QED BY <2>1, <2>2, <2>3, SettleRefreshKeeps DEF CacheTypeOK
<1>8. CASE Interrupt(r)
  <2>1. UNCHANGED <<snap, policy, fresh, runs>>
    BY <1>8 DEF Interrupt
  <2>2. CASE req[r] = "leading"
    <3>1. flight = r /\ SettleRefresh(r, "interrupted") /\ entry' \in Entries(runs)
      BY <1>8, <2>2 DEF Interrupt, CacheOneRefresh, CacheTypeOK
    <3> QED BY <2>1, <3>1, SettleRefreshKeeps DEF CacheTypeOK, Ended
  <2>3. CASE req[r] # "leading"
    BY <1>8, <2>1, <2>3, MoveKeeps, PlacesAre DEF Interrupt, CacheTypeOK
  <2> QED BY <2>2, <2>3
<1> QED BY <1>1, <1>2, <1>3, <1>4, <1>5, <1>6, <1>7, <1>8 DEF CacheServes

----------------------------------------------------------------------------
(* The rate limit: the store's entry is the window that runs, and has counted
   at least those who were let through in it, or it is pruned and the window
   is over. *)

WindowKept(k) ==
    \/ counts[k].resetAt = windowEnd[k] /\ through[k] <= counts[k].count
    \/ counts[k] = NoCount /\ wall >= windowEnd[k]

LimitInv ==
    /\ wall \in 0..MaxWall
    /\ counts \in [LimitKeys -> [count : 0..Limit + 2, resetAt : Nat]]
    /\ through \in [LimitKeys -> 0..Limit] /\ windowEnd \in [LimitKeys -> Nat]
    /\ \A k \in LimitKeys : WindowKept(k)

LEMMA PruneKeeps ==
  ASSUME LimitInv
  PROVE  /\ pruneExpired \in [LimitKeys -> [count : 0..Limit + 2, resetAt : Nat]]
         /\ \A k \in LimitKeys :
              \/ pruneExpired[k] = counts[k]
              \/ pruneExpired[k] = NoCount /\ wall >= counts[k].resetAt
<1>1. NoCount \in [count : 0..Limit + 2, resetAt : Nat]
  BY ServerAssumption DEF NoCount, ServerAssumption
<1> QED BY <1>1 DEF pruneExpired, LimitInv

LEMMA PrunedWindow ==
  ASSUME LimitInv, NEW k \in LimitKeys
  PROVE  \/ /\ pruneExpired[k].resetAt = windowEnd[k] /\ through[k] <= pruneExpired[k].count
         \/ pruneExpired[k] = NoCount /\ wall >= windowEnd[k]
<1>1. counts[k].resetAt \in Nat /\ wall \in Nat /\ windowEnd[k] \in Nat
  BY ServerAssumption DEF LimitInv, ServerAssumption
<1>2. CASE pruneExpired[k] = counts[k]
  BY <1>2 DEF LimitInv, WindowKept
<1>3. CASE pruneExpired[k] = NoCount /\ wall >= counts[k].resetAt
  BY <1>1, <1>3 DEF LimitInv, WindowKept
<1> QED BY <1>2, <1>3, PruneKeeps

LEMMA IncrementKeeps ==
  ASSUME LimitInv, NEW k \in LimitKeys, increment(k), UNCHANGED wall
  PROVE  LimitInv'
<1> DEFINE was == pruneExpired[k]
           next == IF was = NoCount \/ wall >= was.resetAt
                     THEN [count |-> 1, resetAt |-> wall + Window]
                     ELSE [was EXCEPT !.count = @ + 1]
           began == IF wall >= windowEnd[k] THEN 0 ELSE through[k]
<1>1. /\ counts[k].count <= Limit + 1
      /\ counts' = [pruneExpired EXCEPT ![k] = next]
      /\ through' = [through EXCEPT ![k] = IF next.count <= Limit THEN began + 1 ELSE began]
      /\ windowEnd' = [windowEnd EXCEPT ![k] = IF wall >= windowEnd[k] THEN wall + Window ELSE windowEnd[k]]
  BY DEF increment
<1>2. /\ wall \in Nat /\ Window \in Nat \ {0} /\ Limit \in Nat \ {0} /\ windowEnd[k] \in Nat
      /\ through[k] \in 0..Limit
      /\ was \in [count : 0..Limit + 2, resetAt : Nat]
      /\ was = counts[k] \/ was = NoCount
  BY PruneKeeps, ServerAssumption DEF LimitInv, ServerAssumption
<1>3. /\ next \in [count : 0..Limit + 2, resetAt : Nat]
      /\ next.count \in 1..Limit + 2
      /\ wall < windowEnd[k] => next.resetAt = windowEnd[k] /\ began + 1 <= next.count
      /\ wall >= windowEnd[k] => next.resetAt = wall + Window /\ next.count = 1 /\ began = 0
  <2>1. CASE was = NoCount \/ wall >= was.resetAt
    <3>1. next = [count |-> 1, resetAt |-> wall + Window]
      BY <2>1
    <3>2. wall >= windowEnd[k]
      BY <1>2, <2>1, PrunedWindow DEF NoCount
    <3> QED BY <1>2, <3>1, <3>2
  <2>2. CASE ~(was = NoCount \/ wall >= was.resetAt)
    <3>1. next = [was EXCEPT !.count = was.count + 1] /\ was = counts[k]
      BY <1>2, <2>2
    <3>2. was.resetAt = windowEnd[k] /\ through[k] <= was.count /\ wall < windowEnd[k]
      BY <1>2, <2>2, PrunedWindow
    <3>3. next.count = was.count + 1 /\ next.resetAt = was.resetAt /\ was.count <= Limit + 1
      BY <1>1, <1>2, <3>1
    <3>4. next \in [count : 0..Limit + 2, resetAt : Nat]
      BY <1>2, <3>1, <3>3
    <3> QED BY <1>2, <3>2, <3>3, <3>4
  <2> QED BY <2>1, <2>2
<1>4. counts' \in [LimitKeys -> [count : 0..Limit + 2, resetAt : Nat]]
  BY <1>1, <1>3, PruneKeeps
<1>5. windowEnd' \in [LimitKeys -> Nat]
  BY <1>1, <1>2 DEF LimitInv
<1>6. through'[k] \in 0..Limit /\ through'[k] <= next.count
  BY <1>1, <1>2, <1>3 DEF LimitInv
<1>7. through' \in [LimitKeys -> 0..Limit]
  BY <1>1, <1>6 DEF LimitInv
<1>8. ASSUME NEW j \in LimitKeys PROVE WindowKept(j)'
  <2>1. CASE j = k
    <3>1. counts'[k] = next
      BY <1>1, PruneKeeps
    <3>2. next.resetAt = windowEnd'[k]
      BY <1>1, <1>2, <1>3 DEF LimitInv
    <3> QED BY <1>6, <2>1, <3>1, <3>2 DEF WindowKept
  <2>2. CASE j # k
    <3>1. counts'[j] = pruneExpired[j] /\ through'[j] = through[j] /\ windowEnd'[j] = windowEnd[j]
      BY <1>1, <2>2, PruneKeeps DEF LimitInv
    <3> QED BY <3>1, PrunedWindow DEF WindowKept
  <2> QED BY <2>1, <2>2
<1> QED BY <1>4, <1>5, <1>7, <1>8 DEF LimitInv

ServerInv == CacheInv /\ LimitInv

LEMMA ServerStart == ServerInit => ServerInv
<1> SUFFICES ASSUME ServerInit PROVE ServerInv
  OBVIOUS
<1>1. CacheInv
  <2>1. NoEntry \in Entries(0) /\ entry \in Entries(0) /\ runs = 0
    <3>1. [made : {0}, run : {0}, sound : BOOLEAN] \subseteq Entries(0) /\ NoEntry \in Entries(0)
      BY EntriesGrow, ServerAssumption DEF Entries, ServerAssumption
    <3> QED BY <3>1 DEF ServerInit, CacheInit
  <2>2. CacheTypeOK
    BY <2>1 DEF ServerInit, CacheInit, CacheTypeOK
  <2>3. CacheOneRefresh
    BY ServerAssumption DEF ServerInit, CacheInit, CacheOneRefresh, ServerAssumption
  <2> QED BY <2>2, <2>3 DEF CacheInv
<1>2. LimitInv
  BY ServerAssumption DEF ServerInit, LimitInit, NoCount, LimitInv, WindowKept, ServerAssumption
<1> QED BY <1>1, <1>2 DEF ServerInv

LEMMA ServerStep == ServerInv /\ [ServerNext]_serverVars => ServerInv'
<1> SUFFICES ASSUME ServerInv, [ServerNext]_serverVars PROVE CacheInv' /\ LimitInv'
  BY DEF ServerInv
<1> USE DEF ServerInv
<1>1. UNCHANGED persistentVars => CacheInv'
  BY DEF persistentVars, CacheInv, CacheTypeOK, CacheOneRefresh
<1>2. UNCHANGED <<wall, limitVars>> => LimitInv'
  BY DEF limitVars, LimitInv, WindowKept
<1>3. CASE WallTick /\ UNCHANGED <<persistentVars, limitVars>>
  <2>1. wall' \in 0..MaxWall /\ wall' > wall
    BY <1>3, ServerAssumption DEF WallTick, LimitInv, ServerAssumption
  <2>2. UNCHANGED <<counts, through, windowEnd>>
    BY <1>3 DEF limitVars
  <2>3. \A k \in LimitKeys : windowEnd[k] \in Nat
    BY DEF LimitInv
  <2>4. LimitInv'
    BY <2>1, <2>2, <2>3 DEF LimitInv, WindowKept
  <2> QED BY <1>1, <1>3, <2>4
<1>4. CASE CacheNext /\ UNCHANGED <<wall, limitVars>>
  BY <1>2, <1>4, CacheStep DEF LimitInv
<1>5. CASE LimitNext /\ UNCHANGED <<wall, persistentVars>>
  BY <1>1, <1>5, IncrementKeeps DEF LimitNext
<1> QED BY <1>1, <1>2, <1>3, <1>4, <1>5 DEF ServerNext, serverVars

(* For any requests, interrupted or not, and any clock: the cached effect runs
   once for everyone who misses at the same time, and a window lets no more
   than the limit through, whatever is pruned: ServerSound. *)
THEOREM ServerIsSound == ServerSpec => []ServerSound
<1>1. ServerInv => ServerSound
  <2> SUFFICES ASSUME ServerInv PROVE ServerSound
    OBVIOUS
  <2>1. RateLimitHolds
    BY ServerAssumption DEF ServerInv, LimitInv, RateLimitHolds, ServerAssumption
  <2>2. \A e \in {entry} \union {snap[r] : r \in Reqs} \union {fresh[r] : r \in Reqs} :
          e.made \in 0..MaxWall /\ e.run \in -1..runs /\ e.sound \in BOOLEAN
    BY DEF ServerInv, CacheInv, CacheTypeOK, Entries
  <2>3. \A k \in LimitKeys : counts[k].count \in 0..Limit + 2
    BY DEF ServerInv, LimitInv
  <2>4. wall \in 0..MaxWall
    BY DEF ServerInv, LimitInv
  <2> QED
    BY <2>1, <2>2, <2>3, <2>4 DEF ServerInv, CacheInv, CacheTypeOK, ServerSound, ServerTypeOK
<1> QED BY <1>1, ServerStart, ServerStep, PTL DEF ServerSpec

----------------------------------------------------------------------------
(* The Safe.  A fate that is final stays, and the service and the answer in
   hand can only name one that was there. *)

States == {"submitting"} \union PollStates \union Outcomes
TxNames == {"idle", "signing", "pending", "mined", "queued", "cancelled", "failed"}

FateKnown ==
    /\ fate \in Fates /\ indexed \in Fates
    /\ indexed \in {"cancelled", "rejected", "executed", "reverted"} => fate = indexed
    /\ polled \in Answers \union {NoAnswer}
    /\ polled.status = "CANCELLED" => fate = "cancelled"
    /\ polled.status = "FAILED" => fate \in {"rejected", "reverted"}

(* Of the states that are still to be delivered only the last can be an
   outcome, and it is the one the reference has. *)
Shown ==
    /\ safeState \in States /\ published \in Seq(States)
    /\ \A i \in 1..Len(published) : published[i] \in Outcomes => published[i] = safeState
    /\ txState \in TxNames
    /\ txState \notin {"idle", "signing", "pending"} => txState = mapSafeStateToTxState(safeState)

FailureTrue == fate \in {"reverted", IF failedHash = "onchain" THEN "reverted" ELSE "rejected"}

Told ==
    /\ safeRun \in {"forked", "sending", "submitted", "ending", "reporting", "done"} \union Waiting
    /\ failedHash \in {"unknown", "safe", "onchain"}
    /\ result \in {"none", "error", "interrupted"} \union Outcomes
    /\ safeRun \notin {"reporting", "done"} => safeState \notin Outcomes
    /\ safeRun = "reporting" => safeState \in Outcomes
    /\ safeRun # "done" => result = "none"
    /\ safeState = "success" => fate = "executed"
    /\ safeState = "cancelled" => fate = "cancelled"
    /\ safeState = "failed" /\ (safeRun = "reporting" \/ result \in Outcomes) => FailureTrue
    /\ result \in Outcomes => safeState = result
    /\ result = "error" => safeState = "failed"

Counted ==
    /\ attempt \in 0..SafeAttempts
    /\ safeRun \in {"forked", "sending", "submitted"} => attempt = 0
    /\ safeRun \in Waiting => attempt < SafeAttempts

Flags == infoCached \in BOOLEAN /\ safeHash \in BOOLEAN /\ safeOpen \in BOOLEAN /\ mirror \in {"off", "on"}

SafeInv == FateKnown /\ Shown /\ Told /\ Counted /\ Flags

LEMMA MapsToTx ==
  /\ \A s \in States : mapSafeStateToTxState(s) \in TxNames
  /\ \A s \in States : mapSafeStateToTxState(s) \notin {"idle", "signing", "pending"} <=> s \in Outcomes
  /\ \A raw : mapStatusState(raw) \in PollStates
  /\ PollStates \subseteq States \ Outcomes /\ Outcomes \subseteq States
  BY DEF mapSafeStateToTxState, mapStatusState, States, PollStates, Outcomes, TxNames

(* What a status and a hash say of the fate. *)
LEMMA ReportsTrue ==
  ASSUME FateKnown, NEW r \in Reports(indexed)
  PROVE  /\ r \in Answers
         /\ r.status = "CANCELLED" => fate = "cancelled"
         /\ r.status = "FAILED" => fate \in {"rejected", "reverted"}
<1>1. CASE indexed \in {"unconfirmed", "confirmed", "relayed"}
  <2>1. indexed = "unconfirmed" => r = [status |-> "AWAITING_CONFIRMATIONS", hash |-> FALSE]
    BY DEF Reports
  <2>2. indexed = "confirmed" => r = [status |-> "AWAITING_EXECUTION", hash |-> FALSE]
    BY DEF Reports
  <2>3. indexed = "relayed" => \E s \in {"AWAITING_EXECUTION", "OTHER"} : r = [status |-> s, hash |-> TRUE]
    BY DEF Reports
  <2>4. \E s \in {"AWAITING_CONFIRMATIONS", "AWAITING_EXECUTION", "OTHER"}, h \in BOOLEAN :
          r = [status |-> s, hash |-> h]
    BY <1>1, <2>1, <2>2, <2>3, Zenon
  <2> QED BY <2>4 DEF Answers
<1>2. CASE indexed = "executed"
  <2>1. r \in [status : {"AWAITING_EXECUTION", "OTHER", "SUCCESS"}, hash : BOOLEAN]
    BY <1>2 DEF Reports
  <2> QED BY <2>1 DEF Answers
<1>3. CASE indexed = "reverted"
  <2>1. r \in [status : {"AWAITING_EXECUTION", "FAILED"}, hash : BOOLEAN] /\ fate = "reverted"
    BY <1>3 DEF Reports, FateKnown
  <2> QED BY <2>1 DEF Answers
<1>4. CASE indexed = "cancelled"
  <2>1. r = [status |-> "CANCELLED", hash |-> FALSE] /\ fate = "cancelled"
    BY <1>4 DEF Reports, FateKnown
  <2> QED BY <2>1 DEF Answers
<1>5. CASE indexed = "rejected"
  <2>1. r = [status |-> "FAILED", hash |-> FALSE] /\ fate = "rejected"
    BY <1>5 DEF Reports, FateKnown
  <2> QED BY <2>1 DEF Answers
<1>6. indexed # "none"
  BY DEF Reports
<1> QED BY <1>1, <1>2, <1>3, <1>4, <1>5, <1>6 DEF FateKnown, Fates, OnChain

(* While nothing was an outcome, any state can be published next. *)
LEMMA SetStateKeeps ==
  ASSUME Shown, safeState \notin Outcomes, NEW s \in States, setState(s), UNCHANGED txState
  PROVE  Shown'
<1>1. safeState' = s /\ published' \in {published, Append(published, s)}
  BY DEF setState
<1>2. \A i \in 1..Len(published) : published[i] \notin Outcomes
  BY DEF Shown
<1>3. published' \in Seq(States)
  BY <1>1 DEF Shown
<1>4. \A i \in 1..Len(published') : published'[i] \in Outcomes => published'[i] = s
  BY <1>1, <1>2 DEF Shown
<1>5. txState \in {"idle", "signing", "pending"}
  BY MapsToTx DEF Shown
<1> QED BY <1>1, <1>3, <1>4, <1>5 DEF Shown

LEMMA SetPollStateKeeps ==
  ASSUME Shown, safeState \notin Outcomes, NEW s \in PollStates, setPollState(s), UNCHANGED txState
  PROVE  Shown' /\ safeState' \notin Outcomes
<1>1. CASE s = safeState
  BY <1>1 DEF setPollState, Shown
<1>2. CASE s # safeState
  <2>1. setState(s) /\ safeState' = s
    BY <1>2 DEF setPollState, setState
  <2> QED BY <2>1, SetStateKeeps, MapsToTx
<1> QED BY <1>1, <1>2

(* The signers, the chain and the service. *)
LEMMA WorldKeeps ==
  ASSUME SafeInv, Decide \/ Index \/ Propose
  PROVE  SafeInv'
<1> USE DEF SafeInv
<1>1. UNCHANGED <<infoCached, safeRun, attempt, polled, safeState, failedHash, published, safeHash,
                  result, safeOpen, mirror, txState>>
  BY DEF Decide, Index, Propose, stateVars, mirrorVars
<1>2. Shown' /\ Counted' /\ Flags'
  BY <1>1 DEF Shown, Counted, Flags
<1>3. /\ fate' \in Fates
      /\ fate \in {"cancelled", "rejected", "executed", "reverted"} => fate' = fate
  BY DEF Decide, Index, Propose, FateKnown, Fates, OnChain
<1>4. indexed' \in {indexed, fate} /\ (indexed' # indexed => fate' = fate)
  BY DEF Decide, Index, Propose
<1>5. FateKnown'
  BY <1>1, <1>3, <1>4 DEF FateKnown
<1>6. Told'
  BY <1>1, <1>3 DEF Told, FailureTrue
<1> QED BY <1>2, <1>5, <1>6

(* The program fails before it has told anything. *)
LEMMA SafeFailKeeps ==
  ASSUME SafeInv, safeRun \notin {"reporting", "done"}, SafeFail,
         UNCHANGED <<fate, indexed, attempt, polled, txState>>, Flags'
  PROVE  SafeInv'
<1> USE DEF SafeInv
<1>1. /\ safeRun' = "done" /\ result' = "error" /\ safeState' = "failed"
      /\ failedHash' \in {"unknown", "safe", "onchain"} /\ setState("failed")
  BY DEF SafeFail, setState
<1>2. Shown'
  BY <1>1, SetStateKeeps DEF Told, States, Outcomes
<1>3. Told'
  BY <1>1 DEF Told, Outcomes
<1> QED BY <1>1, <1>2, <1>3 DEF FateKnown, Counted, Waiting

(* What is reported is true when it is reported. *)
LEMMA ReportKeeps ==
  ASSUME SafeInv, safeRun \in Waiting \union {"ending"},
         NEW tag \in Outcomes, NEW hash \in {"safe", "onchain"}, Report(tag, hash),
         tag = "success" => fate = "executed", tag = "cancelled" => fate = "cancelled",
         tag = "failed" => fate \in {"reverted", IF hash = "onchain" THEN "reverted" ELSE "rejected"},
         UNCHANGED <<fate, indexed, infoCached, attempt, polled, safeHash, result, safeOpen, mirror, txState>>
  PROVE  SafeInv'
<1> USE DEF SafeInv
<1>1. safeRun' = "reporting" /\ safeState' = tag /\ failedHash' = hash /\ setState(tag)
  BY DEF Report, setState
<1>2. safeRun \notin {"reporting", "done"}
  BY DEF Waiting
<1>3. Shown'
  BY <1>1, <1>2, SetStateKeeps, MapsToTx DEF Told
<1>4. Told'
  BY <1>1, <1>2 DEF Told, FailureTrue, Outcomes
<1> QED BY <1>1, <1>3, <1>4 DEF FateKnown, Counted, Flags, Waiting

(* A step of the wait that tells nothing. *)
LEMMA QuietKeeps ==
  ASSUME SafeInv, safeRun \notin {"reporting", "done"},
         safeRun' \in {"sending", "submitted", "ending"} \union Waiting,
         UNCHANGED <<fate, indexed, safeState, failedHash, published, result, txState>>,
         polled' \in {polled, NoAnswer}, Counted', Flags'
  PROVE  SafeInv'
<1> USE DEF SafeInv
<1>1. Told'
  BY DEF Told, FailureTrue, Waiting, Outcomes
<1>2. FateKnown'
  BY DEF FateKnown, NoAnswer
<1> QED BY <1>1, <1>2 DEF Shown

LEMMA NextAttemptKeeps ==
  ASSUME SafeInv, safeRun \in Waiting, NextAttempt,
         UNCHANGED <<fate, indexed, safeState, failedHash, published, result, txState>>, Flags'
  PROVE  SafeInv'
<1>1. /\ attempt' = attempt + 1 /\ polled' = NoAnswer
      /\ safeRun' = IF attempt + 1 < SafeAttempts THEN "sleeping" ELSE "ending"
  BY DEF NextAttempt
<1>2. attempt \in 0..SafeAttempts /\ attempt < SafeAttempts
  BY DEF SafeInv, Counted
<1>3. Counted'
  BY <1>1, <1>2, SafeAttemptsAssumption DEF Counted, Waiting, SafeAttemptsAssumption
<1>4. safeRun' \in {"sending", "submitted", "ending"} \union Waiting /\ safeRun \notin {"reporting", "done"}
  BY <1>1 DEF Waiting
<1> QED BY <1>1, <1>3, <1>4, QuietKeeps

LEMMA ProgramKeeps ==
  ASSUME SafeInv, SafeStart \/ sendTxs \/ sendTxsFails \/ FirstLook
  PROVE  SafeInv'
<1> USE DEF SafeInv
<1>1. CASE SafeStart
  <2>1. safeRun = "forked" /\ Flags'
    BY <1>1 DEF SafeStart, Flags, SafeFail, mirrorVars
  <2>2. CASE safeRun' = "sending" /\ UNCHANGED <<stateVars, result>>
    <3>1. Counted'
      BY <1>1, <2>1, <2>2 DEF SafeStart, Counted, Waiting
    <3> QED BY <1>1, <2>1, <2>2, <3>1, QuietKeeps DEF SafeStart, stateVars, mirrorVars, worldVars
  <2>3. CASE SafeFail
    BY <1>1, <2>1, <2>3, SafeFailKeeps DEF SafeStart, mirrorVars, worldVars
  <2> QED BY <1>1, <2>2, <2>3 DEF SafeStart
<1>2. CASE sendTxs
  <2>1. safeRun = "sending" /\ safeRun' = "submitted" /\ Flags' /\ Counted'
    BY <1>2 DEF sendTxs, Flags, Counted, mirrorVars, Waiting
  <2> QED BY <1>2, <2>1, QuietKeeps DEF sendTxs, stateVars, mirrorVars, worldVars
<1>3. CASE sendTxsFails
  <2>1. safeRun = "sending" /\ Flags'
    BY <1>3 DEF sendTxsFails, Flags, mirrorVars
  <2> QED BY <1>3, <2>1, SafeFailKeeps DEF sendTxsFails, mirrorVars, worldVars
<1>4. CASE FirstLook
  <2>1. /\ safeRun = "submitted" /\ safeRun' = "polling"
        /\ UNCHANGED <<fate, indexed, infoCached, attempt, polled, safeHash, failedHash, result,
                       safeOpen, mirror, txState>>
    BY <1>4 DEF FirstLook, worldVars, mirrorVars
  <2>2. PICK s \in PollStates : setState(s)
    BY <1>4, MapsToTx DEF FirstLook, PollStates
  <2>3. safeState' = s /\ s \notin Outcomes /\ s \in States
    BY <2>2, MapsToTx DEF setState
  <2>4. Shown'
    BY <2>1, <2>2, <2>3, SetStateKeeps DEF Told
  <2>5. Told'
    BY <2>1, <2>3 DEF Told, Waiting, Outcomes
  <2>6. FateKnown' /\ Counted' /\ Flags'
    BY <2>1, SafeAttemptsAssumption DEF FateKnown, Counted, Flags, Waiting, SafeAttemptsAssumption
  <2> QED BY <2>4, <2>5, <2>6
<1> QED BY <1>1, <1>2, <1>3, <1>4

LEMMA WaitKeeps ==
  ASSUME SafeInv, getTx \/ getTxRetried \/ getTxFails \/ Receipt \/ ReceiptNot \/ Wake
  PROVE  SafeInv'
<1> USE DEF SafeInv
<1>1. CASE getTx
  <2>1. PICK r \in Reports(indexed) : polled' = r /\ setPollState(mapStatusState(r.status))
    BY <1>1 DEF getTx
  <2>2. /\ safeRun = "polling" /\ safeRun' = "resolving"
        /\ UNCHANGED <<fate, indexed, infoCached, attempt, safeHash, failedHash, result, safeOpen,
                       mirror, txState>>
    BY <1>1 DEF getTx, worldVars, mirrorVars
  <2>3. Shown' /\ safeState' \notin Outcomes
    BY <2>1, <2>2, SetPollStateKeeps, MapsToTx DEF Told
  <2>4. FateKnown'
    BY <2>1, <2>2, ReportsTrue DEF FateKnown
  <2>5. Told'
    BY <2>2, <2>3 DEF Told, Waiting, Outcomes
  <2>6. Counted' /\ Flags'
    BY <2>2 DEF Counted, Flags, Waiting
  <2> QED BY <2>3, <2>4, <2>5, <2>6
<1>2. CASE getTxRetried \/ ReceiptNot
  <2>1. safeRun \in Waiting /\ NextAttempt /\ Flags'
    BY <1>2 DEF getTxRetried, ReceiptNot, Waiting, Flags, mirrorVars
  <2> QED BY <1>2, <2>1, NextAttemptKeeps DEF getTxRetried, ReceiptNot, stateVars, mirrorVars, worldVars
<1>3. CASE getTxFails
  <2>1. safeRun = "polling" /\ Flags'
    BY <1>3 DEF getTxFails, Flags, mirrorVars
  <2> QED BY <1>3, <2>1, SafeFailKeeps DEF getTxFails, mirrorVars, worldVars
<1>4. CASE Receipt
  <2>1. /\ safeRun \in Waiting /\ fate \in {"executed", "reverted"}
        /\ UNCHANGED <<fate, indexed, infoCached, attempt, polled, safeHash, result, safeOpen, mirror, txState>>
    BY <1>4 DEF Receipt, Waiting, worldVars, mirrorVars
  <2>2. CASE fate = "reverted"
    BY <1>4, <2>1, <2>2, ReportKeeps DEF Receipt, Outcomes
  <2>3. CASE fate = "executed"
    BY <1>4, <2>1, <2>3, ReportKeeps DEF Receipt, Outcomes
  <2> QED BY <2>1, <2>2, <2>3
<1>5. CASE Wake
  <2>1. safeRun = "sleeping" /\ safeRun' = "polling" /\ Flags' /\ Counted'
    BY <1>5 DEF Wake, Flags, Counted, Waiting, mirrorVars
  <2> QED BY <1>5, <2>1, QuietKeeps DEF Wake, stateVars, mirrorVars, worldVars, Waiting
<1> QED BY <1>1, <1>2, <1>3, <1>4, <1>5

LEMMA RunStepKeeps ==
  ASSUME SafeInv, SafeRunStep
  PROVE  SafeInv'
<1> USE DEF SafeInv
<1>1. CASE Resolve
  <2>1. /\ safeRun = "resolving" /\ safeRun \in Waiting /\ Flags'
        /\ UNCHANGED <<fate, indexed, infoCached, safeHash, result, safeOpen, mirror, txState>>
    BY <1>1 DEF Resolve, Waiting, Flags, worldVars, mirrorVars
  <2>2. CASE /\ ResolvedBy(polled) # "none"
             /\ Report(ResolvedBy(polled), "safe")
             /\ UNCHANGED <<attempt, polled>>
    <3>1. \/ ResolvedBy(polled) = "cancelled" /\ fate = "cancelled"
          \/ ResolvedBy(polled) = "failed" /\ fate \in {"rejected", "reverted"}
      BY <2>2 DEF ResolvedBy, FateKnown
    <3>2. CASE ResolvedBy(polled) = "cancelled" /\ fate = "cancelled"
      BY <2>1, <2>2, <3>2, ReportKeeps DEF Outcomes
    <3>3. CASE ResolvedBy(polled) = "failed" /\ fate \in {"rejected", "reverted"}
      BY <2>1, <2>2, <3>3, ReportKeeps DEF Outcomes
    <3> QED BY <3>1, <3>2, <3>3
  <2>3. CASE safeRun' = "receipt" /\ UNCHANGED <<attempt, polled, stateVars>>
    <3>1. Counted'
      BY <2>1, <2>3 DEF Counted, Waiting
    <3> QED BY <2>1, <2>3, <3>1, QuietKeeps DEF stateVars, Waiting
  <2>4. CASE NextAttempt /\ UNCHANGED stateVars
    BY <2>1, <2>4, NextAttemptKeeps DEF stateVars
  <2> QED BY <1>1, <2>2, <2>3, <2>4 DEF Resolve
<1>2. CASE MaxWaitOver
  <2>1. safeRun \in Waiting /\ safeRun' = "ending" /\ polled' = NoAnswer /\ Flags' /\ Counted'
    BY <1>2 DEF MaxWaitOver, Flags, Counted, Waiting, mirrorVars
  <2> QED BY <1>2, <2>1, QuietKeeps DEF MaxWaitOver, stateVars, mirrorVars, worldVars, Waiting
<1>3. CASE Queued
  BY <1>3, ReportKeeps DEF Queued, Outcomes, worldVars, mirrorVars
<1>4. CASE Reported
  <2>1. /\ safeRun = "reporting" /\ safeRun' = "done" /\ result' = safeState
        /\ UNCHANGED <<fate, indexed, infoCached, attempt, polled, safeState, failedHash, published,
                       safeHash, safeOpen, mirror, txState>>
    BY <1>4 DEF Reported, worldVars, stateVars, mirrorVars
  <2>2. Told'
    BY <2>1 DEF Told, FailureTrue, Outcomes
  <2> QED BY <2>1, <2>2 DEF FateKnown, Shown, Counted, Flags, Waiting
<1>5. CASE Finalize
  <2>1. /\ safeRun # "done" /\ safeRun' = "done" /\ result' = "interrupted"
        /\ UNCHANGED <<fate, indexed, infoCached, attempt, polled, safeState, failedHash, published,
                       safeHash, safeOpen, mirror, txState>>
    BY <1>5 DEF Finalize, worldVars, stateVars, mirrorVars
  <2>2. Told'
    BY <2>1 DEF Told, Outcomes
  <2> QED BY <2>1, <2>2 DEF FateKnown, Shown, Counted, Flags, Waiting
<1> QED BY <1>1, <1>2, <1>3, <1>4, <1>5 DEF SafeRunStep

LEMMA MirrorKeeps ==
  ASSUME SafeInv, SafeMirrorStep \/ CloseSafeScope
  PROVE  SafeInv'
<1> USE DEF SafeInv
<1>1. UNCHANGED <<fate, indexed, infoCached, safeRun, attempt, polled, safeState, failedHash,
                  safeHash, result>>
  BY DEF SafeMirrorStep, Subscribe, Forward, CloseSafeScope, worldVars, stateVars
<1>2. FateKnown' /\ Told' /\ Counted' /\ Flags'
  <2>1. FateKnown' /\ Counted'
    BY <1>1 DEF FateKnown, Counted
  <2>2. Told'
    BY <1>1 DEF Told, FailureTrue
  <2>3. safeHash' \in BOOLEAN /\ safeOpen' \in BOOLEAN /\ mirror' \in {"off", "on"}
    BY <1>1 DEF Flags, SafeMirrorStep, Subscribe, Forward, CloseSafeScope, mirrorVars
  <2> QED BY <1>1, <2>1, <2>2, <2>3 DEF Flags
<1>3. CASE Subscribe
  <2>1. published' = <<safeState>> /\ UNCHANGED txState
    BY <1>3 DEF Subscribe
  <2> QED BY <1>1, <1>2, <2>1 DEF Shown
<1>4. CASE Forward
  <2>1. /\ published # <<>> /\ published' = Tail(published)
        /\ txState' = mapSafeStateToTxState(Head(published))
    BY <1>4 DEF Forward
  <2>2. /\ published' \in Seq(States) /\ Head(published) \in States /\ Head(published) = published[1]
        /\ Len(published') = Len(published) - 1 /\ Len(published) \in Nat \ {0}
        /\ \A i \in 1..Len(published') : published'[i] = published[i + 1]
    BY <2>1, HeadTailProperties, EmptySeq DEF Shown
  <2>3. \A i \in 1..Len(published') : published'[i] \in Outcomes => published'[i] = safeState
    BY <2>2 DEF Shown
  <2>4. Head(published) \in Outcomes => Head(published) = safeState
    BY <2>2 DEF Shown
  <2>5. /\ txState' \in TxNames
        /\ txState' \notin {"idle", "signing", "pending"} => txState' = mapSafeStateToTxState(safeState)
    BY <2>1, <2>2, <2>4, MapsToTx
  <2> QED BY <1>1, <1>2, <2>2, <2>3, <2>5 DEF Shown
<1>5. CASE CloseSafeScope
  BY <1>1, <1>2, <1>5 DEF CloseSafeScope, mirrorVars, stateVars, Shown
<1> QED BY <1>3, <1>4, <1>5 DEF SafeMirrorStep

(* A success is an execution, a cancellation and a failure are final, and the
   result, the Safe's state and the TxState never tell different stories, for
   any number of attempts and whenever the service learns what happened:
   SafeOutcomeTrue. *)
THEOREM SafeOutcomeIsTrue == SafeSpec => []SafeOutcomeTrue
<1>1. SafeInit => SafeInv
  <2> SUFFICES ASSUME SafeInit PROVE SafeInv
    OBVIOUS
  <2>1. FateKnown
    BY DEF SafeInit, FateKnown, Fates, NoAnswer
  <2>2. Shown /\ Told
    BY DEF SafeInit, Shown, Told, States, TxNames, Waiting, Outcomes
  <2>3. Counted
    BY SafeAttemptsAssumption DEF SafeInit, Counted, Waiting, SafeAttemptsAssumption
  <2>4. Flags
    BY DEF SafeInit, Flags
  <2> QED BY <2>1, <2>2, <2>3, <2>4 DEF SafeInv
<1>2. SafeInv /\ [SafeNext]_safeVars => SafeInv'
  <2> SUFFICES ASSUME SafeInv, [SafeNext]_safeVars PROVE SafeInv'
    OBVIOUS
  <2>1. CASE UNCHANGED safeVars
    BY <2>1 DEF safeVars, worldVars, stateVars, mirrorVars, SafeInv, FateKnown, Shown, Told,
                FailureTrue, Counted, Flags
  <2> QED
    BY <2>1, WorldKeeps, ProgramKeeps, WaitKeeps, RunStepKeeps, MirrorKeeps DEF SafeNext
<1>3. SafeInv => SafeOutcomeTrue
  BY DEF SafeInv, FateKnown, Shown, Told, FailureTrue, Counted, Flags, States, TxNames,
         SafeOutcomeTrue, SafeTypeOK
<1> QED BY <1>1, <1>2, <1>3, PTL DEF SafeSpec

----------------------------------------------------------------------------
(* Solana.  Once a poll has seen the blockhash expire, at another commitment
   than "processed", a transaction that made it is at most StatusLag away from
   being seen: it reached the commitment no later than the poll saw it expire. *)

Places == {"todo", "built", "sent"} \union Polling \union SolEnded

ExpirySeen(t) ==
    /\ t \in expired => chain[t] # "processed"
    /\ expiredAt[t] >= 0 /\ commitment # "processed" =>
         /\ t \in expired /\ (commitment = "finalized" => chain[t] # "confirmed")
         /\ Reached(t) => settledFor[t] = StatusLag \/ settledFor[t] >= expiredAt[t]

EndTrue(t) ==
    /\ at[t] = "receipt" =>
         IF commitment = "processed" THEN chain[t] \in {"lost"} \union Commitments
         ELSE Reached(t) /\ t \notin errs
    /\ at[t] = "expired" /\ commitment # "processed" =>
         t \in expired /\ chain[t] \notin Commitments

InOrder ==
    /\ batch \in {"building", "signing"} => \A t \in Txs : chain[t] = "unknown"
    /\ batch \in {"signing", "sending", "confirming", "ok"} => \A t \in Txs : at[t] # "todo"
    /\ \A t, u \in Txs : chain[t] # "unknown" =>
         at[u] # "todo" /\ (sequential /\ u < t => at[u] # "built")
    /\ batch = "ok" => \A t \in Txs : at[t] = "receipt"

SolInv ==
    /\ SolTypeOK /\ InOrder
    /\ \A t \in Txs : ExpirySeen(t) /\ EndTrue(t)

LEMMA SolTypes ==
  ASSUME SolTypeOK
  PROVE  /\ at \in [Txs -> Places] /\ chain \in [Txs -> ChainStates]
         /\ expiredAt \in [Txs -> -1..Grace] /\ settledFor \in [Txs -> 0..StatusLag]
         /\ sends \in [Txs -> 0..SendRetries] /\ errs \in SUBSET Txs /\ expired \in SUBSET Txs
         /\ batch \in {"building", "signing", "sending", "confirming", "ok", "failed"}
         /\ sequential \in BOOLEAN /\ commitment \in Commitments
  BY DEF SolTypeOK, Places

(* What the cluster does: it never takes what has expired, and what has reached
   the commitment stays there, but at "processed". *)
LEMMA ClusterKeeps ==
  ASSUME SolInv, NEW t \in Txs, Take(t) \/ ForkEnds(t) \/ Settle(t) \/ Expire(t)
  PROVE  SolInv'
<1> USE DEF SolInv, opts, programVars
<1>1. UNCHANGED <<batch, sequential, commitment, at, sends, expiredAt>>
  BY DEF Take, ForkEnds, Settle, Expire
<1>2. CASE Take(t) \/ ForkEnds(t) \/ Settle(t)
  <2>1. /\ expired' = expired
        /\ \/ chain' = [chain EXCEPT ![t] = "processed"] /\ chain[t] \in {"pool", "lost"} /\ t \notin expired
              /\ UNCHANGED <<errs, settledFor>>
           \/ chain' = [chain EXCEPT ![t] = "confirmed"] /\ chain[t] = "processed"
              /\ errs' \in {errs, errs \union {t}} /\ UNCHANGED settledFor
           \/ chain' = [chain EXCEPT ![t] = "lost"] /\ chain[t] = "processed"
              /\ settledFor' = [settledFor EXCEPT ![t] = 0] /\ UNCHANGED errs
           \/ chain' = [chain EXCEPT ![t] = "finalized"] /\ chain[t] = "confirmed"
              /\ UNCHANGED <<errs, settledFor>>
    BY <1>2 DEF Take, ForkEnds, Settle
  <2>2. /\ chain' \in [Txs -> ChainStates]
        /\ \A u \in Txs : u # t => chain'[u] = chain[u]
        /\ chain'[t] # "unknown" /\ chain[t] # "unknown"
    BY <2>1, SolTypes DEF ChainStates, Commitments
  <2>3. settledFor' \in [Txs -> 0..StatusLag] /\ errs' \in SUBSET Txs
    BY <2>1, SolTypes, SolanaAssumption DEF SolanaAssumption
  <2>4. SolTypeOK'
    BY <1>1, <2>1, <2>2, <2>3 DEF SolTypeOK
  <2>5. InOrder'
    BY <1>1, <2>2 DEF InOrder
  <2>6. ASSUME NEW u \in Txs, u # t PROVE ExpirySeen(u)' /\ EndTrue(u)'
    <3>1. UNCHANGED <<chain[u], settledFor[u]>> /\ (u \in errs' <=> u \in errs)
      BY <2>1, <2>2, <2>6, SolTypes
    <3> QED BY <1>1, <2>1, <3>1 DEF ExpirySeen, EndTrue, Reached, Wanted
  <2>7. ExpirySeen(t)'
    <3>1. expiredAt[t] >= 0 /\ commitment # "processed" => chain[t] # "processed"
      BY DEF ExpirySeen
    <3>2. CASE chain' = [chain EXCEPT ![t] = "processed"] /\ t \notin expired
      BY <1>1, <2>1, <2>2, <3>2, SolTypes DEF ExpirySeen, Reached, Wanted
    <3>3. CASE chain[t] = "processed"
      BY <1>1, <2>1, <3>1, <3>3, SolTypes DEF ExpirySeen
    <3>4. CASE chain' = [chain EXCEPT ![t] = "finalized"] /\ chain[t] = "confirmed" /\ UNCHANGED settledFor
      <4>1. chain'[t] = "finalized"
        BY <3>4, SolTypes
      <4>2. commitment = "confirmed" => Reached(t)
        BY <3>4 DEF Reached, Wanted
      <4> QED BY <1>1, <2>1, <3>4, <4>1, <4>2, SolTypes DEF ExpirySeen, Commitments
    <3> QED BY <2>1, <3>2, <3>3, <3>4
  <2>8. EndTrue(t)'
    <3>1. commitment # "processed" => ~(Reached(t) /\ chain[t] = "processed")
      BY SolTypes DEF Reached, Wanted, Commitments
    <3>2. CASE chain' = [chain EXCEPT ![t] = "processed"] /\ chain[t] \in {"pool", "lost"} /\ t \notin expired
      <4>1. commitment # "processed" => ~Reached(t)
        BY <3>2, SolTypes DEF Reached, Wanted, Commitments
      <4>2. chain'[t] = "processed"
        BY <3>2, SolTypes
      <4> QED BY <1>1, <2>1, <3>2, <4>1, <4>2 DEF EndTrue, Commitments
    <3>3. CASE chain[t] = "processed"
      <4>1. chain'[t] \in {"lost", "confirmed"} /\ chain[t] \in Commitments
        BY <2>1, <3>3, SolTypes DEF Commitments
      <4> QED BY <1>1, <3>1, <3>3, <4>1 DEF EndTrue, Commitments
    <3>4. CASE chain' = [chain EXCEPT ![t] = "finalized"] /\ chain[t] = "confirmed" /\ UNCHANGED errs
      <4>1. chain'[t] = "finalized" /\ chain[t] \in Commitments
        BY <3>4, SolTypes DEF Commitments
      <4>2. Reached(t)'
        BY <1>1, <4>1, SolTypes DEF Reached, Wanted, Commitments
      <4> QED BY <1>1, <2>1, <3>4, <4>1, <4>2 DEF EndTrue, Commitments
    <3> QED BY <2>1, <3>2, <3>3, <3>4
  <2> QED BY <2>4, <2>5, <2>6, <2>7, <2>8
<1>3. CASE Expire(t)
  <2>1. expired' = expired \union {t} /\ chain[t] # "processed" /\ UNCHANGED <<chain, errs, settledFor>>
    BY <1>3 DEF Expire
  <2>2. SolTypeOK' /\ InOrder'
    BY <1>1, <2>1 DEF SolTypeOK, InOrder
  <2>3. ASSUME NEW u \in Txs PROVE ExpirySeen(u)' /\ EndTrue(u)'
    BY <1>1, <2>1 DEF ExpirySeen, EndTrue, Reached, Wanted
  <2> QED BY <2>2, <2>3
<1> QED BY <1>2, <1>3

LEMMA TickKeeps ==
  ASSUME SolInv, SolTick
  PROVE  SolInv'
<1> USE DEF SolInv
<1>1. UNCHANGED <<batch, sequential, commitment, at, sends, errs, chain, expired>>
  BY DEF SolTick, programVars, opts
<1>2. /\ settledFor' = [t \in Txs |-> IF Reached(t) /\ settledFor[t] < StatusLag
                                        THEN settledFor[t] + 1 ELSE settledFor[t]]
      /\ expiredAt' = [t \in Txs |-> IF expiredAt[t] \in 0..Grace - 1
                                       THEN expiredAt[t] + 1 ELSE expiredAt[t]]
  BY DEF SolTick
<1>3. settledFor' \in [Txs -> 0..StatusLag] /\ expiredAt' \in [Txs -> -1..Grace]
  BY <1>2, SolTypes, SolanaAssumption DEF SolanaAssumption
<1>4. SolTypeOK' /\ InOrder'
  BY <1>1, <1>3 DEF SolTypeOK, InOrder
<1>5. ASSUME NEW t \in Txs PROVE ExpirySeen(t)' /\ EndTrue(t)'
  <2>1. expiredAt'[t] >= 0 => expiredAt[t] >= 0 /\ expiredAt'[t] <= expiredAt[t] + 1
    BY <1>2, SolTypes, SolanaAssumption DEF SolanaAssumption
  <2>2. Reached(t) =>
          settledFor'[t] = StatusLag \/ (settledFor[t] # StatusLag /\ settledFor'[t] = settledFor[t] + 1)
    BY <1>2, SolTypes, SolanaAssumption DEF SolanaAssumption
  <2>3. /\ expiredAt[t] \in -1..Grace /\ expiredAt'[t] \in -1..Grace /\ settledFor[t] \in 0..StatusLag
        /\ settledFor'[t] \in 0..StatusLag /\ StatusLag \in Nat /\ Grace \in Nat
    BY <1>3, SolTypes, SolanaAssumption DEF SolanaAssumption
  <2>4. Reached(t)' <=> Reached(t)
    BY <1>1 DEF Reached, Wanted
  <2>5. ExpirySeen(t)'
    BY <1>1, <2>1, <2>2, <2>3, <2>4 DEF ExpirySeen
  <2> QED BY <1>1, <2>4, <2>5 DEF EndTrue
<1> QED BY <1>4, <1>5

(* The program does not move a transaction to where it is wanted. *)
LEMMA ReachedKeeps ==
  ASSUME SolTypeOK, NEW t \in Txs, commitment' = commitment,
         chain'[t] = chain[t] \/ (chain[t] = "unknown" /\ chain'[t] = "pool")
  PROVE  Reached(t)' <=> Reached(t)
<1>1. Wanted' = Wanted
  BY DEF Wanted
<1>2. Wanted \subseteq Commitments
  BY SolTypes DEF Wanted, Commitments
<1> QED BY <1>1, <1>2 DEF Reached, Commitments

(* A step of the program moves one transaction from the phase it is in, to a
   place where it is not built again, and ends with what is true. *)
LEMMA EndWithKeeps ==
  ASSUME SolInv, NEW t \in Txs, NEW place \in SolEnded \ {"receipt"}, EndWith(t, place),
         place = "expired" /\ commitment # "processed" => t \in expired /\ chain[t] \notin Commitments,
         UNCHANGED <<sequential, commitment, expiredAt, errs, expired, settledFor, sends>>,
         chain' = chain \/ (chain' = [chain EXCEPT ![t] = "pool"] /\ chain[t] = "unknown"
                            /\ t \notin expired /\ (\A u \in Txs : at[u] # "todo")
                            /\ (\A u \in Txs : sequential /\ u < t => at[u] # "built"))
  PROVE  SolInv'
<1> USE DEF SolInv
<1>1. at' = [at EXCEPT ![t] = place] /\ batch' = "failed"
  BY DEF EndWith, SolGoTo
<1>2. /\ at' \in [Txs -> Places] /\ chain' \in [Txs -> ChainStates]
      /\ place \notin {"todo", "built", "receipt"}
  BY <1>1, SolTypes DEF Places, SolEnded, ChainStates
<1>3. SolTypeOK'
  BY <1>1, <1>2 DEF SolTypeOK, Places
<1>4. InOrder'
  BY <1>1, <1>2, SolTypes DEF InOrder
<1>5. ASSUME NEW u \in Txs PROVE ExpirySeen(u)' /\ EndTrue(u)'
  <2>1. chain'[u] = chain[u] \/ (chain[u] = "unknown" /\ chain'[u] = "pool")
    BY SolTypes
  <2>2. Reached(u)' <=> Reached(u)
    BY <2>1, ReachedKeeps
  <2>3. EndTrue(u)'
    BY <1>1, <1>2, <2>1, <2>2, SolTypes DEF EndTrue, Commitments
  <2> QED BY <2>1, <2>2, <2>3 DEF ExpirySeen
<1> QED BY <1>3, <1>4, <1>5

LEMMA MoveOnKeeps ==
  ASSUME SolInv, NEW t \in Txs, NEW place \in Polling, SolGoTo(t, place), batch = "confirming",
         UNCHANGED <<batch, sequential, commitment, sends, errs, chain, expired, settledFor>>,
         expiredAt' = expiredAt \/ (MayBePast(t) /\ expiredAt' = [expiredAt EXCEPT ![t] = 0])
  PROVE  SolInv'
<1> USE DEF SolInv
<1>1. at' = [at EXCEPT ![t] = place] /\ place \notin {"todo", "built", "receipt", "expired"}
  BY DEF SolGoTo, Polling
<1>2. at' \in [Txs -> Places] /\ expiredAt' \in [Txs -> -1..Grace]
  BY <1>1, SolTypes, SolanaAssumption DEF Places, SolanaAssumption
<1>3. SolTypeOK'
  BY <1>2 DEF SolTypeOK, Places
<1>4. InOrder'
  BY <1>1, SolTypes DEF InOrder
<1>5. ASSUME NEW u \in Txs PROVE ExpirySeen(u)' /\ EndTrue(u)'
  <2> Reached(u)' <=> Reached(u)
    BY ReachedKeeps
  <2>1. EndTrue(u)'
    BY <1>1, SolTypes DEF EndTrue
  <2>2. ExpirySeen(u)'
    BY SolTypes, SolanaAssumption DEF ExpirySeen, SolanaAssumption, MayBePast
  <2> QED BY <2>1, <2>2
<1> QED BY <1>3, <1>4, <1>5

LEMMA BuildKeeps ==
  ASSUME SolInv, NEW t \in Txs, build(t)
  PROVE  SolInv'
<1> USE DEF SolInv
<1>1. batch = "building" /\ at[t] = "todo" /\ UNCHANGED <<sequential, commitment, sends, expiredAt, errs, chain, expired, settledFor>>
  BY DEF build, clusterVars, opts
<1>2. CASE EndWith(t, "failed")
  BY <1>1, <1>2, EndWithKeeps DEF SolEnded
<1>3. CASE /\ SolGoTo(t, "built")
           /\ batch' = IF \A u \in Txs \ {t} : at[u] = "built" THEN "signing" ELSE batch
  <2>1. at' = [at EXCEPT ![t] = "built"] /\ at' \in [Txs -> Places] /\ batch' \in {"building", "signing"}
    BY <1>1, <1>3, SolTypes DEF SolGoTo, Places
  <2>2. SolTypeOK'
    BY <1>1, <2>1 DEF SolTypeOK, Places
  <2>3. batch' = "signing" => \A u \in Txs : at'[u] = "built"
    BY <1>1, <1>3, <2>1, SolTypes
  <2>4. InOrder'
    BY <1>1, <2>1, <2>3 DEF InOrder
  <2>5. ASSUME NEW u \in Txs PROVE ExpirySeen(u)' /\ EndTrue(u)'
    BY <1>1, <2>1, SolTypes, ReachedKeeps DEF ExpirySeen, EndTrue
  <2> QED BY <2>2, <2>4, <2>5
<1> QED BY <1>2, <1>3 DEF build

LEMMA SendKeeps ==
  ASSUME SolInv, NEW t \in Txs, send(t)
  PROVE  SolInv'
<1> USE DEF SolInv
<1>1. /\ batch = "sending" /\ at[t] = "built"
      /\ UNCHANGED <<sequential, commitment, expiredAt, errs, expired, settledFor>>
      /\ \A u \in Txs : at[u] # "todo"
      /\ \A u \in Txs : sequential /\ u < t => at[u] # "built"
  BY DEF send, MayWork, InOrder, Txs, opts
<1>2. chain' = chain \/ (chain' = [chain EXCEPT ![t] = "pool"] /\ chain[t] = "unknown" /\ t \notin expired)
  BY DEF send
<1>3. \/ UNCHANGED <<batch, at>> /\ sends[t] < SendRetries /\ sends' = [sends EXCEPT ![t] = @ + 1]
      \/ EndWith(t, "failed") /\ UNCHANGED sends
      \/ batch' = "confirming" /\ at' = [u \in Txs |-> "status"] /\ sends' = [sends EXCEPT ![t] = 0]
      \/ SolGoTo(t, "sent") /\ UNCHANGED batch /\ sends' = [sends EXCEPT ![t] = 0]
  BY DEF send
<1>4. CASE EndWith(t, "failed") /\ UNCHANGED sends
  BY <1>1, <1>2, <1>4, EndWithKeeps DEF SolEnded
<1>5. CASE ~(EndWith(t, "failed") /\ UNCHANGED sends)
  <2>1. /\ at' \in [Txs -> Places] /\ batch' \in {"sending", "confirming"}
        /\ \A u \in Txs : at'[u] # "todo" /\ (at'[u] = "built" => at[u] = "built")
        /\ \A u \in Txs : at'[u] \in {"receipt", "expired"} => at'[u] = at[u]
    BY <1>1, <1>3, <1>5, SolTypes DEF SolGoTo, Places, Polling
  <2>2. sends' \in [Txs -> 0..SendRetries]
    BY <1>3, <1>5, SolTypes, SolanaAssumption DEF SolanaAssumption
  <2>3. chain' \in [Txs -> ChainStates]
    BY <1>2, SolTypes DEF ChainStates
  <2>4. SolTypeOK'
    BY <1>1, <2>1, <2>2, <2>3 DEF SolTypeOK, Places
  <2>5. InOrder'
    BY <1>1, <1>2, <2>1, SolTypes DEF InOrder
  <2>6. ASSUME NEW u \in Txs PROVE ExpirySeen(u)' /\ EndTrue(u)'
    <3>1. chain'[u] = chain[u] \/ (chain[u] = "unknown" /\ chain'[u] = "pool")
      BY <1>2, SolTypes
    <3>2. Reached(u)' <=> Reached(u)
      BY <1>1, <3>1, ReachedKeeps
    <3>3. EndTrue(u)'
      BY <1>1, <2>1, <3>1, <3>2 DEF EndTrue, Commitments
    <3> QED BY <1>1, <3>1, <3>2, <3>3 DEF ExpirySeen
  <2> QED BY <2>4, <2>5, <2>6
<1> QED BY <1>4, <1>5

(* A status that reached the confirmation is of a transaction that a fork took,
   and at another commitment than "processed" of one that succeeded and is where
   it is wanted; any other answer but "error" is given only while the node may
   be behind. *)
LEMMA StatusesTrue ==
  ASSUME SolTypeOK, NEW t \in Txs, NEW s \in Statuses(t)
  PROVE  /\ s \in Commitments /\ HasReachedConfirmation(s) =>
              IF commitment = "processed" THEN chain[t] \in {"lost"} \union Commitments
              ELSE Reached(t) /\ t \notin errs
         /\ s = "null" \/ (s \in Commitments /\ ~HasReachedConfirmation(s)) =>
              ~(Reached(t) /\ settledFor[t] = StatusLag)
<1> DEFINE known == IF Reached(t) /\ settledFor[t] = StatusLag
                     THEN Levels(t) \intersect Wanted
                     ELSE {"null"} \union Levels(t)
<1>1. s # "error" => s \in known /\ (s \in {"null", "processed"} \/ t \notin errs)
  BY DEF Statuses
<1>2. Levels(t) \subseteq Commitments /\ Wanted \subseteq Commitments /\ commitment \in Commitments
      /\ "null" \notin Commitments /\ "error" \notin Commitments
  BY SolTypes DEF Levels, Wanted, Commitments
<1>3. ASSUME s \in Commitments, HasReachedConfirmation(s)
      PROVE  IF commitment = "processed" THEN chain[t] \in {"lost"} \union Commitments
             ELSE Reached(t) /\ t \notin errs
  <2>1. s \in Levels(t) /\ (s = "processed" \/ t \notin errs)
    BY <1>1, <1>2, <1>3
  <2>2. /\ chain[t] \in {"lost"} \union Commitments
        /\ s = "confirmed" => chain[t] \in {"confirmed", "finalized"}
        /\ s = "finalized" => chain[t] = "finalized"
    BY <2>1, SolTypes DEF Levels, Commitments, ChainStates
  <2>3. CASE commitment # "processed"
    <3>1. /\ s \in {"confirmed", "finalized"}
          /\ commitment = "confirmed" \/ (commitment = "finalized" /\ s = "finalized")
      BY <1>3, <2>3 DEF HasReachedConfirmation
    <3>2. Reached(t)
      BY <2>2, <3>1 DEF Reached, Wanted
    <3> QED BY <2>1, <2>3, <3>1, <3>2
  <2> QED BY <2>2, <2>3
<1>4. ASSUME s = "null" \/ (s \in Commitments /\ ~HasReachedConfirmation(s)),
             Reached(t), settledFor[t] = StatusLag
      PROVE  FALSE
  <2>1. s \in Wanted
    BY <1>1, <1>2, <1>4
  <2> QED BY <1>2, <1>4, <2>1 DEF Wanted, HasReachedConfirmation, Commitments
<1> QED BY <1>3, <1>4

LEMMA PollKeeps ==
  ASSUME SolInv, NEW t \in Txs, checkSignatureStatus(t)
  PROVE  SolInv'
<1> USE DEF SolInv
<1>1. /\ batch = "confirming"
      /\ UNCHANGED <<sequential, commitment, sends, expiredAt, errs, chain, expired, settledFor>>
  BY DEF checkSignatureStatus, Confirms, clusterVars, opts
<1>2. PICK s \in Statuses(t) :
        \/ s = "error" /\ EndWith(t, "failed")
        \/ /\ s \in Commitments /\ HasReachedConfirmation(s)
           /\ SolGoTo(t, "receipt")
           /\ batch' = IF \A u \in Txs \ {t} : at[u] = "receipt" THEN "ok" ELSE batch
        \/ (s = "null" \/ (s \in Commitments /\ ~HasReachedConfirmation(s))) /\ KeepPolling(t)
  BY DEF checkSignatureStatus
<1>3. CASE EndWith(t, "failed")
  BY <1>1, <1>3, EndWithKeeps DEF SolEnded
<1>4. CASE /\ s \in Commitments /\ HasReachedConfirmation(s)
           /\ SolGoTo(t, "receipt")
           /\ batch' = IF \A u \in Txs \ {t} : at[u] = "receipt" THEN "ok" ELSE batch
  <2>1. /\ at' = [at EXCEPT ![t] = "receipt"] /\ at' \in [Txs -> Places]
        /\ batch' \in {"confirming", "ok"}
        /\ batch' = "ok" => \A u \in Txs : at'[u] = "receipt"
    BY <1>1, <1>4, SolTypes DEF SolGoTo, Places, SolEnded
  <2>2. SolTypeOK'
    BY <1>1, <2>1 DEF SolTypeOK, Places
  <2>3. InOrder'
    BY <1>1, <2>1, SolTypes DEF InOrder
  <2>4. ASSUME NEW u \in Txs PROVE ExpirySeen(u)' /\ EndTrue(u)'
    <3>1. Reached(u)' <=> Reached(u)
      BY <1>1, ReachedKeeps
    <3>2. EndTrue(u)'
      BY <1>1, <1>4, <2>1, <3>1, StatusesTrue, SolTypes DEF EndTrue
    <3> QED BY <1>1, <3>1, <3>2 DEF ExpirySeen
  <2> QED BY <2>2, <2>3, <2>4
<1>5. CASE (s = "null" \/ (s \in Commitments /\ ~HasReachedConfirmation(s))) /\ KeepPolling(t)
  <2>1. CASE EndWith(t, "expired") /\ expiredAt[t] >= Grace
    <3>1. /\ expiredAt[t] \in -1..Grace /\ settledFor[t] \in 0..StatusLag /\ StatusLag < Grace
          /\ StatusLag \in Nat /\ Grace \in Nat
      BY SolTypes, SolanaAssumption DEF SolanaAssumption
    <3>2. ASSUME commitment # "processed" PROVE t \in expired /\ chain[t] \notin Commitments
      <4>1. t \in expired /\ chain[t] # "processed" /\ (commitment = "finalized" => chain[t] # "confirmed")
        BY <2>1, <3>1, <3>2 DEF ExpirySeen
      <4>2. ~Reached(t)
        BY <1>5, <2>1, <3>1, <3>2, StatusesTrue DEF ExpirySeen
      <4> QED BY <3>2, <4>1, <4>2, SolTypes DEF Reached, Wanted, Commitments
    <3> QED BY <1>1, <2>1, <3>2, EndWithKeeps DEF SolEnded
  <2>2. CASE \E place \in Polling : SolGoTo(t, place) /\ UNCHANGED batch
    BY <1>1, <2>2, MoveOnKeeps
  <2> QED BY <1>5, <2>1, <2>2 DEF KeepPolling, Polling
<1> QED BY <1>2, <1>3, <1>4, <1>5

LEMMA HeightKeeps ==
  ASSUME SolInv, NEW t \in Txs, getExpiredAt(t)
  PROVE  SolInv'
<1>1. /\ batch = "confirming" /\ SolGoTo(t, "sleep")
      /\ UNCHANGED <<batch, sequential, commitment, sends, errs, chain, expired, settledFor>>
      /\ expiredAt' = expiredAt \/ (MayBePast(t) /\ expiredAt' = [expiredAt EXCEPT ![t] = 0])
  BY DEF getExpiredAt, Confirms, clusterVars, opts
<1> QED BY <1>1, MoveOnKeeps DEF Polling

LEMMA OtherKeeps ==
  ASSUME SolInv, NEW t \in Txs, RequestFails(t) \/ PollAgain(t) \/ ConfirmTimeout(t)
  PROVE  SolInv'
<1>1. UNCHANGED <<sequential, commitment, sends, expiredAt, errs, chain, expired, settledFor>>
  BY DEF RequestFails, PollAgain, ConfirmTimeout, clusterVars, opts
<1>2. CASE RequestFails(t)
  BY <1>1, <1>2, EndWithKeeps DEF RequestFails, SolEnded
<1>3. CASE PollAgain(t)
  BY <1>1, <1>3, MoveOnKeeps DEF PollAgain, Confirms, Polling
<1>4. CASE ConfirmTimeout(t)
  BY <1>1, <1>4, EndWithKeeps DEF ConfirmTimeout, SolEnded
<1> QED BY <1>2, <1>3, <1>4

(* At commitment "confirmed" or "finalized" a receipt is for a transaction that
   succeeded for good and "expired" for one that never will be executed; at
   "processed" a receipt is for one that some fork took; and nothing reaches the
   cluster out of order: for any batch, any of the three commitments, any number
   of retries, and any lag of the nodes that the grace period exceeds:
   SolOutcomeTrue. *)
THEOREM SolOutcomeIsTrue == SolSpec => []SolOutcomeTrue
<1>1. SolInit => SolInv
  <2> SUFFICES ASSUME SolInit PROVE SolInv
    OBVIOUS
  <2>1. SolTypeOK
    BY SolanaAssumption DEF SolInit, SolTypeOK, SolanaAssumption, ChainStates
  <2>2. InOrder /\ \A t \in Txs : ExpirySeen(t) /\ EndTrue(t)
    BY DEF SolInit, InOrder, ExpirySeen, EndTrue
  <2> QED BY <2>1, <2>2 DEF SolInv
<1>2. SolInv /\ [SolNext]_solVars => SolInv'
  <2> SUFFICES ASSUME SolInv, [SolNext]_solVars PROVE SolInv'
    OBVIOUS
  <2>1. CASE UNCHANGED solVars
    BY <2>1 DEF solVars, clusterVars, opts, SolInv, SolTypeOK, InOrder, ExpirySeen, EndTrue, Reached, Wanted
  <2>2. CASE signAll
    <3>1. batch = "signing" /\ batch' \in {"sending", "failed"}
          /\ UNCHANGED <<sequential, commitment, at, sends, expiredAt, errs, chain, expired, settledFor>>
      BY <2>2 DEF signAll, clusterVars, opts
    <3> QED BY <3>1 DEF SolInv, SolTypeOK, InOrder, ExpirySeen, EndTrue, Reached, Wanted
  <2> QED
    BY <2>1, <2>2, TickKeeps, ClusterKeeps, BuildKeeps, SendKeeps, PollKeeps, HeightKeeps, OtherKeeps
       DEF SolNext
<1>3. SolInv => SolOutcomeTrue
  BY DEF SolInv, InOrder, EndTrue, SolOutcomeTrue
<1> QED BY <1>1, <1>2, <1>3, PTL DEF SolSpec

----------------------------------------------------------------------------
(* Refusals.  Errors do not change while a call is under way; what they hold
   are errors. *)

ErrorsOK ==
    /\ kind \in [Errs -> {"error", "Cause"}] /\ mark \in [Errs -> Marks]
    /\ cause \in [Errs -> Errs \union {NoErr}] /\ others \in [Errs -> SUBSET Errs]
    /\ \A e \in Errs : kind[e] = "Cause" => cause[e] # NoErr

LEMMA HeldAreErrors ==
  ASSUME ErrorsOK, NEW e \in Errs
  PROVE  Held(e) \subseteq Errs
<1>1. cause[e] \in Errs \union {NoErr} /\ others[e] \subseteq Errs
  BY DEF ErrorsOK
<1>2. CASE kind[e] = "Cause"
  BY <1>2 DEF ErrorsOK, Held
<1>3. CASE kind[e] # "Cause" /\ cause[e] # NoErr /\ kind[cause[e]] = "Cause"
  BY <1>1, <1>3 DEF ErrorsOK, Held
<1>4. CASE kind[e] # "Cause" /\ ~(cause[e] # NoErr /\ kind[cause[e]] = "Cause")
  BY <1>1, <1>4 DEF Held
<1> QED
  BY <1>2, <1>3, <1>4

(* What the search has found at a depth, given what it finds one deeper. *)
FoundAt(these, deeper) == [x \in Errs |-> x \in these \/ \E y \in Held(x) : deeper[y]]
NoneFound == [x \in Errs |-> FALSE]
Search(these) ==
    CHOOSE f : f = [depth \in 0..MaxDepth + 1 |->
                      IF depth > MaxDepth THEN NoneFound ELSE FoundAt(these, f[depth + 1])]

LEMMA SearchExists ==
  ASSUME NEW these
  PROVE  /\ Search(these) = [depth \in 0..MaxDepth + 1 |->
                IF depth > MaxDepth THEN NoneFound ELSE FoundAt(these, Search(these)[depth + 1])]
         /\ \A e : FoundWithin(these, e) = Search(these)[0][e]
<1> DEFINE next(f, depth) == IF depth > MaxDepth THEN NoneFound ELSE FoundAt(these, f[depth + 1])
           Defined == {n \in Nat : n <= MaxDepth + 1 =>
                         \E f : f = [depth \in MaxDepth + 1 - n..MaxDepth + 1 |-> next(f, depth)]}
<1>0. MaxDepth \in Nat
  BY RejectionAssumption DEF RejectionAssumption
<1>1. 0 \in Defined
  <2> DEFINE f == [depth \in MaxDepth + 1..MaxDepth + 1 |-> NoneFound]
  <2>1. f = [depth \in MaxDepth + 1 - 0..MaxDepth + 1 |-> next(f, depth)]
    BY <1>0
  <2> HIDE DEF f
  <2> QED
    BY <2>1
<1>2. ASSUME NEW n \in Nat, n \in Defined
      PROVE  n + 1 \in Defined
  <2> SUFFICES ASSUME n + 1 <= MaxDepth + 1
               PROVE  \E f : f = [depth \in MaxDepth + 1 - (n + 1)..MaxDepth + 1 |-> next(f, depth)]
    OBVIOUS
  <2>1. PICK f : f = [depth \in MaxDepth + 1 - n..MaxDepth + 1 |-> next(f, depth)]
    BY <1>0, <1>2
  <2> DEFINE top == MaxDepth - n
             g == [depth \in top..MaxDepth + 1 |->
                     IF depth = top THEN FoundAt(these, f[top + 1]) ELSE f[depth]]
  <2>2. \A depth \in top..MaxDepth + 1 : g[depth] = next(g, depth)
    <3> SUFFICES ASSUME NEW depth \in top..MaxDepth + 1 PROVE g[depth] = next(g, depth)
      OBVIOUS
    <3>1. CASE depth = top
      <4>1. g[top + 1] = f[top + 1] /\ ~(top > MaxDepth)
        BY <1>0
      <4> QED
        BY <3>1, <4>1
    <3>2. CASE depth # top
      <4>1. g[depth] = f[depth] /\ f[depth] = next(f, depth)
        BY <1>0, <2>1, <3>2
      <4>2. ~(depth > MaxDepth) => g[depth + 1] = f[depth + 1]
        BY <1>0, <3>2
      <4> QED
        BY <4>1, <4>2
    <3> QED
      BY <3>1, <3>2
  <2>3. g = [depth \in top..MaxDepth + 1 |-> next(g, depth)]
    BY <2>2
  <2>4. top = MaxDepth + 1 - (n + 1)
    BY <1>0
  <2> HIDE DEF g, top, next
  <2> QED
    BY <2>3, <2>4
<1>3. MaxDepth + 1 \in Defined
  <2> HIDE DEF Defined
  <2>1. Nat \subseteq Defined
    BY <1>1, <1>2, SetInduction
  <2> QED
    BY <1>0, <2>1
<1>4. \E f : f = [depth \in 0..MaxDepth + 1 |-> next(f, depth)]
  BY <1>0, <1>3
<1>5. \A e : FoundWithin(these, e) = Search(these)[0][e]
  BY Zenon DEF FoundWithin, Search, FoundAt, NoneFound
<1> QED
  BY <1>4, <1>5 DEF Search

(* What the search finds at each depth: what it looks for, or what it finds one
   deeper; and at least that. *)
LEMMA SearchFinds ==
  ASSUME ErrorsOK, NEW these
  PROVE  LET search == Search(these)
         IN /\ \A x \in Errs : ~search[MaxDepth + 1][x]
            /\ \A n \in 0..MaxDepth : \A x \in Errs :
                 search[n][x] <=> x \in these \/ \E y \in Held(x) : search[n + 1][y]
<1> DEFINE search == Search(these)
<1>0. MaxDepth \in Nat
  BY RejectionAssumption DEF RejectionAssumption
<1>1. search = [depth \in 0..MaxDepth + 1 |->
                  IF depth > MaxDepth THEN NoneFound ELSE FoundAt(these, search[depth + 1])]
  BY SearchExists
<1> HIDE DEF search
<1>2. search[MaxDepth + 1] = NoneFound
  BY <1>0, <1>1
<1>3. \A n \in 0..MaxDepth : search[n] = FoundAt(these, search[n + 1])
  BY <1>0, <1>1
<1>4. \A x \in Errs : ~search[MaxDepth + 1][x]
  BY <1>2 DEF NoneFound
<1>5. ASSUME NEW n \in 0..MaxDepth, NEW x \in Errs
      PROVE  search[n][x] <=> x \in these \/ \E y \in Held(x) : search[n + 1][y]
  <2>1. search[n] = FoundAt(these, search[n + 1])
    BY <1>3
  <2> QED
    BY <2>1, Zenon DEF FoundAt
<1> QED
  BY <1>4, <1>5 DEF search

LEMMA FoundIsThere ==
  ASSUME ErrorsOK, NEW these, NEW e \in Errs, FoundWithin(these, e)
  PROVE  \E x \in Errs : x \in these
<1> DEFINE search == Search(these)
           Empty == {n \in Nat : n <= MaxDepth + 1 => \A x \in Errs : ~search[MaxDepth + 1 - n][x]}
<1>0. MaxDepth \in Nat
  BY RejectionAssumption DEF RejectionAssumption
<1> SUFFICES ASSUME \A x \in Errs : x \notin these PROVE FALSE
  OBVIOUS
<1>1. /\ \A x \in Errs : ~search[MaxDepth + 1][x]
      /\ \A n \in 0..MaxDepth : \A x \in Errs :
           search[n][x] <=> x \in these \/ \E y \in Held(x) : search[n + 1][y]
  BY SearchFinds
<1>2. search[0][e]
  BY SearchExists
<1> HIDE DEF search
<1>3. 0 \in Empty
  BY <1>0, <1>1
<1>4. ASSUME NEW n \in Nat, n \in Empty
      PROVE  n + 1 \in Empty
  <2> SUFFICES ASSUME n + 1 <= MaxDepth + 1, NEW x \in Errs PROVE ~search[MaxDepth + 1 - (n + 1)][x]
    OBVIOUS
  <2>1. MaxDepth - n \in 0..MaxDepth /\ MaxDepth + 1 - (n + 1) = MaxDepth - n
        /\ (MaxDepth - n) + 1 = MaxDepth + 1 - n
    BY <1>0
  <2>2. \A y \in Held(x) : ~search[MaxDepth + 1 - n][y]
    BY <1>0, <1>4, HeldAreErrors
  <2> QED
    BY <1>1, <2>1, <2>2
<1>5. MaxDepth + 1 \in Empty
  <2> HIDE DEF Empty
  <2>1. Nat \subseteq Empty
    BY <1>3, <1>4, SetInduction
  <2> QED
    BY <1>0, <2>1
<1> QED
  BY <1>0, <1>2, <1>5

(* What is found at a depth is also found where less depth is used up. *)
LEMMA FoundEarlier ==
  ASSUME ErrorsOK, NEW these
  PROVE  \A n \in 0..MaxDepth : \A x \in Errs :
           Search(these)[n + 1][x] => Search(these)[n][x]
<1> DEFINE search == Search(these)
           Kept == {n \in Nat : n <= MaxDepth =>
                      \A x \in Errs : search[MaxDepth - n + 1][x] => search[MaxDepth - n][x]}
<1>0. MaxDepth \in Nat
  BY RejectionAssumption DEF RejectionAssumption
<1>1. /\ \A x \in Errs : ~search[MaxDepth + 1][x]
      /\ \A n \in 0..MaxDepth : \A x \in Errs :
           search[n][x] <=> x \in these \/ \E y \in Held(x) : search[n + 1][y]
  BY SearchFinds
<1> HIDE DEF search
<1>2. 0 \in Kept
  BY <1>0, <1>1
<1>3. ASSUME NEW n \in Nat, n \in Kept
      PROVE  n + 1 \in Kept
  <2> DEFINE m == MaxDepth - (n + 1)
  <2> SUFFICES ASSUME n + 1 <= MaxDepth, NEW x \in Errs, search[m + 1][x] PROVE search[m][x]
    OBVIOUS
  <2>1. m \in 0..MaxDepth /\ m + 1 \in 0..MaxDepth /\ m + 1 = MaxDepth - n
    BY <1>0
  <2>2. \A y \in Errs : search[m + 1 + 1][y] => search[m + 1][y]
    BY <1>0, <1>3, <2>1
  <2>3. x \in these \/ \E y \in Held(x) : search[m + 1 + 1][y]
    BY <1>1, <2>1
  <2> HIDE DEF m
  <2>4. x \in these \/ \E y \in Held(x) : search[m + 1][y]
    BY <2>2, <2>3, HeldAreErrors
  <2> QED
    BY <1>1, <2>1, <2>4
<1>4. Nat \subseteq Kept
  <2> HIDE DEF Kept
  <2> QED
    BY <1>2, <1>3, SetInduction
<1> SUFFICES ASSUME NEW n \in 0..MaxDepth PROVE \A x \in Errs : search[n + 1][x] => search[n][x]
  BY DEF search
<1>5. MaxDepth - n \in Nat /\ MaxDepth - n <= MaxDepth /\ MaxDepth - (MaxDepth - n) = n
  BY <1>0
<1> QED
  BY <1>4, <1>5

(* The errors that are near: an error and what it holds, so many steps away. *)
Further(near) == near \union UNION {Held(x) : x \in near}
Near(e) == CHOOSE f : f = [n \in 0..MaxDepth |-> IF n = 0 THEN {e} ELSE Further(f[n - 1])]

LEMMA NearExists ==
  ASSUME NEW e
  PROVE  /\ Near(e) = [n \in 0..MaxDepth |-> IF n = 0 THEN {e} ELSE Further(Near(e)[n - 1])]
         /\ Within(e) = Near(e)[MaxDepth]
<1> DEFINE next(f, n) == IF n = 0 THEN {e} ELSE Further(f[n - 1])
           Defined == {m \in Nat : \E f : f = [n \in 0..m |-> next(f, n)]}
<1>1. 0 \in Defined
  <2> DEFINE f == [n \in 0..0 |-> {e}]
  <2>1. f = [n \in 0..0 |-> next(f, n)]
    OBVIOUS
  <2> HIDE DEF f
  <2> QED
    BY <2>1
<1>2. ASSUME NEW m \in Nat, m \in Defined
      PROVE  m + 1 \in Defined
  <2>1. PICK f : f = [n \in 0..m |-> next(f, n)]
    BY <1>2
  <2> DEFINE g == [n \in 0..m + 1 |-> IF n = m + 1 THEN Further(f[m]) ELSE f[n]]
  <2>2. \A n \in 0..m + 1 : g[n] = next(g, n)
    <3> SUFFICES ASSUME NEW n \in 0..m + 1 PROVE g[n] = next(g, n)
      OBVIOUS
    <3>1. CASE n = m + 1
      <4>1. n - 1 = m /\ n # 0 /\ g[m] = f[m] /\ g[n] = Further(f[m])
        BY <3>1
      <4> HIDE DEF g
      <4> QED
        BY <4>1
    <3>2. CASE n # m + 1 /\ n # 0
      <4>0. n \in 0..m /\ n - 1 \in 0..m /\ n - 1 # m + 1
        BY <3>2
      <4>1. g[n] = f[n] /\ g[n - 1] = f[n - 1]
        BY <3>2, <4>0
      <4>2. f[n] = Further(f[n - 1])
        BY <2>1, <3>2, <4>0
      <4> HIDE DEF g
      <4> QED
        BY <3>2, <4>1, <4>2
    <3>3. CASE n = 0
      BY <2>1, <3>3
    <3> QED
      BY <3>1, <3>2, <3>3
  <2>3. g = [n \in 0..m + 1 |-> next(g, n)]
    BY <2>2
  <2> HIDE DEF g
  <2> QED
    BY <2>3
<1>3. MaxDepth \in Defined
  <2> HIDE DEF Defined
  <2>1. Nat \subseteq Defined
    BY <1>1, <1>2, SetInduction
  <2> QED
    BY <2>1, RejectionAssumption DEF RejectionAssumption
<1>4. \E f : f = [n \in 0..MaxDepth |-> next(f, n)]
  BY <1>3
<1>5. Within(e) = Near(e)[MaxDepth]
  BY Zenon DEF Within, Near, Further
<1> QED
  BY <1>4, <1>5 DEF Near

(* What is near is found: a refusal within MaxDepth steps is seen. *)
LEMMA NearIsFound ==
  ASSUME ErrorsOK, NEW these, NEW e \in Errs, NEW x \in Within(e), x \in these
  PROVE  FoundWithin(these, e)
<1> DEFINE search == Search(these)
           near == Near(e)
           Leads == {n \in Nat : n <= MaxDepth =>
                       \A y \in near[n] : y \in Errs /\ (search[n][y] => search[0][e])}
<1>0. MaxDepth \in Nat
  BY RejectionAssumption DEF RejectionAssumption
<1>1. /\ \A n \in 0..MaxDepth : \A y \in Errs :
           search[n][y] <=> y \in these \/ \E z \in Held(y) : search[n + 1][z]
      /\ \A n \in 0..MaxDepth : \A y \in Errs : search[n + 1][y] => search[n][y]
  BY SearchFinds, FoundEarlier
<1>2. /\ near = [n \in 0..MaxDepth |-> IF n = 0 THEN {e} ELSE Further(near[n - 1])]
      /\ Within(e) = near[MaxDepth]
  BY NearExists
<1>3. FoundWithin(these, e) <=> search[0][e]
  BY SearchExists
<1> HIDE DEF search, near
<1>4. 0 \in Leads
  <2>1. near[0] = {e}
    <3>1. 0 \in 0..MaxDepth
      BY <1>0
    <3> QED
      BY <1>2, <3>1
  <2> QED
    BY <2>1
<1>5. ASSUME NEW n \in Nat, n \in Leads
      PROVE  n + 1 \in Leads
  <2> SUFFICES ASSUME n + 1 <= MaxDepth, NEW y \in near[n + 1]
               PROVE  y \in Errs /\ (search[n + 1][y] => search[0][e])
    OBVIOUS
  <2>1. n \in 0..MaxDepth /\ \A z \in near[n] : z \in Errs /\ (search[n][z] => search[0][e])
    BY <1>0, <1>5
  <2>2. near[n + 1] = Further(near[n])
    <3>1. n + 1 \in 0..MaxDepth /\ n + 1 # 0 /\ (n + 1) - 1 = n
      BY <1>0
    <3> QED
      BY <1>2, <3>1
  <2>3. y \in near[n] \/ \E z \in near[n] : y \in Held(z)
    BY <2>2 DEF Further
  <2>4. CASE y \in near[n]
    BY <1>1, <2>1, <2>4
  <2>5. CASE \E z \in near[n] : y \in Held(z)
    BY <1>1, <2>1, <2>5, HeldAreErrors
  <2> QED
    BY <2>3, <2>4, <2>5
<1>6. \A y \in near[MaxDepth] : y \in Errs /\ (search[MaxDepth][y] => search[0][e])
  <2>1. Nat \subseteq Leads
    <3> HIDE DEF Leads
    <3> QED
      BY <1>4, <1>5, SetInduction
  <2> QED
    BY <1>0, <2>1
<1>7. search[MaxDepth][x]
  BY <1>0, <1>1, <1>2, <1>6
<1> QED
  BY <1>2, <1>3, <1>6, <1>7

----------------------------------------------------------------------------
(* The call: nothing is told, and nobody has declined, before it is done. *)

RefusalInv ==
    /\ ErrorsOK
    /\ refusalAt # "done" => told = "none"
    /\ declined => refusalAt = "done"
    /\ DeclinedIsFinal

(* A refusal that is near is the end of the call. *)
LEMMA RefusalEnds ==
  ASSUME ErrorsOK, NEW e \in Errs, NEW x \in Within(e), mark[x] = "rejected",
         ~(call = "write" /\ mark[e] = "nonce")
  PROVE  checkLikelyUserRejection(e) /\ ~asksAgain(e)
<1>1. x \in Errs
  <2>1. FoundWithin({x}, e)
    BY NearIsFound
  <2>2. \E y \in Errs : y \in {x}
    BY <2>1, FoundIsThere
  <2> QED
    BY <2>2
<1>2. checkUserRejection(e)
  BY <1>1, NearIsFound DEF checkUserRejection
<1>3. checkLikelyUserRejection(e)
  <2> DEFINE these == {y \in Errs : checkUserRejection(y) \/ mark[y] = "says"}
  <2>1. e \in these
    BY <1>2
  <2> HIDE DEF these
  <2>2. Search(these)[0][e]
    BY <2>1, SearchFinds, RejectionAssumption DEF RejectionAssumption
  <2>3. FoundWithin(these, e)
    BY <2>2, SearchExists
  <2> QED
    BY <2>3 DEF checkLikelyUserRejection, these
<1>4. ~recovers(e) \/ mark[e] = "nonce"
  BY <1>3 DEF recovers, classifyWriteError
<1> QED
  BY <1>2, <1>3, <1>4 DEF asksAgain

LEMMA RejectionIsSaid ==
  ASSUME ErrorsOK, NEW e \in Errs, checkLikelyUserRejection(e)
  PROVE  \E x \in Errs : mark[x] \in {"rejected", "says"}
<1>1. PICK x \in Errs : checkUserRejection(x) \/ mark[x] = "says"
  <2> DEFINE these == {y \in Errs : checkUserRejection(y) \/ mark[y] = "says"}
  <2>1. FoundWithin(these, e)
    BY DEF checkLikelyUserRejection
  <2>2. \E x \in Errs : x \in these
    <3> HIDE DEF these
    <3> QED
      BY <2>1, FoundIsThere
  <2> QED
    BY <2>2
<1>2. CASE checkUserRejection(x)
  <2>1. FoundWithin({y \in Errs : mark[y] = "rejected"}, x)
    BY <1>2 DEF checkUserRejection
  <2>2. \E y \in Errs : y \in {z \in Errs : mark[z] = "rejected"}
    BY <2>1, FoundIsThere
  <2> QED
    BY <2>2
<1> QED
  BY <1>1, <1>2

(* A user who has declined is not asked again and the application is told so,
   and nobody is said to have declined of whom no error says it. *)
THEOREM DeclineEndsIt == RejectSpec => []DeclinedIsFinal
<1>1. RejectInit => RefusalInv
  BY DEF RejectInit, RefusalInv, ErrorsOK, DeclinedIsFinal
<1>2. RefusalInv /\ [RejectNext]_rejectVars => RefusalInv'
  <2> SUFFICES ASSUME RefusalInv, [RejectNext]_rejectVars PROVE RefusalInv'
    OBVIOUS
  <2>1. UNCHANGED errVars
    BY DEF RejectNext, Asks, Accepts, Refuses, rejectVars
  <2>2. ErrorsOK /\ ErrorsOK'
    BY <2>1 DEF RefusalInv, ErrorsOK, errVars
  <2>3. mark' = mark
    BY <2>1 DEF errVars
  <2>4. CASE UNCHANGED rejectVars
    BY <2>2, <2>3, <2>4 DEF RefusalInv, DeclinedIsFinal, rejectVars, callVars
  <2>5. ASSUME NEW c \in Calls, Asks(c) PROVE RefusalInv'
    BY <2>2, <2>3, <2>5 DEF RefusalInv, DeclinedIsFinal, Asks
  <2>6. CASE Accepts
    BY <2>2, <2>3, <2>6 DEF RefusalInv, DeclinedIsFinal, Accepts
  <2>7. ASSUME NEW e \in Errs, Refuses(e) PROVE RefusalInv'
    <3>1. refusalAt = "asking" /\ told = "none" /\ ~declined
      BY <2>7 DEF RefusalInv, Refuses
    <3>2. CASE asksAgain(e) /\ refusalAt' = refusalAt /\ told' = told
      <4>1. ~declined'
        BY <2>2, <2>7, <3>1, <3>2, RefusalEnds DEF Refuses
      <4> QED
        BY <2>2, <2>3, <3>1, <3>2, <4>1 DEF RefusalInv, DeclinedIsFinal
    <3>3. CASE /\ refusalAt' = "done"
               /\ told' = IF checkLikelyUserRejection(e) THEN "rejected" ELSE "failed"
      <4>1. declined' => told' = "rejected"
        BY <2>2, <2>7, <3>1, <3>3, RefusalEnds DEF Refuses
      <4>2. told' = "rejected" => \E x \in Errs : mark[x] \in {"rejected", "says"}
        BY <2>2, <3>3, RejectionIsSaid
      <4> QED
        BY <2>2, <2>3, <3>3, <4>1, <4>2 DEF RefusalInv, DeclinedIsFinal
    <3> QED
      BY <2>7, <3>2, <3>3 DEF Refuses
  <2> QED
    BY <2>4, <2>5, <2>6, <2>7 DEF RejectNext
<1>3. RefusalInv => DeclinedIsFinal
  BY DEF RefusalInv
<1> QED
  BY <1>1, <1>2, <1>3, PTL DEF RejectSpec
=============================================================================
