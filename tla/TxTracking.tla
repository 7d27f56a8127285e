----------------------------- MODULE TxTracking -----------------------------
(***************************************************************************)
(* One writeAndTrack call (evm/src/contract/pipeline/write-and-track.ts):  *)
(* the worker it forks, the fiber that handles blocks while a receipt is   *)
(* awaited, automatic replacement of a stuck transaction, the cancel and   *)
(* speedup actions handed to the caller, the TxState they all write, and   *)
(* the scope that owns the worker.                                         *)
(*                                                                         *)
(* A step is what a fiber does between two points where it waits.  The     *)
(* chain is modelled as far as this nonce goes: transactions 1, 2, ... are *)
(* broadcast with it, at most one of them is mined, and a reorganisation   *)
(* can take that back.  Nonce reservation and its retries are the subject  *)
(* of NoncePipeline; here a write just ends with a hash or with an error.  *)
(***************************************************************************)
EXTENDS Integers

CONSTANTS
    Users,        \* callers of actions.cancel and actions.speedup
    MaxAttempts,  \* policy.replacement.maxAttempts; 0 for strategy "none"
    MaxRetries,   \* retries of makeReceiptRetrySchedule
    MaxHashes,    \* bound on broadcast transactions
    MaxReorgs,    \* bound on reorganisations
    Automatic,         \* the block fiber's automatic replacement
    None

ASSUME BoundsAssumption ==
    /\ MaxAttempts \in Nat /\ MaxRetries \in Nat
    /\ MaxHashes \in Nat /\ MaxReorgs \in Nat

Hashes == 1..MaxHashes

ASSUME ValuesAssumption == None \notin Hashes /\ Automatic \notin Users

Replacers == Users \union {Automatic}

VARIABLES
    run,           \* the worker: where it is
    waitHash,      \* the receipt loop's waitHash
    retries,       \* retries used by the current waitForReceipt
    status,        \* TxState.status
    shown,         \* TxState.hash, where the state has one
    currentHash,   \* currentHashRef
    autoAttempts,  \* autoAttemptsRef
    watcher,       \* pendingFiber
    request,       \* each replacement request: asked, landed, or none
    reply,         \* the hash a landed request will answer
    open,          \* the caller's scope
    terminal,      \* terminalDeferred
    sent,          \* transactions broadcast so far
    block,         \* the one that is mined
    reorgs,
    seen,          \* history: every transaction that was mined at some time
    late           \* history: a user's action was answered after the receipt

workVars == <<run, waitHash, retries, terminal>>
shownVars == <<status, shown, currentHash>>
watchVars == <<watcher, autoAttempts>>
reqVars == <<request, reply>>
chainVars == <<sent, block, reorgs, seen>>
vars == <<workVars, shownVars, watchVars, reqVars, chainVars, open, late>>

Settled == {"mined", "failed"}
Statuses == {"idle", "simulating", "signing", "submitted", "pending"} \union Settled
Places == {"forked", "preflight", "writing", "waiting", "decoding", "done"}

TypeOK ==
    /\ run \in Places
    /\ waitHash \in Hashes \union {None}
    /\ retries \in 0..MaxRetries
    /\ status \in Statuses
    /\ shown \in Hashes \union {None}
    /\ currentHash \in Hashes \union {None}
    /\ autoAttempts \in 0..MaxAttempts
    /\ watcher \in {"off", "idle", "replacing"}
    /\ request \in [Replacers -> {"none", "asked", "landed"}]
    /\ reply \in [Replacers -> Hashes \union {None}]
    /\ open \in BOOLEAN
    /\ terminal \in {"none", "success", "failed", "interrupted"}
    /\ sent \in 0..MaxHashes
    /\ block \in Hashes \union {None}
    /\ reorgs \in 0..MaxReorgs
    /\ seen \in SUBSET Hashes
    /\ late \in BOOLEAN

Init ==
    /\ run = "forked" /\ waitHash = None /\ retries = 0 /\ terminal = "none"
    /\ status = "idle" /\ shown = None /\ currentHash = None
    /\ watcher = "off" /\ autoAttempts = 0
    /\ request = [r \in Replacers |-> "none"]
    /\ reply = [r \in Replacers |-> None]
    /\ sent = 0 /\ block = None /\ reorgs = 0 /\ seen = {}
    /\ open = TRUE /\ late = FALSE

----------------------------------------------------------------------------
(* The chain. *)

Mine ==
    /\ block = None
    /\ \E h \in 1..sent : block' = h /\ seen' = seen \union {h}
    /\ UNCHANGED <<workVars, shownVars, watchVars, reqVars, sent, reorgs, open, late>>

Reorg ==
    /\ block # None /\ reorgs < MaxReorgs
    /\ block' = None
    /\ reorgs' = reorgs + 1
    /\ UNCHANGED <<workVars, shownVars, watchVars, reqVars, sent, seen, open, late>>

(* sendReplacement reaches the network, which takes it while the nonce is
   unused; the answer is still to come. *)
Lands(r) ==
    /\ request[r] = "asked"
    /\ block = None /\ sent < MaxHashes
    /\ sent' = sent + 1
    /\ request' = [request EXCEPT ![r] = "landed"]
    /\ reply' = [reply EXCEPT ![r] = sent + 1]
    /\ UNCHANGED <<workVars, shownVars, watchVars, block, reorgs, seen, open, late>>

----------------------------------------------------------------------------
(* The worker. *)

Submitted(h) == status' = "submitted" /\ shown' = h /\ currentHash' = h

Over(r) ==
    /\ request' = [request EXCEPT ![r] = "none"]
    /\ reply' = [reply EXCEPT ![r] = None]

(* Mutant: the receipt loop ends and leaves the block fiber running. *)
StopWatchingNot == UNCHANGED <<watcher, autoAttempts, reqVars>>

(* The ensuring of the receipt loop: the block fiber is interrupted, and the
   answer it may be waiting for goes nowhere. *)
StopWatching ==
    /\ watcher' = "off"
    /\ Over(Automatic)
    /\ UNCHANGED autoAttempts

(* Mutant: the failure reaches the Deferred only. *)
FailSilently ==
    /\ run' = "done" /\ terminal' = "failed"
    /\ UNCHANGED <<status, shown, waitHash, retries, currentHash>>

(* The handler around the worker: state, then the Deferred. *)
Fail ==
    /\ run' = "done" /\ terminal' = "failed"
    /\ status' = "failed" /\ shown' = None
    /\ UNCHANGED <<waitHash, retries, currentHash>>

Start ==
    /\ open /\ run = "forked"
    /\ run' = "preflight"
    /\ status' \in {status, "simulating"}
    /\ UNCHANGED <<waitHash, retries, terminal, shown, currentHash, watchVars, reqVars, chainVars, open, late>>

PreflightEnds ==
    /\ open /\ run = "preflight"
    /\ \/ /\ run' = "writing" /\ status' = "signing"
          /\ UNCHANGED <<waitHash, retries, terminal, shown, currentHash>>
       \/ Fail
    /\ UNCHANGED <<watchVars, reqVars, chainVars, open, late>>

(* writer.write answers with a hash, and trackSubmittedTransaction begins. *)
WriteSent ==
    /\ open /\ run = "writing" /\ sent < MaxHashes
    /\ sent' = sent + 1
    /\ Submitted(sent + 1)
    /\ run' = "waiting" /\ waitHash' = sent + 1 /\ retries' = 0
    /\ watcher' = "idle" /\ autoAttempts' = 0
    /\ UNCHANGED <<terminal, reqVars, block, reorgs, seen, open, late>>

WriteFails ==
    /\ open /\ run = "writing"
    /\ Fail
    /\ UNCHANGED <<watchVars, reqVars, chainVars, open, late>>

(* Mutant: the loop follows a replacement and the actions do not. *)
ReceiptReplacedForgets ==
    /\ open /\ run = "waiting"
    /\ block \notin {None, waitHash}
    /\ status' = "submitted" /\ shown' = block
    /\ waitHash' = block /\ retries' = 0
    /\ UNCHANGED <<run, terminal, currentHash, watchVars, reqVars, chainVars, open, late>>

(* waitForReceipt fails with TxReplacedError: another transaction has the
   nonce; the loop goes on with that one and a fresh budget. *)
ReceiptReplaced ==
    /\ open /\ run = "waiting"
    /\ block \notin {None, waitHash}
    /\ Submitted(block)
    /\ waitHash' = block /\ retries' = 0
    /\ UNCHANGED <<run, terminal, watchVars, reqVars, chainVars, open, late>>

(* A transient error, retried by makeReceiptRetrySchedule. *)
ReceiptRetried ==
    /\ open /\ run = "waiting" /\ retries < MaxRetries
    /\ retries' = retries + 1
    /\ UNCHANGED <<run, waitHash, terminal, shownVars, watchVars, reqVars, chainVars, open, late>>

(* Timeout, a last transient error, or another one. *)
ReceiptFails ==
    /\ open /\ run = "waiting"
    /\ StopWatching
    /\ Fail
    /\ UNCHANGED <<chainVars, open, late>>

(* The receipt is there, and says that the transaction was reverted or not. *)
ReceiptArrives ==
    /\ open /\ run = "waiting" /\ block = waitHash
    /\ StopWatching
    /\ \/ /\ run' = "decoding" /\ status' = "mined" /\ shown' = block
          /\ UNCHANGED <<waitHash, retries, terminal, currentHash>>
       \/ Fail
    /\ UNCHANGED <<chainVars, open, late>>

DecodeEnds ==
    /\ open /\ run = "decoding"
    /\ \/ /\ run' = "done" /\ terminal' = "success"
          /\ UNCHANGED <<waitHash, retries, shownVars>>
       \/ Fail
    /\ UNCHANGED <<watchVars, reqVars, chainVars, open, late>>

RunStep ==
    \/ Start \/ PreflightEnds
    \/ ReceiptReplaced \/ ReceiptRetried \/ ReceiptFails \/ ReceiptArrives
    \/ DecodeEnds

----------------------------------------------------------------------------
(* The block fiber. *)

(* allowed, in autoReplaceIfStuck: the fiber handles one block at a time, so
   autoReplacingRef is never set when it gets here. *)
Allowed == autoAttempts < MaxAttempts

(* onPendingBlock: publish "pending", and replace a transaction that has been
   waiting for stuckMs; time is not modelled, so any block may be late enough. *)
NewBlock ==
    /\ open /\ watcher = "idle"
    /\ IF status \in Settled
         THEN UNCHANGED <<status, shown>>
         ELSE status' = "pending" /\ shown' = currentHash
    /\ \/ /\ Allowed
          /\ watcher' = "replacing"
          /\ request' = [request EXCEPT ![Automatic] = "asked"]
       \/ UNCHANGED <<watcher, request>>
    /\ UNCHANGED <<workVars, currentHash, autoAttempts, reply, chainVars, open, late>>

AutoAnswered ==
    /\ open /\ watcher = "replacing" /\ request[Automatic] = "landed"
    /\ watcher' = "idle"
    /\ autoAttempts' = autoAttempts + 1
    /\ Submitted(reply[Automatic])
    /\ Over(Automatic)
    /\ UNCHANGED <<workVars, chainVars, open, late>>

(* An error, whether or not the replacement was broadcast. *)
AutoFailed ==
    /\ open /\ watcher = "replacing"
    /\ watcher' = "idle"
    /\ Over(Automatic)
    /\ UNCHANGED <<workVars, shownVars, autoAttempts, chainVars, open, late>>

----------------------------------------------------------------------------
(* actions.cancel and actions.speedup; they run in the caller's fiber. *)

UserAsks(u) ==
    /\ currentHash # None
    /\ request[u] = "none"
    /\ request' = [request EXCEPT ![u] = "asked"]
    /\ UNCHANGED <<workVars, shownVars, watchVars, reply, chainVars, open, late>>

UserAnswered(u) ==
    /\ request[u] = "landed"
    /\ Submitted(reply[u])
    /\ Over(u)
    /\ late' = (late \/ run \in {"decoding", "done"})
    /\ UNCHANGED <<workVars, watchVars, chainVars, open>>

UserFailed(u) ==
    /\ request[u] # "none"
    /\ Over(u)
    /\ UNCHANGED <<workVars, shownVars, watchVars, chainVars, open, late>>

----------------------------------------------------------------------------
(* The scope closes; its finalizers run in the reverse of the order in which
   they were added: the worker is interrupted, then the Deferred. *)

CloseScope ==
    /\ open
    /\ open' = FALSE
    /\ UNCHANGED <<workVars, shownVars, watchVars, reqVars, chainVars, late>>

(* Deferred.into passes the interruption on, if the worker had got there. *)
WorkerInterrupted ==
    /\ ~open /\ run # "done"
    /\ run' = "done"
    /\ terminal' = IF run = "forked" THEN terminal ELSE "interrupted"
    /\ StopWatching
    /\ UNCHANGED <<waitHash, retries, shownVars, chainVars, open, late>>

DeferredInterrupted ==
    /\ ~open /\ run = "done" /\ terminal = "none"
    /\ terminal' = "interrupted"
    /\ UNCHANGED <<run, waitHash, retries, shownVars, watchVars, reqVars, chainVars, open, late>>

CloseStep == WorkerInterrupted \/ DeferredInterrupted

Next ==
    \/ Mine \/ Reorg \/ (\E r \in Replacers : Lands(r))
    \/ RunStep \/ WriteSent \/ WriteFails
    \/ NewBlock \/ AutoAnswered \/ AutoFailed
    \/ \E u \in Users : UserAsks(u) \/ UserAnswered(u) \/ UserFailed(u)
    \/ CloseScope \/ CloseStep

(* The worker is scheduled, preflight calls end, every wait for a receipt has
   a timeout, and finalizers run.  The wallet may keep its user waiting for
   ever, and the chain owes nothing. *)
Fairness == WF_vars(RunStep) /\ WF_vars(CloseStep)

Spec == Init /\ [][Next]_vars /\ Fairness

----------------------------------------------------------------------------
(* While a transaction is under way, the hash the state shows is the one that
   cancel, speedup and automatic replacement would act on. *)
CurrentIsShown == status \in {"submitted", "pending"} => shown = currentHash /\ shown # None

(* What the caller was told and what the state shows agree, but for a user's
   action that was answered after the receipt. *)
TerminalAgrees ==
    /\ terminal = "success" => late \/ (status = "mined" /\ shown \in seen)
    /\ terminal = "failed" => late \/ status = "failed"

(* What the application sees of a transaction: the hash that would be acted on
   while it is under way, and the outcome that was reported when it is over. *)
ShownSound == TypeOK /\ CurrentIsShown /\ TerminalAgrees

(* Only a user's action, or receipt decoding, changes a settled state: no
   block and no automatic replacement does. *)
SettledStays ==
    [][(status \in Settled /\ status' # status)
        => (run = "decoding" /\ status' = "failed") \/ (\E u \in Users : UserAnswered(u))]_vars

(* Whoever awaits the outcome gets one once the transaction is broadcast, or
   when the scope closes, even before the worker has run at all. *)
TerminalResolves == (~open \/ run = "waiting") ~> (terminal # "none")

(* A transaction that is shown as under way is settled in the end. *)
ShownSettles == (status \in {"submitted", "pending"}) ~> (status \in Settled \/ ~open \/ late)

(* Both who awaits the outcome and who looks at it get to know it. *)
EventuallySettled == TerminalResolves /\ ShownSettles
=============================================================================
