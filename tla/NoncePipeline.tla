--------------------------- MODULE NoncePipeline ---------------------------
(***************************************************************************)
(* Concurrent writeAndTrack calls of one account sharing one NonceService: *)
(* reservation, submission, nonce-too-low recovery, confirmation, and the  *)
(* scope that gives an unsubmitted nonce back                              *)
(* (evm/src/contract/pipeline/write-and-track.ts, internal/nonce.ts,       *)
(* evm/src/nonce/service.ts), over the ledger of NonceManager.             *)
(*                                                                         *)
(* The chain, the provider and the wallet are outside the repository:      *)
(*  - latest only grows (no reorganisation), and any wallet of the account *)
(*    may use the next nonce;                                              *)
(*  - getTransactionCount may be answered by a node that lags, so it       *)
(*    returns any count up to the true one.  That also covers a count read *)
(*    before other fibers ran and used after;                              *)
(*  - a call that was interrupted, or whose answer was lost, may still put *)
(*    its transaction on the wire: viem's promise is not cancelled.        *)
(***************************************************************************)
EXTENDS NonceManager

CONSTANTS
    Writers,     \* the concurrent writeAndTrack calls
    MaxRetries,  \* MAX_MANAGED_NONCE_TOO_LOW_RETRIES, 8 in the code
    None

ASSUME NoneAssumption == None \notin Nonces
ASSUME MaxRetriesAssumption == MaxRetries \in Nat

VARIABLES
    pc,        \* where each writer is
    nonce,     \* nonce of its current or last attempt
    reserved,  \* NonceReservationResult.reserved: the nonce came from the manager
    sent,      \* its transaction has reached the node's mempool
    attempt,   \* nonce-too-low retries so far
    latest,    \* nonces used on the chain (the "latest" transaction count)
    lowered    \* history: a sync has moved the local floor down

writerVars == <<pc, nonce, reserved, sent, attempt>>
vars == <<managerVars, writerVars, latest, lowered>>

PC == {"idle", "writing", "retry", "fallback", "tracking",
       "done", "abandoned", "unresolved"}

TypeOK ==
    /\ ManagerTypeOK
    /\ pc \in [Writers -> PC]
    /\ nonce \in [Writers -> Nonces \union {None}]
    /\ reserved \in [Writers -> BOOLEAN]
    /\ sent \in [Writers -> BOOLEAN]
    /\ attempt \in [Writers -> 0..(MaxRetries + 1)]
    /\ latest \in Counts
    /\ lowered \in BOOLEAN

Init ==
    /\ ManagerInit
    /\ pc = [w \in Writers |-> "idle"]
    /\ nonce = [w \in Writers |-> None]
    /\ reserved = [w \in Writers |-> FALSE]
    /\ sent = [w \in Writers |-> FALSE]
    /\ attempt = [w \in Writers |-> 0]
    /\ latest = 0
    /\ lowered = FALSE

----------------------------------------------------------------------------
(* The node's view. *)

InMempool(n) == n >= latest /\ \E w \in Writers : sent[w] /\ nonce[w] = n

(* The "pending" count: past latest and the mempool transactions that follow
   it without a hole. *)
IsPendingCount(c) ==
    /\ c >= latest
    /\ \A n \in Nonces : (latest <= n /\ n < c) => InMempool(n)
    /\ ~InMempool(c)

----------------------------------------------------------------------------
(* A writer's steps. *)

Goto(w, label) == pc' = [pc EXCEPT ![w] = label]

(* withNonceReservation: the acquire cannot be interrupted, so a writer never
   holds a nonce its scope does not know of. *)
Reserve(w) ==
    /\ pc[w] \in {"idle", "retry"}
    /\ \E count \in Counts, n \in Nonces :
        /\ \E c \in Counts : IsPendingCount(c) /\ count <= c
        /\ ReserveNext(count, n)
        /\ nonce' = [nonce EXCEPT ![w] = n]
    /\ reserved' = [reserved EXCEPT ![w] = TRUE]
    /\ Goto(w, "writing")
    /\ UNCHANGED <<sent, attempt, latest, lowered>>

(* The call is over and its transaction, if any, is mined: its locals go. *)
Finish(w) ==
    /\ Goto(w, "done")
    /\ nonce' = [nonce EXCEPT ![w] = None]
    /\ reserved' = [reserved EXCEPT ![w] = FALSE]
    /\ sent' = [sent EXCEPT ![w] = FALSE]
    /\ attempt' = [attempt EXCEPT ![w] = 0]
    /\ UNCHANGED <<latest, lowered>>

(* Nothing is reserved or submitted and the call fails, or its scope closes:
   the provider could not be read, or the wallet refused the fallback. *)
EndsUnsubmitted(w) ==
    /\ pc[w] \in {"idle", "retry", "fallback"}
    /\ Finish(w)
    /\ UNCHANGED managerVars

(* The caller passed overrides.nonce: the manager is not consulted. *)
UseExplicit(w) ==
    /\ pc[w] = "idle"
    /\ \E n \in Nonces : nonce' = [nonce EXCEPT ![w] = n]
    /\ Goto(w, "writing")
    /\ UNCHANGED <<managerVars, reserved, sent, attempt, latest, lowered>>

Broadcast(w) ==
    /\ pc[w] \in {"writing", "abandoned"}
    /\ nonce[w] # None /\ ~sent[w]
    /\ nonce[w] >= latest
    /\ sent' = [sent EXCEPT ![w] = TRUE]
    /\ UNCHANGED <<managerVars, pc, nonce, reserved, attempt, latest, lowered>>

(* writer.write answered with a hash: markSubmitted, then tracking. *)
WriteReturns(w) ==
    /\ pc[w] = "writing" /\ sent[w]
    /\ Goto(w, "tracking")
    /\ UNCHANGED <<managerVars, nonce, reserved, sent, attempt, latest, lowered>>

(* Mutant: the finalizer does not release. *)
WriteGivenUpKeeping(w) ==
    /\ pc[w] = "writing"
    /\ reserved' = [reserved EXCEPT ![w] = FALSE]
    /\ Goto(w, "abandoned")
    /\ UNCHANGED <<managerVars, nonce, sent, attempt, latest, lowered>>

(* writer.write fails, its answer is lost, or the scope closes while the wallet
   is asked: the attempt's scope ends before markSubmitted and its finalizer
   releases the nonce.  The transaction may have been sent, or be sent later. *)
WriteGivenUp(w) ==
    /\ pc[w] = "writing"
    /\ IF reserved[w] THEN Release(nonce[w]) ELSE UNCHANGED managerVars
    /\ reserved' = [reserved EXCEPT ![w] = FALSE]
    /\ attempt' = [attempt EXCEPT ![w] = 0]
    /\ Goto(w, "abandoned")
    /\ UNCHANGED <<nonce, sent, latest, lowered>>

(* What recovery confirms: one below the count the node's message names
   (extractProviderNonceFloor), if it names one above the rejected nonce, else
   the rejected nonce itself.  The node may lag here as well. *)
RejectedFloors(w) == nonce[w]..(latest - 1)

(* recoverManagedNonceTooLow: advance the floor, and markSubmitted so that the
   attempt's scope does not release. *)
NonceTooLow(w) ==
    /\ pc[w] = "writing" /\ reserved[w] /\ ~sent[w]
    /\ nonce[w] < latest
    /\ \E floor \in RejectedFloors(w) : Confirm(floor)
    /\ attempt' = [attempt EXCEPT ![w] = @ + 1]
    /\ Goto(w, IF attempt[w] < MaxRetries THEN "retry" ELSE "fallback")
    /\ UNCHANGED <<nonce, reserved, sent, latest, lowered>>

(* submitUnmanagedOnce: no nonce in the overrides, the wallet picks the count
   it sees. *)
FallbackBroadcast(w) ==
    /\ pc[w] = "fallback"
    /\ \E n \in Nonces :
        /\ IsPendingCount(n)
        /\ nonce' = [nonce EXCEPT ![w] = n]
    /\ reserved' = [reserved EXCEPT ![w] = FALSE]
    /\ sent' = [sent EXCEPT ![w] = TRUE]
    /\ Goto(w, "writing")
    /\ UNCHANGED <<managerVars, attempt, latest, lowered>>

(* The receipt loop ended: confirmNonce, before the revert check.  A nonce
   used by another transaction ends here too, by TxReplacedError. *)
Receipt(w) ==
    /\ pc[w] = "tracking" /\ nonce[w] < latest
    /\ IF reserved[w] THEN Confirm(nonce[w]) ELSE UNCHANGED managerVars
    /\ Finish(w)

(* Mutant: closing the scope releases a submitted nonce too. *)
TrackingGivenUpReleasing(w) ==
    /\ pc[w] = "tracking"
    /\ IF reserved[w] THEN Release(nonce[w]) ELSE UNCHANGED managerVars
    /\ Goto(w, "unresolved")
    /\ UNCHANGED <<nonce, reserved, sent, attempt, latest, lowered>>

(* waitForReceipt failed or timed out, or the scope closed: the submitted
   nonce is neither confirmed nor released. *)
TrackingGivenUp(w) ==
    /\ pc[w] = "tracking"
    /\ attempt' = [attempt EXCEPT ![w] = 0]
    /\ Goto(w, "unresolved")
    /\ UNCHANGED <<managerVars, nonce, reserved, sent, latest, lowered>>

----------------------------------------------------------------------------
(* Everyone else. *)

(* NonceService.sync, called by the application at any time. *)
Sync ==
    /\ \E count \in 0..latest :
        /\ SetConfirmed(count)
        /\ lowered' = IF count < confirmed THEN TRUE ELSE lowered
    /\ UNCHANGED <<writerVars, latest>>

(* A block uses the account's next nonce: a transaction of these writers or
   of another wallet. *)
Consume ==
    /\ latest <= MaxNonce
    /\ latest' = latest + 1
    /\ UNCHANGED <<managerVars, writerVars, lowered>>

WriterStep(w) ==
    \/ Reserve(w) \/ UseExplicit(w) \/ EndsUnsubmitted(w)
    \/ Broadcast(w) \/ WriteReturns(w) \/ WriteGivenUp(w)
    \/ NonceTooLow(w) \/ FallbackBroadcast(w)
    \/ Receipt(w) \/ TrackingGivenUp(w)

Next == (\E w \in Writers : WriterStep(w)) \/ Sync \/ Consume

Spec == Init /\ [][Next]_vars

----------------------------------------------------------------------------
(* A writer whose managed nonce is in use: being signed, tracked, or submitted
   and given up on. *)
Holds(w) == reserved[w] /\ pc[w] \in {"writing", "tracking", "unresolved"}

(* The local floor never runs ahead of the chain, whatever sync and recovery
   interleave: a floor above it would skip a nonce and stall every later
   transaction of the account. *)
FloorNeverAhead == confirmed <= latest

(* reserveNext never hands a writer the nonce of another writer's live or
   submitted transaction, unless the chain has already used it and neither
   can be mined with it. *)
NoSharedNonce ==
    \A v, w \in Writers :
        (v # w /\ Holds(v) /\ Holds(w) /\ nonce[v] = nonce[w]) => nonce[v] < latest

(* A nonce left in the pending set is held by someone or is used up on the
   chain: failures, interruptions and recovery leave no unspent nonce that
   reserveNext would skip for ever. *)
NoOrphanReservation ==
    \A n \in pending : n < latest \/ \E w \in Writers : Holds(w) /\ nonce[w] = n

(* The reservation of a live or submitted transaction stays in the ledger
   until the chain has used its nonce. *)
HeldStaysPending == \A w \in Writers : Holds(w) => (nonce[w] \in pending \/ nonce[w] < latest)

(* The ledger accounts for the chain and for every writer: its floor, what it
   keeps reserved and what it has let go of, and no writer is retried for ever. *)
LedgerAccounted == TypeOK /\ FloorNeverAhead /\ NoOrphanReservation /\ HeldStaysPending

(* After a nonce-too-low rejection the retry carries a higher nonce even if
   every provider read is stale, unless the application lowered the floor by
   a sync: the retries make progress. *)
RetryGoesUp ==
    [][\A w \in Writers :
        (pc[w] = "retry" /\ pc'[w] = "writing" /\ ~lowered) => nonce'[w] > nonce[w]]_vars

(* getGaps reports nonces that are missing between the floor and a reserved
   nonce, as the integration test of the service has it; so nothing it
   reports lies below the floor, where every nonce is confirmed. *)
GapsAboveFloor == \A n \in Gaps : n >= confirmed

(* The pipeline keeps the promise of NonceLease. *)
Lease == INSTANCE NonceLease WITH
    lease <- [w \in Writers |-> IF Holds(w) THEN nonce[w] ELSE None],
    spent <- latest

ImplementsLease == Lease!LeaseSpec
============================================================================
