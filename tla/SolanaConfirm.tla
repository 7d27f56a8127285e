--------------------------- MODULE SolanaConfirm ---------------------------
(***************************************************************************)
(* One batch of Solana transactions: sendAndConfirmBatch and what it calls *)
(* (solana/src/tx/service.ts).  A batch of one is sendAndConfirm.          *)
(*                                                                         *)
(* Outside the code are the wallet and the cluster.  A transaction may be  *)
(* taken into a block of a fork that loses, and then waits again; a fork   *)
(* that wins is confirmed, and later finalized.  Once the blockhash it was *)
(* built with has expired, a transaction can no longer be taken.  A node   *)
(* knows a transaction to have reached the commitment that is asked for at *)
(* most StatusLag after it did.                                            *)
(***************************************************************************)
EXTENDS Integers

CONSTANTS
    Items,        \* number of transactions in the batch
    SendRetries,  \* sendRetries
    Grace,        \* expiredStatusGracePeriod
    StatusLag     \* what a node's answer is behind, its time of travel included

ASSUME SolanaAssumption ==
    /\ Items \in Nat \ {0} /\ SendRetries \in Nat
    /\ StatusLag \in Nat /\ Grace \in Nat /\ StatusLag < Grace

Txs == 1..Items

VARIABLES
    batch,        \* the phase the batch is in
    sequential,   \* no concurrency was asked for
    commitment,   \* opts.confirm.commitment, "confirmed" when none is given
    at,           \* each transaction: where its effect is
    sends,        \* attempts to send it that have failed, while it is sent
    expiredAt,    \* time since expiredAt of its poll, up to Grace; -1 for null
    chain,        \* each transaction, on the cluster
    errs,         \* transactions that failed in the block that was confirmed
    expired,      \* transactions whose blockhash is no longer valid
    settledFor    \* time since it reached the commitment, up to StatusLag

opts == <<sequential, commitment>>
clusterVars == <<chain, errs, expired, settledFor>>
solVars == <<batch, opts, at, sends, expiredAt, clusterVars>>

Commitments == {"processed", "confirmed", "finalized"}

(* On the cluster: never accepted, waiting, in a block of an open fork, waiting
   after such a fork has lost, and in a block that stays. *)
ChainStates == {"unknown", "pool", "lost"} \union Commitments
Polling == {"status", "height", "sleep"}
SolEnded == {"receipt", "failed", "expired", "timeout"}

SolInit ==
    /\ batch = "building" /\ sequential \in BOOLEAN /\ commitment \in Commitments
    /\ at = [t \in Txs |-> "todo"] /\ sends = [t \in Txs |-> 0]
    /\ expiredAt = [t \in Txs |-> -1] /\ errs = {}
    /\ chain = [t \in Txs |-> "unknown"] /\ expired = {}
    /\ settledFor = [t \in Txs |-> 0]

----------------------------------------------------------------------------
(* The cluster. *)

programVars == <<batch, opts, at, sends>>

(* What is at least the commitment that was asked for. *)
Wanted ==
    CASE commitment = "processed" -> Commitments
      [] commitment = "confirmed" -> {"confirmed", "finalized"}
      [] commitment = "finalized" -> {"finalized"}

Reached(t) == chain[t] \in Wanted

Take(t) ==
    /\ chain[t] \in {"pool", "lost"} /\ t \notin expired
    /\ chain' = [chain EXCEPT ![t] = "processed"]
    /\ UNCHANGED <<programVars, expiredAt, errs, expired, settledFor>>

(* The fork wins, and what the transaction did in it counts, or it loses. *)
ForkEnds(t) ==
    /\ chain[t] = "processed"
    /\ \/ /\ chain' = [chain EXCEPT ![t] = "confirmed"]
          /\ errs' \in {errs, errs \union {t}}
          /\ UNCHANGED settledFor
       \/ /\ chain' = [chain EXCEPT ![t] = "lost"]
          /\ settledFor' = [settledFor EXCEPT ![t] = 0]
          /\ UNCHANGED errs
    /\ UNCHANGED <<programVars, expiredAt, expired>>

Settle(t) ==
    /\ chain[t] = "confirmed"
    /\ chain' = [chain EXCEPT ![t] = "finalized"]
    /\ UNCHANGED <<programVars, expiredAt, errs, expired, settledFor>>

(* The confirmed height passes lastValidBlockHeight: no fork that is open can
   hold the transaction any more. *)
Expire(t) ==
    /\ at[t] # "todo" /\ t \notin expired /\ chain[t] # "processed"
    /\ expired' = expired \union {t}
    /\ UNCHANGED <<programVars, expiredAt, chain, errs, settledFor>>

SolTick ==
    /\ settledFor' = [t \in Txs |-> IF Reached(t) /\ settledFor[t] < StatusLag
                                      THEN settledFor[t] + 1 ELSE settledFor[t]]
    /\ expiredAt' = [t \in Txs |-> IF expiredAt[t] \in 0..Grace - 1
                                     THEN expiredAt[t] + 1 ELSE expiredAt[t]]
    /\ <<settledFor, expiredAt>>' # <<settledFor, expiredAt>>
    /\ UNCHANGED <<programVars, chain, errs, expired>>

(* The levels that a node may give a transaction, one that is behind a lower
   one; a fork that lost may still be its own. *)
Levels(t) ==
    CASE chain[t] \in {"processed", "lost"} -> {"processed"}
      [] chain[t] = "confirmed" -> {"processed", "confirmed"}
      [] chain[t] = "finalized" -> Commitments
      [] OTHER -> {}

(* What a node may answer: nothing, a level, or that the transaction failed,
   in the block that was confirmed or in one of any fork. *)
Statuses(t) ==
    LET known == IF Reached(t) /\ settledFor[t] = StatusLag
                  THEN Levels(t) \intersect Wanted
                  ELSE {"null"} \union Levels(t)
    IN {s \in known : s \in {"null", "processed"} \/ t \notin errs}
         \union (IF \E s \in known \ {"null"} : s = "processed" \/ t \in errs
                   THEN {"error"} ELSE {})

(* Whether the height a node names at the commitment may be past the lifetime
   of t: at "processed" that of an open fork, whatever becomes of it; at
   "finalized" all that was taken in time is finalized too. *)
MayBePast(t) ==
    \/ commitment = "processed"
    \/ t \in expired /\ (commitment = "finalized" => chain[t] # "confirmed")

----------------------------------------------------------------------------
(* The program.  An effect that fails ends the batch: its siblings are
   interrupted, those that were not begun are not. *)

SolGoTo(t, place) == at' = [at EXCEPT ![t] = place]

EndWith(t, place) == SolGoTo(t, place) /\ batch' = "failed"

MayWork(t, done) == sequential => \A u \in 1..t - 1 : at[u] \in done

build(t) ==
    /\ batch = "building" /\ at[t] = "todo" /\ MayWork(t, {"built"})
    /\ \/ /\ SolGoTo(t, "built")
          /\ batch' = IF \A u \in Txs \ {t} : at[u] = "built" THEN "signing" ELSE batch
       \/ EndWith(t, "failed")
    /\ UNCHANGED <<opts, sends, expiredAt, clusterVars>>

(* The wallet signs them all, or fewer, or fails. *)
signAll ==
    /\ batch = "signing"
    /\ batch' \in {"sending", "failed"}
    /\ UNCHANGED <<opts, at, sends, expiredAt, clusterVars>>

(* The node takes the transaction, unless it is expired, and what it answers
   may be lost; it refuses what the cluster has already. *)
send(t) ==
    /\ batch = "sending" /\ at[t] = "built" /\ MayWork(t, {"sent"})
    /\ \E taken \in {TRUE, FALSE}, answered \in {TRUE, FALSE} :
         /\ taken => chain[t] \in {"unknown", "pool", "lost"} /\ t \notin expired
         /\ answered => taken
         /\ chain' = IF taken /\ chain[t] = "unknown" THEN [chain EXCEPT ![t] = "pool"] ELSE chain
         /\ IF answered
              THEN /\ IF \A u \in Txs \ {t} : at[u] = "sent"
                        THEN /\ batch' = "confirming"
                             /\ at' = [u \in Txs |-> "status"]
                        ELSE SolGoTo(t, "sent") /\ UNCHANGED batch
                   /\ sends' = [sends EXCEPT ![t] = 0]
              ELSE IF sends[t] < SendRetries
                THEN sends' = [sends EXCEPT ![t] = @ + 1] /\ UNCHANGED <<batch, at>>
                ELSE EndWith(t, "failed") /\ UNCHANGED sends
    /\ UNCHANGED <<opts, expiredAt, errs, expired, settledFor>>

Confirms(t, place) ==
    batch = "confirming" /\ at[t] = place /\ MayWork(t, {"receipt"})

(* Mutant: the first poll after the expiry was seen is the last. *)
KeepPollingUngraced(t) ==
    IF expiredAt[t] = -1 THEN SolGoTo(t, "height") /\ UNCHANGED batch
    ELSE EndWith(t, "expired")

(* The poll goes on: to the height while it has not seen the blockhash expire,
   to sleep, or to its end when the grace period is over. *)
KeepPolling(t) ==
    IF expiredAt[t] = -1 THEN SolGoTo(t, "height") /\ UNCHANGED batch
    ELSE IF expiredAt[t] >= Grace THEN EndWith(t, "expired")
    ELSE SolGoTo(t, "sleep") /\ UNCHANGED batch

(* hasReachedConfirmation; a status without a level is one at "processed". *)
HasReachedConfirmation(status) ==
    \/ commitment = "processed"
    \/ commitment = "confirmed" /\ status \in {"confirmed", "finalized"}
    \/ commitment = "finalized" /\ status = "finalized"

checkSignatureStatus(t) ==
    /\ Confirms(t, "status")
    /\ \E s \in Statuses(t) :
         \/ s = "error" /\ EndWith(t, "failed")
         \/ /\ s \in Commitments /\ HasReachedConfirmation(s)
            /\ SolGoTo(t, "receipt")
            /\ batch' = IF \A u \in Txs \ {t} : at[u] = "receipt" THEN "ok" ELSE batch
         \/ s = "null" /\ KeepPolling(t)
         \/ s \in Commitments /\ ~HasReachedConfirmation(s) /\ KeepPolling(t)
    /\ UNCHANGED <<opts, sends, expiredAt, clusterVars>>

(* A node that lags may still name a height that is valid. *)
getExpiredAt(t) ==
    /\ Confirms(t, "height")
    /\ SolGoTo(t, "sleep")
    /\ \E past \in {TRUE, FALSE} :
         /\ past => MayBePast(t)
         /\ expiredAt' = IF past THEN [expiredAt EXCEPT ![t] = 0] ELSE expiredAt
    /\ UNCHANGED <<batch, opts, sends, clusterVars>>

RequestFails(t) ==
    /\ Confirms(t, "status") \/ Confirms(t, "height")
    /\ EndWith(t, "failed")
    /\ UNCHANGED <<opts, sends, expiredAt, clusterVars>>

PollAgain(t) ==
    /\ Confirms(t, "sleep") /\ SolGoTo(t, "status")
    /\ UNCHANGED <<batch, opts, sends, expiredAt, clusterVars>>

(* Mutant: the timeout is looked at between two polls only. *)
TimeoutBetweenPolls(t) ==
    /\ Confirms(t, "sleep")
    /\ EndWith(t, "timeout")
    /\ UNCHANGED <<opts, sends, expiredAt, clusterVars>>

(* Effect.timeout around the poll. *)
ConfirmTimeout(t) ==
    /\ \E p \in Polling : Confirms(t, p)
    /\ EndWith(t, "timeout")
    /\ UNCHANGED <<opts, sends, expiredAt, clusterVars>>

SolNext ==
    \/ SolTick \/ signAll
    \/ \E t \in Txs :
         \/ Take(t) \/ ForkEnds(t) \/ Settle(t) \/ Expire(t)
         \/ build(t) \/ send(t)
         \/ checkSignatureStatus(t) \/ getExpiredAt(t) \/ RequestFails(t)
         \/ PollAgain(t) \/ ConfirmTimeout(t)

(* Effect.timeout comes, whoever answers. *)
SolSpec ==
    /\ SolInit /\ [][SolNext]_solVars
    /\ \A t \in Txs : WF_solVars(ConfirmTimeout(t))

----------------------------------------------------------------------------
SolTypeOK ==
    /\ batch \in {"building", "signing", "sending", "confirming", "ok", "failed"}
    /\ sequential \in BOOLEAN /\ commitment \in Commitments
    /\ at \in [Txs -> {"todo", "built", "sent"} \union Polling \union SolEnded]
    /\ sends \in [Txs -> 0..SendRetries] /\ expiredAt \in [Txs -> -1..Grace]
    /\ errs \in SUBSET Txs /\ expired \in SUBSET Txs
    /\ chain \in [Txs -> ChainStates]
    /\ settledFor \in [Txs -> 0..StatusLag]

(* What a caller may build on, by the commitment it asked for.  A receipt is
   for a transaction that succeeded for good, confirmed or finalized as asked;
   at "processed" it says that some fork took the transaction, and no more, as
   that fork may lose.  "Blockhash expired" is for one that never will be
   executed, so that it can be built anew; not so at "processed", where the
   height may be an open fork's.  Nothing is with the cluster before everything
   is signed, nor, one by one, before its predecessors were accepted. *)
SolOutcomeTrue ==
    /\ SolTypeOK
    /\ \A t \in Txs : at[t] = "receipt" =>
         IF commitment = "processed" THEN chain[t] \in {"lost"} \union Commitments
         ELSE Reached(t) /\ t \notin errs
    /\ \A t \in Txs : at[t] = "expired" /\ commitment # "processed" =>
         t \in expired /\ chain[t] \notin Commitments
    /\ \A t, u \in Txs : chain[t] # "unknown" =>
         at[u] # "todo" /\ (sequential /\ u < t => at[u] # "built")
    /\ batch = "ok" => \A t \in Txs : at[t] = "receipt"

(* Confirming ends, even if no node answers any more. *)
SolConfirmEnds == (batch = "confirming") ~> (batch \in {"ok", "failed"})
=============================================================================
