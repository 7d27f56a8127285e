--------------------------- MODULE NonceManager ---------------------------
(***************************************************************************)
(* The local nonce ledger of one (chainId, address) key: makeNonceManager  *)
(* in evm/src/nonce/manager.ts.  Every operation is one Ref.update or      *)
(* Ref.modify, so it is atomic, and it touches no other key: one key is    *)
(* modelled.  An absent map entry reads as 0 or as the empty set.          *)
(*                                                                         *)
(* The operations are action operators; the modules that use the manager   *)
(* say who calls them and when.                                            *)
(***************************************************************************)
EXTENDS Integers

CONSTANT MaxNonce  \* bound: the largest nonce a transaction carries

ASSUME MaxNonceAssumption == MaxNonce \in Nat

Nonces == 0..MaxNonce
Counts == 0..(MaxNonce + 1)  \* transaction counts: one past the last nonce used

VARIABLES
    confirmed,  \* the local floor: the nonce after the highest confirmed one
    pending     \* nonces handed out and neither released nor confirmed

managerVars == <<confirmed, pending>>

ManagerTypeOK ==
    /\ confirmed \in Counts
    /\ pending \subseteq Nonces

ManagerInit ==
    /\ confirmed = 0
    /\ pending = {}

(* From max(start, confirmed) upwards, n is the first nonce not pending. *)
FirstFree(start, n) ==
    /\ start <= n /\ confirmed <= n
    /\ n \notin pending
    /\ \A m \in Nonces : (start <= m /\ confirmed <= m /\ m < n) => m \in pending

(* Mutant: the search does not skip pending nonces. *)
ReserveNextUnskipped(start, n) ==
    /\ start <= n /\ confirmed <= n /\ n \in {start, confirmed}
    /\ pending' = pending \union {n}
    /\ UNCHANGED confirmed

ReserveNext(start, n) ==
    /\ FirstFree(start, n)
    /\ pending' = pending \union {n}
    /\ UNCHANGED confirmed

Release(n) ==
    /\ pending' = pending \ {n}
    /\ UNCHANGED confirmed

(* Mutant: the floor does not move. *)
ConfirmKeepingFloor(n) ==
    /\ pending' = pending \ {n}
    /\ UNCHANGED confirmed

Confirm(n) ==
    /\ pending' = pending \ {n}
    /\ confirmed' = IF n < confirmed THEN confirmed ELSE n + 1

(* Overwrites the floor, upwards or downwards, and leaves pending alone. *)
SetConfirmed(count) ==
    /\ confirmed' = count
    /\ UNCHANGED pending

(* getGaps walks the sorted pending nonces.  Before the first one it reports
   what is missing from the floor up; after each one it restarts at that
   nonce + 1, wherever the floor is. *)
Gaps ==
    {m \in Nonces \ pending :
        /\ \E p \in pending : m < p
        /\ m >= confirmed \/ \E p \in pending : p < m}
===========================================================================
