---------------------------- MODULE NonceLease ----------------------------
(***************************************************************************)
(* What managed nonce reservation promises its callers, without ledger,    *)
(* provider or wallet: a nonce that can still be spent is leased to at     *)
(* most one transaction at a time.                                         *)
(***************************************************************************)
EXTENDS Integers

CONSTANTS Writers, MaxNonce, None

VARIABLES
    lease,  \* the nonce each writer's transaction owns, or None
    spent   \* the account's nonces below this one are used up on the chain

leaseVars == <<lease, spent>>

LeaseInit ==
    /\ lease = [w \in Writers |-> None]
    /\ spent = 0

Take(w, n) ==
    /\ lease[w] = None
    /\ \A v \in Writers : lease[v] = n => n < spent
    /\ lease' = [lease EXCEPT ![w] = n]
    /\ UNCHANGED spent

GiveBack(w) ==
    /\ lease[w] # None
    /\ lease' = [lease EXCEPT ![w] = None]
    /\ UNCHANGED spent

Spend ==
    /\ spent' = spent + 1
    /\ UNCHANGED lease

LeaseNext ==
    \/ \E w \in Writers : \/ \E n \in 0..MaxNonce : Take(w, n)
                          \/ GiveBack(w)
    \/ Spend

LeaseSpec == LeaseInit /\ [][LeaseNext]_leaseVars
===========================================================================
