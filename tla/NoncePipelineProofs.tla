------------------------- MODULE NoncePipelineProofs -------------------------
(***************************************************************************)
(* Proofs about NoncePipeline, for any set of writers, any MaxNonce and    *)
(* any number of retries.  The safety properties are proved together, by   *)
(* one inductive invariant: each needs the others.                         *)
(***************************************************************************)
EXTENDS NoncePipeline, TLAPS

(* A writer that is past its reservation has a nonce. *)
InFlightHasNonce ==
    \A w \in Writers : pc[w] \in {"writing", "tracking", "unresolved"} => nonce[w] \in Nonces

(* Recovery has pushed the floor above the rejected nonce. *)
RetryBelowFloor ==
    \A w \in Writers : (pc[w] = "retry" /\ ~lowered) => /\ nonce[w] \in Nonces
                                                        /\ nonce[w] < confirmed

(* A call that has not started has reserved nothing. *)
IdleUnreserved == \A w \in Writers : pc[w] = "idle" => ~reserved[w]

(* A writer may be rejected MaxRetries + 1 times, then it leaves the loop. *)
AttemptBound == \A w \in Writers : pc[w] \in {"idle", "retry"} => attempt[w] <= MaxRetries

(* Only a writer in its managed loop holds a reservation. *)
WritingBound ==
    \A w \in Writers : (pc[w] = "writing" /\ reserved[w]) => attempt[w] <= MaxRetries

Bookkeeping ==
    /\ InFlightHasNonce
    /\ IdleUnreserved
    /\ AttemptBound
    /\ WritingBound
    /\ RetryBelowFloor

IInv ==
    /\ TypeOK
    /\ Bookkeeping
    /\ FloorNeverAhead
    /\ HeldStaysPending
    /\ NoSharedNonce
    /\ NoOrphanReservation

------------------------------------------------------------------------------
(* What the manager's operations do to the ledger. *)

(* reserveNext returns a nonce that was not pending, at or above the floor. *)
LEMMA ReserveNextFresh ==
    ASSUME NEW start \in Counts, NEW n \in Nonces, ReserveNext(start, n)
    PROVE /\ n \notin pending
          /\ confirmed <= n
          /\ pending' = pending \union {n}
          /\ confirmed' = confirmed
BY DEF ReserveNext, FirstFree

(* confirm drops one nonce, never lowers the floor, and leaves it above the
   nonce it confirms. *)
LEMMA ConfirmRaises ==
    ASSUME NEW n \in Nonces, ManagerTypeOK, Confirm(n)
    PROVE /\ pending' = pending \ {n}
          /\ confirmed' \in Counts
          /\ confirmed <= confirmed'
          /\ n < confirmed'
          /\ confirmed' = confirmed \/ confirmed' = n + 1
BY MaxNonceAssumption DEF Confirm, ManagerTypeOK, Counts, Nonces

------------------------------------------------------------------------------
(* The inductive invariant holds initially. *)
LEMMA InitEstablishesIInv == Init => IInv
<1> SUFFICES ASSUME Init PROVE IInv
  OBVIOUS
<1> USE MaxNonceAssumption, MaxRetriesAssumption, NoneAssumption DEF Init, ManagerInit
<1>1. TypeOK
  <2>1. ManagerTypeOK /\ latest \in Counts
    BY DEF ManagerTypeOK, Nonces, Counts
  <2>2. pc \in [Writers -> PC] /\ nonce \in [Writers -> Nonces \union {None}]
    BY DEF PC
  <2>3. attempt \in [Writers -> 0..(MaxRetries + 1)]
    BY DEF PC
  <2>4. reserved \in [Writers -> BOOLEAN] /\ sent \in [Writers -> BOOLEAN] /\ lowered \in BOOLEAN
    OBVIOUS
  <2> QED
    BY <2>1, <2>2, <2>3, <2>4 DEF TypeOK
<1>2. Bookkeeping /\ FloorNeverAhead
  BY DEF Bookkeeping, InFlightHasNonce, IdleUnreserved, AttemptBound, WritingBound,
     RetryBelowFloor, FloorNeverAhead
<1>3. HeldStaysPending /\ NoSharedNonce /\ NoOrphanReservation
  BY DEF HeldStaysPending, NoSharedNonce, NoOrphanReservation, Holds
<1> QED
  BY <1>1, <1>2, <1>3 DEF IInv

LEMMA ReserveKeepsIInv ==
    ASSUME IInv, NEW w \in Writers, Reserve(w)
    PROVE IInv'
<1>1. PICK count \in Counts, n \in Nonces : /\ ReserveNext(count, n)
                                            /\ nonce' = [nonce EXCEPT ![w] = n]
  BY DEF Reserve
<1>2. /\ n \notin pending /\ confirmed <= n
      /\ pending' = pending \union {n} /\ confirmed' = confirmed
  BY <1>1, ReserveNextFresh
<1> USE MaxNonceAssumption, MaxRetriesAssumption, NoneAssumption
    DEF IInv, TypeOK, ManagerTypeOK, PC, Reserve, Goto, Nonces, Counts
<1>3. TypeOK'
  BY <1>1, <1>2
<1>4. Bookkeeping' /\ FloorNeverAhead'
  BY <1>1, <1>2 DEF Bookkeeping, InFlightHasNonce, IdleUnreserved, AttemptBound, WritingBound,
     RetryBelowFloor, FloorNeverAhead
<1>5. \A v \in Writers : v # w => (Holds(v)' <=> Holds(v)) /\ nonce'[v] = nonce[v]
  BY <1>1 DEF Holds
<1>6. nonce'[w] = n
  BY <1>1
<1>7. HeldStaysPending'
  BY <1>2, <1>5, <1>6 DEF HeldStaysPending
<1>8. NoSharedNonce'
  BY <1>2, <1>5, <1>6 DEF HeldStaysPending, NoSharedNonce
<1>9. NoOrphanReservation'
  <2>1. Holds(w)' /\ ~Holds(w)
    BY DEF Holds
  <2> QED
    BY <1>2, <1>5, <1>6, <2>1 DEF NoOrphanReservation
<1> QED
  BY <1>3, <1>4, <1>7, <1>8, <1>9
(* A step that reserves nothing keeps the reservations consistent when every
   remaining holder keeps its pending nonce, or that nonce is used up, and a
   holder that lets go leaves no unspent nonce behind. *)
LEMMA HoldersShrink ==
    ASSUME IInv, latest' \in Counts, latest <= latest',
           pending' \subseteq pending,
           \A v \in Writers : Holds(v)' => Holds(v) /\ nonce'[v] = nonce[v],
           \A v \in Writers : Holds(v)' => \/ nonce[v] \in pending'
                                          \/ nonce[v] \notin pending
                                          \/ nonce[v] < latest',
           \A v \in Writers : (Holds(v) /\ ~Holds(v)') => \/ nonce[v] \notin pending'
                                                        \/ nonce[v] < latest'
    PROVE HeldStaysPending' /\ NoSharedNonce' /\ NoOrphanReservation'
<1> USE MaxNonceAssumption DEF IInv, TypeOK, ManagerTypeOK, Counts, Nonces
<1>1. \A v \in Writers : Holds(v) => nonce[v] \in Nonces
  BY DEF Bookkeeping, InFlightHasNonce, Holds
<1>2. HeldStaysPending'
  BY <1>1 DEF HeldStaysPending
<1>3. NoSharedNonce'
  BY <1>1 DEF NoSharedNonce
<1>4. NoOrphanReservation'
  BY <1>1 DEF NoOrphanReservation
<1> QED
  BY <1>2, <1>3, <1>4

LEMMA QuietStepsKeepIInv ==
    ASSUME IInv, NEW w \in Writers,
           UseExplicit(w) \/ EndsUnsubmitted(w) \/ Broadcast(w) \/ WriteReturns(w)
             \/ FallbackBroadcast(w) \/ TrackingGivenUp(w)
    PROVE IInv'
<1> USE MaxNonceAssumption, MaxRetriesAssumption, NoneAssumption
    DEF IInv, UseExplicit, EndsUnsubmitted, Broadcast, WriteReturns, FallbackBroadcast,
        TrackingGivenUp, Finish, Goto, managerVars
<1>1. TypeOK'
  <2> USE DEF TypeOK, ManagerTypeOK, PC
  <2>1. CASE UseExplicit(w)
    BY <2>1
  <2>2. CASE EndsUnsubmitted(w)
    BY <2>2
  <2>3. CASE Broadcast(w)
    BY <2>3
  <2>4. CASE WriteReturns(w)
    BY <2>4
  <2>5. CASE FallbackBroadcast(w)
    BY <2>5
  <2>6. CASE TrackingGivenUp(w)
    BY <2>6
  <2> QED
    BY <2>1, <2>2, <2>3, <2>4, <2>5, <2>6
<1>2. Bookkeeping' /\ FloorNeverAhead'
  BY DEF TypeOK, Bookkeeping, InFlightHasNonce, IdleUnreserved, AttemptBound, WritingBound,
     RetryBelowFloor, FloorNeverAhead
<1>3. HeldStaysPending' /\ NoSharedNonce' /\ NoOrphanReservation'
  <2>1. pending' = pending /\ latest' = latest /\ latest \in Counts
    BY DEF TypeOK
  <2>2. \A v \in Writers : (Holds(v)' <=> Holds(v)) /\ (Holds(v) => nonce'[v] = nonce[v])
    BY DEF TypeOK, Holds, Bookkeeping, IdleUnreserved
  <2> QED
    BY <2>1, <2>2, HoldersShrink DEF Counts
<1> QED
  BY <1>1, <1>2, <1>3

(* The scope's finalizer releases the nonce of the writer that lets it go; if
   another writer holds the same one, it is used up already. *)
LEMMA WriteGivenUpKeepsIInv ==
    ASSUME IInv, NEW w \in Writers, WriteGivenUp(w)
    PROVE IInv'
<1> USE MaxNonceAssumption, MaxRetriesAssumption, NoneAssumption
    DEF IInv, WriteGivenUp, Goto, Release, managerVars
<1>1. TypeOK'
  BY DEF TypeOK, ManagerTypeOK, PC
<1>2. Bookkeeping' /\ FloorNeverAhead'
  BY DEF TypeOK, Bookkeeping, InFlightHasNonce, IdleUnreserved, AttemptBound, WritingBound,
     RetryBelowFloor, FloorNeverAhead
<1>3. HeldStaysPending' /\ NoSharedNonce' /\ NoOrphanReservation'
  <2>1. latest' = latest /\ latest \in Counts /\ pending' \subseteq pending
    BY DEF TypeOK
  <2>2. ~Holds(w)' /\ (Holds(w) => pending' = pending \ {nonce[w]})
    BY DEF TypeOK, Holds
  <2>3. ~Holds(w) => pending' = pending
    BY DEF TypeOK, Holds
  <2>4. \A v \in Writers : v # w => (Holds(v)' <=> Holds(v)) /\ nonce'[v] = nonce[v]
    BY DEF TypeOK, Holds
  <2>5. \A v \in Writers : (v # w /\ Holds(v) /\ Holds(w) /\ nonce[v] = nonce[w]) => nonce[v] < latest
    BY DEF NoSharedNonce
  <2> QED
    BY <2>1, <2>2, <2>3, <2>4, <2>5, HoldersShrink DEF Counts
<1> QED
  BY <1>1, <1>2, <1>3

(* The rejected nonce is used up, and so is the nonce below the provider's
   floor that is confirmed in its place: other holders of either lose
   nothing they could still spend. *)
LEMMA NonceTooLowKeepsIInv ==
    ASSUME IInv, NEW w \in Writers, NonceTooLow(w)
    PROVE IInv'
<1> USE MaxNonceAssumption, MaxRetriesAssumption, NoneAssumption
    DEF IInv, NonceTooLow, RejectedFloors, Goto
<1>1. nonce[w] \in Nonces /\ latest \in Counts
  BY DEF TypeOK, Bookkeeping, InFlightHasNonce
<1>2. PICK floor \in nonce[w]..(latest - 1) : Confirm(floor)
  OBVIOUS
<1>3. floor \in Nonces /\ nonce[w] <= floor /\ floor < latest
  BY <1>1, <1>2 DEF Nonces, Counts
<1>4. /\ pending' = pending \ {floor} /\ confirmed' \in Counts
      /\ confirmed <= confirmed' /\ floor < confirmed' /\ confirmed' <= latest
  BY <1>1, <1>2, <1>3, ConfirmRaises DEF TypeOK, ManagerTypeOK, Counts, Nonces, FloorNeverAhead
<1>5. attempt[w] \in 0..MaxRetries
  BY DEF TypeOK, Bookkeeping, WritingBound
<1>6. TypeOK'
  <2>1. attempt' \in [Writers -> 0..(MaxRetries + 1)]
    BY <1>5 DEF TypeOK
  <2> QED
    BY <1>4, <2>1 DEF TypeOK, ManagerTypeOK, PC
<1>7. FloorNeverAhead'
  BY <1>4 DEF FloorNeverAhead
<1>8. Bookkeeping'
  <2>1. InFlightHasNonce' /\ IdleUnreserved'
    BY DEF TypeOK, Bookkeeping, InFlightHasNonce, IdleUnreserved
  <2>2. AttemptBound' /\ WritingBound'
    BY <1>5 DEF TypeOK, Bookkeeping, AttemptBound, WritingBound
  <2>3. RetryBelowFloor'
    BY <1>1, <1>3, <1>4 DEF TypeOK, ManagerTypeOK, Bookkeeping, RetryBelowFloor, Counts, Nonces
  <2> QED
    BY <2>1, <2>2, <2>3 DEF Bookkeeping
<1>9. HeldStaysPending' /\ NoSharedNonce' /\ NoOrphanReservation'
  <2>1. \A v \in Writers : v # w => (Holds(v)' <=> Holds(v)) /\ nonce'[v] = nonce[v]
    BY DEF TypeOK, Holds
  <2>2. ~Holds(w)' /\ nonce[w] < latest
    BY DEF TypeOK, Holds
  <2> QED
    BY <1>1, <1>3, <1>4, <2>1, <2>2, HoldersShrink DEF Counts, Nonces
<1> QED
  BY <1>6, <1>7, <1>8, <1>9

(* A receipt arrives only for a nonce that is used up. *)
LEMMA ReceiptKeepsIInv ==
    ASSUME IInv, NEW w \in Writers, Receipt(w)
    PROVE IInv'
<1> USE MaxNonceAssumption, MaxRetriesAssumption, NoneAssumption
    DEF IInv, Receipt, Finish, Goto
<1>1. nonce[w] \in Nonces /\ nonce[w] < latest /\ latest \in Counts
  BY DEF TypeOK, Bookkeeping, InFlightHasNonce
<1>2. /\ pending' \subseteq pending /\ pending \subseteq pending' \union {nonce[w]}
      /\ confirmed' \in Counts /\ confirmed <= confirmed' /\ confirmed' <= latest
  <2>1. CASE reserved[w]
    BY <1>1, <2>1, ConfirmRaises DEF TypeOK, ManagerTypeOK, FloorNeverAhead, Counts, Nonces
  <2>2. CASE ~reserved[w]
    BY <2>2 DEF TypeOK, ManagerTypeOK, managerVars, FloorNeverAhead, Counts
  <2> QED
    BY <2>1, <2>2
<1>3. TypeOK'
  BY <1>2 DEF TypeOK, ManagerTypeOK, PC
<1>4. Bookkeeping' /\ FloorNeverAhead'
  BY <1>2 DEF TypeOK, ManagerTypeOK, Bookkeeping, InFlightHasNonce, IdleUnreserved, AttemptBound,
     WritingBound, RetryBelowFloor, FloorNeverAhead, Counts, Nonces
<1>5. HeldStaysPending' /\ NoSharedNonce' /\ NoOrphanReservation'
  <2>1. \A v \in Writers : v # w => (Holds(v)' <=> Holds(v)) /\ nonce'[v] = nonce[v]
    BY DEF TypeOK, Holds
  <2>2. ~Holds(w)'
    BY DEF TypeOK, Holds
  <2> QED
    BY <1>1, <1>2, <2>1, <2>2, HoldersShrink DEF Counts, Nonces
<1> QED
  BY <1>3, <1>4, <1>5

(* sync only moves the floor, to a count the chain has reached; a new block
   only uses nonces up. *)
LEMMA OutsideStepsKeepIInv ==
    ASSUME IInv, Sync \/ Consume
    PROVE IInv'
<1> USE MaxNonceAssumption DEF IInv, managerVars, writerVars
<1>1. CASE Sync
  <2>1. /\ pending' = pending /\ latest' = latest /\ latest \in Counts /\ confirmed \in Counts
        /\ confirmed' \in 0..latest
        /\ lowered' = IF confirmed' < confirmed THEN TRUE ELSE lowered
    BY <1>1 DEF Sync, SetConfirmed, TypeOK, ManagerTypeOK
  <2>2. UNCHANGED writerVars
    BY <1>1 DEF Sync
  <2>3. ~lowered' => ~lowered /\ ~(confirmed' < confirmed)
    BY <2>1, Zenon
  <2>4. TypeOK'
    <3>1. lowered' \in BOOLEAN
      BY <2>1 DEF TypeOK
    <3>2. ManagerTypeOK' /\ latest' \in Counts
      BY <2>1 DEF TypeOK, ManagerTypeOK, Counts
    <3> QED
      BY <2>2, <3>1, <3>2 DEF TypeOK
  <2>5. Bookkeeping' /\ FloorNeverAhead'
    BY <2>1, <2>2, <2>3 DEF Bookkeeping, InFlightHasNonce, IdleUnreserved, AttemptBound,
       WritingBound, RetryBelowFloor, FloorNeverAhead, Counts, Nonces
  <2>6. \A v \in Writers : (Holds(v)' <=> Holds(v)) /\ nonce'[v] = nonce[v]
    BY <2>2 DEF Holds
  <2> QED
    BY <2>1, <2>4, <2>5, <2>6, HoldersShrink DEF Counts
<1>2. CASE Consume
  <2>1. pending' = pending /\ latest' \in Counts /\ latest <= latest'
    BY <1>2 DEF Consume, TypeOK, Counts
  <2>2. TypeOK' /\ Bookkeeping' /\ FloorNeverAhead'
    BY <1>2, <2>1 DEF Consume, TypeOK, ManagerTypeOK, Counts, Bookkeeping, InFlightHasNonce,
       IdleUnreserved, AttemptBound, WritingBound, RetryBelowFloor, FloorNeverAhead
  <2>3. \A v \in Writers : (Holds(v)' <=> Holds(v)) /\ nonce'[v] = nonce[v]
    BY <1>2 DEF Consume, Holds
  <2> QED
    BY <2>1, <2>2, <2>3, HoldersShrink
<1> QED
  BY <1>1, <1>2

LEMMA StutterKeepsIInv ==
    ASSUME IInv, UNCHANGED vars
    PROVE IInv'
BY DEF IInv, vars, managerVars, writerVars, TypeOK, ManagerTypeOK, Bookkeeping, InFlightHasNonce,
   IdleUnreserved, AttemptBound, WritingBound, RetryBelowFloor, FloorNeverAhead,
   HeldStaysPending, NoSharedNonce, NoOrphanReservation, Holds

LEMMA NextKeepsIInv == IInv /\ [Next]_vars => IInv'
<1> SUFFICES ASSUME IInv, [Next]_vars PROVE IInv'
  OBVIOUS
<1>1. ASSUME NEW w \in Writers, WriterStep(w) PROVE IInv'
  BY <1>1, ReserveKeepsIInv, QuietStepsKeepIInv, WriteGivenUpKeepsIInv, NonceTooLowKeepsIInv,
     ReceiptKeepsIInv DEF WriterStep
<1> QED
  BY <1>1, OutsideStepsKeepIInv, StutterKeepsIInv DEF Next

(* The inductive invariant is an invariant. *)
THEOREM IInvHolds == Spec => []IInv
<1>1. Init => IInv
  BY InitEstablishesIInv
<1>2. IInv /\ [Next]_vars => IInv'
  BY NextKeepsIInv
<1> QED
  BY <1>1, <1>2, PTL DEF Spec

------------------------------------------------------------------------------
(* The properties the runs check, for every instance. *)

(* Type correctness of the pipeline's state. *)
THEOREM TypeCorrect == Spec => []TypeOK
BY IInvHolds, PTL DEF IInv

(* The local floor never runs ahead of the chain. *)
THEOREM FloorSafety == Spec => []FloorNeverAhead
BY IInvHolds, PTL DEF IInv

(* No spendable nonce is in use by two managed transactions. *)
THEOREM ReservationSafety == Spec => []NoSharedNonce
BY IInvHolds, PTL DEF IInv

(* No spendable nonce stays reserved without a holder. *)
THEOREM NoOrphanSafety == Spec => []NoOrphanReservation
BY IInvHolds, PTL DEF IInv

(* A reservation in use stays in the ledger until the chain used its nonce. *)
THEOREM HeldSafety == Spec => []HeldStaysPending
BY IInvHolds, PTL DEF IInv

LEMMA RetryStep ==
    ASSUME IInv, [Next]_vars, NEW w \in Writers,
           pc[w] = "retry", pc'[w] = "writing", ~lowered
    PROVE nonce'[w] > nonce[w]
<1>1. TypeOK /\ nonce[w] \in Nonces /\ nonce[w] < confirmed /\ confirmed \in Counts
  BY DEF IInv, Bookkeeping, RetryBelowFloor, TypeOK, ManagerTypeOK
<1>2. Reserve(w)
  <2>1. ASSUME NEW v \in Writers, WriterStep(v) PROVE Reserve(w)
    BY <1>1, <2>1 DEF TypeOK, WriterStep, Reserve, UseExplicit, EndsUnsubmitted, Broadcast,
       WriteReturns, WriteGivenUp, NonceTooLow, FallbackBroadcast, Receipt, TrackingGivenUp,
       Finish, Goto
  <2>2. ~Sync /\ ~Consume /\ ~UNCHANGED vars
    BY DEF Sync, Consume, vars, writerVars
  <2> QED
    BY <2>1, <2>2 DEF Next
<1>3. PICK count \in Counts, n \in Nonces : /\ ReserveNext(count, n)
                                            /\ nonce' = [nonce EXCEPT ![w] = n]
  BY <1>2 DEF Reserve
<1>4. confirmed <= n /\ nonce'[w] = n
  BY <1>1, <1>3, ReserveNextFresh DEF TypeOK
<1> QED
  BY <1>1, <1>4, MaxNonceAssumption DEF Nonces, Counts

(* Nonce-too-low retries make progress. *)
THEOREM RetryProgress == Spec => RetryGoesUp
<1>1. IInv /\ [Next]_vars =>
        [\A w \in Writers :
            (pc[w] = "retry" /\ pc'[w] = "writing" /\ ~lowered) => nonce'[w] > nonce[w]]_vars
  BY RetryStep
<1> QED
  BY <1>1, IInvHolds, PTL DEF Spec, RetryGoesUp

------------------------------------------------------------------------------
(* The refinement of NonceLease. *)

LeaseOf(w) == IF Holds(w) THEN nonce[w] ELSE None

LEMMA LeaseInitially == Init => Lease!LeaseInit
BY DEF Init, Holds, Lease!LeaseInit

(* A step that changes no holder and no holder's nonce changes no lease. *)
LEMMA SameHoldersSameLease ==
    ASSUME \A v \in Writers : (Holds(v)' <=> Holds(v)) /\ (Holds(v) => nonce'[v] = nonce[v])
    PROVE [v \in Writers |-> LeaseOf(v)]' = [v \in Writers |-> LeaseOf(v)]
BY DEF LeaseOf

(* A step after which w, and nobody else, holds nothing, gives back or
   stutters. *)
LEMMA LettingGo ==
    ASSUME IInv, NEW w \in Writers, ~Holds(w)', latest' = latest,
           \A v \in Writers : v # w => (Holds(v)' <=> Holds(v)) /\ nonce'[v] = nonce[v]
    PROVE [Lease!LeaseNext]_<<[v \in Writers |-> LeaseOf(v)], latest>>
<1>1. CASE Holds(w)
  <2>1. LeaseOf(w) # None
    BY <1>1, NoneAssumption DEF LeaseOf, IInv, Bookkeeping, InFlightHasNonce, Holds
  <2>2. [v \in Writers |-> LeaseOf(v)]' = [[v \in Writers |-> LeaseOf(v)] EXCEPT ![w] = None]
    BY <1>1 DEF LeaseOf
  <2> QED
    BY <2>1, <2>2 DEF Lease!LeaseNext, Lease!GiveBack, LeaseOf
<1>2. CASE ~Holds(w)
  BY <1>2, SameHoldersSameLease
<1> QED
  BY <1>1, <1>2

LEMMA ReserveTakes ==
    ASSUME IInv, NEW w \in Writers, Reserve(w)
    PROVE Lease!LeaseNext
<1>1. PICK count \in Counts, n \in Nonces : /\ ReserveNext(count, n)
                                            /\ nonce' = [nonce EXCEPT ![w] = n]
  BY DEF Reserve
<1>2. n \notin pending
  BY <1>1, ReserveNextFresh
<1>3. \A v \in Writers : (LeaseOf(v) = n) => n < latest
  BY <1>2, NoneAssumption DEF LeaseOf, IInv, HeldStaysPending
<1>4. LeaseOf(w) = None /\ n \in 0..MaxNonce /\ latest' = latest
  BY DEF LeaseOf, Holds, Reserve, Nonces
<1>5. [v \in Writers |-> LeaseOf(v)]' = [[v \in Writers |-> LeaseOf(v)] EXCEPT ![w] = n]
  BY <1>1 DEF LeaseOf, Holds, Reserve, Goto, IInv, TypeOK
<1>6. Lease!Take(w, n)
  BY <1>3, <1>4, <1>5 DEF Lease!Take, LeaseOf
<1> QED
  BY <1>4, <1>6 DEF Lease!LeaseNext

LEMMA StepKeepsLease == IInv /\ [Next]_vars => [Lease!LeaseNext]_Lease!leaseVars
<1> SUFFICES ASSUME IInv, [Next]_vars
             PROVE [Lease!LeaseNext]_<<[v \in Writers |-> LeaseOf(v)], latest>>
  BY DEF Lease!leaseVars, LeaseOf
<1>1. ASSUME NEW w \in Writers, WriterStep(w)
      PROVE [Lease!LeaseNext]_<<[v \in Writers |-> LeaseOf(v)], latest>>
  <2>1. CASE Reserve(w)
    BY <2>1, ReserveTakes
  <2>2. CASE NonceTooLow(w) \/ WriteGivenUp(w) \/ Receipt(w) \/ EndsUnsubmitted(w)
    <3>1. ~Holds(w)' /\ latest' = latest
      BY <2>2 DEF IInv, TypeOK, Holds, NonceTooLow, WriteGivenUp, Receipt, EndsUnsubmitted, Finish,
         Goto
    <3>2. \A v \in Writers : v # w => (Holds(v)' <=> Holds(v)) /\ nonce'[v] = nonce[v]
      BY <2>2 DEF IInv, TypeOK, Holds, NonceTooLow, WriteGivenUp, Receipt, EndsUnsubmitted, Finish,
         Goto
    <3> QED
      BY <3>1, <3>2, LettingGo
  <2>3. CASE UseExplicit(w) \/ Broadcast(w) \/ WriteReturns(w) \/ FallbackBroadcast(w)
               \/ TrackingGivenUp(w)
    <3>1. \A v \in Writers : (Holds(v)' <=> Holds(v)) /\ (Holds(v) => nonce'[v] = nonce[v])
      BY <2>3 DEF IInv, TypeOK, Bookkeeping, IdleUnreserved, Holds, UseExplicit, Broadcast,
         WriteReturns, FallbackBroadcast, TrackingGivenUp, Goto
    <3>2. latest' = latest
      BY <2>3 DEF UseExplicit, Broadcast, WriteReturns, FallbackBroadcast, TrackingGivenUp
    <3> QED
      BY <3>1, <3>2, SameHoldersSameLease
  <2> QED
    BY <1>1, <2>1, <2>2, <2>3 DEF WriterStep
<1>2. CASE Sync \/ UNCHANGED vars
  <2>1. \A v \in Writers : (Holds(v)' <=> Holds(v)) /\ (Holds(v) => nonce'[v] = nonce[v])
    BY <1>2 DEF Sync, vars, writerVars, Holds
  <2>2. latest' = latest
    BY <1>2 DEF Sync, vars
  <2> QED
    BY <2>1, <2>2, SameHoldersSameLease
<1>3. CASE Consume
  <2>1. \A v \in Writers : (Holds(v)' <=> Holds(v)) /\ (Holds(v) => nonce'[v] = nonce[v])
    BY <1>3 DEF Consume, writerVars, Holds
  <2>2. [v \in Writers |-> LeaseOf(v)]' = [v \in Writers |-> LeaseOf(v)] /\ latest' = latest + 1
    BY <1>3, <2>1, SameHoldersSameLease DEF Consume
  <2> QED
    BY <2>2 DEF Lease!LeaseNext, Lease!Spend, LeaseOf
<1> QED
  BY <1>1, <1>2, <1>3 DEF Next

(* The ledger of nonces accounts for the chain and for every writer. *)
THEOREM LedgerSafety == Spec => []LedgerAccounted
BY TypeCorrect, FloorSafety, NoOrphanSafety, HeldSafety, PTL DEF LedgerAccounted

(* The pipeline implements the exclusive-lease specification. *)
THEOREM PipelineImplementsLease == Spec => ImplementsLease
<1>1. Init => Lease!LeaseInit
  BY LeaseInitially
<1>2. IInv /\ [Next]_vars => [Lease!LeaseNext]_Lease!leaseVars
  BY StepKeepsLease
<1> QED
  BY <1>1, <1>2, IInvHolds, PTL DEF Spec, ImplementsLease, Lease!LeaseSpec
==============================================================================
