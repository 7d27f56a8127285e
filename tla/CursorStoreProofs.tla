------------------------- MODULE CursorStoreProofs -------------------------
(***************************************************************************)
(* Proofs about CursorStore, for any number of loops, calls and crossing   *)
(* deletes.  As long as no loop dies, a slot always has a loop; as long as *)
(* deletes do not cross either, the loops take turns, cursors reach        *)
(* storage in order, and storage agrees with the last call at rest.        *)
(***************************************************************************)
EXTENDS CursorStore, TLAPS

(* The part of the state that ownership depends on. *)
OwnershipTypeOK ==
    /\ slot \in Cursors \union {NoSlot, Drained, Tombstone}
    /\ pc \in [Loops -> PC]
    /\ sets \in Nat

IInv == OwnershipTypeOK /\ OwnedSlot

(* A loop's own steps: a sleeping or writing loop that stops owning the slot
   has removed it, and every other loop stays where it was. *)
LEMMA DrainKeepsOwnership ==
    ASSUME IInv, NEW l \in Loops, Drain(l), pc[l] = "sleeping",
           UNCHANGED <<open, died, sets>>
    PROVE IInv'
<1> USE ValuesAssumption DEF IInv, OwnershipTypeOK, PC, At
<1>1. OwnershipTypeOK'
  BY DEF Drain
<1>2. CASE slot \in Cursors
  <2>1. pc'[l] = "writing"
    BY <1>2 DEF Drain
  <2> QED
    BY <1>1, <2>1 DEF OwnedSlot, Owns
<1>3. CASE slot \notin Cursors
  <2>1. slot' = NoSlot
    BY <1>3 DEF Drain
  <2> QED
    BY <1>1, <2>1 DEF OwnedSlot
<1> QED
  BY <1>2, <1>3

LEMMA SettleKeepsOwnership ==
    ASSUME IInv, NEW l \in Loops, Settle(l), UNCHANGED <<open, died, sets>>
    PROVE IInv'
<1> USE ValuesAssumption DEF IInv, OwnershipTypeOK, PC, At
<1>1. OwnershipTypeOK'
  BY DEF Settle
<1>2. CASE slot \in Cursors
  <2>1. pc'[l] = "sleeping"
    BY <1>2 DEF Settle
  <2> QED
    BY <1>1, <2>1 DEF OwnedSlot, Owns
<1>3. CASE slot \notin Cursors
  <2>1. slot' = NoSlot
    BY <1>3 DEF Settle
  <2> QED
    BY <1>1, <2>1 DEF OwnedSlot
<1> QED
  BY <1>2, <1>3

(* The finalizer of a loop that was not the owner disturbs no owner. *)
LEMMA EnsuringKeepsOwnership ==
    ASSUME IInv, NEW l \in Loops, Ensuring(l), UNCHANGED <<open, sets>>,
           died' \/ ~open \/ (died' = died /\ pc[l] = "removing")
    PROVE IInv'
<1> USE ValuesAssumption DEF IInv, OwnershipTypeOK, PC, At
<1>1. OwnershipTypeOK'
  BY DEF Ensuring
<1>2. OwnedSlot'
  <2>1. CASE died' \/ ~open
    BY <2>1 DEF OwnedSlot
  <2>2. CASE died' = died /\ pc[l] = "removing"
    <3>1. \A k \in Loops : Owns(k) => Owns(k)'
      BY <2>2 DEF Ensuring, Owns
    <3>2. slot' # NoSlot => slot # NoSlot
      BY DEF Ensuring
    <3> QED
      BY <2>2, <3>1, <3>2 DEF OwnedSlot
  <2> QED
    BY <2>1, <2>2
<1> QED
  BY <1>1, <1>2

LEMMA CallsKeepOwnership ==
    ASSUME IInv,
           Set \/ CloseScope
             \/ \E d \in Deleters : Delete(d) \/ DeleteLands(d) \/ DeleteReturns(d)
    PROVE IInv'
<1> USE ValuesAssumption DEF IInv, OwnershipTypeOK, PC, At
<1>1. CASE Set
  <2>1. sets + 1 \in Cursors
    BY <1>1, BoundsAssumption DEF Set, Cursors
  <2> QED
    BY <1>1, <2>1 DEF Set, OwnedSlot, Owns, loopVars
<1>2. CASE CloseScope
  BY <1>2 DEF CloseScope, OwnedSlot, loopVars
<1>3. ASSUME NEW d \in Deleters, Delete(d) \/ DeleteLands(d) \/ DeleteReturns(d) PROVE IInv'
  <2>1. UNCHANGED <<pc, open, died, sets>>
    BY <1>3 DEF Delete, DeleteLands, DeleteReturns, loopVars, histVars
  <2>2. /\ slot' \in {slot, Tombstone}
        /\ slot = NoSlot => slot' = NoSlot
    BY <1>3 DEF Delete, DeleteLands, DeleteReturns
  <2> QED
    BY <2>1, <2>2 DEF OwnedSlot, Owns
<1> QED
  BY <1>1, <1>2, <1>3

LEMMA LoopsKeepOwnership ==
    ASSUME IInv, NEW l \in Loops, LoopStep(l) \/ Lands(l) \/ Dies(l)
    PROVE IInv'
<1>1. CASE Wake(l)
  BY <1>1, DrainKeepsOwnership DEF Wake, callVars, histVars
<1>2. CASE WriteEnds(l)
  BY <1>2, SettleKeepsOwnership DEF WriteEnds, callVars
<1>3. CASE RemoveEnds(l)
  BY <1>3, EnsuringKeepsOwnership DEF RemoveEnds, callVars
<1>4. CASE Interrupted(l)
  BY <1>4, EnsuringKeepsOwnership DEF Interrupted, callVars
<1>5. CASE Dies(l)
  BY <1>5, EnsuringKeepsOwnership DEF Dies, callVars
<1>6. CASE Lands(l)
  BY <1>6 DEF Lands, IInv, OwnershipTypeOK, OwnedSlot, Owns, callVars, histVars
<1>7. CASE LeaveEnds(l)
  <2>1. UNCHANGED <<slot, open, died, sets>>
    BY <1>7 DEF LeaveEnds, callVars
  <2>2. pc' \in [Loops -> PC] /\ \A k \in Loops : Owns(k) => Owns(k)'
    BY <1>7 DEF LeaveEnds, At, Owns, IInv, OwnershipTypeOK, PC
  <2> QED
    BY <2>1, <2>2 DEF IInv, OwnershipTypeOK, OwnedSlot
<1> QED
  BY <1>1, <1>2, <1>3, <1>4, <1>5, <1>6, <1>7 DEF LoopStep

LEMMA StepKeepsOwnership ==
    ASSUME IInv, [Next]_vars
    PROVE IInv'
<1>1. CASE Set \/ CloseScope
             \/ \E d \in Deleters : Delete(d) \/ DeleteLands(d) \/ DeleteReturns(d)
  BY <1>1, CallsKeepOwnership
<1>2. CASE \E l \in Loops : LoopStep(l) \/ Lands(l) \/ Dies(l)
  BY <1>2, LoopsKeepOwnership
<1>3. CASE UNCHANGED vars
  BY <1>3 DEF vars, loopVars, callVars, histVars, IInv, OwnershipTypeOK, OwnedSlot, Owns
<1> QED
  BY <1>1, <1>2, <1>3 DEF Next

(* A key of the store is never wedged: as long as the scope is open and no
   loop has died, a pending slot always has a loop between its sleep and its
   write, which will read the slot again; set() may rely on it and fork none. *)
THEOREM KeyNeverWedged == Spec => []OwnedSlot
<1>1. Init => IInv
  BY DEF Init, IInv, OwnershipTypeOK, OwnedSlot, PC
<1>2. IInv /\ [Next]_vars => IInv'
  BY StepKeepsOwnership
<1>3. IInv => OwnedSlot
  BY DEF IInv
<1> QED
  BY <1>1, <1>2, <1>3, PTL DEF Spec

----------------------------------------------------------------------------
(* What storage holds: the inductive invariant behind StoreConsistent and
   NoStaleOverwrite. *)

(* Where the cursors come from, and what an operation carries. *)
Numbered ==
    /\ slot \in Cursors => slot <= sets
    /\ stored \in Cursors => stored <= sets
    /\ \A l \in Loops :
         /\ pc[l] = "writing" => carried[l] \in Cursors /\ carried[l] <= sets
         /\ pc[l] \in {"removing", "leaving"} => carried[l] = None

(* What the last call wanted. *)
Requested ==
    /\ slot \in Cursors => slot \in wanted
    /\ slot = Tombstone => None \in wanted
    /\ \A d \in Deleters : deleting[d] # "off" => None \in wanted
    /\ ~open /\ ~excused => wanted = {None}

(* While deletes do not cross: one loop owns the slot, and sleeps as long as an
   older one removes; no finalizer meets a tombstone but when the scope closes. *)
InTurn ==
    /\ \A l, m \in Loops : Owns(l) /\ Owns(m) => l = m
    /\ slot = Tombstone => \E l \in Loops : Owns(l)
    /\ open /\ slot = NoSlot => \A l \in Loops : ~Owns(l)
    /\ \A l \in Loops :
         /\ pc[l] = "leaving" => ~open /\ None \in wanted
         /\ pc[l] = "removing" =>
              /\ slot \in Cursors \union {NoSlot}
              /\ None \notin wanted => slot \in Cursors
              /\ \A m \in Loops : Owns(m) => pc[m] = "sleeping" /\ l \in outlast[m]

(* Cursors reach storage in order. *)
Ordered ==
    /\ slot \in Cursors /\ stored \in Cursors => stored <= slot
    /\ \A l \in Loops : pc[l] = "writing" =>
         /\ stored \in Cursors => stored <= carried[l]
         /\ slot \in Cursors => carried[l] <= slot
         /\ carried[l] \notin wanted => slot \in Cursors \union {Tombstone}

(* Storage has what is wanted, or somebody will see to it. *)
OnItsWay ==
    \/ stored \in wanted
    \/ slot \in Cursors \union {Tombstone}
    \/ \E l \in Loops : ~landed[l] /\
         \/ pc[l] = "writing" /\ carried[l] \in wanted
         \/ pc[l] \in {"removing", "leaving"} /\ None \in wanted
    \/ \E d \in Deleters : deleting[d] = "removing"

StoreInv ==
    /\ TypeOK /\ OwnedSlot /\ Numbered /\ Requested
    /\ ~(died \/ crossed) => InTurn /\ Ordered /\ (excused \/ OnItsWay)

(* Where the loops are after At: l elsewhere, the others where they were. *)
LEMMA AtMoves ==
    ASSUME TypeOK, NEW l \in Loops, NEW label \in PC, NEW value \in Values, At(l, label, value)
    PROVE /\ pc' \in [Loops -> PC]
          /\ carried' \in [Loops -> Values]
          /\ landed' \in [Loops -> BOOLEAN]
          /\ pc'[l] = label /\ carried'[l] = value /\ landed'[l] = FALSE
          /\ \A k \in Loops \ {l} : pc'[k] = pc[k] /\ carried'[k] = carried[k] /\ landed'[k] = landed[k]
BY DEF TypeOK, At

(* The loop's own steps, by where it goes. *)
LEMMA DrainMoves ==
    ASSUME TypeOK, NEW l \in Loops, Drain(l)
    PROVE \E label \in PC, value \in Values :
            /\ At(l, label, value)
            /\ \/ slot \in Cursors /\ slot' = Drained /\ label = "writing" /\ value = slot
               \/ slot = Tombstone /\ slot' = NoSlot /\ label = "removing" /\ value = None
               \/ slot \in {Drained, NoSlot} /\ slot' = NoSlot /\ label = "off" /\ value = None
<1>1. CASE slot \in Cursors
  <2>1. At(l, "writing", slot) /\ slot' = Drained
    BY <1>1, ValuesAssumption DEF Drain
  <2>2. "writing" \in PC /\ slot \in Values
    BY <1>1 DEF PC, Values
  <2> QED
    BY <1>1, <2>1, <2>2
<1>2. CASE slot = Tombstone
  <2>1. At(l, "removing", None) /\ slot' = NoSlot
    BY <1>2, ValuesAssumption DEF Drain
  <2>2. "removing" \in PC /\ None \in Values
    BY DEF PC, Values
  <2> QED
    BY <1>2, <2>1, <2>2
<1>3. CASE slot \in {Drained, NoSlot}
  <2>1. At(l, "off", None) /\ slot' = NoSlot
    BY <1>3, ValuesAssumption DEF Drain
  <2>2. "off" \in PC /\ None \in Values
    BY DEF PC, Values
  <2> QED
    BY <1>3, <2>1, <2>2
<1> QED
  BY <1>1, <1>2, <1>3 DEF TypeOK

LEMMA SettleMoves ==
    ASSUME TypeOK, NEW l \in Loops, Settle(l)
    PROVE \E label \in PC : 
            /\ At(l, label, None)
            /\ \/ slot \in Cursors /\ slot' = slot /\ label = "sleeping"
                  /\ outlast' = [Without(l) EXCEPT ![l] = InFlight \ {l}]
               \/ slot = Tombstone /\ slot' = NoSlot /\ label = "removing" /\ outlast' = Without(l)
               \/ slot \in {Drained, NoSlot} /\ slot' = NoSlot /\ label = "off" /\ outlast' = Without(l)
<1>1. "sleeping" \in PC /\ "removing" \in PC /\ "off" \in PC
  BY DEF PC
<1> QED
  BY <1>1, ValuesAssumption DEF Settle

LEMMA EnsuringMoves ==
    ASSUME TypeOK, NEW l \in Loops, Ensuring(l)
    PROVE \E label \in PC :
            /\ At(l, label, None)
            /\ outlast' = Without(l)
            /\ \/ slot \in Cursors /\ slot' = slot /\ label = "off"
               \/ slot = Tombstone /\ slot' = NoSlot /\ label = "leaving"
               \/ slot \in {Drained, NoSlot} /\ slot' = NoSlot /\ label = "off"
<1>1. "leaving" \in PC /\ "off" \in PC
  BY DEF PC
<1> QED
  BY <1>1, ValuesAssumption DEF Ensuring, TypeOK

(* Each step keeps the types. *)
LEMMA WithoutTyped ==
    ASSUME TypeOK, NEW o \in Loops \union Deleters
    PROVE /\ Without(o) \in [Loops -> SUBSET (Loops \union Deleters)]
          /\ InFlight \in SUBSET (Loops \union Deleters)
BY DEF TypeOK, Without, InFlight

LEMMA CallsKeepTypes ==
    ASSUME TypeOK,
           Set \/ CloseScope
             \/ \E d \in Deleters : Delete(d) \/ DeleteLands(d) \/ DeleteReturns(d)
    PROVE TypeOK'
<1> USE BoundsAssumption DEF callVars, histVars, loopVars
<1>1. CASE Set
  <2>1. sets + 1 \in Cursors /\ sets' \in 0..MaxSets
    BY <1>1 DEF Set, TypeOK, Cursors
  <2>2. wanted' \in SUBSET Values /\ excused' = FALSE
    BY <1>1, <2>1 DEF Set, Values
  <2>3. /\ pc' \in [Loops -> PC] /\ carried' \in [Loops -> Values]
        /\ landed' \in [Loops -> BOOLEAN] /\ outlast' \in [Loops -> SUBSET (Loops \union Deleters)]
    <3>1. CASE UNCHANGED loopVars
      BY <3>1 DEF TypeOK
    <3>2. ASSUME NEW l \in Loops, At(l, "sleeping", None), outlast' = [outlast EXCEPT ![l] = InFlight]
          PROVE <2>3
      <4>1. "sleeping" \in PC /\ None \in Values
        BY DEF PC, Values
      <4>2. InFlight \in SUBSET (Loops \union Deleters)
        BY DEF InFlight
      <4> QED
        BY <3>2, <4>1, <4>2, AtMoves DEF TypeOK
    <3> QED
      BY <1>1, <3>1, <3>2 DEF Set
  <2> QED
    BY <1>1, <2>1, <2>2, <2>3 DEF Set, TypeOK
<1>2. CASE CloseScope
  BY <1>2 DEF CloseScope, TypeOK
<1>3. ASSUME NEW d \in Deleters, Delete(d) PROVE TypeOK'
  <2>1. deletes' \in 0..MaxDeletes
    BY <1>3 DEF Delete, TypeOK
  <2>2. wanted' \in SUBSET Values /\ crossed' \in BOOLEAN /\ excused' \in BOOLEAN
    BY <1>3 DEF Delete, TypeOK, Values
  <2>3. deleting' \in [Deleters -> {"off", "removing", "removed"}]
    BY <1>3 DEF Delete, TypeOK
  <2> QED
    BY <1>3, <2>1, <2>2, <2>3 DEF Delete, TypeOK
<1>4. ASSUME NEW d \in Deleters, DeleteLands(d) PROVE TypeOK'
  BY <1>4 DEF DeleteLands, TypeOK, Values
<1>5. ASSUME NEW d \in Deleters, DeleteReturns(d) PROVE TypeOK'
  BY <1>5, WithoutTyped DEF DeleteReturns, TypeOK
<1> QED
  BY <1>1, <1>2, <1>3, <1>4, <1>5

LEMMA LoopsKeepTypes ==
    ASSUME TypeOK, NEW l \in Loops, LoopStep(l) \/ Lands(l) \/ Dies(l)
    PROVE TypeOK'
<1> USE DEF callVars, histVars
<1>1. CASE Wake(l)
  <2>1. PICK label \in PC, value \in Values : At(l, label, value)
    BY <1>1, DrainMoves DEF Wake
  <2>2. slot' \in {Drained, NoSlot}
    BY <1>1 DEF Wake, Drain
  <2> QED
    BY <1>1, <2>1, <2>2, AtMoves DEF Wake, TypeOK
<1>2. CASE WriteEnds(l)
  <2>1. Settle(l)
    BY <1>2 DEF WriteEnds
  <2>2. PICK label \in PC : At(l, label, None) /\ slot' \in {slot, NoSlot}
            /\ outlast' \in {Without(l), [Without(l) EXCEPT ![l] = InFlight \ {l}]}
    BY <2>1, SettleMoves
  <2>3. outlast' \in [Loops -> SUBSET (Loops \union Deleters)]
    BY <2>2, WithoutTyped
  <2>4. None \in Values
    BY DEF Values
  <2> QED
    BY <1>2, <2>2, <2>3, <2>4, AtMoves DEF WriteEnds, NoteLoss, TypeOK
<1>3. CASE RemoveEnds(l) \/ Interrupted(l) \/ Dies(l)
  <2>1. Ensuring(l)
    BY <1>3 DEF RemoveEnds, Interrupted, Dies
  <2>2. PICK label \in PC : At(l, label, None) /\ slot' \in {slot, NoSlot} /\ outlast' = Without(l)
    BY <2>1, EnsuringMoves
  <2>3. None \in Values
    BY DEF Values
  <2> QED
    BY <1>3, <2>2, <2>3, AtMoves, WithoutTyped DEF RemoveEnds, Interrupted, Dies, NoteLoss, TypeOK
<1>4. CASE LeaveEnds(l)
  <2>1. "off" \in PC /\ None \in Values
    BY DEF PC, Values
  <2> QED
    BY <1>4, <2>1, AtMoves, WithoutTyped DEF LeaveEnds, NoteLoss, TypeOK
<1>5. CASE Lands(l)
  BY <1>5 DEF Lands, TypeOK
<1> QED
  BY <1>1, <1>2, <1>3, <1>4, <1>5 DEF LoopStep

LEMMA StepKeepsTypes ==
    ASSUME TypeOK, [Next]_vars
    PROVE TypeOK'
<1>1. CASE UNCHANGED vars
  BY <1>1 DEF vars, loopVars, callVars, histVars, TypeOK
<1> QED
  BY <1>1, CallsKeepTypes, LoopsKeepTypes DEF Next

(* Where the cursors come from: the numbers only grow. *)
LEMMA StepKeepsNumbered ==
    ASSUME TypeOK, Numbered, [Next]_vars
    PROVE Numbered'
<1> USE ValuesAssumption, BoundsAssumption DEF callVars, histVars, loopVars
<1>0. /\ sets \in Nat /\ Cursors \subseteq Nat /\ None \notin Cursors
      /\ Drained \notin Cursors /\ NoSlot \notin Cursors /\ Tombstone \notin Cursors
  BY DEF TypeOK, Cursors
<1>1. CASE Set
  <2>1. sets' = sets + 1 /\ slot' = sets + 1 /\ UNCHANGED stored
    BY <1>1 DEF Set
  <2>2. \A k \in Loops : pc'[k] \in {"writing", "removing", "leaving"} =>
            pc'[k] = pc[k] /\ carried'[k] = carried[k]
    <3>1. ASSUME NEW l \in Loops, At(l, "sleeping", None) PROVE <2>2
      <4>1. "sleeping" \in PC /\ None \in Values
        BY DEF PC, Values
      <4> QED
        BY <3>1, <4>1, AtMoves
    <3> QED
      BY <1>1, <3>1 DEF Set
  <2> QED
    BY <1>0, <2>1, <2>2 DEF Numbered, Cursors
<1>2. CASE CloseScope
  BY <1>2 DEF CloseScope, Numbered
<1>3. ASSUME NEW d \in Deleters, Delete(d) \/ DeleteLands(d) \/ DeleteReturns(d) PROVE Numbered'
  <2>1. UNCHANGED <<pc, carried, sets>> /\ slot' \in {slot, NoSlot, Tombstone} /\ stored' \in {stored, None}
    BY <1>3 DEF Delete, DeleteLands, DeleteReturns
  <2> QED
    BY <1>0, <2>1 DEF Numbered
<1>4. ASSUME NEW l \in Loops, LoopStep(l) \/ Lands(l) \/ Dies(l) PROVE Numbered'
  <2>0. None \in Values /\ "off" \in PC
    BY DEF Values, PC
  <2>1. CASE Wake(l)
    <3>1. PICK label \in PC, value \in Values :
            /\ At(l, label, value)
            /\ \/ slot \in Cursors /\ slot' = Drained /\ label = "writing" /\ value = slot
               \/ slot = Tombstone /\ slot' = NoSlot /\ label = "removing" /\ value = None
               \/ slot \in {Drained, NoSlot} /\ slot' = NoSlot /\ label = "off" /\ value = None
      BY <2>1, DrainMoves DEF Wake
    <3>2. UNCHANGED <<stored, sets>>
      BY <2>1 DEF Wake
    <3>3. /\ slot' \notin Cursors
          /\ \A k \in Loops \ {l} : pc'[k] = pc[k] /\ carried'[k] = carried[k]
          /\ pc'[l] = label /\ carried'[l] = value
      BY <1>0, <3>1, AtMoves
    <3> QED
      BY <1>0, <3>1, <3>2, <3>3 DEF Numbered
  <2>2. CASE WriteEnds(l)
    <3>1. PICK label \in PC : At(l, label, None) /\ label # "writing" /\ slot' \in {slot, NoSlot}
      BY <2>2, SettleMoves DEF WriteEnds
    <3>2. UNCHANGED <<stored, sets>>
      BY <2>2 DEF WriteEnds
    <3> QED
      BY <1>0, <2>0, <3>1, <3>2, AtMoves DEF Numbered
  <2>3. CASE RemoveEnds(l) \/ Interrupted(l) \/ Dies(l)
    <3>1. PICK label \in PC : At(l, label, None) /\ label # "writing" /\ slot' \in {slot, NoSlot}
      BY <2>3, EnsuringMoves DEF RemoveEnds, Interrupted, Dies
    <3>2. UNCHANGED <<stored, sets>>
      BY <2>3 DEF RemoveEnds, Interrupted, Dies
    <3> QED
      BY <1>0, <2>0, <3>1, <3>2, AtMoves DEF Numbered
  <2>4. CASE LeaveEnds(l)
    <3>1. At(l, "off", None) /\ UNCHANGED <<slot, stored, sets>>
      BY <2>4 DEF LeaveEnds
    <3> QED
      BY <1>0, <2>0, <3>1, AtMoves DEF Numbered
  <2>5. CASE Lands(l)
    BY <1>0, <2>5 DEF Lands, Numbered
  <2> QED
    BY <1>4, <2>1, <2>2, <2>3, <2>4, <2>5 DEF LoopStep
<1>5. CASE UNCHANGED vars
  BY <1>5 DEF vars, Numbered
<1> QED
  BY <1>1, <1>2, <1>3, <1>4, <1>5 DEF Next

(* What the slot and the deletes in flight hold is what the last call wants. *)
LEMMA StepKeepsRequested ==
    ASSUME TypeOK, Requested, [Next]_vars
    PROVE Requested'
<1> USE ValuesAssumption DEF callVars, histVars, loopVars
<1>1. CASE Set
  <2>1. /\ sets + 1 \in Cursors /\ slot' = sets + 1 /\ sets + 1 \in wanted'
        /\ open' /\ deleting' = deleting
        /\ (\E d \in Deleters : deleting[d] # "off") => None \in wanted'
    BY <1>1, BoundsAssumption DEF Set, TypeOK, Cursors
  <2> QED
    BY <2>1 DEF Requested
<1>2. CASE CloseScope
  BY <1>2 DEF CloseScope, Requested, TypeOK
<1>3. ASSUME NEW d \in Deleters, Delete(d) PROVE Requested'
  <2>1. /\ slot' \in {NoSlot, Tombstone} /\ wanted' = {None} /\ open'
    BY <1>3 DEF Delete
  <2> QED
    BY <2>1 DEF Requested
<1>4. ASSUME NEW d \in Deleters, DeleteLands(d) \/ DeleteReturns(d) PROVE Requested'
  <2>1. UNCHANGED <<slot, wanted, open>> /\ (excused => excused')
    BY <1>4 DEF DeleteLands, DeleteReturns, TypeOK
  <2>2. \A k \in Deleters : deleting'[k] # "off" => deleting[k] # "off"
    BY <1>4 DEF DeleteLands, DeleteReturns, TypeOK
  <2> QED
    BY <2>1, <2>2 DEF Requested
<1>5. ASSUME NEW l \in Loops, LoopStep(l) \/ Lands(l) \/ Dies(l) PROVE Requested'
  <2>1. UNCHANGED <<wanted, open, deleting>>
    BY <1>5 DEF LoopStep, Wake, WriteEnds, RemoveEnds, LeaveEnds, Interrupted, Lands, Dies
  <2>3. excused => excused'
    <3>1. CASE NoteLoss(l)
      BY <3>1 DEF NoteLoss, TypeOK
    <3>2. CASE excused' = excused
      BY <3>2
    <3> QED
      BY <1>5, <3>1, <3>2 DEF LoopStep, Wake, WriteEnds, RemoveEnds, LeaveEnds, Interrupted, Lands, Dies
  <2>2. slot' \in {slot, NoSlot, Drained}
    BY <1>5 DEF LoopStep, Wake, WriteEnds, RemoveEnds, LeaveEnds, Interrupted, Lands, Dies,
                Drain, Settle, Ensuring
  <2> QED
    BY <2>1, <2>2, <2>3 DEF Requested
<1>6. CASE UNCHANGED vars
  BY <1>6 DEF vars, Requested
<1> QED
  BY <1>1, <1>2, <1>3, <1>4, <1>5, <1>6 DEF Next

(* What the marks of a slot are not, and what a loop that stops being waited
   for leaves of the others' lists. *)
LEMMA Marks ==
    /\ None \notin Cursors /\ Drained \notin Cursors /\ NoSlot \notin Cursors /\ Tombstone \notin Cursors
    /\ NoSlot # Drained /\ NoSlot # Tombstone /\ Drained # Tombstone
    /\ None \in Values /\ Cursors \subseteq Values
    /\ "off" \in PC /\ "sleeping" \in PC
BY ValuesAssumption DEF Values, PC

LEMMA WithoutKeeps ==
    ASSUME TypeOK, NEW o, outlast' = Without(o)
    PROVE \A l \in Loops, m \in Loops : (l # o /\ l \in outlast[m]) => l \in outlast'[m]
BY DEF Without, TypeOK

(* While deletes do not cross, the loops of the key take turns. *)
LEMMA CallsKeepTurn ==
    ASSUME TypeOK, OwnedSlot, Requested, InTurn, ~died, ~crossed',
           Set \/ CloseScope
             \/ \E d \in Deleters : Delete(d) \/ DeleteLands(d) \/ DeleteReturns(d)
    PROVE InTurn'
<1> USE Marks DEF callVars, histVars, loopVars
<1>1. CASE Set
  <2>1. slot' \in Cursors /\ open /\ open'
    BY <1>1, BoundsAssumption DEF Set, TypeOK, Cursors
  <2>2. \A k \in Loops : pc[k] # "leaving"
    BY <2>1 DEF InTurn
  <2>3. CASE slot # NoSlot
    BY <1>1, <2>1, <2>2, <2>3 DEF Set, InTurn, Owns
  <2>4. CASE slot = NoSlot
    <3>1. PICK l \in Loops : At(l, "sleeping", None) /\ pc[l] = "off" /\ outlast' = [outlast EXCEPT ![l] = InFlight]
      BY <1>1, <2>4 DEF Set
    <3>2. \A k \in Loops : ~Owns(k)
      BY <2>1, <2>4 DEF InTurn
    <3>3. pc'[l] = "sleeping" /\ \A k \in Loops \ {l} : pc'[k] = pc[k]
      BY <3>1, AtMoves
    <3>4. outlast'[l] = InFlight
      BY <3>1 DEF TypeOK
    <3>5. \A k \in Loops : pc[k] = "removing" => k \in InFlight
      BY DEF InFlight
    <3> QED
      BY <2>1, <2>2, <3>2, <3>3, <3>4, <3>5 DEF InTurn, Owns
  <2> QED
    BY <2>3, <2>4
<1>2. CASE CloseScope
  BY <1>2 DEF CloseScope, InTurn, Owns
<1>3. ASSUME NEW d \in Deleters, Delete(d) PROVE InTurn'
  <2>1. UNCHANGED <<pc, outlast, open>> /\ open /\ wanted' = {None}
    BY <1>3 DEF Delete
  <2>2. CASE slot = NoSlot
    BY <1>3, <2>1, <2>2 DEF Delete, InTurn, Owns
  <2>3. CASE slot # NoSlot
    <3>1. slot' = Tombstone /\ \A k \in Loops : pc[k] # "removing"
      BY <1>3, <2>3 DEF Delete, TypeOK
    <3>2. \E k \in Loops : Owns(k)
      BY <2>1, <2>3 DEF OwnedSlot
    <3> QED
      BY <2>1, <3>1, <3>2 DEF InTurn, Owns
  <2> QED
    BY <2>2, <2>3
<1>4. ASSUME NEW d \in Deleters, DeleteLands(d) PROVE InTurn'
  BY <1>4 DEF DeleteLands, InTurn, Owns
<1>5. ASSUME NEW d \in Deleters, DeleteReturns(d) PROVE InTurn'
  <2>1. UNCHANGED <<slot, pc, open, wanted>> /\ outlast' = Without(d) /\ d \notin Loops
    BY <1>5, CallersAssumption DEF DeleteReturns
  <2> QED
    BY <2>1, WithoutKeeps DEF InTurn, Owns
<1> QED
  BY <1>1, <1>2, <1>3, <1>4, <1>5

(* A loop that wakes or writes has the key for itself. *)
LEMMA AloneAtWork ==
    ASSUME TypeOK, InTurn, NEW l \in Loops,
           pc[l] = "writing" \/ (pc[l] = "sleeping" /\ outlast[l] = {})
    PROVE /\ \A k \in Loops \ {l} : ~Owns(k)
          /\ \A k \in Loops : pc[k] # "removing"
BY DEF InTurn, Owns

LEMMA LoopsKeepTurn ==
    ASSUME TypeOK, Requested, InTurn, ~died', NEW l \in Loops, LoopStep(l) \/ Lands(l) \/ Dies(l)
    PROVE InTurn'
<1> USE Marks DEF callVars, histVars
<1>1. CASE Wake(l)
  <2>1. PICK label \in PC, value \in Values :
          /\ At(l, label, value)
          /\ \/ slot \in Cursors /\ slot' = Drained /\ label = "writing"
             \/ slot = Tombstone /\ slot' = NoSlot /\ label = "removing"
             \/ slot' = NoSlot /\ label = "off"
    BY <1>1, DrainMoves DEF Wake
  <2>2. pc'[l] = label /\ \A k \in Loops \ {l} : pc'[k] = pc[k]
    BY <2>1, AtMoves
  <2>3. /\ \A k \in Loops \ {l} : ~Owns(k)
        /\ \A k \in Loops : pc[k] # "removing"
    BY <1>1, AloneAtWork DEF Wake
  <2>4. UNCHANGED <<open, wanted>> /\ open /\ \A k \in Loops : pc[k] # "leaving"
    BY <1>1 DEF Wake, InTurn
  <2> QED
    BY <2>1, <2>2, <2>3, <2>4 DEF InTurn, Owns, Requested
<1>2. CASE WriteEnds(l)
  <2>1. PICK label \in PC :
          /\ At(l, label, None)
          /\ \/ slot \in Cursors /\ slot' = slot /\ label = "sleeping"
             \/ slot = Tombstone /\ slot' = NoSlot /\ label = "removing"
             \/ slot' = NoSlot /\ label = "off"
    BY <1>2, SettleMoves DEF WriteEnds
  <2>2. pc'[l] = label /\ \A k \in Loops \ {l} : pc'[k] = pc[k]
    BY <2>1, AtMoves
  <2>3. /\ \A k \in Loops \ {l} : ~Owns(k)
        /\ \A k \in Loops : pc[k] # "removing"
    BY <1>2, AloneAtWork DEF WriteEnds
  <2>4. UNCHANGED <<open, wanted>> /\ open /\ \A k \in Loops : pc[k] # "leaving"
    BY <1>2 DEF WriteEnds, InTurn
  <2> QED
    BY <2>1, <2>2, <2>3, <2>4 DEF InTurn, Owns, Requested
<1>3. CASE RemoveEnds(l) \/ Interrupted(l)
  <2>1. PICK label \in PC :
          /\ At(l, label, None)
          /\ outlast' = Without(l)
          /\ \/ slot \in Cursors /\ slot' = slot /\ label = "off"
             \/ slot = Tombstone /\ slot' = NoSlot /\ label = "leaving"
             \/ slot \in {Drained, NoSlot} /\ slot' = NoSlot /\ label = "off"
    BY <1>3, EnsuringMoves DEF RemoveEnds, Interrupted
  <2>2. pc'[l] = label /\ \A k \in Loops \ {l} : pc'[k] = pc[k]
    BY <2>1, AtMoves
  <2>3. UNCHANGED <<open, wanted>> /\ (~open \/ pc[l] = "removing")
    BY <1>3 DEF RemoveEnds, Interrupted
  <2>4. \A k \in Loops, m \in Loops : (k # l /\ k \in outlast[m]) => k \in outlast'[m]
    BY <2>1, WithoutKeeps
  <2>5. open => slot # Tombstone
    BY <2>3 DEF InTurn
  <2>6. \A k \in Loops \ {l} : pc[k] = "removing" => slot \in Cursors \union {NoSlot}
    BY DEF InTurn
  <2> QED
    BY <2>1, <2>2, <2>3, <2>4, <2>5, <2>6 DEF InTurn, Owns, Requested
<1>4. CASE LeaveEnds(l)
  <2>1. At(l, "off", None) /\ outlast' = Without(l) /\ UNCHANGED <<slot, open, wanted>>
    BY <1>4 DEF LeaveEnds
  <2>2. pc'[l] = "off" /\ \A k \in Loops \ {l} : pc'[k] = pc[k]
    BY <2>1, AtMoves
  <2>3. \A k \in Loops, m \in Loops : (k # l /\ k \in outlast[m]) => k \in outlast'[m]
    BY <2>1, WithoutKeeps
  <2>4. pc[l] = "leaving"
    BY <1>4 DEF LeaveEnds
  <2> QED
    BY <2>1, <2>2, <2>3, <2>4 DEF InTurn, Owns
<1>5. CASE Lands(l)
  BY <1>5 DEF Lands, InTurn, Owns
<1>6. CASE Dies(l)
  BY <1>6 DEF Dies
<1> QED
  BY <1>1, <1>2, <1>3, <1>4, <1>5, <1>6 DEF LoopStep

(* While deletes do not cross, cursors reach storage in order. *)
LEMMA CallsKeepOrder ==
    ASSUME TypeOK, Numbered, InTurn, Ordered,
           Set \/ CloseScope
             \/ \E d \in Deleters : Delete(d) \/ DeleteLands(d) \/ DeleteReturns(d)
    PROVE Ordered'
<1> USE Marks DEF callVars, histVars, loopVars
<1>0. sets \in Nat /\ Cursors \subseteq Nat
  BY BoundsAssumption DEF TypeOK, Cursors
<1>1. CASE Set
  <2>1. slot' = sets + 1 /\ slot' \in Cursors /\ stored' = stored
    BY <1>1, BoundsAssumption DEF Set, TypeOK, Cursors
  <2>2. \A k \in Loops : pc'[k] = "writing" => pc[k] = "writing" /\ carried'[k] = carried[k]
    <3>1. ASSUME NEW l \in Loops, At(l, "sleeping", None) PROVE <2>2
      BY <3>1, AtMoves
    <3> QED
      BY <1>1, <3>1 DEF Set
  <2>3. ASSUME stored \in Cursors PROVE stored <= slot'
    <3>1. stored \in Nat /\ stored <= sets
      BY <1>0, <2>3 DEF Numbered
    <3> QED
      BY <1>0, <2>1, <3>1
  <2>4. ASSUME NEW k \in Loops, pc'[k] = "writing"
        PROVE /\ stored \in Cursors => stored <= carried'[k]
              /\ carried'[k] <= slot'
    <3>1. pc[k] = "writing" /\ carried'[k] = carried[k]
      BY <2>2, <2>4
    <3>2. carried[k] \in Nat /\ carried[k] <= sets
      BY <1>0, <3>1 DEF Numbered
    <3>3. stored \in Cursors => stored <= carried[k]
      BY <3>1 DEF Ordered
    <3> QED
      BY <1>0, <2>1, <3>1, <3>2, <3>3
  <2> QED
    BY <2>1, <2>3, <2>4 DEF Ordered
<1>2. CASE CloseScope
  BY <1>2 DEF CloseScope, Ordered
<1>3. ASSUME NEW d \in Deleters, Delete(d) PROVE Ordered'
  <2>1. UNCHANGED <<pc, carried, stored>> /\ open
    BY <1>3 DEF Delete
  <2>2. slot = NoSlot => \A k \in Loops : pc[k] # "writing"
    BY <2>1 DEF InTurn, Owns
  <2>3. slot' = IF slot = NoSlot THEN NoSlot ELSE Tombstone
    BY <1>3 DEF Delete
  <2> QED
    BY <2>1, <2>2, <2>3 DEF Ordered
<1>4. ASSUME NEW d \in Deleters, DeleteLands(d) \/ DeleteReturns(d) PROVE Ordered'
  <2>1. UNCHANGED <<pc, carried, slot, wanted>> /\ stored' \in {stored, None}
    BY <1>4 DEF DeleteLands, DeleteReturns
  <2> QED
    BY <2>1 DEF Ordered
<1> QED
  BY <1>1, <1>2, <1>3, <1>4

LEMMA LoopsKeepOrder ==
    ASSUME TypeOK, Numbered, Requested, InTurn, Ordered, ~died', NEW l \in Loops,
           LoopStep(l) \/ Lands(l) \/ Dies(l)
    PROVE Ordered'
<1> USE Marks DEF callVars, histVars
<1>0. sets \in Nat /\ Cursors \subseteq Nat
  BY BoundsAssumption DEF TypeOK, Cursors
<1>1. CASE Wake(l)
  <2>1. PICK label \in PC, value \in Values :
          /\ At(l, label, value)
          /\ \/ slot \in Cursors /\ slot' = Drained /\ label = "writing" /\ value = slot
             \/ slot' = NoSlot /\ label # "writing"
    BY <1>1, DrainMoves DEF Wake
  <2>2. pc'[l] = label /\ carried'[l] = value /\ \A k \in Loops \ {l} : pc'[k] = pc[k]
    BY <2>1, AtMoves
  <2>3. \A k \in Loops \ {l} : pc[k] # "writing"
    BY <1>1, AloneAtWork DEF Wake, Owns
  <2>4. UNCHANGED <<stored, wanted>>
    BY <1>1 DEF Wake
  <2> QED
    BY <2>1, <2>2, <2>3, <2>4 DEF Ordered, Requested
<1>2. CASE WriteEnds(l)
  <2>1. PICK label \in PC : At(l, label, None) /\ slot' \in {slot, NoSlot} /\ label # "writing"
    BY <1>2, SettleMoves DEF WriteEnds
  <2>2. pc'[l] = label /\ \A k \in Loops \ {l} : pc'[k] = pc[k]
    BY <2>1, AtMoves
  <2>3. \A k \in Loops \ {l} : pc[k] # "writing"
    BY <1>2, AloneAtWork DEF WriteEnds, Owns
  <2>4. UNCHANGED <<stored, wanted>>
    BY <1>2 DEF WriteEnds
  <2> QED
    BY <2>1, <2>2, <2>3, <2>4 DEF Ordered
<1>3. CASE RemoveEnds(l) \/ Interrupted(l)
  <2>1. PICK label \in PC : At(l, label, None) /\ slot' \in {slot, NoSlot} /\ label # "writing"
    BY <1>3, EnsuringMoves DEF RemoveEnds, Interrupted
  <2>2. pc'[l] = label /\ \A k \in Loops \ {l} : pc'[k] = pc[k]
    BY <2>1, AtMoves
  <2>3. \A k \in Loops \ {l} : pc[k] # "writing"
    BY <1>3 DEF RemoveEnds, Interrupted, InTurn, Owns
  <2>4. UNCHANGED <<stored, wanted>>
    BY <1>3 DEF RemoveEnds, Interrupted
  <2> QED
    BY <2>1, <2>2, <2>3, <2>4 DEF Ordered
<1>4. CASE LeaveEnds(l)
  <2>1. At(l, "off", None) /\ UNCHANGED <<slot, stored, wanted>>
    BY <1>4 DEF LeaveEnds
  <2>2. pc'[l] = "off" /\ \A k \in Loops \ {l} : pc'[k] = pc[k] /\ carried'[k] = carried[k]
    BY <2>1, AtMoves
  <2> QED
    BY <2>1, <2>2 DEF Ordered
<1>5. CASE Lands(l)
  <2>1. UNCHANGED <<slot, pc, carried, wanted>> /\ stored' = carried[l]
    BY <1>5 DEF Lands
  <2>2. CASE pc[l] = "writing"
    <3>1. \A k \in Loops : pc[k] = "writing" => k = l
      BY <2>2 DEF InTurn, Owns
    <3>2. carried[l] \in Cursors
      BY <2>2 DEF Numbered
    <3>3. /\ carried[l] <= carried[l]
          /\ slot \in Cursors => carried[l] <= slot
          /\ carried[l] \notin wanted => slot \in Cursors \union {Tombstone}
      <4>1. carried[l] \in Nat
        BY <1>0, <3>2
      <4>2. carried[l] <= carried[l]
        BY <4>1
      <4> QED
        BY <2>2, <4>2 DEF Ordered
    <3> QED
      BY <2>1, <3>1, <3>3 DEF Ordered
  <2>3. CASE pc[l] # "writing"
    <3>1. stored' = None
      BY <1>5, <2>1, <2>3 DEF Lands, Numbered
    <3> QED
      BY <2>1, <3>1 DEF Ordered
  <2> QED
    BY <2>2, <2>3
<1>6. CASE Dies(l)
  BY <1>6 DEF Dies
<1> QED
  BY <1>1, <1>2, <1>3, <1>4, <1>5, <1>6 DEF LoopStep

(* And what is wanted stays in storage or on its way there, unless a failure or
   the closing scope lost it. *)
LEMMA CallsKeepWay ==
    ASSUME TypeOK, Requested, excused \/ OnItsWay,
           Set \/ CloseScope
             \/ \E d \in Deleters : Delete(d) \/ DeleteLands(d) \/ DeleteReturns(d)
    PROVE excused' \/ OnItsWay'
<1> USE Marks DEF callVars, histVars, loopVars
<1>1. CASE Set
  BY <1>1, BoundsAssumption DEF Set, OnItsWay, TypeOK, Cursors
<1>2. CASE CloseScope
  BY <1>2 DEF CloseScope, OnItsWay
<1>3. ASSUME NEW d \in Deleters, Delete(d) PROVE OnItsWay'
  <2>1. deleting'[d] = "removing"
    BY <1>3 DEF Delete, TypeOK
  <2> QED
    BY <2>1 DEF OnItsWay
<1>4. ASSUME NEW d \in Deleters, DeleteLands(d) PROVE OnItsWay'
  <2>1. stored' = None /\ None \in wanted'
    BY <1>4 DEF DeleteLands, Requested
  <2> QED
    BY <2>1 DEF OnItsWay
<1>5. ASSUME NEW d \in Deleters, DeleteReturns(d) PROVE excused' \/ OnItsWay'
  <2>1. CASE deleting[d] = "removing"
    BY <1>5, <2>1 DEF DeleteReturns, Requested
  <2>2. CASE deleting[d] # "removing"
    <3>1. \A c \in Deleters : deleting[c] = "removing" => deleting'[c] = "removing"
      BY <1>5, <2>2 DEF DeleteReturns, TypeOK
    <3>2. UNCHANGED <<slot, stored, pc, carried, landed, wanted>> /\ (excused => excused')
      BY <1>5 DEF DeleteReturns, TypeOK
    <3> QED
      BY <3>1, <3>2 DEF OnItsWay
  <2> QED
    BY <2>1, <2>2
<1> QED
  BY <1>1, <1>2, <1>3, <1>4, <1>5

(* An operation of a loop that matters, and that ends without effect, is a loss
   that is noted. *)
LEMMA LossIsNoted ==
    ASSUME TypeOK, Numbered, NEW l \in Loops, NoteLoss(l),
           ~landed[l],
           \/ pc[l] = "writing" /\ carried[l] \in wanted
           \/ pc[l] \in {"removing", "leaving"} /\ None \in wanted
    PROVE excused'
BY DEF NoteLoss, Numbered

LEMMA LoopsKeepWay ==
    ASSUME TypeOK, Numbered, Requested, InTurn, Ordered, excused \/ OnItsWay, ~died',
           NEW l \in Loops, LoopStep(l) \/ Lands(l) \/ Dies(l)
    PROVE excused' \/ OnItsWay'
<1> USE Marks DEF callVars, histVars
<1>1. CASE Wake(l)
  <2>1. PICK label \in PC, value \in Values :
          /\ At(l, label, value)
          /\ \/ slot \in Cursors /\ label = "writing" /\ value = slot
             \/ slot = Tombstone /\ label = "removing"
             \/ slot \notin Cursors \union {Tombstone}
    BY <1>1, DrainMoves DEF Wake
  <2>2. /\ pc'[l] = label /\ carried'[l] = value /\ ~landed'[l]
        /\ \A k \in Loops \ {l} : pc'[k] = pc[k] /\ carried'[k] = carried[k] /\ landed'[k] = landed[k]
    BY <2>1, AtMoves
  <2>3. UNCHANGED <<stored, deleting, wanted, excused>> /\ pc[l] = "sleeping"
    BY <1>1 DEF Wake
  <2>4. CASE slot \in Cursors \union {Tombstone}
    BY <2>1, <2>2, <2>3, <2>4 DEF OnItsWay, Requested
  <2>5. CASE slot \notin Cursors \union {Tombstone}
    BY <2>2, <2>3, <2>5 DEF OnItsWay
  <2> QED
    BY <2>4, <2>5
<1>2. CASE WriteEnds(l) \/ RemoveEnds(l) \/ Interrupted(l) \/ LeaveEnds(l)
  <2>1. /\ NoteLoss(l) /\ UNCHANGED <<stored, deleting, wanted>>
        /\ Settle(l) \/ Ensuring(l) \/ (At(l, "off", None) /\ slot' = slot)
    BY <1>2 DEF WriteEnds, RemoveEnds, Interrupted, LeaveEnds
  <2>2. excused => excused'
    BY <2>1 DEF NoteLoss, TypeOK
  <2>3. PICK label \in PC :
          /\ At(l, label, None)
          /\ \/ slot \in Cursors /\ slot' = slot
             \/ slot = Tombstone /\ (slot' = slot \/ label \in {"removing", "leaving"})
             \/ slot \notin Cursors \union {Tombstone}
    BY <2>1, SettleMoves, EnsuringMoves
  <2>4. /\ pc'[l] = label /\ carried'[l] = None /\ ~landed'[l]
        /\ \A k \in Loops \ {l} : pc'[k] = pc[k] /\ carried'[k] = carried[k] /\ landed'[k] = landed[k]
    BY <2>3, AtMoves
  <2>5. CASE slot \in Cursors \union {Tombstone}
    BY <2>1, <2>3, <2>4, <2>5 DEF OnItsWay, Requested
  <2>6. CASE slot \notin Cursors \union {Tombstone}
    BY <2>1, <2>2, <2>4, <2>6, LossIsNoted DEF OnItsWay
  <2> QED
    BY <2>5, <2>6
<1>3. CASE Lands(l)
  <2>1. UNCHANGED <<slot, wanted>> /\ stored' = carried[l]
    BY <1>3 DEF Lands
  <2>2. carried[l] \in wanted \/ slot \in Cursors \union {Tombstone}
    BY <1>3 DEF Lands, Numbered, InTurn, Ordered
  <2> QED
    BY <2>1, <2>2 DEF OnItsWay
<1>4. CASE Dies(l)
  BY <1>4 DEF Dies
<1> QED
  BY <1>1, <1>2, <1>3, <1>4 DEF LoopStep

LEMMA StepKeepsStore ==
    ASSUME StoreInv, [Next]_vars
    PROVE StoreInv'
<1> USE DEF StoreInv
<1>1. TypeOK'
  BY StepKeepsTypes
<1>2. Numbered' /\ Requested'
  BY StepKeepsNumbered, StepKeepsRequested
<1>3. OwnedSlot'
  <2>1. sets \in Nat
    BY BoundsAssumption DEF TypeOK
  <2>2. IInv
    BY <2>1 DEF IInv, OwnershipTypeOK, TypeOK
  <2> QED
    BY <2>2, StepKeepsOwnership DEF IInv
<1>4. ASSUME ~(died' \/ crossed') PROVE InTurn' /\ Ordered' /\ (excused' \/ OnItsWay')
  <2>1. ~(died \/ crossed)
    BY <1>4 DEF TypeOK, Next, vars, Set, CloseScope, Delete, DeleteLands, DeleteReturns, LoopStep, Wake,
                WriteEnds, RemoveEnds, LeaveEnds, Interrupted, Lands, Dies, histVars
  <2>2. InTurn /\ Ordered /\ (excused \/ OnItsWay)
    BY <2>1
  <2>3. CASE UNCHANGED vars
    BY <2>2, <2>3 DEF vars, loopVars, callVars, histVars, InTurn, Ordered, OnItsWay, Owns
  <2>4. CASE Set \/ CloseScope
               \/ \E d \in Deleters : Delete(d) \/ DeleteLands(d) \/ DeleteReturns(d)
    BY <1>4, <2>1, <2>2, <2>4, CallsKeepTurn, CallsKeepOrder, CallsKeepWay
  <2>5. CASE \E l \in Loops : LoopStep(l) \/ Lands(l) \/ Dies(l)
    BY <1>4, <2>2, <2>5, LoopsKeepTurn, LoopsKeepOrder, LoopsKeepWay
  <2> QED
    BY <2>3, <2>4, <2>5 DEF Next
<1> QED
  BY <1>1, <1>2, <1>3, <1>4

LEMMA StoreFromInit == Init => StoreInv
<1> SUFFICES ASSUME Init PROVE StoreInv
  OBVIOUS
<1> USE Marks, BoundsAssumption DEF Init
<1>1. TypeOK
  <2>1. /\ pc \in [Loops -> PC] /\ carried \in [Loops -> Values] /\ landed \in [Loops -> BOOLEAN]
        /\ outlast \in [Loops -> SUBSET (Loops \union Deleters)]
    OBVIOUS
  <2>2. deleting \in [Deleters -> {"off", "removing", "removed"}]
    OBVIOUS
  <2>3. sets \in 0..MaxSets /\ deletes \in 0..MaxDeletes
    OBVIOUS
  <2> QED
    BY <2>1, <2>2, <2>3 DEF TypeOK
<1>2. Numbered /\ Requested /\ OwnedSlot
  BY DEF Numbered, Requested, OwnedSlot
<1>3. InTurn /\ Ordered /\ OnItsWay
  BY DEF InTurn, Ordered, OnItsWay, Owns
<1> QED
  BY <1>1, <1>2, <1>3 DEF StoreInv

(* Storage agrees with the last call once a key is at rest, for any number of
   loops and calls, as long as no loop dies and no delete() meets a loop that
   still removes for an older one. *)
THEOREM StorageIsConsistent == Spec => []StoreConsistent
<1>1. StoreInv => StoreConsistent
  <2> SUFFICES ASSUME StoreInv PROVE StoreConsistent
    OBVIOUS
  <2>1. TypeOK /\ OwnedSlot
    BY DEF StoreInv
  <2>2. OneWriter
    BY DEF OneWriter, StoreInv, InTurn
  <2>3. ASSUME InFlight = {}, \A l \in Loops : pc[l] = "off", ~(died \/ crossed), ~excused
        PROVE stored \in wanted
    <3>1. InTurn /\ Requested /\ OwnedSlot /\ OnItsWay
      BY <2>3 DEF StoreInv
    <3>2. \A d \in Deleters : deleting[d] # "removing"
      BY <2>3 DEF InFlight
    <3>3. slot \notin Cursors \union {Tombstone}
      BY <2>3, <3>1, Marks DEF InTurn, Requested, OwnedSlot, Owns
    <3> QED
      BY <2>3, <3>1, <3>2, <3>3 DEF OnItsWay
  <2> QED
    BY <2>1, <2>2, <2>3 DEF StoreConsistent, QuiescentAgrees
<1> QED
  BY <1>1, StoreFromInit, StepKeepsStore, PTL DEF Spec

(* While that is so, a cursor in storage is only ever replaced by a newer one. *)
THEOREM NewestStays == Spec => NoStaleOverwrite
<1>1. StoreInv /\ [Next]_vars
        => [(stored \in Cursors /\ stored' \in Cursors /\ ~(died \/ crossed)) => stored' >= stored]_vars
  <2> SUFFICES ASSUME StoreInv, Next, stored \in Cursors, stored' \in Cursors, ~(died \/ crossed)
               PROVE stored' >= stored
    BY DEF vars
  <2>0. Cursors \subseteq Nat
    BY DEF Cursors
  <2>1. CASE stored' = stored
    BY <2>0, <2>1
  <2>2. ASSUME NEW l \in Loops, Lands(l) PROVE stored' >= stored
    <3>1. pc[l] = "writing" /\ stored' = carried[l]
      BY <2>2, Marks DEF Lands, StoreInv, Numbered
    <3> QED
      BY <2>0, <3>1 DEF StoreInv, Ordered
  <2>3. ASSUME NEW d \in Deleters, DeleteLands(d) PROVE FALSE
    BY <2>3, Marks DEF DeleteLands
  <2> QED
    BY <2>1, <2>2, <2>3 DEF Next, Set, CloseScope, Delete, DeleteReturns, LoopStep, Wake,
                            WriteEnds, RemoveEnds, LeaveEnds, Interrupted, Dies
<1> QED
  BY <1>1, StoreFromInit, StepKeepsStore, PTL DEF Spec, NoStaleOverwrite

----------------------------------------------------------------------------
(* The abstract specification: every step of the store is one of CursorBuffer
   or none, by the inductive invariant StoreInv. *)

(* What the views are while the loops take turns: at most one of them writes. *)
Views ==
    /\ \A l \in Loops : (pc[l] = "writing" /\ ~landed[l]) => Taken = carried[l] /\ Taken \in Cursors
    /\ (\A l \in Loops : pc[l] # "writing" \/ landed[l]) => Taken = None
    /\ Removal = IF slot = Tombstone /\ Taken # None THEN "owed"
                 ELSE IF Removing THEN "under way" ELSE "none"

LEMMA ViewsHold == StoreInv /\ ~(died \/ crossed) => Views
<1> SUFFICES ASSUME StoreInv, ~(died \/ crossed) PROVE Views
  OBVIOUS
<1> USE Marks
<1>1. ASSUME NEW l \in Loops, pc[l] = "writing", ~landed[l]
      PROVE  Writing = {l} /\ Taken = carried[l] /\ Taken \in Cursors
  <2>1. Writing = {l}
    BY <1>1 DEF Writing, StoreInv, InTurn, Owns
  <2> QED
    BY <1>1, <2>1 DEF Taken, StoreInv, Numbered
<1>2. ASSUME \A l \in Loops : pc[l] # "writing" \/ landed[l] PROVE Writing = {} /\ Taken = None
  BY <1>2 DEF Writing, Taken
<1> QED
  BY <1>1, <1>2 DEF Views, Removal

LEMMA ViewsHoldNext == (StoreInv /\ ~(died \/ crossed) => Views)'
BY ViewsHold, PTL

(* The calls: a set() is buffered, a delete() asks for a removal, and its
   storage.remove lands or ends. *)
LEMMA CallsKeepPromise ==
    ASSUME StoreInv, ~(died \/ crossed), Views, Views',
           Set \/ CloseScope
             \/ \E d \in Deleters : Delete(d) \/ DeleteLands(d) \/ DeleteReturns(d)
    PROVE Buffer!BufferNext(Cursors) \/ UNCHANGED Buffer!bufferVars
<1> USE Marks DEF callVars, histVars, loopVars, Buffer!BufferNext, Buffer!bufferVars, Buffer!Writes
<1>0. TypeOK /\ Numbered /\ InTurn
  BY DEF StoreInv
<1>1. CASE Set
  <2>1. slot' \in Cursors /\ Buffered' = slot' /\ stored' = stored
    <3>1. sets + 1 \in Cursors
      BY <1>0, <1>1, BoundsAssumption DEF Set, TypeOK, Cursors
    <3> QED
      BY <1>1, <3>1 DEF Set, Buffered
  <2>2. \A k \in Loops : (pc'[k] = pc[k] /\ carried'[k] = carried[k] /\ landed'[k] = landed[k])
                        \/ (pc[k] = "off" /\ pc'[k] = "sleeping")
    <3>1. ASSUME NEW l \in Loops, pc[l] = "off", At(l, "sleeping", None) PROVE <2>2
      BY <1>0, <3>1, AtMoves
    <3> QED
      BY <1>1, <3>1 DEF Set
  <2>3. Taken' = Taken
    <3>1. CASE \A k \in Loops : pc[k] # "writing" \/ landed[k]
      BY <2>2, <3>1 DEF Views
    <3>2. ASSUME NEW k \in Loops, pc[k] = "writing", ~landed[k] PROVE Taken' = Taken
      <4>1. pc'[k] = "writing" /\ ~landed'[k] /\ carried'[k] = carried[k]
        BY <2>2, <3>2
      <4>2. Taken = carried[k]
        BY <3>2 DEF Views
      <4>3. Taken' = carried'[k]
        BY <4>1 DEF Views
      <4> QED
        BY <4>1, <4>2, <4>3
    <3> QED
      BY <3>1, <3>2
  <2>4. Removing' => Removing
    BY <1>1, <2>1, <2>2 DEF Removing, Set
  <2>5. Removal' \in {"none"} \union {x \in {"under way"} : Removal # "none"}
    BY <2>1, <2>4 DEF Views
  <2>6. Buffer!Buffers(slot')
    BY <2>1, <2>3, <2>5 DEF Buffer!Buffers
  <2> QED
    BY <2>1, <2>6
<1>2. CASE CloseScope
  BY <1>2 DEF CloseScope, Buffered, Views, Removing
<1>3. ASSUME NEW d \in Deleters, Delete(d) PROVE Buffer!AsksRemoval
  <2>1. UNCHANGED <<stored, pc, carried, landed>> /\ Buffered' = None
    BY <1>3 DEF Delete, Buffered
  <2>2. Taken' = Taken
    BY <2>1 DEF Taken, Writing
  <2>3. Removing'
    BY <1>3, <1>0 DEF Delete, Removing, TypeOK
  <2>4. Taken # None => slot' = Tombstone
    BY <1>3, <1>0 DEF Delete, Views, InTurn, Owns
  <2>5. slot' = Tombstone /\ Taken' # None <=> Taken # None
    BY <2>2, <2>4
  <2> QED
    BY <2>1, <2>2, <2>3, <2>5 DEF Views, Buffer!AsksRemoval
<1>4. ASSUME NEW d \in Deleters, DeleteLands(d) PROVE Buffer!RemovalLands
  <2>1. UNCHANGED <<slot, pc, carried, landed>> /\ Buffered' = Buffered /\ Taken' = Taken /\ stored' = None
    BY <1>4 DEF DeleteLands, Buffered, Views
  <2>2. Removing
    BY <1>4 DEF DeleteLands, Removing
  <2> QED
    BY <2>1, <2>2 DEF Views, Buffer!RemovalLands
<1>5. ASSUME NEW d \in Deleters, DeleteReturns(d)
      PROVE  Buffer!RemovalEnds \/ UNCHANGED Buffer!bufferVars
  <2>1. UNCHANGED <<slot, stored, pc, carried, landed>> /\ Buffered' = Buffered /\ Taken' = Taken
    BY <1>5 DEF DeleteReturns, Buffered, Views
  <2>2. Removing' => Removing
    BY <1>5, <1>0, <2>1 DEF DeleteReturns, Removing, TypeOK
  <2> QED
    BY <2>1, <2>2 DEF Views, Buffer!RemovalEnds
<1> QED
  BY <1>1, <1>2, <1>3, <1>4, <1>5

(* A loop takes what is buffered, and its write lands or is lost; one that
   meets a tombstone removes the key, which outlasts the write it was met in. *)
LEMMA LoopsKeepPromise ==
    ASSUME StoreInv, ~(died \/ crossed), Views, Views', ~died',
           NEW l \in Loops, LoopStep(l) \/ Lands(l) \/ Dies(l)
    PROVE Buffer!BufferNext(Cursors) \/ UNCHANGED Buffer!bufferVars
<1> USE Marks DEF callVars, histVars, Buffer!BufferNext, Buffer!bufferVars, Buffer!Writes
<1>0. TypeOK /\ Numbered /\ InTurn
  BY DEF StoreInv
<1>1. CASE Wake(l)
  <2>1. PICK label \in PC, value \in Values :
          /\ At(l, label, value)
          /\ \/ slot \in Cursors /\ slot' = Drained /\ label = "writing" /\ value = slot
             \/ slot = Tombstone /\ slot' = NoSlot /\ label = "removing" /\ value = None
             \/ slot \in {Drained, NoSlot} /\ slot' = NoSlot /\ label = "off" /\ value = None
    BY <1>0, <1>1, DrainMoves DEF Wake
  <2>2. /\ pc'[l] = label /\ carried'[l] = value /\ landed'[l] = FALSE
        /\ \A k \in Loops \ {l} : pc'[k] = pc[k] /\ carried'[k] = carried[k] /\ landed'[k] = landed[k]
    BY <1>0, <2>1, AtMoves
  <2>3. UNCHANGED <<stored, deleting>> /\ pc[l] = "sleeping" /\ \A k \in Loops : pc[k] # "writing"
    BY <1>0, <1>1, AloneAtWork DEF Wake, Owns
  <2>4. Taken = None
    BY <2>3 DEF Views
  <2>5. CASE slot \in Cursors
    <3>1. label = "writing" /\ value = slot /\ slot' = Drained
      BY <2>1, <2>5
    <3>2. Taken' = slot
      BY <2>2, <3>1 DEF Views
    <3>3. Removing' <=> Removing
      BY <2>2, <2>3, <2>5, <3>1 DEF Removing
    <3>4. Buffer!TakesBuffered
      BY <2>3, <2>4, <2>5, <3>1, <3>2, <3>3 DEF Buffered, Views, Buffer!TakesBuffered
    <3> QED
      BY <3>4
  <2>6. CASE slot \notin Cursors
    <3>1. slot' = NoSlot /\ label \in {"removing", "off"}
      BY <2>1, <2>6
    <3>2. Taken' = None
      BY <2>2, <2>3, <3>1 DEF Views
    <3>3. Removing' <=> Removing
      BY <2>1, <2>2, <2>3, <2>6, <3>1 DEF Removing
    <3> QED
      BY <2>3, <2>4, <2>6, <3>1, <3>2, <3>3 DEF Buffered, Views
  <2> QED
    BY <2>5, <2>6
<1>2. CASE Lands(l)
  <2>1. /\ UNCHANGED <<slot, pc, carried, deleting>> /\ Buffered' = Buffered /\ stored' = carried[l]
        /\ ~landed[l] /\ landed'[l] /\ \A k \in Loops \ {l} : landed'[k] = landed[k]
    BY <1>0, <1>2 DEF Lands, Buffered, TypeOK
  <2>2. CASE pc[l] = "writing"
    <3>1. Taken = stored' /\ Taken # None
      BY <2>1, <2>2 DEF Views
    <3>2. Taken' = None
      BY <1>0, <2>1, <2>2 DEF Views, InTurn, Owns
    <3>3. Removing' <=> Removing
      BY <2>1, <2>2 DEF Removing
    <3>4. slot = Tombstone => Removing
      BY DEF Removing
    <3>5. Buffer!WriteLands
      BY <2>1, <3>1, <3>2, <3>3, <3>4 DEF Views, Buffer!WriteLands, Buffer!WriteOver
    <3> QED
      BY <3>5
  <2>3. CASE pc[l] \in {"removing", "leaving"}
    <3>1. stored' = None /\ Taken' = Taken /\ Removing
      BY <1>0, <2>1, <2>3 DEF Views, Numbered, Removing
    <3>2. Buffer!RemovalLands
      BY <2>1, <3>1 DEF Views, Buffer!RemovalLands
    <3> QED
      BY <3>2
  <2> QED
    BY <1>2, <2>2, <2>3 DEF Lands
<1>3. CASE WriteEnds(l) \/ (Interrupted(l) /\ pc[l] # "removing")
  <2>1. PICK label \in PC :
          /\ At(l, label, None)
          /\ \/ slot \in Cursors /\ slot' = slot /\ label \in {"sleeping", "off"}
             \/ slot = Tombstone /\ slot' = NoSlot /\ label \in {"removing", "leaving"}
             \/ slot \in {Drained, NoSlot} /\ slot' = NoSlot /\ label = "off"
    BY <1>0, <1>3, SettleMoves, EnsuringMoves DEF WriteEnds, Interrupted
  <2>2. /\ pc'[l] = label /\ landed'[l] = FALSE
        /\ \A k \in Loops \ {l} : pc'[k] = pc[k] /\ carried'[k] = carried[k] /\ landed'[k] = landed[k]
    BY <1>0, <2>1, AtMoves
  <2>3. UNCHANGED <<stored, deleting>> /\ Owns(l) /\ \A k \in Loops \ {l} : pc[k] # "writing"
    BY <1>0, <1>3 DEF WriteEnds, Interrupted, InTurn, Owns
  <2>4. Taken' = None /\ Buffered' = Buffered
    BY <2>1, <2>2, <2>3 DEF Views, Buffered
  <2>5. Removing' <=> Removing
    BY <2>1, <2>2, <2>3 DEF Removing, Owns
  <2>6. slot' # Tombstone /\ (slot = Tombstone => Removing)
    BY <2>1 DEF Removing
  <2>7. CASE Taken = None
    BY <2>3, <2>4, <2>5, <2>6, <2>7 DEF Views
  <2>8. CASE Taken # None
    <3>1. Buffer!WriteLost
      BY <2>3, <2>4, <2>5, <2>6, <2>8 DEF Views, Buffer!WriteLost, Buffer!WriteOver
    <3> QED
      BY <3>1
  <2> QED
    BY <2>7, <2>8
<1>4. CASE RemoveEnds(l) \/ LeaveEnds(l) \/ (Interrupted(l) /\ pc[l] = "removing")
  <2>1. At(l, "off", None) /\ slot' = slot /\ UNCHANGED <<stored, deleting>>
    <3>1. CASE LeaveEnds(l)
      BY <3>1 DEF LeaveEnds
    <3>2. CASE pc[l] = "removing" /\ Ensuring(l) /\ UNCHANGED <<stored, deleting>>
      BY <1>0, <3>2 DEF InTurn, Ensuring
    <3> QED
      BY <1>4, <3>1, <3>2 DEF RemoveEnds, LeaveEnds, Interrupted
  <2>2. /\ pc'[l] = "off" /\ pc[l] # "writing"
        /\ \A k \in Loops \ {l} : pc'[k] = pc[k] /\ carried'[k] = carried[k] /\ landed'[k] = landed[k]
    BY <1>0, <1>4, <2>1, AtMoves DEF RemoveEnds, LeaveEnds, Interrupted
  <2>3. Taken' = Taken /\ Buffered' = Buffered
    BY <2>1, <2>2 DEF Views, Buffered
  <2>4. Removing' => Removing
    BY <2>1, <2>2 DEF Removing
  <2> QED
    BY <2>1, <2>3, <2>4 DEF Views, Buffer!RemovalEnds
<1>5. CASE Dies(l)
  BY <1>5 DEF Dies
<1> QED
  BY <1>1, <1>2, <1>3, <1>4, <1>5 DEF LoopStep

(* CursorStore implements CursorBuffer: for any number of loops and calls, as
   long as no loop dies and no deletes cross, callers of the store need to
   know no more than what is buffered, on its way, or to be removed. *)
THEOREM StoreImplementsBuffer == Spec => ImplementsBuffer
<1>1. Init => Buffer!BufferInit
  <2> SUFFICES ASSUME Init PROVE Buffer!BufferInit
    OBVIOUS
  <2>1. Writing = {} /\ ~Removing /\ Buffered = None
    BY Marks DEF Init, Writing, Removing, Buffered
  <2> QED
    BY <2>1, Marks DEF Init, Taken, Removal, Buffer!BufferInit
<1>2. ASSUME StoreInv, StoreInv', [Next]_vars, (StoreInv /\ ~(died \/ crossed) => Views)'
      PROVE  [died' \/ crossed' \/ Buffer!BufferNext(Cursors)]_(Buffer!bufferVars)
  <2> SUFFICES ASSUME ~(died' \/ crossed')
               PROVE  Buffer!BufferNext(Cursors) \/ UNCHANGED Buffer!bufferVars
    OBVIOUS
  <2>1. ~(died \/ crossed)
    BY <1>2 DEF StoreInv, TypeOK, Next, vars, Set, CloseScope, Delete, DeleteLands, DeleteReturns, LoopStep, Wake,
                WriteEnds, RemoveEnds, LeaveEnds, Interrupted, Lands, Dies, histVars
  <2>2. Views /\ Views'
    BY <1>2, <2>1, ViewsHold
  <2>3. CASE UNCHANGED vars
    BY <2>3 DEF vars, loopVars, callVars, histVars, Buffer!bufferVars, Buffered, Taken, Removal, Writing, Removing
  <2> QED
    BY <1>2, <2>1, <2>2, <2>3, CallsKeepPromise, LoopsKeepPromise DEF Next
<1> QED
  BY <1>1, <1>2, ViewsHoldNext, StoreFromInit, StepKeepsStore, PTL DEF Spec, ImplementsBuffer
=============================================================================
