---------------------------- MODULE CursorStore ----------------------------
(***************************************************************************)
(* One key of the localStorage cursor store: throttled writes, the flush   *)
(* loop that owns the pending slot, tombstones, and the layer's scope      *)
(* (evm/src/platform/browser/cursor-store/local-storage.ts).               *)
(*                                                                         *)
(* A step is what a fiber does between two points where it waits: a sleep  *)
(* or an operation of BrowserStorage.  BrowserStorage is an interface with *)
(* effectful operations, so an operation takes effect at some moment while *)
(* it is in flight, or fails and has none.  Each operation takes less time *)
(* than the throttle's sleep: a loop does not wake before the operations   *)
(* that were in flight when it fell asleep are over.                       *)
(***************************************************************************)
EXTENDS Integers

CONSTANTS
    Loops,       \* identities of flush loops
    Deleters,    \* identities of delete() calls in flight
    MaxSets,     \* bound on set() calls; the n-th one stores cursor n
    MaxDeletes,  \* bound on delete() calls
    None,        \* no cursor stored
    NoSlot,      \* the pending map has no entry for the key
    Drained,     \* a slot whose cursor is null
    Tombstone    \* a slot with deleted = true

ASSUME BoundsAssumption == MaxSets \in Nat /\ MaxDeletes \in Nat

Cursors == 1..MaxSets
Values == Cursors \union {None}

ASSUME CallersAssumption == Loops \intersect Deleters = {}

ASSUME ValuesAssumption ==
    /\ None \notin Cursors
    /\ {NoSlot, Drained, Tombstone} \intersect Cursors = {}
    /\ NoSlot # Drained /\ NoSlot # Tombstone /\ Drained # Tombstone

VARIABLES
    slot,      \* the key's PendingSlot: a buffered cursor, or one of the above
    stored,    \* what localStorage holds for the key
    pc,        \* where each flush loop is
    carried,   \* the value a loop's storage operation carries; None removes
    landed,    \* the loop's operation has taken effect
    deleting,  \* each delete() call's storage.remove
    outlast,   \* operations a sleeping loop will not overtake
    open,      \* the layer's scope
    sets, deletes,  \* calls so far
    wanted,    \* history: the values the calls so far may leave in storage
    excused,   \* history: the wanted value was lost to a failure or to closing
    died,      \* history: a loop was killed by a defect
    crossed    \* history: a delete() met a loop busy with an older tombstone

loopVars == <<pc, carried, landed, outlast>>
callVars == <<deleting, open, sets, deletes>>
histVars == <<wanted, excused, died, crossed>>
vars == <<slot, stored, loopVars, callVars, histVars>>

PC == {"off", "sleeping", "writing", "removing", "leaving"}

TypeOK ==
    /\ slot \in Cursors \union {NoSlot, Drained, Tombstone}
    /\ stored \in Values
    /\ pc \in [Loops -> PC]
    /\ carried \in [Loops -> Values]
    /\ landed \in [Loops -> BOOLEAN]
    /\ deleting \in [Deleters -> {"off", "removing", "removed"}]
    /\ outlast \in [Loops -> SUBSET (Loops \union Deleters)]
    /\ open \in BOOLEAN
    /\ sets \in 0..MaxSets
    /\ deletes \in 0..MaxDeletes
    /\ wanted \in SUBSET Values
    /\ excused \in BOOLEAN
    /\ died \in BOOLEAN
    /\ crossed \in BOOLEAN

Init ==
    /\ slot = NoSlot
    /\ stored = None
    /\ pc = [l \in Loops |-> "off"]
    /\ carried = [l \in Loops |-> None]
    /\ landed = [l \in Loops |-> FALSE]
    /\ deleting = [d \in Deleters |-> "off"]
    /\ outlast = [l \in Loops |-> {}]
    /\ open = TRUE
    /\ sets = 0
    /\ deletes = 0
    /\ wanted = {None}
    /\ excused = FALSE
    /\ died = FALSE
    /\ crossed = FALSE

----------------------------------------------------------------------------
InFlight == {l \in Loops : pc[l] \in {"writing", "removing", "leaving"}}
            \union {d \in Deleters : deleting[d] # "off"}

(* Operation o is over: nobody waits for it any more. *)
Without(o) == [l \in Loops |-> outlast[l] \ {o}]

At(l, label, value) ==
    /\ pc' = [pc EXCEPT ![l] = label]
    /\ carried' = [carried EXCEPT ![l] = value]
    /\ landed' = [landed EXCEPT ![l] = FALSE]

(* drainSlot after the sleep: what the slot tells the loop to do next. *)
Drain(l) ==
    \/ /\ slot \in Cursors
       /\ slot' = Drained
       /\ At(l, "writing", slot)
    \/ /\ slot = Tombstone
       /\ slot' = NoSlot
       /\ At(l, "removing", None)
    \/ /\ slot \in {Drained, NoSlot}
       /\ slot' = NoSlot
       /\ At(l, "off", None)

(* Mutant: the loop ends after its write and leaves the slot as it is. *)
SettleKeeping(l) ==
    /\ UNCHANGED slot
    /\ At(l, "off", None)
    /\ outlast' = Without(l)

(* Mutant: the loop releases the slot after its write without looking at it. *)
SettleBlind(l) ==
    /\ slot' = NoSlot
    /\ At(l, "off", None)
    /\ outlast' = Without(l)

(* settleAfterWrite: a cursor buffered meanwhile sends the loop round again. *)
Settle(l) ==
    \/ /\ slot \in Cursors
       /\ UNCHANGED slot
       /\ At(l, "sleeping", None)
       /\ outlast' = [Without(l) EXCEPT ![l] = InFlight \ {l}]
    \/ /\ slot = Tombstone
       /\ slot' = NoSlot
       /\ At(l, "removing", None)
       /\ outlast' = Without(l)
    \/ /\ slot \in {Drained, NoSlot}
       /\ slot' = NoSlot
       /\ At(l, "off", None)
       /\ outlast' = Without(l)

(* settleAfterWrite in the loop's ensuring, on its way out: only a tombstone
   is acted on, and a buffered cursor stays where it is. *)
Ensuring(l) ==
    /\ slot' = IF slot \in Cursors THEN slot ELSE NoSlot
    /\ IF slot = Tombstone THEN At(l, "leaving", None) ELSE At(l, "off", None)
    /\ outlast' = Without(l)

----------------------------------------------------------------------------
(* The calls. *)

(* Mutant: every set() forks a loop. *)
SetForkingAlways ==
    /\ open /\ sets < MaxSets
    /\ sets' = sets + 1
    /\ slot' = sets + 1
    /\ \E l \in Loops :
        /\ pc[l] = "off"
        /\ At(l, "sleeping", None)
        /\ outlast' = [outlast EXCEPT ![l] = InFlight]
    /\ wanted' = {sets + 1} \union {v \in {None} : \E d \in Deleters : deleting[d] # "off"}
    /\ excused' = FALSE
    /\ UNCHANGED <<stored, deleting, open, deletes, died, crossed>>

(* set(): buffer the cursor, clear a tombstone, and fork a loop unless the
   slot has one.  It is the newest request; only the storage.remove of a
   delete() it overlaps may rightly come after it. *)
Set ==
    /\ open /\ sets < MaxSets
    /\ sets' = sets + 1
    /\ slot' = sets + 1
    /\ \/ /\ slot = NoSlot
          /\ \E l \in Loops :
                /\ pc[l] = "off"
                /\ At(l, "sleeping", None)
                /\ outlast' = [outlast EXCEPT ![l] = InFlight]
       \/ /\ slot # NoSlot
          /\ UNCHANGED loopVars
    /\ wanted' = {sets + 1} \union {v \in {None} : \E d \in Deleters : deleting[d] # "off"}
    /\ excused' = FALSE
    /\ UNCHANGED <<stored, deleting, open, deletes, died, crossed>>

(* Mutant: the slot goes although a loop owns it. *)
DeleteWithoutTombstone(d) ==
    /\ open /\ deletes < MaxDeletes
    /\ deleting[d] = "off"
    /\ deletes' = deletes + 1
    /\ slot' = NoSlot
    /\ deleting' = [deleting EXCEPT ![d] = "removing"]
    /\ wanted' = {None}
    /\ excused' = FALSE
    /\ crossed' = (crossed \/ (slot # NoSlot /\ \E l \in Loops : pc[l] \in {"removing", "leaving"}))
    /\ UNCHANGED <<stored, loopVars, open, sets, died>>

(* delete(): leave a tombstone if a loop owns the slot, then storage.remove. *)
Delete(d) ==
    /\ open /\ deletes < MaxDeletes
    /\ deleting[d] = "off"
    /\ deletes' = deletes + 1
    /\ slot' = IF slot = NoSlot THEN NoSlot ELSE Tombstone
    /\ deleting' = [deleting EXCEPT ![d] = "removing"]
    /\ wanted' = {None}
    /\ excused' = FALSE
    /\ crossed' = (crossed \/ (slot # NoSlot /\ \E l \in Loops : pc[l] \in {"removing", "leaving"}))
    /\ UNCHANGED <<stored, loopVars, open, sets, died>>

DeleteLands(d) ==
    /\ deleting[d] = "removing"
    /\ stored' = None
    /\ deleting' = [deleting EXCEPT ![d] = "removed"]
    /\ UNCHANGED <<slot, loopVars, open, sets, deletes, histVars>>

(* The call is over; if its remove never landed its caller gets the error. *)
DeleteReturns(d) ==
    /\ deleting[d] # "off"
    /\ excused' = (excused \/ (deleting[d] = "removing" /\ None \in wanted))
    /\ deleting' = [deleting EXCEPT ![d] = "off"]
    /\ outlast' = Without(d)
    /\ UNCHANGED <<slot, stored, pc, carried, landed, open, sets, deletes, wanted, died, crossed>>

(* The layer's scope closes; its loops are interrupted, and buffered cursors
   are dropped with it. *)
CloseScope ==
    /\ open
    /\ open' = FALSE
    /\ excused' = (excused \/ wanted # {None})
    /\ UNCHANGED <<slot, stored, loopVars, deleting, sets, deletes, wanted, died, crossed>>

----------------------------------------------------------------------------
(* The flush loop. *)

Wake(l) ==
    /\ open
    /\ pc[l] = "sleeping" /\ outlast[l] = {}
    /\ Drain(l)
    /\ UNCHANGED <<stored, outlast, callVars, histVars>>

(* The loop's storage operation takes effect. *)
Lands(l) ==
    /\ pc[l] \in {"writing", "removing", "leaving"} /\ ~landed[l]
    /\ stored' = carried[l]
    /\ landed' = [landed EXCEPT ![l] = TRUE]
    /\ UNCHANGED <<slot, pc, carried, outlast, callVars, histVars>>

(* An operation that ends without having landed failed, and is logged. *)
NoteLoss(l) == excused' = (excused \/ (pc[l] # "sleeping" /\ ~landed[l] /\ carried[l] \in wanted))

WriteEnds(l) ==
    /\ open
    /\ pc[l] = "writing"
    /\ NoteLoss(l)
    /\ Settle(l)
    /\ UNCHANGED <<stored, callVars, wanted, died, crossed>>

RemoveEnds(l) ==
    /\ open
    /\ pc[l] = "removing"
    /\ NoteLoss(l)
    /\ Ensuring(l)
    /\ UNCHANGED <<stored, callVars, wanted, died, crossed>>

LeaveEnds(l) ==
    /\ pc[l] = "leaving"
    /\ NoteLoss(l)
    /\ At(l, "off", None)
    /\ outlast' = Without(l)
    /\ UNCHANGED <<slot, stored, callVars, wanted, died, crossed>>

(* The closing scope interrupts a loop wherever it waits; an interrupted
   operation has landed or never will. *)
Interrupted(l) ==
    /\ ~open
    /\ pc[l] \in {"sleeping", "writing", "removing"}
    /\ NoteLoss(l)
    /\ Ensuring(l)
    /\ UNCHANGED <<stored, callVars, wanted, died, crossed>>

(* A storage write dies with a defect, which no handler of the loop catches. *)
Dies(l) ==
    /\ open
    /\ pc[l] = "writing"
    /\ Ensuring(l)
    /\ died' = TRUE
    /\ UNCHANGED <<stored, callVars, wanted, excused, crossed>>

LoopStep(l) ==
    \/ Wake(l) \/ WriteEnds(l) \/ RemoveEnds(l) \/ LeaveEnds(l) \/ Interrupted(l)

Next ==
    \/ Set \/ CloseScope
    \/ \E d \in Deleters : Delete(d) \/ DeleteLands(d) \/ DeleteReturns(d)
    \/ \E l \in Loops : LoopStep(l) \/ Lands(l) \/ Dies(l)

(* The clock runs and storage operations end, one way or the other. *)
Fairness ==
    /\ \A l \in Loops : WF_vars(LoopStep(l))
    /\ \A d \in Deleters : WF_vars(DeleteReturns(d))

Spec == Init /\ [][Next]_vars /\ Fairness

----------------------------------------------------------------------------
Owns(l) == pc[l] \in {"sleeping", "writing"}

(* A live slot has a loop that will look at it again, so a key is never
   wedged: a set() that finds a slot can rely on it and fork nothing. *)
OwnedSlot == (open /\ ~died /\ slot # NoSlot) => \E l \in Loops : Owns(l)

(* The same with defects, as the comment on flushLoop's ensuring has it: the
   slot is released even if the loop dies. *)
NeverWedged == (open /\ slot # NoSlot) => \E l \in Loops : Owns(l)

(* Writes of one key are throttled: never two loops between sleep and write,
   unless two deletes cross. *)
OneWriter == ~(died \/ crossed) => \A l, m \in Loops : (Owns(l) /\ Owns(m)) => l = m

(* When nothing is in flight and no loop is left, storage holds what the last
   call asked for: the most recent operation wins over races and tombstones. *)
QuiescentAgrees ==
    (InFlight = {} /\ \A l \in Loops : pc[l] = "off")
        => (died \/ crossed \/ excused \/ stored \in wanted)

(* The key's writers and its storage: never wedged, throttled, and in agreement
   with the last call once they rest. *)
StoreConsistent == TypeOK /\ OwnedSlot /\ OneWriter /\ QuiescentAgrees

(* An older cursor never overwrites a newer one in storage, as only one loop of
   a key writes at a time. *)
NoStaleOverwrite ==
    [][(stored \in Cursors /\ stored' \in Cursors /\ ~(died \/ crossed)) => stored' >= stored]_vars

(* "The most recent operation wins", also when a delete() finds the slot of a
   loop that was forked while an older one still removes the key: nothing of
   the last set() or delete() is undone by what came before. *)
LastCallWins ==
    (InFlight = {} /\ \A l \in Loops : pc[l] = "off") => (died \/ excused \/ stored \in wanted)

(* What the store promises (CursorBuffer), as long as no loop dies and no
   deletes cross: what was set last is written or a newer set takes its place,
   one write at a time, and a removal outlasts every older write. *)
Writing == {l \in Loops : pc[l] = "writing" /\ ~landed[l]}
Removing ==
    \/ slot = Tombstone
    \/ \E l \in Loops : pc[l] \in {"removing", "leaving"} /\ ~landed[l]
    \/ \E d \in Deleters : deleting[d] = "removing"

Buffered == IF slot \in Cursors THEN slot ELSE None
Taken == IF Writing = {} THEN None ELSE carried[CHOOSE l \in Writing : TRUE]
Removal ==
    IF slot = Tombstone /\ Writing # {} THEN "owed" ELSE IF Removing THEN "under way" ELSE "none"

Buffer == INSTANCE CursorBuffer WITH
    NoCursor <- None, saved <- stored, buffered <- Buffered, taken <- Taken, removal <- Removal

ImplementsBuffer ==
    Buffer!BufferInit /\ [][died' \/ crossed' \/ Buffer!BufferNext(Cursors)]_(Buffer!bufferVars)

(* The last request reaches storage for good. *)
EventuallyPersisted == <>[](died \/ crossed \/ excused \/ stored \in wanted)
============================================================================
