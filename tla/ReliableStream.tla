--------------------------- MODULE ReliableStream ---------------------------
(***************************************************************************)
(* ReliableEventStream.watch (evm/src/events/reliable-stream.ts): events    *)
(* wait until enough blocks are on top of theirs, and those that a          *)
(* reorganisation removes are taken back.  Two fibers share the pending     *)
(* events: one handles the node's notifications, the other polls the head   *)
(* and emits what is confirmed.  The notifications of one event arrive in   *)
(* the order in which the node sent them; those of two events, and the      *)
(* answers to the poll, in any.                                             *)
(***************************************************************************)
EXTENDS Integers, Sequences

CONSTANTS
    Events,          \* keys of events: transaction hash and log index
    MaxHeight,       \* bound on the chain's height
    Confirmations,   \* params.confirmations
    MaxReorgs,       \* bound on reorganisations
    MaxFailedPolls,  \* bound on polls that fail
    NoBlock          \* no block, no answer

ASSUME HeightsAssumption ==
    /\ {MaxHeight, Confirmations, MaxReorgs, MaxFailedPolls} \subseteq Nat
    /\ NoBlock \notin Int

Heights == 0..MaxHeight

VARIABLES
    height, top,  \* the chain's height, and its highest ever (history)
    where,        \* the block that has the event
    reorgs,
    wire,         \* notifications of each event on their way: the block that has
                  \* it now, or NoBlock of a log with removed = true
    pending,      \* pendingByBlock: each entry's event, block and time of arrival
    location,     \* locationByKey
    answer,       \* the head the poller has read
    failedPolls,
    running,      \* the stream has not ended
    emitted,      \* entries the consumer got
    told, seen    \* history: where each event is by the notifications handled,
                  \* and how often they said that it was included

nodeVars == <<height, top, where, reorgs>>
streamVars == <<pending, location, answer, failedPolls, running, emitted>>
toldVars == <<told, seen>>
reliableVars == <<nodeVars, wire, streamVars, toldVars>>

Entry == [ev : Events, block : Heights, at : Nat]

StreamTypeOK ==
    /\ height \in Heights /\ top \in Heights
    /\ where \in [Events -> Heights \union {NoBlock}]
    /\ reorgs \in 0..MaxReorgs
    /\ wire \in [Events -> Seq(Heights \union {NoBlock})]
    /\ pending \subseteq Entry
    /\ location \in [Events -> Heights \union {NoBlock}]
    /\ answer \in Heights \union {NoBlock}
    /\ failedPolls \in 0..MaxFailedPolls
    /\ running \in BOOLEAN
    /\ emitted \subseteq Entry
    /\ told \in [Events -> Heights \union {NoBlock}]
    /\ seen \in [Events -> Nat]

StreamInit ==
    /\ height = 0 /\ top = 0
    /\ where = [e \in Events |-> NoBlock] /\ reorgs = 0
    /\ wire = [e \in Events |-> <<>>]
    /\ pending = {} /\ location = [e \in Events |-> NoBlock]
    /\ answer = NoBlock /\ failedPolls = 0 /\ running = TRUE /\ emitted = {}
    /\ told = [e \in Events |-> NoBlock] /\ seen = [e \in Events |-> 0]

----------------------------------------------------------------------------
(* The node *)

Notify(es, block) ==
    wire' = [e \in Events |-> IF running /\ e \in es THEN Append(wire[e], block) ELSE wire[e]]

(* A block, with events the chain has not. *)
BlockArrives ==
    /\ height < MaxHeight
    /\ height' = height + 1
    /\ top' = IF top < height + 1 THEN height + 1 ELSE top
    /\ \E new \in SUBSET {e \in Events : where[e] = NoBlock} :
         /\ where' = [e \in Events |-> IF e \in new THEN height + 1 ELSE where[e]]
         /\ Notify(new, height + 1)
    /\ UNCHANGED <<reorgs, streamVars, toldVars>>

(* The blocks from b on are replaced by others, still to come. *)
Reorg(b) ==
    LET gone == {e \in Events : where[e] # NoBlock /\ where[e] >= b} IN
    /\ reorgs < MaxReorgs /\ b \in 1..height
    /\ reorgs' = reorgs + 1
    /\ height' = b - 1
    /\ where' = [e \in Events |-> IF e \in gone THEN NoBlock ELSE where[e]]
    /\ Notify(gone, NoBlock)
    /\ UNCHANGED <<top, streamVars, toldVars>>

----------------------------------------------------------------------------
(* The fiber that handles notifications *)

AddPendingEvent(e, block) ==
    /\ pending' = pending \union {[ev |-> e, block |-> block, at |-> seen[e] + 1]}
    /\ location' = [location EXCEPT ![e] = block]

(* Mutant: the whole block goes. *)
RemoveBlock(e) ==
    /\ pending' = {p \in pending : p.block # location[e]}
    /\ location' = [location EXCEPT ![e] = NoBlock]

(* What is no longer pending has no location. *)
RemoveReorgedEvent(e) ==
    /\ pending' = {p \in pending : ~(p.ev = e /\ p.block = location[e])}
    /\ location' = [location EXCEPT ![e] = NoBlock]

Handle(e) ==
    /\ running /\ wire[e] # <<>>
    /\ LET block == Head(wire[e]) IN
       /\ told' = [told EXCEPT ![e] = block]
       /\ \/ /\ block = NoBlock
             /\ RemoveReorgedEvent(e)
             /\ UNCHANGED seen
          \/ /\ block # NoBlock
             /\ AddPendingEvent(e, block)
             /\ seen' = [seen EXCEPT ![e] = @ + 1]
    /\ wire' = [wire EXCEPT ![e] = Tail(@)]
    /\ UNCHANGED <<nodeVars, answer, failedPolls, running, emitted>>

----------------------------------------------------------------------------
(* The poller *)

(* The node reads its head for client.getBlockNumber. *)
PollReads ==
    /\ running /\ answer = NoBlock
    /\ answer' = height
    /\ UNCHANGED <<nodeVars, wire, pending, location, failedPolls, running, emitted, toldVars>>

(* All attempts fail: the tick is skipped. *)
PollFails ==
    /\ answer # NoBlock /\ failedPolls < MaxFailedPolls
    /\ failedPolls' = failedPolls + 1
    /\ answer' = NoBlock
    /\ UNCHANGED <<nodeVars, wire, pending, location, running, emitted, toldVars>>

(* Mutant: more than the threshold. *)
ConfirmedAbove == {p \in pending : answer - p.block > Confirmations}

Confirmed == {p \in pending : answer - p.block >= Confirmations}

(* emitConfirmedEvents: both maps are built again from what remains. *)
EmitConfirmedEvents ==
    /\ answer # NoBlock
    /\ emitted' = emitted \union Confirmed
    /\ pending' = pending \ Confirmed
    /\ location' = [e \in Events |->
                      IF \E p \in pending \ Confirmed : p.ev = e
                        THEN (CHOOSE p \in pending \ Confirmed : p.ev = e).block
                        ELSE NoBlock]
    /\ answer' = NoBlock
    /\ UNCHANGED <<nodeVars, wire, failedPolls, running, toldVars>>

(* The base stream fails, which ends the stream, or the consumer stops: the
   scope closes, and what was pending is gone. *)
Stop ==
    /\ running /\ running' = FALSE
    /\ answer' = NoBlock
    /\ pending' = {} /\ location' = [e \in Events |-> NoBlock]
    /\ wire' = [e \in Events |-> <<>>]
    /\ told' = [e \in Events |-> NoBlock] /\ seen' = [e \in Events |-> 0]
    /\ UNCHANGED <<nodeVars, failedPolls, emitted>>

StreamNext ==
    \/ BlockArrives \/ \E b \in Heights : Reorg(b)
    \/ \E e \in Events : Handle(e)
    \/ PollReads \/ PollFails \/ EmitConfirmedEvents \/ Stop

(* Both fibers run, and the node answers. *)
StreamFairness ==
    /\ \A e \in Events : WF_reliableVars(Handle(e))
    /\ WF_reliableVars(PollReads) /\ WF_reliableVars(EmitConfirmedEvents)

StreamSpec == StreamInit /\ [][StreamNext]_reliableVars /\ StreamFairness

----------------------------------------------------------------------------
Inclusion(e) == [ev |-> e, block |-> told[e], at |-> seen[e]]

(* "Reorged events are filtered out before emission": what is pending, and
   would be emitted next, is what the notifications handled so far left
   standing, once, and the index by key agrees with it. *)
PendingStands ==
    /\ \A p \in pending : p = Inclusion(p.ev) /\ location[p.ev] = p.block
    /\ \A e \in Events : location[e] # NoBlock => \E p \in pending : p.ev = e

(* What stands is pending or was emitted: a reorganisation of one event takes
   no other with it. *)
NothingDropped ==
    \A e \in Events : told[e] # NoBlock => Inclusion(e) \in pending \union emitted

(* No inclusion of an event is emitted twice. *)
NeverTwice == pending \intersect emitted = {}

(* "With confirmations: 1, an event in block B is emitted once the head reaches
   B + 1", and not before. *)
DeepEnough == \A p \in emitted : p.block + Confirmations <= top

(* What the stream holds and what it has emitted, against the notifications:
   nothing removed, dropped, repeated or early. *)
EmissionSound == StreamTypeOK /\ PendingStands /\ NothingDropped /\ NeverTwice /\ DeepEnough

(* An event that stays, with enough blocks on top, is emitted in the end. *)
EventuallyEmitted ==
    \A e \in Events :
        <>[](where[e] # NoBlock /\ where[e] + Confirmations <= height /\ running)
            => <>(told[e] = where[e] /\ wire[e] = <<>> /\ Inclusion(e) \in emitted)
=============================================================================
