----------------------------- MODULE CursorSync -----------------------------
(***************************************************************************)
(* Streams of events that resume where they stopped: CursorStream          *)
(* (evm/src/events/cursor.ts) over EventBackfill (backfill.ts) and         *)
(* EventStream (stream.ts), for one cursor key.  A session reads the       *)
(* cursor, backfills in batches up to a head it resolved, and goes on with *)
(* a live watch; it may fail anywhere, and a later session resumes.        *)
(*                                                                         *)
(* The CursorStore is one of two: in memory, where get answers the last    *)
(* set and a crash leaves nothing, or localStorage with its throttle,      *)
(* where get answers what was written, and a crash leaves it.              *)
(* A node may lag behind the chain; the chain is not reorganised.          *)
(***************************************************************************)
EXTENDS Integers, CursorBuffer

CONSTANTS
    MaxBlock,     \* bound on the chain's height
    MaxLog,       \* bound on the log index in a block
    From,         \* params.fromBlock
    BatchSize,    \* params.batchSize
    MaxFailures,  \* bound on sessions that fail
    MaxCrashes    \* bound on crashes

ASSUME SyncAssumption ==
    /\ {MaxBlock, MaxLog, MaxFailures, MaxCrashes} \subseteq Nat
    /\ From \in 0..(MaxBlock + 1)
    /\ BatchSize \in Nat \ {0}

Blocks == 0..MaxBlock
Positions == Blocks \X (0..MaxLog)   \* an event's block and its log index in it
BlockOf(p) == p[1]

ASSUME NoCursorAssumption == NoCursor \notin Positions

VARIABLES
    head, logs,         \* the chain: its height, and where it has matching events
    store,              \* the implementation of CursorStore
    phase,              \* where the session is
    cursor,             \* the cursor the session started from
    bound,              \* the head it resolved
    next,               \* the first block not fetched yet
    page,               \* events fetched and not yet pulled by the consumer
    hand,               \* the event whose cursor is set and which is on its way
    failures, crashes,
    delivered,          \* how often the consumer got each event
    reached,            \* history: the cursor as this session has moved it
    skipped,            \* history: in hand at a crash, with their cursor written
    rolled              \* history: delivered past the cursor that a session of the
                        \* throttled store resumed from, or that a crash lost

chainVars == <<head, logs>>
storeVars == <<store, bufferVars>>
sessionVars == <<phase, cursor, bound, next, page, hand>>
syncHistVars == <<failures, crashes, delivered, reached, skipped, rolled>>
syncVars == <<chainVars, storeVars, sessionVars, syncHistVars>>

SyncTypeOK ==
    /\ head \in Blocks
    /\ logs \subseteq Positions
    /\ {saved, buffered, taken, cursor, reached, hand} \subseteq Positions \union {NoCursor}
    /\ store \in {"memory", "localStorage"} /\ removal = "none"
    /\ phase \in {"off", "resolving", "backfill", "live"}
    /\ bound \in Blocks
    /\ next \in 0..(MaxBlock + 1)
    /\ page \subseteq Positions
    /\ failures \in 0..MaxFailures /\ crashes \in 0..MaxCrashes
    /\ delivered \in [Positions -> Nat]
    /\ skipped \subseteq Positions /\ rolled \subseteq Positions

Before(p, q) == BlockOf(p) < BlockOf(q) \/ (BlockOf(p) = BlockOf(q) /\ p[2] < q[2])

EventsIn(first, last) == {p \in logs : BlockOf(p) \in first..last}

SyncInit ==
    /\ head = 0 /\ logs \in SUBSET {p \in Positions : BlockOf(p) = 0}
    /\ store \in {"memory", "localStorage"} /\ BufferInit
    /\ phase = "off" /\ cursor = NoCursor /\ bound = 0 /\ next = 0 /\ page = {} /\ hand = NoCursor
    /\ failures = 0 /\ crashes = 0
    /\ delivered = [p \in Positions |-> 0]
    /\ reached = NoCursor /\ skipped = {} /\ rolled = {}

----------------------------------------------------------------------------
(* A block, with any events. *)
NewBlock ==
    /\ head < MaxBlock
    /\ head' = head + 1
    /\ \E new \in SUBSET {p \in Positions : BlockOf(p) = head + 1} : logs' = logs \union new
    /\ UNCHANGED <<storeVars, sessionVars, syncHistVars>>

(* Mutant: resume behind the cursor's block. *)
ResumeBehind(c) == IF c = NoCursor THEN From ELSE IF BlockOf(c) < MaxBlock THEN BlockOf(c) + 1 ELSE MaxBlock

(* Inclusive of the cursor's block. *)
ResumeFrom(c) == IF c = NoCursor THEN From ELSE BlockOf(c)

DeliveredPast(c) == {p \in Positions : delivered[p] > 0 /\ (c # NoCursor => Before(c, p))}

(* CursorStore.get.  watchWithCursor goes live at once, syncWithCursor resolves
   a head first. *)
Start ==
    /\ phase = "off"
    /\ cursor' = saved /\ reached' = saved
    /\ next' = ResumeFrom(saved)
    /\ phase' \in {"resolving", "live"}
    /\ rolled' = IF store = "memory" THEN rolled ELSE rolled \union DeliveredPast(saved)
    /\ UNCHANGED <<chainVars, storeVars, bound, page, hand, failures, crashes, delivered, skipped>>

(* client.getBlockNumber, of a node that may lag. *)
ResolveHead ==
    /\ phase = "resolving"
    /\ bound' \in 0..head
    /\ phase' = "backfill"
    /\ UNCHANGED <<chainVars, storeVars, cursor, next, page, hand, syncHistVars>>

Idle == page = {} /\ hand = NoCursor

BatchEnd == IF next + BatchSize - 1 < bound THEN next + BatchSize - 1 ELSE bound

(* The next batch's logs, when the consumer has had those of the last one. *)
FetchBatch ==
    /\ phase = "backfill" /\ Idle /\ next <= bound
    /\ page' = EventsIn(next, BatchEnd)
    /\ next' = BatchEnd + 1
    /\ UNCHANGED <<chainVars, storeVars, phase, cursor, bound, hand, syncHistVars>>

(* Mutant: the live watch starts now. *)
GoLiveNow ==
    /\ phase = "backfill" /\ Idle /\ next > bound
    /\ phase' = "live" /\ next' = head + 1
    /\ UNCHANGED <<chainVars, storeVars, cursor, bound, page, hand, syncHistVars>>

(* The backfill is consumed: the live watch starts past its bound, which may
   be behind the cursor. *)
GoLive ==
    /\ phase = "backfill" /\ Idle /\ next > bound
    /\ phase' = "live" /\ next' = bound + 1
    /\ UNCHANGED <<chainVars, storeVars, cursor, bound, page, hand, syncHistVars>>

(* client.watchContractEvent from a block on: logs in their order, of all
   blocks the node has seen. *)
Watch ==
    /\ phase = "live" /\ next <= head
    /\ \E last \in next..head :
         /\ page' = page \union EventsIn(next, last)
         /\ next' = last + 1
    /\ UNCHANGED <<chainVars, storeVars, phase, cursor, bound, hand, syncHistVars>>

(* The consumer has the one before and pulls the event that is next in order. *)
Pulls(e) == /\ hand = NoCursor /\ e \in page
            /\ \A q \in page \ {e} : Before(e, q)
            /\ page' = page \ {e}

(* Mutant: nothing is filtered. *)
AnyEvent(c, e) == TRUE

IsAfterCursor(c, e) == c # NoCursor => Before(c, e)

(* An event that was delivered before the session began is dropped. *)
Drop(e) ==
    /\ Pulls(e) /\ ~IsAfterCursor(cursor, e)
    /\ UNCHANGED <<chainVars, storeVars, phase, cursor, bound, next, hand, syncHistVars>>

(* CursorStore.set. *)
Sets(e) ==
    \/ store = "memory" /\ saved' = e /\ UNCHANGED <<buffered, taken, removal>>
    \/ store = "localStorage" /\ Buffers(e)

(* The cursor is set before the consumer has the event. *)
AdvanceCursor(e) ==
    /\ Pulls(e) /\ IsAfterCursor(cursor, e)
    /\ Sets(e) /\ reached' = e /\ hand' = e
    /\ UNCHANGED <<chainVars, store, phase, cursor, bound, next,
                   failures, crashes, delivered, skipped, rolled>>

Deliver ==
    /\ hand # NoCursor
    /\ delivered' = [delivered EXCEPT ![hand] = @ + 1]
    /\ hand' = NoCursor
    /\ UNCHANGED <<chainVars, storeVars, phase, cursor, bound, next, page,
                   failures, crashes, reached, skipped, rolled>>

Closed == /\ phase' = "off" /\ cursor' = NoCursor /\ bound' = 0 /\ next' = 0
          /\ page' = {} /\ hand' = NoCursor /\ reached' = NoCursor

(* The head, a batch, the watch or the cursor store fails, or the consumer
   stops: what was fetched and not delivered is gone with the session. *)
SessionFails ==
    /\ phase # "off" /\ hand = NoCursor /\ failures < MaxFailures
    /\ failures' = failures + 1
    /\ Closed
    /\ UNCHANGED <<chainVars, storeVars, crashes, delivered, skipped, rolled>>

(* The throttled store takes what is buffered and writes it, or fails to. *)
Flush ==
    /\ store = "localStorage" /\ Writes
    /\ UNCHANGED <<chainVars, store, sessionVars, syncHistVars>>

(* The process ends, and with it what was not written. *)
Crash ==
    /\ crashes < MaxCrashes
    /\ crashes' = crashes + 1
    /\ saved' = IF store = "memory" THEN NoCursor ELSE saved
    /\ buffered' = NoCursor /\ taken' = NoCursor
    /\ skipped' = IF hand # NoCursor /\ saved' = hand THEN skipped \union {hand} ELSE skipped
    /\ rolled' = IF store = "memory" THEN DeliveredPast(NoCursor) ELSE rolled
    /\ Closed
    /\ UNCHANGED <<chainVars, store, removal, failures, delivered>>

Session ==
    \/ Start \/ ResolveHead \/ FetchBatch \/ GoLive \/ Watch \/ Deliver
    \/ \E e \in Positions : Drop(e) \/ AdvanceCursor(e)

SyncNext == NewBlock \/ Session \/ SessionFails \/ Flush \/ Crash

(* The stream's fiber runs, and the application starts it again. *)
SyncFairness == WF_syncVars(Session)

SyncSpec == SyncInit /\ [][SyncNext]_syncVars /\ SyncFairness

----------------------------------------------------------------------------
Wanted(p) == p \in logs /\ BlockOf(p) >= From

(* "No gap between backfill and live watch": whatever lies at or before the
   cursor that a session would resume from was delivered, is being delivered,
   or was in hand at a crash. *)
NoGap ==
    saved # NoCursor =>
        \A p \in Positions : Wanted(p) /\ ~Before(saved, p) =>
            delivered[p] > 0 \/ p = hand \/ p \in skipped

(* "Replayed exactly once": no event is delivered again, in whatever session,
   unless a crash or a session that resumed before a write went back behind it. *)
DeliveredOnce == \A p \in Positions \ rolled : delivered[p] <= 1

(* "This replays events later in the same block as the last-processed one exactly
   once": with a store that answers the last set, sessions alone repeat nothing. *)
ReplayedOnce ==
    store = "memory" /\ crashes = 0 => \A p \in Positions : delivered[p] <= 1

(* The cursor against what was delivered: nothing before it is missing, and
   nothing was delivered twice. *)
SyncSound == SyncTypeOK /\ NoGap /\ DeliveredOnce /\ ReplayedOnce

(* The cursor that is resumed from only moves forward, over batches, sessions,
   nodes that lag and writes that are late or lost.  It goes back in a crash,
   and over events that a session delivers again; and it may be set to an event
   before From, which a watch behind a head that lags finds there. *)
CursorAdvances ==
    [][\/ saved' = saved \/ saved = NoCursor \/ crashes' > crashes
       \/ Before(saved, saved') \/ saved' \in rolled \/ BlockOf(saved') < From]_syncVars

(* Every event is delivered in the end, unless it was in hand at a crash: once
   the chain has its last block none is missing for good. *)
AllDelivered ==
    <>[](\A p \in Positions : Wanted(p) => delivered[p] > 0 \/ p \in skipped)
=============================================================================
