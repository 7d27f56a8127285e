---------------------------- MODULE EventsProofs ---------------------------
(***************************************************************************)
(* Proofs about CursorSync and ReliableStream.                             *)
(***************************************************************************)
EXTENDS CursorSync, ReliableStream, TLAPS

----------------------------------------------------------------------------
(* CursorSync for every height, log index, batch size and number of
   failures and crashes, on either store: no event at or before the cursor
   is missed, and none is delivered twice unless a crash, or a session that
   resumed before a write, went back behind it.

   The argument is the inductive invariant SyncInv.  What a session has
   fetched (blocks below next) and what lies past the cursor it started
   from is either waiting in page or at or before the cursor as the session
   has moved it, and what waits is past it: so the first event of the page
   is the next one past the cursor, and moving the cursor to it leaves
   nothing out.  A cursor that is buffered or being written may yet be the
   one to resume from, so all of them leave no gap; and those of an older
   session give way to this one's in storage, which delivers again what
   they are ahead by before it passes them. *)

(* At or before the cursor as the session has moved it. *)
Past(p) == reached # NoCursor /\ ~Before(reached, p)

(* The cursors that are set, on their way or written. *)
Known == {saved, buffered, taken, reached} \ {NoCursor}

ChainOK == \A p \in logs : BlockOf(p) <= head

CursorOK ==
    /\ Known \subseteq logs
    /\ cursor # NoCursor => reached # NoCursor /\ ~Before(reached, cursor)
    /\ hand # NoCursor => hand = reached /\ phase \in {"backfill", "live"}
    /\ phase = "off" => reached = NoCursor
    /\ store = "memory" => {buffered, taken} = {NoCursor} /\ (phase # "off" => saved = reached)
    /\ bound <= head

FetchOK ==
    /\ phase \in {"off", "resolving"} => page = {}
    /\ phase = "resolving" => reached = cursor /\ next = ResumeFrom(cursor)
    /\ phase \in {"backfill", "live"} =>
         /\ \A p \in Positions :
              Wanted(p) /\ BlockOf(p) < next /\ IsAfterCursor(cursor, p) => p \in page \/ Past(p)
         /\ \A p \in page : p \in logs /\ BlockOf(p) < next
         /\ \A p \in page : IsAfterCursor(cursor, p) => ~Past(p)
         /\ reached = cursor \/ BlockOf(reached) < next
         /\ next <= head + 1 \/ next = From
    /\ phase = "backfill" =>
         /\ \A p \in page : BlockOf(p) <= bound
         /\ reached = cursor \/ BlockOf(reached) <= bound

(* NoGap for every cursor that may yet be resumed from. *)
GapOK ==
    \A c \in Known : \A p \in Positions : Wanted(p) /\ ~Before(c, p) =>
        delivered[p] > 0 \/ p \in skipped \/ (p = hand /\ c = hand)

SkippedOK ==
    /\ skipped # {} => store = "localStorage" /\ saved # NoCursor /\ (phase # "off" => reached # NoCursor)
    /\ \A c \in Known : \A p \in skipped : ~Before(c, p)

OnceOK ==
    \A p \in Positions \ rolled : delivered[p] > 0 =>
        /\ delivered[p] = 1 /\ p # hand
        /\ phase # "off" => Past(p)
        /\ store = "memory" => saved # NoCursor /\ ~Before(saved, p)

(* What a cursor of an earlier session is ahead by, this one delivers again. *)
AheadOK ==
    phase # "off" => \A c \in Known : \A p \in Positions :
        Wanted(p) /\ ~Before(c, p) => Past(p) \/ p \in rolled

(* Whether y may take the place of x in storage. *)
Follows(x, y) ==
    x = NoCursor \/ y = NoCursor \/ Before(x, y) \/ y \in rolled \/ BlockOf(y) < From

OrderOK == Follows(saved, taken) /\ Follows(saved, buffered) /\ Follows(taken, buffered)

SyncInv ==
    /\ SyncTypeOK /\ ChainOK /\ CursorOK /\ FetchOK
    /\ GapOK /\ SkippedOK /\ OnceOK /\ AheadOK /\ OrderOK

(* Before is a strict total order on positions. *)
LEMMA BeforeIsTotal ==
    /\ \A p \in Positions : ~Before(p, p)
    /\ \A p, q \in Positions : p = q \/ Before(p, q) \/ Before(q, p)
    /\ \A p, q, r \in Positions : Before(p, q) /\ Before(q, r) => Before(p, r)
    /\ \A p, q \in Positions : Before(p, q) => BlockOf(p) <= BlockOf(q)
    /\ \A p, q \in Positions : BlockOf(p) < BlockOf(q) => Before(p, q)
    /\ \A p, q \in Positions : Before(p, q) => ~Before(q, p)
<1>1. \A p \in Positions : p = <<p[1], p[2]>> /\ p[1] \in Nat /\ p[2] \in Nat
  BY SyncAssumption DEF Positions, Blocks
<1> QED BY <1>1 DEF Before, BlockOf

LEMMA PositionsTyped == \A p \in Positions : BlockOf(p) \in Blocks /\ BlockOf(p) \in Nat
BY SyncAssumption DEF Positions, BlockOf, Blocks

(* The invariant holds at the start. *)
LEMMA SyncInitially == SyncInit => SyncInv
BY SyncAssumption, NoCursorAssumption, PositionsTyped
DEF SyncInit, BufferInit, SyncInv, SyncTypeOK, ChainOK, CursorOK, FetchOK, GapOK, SkippedOK,
    OnceOK, AheadOK, OrderOK, Known, Follows, Positions, Blocks, BlockOf, Past, Wanted, ResumeFrom

(* Every step keeps it. *)
LEMMA SyncStep == SyncInv /\ [SyncNext]_syncVars => SyncInv'
<1> SUFFICES ASSUME SyncInv, [SyncNext]_syncVars PROVE SyncInv'
  OBVIOUS
<1> USE SyncAssumption, NoCursorAssumption, PositionsTyped, BeforeIsTotal
<1> USE DEF SyncInv, SyncTypeOK, chainVars, storeVars, bufferVars, sessionVars, syncHistVars
<1>0. /\ head \in Nat /\ bound \in Nat /\ next \in Nat
      /\ logs \subseteq Positions /\ page \subseteq Positions
      /\ Known \subseteq Positions /\ Known \subseteq logs
      /\ cursor # NoCursor => cursor \in Positions
      /\ hand # NoCursor => hand \in Positions
  BY DEF Blocks, Known, CursorOK
<1>1. CASE NewBlock
  <2>1. SyncTypeOK'
    BY <1>1 DEF NewBlock, Blocks
  <2>2. ChainOK'
    BY <1>0, <1>1 DEF NewBlock, ChainOK
  <2>3. CursorOK'
    BY <1>0, <1>1 DEF NewBlock, CursorOK, Known
  <2>4. FetchOK'
    BY <1>1 DEF NewBlock, FetchOK, Past, Wanted
  <2>5. GapOK'
    BY <1>0, <1>1 DEF NewBlock, ChainOK, Wanted, Known, GapOK
  <2>6. SkippedOK'
    BY <1>1 DEF NewBlock, Known, SkippedOK
  <2>7. OnceOK'
    BY <1>1 DEF NewBlock, OnceOK, Past
  <2>8. AheadOK'
    BY <1>0, <1>1 DEF NewBlock, Known, AheadOK, Past, Wanted, ChainOK
  <2>9. OrderOK'
    BY <1>1 DEF NewBlock, OrderOK, Follows
  <2> QED BY <2>1, <2>2, <2>3, <2>4, <2>5, <2>6, <2>7, <2>8, <2>9
<1>2. CASE Start
  <2>1. SyncTypeOK'
    BY <1>2 DEF Start, ResumeFrom, DeliveredPast, Blocks
  <2>2. ChainOK'
    BY <1>2 DEF Start, ChainOK
  <2>3. CursorOK'
    BY <1>2 DEF Start, CursorOK, Known
  <2>4. FetchOK'
    BY <1>0, <1>2 DEF Start, ResumeFrom, ChainOK, FetchOK, Past, Wanted, Known
  <2>5. GapOK'
    BY <1>2 DEF Start, Wanted, Known, GapOK
  <2>6. SkippedOK'
    BY <1>2 DEF Start, Known, SkippedOK
  <2>7. OnceOK'
    BY <1>2 DEF Start, DeliveredPast, OnceOK, Past
  <2>8. AheadOK'
    BY <1>2 DEF Start, DeliveredPast, CursorOK, Known, AheadOK, GapOK, SkippedOK, Past, Wanted
  <2>9. OrderOK'
    BY <1>2 DEF Start, OrderOK, Follows
  <2> QED BY <2>1, <2>2, <2>3, <2>4, <2>5, <2>6, <2>7, <2>8, <2>9
<1>3. CASE ResolveHead
  <2>1. SyncTypeOK'
    BY <1>3 DEF ResolveHead, Blocks
  <2>2. ChainOK'
    BY <1>3 DEF ResolveHead, ChainOK
  <2>3. CursorOK'
    BY <1>3 DEF ResolveHead, CursorOK, Known
  <2>4. FetchOK'
    BY <1>0, <1>3 DEF ResolveHead, ChainOK, FetchOK, Past, Wanted, ResumeFrom, Known
  <2>5. GapOK'
    BY <1>3 DEF ResolveHead, Wanted, Known, GapOK
  <2>6. SkippedOK'
    BY <1>3 DEF ResolveHead, Known, SkippedOK
  <2>7. OnceOK'
    BY <1>3 DEF ResolveHead, OnceOK, Past
  <2>8. AheadOK'
    BY <1>3 DEF ResolveHead, Known, AheadOK, Past, Wanted
  <2>9. OrderOK'
    BY <1>3 DEF ResolveHead, OrderOK, Follows
  <2> QED BY <2>1, <2>2, <2>3, <2>4, <2>5, <2>6, <2>7, <2>8, <2>9
<1>4. CASE FetchBatch
  <2>1. SyncTypeOK'
    BY <1>4 DEF FetchBatch, BatchEnd, EventsIn, Blocks
  <2>2. ChainOK'
    BY <1>4 DEF FetchBatch, ChainOK
  <2>3. CursorOK'
    BY <1>4 DEF FetchBatch, CursorOK, Known
  <2>4. FetchOK'
    BY <1>0, <1>4
    DEF FetchBatch, BatchEnd, Idle, EventsIn, CursorOK, FetchOK, Past, Wanted, IsAfterCursor
  <2>5. GapOK'
    BY <1>4 DEF FetchBatch, Wanted, Known, GapOK
  <2>6. SkippedOK'
    BY <1>4 DEF FetchBatch, Known, SkippedOK
  <2>7. OnceOK'
    BY <1>4 DEF FetchBatch, OnceOK, Past
  <2>8. AheadOK'
    BY <1>4 DEF FetchBatch, Known, AheadOK, Past, Wanted
  <2>9. OrderOK'
    BY <1>4 DEF FetchBatch, OrderOK, Follows
  <2> QED BY <2>1, <2>2, <2>3, <2>4, <2>5, <2>6, <2>7, <2>8, <2>9
<1>5. CASE GoLive
  <2>1. SyncTypeOK'
    BY <1>0, <1>5 DEF GoLive
  <2>2. ChainOK'
    BY <1>5 DEF GoLive, ChainOK
  <2>3. CursorOK'
    BY <1>5 DEF GoLive, CursorOK, Known
  <2>4. FetchOK'
    BY <1>0, <1>5 DEF GoLive, CursorOK, FetchOK, Past, Wanted
  <2>5. GapOK'
    BY <1>5 DEF GoLive, Wanted, Known, GapOK
  <2>6. SkippedOK'
    BY <1>5 DEF GoLive, Known, SkippedOK
  <2>7. OnceOK'
    BY <1>5 DEF GoLive, OnceOK, Past
  <2>8. AheadOK'
    BY <1>5 DEF GoLive, Known, AheadOK, Past, Wanted
  <2>9. OrderOK'
    BY <1>5 DEF GoLive, OrderOK, Follows
  <2> QED BY <2>1, <2>2, <2>3, <2>4, <2>5, <2>6, <2>7, <2>8, <2>9
<1>6. CASE Watch
  <2>1. SyncTypeOK'
    BY <1>6 DEF Watch, EventsIn, Blocks
  <2>2. ChainOK'
    BY <1>6 DEF Watch, ChainOK
  <2>3. CursorOK'
    BY <1>6 DEF Watch, CursorOK, Known
  <2>4. FetchOK'
    BY <1>0, <1>6 DEF Watch, EventsIn, CursorOK, FetchOK, Past, Wanted, IsAfterCursor
  <2>5. GapOK'
    BY <1>6 DEF Watch, Wanted, Known, GapOK
  <2>6. SkippedOK'
    BY <1>6 DEF Watch, Known, SkippedOK
  <2>7. OnceOK'
    BY <1>6 DEF Watch, OnceOK, Past
  <2>8. AheadOK'
    BY <1>6 DEF Watch, Known, AheadOK, Past, Wanted
  <2>9. OrderOK'
    BY <1>6 DEF Watch, OrderOK, Follows
  <2> QED BY <2>1, <2>2, <2>3, <2>4, <2>5, <2>6, <2>7, <2>8, <2>9
<1>7. CASE Deliver
  <2>1. SyncTypeOK'
    BY <1>7 DEF Deliver
  <2>2. ChainOK'
    BY <1>7 DEF Deliver, ChainOK
  <2>3. CursorOK'
    BY <1>7 DEF Deliver, CursorOK, Known
  <2>4. FetchOK'
    BY <1>7 DEF Deliver, FetchOK, Past, Wanted
  <2>5. GapOK'
    BY <1>7 DEF Deliver, Wanted, Known, GapOK
  <2>6. SkippedOK'
    BY <1>7 DEF Deliver, Known, SkippedOK
  <2>7. OnceOK'
    BY <1>7 DEF Deliver, CursorOK, OnceOK, Past
  <2>8. AheadOK'
    BY <1>7 DEF Deliver, Known, AheadOK, Past, Wanted
  <2>9. OrderOK'
    BY <1>7 DEF Deliver, OrderOK, Follows
  <2> QED BY <2>1, <2>2, <2>3, <2>4, <2>5, <2>6, <2>7, <2>8, <2>9
<1>8. ASSUME NEW e \in Positions, Drop(e) PROVE SyncInv'
  <2>1. SyncTypeOK'
    BY <1>8 DEF Drop, Pulls
  <2>2. ChainOK'
    BY <1>8 DEF Drop, ChainOK
  <2>3. CursorOK'
    BY <1>8 DEF Drop, CursorOK, Known
  <2>4. FetchOK'
    BY <1>8 DEF Drop, Pulls, FetchOK, Past, Wanted
  <2>5. GapOK'
    BY <1>8 DEF Drop, Wanted, Known, GapOK
  <2>6. SkippedOK'
    BY <1>8 DEF Drop, Known, SkippedOK
  <2>7. OnceOK'
    BY <1>8 DEF Drop, OnceOK, Past
  <2>8. AheadOK'
    BY <1>8 DEF Drop, Known, AheadOK, Past, Wanted
  <2>9. OrderOK'
    BY <1>8 DEF Drop, OrderOK, Follows
  <2> QED BY <2>1, <2>2, <2>3, <2>4, <2>5, <2>6, <2>7, <2>8, <2>9
<1>9. ASSUME NEW e \in Positions, AdvanceCursor(e) PROVE SyncInv'
  <2>1. SyncTypeOK'
    BY <1>9 DEF AdvanceCursor, Pulls, Sets, Buffers
  <2>2. ChainOK'
    BY <1>9 DEF AdvanceCursor, ChainOK
  <2>3. CursorOK'
    BY <1>9 DEF AdvanceCursor, Pulls, Sets, Buffers, CursorOK, FetchOK, IsAfterCursor, Known
  <2>4. FetchOK'
    BY <1>9 DEF AdvanceCursor, Pulls, FetchOK, Past, Wanted
  <2>5. GapOK'
    BY <1>9
    DEF AdvanceCursor, Pulls, Sets, Buffers, CursorOK, FetchOK, Past, Wanted, IsAfterCursor,
        Known, GapOK
  <2>6. SkippedOK'
    BY <1>9 DEF AdvanceCursor, Pulls, Sets, Buffers, FetchOK, Known, SkippedOK, Past
  <2>7. OnceOK'
    BY <1>9 DEF AdvanceCursor, Pulls, Sets, FetchOK, OnceOK, Past
  <2>8. AheadOK'
    BY <1>9 DEF AdvanceCursor, Pulls, Sets, Buffers, FetchOK, Known, AheadOK, Past, Wanted
  <2>9. OrderOK'
    BY <1>9
    DEF AdvanceCursor, Pulls, Sets, Buffers, CursorOK, FetchOK, Known, OrderOK, Follows, AheadOK,
        Wanted
  <2> QED BY <2>1, <2>2, <2>3, <2>4, <2>5, <2>6, <2>7, <2>8, <2>9
<1>10. CASE SessionFails
  <2>1. SyncTypeOK'
    BY <1>10 DEF SessionFails, Closed, Blocks
  <2>2. ChainOK'
    BY <1>10 DEF SessionFails, ChainOK
  <2>3. CursorOK'
    BY <1>0, <1>10 DEF SessionFails, Closed, CursorOK, Known
  <2>4. FetchOK'
    BY <1>10 DEF SessionFails, Closed, FetchOK
  <2>5. GapOK'
    BY <1>10 DEF SessionFails, Closed, Wanted, Known, GapOK
  <2>6. SkippedOK'
    BY <1>10 DEF SessionFails, Closed, Known, SkippedOK
  <2>7. OnceOK'
    BY <1>10 DEF SessionFails, Closed, OnceOK
  <2>8. AheadOK'
    BY <1>10 DEF SessionFails, Closed, AheadOK
  <2>9. OrderOK'
    BY <1>10 DEF SessionFails, OrderOK, Follows
  <2> QED BY <2>1, <2>2, <2>3, <2>4, <2>5, <2>6, <2>7, <2>8, <2>9
<1>11. CASE Flush
  <2>1. SyncTypeOK'
    BY <1>11 DEF Flush, Writes, TakesBuffered, WriteLands, WriteLost, WriteOver
  <2>2. ChainOK'
    BY <1>11 DEF Flush, ChainOK
  <2>3. CursorOK'
    BY <1>11 DEF Flush, Writes, TakesBuffered, WriteLands, WriteLost, WriteOver, CursorOK, Known
  <2>4. FetchOK'
    BY <1>11 DEF Flush, FetchOK, Past, Wanted
  <2>5. GapOK'
    BY <1>11
    DEF Flush, Writes, TakesBuffered, WriteLands, WriteLost, WriteOver, Wanted, Known, GapOK
  <2>6. SkippedOK'
    BY <1>11 DEF Flush, Writes, TakesBuffered, WriteLands, WriteLost, WriteOver, Known, SkippedOK
  <2>7. OnceOK'
    BY <1>11 DEF Flush, OnceOK, Past
  <2>8. AheadOK'
    BY <1>11
    DEF Flush, Writes, TakesBuffered, WriteLands, WriteLost, WriteOver, Known, AheadOK, Past,
        Wanted
  <2>9. OrderOK'
    BY <1>11 DEF Flush, Writes, TakesBuffered, WriteLands, WriteLost, WriteOver, OrderOK, Follows
  <2> QED BY <2>1, <2>2, <2>3, <2>4, <2>5, <2>6, <2>7, <2>8, <2>9
<1>12. CASE Crash
  <2>1. SyncTypeOK'
    BY <1>12 DEF Crash, Closed, DeliveredPast, Blocks
  <2>2. ChainOK'
    BY <1>12 DEF Crash, ChainOK
  <2>3. CursorOK'
    BY <1>0, <1>12 DEF Crash, Closed, CursorOK, Known
  <2>4. FetchOK'
    BY <1>12 DEF Crash, Closed, FetchOK
  <2>5. GapOK'
    BY <1>12 DEF Crash, Closed, Wanted, Known, GapOK
  <2>6. SkippedOK'
    BY <1>12 DEF Crash, Closed, Known, SkippedOK
  <2>7. OnceOK'
    BY <1>12 DEF Crash, Closed, DeliveredPast, OnceOK
  <2>8. AheadOK'
    BY <1>12 DEF Crash, Closed, AheadOK
  <2>9. OrderOK'
    BY <1>12 DEF Crash, OrderOK, Follows
  <2> QED BY <2>1, <2>2, <2>3, <2>4, <2>5, <2>6, <2>7, <2>8, <2>9
<1>13. CASE UNCHANGED syncVars
  <2>1. /\ UNCHANGED <<head, logs, store, saved, buffered, taken, removal>>
        /\ UNCHANGED <<phase, cursor, bound, next, page, hand>>
        /\ UNCHANGED <<failures, crashes, delivered, reached, skipped, rolled>>
    BY <1>13 DEF syncVars
  <2>2. SyncTypeOK' /\ ChainOK' /\ CursorOK'
    BY <2>1 DEF ChainOK, CursorOK, Known
  <2>3. FetchOK'
    BY <2>1 DEF FetchOK, Past, Wanted, IsAfterCursor, ResumeFrom
  <2>4. GapOK' /\ SkippedOK'
    BY <2>1 DEF GapOK, SkippedOK, Wanted, Known
  <2>5. OnceOK' /\ AheadOK' /\ OrderOK'
    BY <2>1 DEF OnceOK, AheadOK, OrderOK, Past, Wanted, Known, Follows
  <2> QED BY <2>2, <2>3, <2>4, <2>5
<1> QED BY <1>1, <1>2, <1>3, <1>4, <1>5, <1>6, <1>7, <1>8, <1>9, <1>10, <1>11, <1>12, <1>13
  DEF SyncNext, Session

(* The inductive invariant holds in every state. *)
THEOREM SyncInvHolds == SyncSpec => []SyncInv
BY SyncInitially, SyncStep, PTL DEF SyncSpec

(* No event at or before the cursor is missed: the backfill and the live watch
   of cursor.ts leave no gap, whatever head a node reports, and a session
   resumes where the cursor that storage has is. *)
THEOREM NothingIsMissed == SyncSpec => []NoGap
<1>1. SyncInv => NoGap
  BY DEF SyncInv, GapOK, Known, NoGap
<1> QED BY <1>1, SyncInvHolds, PTL

(* No event is delivered twice, unless a crash or a late write took the cursor
   back behind it. *)
THEOREM NothingTwice == SyncSpec => []DeliveredOnce
<1>1. SyncInv => DeliveredOnce
  BY DEF SyncInv, OnceOK, DeliveredOnce, SyncTypeOK
<1> QED BY <1>1, SyncInvHolds, PTL

(* The store in memory goes back behind nothing without a crash. *)
RolledByCrash == store = "memory" /\ crashes = 0 => rolled = {}

LEMMA MemoryRollsNothing == SyncInv /\ RolledByCrash /\ [SyncNext]_syncVars => RolledByCrash'
<1> SUFFICES ASSUME SyncInv, RolledByCrash, [SyncNext]_syncVars PROVE RolledByCrash'
  OBVIOUS
<1> USE DEF RolledByCrash, chainVars, storeVars, sessionVars, syncHistVars
<1>1. CASE Start
  BY <1>1 DEF Start
<1>2. CASE Crash
  BY <1>2, SyncAssumption DEF Crash, SyncInv, SyncTypeOK
<1>3. CASE UNCHANGED <<store, crashes, rolled>>
  BY <1>3
<1> QED
  BY <1>1, <1>2, <1>3
  DEF SyncNext, Session, NewBlock, ResolveHead, FetchBatch, GoLive, Watch, Deliver, Drop,
      AdvanceCursor, SessionFails, Flush, syncVars

(* Exactly once, as far as the cursor reaches: always with the store in memory,
   and on either store but for what a crash or a late write rolls back. *)
THEOREM SyncIsSound == SyncSpec => []SyncSound
<1>1. SyncInv => SyncTypeOK
  BY DEF SyncInv
<1>2. SyncInit => RolledByCrash
  BY DEF SyncInit, RolledByCrash
<1>3. DeliveredOnce /\ RolledByCrash => ReplayedOnce
  BY DEF DeliveredOnce, RolledByCrash, ReplayedOnce
<1> QED
  BY <1>1, <1>2, <1>3, SyncInvHolds, MemoryRollsNothing, NothingIsMissed, NothingTwice, PTL
  DEF SyncSpec, SyncSound

(* The cursor that a session resumes from only moves forward, but for a crash
   and for events that are delivered again. *)
THEOREM CursorNeverBack == SyncSpec => CursorAdvances
<1>1. ASSUME SyncInv, [SyncNext]_syncVars
      PROVE  [\/ saved' = saved \/ saved = NoCursor \/ crashes' > crashes
              \/ Before(saved, saved') \/ saved' \in rolled \/ BlockOf(saved') < From]_syncVars
  <2> USE <1>1 DEF SyncInv, SyncTypeOK, chainVars, storeVars, bufferVars, sessionVars, syncHistVars
  <2>1. ASSUME NEW e \in Positions, AdvanceCursor(e)
        PROVE  saved' = saved \/ saved = NoCursor \/ Before(saved, saved')
    BY <2>1, BeforeIsTotal
    DEF AdvanceCursor, Sets, Buffers, Pulls, IsAfterCursor, Past, CursorOK, FetchOK
  <2>2. CASE Flush
    BY <2>2 DEF Flush, Writes, TakesBuffered, WriteLands, WriteLost, WriteOver, OrderOK, Follows
  <2>3. CASE Crash
    BY <2>3, SyncAssumption DEF Crash
  <2>4. CASE saved' = saved
    BY <2>4
  <2> QED
    BY <2>1, <2>2, <2>3, <2>4
    DEF SyncNext, Session, NewBlock, Start, ResolveHead, FetchBatch, GoLive, Watch, Deliver, Drop,
        SessionFails, syncVars
<1> QED BY <1>1, SyncInvHolds, PTL DEF SyncSpec, CursorAdvances

----------------------------------------------------------------------------
(* ReliableStream for any set of events, any threshold and any number of
   reorganisations: what is pending stands, nothing else is dropped, and
   nothing is emitted twice or too early.

   The argument is that the notifications of an event alternate: what is
   on its way starts from where the stream believes the event to be and
   ends where the chain has it.  So a log is only ever added when none of
   its key is pending, and only ever removed from where it is. *)

(* The notifications s take an event from one place to another. *)
Linked(s, from, to) ==
    /\ s = <<>> => from = to
    /\ s # <<>> => (s[1] = NoBlock <=> from # NoBlock) /\ s[Len(s)] = to
    /\ \A i \in 1..(Len(s) - 1) : s[i] = NoBlock <=> s[i + 1] # NoBlock

WireOK == running => \A e \in Events : Linked(wire[e], told[e], where[e])

EmittedOK ==
    /\ running => \A p \in emitted : p.at <= seen[p.ev]
    /\ height <= top
    /\ answer # NoBlock => answer <= top
    /\ ~running => pending = {} /\ answer = NoBlock

StreamInv ==
    /\ StreamTypeOK /\ WireOK /\ EmittedOK
    /\ PendingStands /\ NothingDropped /\ NeverTwice /\ DeepEnough

Places == Heights \union {NoBlock}

(* The chain sends another notification. *)
LEMMA LinkedAppend ==
    ASSUME NEW s \in Seq(Places), NEW from, NEW to, Linked(s, from, to),
           NEW b \in Places, b = NoBlock <=> to # NoBlock
    PROVE  Linked(Append(s, b), from, b)
<1> DEFINE t == Append(s, b)
<1>1. t \in Seq(Places) /\ Len(t) = Len(s) + 1 /\ t[Len(s) + 1] = b /\ t # <<>> /\ Len(s) \in Nat
  OBVIOUS
<1>2. \A i \in 1..Len(s) : t[i] = s[i]
  OBVIOUS
<1>3. t[1] = NoBlock <=> from # NoBlock
  <2>1. CASE s = <<>>
    BY <1>1, <2>1 DEF Linked
  <2>2. CASE s # <<>>
    BY <1>1, <1>2, <2>2 DEF Linked
  <2> QED BY <2>1, <2>2
<1>4. ASSUME NEW i \in 1..(Len(t) - 1) PROVE t[i] = NoBlock <=> t[i + 1] # NoBlock
  <2>1. CASE i < Len(s)
    BY <1>1, <1>2, <2>1 DEF Linked
  <2>2. CASE i = Len(s)
    BY <1>1, <1>2, <2>2 DEF Linked
  <2> QED BY <1>1, <2>1, <2>2
<1> HIDE DEF t
<1>5. Linked(t, from, b)
  BY <1>1, <1>3, <1>4 DEF Linked
<1> QED BY <1>5 DEF t

(* The stream handles the first notification. *)
LEMMA LinkedTail ==
    ASSUME NEW s \in Seq(Places), s # <<>>, NEW from, NEW to, Linked(s, from, to)
    PROVE  /\ Linked(Tail(s), Head(s), to)
           /\ Head(s) \in Places /\ Tail(s) \in Seq(Places)
           /\ Head(s) = NoBlock <=> from # NoBlock
<1> DEFINE t == Tail(s)
<1>1. t \in Seq(Places) /\ Len(t) = Len(s) - 1 /\ Len(s) \in Nat \ {0} /\ Head(s) = s[1] /\ s[1] \in Places
  OBVIOUS
<1>2. \A i \in 1..Len(t) : t[i] = s[i + 1]
  OBVIOUS
<1> HIDE DEF t
<1>3. t = <<>> => Len(s) = 1
  BY <1>1
<1>4. t # <<>> => Len(t) >= 1
  BY <1>1
<1>5. t = <<>> => Head(s) = to
  BY <1>1, <1>3 DEF Linked
<1>6. t # <<>> => (t[1] = NoBlock <=> Head(s) # NoBlock) /\ t[Len(t)] = to
  BY <1>1, <1>2, <1>4 DEF Linked
<1>7. ASSUME NEW i \in 1..(Len(t) - 1) PROVE t[i] = NoBlock <=> t[i + 1] # NoBlock
  BY <1>1, <1>2 DEF Linked
<1>8. Linked(t, Head(s), to)
  BY <1>1, <1>5, <1>6, <1>7 DEF Linked
<1>9. Head(s) = NoBlock <=> from # NoBlock
  BY <1>1 DEF Linked
<1> QED BY <1>1, <1>8, <1>9 DEF t

LEMMA StreamInitially == StreamInit => StreamInv
<1> SUFFICES ASSUME StreamInit PROVE StreamInv
  OBVIOUS
<1> USE HeightsAssumption DEF StreamInit
<1>1. StreamTypeOK
  BY DEF StreamTypeOK, Heights
<1>2. WireOK
  <2>1. Linked(<<>>, NoBlock, NoBlock)
    BY DEF Linked
  <2> QED BY <2>1 DEF WireOK
<1>3. EmittedOK
  BY DEF EmittedOK
<1>4. PendingStands /\ NothingDropped /\ NeverTwice /\ DeepEnough
  BY DEF PendingStands, NothingDropped, NeverTwice, DeepEnough
<1> QED BY <1>1, <1>2, <1>3, <1>4 DEF StreamInv

(* Every step keeps it. *)
LEMMA StreamStep == StreamInv /\ [StreamNext]_reliableVars => StreamInv'
<1> SUFFICES ASSUME StreamInv, [StreamNext]_reliableVars PROVE StreamInv'
  OBVIOUS
<1> USE HeightsAssumption DEF StreamInv, StreamTypeOK, Heights, nodeVars, streamVars, toldVars
<1>1. CASE BlockArrives
  <2>1. StreamTypeOK'
    BY <1>1 DEF BlockArrives, Notify, Entry
  <2>2. WireOK'
    <3> SUFFICES ASSUME running, NEW x \in Events
                 PROVE  Linked(wire'[x], told[x], where'[x])
      BY <1>1 DEF BlockArrives, WireOK
    <3>1. PICK new \in SUBSET {y \in Events : where[y] = NoBlock} :
            /\ where' = [y \in Events |-> IF y \in new THEN height + 1 ELSE where[y]]
            /\ Notify(new, height + 1)
      BY <1>1 DEF BlockArrives
    <3>2. CASE x \in new
      <4>1. height + 1 \in Places /\ height + 1 # NoBlock /\ where[x] = NoBlock /\ where'[x] = height + 1
        BY <1>1, <3>1, <3>2 DEF BlockArrives, Places
      <4>2. wire'[x] = Append(wire[x], height + 1) /\ wire[x] \in Seq(Places)
        BY <3>1, <3>2 DEF Notify, Places
      <4> QED BY <4>1, <4>2, LinkedAppend DEF WireOK
    <3>3. CASE x \notin new
      BY <3>1, <3>3 DEF Notify, WireOK
    <3> QED BY <3>2, <3>3
  <2>3. EmittedOK'
    BY <1>1 DEF BlockArrives, Notify, EmittedOK, Entry
  <2>4. PendingStands'
    BY <1>1 DEF BlockArrives, Notify, WireOK, PendingStands, Inclusion, EmittedOK, Entry
  <2>5. NothingDropped'
    BY <1>1 DEF BlockArrives, Notify, WireOK, PendingStands, NothingDropped, Inclusion, Entry
  <2>6. NeverTwice'
    BY <1>1 DEF BlockArrives, Notify, WireOK, EmittedOK, PendingStands, NeverTwice, Inclusion, Entry
  <2>7. DeepEnough'
    BY <1>1 DEF BlockArrives, Notify, EmittedOK, DeepEnough, Entry
  <2> QED BY <2>1, <2>2, <2>3, <2>4, <2>5, <2>6, <2>7
<1>2. ASSUME NEW b \in Heights, Reorg(b) PROVE StreamInv'
  <2>1. StreamTypeOK'
    <3>1. b - 1 \in Heights /\ height' \in Heights
      BY <1>2 DEF Reorg
    <3>2. where' \in [Events -> Heights \union {NoBlock}]
      BY <1>2 DEF Reorg
    <3>3. wire' \in [Events -> Seq(Heights \union {NoBlock})]
      BY <1>2 DEF Reorg, Notify
    <3>4. reorgs' \in 0..MaxReorgs
      BY <1>2 DEF Reorg
    <3>5. UNCHANGED <<top, streamVars, toldVars>>
      BY <1>2 DEF Reorg
    <3> HIDE <1>2
    <3> QED BY <3>1, <3>2, <3>3, <3>4, <3>5 DEF Entry
  <2>2. WireOK'
    <3> SUFFICES ASSUME running, NEW x \in Events
                 PROVE  Linked(wire'[x], told[x], where'[x])
      BY <1>2 DEF Reorg, WireOK
    <3> DEFINE gone == {y \in Events : where[y] # NoBlock /\ where[y] >= b}
    <3>1. CASE x \in gone
      <4>1. NoBlock \in Places /\ where[x] # NoBlock /\ where'[x] = NoBlock
        BY <1>2, <3>1 DEF Reorg, Places
      <4>2. wire'[x] = Append(wire[x], NoBlock) /\ wire[x] \in Seq(Places)
        BY <1>2, <3>1 DEF Reorg, Notify, Places
      <4> QED BY <4>1, <4>2, LinkedAppend DEF WireOK
    <3>2. CASE x \notin gone
      BY <1>2, <3>2 DEF Reorg, Notify, WireOK
    <3> QED BY <3>1, <3>2
  <2>3. EmittedOK'
    BY <1>2 DEF Reorg, Notify, EmittedOK, Entry
  <2>4. PendingStands'
    BY <1>2 DEF Reorg, Notify, WireOK, PendingStands, Inclusion, EmittedOK, Entry
  <2>5. NothingDropped'
    BY <1>2 DEF Reorg, Notify, WireOK, PendingStands, NothingDropped, Inclusion, Entry
  <2>6. NeverTwice'
    BY <1>2 DEF Reorg, Notify, WireOK, EmittedOK, PendingStands, NeverTwice, Inclusion, Entry
  <2>7. DeepEnough'
    BY <1>2 DEF Reorg, Notify, EmittedOK, DeepEnough, Entry
  <2> QED BY <2>1, <2>2, <2>3, <2>4, <2>5, <2>6, <2>7
<1>3. ASSUME NEW e \in Events, Handle(e) PROVE StreamInv'
  <2> DEFINE block == Head(wire[e])
  <2>0. /\ running /\ running' = running /\ where' = where /\ wire[e] \in Seq(Places)
        /\ Linked(Tail(wire[e]), block, where[e])
        /\ block \in Places /\ Tail(wire[e]) \in Seq(Places)
        /\ block = NoBlock <=> told[e] # NoBlock
    BY <1>3, LinkedTail DEF Handle, WireOK, Places
  <2> HIDE DEF block
  <2>a. /\ wire' = [wire EXCEPT ![e] = Tail(@)] /\ told' = [told EXCEPT ![e] = block]
        /\ UNCHANGED <<nodeVars, answer, failedPolls, running, emitted>>
        /\ \/ block = NoBlock /\ RemoveReorgedEvent(e) /\ seen' = seen
           \/ block # NoBlock /\ AddPendingEvent(e, block) /\ seen' = [seen EXCEPT ![e] = @ + 1]
    BY <1>3 DEF Handle, block
  <2>2. WireOK'
    BY <2>0, <2>a DEF WireOK
  <2>b. CASE block = NoBlock
    <3>0. /\ told[e] # NoBlock /\ seen' = seen
          /\ pending' = {p \in pending : ~(p.ev = e /\ p.block = location[e])}
          /\ location' = [location EXCEPT ![e] = NoBlock]
      BY <2>0, <2>a, <2>b DEF RemoveReorgedEvent
    <3>1. StreamTypeOK'
      BY <2>0, <2>a, <3>0 DEF Places
    <3>2. EmittedOK'
      BY <2>0, <2>a, <3>0 DEF EmittedOK
    <3>3. PendingStands'
      BY <2>a, <2>b, <3>0 DEF PendingStands, Inclusion, Entry
    <3>4. NothingDropped' /\ NeverTwice' /\ DeepEnough'
      BY <2>a, <2>b, <3>0 DEF NothingDropped, NeverTwice, DeepEnough, Inclusion, Entry
    <3> QED BY <2>2, <3>1, <3>2, <3>3, <3>4
  <2>c. CASE block # NoBlock
    <3> DEFINE new == [ev |-> e, block |-> block, at |-> seen[e] + 1]
    <3>0. /\ told[e] = NoBlock /\ block \in 0..MaxHeight
          /\ pending' = pending \union {new}
          /\ location' = [location EXCEPT ![e] = block]
          /\ seen' = [seen EXCEPT ![e] = @ + 1]
      BY <2>0, <2>a, <2>c DEF AddPendingEvent, Places
    <3>a. new \in Entry /\ new.ev = e /\ new.block = block /\ new.at = seen[e] + 1
      BY <3>0 DEF Entry
    <3>b. \A p \in pending : p.ev # e
      BY <3>0 DEF PendingStands, Inclusion, Entry
    <3> HIDE DEF new
    <3>1. StreamTypeOK'
      BY <2>0, <2>a, <3>0, <3>a DEF Places
    <3>2. EmittedOK'
      BY <2>0, <2>a, <3>0 DEF EmittedOK, Entry
    <3>c. new = Inclusion(e)'
      BY <2>a, <3>0 DEF new, Inclusion
    <3>d. \A x \in Events \ {e} : Inclusion(x)' = Inclusion(x)
      BY <2>a, <3>0 DEF Inclusion
    <3>3. PendingStands'
      BY <2>c, <3>0, <3>a, <3>b, <3>c, <3>d DEF PendingStands, Entry
    <3>e. new \notin emitted
      BY <2>0, <3>a DEF EmittedOK, Entry
    <3>4. NothingDropped' /\ NeverTwice' /\ DeepEnough'
      BY <2>a, <3>0, <3>c, <3>d, <3>e DEF NothingDropped, NeverTwice, DeepEnough
    <3> QED BY <2>2, <3>1, <3>2, <3>3, <3>4
  <2> QED BY <2>b, <2>c
<1>4. CASE PollReads
  <2>1. StreamTypeOK'
    BY <1>4 DEF PollReads, Entry
  <2>2. WireOK'
    BY <1>4 DEF PollReads, WireOK
  <2>3. EmittedOK'
    BY <1>4 DEF PollReads, EmittedOK, Entry
  <2>4. PendingStands'
    BY <1>4 DEF PollReads, WireOK, PendingStands, Inclusion, EmittedOK, Entry
  <2>5. NothingDropped'
    BY <1>4 DEF PollReads, WireOK, PendingStands, NothingDropped, Inclusion, Entry
  <2>6. NeverTwice'
    BY <1>4 DEF PollReads, WireOK, EmittedOK, PendingStands, NeverTwice, Inclusion, Entry
  <2>7. DeepEnough'
    BY <1>4 DEF PollReads, EmittedOK, DeepEnough, Entry
  <2> QED BY <2>1, <2>2, <2>3, <2>4, <2>5, <2>6, <2>7
<1>5. CASE PollFails
  <2>1. StreamTypeOK'
    BY <1>5 DEF PollFails, Entry
  <2>2. WireOK'
    BY <1>5 DEF PollFails, WireOK
  <2>3. EmittedOK'
    BY <1>5 DEF PollFails, EmittedOK, Entry
  <2>4. PendingStands'
    BY <1>5 DEF PollFails, WireOK, PendingStands, Inclusion, EmittedOK, Entry
  <2>5. NothingDropped'
    BY <1>5 DEF PollFails, WireOK, PendingStands, NothingDropped, Inclusion, Entry
  <2>6. NeverTwice'
    BY <1>5 DEF PollFails, WireOK, EmittedOK, PendingStands, NeverTwice, Inclusion, Entry
  <2>7. DeepEnough'
    BY <1>5 DEF PollFails, EmittedOK, DeepEnough, Entry
  <2> QED BY <2>1, <2>2, <2>3, <2>4, <2>5, <2>6, <2>7
<1>6. CASE EmitConfirmedEvents
  <2>1. StreamTypeOK'
    BY <1>6 DEF EmitConfirmedEvents, Confirmed, Entry
  <2>2. WireOK'
    BY <1>6 DEF EmitConfirmedEvents, Confirmed, WireOK
  <2>3. EmittedOK'
    <3>1. ASSUME running, NEW p \in pending PROVE p.at <= seen[p.ev]
      BY <3>1 DEF PendingStands, Inclusion, Entry
    <3>2. running' = running /\ height' = height /\ top' = top /\ answer' = NoBlock /\ seen' = seen
      BY <1>6 DEF EmitConfirmedEvents
    <3>3. emitted' \subseteq emitted \union pending /\ pending' \subseteq pending
      BY <1>6 DEF EmitConfirmedEvents, Confirmed
    <3> QED BY <3>1, <3>2, <3>3 DEF EmittedOK
  <2>4. PendingStands'
    BY <1>6
      DEF EmitConfirmedEvents, Confirmed, WireOK, PendingStands, Inclusion, EmittedOK, Entry
  <2>5. NothingDropped'
    BY <1>6
      DEF EmitConfirmedEvents, Confirmed, WireOK, PendingStands, NothingDropped, Inclusion,
          Entry
  <2>6. NeverTwice'
    BY <1>6
      DEF EmitConfirmedEvents, Confirmed, WireOK, EmittedOK, PendingStands, NeverTwice,
          Inclusion, Entry
  <2>7. DeepEnough'
    BY <1>6 DEF EmitConfirmedEvents, Confirmed, EmittedOK, DeepEnough, Entry
  <2> QED BY <2>1, <2>2, <2>3, <2>4, <2>5, <2>6, <2>7
<1>7. CASE Stop
  <2>1. StreamTypeOK'
    <3>1. wire' \in [Events -> Seq(Heights \union {NoBlock})]
      BY <1>7 DEF Stop
    <3> QED BY <1>7, <3>1 DEF Stop, Entry
  <2>2. WireOK'
    BY <1>7 DEF Stop, WireOK
  <2>3. EmittedOK'
    BY <1>7 DEF Stop, EmittedOK, Entry
  <2>4. PendingStands'
    BY <1>7 DEF Stop, WireOK, PendingStands, Inclusion, EmittedOK, Entry
  <2>5. NothingDropped'
    BY <1>7 DEF Stop, WireOK, PendingStands, NothingDropped, Inclusion, Entry
  <2>6. NeverTwice'
    BY <1>7 DEF Stop, WireOK, EmittedOK, PendingStands, NeverTwice, Inclusion, Entry
  <2>7. DeepEnough'
    BY <1>7 DEF Stop, EmittedOK, DeepEnough, Entry
  <2> QED BY <2>1, <2>2, <2>3, <2>4, <2>5, <2>6, <2>7
<1>8. CASE UNCHANGED reliableVars
  BY <1>8
    DEF reliableVars, WireOK, EmittedOK, PendingStands, NothingDropped, NeverTwice, DeepEnough,
        Inclusion
<1> QED BY <1>1, <1>2, <1>3, <1>4, <1>5, <1>6, <1>7, <1>8 DEF StreamNext

(* The inductive invariant holds in every state. *)
THEOREM StreamInvHolds == StreamSpec => []StreamInv
BY StreamInitially, StreamStep, PTL DEF StreamSpec

(* Reorged events are filtered out before emission: what is pending stands by
   all notifications handled, and the index by key agrees with it. *)
THEOREM OnlyWhatStands == StreamSpec => []PendingStands
BY StreamInvHolds, PTL DEF StreamInv

(* Removing one event loses no other. *)
THEOREM NoneDropped == StreamSpec => []NothingDropped
BY StreamInvHolds, PTL DEF StreamInv

(* No inclusion is emitted twice, and none before the threshold. *)
THEOREM OnceAndDeep == StreamSpec => [](NeverTwice /\ DeepEnough)
BY StreamInvHolds, PTL DEF StreamInv

(* What the stream holds and emits is what the notifications handled so far
   left standing: once, and deep enough. *)
THEOREM EmissionsAreSound == StreamSpec => []EmissionSound
BY StreamInvHolds, PTL DEF StreamInv, EmissionSound
=============================================================================
