---------------------------- MODULE CursorBuffer ----------------------------
(***************************************************************************)
(* What the localStorage cursor store promises its callers for one key,    *)
(* without loops, slots or tombstones: a set() is buffered, what was       *)
(* buffered last is taken to be written, at most one write is under way,   *)
(* and get answers what was written.  A write may be lost.  A delete()     *)
(* drops what is buffered; a removal lands while one is under way.         *)
(* CursorStore implements it, and the sessions of CursorSync rely on it.   *)
(***************************************************************************)
CONSTANT NoCursor

VARIABLES
    saved,     \* the cursor that storage has
    buffered,  \* set and not yet taken
    taken,     \* on its way to storage
    removal    \* "none", "under way", or "owed": the write under way is older

bufferVars == <<saved, buffered, taken, removal>>

BufferInit == saved = NoCursor /\ buffered = NoCursor /\ taken = NoCursor /\ removal = "none"

(* A set() takes the place of a removal, unless one has begun. *)
Buffers(c) ==
    /\ buffered' = c
    /\ removal' \in {"none"} \union {x \in {"under way"} : removal # "none"}
    /\ UNCHANGED <<saved, taken>>

TakesBuffered ==
    /\ buffered # NoCursor /\ taken = NoCursor
    /\ taken' = buffered /\ buffered' = NoCursor
    /\ UNCHANGED <<saved, removal>>

(* What was owed to a write that is over is to be done now. *)
WriteOver ==
    /\ taken # NoCursor /\ taken' = NoCursor
    /\ removal' = IF removal = "owed" THEN "under way" ELSE removal

WriteLands == WriteOver /\ saved' = taken /\ UNCHANGED buffered
WriteLost == WriteOver /\ UNCHANGED <<saved, buffered>>

AsksRemoval ==
    /\ buffered' = NoCursor
    /\ removal' = IF taken = NoCursor THEN "under way" ELSE "owed"
    /\ UNCHANGED <<saved, taken>>

RemovalLands ==
    /\ removal # "none" /\ saved' = NoCursor
    /\ removal' \in {removal} \union {x \in {"none"} : removal = "under way"}
    /\ UNCHANGED <<buffered, taken>>

RemovalEnds ==
    /\ removal = "under way" /\ removal' = "none"
    /\ UNCHANGED <<saved, buffered, taken>>

Writes == TakesBuffered \/ WriteLands \/ WriteLost

BufferNext(cursors) ==
    \/ \E c \in cursors : Buffers(c)
    \/ Writes \/ AsksRemoval \/ RemovalLands \/ RemovalEnds
=============================================================================
