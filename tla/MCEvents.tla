------------------------------ MODULE MCEvents ------------------------------
(***************************************************************************)
(* Following the events of a contract: the sessions of a stream that       *)
(* resumes from its cursor, the cursors that wait to be stored, and the    *)
(* events that wait for confirmations.  A behaviour is one of a single     *)
(* part while the others stay where they begin: TLC explores the sum of    *)
(* the state spaces, not their product.                                    *)
(***************************************************************************)
EXTENDS CursorStore, CursorSync, ReliableStream

VARIABLE part  \* the part this behaviour is about

mcVars == <<part, vars, syncVars, reliableVars>>

MCInit ==
    /\ part \in {"cursors", "sync", "events"}
    /\ Init /\ SyncInit /\ StreamInit
    \* A part that rests has one initial state.
    /\ part # "sync" => logs = {} /\ store = "memory"

CursorPart(A) == part = "cursors" /\ A /\ UNCHANGED <<part, syncVars, reliableVars>>
SyncPart(A) == part = "sync" /\ A /\ UNCHANGED <<part, vars, reliableVars>>
EventPart(A) == part = "events" /\ A /\ UNCHANGED <<part, vars, syncVars>>

MCNext == CursorPart(Next) \/ SyncPart(SyncNext) \/ EventPart(StreamNext)

(* The fairness of each module's specification, for the part it is about. *)
MCFairness ==
    /\ \A l \in Loops : WF_mcVars(CursorPart(LoopStep(l)))
    /\ \A d \in Deleters : WF_mcVars(CursorPart(DeleteReturns(d)))
    /\ WF_mcVars(SyncPart(Session))
    /\ \A e \in Events : WF_mcVars(EventPart(Handle(e)))
    /\ WF_mcVars(EventPart(PollReads)) /\ WF_mcVars(EventPart(EmitConfirmedEvents))

MCSpec == MCInit /\ [][MCNext]_mcVars /\ MCFairness
=============================================================================
