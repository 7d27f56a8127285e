----------------------------- MODULE RpcGuards -----------------------------
(***************************************************************************)
(* What stands between the services and a failing node: the circuit        *)
(* breaker of evm/src/rpc/circuit-breaker.ts, and the transport that       *)
(* evm/src/presets/layers.ts builds for a chain, a breaker with            *)
(* deduplication of requests around it.                                    *)
(*                                                                         *)
(* Time is the time since a failure, up to the reset timeout: the code     *)
(* asks for no more.  Counts of failures stop at their threshold.          *)
(***************************************************************************)
EXTENDS Integers

CONSTANTS
    GuardCallers,      \* fibers that call through a guard
    GuardKeys,         \* requests with safe methods, told apart by their key
    FailureThreshold, SuccessThreshold, ResetTimeout

ASSUME GuardAssumption ==
    /\ FailureThreshold \in Nat \ {0} /\ SuccessThreshold \in Nat \ {0}
    /\ ResetTimeout \in Nat \ {0}
    /\ GuardCallers \intersect GuardKeys = {}

UpTo(n, bound) == IF n < bound THEN n ELSE bound

----------------------------------------------------------------------------
(* The circuit breaker. *)

VARIABLES
    circuit, failures, successes,  \* stateRef
    age,       \* time since lastFailureTime
    running,   \* callers whose effect was admitted and runs
    healthy,   \* the node answers every call that is made from now on
    bad,       \* calls that were made before that, and may still fail
    okProbes   \* history: successes since the circuit was last opened

breakerVars == <<circuit, failures, successes, age, running, healthy, bad, okProbes>>

BreakerInit ==
    /\ circuit = "closed" /\ failures = 0 /\ successes = 0 /\ age = ResetTimeout
    /\ running = {} /\ healthy = FALSE /\ bad = {} /\ okProbes = 0

Closed == circuit' = "closed" /\ failures' = 0 /\ successes' = 0

Opened == circuit' = "open" /\ successes' = 0 /\ okProbes' = 0

recordSuccess ==
    IF circuit = "half-open" /\ successes + 1 >= SuccessThreshold
      THEN Closed /\ UNCHANGED age
      ELSE IF circuit = "half-open"
        THEN successes' = successes + 1 /\ UNCHANGED <<circuit, failures, age>>
        ELSE failures' = 0 /\ UNCHANGED <<circuit, successes, age>>

recordFailure ==
    /\ age' = 0
    /\ failures' = UpTo(failures + 1, FailureThreshold)
    /\ IF circuit = "half-open" \/ (circuit = "closed" /\ failures + 1 >= FailureThreshold)
         THEN Opened
         ELSE UNCHANGED <<circuit, successes, okProbes>>

(* Mutant: one caller reads "open" and promotes in a later step, and successes
   counted in between are lost. *)
executeResetting(c) ==
    /\ c \notin running
    /\ circuit = "open" => age >= ResetTimeout
    /\ circuit' = IF circuit = "open" THEN "half-open" ELSE circuit
    /\ successes' = 0
    /\ running' = running \union {c}
    /\ bad' = IF healthy THEN bad ELSE bad \union {c}
    /\ UNCHANGED <<failures, age, healthy, okProbes>>

(* execute is admitted: the promotion to half-open is in the same step.  A
   call that is rejected changes nothing. *)
execute(c) ==
    /\ c \notin running
    /\ circuit = "open" => age >= ResetTimeout
    /\ IF circuit = "open" THEN circuit' = "half-open" /\ successes' = 0
                           ELSE UNCHANGED <<circuit, successes>>
    /\ running' = running \union {c}
    /\ bad' = IF healthy THEN bad ELSE bad \union {c}
    /\ UNCHANGED <<failures, age, healthy, okProbes>>

Returns(c) == c \in running /\ running' = running \ {c} /\ bad' = bad \ {c} /\ UNCHANGED healthy

Succeeds(c) ==
    /\ Returns(c) /\ recordSuccess
    /\ okProbes' = UpTo(okProbes + 1, SuccessThreshold)

Fails(c) == c \in bad /\ Returns(c) /\ recordFailure

(* An interrupted call, or one that dies, is neither. *)
CallInterrupted(c) == Returns(c) /\ UNCHANGED <<circuit, failures, successes, age, okProbes>>

reset ==
    /\ Closed /\ age' = ResetTimeout
    /\ UNCHANGED <<running, healthy, bad, okProbes>>

Heal ==
    /\ ~healthy /\ healthy' = TRUE
    /\ UNCHANGED <<circuit, failures, successes, age, running, bad, okProbes>>

BreakerTick ==
    /\ age < ResetTimeout /\ age' = age + 1
    /\ UNCHANGED <<circuit, failures, successes, running, healthy, bad, okProbes>>

Answered(c) == Succeeds(c) \/ Fails(c)

BreakerNext ==
    \/ \E c \in GuardCallers : execute(c) \/ Answered(c) \/ CallInterrupted(c)
    \/ reset \/ Heal \/ BreakerTick

----------------------------------------------------------------------------
(* The transport of a chain: deduplication around a breaker around requests.
   A request is named by its key, or, when its method is not safe, by its
   caller. *)

VARIABLES
    flights,      \* requests on their way to the node
    waits,        \* for each caller, the request whose promise it has
    consecutiveFailures,
    sinceOpened,  \* time since openedAtMs, -1 when that is undefined
    dead          \* history: requests that failed since one last succeeded

transportVars == <<flights, waits, consecutiveFailures, sinceOpened, dead>>

TransportInit ==
    /\ flights = {} /\ waits = [c \in GuardCallers |-> {}]
    /\ consecutiveFailures = 0 /\ sinceOpened = -1 /\ dead = 0

isOpen == sinceOpened \in 0..ResetTimeout - 1

(* A caller joins the request with its key that is in flight, if there is one;
   otherwise the breaker lets it through, or rejects it. *)
Request(c, id) ==
    /\ waits[c] = {} /\ id \in GuardKeys \union {c}
    /\ id \in flights \/ ~isOpen
    /\ flights' = flights \union {id}
    /\ waits' = [waits EXCEPT ![c] = {id}]
    /\ UNCHANGED <<consecutiveFailures, sinceOpened, dead>>

WaitersOf(id) == {c \in GuardCallers : id \in waits[c]}

SettleRequest(id) ==
    /\ id \in flights
    /\ flights' = flights \ {id}
    /\ waits' = [c \in GuardCallers |-> waits[c] \ {id}]

(* Mutant: the breaker is around the deduplication, and counts its callers. *)
noteFailureOfEach(id) ==
    LET n == UpTo(consecutiveFailures + (IF \E c, d \in WaitersOf(id) : c # d THEN 2 ELSE 1), FailureThreshold)
    IN /\ consecutiveFailures' = n
       /\ sinceOpened' = IF n >= FailureThreshold THEN 0 ELSE sinceOpened

noteFailure(id) ==
    LET n == UpTo(consecutiveFailures + 1, FailureThreshold)
    IN /\ consecutiveFailures' = n
       /\ sinceOpened' = IF n >= FailureThreshold THEN 0 ELSE sinceOpened

noteSuccess == consecutiveFailures' = 0 /\ sinceOpened' = -1

RequestSucceeds(id) == SettleRequest(id) /\ noteSuccess /\ dead' = 0

TransportFails(id) ==
    SettleRequest(id) /\ noteFailure(id) /\ dead' = UpTo(dead + 1, FailureThreshold)

(* The node answers with an error: neither a failure nor a success. *)
RequestRejected(id) == SettleRequest(id) /\ UNCHANGED <<consecutiveFailures, sinceOpened, dead>>

TransportTick ==
    /\ isOpen /\ sinceOpened' = sinceOpened + 1
    /\ UNCHANGED <<flights, waits, consecutiveFailures, dead>>

TransportNext ==
    \/ \E c \in GuardCallers, id \in GuardKeys \union GuardCallers : Request(c, id)
    \/ \E id \in flights : RequestSucceeds(id) \/ TransportFails(id) \/ RequestRejected(id)
    \/ TransportTick

guardVars == <<breakerVars, transportVars>>

GuardsNext ==
    \/ BreakerNext /\ UNCHANGED transportVars
    \/ TransportNext /\ UNCHANGED breakerVars

(* A call that was admitted is answered in the end; when it is interrupted
   again and again, callers are not. *)
GuardsFairness ==
    /\ WF_guardVars(BreakerTick /\ UNCHANGED transportVars)
    /\ \A c \in GuardCallers :
         /\ WF_guardVars(execute(c) /\ UNCHANGED transportVars)
         /\ SF_guardVars(Answered(c) /\ UNCHANGED transportVars)

GuardsSpec == BreakerInit /\ TransportInit /\ [][GuardsNext]_guardVars /\ GuardsFairness

----------------------------------------------------------------------------
GuardsTypeOK ==
    /\ circuit \in {"closed", "open", "half-open"}
    /\ failures \in 0..FailureThreshold /\ successes \in 0..SuccessThreshold - 1
    /\ age \in 0..ResetTimeout /\ okProbes \in 0..SuccessThreshold
    /\ running \in SUBSET GuardCallers /\ bad \in SUBSET running /\ healthy \in BOOLEAN
    /\ flights \in SUBSET (GuardKeys \union GuardCallers)
    /\ waits \in [GuardCallers -> SUBSET flights]
    /\ consecutiveFailures \in 0..FailureThreshold
    /\ sinceOpened \in -1..ResetTimeout /\ dead \in 0..FailureThreshold

(* However late the results of calls come in that were admitted before the
   circuit opened: a closed circuit has fewer failures counted than would open
   it, successes are counted in half-open alone, fewer than would close it,
   and none that did not come since the circuit was opened. *)
BreakerSound ==
    /\ circuit = "closed" => failures < FailureThreshold
    /\ circuit # "half-open" => successes = 0
    /\ circuit = "half-open" => successes < SuccessThreshold /\ successes <= okProbes

(* When the node is well again, and is called, the circuit closes, whatever
   late failures still come in. *)
BreakerRecovers == healthy ~> (circuit = "closed")

(* The transport is shut for failures of its own requests alone, as many as
   the threshold since one last succeeded, however many callers share them;
   and everyone who waits, waits for a request that is on its way. *)
TransportShutForCause ==
    /\ consecutiveFailures = dead
    /\ isOpen => dead = FailureThreshold
    /\ \A c \in GuardCallers : waits[c] \subseteq flights

(* The two guards count what they are said to count, and reject for that
   alone. *)
GuardsSound == GuardsTypeOK /\ BreakerSound /\ TransportShutForCause
============================================================================
