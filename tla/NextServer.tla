----------------------------- MODULE NextServer -----------------------------
(***************************************************************************)
(* Two server-side helpers of the next package: cachedEffect, for one key  *)
(* of one store (persistent-cache/index.ts), and the fixed-window rate     *)
(* limit with its in-memory store (middleware/rate-limit/index.ts).        *)
(*                                                                         *)
(* A value is the number of the run of the effect that made it.  The store *)
(* is asynchronous: what a request does with an answer, it does later than *)
(* the store gave it.                                                      *)
(***************************************************************************)
EXTENDS Integers

CONSTANTS
    Reqs,          \* requests for the cached key
    Ttl, Swr,      \* ttl and staleWhileRevalidate
    LimitKeys, Limit, Window,  \* of the rate limit
    MaxWall        \* bound on the clock

Nobody == [nobody |-> TRUE]

ASSUME ServerAssumption ==
    /\ Ttl \in Nat /\ Swr \in Nat /\ Limit \in Nat \ {0} /\ Window \in Nat \ {0} /\ MaxWall \in Nat
    /\ Nobody \notin Reqs

VARIABLE wall

WallTick == wall < MaxWall /\ wall' = wall + 1

----------------------------------------------------------------------------
(* The cache. *)

VARIABLES
    entry,     \* what the store has under the key
    req,       \* each request: where it is
    snap,      \* what it read
    policy,    \* its failurePolicy
    flight,    \* inFlight: the request whose refresh is under way
    refresh,   \* each request's refresh: where it is
    fresh,     \* what that refresh has computed
    runs       \* history: runs of the effect so far

persistentVars == <<entry, req, snap, policy, flight, refresh, fresh, runs>>

NoEntry == [made |-> 0, run |-> -1, sound |-> TRUE]
Running == {"reading", "deciding", "deleting", "discarding", "leading", "waiting"}
Ended == {"served", "failed", "interrupted"}

CacheInit ==
    /\ entry \in {NoEntry} \union [made : {0}, run : {0}, sound : BOOLEAN]
    /\ req = [r \in Reqs |-> "idle"]
    /\ snap = [r \in Reqs |-> NoEntry]
    /\ policy \in [Reqs -> {"fail-open", "fail-closed"}]
    /\ flight = Nobody
    /\ refresh = [r \in Reqs |-> "none"]
    /\ fresh = [r \in Reqs |-> NoEntry]
    /\ runs = 0

MoveTo(r, place) == req' = [req EXCEPT ![r] = place]

Arrive(r) ==
    /\ req[r] = "idle" /\ MoveTo(r, "reading")
    /\ UNCHANGED <<entry, snap, policy, flight, refresh, fresh, runs>>

(* The effect runs: it sees the world as it is now. *)
Lead(r) ==
    /\ flight' = r
    /\ refresh' = [refresh EXCEPT ![r] = "running"]
    /\ runs' = runs + 1
    /\ fresh' = [fresh EXCEPT ![r] = [made |-> 0, run |-> runs + 1, sound |-> TRUE]]

(* coalesceRefresh: wait for the refresh in flight, or be it. *)
coalesceRefresh(r) ==
    IF flight # Nobody
      THEN MoveTo(r, "waiting") /\ UNCHANGED <<flight, refresh, fresh, runs>>
      ELSE MoveTo(r, "leading") /\ Lead(r)

(* The store reads; the answer is looked at later. *)
StoreReads(r) ==
    /\ req[r] = "reading"
    /\ snap' = [snap EXCEPT ![r] = entry]
    /\ MoveTo(r, "deciding")
    /\ UNCHANGED <<entry, policy, flight, refresh, fresh, runs>>

ReadFails(r) ==
    /\ req[r] = "reading"
    /\ IF policy[r] = "fail-open"
         THEN coalesceRefresh(r)
         ELSE MoveTo(r, "failed") /\ UNCHANGED <<flight, refresh, fresh, runs>>
    /\ UNCHANGED <<entry, snap, policy>>

(* classifyEntry, with the clock as it is when the answer is there. *)
classifyEntry(r) ==
    LET e == snap[r]
        isFresh == wall <= e.made + Ttl
        isStale == Swr > 0 /\ wall <= e.made + Ttl + Swr
    IN /\ req[r] = "deciding"
       /\ IF e = NoEntry THEN coalesceRefresh(r)
          ELSE IF ~(isFresh \/ isStale)
            THEN MoveTo(r, "deleting") /\ UNCHANGED <<flight, refresh, fresh, runs>>
          ELSE IF ~e.sound
            THEN MoveTo(r, "discarding") /\ UNCHANGED <<flight, refresh, fresh, runs>>
          ELSE /\ MoveTo(r, "served")
               /\ IF isFresh \/ flight # Nobody THEN UNCHANGED <<flight, refresh, fresh, runs>>
                                               ELSE Lead(r)
       /\ UNCHANGED <<entry, snap, policy>>

(* Whatever the store has under the key by now is deleted, or that fails; what
   was not decoded fails the request as well. *)
DeleteEnds(r) ==
    /\ req[r] \in {"deleting", "discarding"}
    /\ \E done \in BOOLEAN :
         /\ entry' = IF done THEN NoEntry ELSE entry
         /\ IF policy[r] = "fail-closed" /\ (~done \/ req[r] = "discarding")
              THEN MoveTo(r, "failed") /\ UNCHANGED <<flight, refresh, fresh, runs>>
              ELSE coalesceRefresh(r)
    /\ UNCHANGED <<snap, policy>>

(* The Deferred of r's refresh is done, the slot is free: everyone who waits
   on it, and r where it leads, ends alike. *)
SettleRefresh(r, outcome) ==
    /\ flight' = Nobody
    /\ refresh' = [refresh EXCEPT ![r] = "done"]
    /\ req' = [q \in Reqs |-> IF req[q] = "waiting" \/ (q = r /\ req[q] = "leading") THEN outcome ELSE req[q]]

(* Mutant: the slot is free once the effect has ended, before the write. *)
EffectEndsEarly(r) ==
    /\ refresh[r] = "running"
    /\ refresh' = [refresh EXCEPT ![r] = "writing"]
    /\ fresh' = [fresh EXCEPT ![r].made = wall]
    /\ flight' = Nobody
    /\ UNCHANGED <<entry, req, snap, policy, runs>>

EffectEnds(r) ==
    /\ refresh[r] = "running"
    /\ \/ /\ refresh' = [refresh EXCEPT ![r] = "writing"]
          /\ fresh' = [fresh EXCEPT ![r].made = wall]
          /\ UNCHANGED <<flight, req>>
       \/ SettleRefresh(r, "failed") /\ UNCHANGED fresh
    /\ UNCHANGED <<entry, snap, policy, runs>>

WriteEnds(r) ==
    /\ refresh[r] = "writing"
    /\ \/ entry' = fresh[r] /\ SettleRefresh(r, "served")
       \/ UNCHANGED entry /\ SettleRefresh(r, IF policy[r] = "fail-closed" THEN "failed" ELSE "served")
    /\ UNCHANGED <<snap, policy, fresh, runs>>

(* Mutant: the slot of an interrupted refresh is not released. *)
InterruptHolding(r) ==
    /\ req[r] \in Running
    /\ IF req[r] = "leading"
         THEN MoveTo(r, "interrupted") /\ refresh' = [refresh EXCEPT ![r] = "done"] /\ UNCHANGED flight
         ELSE MoveTo(r, "interrupted") /\ UNCHANGED <<flight, refresh>>
    /\ UNCHANGED <<entry, snap, policy, fresh, runs>>

(* The client is gone.  A refresh the request leads is interrupted with it,
   and with that one everyone who waits; one in the background goes on.  A
   write that is interrupted may have reached the store. *)
Interrupt(r) ==
    /\ req[r] \in Running
    /\ IF req[r] = "leading"
         THEN SettleRefresh(r, "interrupted") /\ entry' \in {entry, IF refresh[r] = "writing" THEN fresh[r] ELSE entry}
         ELSE MoveTo(r, "interrupted") /\ UNCHANGED <<entry, flight, refresh>>
    /\ UNCHANGED <<snap, policy, fresh, runs>>

CacheServes(r) ==
    \/ StoreReads(r) \/ ReadFails(r) \/ classifyEntry(r) \/ DeleteEnds(r)
    \/ EffectEnds(r) \/ WriteEnds(r)

CacheNext ==
    \/ \E r \in Reqs : Arrive(r) \/ CacheServes(r) \/ Interrupt(r)

----------------------------------------------------------------------------
(* The rate limit. *)

VARIABLES
    counts,       \* the store's entries: count and resetAt, 0 for none
    nextPruneAt,
    through,      \* history: requests let through in the window
    windowEnd     \* history: the end of the window, by the first one's clock

limitVars == <<counts, nextPruneAt, through, windowEnd>>

NoCount == [count |-> 0, resetAt |-> 0]

LimitInit ==
    /\ counts = [k \in LimitKeys |-> NoCount] /\ nextPruneAt = 0
    /\ through = [k \in LimitKeys |-> 0] /\ windowEnd = [k \in LimitKeys |-> 0]

pruneExpired ==
    IF wall < nextPruneAt THEN counts
    ELSE [k \in LimitKeys |-> IF wall >= counts[k].resetAt THEN NoCount ELSE counts[k]]

(* increment, in one step, and what the middleware makes of the count.  When
   the store fails nothing is counted, and failurePolicy decides. *)
increment(k) ==
    LET current == pruneExpired[k]
        next == IF current = NoCount \/ wall >= current.resetAt
                  THEN [count |-> 1, resetAt |-> wall + Window]
                  ELSE [current EXCEPT !.count = @ + 1]
        passes == next.count <= Limit
        began == IF wall >= windowEnd[k] THEN 0 ELSE through[k]
    IN /\ counts[k].count <= Limit + 1
       /\ counts' = [pruneExpired EXCEPT ![k] = next]
       /\ nextPruneAt' = IF wall < nextPruneAt THEN nextPruneAt ELSE wall + Window
       /\ through' = [through EXCEPT ![k] = IF passes THEN began + 1 ELSE began]
       /\ windowEnd' = [windowEnd EXCEPT ![k] = IF wall >= @ THEN wall + Window ELSE @]

LimitNext == \E k \in LimitKeys : increment(k)

----------------------------------------------------------------------------
serverVars == <<wall, persistentVars, limitVars>>

ServerInit == wall = 0 /\ CacheInit /\ LimitInit

ServerNext ==
    \/ WallTick /\ UNCHANGED <<persistentVars, limitVars>>
    \/ CacheNext /\ UNCHANGED <<wall, limitVars>>
    \/ LimitNext /\ UNCHANGED <<wall, persistentVars>>

(* A store that is asked, and the effect, answer in the end. *)
ServerSpec ==
    /\ ServerInit /\ [][ServerNext]_serverVars
    /\ \A r \in Reqs : WF_persistentVars(CacheServes(r))

----------------------------------------------------------------------------
ServerTypeOK ==
    /\ wall \in 0..MaxWall
    /\ \A e \in {entry} \union {snap[r] : r \in Reqs} \union {fresh[r] : r \in Reqs} :
         e.made \in 0..MaxWall /\ e.run \in -1..runs /\ e.sound \in BOOLEAN
    /\ req \in [Reqs -> {"idle"} \union Running \union Ended]
    /\ policy \in [Reqs -> {"fail-open", "fail-closed"}]
    /\ flight \in Reqs \union {Nobody}
    /\ refresh \in [Reqs -> {"none", "running", "writing", "done"}]
    /\ \A k \in LimitKeys : counts[k].count \in 0..Limit + 2

(* The effect runs once for everyone who misses at the same time, whoever is
   interrupted; whoever waits, waits for a refresh that runs. *)
CacheOneRefresh ==
    /\ \A r \in Reqs : (refresh[r] \in {"running", "writing"}) <=> (flight = r)
    /\ \A r \in Reqs : req[r] = "waiting" => flight # Nobody
    /\ \A r \in Reqs : req[r] = "leading" => flight = r

(* Each request that has arrived ends, when the store and the effect answer. *)
CacheRequestEnds == \A r \in Reqs : (req[r] \in Running) ~> (req[r] \in Ended)

(* In the window that began with a key's first request no more than the limit
   are let through, whatever is pruned meanwhile. *)
RateLimitHolds == \A k \in LimitKeys : through[k] <= Limit

(* The server does for a client what it may, and once: one refresh at a time,
   and no more requests than the limit. *)
ServerSound == ServerTypeOK /\ CacheOneRefresh /\ RateLimitHolds
============================================================================
