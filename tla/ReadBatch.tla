----------------------------- MODULE ReadBatch -----------------------------
(***************************************************************************)
(* The multicall batcher (evm/src/query/multicall-batcher.ts): reads that  *)
(* fibers ask for at the same time are made in one call per chain and      *)
(* options, and each fiber gets the answer to its own read.                *)
(*                                                                         *)
(* Outside the code are Effect's request resolver, which collects what is  *)
(* asked and forgets a request whose fiber is interrupted before its batch *)
(* runs, and the node, which answers a multicall with one result per call, *)
(* in their order, each a success or a failure, or fails as a whole.       *)
(***************************************************************************)
EXTENDS Integers, SeqFilter

CONSTANTS
    Requests,
    BatchKeys,    \* chain and options, as keyFor writes them
    AccountKeys,  \* those whose options name an account
    MaxBatch,     \* RequestResolver.batchN
    NoOutcome

Outcome == [call : Requests, key : BatchKeys, status : {"success", "failure"}]

ASSUME BatchAssumption ==
    AccountKeys \subseteq BatchKeys /\ MaxBatch \in Nat \ {0} /\ NoOutcome \notin Outcome

VARIABLES
    keyFor,   \* the key of each request
    asking,   \* where each request is
    queue,    \* requests that no batch has taken
    groups,   \* multicalls under way: key and requests
    reads,    \* requests that are read one by one
    outcome   \* what a fiber got: whose call it was, under which key, and how it went

batchVars == <<keyFor, asking, queue, groups, reads, outcome>>

BatchInit ==
    /\ keyFor \in [Requests -> BatchKeys]
    /\ asking = [r \in Requests |-> "idle"] /\ outcome = [r \in Requests |-> NoOutcome]
    /\ queue = <<>> /\ groups = {} /\ reads = {}

enqueue(r) ==
    /\ asking[r] = "idle"
    /\ asking' = [asking EXCEPT ![r] = "queued"] /\ queue' = Append(queue, r)
    /\ UNCHANGED <<keyFor, groups, reads, outcome>>

AskerInterrupted(r) ==
    /\ asking[r] \in {"queued", "batched"}
    /\ asking' = [asking EXCEPT ![r] = "interrupted"]
    /\ queue' = Filter(queue, Requests \ {r})
    /\ UNCHANGED <<keyFor, groups, reads, outcome>>

(* One group per key, its requests in the order they came in. *)
groupRequests(batch) ==
    {[key |-> k, requests |-> Filter(batch, {r \in Requests : keyFor[r] = k})] :
        k \in {keyFor[r] : r \in ToSet(batch)}}

(* The groups of a batch run side by side; a multicall has no sender, so reads
   that depend on one are made by themselves. *)
RunBatch ==
    LET size == IF Len(queue) < MaxBatch THEN Len(queue) ELSE MaxBatch
        batch == SubSeq(queue, 1, size)
        grouped == groupRequests(batch)
        apart == {g \in grouped : g.key \in AccountKeys}
    IN /\ queue # <<>>
       /\ queue' = SubSeq(queue, size + 1, Len(queue))
       /\ asking' = [r \in Requests |-> IF r \in ToSet(batch) THEN "batched" ELSE asking[r]]
       /\ groups' = groups \union (grouped \ apart)
       /\ reads' = reads \union UNION {ToSet(g.requests) : g \in apart}
       /\ UNCHANGED <<keyFor, outcome>>

(* The requests are completed, each with its answer: an interrupted fiber
   takes no notice. *)
complete(answers) ==
    LET waiting == {r \in DOMAIN answers : asking[r] = "batched"}
    IN /\ asking' = [r \in Requests |-> IF r \in waiting THEN "done" ELSE asking[r]]
       /\ outcome' = [r \in Requests |-> IF r \in waiting THEN answers[r] ELSE outcome[r]]

Failure(r, key) == [call |-> r, key |-> key, status |-> "failure"]

PlaceIn(g, r) == CHOOSE i \in 1..Len(g.requests) : g.requests[i] = r

Results(g, status) ==
    [i \in 1..Len(g.requests) |-> [call |-> g.requests[i], key |-> g.key, status |-> status[i]]]

(* Mutant: failures are left out before the results are handed out by place. *)
completeGroupFiltered(g) ==
    /\ g \in groups /\ groups' = groups \ {g}
    /\ \E status \in [1..Len(g.requests) -> {"success", "failure"}] :
         LET found == SelectSeq(Results(g, status), LAMBDA x : x.status = "success")
         IN complete([r \in ToSet(g.requests) |->
                        IF PlaceIn(g, r) <= Len(found) THEN found[PlaceIn(g, r)]
                        ELSE Failure(r, g.key)])
    /\ UNCHANGED <<keyFor, queue, reads>>

completeGroup(g) ==
    /\ g \in groups /\ groups' = groups \ {g}
    /\ \E status \in [1..Len(g.requests) -> {"success", "failure"}] :
         complete([r \in ToSet(g.requests) |-> Results(g, status)[PlaceIn(g, r)]])
    /\ UNCHANGED <<keyFor, queue, reads>>

failGroup(g) ==
    /\ g \in groups /\ groups' = groups \ {g}
    /\ complete([r \in ToSet(g.requests) |-> Failure(r, g.key)])
    /\ UNCHANGED <<keyFor, queue, reads>>

ReadApart(r) ==
    /\ r \in reads /\ reads' = reads \ {r}
    /\ \E status \in {"success", "failure"} :
         complete([q \in {r} |-> [call |-> q, key |-> keyFor[q], status |-> status]])
    /\ UNCHANGED <<keyFor, queue, groups>>

BatchNext ==
    \/ \E r \in Requests : enqueue(r) \/ AskerInterrupted(r) \/ ReadApart(r)
    \/ RunBatch
    \/ \E g \in groups : completeGroup(g) \/ failGroup(g)

BatchSpec == BatchInit /\ [][BatchNext]_batchVars

----------------------------------------------------------------------------
(* A fiber gets the answer to its own read, from the chain, at the block and
   for the account it named, whoever shares its batch, fails in it or is
   interrupted; until then it waits in the queue, or for exactly one call. *)
BatchSound ==
    /\ \A r \in Requests :
         /\ outcome[r] # NoOutcome => outcome[r].call = r /\ outcome[r].key = keyFor[r]
         /\ asking[r] = "done" <=> outcome[r] # NoOutcome
         /\ asking[r] = "queued" <=> r \in ToSet(queue)
         /\ asking[r] = "batched" =>
              LET calls == {g \in groups : r \in ToSet(g.requests)}
              IN IF keyFor[r] \in AccountKeys THEN r \in reads /\ calls = {}
                 ELSE r \notin reads /\ \E g \in calls : calls = {g} /\ g.key = keyFor[r]
    /\ \A g \in groups : g.key \notin AccountKeys /\ Len(g.requests) \in 1..MaxBatch
=============================================================================
