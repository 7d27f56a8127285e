----------------------------- MODULE QueryCache -----------------------------
(***************************************************************************)
(* Reads through QueryClient (evm/src/query/client.ts): the LRU cache      *)
(* (rpc/cache.ts), the deduplication of reads in flight (rpc/dedup.ts),    *)
(* the fiber that invalidates cached values on new blocks, and watchers    *)
(* that repeat their read on every block (query/contract-query.ts).        *)
(*                                                                         *)
(* What a read returns is modelled by the block it was answered at.  The   *)
(* operations of the cache and of the table of reads in flight have no     *)
(* point where they wait, so each is one step; a read, the question for    *)
(* the current block that follows it, and the delivery of a block to each  *)
(* subscriber are steps of their own.                                      *)
(***************************************************************************)
EXTENDS Naturals, FiniteSets, SeqFilter

CONSTANTS
    Keys,      \* query keys
    Readers,   \* fibers that query
    Watchers,  \* those of them that re-fetch on new blocks
    MaxSize,   \* the cache's maxSize
    MaxBlock,  \* bound on the chain's height
    None       \* no entry, no leader, no block number

ASSUME SizesAssumption == MaxSize \in Nat \ {0} /\ MaxBlock \in Nat

Blocks == 0..MaxBlock
Entry == [value : Blocks, block : Blocks \union {None}]

ASSUME ValuesAssumption ==
    None \notin Blocks \union Entry /\ None \notin Readers /\ Watchers \subseteq Readers

VARIABLES
    head,         \* the chain's height
    invalidator,  \* the chain's entry in invalidatorsRef
    delivered,    \* the last block the invalidator was given
    entries,      \* the cache: a value and the block number it is filed under
    order,        \* accessOrder: keys, the least recently used one first
    leader,       \* globalInflight: who reads a key for everybody
    pc, key,      \* each reader's place in query, and the key it works on
    got,          \* the value a reader carries
    tag,          \* chainHead.current, as the reader was told
    told,         \* the last block a watcher was given
    shown         \* the last value a watcher's stream emitted

cacheVars == <<entries, order>>
readerVars == <<pc, key, got, tag, told, shown>>
vars == <<head, invalidator, delivered, cacheVars, leader, readerVars>>

Resting == {"new", "idle", "ended"}
Reading == {"asked", "answered"}
Working == Reading \union {"waiting", "tagging", "storing"}

TypeOK ==
    /\ head \in Blocks
    /\ invalidator \in {"absent", "starting", "running"}
    /\ delivered \in Blocks
    /\ entries \in [Keys -> Entry \union {None}]
    /\ order \in Seq(Keys) /\ Len(order) <= MaxSize
    /\ leader \in [Keys -> Readers \union {None}]
    /\ pc \in [Readers -> Resting \union Working]
    /\ key \in [Readers -> Keys \union {None}]
    /\ got \in [Readers -> Blocks \union {None}]
    /\ tag \in [Readers -> Blocks \union {None}]
    /\ told \in [Watchers -> Blocks]
    /\ shown \in [Watchers -> Blocks \union {None}]

Init ==
    /\ head = 0
    /\ invalidator = "absent"
    /\ delivered = 0
    /\ entries = [k \in Keys |-> None]
    /\ order = <<>>
    /\ leader = [k \in Keys |-> None]
    /\ pc = [r \in Readers |-> "new"]
    /\ key = [r \in Readers |-> None]
    /\ got = [r \in Readers |-> None]
    /\ tag = [r \in Readers |-> None]
    /\ told = [w \in Watchers |-> 0]
    /\ shown = [w \in Watchers |-> None]

----------------------------------------------------------------------------
(* rpc/cache.ts *)

Cached(k) == entries[k] # None

WithoutKeys(ks) == Filter(order, Keys \ ks)

Touched(k) == Append(WithoutKeys({k}), k)

(* Mutant: invalidation forgets the access order. *)
DropEntriesOnly(ks) ==
    /\ entries' = [k \in Keys |-> IF k \in ks THEN None ELSE entries[k]]
    /\ UNCHANGED order

(* invalidate, for each of some keys. *)
Drop(ks) ==
    /\ entries' = [k \in Keys |-> IF k \in ks THEN None ELSE entries[k]]
    /\ order' = WithoutKeys(ks)

(* evictOldest, before a key that is not there yet is stored. *)
Evicted(k) ==
    IF ~Cached(k) /\ Cardinality({j \in Keys : Cached(j)}) >= MaxSize /\ order # <<>>
      THEN {Head(order)} ELSE {}

(* set(key, value, blockNumber) *)
Put(k, entry) ==
    /\ entries' = [j \in Keys |->
                     IF j = k THEN entry ELSE IF j \in Evicted(k) THEN None ELSE entries[j]]
    /\ order' = Append(WithoutKeys(Evicted(k) \union {k}), k)

----------------------------------------------------------------------------
(* rpc/dedup.ts *)

(* Mutant: a read in flight is not looked for. *)
JoinNobody(r, k) ==
    /\ leader' = [leader EXCEPT ![k] = r]
    /\ pc' = [pc EXCEPT ![r] = "asked"]

(* The reader waits for the read in flight, or is the one to make it. *)
Join(r, k) ==
    \/ /\ leader[k] = None
       /\ leader' = [leader EXCEPT ![k] = r]
       /\ pc' = [pc EXCEPT ![r] = "asked"]
    \/ /\ leader[k] # None
       /\ pc' = [pc EXCEPT ![r] = "waiting"]
       /\ UNCHANGED leader

Party(r) == {r} \union {q \in Readers : pc[q] = "waiting" /\ key[q] = key[r]}

(* Where a reader really goes: only a watcher is left idle or ended, any other
   fiber may query again. *)
Place(q, place) == IF q \in Watchers \/ place \in Working THEN place ELSE "new"

(* Readers leave what they were doing for a place; only an idle watcher keeps
   the key of a query that is over. *)
GoTo(qs, place) ==
    /\ pc' = [q \in Readers |-> IF q \in qs THEN Place(q, place) ELSE pc[q]]
    /\ key' = [q \in Readers |->
                 IF q \in qs /\ Place(q, place) \in {"new", "ended"} THEN None ELSE key[q]]

Forgotten(f, qs) == [q \in Readers |-> IF q \in qs THEN None ELSE f[q]]

(* Mutant: a leader that ends does not complete its Deferred. *)
SettleLeaderOnly(r, place) ==
    /\ GoTo({r}, place)
    /\ leader' = [leader EXCEPT ![key[r]] = None]

(* Deferred.into and cleanup: the leader's exit is everybody's. *)
Settle(r, place) ==
    /\ GoTo(Party(r), place)
    /\ leader' = [leader EXCEPT ![key[r]] = None]

----------------------------------------------------------------------------
(* query/client.ts *)

(* ensureInvalidator: the chain is marked first; if its block stream cannot
   be had the error is dropped, and the mark stays. *)
EnsureInvalidator ==
    IF invalidator = "absent" THEN invalidator' \in {"starting", "running"} ELSE UNCHANGED invalidator

Emits(r, value) ==
    shown' = IF r \in Watchers THEN [shown EXCEPT ![r] = value] ELSE shown

(* The cached value is returned. *)
Hit(r, k) ==
    /\ Cached(k)
    /\ order' = Touched(k)
    /\ Emits(r, entries[k].value)
    /\ pc' = [pc EXCEPT ![r] = Place(r, "idle")]
    /\ key' = [key EXCEPT ![r] = IF r \in Watchers THEN k ELSE None]
    /\ UNCHANGED <<entries, leader>>

(* Nothing is cached, or it has outlived its ttl and is removed. *)
Miss(r, k) ==
    /\ Drop({k})
    /\ Join(r, k)
    /\ key' = [key EXCEPT ![r] = k]
    /\ UNCHANGED shown

(* query up to the point where it returns or waits. *)
Begin(r, k) ==
    /\ EnsureInvalidator
    /\ Hit(r, k) \/ Miss(r, k)
    /\ UNCHANGED <<head, delivered, got, tag>>

(* A read, or the first one of a watcher. *)
Query(r) ==
    /\ pc[r] = "new"
    /\ \E k \in Keys : Begin(r, k)
    /\ UNCHANGED told

(* watchRead: a block is delivered, and the read repeated; the next one waits
   for its end, and a read that failed has ended the stream. *)
Refetch(w) ==
    /\ pc[w] = "idle" /\ told[w] < head
    /\ \E b \in told[w] + 1..head : told' = [told EXCEPT ![w] = b]
    /\ Begin(w, key[w])

(* The node answers the leader's read. *)
ReadLands(r) ==
    /\ pc[r] = "asked"
    /\ got' = [got EXCEPT ![r] = head]
    /\ pc' = [pc EXCEPT ![r] = "answered"]
    /\ UNCHANGED <<head, invalidator, delivered, cacheVars, leader, key, tag, told, shown>>

ReadEnds(r) ==
    /\ pc[r] = "answered"
    /\ Settle(r, "tagging")
    /\ got' = [q \in Readers |-> IF q \in Party(r) THEN got[r] ELSE got[q]]
    /\ UNCHANGED <<head, invalidator, delivered, cacheVars, tag, told, shown>>

(* The read fails for everybody who waits for it, or its leader is interrupted,
   and everybody with it. *)
ReadGivenUp(r) ==
    /\ pc[r] \in Reading
    /\ Settle(r, "ended")
    /\ got' = Forgotten(got, {r})
    /\ UNCHANGED <<head, invalidator, delivered, cacheVars, tag, told, shown>>

(* A reader is interrupted where the read does not depend on it. *)
Interrupted(r) ==
    /\ pc[r] \in {"waiting", "tagging", "storing"}
    /\ GoTo({r}, "ended")
    /\ got' = Forgotten(got, {r})
    /\ tag' = Forgotten(tag, {r})
    /\ UNCHANGED <<head, invalidator, delivered, cacheVars, leader, told, shown>>

(* chainHead.current answers with the height, or fails. *)
TagLands(r) ==
    /\ pc[r] = "tagging"
    /\ \E b \in {head, None} : tag' = [tag EXCEPT ![r] = b]
    /\ pc' = [pc EXCEPT ![r] = "storing"]
    /\ UNCHANGED <<head, invalidator, delivered, cacheVars, leader, key, got, told, shown>>

Store(r) ==
    /\ pc[r] = "storing"
    /\ Put(key[r], [value |-> got[r], block |-> tag[r]])
    /\ Emits(r, got[r])
    /\ GoTo({r}, "idle")
    /\ got' = Forgotten(got, {r})
    /\ tag' = Forgotten(tag, {r})
    /\ UNCHANGED <<head, invalidator, delivered, leader, told>>

NewBlock ==
    /\ head < MaxBlock
    /\ head' = head + 1
    /\ UNCHANGED <<invalidator, delivered, cacheVars, leader, readerVars>>

(* invalidateBlock, when the invalidator is given a block. *)
InvalidateBlock ==
    /\ invalidator = "running"
    /\ \E b \in delivered + 1..head :
        /\ delivered' = b
        /\ Drop({k \in Keys : Cached(k) /\ entries[k].block # None /\ entries[k].block < b})
    /\ UNCHANGED <<head, invalidator, leader, readerVars>>

(* invalidate(key) and clear, which anybody may call. *)
Invalidate ==
    /\ \E ks \in {Keys} \union {{k} : k \in Keys} : Drop(ks)
    /\ UNCHANGED <<head, invalidator, delivered, leader, readerVars>>

ReaderStep(r) == ReadLands(r) \/ ReadEnds(r) \/ TagLands(r) \/ Store(r)

Next ==
    \/ \E r \in Readers :
        Query(r) \/ ReaderStep(r) \/ ReadGivenUp(r) \/ Interrupted(r)
    \/ \E w \in Watchers : Refetch(w)
    \/ NewBlock \/ InvalidateBlock \/ Invalidate

(* Reads and questions for the current block end, and the fibers that wait
   for them are scheduled. *)
Fairness == \A r \in Readers : WF_vars(ReaderStep(r))

Spec == Init /\ [][Next]_vars /\ Fairness

----------------------------------------------------------------------------
(* The two maps of the cache stay in step: exactly the cached keys have a
   place in the access order.  A key left behind in it would be evicted in
   place of a cached one, and the cache would outgrow its size. *)
IndexAgrees ==
    /\ ToSet(order) = {k \in Keys : Cached(k)}
    /\ Len(order) = Cardinality(ToSet(order))

(* The cache is well formed, and its index agrees with it. *)
CacheSound == TypeOK /\ IndexAgrees

(* A key is read once at a time, and what is in flight is really there: the
   leaders in the table are the readers at work on a read of that key. *)
OneFlight ==
    \A r \in Readers, k \in Keys :
        leader[k] = r <=> pc[r] \in Reading /\ key[r] = k

(* A waiter has somebody to wait for. *)
WaitersHaveLeader ==
    \A r \in Readers : pc[r] = "waiting" => leader[key[r]] # None

(* Reads in flight: one for a key, and whoever waits has it to wait for. *)
FlightsLed == OneFlight /\ WaitersHaveLeader

(* Every query ends, whoever of those that share its read gives up. *)
QueryEnds == \A r \in Readers : pc[r] \in Working ~> pc[r] \in Resting

(* A watched value is "re-fetched on new blocks": when a watcher and the
   invalidator have been given the last block and nothing is under way, the
   watcher shows that block's value. *)
WatchConverges ==
    (delivered = head /\ \A r \in Readers : pc[r] \in Resting)
        => \A w \in Watchers : pc[w] = "idle" /\ told[w] = head => shown[w] = head
=============================================================================
