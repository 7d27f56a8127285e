---------------------------- MODULE TxPersistence ----------------------------
(***************************************************************************)
(* Transactions that survive a page reload: TxManager.track (tx/manager.ts) *)
(* feeds the persistence fiber of TxPersistence (tx-persistence/           *)
(* persistence.ts), which writes every change of status to the TxStore kept *)
(* in browser storage (tx-store/local-storage.ts).  A crash loses all but   *)
(* the storage; at the next start rehydrateAll tracks what was in flight.   *)
(*                                                                         *)
(* A transaction may be tracked twice at a time: by the application, and   *)
(* by rehydrateAll, which is forked and may run after the application has  *)
(* stored a new transaction.  An upsert touches storage several times, and *)
(* another fiber, or another tab with transactions of its own, may do so    *)
(* in between: the record, the index with everything it lists, and the      *)
(* pruned index are separate steps.  How many transactions the store holds  *)
(* is left open: an upsert may have to prune any of those that are over.    *)
(***************************************************************************)
EXTENDS Naturals, FiniteSets, Sequences

CONSTANTS
    Txs,          \* transactions, each known by its root hash
    MaxAttempts,  \* the policy's maxAttempts
    MaxSent,      \* bound on the replacements of a transaction that are broadcast
    MaxCrashes,   \* bound on crashes
    MaxFailures,  \* bound on failures of the storage
    None          \* no record, no outcome, no new hash

VARIABLES
    sent,      \* replacements of a transaction that were broadcast; its hashes are 0..sent
    outcome,   \* which of its hashes was mined, and whether it succeeded
    asked,     \* transactions the application has asked to track
    booted,    \* whether rehydrateAll has run in this session
    crashes,   \* sessions that ended
    \* TxManager.track, for each tracker
    phase, awaited, attempts, shown, feed,
    \* the persistence fiber: its place, lastStatus and currentHash, and what it loaded
    place, lastStatus, currentHash, loaded,
    \* browser storage
    records, index,
    \* what another tab loaded, before it writes its own upsert's index
    theirs,
    \* failures of the storage, and transactions with a record lost to one
    failures, lost,
    \* transactions that were tracked twice at a time
    doubled

chainVars == <<sent, outcome>>
trackVars == <<phase, awaited, attempts, shown, feed>>
fiberVars == <<place, lastStatus, currentHash, loaded>>
storeVars == <<records, index, theirs>>
lossVars == <<failures, lost, doubled>>
vars == <<chainVars, asked, booted, crashes, trackVars, fiberVars, storeVars, lossVars>>

Trackers == {"app", "boot"} \X Txs
TxOf(x) == x[2]

InFlight == {"submitted", "pending"}
Terminal == {"mined", "failed"}
Hashes == 0..MaxSent

Record == [status : InFlight \union Terminal, hash : Hashes]
Won == [hash : Hashes, ok : BOOLEAN]

ASSUME BoundsAssumption ==
    /\ {MaxAttempts, MaxSent, MaxCrashes, MaxFailures} \subseteq Nat
    /\ None \notin Record \union Won

Event == [status : InFlight \union Terminal, new : {None}] \union [status : {"replaced"}, new : Hashes]
Status(s) == [status |-> s, new |-> None]
Replaced(h) == <<[status |-> "replaced", new |-> h], Status("submitted")>>

Loads == [kept : SUBSET Txs, pruned : SUBSET Txs]
Nothing == [kept |-> {}, pruned |-> {}]

Storing == {"writing", "indexing", "pruning"}

TypeOK ==
    /\ sent \in [Txs -> Hashes]
    /\ outcome \in [Txs -> Won \union {None}]
    /\ asked \subseteq Txs
    /\ booted \in BOOLEAN
    /\ crashes \in 0..MaxCrashes
    /\ phase \in [Trackers -> {"off", "starting", "waiting", "done"}]
    /\ awaited \in [Trackers -> Hashes]
    /\ attempts \in [Trackers -> 0..MaxAttempts]
    /\ shown \in [Trackers -> InFlight]
    /\ feed \in [Trackers -> Seq(Event)]
    /\ place \in [Trackers -> {"off", "idle", "ended"} \union Storing]
    /\ lastStatus \in [Trackers -> InFlight \union Terminal]
    /\ currentHash \in [Trackers -> Hashes]
    /\ loaded \in [Trackers -> Loads]
    /\ theirs \in Loads \union {None}
    /\ failures \in 0..MaxFailures
    /\ records \in [Txs -> Record \union {None}]
    /\ index \subseteq Txs
    /\ lost \subseteq Txs /\ doubled \subseteq Txs

Init ==
    /\ sent = [t \in Txs |-> 0] /\ outcome = [t \in Txs |-> None]
    /\ asked = {} /\ booted = FALSE /\ crashes = 0
    /\ phase = [x \in Trackers |-> "off"]
    /\ awaited = [x \in Trackers |-> 0]
    /\ attempts = [x \in Trackers |-> 0]
    /\ shown = [x \in Trackers |-> "submitted"]
    /\ feed = [x \in Trackers |-> <<>>]
    /\ place = [x \in Trackers |-> "off"]
    /\ lastStatus = [x \in Trackers |-> "submitted"]
    /\ currentHash = [x \in Trackers |-> 0]
    /\ loaded = [x \in Trackers |-> Nothing]
    /\ records = [t \in Txs |-> None] /\ index = {} /\ theirs = None
    /\ failures = 0 /\ lost = {} /\ doubled = {}

----------------------------------------------------------------------------
(* The chain *)

(* One of a transaction's hashes is mined, and the others never will be. *)
Mine(t) ==
    /\ t \in asked /\ outcome[t] = None
    /\ \E h \in 0..sent[t], ok \in BOOLEAN : outcome' = [outcome EXCEPT ![t] = [hash |-> h, ok |-> ok]]
    /\ UNCHANGED <<sent, asked, booted, crashes, trackVars, fiberVars, storeVars, lossVars>>

----------------------------------------------------------------------------
(* TxManager.track *)

Emit(x, events) == feed' = [feed EXCEPT ![x] = @ \o events]

(* updatePendingState: repeated blocks publish the same state again. *)
Pending(x) ==
    /\ phase[x] = "waiting" /\ shown[x] = "submitted"
    /\ shown' = [shown EXCEPT ![x] = "pending"]
    /\ Emit(x, <<Status("pending")>>)
    /\ UNCHANGED <<chainVars, asked, booted, crashes, phase, awaited, attempts, fiberVars, storeVars, lossVars>>

(* autoReplaceIfStuck: a replacement is broadcast, and unless its answer is
   lost, or cut off by the receipt, everybody is told of it. *)
AutoReplace(x) ==
    /\ phase[x] = "waiting" /\ attempts[x] < MaxAttempts
    /\ outcome[TxOf(x)] = None /\ sent[TxOf(x)] < MaxSent
    /\ sent' = [sent EXCEPT ![TxOf(x)] = @ + 1]
    /\ \/ /\ attempts' = [attempts EXCEPT ![x] = @ + 1]
          /\ shown' = [shown EXCEPT ![x] = "submitted"]
          /\ Emit(x, Replaced(sent[TxOf(x)] + 1))
       \/ UNCHANGED <<attempts, shown, feed>>
    /\ UNCHANGED <<outcome, asked, booted, crashes, phase, awaited, fiberVars, storeVars, lossVars>>

(* Mutant: a reverted receipt counts as mined. *)
ReceiptMined(ok) == "mined"

ReceiptStatus(ok) == IF ok THEN "mined" ELSE "failed"

(* The tracker's fiber ends, and its refs with it. *)
Done(x, events, status) ==
    /\ phase' = [phase EXCEPT ![x] = "done"]
    /\ awaited' = [awaited EXCEPT ![x] = 0]
    /\ attempts' = [attempts EXCEPT ![x] = 0]
    /\ shown' = [shown EXCEPT ![x] = "submitted"]
    /\ Emit(x, Append(events, Status(status)))
    /\ UNCHANGED <<chainVars, asked, booted, crashes, fiberVars, storeVars, lossVars>>

(* The receipt of the awaited hash, or of the one the node saw replace it. *)
Receipt(x) ==
    LET won == outcome[TxOf(x)] IN
    /\ phase[x] = "waiting" /\ won # None
    /\ Done(x, IF won.hash = awaited[x] THEN <<>> ELSE Replaced(won.hash), ReceiptStatus(won.ok))

(* The budget is spent, or the node failed for good: the awaited hash may have
   been mined, or replaced by one the node does not connect with it. *)
ReceiptFails(x) ==
    /\ phase[x] = "waiting"
    /\ Done(x, <<>>, "failed")

----------------------------------------------------------------------------
(* The persistence fiber *)

(* track has set "submitted"; the subscription begins with it. *)
Track(xs) ==
    /\ feed' = [x \in Trackers |-> IF x \in xs THEN <<Status("submitted")>> ELSE feed[x]]
    /\ phase' = [x \in Trackers |-> IF x \in xs THEN "waiting" ELSE phase[x]]

(* trackAndPersist, up to the upsert of the initial record. *)
TrackAndPersist(t) ==
    LET x == <<"app", t>> IN
    /\ t \notin asked
    /\ asked' = asked \union {t}
    /\ phase' = [phase EXCEPT ![x] = "starting"]
    /\ place' = [place EXCEPT ![x] = "writing"]
    /\ UNCHANGED <<chainVars, booted, crashes, awaited, attempts, shown, feed,
                   lastStatus, currentHash, loaded, storeVars, lossVars>>

(* The next state: a new hash, a new status, or nothing to write.  The record
   to write keeps of the old one only what neither of them is. *)
Take(x) ==
    /\ place[x] = "idle" /\ feed[x] # <<>>
    /\ LET e == Head(feed[x]) IN
       \/ /\ e.status = "replaced"
          /\ currentHash' = [currentHash EXCEPT ![x] = e.new]
          /\ place' = [place EXCEPT ![x] = "writing"]
          /\ UNCHANGED lastStatus
       \/ /\ e.status \notin {"replaced", lastStatus[x]}
          /\ lastStatus' = [lastStatus EXCEPT ![x] = e.status]
          /\ place' = [place EXCEPT ![x] = "writing"]
          /\ UNCHANGED currentHash
       \/ /\ e.status = lastStatus[x]
          /\ UNCHANGED <<currentHash, lastStatus, place>>
    /\ feed' = [feed EXCEPT ![x] = Tail(@)]
    /\ UNCHANGED <<chainVars, asked, booted, crashes, phase, awaited, attempts, shown,
                   loaded, storeVars, lossVars>>

(* isTerminalPersistedStatus *)
IsTerminal(status) == status \in Terminal

(* After the upsert, done or failed: trackAndPersist goes on to track, and a
   terminal state interrupts the fiber. *)
Resume(x) ==
    /\ IF IsTerminal(lastStatus[x])
         THEN /\ place' = [place EXCEPT ![x] = "ended"]
              /\ lastStatus' = [lastStatus EXCEPT ![x] = "submitted"]
              /\ currentHash' = [currentHash EXCEPT ![x] = 0]
         ELSE /\ place' = [place EXCEPT ![x] = "idle"]
              /\ UNCHANGED <<lastStatus, currentHash>>
    /\ loaded' = [loaded EXCEPT ![x] = Nothing]
    /\ IF phase[x] = "starting" THEN Track({x}) ELSE UNCHANGED <<phase, feed>>

(* upsert: the record is written. *)
WriteTx(x) ==
    /\ place[x] = "writing"
    /\ records' = [records EXCEPT ![TxOf(x)] =
                     [status |-> lastStatus[x], hash |-> currentHash[x]]]
    /\ place' = [place EXCEPT ![x] = "indexing"]
    /\ UNCHANGED <<chainVars, asked, booted, crashes, trackVars, lastStatus, currentHash, loaded,
                   index, theirs, lossVars>>

(* pruneIfNeeded chooses among those that are over. *)
MayGo(listed) == {t \in listed : records[t].status \in Terminal}

LoadedFrom(listed) == {[kept |-> listed \ ts, pruned |-> ts] : ts \in SUBSET MayGo(listed)}

(* The index, with the transaction in it, and all records it lists are read. *)
LoadAll(x) ==
    LET listed == {t \in index \union {TxOf(x)} : records[t] # None} IN
    /\ place[x] = "indexing"
    /\ index' = listed
    /\ \E l \in LoadedFrom(listed) : loaded' = [loaded EXCEPT ![x] = l]
    /\ place' = [place EXCEPT ![x] = "pruning"]
    /\ UNCHANGED <<chainVars, asked, booted, crashes, trackVars, lastStatus, currentHash, records, theirs, lossVars>>

Written(l) ==
    /\ records' = [t \in Txs |-> IF t \in l.pruned THEN None ELSE records[t]]
    /\ index' = l.kept

(* What is pruned goes, and the index of what was loaded is written. *)
Prune(x) ==
    /\ place[x] = "pruning"
    /\ Written(loaded[x])
    /\ Resume(x)
    /\ UNCHANGED <<chainVars, asked, booted, crashes, awaited, attempts, shown, theirs, lossVars>>

(* Storage fails, and what is left of the upsert is not done: the index may
   already list the transaction, some of what is pruned may be gone. *)
StorageFails(x) ==
    /\ place[x] \in Storing /\ failures < MaxFailures
    /\ failures' = failures + 1
    /\ Resume(x)
    /\ lost' = IF place[x] = "writing" THEN lost \union {TxOf(x)} ELSE lost
    /\ index' \in {index} \union (IF place[x] = "indexing" THEN {index \union {TxOf(x)}} ELSE {})
    /\ \E gone \in SUBSET loaded[x].pruned :
         records' = [t \in Txs |-> IF t \in gone THEN None ELSE records[t]]
    /\ UNCHANGED <<chainVars, asked, booted, crashes, awaited, attempts, shown, theirs, doubled>>

Listed == {t \in index : records[t] # None}

(* Another tab upserts a transaction of its own: it loads what is listed here
   too, and writes that back. *)
TabLoads ==
    /\ theirs = None /\ theirs' \in LoadedFrom(Listed)
    /\ UNCHANGED <<chainVars, asked, booted, crashes, trackVars, fiberVars, records, index, lossVars>>

TabWrites ==
    /\ theirs # None /\ Written(theirs)
    /\ theirs' = None
    /\ UNCHANGED <<chainVars, asked, booted, crashes, trackVars, fiberVars, lossVars>>

----------------------------------------------------------------------------
(* Sessions *)

(* Mutant: what is over is tracked again. *)
BootAll ==
    /\ ~booted /\ booted' = TRUE
    /\ LET xs == {"boot"} \X Listed IN
       /\ Track(xs)
       /\ place' = [x \in Trackers |-> IF x \in xs THEN "idle" ELSE place[x]]
       /\ awaited' = [x \in Trackers |-> IF x \in xs THEN records[TxOf(x)].hash ELSE awaited[x]]
       /\ currentHash' =
            [x \in Trackers |-> IF x \in xs THEN records[TxOf(x)].hash ELSE currentHash[x]]
       /\ lastStatus' =
            [x \in Trackers |-> IF x \in xs THEN records[TxOf(x)].status ELSE lastStatus[x]]
    /\ index' = Listed
    /\ doubled' = doubled \union {t \in Listed : place[<<"app", t>>] \notin {"off", "ended"}}
    /\ UNCHANGED <<chainVars, asked, crashes, attempts, shown, loaded, records, theirs, failures, lost>>

(* rehydrateAll: what is listed and in flight is tracked at its current hash. *)
Boot ==
    /\ ~booted /\ booted' = TRUE
    /\ LET xs == {"boot"} \X {t \in Listed : records[t].status \in InFlight} IN
       /\ Track(xs)
       /\ place' = [x \in Trackers |-> IF x \in xs THEN "idle" ELSE place[x]]
       /\ awaited' = [x \in Trackers |-> IF x \in xs THEN records[TxOf(x)].hash ELSE awaited[x]]
       /\ currentHash' =
            [x \in Trackers |-> IF x \in xs THEN records[TxOf(x)].hash ELSE currentHash[x]]
       /\ lastStatus' =
            [x \in Trackers |-> IF x \in xs THEN records[TxOf(x)].status ELSE lastStatus[x]]
    /\ index' = Listed
    /\ doubled' = doubled \union {t \in Listed : place[<<"app", t>>] \notin {"off", "ended"}}
    /\ UNCHANGED <<chainVars, asked, crashes, attempts, shown, loaded, records, theirs, failures, lost>>

(* The page is closed: everything but the storage and the chain is gone. *)
Crash ==
    /\ crashes < MaxCrashes
    /\ crashes' = crashes + 1
    /\ booted' = FALSE
    /\ phase' = [x \in Trackers |-> "off"]
    /\ awaited' = [x \in Trackers |-> 0]
    /\ attempts' = [x \in Trackers |-> 0]
    /\ shown' = [x \in Trackers |-> "submitted"]
    /\ feed' = [x \in Trackers |-> <<>>]
    /\ place' = [x \in Trackers |-> "off"]
    /\ lastStatus' = [x \in Trackers |-> "submitted"]
    /\ currentHash' = [x \in Trackers |-> 0]
    /\ loaded' = [x \in Trackers |-> Nothing]
    /\ UNCHANGED <<chainVars, asked, storeVars, lossVars>>

FiberStep(x) == Take(x) \/ WriteTx(x) \/ LoadAll(x) \/ Prune(x)

Next ==
    \/ \E t \in Txs : Mine(t) \/ TrackAndPersist(t)
    \/ \E x \in Trackers :
         \/ Pending(x) \/ AutoReplace(x) \/ Receipt(x) \/ ReceiptFails(x)
         \/ FiberStep(x) \/ StorageFails(x)
    \/ TabLoads \/ TabWrites \/ Boot \/ Crash

Spec == Init /\ [][Next]_vars

----------------------------------------------------------------------------
OverFor(t) == /\ \A x \in Trackers : TxOf(x) = t => place[x] \in {"off", "ended"}
              /\ \E x \in Trackers : TxOf(x) = t /\ place[x] = "ended"

(* A record says mined only of a transaction that was mined and not reverted. *)
MinedIsTrue ==
    \A t \in Txs : records[t] # None /\ records[t].status = "mined" =>
        outcome[t] # None /\ outcome[t].ok

(* When everybody who tracked a transaction is through with it, its record, if
   not pruned, is settled: whatever the order in which two trackers and other
   upserts reached the storage, unless a write failed. *)
SettledInTheEnd ==
    \A t \in Txs \ lost : OverFor(t) /\ records[t] # None => records[t].status \in Terminal

(* The records tell what happened to the transactions. *)
RecordsTrue == TypeOK /\ MinedIsTrue /\ SettledInTheEnd

(* No step reopens a settled record, unless two trackers have had it. *)
StaysSettled ==
    [][\A t \in Txs \ doubled :
         records[t] # None /\ records[t].status \in Terminal
           => records'[t] = None \/ records'[t].status \in Terminal]_vars

(* Pruning spares what is in flight: "oldest terminal transactions are
   pruned", unless two trackers have had the record. *)
InFlightSpared ==
    [][\A t \in Txs \ doubled :
         records[t] # None /\ records[t].status \in InFlight
           => records'[t] # None]_vars

(* What is stored of a transaction that one tracker has had stays true to how far
   it came: it is neither reopened nor, before its end, pruned. *)
RecordsKept == StaysSettled /\ InFlightSpared

(* "Persist pending transactions across page reloads": between two upserts
   whatever is in flight is in the index, where rehydrateAll finds it. *)
InFlightListed ==
    (\A x \in Trackers : place[x] \notin Storing)
        => \A t \in Txs \ lost :
             records[t] # None /\ records[t].status \in InFlight => t \in index
=============================================================================
