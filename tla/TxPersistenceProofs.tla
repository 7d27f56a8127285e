------------------------- MODULE TxPersistenceProofs -------------------------
(***************************************************************************)
(* Proofs about TxPersistence: the records tell what happened (RecordsTrue) *)
(* and what is stored of a transaction that one tracker has had is neither *)
(* reopened nor pruned before its end (RecordsKept), for any number of      *)
(* transactions, replacements, crashes and failures of the storage.        *)
(*                                                                         *)
(* Neither is inductive.  A record is reopened, or pruned too early, only  *)
(* by a tracker that may still write one in flight after somebody else     *)
(* wrote or read the last one, so the proof follows who still may: a       *)
(* tracker is Open until it has written its last record.                   *)
(***************************************************************************)
EXTENDS TxPersistence, TLAPS

Active(x) == place[x] \notin {"off", "ended"}

(* Its last record is written, though its upsert is not through. *)
Through(x) == place[x] \in {"indexing", "pruning"} /\ lastStatus[x] \in Terminal

Open(x) == Active(x) /\ ~Through(x)

Settled(t) == records[t] # None /\ records[t].status \in Terminal
Unsettled(t) == records[t] # None /\ records[t].status \in InFlight

(* Somebody has read the record and will prune it. *)
Condemned(t) ==
    \/ \E x \in Trackers : t \in loaded[x].pruned
    \/ theirs # None /\ t \in theirs.pruned

AskedFirst ==
    /\ \A x \in Trackers : place[x] # "off" => TxOf(x) \in asked
    /\ \A t \in Txs : records[t] # None => t \in asked

OneHasIt ==
    \A t \in Txs \ doubled : \A x, y \in Trackers :
        TxOf(x) = t /\ TxOf(y) = t /\ Active(x) /\ Active(y) => x = y

OverIsOver ==
    \A t \in Txs \ doubled : Condemned(t) \/ Settled(t) =>
        t \in asked /\ ~Unsettled(t) /\ \A x \in Trackers : TxOf(x) = t => ~Open(x)

SomeoneWillSettle ==
    \A t \in Txs \ lost :
        Unsettled(t) /\ (\E x \in Trackers : TxOf(x) = t /\ (place[x] = "ended" \/ Through(x)))
          => \E y \in Trackers : TxOf(y) = t /\ Open(y)

MinedTrue(t) == outcome[t] # None /\ outcome[t].ok

NewsTrue ==
    \A x \in Trackers :
        /\ \A i \in DOMAIN feed[x] : feed[x][i].status = "mined" => MinedTrue(TxOf(x))
        /\ lastStatus[x] = "mined" => MinedTrue(TxOf(x))

StoreInv == AskedFirst /\ OneHasIt /\ OverIsOver /\ SomeoneWillSettle
TruthInv == NewsTrue /\ MinedIsTrue
IInv == TypeOK /\ TruthInv /\ StoreInv

----------------------------------------------------------------------------
(* Types *)

LEMMA TrackersOf ==
  /\ \A x \in Trackers : TxOf(x) \in Txs /\ x \in {<<"app", TxOf(x)>>, <<"boot", TxOf(x)>>}
  /\ \A t \in Txs : /\ <<"app", t>> \in Trackers /\ TxOf(<<"app", t>>) = t
                    /\ <<"boot", t>> \in Trackers /\ TxOf(<<"boot", t>>) = t
                    /\ <<"app", t>> # <<"boot", t>>
  BY DEF Trackers, TxOf

LEMMA Bounds ==
  /\ MaxAttempts \in Nat /\ MaxSent \in Nat /\ MaxCrashes \in Nat /\ MaxFailures \in Nat
  /\ None \notin Record /\ Hashes = 0..MaxSent /\ 0 \in Hashes
  BY BoundsAssumption DEF BoundsAssumption, Hashes

LEMMA Events ==
  /\ \A s \in InFlight \union Terminal : Status(s) \in Event /\ Status(s).status = s
  /\ \A h \in Hashes : /\ Replaced(h) \in Seq(Event) /\ Len(Replaced(h)) = 2
                       /\ Replaced(h)[1].status = "replaced" /\ Replaced(h)[2].status = "submitted"
  BY DEF Status, Replaced, Event, InFlight, Terminal

LEMMA InitTypeOK == Init => TypeOK
<1> SUFFICES ASSUME Init PROVE TypeOK
  OBVIOUS
<1>1. [kept |-> {}, pruned |-> {}] \in Loads /\ None \in Loads \union {None}
  BY DEF Loads
<1>2. loaded \in [Trackers -> Loads] /\ theirs \in Loads \union {None}
  BY <1>1 DEF Init, Nothing
<1>3. /\ phase \in [Trackers -> {"off", "starting", "waiting", "done"}]
      /\ feed \in [Trackers -> Seq(Event)]
      /\ place \in [Trackers -> {"off", "idle", "ended"} \union Storing]
      /\ lastStatus \in [Trackers -> InFlight \union Terminal] /\ shown \in [Trackers -> InFlight]
  BY DEF Init, InFlight
<1>4. /\ sent \in [Txs -> Hashes] /\ awaited \in [Trackers -> Hashes]
      /\ currentHash \in [Trackers -> Hashes] /\ attempts \in [Trackers -> 0..MaxAttempts]
      /\ crashes \in 0..MaxCrashes /\ failures \in 0..MaxFailures
  BY Bounds DEF Init
<1>5. /\ outcome \in [Txs -> Won \union {None}]
      /\ records \in [Txs -> Record \union {None}]
      /\ asked \subseteq Txs /\ booted \in BOOLEAN /\ index \subseteq Txs /\ lost \subseteq Txs
      /\ doubled \subseteq Txs
  BY DEF Init
<1> QED
  BY <1>2, <1>3, <1>4, <1>5 DEF TypeOK

LEMMA MineTypeOK ==
  ASSUME TypeOK, NEW t \in Txs, Mine(t)
  PROVE  TypeOK'
<1>1. PICK h \in 0..sent[t], ok \in BOOLEAN : outcome' = [outcome EXCEPT ![t] = [hash |-> h, ok |-> ok]]
  BY DEF Mine
<1>2. h \in Hashes
  BY Bounds DEF TypeOK
<1>3. outcome' \in [Txs -> Won \union {None}]
  BY <1>1, <1>2 DEF TypeOK, Won
<1> QED
  BY <1>3 DEF TypeOK, Mine, trackVars, fiberVars, storeVars, lossVars

LEMMA TrackerTypeOK ==
  ASSUME TypeOK, NEW x \in Trackers,
         Pending(x) \/ AutoReplace(x) \/ Receipt(x) \/ ReceiptFails(x)
  PROVE  TypeOK'
<1>1. TxOf(x) \in Txs /\ feed[x] \in Seq(Event)
  BY TrackersOf DEF TypeOK
<1>2. CASE Pending(x)
  <2>1. feed' \in [Trackers -> Seq(Event)]
    BY <1>1, <1>2, Events DEF Pending, Emit, TypeOK, InFlight
  <2>2. shown' \in [Trackers -> InFlight]
    BY <1>2 DEF Pending, TypeOK, InFlight
  <2> QED
    BY <1>2, <2>1, <2>2 DEF Pending, TypeOK, chainVars, fiberVars, storeVars, lossVars
<1>3. CASE AutoReplace(x)
  <2>1. sent[TxOf(x)] + 1 \in Hashes
    BY <1>1, <1>3, Bounds DEF AutoReplace, TypeOK
  <2>2. sent' \in [Txs -> Hashes]
    BY <1>1, <1>3, <2>1 DEF AutoReplace, TypeOK
  <2>3. feed' \in [Trackers -> Seq(Event)]
    <3>1. CASE feed' = feed
      BY <3>1 DEF TypeOK
    <3>2. CASE Emit(x, Replaced(sent[TxOf(x)] + 1))
      BY <1>1, <2>1, <3>2, Events DEF Emit, TypeOK
    <3> QED
      BY <1>3, <3>1, <3>2 DEF AutoReplace
  <2>4. shown' \in [Trackers -> InFlight]
    BY <1>3 DEF AutoReplace, TypeOK, InFlight
  <2>5. attempts' \in [Trackers -> 0..MaxAttempts]
    <3>1. attempts \in [Trackers -> 0..MaxAttempts] /\ attempts[x] + 1 \in 0..MaxAttempts
      BY <1>3, Bounds DEF AutoReplace, TypeOK
    <3>2. attempts' = [attempts EXCEPT ![x] = @ + 1] \/ attempts' = attempts
      BY <1>3 DEF AutoReplace
    <3> QED
      BY <3>1, <3>2
  <2> QED
    BY <1>3, <2>2, <2>3, <2>4, <2>5 DEF AutoReplace, TypeOK, fiberVars, storeVars, lossVars
<1>4. ASSUME NEW events \in Seq(Event), NEW status \in Terminal, Done(x, events, status)
      PROVE  TypeOK'
  <2>1. Append(events, Status(status)) \in Seq(Event)
    BY Events
  <2>2. feed' \in [Trackers -> Seq(Event)]
    BY <1>1, <1>4, <2>1 DEF Done, Emit, TypeOK
  <2>3. /\ phase' \in [Trackers -> {"off", "starting", "waiting", "done"}]
        /\ awaited' \in [Trackers -> Hashes] /\ attempts' \in [Trackers -> 0..MaxAttempts]
        /\ shown' \in [Trackers -> InFlight]
    BY <1>4, Bounds DEF Done, TypeOK, InFlight
  <2> QED
    BY <1>4, <2>2, <2>3 DEF Done, TypeOK, chainVars, fiberVars, storeVars, lossVars
<1>5. CASE Receipt(x)
  <2> DEFINE won == outcome[TxOf(x)]
             events == IF won.hash = awaited[x] THEN <<>> ELSE Replaced(won.hash)
  <2>1. Done(x, events, ReceiptStatus(won.ok)) /\ won # None
    BY <1>5 DEF Receipt
  <2>2. won.hash \in Hashes
    BY <1>1, <2>1 DEF TypeOK, Won
  <2>3. events \in Seq(Event)
    BY <2>2, Events
  <2>4. ReceiptStatus(won.ok) \in Terminal
    BY DEF ReceiptStatus, Terminal
  <2> HIDE DEF events, won
  <2> QED
    BY <1>4, <2>1, <2>3, <2>4
<1>6. CASE ReceiptFails(x)
  <2>1. Done(x, <<>>, "failed") /\ "failed" \in Terminal /\ <<>> \in Seq(Event)
    BY <1>6 DEF ReceiptFails, Terminal
  <2> QED
    BY <1>4, <2>1
<1> QED
  BY <1>2, <1>3, <1>5, <1>6

(* An upsert that is over, done or failed. *)
LEMMA ResumeTypes ==
  ASSUME TypeOK, NEW x \in Trackers, Resume(x)
  PROVE  /\ place' \in [Trackers -> {"off", "idle", "ended"} \union Storing]
         /\ lastStatus' \in [Trackers -> InFlight \union Terminal]
         /\ currentHash' \in [Trackers -> Hashes] /\ loaded' \in [Trackers -> Loads]
         /\ phase' \in [Trackers -> {"off", "starting", "waiting", "done"}]
         /\ feed' \in [Trackers -> Seq(Event)]
<1>1. place' \in [Trackers -> {"off", "idle", "ended"} \union Storing]
  BY DEF Resume, TypeOK
<1>2. lastStatus' \in [Trackers -> InFlight \union Terminal]
  BY DEF Resume, TypeOK, InFlight
<1>3. currentHash' \in [Trackers -> Hashes] /\ loaded' \in [Trackers -> Loads]
  BY Bounds DEF Resume, TypeOK, Nothing, Loads
<1>4. phase' \in [Trackers -> {"off", "starting", "waiting", "done"}]
  BY DEF Resume, Track, TypeOK
<1>5. feed' \in [Trackers -> Seq(Event)]
  <2>1. <<Status("submitted")>> \in Seq(Event)
    BY Events DEF InFlight
  <2> QED
    BY <2>1 DEF Resume, Track, TypeOK
<1> QED
  BY <1>1, <1>2, <1>3, <1>4, <1>5

LEMMA RecordsRemovedTypes ==
  ASSUME TypeOK, NEW gone, records' = [t \in Txs |-> IF t \in gone THEN None ELSE records[t]]
  PROVE  records' \in [Txs -> Record \union {None}]
  BY DEF TypeOK

LEMMA LoadsTypes ==
  ASSUME NEW listed \in SUBSET Txs, NEW l \in LoadedFrom(listed)
  PROVE  l \in Loads /\ \A t \in l.pruned : records[t].status \in Terminal /\ t \in listed
  BY DEF LoadedFrom, MayGo, Loads

LEMMA FiberTypeOK ==
  ASSUME TypeOK, NEW x \in Trackers, FiberStep(x) \/ StorageFails(x)
  PROVE  TypeOK'
<1>1. TxOf(x) \in Txs
  BY TrackersOf
<1>2. CASE Take(x)
  <2>1. feed[x] \in Seq(Event) /\ feed[x] # <<>>
    BY <1>2 DEF Take, TypeOK
  <2>2. Head(feed[x]) \in Event /\ Tail(feed[x]) \in Seq(Event)
    BY <2>1
  <2>3. feed' \in [Trackers -> Seq(Event)]
    BY <1>2, <2>2 DEF Take, TypeOK
  <2>4. place' \in [Trackers -> {"off", "idle", "ended"} \union Storing]
    BY <1>2 DEF Take, TypeOK, Storing
  <2>5. lastStatus' \in [Trackers -> InFlight \union Terminal]
    BY <1>2, <2>2 DEF Take, TypeOK, Event
  <2>6. currentHash' \in [Trackers -> Hashes]
    <3> DEFINE e == Head(feed[x])
    <3>1. e.status = "replaced" => e.new \in Hashes
      BY <2>2 DEF Event, InFlight, Terminal
    <3> HIDE DEF e
    <3>2. \/ currentHash' = [currentHash EXCEPT ![x] = e.new] /\ e.status = "replaced"
          \/ currentHash' = currentHash
      BY <1>2 DEF Take, e
    <3> QED
      BY <3>1, <3>2 DEF TypeOK
  <2> QED
    BY <1>2, <2>3, <2>4, <2>5, <2>6 DEF Take, TypeOK, chainVars, storeVars, lossVars
<1>3. CASE WriteTx(x)
  <2>1. [status |-> lastStatus[x], hash |-> currentHash[x]] \in Record
    BY DEF TypeOK, Record
  <2>2. records' \in [Txs -> Record \union {None}]
    BY <1>1, <1>3, <2>1 DEF WriteTx, TypeOK
  <2>3. place' \in [Trackers -> {"off", "idle", "ended"} \union Storing]
    BY <1>3 DEF WriteTx, TypeOK, Storing
  <2> QED
    BY <1>3, <2>2, <2>3 DEF WriteTx, TypeOK, chainVars, trackVars, lossVars
<1>4. CASE LoadAll(x)
  <2> DEFINE listed == {t \in index \union {TxOf(x)} : records[t] # None}
  <2>1. listed \in SUBSET Txs
    BY <1>1 DEF TypeOK
  <2>2. index' = listed /\ \E l \in LoadedFrom(listed) : loaded' = [loaded EXCEPT ![x] = l]
    BY <1>4 DEF LoadAll
  <2> HIDE DEF listed
  <2>3. loaded' \in [Trackers -> Loads] /\ index' \subseteq Txs
    <3>1. PICK l \in LoadedFrom(listed) : loaded' = [loaded EXCEPT ![x] = l]
      BY <2>2
    <3>2. l \in Loads
      BY <2>1, LoadsTypes
    <3> QED
      BY <2>1, <2>2, <3>1, <3>2 DEF TypeOK
  <2>4. place' \in [Trackers -> {"off", "idle", "ended"} \union Storing]
    BY <1>4 DEF LoadAll, TypeOK, Storing
  <2> QED
    BY <1>4, <2>3, <2>4 DEF LoadAll, TypeOK, chainVars, trackVars, lossVars
<1>5. CASE Prune(x)
  <2>1. Resume(x) /\ Written(loaded[x]) /\ loaded[x] \in Loads
    BY <1>5 DEF Prune, TypeOK
  <2>2. /\ records' \in [Txs -> Record \union {None}]
        /\ index' \subseteq Txs
    BY <2>1, RecordsRemovedTypes DEF Written, Loads
  <2> QED
    BY <1>5, <2>1, <2>2, ResumeTypes DEF Prune, TypeOK, chainVars, lossVars
<1>6. CASE StorageFails(x)
  <2>1. Resume(x)
    BY <1>6 DEF StorageFails
  <2>2. records' \in [Txs -> Record \union {None}]
    BY <1>6, RecordsRemovedTypes DEF StorageFails
  <2>3. index' \subseteq Txs /\ lost' \subseteq Txs
    BY <1>1, <1>6 DEF StorageFails, TypeOK
  <2>4. failures' \in 0..MaxFailures
    BY <1>6, Bounds DEF StorageFails, TypeOK
  <2> QED
    BY <1>6, <2>1, <2>2, <2>3, <2>4, ResumeTypes DEF StorageFails, TypeOK, chainVars
<1> QED
  BY <1>2, <1>3, <1>4, <1>5, <1>6 DEF FiberStep

LEMMA SessionTypeOK ==
  ASSUME TypeOK, (\E t \in Txs : TrackAndPersist(t)) \/ TabLoads \/ TabWrites \/ Boot \/ Crash
  PROVE  TypeOK'
<1>1. ASSUME NEW t \in Txs, TrackAndPersist(t) PROVE TypeOK'
  <2>1. /\ phase' \in [Trackers -> {"off", "starting", "waiting", "done"}]
        /\ place' \in [Trackers -> {"off", "idle", "ended"} \union Storing] /\ asked' \subseteq Txs
    BY <1>1 DEF TrackAndPersist, TypeOK, Storing
  <2> QED
    BY <1>1, <2>1 DEF TrackAndPersist, TypeOK, chainVars, storeVars, lossVars
<1>2. CASE TabLoads
  <2>1. Listed \in SUBSET Txs
    BY DEF Listed, TypeOK
  <2>2. theirs' \in Loads
    BY <1>2, <2>1, LoadsTypes DEF TabLoads
  <2> QED
    BY <1>2, <2>2 DEF TabLoads, TypeOK, chainVars, trackVars, fiberVars, lossVars
<1>3. CASE TabWrites
  <2>1. theirs \in Loads /\ Written(theirs) /\ theirs' = None
    BY <1>3 DEF TabWrites, TypeOK
  <2>2. /\ records' \in [Txs -> Record \union {None}]
        /\ index' \subseteq Txs
    BY <2>1, RecordsRemovedTypes DEF Written, Loads
  <2> QED
    BY <1>3, <2>1, <2>2 DEF TabWrites, TypeOK, chainVars, trackVars, fiberVars, lossVars
<1>4. CASE Boot
  <2> DEFINE xs == {"boot"} \X {t \in Listed : records[t].status \in InFlight}
  <2>1. Listed \in SUBSET Txs /\ \A t \in Listed : records[t] # None
    BY DEF Listed, TypeOK
  <2>2. \A x \in xs : /\ TxOf(x) \in Txs /\ records[TxOf(x)].hash \in Hashes
                      /\ records[TxOf(x)].status \in InFlight
    BY <2>1 DEF TxOf, TypeOK, Record
  <2>3. <<Status("submitted")>> \in Seq(Event)
    BY Events DEF InFlight
  <2>4. /\ booted' = TRUE /\ Track(xs) /\ index' = Listed
        /\ place' = [x \in Trackers |-> IF x \in xs THEN "idle" ELSE place[x]]
        /\ awaited' = [x \in Trackers |-> IF x \in xs THEN records[TxOf(x)].hash ELSE awaited[x]]
        /\ currentHash' =
             [x \in Trackers |-> IF x \in xs THEN records[TxOf(x)].hash ELSE currentHash[x]]
        /\ lastStatus' =
             [x \in Trackers |-> IF x \in xs THEN records[TxOf(x)].status ELSE lastStatus[x]]
        /\ doubled' \subseteq doubled \union Listed
        /\ UNCHANGED <<chainVars, asked, crashes, attempts, shown, loaded, records, theirs, failures, lost>>
    BY <1>4 DEF Boot
  <2> HIDE DEF xs
  <2>5. /\ feed' \in [Trackers -> Seq(Event)]
        /\ phase' \in [Trackers -> {"off", "starting", "waiting", "done"}]
    BY <2>3, <2>4 DEF Track, TypeOK
  <2>6. /\ place' \in [Trackers -> {"off", "idle", "ended"} \union Storing]
        /\ awaited' \in [Trackers -> Hashes] /\ currentHash' \in [Trackers -> Hashes]
    BY <2>2, <2>4 DEF TypeOK
  <2>7. lastStatus' \in [Trackers -> InFlight \union Terminal]
    BY <2>2, <2>4 DEF TypeOK
  <2>8. booted' \in BOOLEAN /\ index' \subseteq Txs /\ doubled' \subseteq Txs
    BY <2>1, <2>4 DEF TypeOK
  <2> QED
    BY <2>4, <2>5, <2>6, <2>7, <2>8 DEF TypeOK, chainVars
<1>5. CASE Crash
  <2>1. Nothing \in Loads
    BY DEF Nothing, Loads
  <2>2. loaded' \in [Trackers -> Loads] /\ feed' \in [Trackers -> Seq(Event)]
    BY <1>5, <2>1 DEF Crash
  <2>3. /\ phase' \in [Trackers -> {"off", "starting", "waiting", "done"}]
        /\ place' \in [Trackers -> {"off", "idle", "ended"} \union Storing]
        /\ lastStatus' \in [Trackers -> InFlight \union Terminal]
        /\ shown' \in [Trackers -> InFlight] /\ booted' \in BOOLEAN
    BY <1>5 DEF Crash, InFlight
  <2>4. /\ awaited' \in [Trackers -> Hashes] /\ currentHash' \in [Trackers -> Hashes]
        /\ attempts' \in [Trackers -> 0..MaxAttempts] /\ crashes' \in 0..MaxCrashes
    BY <1>5, Bounds DEF Crash, TypeOK
  <2> QED
    BY <1>5, <2>2, <2>3, <2>4 DEF Crash, TypeOK, chainVars, storeVars, lossVars
<1> QED
  BY <1>1, <1>2, <1>3, <1>4, <1>5

(* Every variable holds what the code may put there. *)
THEOREM TypeCorrect == Spec => []TypeOK
<1>1. TypeOK /\ [Next]_vars => TypeOK'
  <2> SUFFICES ASSUME TypeOK, [Next]_vars PROVE TypeOK'
    OBVIOUS
  <2>1. CASE UNCHANGED vars
    BY <2>1 DEF TypeOK, vars, chainVars, trackVars, fiberVars, storeVars, lossVars
  <2> QED
    BY <2>1, MineTypeOK, TrackerTypeOK, FiberTypeOK, SessionTypeOK DEF Next
<1> QED
  BY <1>1, InitTypeOK, PTL DEF Spec

----------------------------------------------------------------------------
(* What happened: a fiber has only heard of a receipt that the chain gave. *)

LEMMA InitTruth == Init => TruthInv
  BY DEF Init, TruthInv, NewsTrue, MinedIsTrue

(* A step that changes neither what was mined, nor the records but to remove
   them, and gives a fiber nothing but what it had or what is in flight. *)
LEMMA TruthKept ==
  ASSUME TypeOK, TruthInv, UNCHANGED outcome,
         \A x \in Trackers : /\ \A i \in DOMAIN feed'[x] : feed'[x][i].status = "mined" =>
                                  \E j \in DOMAIN feed[x] : feed[x][j].status = "mined"
                             /\ lastStatus'[x] = "mined" => lastStatus[x] = "mined",
         \A t \in Txs : records'[t] \in {None, records[t]}
  PROVE  TruthInv'
  BY DEF TruthInv, NewsTrue, MinedIsTrue, MinedTrue

LEMMA EmitKeepsTruth ==
  ASSUME TypeOK, NEW x \in Trackers, NEW events \in Seq(Event), Emit(x, events)
  PROVE  /\ \A y \in Trackers \ {x} : feed'[y] = feed[y]
         /\ \A i \in DOMAIN feed'[x] :
              \/ \E j \in DOMAIN feed[x] : feed[x][j] = feed'[x][i]
              \/ \E j \in DOMAIN events : events[j] = feed'[x][i]
<1>1. feed' = [feed EXCEPT ![x] = feed[x] \o events] /\ feed[x] \in Seq(Event)
  BY DEF Emit, TypeOK
<1>2. feed'[x] = feed[x] \o events /\ \A y \in Trackers \ {x} : feed'[y] = feed[y]
  BY <1>1 DEF TypeOK
<1>3. ASSUME NEW i \in DOMAIN (feed[x] \o events)
      PROVE  \/ \E j \in DOMAIN feed[x] : feed[x][j] = (feed[x] \o events)[i]
             \/ \E j \in DOMAIN events : events[j] = (feed[x] \o events)[i]
  <2>1. CASE i <= Len(feed[x])
    BY <1>1, <2>1
  <2>2. CASE i > Len(feed[x])
    <3>1. i - Len(feed[x]) \in DOMAIN events /\ events[i - Len(feed[x])] = (feed[x] \o events)[i]
      BY <1>1, <2>2
    <3> QED
      BY <3>1
  <2> QED
    BY <1>1, <2>1, <2>2
<1> QED
  BY <1>2, <1>3

LEMMA TrackerTruth ==
  ASSUME TypeOK, TruthInv, NEW x \in Trackers,
         Pending(x) \/ AutoReplace(x) \/ Receipt(x) \/ ReceiptFails(x)
  PROVE  TruthInv'
<1>1. TxOf(x) \in Txs
  BY TrackersOf
<1>2. UNCHANGED <<outcome, lastStatus, records>>
  BY DEF Pending, AutoReplace, Receipt, ReceiptFails, Done, chainVars, fiberVars, storeVars
<1>3. ASSUME NEW events \in Seq(Event), Emit(x, events),
             \A i \in DOMAIN events : events[i].status = "mined" => MinedTrue(TxOf(x))
      PROVE  TruthInv'
  <2>1. /\ \A y \in Trackers \ {x} : feed'[y] = feed[y]
        /\ \A i \in DOMAIN feed'[x] :
              \/ \E j \in DOMAIN feed[x] : feed[x][j] = feed'[x][i]
              \/ \E j \in DOMAIN events : events[j] = feed'[x][i]
    BY <1>3, EmitKeepsTruth
  <2> QED
    BY <1>2, <1>3, <2>1 DEF TruthInv, NewsTrue, MinedIsTrue, MinedTrue
<1>4. CASE UNCHANGED feed
  BY <1>2, <1>4 DEF TruthInv, NewsTrue, MinedIsTrue, MinedTrue
<1>5. CASE Pending(x)
  <2>1. Emit(x, <<Status("pending")>>)
    BY <1>5 DEF Pending
  <2>2. <<Status("pending")>> \in Seq(Event) /\ Status("pending").status = "pending"
    BY Events DEF InFlight
  <2> QED
    BY <1>3, <2>1, <2>2
<1>6. CASE AutoReplace(x) /\ Emit(x, Replaced(sent[TxOf(x)] + 1))
  <2> DEFINE events == Replaced(sent[TxOf(x)] + 1)
  <2>1. sent[TxOf(x)] + 1 \in Hashes
    BY <1>1, <1>6, Bounds DEF AutoReplace, TypeOK
  <2>2. /\ events \in Seq(Event) /\ Len(events) = 2
        /\ events[1].status = "replaced" /\ events[2].status = "submitted"
    BY <2>1, Events
  <2> HIDE DEF events
  <2>3. \A i \in DOMAIN events : events[i].status # "mined"
    BY <2>2
  <2> QED
    BY <1>3, <1>6, <2>2, <2>3 DEF events
<1>7. ASSUME NEW events \in Seq(Event), NEW status \in Terminal, Done(x, events, status),
             \A i \in DOMAIN events : events[i].status # "mined",
             status = "mined" => MinedTrue(TxOf(x))
      PROVE  TruthInv'
  <2> DEFINE all == Append(events, Status(status))
  <2>1. Status(status) \in Event /\ Status(status).status = status
    BY Events
  <2>2. all \in Seq(Event) /\ \A i \in DOMAIN all : all[i] # Status(status) => \E j \in DOMAIN events : events[j] = all[i]
    <3> DEFINE last == Status(status)
    <3> HIDE DEF last
    <3>1. /\ Append(events, last) \in Seq(Event) /\ DOMAIN events = 1..Len(events)
          /\ DOMAIN Append(events, last) = 1..Len(events) + 1 /\ Len(events) \in Nat
          /\ \A i \in 1..Len(events) : Append(events, last)[i] = events[i]
          /\ Append(events, last)[Len(events) + 1] = last
      BY <2>1 DEF last
    <3>2. \A i \in 1..Len(events) + 1 : i \in 1..Len(events) \/ i = Len(events) + 1
      BY <3>1
    <3> QED
      BY <3>1, <3>2 DEF last
  <2>3. Emit(x, all)
    BY <1>7 DEF Done
  <2> HIDE DEF all
  <2> QED
    BY <1>3, <1>7, <2>1, <2>2, <2>3
<1>8. CASE Receipt(x)
  <2> DEFINE won == outcome[TxOf(x)]
             events == IF won.hash = awaited[x] THEN <<>> ELSE Replaced(won.hash)
  <2>1. Done(x, events, ReceiptStatus(won.ok)) /\ won # None
    BY <1>8 DEF Receipt
  <2>2. won.hash \in Hashes
    BY <1>1, <2>1 DEF TypeOK, Won
  <2>3. events \in Seq(Event) /\ \A i \in DOMAIN events : events[i].status # "mined"
    <3>1. Replaced(won.hash) \in Seq(Event) /\ \A i \in DOMAIN Replaced(won.hash) : Replaced(won.hash)[i].status # "mined"
      <4> DEFINE both == Replaced(won.hash)
      <4>1. /\ both \in Seq(Event) /\ Len(both) = 2
            /\ both[1].status = "replaced" /\ both[2].status = "submitted"
        BY <2>2, Events
      <4> HIDE DEF both
      <4> QED
        BY <4>1 DEF both
    <3> QED
      BY <3>1
  <2>4. ReceiptStatus(won.ok) \in Terminal /\ (ReceiptStatus(won.ok) = "mined" => MinedTrue(TxOf(x)))
    BY <2>1 DEF ReceiptStatus, Terminal, MinedTrue
  <2> HIDE DEF events, won
  <2> QED
    BY <1>7, <2>1, <2>3, <2>4
<1>9. CASE ReceiptFails(x)
  <2>1. Done(x, <<>>, "failed") /\ "failed" \in Terminal /\ <<>> \in Seq(Event)
    BY <1>9 DEF ReceiptFails, Terminal
  <2> DEFINE events == <<>>
  <2>2. \A i \in DOMAIN events : events[i].status # "mined"
    OBVIOUS
  <2> HIDE DEF events
  <2> QED
    BY <1>7, <2>1, <2>2 DEF events
<1> QED
  BY <1>4, <1>5, <1>6, <1>8, <1>9 DEF AutoReplace

LEMMA ResumeTells ==
  ASSUME TypeOK, NEW x \in Trackers, Resume(x)
  PROVE  \A y \in Trackers :
           /\ \A i \in DOMAIN feed'[y] : feed'[y][i].status = "mined" =>
                \E j \in DOMAIN feed[y] : feed[y][j].status = "mined"
           /\ lastStatus'[y] = "mined" => lastStatus[y] = "mined"
<1>1. \A y \in Trackers : lastStatus'[y] \in {"submitted", lastStatus[y]}
  BY DEF Resume, TypeOK
<1>2. \A y \in Trackers : feed'[y] \in {<<Status("submitted")>>, feed[y]}
  BY DEF Resume, Track, TypeOK
<1>3. Status("submitted").status = "submitted"
  BY DEF Status
<1> QED
  BY <1>1, <1>2, <1>3

LEMMA FiberTruth ==
  ASSUME TypeOK, TruthInv, NEW x \in Trackers, FiberStep(x) \/ StorageFails(x)
  PROVE  TruthInv'
<1>1. UNCHANGED outcome /\ TxOf(x) \in Txs
  BY TrackersOf DEF FiberStep, Take, WriteTx, LoadAll, Prune, StorageFails, chainVars
<1>2. CASE Take(x)
  <2>1. feed[x] \in Seq(Event) /\ feed[x] # <<>>
    BY <1>2 DEF Take, TypeOK
  <2>2. /\ Head(feed[x]) = feed[x][1] /\ 1 \in DOMAIN feed[x]
        /\ \A i \in DOMAIN Tail(feed[x]) : i + 1 \in DOMAIN feed[x] /\ Tail(feed[x])[i] = feed[x][i + 1]
    BY <2>1
  <2>3. feed' = [feed EXCEPT ![x] = Tail(feed[x])] /\ UNCHANGED records
    BY <1>2 DEF Take, storeVars
  <2>4. \A y \in Trackers : \A i \in DOMAIN feed'[y] : feed'[y][i].status = "mined" =>
          \E j \in DOMAIN feed[y] : feed[y][j].status = "mined"
    BY <2>2, <2>3 DEF TypeOK
  <2>5. \A y \in Trackers : lastStatus'[y] = "mined" =>
          lastStatus[y] = "mined" \/ (y = x /\ Head(feed[x]).status = "mined")
    <3>1. \/ lastStatus' = lastStatus
          \/ lastStatus' = [lastStatus EXCEPT ![x] = Head(feed[x]).status]
      BY <1>2 DEF Take
    <3> QED
      BY <3>1 DEF TypeOK
  <2> QED
    BY <1>1, <2>2, <2>3, <2>4, <2>5 DEF TruthInv, NewsTrue, MinedIsTrue, MinedTrue
<1>3. CASE WriteTx(x)
  <2>1. /\ records' = [records EXCEPT ![TxOf(x)] = [status |-> lastStatus[x], hash |-> currentHash[x]]]
        /\ UNCHANGED <<feed, lastStatus>>
    BY <1>3 DEF WriteTx, trackVars
  <2>2. \A t \in Txs \ {TxOf(x)} : records'[t] = records[t]
    BY <1>1, <2>1 DEF TypeOK
  <2>3. records'[TxOf(x)].status = lastStatus[x]
    BY <1>1, <2>1 DEF TypeOK
  <2> QED
    BY <1>1, <2>1, <2>2, <2>3 DEF TruthInv, NewsTrue, MinedIsTrue, MinedTrue
<1>4. CASE LoadAll(x)
  BY <1>1, <1>4 DEF LoadAll, trackVars, TruthInv, NewsTrue, MinedIsTrue, MinedTrue
<1>5. CASE Prune(x) \/ StorageFails(x)
  <2>1. Resume(x) /\ \A t \in Txs : records'[t] \in {None, records[t]}
    BY <1>5 DEF Prune, StorageFails, Written
  <2> QED
    BY <1>1, <2>1, ResumeTells, TruthKept
<1> QED
  BY <1>2, <1>3, <1>4, <1>5 DEF FiberStep

LEMMA SessionTruth ==
  ASSUME TypeOK, TruthInv,
         (\E t \in Txs : TrackAndPersist(t)) \/ TabLoads \/ TabWrites \/ Boot \/ Crash
  PROVE  TruthInv'
<1>1. UNCHANGED outcome
  BY DEF TrackAndPersist, TabLoads, TabWrites, Boot, Crash, chainVars
<1>2. CASE (\E t \in Txs : TrackAndPersist(t)) \/ TabLoads
  BY <1>1, <1>2 DEF TrackAndPersist, TabLoads, trackVars, fiberVars, storeVars,
                    TruthInv, NewsTrue, MinedIsTrue, MinedTrue
<1>3. CASE TabWrites
  <2>1. UNCHANGED <<feed, lastStatus>> /\ \A t \in Txs : records'[t] \in {None, records[t]}
    BY <1>3 DEF TabWrites, Written, trackVars, fiberVars
  <2> QED
    BY <1>1, <2>1, TruthKept
<1>4. CASE Boot
  <2> DEFINE xs == {"boot"} \X {t \in Listed : records[t].status \in InFlight}
  <2>1. /\ Track(xs) /\ UNCHANGED records
        /\ lastStatus' =
             [x \in Trackers |-> IF x \in xs THEN records[TxOf(x)].status ELSE lastStatus[x]]
    BY <1>4 DEF Boot
  <2>2. \A x \in xs : records[TxOf(x)].status \in InFlight
    BY DEF TxOf
  <2> HIDE DEF xs
  <2>3. \A x \in Trackers : feed'[x] \in {<<Status("submitted")>>, feed[x]}
    BY <2>1 DEF Track
  <2>4. Status("submitted").status = "submitted"
    BY DEF Status
  <2>5. \A x \in Trackers : lastStatus'[x] = "mined" => lastStatus[x] = "mined"
    BY <2>1, <2>2 DEF InFlight
  <2> QED
    BY <1>1, <2>1, <2>3, <2>4, <2>5, TruthKept
<1>5. CASE Crash
  <2>1. UNCHANGED records /\ \A x \in Trackers : feed'[x] = <<>> /\ lastStatus'[x] = "submitted"
    BY <1>5 DEF Crash, storeVars
  <2> QED
    BY <1>1, <2>1 DEF TruthInv, NewsTrue, MinedIsTrue, MinedTrue
<1> QED
  BY <1>2, <1>3, <1>4, <1>5

LEMMA NextTruth ==
  ASSUME TypeOK, TruthInv, [Next]_vars
  PROVE  TruthInv'
<1>1. CASE UNCHANGED vars
  BY <1>1 DEF TruthInv, NewsTrue, MinedIsTrue, MinedTrue, vars, chainVars, trackVars, fiberVars, storeVars
<1>2. ASSUME NEW t \in Txs, Mine(t) PROVE TruthInv'
  <2>1. outcome[t] = None /\ \A u \in Txs \ {t} : outcome'[u] = outcome[u]
    BY <1>2 DEF Mine, TypeOK
  <2>2. UNCHANGED <<feed, lastStatus, records>>
    BY <1>2 DEF Mine, trackVars, fiberVars, storeVars
  <2>3. \A u \in Txs : MinedTrue(u) => MinedTrue(u)'
    BY <2>1 DEF MinedTrue
  <2> QED
    BY <2>2, <2>3, TrackersOf DEF TruthInv, NewsTrue, MinedIsTrue, MinedTrue
<1> QED
  BY <1>1, <1>2, TrackerTruth, FiberTruth, SessionTruth DEF Next

----------------------------------------------------------------------------
(* Who may still write: nobody, once a record that one tracker has had is
   settled or about to be pruned. *)

LEMMA InitStore == Init => StoreInv
  BY TrackersOf DEF Init, StoreInv, AskedFirst, OneHasIt, OverIsOver, SomeoneWillSettle, Active, Open,
     Settled, Unsettled, Condemned, Nothing

(* A step that writes no record and starts no tracker: whoever is through with
   its own record was so before, or has lost it. *)
LEMMA StoreKept ==
  ASSUME StoreInv, UNCHANGED <<asked, doubled>>, lost \subseteq lost',
         \A y \in Trackers :
           /\ place'[y] # "off" => place[y] # "off"
           /\ Active(y)' => Active(y)
           /\ Open(y)' => Open(y)
           /\ Open(y) => Open(y)' \/ TxOf(y) \in lost'
           /\ place'[y] = "ended" \/ Through(y)' => place[y] = "ended" \/ Through(y) \/ TxOf(y) \in lost',
         \A t \in Txs : records'[t] \in {None, records[t]},
         \A t \in Txs : Condemned(t)' => Condemned(t) \/ Settled(t)
  PROVE  StoreInv'
<1>1. AskedFirst'
  BY DEF StoreInv, AskedFirst
<1>2. OneHasIt'
  BY DEF StoreInv, OneHasIt
<1>3. \A t \in Txs : (Settled(t)' => Settled(t)) /\ (Unsettled(t)' => Unsettled(t))
  BY DEF Settled, Unsettled
<1>4. OverIsOver'
  BY <1>3 DEF StoreInv, OverIsOver
<1>5. SomeoneWillSettle'
  BY <1>3 DEF StoreInv, SomeoneWillSettle
<1> QED
  BY <1>1, <1>2, <1>4, <1>5 DEF StoreInv

(* The same, where only one tracker moves. *)
LEMMA StoreKeptBy ==
  ASSUME StoreInv, NEW x \in Trackers, UNCHANGED <<asked, doubled, theirs>>, lost \subseteq lost',
         \A y \in Trackers \ {x} :
           place'[y] = place[y] /\ lastStatus'[y] = lastStatus[y] /\ loaded'[y] = loaded[y],
         place[x] # "off", Active(x),
         Open(x)' => Open(x), Open(x) => Open(x)' \/ TxOf(x) \in lost',
         place'[x] = "ended" \/ Through(x)' => Through(x) \/ TxOf(x) \in lost',
         \A t \in Txs : records'[t] \in {None, records[t]},
         \A t \in Txs : t \in loaded'[x].pruned => Condemned(t) \/ Settled(t)
  PROVE  StoreInv'
<1>1. \A y \in Trackers :
        /\ place'[y] # "off" => place[y] # "off"
        /\ Active(y)' => Active(y)
        /\ Open(y)' => Open(y)
        /\ Open(y) => Open(y)' \/ TxOf(y) \in lost'
        /\ place'[y] = "ended" \/ Through(y)' => place[y] = "ended" \/ Through(y) \/ TxOf(y) \in lost'
  <2> SUFFICES ASSUME NEW y \in Trackers
               PROVE  /\ place'[y] # "off" => place[y] # "off"
                      /\ Active(y)' => Active(y)
                      /\ Open(y)' => Open(y)
                      /\ Open(y) => Open(y)' \/ TxOf(y) \in lost'
                      /\ place'[y] = "ended" \/ Through(y)' =>
                           place[y] = "ended" \/ Through(y) \/ TxOf(y) \in lost'
    OBVIOUS
  <2>1. CASE y = x
    BY <2>1
  <2>2. CASE y # x
    BY <2>2 DEF Active, Open, Through
  <2> QED
    BY <2>1, <2>2
<1>2. \A t \in Txs : Condemned(t)' => Condemned(t) \/ Settled(t)
  BY DEF Condemned
<1> QED
  BY <1>1, <1>2, StoreKept

LEMMA TakeStore ==
  ASSUME TypeOK, StoreInv, NEW x \in Trackers, Take(x)
  PROVE  StoreInv'
<1>1. /\ place[x] = "idle" /\ place'[x] \in {"idle", "writing"}
      /\ \A y \in Trackers \ {x} : place'[y] = place[y] /\ lastStatus'[y] = lastStatus[y]
  BY DEF Take, TypeOK
<1>2. UNCHANGED <<asked, loaded, records, theirs, lost, doubled>>
  BY DEF Take, storeVars, lossVars
<1>3. Active(x) /\ Open(x) /\ Open(x)' /\ ~Through(x)'
  BY <1>1 DEF Active, Open, Through
<1>4. \A t \in Txs : t \in loaded'[x].pruned => Condemned(t)
  BY <1>2 DEF Condemned
<1> QED
  BY <1>1, <1>2, <1>3, <1>4, StoreKeptBy

LEMMA LoadAllStore ==
  ASSUME TypeOK, StoreInv, NEW x \in Trackers, LoadAll(x)
  PROVE  StoreInv'
<1> DEFINE listed == {t \in index \union {TxOf(x)} : records[t] # None}
<1>1. PICK l \in LoadedFrom(listed) : loaded' = [loaded EXCEPT ![x] = l]
  BY DEF LoadAll
<1>2. listed \in SUBSET Txs /\ \A t \in listed : records[t] # None
  BY TrackersOf DEF TypeOK
<1> HIDE DEF listed
<1>3. \A t \in l.pruned : Settled(t)
  BY <1>2, LoadsTypes DEF Settled
<1>4. /\ place[x] = "indexing" /\ place'[x] = "pruning"
      /\ \A y \in Trackers \ {x} : place'[y] = place[y] /\ loaded'[y] = loaded[y]
      /\ loaded'[x] = l /\ UNCHANGED <<asked, lastStatus, records, theirs, lost, doubled>>
  BY <1>1 DEF LoadAll, TypeOK, lossVars
<1>5. Active(x) /\ (Open(x)' <=> Open(x)) /\ (Through(x)' <=> Through(x))
  BY <1>4 DEF Active, Open, Through
<1> QED
  BY <1>3, <1>4, <1>5, StoreKeptBy

(* The end of an upsert, done or failed, and what it may have pruned. *)
LEMMA ResumeStore ==
  ASSUME TypeOK, StoreInv, NEW x \in Trackers, place[x] \in Storing, Resume(x),
         UNCHANGED <<asked, doubled, theirs>>, lost \subseteq lost',
         place[x] = "writing" => TxOf(x) \in lost',
         \A t \in Txs : records'[t] \in {None, records[t]}
  PROVE  StoreInv'
<1>1. /\ \A y \in Trackers \ {x} :
           place'[y] = place[y] /\ lastStatus'[y] = lastStatus[y] /\ loaded'[y] = loaded[y]
      /\ loaded'[x] = Nothing
  BY DEF Resume, TypeOK
<1>2. Active(x) /\ place[x] # "off" /\ (~Open(x) => Through(x))
  BY DEF Active, Open, Storing
<1>3. \A t \in Txs : t \notin loaded'[x].pruned
  BY <1>1 DEF Nothing
<1>4. CASE lastStatus[x] \in Terminal
  <2>1. place'[x] = "ended"
    BY <1>4 DEF Resume, IsTerminal, TypeOK
  <2>2. ~Open(x)' /\ ~Through(x)'
    BY <2>1 DEF Open, Active, Through
  <2>3. Open(x) => TxOf(x) \in lost'
    BY <1>4 DEF Open, Active, Through, Storing
  <2> QED
    BY <1>1, <1>2, <1>3, <2>1, <2>2, <2>3, StoreKeptBy
<1>5. CASE lastStatus[x] \notin Terminal
  <2>1. place'[x] = "idle"
    BY <1>5 DEF Resume, IsTerminal, TypeOK
  <2>2. Open(x)' /\ Open(x) /\ ~Through(x)'
    BY <1>5, <2>1 DEF Open, Active, Through, Storing
  <2> QED
    BY <1>1, <1>2, <1>3, <2>1, <2>2, StoreKeptBy
<1> QED
  BY <1>4, <1>5

LEMMA UpsertEndsStore ==
  ASSUME TypeOK, StoreInv, NEW x \in Trackers, Prune(x) \/ StorageFails(x)
  PROVE  StoreInv'
<1>1. /\ place[x] \in Storing /\ Resume(x) /\ UNCHANGED <<asked, doubled, theirs>>
      /\ \A t \in Txs : records'[t] \in {None, records[t]}
  BY DEF Prune, StorageFails, Written, Storing, lossVars
<1>2. lost \subseteq lost' /\ (place[x] = "writing" => TxOf(x) \in lost')
  BY DEF Prune, StorageFails, lossVars
<1> QED
  BY <1>1, <1>2, ResumeStore

LEMMA WriteTxStore ==
  ASSUME TypeOK, StoreInv, NEW x \in Trackers, WriteTx(x)
  PROVE  StoreInv'
<1> DEFINE t == TxOf(x)
<1>1. /\ t \in Txs /\ place[x] = "writing" /\ place'[x] = "indexing"
      /\ \A y \in Trackers \ {x} : place'[y] = place[y]
      /\ UNCHANGED <<asked, lastStatus, loaded, theirs, lost, doubled>>
  BY TrackersOf DEF WriteTx, TypeOK, lossVars
<1>2. /\ records'[t] = [status |-> lastStatus[x], hash |-> currentHash[x]]
      /\ \A u \in Txs \ {t} : records'[u] = records[u]
      /\ records'[t] \in Record
  <2>1. [status |-> lastStatus[x], hash |-> currentHash[x]] \in Record
    BY DEF TypeOK, Record
  <2> QED
    BY <1>1, <2>1 DEF WriteTx, TypeOK
<1>3. /\ \A u \in Txs \ {t} : (Settled(u)' <=> Settled(u)) /\ (Unsettled(u)' <=> Unsettled(u))
      /\ \A u \in Txs : Condemned(u)' <=> Condemned(u)
  BY <1>1, <1>2 DEF Settled, Unsettled, Condemned
<1>4. records'[t] # None /\ records'[t].status = lastStatus[x]
  BY <1>2, Bounds
<1>5. Open(x) /\ Active(x) /\ Active(x)' /\ place[x] # "off" /\ (Through(x)' <=> lastStatus[x] \in Terminal)
  BY <1>1 DEF Open, Active, Through
<1>6. \A y \in Trackers \ {x} :
        (Open(y)' <=> Open(y)) /\ (Active(y)' <=> Active(y)) /\ (Through(y)' <=> Through(y))
  BY <1>1 DEF Open, Active, Through
<1>7. lastStatus[x] \in InFlight \union Terminal /\ InFlight \intersect Terminal = {}
  BY DEF TypeOK, InFlight, Terminal
<1>8. Open(x)' <=> lastStatus[x] \in InFlight
  BY <1>5, <1>7 DEF Open
<1> HIDE DEF t
<1>9. AskedFirst'
  <2>1. t \in asked
    BY <1>1 DEF StoreInv, AskedFirst, t
  <2> QED
    BY <1>1, <1>2, <2>1 DEF StoreInv, AskedFirst
<1>10. OneHasIt'
  BY <1>1, <1>5, <1>6 DEF StoreInv, OneHasIt
<1>11. OverIsOver'
  <2> SUFFICES ASSUME NEW u \in Txs \ doubled, Condemned(u)' \/ Settled(u)'
               PROVE  u \in asked' /\ ~Unsettled(u)' /\ \A y \in Trackers : TxOf(y) = u => ~Open(y)'
    BY <1>1 DEF OverIsOver
  <2>1. CASE u # t
    BY <1>1, <1>3, <1>6, <2>1 DEF StoreInv, OverIsOver, t
  <2>2. CASE u = t
    <3>1. ~Condemned(t) /\ t \in asked
      BY <1>1, <1>5, <2>2 DEF StoreInv, OverIsOver, AskedFirst, t
    <3>2. lastStatus[x] \in Terminal
      BY <1>3, <1>4, <2>2, <3>1, <1>1 DEF Settled
    <3>3. \A y \in Trackers \ {x} : TxOf(y) = t => ~Active(y)
      BY <1>5, <2>2 DEF StoreInv, OneHasIt, t
    <3> QED
      BY <1>1, <1>4, <1>6, <1>7, <1>8, <2>2, <3>1, <3>2, <3>3 DEF Unsettled, Open
  <2> QED
    BY <2>1, <2>2
<1>12. SomeoneWillSettle'
  <2> SUFFICES ASSUME NEW u \in Txs \ lost, Unsettled(u)', NEW z \in Trackers, TxOf(z) = u,
                      place'[z] = "ended" \/ Through(z)'
               PROVE  \E y \in Trackers : TxOf(y) = u /\ Open(y)'
    BY <1>1 DEF SomeoneWillSettle
  <2>1. CASE u # t
    BY <1>1, <1>3, <1>6, <2>1 DEF StoreInv, SomeoneWillSettle, t
  <2>2. CASE u = t
    BY <1>4, <1>8, <2>2 DEF Unsettled, t
  <2> QED
    BY <2>1, <2>2
<1> QED
  BY <1>9, <1>10, <1>11, <1>12 DEF StoreInv

LEMMA TrackAndPersistStore ==
  ASSUME TypeOK, StoreInv, NEW t \in Txs, TrackAndPersist(t)
  PROVE  StoreInv'
<1> DEFINE x == <<"app", t>>
<1>1. x \in Trackers /\ TxOf(x) = t
  BY TrackersOf
<1>2. /\ t \notin asked /\ asked' = asked \union {t} /\ place'[x] = "writing"
      /\ \A y \in Trackers \ {x} : place'[y] = place[y]
      /\ UNCHANGED <<lastStatus, loaded, records, theirs, lost, doubled>>
  BY <1>1 DEF TrackAndPersist, TypeOK, storeVars, lossVars
<1> HIDE DEF x
<1>3. records[t] = None /\ \A y \in Trackers : TxOf(y) = t => place[y] = "off"
  BY <1>2 DEF StoreInv, AskedFirst
<1>4. Open(x)' /\ Active(x)' /\ ~Through(x)'
  BY <1>2 DEF Open, Active, Through
<1>5. \A y \in Trackers \ {x} :
        (Open(y)' <=> Open(y)) /\ (Active(y)' <=> Active(y)) /\ (Through(y)' <=> Through(y))
  BY <1>2 DEF Open, Active, Through
<1>6. \A u \in Txs : /\ Settled(u)' <=> Settled(u)
                     /\ Unsettled(u)' <=> Unsettled(u)
                     /\ Condemned(u)' <=> Condemned(u)
  BY <1>2 DEF Settled, Unsettled, Condemned
<1>7. AskedFirst'
  BY <1>1, <1>2 DEF StoreInv, AskedFirst
<1>8. OneHasIt'
  <2>1. \A y \in Trackers \ {x} : TxOf(y) = t => ~Active(y)'
    BY <1>3, <1>5 DEF Active
  <2> QED
    BY <1>1, <1>2, <1>5, <2>1 DEF StoreInv, OneHasIt
<1>9. OverIsOver'
  BY <1>1, <1>2, <1>5, <1>6 DEF StoreInv, OverIsOver
<1>10. SomeoneWillSettle'
  BY <1>1, <1>2, <1>3, <1>4, <1>5, <1>6 DEF StoreInv, SomeoneWillSettle, Unsettled
<1> QED
  BY <1>7, <1>8, <1>9, <1>10 DEF StoreInv

LEMMA TabStore ==
  ASSUME TypeOK, StoreInv, TabLoads \/ TabWrites
  PROVE  StoreInv'
<1>1. UNCHANGED <<asked, doubled, lost, place, lastStatus, loaded>>
  BY DEF TabLoads, TabWrites, fiberVars, lossVars
<1>2. \A y \in Trackers :
        (Open(y)' <=> Open(y)) /\ (Active(y)' <=> Active(y)) /\ (Through(y)' <=> Through(y))
  BY <1>1 DEF Open, Active, Through
<1>3. CASE TabLoads
  <2>1. theirs' \in LoadedFrom(Listed) /\ UNCHANGED records
    BY <1>3 DEF TabLoads
  <2>2. Listed \in SUBSET Txs /\ \A t \in Listed : records[t] # None
    BY DEF Listed, TypeOK
  <2>3. \A t \in theirs'.pruned : Settled(t)
    BY <2>1, <2>2, LoadsTypes DEF Settled
  <2>4. \A t \in Txs : Condemned(t)' => Condemned(t) \/ Settled(t)
    BY <1>1, <2>3 DEF Condemned
  <2> QED
    BY <1>1, <1>2, <2>1, <2>4, StoreKept
<1>4. CASE TabWrites
  <2>1. theirs' = None /\ \A t \in Txs : records'[t] \in {None, records[t]}
    BY <1>4 DEF TabWrites, Written
  <2>2. \A t \in Txs : Condemned(t)' => Condemned(t)
    BY <1>1, <2>1 DEF Condemned
  <2> QED
    BY <1>1, <1>2, <2>1, <2>2, StoreKept
<1> QED
  BY <1>3, <1>4

LEMMA BootStore ==
  ASSUME TypeOK, StoreInv, Boot
  PROVE  StoreInv'
<1> DEFINE again == {t \in Listed : records[t].status \in InFlight}
           xs == {"boot"} \X again
<1>1. /\ place' = [x \in Trackers |-> IF x \in xs THEN "idle" ELSE place[x]]
      /\ lastStatus' =
           [x \in Trackers |-> IF x \in xs THEN records[TxOf(x)].status ELSE lastStatus[x]]
      /\ doubled' = doubled \union {t \in Listed : place[<<"app", t>>] \notin {"off", "ended"}}
      /\ UNCHANGED <<asked, loaded, records, theirs, lost>>
  BY DEF Boot
<1>2. again \subseteq Txs /\ again \subseteq Listed /\ \A t \in again : Unsettled(t)
  BY DEF Listed, Unsettled, TypeOK
<1>3. \A x \in Trackers : x \in xs <=> x = <<"boot", TxOf(x)>> /\ TxOf(x) \in again
  BY <1>2, TrackersOf DEF TxOf, Trackers
<1> HIDE DEF again, xs
<1>4. \A x \in xs : x \in Trackers => Open(x)' /\ Active(x)' /\ ~Through(x)' /\ place'[x] # "ended"
  BY <1>1 DEF Open, Active, Through
<1>10. \A x \in Trackers \ xs : place'[x] = place[x] /\ lastStatus'[x] = lastStatus[x]
  BY <1>1
<1>11. \A x \in Trackers \ xs : /\ Open(x)' <=> Open(x)
                                /\ Active(x)' <=> Active(x)
                                /\ Through(x)' <=> Through(x)
  BY <1>10 DEF Open, Active, Through
<1>5. \A u \in Txs : /\ Settled(u)' <=> Settled(u)
                     /\ Unsettled(u)' <=> Unsettled(u)
                     /\ Condemned(u)' <=> Condemned(u)
  BY <1>1 DEF Settled, Unsettled, Condemned
<1>6. AskedFirst'
  <2>1. \A t \in again : t \in asked
    BY <1>2 DEF StoreInv, AskedFirst, Unsettled
  <2> QED
    BY <1>1, <1>3, <1>4, <1>10, <1>11, <2>1 DEF StoreInv, AskedFirst
<1>7. OneHasIt'
  <2> SUFFICES ASSUME NEW t \in Txs \ doubled', NEW x \in Trackers, NEW y \in Trackers,
                      TxOf(x) = t, TxOf(y) = t, Active(x)', Active(y)'
               PROVE  x = y
    BY DEF OneHasIt
  <2>1. CASE t \notin again
    BY <1>1, <1>3, <1>4, <1>10, <1>11, <2>1 DEF StoreInv, OneHasIt
  <2>2. CASE t \in again
    <3>1. ~Active(<<"app", t>>)
      BY <1>1, <1>2, <2>2 DEF Active
    <3>2. <<"app", t>> \notin xs /\ <<"app", t>> \in Trackers
      BY <1>3, TrackersOf
    <3>3. ~Active(<<"app", t>>)'
      BY <1>4, <1>10, <1>11, <3>1, <3>2
    <3>4. x \in {<<"app", t>>, <<"boot", t>>} /\ y \in {<<"app", t>>, <<"boot", t>>}
      BY TrackersOf
    <3>5. x # <<"app", t>> /\ y # <<"app", t>>
      BY <3>3
    <3> QED
      BY <3>4, <3>5
  <2> QED
    BY <2>1, <2>2
<1>8. OverIsOver'
  <2> SUFFICES ASSUME NEW t \in Txs \ doubled', Condemned(t) \/ Settled(t)
               PROVE  t \in asked' /\ ~Unsettled(t)' /\ \A x \in Trackers : TxOf(x) = t => ~Open(x)'
    BY <1>5 DEF OverIsOver
  <2>1. t \in asked /\ ~Unsettled(t) /\ \A x \in Trackers : TxOf(x) = t => ~Open(x)
    BY <1>1 DEF StoreInv, OverIsOver
  <2>2. t \notin again
    BY <1>2, <2>1
  <2> QED
    BY <1>1, <1>3, <1>4, <1>10, <1>11, <1>5, <2>1, <2>2
<1>9. SomeoneWillSettle'
  <2> SUFFICES ASSUME NEW t \in Txs \ lost, Unsettled(t), NEW x \in Trackers, TxOf(x) = t,
                      place'[x] = "ended" \/ Through(x)'
               PROVE  \E y \in Trackers : TxOf(y) = t /\ Open(y)'
    BY <1>1, <1>5 DEF SomeoneWillSettle
  <2>1. place[x] = "ended" \/ Through(x)
    BY <1>4, <1>10, <1>11
  <2>2. PICK y \in Trackers : TxOf(y) = t /\ Open(y)
    BY <2>1 DEF StoreInv, SomeoneWillSettle
  <2> QED
    BY <1>4, <1>10, <1>11, <2>2
<1> QED
  BY <1>6, <1>7, <1>8, <1>9 DEF StoreInv

LEMMA CrashStore ==
  ASSUME TypeOK, StoreInv, Crash
  PROVE  StoreInv'
<1>1. /\ \A x \in Trackers : place'[x] = "off" /\ loaded'[x] = Nothing
      /\ UNCHANGED <<asked, records, theirs, lost, doubled>>
  BY DEF Crash, storeVars, lossVars
<1>2. \A x \in Trackers : ~Open(x)' /\ ~Active(x)' /\ ~Through(x)'
  BY <1>1 DEF Open, Active, Through
<1>3. \A u \in Txs : /\ Settled(u)' <=> Settled(u)
                     /\ Unsettled(u)' <=> Unsettled(u)
                     /\ Condemned(u)' => Condemned(u)
  BY <1>1 DEF Settled, Unsettled, Condemned, Nothing
<1>4. AskedFirst' /\ OneHasIt'
  BY <1>1, <1>2 DEF StoreInv, AskedFirst, OneHasIt
<1>5. OverIsOver' /\ SomeoneWillSettle'
  BY <1>1, <1>2, <1>3 DEF StoreInv, OverIsOver, SomeoneWillSettle
<1> QED
  BY <1>4, <1>5 DEF StoreInv

LEMMA NextStore ==
  ASSUME TypeOK, StoreInv, [Next]_vars
  PROVE  StoreInv'
<1>1. CASE UNCHANGED <<asked, place, lastStatus, loaded, records, theirs, lost, doubled>>
  BY <1>1 DEF StoreInv, AskedFirst, OneHasIt, OverIsOver, SomeoneWillSettle, Active, Open, Through,
     Settled, Unsettled, Condemned
<1>2. CASE UNCHANGED vars
  BY <1>1, <1>2 DEF vars, fiberVars, storeVars, lossVars
<1>3. ASSUME NEW t \in Txs, Mine(t) PROVE StoreInv'
  BY <1>1, <1>3 DEF Mine, fiberVars, storeVars, lossVars
<1>4. ASSUME NEW x \in Trackers, Pending(x) \/ AutoReplace(x) \/ Receipt(x) \/ ReceiptFails(x)
      PROVE  StoreInv'
  BY <1>1, <1>4 DEF Pending, AutoReplace, Receipt, ReceiptFails, Done, fiberVars, storeVars, lossVars
<1> QED
  BY <1>2, <1>3, <1>4, TakeStore, LoadAllStore, UpsertEndsStore, WriteTxStore, TrackAndPersistStore,
     TabStore, BootStore, CrashStore DEF Next, FiberStep

----------------------------------------------------------------------------
LEMMA Inductive == Spec => []IInv
<1>1. Init => IInv
  BY InitTypeOK, InitTruth, InitStore DEF IInv
<1>2. IInv /\ [Next]_vars => IInv'
  <2> SUFFICES ASSUME IInv, [Next]_vars PROVE IInv'
    OBVIOUS
  <2>1. TypeOK'
    <3>1. CASE UNCHANGED vars
      BY <3>1 DEF IInv, TypeOK, vars, chainVars, trackVars, fiberVars, storeVars, lossVars
    <3> QED
      BY <3>1, MineTypeOK, TrackerTypeOK, FiberTypeOK, SessionTypeOK DEF Next, IInv
  <2> QED
    BY <2>1, NextTruth, NextStore DEF IInv
<1> QED
  BY <1>1, <1>2, PTL DEF Spec

(* The records tell what happened: mined only of what was mined and not
   reverted, and settled once everybody who tracked it is through. *)
THEOREM RecordsTellTheTruth == Spec => []RecordsTrue
<1>1. IInv => RecordsTrue
  <2> SUFFICES ASSUME IInv PROVE SettledInTheEnd
    BY DEF RecordsTrue, IInv, TruthInv
  <2> SUFFICES ASSUME NEW t \in Txs \ lost, OverFor(t), records[t] # None
               PROVE  records[t].status \in Terminal
    BY DEF SettledInTheEnd
  <2>1. \A x \in Trackers : TxOf(x) = t => ~Open(x)
    BY DEF OverFor, Open, Active
  <2>2. ~Unsettled(t)
    BY <2>1 DEF OverFor, IInv, StoreInv, SomeoneWillSettle
  <2> QED
    BY <2>2 DEF Unsettled, IInv, TypeOK, Record
<1> QED
  BY <1>1, Inductive, PTL

(* A step that changes a record writes it, for a tracker that is not through,
   or removes one that was to be pruned. *)
LEMMA RecordsChange ==
  ASSUME TypeOK, [Next]_vars, NEW t \in Txs
  PROVE  \/ records'[t] = records[t]
         \/ records'[t] # None /\ \E x \in Trackers : TxOf(x) = t /\ Open(x)
         \/ records'[t] = None /\ Condemned(t)
<1>1. ASSUME NEW x \in Trackers, WriteTx(x), records'[t] # records[t]
      PROVE  records'[t] # None /\ TxOf(x) = t /\ Open(x)
  <2>1. t = TxOf(x) /\ records'[t] = [status |-> lastStatus[x], hash |-> currentHash[x]]
    BY <1>1 DEF WriteTx, TypeOK
  <2>2. [status |-> lastStatus[x], hash |-> currentHash[x]] \in Record
    BY DEF TypeOK, Record
  <2> QED
    BY <1>1, <2>1, <2>2, Bounds DEF WriteTx, Open, Active, Through
<1>2. ASSUME NEW x \in Trackers, Prune(x) \/ StorageFails(x)
      PROVE  records'[t] = records[t] \/ (records'[t] = None /\ t \in loaded[x].pruned)
  BY <1>2 DEF Prune, StorageFails, Written
<1>3. CASE TabWrites
  BY <1>3 DEF TabWrites, Written, Condemned
<1>4. CASE UNCHANGED records
  BY <1>4
<1>5. ASSUME NEW x \in Trackers,
             Pending(x) \/ AutoReplace(x) \/ Receipt(x) \/ ReceiptFails(x) \/ Take(x) \/ LoadAll(x)
      PROVE  UNCHANGED records
  BY <1>5 DEF Pending, AutoReplace, Receipt, ReceiptFails, Done, Take, LoadAll, storeVars
<1>6. ASSUME NEW u \in Txs, Mine(u) \/ TrackAndPersist(u) PROVE UNCHANGED records
  BY <1>6 DEF Mine, TrackAndPersist, storeVars
<1>7. CASE TabLoads \/ Boot \/ Crash \/ UNCHANGED vars
  BY <1>7 DEF TabLoads, Boot, Crash, vars, storeVars
<1> QED
  BY <1>1, <1>2, <1>3, <1>5, <1>6, <1>7 DEF Next, FiberStep, Condemned

(* What is stored of a transaction that one tracker has had is not reopened,
   nor pruned before its end. *)
THEOREM RecordsAreKept == Spec => RecordsKept
<1>1. IInv /\ [Next]_vars =>
        [\A t \in Txs \ doubled :
           records[t] # None /\ records[t].status \in Terminal
             => records'[t] = None \/ records'[t].status \in Terminal]_vars
  <2> SUFFICES ASSUME IInv, [Next]_vars, NEW t \in Txs \ doubled, Settled(t),
                      records'[t] # None
               PROVE  records'[t] = records[t]
    BY DEF Settled
  <2>1. \A x \in Trackers : TxOf(x) = t => ~Open(x)
    BY DEF IInv, StoreInv, OverIsOver
  <2> QED
    BY <2>1, RecordsChange DEF IInv
<1>2. IInv /\ [Next]_vars =>
        [\A t \in Txs \ doubled :
           records[t] # None /\ records[t].status \in InFlight => records'[t] # None]_vars
  <2> SUFFICES ASSUME IInv, [Next]_vars, NEW t \in Txs \ doubled, Unsettled(t)
               PROVE  records'[t] # None
    BY DEF Unsettled
  <2>1. ~Condemned(t)
    BY DEF IInv, StoreInv, OverIsOver
  <2> QED
    BY <2>1, RecordsChange DEF IInv, Unsettled
<1>3. Spec => StaysSettled
  BY <1>1, Inductive, PTL DEF Spec, StaysSettled
<1>4. Spec => InFlightSpared
  BY <1>2, Inductive, PTL DEF Spec, InFlightSpared
<1> QED
  BY <1>3, <1>4 DEF RecordsKept
=============================================================================
