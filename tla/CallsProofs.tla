---------------------------- MODULE CallsProofs ----------------------------
(***************************************************************************)
(* Proofs about QueryCache, ReadBatch, RpcGuards, Preflight and Fees.      *)
(***************************************************************************)
EXTENDS QueryCache, ReadBatch, RpcGuards, Preflight, Fees, SeqFilterProofs

----------------------------------------------------------------------------
(* Proofs about the sharing of reads in QueryCache: one reader at a time
   is at work on a key, and whoever waits has somebody to wait for.  They
   speak of leader, pc and key only, and hold whatever the cache, the
   invalidator and the node do. *)

Places == Resting \union Working

FlightTypeOK ==
    /\ leader \in [Keys -> Readers \union {None}]
    /\ pc \in [Readers -> Places]
    /\ key \in [Readers -> Keys \union {None}]

(* A query under way has a key. *)
WorkHasKey == \A r \in Readers : pc[r] \in Working => key[r] \in Keys

IdleHasKey == \A w \in Watchers : pc[w] = "idle" => key[w] \in Keys

IInv == FlightTypeOK /\ WorkHasKey /\ IdleHasKey /\ OneFlight /\ WaitersHaveLeader

flightVars == <<leader, pc, key>>

(* Whether a reader joins a read or makes it, the table stays right. *)
LEMMA MissKeepsIInv ==
    ASSUME IInv, NEW r \in Readers, NEW k \in Keys, pc[r] \notin Working, Miss(r, k)
    PROVE  IInv'
<1>1. CASE leader[k] = None /\ leader' = [leader EXCEPT ![k] = r] /\ pc' = [pc EXCEPT ![r] = "asked"]
  <2>1. key' = [key EXCEPT ![r] = k]
    BY DEF Miss
  <2>2. FlightTypeOK'
    BY <1>1, <2>1 DEF IInv, FlightTypeOK, Places, Working, Reading
  <2>3. WorkHasKey' /\ IdleHasKey'
    BY <1>1, <2>1, ValuesAssumption
    DEF IInv, FlightTypeOK, WorkHasKey, IdleHasKey, Working, Reading
  <2>4. OneFlight'
    BY <1>1, <2>1, ValuesAssumption
    DEF IInv, FlightTypeOK, OneFlight, Places, Working, Reading
  <2>5. WaitersHaveLeader'
    BY <1>1, <2>1, ValuesAssumption
    DEF IInv, FlightTypeOK, WaitersHaveLeader, WorkHasKey, Working, Reading
  <2> QED
    BY <2>2, <2>3, <2>4, <2>5 DEF IInv
<1>2. CASE leader[k] # None /\ pc' = [pc EXCEPT ![r] = "waiting"] /\ leader' = leader
  <2>1. key' = [key EXCEPT ![r] = k]
    BY DEF Miss
  <2>2. FlightTypeOK'
    BY <1>2, <2>1 DEF IInv, FlightTypeOK, Places, Working, Reading
  <2>3. WorkHasKey' /\ IdleHasKey'
    BY <1>2, <2>1, ValuesAssumption
    DEF IInv, FlightTypeOK, WorkHasKey, IdleHasKey, Working, Reading
  <2>4. OneFlight'
    BY <1>2, <2>1 DEF IInv, FlightTypeOK, OneFlight, Places, Working, Reading
  <2>5. WaitersHaveLeader'
    BY <1>2, <2>1 DEF IInv, FlightTypeOK, WaitersHaveLeader, WorkHasKey, Working, Reading
  <2> QED
    BY <2>2, <2>3, <2>4, <2>5 DEF IInv
<1> QED
  BY <1>1, <1>2 DEF Miss, Join

(* A cached value is returned without a place in the table. *)
LEMMA HitKeepsIInv ==
    ASSUME IInv, NEW r \in Readers, NEW k \in Keys, pc[r] \notin Working, Hit(r, k)
    PROVE  IInv'
<1>1. /\ leader' = leader
      /\ pc' = [pc EXCEPT ![r] = Place(r, "idle")]
      /\ key' = [key EXCEPT ![r] = IF r \in Watchers THEN k ELSE None]
  BY DEF Hit
<1>2. Place(r, "idle") = IF r \in Watchers THEN "idle" ELSE "new"
  BY DEF Place, Working, Reading
<1>3. FlightTypeOK'
  BY <1>1, <1>2 DEF IInv, FlightTypeOK, Places, Resting
<1>4. WorkHasKey' /\ IdleHasKey'
  BY <1>1, <1>2, ValuesAssumption
  DEF IInv, FlightTypeOK, WorkHasKey, IdleHasKey, Places, Resting, Working, Reading
<1>5. OneFlight'
  BY <1>1, <1>2 DEF IInv, FlightTypeOK, OneFlight, Places, Resting, Working, Reading
<1>6. WaitersHaveLeader'
  BY <1>1, <1>2 DEF IInv, FlightTypeOK, WaitersHaveLeader, Places, Resting, Working, Reading
<1> QED
  BY <1>3, <1>4, <1>5, <1>6 DEF IInv

LEMMA BeginKeepsIInv ==
    ASSUME IInv, NEW r \in Readers, NEW k \in Keys, pc[r] \notin Working, Begin(r, k)
    PROVE  IInv'
BY HitKeepsIInv, MissKeepsIInv DEF Begin

(* The leader's exit empties its row of the table and leaves nobody waiting. *)
LEMMA SettleKeepsIInv ==
    ASSUME IInv, NEW r \in Readers, pc[r] \in Reading,
           NEW place \in {"tagging", "ended"}, Settle(r, place)
    PROVE  IInv'
<1> DEFINE k == key[r]
<1>1. k \in Keys /\ leader[k] = r
  BY DEF IInv, OneFlight, WorkHasKey, Working
<1>2. leader' = [leader EXCEPT ![k] = None]
  BY DEF Settle
<1>3. Party(r) \subseteq Readers /\ \A q \in Party(r) : key[q] = k
  BY DEF Party
<1>4. \A q \in Readers : Place(q, place) \in {"tagging", "ended", "new"}
  BY DEF Place
<1>5. /\ pc' = [q \in Readers |-> IF q \in Party(r) THEN Place(q, place) ELSE pc[q]]
      /\ key' = [q \in Readers |->
                  IF q \in Party(r) /\ Place(q, place) \in {"new", "ended"} THEN None ELSE key[q]]
  BY DEF Settle, GoTo
<1>6. FlightTypeOK'
  <2>1. leader' \in [Keys -> Readers \union {None}]
    BY <1>1, <1>2 DEF IInv, FlightTypeOK
  <2>2. pc' \in [Readers -> Places]
    BY <1>4, <1>5 DEF IInv, FlightTypeOK, Places, Resting, Working
  <2>3. key' \in [Readers -> Keys \union {None}]
    BY <1>5 DEF IInv, FlightTypeOK
  <2> QED
    BY <2>1, <2>2, <2>3 DEF FlightTypeOK
<1>7. WorkHasKey'
  BY <1>3, <1>4, <1>5 DEF IInv, WorkHasKey, Working, Reading
<1>8. IdleHasKey'
  BY <1>3, <1>4, <1>5, ValuesAssumption DEF IInv, IdleHasKey
<1>9. OneFlight'
  <2> SUFFICES ASSUME NEW q \in Readers, NEW j \in Keys
               PROVE  leader'[j] = q <=> pc'[q] \in Reading /\ key'[q] = j
    BY DEF OneFlight
  <2>1. q \in Party(r) => pc'[q] \notin Reading
    BY <1>4, <1>5 DEF Reading
  <2>2. q \in Party(r) => leader'[j] # q
    BY <1>1, <1>2, ValuesAssumption DEF IInv, FlightTypeOK, OneFlight, Party, Reading
  <2>3. q \notin Party(r) => pc'[q] = pc[q] /\ key'[q] = key[q]
    BY <1>5
  <2>4. q \notin Party(r) => (leader'[j] = q <=> leader[j] = q)
    BY <1>1, <1>2, ValuesAssumption DEF IInv, FlightTypeOK, Party
  <2> QED
    BY <2>1, <2>2, <2>3, <2>4 DEF IInv, OneFlight
<1>10. WaitersHaveLeader'
  <2> SUFFICES ASSUME NEW q \in Readers, pc'[q] = "waiting" PROVE leader'[key'[q]] # None
    BY DEF WaitersHaveLeader
  <2>1. q \notin Party(r)
    BY <1>4, <1>5
  <2>2. pc[q] = "waiting" /\ key'[q] = key[q] /\ key[q] # k
    BY <1>5, <2>1 DEF Party
  <2>3. key[q] \in Keys /\ leader[key[q]] # None
    BY <2>2 DEF IInv, WaitersHaveLeader, WorkHasKey, Working
  <2> QED
    BY <1>1, <1>2, <2>2, <2>3 DEF IInv, FlightTypeOK
<1> QED
  BY <1>6, <1>7, <1>8, <1>9, <1>10 DEF IInv

(* A reader outside the table goes its way. *)
LEMMA LeaveKeepsIInv ==
    ASSUME IInv, NEW r \in Readers, pc[r] \in Working \ Reading,
           NEW place \in {"idle", "ended"}, GoTo({r}, place), leader' = leader
    PROVE  IInv'
<1>1. Place(r, place) = IF r \in Watchers THEN place ELSE "new"
  BY DEF Place, Working, Reading
<1>2. /\ pc' = [q \in Readers |-> IF q = r THEN Place(r, place) ELSE pc[q]]
      /\ key' = [q \in Readers |->
                  IF q = r /\ Place(r, place) \in {"new", "ended"} THEN None ELSE key[q]]
  BY DEF GoTo
<1>3. FlightTypeOK'
  BY <1>1, <1>2 DEF IInv, FlightTypeOK, Places, Resting
<1>4. WorkHasKey'
  BY <1>1, <1>2 DEF IInv, WorkHasKey, Working, Reading
<1>5. IdleHasKey'
  BY <1>1, <1>2, ValuesAssumption DEF IInv, IdleHasKey, WorkHasKey
<1>6. OneFlight'
  BY <1>1, <1>2 DEF IInv, OneFlight, Reading
<1>7. WaitersHaveLeader'
  BY <1>1, <1>2 DEF IInv, WaitersHaveLeader
<1> QED
  BY <1>3, <1>4, <1>5, <1>6, <1>7 DEF IInv

(* A reader goes on where the table does not see it. *)
LEMMA GoOnKeepsIInv ==
    ASSUME IInv, NEW r \in Readers, UNCHANGED <<leader, key>>,
           \/ pc[r] = "asked" /\ pc' = [pc EXCEPT ![r] = "answered"]
           \/ pc[r] = "tagging" /\ pc' = [pc EXCEPT ![r] = "storing"]
    PROVE  IInv'
<1>1. FlightTypeOK'
  BY DEF IInv, FlightTypeOK, Places, Working, Reading
<1>2. WorkHasKey' /\ IdleHasKey'
  BY ValuesAssumption DEF IInv, FlightTypeOK, WorkHasKey, IdleHasKey, Working, Reading
<1>3. OneFlight'
  BY DEF IInv, FlightTypeOK, OneFlight, Reading
<1>4. WaitersHaveLeader'
  BY DEF IInv, FlightTypeOK, WaitersHaveLeader
<1> QED
  BY <1>1, <1>2, <1>3, <1>4 DEF IInv

LEMMA InitIInv == Init => IInv
BY ValuesAssumption
DEF Init, IInv, FlightTypeOK, WorkHasKey, IdleHasKey, OneFlight, WaitersHaveLeader,
    Places, Resting, Working, Reading

LEMMA NextKeepsIInv == IInv /\ [Next]_vars => IInv'
<1> SUFFICES ASSUME IInv, [Next]_vars PROVE IInv'
  OBVIOUS
<1>1. ASSUME UNCHANGED flightVars PROVE IInv'
  BY <1>1
  DEF IInv, FlightTypeOK, WorkHasKey, IdleHasKey, OneFlight, WaitersHaveLeader, flightVars
<1>2. ASSUME NEW r \in Readers, Query(r) PROVE IInv'
  BY <1>2, BeginKeepsIInv DEF Query, Working, Reading
<1>3. ASSUME NEW w \in Watchers, Refetch(w) PROVE IInv'
  <2>1. w \in Readers /\ key[w] \in Keys
    BY <1>3, ValuesAssumption DEF Refetch, IInv, IdleHasKey
  <2> QED
    BY <1>3, <2>1, BeginKeepsIInv DEF Refetch, Working, Reading
<1>4. ASSUME NEW r \in Readers, ReadLands(r) PROVE IInv'
  BY <1>4, GoOnKeepsIInv DEF ReadLands
<1>5. ASSUME NEW r \in Readers, ReadEnds(r) PROVE IInv'
  BY <1>5, SettleKeepsIInv DEF ReadEnds, Reading
<1>6. ASSUME NEW r \in Readers, TagLands(r) PROVE IInv'
  BY <1>6, GoOnKeepsIInv DEF TagLands
<1>7. ASSUME NEW r \in Readers, Store(r) PROVE IInv'
  BY <1>7, LeaveKeepsIInv DEF Store, Working, Reading
<1>8. ASSUME NEW r \in Readers, ReadGivenUp(r) PROVE IInv'
  BY <1>8, SettleKeepsIInv DEF ReadGivenUp
<1>9. ASSUME NEW r \in Readers, Interrupted(r) PROVE IInv'
  BY <1>9, LeaveKeepsIInv DEF Interrupted, Working, Reading
<1>10. CASE NewBlock \/ InvalidateBlock \/ Invalidate
  BY <1>1, <1>10 DEF NewBlock, InvalidateBlock, Invalidate, readerVars, flightVars
<1>11. CASE UNCHANGED vars
  BY <1>1, <1>11 DEF vars, readerVars, flightVars
<1> QED
  BY <1>2, <1>3, <1>4, <1>5, <1>6, <1>7, <1>8, <1>9, <1>10, <1>11 DEF Next, ReaderStep

(* The table of reads in flight and the readers at work never disagree. *)
THEOREM IInvHolds == Spec => []IInv
BY InitIInv, NextKeepsIInv, PTL DEF Spec

(* One reader at a time is at work on a key (dedup.ts). *)
THEOREM SingleFlight == Spec => []OneFlight
<1>1. IInv => OneFlight
  BY DEF IInv
<1> QED
  BY <1>1, IInvHolds, PTL

(* Whoever waits for a read has a leader to wait for (dedup.ts). *)
THEOREM NobodyWaitsForNobody == Spec => []WaitersHaveLeader
<1>1. IInv => WaitersHaveLeader
  BY DEF IInv
<1> QED
  BY <1>1, IInvHolds, PTL

(* Reads that share an answer: one in flight for a key, and nobody waits
   without it (dedup.ts). *)
THEOREM FlightsAreLed == Spec => []FlightsLed
BY SingleFlight, NobodyWaitsForNobody, PTL DEF FlightsLed

----------------------------------------------------------------------------
(* The cache.  Its index has one place for each cached key and none for any
   other; a reader that is past its read has a value. *)

HasValue == \A r \in Readers : pc[r] \in {"answered", "tagging", "storing"} => got[r] \in Blocks

CacheInv == TypeOK /\ IInv /\ HasValue /\ OneEach(order) /\ ToSet(order) = {k \in Keys : Cached(k)}

(* The two maps of the cache, and no more. *)
CacheTypeOK ==
    /\ entries \in [Keys -> Entry \union {None}]
    /\ order \in Seq(Keys) /\ Len(order) <= MaxSize
    /\ OneEach(order) /\ ToSet(order) = {k \in Keys : Cached(k)}

ReaderTypeOK ==
    /\ head \in Blocks /\ invalidator \in {"absent", "starting", "running"} /\ delivered \in Blocks
    /\ got \in [Readers -> Blocks \union {None}] /\ tag \in [Readers -> Blocks \union {None}]
    /\ told \in [Watchers -> Blocks] /\ shown \in [Watchers -> Blocks \union {None}]
    /\ HasValue

LEMMA CacheInvParts == CacheInv <=> CacheTypeOK /\ ReaderTypeOK /\ IInv
  BY DEF CacheInv, CacheTypeOK, ReaderTypeOK, TypeOK, IInv, FlightTypeOK, Places

LEMMA DropKeeps ==
  ASSUME CacheTypeOK, NEW ks \in SUBSET Keys, Drop(ks)
  PROVE  CacheTypeOK'
<1>1. /\ entries' = [k \in Keys |-> IF k \in ks THEN None ELSE entries[k]]
      /\ order' = Filter(order, Keys \ ks)
  BY DEF Drop, WithoutKeys
<1>2. /\ order' \in Seq(Keys) /\ Len(order') <= Len(order)
      /\ ToSet(order') = ToSet(order) \intersect (Keys \ ks) /\ OneEach(order')
  BY <1>1, FilterLeaves DEF CacheTypeOK
<1>3. Len(order') <= MaxSize
  BY <1>2, SizesAssumption DEF CacheTypeOK
<1>4. ToSet(order') = {k \in Keys : Cached(k)'}
  BY <1>1, <1>2 DEF CacheTypeOK, Cached
<1> QED
  BY <1>1, <1>2, <1>3, <1>4 DEF CacheTypeOK

(* A key that is used goes to the end of the order. *)
LEMMA TouchedKeeps ==
  ASSUME CacheTypeOK, NEW k \in Keys, Cached(k), order' = Touched(k), UNCHANGED entries
  PROVE  CacheTypeOK'
<1> DEFINE rest == Filter(order, Keys \ {k})
<1>1. order' = Append(rest, k)
  BY DEF Touched, WithoutKeys
<1>2. rest \in Seq(Keys) /\ ToSet(rest) = ToSet(order) \intersect (Keys \ {k}) /\ OneEach(rest)
  BY FilterLeaves DEF CacheTypeOK
<1> HIDE DEF rest
<1>3. order' \in Seq(Keys) /\ ToSet(order') = ToSet(rest) \union {k} /\ OneEach(order')
  BY <1>1, <1>2, AppendOne
<1>4. ToSet(order') = ToSet(order)
  BY <1>2, <1>3 DEF CacheTypeOK
<1>5. Len(order') = Len(order)
  BY <1>3, <1>4, OneEachCounts DEF CacheTypeOK
<1>6. Cached(k)' <=> Cached(k)
  BY DEF Cached
<1> QED
  BY <1>3, <1>4, <1>5 DEF CacheTypeOK, Cached

(* A key that is stored takes a place, one that was free or the oldest key's. *)
LEMMA PutKeeps ==
  ASSUME CacheTypeOK, NEW k \in Keys, NEW entry \in Entry, Put(k, entry)
  PROVE  CacheTypeOK'
<1> DEFINE gone == Evicted(k) \union {k}
           rest == Filter(order, Keys \ gone)
<1>1. /\ entries' = [j \in Keys |->
                       IF j = k THEN entry ELSE IF j \in Evicted(k) THEN None ELSE entries[j]]
      /\ order' = Append(rest, k)
  BY DEF Put, WithoutKeys
<1>2. /\ rest \in Seq(Keys) /\ Len(rest) <= Len(order)
      /\ ToSet(rest) = ToSet(order) \intersect (Keys \ gone) /\ OneEach(rest)
  BY FilterLeaves DEF CacheTypeOK
<1>3. /\ IsFiniteSet(ToSet(order)) /\ Cardinality(ToSet(order)) = Len(order)
      /\ Cardinality(ToSet(rest)) = Len(rest)
  BY <1>2, OneEachCounts DEF CacheTypeOK
<1>4. Len(order) \in Nat /\ Len(rest) \in Nat /\ MaxSize \in Nat /\ MaxSize > 0
  BY <1>2, SizesAssumption DEF CacheTypeOK
<1> HIDE DEF rest
<1>5. order' \in Seq(Keys) /\ ToSet(order') = ToSet(rest) \union {k} /\ OneEach(order')
      /\ Len(order') = Len(rest) + 1
  BY <1>1, <1>2, AppendOne
<1>6. Evicted(k) \subseteq ToSet(order) /\ k \notin Evicted(k)
  <2>1. order # <<>> => Head(order) \in ToSet(order)
    BY DEF CacheTypeOK, ToSet
  <2>2. ~Cached(k) => k \notin ToSet(order)
    BY DEF CacheTypeOK
  <2> QED
    BY <2>1, <2>2 DEF Evicted
<1>7. ToSet(order') = {j \in Keys : Cached(j)'}
  BY <1>1, <1>2, <1>5, <1>6, ValuesAssumption DEF CacheTypeOK, Cached
<1>8. entries' \in [Keys -> Entry \union {None}]
  BY <1>1 DEF CacheTypeOK
<1>9. Len(order') <= MaxSize
  <2>1. CASE Cached(k)
    <3>1. Evicted(k) = {}
      BY <2>1 DEF Evicted
    <3>2. ToSet(order') = ToSet(order)
      BY <1>2, <1>5, <2>1, <3>1 DEF CacheTypeOK
    <3>3. Len(order') = Len(order)
      BY <1>3, <1>5, <3>2, OneEachCounts
    <3> QED
      BY <3>3 DEF CacheTypeOK
  <2>2. CASE ~Cached(k) /\ Len(order) < MaxSize
    BY <1>2, <1>4, <1>5, <2>2
  <2>3. CASE ~Cached(k) /\ Len(order) >= MaxSize
    <3>1. order # <<>>
      BY <1>4, <2>3
    <3>2. Evicted(k) = {Head(order)}
      BY <1>3, <2>3, <3>1 DEF Evicted, CacheTypeOK
    <3>3. ToSet(rest) = ToSet(order) \ {Head(order)} /\ Head(order) \in ToSet(order)
      BY <1>2, <1>6, <2>3, <3>2 DEF CacheTypeOK
    <3>4. Len(rest) = Len(order) - 1
      BY <1>3, <3>3, FS_RemoveElement
    <3> QED
      BY <1>4, <1>5, <3>4 DEF CacheTypeOK
  <2> QED
    BY <1>4, <2>1, <2>2, <2>3
<1> QED
  BY <1>5, <1>7, <1>8, <1>9 DEF CacheTypeOK

(* What a query does up to the point where it returns or waits. *)
LEMMA BeginKeepsCache ==
  ASSUME CacheTypeOK, ReaderTypeOK, IInv, NEW r \in Readers, NEW k \in Keys, Begin(r, k)
  PROVE  /\ CacheTypeOK' /\ HasValue'
         /\ invalidator' \in {"absent", "starting", "running"}
         /\ shown' \in [Watchers -> Blocks \union {None}]
<1>1. invalidator' \in {"absent", "starting", "running"}
  BY DEF Begin, EnsureInvalidator, ReaderTypeOK
<1>2. got' = got /\ \A q \in Readers : pc'[q] = pc[q] \/ pc'[q] \notin {"answered", "tagging", "storing"}
  <2>1. CASE Hit(r, k)
    BY <2>1 DEF Begin, Hit, Place, Working, Reading, ReaderTypeOK
  <2>2. CASE Miss(r, k)
    BY <2>2 DEF Begin, Miss, Join, ReaderTypeOK, IInv, FlightTypeOK
  <2> QED
    BY <2>1, <2>2 DEF Begin
<1>3. HasValue'
  BY <1>2 DEF ReaderTypeOK, HasValue
<1>4. CASE Hit(r, k)
  <2>1. CacheTypeOK'
    BY <1>4, TouchedKeeps DEF Hit
  <2>2. entries[k].value \in Blocks
    BY <1>4 DEF Hit, Cached, CacheTypeOK, Entry
  <2>3. shown' \in [Watchers -> Blocks \union {None}]
    BY <1>4, <2>2 DEF Hit, Emits, ReaderTypeOK
  <2> QED
    BY <1>1, <1>3, <2>1, <2>3
<1>5. CASE Miss(r, k)
  <2>1. CacheTypeOK'
    BY <1>5, DropKeeps DEF Miss
  <2> QED
    BY <1>1, <1>3, <1>5, <2>1 DEF Miss, ReaderTypeOK
<1> QED
  BY <1>4, <1>5 DEF Begin

LEMMA CacheInitially == Init => CacheInv
<1> SUFFICES ASSUME Init PROVE CacheInv
  OBVIOUS
<1>1. CacheTypeOK
  BY SizesAssumption DEF Init, CacheTypeOK, OneEach, ToSet, Cached
<1>2. ReaderTypeOK
  BY SizesAssumption DEF Init, ReaderTypeOK, HasValue, Blocks
<1> QED
  BY <1>1, <1>2, InitIInv, CacheInvParts

LEMMA NextKeepsCache ==
  ASSUME CacheInv, Next
  PROVE  CacheInv'
<1>1. CacheTypeOK /\ ReaderTypeOK /\ IInv /\ IInv'
  BY CacheInvParts, NextKeepsIInv
<1>2. SUFFICES CacheTypeOK' /\ ReaderTypeOK'
  <2>1. CacheTypeOK' /\ ReaderTypeOK' /\ IInv' => CacheInv'
    BY DEF CacheInv, CacheTypeOK, ReaderTypeOK, TypeOK, IInv, FlightTypeOK, Places
  <2> QED
    BY <1>1, <2>1
<1>3. ASSUME UNCHANGED cacheVars PROVE CacheTypeOK'
  BY <1>1, <1>3 DEF cacheVars, CacheTypeOK, Cached
<1>4. ASSUME NEW r \in Readers, Query(r) PROVE CacheTypeOK' /\ ReaderTypeOK'
  <2>1. PICK k \in Keys : Begin(r, k)
    BY <1>4 DEF Query
  <2>2. UNCHANGED <<head, delivered, got, tag, told>>
    BY <1>4, <2>1 DEF Query, Begin
  <2> QED
    BY <1>1, <2>1, <2>2, BeginKeepsCache DEF ReaderTypeOK
<1>5. ASSUME NEW w \in Watchers, Refetch(w) PROVE CacheTypeOK' /\ ReaderTypeOK'
  <2>1. w \in Readers /\ key[w] \in Keys /\ Begin(w, key[w])
    BY <1>1, <1>5, ValuesAssumption DEF Refetch, IInv, IdleHasKey
  <2>2. UNCHANGED <<head, delivered, got, tag>>
    BY <2>1 DEF Begin
  <2>3. told' \in [Watchers -> Blocks]
    BY <1>1, <1>5, SizesAssumption DEF Refetch, ReaderTypeOK, Blocks
  <2> QED
    BY <1>1, <2>1, <2>2, <2>3, BeginKeepsCache DEF ReaderTypeOK
<1>6. ASSUME NEW r \in Readers, ReadLands(r) PROVE CacheTypeOK' /\ ReaderTypeOK'
  <2>1. HasValue'
    BY <1>1, <1>6 DEF ReadLands, ReaderTypeOK, HasValue, IInv, FlightTypeOK
  <2> QED
    BY <1>1, <1>3, <1>6, <2>1 DEF ReadLands, ReaderTypeOK
<1>7. ASSUME NEW r \in Readers, ReadEnds(r) PROVE CacheTypeOK' /\ ReaderTypeOK'
  <2>1. got[r] \in Blocks
    BY <1>1, <1>7 DEF ReadEnds, ReaderTypeOK, HasValue
  <2>2. got' = [q \in Readers |-> IF q \in Party(r) THEN got[r] ELSE got[q]]
    BY <1>7 DEF ReadEnds
  <2>3. \A q \in Readers : q \notin Party(r) => pc'[q] = pc[q]
    BY <1>7 DEF ReadEnds, Settle, GoTo
  <2>4. HasValue'
    BY <1>1, <2>1, <2>2, <2>3 DEF ReaderTypeOK, HasValue
  <2>5. got' \in [Readers -> Blocks \union {None}]
    BY <1>1, <2>1, <2>2 DEF ReaderTypeOK
  <2> QED
    BY <1>1, <1>3, <1>7, <2>4, <2>5 DEF ReadEnds, ReaderTypeOK
<1>8. ASSUME NEW r \in Readers, ReadGivenUp(r) PROVE CacheTypeOK' /\ ReaderTypeOK'
  <2>1. \A q \in Readers : pc'[q] = pc[q] \/ pc'[q] \in {"new", "ended"}
    BY <1>8 DEF ReadGivenUp, Settle, GoTo, Place
  <2>2. \A q \in Readers : got'[q] = got[q] \/ pc'[q] \in {"new", "ended"}
    BY <1>8 DEF ReadGivenUp, Settle, GoTo, Place, Forgotten, Party
  <2>3. HasValue' /\ got' \in [Readers -> Blocks \union {None}]
    BY <1>1, <1>8, <2>1, <2>2 DEF ReadGivenUp, Forgotten, ReaderTypeOK, HasValue
  <2> QED
    BY <1>1, <1>3, <1>8, <2>3 DEF ReadGivenUp, ReaderTypeOK
<1>9. ASSUME NEW r \in Readers, Interrupted(r) PROVE CacheTypeOK' /\ ReaderTypeOK'
  <2>1. \A q \in Readers : (pc'[q] = pc[q] /\ got'[q] = got[q]) \/ pc'[q] \in {"new", "ended"}
    BY <1>9 DEF Interrupted, GoTo, Place, Forgotten
  <2>2. HasValue' /\ got' \in [Readers -> Blocks \union {None}]
        /\ tag' \in [Readers -> Blocks \union {None}]
    BY <1>1, <1>9, <2>1 DEF Interrupted, Forgotten, ReaderTypeOK, HasValue
  <2> QED
    BY <1>1, <1>3, <1>9, <2>2 DEF Interrupted, ReaderTypeOK
<1>10. ASSUME NEW r \in Readers, TagLands(r) PROVE CacheTypeOK' /\ ReaderTypeOK'
  <2>1. HasValue' /\ tag' \in [Readers -> Blocks \union {None}]
    BY <1>1, <1>10 DEF TagLands, ReaderTypeOK, HasValue, IInv, FlightTypeOK
  <2> QED
    BY <1>1, <1>3, <1>10, <2>1 DEF TagLands, ReaderTypeOK
<1>11. ASSUME NEW r \in Readers, Store(r) PROVE CacheTypeOK' /\ ReaderTypeOK'
  <2>1. key[r] \in Keys /\ got[r] \in Blocks
    BY <1>1, <1>11 DEF Store, ReaderTypeOK, HasValue, IInv, WorkHasKey, Working
  <2>2. [value |-> got[r], block |-> tag[r]] \in Entry
    BY <1>1, <2>1 DEF ReaderTypeOK, Entry
  <2>3. CacheTypeOK'
    BY <1>1, <1>11, <2>1, <2>2, PutKeeps DEF Store
  <2>4. \A q \in Readers : (pc'[q] = pc[q] /\ got'[q] = got[q]) \/ pc'[q] \in {"new", "idle"}
    BY <1>11 DEF Store, GoTo, Place, Forgotten
  <2>5. HasValue' /\ got' \in [Readers -> Blocks \union {None}]
        /\ tag' \in [Readers -> Blocks \union {None}] /\ shown' \in [Watchers -> Blocks \union {None}]
    BY <1>1, <1>11, <2>1, <2>4 DEF Store, Emits, Forgotten, ReaderTypeOK, HasValue
  <2> QED
    BY <1>1, <1>11, <2>3, <2>5 DEF Store, ReaderTypeOK
<1>12. CASE NewBlock
  BY <1>1, <1>3, <1>12, SizesAssumption DEF NewBlock, ReaderTypeOK, HasValue, Blocks, readerVars
<1>13. CASE InvalidateBlock
  <2>1. PICK b \in delivered + 1..head :
          /\ delivered' = b
          /\ Drop({k \in Keys : Cached(k) /\ entries[k].block # None /\ entries[k].block < b})
    BY <1>13 DEF InvalidateBlock
  <2>2. CacheTypeOK'
    BY <1>1, <2>1, DropKeeps
  <2>3. delivered' \in Blocks
    BY <1>1, <2>1, SizesAssumption DEF ReaderTypeOK, Blocks
  <2> QED
    BY <1>1, <1>13, <2>2, <2>3 DEF InvalidateBlock, ReaderTypeOK, HasValue, readerVars
<1>14. CASE Invalidate
  <2>1. PICK ks \in SUBSET Keys : Drop(ks)
    BY <1>14 DEF Invalidate
  <2>2. CacheTypeOK'
    BY <1>1, <2>1, DropKeeps
  <2> QED
    BY <1>1, <1>14, <2>2 DEF Invalidate, ReaderTypeOK, HasValue, readerVars
<1> QED
  BY <1>4, <1>5, <1>6, <1>7, <1>8, <1>9, <1>10, <1>11, <1>12, <1>13, <1>14 DEF Next, ReaderStep

(* The index of the cache and its values agree, and the cache keeps its size,
   whatever is read, stored, evicted and invalidated (rpc/cache.ts). *)
THEOREM CacheIsSound == Spec => []CacheSound
<1>1. CacheInv => CacheSound
  BY OneEachCounts DEF CacheInv, CacheSound, IndexAgrees, TypeOK
<1>2. CacheInv /\ UNCHANGED vars => CacheInv'
  <2> SUFFICES ASSUME CacheInv, UNCHANGED vars PROVE CacheInv'
    OBVIOUS
  <2>1. CacheTypeOK /\ ReaderTypeOK /\ IInv /\ IInv'
    BY CacheInvParts, NextKeepsIInv
  <2>2. CacheTypeOK' /\ ReaderTypeOK'
    BY <2>1 DEF vars, cacheVars, readerVars, CacheTypeOK, Cached, ReaderTypeOK, HasValue
  <2> QED
    BY <2>1, <2>2 DEF CacheInv, CacheTypeOK, ReaderTypeOK, TypeOK, IInv, FlightTypeOK, Places
<1> QED
  BY <1>1, <1>2, CacheInitially, NextKeepsCache, PTL DEF Spec

----------------------------------------------------------------------------
(* The batcher.  Who waits for a call is in it, in one only, and nobody else
   is but those that were interrupted. *)

Askings == {"idle", "queued", "batched", "interrupted", "done"}

BatchTypeOK ==
    /\ keyFor \in [Requests -> BatchKeys] /\ asking \in [Requests -> Askings]
    /\ outcome \in [Requests -> Outcome \union {NoOutcome}]
    /\ queue \in Seq(Requests) /\ OneEach(queue)
    /\ \A r \in Requests : asking[r] = "queued" <=> r \in ToSet(queue)

AnsweredOwn(r) ==
    /\ outcome[r] # NoOutcome => outcome[r].call = r /\ outcome[r].key = keyFor[r]
    /\ asking[r] = "done" <=> outcome[r] # NoOutcome

CallsInv ==
    /\ reads \in SUBSET Requests
    /\ groups \in SUBSET [key : BatchKeys \ AccountKeys, requests : Seq(Requests)]
    /\ \A g \in groups : Len(g.requests) \in 1..MaxBatch
    /\ \A r \in reads : keyFor[r] \in AccountKeys /\ asking[r] \in {"batched", "interrupted"}
    /\ \A g \in groups : \A r \in ToSet(g.requests) :
         keyFor[r] = g.key /\ asking[r] \in {"batched", "interrupted"}
    /\ \A g, h \in groups : ToSet(g.requests) \intersect ToSet(h.requests) # {} => g = h
    /\ \A r \in Requests : asking[r] = "batched" =>
         IF keyFor[r] \in AccountKeys THEN r \in reads ELSE \E g \in groups : r \in ToSet(g.requests)

BatchInv == BatchTypeOK /\ CallsInv /\ \A r \in Requests : AnsweredOwn(r)

LEMMA BatchInitially == BatchInit => BatchInv
<1> SUFFICES ASSUME BatchInit PROVE BatchInv
  OBVIOUS
<1>1. BatchTypeOK
  BY DEF BatchInit, BatchTypeOK, Askings, OneEach, ToSet
<1>2. CallsInv /\ \A r \in Requests : AnsweredOwn(r)
  BY DEF BatchInit, CallsInv, AnsweredOwn
<1> QED
  BY <1>1, <1>2 DEF BatchInv

LEMMA InSeq ==
  ASSUME NEW T, NEW s \in Seq(T)
  PROVE  ToSet(s) \subseteq T /\ DOMAIN s = 1..Len(s) /\ Len(s) \in Nat
  BY DEF ToSet

LEMMA ToSetUses ==
  ASSUME NEW s, NEW x
  PROVE  x \in ToSet(s) <=> \E i \in DOMAIN s : s[i] = x
  BY DEF ToSet

(* A request that is not taken into a batch, nor answered, changes no call. *)
LEMMA CallsKept ==
  ASSUME CallsInv, UNCHANGED <<keyFor, groups, reads>>,
         \A r \in Requests :
           /\ asking[r] \in {"batched", "interrupted"} => asking'[r] \in {"batched", "interrupted"}
           /\ asking'[r] = "batched" => asking[r] = "batched"
  PROVE  CallsInv'
<1>1. \A g \in groups : ToSet(g.requests) \subseteq Requests
  BY InSeq DEF CallsInv
<1>2. \A r \in reads' : keyFor'[r] \in AccountKeys /\ asking'[r] \in {"batched", "interrupted"}
  BY DEF CallsInv
<1>3. \A g \in groups' : \A r \in ToSet(g.requests) :
        keyFor'[r] = g.key /\ asking'[r] \in {"batched", "interrupted"}
  BY <1>1 DEF CallsInv
<1> QED
  BY <1>2, <1>3 DEF CallsInv

LEMMA EnqueueKeeps ==
  ASSUME BatchInv, NEW r \in Requests, enqueue(r)
  PROVE  BatchInv'
<1>1. r \notin ToSet(queue) /\ asking[r] = "idle"
  BY DEF enqueue, BatchInv, BatchTypeOK
<1>2. /\ queue' \in Seq(Requests) /\ ToSet(queue') = ToSet(queue) \union {r} /\ OneEach(queue')
      /\ asking' = [asking EXCEPT ![r] = "queued"] /\ UNCHANGED <<keyFor, groups, reads, outcome>>
  BY <1>1, AppendOne DEF enqueue, BatchInv, BatchTypeOK
<1>3. BatchTypeOK'
  BY <1>1, <1>2 DEF BatchInv, BatchTypeOK, Askings
<1>4. CallsInv'
  <2>1. CallsInv /\ asking \in [Requests -> Askings]
    BY DEF BatchInv, BatchTypeOK
  <2> QED
    BY <1>1, <1>2, <2>1, CallsKept
<1>5. \A q \in Requests : AnsweredOwn(q)'
  BY <1>1, <1>2 DEF BatchInv, BatchTypeOK, AnsweredOwn
<1> QED
  BY <1>3, <1>4, <1>5 DEF BatchInv

LEMMA AskerInterruptedKeeps ==
  ASSUME BatchInv, NEW r \in Requests, AskerInterrupted(r)
  PROVE  BatchInv'
<1>1. asking' = [asking EXCEPT ![r] = "interrupted"] /\ asking[r] \in {"queued", "batched"}
      /\ UNCHANGED <<keyFor, groups, reads, outcome>>
  BY DEF AskerInterrupted
<1>2. /\ queue' \in Seq(Requests) /\ OneEach(queue')
      /\ ToSet(queue') = ToSet(queue) \intersect (Requests \ {r})
  BY FilterLeaves DEF AskerInterrupted, BatchInv, BatchTypeOK
<1>3. BatchTypeOK'
  BY <1>1, <1>2 DEF BatchInv, BatchTypeOK, Askings
<1>4. CallsInv'
  <2>1. CallsInv /\ asking \in [Requests -> Askings]
    BY DEF BatchInv, BatchTypeOK
  <2> QED
    BY <1>1, <1>2, <2>1, CallsKept
<1>5. \A q \in Requests : AnsweredOwn(q)'
  BY <1>1, <1>2 DEF BatchInv, BatchTypeOK, AnsweredOwn
<1> QED
  BY <1>3, <1>4, <1>5 DEF BatchInv

(* A batch in groups: all of it, each request in the group of its key. *)
LEMMA GroupsOfBatch ==
  ASSUME keyFor \in [Requests -> BatchKeys], NEW batch \in Seq(Requests), Len(batch) <= MaxBatch
  PROVE  /\ \A g \in groupRequests(batch) :
              /\ g \in [key : BatchKeys, requests : Seq(Requests)] /\ Len(g.requests) \in 1..MaxBatch
              /\ ToSet(g.requests) = {r \in ToSet(batch) : keyFor[r] = g.key}
         /\ \A g, h \in groupRequests(batch) : g.key = h.key => g = h
         /\ \A r \in ToSet(batch) : \E g \in groupRequests(batch) : g.key = keyFor[r]
<1> DEFINE group(k) == [key |-> k, requests |-> Filter(batch, {r \in Requests : keyFor[r] = k})]
<1>1. groupRequests(batch) = {group(k) : k \in {keyFor[r] : r \in ToSet(batch)}}
  BY DEF groupRequests
<1>2. ToSet(batch) \subseteq Requests /\ Len(batch) \in Nat
  BY InSeq
<1>3. ASSUME NEW k \in {keyFor[r] : r \in ToSet(batch)}
      PROVE  /\ group(k) \in [key : BatchKeys, requests : Seq(Requests)] /\ group(k).key = k
             /\ Len(group(k).requests) \in 1..MaxBatch
             /\ ToSet(group(k).requests) = {r \in ToSet(batch) : keyFor[r] = k}
  <2> DEFINE some == Filter(batch, {r \in Requests : keyFor[r] = k})
  <2>1. /\ some \in Seq(Requests) /\ Len(some) <= Len(batch)
        /\ ToSet(some) = ToSet(batch) \intersect {r \in Requests : keyFor[r] = k}
    BY FilterLeaves
  <2>2. group(k) = [key |-> k, requests |-> some] /\ k \in BatchKeys
    BY <1>2
  <2> HIDE DEF some
  <2>3. ToSet(some) = {r \in ToSet(batch) : keyFor[r] = k}
    BY <1>2, <2>1
  <2>4. ToSet(some) # {}
    BY <2>3
  <2>5. Len(some) \in 1..MaxBatch
    <3>1. Len(some) # 0
      BY <2>1, <2>4 DEF ToSet
    <3> QED
      BY <1>2, <2>1, <3>1, BatchAssumption DEF BatchAssumption
  <2> HIDE DEF group
  <2> QED
    BY <2>1, <2>2, <2>3, <2>5
<1> HIDE DEF group
<1> QED
  BY <1>1, <1>3

(* The oldest requests, and the rest of the queue. *)
LEMMA QueueSplits ==
  ASSUME NEW T, NEW s \in Seq(T), NEW n \in 1..Len(s)
  PROVE  LET front == SubSeq(s, 1, n)
             rest == SubSeq(s, n + 1, Len(s))
         IN /\ front \in Seq(T) /\ rest \in Seq(T) /\ Len(front) = n
            /\ ToSet(s) = ToSet(front) \union ToSet(rest)
            /\ OneEach(s) => OneEach(rest) /\ ToSet(front) \intersect ToSet(rest) = {}
<1> DEFINE front == SubSeq(s, 1, n)
           rest == SubSeq(s, n + 1, Len(s))
<1>1. /\ front \in Seq(T) /\ Len(front) = n /\ DOMAIN front = 1..n /\ n \in Nat
      /\ \A i \in 1..n : front[i] = s[i]
  BY SubSeqProperties
<1>2. /\ rest \in Seq(T) /\ DOMAIN rest = 1..Len(s) - n /\ DOMAIN s = 1..Len(s) /\ Len(s) \in Nat
      /\ \A i \in 1..Len(s) - n : rest[i] = s[n + i]
  BY SubSeqProperties
<1> HIDE DEF front, rest
<1>8. \A i \in 1..Len(s) - n : n + i \in 1..Len(s)
  BY <1>1, <1>2
<1>3. ToSet(front) \subseteq ToSet(s) /\ ToSet(rest) \subseteq ToSet(s)
  <2>1. \A i \in 1..n : i \in 1..Len(s)
    BY <1>1, <1>2
  <2>2. ToSet(front) \subseteq ToSet(s)
    <3> SUFFICES ASSUME NEW x \in ToSet(front) PROVE x \in ToSet(s)
      OBVIOUS
    <3>1. PICK i \in 1..n : front[i] = x
      BY <1>1, ToSetUses
    <3>2. i \in DOMAIN s /\ s[i] = x
      BY <1>1, <1>2, <2>1, <3>1
    <3> QED
      BY <3>2, ToSetUses
  <2>3. ToSet(rest) \subseteq ToSet(s)
    <3> SUFFICES ASSUME NEW x \in ToSet(rest) PROVE x \in ToSet(s)
      OBVIOUS
    <3>1. PICK i \in 1..Len(s) - n : rest[i] = x
      BY <1>2, ToSetUses
    <3>2. n + i \in DOMAIN s /\ s[n + i] = x
      BY <1>2, <1>8, <3>1
    <3> QED
      BY <3>2, ToSetUses
  <2> QED
    BY <2>2, <2>3
<1>4. ASSUME NEW i \in 1..Len(s)
      PROVE  s[i] \in ToSet(front) \union ToSet(rest)
  <2>1. CASE i <= n
    <3>1. i \in 1..n /\ front[i] = s[i]
      BY <1>1, <1>2, <2>1
    <3> QED
      BY <1>1, <3>1, ToSetUses
  <2>2. CASE i > n
    <3>1. i - n \in 1..Len(s) - n /\ rest[i - n] = s[i]
      BY <1>1, <1>2, <2>2
    <3> QED
      BY <1>2, <3>1, ToSetUses
  <2> QED
    BY <1>1, <1>2, <2>1, <2>2
<1>5. ToSet(s) = ToSet(front) \union ToSet(rest)
  BY <1>2, <1>3, <1>4 DEF ToSet
<1>6. OneEach(s) => OneEach(rest)
  <2> SUFFICES ASSUME OneEach(s), NEW i \in 1..Len(s) - n, NEW j \in 1..Len(s) - n, rest[i] = rest[j]
               PROVE  i = j
    BY <1>2 DEF OneEach
  <2>1. n + i = n + j
    BY <1>2, <1>8 DEF OneEach
  <2> QED
    BY <1>1, <2>1
<1>7. OneEach(s) => ToSet(front) \intersect ToSet(rest) = {}
  <2> SUFFICES ASSUME OneEach(s), NEW i \in 1..n, NEW j \in 1..Len(s) - n PROVE front[i] # rest[j]
    BY <1>1, <1>2 DEF ToSet
  <2>1. i \in 1..Len(s) /\ i # n + j
    BY <1>1, <1>2
  <2> QED
    BY <1>1, <1>2, <1>8, <2>1 DEF OneEach
<1> QED
  BY <1>1, <1>2, <1>5, <1>6, <1>7 DEF front, rest

(* The requests of some groups. *)
LEMMA RequestsOf ==
  ASSUME NEW some, NEW r
  PROVE  r \in UNION {ToSet(g.requests) : g \in some} <=> \E g \in some : r \in ToSet(g.requests)
  OBVIOUS

LEMMA RunBatchKeeps ==
  ASSUME BatchInv, RunBatch
  PROVE  BatchInv'
<1> DEFINE size == IF Len(queue) < MaxBatch THEN Len(queue) ELSE MaxBatch
           batch == SubSeq(queue, 1, size)
           rest == SubSeq(queue, size + 1, Len(queue))
           grouped == groupRequests(batch)
           apart == {g \in grouped : g.key \in AccountKeys}
           read == UNION {ToSet(g.requests) : g \in apart}
<1>1. /\ queue' = rest /\ groups' = groups \union (grouped \ apart) /\ reads' = reads \union read
      /\ asking' = [r \in Requests |-> IF r \in ToSet(batch) THEN "batched" ELSE asking[r]]
      /\ UNCHANGED <<keyFor, outcome>> /\ queue # <<>>
  BY DEF RunBatch
<1>2. /\ keyFor \in [Requests -> BatchKeys] /\ asking \in [Requests -> Askings]
      /\ queue \in Seq(Requests) /\ OneEach(queue)
      /\ \A r \in Requests : asking[r] = "queued" <=> r \in ToSet(queue)
  BY DEF BatchInv, BatchTypeOK
<1>3. size \in 1..Len(queue) /\ size <= MaxBatch
  BY <1>1, <1>2, BatchAssumption DEF BatchAssumption
<1>4. /\ batch \in Seq(Requests) /\ rest \in Seq(Requests) /\ Len(batch) <= MaxBatch /\ OneEach(rest)
      /\ ToSet(queue) = ToSet(batch) \union ToSet(rest) /\ ToSet(batch) \intersect ToSet(rest) = {}
  <2> HIDE DEF size
  <2> QED
    BY <1>2, <1>3, QueueSplits
<1> HIDE DEF size, batch, rest
<1>5. /\ \A g \in grouped :
           /\ g \in [key : BatchKeys, requests : Seq(Requests)] /\ Len(g.requests) \in 1..MaxBatch
           /\ ToSet(g.requests) = {r \in ToSet(batch) : keyFor[r] = g.key}
      /\ \A g, h \in grouped : g.key = h.key => g = h
      /\ \A r \in ToSet(batch) : \E g \in grouped : g.key = keyFor[r]
  BY <1>2, <1>4, GroupsOfBatch
<1> HIDE DEF grouped
<1>6. \A r : r \in read <=> r \in ToSet(batch) /\ keyFor[r] \in AccountKeys
  <2>1. \A r : r \in read <=> \E g \in apart : r \in ToSet(g.requests)
    OBVIOUS
  <2> HIDE DEF read
  <2> QED
    BY <1>5, <2>1
<1> HIDE DEF read
<1>7. \A r \in ToSet(batch) : r \in Requests /\ asking[r] = "queued" /\ asking'[r] = "batched"
  BY <1>1, <1>2, <1>4, InSeq
<1>8. BatchTypeOK'
  BY <1>1, <1>2, <1>4, <1>7 DEF BatchInv, BatchTypeOK, Askings
<1>9. CallsInv'
  <2>1. CallsInv
    BY DEF BatchInv
  <2>2. \A g \in groups : ToSet(g.requests) \subseteq Requests
    BY <2>1, InSeq DEF CallsInv
  <2>3. reads' \in SUBSET Requests
    BY <1>1, <1>6, <1>7, <2>1 DEF CallsInv
  <2>4. /\ groups' \in SUBSET [key : BatchKeys \ AccountKeys, requests : Seq(Requests)]
        /\ \A g \in groups' : Len(g.requests) \in 1..MaxBatch
    BY <1>1, <1>5, <2>1 DEF CallsInv
  <2>5. \A r \in reads' : keyFor'[r] \in AccountKeys /\ asking'[r] \in {"batched", "interrupted"}
    BY <1>1, <1>2, <1>6, <1>7, <2>1 DEF CallsInv
  <2>6. \A g \in groups' : \A r \in ToSet(g.requests) :
          keyFor'[r] = g.key /\ asking'[r] \in {"batched", "interrupted"}
    BY <1>1, <1>5, <1>7, <2>1, <2>2 DEF CallsInv
  <2>7. \A g, h \in groups' : ToSet(g.requests) \intersect ToSet(h.requests) # {} => g = h
    <3> SUFFICES ASSUME NEW g \in groups', NEW h \in groups', NEW r \in ToSet(g.requests),
                        r \in ToSet(h.requests)
                 PROVE  g = h
      OBVIOUS
    <3>1. CASE g \in groups /\ h \in groups
      BY <2>1, <3>1 DEF CallsInv
    <3>2. CASE g \in grouped /\ h \in grouped
      <4>1. keyFor[r] = g.key /\ keyFor[r] = h.key
        BY <1>5, <3>2
      <4> QED
        BY <1>5, <3>2, <4>1
    <3>3. CASE (g \in groups /\ h \in grouped) \/ (g \in grouped /\ h \in groups)
      <4>1. r \in ToSet(batch)
        BY <1>5, <3>3
      <4>2. asking[r] \in {"batched", "interrupted"}
        BY <2>1, <3>3 DEF CallsInv
      <4> QED
        BY <1>7, <4>1, <4>2
    <3> QED
      BY <1>1, <3>1, <3>2, <3>3
  <2>8. ASSUME NEW r \in Requests, asking'[r] = "batched"
        PROVE  IF keyFor'[r] \in AccountKeys THEN r \in reads'
               ELSE \E g \in groups' : r \in ToSet(g.requests)
    <3>1. CASE r \in ToSet(batch)
      BY <1>1, <1>5, <1>6, <3>1
    <3>2. CASE r \notin ToSet(batch)
      BY <1>1, <2>1, <2>8, <3>2 DEF CallsInv
    <3> QED
      BY <3>1, <3>2
  <2> QED
    BY <2>3, <2>4, <2>5, <2>6, <2>7, <2>8 DEF CallsInv
<1>10. \A r \in Requests : AnsweredOwn(r)'
  BY <1>1, <1>2, <1>7 DEF BatchInv, AnsweredOwn
<1> QED
  BY <1>8, <1>9, <1>10 DEF BatchInv

(* A call that has an answer for each request it made, and is over. *)
LEMMA CompleteKeeps ==
  ASSUME BatchInv, NEW answers, DOMAIN answers \subseteq Requests, complete(answers),
         \A r \in DOMAIN answers :
           answers[r] \in Outcome /\ answers[r].call = r /\ answers[r].key = keyFor[r],
         UNCHANGED <<keyFor, queue>>, groups' \subseteq groups, reads' \subseteq reads,
         \A r \in DOMAIN answers : r \notin reads' /\ \A g \in groups' : r \notin ToSet(g.requests),
         \A r \in reads \ DOMAIN answers : r \in reads',
         \A g \in groups : \A r \in ToSet(g.requests) \ DOMAIN answers : g \in groups'
  PROVE  BatchInv'
<1>1. BatchTypeOK /\ CallsInv /\ \A r \in Requests : AnsweredOwn(r)
  BY DEF BatchInv
<1> DEFINE waiting == {r \in DOMAIN answers : asking[r] = "batched"}
<1>2. /\ asking' = [r \in Requests |-> IF r \in waiting THEN "done" ELSE asking[r]]
      /\ outcome' = [r \in Requests |-> IF r \in waiting THEN answers[r] ELSE outcome[r]]
  BY DEF complete
<1>3. BatchTypeOK'
  BY <1>1, <1>2 DEF BatchTypeOK, Askings
<1>4. \A r \in Requests : AnsweredOwn(r)'
  BY <1>1, <1>2, BatchAssumption DEF BatchTypeOK, AnsweredOwn, BatchAssumption
<1>5. CallsInv'
  <2>1. \A g \in groups : ToSet(g.requests) \subseteq Requests
    BY <1>1, InSeq DEF CallsInv
  <2>2. /\ reads' \in SUBSET Requests
        /\ groups' \in SUBSET [key : BatchKeys \ AccountKeys, requests : Seq(Requests)]
        /\ \A g \in groups' : Len(g.requests) \in 1..MaxBatch
        /\ \A g, h \in groups' : ToSet(g.requests) \intersect ToSet(h.requests) # {} => g = h
    BY <1>1 DEF CallsInv
  <2>3. \A r \in reads' : keyFor'[r] \in AccountKeys /\ asking'[r] \in {"batched", "interrupted"}
    BY <1>1, <1>2 DEF CallsInv
  <2>4. \A g \in groups' : \A r \in ToSet(g.requests) :
          keyFor'[r] = g.key /\ asking'[r] \in {"batched", "interrupted"}
    BY <1>1, <1>2, <2>1 DEF CallsInv
  <2>5. \A r \in Requests : asking'[r] = "batched" =>
          IF keyFor'[r] \in AccountKeys THEN r \in reads' ELSE \E g \in groups' : r \in ToSet(g.requests)
    <3> SUFFICES ASSUME NEW r \in Requests, asking'[r] = "batched"
                 PROVE  IF keyFor[r] \in AccountKeys THEN r \in reads'
                        ELSE \E g \in groups' : r \in ToSet(g.requests)
      OBVIOUS
    <3>1. asking[r] = "batched" /\ r \notin DOMAIN answers
      BY <1>2
    <3>2. IF keyFor[r] \in AccountKeys THEN r \in reads ELSE \E g \in groups : r \in ToSet(g.requests)
      BY <1>1, <3>1 DEF CallsInv
    <3> QED
      BY <3>1, <3>2
  <2> QED
    BY <2>2, <2>3, <2>4, <2>5 DEF CallsInv
<1> QED
  BY <1>3, <1>4, <1>5 DEF BatchInv

(* A result is found at the place of the request it is for. *)
LEMMA ResultIsOwn ==
  ASSUME NEW g \in groups, BatchInv, NEW status \in [1..Len(g.requests) -> {"success", "failure"}],
         NEW r \in ToSet(g.requests)
  PROVE  LET result == Results(g, status)[PlaceIn(g, r)]
         IN result \in Outcome /\ result.call = r /\ result.key = keyFor[r]
<1>1. /\ g.requests \in Seq(Requests) /\ g.key \in BatchKeys /\ keyFor[r] = g.key
  BY DEF BatchInv, CallsInv
<1>2. r \in Requests /\ \E i \in 1..Len(g.requests) : g.requests[i] = r
  BY <1>1, InSeq, ToSetUses
<1>3. PlaceIn(g, r) \in 1..Len(g.requests) /\ g.requests[PlaceIn(g, r)] = r
  BY <1>2 DEF PlaceIn
<1> QED
  BY <1>1, <1>2, <1>3 DEF Results, Outcome

LEMMA CompleteGroupKeeps ==
  ASSUME BatchInv, NEW g \in groups, completeGroup(g) \/ failGroup(g)
  PROVE  BatchInv'
<1>1. /\ g.requests \in Seq(Requests) /\ g.key \in BatchKeys \ AccountKeys
      /\ \A r \in ToSet(g.requests) : keyFor[r] = g.key
      /\ \A h \in groups : ToSet(g.requests) \intersect ToSet(h.requests) # {} => g = h
      /\ \A r \in reads : keyFor[r] \in AccountKeys
  BY DEF BatchInv, CallsInv
<1>2. ToSet(g.requests) \subseteq Requests
  BY <1>1, InSeq
<1>3. PICK answers :
        /\ complete(answers) /\ DOMAIN answers = ToSet(g.requests)
        /\ \A r \in DOMAIN answers :
              answers[r] \in Outcome /\ answers[r].call = r /\ answers[r].key = keyFor[r]
  <2>1. CASE completeGroup(g)
    <3>1. PICK status \in [1..Len(g.requests) -> {"success", "failure"}] :
            complete([r \in ToSet(g.requests) |-> Results(g, status)[PlaceIn(g, r)]])
      BY <2>1 DEF completeGroup
    <3> QED
      BY <3>1, ResultIsOwn
  <2>2. CASE failGroup(g)
    <3> DEFINE answers == [r \in ToSet(g.requests) |-> Failure(r, g.key)]
    <3>1. complete(answers)
      BY <2>2 DEF failGroup
    <3>2. \A r \in ToSet(g.requests) : answers[r] = [call |-> r, key |-> g.key, status |-> "failure"]
      BY DEF Failure
    <3>3. \A r \in ToSet(g.requests) :
            answers[r] \in Outcome /\ answers[r].call = r /\ answers[r].key = keyFor[r]
      <4> SUFFICES ASSUME NEW r \in ToSet(g.requests)
                   PROVE  answers[r] \in Outcome /\ answers[r].call = r /\ answers[r].key = keyFor[r]
        OBVIOUS
      <4>1. answers[r] = [call |-> r, key |-> g.key, status |-> "failure"] /\ r \in Requests
        BY <1>2, <3>2
      <4>2. [call |-> r, key |-> g.key, status |-> "failure"] \in Outcome
        BY <1>1, <4>1 DEF Outcome
      <4> HIDE DEF answers
      <4> QED
        BY <1>1, <4>1, <4>2
    <3>4. DOMAIN answers = ToSet(g.requests)
      OBVIOUS
    <3> HIDE DEF answers
    <3> QED
      BY <3>1, <3>3, <3>4
  <2> QED
    BY <2>1, <2>2
<1>4. groups' = groups \ {g} /\ UNCHANGED <<keyFor, queue, reads>>
  BY DEF completeGroup, failGroup
<1> QED
  BY <1>1, <1>2, <1>3, <1>4, CompleteKeeps

LEMMA ReadApartKeeps ==
  ASSUME BatchInv, NEW r \in Requests, ReadApart(r)
  PROVE  BatchInv'
<1>1. PICK status \in {"success", "failure"} :
        complete([q \in {r} |-> [call |-> q, key |-> keyFor[q], status |-> status]])
  BY DEF ReadApart
<1> DEFINE answers == [q \in {r} |-> [call |-> q, key |-> keyFor[q], status |-> status]]
<1>2. /\ r \in reads /\ reads' = reads \ {r} /\ UNCHANGED <<keyFor, queue, groups>>
      /\ keyFor[r] \in AccountKeys
      /\ \A g \in groups : r \notin ToSet(g.requests)
  BY DEF ReadApart, BatchInv, CallsInv
<1>3. DOMAIN answers = {r} /\ answers[r] = [call |-> r, key |-> keyFor[r], status |-> status]
  OBVIOUS
<1>4. answers[r] \in Outcome /\ answers[r].call = r /\ answers[r].key = keyFor[r]
  BY <1>3 DEF BatchInv, BatchTypeOK, Outcome
<1>5. complete(answers)
  BY <1>1
<1> HIDE DEF answers
<1> QED
  BY <1>2, <1>3, <1>4, <1>5, CompleteKeeps

LEMMA BatchIsInductive == BatchSpec => []BatchInv
<1>1. BatchInit => BatchInv
  BY BatchInitially
<1>2. BatchInv /\ [BatchNext]_batchVars => BatchInv'
  <2> SUFFICES ASSUME BatchInv, [BatchNext]_batchVars PROVE BatchInv'
    OBVIOUS
  <2>1. CASE UNCHANGED batchVars
    BY <2>1 DEF batchVars, BatchInv, BatchTypeOK, CallsInv, AnsweredOwn
  <2> QED
    BY <2>1, EnqueueKeeps, AskerInterruptedKeeps, ReadApartKeeps, RunBatchKeeps, CompleteGroupKeeps
       DEF BatchNext
<1> QED
  BY <1>1, <1>2, PTL DEF BatchSpec

(* A fiber gets the answer to its own read, whoever shares its batch; until
   then it waits in the queue, or for one call. *)
THEOREM BatchIsSound == BatchSpec => []BatchSound
<1>1. BatchInv => BatchSound
  <2> SUFFICES ASSUME BatchInv PROVE BatchSound
    OBVIOUS
  <2>1. ASSUME NEW r \in Requests, asking[r] = "batched"
        PROVE  LET calls == {g \in groups : r \in ToSet(g.requests)}
               IN IF keyFor[r] \in AccountKeys THEN r \in reads /\ calls = {}
                  ELSE r \notin reads /\ \E g \in calls : calls = {g} /\ g.key = keyFor[r]
    <3>1. CASE keyFor[r] \in AccountKeys
      BY <2>1, <3>1 DEF BatchInv, CallsInv
    <3>2. CASE keyFor[r] \notin AccountKeys
      <4>1. PICK g \in groups : r \in ToSet(g.requests)
        BY <2>1, <3>2 DEF BatchInv, CallsInv
      <4>2. {h \in groups : r \in ToSet(h.requests)} = {g} /\ g.key = keyFor[r]
        <5>1. /\ \A h \in groups : ToSet(h.requests) \intersect ToSet(g.requests) # {} => h = g
              /\ g.key = keyFor[r]
          BY <4>1 DEF BatchInv, CallsInv
        <5> QED
          BY <4>1, <5>1
      <4> QED
        BY <3>2, <4>1, <4>2 DEF BatchInv, CallsInv
    <3> QED
      BY <3>1, <3>2
  <2> QED
    BY <2>1 DEF BatchInv, BatchTypeOK, CallsInv, AnsweredOwn, BatchSound
<1> QED
  BY <1>1, BatchIsInductive, PTL

----------------------------------------------------------------------------
(* The guards: what they promise is inductive as it stands, the breaker's
   part and the transport's part each by its own steps. *)

BreakerTypeOK ==
    /\ circuit \in {"closed", "open", "half-open"}
    /\ failures \in 0..FailureThreshold /\ successes \in 0..SuccessThreshold - 1
    /\ age \in 0..ResetTimeout /\ okProbes \in 0..SuccessThreshold
    /\ running \in SUBSET GuardCallers /\ bad \in SUBSET running /\ healthy \in BOOLEAN

TransportTypeOK ==
    /\ flights \in SUBSET (GuardKeys \union GuardCallers)
    /\ waits \in [GuardCallers -> SUBSET flights]
    /\ consecutiveFailures \in 0..FailureThreshold
    /\ sinceOpened \in -1..ResetTimeout /\ dead \in 0..FailureThreshold

BreakerInv == BreakerTypeOK /\ BreakerSound
TransportInv == TransportTypeOK /\ TransportShutForCause

LEMMA GuardsSoundParts == GuardsSound <=> BreakerInv /\ TransportInv
  BY DEF GuardsSound, GuardsTypeOK, BreakerInv, BreakerTypeOK, TransportInv, TransportTypeOK

(* A count that is stopped at its bound stays within it. *)
LEMMA UpToBounds ==
  ASSUME NEW n \in Nat, NEW bound \in Nat
  PROVE  UpTo(n, bound) \in 0..bound /\ UpTo(n, bound) = (IF n < bound THEN n ELSE bound)
  BY DEF UpTo

LEMMA RecordSuccessKeeps ==
  ASSUME BreakerInv, recordSuccess, okProbes' = UpTo(okProbes + 1, SuccessThreshold)
  PROVE  /\ circuit' \in {"closed", "open", "half-open"} /\ failures' \in 0..FailureThreshold
         /\ successes' \in 0..SuccessThreshold - 1 /\ age' \in 0..ResetTimeout
         /\ okProbes' \in 0..SuccessThreshold /\ BreakerSound'
  BY GuardAssumption
     DEF BreakerInv, BreakerTypeOK, BreakerSound, recordSuccess, Closed, UpTo, GuardAssumption

LEMMA RecordFailureKeeps ==
  ASSUME BreakerInv, recordFailure
  PROVE  /\ circuit' \in {"closed", "open", "half-open"} /\ failures' \in 0..FailureThreshold
         /\ successes' \in 0..SuccessThreshold - 1 /\ age' \in 0..ResetTimeout
         /\ okProbes' \in 0..SuccessThreshold /\ BreakerSound'
  BY GuardAssumption
     DEF BreakerInv, BreakerTypeOK, BreakerSound, recordFailure, Opened, UpTo, GuardAssumption

LEMMA BreakerStep ==
  ASSUME BreakerInv, BreakerNext
  PROVE  BreakerInv'
<1>1. ASSUME NEW c \in GuardCallers, execute(c) PROVE BreakerInv'
  <2>1. /\ circuit' \in {"closed", "open", "half-open"} /\ failures' \in 0..FailureThreshold
        /\ successes' \in 0..SuccessThreshold - 1 /\ age' \in 0..ResetTimeout
        /\ okProbes' \in 0..SuccessThreshold /\ BreakerSound'
    BY <1>1, GuardAssumption
       DEF BreakerInv, BreakerTypeOK, BreakerSound, execute, GuardAssumption
  <2>2. running' \in SUBSET GuardCallers /\ bad' \in SUBSET running' /\ healthy' \in BOOLEAN
    BY <1>1 DEF BreakerInv, BreakerTypeOK, execute
  <2> QED BY <2>1, <2>2 DEF BreakerInv, BreakerTypeOK
<1>2. ASSUME NEW c \in GuardCallers, Answered(c) PROVE BreakerInv'
  <2>1. running' \in SUBSET GuardCallers /\ bad' \in SUBSET running' /\ healthy' \in BOOLEAN
    BY <1>2 DEF BreakerInv, BreakerTypeOK, Answered, Succeeds, Fails, Returns
  <2>2. CASE Succeeds(c)
    BY <2>1, <2>2, RecordSuccessKeeps DEF Succeeds, BreakerInv, BreakerTypeOK
  <2>3. CASE Fails(c)
    BY <2>1, <2>3, RecordFailureKeeps DEF Fails, BreakerInv, BreakerTypeOK
  <2> QED BY <1>2, <2>2, <2>3 DEF Answered
<1>3. ASSUME NEW c \in GuardCallers, CallInterrupted(c) PROVE BreakerInv'
  BY <1>3 DEF CallInterrupted, Returns, BreakerInv, BreakerTypeOK, BreakerSound
<1>4. CASE reset
  BY <1>4, GuardAssumption
     DEF reset, Closed, BreakerInv, BreakerTypeOK, BreakerSound, GuardAssumption
<1>5. CASE Heal
  BY <1>5 DEF Heal, BreakerInv, BreakerTypeOK, BreakerSound
<1>6. CASE BreakerTick
  BY <1>6, GuardAssumption
     DEF BreakerTick, BreakerInv, BreakerTypeOK, BreakerSound, GuardAssumption
<1> QED BY <1>1, <1>2, <1>3, <1>4, <1>5, <1>6 DEF BreakerNext

(* Whatever ends a request takes it from those in flight and from everyone who
   waits for it. *)
LEMMA SettleKeeps ==
  ASSUME TransportInv, NEW id, SettleRequest(id)
  PROVE  /\ flights' \in SUBSET (GuardKeys \union GuardCallers)
         /\ waits' \in [GuardCallers -> SUBSET flights']
         /\ \A c \in GuardCallers : waits'[c] \subseteq flights'
  BY DEF TransportInv, TransportTypeOK, SettleRequest

LEMMA TransportStep ==
  ASSUME TransportInv, TransportNext
  PROVE  TransportInv'
<1>1. ASSUME NEW c \in GuardCallers, NEW id \in GuardKeys \union GuardCallers, Request(c, id)
      PROVE  TransportInv'
  BY <1>1 DEF Request, TransportInv, TransportTypeOK, TransportShutForCause, isOpen
<1>2. ASSUME NEW id \in flights, RequestSucceeds(id) PROVE TransportInv'
  BY <1>2, SettleKeeps, GuardAssumption
     DEF RequestSucceeds, noteSuccess, TransportInv, TransportTypeOK, TransportShutForCause,
         isOpen, GuardAssumption
<1>3. ASSUME NEW id \in flights, TransportFails(id) PROVE TransportInv'
  <2>1. /\ consecutiveFailures' = UpTo(consecutiveFailures + 1, FailureThreshold)
        /\ sinceOpened' = IF UpTo(consecutiveFailures + 1, FailureThreshold) >= FailureThreshold
                            THEN 0 ELSE sinceOpened
        /\ dead' = UpTo(dead + 1, FailureThreshold)
    BY <1>3 DEF TransportFails, noteFailure
  <2>2. /\ consecutiveFailures' \in 0..FailureThreshold /\ dead' \in 0..FailureThreshold
        /\ sinceOpened' \in -1..ResetTimeout
        /\ consecutiveFailures' = dead' /\ (isOpen' => dead' = FailureThreshold)
    BY <2>1, GuardAssumption
       DEF TransportInv, TransportTypeOK, TransportShutForCause, isOpen, UpTo, GuardAssumption
  <2> QED
    BY <1>3, <2>2, SettleKeeps
       DEF TransportFails, TransportInv, TransportTypeOK, TransportShutForCause
<1>4. ASSUME NEW id \in flights, RequestRejected(id) PROVE TransportInv'
  BY <1>4, SettleKeeps
     DEF RequestRejected, TransportInv, TransportTypeOK, TransportShutForCause, isOpen
<1>5. CASE TransportTick
  BY <1>5, GuardAssumption
     DEF TransportTick, TransportInv, TransportTypeOK, TransportShutForCause, isOpen, GuardAssumption
<1> QED BY <1>1, <1>2, <1>3, <1>4, <1>5 DEF TransportNext

(* However many callers there are, and in whatever order their calls end, the
   breaker opens for as many failures as it was told to, counts in half-open
   only successes that came since, and the transport is shut for failures of
   its own requests alone: GuardsSound, for every value of the thresholds. *)
THEOREM GuardsAreSound == GuardsSpec => []GuardsSound
<1>1. BreakerInit /\ TransportInit => GuardsSound
  <2>1. BreakerInit => BreakerInv
    <3>1. BreakerInit => healthy \in BOOLEAN
      BY DEF BreakerInit
    <3>2. BreakerInit => /\ failures = 0 /\ successes = 0 /\ age = ResetTimeout /\ okProbes = 0
                         /\ circuit = "closed" /\ running = {} /\ bad = {}
      BY DEF BreakerInit
    <3> QED
      BY <3>1, <3>2, GuardAssumption
         DEF BreakerInv, BreakerTypeOK, BreakerSound, GuardAssumption
  <2>2. TransportInit => TransportInv
    BY GuardAssumption
       DEF TransportInit, TransportInv, TransportTypeOK, TransportShutForCause, isOpen, GuardAssumption
  <2> QED BY <2>1, <2>2, GuardsSoundParts
<1>2. GuardsSound /\ [GuardsNext]_guardVars => GuardsSound'
  <2> SUFFICES ASSUME GuardsSound, [GuardsNext]_guardVars PROVE GuardsSound'
    OBVIOUS
  <2>1. BreakerInv /\ TransportInv
    BY GuardsSoundParts
  <2>2. UNCHANGED breakerVars => BreakerInv'
    BY <2>1 DEF breakerVars, BreakerInv, BreakerTypeOK, BreakerSound
  <2>3. UNCHANGED transportVars => TransportInv'
    BY <2>1 DEF transportVars, TransportInv, TransportTypeOK, TransportShutForCause, isOpen
  <2>4. BreakerInv' /\ TransportInv'
    BY <2>1, <2>2, <2>3, BreakerStep, TransportStep DEF GuardsNext, guardVars
  <2>5. GuardsSound' <=> BreakerInv' /\ TransportInv'
    BY GuardsSoundParts, PTL
  <2> QED BY <2>4, <2>5
<1> QED BY <1>1, <1>2, PTL DEF GuardsSpec

----------------------------------------------------------------------------
(* The preflight.  What is told of an error is a matter of the error alone; the
   gas, and what a write goes on after, of where the write is. *)

Ops == {"estimate", "simulate", "write"}

(* What an error says, it says in one of its one or two nodes. *)
LEMMA ThrownNodes ==
  ASSUME NEW e \in Thrown
  PROVE  /\ DOMAIN e = 1..Len(e) /\ Len(e) \in 1..2 /\ e # <<>>
         /\ \A k \in DOMAIN e : e[k].says \subseteq wordsOf(e)
         /\ e[1].says \subseteq wordsOf(e) /\ e[Len(e)].says \subseteq wordsOf(e)
  BY PreflightAssumption DEF PreflightAssumption, wordsOf

(* What each operation makes of an error. *)
LEMMA ErrorOfEach ==
  ASSUME NEW e
  PROVE  /\ errorOf("estimate", e) = classifyGasEstimationError(e)
         /\ errorOf("simulate", e) = classifyContractError(e)
         /\ errorOf("write", e) = classifyWriteError(e)
<1>1. errorOf("estimate", e) = classifyGasEstimationError(e)
  BY Zenon DEF errorOf
<1>2. errorOf("simulate", e) = classifyContractError(e)
  BY Zenon DEF errorOf
<1>3. errorOf("write", e) = classifyWriteError(e)
  BY Zenon DEF errorOf
<1> QED
  BY <1>1, <1>2, <1>3

(* The reason of a revert is said by one of its nodes. *)
LEMMA ReasonIsSaid ==
  ASSUME NEW e \in Thrown
  PROVE  executionFailureReason(e) \subseteq wordsOf(e)
<1> DEFINE inOrder == IF Len(e) = 2 /\ isCore(e[1]) /\ e[2].class = "revert" THEN <<e[2], e[1]>> ELSE e
           gives(node) == reverted(node) /\ ~(node.class = "revert" /\ node.says = {})
           giving == {k \in DOMAIN inOrder : gives(inOrder[k])}
           first == CHOOSE k \in giving : \A j \in giving : k <= j
<1>1. DOMAIN inOrder \subseteq {1, 2} /\ \A k \in DOMAIN inOrder : inOrder[k].says \subseteq wordsOf(e)
  BY ThrownNodes
<1>2. CASE giving = {}
  BY <1>2 DEF executionFailureReason
<1>3. CASE giving # {}
  <2>1. \E k \in giving : \A j \in giving : k <= j
    BY <1>1, <1>3
  <2>2. first \in DOMAIN inOrder
    BY <2>1
  <2>3. executionFailureReason(e) = inOrder[first].says \ {"reverted"}
    BY <1>3 DEF executionFailureReason
  <2> QED
    BY <1>1, <2>2, <2>3
<1> QED
  BY <1>2, <1>3

LEMMA Candidates ==
  ASSUME NEW e \in Thrown, NEW op \in Ops
  PROVE  getMessageCandidates(op, e) =
           IF errorOf(op, e) = "SimulationFailedError" THEN executionFailureReason(e)
           ELSE wordsOf(e) \union (IF hasClass(e, "funds") THEN {"funds"} ELSE {})
  BY DEF getMessageCandidates

(* A lack of funds is told only of an error that says so. *)
LEMMA FundsAreSaid ==
  ASSUME NEW e \in Thrown, NEW op \in Ops, toUserFacingTxError(op, e) = "insufficient-funds"
  PROVE  \/ hasClass(e, "funds") \/ wordsOf(e) \intersect {"funds", "balance"} # {}
         \/ {"allowance", "params"} \subseteq wordsOf(e)
<1>1. CASE errorOf(op, e) = "InsufficientFundsError"
  <2>1. isInsufficientFunds(e)
    BY <1>1, ErrorOfEach DEF Ops, classifyGasEstimationError, classifyContractError, classifyWriteError, CommonError
  <2> QED
    BY <2>1, ThrownNodes DEF isInsufficientFunds
<1>2. CASE isInferredInsufficientFundsError(op, e)
  <2>1. getMessageCandidates(op, e) \subseteq wordsOf(e) \union (IF hasClass(e, "funds") THEN {"funds"} ELSE {})
    BY ReasonIsSaid, Candidates
  <2> QED
    BY <1>2, <2>1 DEF isInferredInsufficientFundsError
<1> QED
  BY <1>1, <1>2 DEF toUserFacingTxError

(* To try again is advised only when memory was short or a raw transaction could
   not be decoded. *)
LEMMA RetryIsSaid ==
  ASSUME NEW e \in Thrown, NEW op \in Ops, toUserFacingTxError(op, e) = "retryable"
  PROVE  wordsOf(e) \intersect {"memory", "undecodable"} # {}
<1>1. errorOf(op, e) \in {"TransactionSubmissionError", "ResourceExhaustionError"}
  BY DEF toUserFacingTxError
<1>2. isResourceExhaustion(e) \/ isRawTransactionDecodingError(e)
  BY <1>1, ErrorOfEach DEF Ops, classifyGasEstimationError, classifyContractError, classifyWriteError, CommonError
<1> QED
  BY <1>2, ThrownNodes DEF isResourceExhaustion, isRawTransactionDecodingError, says

LEMMA CancelledIsDeclined ==
  ASSUME NEW e \in Thrown, NEW op \in Ops
  PROVE  toUserFacingTxError(op, e) = "cancelled" <=> isUserRejection(e)
  BY ErrorOfEach DEF toUserFacingTxError, Ops, classifyGasEstimationError, classifyContractError,
         classifyWriteError, CommonError

(* Which step threw an error makes no difference where nothing was recognised in
   it, and none where something was. *)
LEMMA SameWhereverThrown ==
  ASSUME NEW e \in Thrown, NEW op \in Ops, NEW at \in Ops,
         ~("write" \in {op, at} /\ isRawTransactionDecodingError(e)),
         ~("simulate" \in {op, at} /\ classifyContractError(e) = "SimulationFailedError")
  PROVE  toUserFacingTxError(op, e) = toUserFacingTxError(at, e)
<1> DEFINE candidates == wordsOf(e) \union (IF hasClass(e, "funds") THEN {"funds"} ELSE {})
           inferred == "funds" \in candidates \/ {"allowance", "params"} \subseteq candidates
<1>1. ASSUME NEW o \in {op, at}
      PROVE  errorOf(o, e) # "SimulationFailedError"
  BY <1>1, ErrorOfEach DEF Ops, classifyGasEstimationError, classifyContractError, classifyWriteError, CommonError
<1>2. ASSUME NEW o \in {op, at}
      PROVE  isInferredInsufficientFundsError(o, e) = inferred
  BY <1>1, <1>2, Candidates DEF isInferredInsufficientFundsError
<1>3. CASE CommonError(e) # "none"
  <2>1. errorOf(op, e) = CommonError(e) /\ errorOf(at, e) = CommonError(e)
    BY <1>3, ErrorOfEach DEF Ops, classifyGasEstimationError, classifyContractError, classifyWriteError
  <2> QED
    BY <1>2, <2>1 DEF toUserFacingTxError
<1>4. CASE CommonError(e) = "none"
  <2>1. ASSUME NEW o \in {op, at}
        PROVE  errorOf(o, e) \in {"GasEstimationError", "ContractReadError", "ContractWriteError"}
    BY <1>4, <2>1, ErrorOfEach DEF Ops, classifyGasEstimationError, classifyContractError, classifyWriteError
  <2>2. ASSUME NEW o \in {op, at}
        PROVE  toUserFacingTxError(o, e) = IF inferred THEN "insufficient-funds" ELSE "tx-failed"
    <3> HIDE DEF inferred
    <3> QED
      BY <1>2, <2>1, <2>2 DEF toUserFacingTxError
  <2> QED
    BY <2>2
<1> QED
  BY <1>3, <1>4

(* A multiplier of at least one never lowers the estimate, and gas is a number. *)
LEMMA MultiplierRaises ==
  ASSUME multiplier \in Int, NEW gas \in Nat
  PROVE  /\ applyGasLimitMultiplier(gas) \in Nat
         /\ multiplier >= 10000 => applyGasLimitMultiplier(gas) >= gas
<1>1. CASE multiplier < 0
  BY <1>1 DEF applyGasLimitMultiplier
<1>2. CASE multiplier >= 0
  <2> DEFINE product == gas * multiplier
  <2>1. product \in Nat
    BY <1>2
  <2>2. multiplier >= 10000 => product >= gas * 10000
    <3> SUFFICES ASSUME multiplier >= 10000 PROVE product >= gas * 10000
      OBVIOUS
    <3>1. multiplier - 10000 \in Nat /\ gas * (multiplier - 10000) \in Nat
      OBVIOUS
    <3>2. product = gas * 10000 + gas * (multiplier - 10000)
      OBVIOUS
    <3> QED
      BY <2>1, <3>1, <3>2
  <2>3. applyGasLimitMultiplier(gas) = product \div 10000
    BY <1>2 DEF applyGasLimitMultiplier
  <2> HIDE DEF product
  <2>4. product \div 10000 \in Nat /\ (product >= gas * 10000 => product \div 10000 >= gas)
    BY <2>1
  <2> QED
    BY <2>2, <2>3, <2>4
<1> QED
  BY <1>1, <1>2

(* Where a write is, what it found out on the way, and the gas it goes with. *)
PreflightInv ==
    /\ mode \in {"strict", "best-effort", "none"}
    /\ explicitGas \in ExplicitGas \union {NoGas} /\ multiplier \in Int
    /\ writeAt \in Ops \union {"sent", "failed"}
    /\ estimated \in Nat \union {NoGas}
    /\ warning \in {"no", "none"}
    /\ thrown # <<>> => thrown \in Thrown /\ failedAt \in Ops
    /\ finalGas = IF explicitGas # NoGas \/ estimated = NoGas
                    THEN explicitGas ELSE applyGasLimitMultiplier(estimated)
    /\ writeAt = "estimate" => estimated = NoGas
    /\ writeAt = "simulate" => estimated # NoGas
    /\ mode = "strict" /\ writeAt \in {"write", "sent"} => estimated # NoGas

LEMMA PreflightInitially == PreflightInit => PreflightInv
<1>1. ExplicitGas \subseteq Nat /\ Multipliers \subseteq Int
  BY PreflightAssumption DEF PreflightAssumption
<1> SUFFICES ASSUME PreflightInit PROVE PreflightInv
  OBVIOUS
<1>2. estimated = NoGas /\ finalGas = explicitGas /\ thrown = <<>> /\ warning = "no"
  BY DEF PreflightInit
<1>3. /\ mode \in {"strict", "best-effort", "none"} /\ multiplier \in Int
      /\ explicitGas \in ExplicitGas \union {NoGas}
  BY <1>1 DEF PreflightInit
<1>4. writeAt \in {"estimate", "write"} /\ (mode = "strict" => writeAt = "estimate")
  BY DEF PreflightInit
<1> QED
  <2>1. thrown # <<>> => thrown \in Thrown /\ failedAt \in Ops
    BY <1>2
  <2>2. writeAt \in Ops \union {"sent", "failed"} /\ writeAt # "simulate"
        /\ ~(mode = "strict" /\ writeAt \in {"write", "sent"})
    BY <1>4 DEF Ops
  <2> QED
    BY <1>2, <1>3, <2>1, <2>2 DEF PreflightInv

LEMMA PreflightStep ==
  ASSUME PreflightInv, PreflightNext
  PROVE  PreflightInv'
<1>1. ASSUME NEW gas \in Estimates, Estimated(gas) PROVE PreflightInv'
  BY <1>1, PreflightAssumption
     DEF PreflightInv, Estimated, applyGasLimitMultiplier, PreflightAssumption, Ops
<1>2. CASE Simulated \/ Written
  BY <1>2 DEF PreflightInv, Simulated, Written, applyGasLimitMultiplier, Ops
<1>3. ASSUME writeAt \in Ops, NEW e \in Thrown, Throws(e) PROVE PreflightInv'
  <2>1. CASE GoesOn(e) /\ warning' = CommonError(e) /\ writeAt' = "write" /\ UNCHANGED <<thrown, failedAt>>
    <3>1. CommonError(e) = "none"
      BY <1>3, <2>1, ErrorOfEach
         DEF GoesOn, isRecoverablePreflightError, Ops, classifyGasEstimationError,
             classifyContractError, CommonError
    <3> QED
      BY <1>3, <2>1, <3>1 DEF PreflightInv, Throws, GoesOn, applyGasLimitMultiplier, Ops
  <2>2. CASE ~GoesOn(e) /\ thrown' = e /\ failedAt' = writeAt /\ writeAt' = "failed" /\ UNCHANGED warning
    BY <1>3, <2>2 DEF PreflightInv, Throws, applyGasLimitMultiplier, Ops
  <2> QED
    BY <1>3, <2>1, <2>2 DEF Throws
<1> QED
  BY <1>1, <1>2, <1>3 DEF PreflightNext, Ops

LEMMA PreflightInvSound == PreflightInv => PreflightSound
<1> SUFFICES ASSUME PreflightInv PROVE PreflightSound
  OBVIOUS
<1>1. explicitGas # NoGas => finalGas = explicitGas
  BY DEF PreflightInv
<1>2. explicitGas = NoGas /\ estimated # NoGas /\ multiplier >= 10000 => finalGas >= estimated
  BY MultiplierRaises DEF PreflightInv
<1>3. writeAt = "sent" /\ mode = "strict" => finalGas # NoGas
  BY MultiplierRaises, PreflightAssumption DEF PreflightInv, PreflightAssumption
<1>4. ASSUME thrown # <<>>
      PROVE  LET result == toUserFacingTxError(failedAt, thrown)
                 words == wordsOf(thrown)
             IN /\ \A op \in {"estimate", "simulate", "write"} :
                     \/ toUserFacingTxError(op, thrown) = result
                     \/ "write" \in {op, failedAt} /\ isRawTransactionDecodingError(thrown)
                     \/ "simulate" \in {op, failedAt} /\ classifyContractError(thrown) = "SimulationFailedError"
                /\ result = "insufficient-funds" =>
                     \/ hasClass(thrown, "funds") \/ words \intersect {"funds", "balance"} # {}
                     \/ {"allowance", "params"} \subseteq words
                /\ result = "retryable" => words \intersect {"memory", "undecodable"} # {}
                /\ result = "cancelled" <=> isUserRejection(thrown)
  <2>1. thrown \in Thrown /\ failedAt \in Ops
    BY <1>4 DEF PreflightInv
  <2> QED
    BY <2>1, SameWhereverThrown, FundsAreSaid, RetryIsSaid, CancelledIsDeclined DEF Ops
<1>5. warning \in {"no", "none"}
  BY DEF PreflightInv
<1> QED
  BY <1>1, <1>2, <1>3, <1>4, <1>5 DEF PreflightSound

THEOREM PreflightIsSound == PreflightSpec => []PreflightSound
<1>1. PreflightInv /\ UNCHANGED preflightVars => PreflightInv'
  BY DEF PreflightInv, preflightVars, applyGasLimitMultiplier
<1>2. PreflightInv /\ [PreflightNext]_preflightVars => PreflightInv'
  BY <1>1, PreflightStep
<1> QED
  BY PreflightInitially, <1>2, PreflightInvSound, PTL DEF PreflightSpec

----------------------------------------------------------------------------
(* Fees.  Amounts first: a limit may cut what is offered, and a bump outbids. *)

Limits == Nat \union {Unset}

LEMMA MultiplierIsNat == \A speed \in Speeds : Multiplier[speed] \in 90..150
BY DEF Speeds, Multiplier

LEMMA TipStays ==
  ASSUME NEW tip \in Nat, NEW speed \in Speeds
  PROVE  tipFor(tip, speed) \in Nat /\ (tip > 0 => tipFor(tip, speed) > 0)
<1>1. Multiplier[speed] = 90 \/ Multiplier[speed] = 100 \/ Multiplier[speed] = 125 \/ Multiplier[speed] = 150
  BY DEF Speeds, Multiplier
<1> QED BY <1>1 DEF tipFor

(* What every estimate gives: a fee that is no less than the tip. *)
LEMMA EstimatesFit ==
  ASSUME NEW speed \in Speeds, NEW estimate \in getAllFeeEstimates(speed)
  PROVE  /\ estimate.maxFeePerGas \in Nat /\ estimate.maxPriorityFeePerGas \in Nat
         /\ estimate.maxPriorityFeePerGas <= estimate.maxFeePerGas
         /\ orElse(estimate.gasPrice, estimate.maxFeePerGas) \in Nat
<1>1. CASE \E price \in Amounts : estimate = getLegacyFeeEstimates(price, speed)
  <2>1. PICK price \in Amounts : estimate = getLegacyFeeEstimates(price, speed)
    BY <1>1
  <2>2. price \in Nat /\ Multiplier[speed] \in 90..150
    BY FeesAssumption, MultiplierIsNat
  <2>3. price * Multiplier[speed] \in Nat
    BY <2>2
  <2>4. (price * Multiplier[speed]) \div 100 \in Nat
    BY <2>3
  <2>5. /\ estimate.gasPrice = (price * Multiplier[speed]) \div 100
        /\ estimate.maxFeePerGas = (price * Multiplier[speed]) \div 100
        /\ estimate.maxPriorityFeePerGas = 0
    BY <2>1 DEF getLegacyFeeEstimates
  <2> QED BY <2>4, <2>5 DEF orElse
<1>2. CASE \E base, tip \in Amounts : estimate = makeEstimate(base, tip, speed)
  <2>1. PICK base \in Amounts, tip \in Amounts : estimate = makeEstimate(base, tip, speed)
    BY <1>2
  <2>2. base \in Nat /\ tipFor(tip, speed) \in Nat
    BY FeesAssumption, TipStays
  <2>3. /\ estimate.gasPrice = Unset
        /\ estimate.maxFeePerGas = 2 * base + tipFor(tip, speed)
        /\ estimate.maxPriorityFeePerGas = tipFor(tip, speed)
    BY <2>1 DEF makeEstimate
  <2> QED BY <2>2, <2>3 DEF orElse
<1> QED BY <1>1, <1>2 DEF getAllFeeEstimates

LEMMA CapCuts ==
  ASSUME NEW value \in Nat, NEW limit \in Limits
  PROVE  /\ cap(value, limit) \in Nat /\ cap(value, limit) <= value
         /\ limit # Unset => cap(value, limit) <= limit
         /\ cap(value, limit) = value \/ (limit # Unset /\ cap(value, limit) = limit)
BY FeesAssumption DEF cap, Limits

LEMMA BumpRaises ==
  ASSUME NEW value \in Nat
  PROVE  /\ bumpByPercent(value) \in Nat
         /\ value > 0 => bumpByPercent(value) > value
         /\ 100 * bumpByPercent(value) >= 110 * value
<1> DEFINE q == (value * 11250 + 9999) \div 10000
<1>1. q \in Nat /\ 10000 * q >= 11250 * value
  OBVIOUS
<1> QED BY <1>1 DEF bumpByPercent

LEMMA BumpMonotone ==
  ASSUME NEW x \in Nat, NEW y \in Nat, x <= y
  PROVE  bumpByPercent(x) <= bumpByPercent(y)
BY DEF bumpByPercent

(* A replacement's field, as computeFeeBump makes it. *)
RaisedTo(old, suggested, limit) ==
    cap(larger(bumpByPercent(orElse(old, suggested)), suggested), limit)

LEMMA RaisedOutbids ==
  ASSUME NEW old \in Limits, NEW suggested \in Nat, NEW limit \in Limits
  PROVE  LET new == RaisedTo(old, suggested, limit)
         IN /\ new \in Nat /\ (limit # Unset => new <= limit)
            /\ old # Unset => \/ new = limit
                              \/ new > old /\ 100 * new >= 110 * old
                              \/ new = 0 /\ old = 0
<1> DEFINE was == orElse(old, suggested)
           raised == larger(bumpByPercent(was), suggested)
<1>1. was \in Nat /\ (old # Unset => was = old)
  BY DEF orElse, Limits
<1>2. /\ bumpByPercent(was) \in Nat /\ (was > 0 => bumpByPercent(was) > was)
      /\ 100 * bumpByPercent(was) >= 110 * was
  BY <1>1, BumpRaises
<1>3. raised \in Nat /\ raised >= bumpByPercent(was)
  BY <1>2 DEF larger
<1>4. was > 0 => raised > was /\ 100 * raised >= 110 * was
  BY <1>1, <1>2, <1>3
<1> HIDE DEF was, raised
<1>5. /\ cap(raised, limit) \in Nat /\ (limit # Unset => cap(raised, limit) <= limit)
      /\ cap(raised, limit) = raised \/ cap(raised, limit) = limit
  BY <1>3, CapCuts
<1>6. RaisedTo(old, suggested, limit) = cap(raised, limit)
  BY DEF RaisedTo, raised, was
<1>7. raised = 0 \/ raised > 0
  BY <1>3
<1>8. was = 0 => (raised > was /\ 100 * raised >= 110 * was) \/ raised = 0
  BY <1>3, <1>7
<1>9. was = 0 \/ was > 0
  BY <1>1
<1> QED BY <1>1, <1>4, <1>5, <1>6, <1>8, <1>9

(* The fee stays no less than the tip, unless the policy cuts it. *)
LEMMA RaisedFits ==
  ASSUME NEW fee \in Nat, NEW tip \in Nat, tip <= fee,
         NEW fees \in Nat, NEW tips \in Nat, tips <= fees,
         NEW feeLimit \in Limits, NEW tipLimit \in Limits
  PROVE  \/ RaisedTo(tip, tips, tipLimit) <= RaisedTo(fee, fees, feeLimit)
         \/ feeLimit # Unset /\ RaisedTo(fee, fees, feeLimit) = feeLimit
<1> DEFINE up(x, y) == larger(bumpByPercent(x), y)
<1>1. orElse(fee, fees) = fee /\ orElse(tip, tips) = tip
  BY FeesAssumption DEF orElse
<1>2. bumpByPercent(tip) \in Nat /\ bumpByPercent(fee) \in Nat /\ bumpByPercent(tip) <= bumpByPercent(fee)
  BY BumpRaises, BumpMonotone
<1>3. up(tip, tips) \in Nat /\ up(fee, fees) \in Nat /\ up(tip, tips) <= up(fee, fees)
  BY <1>2 DEF larger
<1>4. RaisedTo(tip, tips, tipLimit) = cap(up(tip, tips), tipLimit)
      /\ RaisedTo(fee, fees, feeLimit) = cap(up(fee, fees), feeLimit)
  BY <1>1 DEF RaisedTo
<1> HIDE DEF up
<1>5. /\ cap(up(tip, tips), tipLimit) \in Nat /\ cap(up(tip, tips), tipLimit) <= up(tip, tips)
      /\ \/ cap(up(fee, fees), feeLimit) = up(fee, fees)
         \/ feeLimit # Unset /\ cap(up(fee, fees), feeLimit) = feeLimit
  BY <1>3, CapCuts
<1> QED BY <1>3, <1>4, <1>5

FeesInv ==
    /\ override \in Overrides /\ policy \in Policies
    /\ feeAt \in {"deriving", "sent", "failed"} /\ bumps \in Nat
    /\ offer \in Offer /\ lastOffer \in Offer
    /\ feeAt # "sent" => bumps = 0
    /\ FeesSound

LEMMA Configured ==
  ASSUME FeesInv
  PROVE  /\ policy.speed \in Speeds /\ override.offer \in Offer
         /\ policy.maxFeePerGas \in Limits /\ policy.maxPriorityFeePerGas \in Limits
         /\ override.type \in {Unset, "legacy", "eip2930", "eip1559"}
         /\ policy.txType \in {Unset, "legacy", "eip1559"}
BY FeesAssumption DEF FeesInv, Limits

(* The tip's multiple, for every amount the chain answers with. *)
LEMMA TipsStay == \A tip \in Amounts, speed \in Speeds : tip > 0 => tipFor(tip, speed) > 0
BY TipStays, FeesAssumption

LEMMA FeesInitially == FeesInit => FeesInv
BY TipsStay, FeesAssumption DEF FeesInit, FeesInv, FeesSound, NoOffer, Offer

LEMMA OfferFields ==
  ASSUME NEW a, NEW b
  PROVE  /\ Legacy(a)["gasPrice"] = a /\ Legacy(a)["maxFeePerGas"] = Unset
         /\ Legacy(a)["maxPriorityFeePerGas"] = Unset
         /\ Dynamic(a, b)["gasPrice"] = Unset /\ Dynamic(a, b)["maxFeePerGas"] = a
         /\ Dynamic(a, b)["maxPriorityFeePerGas"] = b
         /\ a \in Limits => Legacy(a) \in Offer
         /\ a \in Limits /\ b \in Limits => Dynamic(a, b) \in Offer
<1>1. Legacy(a) = [f \in Fields |-> IF f = "gasPrice" THEN a ELSE Unset]
  BY DEF Legacy, NoOffer
<1>2. Dynamic(a, b) = [f \in Fields |-> IF f = "maxFeePerGas" THEN a ELSE
                                        IF f = "maxPriorityFeePerGas" THEN b ELSE Unset]
  BY DEF Dynamic, NoOffer, Fields
<1> QED BY <1>1, <1>2 DEF Fields, Offer, Limits

LEMMA ReplaceKeeps ==
  ASSUME FeesInv, Replace
  PROVE  FeesInv'
<1> DEFINE maxFee == policy.maxFeePerGas
           maxTip == policy.maxPriorityFeePerGas
<1>1. PICK estimate \in getAllFeeEstimates(policy.speed) : offer' = computeFeeBump(estimate)
  BY DEF Replace
<1> DEFINE price == orElse(estimate.gasPrice, estimate.maxFeePerGas)
           fees == estimate.maxFeePerGas
           tips == estimate.maxPriorityFeePerGas
<1>2. fees \in Nat /\ tips \in Nat /\ tips <= fees /\ price \in Nat
  BY EstimatesFit, Configured
<1>3. /\ offer["gasPrice"] \in Limits /\ offer["maxFeePerGas"] \in Limits
      /\ offer["maxPriorityFeePerGas"] \in Limits
      /\ maxFee \in Limits /\ maxTip \in Limits
  BY Configured DEF FeesInv, Offer, Fields, Limits
<1>4. offer' = IF txType # "eip1559" THEN Legacy(RaisedTo(offer["gasPrice"], price, maxFee))
               ELSE Dynamic(RaisedTo(offer["maxFeePerGas"], fees, maxFee),
                            RaisedTo(offer["maxPriorityFeePerGas"], tips, maxTip))
  BY <1>1 DEF computeFeeBump, RaisedTo
<1>5. /\ feeAt = "sent" /\ fits(txType, offer) /\ lastOffer' = offer /\ bumps' = bumps + 1
      /\ txType = "eip1559" => offer["maxFeePerGas"] # Unset /\ offer["maxPriorityFeePerGas"] # Unset
      /\ txType' = (IF txType = "eip1559" THEN "eip1559" ELSE "legacy")
      /\ UNCHANGED <<override, policy, hasBaseFee, feeAt>>
  BY DEF Replace
<1> HIDE DEF price, fees, tips
<1>a. capOf("gasPrice") = maxFee /\ capOf("maxFeePerGas") = maxFee /\ capOf("maxPriorityFeePerGas") = maxTip
  BY DEF capOf
<1>b. \A f \in Fields : capOf(f)' = capOf(f)
  BY <1>5 DEF capOf
<1>c. \A f \in Fields : f = "gasPrice" \/ f = "maxFeePerGas" \/ f = "maxPriorityFeePerGas"
  BY DEF Fields
<1> HIDE DEF maxFee, maxTip
<1>6. CASE txType # "eip1559"
  <2> DEFINE new == RaisedTo(offer["gasPrice"], price, maxFee)
  <2>1. /\ new \in Nat /\ (maxFee # Unset => new <= maxFee)
        /\ offer["gasPrice"] # Unset => \/ new = maxFee
                                        \/ new > offer["gasPrice"] /\ 100 * new >= 110 * offer["gasPrice"]
                                        \/ new = 0 /\ offer["gasPrice"] = 0
    BY <1>2, <1>3, RaisedOutbids
  <2>2. offer' = Legacy(new)
    BY <1>4, <1>6
  <2> HIDE DEF new
  <2>3. /\ offer'["gasPrice"] = new /\ offer'["maxFeePerGas"] = Unset
        /\ offer'["maxPriorityFeePerGas"] = Unset /\ offer' \in Offer
    BY <2>1, <2>2, OfferFields DEF Limits
  <2>4. offer["maxFeePerGas"] = Unset /\ offer["maxPriorityFeePerGas"] = Unset
    BY <1>5, <1>6 DEF fits
  <2>5. fits(txType, offer)'
    BY <1>5, <1>6, <2>3 DEF fits
  <2>6. \A f \in Fields : lastOffer'[f] # Unset =>
          Outbids(f)' \/ offer'[f] = capOf(f)' \/ (offer'[f] = 0 /\ lastOffer'[f] = 0)
    BY <1>5, <1>a, <1>b, <1>c, <2>1, <2>3, <2>4 DEF Outbids
  <2>7. \A f \in Fields : offer'[f] # Unset /\ capOf(f)' # Unset => offer'[f] <= capOf(f)'
    BY <1>a, <1>b, <1>c, <2>1, <2>3
  <2> QED BY <1>5, <2>3, <2>5, <2>6, <2>7, TipsStay DEF FeesInv, FeesSound
<1>7. CASE txType = "eip1559"
  <2> DEFINE fee == RaisedTo(offer["maxFeePerGas"], fees, maxFee)
             tip == RaisedTo(offer["maxPriorityFeePerGas"], tips, maxTip)
  <2>1. /\ offer["gasPrice"] = Unset /\ offer["maxFeePerGas"] \in Nat
        /\ offer["maxPriorityFeePerGas"] \in Nat
        /\ offer["maxPriorityFeePerGas"] <= offer["maxFeePerGas"]
    BY <1>3, <1>5, <1>7 DEF fits, Limits
  <2>2. /\ fee \in Nat /\ (maxFee # Unset => fee <= maxFee)
        /\ offer["maxFeePerGas"] # Unset =>
             \/ fee = maxFee
             \/ fee > offer["maxFeePerGas"] /\ 100 * fee >= 110 * offer["maxFeePerGas"]
             \/ fee = 0 /\ offer["maxFeePerGas"] = 0
    BY <1>2, <1>3, RaisedOutbids
  <2>3. /\ tip \in Nat /\ (maxTip # Unset => tip <= maxTip)
        /\ offer["maxPriorityFeePerGas"] # Unset =>
             \/ tip = maxTip
             \/ tip > offer["maxPriorityFeePerGas"] /\ 100 * tip >= 110 * offer["maxPriorityFeePerGas"]
             \/ tip = 0 /\ offer["maxPriorityFeePerGas"] = 0
    BY <1>2, <1>3, RaisedOutbids
  <2>4. tip <= fee \/ (maxFee # Unset /\ fee = maxFee)
    BY <1>2, <1>3, <2>1, RaisedFits
  <2>5. offer' = Dynamic(fee, tip)
    BY <1>4, <1>7
  <2> HIDE DEF fee, tip
  <2>6. /\ offer'["gasPrice"] = Unset /\ offer'["maxFeePerGas"] = fee
        /\ offer'["maxPriorityFeePerGas"] = tip /\ offer' \in Offer
    BY <2>2, <2>3, <2>5, OfferFields DEF Limits
  <2>7. (fits(txType, offer) \/ CutShort)'
    BY <1>5, <1>7, <2>4, <2>6 DEF fits, CutShort, maxFee
  <2>8. \A f \in Fields : lastOffer'[f] # Unset =>
          Outbids(f)' \/ offer'[f] = capOf(f)' \/ (offer'[f] = 0 /\ lastOffer'[f] = 0)
    BY <1>5, <1>a, <1>b, <1>c, <2>1, <2>2, <2>3, <2>6 DEF Outbids
  <2>9. \A f \in Fields : offer'[f] # Unset /\ capOf(f)' # Unset => offer'[f] <= capOf(f)'
    BY <1>a, <1>b, <1>c, <2>2, <2>3, <2>6
  <2> QED BY <1>5, <2>6, <2>7, <2>8, <2>9, TipsStay DEF FeesInv, FeesSound
<1> QED BY <1>6, <1>7

(* The first transaction: the fields that are derived, and those of the caller. *)
LEMMA DeriveKeeps ==
  ASSUME FeesInv, Derive
  PROVE  FeesInv'
<1> DEFINE given == override.offer
           maxFee == policy.maxFeePerGas
           maxTip == policy.maxPriorityFeePerGas
<1>1. /\ feeAt = "deriving" /\ bumps = 0 /\ bumps' = 0
      /\ UNCHANGED <<override, policy, hasBaseFee, lastOffer>>
  BY DEF Derive, FeesInv
<1>2. CASE feeAt' = "failed" /\ UNCHANGED <<txType, offer>>
  BY <1>1, <1>2, TipsStay DEF FeesInv, FeesSound
<1>3. ASSUME NEW estimate \in getAllFeeEstimates(policy.speed),
             feeAt' = "sent", txType' = deriveTxType, offer' = deriveBaseOverrides(estimate)
      PROVE  FeesInv'
  <2> DEFINE fees == estimate.maxFeePerGas
             tips == estimate.maxPriorityFeePerGas
             price == orElse(estimate.gasPrice, estimate.maxFeePerGas)
             derived == deriveFeeOverrides(estimate)
  <2>1. fees \in Nat /\ tips \in Nat /\ tips <= fees /\ price \in Nat
    BY <1>3, EstimatesFit, Configured
  <2>2. /\ given["gasPrice"] \in Limits /\ given["maxFeePerGas"] \in Limits
        /\ given["maxPriorityFeePerGas"] \in Limits /\ given \in [Fields -> Limits]
        /\ maxFee \in Limits /\ maxTip \in Limits
    BY Configured DEF Offer, Fields, Limits
  <2>3. derived =
          IF given["gasPrice"] # Unset THEN Legacy(given["gasPrice"])
          ELSE IF given["maxFeePerGas"] # Unset
            THEN Dynamic(given["maxFeePerGas"], given["maxPriorityFeePerGas"])
          ELSE IF deriveTxType \in {"legacy", "eip2930"} THEN Legacy(cap(price, maxFee))
          ELSE Dynamic(cap(fees, maxFee), orElse(given["maxPriorityFeePerGas"], cap(tips, maxTip)))
    BY DEF deriveFeeOverrides
  <2>4. offer' = [f \in Fields |->
                    IF (IF derived["gasPrice"] # Unset THEN f = "gasPrice" ELSE f # "gasPrice")
                    THEN derived[f] ELSE given[f]]
    BY <1>3 DEF deriveBaseOverrides
  <2>5. /\ cap(price, maxFee) \in Nat /\ cap(fees, maxFee) \in Nat /\ cap(tips, maxTip) \in Nat
        /\ maxFee # Unset => cap(price, maxFee) <= maxFee /\ cap(fees, maxFee) <= maxFee
        /\ maxTip # Unset => cap(tips, maxTip) <= maxTip
        /\ cap(tips, maxTip) <= tips
        /\ cap(fees, maxFee) = fees \/ (maxFee # Unset /\ cap(fees, maxFee) = maxFee)
    BY <2>1, <2>2, CapCuts
  <2> HIDE DEF fees, tips, price, derived, given, maxFee, maxTip
  <2>6. derived \in Offer
    <3>1. orElse(given["maxPriorityFeePerGas"], cap(tips, maxTip)) \in Limits
      BY <2>2, <2>5 DEF orElse, Limits
    <3> QED BY <2>2, <2>3, <2>5, <3>1, OfferFields DEF Limits
  <2>7. offer' \in Offer
    BY <2>2, <2>4, <2>6 DEF Offer, Limits
  <2>8. /\ offer'["gasPrice"] = IF derived["gasPrice"] # Unset THEN derived["gasPrice"] ELSE given["gasPrice"]
        /\ \A f \in {"maxFeePerGas", "maxPriorityFeePerGas"} :
             offer'[f] = IF derived["gasPrice"] # Unset THEN given[f] ELSE derived[f]
    BY <2>4 DEF Fields
  <2>9. ASSUME given = NoOffer
        PROVE  /\ fits(txType, offer)' \/ CutShort'
               /\ \A f \in Fields : offer'[f] # Unset /\ capOf(f)' # Unset => offer'[f] <= capOf(f)'
    <3>1. /\ given["gasPrice"] = Unset /\ given["maxFeePerGas"] = Unset
          /\ given["maxPriorityFeePerGas"] = Unset
      BY <2>9 DEF NoOffer, Fields
    <3>2. /\ capOf("gasPrice")' = maxFee /\ capOf("maxFeePerGas")' = maxFee
          /\ capOf("maxPriorityFeePerGas")' = maxTip
      BY <1>1 DEF capOf, maxFee, maxTip
    <3>3. \A f \in Fields : f = "gasPrice" \/ f = "maxFeePerGas" \/ f = "maxPriorityFeePerGas"
      BY DEF Fields
    <3>4. CASE deriveTxType \in {"legacy", "eip2930"}
      <4>1. derived = Legacy(cap(price, maxFee))
        BY <2>3, <3>1, <3>4
      <4>2. cap(price, maxFee) # Unset
        BY <2>5, FeesAssumption
      <4>3. /\ offer'["gasPrice"] = cap(price, maxFee)
            /\ offer'["maxFeePerGas"] = Unset /\ offer'["maxPriorityFeePerGas"] = Unset
        BY <2>8, <3>1, <4>1, <4>2, OfferFields
      <4>4. txType' # "eip1559"
        BY <1>3, <3>4
      <4> QED BY <2>5, <3>2, <3>3, <4>3, <4>4 DEF fits
    <3>5. CASE deriveTxType \notin {"legacy", "eip2930"}
      <4>1. derived = Dynamic(cap(fees, maxFee), cap(tips, maxTip))
        BY <2>3, <3>1, <3>5 DEF orElse
      <4>2. /\ offer'["gasPrice"] = Unset /\ offer'["maxFeePerGas"] = cap(fees, maxFee)
            /\ offer'["maxPriorityFeePerGas"] = cap(tips, maxTip)
        BY <2>8, <3>1, <4>1, OfferFields
      <4>4. cap(tips, maxTip) <= cap(fees, maxFee) \/ (maxFee # Unset /\ cap(fees, maxFee) = maxFee)
        BY <2>1, <2>5
      <4>3. txType' = "eip1559"
        BY <1>3, <3>5, <3>1, Configured DEF deriveTxType, given
      <4> QED BY <1>1, <2>5, <3>2, <3>3, <4>2, <4>3, <4>4 DEF fits, CutShort, maxFee
    <3> QED BY <3>4, <3>5
  <2>10. ASSUME override.type # Unset, fits(override.type, given),
                given["gasPrice"] # Unset \/ given["maxFeePerGas"] # Unset
         PROVE  fits(txType, offer)'
    <3>1. txType' = override.type
      BY <1>3, <2>10 DEF deriveTxType
    <3>2. CASE given["gasPrice"] # Unset
      BY <2>3, <2>8, <2>10, <3>1, <3>2, OfferFields DEF fits
    <3>3. CASE given["gasPrice"] = Unset
      BY <2>3, <2>8, <2>10, <3>1, <3>3, OfferFields DEF fits
    <3> QED BY <3>2, <3>3
  <2>11. Consistent' => fits(txType, offer)' \/ CutShort'
    BY <1>1, <2>9, <2>10 DEF Consistent, given
  <2>12. override'.offer = NoOffer =>
           \A f \in Fields : offer'[f] # Unset /\ capOf(f)' # Unset => offer'[f] <= capOf(f)'
    BY <1>1, <2>9 DEF given
  <2> QED BY <1>1, <1>3, <2>7, <2>11, <2>12, TipsStay DEF FeesInv, FeesSound
<1> QED BY <1>2, <1>3 DEF Derive

(* The nodes take what a consistent caller sends, every replacement outbids the
   last, and the caps of the policy hold: for all amounts, overrides and policies,
   and any number of replacements. *)
THEOREM FeesAreSound == FeesSpec => []FeesSound
<1>1. FeesInv /\ [FeesNext]_feeVars => FeesInv'
  <2> SUFFICES ASSUME FeesInv, [FeesNext]_feeVars PROVE FeesInv'
    OBVIOUS
  <2>1. CASE FeesNext
    BY <2>1, DeriveKeeps, ReplaceKeeps DEF FeesNext
  <2>2. CASE UNCHANGED feeVars
    BY <2>2, TipsStay DEF feeVars, FeesInv, FeesSound, Consistent, CutShort, Outbids, capOf
  <2> QED BY <2>1, <2>2
<1>2. FeesInv => FeesSound
  BY DEF FeesInv
<1> QED BY <1>1, <1>2, FeesInitially, PTL DEF FeesSpec
=============================================================================
