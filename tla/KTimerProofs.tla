---------------------------- MODULE KTimerProofs ----------------------------
(***************************************************************************)
(* Proofs about KTimer for every number of threads and timers, every delay *)
(* and period and any length of time: no timer is forgotten or comes back  *)
(* after delTimer, callbacks are listed on schedule, the set is in order   *)
(* until a timer is cancelled, and the threads do not sleep too long.      *)
(***************************************************************************)
EXTENDS KTimer, SequenceFacts

-----------------------------------------------------------------------------
(* The inductive invariant.                                                *)

TimerObject == [mTime : Nat, mRecycleTime : Nat, mCb : BOOLEAN]

Types ==
    /\ now \in Nat
    /\ timer \in Seq(TimerObject) /\ Len(timer) <= MaxTimers
    /\ made \in Seq(TimerObject) /\ Len(made) = Len(timer)
    /\ mTimers \in Seq(Created) /\ expired \in Seq(Created)
    /\ mTickle \in BOOLEAN /\ eventfd \in BOOLEAN
    /\ at \in [Threads -> {"busy", "near", "wait", "list"}]
    /\ timeout \in [Threads -> Nat] /\ nowMS \in [Threads -> Nat]
    /\ writer \in Threads \cup {NoThread} /\ tickles \in Nat
    /\ listed \in [Id -> Nat] /\ gone \subseteq Created

InSet(i) == \E k \in 1 .. Len(mTimers) : mTimers[k] = i
IsTaken(i) == \E k \in 1 .. Len(expired) : expired[k] = i

(* The timers that have been taken from the set are in the hands of the    *)
(* thread that has the lock, and they are due.                             *)
Listing ==
    /\ \A t \in Threads : nowMS[t] <= now
    /\ IF writer = NoThread THEN expired = <<>> ELSE at[writer] = "list"
    /\ \A i \in Created : IsTaken(i) /\ timer[i].mCb => timer[i].mTime <= now

(* A timer is in one place at a time.                                      *)
Distinct ==
    /\ \A a, b \in 1 .. Len(mTimers) : mTimers[a] = mTimers[b] => a = b
    /\ \A a, b \in 1 .. Len(expired) : expired[a] = expired[b] => a = b
    /\ \A i \in Created : ~(InSet(i) /\ IsTaken(i))

(* NothingForgotten and DeletedStaysOut.                                   *)
Kept ==
    \A i \in Created :
      /\ Live(i) /\ (timer[i].mRecycleTime > 0 \/ listed[i] = 0) => InSet(i) \/ IsTaken(i)
      /\ i \in gone => ~InSet(i) /\ ~IsTaken(i)

(* The time of timer i after it was listed n times.                        *)
Scheduled(i, n) == made[i].mTime + n * made[i].mRecycleTime

(* A timer that was not cancelled has the time its schedule gives it, and  *)
(* it was listed no sooner; one that fires once has then left the set.     *)
InTime ==
    \A i \in Created :
      /\ listed[i] > 0 => Scheduled(i, listed[i] - 1) <= now
      /\ timer[i].mCb => /\ timer[i].mRecycleTime = made[i].mRecycleTime
                         /\ timer[i].mTime = Scheduled(i, listed[i])
      /\ made[i].mRecycleTime = 0 /\ listed[i] > 0 =>
           listed[i] = 1 /\ ~InSet(i) /\ ~IsTaken(i)

Unborn == \A i \in Id \ Created : listed[i] = 0

InOrder ==
    \A a, b \in 1 .. Len(mTimers) : a < b =>
      Before(timer[mTimers[a]].mTime, mTimers[a], timer[mTimers[b]].mTime, mTimers[b])

(* The set is in the order of its comparison until a timer is cancelled.   *)
Sorted == NoneCancelled => InOrder

(* mTickle says that a wake-up is on its way, or that some thread has yet  *)
(* to look at the set before it sleeps.                                    *)
TickleOnItsWay ==
    mTickle => tickles > 0 \/ eventfd \/ \E t \in Threads : at[t] # "wait"

(* NoOversleep, on the places of the set.                                  *)
WakesInTime ==
    NoneCancelled /\ (\A t \in Threads : at[t] = "wait") /\ ~eventfd /\ tickles = 0 =>
      \A k \in 1 .. Len(mTimers) : \E t \in Threads :
        timeout[t] <= timer[mTimers[k]].mTime \/ timeout[t] <= now

KInv ==
    /\ Types
    /\ Listing
    /\ Distinct
    /\ Kept
    /\ InTime
    /\ Unborn
    /\ Sorted
    /\ TickleOnItsWay
    /\ WakesInTime

-----------------------------------------------------------------------------
(* Facts that the steps need.                                              *)

LEMMA TimerFacts ==
    ASSUME Types
    PROVE  /\ Created = 1 .. Len(timer) /\ Len(timer) \in Nat /\ Created \subseteq Id
           /\ \A i \in Created : timer[i] \in TimerObject /\ made[i] \in TimerObject
           /\ Len(mTimers) \in Nat
           /\ \A k \in 1 .. Len(mTimers) : mTimers[k] \in Created
           /\ Len(expired) \in Nat
           /\ \A k \in 1 .. Len(expired) : expired[k] \in Created
<1>1. Created = 1 .. Len(timer) /\ Len(timer) \in Nat
  BY LenProperties DEF Types, Created
<1>2. Created \subseteq Id
  BY <1>1, TimerBounds DEF Types, Id
<1>3. \A i \in Created : timer[i] \in TimerObject /\ made[i] \in TimerObject
  BY <1>1, ElementOfSeq DEF Types
<1>4. /\ Len(mTimers) \in Nat
      /\ \A k \in 1 .. Len(mTimers) : mTimers[k] \in Created
  BY ElementOfSeq, LenProperties DEF Types
<1>5. /\ Len(expired) \in Nat
      /\ \A k \in 1 .. Len(expired) : expired[k] \in Created
  BY ElementOfSeq, LenProperties DEF Types
<1> QED
  BY <1>1, <1>2, <1>3, <1>4, <1>5

(* The properties speak of sets of timers.                                 *)
LEMMA HeldTimers ==
    ASSUME Types
    PROVE  /\ \A i : i \in ToSet(mTimers) <=> InSet(i)
           /\ \A i : i \in ToSet(mTimers \o expired) <=> InSet(i) \/ IsTaken(i)
<1> DEFINE both == mTimers \o expired
           n == Len(mTimers)
           m == Len(expired)
<1>1. n \in Nat /\ m \in Nat /\ mTimers \in Seq(Created) /\ expired \in Seq(Created)
  BY TimerFacts DEF Types
<1>2. DOMAIN mTimers = 1 .. n
  BY <1>1, LenProperties
<1>3. /\ DOMAIN both = 1 .. n + m
      /\ \A k \in 1 .. n + m : both[k] = IF k <= n THEN mTimers[k] ELSE expired[k - n]
  BY <1>1, ConcatProperties, LenProperties
<1>4. \A i : i \in ToSet(mTimers) <=> InSet(i)
  BY <1>2 DEF ToSet, InSet
<1>5. ASSUME NEW i PROVE i \in ToSet(both) <=> InSet(i) \/ IsTaken(i)
  <2> HIDE DEF both, n, m
  <2>1. ASSUME i \in ToSet(both) PROVE InSet(i) \/ IsTaken(i)
    <3>1. PICK k \in 1 .. n + m : both[k] = i
      BY <1>3, <2>1 DEF ToSet
    <3>2. CASE k <= n
      BY <1>1, <1>3, <3>1, <3>2 DEF InSet, n
    <3>3. CASE k > n
      <4>1. k - n \in 1 .. m /\ ~(k <= n)
        BY <1>1, <3>1, <3>3
      <4>2. expired[k - n] = i
        BY <1>3, <3>1, <4>1
      <4> QED
        BY <4>1, <4>2 DEF IsTaken, m
    <3> QED
      BY <1>1, <3>2, <3>3
  <2>2. ASSUME InSet(i) PROVE i \in ToSet(both)
    <3>1. PICK k \in 1 .. n : mTimers[k] = i
      BY <2>2 DEF InSet, n
    <3>2. k \in 1 .. n + m /\ k <= n
      BY <1>1, <3>1
    <3>3. both[k] = i
      BY <1>3, <3>1, <3>2
    <3> QED
      BY <1>3, <3>2, <3>3 DEF ToSet
  <2>3. ASSUME IsTaken(i) PROVE i \in ToSet(both)
    <3>1. PICK k \in 1 .. m : expired[k] = i
      BY <2>3 DEF IsTaken, m
    <3> DEFINE p == n + k
    <3>2. p \in 1 .. n + m /\ ~(p <= n) /\ p - n = k
      BY <1>1, <3>1
    <3>3. both[p] = i
      BY <1>3, <3>1, <3>2
    <3> QED
      BY <1>3, <3>2, <3>3 DEF ToSet
  <2> QED
    BY <2>1, <2>2, <2>3
<1> QED
  BY <1>4, <1>5

(* The schedule of a timer.                                                *)
LEMMA ScheduleFacts ==
    ASSUME Types, NEW i \in Created, NEW n \in Int
    PROVE  /\ Scheduled(i, n) \in Int
           /\ Scheduled(i, n + 1) = Scheduled(i, n) + made[i].mRecycleTime
           /\ Scheduled(i, 0) = made[i].mTime
<1>1. made[i].mTime \in Int /\ made[i].mRecycleTime \in Int
  BY TimerFacts DEF TimerObject
<1> DEFINE m == made[i].mTime
           r == made[i].mRecycleTime
<1> HIDE DEF m, r
<1>2. m \in Int /\ r \in Int
  BY <1>1 DEF m, r
<1>3. m + n * r \in Int /\ m + (n + 1) * r = (m + n * r) + r /\ m + 0 * r = m
  BY <1>2
<1> QED
  BY <1>3 DEF Scheduled, m, r

(* A timer that is not in the set goes to one of the places that           *)
(* std::set::insert may find.                                              *)
LEMMA Inserted ==
    ASSUME Types, NEW i \in Nat, ~InSet(i), Types',
           Created \subseteq Created', i \in Created',
           \A j \in Created : j # i => timer'[j] = timer[j],
           NEW place \in Places(i, timer'[i].mTime),
           mTimers' = InsertAt(mTimers, place, i)
    PROVE  /\ \A j : InSet(j)' <=> InSet(j) \/ j = i
           /\ (\A a, b \in 1 .. Len(mTimers) : mTimers[a] = mTimers[b] => a = b)
              => (\A a, b \in 1 .. Len(mTimers)' : mTimers'[a] = mTimers'[b] => a = b)
           /\ InOrder => InOrder'
           /\ \A k \in 1 .. Len(mTimers)' : mTimers'[k] # i =>
                \E m \in 1 .. Len(mTimers) : mTimers[m] = mTimers'[k]
           /\ mTimers' # <<>>
<1> DEFINE n == Len(mTimers)
           From(k) == IF k < place THEN k ELSE k - 1
<1>1. n \in Nat /\ place \in 1 .. n + 1 /\ place \in Nat
  BY TimerFacts DEF Places
<1>2. /\ Len(mTimers)' = n + 1
      /\ \A k \in 1 .. n + 1 :
           mTimers'[k] = IF k < place THEN mTimers[k] ELSE IF k = place THEN i ELSE mTimers[k - 1]
  <2>1. mTimers \in Seq(Created')
    BY SeqOfMore DEF Types
  <2>2. /\ Len(InsertAt(mTimers, place, i)) = n + 1
        /\ \A k \in 1 .. n + 1 : InsertAt(mTimers, place, i)[k] =
             IF k < place THEN mTimers[k] ELSE IF k = place THEN i ELSE mTimers[k - 1]
    <3>1. n = Len(mTimers) /\ place \in 1 .. Len(mTimers) + 1 /\ i \in Created'
      BY <1>1
    <3> QED
      BY <2>1, <3>1, InsertAtElements, SMTT(30)
  <2>3. mTimers' = InsertAt(mTimers, place, i)
    OBVIOUS
  <2> HIDE DEF n
  <2> QED
    BY <2>2, <2>3, Zenon
<1>3. \A k \in 1 .. n + 1 : k # place => From(k) \in 1 .. n /\ mTimers'[k] = mTimers[From(k)]
  BY <1>1, <1>2
<1>4. \A a, b \in 1 .. n + 1 : a # place /\ b # place /\ a < b => From(a) < From(b)
  BY <1>1
<1>5. mTimers'[place] = i
  BY <1>1, <1>2
<1>6. \A m \in 1 .. n : \E k \in 1 .. n + 1 : k # place /\ From(k) = m
  <2> TAKE m \in 1 .. n
  <2>1. CASE m < place
    <3>1. m \in 1 .. n + 1 /\ m # place /\ From(m) = m
      BY <2>1, <1>1
    <3> QED
      BY <3>1
  <2>2. CASE m >= place
    <3>1. m + 1 \in 1 .. n + 1 /\ m + 1 # place /\ From(m + 1) = m
      BY <2>2, <1>1
    <3> QED
      BY <3>1
  <2> QED
    BY <2>1, <2>2, <1>1
<1>7. \A m \in 1 .. n : mTimers[m] # i /\ mTimers[m] \in Created
  BY TimerFacts DEF InSet
<1> HIDE DEF From
<1>8. \A j : InSet(j)' <=> InSet(j) \/ j = i
  <2> TAKE j
  <2>1. ASSUME InSet(j)' PROVE InSet(j) \/ j = i
    BY <2>1, <1>2, <1>3, <1>5 DEF InSet
  <2>2. ASSUME InSet(j) PROVE InSet(j)'
    <3>1. PICK m \in 1 .. n : mTimers[m] = j
      BY <2>2 DEF InSet
    <3>2. PICK k \in 1 .. n + 1 : k # place /\ From(k) = m
      BY <1>6
    <3> QED
      BY <3>1, <3>2, <1>2, <1>3 DEF InSet
  <2>3. ASSUME j = i PROVE InSet(j)'
    BY <2>3, <1>1, <1>2, <1>5 DEF InSet
  <2> QED
    BY <2>1, <2>2, <2>3
<1>9. ASSUME \A a, b \in 1 .. n : mTimers[a] = mTimers[b] => a = b,
             NEW a \in 1 .. n + 1, NEW b \in 1 .. n + 1, mTimers'[a] = mTimers'[b], a # b
      PROVE  FALSE
  <2>1. a # place /\ b # place
    BY <1>3, <1>5, <1>7, <1>9
  <2>2. From(a) = From(b)
    BY <2>1, <1>3, <1>9
  <2>3. From(a) \in Int /\ From(b) \in Int
    BY <2>1, <1>3
  <2> QED
    BY <2>1, <2>2, <2>3, <1>4, <1>9
<1>10. ASSUME InOrder, NEW a \in 1 .. n + 1, NEW b \in 1 .. n + 1, a < b
       PROVE  Before(timer'[mTimers'[a]].mTime, mTimers'[a], timer'[mTimers'[b]].mTime, mTimers'[b])
  <2> DEFINE T(j) == timer'[j].mTime
  <2>1. \A m \in 1 .. n : T(mTimers[m]) = timer[mTimers[m]].mTime
    BY <1>7
  <2>2. \A m \in 1 .. n : T(mTimers[m]) \in Int /\ mTimers[m] \in Int
    <3>1. \A j \in Created : timer[j].mTime \in Nat /\ j \in Nat
      BY TimerFacts DEF TimerObject
    <3> HIDE DEF T, n
    <3> TAKE m \in 1 .. n
    <3>2. mTimers[m] \in Created
      BY <1>7
    <3>3. timer[mTimers[m]].mTime \in Nat /\ mTimers[m] \in Nat
      BY <3>1, <3>2, Zenon
    <3>4. \A x \in Nat : x \in Int
      OBVIOUS
    <3> QED
      BY <2>1, <3>3, <3>4, Zenon
  <2>3. T(i) \in Int /\ i \in Int
    <3>1. timer'[i] \in TimerObject
      BY ElementOfSeq DEF Types, Created
    <3> QED
      BY <3>1 DEF TimerObject
  <2>4. \A x, y \in 1 .. n : x < y => Before(T(mTimers[x]), mTimers[x], T(mTimers[y]), mTimers[y])
    BY <1>10, <2>1 DEF InOrder
  <2>5. /\ place > 1 => Before(T(mTimers[place - 1]), mTimers[place - 1], T(i), i)
        /\ place <= n => Before(T(i), i, T(mTimers[place]), mTimers[place])
    <3>1. /\ place > 1 => Before(timer[mTimers[place - 1]].mTime, mTimers[place - 1], T(i), i)
          /\ place <= n => Before(T(i), i, timer[mTimers[place]].mTime, mTimers[place])
      BY DEF Places
    <3>2. /\ place > 1 => place - 1 \in 1 .. n
          /\ place <= n => place \in 1 .. n
      BY <1>1
    <3> QED
      BY <3>1, <3>2, <2>1
  <2> HIDE DEF T
  <2>6. CASE a # place /\ b # place
    <3>1. From(a) \in 1 .. n /\ From(b) \in 1 .. n /\ From(a) < From(b)
      BY <2>6, <1>3, <1>4, <1>10
    <3> QED
      BY <2>4, <2>6, <3>1, <1>3 DEF T
  <2>7. CASE b = place
    <3>1. a \in 1 .. n /\ place - 1 \in 1 .. n /\ place > 1 /\ mTimers'[a] = mTimers[a]
          /\ (a = place - 1 \/ a < place - 1)
      BY <2>7, <1>1, <1>2, <1>10
    <3>2. Before(T(mTimers[a]), mTimers[a], T(i), i)
      BY <2>2, <2>3, <2>4, <2>5, <3>1 DEF Before
    <3> QED
      BY <2>7, <3>1, <3>2, <1>5 DEF T
  <2>8. CASE a = place
    <3>1. b - 1 \in 1 .. n /\ place \in 1 .. n /\ place <= n /\ mTimers'[b] = mTimers[b - 1]
          /\ (b - 1 = place \/ place < b - 1)
      BY <2>8, <1>1, <1>2, <1>10
    <3>2. Before(T(i), i, T(mTimers[b - 1]), mTimers[b - 1])
      BY <2>2, <2>3, <2>4, <2>5, <3>1 DEF Before
    <3> QED
      BY <2>8, <3>1, <3>2, <1>5 DEF T
  <2> QED
    BY <2>6, <2>7, <2>8
<1>11. \A k \in 1 .. n + 1 : mTimers'[k] # i => \E m \in 1 .. n : mTimers[m] = mTimers'[k]
  BY <1>3, <1>5
<1>12. mTimers' # <<>>
  BY <1>1, <1>2
<1> QED
  BY <1>2, <1>8, <1>9, <1>10, <1>11, <1>12 DEF InOrder

(* A timer leaves the set: delTimer.                                       *)
LEMMA Deleted ==
    ASSUME Types, Distinct, NEW i, DelTimer(i)
    PROVE  /\ mTimers' \in Seq(Created)
           /\ \A j : InSet(j)' <=> InSet(j) /\ j # i
           /\ \A a, b \in 1 .. Len(mTimers)' : mTimers'[a] = mTimers'[b] => a = b
           /\ InOrder => InOrder'
           /\ \A k \in 1 .. Len(mTimers)' : \E m \in 1 .. Len(mTimers) : mTimers[m] = mTimers'[k]
<1> DEFINE n == Len(mTimers)
           I == {k \in 1 .. n : mTimers[k] = i}
           place == IF I # {} THEN Min(I) ELSE 0
           From(k) == IF k < place THEN k ELSE k + 1
<1>1. n \in Nat /\ mTimers \in Seq(Created) /\ timer' = timer
  BY TimerFacts DEF Types, DelTimer
<1>2. mTimers' = IF place = 0 THEN mTimers ELSE RemoveAt(mTimers, place)
  BY DEF DelTimer, SelectInSeq
<1>3. CASE I = {}
  <2>1. mTimers' = mTimers
    BY <1>2, <1>3
  <2>2. ~InSet(i)
    BY <1>3 DEF InSet
  <2> QED
    BY <1>1, <2>1, <2>2 DEF InSet, Distinct, InOrder
<1>4. CASE I # {}
  <2>1. I \subseteq Nat
    BY <1>1
  <2>2. place \in 1 .. n /\ mTimers[place] = i /\ place \in Nat
    BY <2>1, <1>4, MinOfNats
  <2> HIDE DEF place
  <2>3. /\ mTimers' \in Seq(Created) /\ Len(mTimers)' = n - 1
        /\ \A k \in 1 .. n - 1 : mTimers'[k] = mTimers[From(k)]
    <3>1. /\ RemoveAt(mTimers, place) \in Seq(Created)
          /\ Len(RemoveAt(mTimers, place)) = n - 1
          /\ \A k \in 1 .. n - 1 : RemoveAt(mTimers, place)[k] =
               IF k < place THEN mTimers[k] ELSE mTimers[k + 1]
      BY <1>1, <2>2, RemoveAtElements
    <3>2. mTimers' = RemoveAt(mTimers, place)
      BY <1>2, <2>2
    <3> QED
      BY <3>1, <3>2
  <2>4. \A k \in 1 .. n - 1 : From(k) \in 1 .. n /\ From(k) # place
    BY <1>1, <2>2
  <2>5. \A a, b \in 1 .. n - 1 : a < b => From(a) < From(b)
    BY <1>1, <2>2
  <2>6. \A m \in 1 .. n : m # place => \E k \in 1 .. n - 1 : From(k) = m
    <3> TAKE m \in 1 .. n
    <3>1. CASE m < place
      BY <3>1, <1>1, <2>2
    <3>2. CASE m > place
      <4>1. m - 1 \in 1 .. n - 1 /\ From(m - 1) = m
        BY <3>2, <1>1, <2>2
      <4> QED
        BY <4>1
    <3> QED
      BY <3>1, <3>2, <1>1, <2>2
  <2> HIDE DEF From
  <2>7. \A m \in 1 .. n : mTimers[m] = i <=> m = place
    BY <2>2 DEF Distinct
  <2>8. \A j : InSet(j)' <=> InSet(j) /\ j # i
    <3> TAKE j
    <3>1. ASSUME InSet(j)' PROVE InSet(j) /\ j # i
      BY <3>1, <2>3, <2>4, <2>7 DEF InSet
    <3>2. ASSUME InSet(j), j # i PROVE InSet(j)'
      <4>1. PICK m \in 1 .. n : mTimers[m] = j
        BY <3>2 DEF InSet
      <4>2. PICK k \in 1 .. n - 1 : From(k) = m
        BY <2>6, <2>7, <3>2, <4>1
      <4> QED
        BY <4>1, <4>2, <2>3 DEF InSet
    <3> QED
      BY <3>1, <3>2
  <2>9. ASSUME NEW a \in 1 .. n - 1, NEW b \in 1 .. n - 1, mTimers'[a] = mTimers'[b], a # b
        PROVE  FALSE
    <3>1. From(a) = From(b)
      BY <2>3, <2>4, <2>9 DEF Distinct
    <3>2. From(a) \in Int /\ From(b) \in Int
      BY <2>4
    <3> QED
      BY <3>1, <3>2, <2>5, <2>9
  <2>10. InOrder => InOrder'
    BY <1>1, <2>3, <2>4, <2>5 DEF InOrder
  <2>11. \A k \in 1 .. n - 1 : \E m \in 1 .. n : mTimers[m] = mTimers'[k]
    BY <2>3, <2>4
  <2> QED
    BY <2>3, <2>8, <2>9, <2>10, <2>11
<1> QED
  BY <1>3, <1>4

(* The timers that are due are the first ones, and they are taken.         *)
LEMMA Taken ==
    ASSUME Types, NEW t \in Threads, TakeExpired(t)
    PROVE  \E d \in 0 .. Len(mTimers) :
             /\ expired' \in Seq(Created) /\ Len(expired)' = d
             /\ \A k \in 1 .. d : /\ expired'[k] = mTimers[k]
                                  /\ timer[mTimers[k]].mTime <= nowMS[t]
             /\ mTimers' \in Seq(Created) /\ Len(mTimers)' = Len(mTimers) - d
             /\ \A k \in 1 .. Len(mTimers) - d : mTimers'[k] = mTimers[d + k]
             /\ d < Len(mTimers) => timer[mTimers[d + 1]].mTime > nowMS[t]
<1> DEFINE n == Len(mTimers)
           I == {k \in 1 .. n : timer[mTimers[k]].mTime > nowMS[t]}
           i == IF I # {} THEN Min(I) ELSE 0
           d == IF i = 0 THEN n ELSE i - 1
<1>1. /\ n \in Nat /\ mTimers \in Seq(Created)
      /\ \A k \in 1 .. n : mTimers[k] \in Created
      /\ \A k \in 1 .. n : timer[mTimers[k]].mTime \in Nat
      /\ nowMS[t] \in Nat
  BY TimerFacts DEF Types, TimerObject
<1>2. d = DueCount(nowMS[t])
  BY DEF DueCount, SelectInSeq
<1>3. /\ d \in 0 .. n
      /\ \A k \in 1 .. d : timer[mTimers[k]].mTime <= nowMS[t]
      /\ d < n => timer[mTimers[d + 1]].mTime > nowMS[t]
  <2>1. CASE I = {}
    <3>1. d = n
      BY <2>1
    <3>2. \A k \in 1 .. n : ~(timer[mTimers[k]].mTime > nowMS[t])
      BY <2>1
    <3> HIDE DEF d
    <3> QED
      BY <1>1, <3>1, <3>2
  <2>2. CASE I # {}
    <3>0. I \subseteq Nat
      BY <1>1
    <3>1. Min(I) \in I /\ \A k \in I : Min(I) <= k
      BY <2>2, <3>0, MinOfNats
    <3>2. i \in 1 .. n /\ i = Min(I) /\ d = i - 1
      BY <3>1, <2>2, <1>1, SMTT(30)
    <3> HIDE DEF i, d
    <3>3. timer[mTimers[i]].mTime > nowMS[t]
      BY <3>1, <3>2
    <3>4. \A k \in 1 .. n : k < i => ~(timer[mTimers[k]].mTime > nowMS[t])
      <4> TAKE k \in 1 .. n
      <4>1. k \in I => i <= k
        BY <3>1, <3>2
      <4> QED
        BY <1>1, <3>2, <4>1
    <3> HIDE DEF I
    <3>5. \A k \in 1 .. d : timer[mTimers[k]].mTime <= nowMS[t]
      <4> TAKE k \in 1 .. d
      <4>1. k \in 1 .. n /\ k < i
        BY <3>2
      <4> QED
        BY <4>1, <3>4, <1>1
    <3> QED
      BY <3>2, <3>3, <3>5
  <2> QED
    BY <2>1, <2>2
<1> HIDE DEF d
<1>4. expired' = SubSeq(mTimers, 1, d) /\ mTimers' = SubSeq(mTimers, d + 1, n)
  BY <1>2 DEF TakeExpired, Remaining
<1>5. /\ expired' \in Seq(Created) /\ Len(expired)' = d
      /\ \A k \in 1 .. d : expired'[k] = mTimers[k]
  <2>1. /\ expired' \in Seq(Created)
        /\ Len(expired') = IF 1 <= d THEN d - 1 + 1 ELSE 0
        /\ \A k \in 1 .. d - 1 + 1 : expired'[k] = mTimers[1 + k - 1]
    BY <1>1, <1>3, <1>4, SubSeqProperties
  <2> QED
    BY <2>1, <1>3
<1>6. /\ mTimers' \in Seq(Created) /\ Len(mTimers)' = n - d
      /\ \A k \in 1 .. n - d : mTimers'[k] = mTimers[d + k]
  <2>1. \A k \in d + 1 .. n : mTimers[k] \in Created
    BY <1>1, <1>3
  <2>2. /\ mTimers' \in Seq(Created)
        /\ Len(mTimers') = IF d + 1 <= n THEN n - (d + 1) + 1 ELSE 0
        /\ \A k \in 1 .. n - (d + 1) + 1 : mTimers'[k] = mTimers[(d + 1) + k - 1]
    BY <1>1, <1>3, <1>4, <2>1, SubSeqProperties
  <2> QED
    BY <2>2, <1>1, <1>3
<1> QED
  BY <1>3, <1>5, <1>6

-----------------------------------------------------------------------------
(* Each step preserves the invariant.                                      *)

(* A step that leaves the timers alone, while time may pass.               *)
LEMMA QuietStep ==
    ASSUME KInv, UNCHANGED <<timer, mTimers, expired, history>>,
           now' \in Nat, now' >= now
    PROVE  /\ Distinct' /\ Kept' /\ InTime' /\ Unborn' /\ Sorted'
           /\ \A i \in Created' : IsTaken(i)' /\ timer'[i].mCb => timer'[i].mTime <= now'
<1> USE DEF KInv, history
<1>1. Created' = Created /\ \A i : (InSet(i)' <=> InSet(i)) /\ (IsTaken(i)' <=> IsTaken(i))
  BY DEF Created, InSet, IsTaken
<1>2. Distinct' /\ Kept' /\ Unborn'
  BY <1>1 DEF Distinct, Kept, Live, Unborn
<1>3. Sorted'
  BY <1>1 DEF Sorted, InOrder, NoneCancelled
<1>4. InTime'
  <2> SUFFICES ASSUME NEW i \in Created, listed[i] > 0
               PROVE  Scheduled(i, listed[i] - 1) <= now'
    BY <1>1 DEF InTime, Scheduled
  <2>1. listed[i] - 1 \in Int
    BY TimerFacts DEF Types
  <2>2. Scheduled(i, listed[i] - 1) \in Int /\ Scheduled(i, listed[i] - 1) <= now
    BY <2>1, ScheduleFacts DEF InTime
  <2> QED
    BY <2>2 DEF Types
<1>5. \A i \in Created' : IsTaken(i)' /\ timer'[i].mCb => timer'[i].mTime <= now'
  <2> SUFFICES ASSUME NEW i \in Created, IsTaken(i), timer[i].mCb
               PROVE  timer[i].mTime <= now'
    BY <1>1
  <2>1. timer[i].mTime \in Nat /\ timer[i].mTime <= now
    BY TimerFacts DEF Listing, TimerObject
  <2> QED
    BY <2>1 DEF Types
<1> QED
  BY <1>2, <1>3, <1>4, <1>5

(* Whatever thread the eventfd may wake has not begun to sleep without it. *)
LEMMA TickleInv ==
    ASSUME KInv, Tickle
    PROVE  KInv'
<1> USE DEF KInv
<1>0. UNCHANGED <<timer, mTimers, expired, history>> /\ now' \in Nat /\ now' >= now
  BY DEF Tickle, Types
<1>0a. /\ Distinct' /\ Kept' /\ InTime' /\ Unborn' /\ Sorted'
       /\ \A i \in Created' : IsTaken(i)' /\ timer'[i].mCb => timer'[i].mTime <= now'
  BY <1>0, QuietStep
<1>1. Types' /\ Listing'
  BY <1>0a DEF Tickle, Types, Listing, threadVars, history, Created
<1>2. PICK t \in Threads : TRUE
  BY TimerBounds
<1>3. TickleOnItsWay' /\ WakesInTime'
  BY <1>2 DEF Tickle, TickleOnItsWay, WakesInTime, threadVars
<1> QED
  BY <1>1, <1>0a, <1>3

LEMMA IdleInv ==
    ASSUME KInv, NEW t \in Threads, Idle(t)
    PROVE  KInv'
<1> USE DEF KInv
<1>1. Types' /\ Listing'
  BY QuietStep DEF Idle, Types, Listing, history, Created
<1>2. TickleOnItsWay' /\ WakesInTime'
  BY DEF Idle, Types, TickleOnItsWay, WakesInTime
<1> QED
  BY <1>1, <1>2, QuietStep DEF Idle, Types

(* A thread that goes to sleep has looked at the first timer.              *)
LEMMA GetNearTimeoutInv ==
    ASSUME KInv, NEW t \in Threads, GetNearTimeout(t)
    PROVE  KInv'
<1> USE DEF KInv
<1> DEFINE first == timer[Head(mTimers)].mTime
<1>1. UNCHANGED <<timer, mTimers, expired, history, now, writer, nowMS>> /\ writer = NoThread
  BY DEF GetNearTimeout
<1>2. mTimers # <<>> =>
        /\ 1 \in 1 .. Len(mTimers) /\ Head(mTimers) = mTimers[1] /\ first \in Nat
  <2> SUFFICES ASSUME mTimers # <<>>
               PROVE  /\ 1 \in 1 .. Len(mTimers) /\ Head(mTimers) = mTimers[1]
                      /\ first \in Nat
    OBVIOUS
  <2>1. mTimers \in Seq(Created) /\ Len(mTimers) \in Nat
    BY TimerFacts DEF Types
  <2>2. 1 \in 1 .. Len(mTimers)
    BY <2>1, EmptySeq
  <2>3. Head(mTimers) = mTimers[1]
    BY <2>1
  <2> QED
    BY <2>2, <2>3, TimerFacts DEF TimerObject
<1>3. mTimers # <<>> => timeout'[t] = IF now >= first THEN now ELSE first
  <2>1. mTimers # <<>> => Max({now, first}) = IF now >= first THEN now ELSE first
    <3> SUFFICES ASSUME mTimers # <<>>
                 PROVE  Max({now, first}) = IF now >= first THEN now ELSE first
      OBVIOUS
    <3>1. now \in Int /\ first \in Int
      BY <1>2 DEF Types
    <3> HIDE DEF first
    <3> QED
      BY <3>1, MaxOfTwo
  <2> QED
    BY <2>1 DEF GetNearTimeout, Types
<1> HIDE DEF first
<1>4. timeout' \in [Threads -> Nat]
  BY <1>2, <1>3, TimerBounds DEF GetNearTimeout, Types
<1>5. /\ Distinct' /\ Kept' /\ InTime' /\ Unborn' /\ Sorted'
      /\ \A i \in Created' : IsTaken(i)' /\ timer'[i].mCb => timer'[i].mTime <= now'
  BY <1>1, QuietStep DEF Types
<1>5a. Created' = Created /\ at' \in [Threads -> {"busy", "near", "wait", "list"}]
  BY <1>1 DEF GetNearTimeout, Types, Created
<1>5b. Types'
  BY <1>1, <1>4, <1>5a DEF GetNearTimeout, Types, history, MTickleAfterNear
<1>5c. Listing'
  BY <1>1, <1>5 DEF Listing
<1>6. TickleOnItsWay'
  BY DEF GetNearTimeout, MTickleAfterNear, TickleOnItsWay
<1>7. WakesInTime'
  <2> SUFFICES ASSUME NoneCancelled, NEW k \in 1 .. Len(mTimers)
               PROVE  timeout'[t] <= timer[mTimers[k]].mTime \/ timeout'[t] <= now
    BY <1>1 DEF WakesInTime, NoneCancelled, Created
  <2>1. mTimers # <<>> /\ k \in Nat /\ 1 <= k
    BY TimerFacts DEF Types
  <2>2. timer[mTimers[k]].mTime \in Nat
    BY TimerFacts DEF TimerObject
  <2>3. first <= timer[mTimers[k]].mTime
    <3>1. CASE k = 1
      BY <1>2, <2>1, <2>2, <3>1 DEF first
    <3>2. CASE 1 < k
      BY <1>2, <2>1, <2>2, <3>2 DEF first, Sorted, InOrder, Before
    <3> QED
      BY <2>1, <3>1, <3>2
  <2> QED
    BY <1>2, <1>3, <2>1, <2>2, <2>3 DEF Types
<1> QED
  BY <1>5, <1>5b, <1>5c, <1>6, <1>7

LEMMA WakeInv ==
    ASSUME KInv, NEW t \in Threads, Wake(t)
    PROVE  KInv'
<1> USE DEF KInv
<1>0. UNCHANGED <<timer, mTimers, expired, history>> /\ now' \in Nat /\ now' >= now
  BY DEF Wake, Types
<1>0a. /\ Distinct' /\ Kept' /\ InTime' /\ Unborn' /\ Sorted'
       /\ \A i \in Created' : IsTaken(i)' /\ timer'[i].mCb => timer'[i].mTime <= now'
  BY <1>0, QuietStep
<1>1. Types' /\ Listing'
  <2>1. /\ at' = [at EXCEPT ![t] = "list"] /\ writer' = writer
        /\ nowMS' = [nowMS EXCEPT ![t] = now] /\ timeout' = [timeout EXCEPT ![t] = 0]
        /\ eventfd' \in BOOLEAN /\ Created' = Created
    BY DEF Wake, Types, Created
  <2>2. Types'
    BY <2>1 DEF Wake, Types, history
  <2>3. Listing'
    BY <1>0, <1>0a, <2>1 DEF Wake, Types, Listing
  <2> QED
    BY <2>2, <2>3
<1>2. at'[t] = "list"
  BY DEF Wake, Types
<1>3. TickleOnItsWay' /\ WakesInTime'
  BY <1>2 DEF TickleOnItsWay, WakesInTime
<1> QED
  BY <1>1, <1>0a, <1>3

LEMMA ListDoneInv ==
    ASSUME KInv, NEW t \in Threads, ListDone(t)
    PROVE  KInv'
<1> USE DEF KInv
<1>1. Types' /\ Listing'
  BY QuietStep, TimerBounds DEF ListDone, Types, Listing, history, Created
<1>2. at'[t] = "busy"
  BY DEF ListDone, Types
<1>3. TickleOnItsWay' /\ WakesInTime'
  BY <1>2 DEF TickleOnItsWay, WakesInTime
<1> QED
  BY <1>1, <1>3, QuietStep DEF ListDone, Types

LEMMA TickInv ==
    ASSUME KInv, Tick
    PROVE  KInv'
<1> USE DEF KInv
<1>1. now' \in Nat /\ now' = now + 1
  BY DEF Tick, Types
<1>2. Types' /\ Listing'
  <2>1. UNCHANGED <<timer, mTimers, expired, history, writer>> /\ now' >= now
    BY <1>1 DEF Tick, Types
  <2>2. \A i \in Created' : IsTaken(i)' /\ timer'[i].mCb => timer'[i].mTime <= now'
    BY <1>1, <2>1, QuietStep
  <2>3. Types'
    BY <1>1 DEF Tick, Types, threadVars, history, Created
  <2>4. Listing'
    BY <1>1, <2>1, <2>2 DEF Tick, Types, Listing, threadVars, Created
  <2> QED
    BY <2>3, <2>4
<1>3. TickleOnItsWay'
  BY DEF Tick, TickleOnItsWay, threadVars
<1>4. WakesInTime'
  <2>1. \A t \in Threads : timeout[t] <= now => timeout[t] <= now'
    BY <1>1 DEF Types
  <2> QED
    BY <2>1 DEF Tick, WakesInTime, NoneCancelled, Created, threadVars
<1> QED
  BY <1>1, <1>2, <1>3, <1>4, QuietStep DEF Tick, Types

(* A cancelled timer has no time any more.                                 *)
LEMMA CancelInv ==
    ASSUME KInv, NEW i \in Created, Cancel(i)
    PROVE  KInv'
<1> USE DEF KInv
<1>1. /\ timer' \in Seq(TimerObject) /\ Len(timer') = Len(timer) /\ Created' = Created
      /\ ~timer'[i].mCb /\ \A j \in Created : j # i => timer'[j] = timer[j]
      /\ UNCHANGED <<now, mTimers, mTickle, threadVars, expired, writer, tickles, eventfd, history>>
  <2> DEFINE tm == [mTime |-> 0, mRecycleTime |-> 0, mCb |-> FALSE]
  <2>1. tm \in TimerObject
    BY DEF TimerObject
  <2>2. timer' = [timer EXCEPT ![i] = tm]
    BY DEF Cancel
  <2>3. i \in 1 .. Len(timer) /\ timer \in Seq(TimerObject)
    BY TimerFacts DEF Types
  <2> HIDE DEF tm
  <2>4. /\ timer' \in Seq(TimerObject) /\ Len(timer') = Len(timer) /\ Created' = Created
        /\ timer'[i] = tm /\ \A j \in Created : j # i => timer'[j] = timer[j]
    BY <2>1, <2>2, <2>3, ExceptSeq, LenProperties DEF Created
  <2> QED
    BY <2>4 DEF Cancel, tm
<1>2. \A j : (InSet(j)' <=> InSet(j)) /\ (IsTaken(j)' <=> IsTaken(j))
  BY <1>1 DEF InSet, IsTaken
<1>3. Types'
  BY <1>1 DEF Types, threadVars, history
<1>4. Listing' /\ Distinct' /\ Kept' /\ InTime' /\ Unborn'
  BY <1>1, <1>2 DEF Listing, Distinct, Kept, Live, InTime, Scheduled, Unborn, threadVars, history
<1>5. ~NoneCancelled'
  BY <1>1 DEF NoneCancelled
<1>6. Sorted' /\ TickleOnItsWay' /\ WakesInTime'
  BY <1>1, <1>5 DEF Sorted, TickleOnItsWay, WakesInTime, threadVars
<1> QED
  BY <1>3, <1>4, <1>6

(* A new timer: the thread that is to wait for it is woken, unless a       *)
(* wake-up is on its way.                                                  *)
LEMMA AddTimerInv ==
    ASSUME KInv, NEW ms \in Delays, NEW recycle \in Recycles, AddTimer(ms, recycle)
    PROVE  KInv'
<1> USE DEF KInv
<1> DEFINE i == Len(timer) + 1
           tm == [mTime |-> now + ms, mRecycleTime |-> recycle, mCb |-> TRUE]
<1>1. tm \in TimerObject /\ tm.mTime = now + ms /\ tm.mCb /\ now + ms \in Nat
  BY TimerBounds DEF TimerObject, Types
<1>2. i \in Id /\ i \in Nat /\ i \notin Created /\ i <= MaxTimers
  BY TimerFacts, TimerBounds DEF AddTimer, Id
<1>3. /\ timer' \in Seq(TimerObject) /\ Len(timer') = i /\ timer'[i] = tm
      /\ made' \in Seq(TimerObject) /\ Len(made') = i /\ made'[i] = tm
      /\ \A j \in Created : timer'[j] = timer[j] /\ made'[j] = made[j]
  <2>1. timer' = Append(timer, tm) /\ made' = Append(made, tm)
    BY DEF AddTimer
  <2>2. timer \in Seq(TimerObject) /\ made \in Seq(TimerObject) /\ Len(made) = Len(timer)
    BY DEF Types
  <2> HIDE DEF tm
  <2> QED
    BY <1>1, <2>1, <2>2, AppendProperties, TimerFacts
<1>4. PICK place \in Places(i, tm.mTime) :
        /\ mTimers' = InsertAt(mTimers, place, i)
        /\ mTickle' = (mTickle \/ AtFront(place))
        /\ tickles' = IF AtFront(place) THEN tickles + 1 ELSE tickles
  BY DEF AddTimer
<1>5. UNCHANGED <<now, threadVars, expired, writer, eventfd, listed, gone>>
  BY DEF AddTimer
<1> HIDE DEF tm, i
<1>6. Created' = Created \cup {i} /\ Created = 1 .. Len(timer)
  <2>1. Created' = 1 .. i /\ i = Len(timer) + 1
    BY <1>3, LenProperties DEF Created, i
  <2> QED
    BY <2>1, TimerFacts
<1>7. ~InSet(i) /\ ~IsTaken(i) /\ i \notin gone /\ listed[i] = 0
  BY <1>2, TimerFacts DEF InSet, IsTaken, Types, Unborn
<1>8. place \in 1 .. Len(mTimers) + 1 /\ Len(mTimers) \in Nat
  BY TimerFacts DEF Places
<1>9. Types'
  <2>1. mTimers \in Seq(Created') /\ expired' \in Seq(Created')
    BY <1>5, <1>6, SeqOfMore DEF Types
  <2>2. mTimers' \in Seq(Created')
    BY <1>4, <1>6, <1>8, <2>1, InsertAtElements
  <2>3. mTickle' \in BOOLEAN /\ tickles' \in Nat
    BY <1>4 DEF Types, AtFront
  <2> QED
    BY <1>2, <1>3, <1>5, <1>6, <2>1, <2>2, <2>3 DEF Types, threadVars
<1>10. /\ \A j : InSet(j)' <=> InSet(j) \/ j = i
       /\ \A a, b \in 1 .. Len(mTimers)' : mTimers'[a] = mTimers'[b] => a = b
       /\ InOrder => InOrder'
       /\ \A k \in 1 .. Len(mTimers)' : mTimers'[k] # i =>
            \E m \in 1 .. Len(mTimers) : mTimers[m] = mTimers'[k]
  BY <1>2, <1>3, <1>4, <1>6, <1>7, <1>9, Inserted DEF Distinct
<1>11. \A j : IsTaken(j)' <=> IsTaken(j)
  BY <1>5 DEF IsTaken
<1>12. Listing' /\ Distinct' /\ Unborn'
  <2>1. Listing'
    BY <1>3, <1>5, <1>6, <1>7, <1>11 DEF Listing, threadVars
  <2>2. \A j \in Created' : ~(InSet(j)' /\ IsTaken(j)')
    BY <1>6, <1>7, <1>10, <1>11 DEF Distinct
  <2>3. Distinct'
    BY <1>5, <1>10, <2>2 DEF Distinct
  <2>4. Unborn'
    BY <1>5, <1>6 DEF Unborn
  <2> QED
    BY <2>1, <2>3, <2>4
<1>13. Kept'
  BY <1>3, <1>5, <1>6, <1>7, <1>10, <1>11 DEF Kept, Live
<1>14. InTime'
  <2>1. ASSUME NEW j \in Created
        PROVE  /\ timer'[j] = timer[j] /\ made'[j] = made[j] /\ listed'[j] = listed[j]
               /\ (InSet(j)' <=> InSet(j)) /\ (IsTaken(j)' <=> IsTaken(j))
    BY <1>2, <1>3, <1>5, <1>10, <1>11
  <2>2. tm.mTime = made'[i].mTime + listed'[i] * made'[i].mRecycleTime
    <3>1. tm.mTime \in Nat /\ tm.mRecycleTime \in Nat
      BY <1>1 DEF TimerObject
    <3>2. 0 * tm.mRecycleTime = 0
      BY <3>1
    <3> QED
      BY <1>3, <1>5, <1>7, <3>1, <3>2
  <2> DEFINE Holds(j) ==
               /\ listed[j] > 0 => Scheduled(j, listed[j] - 1) <= now
               /\ timer[j].mCb => /\ timer[j].mRecycleTime = made[j].mRecycleTime
                                  /\ timer[j].mTime = Scheduled(j, listed[j])
               /\ made[j].mRecycleTime = 0 /\ listed[j] > 0 =>
                    listed[j] = 1 /\ ~InSet(j) /\ ~IsTaken(j)
  <2>3. ASSUME NEW j \in Created PROVE Holds(j)'
    <3>1. \A n : Scheduled(j, n)' = Scheduled(j, n)
      BY <2>1 DEF Scheduled
    <3>2. Holds(j)
      BY DEF InTime
    <3> QED
      BY <1>5, <2>1, <3>1, <3>2
  <2>4. ASSUME NEW j, j = i PROVE Holds(j)'
    <3>1. /\ listed'[j] = 0 /\ timer'[j] = made'[j]
          /\ timer'[j].mTime = Scheduled(j, listed[j])'
      BY <1>3, <1>5, <1>7, <2>2, <2>4 DEF Scheduled
    <3> QED
      BY <3>1
  <2> HIDE DEF Holds
  <2>5. \A j \in Created' : Holds(j)'
    BY <1>6, <2>3, <2>4
  <2> QED
    BY <2>5 DEF InTime, Holds
<1>15. NoneCancelled' => NoneCancelled
  BY <1>3, <1>6 DEF NoneCancelled
<1>16. Sorted'
  BY <1>10, <1>15 DEF Sorted
<1>17. TickleOnItsWay'
  BY <1>4, <1>5 DEF TickleOnItsWay, threadVars, Types, AtFront
<1>18. WakesInTime'
  <2> SUFFICES ASSUME NoneCancelled', (\A t \in Threads : at'[t] = "wait"), ~eventfd',
                      tickles' = 0, NEW k \in 1 .. Len(mTimers)'
               PROVE  \E t \in Threads : \/ timeout'[t] <= timer'[mTimers'[k]].mTime
                                         \/ timeout'[t] <= now'
    BY DEF WakesInTime
  <2>1. ~AtFront(place) /\ tickles = 0
    BY <1>4 DEF Types
  <2>2. ~mTickle
    BY <1>5, <2>1 DEF TickleOnItsWay, threadVars
  <2>3. place > 1 /\ place - 1 \in 1 .. Len(mTimers)
    BY <1>8, <2>1, <2>2 DEF AtFront
  <2>4. \A m \in 1 .. Len(mTimers) : \E t \in Threads :
          timeout[t] <= timer[mTimers[m]].mTime \/ timeout[t] <= now
    BY <1>5, <1>15, <2>1 DEF WakesInTime, threadVars
  <2>5. CASE mTimers'[k] = i
    <3> DEFINE j == mTimers[place - 1]
    <3>1. Before(timer[j].mTime, j, tm.mTime, i)
      BY <2>3 DEF Places
    <3>2. PICK t \in Threads : timeout[t] <= timer[j].mTime \/ timeout[t] <= now
      BY <2>3, <2>4
    <3>3. timer[j].mTime \in Nat /\ timeout[t] \in Nat /\ tm.mTime \in Nat
      BY <1>1, <2>3, TimerFacts DEF Types, TimerObject
    <3>4. timer[j].mTime <= tm.mTime
      BY <3>1, <3>3 DEF Before
    <3> HIDE DEF j
    <3>5. timeout[t] <= tm.mTime \/ timeout[t] <= now
      BY <3>2, <3>3, <3>4
    <3> QED
      BY <1>3, <1>5, <2>5, <3>5 DEF threadVars
  <2>6. CASE mTimers'[k] # i
    <3>1. PICK m \in 1 .. Len(mTimers) : mTimers[m] = mTimers'[k]
      BY <1>10, <2>6
    <3>2. timer'[mTimers[m]] = timer[mTimers[m]]
      BY <1>3, TimerFacts
    <3> QED
      BY <1>5, <2>4, <3>1, <3>2 DEF threadVars
  <2> QED
    BY <2>5, <2>6
<1> QED
  BY <1>9, <1>12, <1>13, <1>14, <1>16, <1>17, <1>18

(* delTimer waits for the lock, so that no timer is out of the set.        *)
LEMMA DelTimerInv ==
    ASSUME KInv, NEW i \in Created, DelTimer(i)
    PROVE  KInv'
<1> USE DEF KInv
<1>1. /\ UNCHANGED <<now, timer, mTickle, threadVars, expired, writer, tickles, eventfd, listed, made>>
      /\ writer = NoThread /\ gone' = gone \cup {i} /\ Created' = Created
  BY DEF DelTimer, MayDelete, Created
<1>2. /\ mTimers' \in Seq(Created)
      /\ \A j : InSet(j)' <=> InSet(j) /\ j # i
      /\ \A a, b \in 1 .. Len(mTimers)' : mTimers'[a] = mTimers'[b] => a = b
      /\ InOrder => InOrder'
      /\ \A k \in 1 .. Len(mTimers)' : \E m \in 1 .. Len(mTimers) : mTimers[m] = mTimers'[k]
  BY Deleted
<1>3. \A j : ~IsTaken(j) /\ ~IsTaken(j)'
  BY <1>1 DEF Listing, IsTaken
<1>4. Types'
  BY <1>1, <1>2 DEF Types, threadVars
<1>5. Listing' /\ Distinct' /\ Unborn'
  BY <1>1, <1>2, <1>3 DEF Listing, Distinct, Unborn, threadVars
<1>6. Kept'
  BY <1>1, <1>2, <1>3 DEF Kept, Live
<1>7. InTime'
  BY <1>1, <1>2, <1>3 DEF InTime, Scheduled
<1>8. Sorted' /\ TickleOnItsWay'
  BY <1>1, <1>2 DEF Sorted, NoneCancelled, TickleOnItsWay, threadVars
<1>9. WakesInTime'
  BY <1>1, <1>2 DEF WakesInTime, NoneCancelled, threadVars
<1> QED
  BY <1>4, <1>5, <1>6, <1>7, <1>8, <1>9


(* listExpiredTimer takes the timers that are due.                         *)
LEMMA TakeExpiredInv ==
    ASSUME KInv, NEW t \in Threads, TakeExpired(t)
    PROVE  KInv'
<1> USE DEF KInv
<1> DEFINE n == Len(mTimers)
<1>1. /\ UNCHANGED <<now, timer, mTickle, threadVars, tickles, eventfd, history>>
      /\ writer = NoThread /\ writer' = t /\ at[t] = "list" /\ Created' = Created
  BY DEF TakeExpired, MayList, Created
<1>2. PICK d \in 0 .. n :
        /\ expired' \in Seq(Created) /\ Len(expired)' = d
        /\ \A k \in 1 .. d : expired'[k] = mTimers[k] /\ timer[mTimers[k]].mTime <= nowMS[t]
        /\ mTimers' \in Seq(Created) /\ Len(mTimers)' = n - d
        /\ \A k \in 1 .. n - d : mTimers'[k] = mTimers[d + k]
  BY Taken
<1>3. /\ n \in Nat /\ \A k \in 1 .. n - d : d + k \in 1 .. n
      /\ \A k \in 1 .. d : k \in 1 .. n /\ \A m \in 1 .. n - d : k # d + m
      /\ \A a, b \in 1 .. n - d : (a = b <=> d + a = d + b) /\ (a < b <=> d + a < d + b)
  BY TimerFacts
<1>4. \A k \in 1 .. n : k \in 1 .. d \/ \E m \in 1 .. n - d : k = d + m
  <2> TAKE k \in 1 .. n
  <2>1. CASE k > d
    <3>1. k - d \in 1 .. n - d /\ k = d + (k - d)
      BY <2>1, <1>3
    <3> QED
      BY <3>1
  <2> QED
    BY <2>1, <1>3
<1>5. \A j : ~IsTaken(j)
  BY <1>1 DEF Listing, IsTaken
<1>6. \A j : InSet(j) <=> InSet(j)' \/ IsTaken(j)'
  <2> TAKE j
  <2>1. ASSUME InSet(j) PROVE InSet(j)' \/ IsTaken(j)'
    <3>1. PICK k \in 1 .. n : mTimers[k] = j
      BY <2>1 DEF InSet
    <3>2. CASE k \in 1 .. d
      BY <1>2, <3>1, <3>2 DEF IsTaken
    <3>3. ASSUME NEW m \in 1 .. n - d, k = d + m PROVE InSet(j)'
      BY <1>2, <3>1, <3>3 DEF InSet
    <3> QED
      BY <1>4, <3>2, <3>3
  <2>2. ASSUME InSet(j)' \/ IsTaken(j)' PROVE InSet(j)
    <3>1. CASE InSet(j)'
      <4>1. PICK k \in 1 .. n - d : mTimers'[k] = j
        BY <1>2, <3>1 DEF InSet
      <4>2. d + k \in 1 .. n /\ mTimers[d + k] = j
        BY <1>2, <1>3, <4>1
      <4> QED
        BY <4>2 DEF InSet
    <3>2. CASE IsTaken(j)'
      <4>1. PICK k \in 1 .. d : expired'[k] = j
        BY <1>2, <3>2 DEF IsTaken
      <4>2. k \in 1 .. n /\ mTimers[k] = j
        BY <1>2, <1>3, <4>1
      <4> QED
        BY <4>2 DEF InSet
    <3> QED
      BY <2>2, <3>1, <3>2
  <2> QED
    BY <2>1, <2>2
<1>7. Types'
  BY <1>1, <1>2 DEF Types, threadVars, history
<1>8. Listing'
  <2>1. \A j : IsTaken(j)' => timer[j].mTime <= nowMS[t] /\ j \in Created
    <3> SUFFICES ASSUME NEW k \in 1 .. d
                 PROVE  timer[expired'[k]].mTime <= nowMS[t] /\ expired'[k] \in Created
      BY <1>2 DEF IsTaken
    <3>1. expired'[k] = mTimers[k] /\ timer[mTimers[k]].mTime <= nowMS[t] /\ k \in 1 .. n
      BY <1>2, <1>3
    <3> QED
      BY <3>1, TimerFacts
  <2>2. \A j \in Created : timer[j].mTime \in Nat
    BY TimerFacts DEF TimerObject
  <2>3. nowMS[t] <= now /\ nowMS[t] \in Nat /\ now \in Nat
    BY DEF Listing, Types
  <2>4. \A j \in Created : IsTaken(j)' => timer[j].mTime <= now
    BY <2>1, <2>2, <2>3
  <2>5. (\A s \in Threads : nowMS[s] <= now) /\ t # NoThread
    BY TimerBounds DEF Listing
  <2> QED
    BY <1>1, <2>4, <2>5 DEF Listing, threadVars
<1>9. Distinct'
  <2>0. \A a, b \in 1 .. n : mTimers[a] = mTimers[b] => a = b
    BY DEF Distinct
  <2>1. \A a, b \in 1 .. n - d : mTimers'[a] = mTimers'[b] => a = b
    <3> TAKE a, b \in 1 .. n - d
    <3>1. mTimers'[a] = mTimers'[b] => d + a = d + b
      BY <1>2, <1>3, <2>0
    <3> QED
      BY <3>1, <1>3
  <2>2. \A a, b \in 1 .. d : expired'[a] = expired'[b] => a = b
    <3> TAKE a, b \in 1 .. d
    <3>1. a \in 1 .. n /\ b \in 1 .. n /\ expired'[a] = mTimers[a]
          /\ expired'[b] = mTimers[b]
      BY <1>2, <1>3
    <3> QED
      BY <2>0, <3>1
  <2>3. \A a \in 1 .. d, b \in 1 .. n - d : expired'[a] # mTimers'[b]
    <3> TAKE a \in 1 .. d, b \in 1 .. n - d
    <3>1. a \in 1 .. n /\ d + b \in 1 .. n /\ a # d + b
          /\ expired'[a] = mTimers[a] /\ mTimers'[b] = mTimers[d + b]
      BY <1>2, <1>3
    <3> QED
      BY <2>0, <3>1
  <2>4. \A j : ~(InSet(j)' /\ IsTaken(j)')
    BY <1>2, <2>3 DEF InSet, IsTaken
  <2> QED
    BY <1>2, <2>1, <2>2, <2>4 DEF Distinct
<1>10. Kept' /\ InTime'
  BY <1>1, <1>5, <1>6 DEF Kept, Live, InTime, Scheduled, history
<1>11. Unborn' /\ TickleOnItsWay' /\ WakesInTime'
  BY <1>1 DEF Unborn, TickleOnItsWay, WakesInTime, threadVars, history
<1>12. Sorted'
  <2>1. NoneCancelled' = NoneCancelled
    BY <1>1 DEF NoneCancelled
  <2>2. ASSUME InOrder PROVE InOrder'
    <3>1. \A a, b \in 1 .. n - d : a < b =>
            Before(timer[mTimers[d + a]].mTime, mTimers[d + a],
                   timer[mTimers[d + b]].mTime, mTimers[d + b])
      BY <1>3, <2>2 DEF InOrder
    <3>2. timer' = timer /\ Len(mTimers') = n - d
          /\ \A a \in 1 .. n - d : mTimers'[a] = mTimers[d + a]
      BY <1>1, <1>2
    <3> HIDE DEF KInv
    <3> SUFFICES ASSUME NEW a \in 1 .. n - d, NEW b \in 1 .. n - d, a < b
                 PROVE  Before(timer[mTimers'[a]].mTime, mTimers'[a],
                               timer[mTimers'[b]].mTime, mTimers'[b])
      BY <3>2 DEF InOrder
    <3> QED
      BY <3>1, <3>2
  <2> QED
    BY <2>1, <2>2 DEF Sorted
<1> QED
  BY <1>7, <1>8, <1>9, <1>10, <1>11, <1>12


(* The next of the timers taken is dropped, leaves for good or goes back.  *)
LEMMA Listed ==
    ASSUME KInv, NEW t \in Threads, ListOne(t),
           NEW i, i = Head(expired)
    PROVE  /\ UNCHANGED <<now, mTickle, threadVars, writer, tickles, eventfd, made, gone>>
           /\ writer = t /\ at[t] = "list" /\ writer # NoThread
           /\ i \in Created /\ IsTaken(i) /\ ~InSet(i) /\ i \notin gone
           /\ expired' \in Seq(Created)
           /\ \A j : IsTaken(j)' <=> IsTaken(j) /\ j # i
           /\ \A a, b \in 1 .. Len(expired)' : expired'[a] = expired'[b] => a = b
<1> USE DEF KInv
<1> DEFINE m == Len(expired)
<1>1. /\ UNCHANGED <<now, mTickle, threadVars, writer, tickles, eventfd, made, gone>>
      /\ writer = t /\ expired # <<>> /\ expired' = Tail(expired)
  BY DEF ListOne
<1>2. writer # NoThread /\ at[t] = "list"
  BY <1>1, TimerBounds DEF Listing
<1>3. expired \in Seq(Created) /\ m \in Nat
  BY TimerFacts DEF Types
<1>4. /\ i = expired[1] /\ m \in Nat \ {0} /\ expired' \in Seq(Created) /\ Len(expired)' = m - 1
      /\ \A k \in 1 .. m - 1 : expired'[k] = expired[k + 1]
  BY <1>1, <1>3, HeadTailProperties, EmptySeq
<1>5. /\ \A k \in 1 .. m - 1 : k + 1 \in 1 .. m /\ k + 1 # 1
      /\ \A a, b \in 1 .. m - 1 : a + 1 = b + 1 => a = b
      /\ \A k \in 1 .. m : k = 1 \/ (k - 1 \in 1 .. m - 1 /\ k - 1 + 1 = k)
      /\ 1 \in 1 .. m
  BY <1>4
<1>6. i \in Created /\ IsTaken(i)
  BY <1>4, <1>5, TimerFacts DEF IsTaken
<1>7. ~InSet(i) /\ i \notin gone
  BY <1>6 DEF Distinct, Kept
<1>8. \A j : IsTaken(j)' <=> IsTaken(j) /\ j # i
  <2> TAKE j
  <2>1. ASSUME NEW k \in 1 .. m - 1, expired'[k] = j PROVE IsTaken(j) /\ j # i
    <3>1. expired[k + 1] = j /\ k + 1 \in 1 .. m /\ k + 1 # 1
      BY <1>4, <1>5, <2>1
    <3> QED
      BY <3>1, <1>4, <1>5 DEF IsTaken, Distinct
  <2>2. ASSUME NEW k \in 1 .. m, expired[k] = j, j # i PROVE IsTaken(j)'
    <3>1. k - 1 \in 1 .. m - 1 /\ k - 1 + 1 = k
      BY <1>4, <1>5, <2>2
    <3>2. expired'[k - 1] = j
      BY <1>4, <2>2, <3>1
    <3> QED
      BY <1>4, <3>1, <3>2 DEF IsTaken
  <2> QED
    BY <2>1, <2>2, <1>4 DEF IsTaken
<1>9. \A a, b \in 1 .. m - 1 : expired'[a] = expired'[b] => a = b
  <2> TAKE a, b \in 1 .. m - 1
  <2>1. expired'[a] = expired'[b] => a + 1 = b + 1
    BY <1>4, <1>5 DEF Distinct
  <2> QED
    BY <2>1, <1>5
<1> QED
  BY <1>1, <1>2, <1>4, <1>6, <1>7, <1>8, <1>9

(* One that was cancelled is dropped.                                      *)
LEMMA DroppedInv ==
    ASSUME KInv, NEW t \in Threads, ListOne(t), NEW i, i = Head(expired), ~timer[i].mCb
    PROVE  KInv'
<1> USE DEF KInv
<1>1. /\ UNCHANGED <<now, mTickle, threadVars, writer, tickles, eventfd, made, gone>>
      /\ writer = t /\ at[t] = "list" /\ writer # NoThread /\ i \in Created
      /\ expired' \in Seq(Created)
      /\ \A j : IsTaken(j)' <=> IsTaken(j) /\ j # i
      /\ \A a, b \in 1 .. Len(expired)' : expired'[a] = expired'[b] => a = b
  BY Listed
<1>2. UNCHANGED <<timer, mTimers, listed>> /\ Created' = Created
  BY DEF ListOne, Created
<1>3. \A j : InSet(j)' <=> InSet(j)
  BY <1>2 DEF InSet
<1>4. Types' /\ Unborn'
  BY <1>1, <1>2 DEF Types, Unborn, threadVars
<1>5. Listing' /\ Distinct'
  BY <1>1, <1>2, <1>3 DEF Listing, Distinct, threadVars
<1>6. Kept'
  BY <1>1, <1>2, <1>3 DEF Kept, Live
<1>7. InTime'
  BY <1>1, <1>2, <1>3 DEF InTime, Scheduled
<1>8. Sorted' /\ TickleOnItsWay' /\ WakesInTime'
  BY <1>1, <1>2 DEF Sorted, InOrder, NoneCancelled, TickleOnItsWay, WakesInTime, threadVars
<1> QED
  BY <1>4, <1>5, <1>6, <1>7, <1>8


(* The callback of any other is listed, and it has its next time.          *)
LEMMA FiredInv ==
    ASSUME KInv, NEW t \in Threads, ListOne(t), NEW i, i = Head(expired), timer[i].mCb
    PROVE  KInv'
<1> USE DEF KInv
<1> DEFINE tm == Updated(timer[i])
<1>1. /\ UNCHANGED <<now, mTickle, threadVars, writer, tickles, eventfd, made, gone>>
      /\ writer = t /\ at[t] = "list" /\ writer # NoThread
      /\ i \in Created /\ IsTaken(i) /\ ~InSet(i) /\ i \notin gone
      /\ expired' \in Seq(Created)
      /\ \A j : IsTaken(j)' <=> IsTaken(j) /\ j # i
      /\ \A a, b \in 1 .. Len(expired)' : expired'[a] = expired'[b] => a = b
  BY Listed
<1>2. /\ listed' = [listed EXCEPT ![i] = @ + 1]
      /\ timer' = [timer EXCEPT ![i] = tm]
      /\ IF ~GoesBack(timer[i]) THEN UNCHANGED mTimers
         ELSE \E place \in Places(i, tm.mTime) : mTimers' = InsertAt(mTimers, place, i)
  BY DEF ListOne
<1>3. /\ tm \in TimerObject /\ tm.mCb /\ tm.mRecycleTime = timer[i].mRecycleTime
      /\ tm.mTime = timer[i].mTime + timer[i].mRecycleTime
  <2>1. timer[i] \in TimerObject
    BY <1>1, TimerFacts
  <2> QED
    BY <2>1 DEF TimerObject, Updated
<1> HIDE DEF tm
<1>4. /\ timer' \in Seq(TimerObject) /\ Len(timer') = Len(timer) /\ Created' = Created
      /\ timer'[i] = tm /\ \A j \in Created : j # i => timer'[j] = timer[j]
  <2>1. i \in 1 .. Len(timer) /\ timer \in Seq(TimerObject)
    BY <1>1, TimerFacts DEF Types
  <2> QED
    BY <2>1, <1>2, <1>3, ExceptSeq, LenProperties DEF Created
<1>5. /\ listed' \in [Id -> Nat] /\ i \in Id /\ listed'[i] = listed[i] + 1 /\ listed[i] \in Nat
      /\ \A j \in Id : j # i => listed'[j] = listed[j]
  <2>1. i \in Id /\ listed \in [Id -> Nat]
    BY <1>1, TimerFacts DEF Types
  <2> QED
    BY <2>1, <1>2
<1>6. mTimers' \in Seq(Created)
  <2>1. CASE ~GoesBack(timer[i])
    BY <1>2, <2>1 DEF Types
  <2>2. CASE GoesBack(timer[i])
    <3>1. PICK place \in Places(i, tm.mTime) : mTimers' = InsertAt(mTimers, place, i)
      BY <1>2, <2>2
    <3>2. place \in 1 .. Len(mTimers) + 1 /\ mTimers \in Seq(Created)
      BY <3>1 DEF Places, Types
    <3> QED
      BY <1>1, <3>1, <3>2, InsertAtElements
  <2> QED
    BY <2>1, <2>2
<1>7. Types'
  BY <1>1, <1>4, <1>5, <1>6 DEF Types, threadVars
<1>8. /\ \A j : InSet(j)' <=> InSet(j) \/ (j = i /\ GoesBack(timer[i]))
      /\ \A a, b \in 1 .. Len(mTimers)' : mTimers'[a] = mTimers'[b] => a = b
      /\ InOrder => InOrder'
  <2>1. CASE ~GoesBack(timer[i])
    <3>1. mTimers' = mTimers /\ \A k \in 1 .. Len(mTimers) : timer'[mTimers[k]] = timer[mTimers[k]]
      BY <1>1, <1>2, <1>4, <2>1, TimerFacts DEF InSet
    <3> QED
      BY <2>1, <3>1 DEF InSet, Distinct, InOrder
  <2>2. CASE GoesBack(timer[i])
    <3>1. PICK place \in Places(i, tm.mTime) : mTimers' = InsertAt(mTimers, place, i)
      BY <1>2, <2>2
    <3>2. i \in Nat /\ i \in Created' /\ Created \subseteq Created'
      BY <1>1, <1>4, TimerFacts
    <3> QED
      BY <1>1, <1>4, <1>7, <2>2, <3>1, <3>2, Inserted DEF Distinct
  <2> QED
    BY <2>1, <2>2
<1>9. Listing' /\ Distinct' /\ Unborn'
  <2>1. Listing'
    BY <1>1, <1>4 DEF Listing, threadVars
  <2>2. \A j \in Created : ~(InSet(j)' /\ IsTaken(j)')
    BY <1>1, <1>8 DEF Distinct
  <2>3. Distinct'
    BY <1>1, <1>4, <1>8, <2>2 DEF Distinct
  <2>4. Unborn'
    BY <1>1, <1>4, <1>5 DEF Unborn
  <2> QED
    BY <2>1, <2>3, <2>4
<1>10. Kept'
  <2> SUFFICES ASSUME NEW j \in Created
               PROVE  /\ Live(j)' /\ (timer'[j].mRecycleTime > 0 \/ listed'[j] = 0)
                         => InSet(j)' \/ IsTaken(j)'
                      /\ j \in gone' => ~InSet(j)' /\ ~IsTaken(j)'
    BY <1>4 DEF Kept
  <2>1. CASE j = i
    <3>1. timer'[j].mRecycleTime > 0 => GoesBack(timer[i])
      BY <1>3, <1>4, <2>1 DEF GoesBack
    <3>2. listed'[j] # 0
      BY <1>5, <2>1
    <3> QED
      BY <1>1, <1>8, <2>1, <3>1, <3>2
  <2>2. CASE j # i
    <3>1. timer'[j] = timer[j] /\ listed'[j] = listed[j]
      BY <1>4, <1>5, <2>2, TimerFacts
    <3> QED
      BY <1>1, <1>8, <2>2, <3>1 DEF Kept, Live
  <2> QED
    BY <2>1, <2>2

<1>11. InTime'
  <2> SUFFICES ASSUME NEW j \in Created
               PROVE  /\ listed'[j] > 0 => Scheduled(j, listed[j] - 1)' <= now
                      /\ timer'[j].mCb => /\ timer'[j].mRecycleTime = made[j].mRecycleTime
                                          /\ timer'[j].mTime = Scheduled(j, listed[j])'
                      /\ made[j].mRecycleTime = 0 /\ listed'[j] > 0 =>
                           listed'[j] = 1 /\ ~InSet(j)' /\ ~IsTaken(j)'
    BY <1>1, <1>4 DEF InTime
  <2>1. \A n : Scheduled(j, n)' = Scheduled(j, n)
    BY <1>1 DEF Scheduled
  <2>2. CASE j # i
    <3>1. timer'[j] = timer[j] /\ listed'[j] = listed[j]
      BY <1>4, <1>5, <2>2, TimerFacts
    <3> QED
      BY <1>1, <1>8, <2>1, <2>2, <3>1 DEF InTime, Scheduled
  <2>3. CASE j = i
    <3>1. /\ timer[i].mRecycleTime = made[i].mRecycleTime
          /\ timer[i].mTime = Scheduled(i, listed[i])
          /\ timer[i].mTime <= now
          /\ made[i].mRecycleTime = 0 => listed[i] = 0
      BY <1>1, <1>5 DEF InTime, Listing
    <3>2. /\ Scheduled(i, listed[i] + 1) = Scheduled(i, listed[i]) + made[i].mRecycleTime
          /\ Scheduled(i, listed[i]) \in Int
      <4>1. listed[i] \in Int /\ i \in Created
        BY <1>1, <1>5
      <4> QED
        BY <4>1, ScheduleFacts
    <3>3. listed'[i] - 1 = listed[i]
      BY <1>5
    <3>4. Scheduled(i, listed'[i] - 1) <= now
      BY <3>1, <3>3
    <3>5. timer'[i].mTime = Scheduled(i, listed'[i])
      BY <1>3, <1>4, <1>5, <3>1, <3>2
    <3>6. made[i].mRecycleTime = 0 => listed'[i] = 1 /\ ~InSet(i)' /\ ~IsTaken(i)'
      <4>1. made[i].mRecycleTime = 0 => ~GoesBack(timer[i])
        BY <3>1 DEF GoesBack
      <4> QED
        BY <1>1, <1>5, <1>8, <3>1, <4>1
    <3>7. timer'[i].mRecycleTime = made[i].mRecycleTime
      BY <1>3, <1>4, <3>1
    <3> QED
      BY <1>1, <2>3, <3>4, <3>5, <3>6, <3>7 DEF Scheduled
  <2> QED
    BY <2>2, <2>3
<1>12. NoneCancelled' => NoneCancelled
  BY <1>4 DEF NoneCancelled
<1>13. Sorted' /\ TickleOnItsWay' /\ WakesInTime'
  BY <1>1, <1>8, <1>12 DEF Sorted, TickleOnItsWay, WakesInTime, threadVars
<1> QED
  BY <1>7, <1>9, <1>10, <1>11, <1>13


LEMMA InitInv == Init => KInv
<1> SUFFICES ASSUME Init PROVE KInv
  OBVIOUS
<1>1. /\ timer = <<>> /\ made = <<>> /\ mTimers = <<>> /\ expired = <<>> /\ Created = {}
      /\ \A S : <<>> \in Seq(S)
  BY DEF Init, Created
<1>2. Types
  <2>1. Len(timer) = 0 /\ Len(made) = 0
    BY <1>1
  <2>2. /\ timer \in Seq(TimerObject) /\ made \in Seq(TimerObject)
        /\ mTimers \in Seq(Created) /\ expired \in Seq(Created)
    BY <1>1
  <2>3. now \in Nat /\ tickles \in Nat /\ Len(timer) <= MaxTimers /\ Len(made) = Len(timer)
    BY <2>1, TimerBounds DEF Init
  <2>4. /\ at \in [Threads -> {"busy", "near", "wait", "list"}]
        /\ timeout \in [Threads -> Nat] /\ nowMS \in [Threads -> Nat]
        /\ listed \in [Id -> Nat]
    BY DEF Init
  <2>5. /\ mTickle \in BOOLEAN /\ eventfd \in BOOLEAN /\ gone \subseteq Created
        /\ writer \in Threads \cup {NoThread}
    BY DEF Init
  <2> QED
    BY <2>2, <2>3, <2>4, <2>5 DEF Types
<1>3. Listing /\ Distinct /\ Kept /\ InTime /\ Unborn
  BY <1>1, TimerBounds DEF Init, Listing, Distinct, Kept, InTime, Unborn, IsTaken
<1>4. Sorted /\ TickleOnItsWay /\ WakesInTime
  BY <1>1 DEF Init, Sorted, InOrder, TickleOnItsWay, WakesInTime
<1> QED
  BY <1>2, <1>3, <1>4 DEF KInv

LEMMA StepInv == KInv /\ [Next]_vars => KInv'
<1> SUFFICES ASSUME KInv, [Next]_vars PROVE KInv'
  OBVIOUS
<1>1. ASSUME NEW ms \in Delays, NEW recycle \in Recycles, AddTimer(ms, recycle) PROVE KInv'
  BY <1>1, AddTimerInv
<1>2. ASSUME NEW i \in Created, Cancel(i) PROVE KInv'
  BY <1>2, CancelInv
<1>3. ASSUME NEW i \in Created, DelTimer(i) PROVE KInv'
  BY <1>3, DelTimerInv
<1>4. ASSUME Tickle PROVE KInv'
  BY <1>4, TickleInv
<1>5. ASSUME Tick PROVE KInv'
  BY <1>5, TickInv
<1>6. ASSUME NEW t \in Threads, Idle(t) PROVE KInv'
  BY <1>6, IdleInv
<1>7. ASSUME NEW t \in Threads, GetNearTimeout(t) PROVE KInv'
  BY <1>7, GetNearTimeoutInv
<1>8. ASSUME NEW t \in Threads, Wake(t) PROVE KInv'
  BY <1>8, WakeInv
<1>9. ASSUME NEW t \in Threads, TakeExpired(t) PROVE KInv'
  BY <1>9, TakeExpiredInv
<1>10. ASSUME NEW t \in Threads, ListOne(t) PROVE KInv'
  <2>1. PICK i : i = Head(expired)
    OBVIOUS
  <2> QED
    BY <1>10, <2>1, DroppedInv, FiredInv
<1>11. ASSUME NEW t \in Threads, ListDone(t) PROVE KInv'
  BY <1>11, ListDoneInv
<1>12. CASE UNCHANGED vars
  BY <1>12 DEF vars, threadVars, history, KInv, Types, Created, Listing, IsTaken, Distinct, InSet,
     Kept, Live, InTime, Scheduled, Unborn, Sorted, NoneCancelled, InOrder, TickleOnItsWay,
     WakesInTime
<1> QED
  BY <1>1, <1>2, <1>3, <1>4, <1>5, <1>6, <1>7, <1>8, <1>9, <1>10, <1>11, <1>12 DEF Next

-----------------------------------------------------------------------------
(* The theorems.                                                           *)

(* The threads, the owners of timers and the clock keep the invariant.     *)
THEOREM Invariance == Spec => []KInv
  BY InitInv, StepInv, PTL DEF Spec

(* No timer is lost while it is in the hands of listExpiredTimer.          *)
THEOREM ForgetsNone == Spec => []NothingForgotten
<1>1. KInv => NothingForgotten
  BY HeldTimers DEF KInv, Kept, NothingForgotten
<1> QED
  BY <1>1, Invariance, PTL

(* delTimer waits until no timer is in the hands of listExpiredTimer.      *)
THEOREM DeletedForGood == Spec => []DeletedStaysOut
<1>1. ASSUME KInv PROVE DeletedStaysOut
  <2>1. \A i \in gone : i \in Created /\ ~InSet(i) /\ ~IsTaken(i)
    BY <1>1 DEF KInv, Kept, Types
  <2>2. \A i : i \in ToSet(mTimers \o expired) <=> InSet(i) \/ IsTaken(i)
    BY <1>1, HeldTimers DEF KInv
  <2> QED
    BY <2>1, <2>2 DEF DeletedStaysOut
<1> QED
  BY <1>1, Invariance, PTL

LEMMA Periods ==
    ASSUME NEW n \in Nat, NEW period \in Nat \ {0}, NEW past \in Nat, n * period <= past
    PROVE  n <= past \div period
<1> DEFINE q == past \div period
           r == past % period
<1>1. q \in Int /\ r \in Nat /\ r < period /\ past = period * q + r
  OBVIOUS
<1> HIDE DEF q, r
<1>2. period * (n - q) < period
  BY <1>1
<1>3. n - q < 1
  BY <1>1, <1>2
<1> QED
  BY <1>1, <1>3 DEF q

(* However many threads list, and whatever time they read before they had  *)
(* the lock, a callback is listed at most once a period.                   *)
THEOREM FiresOnSchedule == Spec => []OnSchedule
<1>1. ASSUME KInv, NEW i \in Created
      PROVE  listed[i] <= LET past == now - made[i].mTime
                              period == made[i].mRecycleTime
                          IN  IF past < 0 THEN 0
                              ELSE IF period = 0 THEN 1 ELSE past \div period + 1
  <2> DEFINE n == listed[i]
             start == made[i].mTime
             period == made[i].mRecycleTime
             past == now - start
  <2>1. n \in Nat /\ start \in Nat /\ period \in Nat /\ now \in Nat
    BY <1>1, TimerFacts DEF KInv, Types, TimerObject
  <2>2. /\ n > 0 => start + (n - 1) * period <= now
        /\ period = 0 /\ n > 0 => n = 1
    BY <1>1 DEF KInv, InTime, Scheduled
  <2> HIDE DEF n, start, period
  <2>3. CASE n = 0
    <3>1. past \in Nat /\ period # 0 => past \div period \in Nat
      BY <2>1
    <3> QED
      BY <2>1, <2>3, <3>1 DEF n, start, period
  <2>4. CASE n > 0
    <3>1. n - 1 \in Nat /\ (n - 1) * period \in Nat
      BY <2>1, <2>4
    <3> DEFINE m == (n - 1) * period
    <3>2. m <= past /\ past \in Nat
      <4> HIDE DEF m
      <4> QED
        BY <2>1, <2>2, <2>4, <3>1 DEF m
    <3>3. period # 0 => n - 1 <= past \div period /\ past \div period \in Int
      BY <2>1, <3>1, <3>2, Periods
    <3>4. n <= IF past < 0 THEN 0 ELSE IF period = 0 THEN 1 ELSE past \div period + 1
      BY <2>1, <2>2, <2>4, <3>2, <3>3
    <3> QED
      BY <3>4 DEF n, start, period
  <2> QED
    BY <2>1, <2>3, <2>4
<1>2. KInv => OnSchedule
  BY <1>1 DEF OnSchedule
<1> QED
  BY <1>2, Invariance, PTL


(* mTickle loses no wake-up: getNearTimeout clears it under a read lock,   *)
(* but then this thread is to look at the set before it sleeps.            *)
THEOREM WakesForNearest == Spec => []NoOversleep
<1>1. ASSUME KInv PROVE NoOversleep
  <2> SUFFICES ASSUME NoneCancelled, \A t \in Threads : at[t] = "wait", ~eventfd, tickles = 0,
                      NEW i \in ToSet(mTimers)
               PROVE  \E t \in Threads : timeout[t] <= Max({timer[i].mTime, now})
    BY DEF NoOversleep
  <2>1. PICK k \in 1 .. Len(mTimers) : mTimers[k] = i
    BY <1>1, HeldTimers DEF KInv, InSet
  <2>2. PICK t \in Threads : timeout[t] <= timer[i].mTime \/ timeout[t] <= now
    BY <1>1, <2>1 DEF KInv, WakesInTime
  <2>3. timer[i].mTime \in Int /\ now \in Int /\ timeout[t] \in Int
    <3>1. timer[i] \in TimerObject
      BY <1>1, <2>1, TimerFacts DEF KInv
    <3> QED
      BY <1>1, <3>1 DEF KInv, Types, TimerObject
  <2>4. Max({timer[i].mTime, now}) = IF timer[i].mTime >= now THEN timer[i].mTime ELSE now
    BY <2>3, MaxOfTwo
  <2>5. timeout[t] <= Max({timer[i].mTime, now})
    BY <2>2, <2>3, <2>4
  <2> QED
    BY <2>5
<1> QED
  BY <1>1, Invariance, PTL

(* While no timer is cancelled the set is in order, so listExpiredTimer,   *)
(* which stops at the first timer that is not due, leaves none that is.    *)
THEOREM TakesAllDue == Spec => DueTakenInOrder
<1> DEFINE AllDue == \A t \in Threads : writer = NoThread /\ writer' = t /\ NoneCancelled =>
                       \A i \in ToSet(mTimers') : timer[i].mTime > nowMS[t]
<1>1. ASSUME KInv, [Next]_vars, NEW t \in Threads, writer = NoThread, writer' = t, NoneCancelled,
             NEW i \in ToSet(mTimers')
      PROVE  timer[i].mTime > nowMS[t]
  <2>1. TakeExpired(t)
    <3>1. writer' # writer /\ writer' # NoThread
      BY <1>1, TimerBounds
    <3>2. PICK s \in Threads : TakeExpired(s)
      BY <1>1, <3>1 DEF Next, vars, AddTimer, Cancel, DelTimer, Tickle, Tick, Idle,
         GetNearTimeout, Wake, ListOne, ListDone
    <3>3. s = t
      BY <1>1, <3>2 DEF TakeExpired
    <3> QED
      BY <3>2, <3>3
  <2> DEFINE n == Len(mTimers)
             T(k) == timer[mTimers[k]].mTime
  <2>2. PICK d \in 0 .. n :
          /\ mTimers' \in Seq(Created) /\ Len(mTimers)' = n - d
          /\ \A k \in 1 .. n - d : mTimers'[k] = mTimers[d + k]
          /\ d < n => T(d + 1) > nowMS[t]
    BY <1>1, <2>1, Taken DEF KInv
  <2>3. PICK k \in 1 .. n - d : mTimers'[k] = i
    BY <2>2, LenProperties DEF ToSet
  <2>4. n \in Nat /\ \A m \in 1 .. n : T(m) \in Int
    BY <1>1, TimerFacts DEF KInv, TimerObject
  <2>5. nowMS[t] \in Int
    BY <1>1 DEF KInv, Types
  <2>6. /\ d + k \in 1 .. n /\ d + 1 \in 1 .. n /\ d < n /\ (d + k = d + 1 \/ d + 1 < d + k)
        /\ i = mTimers[d + k]
    BY <2>2, <2>3, <2>4
  <2>7. d + 1 < d + k => T(d + 1) <= T(d + k)
    <3>1. InOrder
      BY <1>1 DEF KInv, Sorted
    <3>2. d + 1 < d + k => Before(T(d + 1), mTimers[d + 1], T(d + k), mTimers[d + k])
      BY <2>6, <3>1 DEF InOrder
    <3> HIDE DEF T
    <3> QED
      BY <2>4, <2>6, <3>2 DEF Before
  <2>8. T(d + k) > nowMS[t]
    <3> HIDE DEF T
    <3> QED
      BY <2>2, <2>4, <2>5, <2>6, <2>7
  <2> QED
    BY <2>6, <2>8
<1>2. KInv /\ [Next]_vars => [AllDue]_vars
  BY <1>1
<1>3. Spec => [][AllDue]_vars
  BY <1>2, Invariance, PTL DEF Spec
<1> QED
  BY <1>3 DEF DueTakenInOrder
=============================================================================
