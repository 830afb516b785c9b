--------------------------- MODULE StructureProofs ---------------------------
(***************************************************************************)
(* Proofs about three structures.                                          *)
(*                                                                         *)
(* The device queue of DeviceQueue, for any number of requests, callers    *)
(* and keys: the driver has one request at a time, none is left behind,    *)
(* and the queue hands out the right one.                                  *)
(*                                                                         *)
(* The pool of Pool, for any size of the page and of the unit: the lists   *)
(* and the callers divide the chunks of the pages that were cut between    *)
(* them, so that no two blocks overlap and none is lost.                   *)
(*                                                                         *)
(* The file system cache of FscCache, for any number of volumes, pages and *)
(* elements: a page that is mapped stays in its element, which no other    *)
(* volume gets, through growth and flushes.                                *)
(***************************************************************************)
EXTENDS DeviceQueue, Pool, FscCache, ListLemmas

-----------------------------------------------------------------------------
(* The device queue: the inductive invariant.                               *)

\* What of IoStartNextPacket is left determines what the caller holds.
DqCallsRight ==
    \A c \in Callers :
        /\ dqCall[c].step = "none" => dqCall[c] = NoCall
        /\ dqCall[c].step = "remove" => dqCall[c].irp = NoIrp
        /\ dqCall[c].step = "start" => dqCall[c].irp \in Irps

DqNobodyCalls == \A c \in Callers : dqCall[c] = NoCall

\* Busy is a token: it is with the driver, or with the one caller that is on its
\* way to give the driver the next request.
DqIdle == ~dqBusy /\ dqStarted = {} /\ dqList = <<>> /\ DqNobodyCalls
DqWithDriver == dqBusy /\ (\E irp \in Irps : dqStarted = {irp}) /\ DqNobodyCalls
DqWithCaller ==
    /\ dqBusy /\ dqStarted = {}
    /\ \E c \in Callers : /\ dqCall[c] # NoCall
                          /\ \A d \in Callers \ {c} : dqCall[d] = NoCall

DqCurrentRight ==
    /\ \A irp \in dqStarted : dqCurrent = irp
    /\ dqStarted = {} => dqCurrent = NoIrp

\* With keys, the queue is in their order.
DqInOrder ==
    dqKeyed => \A i, j \in 1..Len(dqList) : i <= j => DqKey(dqList[i]) <= DqKey(dqList[j])

DqInv ==
    /\ DqTypeOK /\ DqCallsRight /\ DqCurrentRight /\ DqInOrder
    /\ DqIdle \/ DqWithDriver \/ DqWithCaller

-----------------------------------------------------------------------------
(* Lists as the community modules see them.                                 *)

\* Range and IsInjective of a list.
LEMMA RangeIsMembers ==
    ASSUME NEW S, NEW q \in Seq(S)
    PROVE  Range(q) = Members(q) /\ (IsInjective(q) <=> Distinct(q))
<1>1. DOMAIN q = 1..Len(q)
  OBVIOUS
<1> QED BY <1>1 DEF Range, Members, IsInjective, Distinct

\* A set of numbers up to "n" that is not empty has a least one.
LEMMA LeastOf ==
    ASSUME NEW n \in Nat, NEW I \in SUBSET (1..n), I # {}
    PROVE  Min(I) \in I /\ \A i \in I : Min(I) <= i
<1>1. I \in SUBSET Nat
  OBVIOUS
<1>2. \E m \in I : \A i \in I : m <= i
  <2> DEFINE J == {n + 1 - i : i \in I}
  <2>0. PICK x \in I : TRUE
    OBVIOUS
  <2>1. J \in SUBSET (1..n) /\ J # {}
    <3>1. \A i \in 1..n : n + 1 - i \in 1..n
      OBVIOUS
    <3>2. n + 1 - x \in J
      BY <2>0
    <3> QED BY <3>1, <3>2
  <2>2. PICK h \in J : \A r \in J : r <= h
    BY <2>1, HighestExists
  <2>3. PICK m \in I : h = n + 1 - m
    BY <2>2
  <2>4. \A i \in I : n + 1 - i \in J /\ i \in 1..n
    OBVIOUS
  <2>5. \A i \in I : m <= i
    BY <2>2, <2>3, <2>4
  <2> QED BY <2>5
<1> QED BY <1>2 DEF Min

\* KeInsertByKeyDeviceQueue finds the first entry with a larger key.
LEMMA PlaceFound ==
    ASSUME NEW key \in Nat, dqList \in Seq(Irps)
    PROVE  \/ Place(key) = 0 /\ \A i \in 1..Len(dqList) : ~(key < DqKey(dqList[i]))
           \/ /\ Place(key) \in 1..Len(dqList) /\ key < DqKey(dqList[Place(key)])
              /\ \A i \in 1..Len(dqList) : key < DqKey(dqList[i]) => Place(key) <= i
<1> DEFINE I == {i \in 1..Len(dqList) : key < DqKey(dqList[i])}
<1>1. Place(key) = IF I # {} THEN Min(I) ELSE 0
  BY DEF Place, SelectInSeq
<1>2. Len(dqList) \in Nat /\ I \in SUBSET (1..Len(dqList))
  OBVIOUS
<1>3. CASE I = {}
  BY <1>1, <1>3
<1>4. CASE I # {}
  <2>1. Min(I) \in I /\ \A i \in I : Min(I) <= i
    BY <1>2, <1>4, LeastOf
  <2> QED BY <1>1, <1>4, <2>1
<1> QED BY <1>3, <1>4

\* KeRemoveByKeyDeviceQueue finds the first entry that is not below the key, and
\* the head if the last one is.
LEMMA NextFound ==
    ASSUME NEW key \in Nat, dqList \in Seq(Irps), dqList # <<>>,
           \A i \in 1..Len(dqList) : DqKey(dqList[i]) \in Nat
    PROVE  LET n == Len(dqList)
               k == NextByKey(key)
           IN  /\ k \in 1..n
               /\ DqKey(dqList[n]) <= key => k = 1
               /\ DqKey(dqList[n]) > key =>
                    /\ key <= DqKey(dqList[k])
                    /\ \A i \in 1..n : key <= DqKey(dqList[i]) => k <= i
<1> DEFINE n == Len(dqList)
           k == NextByKey(key)
           I == {i \in 1..n : key <= DqKey(dqList[i])}
           L == DqKey(dqList[n])
<1>1. n \in Nat /\ n > 0 /\ I \in SUBSET (1..n)
  BY EmptySeq
<1>2. Last(dqList) = dqList[n]
  BY DEF Last
<1>3. k = IF L <= key THEN 1 ELSE IF I # {} THEN Min(I) ELSE 0
  BY <1>2 DEF NextByKey, SelectInSeq
<1>4. L \in Nat
  BY <1>1
<1>5. CASE L <= key
  BY <1>1, <1>3, <1>4, <1>5
<1>6. CASE ~(L <= key)
  <2>1. n \in I
    BY <1>1, <1>4, <1>6
  <2>2. Min(I) \in I /\ \A i \in I : Min(I) <= i
    BY <1>1, <2>1, LeastOf
  <2> HIDE DEF I, n, L
  <2>3. k = Min(I)
    BY <1>3, <1>6, <2>1
  <2> USE DEF I, n, L
  <2> QED BY <1>6, <2>2, <2>3
<1> QED BY <1>5, <1>6

-----------------------------------------------------------------------------
(* The steps.                                                               *)

\* At first there is no request.
LEMMA DqBegins == DqInit => DqInv
<1> SUFFICES ASSUME DqInit PROVE DqInv
  OBVIOUS
<1>1. /\ dqList = <<>> /\ dqStarted = {} /\ dqCurrent = NoIrp /\ ~dqBusy
      /\ \A c \in Callers : dqCall[c] = NoCall
      /\ dqCall = [c \in Callers |-> NoCall]
      /\ dqEntry = [i \in Irps |-> [inserted |-> FALSE, key |-> 0]]
      /\ dqKeyed \in BOOLEAN /\ dqBusy \in BOOLEAN
  BY DEF DqInit
<1>2. DqTypeOK
  <2>1. dqList \in Seq(Irps) /\ IsInjective(dqList)
    <3>1. <<>> \in Seq(Irps) /\ Distinct(<<>>)
      BY EmptyMembers
    <3> QED BY <1>1, <3>1, RangeIsMembers
  <2>2. NoCall \in [step : {"none", "remove", "start"}, key : Keys \union {0},
                    irp : Irps \union {NoIrp}]
    BY DEF NoCall
  <2> QED BY <1>1, <2>1, <2>2 DEF DqTypeOK
<1>3. DqCallsRight
  BY <1>1 DEF DqCallsRight, NoCall
<1>4. DqInOrder
  BY <1>1 DEF DqInOrder
<1> QED BY <1>1, <1>2, <1>3, <1>4 DEF DqInv, DqCurrentRight, DqIdle, DqNobodyCalls

\* What IoStartPacket does to the request, in any case.
LEMMA Arrives ==
    ASSUME DqInv, NEW irp \in Irps, IoStartPacket(irp)
    PROVE  \E key \in Keys :
             /\ dqEntry' \in [Irps -> [inserted : BOOLEAN, key : Keys \union {0}]]
             /\ \A i \in Irps \ {irp} : dqEntry'[i] = dqEntry[i]
             /\ dqKeyed => dqEntry'[irp].key = key
             /\ dqList' = IF ~dqBusy THEN dqList
                          ELSE IF dqKeyed THEN InsertedByKey(irp, key)
                          ELSE Append(dqList, irp)
             /\ dqBusy' = TRUE
             /\ dqStarted' = IF dqBusy THEN dqStarted ELSE dqStarted \union {irp}
             /\ dqCurrent' = IF dqBusy THEN dqCurrent ELSE irp
             /\ UNCHANGED <<dqKeyed, dqCall>>
             /\ irp \notin Members(dqList)
<1>1. /\ dqEntry \in [Irps -> [inserted : BOOLEAN, key : Keys \union {0}]]
      /\ dqBusy \in BOOLEAN /\ dqList \in Seq(Irps)
  BY DEF DqInv, DqTypeOK
<1>2. PICK key \in Keys :
        /\ dqEntry' = [dqEntry EXCEPT ![irp] =
               IF dqKeyed THEN [@ EXCEPT !.key = key] ELSE [@ EXCEPT !.inserted = dqBusy]]
        /\ dqList' = IF ~dqBusy THEN dqList
                     ELSE IF dqKeyed THEN InsertedByKey(irp, key)
                     ELSE Append(dqList, irp)
  BY DEF IoStartPacket
<1>3. /\ dqBusy' = TRUE
      /\ dqStarted' = IF dqBusy THEN dqStarted ELSE dqStarted \union {irp}
      /\ dqCurrent' = IF dqBusy THEN dqCurrent ELSE irp
      /\ UNCHANGED <<dqKeyed, dqCall>>
      /\ irp \notin Members(dqList)
  BY <1>1, RangeIsMembers DEF IoStartPacket, DqFree
<1>4. /\ dqEntry' \in [Irps -> [inserted : BOOLEAN, key : Keys \union {0}]]
      /\ \A i \in Irps \ {irp} : dqEntry'[i] = dqEntry[i]
      /\ dqKeyed => dqEntry'[irp].key = key
  BY <1>1, <1>2
<1> QED BY <1>2, <1>3, <1>4

\* The keys in the queue are numbers, and in order.
LEMMA KeysInQueue ==
    ASSUME DqInv
    PROVE  /\ \A i \in 1..Len(dqList) : dqList[i] \in Irps /\ DqKey(dqList[i]) \in Nat
           /\ dqKeyed => \A i, j \in 1..Len(dqList) :
                             i <= j => DqKey(dqList[i]) <= DqKey(dqList[j])
<1>1. /\ \A x \in Irps : dqEntry[x].key \in Keys \union {0}
      /\ Keys \union {0} \subseteq Nat
  BY DeviceQueueAssumption DEF DqInv, DqTypeOK
<1>2. \A i \in 1..Len(dqList) : dqList[i] \in Irps
  BY DEF DqInv, DqTypeOK
<1> QED BY <1>1, <1>2 DEF DqKey, DqInv, DqInOrder

\* A request that finds the queue busy becomes the last entry, or the last of
\* those with keys up to its own.
LEMMA QueuedAt ==
    ASSUME DqInv, NEW irp \in Irps, IoStartPacket(irp), dqBusy
    PROVE  LET n == Len(dqList)
               key == dqEntry'[irp].key
           IN  /\ dqList' \in Seq(Irps) /\ Distinct(dqList')
               /\ dqKeyed => key \in Nat
               /\ \E k \in 1..(n + 1) :
                    /\ HasInserted(dqList', dqList, k, irp)
                    /\ ~dqKeyed => k = n + 1
                    /\ dqKeyed =>
                         /\ \A i \in 1..n : i < k => DqKey(dqList[i]) <= key
                         /\ \A i \in 1..n : i >= k => DqKey(dqList[i]) > key
<1> DEFINE n == Len(dqList)
<1>1. /\ dqList \in Seq(Irps) /\ Distinct(dqList) /\ Keys \subseteq Nat /\ n \in Nat
      /\ dqKeyed \in BOOLEAN
  BY RangeIsMembers, DeviceQueueAssumption DEF DqInv, DqTypeOK
<1>2. PICK key \in Keys :
        /\ dqKeyed => dqEntry'[irp].key = key
        /\ dqList' = IF dqKeyed THEN InsertedByKey(irp, key) ELSE Append(dqList, irp)
        /\ irp \notin Members(dqList)
  BY Arrives
<1>3. /\ \A i \in 1..n : dqList[i] \in Irps /\ DqKey(dqList[i]) \in Nat
      /\ dqKeyed => \A i, j \in 1..n : i <= j => DqKey(dqList[i]) <= DqKey(dqList[j])
  BY KeysInQueue
<1> DEFINE k == IF ~dqKeyed \/ Place(key) = 0 THEN n + 1 ELSE Place(key)
<1>4. /\ k \in 1..(n + 1)
      /\ dqKeyed => /\ \A i \in 1..n : i < k => DqKey(dqList[i]) <= key
                    /\ \A i \in 1..n : i >= k => DqKey(dqList[i]) > key
  <2>1. CASE ~dqKeyed
    BY <1>1, <2>1
  <2>2. CASE dqKeyed /\ Place(key) = 0
    BY <1>1, <1>3, <2>2, PlaceFound
  <2>3. CASE dqKeyed /\ Place(key) # 0
    <3>1. /\ Place(key) \in 1..n /\ key < DqKey(dqList[Place(key)])
          /\ \A i \in 1..n : key < DqKey(dqList[i]) => Place(key) <= i
      BY <1>1, <2>3, PlaceFound
    <3>2. k = Place(key)
      BY <2>3
    <3>3. ASSUME NEW i \in 1..n, i < k PROVE DqKey(dqList[i]) <= key
      BY <1>1, <1>3, <3>1, <3>2, <3>3
    <3>4. ASSUME NEW i \in 1..n, i >= k PROVE DqKey(dqList[i]) > key
      <4>1. DqKey(dqList[k]) <= DqKey(dqList[i])
        BY <1>3, <2>3, <3>1, <3>2, <3>4
      <4> HIDE DEF k
      <4>2. key < DqKey(dqList[k]) /\ DqKey(dqList[k]) \in Nat /\ DqKey(dqList[i]) \in Nat
        BY <1>3, <3>1, <3>2
      <4> QED BY <4>1, <4>2, <1>1
    <3>5. k \in 1..(n + 1)
      BY <1>1, <3>1, <3>2
    <3> QED BY <3>3, <3>4, <3>5
  <2> QED BY <2>1, <2>2, <2>3, <1>1
<1>5. dqList' = SubSeq(dqList, 1, k - 1) \o <<irp>> \o SubSeq(dqList, k, n)
  <2>1. CASE ~dqKeyed \/ Place(key) = 0
    <3>1. dqList' = Append(dqList, irp)
      BY <1>2, <2>1 DEF InsertedByKey
    <3> QED BY <3>1, <2>1, <1>1
  <2>2. CASE ~(~dqKeyed \/ Place(key) = 0)
    BY <1>2, <2>2 DEF InsertedByKey, InsertAt
  <2> QED BY <2>1, <2>2
<1>6. ~dqKeyed => k = n + 1
  OBVIOUS
<1> HIDE DEF k, n
<1>7. /\ dqList \in Seq(Irps) /\ irp \in Irps /\ k \in 1..(Len(dqList) + 1)
      /\ dqList' = SubSeq(dqList, 1, k - 1) \o <<irp>> \o SubSeq(dqList, k, Len(dqList))
  BY <1>1, <1>4, <1>5 DEF n
<1>8. dqList' \in Seq(Irps) /\ Distinct(dqList')
  <2>1. Distinct(dqList) /\ irp \notin Members(dqList)
    BY <1>1, <1>2
  <2> QED BY <1>7, <2>1, InsertMember
<1>9. HasInserted(dqList', dqList, k, irp)
  <2>1. \A S : \A p, s \in Seq(S), x \in S : \A m \in 1..(Len(p) + 1) :
            s = SubSeq(p, 1, m - 1) \o <<x>> \o SubSeq(p, m, Len(p))
                => HasInserted(s, p, m, x)
    BY PlacesAfterInsertion
  <2>2. \A p, s \in Seq(Irps), x \in Irps : \A m \in 1..(Len(p) + 1) :
            s = SubSeq(p, 1, m - 1) \o <<x>> \o SubSeq(p, m, Len(p))
                => HasInserted(s, p, m, x)
    BY <2>1
  <2> QED BY <1>7, <1>8, <2>2
<1> QED BY <1>1, <1>2, <1>4, <1>6, <1>8, <1>9 DEF n

\* The queue stays in order.
LEMMA QueuedInOrder ==
    ASSUME DqInv, NEW irp \in Irps, IoStartPacket(irp), dqBusy
    PROVE  DqInOrder'
<1> SUFFICES ASSUME dqKeyed PROVE DqInOrder'
  BY Arrives DEF DqInOrder
<1> DEFINE n == Len(dqList)
           K(x) == dqEntry'[x].key
           r == dqList'
           key == dqEntry'[irp].key
<1>1. PICK k \in 1..(n + 1) :
        /\ HasInserted(r, dqList, k, irp) /\ key \in Nat
        /\ \A i \in 1..n : i < k => DqKey(dqList[i]) <= key
        /\ \A i \in 1..n : i >= k => DqKey(dqList[i]) > key
  BY QueuedAt
<1>2. /\ \A x \in Irps \ {irp} : K(x) = DqKey(x)
      /\ irp \notin Members(dqList)
  BY Arrives DEF DqKey
<1>3. \A i \in 1..n : K(dqList[i]) = DqKey(dqList[i]) /\ K(dqList[i]) \in Nat
  BY <1>2, KeysInQueue DEF Members
<1>4. /\ Len(r) = n + 1
      /\ \A i \in 1..(n + 1) :
             r[i] = IF i < k THEN dqList[i] ELSE IF i = k THEN irp ELSE dqList[i - 1]
  BY <1>1 DEF HasInserted
<1>5. \A i, j \in 1..n : i <= j => K(dqList[i]) <= K(dqList[j])
  BY <1>3, KeysInQueue
<1>6. /\ \A i \in 1..n : i < k => K(dqList[i]) <= key
      /\ \A i \in 1..n : i >= k => K(dqList[i]) >= key
  BY <1>1, <1>3
<1>7. n \in Nat /\ K(irp) = key
  BY DEF DqInv, DqTypeOK
<1> HIDE DEF K, r, n, key
<1>8. ASSUME NEW i \in 1..(n + 1), NEW j \in 1..(n + 1), i <= j
      PROVE  K(r[i]) <= K(r[j])
  <2>0. n \in Nat /\ k \in 1..(n + 1) /\ key \in Nat
    BY <1>1, <1>7
  <2>1. CASE j < k
    <3>1. i \in 1..n /\ j \in 1..n /\ i < k
      BY <1>8, <2>0, <2>1
    <3> QED BY <3>1, <1>4, <1>5, <1>8, <2>1
  <2>2. CASE j = k
    <3>1. CASE i = k
      BY <1>4, <1>7, <2>0, <2>2, <3>1
    <3>2. CASE i # k
      <4>1. i \in 1..n /\ i < k
        BY <1>8, <2>0, <2>2, <3>2
      <4> QED BY <4>1, <1>4, <1>6, <1>7, <2>0, <2>2
    <3> QED BY <3>1, <3>2
  <2>3. CASE j > k
    <3>1. j - 1 \in 1..n /\ j - 1 >= k
      BY <2>0, <2>3
    <3>2. r[j] = dqList[j - 1]
      BY <1>4, <2>0, <2>3
    <3>3. CASE i < k
      <4>1. i \in 1..n /\ i <= j - 1
        BY <3>1, <3>3, <2>0
      <4> QED BY <4>1, <3>1, <3>2, <3>3, <1>4, <1>5
    <3>4. CASE i = k
      BY <1>4, <1>6, <1>7, <3>1, <3>2, <3>4, <2>0
    <3>5. CASE i > k
      <4>1. i - 1 \in 1..n /\ i - 1 <= j - 1
        BY <1>8, <3>5, <2>0
      <4>2. r[i] = dqList[i - 1]
        BY <1>4, <2>0, <3>5
      <4> QED BY <4>1, <4>2, <3>1, <3>2, <1>5
    <3> QED BY <3>3, <3>4, <3>5, <2>0
  <2> QED BY <2>0, <2>1, <2>2, <2>3
<1> QED BY <1>4, <1>8 DEF DqInOrder, DqKey, K, r

\* IoStartPacket: the driver gets the request if the queue is idle, else it is
\* queued.
LEMMA IoStartPacketKeeps ==
    ASSUME DqInv, NEW irp \in Irps, IoStartPacket(irp)
    PROVE  DqInv'
<1>1. DqTypeOK /\ DqCallsRight /\ DqCurrentRight /\ dqBusy \in BOOLEAN
  BY DEF DqInv, DqTypeOK
<1>2. /\ dqEntry' \in [Irps -> [inserted : BOOLEAN, key : Keys \union {0}]]
      /\ ~dqBusy => dqList' = dqList
      /\ dqBusy' = TRUE
      /\ dqStarted' = IF dqBusy THEN dqStarted ELSE dqStarted \union {irp}
      /\ dqCurrent' = IF dqBusy THEN dqCurrent ELSE irp
      /\ UNCHANGED <<dqKeyed, dqCall>>
  BY Arrives
<1>3. CASE ~dqBusy
  <2>1. DqIdle
    BY <1>3 DEF DqInv, DqWithDriver, DqWithCaller
  <2>2. dqList' = <<>> /\ dqStarted' = {irp} /\ dqCurrent' = irp /\ dqBusy'
    BY <1>2, <1>3, <2>1 DEF DqIdle
  <2>3. DqTypeOK'
    BY <1>1, <1>2, <1>3, <2>2 DEF DqTypeOK
  <2>4. DqCallsRight' /\ DqCurrentRight' /\ DqNobodyCalls'
    BY <1>1, <1>2, <2>1, <2>2 DEF DqCallsRight, DqCurrentRight, DqIdle, DqNobodyCalls
  <2>5. DqInOrder'
    BY <2>2 DEF DqInOrder
  <2> QED BY <2>2, <2>3, <2>4, <2>5 DEF DqInv, DqWithDriver
<1>4. CASE dqBusy
  <2>1. dqStarted' = dqStarted /\ dqCurrent' = dqCurrent /\ dqBusy'
    BY <1>2, <1>4
  <2>2. DqWithDriver' \/ DqWithCaller'
    BY <1>2, <1>4, <2>1 DEF DqInv, DqIdle, DqWithDriver, DqWithCaller, DqNobodyCalls
  <2>3. dqList' \in Seq(Irps) /\ IsInjective(dqList')
    BY <1>4, QueuedAt, RangeIsMembers
  <2>4. DqTypeOK'
    BY <1>1, <1>2, <2>1, <2>3 DEF DqTypeOK
  <2>5. DqCallsRight' /\ DqCurrentRight'
    BY <1>1, <1>2, <2>1 DEF DqCallsRight, DqCurrentRight
  <2> QED BY <1>4, <2>2, <2>4, <2>5, QueuedInOrder DEF DqInv
<1> QED BY <1>1, <1>3, <1>4

\* A request is taken off the list: the others stay as they are.
LEMMA RemovalKeeps ==
    ASSUME dqList \in Seq(Irps), Distinct(dqList), DqInOrder, NEW k \in 1..Len(dqList),
           dqList' = RemoveAt(dqList, k), dqKeyed' = dqKeyed,
           \A i \in Irps : dqEntry'[i].key = dqEntry[i].key
    PROVE  /\ dqList' \in Seq(Irps) /\ Distinct(dqList') /\ DqInOrder'
           /\ Members(dqList') = Members(dqList) \ {dqList[k]}
<1> DEFINE n == Len(dqList)
<1>1. dqList' = SubSeq(dqList, 1, k - 1) \o SubSeq(dqList, k + 1, Len(dqList))
  BY DEF RemoveAt
<1>2. /\ dqList' \in Seq(Irps) /\ Distinct(dqList')
      /\ Members(dqList') = Members(dqList) \ {dqList[k]}
  BY <1>1, RemoveMember
<1>3. /\ Len(dqList') = n - 1
      /\ \A i \in 1..Len(dqList') : dqList'[i] = IF i < k THEN dqList[i] ELSE dqList[i + 1]
  <2>1. \A S : \A q \in Seq(S) : \A m \in 1..Len(q) :
            LET r == SubSeq(q, 1, m - 1) \o SubSeq(q, m + 1, Len(q))
            IN  /\ Len(r) = Len(q) - 1
                /\ \A i \in 1..Len(r) : r[i] = IF i < m THEN q[i] ELSE q[i + 1]
    BY PlacesAfterRemoval
  <2>2. \A q \in Seq(Irps) : \A m \in 1..Len(q) :
            LET r == SubSeq(q, 1, m - 1) \o SubSeq(q, m + 1, Len(q))
            IN  /\ Len(r) = Len(q) - 1
                /\ \A i \in 1..Len(r) : r[i] = IF i < m THEN q[i] ELSE q[i + 1]
    BY <2>1
  <2>3. LET r == SubSeq(dqList, 1, k - 1) \o SubSeq(dqList, k + 1, Len(dqList))
        IN  /\ Len(r) = Len(dqList) - 1
            /\ \A i \in 1..Len(r) : r[i] = IF i < k THEN dqList[i] ELSE dqList[i + 1]
    BY <2>2
  <2> QED BY <1>1, <2>3
<1>4. n \in Nat /\ \A i \in 1..n : dqList[i] \in Irps
  OBVIOUS
<1>5. ASSUME dqKeyed, NEW i \in 1..Len(dqList'), NEW j \in 1..Len(dqList'), i <= j
      PROVE  dqEntry'[dqList'[i]].key <= dqEntry'[dqList'[j]].key
  <2> DEFINE before(m) == IF m < k THEN m ELSE m + 1
  <2>1. i \in 1..(n - 1) /\ j \in 1..(n - 1)
    BY <1>3
  <2>2. before(i) \in 1..n /\ before(j) \in 1..n /\ before(i) <= before(j)
    BY <1>4, <1>5, <2>1
  <2>3. dqList'[i] = dqList[before(i)] /\ dqList'[j] = dqList[before(j)]
    BY <1>3
  <2> HIDE DEF before
  <2>4. DqKey(dqList[before(i)]) <= DqKey(dqList[before(j)])
    BY <1>5, <2>2 DEF DqInOrder
  <2> QED BY <1>4, <2>2, <2>3, <2>4 DEF DqKey
<1>6. DqInOrder'
  BY <1>5 DEF DqInOrder, DqKey
<1> QED BY <1>2, <1>6

\* KeRemoveEntryDeviceQueue takes off the list what Inserted says is on it.
LEMMA KeRemoveEntryKeeps ==
    ASSUME DqInv, NEW irp \in Irps, KeRemoveEntryDeviceQueue(irp)
    PROVE  DqInv'
<1>1. /\ DqTypeOK /\ DqCallsRight /\ DqCurrentRight /\ DqInOrder
      /\ dqList \in Seq(Irps) /\ IsInjective(dqList)
      /\ dqEntry \in [Irps -> [inserted : BOOLEAN, key : Keys \union {0}]]
  BY DEF DqInv, DqTypeOK
<1>2. /\ irp \in Members(dqList) /\ Distinct(dqList)
      /\ UNCHANGED <<dqKeyed, dqBusy, dqCurrent, dqStarted, dqCall>>
      /\ dqEntry' = [dqEntry EXCEPT ![irp].inserted = FALSE]
      /\ dqList' = Unlinked(dqList, irp)
  BY <1>1, RangeIsMembers DEF KeRemoveEntryDeviceQueue
<1>3. PICK k \in 1..Len(dqList) : dqList' = RemoveAt(dqList, k)
  <2> DEFINE k == CHOOSE i \in 1..Len(dqList) : dqList[i] = irp
  <2>1. k \in 1..Len(dqList)
    BY <1>2 DEF Members
  <2> QED BY <1>2, <2>1 DEF Unlinked
<1>4. /\ dqEntry' \in [Irps -> [inserted : BOOLEAN, key : Keys \union {0}]]
      /\ \A i \in Irps : dqEntry'[i].key = dqEntry[i].key
  BY <1>1, <1>2
<1>5. dqList' \in Seq(Irps) /\ Distinct(dqList') /\ DqInOrder'
  BY <1>1, <1>2, <1>3, <1>4, RemovalKeeps
<1>6. DqTypeOK'
  BY <1>1, <1>2, <1>4, <1>5, RangeIsMembers DEF DqTypeOK
<1>7. DqCallsRight' /\ DqCurrentRight'
  BY <1>1, <1>2 DEF DqCallsRight, DqCurrentRight
<1>8. DqWithDriver' \/ DqWithCaller'
  <2>1. ~DqIdle
    BY <1>2, EmptyMembers DEF DqIdle
  <2> QED BY <1>2, <2>1 DEF DqInv, DqWithDriver, DqWithCaller, DqNobodyCalls
<1> QED BY <1>5, <1>6, <1>7, <1>8 DEF DqInv

\* IoStartNextPacket: the driver gives back its only request, and the token goes
\* to the caller.
LEMMA IoStartNextPacketKeeps ==
    ASSUME DqInv, NEW c \in Callers, NEW irp \in Irps, IoStartNextPacket(c, irp)
    PROVE  DqInv'
<1>1. DqTypeOK /\ DqCallsRight /\ DqInOrder
  BY DEF DqInv
<1>2. PICK key \in Keys \union {0} :
        dqCall' = [dqCall EXCEPT ![c] = [step |-> "remove", key |-> key, irp |-> NoIrp]]
  <2>1. (IF dqKeyed THEN Keys ELSE {0}) \subseteq Keys \union {0}
    OBVIOUS
  <2> QED BY <2>1 DEF IoStartNextPacket
<1>3. /\ irp \in dqStarted /\ dqStarted' = dqStarted \ {irp} /\ dqCurrent' = NoIrp
      /\ UNCHANGED <<dqKeyed, dqBusy, dqList, dqEntry>>
  BY DEF IoStartNextPacket
<1>4. DqWithDriver
  BY <1>3 DEF DqInv, DqIdle, DqWithCaller
<1>5. dqStarted' = {}
  BY <1>3, <1>4 DEF DqWithDriver
<1>6. DqTypeOK'
  <2>1. dqCall' \in [Callers -> [step : {"none", "remove", "start"},
                                 key : Keys \union {0}, irp : Irps \union {NoIrp}]]
    BY <1>1, <1>2 DEF DqTypeOK
  <2> QED BY <1>1, <1>3, <1>5, <2>1 DEF DqTypeOK
<1>7. /\ dqCall'[c] = [step |-> "remove", key |-> key, irp |-> NoIrp]
      /\ \A d \in Callers \ {c} : dqCall'[d] = dqCall[d]
  BY <1>1, <1>2 DEF DqTypeOK
<1>8. DqCallsRight'
  BY <1>1, <1>7 DEF DqCallsRight
<1>9. DqWithCaller'
  <2>1. dqCall'[c] # NoCall
    BY <1>7 DEF NoCall
  <2> QED BY <1>3, <1>4, <1>5, <1>7, <2>1 DEF DqWithDriver, DqWithCaller, DqNobodyCalls
<1>10. DqInOrder' /\ DqCurrentRight'
  BY <1>1, <1>3, <1>5 DEF DqInOrder, DqKey, DqCurrentRight
<1> QED BY <1>6, <1>8, <1>9, <1>10 DEF DqInv

\* Only one caller is under way.
LEMMA OneCaller ==
    ASSUME DqInv, NEW c \in Callers, dqCall[c] # NoCall
    PROVE  /\ dqBusy /\ dqStarted = {} /\ dqCurrent = NoIrp
           /\ \A d \in Callers \ {c} : dqCall[d] = NoCall
BY DEF DqInv, DqIdle, DqWithDriver, DqWithCaller, DqNobodyCalls, DqCurrentRight

\* Which entry is taken.
LEMMA TakenIsThere ==
    ASSUME DqInv, NEW key \in Keys \union {0}, dqList # <<>>
    PROVE  TakenFrom(key) \in 1..Len(dqList)
<1>1. /\ dqList \in Seq(Irps) /\ Keys \union {0} \subseteq Nat
      /\ dqEntry \in [Irps -> [inserted : BOOLEAN, key : Keys \union {0}]]
  BY DeviceQueueAssumption DEF DqInv, DqTypeOK
<1>2. Len(dqList) \in Nat /\ Len(dqList) > 0
  BY <1>1, EmptySeq
<1>3. \A i \in 1..Len(dqList) : DqKey(dqList[i]) \in Nat
  <2>1. \A x \in Irps : dqEntry[x].key \in Nat
    BY <1>1
  <2>2. \A i \in 1..Len(dqList) : dqList[i] \in Irps
    BY <1>1
  <2> QED BY <2>1, <2>2 DEF DqKey
<1>4. NextByKey(key) \in 1..Len(dqList)
  BY <1>1, <1>3, NextFound
<1> QED BY <1>2, <1>4 DEF TakenFrom

\* KeRemoveDeviceQueue and KeRemoveByKeyDeviceQueue: the caller takes a request,
\* or finds none and the queue is idle.
LEMMA KeRemoveKeeps ==
    ASSUME DqInv, NEW c \in Callers, KeRemoveDeviceQueue(c)
    PROVE  DqInv'
<1>1. /\ DqTypeOK /\ DqCallsRight /\ DqCurrentRight /\ DqInOrder
      /\ dqList \in Seq(Irps) /\ IsInjective(dqList) /\ Distinct(dqList)
      /\ dqEntry \in [Irps -> [inserted : BOOLEAN, key : Keys \union {0}]]
      /\ dqCall \in [Callers -> [step : {"none", "remove", "start"},
                                 key : Keys \union {0}, irp : Irps \union {NoIrp}]]
  BY RangeIsMembers DEF DqInv, DqTypeOK
<1>2. /\ dqCall[c].step = "remove" /\ dqBusy' = (dqList # <<>>)
      /\ UNCHANGED <<dqKeyed, dqCurrent, dqStarted>>
  BY DEF KeRemoveDeviceQueue, BusyAfterRemoval
<1>3. dqCall[c] # NoCall
  BY <1>2 DEF NoCall
<1>4. /\ dqBusy /\ dqStarted = {} /\ dqCurrent = NoIrp
      /\ \A d \in Callers \ {c} : dqCall[d] = NoCall
  BY <1>3, OneCaller
<1>5. CASE dqList = <<>>
  <2>1. dqCall' = [dqCall EXCEPT ![c] = NoCall] /\ UNCHANGED <<dqList, dqEntry>>
    BY <1>5 DEF KeRemoveDeviceQueue
  <2>2. \A d \in Callers : dqCall'[d] = NoCall
    BY <1>1, <1>4, <2>1
  <2>3. dqCall' \in [Callers -> [step : {"none", "remove", "start"},
                                 key : Keys \union {0}, irp : Irps \union {NoIrp}]]
    BY <1>1, <2>1 DEF NoCall
  <2>4. DqTypeOK'
    BY <1>1, <1>2, <2>1, <2>3 DEF DqTypeOK
  <2>5. DqCallsRight'
    BY <2>2 DEF DqCallsRight, NoCall
  <2>6. DqInOrder' /\ DqCurrentRight'
    BY <1>1, <1>2, <2>1 DEF DqInOrder, DqKey, DqCurrentRight
  <2>7. DqIdle'
    BY <1>2, <1>4, <1>5, <2>1, <2>2 DEF DqIdle, DqNobodyCalls
  <2> QED BY <2>4, <2>5, <2>6, <2>7 DEF DqInv
<1>6. CASE dqList # <<>>
  <2> DEFINE k == TakenFrom(dqCall[c].key)
             x == dqList[k]
  <2>1. dqCall[c].key \in Keys \union {0}
    BY <1>1
  <2>2. k \in 1..Len(dqList)
    BY <1>6, <2>1, TakenIsThere
  <2>3. x \in Irps
    BY <1>1, <2>2
  <2>4. /\ dqCall' = [dqCall EXCEPT ![c].step = "start", ![c].irp = x]
        /\ dqList' = RemoveAt(dqList, k)
        /\ dqEntry' = [dqEntry EXCEPT ![x].inserted = FALSE]
    BY <1>6 DEF KeRemoveDeviceQueue
  <2> HIDE DEF k, x
  <2>5. /\ dqCall'[c].step = "start" /\ dqCall'[c].irp = x
        /\ \A d \in Callers \ {c} : dqCall'[d] = dqCall[d]
        /\ dqCall' \in [Callers -> [step : {"none", "remove", "start"},
                                    key : Keys \union {0}, irp : Irps \union {NoIrp}]]
    BY <1>1, <2>3, <2>4
  <2>6. /\ dqEntry' \in [Irps -> [inserted : BOOLEAN, key : Keys \union {0}]]
        /\ \A i \in Irps : dqEntry'[i].key = dqEntry[i].key
    BY <1>1, <2>3, <2>4
  <2>7. dqList' \in Seq(Irps) /\ Distinct(dqList') /\ DqInOrder'
    BY <1>1, <1>2, <2>2, <2>4, <2>6, RemovalKeeps
  <2>8. DqTypeOK'
    BY <1>1, <1>2, <1>6, <2>5, <2>6, <2>7, RangeIsMembers DEF DqTypeOK
  <2>9. DqCallsRight' /\ DqCurrentRight'
    BY <1>1, <1>2, <2>3, <2>5 DEF DqCallsRight, DqCurrentRight
  <2>10. DqWithCaller'
    <3>1. dqCall'[c] # NoCall
      BY <2>5 DEF NoCall
    <3>2. dqBusy' /\ dqStarted' = {}
      BY <1>2, <1>4, <1>6
    <3> QED BY <1>4, <2>5, <3>1, <3>2 DEF DqWithCaller
  <2> QED BY <2>7, <2>8, <2>9, <2>10 DEF DqInv
<1> QED BY <1>5, <1>6

\* The end of IoStartNextPacket: the driver has the token again.
LEMMA DriverStartIoKeeps ==
    ASSUME DqInv, NEW c \in Callers, DriverStartIo(c)
    PROVE  DqInv'
<1>1. /\ DqTypeOK /\ DqCallsRight /\ DqInOrder
      /\ dqCall \in [Callers -> [step : {"none", "remove", "start"},
                                 key : Keys \union {0}, irp : Irps \union {NoIrp}]]
  BY DEF DqInv, DqTypeOK
<1>2. /\ dqCall[c].step = "start" /\ dqCurrent' = dqCall[c].irp
      /\ dqStarted' = dqStarted \union {dqCall[c].irp}
      /\ dqCall' = [dqCall EXCEPT ![c] = NoCall]
      /\ UNCHANGED <<dqKeyed, dqBusy, dqList, dqEntry>>
  BY DEF DriverStartIo
<1>3. dqCall[c] # NoCall /\ dqCall[c].irp \in Irps
  BY <1>1, <1>2 DEF NoCall, DqCallsRight
<1>4. dqBusy /\ dqStarted = {} /\ \A d \in Callers \ {c} : dqCall[d] = NoCall
  BY <1>3, OneCaller
<1>5. /\ dqStarted' = {dqCall[c].irp}
      /\ \A d \in Callers : dqCall'[d] = NoCall
      /\ dqCall' \in [Callers -> [step : {"none", "remove", "start"},
                                  key : Keys \union {0}, irp : Irps \union {NoIrp}]]
  BY <1>1, <1>2, <1>4 DEF NoCall
<1>6. DqTypeOK'
  BY <1>1, <1>2, <1>3, <1>5 DEF DqTypeOK
<1>7. DqCallsRight'
  BY <1>5 DEF DqCallsRight, NoCall
<1>8. DqInOrder' /\ DqCurrentRight'
  BY <1>1, <1>2, <1>5 DEF DqInOrder, DqKey, DqCurrentRight
<1>9. DqWithDriver'
  BY <1>2, <1>3, <1>4, <1>5 DEF DqWithDriver, DqNobodyCalls
<1> QED BY <1>6, <1>7, <1>8, <1>9 DEF DqInv

\* Every step keeps the invariant.
LEMMA DqSteps == DqInv /\ [DqNext]_dqVars => DqInv'
<1> SUFFICES ASSUME DqInv, [DqNext]_dqVars PROVE DqInv'
  OBVIOUS
<1>1. CASE DqNext
  BY <1>1, IoStartPacketKeeps, KeRemoveEntryKeeps, IoStartNextPacketKeeps, KeRemoveKeeps,
     DriverStartIoKeeps DEF DqNext
<1>2. CASE UNCHANGED dqVars
  <2>1. UNCHANGED <<dqKeyed, dqBusy, dqList, dqEntry, dqCurrent, dqStarted, dqCall>>
    BY <1>2 DEF dqVars
  <2>2. DqTypeOK' /\ DqCallsRight' /\ DqCurrentRight' /\ DqInOrder'
    BY <2>1 DEF DqInv, DqTypeOK, DqCallsRight, DqCurrentRight, DqInOrder, DqKey
  <2> QED BY <2>1, <2>2 DEF DqInv, DqIdle, DqWithDriver, DqWithCaller, DqNobodyCalls
<1> QED BY <1>1, <1>2

-----------------------------------------------------------------------------
(* The theorems.                                                            *)

\* The inductive invariant holds throughout.
THEOREM DqInvariant == DqSpec => []DqInv
BY DqBegins, DqSteps, PTL DEF DqSpec

\* However IoStartPacket and the steps of several IoStartNextPacket overlap, the
\* driver has one request at a time, CurrentIrp names it, and no request is in
\* the queue with nobody to start it.
THEOREM DqOneRequestAtATime == DqSpec => []DqOneAtATime
<1>1. ASSUME DqInv PROVE DqOneAtATime
  <2> DEFINE Under == {c \in Callers : dqCall[c] # NoCall}
  <2>1. Cardinality(dqStarted) + Cardinality(Under) = IF dqBusy THEN 1 ELSE 0
    <3>0. \A x : Cardinality({x}) = 1
      BY FS_Singleton
    <3>1. Cardinality({}) = 0
      BY FS_EmptySet
    <3>2. CASE DqIdle
      <4>1. Under = {} /\ dqStarted = {} /\ ~dqBusy
        BY <3>2 DEF DqIdle, DqNobodyCalls
      <4> QED BY <3>1, <4>1
    <3>3. CASE DqWithDriver
      <4>1. Under = {} /\ dqBusy
        BY <3>3 DEF DqWithDriver, DqNobodyCalls
      <4>2. PICK irp \in Irps : dqStarted = {irp}
        BY <3>3 DEF DqWithDriver
      <4>3. Cardinality(dqStarted) = 1 /\ Cardinality(Under) = 0
        BY <3>0, <3>1, <4>1, <4>2
      <4> HIDE DEF Under
      <4> QED BY <4>1, <4>3
    <3>4. CASE DqWithCaller
      <4>1. dqStarted = {} /\ dqBusy
        BY <3>4 DEF DqWithCaller
      <4>2. PICK c \in Callers : Under = {c}
        BY <3>4 DEF DqWithCaller
      <4>3. Cardinality(dqStarted) = 0 /\ Cardinality(Under) = 1
        BY <3>0, <3>1, <4>1, <4>2
      <4> HIDE DEF Under
      <4> QED BY <4>1, <4>3
    <3> QED BY <1>1, <3>2, <3>3, <3>4 DEF DqInv
  <2>2. dqList # <<>> => dqBusy
    BY <1>1 DEF DqInv, DqIdle, DqWithDriver, DqWithCaller
  <2> QED BY <1>1, <2>1, <2>2 DEF DqOneAtATime, DqInv, DqCurrentRight
<1>2. DqInv => DqOneAtATime
  BY <1>1
<1> QED BY <1>2, DqInvariant, PTL


-----------------------------------------------------------------------------
(* Who is next.                                                             *)

\* Where an entry is.
LEMMA PlaceOfEntry ==
    ASSUME NEW q \in Seq(Irps), Distinct(q), NEW k \in 1..Len(q)
    PROVE  DqPlaceOf(q[k], q) = k
<1> DEFINE I == {i \in 1..Len(q) : q[i] = q[k]}
<1>1. k \in I /\ \A i \in I : i = k
  BY DEF Distinct
<1>2. DqPlaceOf(q[k], q) = Min(I)
  BY <1>1 DEF DqPlaceOf, SelectInSeq
<1>3. Len(q) \in Nat /\ I \in SUBSET (1..Len(q))
  OBVIOUS
<1>4. Min(I) \in I
  BY <1>1, <1>3, LeastOf
<1> QED BY <1>1, <1>2, <1>4

\* Only KeRemoveDeviceQueue takes a request for a caller to start.
LEMMA OnlyRemovalTakes ==
    ASSUME DqInv, DqNext, NEW c \in Callers,
           dqCall[c].step = "remove", dqCall'[c].step = "start"
    PROVE  KeRemoveDeviceQueue(c)
<1>0. dqCall \in [Callers -> [step : {"none", "remove", "start"},
                              key : Keys \union {0}, irp : Irps \union {NoIrp}]]
  BY DEF DqInv, DqTypeOK
<1>1. ASSUME NEW irp \in Irps, IoStartPacket(irp) \/ KeRemoveEntryDeviceQueue(irp)
      PROVE  FALSE
  <2>1. dqCall' = dqCall
    BY <1>1 DEF IoStartPacket, KeRemoveEntryDeviceQueue
  <2> QED BY <2>1
<1>2. ASSUME NEW d \in Callers, NEW irp \in Irps, IoStartNextPacket(d, irp) PROVE FALSE
  <2>1. dqCall[d] = NoCall
    BY <1>2 DEF IoStartNextPacket
  <2>2. d # c
    BY <2>1 DEF NoCall
  <2>3. \E e : dqCall' = [dqCall EXCEPT ![d] = e]
    BY <1>2 DEF IoStartNextPacket
  <2> QED BY <1>0, <2>2, <2>3
<1>3. ASSUME NEW d \in Callers, KeRemoveDeviceQueue(d), d # c PROVE FALSE
  <2>1. dqCall[d] # NoCall
    BY <1>3 DEF KeRemoveDeviceQueue, NoCall
  <2>2. dqCall[c] = NoCall
    BY <1>3, <2>1, OneCaller
  <2> QED BY <2>2 DEF NoCall
<1>4. ASSUME NEW d \in Callers, DriverStartIo(d) PROVE FALSE
  <2>1. dqCall[d] # NoCall /\ d # c
    BY <1>4 DEF DriverStartIo, NoCall
  <2>2. dqCall[c] = NoCall
    BY <2>1, OneCaller
  <2> QED BY <2>2 DEF NoCall
<1> QED BY <1>1, <1>2, <1>3, <1>4 DEF DqNext

\* What KeRemoveDeviceQueue takes is the request that was to be next.
LEMMA NearestOldestTaken ==
    ASSUME DqInv, NEW c \in Callers, KeRemoveDeviceQueue(c), dqCall'[c].step = "start"
    PROVE  LET irp == dqCall'[c].irp
               key == dqCall[c].key
               queued == Range(dqList)
               pool == IF dqKeyed /\ \E i \in queued : DqKey(i) > key
                       THEN {i \in queued : DqKey(i) >= key} ELSE queued
               least == {i \in pool : ~dqKeyed \/ \A j \in pool : DqKey(i) <= DqKey(j)}
           IN  /\ irp \in least
               /\ \A i \in least : DqPlaceOf(irp, dqList) <= DqPlaceOf(i, dqList)
<1> DEFINE key == dqCall[c].key
           n == Len(dqList)
           k == TakenFrom(key)
           queued == Range(dqList)
           pool == IF dqKeyed /\ \E i \in queued : DqKey(i) > key
                   THEN {i \in queued : DqKey(i) >= key} ELSE queued
           least == {i \in pool : ~dqKeyed \/ \A j \in pool : DqKey(i) <= DqKey(j)}
<1>1. /\ dqList \in Seq(Irps) /\ Distinct(dqList) /\ n \in Nat
      /\ dqCall \in [Callers -> [step : {"none", "remove", "start"},
                                 key : Keys \union {0}, irp : Irps \union {NoIrp}]]
      /\ queued = Members(dqList) /\ key \in Nat /\ key \in Keys \union {0}
      /\ dqKeyed \in BOOLEAN
  <2>1. /\ dqList \in Seq(Irps) /\ IsInjective(dqList) /\ dqKeyed \in BOOLEAN
        /\ dqCall \in [Callers -> [step : {"none", "remove", "start"},
                                   key : Keys \union {0}, irp : Irps \union {NoIrp}]]
    BY DEF DqInv, DqTypeOK
  <2>2. key \in Keys \union {0} /\ Keys \subseteq Nat
    BY <2>1, DeviceQueueAssumption
  <2>3. Range(dqList) = Members(dqList) /\ Distinct(dqList)
    BY <2>1, RangeIsMembers
  <2>4. n \in Nat
    BY <2>1
  <2>5. key \in Nat
    <3>1. \A x \in Keys \union {0} : x \in Nat
      BY DeviceQueueAssumption
    <3> QED BY <2>2, <3>1
  <2> QED BY <2>1, <2>2, <2>3, <2>4, <2>5
<1>2. dqList # <<>>
  BY <1>1 DEF KeRemoveDeviceQueue, NoCall
<1>3. k \in 1..n
  BY <1>1, <1>2, TakenIsThere
<1>4. dqCall'[c].irp = dqList[k]
  BY <1>1, <1>2 DEF KeRemoveDeviceQueue
<1>5. /\ \A i \in 1..n : DqKey(dqList[i]) \in Nat
      /\ dqKeyed => \A i, j \in 1..n : i <= j => DqKey(dqList[i]) <= DqKey(dqList[j])
  BY KeysInQueue
<1>6. \A i \in queued : \E m \in 1..n : i = dqList[m]
  BY <1>1 DEF Members
<1>7. \A m \in 1..n : dqList[m] \in queued /\ DqPlaceOf(dqList[m], dqList) = m
  BY <1>1, PlaceOfEntry DEF Members
<1>8. \A i \in least : i \in pool
  OBVIOUS
<1>9. /\ k \in 1..n /\ n \in 1..n
      /\ ~dqKeyed => k = 1
      /\ dqKeyed /\ DqKey(dqList[n]) <= key => k = 1
      /\ dqKeyed /\ DqKey(dqList[n]) > key =>
           /\ key <= DqKey(dqList[k])
           /\ \A i \in 1..n : key <= DqKey(dqList[i]) => k <= i
  <2>1. n \in 1..n
    BY <1>1, <1>3
  <2>2. LET m == NextByKey(key)
        IN  /\ DqKey(dqList[n]) <= key => m = 1
            /\ DqKey(dqList[n]) > key =>
                    /\ key <= DqKey(dqList[m])
                    /\ \A i \in 1..n : key <= DqKey(dqList[i]) => m <= i
    BY <1>1, <1>2, <1>5, NextFound
  <2>3. k = IF dqKeyed THEN NextByKey(key) ELSE 1
    BY DEF TakenFrom
  <2> HIDE DEF k, n, key
  <2> QED BY <1>3, <2>1, <2>2, <2>3
<1> HIDE DEF k, n, key, queued
<1>10. CASE ~dqKeyed
  <2>1. pool = queued /\ least = queued /\ k = 1
    BY <1>9, <1>10
  <2> HIDE DEF pool, least
  <2>2. \A i \in least : k <= DqPlaceOf(i, dqList)
    BY <1>6, <1>7, <2>1
  <2> QED BY <1>3, <1>4, <1>7, <2>1, <2>2 DEF pool, least, queued, key
<1>11. CASE dqKeyed /\ DqKey(dqList[n]) <= key
  <2>1. \A i \in queued : ~(DqKey(i) > key)
    <3>1. ASSUME NEW m \in 1..n PROVE ~(DqKey(dqList[m]) > key)
      <4>1. DqKey(dqList[m]) <= DqKey(dqList[n])
        BY <1>1, <1>5, <1>9, <1>11
      <4> QED BY <4>1, <1>1, <1>5, <1>9, <1>11
    <3> QED BY <3>1, <1>6
  <2>2. pool = queued /\ k = 1
    BY <2>1, <1>9, <1>11
  <2> HIDE DEF pool
  <2>3. \A i \in queued : DqKey(dqList[k]) <= DqKey(i)
    BY <1>1, <1>5, <1>6, <1>9, <1>11, <2>2
  <2>4. dqList[k] \in least
    BY <1>3, <1>7, <2>2, <2>3
  <2>5. \A i \in least : k <= DqPlaceOf(i, dqList)
    BY <1>6, <1>7, <1>8, <2>2
  <2> HIDE DEF least
  <2> QED BY <1>3, <1>4, <1>7, <2>4, <2>5 DEF pool, least, queued, key
<1>12. CASE dqKeyed /\ DqKey(dqList[n]) > key
  <2>1. pool = {i \in queued : DqKey(i) >= key}
    BY <1>7, <1>9, <1>12
  <2> HIDE DEF pool
  <2>2. ASSUME NEW i \in pool
        PROVE  DqKey(dqList[k]) <= DqKey(i) /\ k <= DqPlaceOf(i, dqList)
    <3>1. PICK m \in 1..n : i = dqList[m]
      BY <1>6, <2>1
    <3>2. key <= DqKey(dqList[m])
      BY <2>1, <3>1, <1>1, <1>5
    <3>3. k <= m
      BY <1>9, <1>12, <3>2
    <3> QED BY <1>5, <1>7, <1>9, <1>12, <3>1, <3>3
  <2>3. dqList[k] \in pool
    BY <1>1, <1>5, <1>7, <1>9, <1>12, <2>1
  <2>4. dqList[k] \in least
    BY <2>2, <2>3
  <2>5. \A i \in least : k <= DqPlaceOf(i, dqList)
    BY <2>2
  <2> HIDE DEF least
  <2> QED BY <1>3, <1>4, <1>7, <2>4, <2>5 DEF pool, least, queued, key
<1> QED BY <1>1, <1>5, <1>9, <1>10, <1>11, <1>12

\* Only IoStartPacket adds to the queue, and behind who was there before.
LEMMA OnlyArrivalAdds ==
    ASSUME DqInv, DqNext, NEW irp \in Range(dqList') \ Range(dqList),
           NEW i \in Range(dqList), ~dqKeyed \/ DqKey(i) = dqEntry'[irp].key
    PROVE  DqPlaceOf(i, dqList') < DqPlaceOf(irp, dqList')
<1>1. /\ dqList \in Seq(Irps) /\ Distinct(dqList) /\ Len(dqList) \in Nat
      /\ Range(dqList) = Members(dqList) /\ dqKeyed \in BOOLEAN
  BY RangeIsMembers DEF DqInv, DqTypeOK
<1>2. dqList' \in Seq(Irps) /\ Range(dqList') = Members(dqList')
  <2>1. dqList' \in Seq(Irps)
    BY DqSteps DEF DqInv, DqTypeOK
  <2> QED BY <2>1, RangeIsMembers
<1>3. ASSUME NEW j \in Irps, KeRemoveEntryDeviceQueue(j) PROVE FALSE
  <2> DEFINE k == CHOOSE m \in 1..Len(dqList) : dqList[m] = j
  <2>1. j \in Members(dqList)
    BY <1>1, <1>3 DEF KeRemoveEntryDeviceQueue
  <2>2. k \in 1..Len(dqList)
    BY <2>1 DEF Members
  <2>3. dqList' = SubSeq(dqList, 1, k - 1) \o SubSeq(dqList, k + 1, Len(dqList))
    BY <1>3 DEF KeRemoveEntryDeviceQueue, Unlinked, RemoveAt
  <2> HIDE DEF k
  <2> QED BY <1>1, <1>2, <2>2, <2>3, RemoveMember
<1>4. ASSUME NEW c \in Callers, KeRemoveDeviceQueue(c) PROVE FALSE
  <2>1. dqList # <<>>
    BY <1>4 DEF KeRemoveDeviceQueue
  <2> DEFINE k == TakenFrom(dqCall[c].key)
  <2>2. dqCall[c].key \in Keys \union {0}
    BY DEF DqInv, DqTypeOK
  <2>3. k \in 1..Len(dqList)
    BY <2>1, <2>2, TakenIsThere
  <2>4. dqList' = SubSeq(dqList, 1, k - 1) \o SubSeq(dqList, k + 1, Len(dqList))
    BY <1>4, <2>1 DEF KeRemoveDeviceQueue, RemoveAt
  <2> HIDE DEF k
  <2> QED BY <1>1, <1>2, <2>3, <2>4, RemoveMember
<1>5. ASSUME NEW j \in Irps, IoStartPacket(j)
      PROVE  DqPlaceOf(i, dqList') < DqPlaceOf(irp, dqList')
  <2>1. dqBusy /\ dqKeyed' = dqKeyed
    BY <1>5, Arrives
  <2>2. /\ Distinct(dqList')
        /\ \E k \in 1..(Len(dqList) + 1) :
             /\ HasInserted(dqList', dqList, k, j)
             /\ ~dqKeyed => k = Len(dqList) + 1
             /\ dqKeyed => \A m \in 1..Len(dqList) :
                               m >= k => DqKey(dqList[m]) > dqEntry'[j].key
    BY <1>5, <2>1, QueuedAt
  <2>3. PICK k \in 1..(Len(dqList) + 1) :
             /\ HasInserted(dqList', dqList, k, j)
             /\ ~dqKeyed => k = Len(dqList) + 1
             /\ dqKeyed => \A m \in 1..Len(dqList) :
                               m >= k => DqKey(dqList[m]) > dqEntry'[j].key
    BY <2>2
  <2> DEFINE n == Len(dqList)
  <2>4. /\ Len(dqList') = n + 1
        /\ \A m \in 1..(n + 1) : dqList'[m] =
               IF m < k THEN dqList[m] ELSE IF m = k THEN j ELSE dqList[m - 1]
    BY <2>3 DEF HasInserted
  <2>5. PICK a \in 1..(n + 1) : irp = dqList'[a]
    BY <1>2, <2>4 DEF Members
  <2>6. \A m \in 1..n : irp # dqList[m]
    BY <1>1 DEF Members
  <2>7. a = k /\ irp = j
    <3>1. ~(a < k)
      BY <1>1, <2>3, <2>4, <2>5, <2>6
    <3>2. ~(a > k)
      <4>1. ASSUME a > k PROVE FALSE
        <5>1. a - 1 \in 1..n /\ dqList'[a] = dqList[a - 1]
          BY <1>1, <2>3, <2>4, <2>5, <4>1
        <5> QED BY <5>1, <2>5, <2>6
      <4> QED BY <4>1
    <3> QED BY <3>1, <3>2, <1>1, <2>3, <2>4, <2>5
  <2>8. PICK m \in 1..n : i = dqList[m]
    BY <1>1 DEF Members
  <2>9. m < k
    <3>1. CASE ~dqKeyed
      BY <1>1, <2>3, <3>1
    <3>2. CASE dqKeyed
      <4>1. DqKey(dqList[m]) = dqEntry'[j].key
        BY <2>7, <2>8, <3>2
      <4>2. DqKey(dqList[m]) \in Nat
        BY KeysInQueue
      <4>3. ~(m >= k)
        BY <2>3, <3>2, <4>1, <4>2
      <4> QED BY <4>3, <1>1
    <3> QED BY <1>1, <3>1, <3>2
  <2>10. m \in 1..Len(dqList') /\ k \in 1..Len(dqList') /\ dqList'[m] = i /\ dqList'[k] = irp
    BY <1>1, <2>3, <2>4, <2>5, <2>7, <2>8, <2>9
  <2>11. DqPlaceOf(dqList'[m], dqList') = m /\ DqPlaceOf(dqList'[k], dqList') = k
    BY <1>2, <2>2, <2>10, PlaceOfEntry
  <2> QED BY <2>9, <2>10, <2>11
<1>6. ASSUME dqList' = dqList PROVE FALSE
  BY <1>6
<1>7. ASSUME NEW c \in Callers, DriverStartIo(c) PROVE FALSE
  BY <1>6, <1>7 DEF DriverStartIo
<1>8. ASSUME NEW c \in Callers, NEW j \in Irps, IoStartNextPacket(c, j) PROVE FALSE
  BY <1>6, <1>8 DEF IoStartNextPacket
<1> QED BY <1>3, <1>4, <1>5, <1>7, <1>8 DEF DqNext

\* The driver gets the request nearest above the key it asks with, else the
\* lowest, and of those with the same key the one that has waited longest.
THEOREM DqRightRequestNext == DqSpec => DqNearestOldestNext
<1> DEFINE Right ==
     /\ \A c \in Callers :
            dqCall[c].step = "remove" /\ dqCall'[c].step = "start" =>
              LET irp == dqCall'[c].irp
                  key == dqCall[c].key
                  queued == Range(dqList)
                  pool == IF dqKeyed /\ \E i \in queued : DqKey(i) > key
                          THEN {i \in queued : DqKey(i) >= key} ELSE queued
                  least == {i \in pool : ~dqKeyed \/ \A j \in pool : DqKey(i) <= DqKey(j)}
              IN  /\ irp \in least
                  /\ \A i \in least : DqPlaceOf(irp, dqList) <= DqPlaceOf(i, dqList)
     /\ \A irp \in Range(dqList') \ Range(dqList), i \in Range(dqList) :
            ~dqKeyed \/ DqKey(i) = dqEntry'[irp].key =>
                DqPlaceOf(i, dqList') < DqPlaceOf(irp, dqList')
<1>1. ASSUME DqInv, [DqNext]_dqVars PROVE [Right]_dqVars
  <2> SUFFICES ASSUME DqNext PROVE Right
    BY <1>1
  <2>1. ASSUME NEW c \in Callers, dqCall[c].step = "remove", dqCall'[c].step = "start"
        PROVE  KeRemoveDeviceQueue(c)
    BY <1>1, <2>1, OnlyRemovalTakes
  <2> QED BY <1>1, <2>1, NearestOldestTaken, OnlyArrivalAdds
<1>2. DqInv /\ [DqNext]_dqVars => [Right]_dqVars
  BY <1>1
<1> QED BY <1>2, DqInvariant, PTL DEF DqSpec, DqNearestOldestNext


-----------------------------------------------------------------------------
(* The pool: arithmetic.                                                    *)

\* Multiples grow with their factor.
LEMMA MultiplesGrow ==
    ASSUME NEW u \in Nat, NEW j \in Int, NEW k \in Int, j <= k
    PROVE  j * u <= k * u
<1>1. k - j \in Nat
  OBVIOUS
<1>2. (k - j) * u >= 0
  BY <1>1
<1>3. (k - j) * u = k * u - j * u
  OBVIOUS
<1> QED BY <1>2, <1>3

\* Division leaves a remainder that is less than the divisor.
LEMMA DivisionLeaves ==
    ASSUME NEW a \in Nat, NEW u \in Nat \ {0}
    PROVE  /\ a \div u \in Nat /\ a % u \in 0..(u - 1)
           /\ a = ((a \div u) * u) + (a % u)
OBVIOUS

\* Which number is the quotient.
LEMMA QuotientIs ==
    ASSUME NEW a \in Nat, NEW u \in Nat \ {0}, NEW k \in Nat,
           k * u <= a, a < (k + 1) * u
    PROVE  a \div u = k /\ a % u = a - k * u
<1> DEFINE d == a \div u
<1>1. d \in Nat /\ a % u \in 0..(u - 1) /\ a = (d * u) + (a % u)
  BY DivisionLeaves
<1> HIDE DEF d
<1>2. ~(d <= k - 1)
  <2>1. SUFFICES ASSUME d + 1 <= k PROVE FALSE
    BY <1>1
  <2>2. (d + 1) * u <= k * u
    BY <1>1, <2>1, MultiplesGrow
  <2>3. (d + 1) * u = d * u + u
    BY <1>1
  <2> QED BY <1>1, <2>2, <2>3
<1>3. ~(k + 1 <= d)
  <2>1. SUFFICES ASSUME k + 1 <= d PROVE FALSE
    OBVIOUS
  <2>2. (k + 1) * u <= d * u
    BY <1>1, <2>1, MultiplesGrow
  <2> QED BY <1>1, <2>2
<1>4. d = k
  BY <1>1, <1>2, <1>3
<1> QED BY <1>1, <1>4 DEF d

\* Multiples of a page are aligned, and what lies between two of them is not.
LEMMA Alignment ==
    ASSUME NEW u \in Nat \ {0}, NEW k \in Nat
    PROVE  /\ k * u \in Nat /\ (k * u) % u = 0
           /\ \A a \in Nat : k * u < a /\ a < (k + 1) * u => a % u # 0
<1>1. k * u \in Nat /\ k * u < (k + 1) * u
  <2>1. k * u \in Nat
    OBVIOUS
  <2>2. (k + 1) * u = k * u + u
    OBVIOUS
  <2> QED BY <2>1, <2>2
<1>2. (k * u) % u = k * u - k * u
  BY <1>1, QuotientIs
<1>3. ASSUME NEW a \in Nat, k * u < a, a < (k + 1) * u PROVE a % u # 0
  <2>1. k * u <= a
    BY <1>1, <1>3
  <2>2. a % u = a - k * u
    BY <1>3, <2>1, QuotientIs
  <2> QED BY <1>1, <1>3, <2>2
<1> QED BY <1>1, <1>2, <1>3

\* The sizes of chunks are multiples of the unit, up to half a page.
ChunkSize(i) == (i + 1) * ChunkUnit
HalfPage == PoolSize \div 2

LEMMA ChunkSizes ==
    /\ HalfPage \in Nat /\ PoolSize = 2 * HalfPage /\ LastList \in Nat
    /\ HalfPage = ChunkSize(LastList)
    /\ \A i \in 0..LastList :
         /\ ChunkSize(i) \in Nat /\ ChunkSize(i) >= ChunkUnit /\ ChunkSize(i) <= HalfPage
         /\ (ChunkSize(i) - 1) \div ChunkUnit = i
<1> DEFINE u == 2 * ChunkUnit
           q == PoolSize \div u
<1>1. ChunkUnit \in Nat \ {0} /\ PoolSize \in Nat \ {0} /\ u \in Nat \ {0}
  BY PoolAssumption
<1>2. q \in Nat /\ PoolSize = q * u
  <2>1. PoolSize % u = 0
    BY PoolAssumption
  <2> HIDE DEF u
  <2>2. PoolSize \div u \in Nat /\ PoolSize = ((PoolSize \div u) * u) + (PoolSize % u)
    BY <1>1, DivisionLeaves
  <2>3. (PoolSize \div u) * u \in Nat
    BY <1>1, <2>2
  <2> QED BY <2>1, <2>2, <2>3
<1> HIDE DEF q
<1>3. q * u = 2 * (q * ChunkUnit) /\ q * ChunkUnit \in Nat
  BY <1>1, <1>2
<1>4. q >= 1
  <2>1. CASE q = 0
    BY <1>1, <1>2, <2>1
  <2> QED BY <1>2, <2>1
<1>5. HalfPage = q * ChunkUnit /\ HalfPage \in Nat /\ PoolSize = 2 * HalfPage
  BY <1>2, <1>3 DEF HalfPage
<1>6. LastList = q - 1
  <2>1. (q + 1) * ChunkUnit = q * ChunkUnit + ChunkUnit
    BY <1>1, <1>2
  <2>2. q * ChunkUnit <= HalfPage /\ HalfPage < (q + 1) * ChunkUnit
    BY <1>1, <1>3, <1>5, <2>1
  <2>3. HalfPage \div ChunkUnit = q
    BY <1>1, <1>2, <1>5, <2>2, QuotientIs
  <2> QED BY <2>3 DEF LastList, HalfPage
<1>7. ASSUME NEW i \in 0..LastList
      PROVE  /\ ChunkSize(i) \in Nat /\ ChunkSize(i) >= ChunkUnit /\ ChunkSize(i) <= HalfPage
             /\ (ChunkSize(i) - 1) \div ChunkUnit = i
  <2>1. i \in Nat /\ i + 1 <= q /\ 1 <= i + 1
    BY <1>2, <1>4, <1>6
  <2>2. (i + 1) * ChunkUnit <= q * ChunkUnit /\ 1 * ChunkUnit <= (i + 1) * ChunkUnit
    BY <1>1, <1>2, <2>1, MultiplesGrow
  <2>3. ChunkSize(i) \in Nat /\ ChunkSize(i) >= ChunkUnit /\ ChunkSize(i) <= HalfPage
    BY <1>1, <1>5, <2>1, <2>2 DEF ChunkSize
  <2>4. (i + 1) * ChunkUnit = i * ChunkUnit + ChunkUnit /\ i * ChunkUnit \in Nat
    BY <1>1, <2>1
  <2>5. /\ ChunkSize(i) - 1 \in Nat /\ i * ChunkUnit <= ChunkSize(i) - 1
        /\ ChunkSize(i) - 1 < (i + 1) * ChunkUnit
    BY <1>1, <2>3, <2>4 DEF ChunkSize
  <2>6. (ChunkSize(i) - 1) \div ChunkUnit = i
    BY <1>1, <2>1, <2>5, QuotientIs
  <2> QED BY <2>3, <2>6
<1> QED BY <1>2, <1>4, <1>5, <1>6, <1>7 DEF ChunkSize

\* The list a size goes to has chunks that are large enough.
LEMMA RightList ==
    ASSUME NEW bytes \in Nat, bytes <= HalfPage - ChunkOverhead
    PROVE  /\ ListIdx(bytes) \in 0..LastList
           /\ bytes + ChunkOverhead <= ChunkSize(ListIdx(bytes))
<1> DEFINE a == bytes + ChunkOverhead - 1
           i == a \div ChunkUnit
<1>1. /\ ChunkUnit \in Nat \ {0} /\ ChunkOverhead \in Nat /\ ChunkOverhead >= 1
      /\ a \in Nat /\ HalfPage \in Nat /\ LastList \in Nat
      /\ HalfPage = (LastList + 1) * ChunkUnit
  BY PoolAssumption, ChunkSizes DEF ChunkSize
<1>2. a < HalfPage
  BY <1>1
<1> HIDE DEF a
<1>3. i \in Nat /\ a % ChunkUnit \in 0..(ChunkUnit - 1) /\ a = (i * ChunkUnit) + (a % ChunkUnit)
  BY <1>1, DivisionLeaves
<1> HIDE DEF i
<1>4. (i + 1) * ChunkUnit = i * ChunkUnit + ChunkUnit /\ i * ChunkUnit \in Nat
  BY <1>1, <1>3
<1>5. a + 1 <= (i + 1) * ChunkUnit
  BY <1>1, <1>3, <1>4
<1>6. i <= LastList
  <2>1. SUFFICES ASSUME LastList + 1 <= i PROVE FALSE
    BY <1>1, <1>3
  <2>2. (LastList + 1) * ChunkUnit <= i * ChunkUnit
    BY <1>1, <1>3, <2>1, MultiplesGrow
  <2> QED BY <1>1, <1>2, <1>3, <1>4, <2>2
<1>7. ListIdx(bytes) = i
  BY DEF ListIdx, i, a
<1>8. bytes + ChunkOverhead = a + 1
  BY <1>1 DEF a
<1> QED BY <1>1, <1>3, <1>5, <1>6, <1>7, <1>8 DEF ChunkSize

\* Where the chunks of a page lie that was cut.
Places(cut) == {cut.page + k * cut.size : k \in 0..(PoolSize \div cut.size - 1)}

\* Two extents that have nothing in common.
Apart(x, xsize, y, ysize) == x + xsize <= y \/ y + ysize <= x

\* CreatePool's chunks fill the page and do not overlap.
LEMMA PlacesInPage ==
    ASSUME NEW page \in Nat, NEW size \in Nat \ {0}, size <= PoolSize, NEW c,
           c.page = page, c.size = size
    PROVE  /\ page \in Places(c)
           /\ \A x \in Places(c) : x \in Nat /\ page <= x /\ x + size <= page + PoolSize
           /\ \A x, y \in Places(c) : x = y \/ Apart(x, size, y, size)
<1> DEFINE n == PoolSize \div size
<1>1. PoolSize \in Nat \ {0}
  BY PoolAssumption
<1>2. /\ n \in Nat /\ PoolSize % size \in 0..(size - 1)
      /\ PoolSize = (n * size) + (PoolSize % size)
  BY <1>1, DivisionLeaves
<1>3. Places(c) = {page + k * size : k \in 0..(n - 1)}
  BY DEF Places
<1> HIDE DEF n
<1>4. n * size <= PoolSize /\ n >= 1
  <2>1. n * size \in Nat
    BY <1>2
  <2>2. n # 0
    BY <1>1, <1>2
  <2> QED BY <1>1, <1>2, <2>1, <2>2
<1>5. ASSUME NEW k \in 0..(n - 1)
      PROVE  k * size \in Nat /\ k * size + size <= PoolSize
  <2>1. k \in Nat /\ k + 1 <= n
    BY <1>2
  <2>2. (k + 1) * size <= n * size
    BY <1>2, <2>1, MultiplesGrow
  <2>3. (k + 1) * size = k * size + size /\ k * size \in Nat /\ n * size \in Nat
    BY <1>2, <2>1
  <2> QED BY <1>1, <1>4, <2>2, <2>3
<1>6. page \in Places(c)
  <2>1. 0 \in 0..(n - 1) /\ page + 0 * size = page
    BY <1>2, <1>4
  <2> QED BY <1>3, <2>1
<1>7. \A x \in Places(c) : x \in Nat /\ page <= x /\ x + size <= page + PoolSize
  BY <1>1, <1>3, <1>5
<1>8. ASSUME NEW j \in 0..(n - 1), NEW k \in 0..(n - 1), j + 1 <= k
      PROVE  page + j * size + size <= page + k * size
  <2>1. (j + 1) * size <= k * size
    BY <1>8, MultiplesGrow
  <2>2. (j + 1) * size = j * size + size
    BY <1>8
  <2> QED BY <1>5, <2>1, <2>2
<1>9. ASSUME NEW x \in Places(c), NEW y \in Places(c)
      PROVE  x = y \/ Apart(x, size, y, size)
  <2>1. PICK j \in 0..(n - 1) : x = page + j * size
    BY <1>3
  <2>2. PICK k \in 0..(n - 1) : y = page + k * size
    BY <1>3
  <2>3. j = k \/ j + 1 <= k \/ k + 1 <= j
    BY <1>2
  <2> QED BY <1>8, <2>1, <2>2, <2>3 DEF Apart
<1> QED BY <1>6, <1>7, <1>9

\* ... and are linked once each.
LEMMA ChunksAreLinked ==
    ASSUME NEW page \in Nat, NEW size \in Nat \ {0}, size <= PoolSize, NEW c,
           c.page = page, c.size = size
    PROVE  /\ Chunks(page, size) \in Seq(Nat) /\ Chunks(page, size) # <<>>
           /\ Members(Chunks(page, size)) = Places(c)
           /\ Distinct(Chunks(page, size))
<1> DEFINE n == PoolSize \div size
           q == Chunks(page, size)
<1>1. PoolSize \in Nat \ {0}
  BY PoolAssumption
<1>2. n \in Nat
  BY <1>1, DivisionLeaves
<1>3. q = [i \in 1..n |-> page + (i - 1) * size] /\ Places(c) = {page + k * size : k \in 0..(n - 1)}
  BY DEF Chunks, Places
<1> HIDE DEF n, q
<1>4. \A i \in 1..n : page + (i - 1) * size \in Nat
  OBVIOUS
<1>5. q \in Seq(Nat) /\ Len(q) = n /\ \A i \in 1..n : q[i] = page + (i - 1) * size
  BY <1>2, <1>3, <1>4
<1>6. Members(q) = Places(c)
  <2>1. ASSUME NEW i \in 1..n PROVE q[i] \in Places(c)
    <3>1. i - 1 \in 0..(n - 1)
      BY <1>2
    <3> QED BY <1>3, <1>5, <3>1
  <2>2. ASSUME NEW k \in 0..(n - 1) PROVE page + k * size \in Members(q)
    <3>1. k + 1 \in 1..n /\ (k + 1) - 1 = k
      BY <1>2
    <3>2. q[k + 1] = page + k * size
      BY <1>5, <3>1
    <3> QED BY <1>5, <3>1, <3>2 DEF Members
  <2>3. Members(q) \subseteq Places(c)
    BY <1>5, <2>1 DEF Members
  <2>4. Places(c) \subseteq Members(q)
    BY <1>3, <2>2
  <2> QED BY <2>3, <2>4
<1>7. Distinct(q)
  <2>1. SUFFICES ASSUME NEW i \in 1..n, NEW j \in 1..n, q[i] = q[j], i + 1 <= j PROVE FALSE
    <3>1. \A i, j \in 1..n : q[i] = q[j] => ~(i + 1 <= j) /\ ~(j + 1 <= i)
      BY <2>1
    <3> QED BY <1>2, <1>5, <3>1 DEF Distinct
  <2>2. i * size <= (j - 1) * size
    BY <2>1, MultiplesGrow
  <2>3. i * size = (i - 1) * size + size /\ (i - 1) * size \in Nat /\ (j - 1) * size \in Nat
    OBVIOUS
  <2> QED BY <1>5, <2>1, <2>2, <2>3
<1>8. q # <<>>
  <2>1. page \in Members(q)
    BY <1>6, PlacesInPage
  <2> QED BY <2>1, EmptyMembers
<1> QED BY <1>5, <1>6, <1>7, <1>8 DEF q

-----------------------------------------------------------------------------
(* The pool: the inductive invariant, of lists, blocks and cut pages.       *)

\* The pages that were cut, each for one list.
CutsRight(cuts) ==
    /\ \A c \in cuts :
         /\ c.page \in Nat /\ (\E k \in Nat : c.page = k * PoolSize)
         /\ \E i \in 0..LastList : c.size = ChunkSize(i)
    /\ \A c, d \in cuts : c = d \/ Apart(c.page, PoolSize, d.page, PoolSize)

\* A list has chunks of its size only, and none twice.
ListsRight(lists, cuts) ==
    /\ lists \in [0..LastList -> Seq(Nat)]
    /\ \A i \in 0..LastList :
         /\ Distinct(lists[i])
         /\ \A x \in Members(lists[i]) :
              \E c \in cuts : c.size = ChunkSize(i) /\ x \in Places(c)

PageBlock(b, cuts) ==
    /\ b.bytes > HalfPage - ChunkOverhead /\ b.bytes <= b.size
    /\ \A c \in cuts : Apart(b.at, b.size, c.page, PoolSize)

ChunkBlock(b, cuts) ==
    /\ b.bytes <= HalfPage - ChunkOverhead /\ b.bytes + ChunkOverhead <= b.size
    /\ \E c \in cuts : b.size = c.size /\ b.at - ChunkOverhead \in Places(c)

\* A block is pages or a chunk, and no two have anything in common.
BlocksRight(blocks, cuts) ==
    /\ blocks \subseteq [at : Nat, bytes : PoolBytes, size : Nat]
    /\ \A b \in blocks : IF IsPages(b.at) THEN PageBlock(b, cuts) ELSE ChunkBlock(b, cuts)
    /\ \A b, d \in blocks :
         b = d \/ Apart(BlockStart(b), b.size, BlockStart(d), d.size)

\* A chunk is in its list, or a caller has it.
Taken(x, blocks) == \E b \in blocks : ~IsPages(b.at) /\ BlockStart(b) = x

ChunksAccountedFor(lists, blocks, cuts) ==
    \A c \in cuts, i \in 0..LastList : c.size = ChunkSize(i) =>
        \A x \in Places(c) : x \in Members(lists[i]) <=> ~Taken(x, blocks)

PoolRight(lists, blocks, cuts) ==
    /\ CutsRight(cuts) /\ ListsRight(lists, cuts) /\ BlocksRight(blocks, cuts)
    /\ ChunksAccountedFor(lists, blocks, cuts)

PoolInv == PoolRight(poolLists, poolBlocks, poolCut)

-----------------------------------------------------------------------------
(* The pool: what its routines do to it.                                    *)

\* What is known of a cut and of its places.
LEMMA CutPlaces ==
    ASSUME NEW cuts, CutsRight(cuts), NEW c \in cuts
    PROVE  /\ c.page \in Nat /\ c.size \in Nat \ {0} /\ c.size <= PoolSize
           /\ c.size > ChunkOverhead /\ c.size <= HalfPage
           /\ \A x \in Places(c) : x \in Nat /\ c.page <= x /\ x + c.size <= c.page + PoolSize
           /\ \A x, y \in Places(c) : x = y \/ Apart(x, c.size, y, c.size)
<1>1. PICK i \in 0..LastList : c.size = ChunkSize(i)
  BY DEF CutsRight
<1>2. /\ c.page \in Nat /\ ChunkUnit \in Nat \ {0} /\ PoolSize \in Nat
      /\ ChunkOverhead \in Nat /\ ChunkOverhead < ChunkUnit
  BY PoolAssumption DEF CutsRight
<1>3. /\ c.size \in Nat \ {0} /\ c.size <= PoolSize
      /\ c.size > ChunkOverhead /\ c.size <= HalfPage
  BY <1>1, <1>2, ChunkSizes
<1> QED BY <1>2, <1>3, PlacesInPage

\* The place of a chunk says of which page, and so of which size, it is.
LEMMA OnePlace ==
    ASSUME NEW cuts, CutsRight(cuts), NEW c \in cuts, NEW d \in cuts,
           NEW x \in Places(c), NEW y \in Places(d)
    PROVE  /\ x = y => c = d
           /\ x = y \/ Apart(x, c.size, y, d.size)
<1>1. /\ c.page \in Nat /\ c.size \in Nat \ {0} /\ x \in Nat
      /\ c.page <= x /\ x + c.size <= c.page + PoolSize
      /\ \A z \in Places(c) : x = z \/ Apart(x, c.size, z, c.size)
  BY CutPlaces
<1>2. /\ d.page \in Nat /\ d.size \in Nat \ {0} /\ y \in Nat
      /\ d.page <= y /\ y + d.size <= d.page + PoolSize
  BY CutPlaces
<1>3. PoolSize \in Nat
  BY PoolAssumption
<1>4. CASE c = d
  BY <1>1, <1>4
<1>5. CASE Apart(c.page, PoolSize, d.page, PoolSize)
  BY <1>1, <1>2, <1>3, <1>5 DEF Apart
<1> QED BY <1>4, <1>5 DEF CutsRight

\* What is known of a block that a caller has.
LEMMA BlockPlaces ==
    ASSUME NEW cuts, CutsRight(cuts), NEW blocks, BlocksRight(blocks, cuts), NEW b \in blocks
    PROVE  /\ b.at \in Nat /\ b.bytes \in Nat /\ b.size \in Nat /\ b.size >= 1
           /\ BlockStart(b) \in Int
           /\ IsPages(b.at) => BlockStart(b) = b.at /\ PageBlock(b, cuts)
           /\ ~IsPages(b.at) =>
                /\ BlockStart(b) = b.at - ChunkOverhead /\ ChunkBlock(b, cuts)
                /\ \E c \in cuts : b.size = c.size /\ BlockStart(b) \in Places(c)
<1>1. b.at \in Nat /\ b.bytes \in Nat /\ b.size \in Nat
  BY PoolAssumption DEF BlocksRight
<1>2. ChunkOverhead \in Nat /\ ChunkUnit \in Nat /\ ChunkOverhead < ChunkUnit /\ ChunkOverhead >= 1
  BY PoolAssumption
<1>3. BlockStart(b) = IF IsPages(b.at) THEN b.at ELSE b.at - ChunkOverhead
  BY DEF BlockStart
<1>4. CASE IsPages(b.at)
  <2>1. PageBlock(b, cuts)
    BY <1>4 DEF BlocksRight
  <2>2. HalfPage - ChunkOverhead >= 0
    <3>1. HalfPage \in Nat /\ LastList \in Nat /\ HalfPage = ChunkSize(LastList)
          /\ (LastList \in 0..LastList => ChunkSize(LastList) >= ChunkUnit)
      BY ChunkSizes
    <3> QED BY <1>2, <3>1
  <2>3. HalfPage \in Nat
    BY ChunkSizes
  <2>4. b.size >= 1
    BY <1>1, <1>2, <2>1, <2>2, <2>3 DEF PageBlock
  <2> QED BY <1>1, <1>3, <1>4, <2>1, <2>4
<1>5. CASE ~IsPages(b.at)
  <2>1. ChunkBlock(b, cuts)
    BY <1>5 DEF BlocksRight
  <2>2. b.size >= 1
    BY <1>1, <1>2, <2>1 DEF ChunkBlock
  <2>3. BlockStart(b) = b.at - ChunkOverhead
    BY <1>3, <1>5
  <2>4. \E c \in cuts : b.size = c.size /\ BlockStart(b) \in Places(c)
    BY <2>1, <2>3 DEF ChunkBlock
  <2> QED BY <1>1, <1>2, <1>5, <2>1, <2>2, <2>3, <2>4
<1> QED BY <1>4, <1>5

\* Pages that are free have nothing in common with what is cut or held.
LEMMA RowIsApart ==
    ASSUME CutsRight(poolCut), BlocksRight(poolBlocks, poolCut),
           NEW n \in Nat \ {0}, NEW page \in PagesInRow(n)
    PROVE  /\ page \in Nat /\ IsPages(page) /\ \E k \in Nat : page = k * PoolSize
           /\ \A c \in poolCut : Apart(page, n * PoolSize, c.page, PoolSize)
           /\ \A b \in poolBlocks : Apart(page, n * PoolSize, BlockStart(b), b.size)
<1>1. PoolSize \in Nat \ {0} /\ PoolPages \in Nat
  BY PoolAssumption
<1>2. PICK k \in 1..PoolPages : page = k * PoolSize
                                /\ \A j \in k..(k + n - 1) : PageFree(j * PoolSize)
  BY DEF PagesInRow
<1>3. k \in Nat /\ page \in Nat /\ page % PoolSize = 0
  BY <1>1, <1>2, Alignment
<1>4. /\ n * PoolSize \in Nat /\ (k + n) * PoolSize = page + n * PoolSize
      /\ PageFree(page)
  <2>1. k \in k..(k + n - 1)
    OBVIOUS
  <2> QED BY <1>1, <1>2, <2>1
<1>5. ASSUME NEW l \in Nat, l + 1 <= k PROVE l * PoolSize + PoolSize <= page
  <2>1. (l + 1) * PoolSize <= k * PoolSize
    BY <1>1, <1>5, MultiplesGrow
  <2>2. (l + 1) * PoolSize = l * PoolSize + PoolSize
    BY <1>1
  <2> QED BY <1>2, <2>1, <2>2
<1>6. ASSUME NEW l \in Nat, k + n <= l PROVE page + n * PoolSize <= l * PoolSize
  <2>1. (k + n) * PoolSize <= l * PoolSize
    BY <1>1, <1>6, MultiplesGrow
  <2> QED BY <1>4, <2>1
<1>7. \A l \in Nat : l + 1 <= k \/ k + n <= l \/ PageFree(l * PoolSize)
  BY <1>2
<1>8. ASSUME NEW c \in poolCut PROVE Apart(page, n * PoolSize, c.page, PoolSize)
  <2>1. PICK l \in Nat : c.page = l * PoolSize
    BY DEF CutsRight
  <2>2. ~PageFree(l * PoolSize)
    BY <2>1 DEF PageFree
  <2> QED BY <1>5, <1>6, <1>7, <2>1, <2>2 DEF Apart
<1>9. ASSUME NEW b \in poolBlocks PROVE Apart(page, n * PoolSize, BlockStart(b), b.size)
  <2>1. /\ b.at \in Nat /\ b.size \in Nat /\ b.size >= 1
        /\ IsPages(b.at) => BlockStart(b) = b.at
        /\ ~IsPages(b.at) => \E c \in poolCut : b.size = c.size /\ BlockStart(b) \in Places(c)
    BY BlockPlaces
  <2>2. CASE IsPages(b.at)
    <3> DEFINE l == b.at \div PoolSize
    <3>1. l \in Nat /\ b.at = (l * PoolSize) + (b.at % PoolSize) /\ b.at % PoolSize = 0
      BY <1>1, <2>1, <2>2, DivisionLeaves DEF IsPages
    <3> HIDE DEF l
    <3>2. b.at = l * PoolSize
      BY <1>1, <3>1
    <3>3. ~PageFree(b.at)
      BY <2>1, <2>2 DEF PageFree
    <3>4. page \notin b.at..(b.at + b.size - 1)
      BY <1>4, <2>2 DEF PageFree
    <3>5. CASE l + 1 <= k
      <4>1. b.at + PoolSize <= page
        BY <1>5, <3>1, <3>2, <3>5
      <4>2. b.at + b.size <= page
        BY <1>1, <1>3, <2>1, <3>4, <4>1
      <4> QED BY <2>1, <2>2, <4>2 DEF Apart
    <3>6. CASE k + n <= l
      BY <1>6, <2>1, <2>2, <3>1, <3>2, <3>6 DEF Apart
    <3> QED BY <1>7, <3>1, <3>2, <3>3, <3>5, <3>6
  <2>3. CASE ~IsPages(b.at)
    <3>1. PICK c \in poolCut : b.size = c.size /\ BlockStart(b) \in Places(c)
      BY <2>1, <2>3
    <3>2. /\ c.page \in Nat /\ BlockStart(b) \in Nat
          /\ c.page <= BlockStart(b) /\ BlockStart(b) + b.size <= c.page + PoolSize
      BY <3>1, CutPlaces
    <3> QED BY <1>1, <1>3, <1>4, <1>8, <2>1, <3>2 DEF Apart
  <2> QED BY <2>2, <2>3
<1> QED BY <1>2, <1>3, <1>8, <1>9 DEF IsPages

\* A block that is right, apart from all others, joins them.
LEMMA AddBlock ==
    ASSUME NEW cuts, CutsRight(cuts), NEW blocks, BlocksRight(blocks, cuts),
           NEW b \in [at : Nat, bytes : PoolBytes, size : Nat],
           IF IsPages(b.at) THEN PageBlock(b, cuts) ELSE ChunkBlock(b, cuts),
           \A d \in blocks : Apart(BlockStart(b), b.size, BlockStart(d), d.size)
    PROVE  BlocksRight(blocks \union {b}, cuts)
<1> DEFINE more == blocks \union {b}
<1>1. more \subseteq [at : Nat, bytes : PoolBytes, size : Nat]
  BY DEF BlocksRight
<1>2. \A d \in more : IF IsPages(d.at) THEN PageBlock(d, cuts) ELSE ChunkBlock(d, cuts)
  BY DEF BlocksRight
<1>3. ASSUME NEW d \in more, NEW e \in more
      PROVE  d = e \/ Apart(BlockStart(d), d.size, BlockStart(e), e.size)
  <2>1. CASE d \in blocks /\ e \in blocks
    BY <2>1 DEF BlocksRight
  <2>2. CASE d = b /\ e \in blocks
    BY <2>2
  <2>3. CASE d \in blocks /\ e = b
    BY <2>3 DEF Apart
  <2>4. CASE d = b /\ e = b
    BY <2>4
  <2> QED BY <2>1, <2>2, <2>3, <2>4
<1> QED BY <1>1, <1>2, <1>3 DEF BlocksRight

\* CreatePool: a page that was free is cut for a list that is empty.
LEMMA AddCut ==
    ASSUME NEW lists, NEW blocks, NEW cuts, PoolRight(lists, blocks, cuts),
           NEW i \in 0..LastList, lists[i] = <<>>,
           NEW page \in Nat, \E k \in Nat : page = k * PoolSize,
           \A c \in cuts : Apart(page, PoolSize, c.page, PoolSize),
           \A b \in blocks : Apart(page, PoolSize, BlockStart(b), b.size)
    PROVE  PoolRight([lists EXCEPT ![i] = Chunks(page, ChunkSize(i))], blocks,
                     cuts \union {[page |-> page, size |-> ChunkSize(i)]})
<1> DEFINE new == [page |-> page, size |-> ChunkSize(i)]
           q == Chunks(page, ChunkSize(i))
           more == cuts \union {new}
           full == [lists EXCEPT ![i] = q]
<1>1. /\ new.page = page /\ new.size = ChunkSize(i) /\ ChunkSize(i) \in Nat \ {0}
      /\ ChunkSize(i) <= PoolSize /\ PoolSize \in Nat \ {0}
  <2>1. /\ ChunkSize(i) \in Nat /\ ChunkSize(i) >= ChunkUnit /\ ChunkSize(i) <= HalfPage
        /\ HalfPage \in Nat /\ PoolSize = 2 * HalfPage
    BY ChunkSizes
  <2>2. ChunkUnit \in Nat \ {0} /\ PoolSize \in Nat \ {0}
    BY PoolAssumption
  <2> QED BY <2>1, <2>2
<1>2. /\ q \in Seq(Nat) /\ q # <<>> /\ Members(q) = Places(new) /\ Distinct(q)
  BY <1>1, ChunksAreLinked
<1>3. \A x \in Places(new) : x \in Nat /\ page <= x /\ x + ChunkSize(i) <= page + PoolSize
  BY <1>1, PlacesInPage
<1> HIDE DEF new, q
<1>4. CutsRight(more)
  <2>1. CutsRight(cuts)
    BY DEF PoolRight
  <2>2. ASSUME NEW c \in more
        PROVE  /\ c.page \in Nat /\ (\E k \in Nat : c.page = k * PoolSize)
               /\ \E j \in 0..LastList : c.size = ChunkSize(j)
    BY <1>1, <2>1 DEF CutsRight
  <2>3. ASSUME NEW c \in more, NEW d \in more
        PROVE  c = d \/ Apart(c.page, PoolSize, d.page, PoolSize)
    BY <1>1, <2>1 DEF CutsRight, Apart
  <2> QED BY <2>2, <2>3 DEF CutsRight
<1>5. ListsRight(full, more)
  <2>1. ListsRight(lists, cuts)
    BY DEF PoolRight
  <2>2. full \in [0..LastList -> Seq(Nat)]
    BY <1>2, <2>1 DEF ListsRight
  <2>3. ASSUME NEW j \in 0..LastList
        PROVE  /\ Distinct(full[j])
               /\ \A x \in Members(full[j]) :
                    \E c \in more : c.size = ChunkSize(j) /\ x \in Places(c)
    <3>1. CASE j = i
      <4>1. full[j] = q
        BY <2>1, <3>1 DEF ListsRight
      <4> QED BY <1>1, <1>2, <3>1, <4>1
    <3>2. CASE j # i
      <4>1. full[j] = lists[j]
        BY <2>1, <3>2 DEF ListsRight
      <4> QED BY <2>1, <4>1 DEF ListsRight
    <3> QED BY <3>1, <3>2
  <2> QED BY <2>2, <2>3 DEF ListsRight
<1>6. BlocksRight(blocks, more)
  <2>1. BlocksRight(blocks, cuts) /\ CutsRight(cuts)
    BY DEF PoolRight
  <2>2. ASSUME NEW b \in blocks, IsPages(b.at) PROVE PageBlock(b, more)
    <3>1. PageBlock(b, cuts) /\ BlockStart(b) = b.at
      BY <2>1, <2>2, BlockPlaces
    <3> QED BY <1>1, <3>1 DEF PageBlock, Apart
  <2>3. ASSUME NEW b \in blocks, ~IsPages(b.at) PROVE ChunkBlock(b, more)
    BY <2>1, <2>3 DEF BlocksRight, ChunkBlock
  <2> QED BY <2>1, <2>2, <2>3 DEF BlocksRight
<1>7. ASSUME NEW x \in Places(new) PROVE ~Taken(x, blocks)
  <2>1. SUFFICES ASSUME NEW b \in blocks, BlockStart(b) = x PROVE FALSE
    BY DEF Taken
  <2>2. b.size \in Nat /\ b.size >= 1
    BY BlockPlaces DEF PoolRight
  <2>3. x \in Nat /\ page <= x /\ x + ChunkSize(i) <= page + PoolSize
    BY <1>3
  <2> QED BY <1>1, <2>1, <2>2, <2>3 DEF Apart
<1>8. ChunksAccountedFor(full, blocks, more)
  <2>1. ListsRight(lists, cuts) /\ ChunksAccountedFor(lists, blocks, cuts) /\ CutsRight(cuts)
    BY DEF PoolRight
  <2>2. SUFFICES ASSUME NEW c \in more, NEW j \in 0..LastList, c.size = ChunkSize(j),
                        NEW x \in Places(c)
                 PROVE  x \in Members(full[j]) <=> ~Taken(x, blocks)
    BY DEF ChunksAccountedFor
  <2>3. CASE c = new
    <3>1. j = i
      BY <1>1, <2>2, <2>3, ChunkSizes
    <3>2. full[j] = q
      BY <2>1, <3>1 DEF ListsRight
    <3> QED BY <1>2, <1>7, <2>2, <2>3, <3>2
  <2>4. CASE c \in cuts /\ j # i
    <3>1. full[j] = lists[j]
      BY <2>1, <2>4 DEF ListsRight
    <3> QED BY <2>1, <2>2, <2>4, <3>1 DEF ChunksAccountedFor
  <2>5. CASE c \in cuts /\ j = i /\ c # new
    <3>1. full[j] = q /\ lists[j] = <<>>
      BY <2>1, <2>5 DEF ListsRight
    <3>2. x \notin Members(lists[j])
      BY <3>1, EmptyMembers
    <3>3. Taken(x, blocks)
      BY <2>1, <2>2, <2>5, <3>2 DEF ChunksAccountedFor
    <3>4. x \notin Places(new)
      BY <1>7, <3>3
    <3> QED BY <1>2, <3>1, <3>3, <3>4
  <2> QED BY <2>2, <2>3, <2>4, <2>5
<1> QED BY <1>4, <1>5, <1>6, <1>8 DEF PoolRight, new, q

\* Taking the first chunk of a list for a caller.
LEMMA TakeFirstChunk ==
    ASSUME NEW lists, NEW blocks, NEW cuts, PoolRight(lists, blocks, cuts),
           NEW bytes \in PoolBytes, bytes <= HalfPage - ChunkOverhead,
           NEW i, i = ListIdx(bytes), lists[i] # <<>>
    PROVE  PoolRight([lists EXCEPT ![i] = Tail(lists[i])],
                     blocks \union {[at |-> Head(lists[i]) + ChunkOverhead,
                                     bytes |-> bytes, size |-> ChunkSize(i)]},
                     cuts)
<1> DEFINE x == Head(lists[i])
           b == [at |-> x + ChunkOverhead, bytes |-> bytes, size |-> ChunkSize(i)]
           more == blocks \union {b}
           rest == [lists EXCEPT ![i] = Tail(lists[i])]
<1>1. /\ CutsRight(cuts) /\ ListsRight(lists, cuts) /\ BlocksRight(blocks, cuts)
      /\ ChunksAccountedFor(lists, blocks, cuts)
  BY DEF PoolRight
<1>2. bytes \in Nat /\ i \in 0..LastList /\ bytes + ChunkOverhead <= ChunkSize(i)
  BY PoolAssumption, RightList
<1>3. /\ x \in Members(lists[i]) /\ x \in Nat /\ Tail(lists[i]) \in Seq(Nat)
      /\ Members(Tail(lists[i])) = Members(lists[i]) \ {x} /\ Distinct(Tail(lists[i]))
  BY <1>1, <1>2, TailLeaves DEF ListsRight
<1>4. PICK c \in cuts : c.size = ChunkSize(i) /\ x \in Places(c)
  BY <1>1, <1>2, <1>3 DEF ListsRight
<1>5. /\ c.page \in Nat /\ c.size \in Nat \ {0} /\ c.size > ChunkOverhead
      /\ c.page <= x /\ x + c.size <= c.page + PoolSize
  BY <1>1, <1>4, CutPlaces
<1>6. ~Taken(x, blocks)
  BY <1>1, <1>2, <1>3, <1>4 DEF ChunksAccountedFor
<1>7. ChunkOverhead \in Nat \ {0} /\ PoolSize \in Nat \ {0}
  BY PoolAssumption
<1> HIDE DEF x
<1>8. /\ b \in [at : Nat, bytes : PoolBytes, size : Nat]
      /\ b.at = x + ChunkOverhead /\ b.bytes = bytes /\ b.size = c.size
  BY <1>3, <1>4, <1>5, <1>7
<1> HIDE DEF b
<1>9. ~IsPages(b.at)
  <2>1. PICK k \in Nat : c.page = k * PoolSize
    BY <1>1 DEF CutsRight
  <2>2. (k + 1) * PoolSize = k * PoolSize + PoolSize
    BY <1>7
  <2>3. b.at \in Nat /\ k * PoolSize < b.at /\ b.at < (k + 1) * PoolSize
    BY <1>3, <1>5, <1>7, <1>8, <2>1, <2>2
  <2> QED BY <1>7, <2>3, Alignment DEF IsPages
<1>10. BlockStart(b) = x
  BY <1>3, <1>7, <1>8, <1>9 DEF BlockStart
<1>11. BlocksRight(more, cuts)
  <2>1. ChunkBlock(b, cuts)
    <3>1. b.at - ChunkOverhead = x
      BY <1>3, <1>7, <1>8
    <3> QED BY <1>2, <1>4, <1>8, <3>1 DEF ChunkBlock
  <2>2. ASSUME NEW d \in blocks PROVE Apart(x, c.size, BlockStart(d), d.size)
    <3>1. CASE IsPages(d.at)
      <4>1. d.at \in Nat /\ d.size \in Nat /\ BlockStart(d) = d.at /\ PageBlock(d, cuts)
        BY <1>1, <3>1, BlockPlaces
      <4>2. Apart(d.at, d.size, c.page, PoolSize)
        BY <4>1 DEF PageBlock
      <4> QED BY <1>3, <1>5, <1>7, <4>1, <4>2 DEF Apart
    <3>2. CASE ~IsPages(d.at)
      <4>1. PICK e \in cuts : d.size = e.size /\ BlockStart(d) \in Places(e)
        BY <1>1, <3>2, BlockPlaces
      <4>2. x # BlockStart(d)
        BY <1>6, <3>2 DEF Taken
      <4> QED BY <1>1, <1>4, <4>1, <4>2, OnePlace
    <3> QED BY <3>1, <3>2
  <2> QED BY <1>1, <1>8, <1>9, <1>10, <2>1, <2>2, AddBlock
<1>12. ListsRight(rest, cuts)
  <2>1. rest \in [0..LastList -> Seq(Nat)]
    BY <1>1, <1>3 DEF ListsRight
  <2>2. ASSUME NEW j \in 0..LastList
        PROVE  /\ Distinct(rest[j])
               /\ \A y \in Members(rest[j]) :
                    \E d \in cuts : d.size = ChunkSize(j) /\ y \in Places(d)
    <3>1. Distinct(rest[j]) /\ Members(rest[j]) \subseteq Members(lists[j])
      BY <1>1, <1>2, <1>3 DEF ListsRight
    <3> QED BY <1>1, <3>1 DEF ListsRight
  <2> QED BY <2>1, <2>2 DEF ListsRight
<1>13. ChunksAccountedFor(rest, more, cuts)
  <2>1. SUFFICES ASSUME NEW d \in cuts, NEW j \in 0..LastList, d.size = ChunkSize(j),
                        NEW y \in Places(d)
                 PROVE  y \in Members(rest[j]) <=> ~Taken(y, more)
    BY DEF ChunksAccountedFor
  <2>2. y \in Members(lists[j]) <=> ~Taken(y, blocks)
    BY <1>1, <2>1 DEF ChunksAccountedFor
  <2>3. Taken(y, more) <=> Taken(y, blocks) \/ y = x
    BY <1>9, <1>10 DEF Taken
  <2>4. y = x => j = i
    <3>1. y = x => d = c
      BY <1>1, <1>4, <2>1, OnePlace
    <3> QED BY <1>2, <1>4, <2>1, <3>1, ChunkSizes
  <2>5. rest[j] = IF j = i THEN Tail(lists[i]) ELSE lists[j]
    BY <1>1, <1>2 DEF ListsRight
  <2> QED BY <1>3, <2>2, <2>3, <2>4, <2>5
<1> QED BY <1>1, <1>11, <1>12, <1>13 DEF PoolRight, x, b

\* Fewer blocks are right as well.
LEMMA RemoveBlock ==
    ASSUME NEW cuts, NEW blocks, BlocksRight(blocks, cuts), NEW b
    PROVE  BlocksRight(blocks \ {b}, cuts)
<1>1. blocks \ {b} \subseteq blocks
  OBVIOUS
<1> QED BY <1>1 DEF BlocksRight

\* A chunk goes back to the list it came from.
LEMMA GiveBackChunk ==
    ASSUME NEW lists, NEW blocks, NEW cuts, PoolRight(lists, blocks, cuts),
           NEW b \in blocks, ~IsPages(b.at)
    PROVE  LET i == (b.size - 1) \div ChunkUnit
           IN  PoolRight([lists EXCEPT ![i] = <<BlockStart(b)>> \o lists[i]],
                         blocks \ {b}, cuts)
<1> DEFINE x == BlockStart(b)
           less == blocks \ {b}
<1>1. /\ CutsRight(cuts) /\ ListsRight(lists, cuts) /\ BlocksRight(blocks, cuts)
      /\ ChunksAccountedFor(lists, blocks, cuts)
  BY DEF PoolRight
<1>2. PICK c \in cuts : b.size = c.size /\ x \in Places(c)
  BY <1>1, BlockPlaces
<1>3. PICK i \in 0..LastList : c.size = ChunkSize(i)
  BY <1>1, <1>2 DEF CutsRight
<1>4. (b.size - 1) \div ChunkUnit = i
  BY <1>2, <1>3, ChunkSizes
<1>5. x \in Nat /\ Taken(x, blocks) /\ b.size \in Nat /\ b.size >= 1
  BY <1>1, <1>2, CutPlaces, BlockPlaces DEF Taken
<1>6. x \notin Members(lists[i])
  BY <1>1, <1>2, <1>3, <1>5 DEF ChunksAccountedFor
<1> DEFINE back == <<x>> \o lists[i]
           more == [lists EXCEPT ![i] = back]
<1>7. /\ back \in Seq(Nat) /\ Members(back) = Members(lists[i]) \union {x} /\ Distinct(back)
  BY <1>1, <1>3, <1>5, <1>6, PrependMember DEF ListsRight
<1> HIDE DEF back, x
<1>8. ListsRight(more, cuts)
  <2>1. more \in [0..LastList -> Seq(Nat)]
    BY <1>1, <1>7 DEF ListsRight
  <2>2. ASSUME NEW j \in 0..LastList
        PROVE  /\ Distinct(more[j])
               /\ \A y \in Members(more[j]) :
                    \E d \in cuts : d.size = ChunkSize(j) /\ y \in Places(d)
    <3>1. CASE j = i
      <4>1. more[j] = back
        BY <1>1, <3>1 DEF ListsRight
      <4> QED BY <1>1, <1>2, <1>3, <1>7, <3>1, <4>1 DEF ListsRight
    <3>2. CASE j # i
      <4>1. more[j] = lists[j]
        BY <1>1, <3>2 DEF ListsRight
      <4> QED BY <1>1, <4>1 DEF ListsRight
    <3> QED BY <3>1, <3>2
  <2> QED BY <2>1, <2>2 DEF ListsRight
<1>9. BlocksRight(less, cuts)
  BY <1>1, RemoveBlock
<1>10. ChunksAccountedFor(more, less, cuts)
  <2>1. SUFFICES ASSUME NEW d \in cuts, NEW j \in 0..LastList, d.size = ChunkSize(j),
                        NEW y \in Places(d)
                 PROVE  y \in Members(more[j]) <=> ~Taken(y, less)
    BY DEF ChunksAccountedFor
  <2>2. y \in Members(lists[j]) <=> ~Taken(y, blocks)
    BY <1>1, <2>1 DEF ChunksAccountedFor
  <2>3. Taken(y, less) <=> Taken(y, blocks) /\ y # x
    <3>1. ASSUME NEW e \in less PROVE BlockStart(e) # x
      <4>1. Apart(BlockStart(b), b.size, BlockStart(e), e.size)
        BY <1>1, <3>1 DEF BlocksRight
      <4>2. e.size \in Nat /\ e.size >= 1
        BY <1>1, <3>1, BlockPlaces
      <4> QED BY <1>5, <4>1, <4>2 DEF Apart, x
    <3>2. \A e \in blocks : BlockStart(e) # x => e \in less
      BY DEF x
    <3> QED BY <3>1, <3>2 DEF Taken
  <2>4. y = x => j = i
    <3>1. y = x => d = c
      BY <1>1, <1>2, <2>1, OnePlace
    <3> QED BY <1>3, <2>1, <3>1, ChunkSizes
  <2>5. more[j] = IF j = i THEN back ELSE lists[j]
    BY <1>1 DEF ListsRight
  <2> QED BY <1>7, <2>2, <2>3, <2>4, <2>5
<1> QED BY <1>1, <1>4, <1>8, <1>9, <1>10 DEF PoolRight, back, x

\* Pages come and go without a change of the chunks.
LEMMA PagesOnly ==
    ASSUME NEW lists, NEW blocks, NEW cuts, PoolRight(lists, blocks, cuts), NEW less,
           BlocksRight(less, cuts),
           \A b : ~IsPages(b.at) => (b \in blocks <=> b \in less)
    PROVE  PoolRight(lists, less, cuts)
<1>1. \A x : Taken(x, less) <=> Taken(x, blocks)
  BY DEF Taken
<1> QED BY <1>1 DEF PoolRight, ChunksAccountedFor

-----------------------------------------------------------------------------
(* The pool: the steps.                                                     *)

\* The start.
LEMMA PoolInitInv == PoolInit => PoolInv
<1> SUFFICES ASSUME PoolInit PROVE PoolInv
  OBVIOUS
<1>1. /\ poolLists = [i \in 0..LastList |-> <<>>] /\ poolCut = {} /\ poolBlocks = {}
  BY DEF PoolInit
<1>2. ListsRight(poolLists, poolCut)
  BY <1>1, EmptyMembers DEF ListsRight
<1> QED BY <1>1, <1>2 DEF PoolInv, PoolRight, CutsRight, BlocksRight, ChunksAccountedFor

\* ExAllocatePoolWithTag, of more than half a page.
LEMMA AllocPagesKeeps ==
    ASSUME PoolInv, NEW bytes \in PoolBytes, bytes > HalfPage - ChunkOverhead,
           AllocPages(bytes)
    PROVE  PoolInv'
<1> DEFINE n == (bytes + PoolSize - 1) \div PoolSize
<1>1. /\ CutsRight(poolCut) /\ BlocksRight(poolBlocks, poolCut)
      /\ PoolRight(poolLists, poolBlocks, poolCut)
  BY DEF PoolInv, PoolRight
<1>2. PICK page \in PagesInRow(n) :
          /\ poolBlocks' = poolBlocks \union
                 {[at |-> page, bytes |-> bytes, size |-> n * PoolSize]}
          /\ UNCHANGED <<poolLists, poolCut>>
  BY DEF AllocPages
<1>3. /\ PoolSize \in Nat \ {0} /\ bytes \in Nat /\ HalfPage - ChunkOverhead >= 0
      /\ bytes >= 1
  <2>1. /\ PoolSize \in Nat \ {0} /\ bytes \in Nat /\ ChunkOverhead \in Nat
        /\ ChunkOverhead < ChunkUnit /\ ChunkUnit \in Nat
    BY PoolAssumption
  <2>2. HalfPage \in Nat /\ LastList \in Nat /\ HalfPage = ChunkSize(LastList)
        /\ (LastList \in 0..LastList => ChunkSize(LastList) >= ChunkUnit)
    BY ChunkSizes
  <2> QED BY <2>1, <2>2
<1>4. n \in Nat \ {0} /\ n * PoolSize \in Nat /\ bytes <= n * PoolSize
  <2> DEFINE a == bytes + PoolSize - 1
  <2>1. a \in Nat /\ bytes = a - PoolSize + 1 /\ a >= PoolSize
    BY <1>3
  <2> HIDE DEF a
  <2>2. /\ a \div PoolSize \in Nat /\ a % PoolSize \in 0..(PoolSize - 1)
        /\ a = ((a \div PoolSize) * PoolSize) + (a % PoolSize)
    BY <1>3, <2>1, DivisionLeaves
  <2>3. n = a \div PoolSize
    BY DEF a
  <2> HIDE DEF n
  <2>4. n \in Nat /\ n * PoolSize \in Nat /\ n * PoolSize + PoolSize > a
    BY <1>3, <2>2, <2>3
  <2>5. n # 0
    BY <1>3, <2>1, <2>4
  <2> QED BY <1>3, <2>1, <2>4, <2>5
<1> DEFINE b == [at |-> page, bytes |-> bytes, size |-> n * PoolSize]
<1> HIDE DEF n
<1>5. /\ page \in Nat /\ IsPages(page)
      /\ \A c \in poolCut : Apart(page, n * PoolSize, c.page, PoolSize)
      /\ \A d \in poolBlocks : Apart(page, n * PoolSize, BlockStart(d), d.size)
  BY <1>1, <1>2, <1>4, RowIsApart
<1>6. /\ b \in [at : Nat, bytes : PoolBytes, size : Nat]
      /\ b.at = page /\ b.bytes = bytes /\ b.size = n * PoolSize
  BY <1>4, <1>5
<1> HIDE DEF b
<1>7. BlockStart(b) = page /\ IsPages(b.at)
  BY <1>5, <1>6 DEF BlockStart
<1>8. PageBlock(b, poolCut)
  BY <1>4, <1>5, <1>6 DEF PageBlock
<1>9. BlocksRight(poolBlocks \union {b}, poolCut)
  BY <1>1, <1>5, <1>6, <1>7, <1>8, AddBlock
<1>10. PoolRight(poolLists, poolBlocks \union {b}, poolCut)
  BY <1>1, <1>7, <1>9, PagesOnly
<1> QED BY <1>2, <1>10 DEF PoolInv, b

\* ExAllocatePoolWithTag, of a chunk.
LEMMA AllocChunkKeeps ==
    ASSUME PoolInv, NEW bytes \in PoolBytes, bytes <= HalfPage - ChunkOverhead,
           AllocChunk(bytes)
    PROVE  PoolInv'
<1> DEFINE i == ListIdx(bytes)
           list == poolLists[i]
           size == (i + 1) * ChunkUnit
<1>1. PoolRight(poolLists, poolBlocks, poolCut)
  BY DEF PoolInv
<1>2. bytes \in Nat /\ i \in 0..LastList /\ size = ChunkSize(i)
  BY PoolAssumption, RightList DEF ChunkSize
<1>3. CASE list # <<>> /\ TakeChunk(list, size, bytes) /\ UNCHANGED poolCut
  BY <1>1, <1>2, <1>3, TakeFirstChunk DEF TakeChunk, PoolInv
<1>4. CASE /\ list = <<>>
           /\ \E page \in PagesInRow(1) :
                /\ poolCut' = poolCut \union {[page |-> page, size |-> size]}
                /\ TakeChunk(Chunks(page, size), size, bytes)
  <2>1. PICK page \in PagesInRow(1) :
                /\ poolCut' = poolCut \union {[page |-> page, size |-> size]}
                /\ TakeChunk(Chunks(page, size), size, bytes)
    BY <1>4
  <2>2. 1 \in Nat \ {0} /\ 1 * PoolSize = PoolSize
    BY PoolAssumption
  <2>3. /\ page \in Nat /\ \E k \in Nat : page = k * PoolSize
        /\ \A c \in poolCut : Apart(page, PoolSize, c.page, PoolSize)
        /\ \A b \in poolBlocks : Apart(page, PoolSize, BlockStart(b), b.size)
    <3>1. CutsRight(poolCut) /\ BlocksRight(poolBlocks, poolCut)
      BY <1>1 DEF PoolRight
    <3> QED BY <2>2, <3>1, RowIsApart
  <2> DEFINE q == Chunks(page, size)
             full == [poolLists EXCEPT ![i] = q]
  <2>4. PoolRight(full, poolBlocks, poolCut')
    BY <1>1, <1>2, <1>4, <2>1, <2>3, AddCut
  <2>5. poolLists \in [0..LastList -> Seq(Nat)]
    BY <1>1 DEF PoolRight, ListsRight
  <2>6. full[i] = q /\ [full EXCEPT ![i] = Tail(q)] = [poolLists EXCEPT ![i] = Tail(q)]
    BY <1>2, <2>5
  <2>7. q # <<>>
    <3>1. size \in Nat \ {0} /\ size <= PoolSize
      <4>1. /\ ChunkSize(i) \in Nat /\ ChunkSize(i) >= ChunkUnit /\ ChunkSize(i) <= HalfPage
            /\ HalfPage \in Nat /\ PoolSize = 2 * HalfPage
        BY <1>2, ChunkSizes
      <4>2. ChunkUnit \in Nat \ {0} /\ PoolSize \in Nat \ {0}
        BY PoolAssumption
      <4> QED BY <1>2, <4>1, <4>2
    <3>2. [page |-> page, size |-> size].page = page /\ [page |-> page, size |-> size].size = size
      OBVIOUS
    <3> QED BY <2>3, <3>1, <3>2, ChunksAreLinked
  <2> HIDE DEF full
  <2>8. PoolRight([full EXCEPT ![i] = Tail(full[i])],
                  poolBlocks \union {[at |-> Head(full[i]) + ChunkOverhead,
                                      bytes |-> bytes, size |-> ChunkSize(i)]},
                  poolCut')
    BY <2>4, <2>6, <2>7, TakeFirstChunk
  <2> QED BY <1>2, <2>1, <2>6, <2>8 DEF TakeChunk, PoolInv
<1> QED BY <1>3, <1>4 DEF AllocChunk

\* ExFreePoolWithTag.
LEMMA FreePoolKeeps ==
    ASSUME PoolInv, NEW b \in poolBlocks, ExFreePool(b)
    PROVE  PoolInv'
<1>1. PoolRight(poolLists, poolBlocks, poolCut) /\ BlocksRight(poolBlocks, poolCut)
  BY DEF PoolInv, PoolRight
<1>2. poolBlocks' = poolBlocks \ {b} /\ poolCut' = poolCut
  BY DEF ExFreePool
<1>3. CASE IsPages(b.at)
  <2>1. poolLists' = poolLists
    BY <1>3 DEF ExFreePool
  <2>2. BlocksRight(poolBlocks \ {b}, poolCut)
    BY <1>1, RemoveBlock
  <2>3. PoolRight(poolLists, poolBlocks \ {b}, poolCut)
    BY <1>1, <1>3, <2>2, PagesOnly
  <2> QED BY <1>2, <2>1, <2>3 DEF PoolInv
<1>4. CASE ~IsPages(b.at)
  <2> DEFINE i == (b.size - 1) \div ChunkUnit
  <2>1. poolLists' = [poolLists EXCEPT ![i] = <<BlockStart(b)>> \o poolLists[i]]
    BY <1>4 DEF ExFreePool
  <2>2. PoolRight([poolLists EXCEPT ![i] = <<BlockStart(b)>> \o poolLists[i]],
                  poolBlocks \ {b}, poolCut)
    BY <1>1, <1>4, GiveBackChunk
  <2> QED BY <1>2, <2>1, <2>2 DEF PoolInv
<1> QED BY <1>3, <1>4

\* The invariant of the pool: lists and callers divide the chunks of the pages
\* that were cut between them, whatever is allocated and freed.
THEOREM PoolInvariant == PoolSpec => []PoolInv
<1>1. PoolInv /\ [PoolNext]_poolVars => PoolInv'
  <2> SUFFICES ASSUME PoolInv, [PoolNext]_poolVars PROVE PoolInv'
    OBVIOUS
  <2>1. ASSUME NEW bytes \in PoolBytes, ExAllocatePoolWithTag(bytes) PROVE PoolInv'
    <3>1. bytes \in Nat /\ ChunkOverhead \in Nat /\ HalfPage \in Nat
      BY PoolAssumption, ChunkSizes
    <3>2. CASE bytes > HalfPage - ChunkOverhead
      <4>1. AllocPages(bytes)
        BY <2>1, <3>2 DEF ExAllocatePoolWithTag, HalfPage
      <4> QED BY <3>2, <4>1, AllocPagesKeeps
    <3>3. CASE bytes <= HalfPage - ChunkOverhead
      <4>1. AllocChunk(bytes)
        BY <2>1, <3>1, <3>3 DEF ExAllocatePoolWithTag, HalfPage
      <4> QED BY <3>3, <4>1, AllocChunkKeeps
    <3> QED BY <3>1, <3>2, <3>3
  <2>2. ASSUME NEW b \in poolBlocks, ExFreePool(b) PROVE PoolInv'
    BY <2>2, FreePoolKeeps
  <2>3. CASE UNCHANGED poolVars
    BY <2>3 DEF poolVars, PoolInv
  <2> QED BY <2>1, <2>2, <2>3 DEF PoolNext
<1> QED BY <1>1, PoolInitInv, PTL DEF PoolSpec

\* What is held or can be handed out: blocks, and chunks in lists.
LEMMA ExtentsAre ==
    ASSUME PoolInv, NEW x \in Extents
    PROVE  \/ \E b \in poolBlocks : x = [first |-> BlockStart(b), size |-> b.size]
           \/ \E i \in 0..LastList : \E y \in Members(poolLists[i]) :
                  x = [first |-> y, size |-> ChunkSize(i)]
<1>1. ASSUME NEW i \in 0..LastList, NEW k \in DOMAIN poolLists[i]
      PROVE  poolLists[i][k] \in Members(poolLists[i])
  <2>1. poolLists[i] \in Seq(Nat)
    BY DEF PoolInv, PoolRight, ListsRight
  <2> QED BY <2>1 DEF Members
<1>2. CASE \E b \in poolBlocks : x = [first |-> BlockStart(b), size |-> b.size]
  BY <1>2
<1>3. CASE \E i \in 0..LastList : \E k \in DOMAIN poolLists[i] :
               x = [first |-> poolLists[i][k], size |-> ChunkSize(i)]
  BY <1>1, <1>3
<1> QED BY <1>2, <1>3 DEF Extents, ChunkSize

\* ... and the other way around.
LEMMA AreExtents ==
    ASSUME PoolInv
    PROVE  /\ \A b \in poolBlocks : [first |-> BlockStart(b), size |-> b.size] \in Extents
           /\ \A i \in 0..LastList : \A y \in Members(poolLists[i]) :
                  [first |-> y, size |-> ChunkSize(i)] \in Extents
<1>1. \A b \in poolBlocks : [first |-> BlockStart(b), size |-> b.size] \in Extents
  BY DEF Extents
<1>2. ASSUME NEW i \in 0..LastList, NEW y \in Members(poolLists[i])
      PROVE  [first |-> y, size |-> ChunkSize(i)] \in Extents
  <2>1. poolLists[i] \in Seq(Nat)
    BY DEF PoolInv, PoolRight, ListsRight
  <2>2. PICK k \in DOMAIN poolLists[i] : y = poolLists[i][k]
    BY <2>1 DEF Members
  <2> QED BY <2>2 DEF Extents, ChunkSize
<1> QED BY <1>1, <1>2

\* Of an extent, one knows that it is a caller's pages, apart from what was cut,
\* or at a place of a page that was cut for its size.
LEMMA ExtentPlaces ==
    ASSUME PoolInv, NEW x \in Extents
    PROVE  /\ x.first \in Nat /\ x.size \in Nat /\ x.size >= 1
           /\ \/ \E c \in poolCut : x.size = c.size /\ x.first \in Places(c)
              \/ \E b \in poolBlocks :
                    /\ IsPages(b.at) /\ x = [first |-> BlockStart(b), size |-> b.size]
                    /\ \A c \in poolCut : Apart(x.first, x.size, c.page, PoolSize)
<1>1. /\ CutsRight(poolCut) /\ BlocksRight(poolBlocks, poolCut)
      /\ ListsRight(poolLists, poolCut)
  BY DEF PoolInv, PoolRight
<1>2. CASE \E b \in poolBlocks : x = [first |-> BlockStart(b), size |-> b.size]
  <2>1. PICK b \in poolBlocks : x = [first |-> BlockStart(b), size |-> b.size]
    BY <1>2
  <2>2. x.first = BlockStart(b) /\ x.size = b.size /\ b.size \in Nat /\ b.size >= 1
    BY <1>1, <2>1, BlockPlaces
  <2>3. CASE IsPages(b.at)
    BY <1>1, <2>1, <2>2, <2>3, BlockPlaces DEF PageBlock
  <2>4. CASE ~IsPages(b.at)
    <3>1. PICK c \in poolCut : b.size = c.size /\ BlockStart(b) \in Places(c)
      BY <1>1, <2>4, BlockPlaces
    <3>2. BlockStart(b) \in Nat
      BY <1>1, <3>1, CutPlaces
    <3> QED BY <2>2, <3>1, <3>2
  <2> QED BY <2>3, <2>4
<1>3. CASE \E i \in 0..LastList : \E y \in Members(poolLists[i]) :
               x = [first |-> y, size |-> ChunkSize(i)]
  <2>1. PICK i \in 0..LastList : \E y \in Members(poolLists[i]) :
               x = [first |-> y, size |-> ChunkSize(i)]
    BY <1>3
  <2>2. PICK y \in Members(poolLists[i]) : x = [first |-> y, size |-> ChunkSize(i)]
    BY <2>1
  <2>3. PICK c \in poolCut : c.size = ChunkSize(i) /\ y \in Places(c)
    BY <1>1 DEF ListsRight
  <2>4. x.first = y /\ x.size = c.size
    BY <2>2, <2>3
  <2>5. c.size \in Nat \ {0} /\ y \in Nat
    BY <1>1, <2>3, CutPlaces
  <2> QED BY <2>3, <2>4, <2>5
<1> QED BY <1>2, <1>3, ExtentsAre

\* No two extents overlap.
LEMMA ExtentsApart ==
    ASSUME PoolInv, NEW x \in Extents, NEW y \in Extents
    PROVE  x = y \/ Apart(x.first, x.size, y.first, y.size)
<1>1. CutsRight(poolCut) /\ BlocksRight(poolBlocks, poolCut)
  BY DEF PoolInv, PoolRight
<1>2. /\ x.first \in Nat /\ x.size \in Nat /\ x.size >= 1
      /\ y.first \in Nat /\ y.size \in Nat /\ y.size >= 1 /\ PoolSize \in Nat
  BY PoolAssumption, ExtentPlaces
<1>3. x = [first |-> x.first, size |-> x.size] /\ y = [first |-> y.first, size |-> y.size]
  BY ExtentsAre
<1>4. ASSUME NEW c \in poolCut, x.size = c.size, x.first \in Places(c),
             NEW d \in poolCut, y.size = d.size, y.first \in Places(d)
      PROVE  x = y \/ Apart(x.first, x.size, y.first, y.size)
  <2>1. /\ x.first = y.first => c = d
        /\ x.first = y.first \/ Apart(x.first, c.size, y.first, d.size)
    BY <1>1, <1>4, OnePlace
  <2> QED BY <1>3, <1>4, <2>1
<1>5. ASSUME NEW c \in poolCut, x.size = c.size, x.first \in Places(c),
             Apart(y.first, y.size, c.page, PoolSize)
      PROVE  Apart(x.first, x.size, y.first, y.size)
  <2>1. /\ c.page \in Nat /\ c.page <= x.first /\ x.first + c.size <= c.page + PoolSize
    BY <1>1, <1>5, CutPlaces
  <2> QED BY <1>2, <1>5, <2>1 DEF Apart
<1>6. ASSUME NEW c \in poolCut, y.size = c.size, y.first \in Places(c),
             Apart(x.first, x.size, c.page, PoolSize)
      PROVE  Apart(x.first, x.size, y.first, y.size)
  <2>1. /\ c.page \in Nat /\ c.page <= y.first /\ y.first + c.size <= c.page + PoolSize
    BY <1>1, <1>6, CutPlaces
  <2> QED BY <1>2, <1>6, <2>1 DEF Apart
<1>7. ASSUME NEW b \in poolBlocks, x = [first |-> BlockStart(b), size |-> b.size],
             NEW d \in poolBlocks, y = [first |-> BlockStart(d), size |-> d.size]
      PROVE  x = y \/ Apart(x.first, x.size, y.first, y.size)
  <2>1. /\ x.first = BlockStart(b) /\ x.size = b.size
        /\ y.first = BlockStart(d) /\ y.size = d.size
    BY <1>7
  <2>2. b = d \/ Apart(BlockStart(b), b.size, BlockStart(d), d.size)
    BY <1>1 DEF BlocksRight
  <2> QED BY <1>7, <2>1, <2>2
<1> QED BY <1>4, <1>5, <1>6, <1>7, ExtentPlaces

\* A page that was cut holds exactly its chunks.
LEMMA CutsAreFull ==
    ASSUME PoolInv, NEW c \in poolCut
    PROVE  {x \in Extents : x.first \in c.page..(c.page + PoolSize - 1)}
             = {[first |-> f, size |-> c.size] : f \in Places(c)}
<1>1. /\ CutsRight(poolCut) /\ BlocksRight(poolBlocks, poolCut)
      /\ ListsRight(poolLists, poolCut)
      /\ ChunksAccountedFor(poolLists, poolBlocks, poolCut)
  BY DEF PoolInv, PoolRight
<1>2. /\ PoolSize \in Nat \ {0} /\ c.page \in Nat /\ c.size \in Nat \ {0}
      /\ \A f \in Places(c) : f \in Nat /\ c.page <= f /\ f + c.size <= c.page + PoolSize
  BY <1>1, PoolAssumption, CutPlaces
<1>3. ASSUME NEW x \in Extents, x.first \in c.page..(c.page + PoolSize - 1)
      PROVE  x \in {[first |-> f, size |-> c.size] : f \in Places(c)}
  <2>1. /\ x.first \in Nat /\ x.size \in Nat /\ x.size >= 1
        /\ x = [first |-> x.first, size |-> x.size]
    BY ExtentPlaces, ExtentsAre
  <2>2. ~Apart(x.first, x.size, c.page, PoolSize)
    BY <1>2, <1>3, <2>1 DEF Apart
  <2>3. PICK d \in poolCut : x.size = d.size /\ x.first \in Places(d)
    BY <2>2, ExtentPlaces
  <2>4. c = d
    <3>1. /\ d.page \in Nat /\ d.size \in Nat /\ d.size >= 1
          /\ d.page <= x.first /\ x.first + d.size <= d.page + PoolSize
      BY <1>1, <2>3, CutPlaces
    <3>2. ~Apart(c.page, PoolSize, d.page, PoolSize)
      BY <1>2, <1>3, <2>1, <3>1 DEF Apart
    <3> QED BY <1>1, <3>2 DEF CutsRight
  <2> QED BY <2>1, <2>3, <2>4
<1>4. ASSUME NEW f \in Places(c)
      PROVE  /\ [first |-> f, size |-> c.size] \in Extents
             /\ f \in c.page..(c.page + PoolSize - 1)
  <2>1. PICK i \in 0..LastList : c.size = ChunkSize(i)
    BY <1>1 DEF CutsRight
  <2>2. ASSUME f \in Members(poolLists[i])
        PROVE  [first |-> f, size |-> c.size] \in Extents
    BY <2>1, <2>2, AreExtents
  <2>3. ASSUME Taken(f, poolBlocks)
        PROVE  [first |-> f, size |-> c.size] \in Extents
    <3>1. PICK b \in poolBlocks : ~IsPages(b.at) /\ BlockStart(b) = f
      BY <2>3 DEF Taken
    <3>2. PICK d \in poolCut : b.size = d.size /\ f \in Places(d)
      BY <1>1, <3>1, BlockPlaces
    <3>3. b.size = c.size
      BY <1>1, <1>4, <3>2, OnePlace
    <3>4. [first |-> BlockStart(b), size |-> b.size] \in Extents
      BY AreExtents
    <3> QED BY <3>1, <3>3, <3>4
  <2>4. f \in c.page..(c.page + PoolSize - 1)
    BY <1>2
  <2> QED BY <1>1, <2>1, <2>2, <2>3, <2>4 DEF ChunksAccountedFor
<1>5. \A f : [first |-> f, size |-> c.size].first = f
  OBVIOUS
<1> QED BY <1>3, <1>4, <1>5

\* For any number of pages and any mix of sizes: what callers hold and what the
\* lists can hand out is apart, in the page that was cut for it and complete, and
\* a block has the room that was asked for.
THEOREM PoolBlocksStayApart == PoolSpec => []PoolBlocksApart
<1>1. PoolInv => PoolBlocksApart
  <2> SUFFICES ASSUME PoolInv PROVE PoolBlocksApart
    OBVIOUS
  <2>1. /\ CutsRight(poolCut) /\ BlocksRight(poolBlocks, poolCut)
        /\ ListsRight(poolLists, poolCut)
        /\ ChunksAccountedFor(poolLists, poolBlocks, poolCut)
    BY DEF PoolInv, PoolRight
  <2>2. PoolTypeOK
    BY <2>1 DEF PoolTypeOK, ListsRight, BlocksRight
  <2>3. ASSUME NEW x \in Extents, NEW y \in Extents
        PROVE  x = y \/ x.first + x.size <= y.first \/ y.first + y.size <= x.first
    BY ExtentsApart DEF Apart
  <2>4. ASSUME NEW i \in 0..LastList
        PROVE  /\ IsInjective(poolLists[i])
               /\ Range(poolLists[i]) = Members(poolLists[i])
    <3>1. poolLists[i] \in Seq(Nat) /\ Distinct(poolLists[i])
      BY <2>1 DEF ListsRight
    <3>2. DOMAIN poolLists[i] = 1..Len(poolLists[i])
      BY <3>1
    <3> QED BY <3>1, <3>2 DEF IsInjective, Range, Members, Distinct
  <2>5. ASSUME NEW b \in poolBlocks
        PROVE  /\ b.bytes <= ExQueryPoolBlockSize(b)
               /\ IsPages(b.at) <=> b.bytes > PoolSize \div 2 - ChunkOverhead
               /\ \A i \in 0..LastList : BlockStart(b) \notin Range(poolLists[i])
    <3>1. /\ b.at \in Nat /\ b.bytes \in Nat /\ b.size \in Nat
          /\ ChunkOverhead \in Nat /\ HalfPage \in Nat
      BY <2>1, PoolAssumption, ChunkSizes, BlockPlaces
    <3>2. CASE IsPages(b.at)
      <4>1. BlockStart(b) = b.at /\ PageBlock(b, poolCut) /\ b.size >= 1
        BY <2>1, <3>2, BlockPlaces
      <4>2. ASSUME NEW i \in 0..LastList PROVE b.at \notin Members(poolLists[i])
        <5>1. SUFFICES ASSUME b.at \in Members(poolLists[i]) PROVE FALSE
          OBVIOUS
        <5>2. PICK c \in poolCut : b.at \in Places(c)
          BY <2>1, <5>1 DEF ListsRight
        <5>3. /\ c.page \in Nat /\ c.size \in Nat \ {0} /\ PoolSize \in Nat
              /\ c.page <= b.at /\ b.at + c.size <= c.page + PoolSize
          BY <2>1, <5>2, PoolAssumption, CutPlaces
        <5>4. Apart(b.at, b.size, c.page, PoolSize)
          BY <4>1 DEF PageBlock
        <5> QED BY <3>1, <4>1, <5>3, <5>4 DEF Apart
      <4> QED BY <2>4, <3>2, <4>1, <4>2 DEF PageBlock, ExQueryPoolBlockSize, HalfPage
    <3>3. CASE ~IsPages(b.at)
      <4>1. ChunkBlock(b, poolCut) /\ Taken(BlockStart(b), poolBlocks)
        BY <2>1, <3>3, BlockPlaces DEF Taken
      <4>2. PICK c \in poolCut : b.size = c.size /\ BlockStart(b) \in Places(c)
        BY <2>1, <3>3, BlockPlaces
      <4>3. ASSUME NEW i \in 0..LastList PROVE BlockStart(b) \notin Members(poolLists[i])
        <5>1. SUFFICES ASSUME BlockStart(b) \in Members(poolLists[i]) PROVE FALSE
          OBVIOUS
        <5>2. PICK d \in poolCut : d.size = ChunkSize(i) /\ BlockStart(b) \in Places(d)
          BY <2>1, <5>1 DEF ListsRight
        <5> QED BY <2>1, <4>1, <5>1, <5>2 DEF ChunksAccountedFor
      <4>4. b.bytes <= b.size - ChunkOverhead
        BY <3>1, <4>1 DEF ChunkBlock
      <4>5. ~(b.bytes > HalfPage - ChunkOverhead)
        BY <3>1, <4>1 DEF ChunkBlock
      <4> QED BY <2>4, <3>3, <4>3, <4>4, <4>5 DEF ExQueryPoolBlockSize, HalfPage
    <3> QED BY <3>2, <3>3
  <2>6. ASSUME NEW c \in poolCut
        PROVE  {x \in Extents : x.first \in c.page..(c.page + PoolSize - 1)}
                 = {[first |-> f, size |-> c.size] :
                       f \in {c.page + k * c.size : k \in 0..(PoolSize \div c.size - 1)}}
    BY CutsAreFull DEF Places
  <2> QED BY <2>2, <2>3, <2>4, <2>5, <2>6 DEF PoolBlocksApart
<1> QED BY <1>1, PoolInvariant, PTL

-----------------------------------------------------------------------------
(* The file system cache: the inductive invariant.                          *)

FscElementTypes ==
    [ext : Volumes \union {NoVolume}, page : FscPages \union {0},
     users : 0..Cardinality(Volumes), marked : BOOLEAN, filling : BOOLEAN]

FscThreadTypes ==
    [step : {"idle", "grow", "read", "mapped", "unlocked", "wait", "flush", "lost"},
     page : FscPages \union {0}, element : 0..MaxSize, stale : BOOLEAN, left : 0..MaxSize]

\* The steps of a thread that uses an element, and of one that has some to flush.
Using == {"read", "mapped", "lost"}
Flushing == {"unlocked", "wait", "flush"}

\* An element in use is its volume's and has one user: a volume has one thread.
UsedBy(x, v, r) ==
    /\ x.ext = v /\ x.users = 1
    /\ r.step # "lost" => x.page = r.page /\ (x.filling <=> r.step = "read")

\* An element that is in use by none has no users, and no page on its way.
FscInUse(elements, threads) ==
    /\ \A v \in Volumes : threads[v].step \in Using =>
          /\ threads[v].element \in 1..Len(elements)
          /\ UsedBy(elements[threads[v].element], v, threads[v])
    /\ \A i \in 1..Len(elements) :
          (\A v \in Volumes : ~(threads[v].step \in Using /\ threads[v].element = i))
             => elements[i].users = 0 /\ ~elements[i].filling

\* The list has elements of the array, none twice, and what it lacks is invalid.
FscListed(elements, list) ==
    /\ list \in Seq(1..Len(elements)) /\ Distinct(list)
    /\ \A i \in 1..Len(elements) :
          i \notin Members(list) => elements[i].marked /\ elements[i].ext = NoVolume

FscTyped(elements, threads) ==
    /\ elements \in Seq(FscElementTypes) /\ Len(elements) \in FirstSize..MaxSize
    /\ threads \in [Volumes -> FscThreadTypes]
    /\ \A v \in Volumes : threads[v].step \in Flushing => threads[v].left > 0

FscGood(elements, list, threads) ==
    FscTyped(elements, threads) /\ FscListed(elements, list) /\ FscInUse(elements, threads)

FscInv == FscGood(fscElements, fscList, fscThread) /\ fscUpdating \in BOOLEAN

\* One volume's thread and one element change, and perhaps the list.
LEMMA OneElement ==
    ASSUME NEW e, NEW l, NEW th, FscGood(e, l, th),
           NEW v \in Volumes, NEW r \in FscThreadTypes,
           NEW i \in 1..Len(e), NEW x \in FscElementTypes, NEW m,
           m \in Seq(1..Len(e)), Distinct(m),
           Members(m) = Members(l) \/ (Members(m) = Members(l) \ {i} /\ x.marked /\ x.ext = NoVolume),
           i \notin Members(l) => x.marked /\ x.ext = NoVolume,
           \A w \in Volumes \ {v} : ~(th[w].step \in Using /\ th[w].element = i),
           th[v].step \in Using => th[v].element = i,
           r.step \in Using => r.element = i /\ UsedBy(x, v, r),
           r.step \notin Using => x.users = 0 /\ ~x.filling,
           r.step \in Flushing => r.left > 0
    PROVE  FscGood([e EXCEPT ![i] = x], m, [th EXCEPT ![v] = r])
<1> DEFINE f == [e EXCEPT ![i] = x]
           t2 == [th EXCEPT ![v] = r]
<1>1. /\ e \in Seq(FscElementTypes) /\ Len(e) \in FirstSize..MaxSize
      /\ th \in [Volumes -> FscThreadTypes]
      /\ \A w \in Volumes : th[w].step \in Flushing => th[w].left > 0
  BY DEF FscGood, FscTyped
<1>2. /\ f \in Seq(FscElementTypes) /\ Len(f) = Len(e) /\ f[i] = x
      /\ \A j \in 1..Len(e) : j # i => f[j] = e[j]
  BY <1>1, ExceptSeq
<1>3. t2 \in [Volumes -> FscThreadTypes] /\ t2[v] = r /\ \A w \in Volumes : w # v => t2[w] = th[w]
  BY <1>1
<1> HIDE DEF f, t2
<1>4. FscTyped(f, t2)
  BY <1>1, <1>2, <1>3 DEF FscTyped
<1>5. FscListed(f, m)
  <2>1. \A j \in 1..Len(e) : j \notin Members(l) => e[j].marked /\ e[j].ext = NoVolume
    BY DEF FscGood, FscListed
  <2>2. ASSUME NEW j \in 1..Len(f), j \notin Members(m)
        PROVE  f[j].marked /\ f[j].ext = NoVolume
    BY <1>2, <2>1, <2>2
  <2> QED BY <1>2, <2>2 DEF FscListed
<1>6. FscInUse(f, t2)
  <2>1. /\ \A w \in Volumes : th[w].step \in Using =>
              th[w].element \in 1..Len(e) /\ UsedBy(e[th[w].element], w, th[w])
        /\ \A j \in 1..Len(e) :
              (\A w \in Volumes : ~(th[w].step \in Using /\ th[w].element = j))
                 => e[j].users = 0 /\ ~e[j].filling
    BY DEF FscGood, FscInUse
  <2>2. ASSUME NEW w \in Volumes, t2[w].step \in Using
        PROVE  t2[w].element \in 1..Len(f) /\ UsedBy(f[t2[w].element], w, t2[w])
    <3>1. CASE w = v
      BY <1>2, <1>3, <2>2, <3>1
    <3>2. CASE w # v
      BY <1>2, <1>3, <2>1, <2>2, <3>2
    <3> QED BY <3>1, <3>2
  <2>3. ASSUME NEW j \in 1..Len(f),
               \A w \in Volumes : ~(t2[w].step \in Using /\ t2[w].element = j)
        PROVE  f[j].users = 0 /\ ~f[j].filling
    <3>1. CASE j = i
      BY <1>2, <1>3, <2>3, <3>1
    <3>2. CASE j # i
      <4>1. \A w \in Volumes : ~(th[w].step \in Using /\ th[w].element = j)
        BY <1>3, <2>3, <3>2
      <4> QED BY <1>2, <2>1, <3>2, <4>1
    <3> QED BY <3>1, <3>2
  <2> QED BY <2>2, <2>3 DEF FscInUse
<1> QED BY <1>4, <1>5, <1>6 DEF FscGood, f, t2

\* Threads that use no element, before and after.
LEMMA OnlyThreads ==
    ASSUME NEW e, NEW l, NEW th, FscGood(e, l, th), NEW t2 \in [Volumes -> FscThreadTypes],
           \A w \in Volumes : \/ t2[w] = th[w]
                              \/ th[w].step \notin Using /\ t2[w].step \notin Using
                                 /\ (t2[w].step \in Flushing => t2[w].left > 0)
    PROVE  FscGood(e, l, t2)
<1>1. FscTyped(e, t2)
  BY DEF FscGood, FscTyped
<1>2. FscInUse(e, t2)
  <2>1. /\ \A w \in Volumes : th[w].step \in Using =>
              th[w].element \in 1..Len(e) /\ UsedBy(e[th[w].element], w, th[w])
        /\ \A j \in 1..Len(e) :
              (\A w \in Volumes : ~(th[w].step \in Using /\ th[w].element = j))
                 => e[j].users = 0 /\ ~e[j].filling
    BY DEF FscGood, FscInUse
  <2>2. ASSUME NEW w \in Volumes, t2[w].step \in Using
        PROVE  t2[w] = th[w]
    BY <2>2
  <2>3. ASSUME NEW j \in 1..Len(e),
               \A w \in Volumes : ~(t2[w].step \in Using /\ t2[w].element = j)
        PROVE  e[j].users = 0 /\ ~e[j].filling
    <3>1. \A w \in Volumes : ~(th[w].step \in Using /\ th[w].element = j)
      BY <2>3
    <3> QED BY <2>1, <3>1
  <2> QED BY <2>1, <2>2, <2>3 DEF FscInUse
<1> QED BY <1>1, <1>2 DEF FscGood

-----------------------------------------------------------------------------
(* Indices in order.                                                        *)

\* How many of a set come up to i.
UpTo(S, i) == Cardinality({j \in S : j <= i})

\* The place of an index in its order.
LEMMA PlacesOfIndices ==
    ASSUME NEW N \in Nat, NEW S \in SUBSET (1..N)
    PROVE  /\ IsFiniteSet(S) /\ Cardinality(S) \in Nat
           /\ \A i \in S : UpTo(S, i) \in 1..Cardinality(S)
           /\ \A i, j \in S : i < j => UpTo(S, i) < UpTo(S, j)
           /\ \A k \in 1..Cardinality(S) : \E i \in S : UpTo(S, i) = k
<1>1. IsFiniteSet(S) /\ Cardinality(S) \in Nat
  <2>1. IsFiniteSet(1..N)
    BY FS_Interval
  <2> QED BY <2>1, FS_Subset, FS_CardinalityType
<1>2. ASSUME NEW T \in SUBSET S
      PROVE  /\ IsFiniteSet(T) /\ Cardinality(T) \in Nat /\ Cardinality(T) <= Cardinality(S)
             /\ Cardinality(T) = Cardinality(S) => S = T
             /\ Cardinality(T) = 0 => T = {}
  BY <1>1, FS_Subset, FS_CardinalityType, FS_EmptySet
<1>3. ASSUME NEW i \in S
      PROVE  UpTo(S, i) \in 1..Cardinality(S)
  <2>1. {j \in S : j <= i} \in SUBSET S /\ {j \in S : j <= i} # {}
    OBVIOUS
  <2> QED BY <1>1, <1>2, <2>1 DEF UpTo
<1>4. ASSUME NEW i \in S, NEW j \in S, i < j
      PROVE  UpTo(S, i) < UpTo(S, j)
  <2> DEFINE A == {h \in S : h <= i}
             B == {h \in S : h <= j}
  <2>1. A \subseteq B /\ j \in B /\ j \notin A
    <3>1. \A h \in S : h \in Int
      OBVIOUS
    <3>2. \A h, a, b \in Int : h <= a /\ a < b => h <= b
      OBVIOUS
    <3>3. \A h \in S : h <= i => h <= j
      BY <1>4, <3>1, <3>2
    <3>4. j <= j /\ ~(j <= i)
      BY <1>4, <3>1
    <3> QED BY <3>3, <3>4
  <2>2. IsFiniteSet(B) /\ Cardinality(A) \in Nat /\ Cardinality(B) \in Nat
    BY <1>2
  <2>3. Cardinality(A) <= Cardinality(B) /\ Cardinality(A) # Cardinality(B)
    <3> HIDE DEF A, B
    <3> QED BY <2>1, <2>2, FS_Subset
  <2> QED BY <2>2, <2>3 DEF UpTo
<1>5. ASSUME NEW k \in 1..Cardinality(S) PROVE \E i \in S : UpTo(S, i) = k
  <2> DEFINE h == [i \in S |-> UpTo(S, i)]
             R == {UpTo(S, i) : i \in S}
  <2>1. \A i, j \in S : UpTo(S, i) = UpTo(S, j) => i = j
    <3> SUFFICES ASSUME NEW i \in S, NEW j \in S, i # j PROVE UpTo(S, i) # UpTo(S, j)
      OBVIOUS
    <3>1. i < j \/ j < i
      OBVIOUS
    <3>2. UpTo(S, i) \in Nat /\ UpTo(S, j) \in Nat
      BY <1>1, <1>3
    <3> QED BY <1>4, <3>1, <3>2
  <2>2. h \in Bijection(S, R)
    BY <2>1 DEF Bijection, Injection, Surjection, IsInjective
  <2>3. Cardinality(R) = Cardinality(S)
    BY <1>1, <2>2, FS_Bijection DEF ExistsBijection
  <2>4. R \subseteq 1..Cardinality(S)
    BY <1>3
  <2>5. IsFiniteSet(1..Cardinality(S)) /\ Cardinality(1..Cardinality(S)) = Cardinality(S)
    BY <1>1, FS_Interval
  <2>6. R = 1..Cardinality(S)
    <3> HIDE DEF R
    <3> QED BY <2>3, <2>4, <2>5, FS_Subset
  <2> QED BY <2>6
<1> QED BY <1>1, <1>3, <1>4, <1>5

\* All of a set, once, the highest last.
LEMMA AscendingList ==
    ASSUME NEW N \in Nat, NEW S \in SUBSET (1..N)
    PROVE  /\ Ascending(S) \in Seq(1..N) /\ Distinct(Ascending(S)) /\ Members(Ascending(S)) = S
           /\ \A m \in S : (\A i \in S : i <= m) =>
                 Ascending(S) # <<>> /\ Ascending(S)[Len(Ascending(S))] = m
<1> DEFINE q == Ascending(S)
           n == Cardinality(S)
<1>1. /\ n \in Nat
      /\ \A i \in S : UpTo(S, i) \in 1..n
      /\ \A i, j \in S : i < j => UpTo(S, i) < UpTo(S, j)
      /\ \A k \in 1..n : \E i \in S : UpTo(S, i) = k
  BY PlacesOfIndices
<1>2. \A i, j \in S : UpTo(S, i) = UpTo(S, j) => i = j
  <2> SUFFICES ASSUME NEW i \in S, NEW j \in S, i # j PROVE UpTo(S, i) # UpTo(S, j)
    OBVIOUS
  <2>1. i < j \/ j < i
    OBVIOUS
  <2>2. UpTo(S, i) \in Nat /\ UpTo(S, j) \in Nat
    BY <1>1
  <2> QED BY <1>1, <2>1, <2>2
<1>3. q = [k \in 1..n |-> CHOOSE i \in S : UpTo(S, i) = k]
  BY DEF Ascending, UpTo
<1>4. ASSUME NEW k \in 1..n PROVE q[k] \in S /\ UpTo(S, q[k]) = k
  <2>1. q[k] = CHOOSE i \in S : UpTo(S, i) = k
    BY <1>3
  <2>2. \E i \in S : UpTo(S, i) = k
    BY <1>1
  <2> QED BY <2>1, <2>2
<1> HIDE DEF q, n
<1>5. q \in Seq(1..N) /\ Len(q) = n
  <2>1. \A k \in 1..n : q[k] \in 1..N
    BY <1>4
  <2>2. q \in [1..n -> 1..N]
    BY <1>3, <2>1
  <2>3. \A T : q \in [1..n -> T] => q \in Seq(T) /\ Len(q) = n
    BY <1>1, SeqDef
  <2> QED BY <2>2, <2>3
<1>6. Members(q) = S
  <2>1. \A i \in S : q[UpTo(S, i)] = i
    BY <1>1, <1>2, <1>4
  <2> QED BY <1>1, <1>4, <1>5, <2>1 DEF Members
<1>7. Distinct(q)
  BY <1>4, <1>5 DEF Distinct
<1>8. ASSUME NEW m \in S, \A i \in S : i <= m PROVE q # <<>> /\ q[Len(q)] = m
  <2>1. UpTo(S, m) = n
    <3>1. {j \in S : j <= m} = S
      BY <1>8
    <3> QED BY <3>1 DEF UpTo, n
  <2>2. n \in 1..n
    BY <1>1, <2>1
  <2>3. q[n] = m
    BY <1>2, <1>4, <2>1, <2>2
  <2> QED BY <1>5, <2>2, <2>3
<1> QED BY <1>5, <1>6, <1>7, <1>8 DEF q

\* A list turned round.
LEMMA ReverseList ==
    ASSUME NEW S, NEW q \in Seq(S)
    PROVE  /\ Reverse(q) \in Seq(S) /\ Members(Reverse(q)) = Members(q)
           /\ Distinct(q) => Distinct(Reverse(q))
           /\ q # <<>> => Reverse(q) # <<>> /\ Head(Reverse(q)) = q[Len(q)]
<1> DEFINE r == Reverse(q)
<1>1. /\ Len(q) \in Nat /\ r = [i \in 1..Len(q) |-> q[(Len(q) - i) + 1]]
      /\ \A i \in 1..Len(q) : (Len(q) - i) + 1 \in 1..Len(q) /\ q[i] \in S
  BY ElementOfSeq DEF Reverse
<1> HIDE DEF r
<1>2. r \in Seq(S) /\ Len(r) = Len(q) /\ \A i \in 1..Len(q) : r[i] = q[(Len(q) - i) + 1]
  BY <1>1, SeqDef
<1>3. Members(r) = Members(q)
  <2>1. \A i \in 1..Len(q) : q[i] = r[(Len(q) - i) + 1]
    BY <1>1, <1>2
  <2> QED BY <1>1, <1>2, <2>1 DEF Members
<1>4. Distinct(q) => Distinct(r)
  BY <1>1, <1>2 DEF Distinct
<1>5. ASSUME q # <<>> PROVE r # <<>> /\ Head(r) = q[Len(q)]
  <2>1. Len(q) > 0
    BY <1>1, <1>5, EmptySeq
  <2>2. r # <<>> /\ Head(r) = r[1]
    BY <1>2, <2>1, EmptySeq
  <2> QED BY <1>1, <1>2, <2>1, <2>2
<1> QED BY <1>2, <1>3, <1>4, <1>5 DEF r

-----------------------------------------------------------------------------
(* The list of elements.                                                    *)

\* A list that is built anew has all elements, and the last one at its head if
\* that is not valid.
LEMMA RebuiltList ==
    ASSUME NEW e \in Seq(FscElementTypes), Len(e) > 0
    PROVE  /\ FscReBuild(e) \in Seq(1..Len(e)) /\ Distinct(FscReBuild(e))
           /\ Members(FscReBuild(e)) = 1..Len(e)
           /\ e[Len(e)].ext = NoVolume =>
                 FscReBuild(e) # <<>> /\ Head(FscReBuild(e)) = Len(e)
<1> DEFINE N == Len(e)
           V == {i \in DOMAIN e : e[i].ext # NoVolume}
           I == DOMAIN e \ V
           a == Reverse(Ascending(I))
           b == Ascending(V)
<1>1. N \in Nat /\ DOMAIN e = 1..N /\ V \in SUBSET (1..N) /\ I \in SUBSET (1..N)
  OBVIOUS
<1>2. FscReBuild(e) = a \o b
  BY DEF FscReBuild
<1>3. V \intersect I = {} /\ V \union I = 1..N
  BY <1>1
<1>4. e[N].ext = NoVolume => N \in I /\ \A i \in I : i <= N
  BY <1>1
<1> HIDE DEF V, I
<1>5. b \in Seq(1..N) /\ Distinct(b) /\ Members(b) = V
  BY <1>1, AscendingList
<1>6. /\ Ascending(I) \in Seq(1..N) /\ Distinct(Ascending(I)) /\ Members(Ascending(I)) = I
      /\ \A m \in I : (\A i \in I : i <= m) =>
            Ascending(I) # <<>> /\ Ascending(I)[Len(Ascending(I))] = m
  BY <1>1, AscendingList
<1>7. /\ a \in Seq(1..N) /\ Members(a) = I /\ Distinct(a)
      /\ Ascending(I) # <<>> => a # <<>> /\ Head(a) = Ascending(I)[Len(Ascending(I))]
  BY <1>6, ReverseList
<1> HIDE DEF a, b, N
<1>8. /\ a \o b \in Seq(1..N) /\ Len(a \o b) = Len(a) + Len(b)
      /\ Members(a \o b) = Members(a) \union Members(b)
      /\ Distinct(a) /\ Distinct(b) /\ Members(a) \intersect Members(b) = {}
             => Distinct(a \o b)
  BY <1>5, <1>7, JoinMembers
<1>9. ASSUME e[N].ext = NoVolume PROVE a \o b # <<>> /\ Head(a \o b) = N
  <2>1. a # <<>> /\ Head(a) = N
    BY <1>4, <1>6, <1>7, <1>9
  <2>2. Len(a) \in Nat \ {0} /\ Len(b) \in Nat /\ Head(a) = a[1]
    BY <1>5, <1>7, <2>1, EmptySeq
  <2>3. a \o b # <<>> /\ Head(a \o b) = (a \o b)[1]
    BY <1>8, <2>2, EmptySeq
  <2>4. (a \o b)[1] = a[1]
    <3>1. \A i \in 1..(Len(a) + Len(b)) :
             (a \o b)[i] = IF i <= Len(a) THEN a[i] ELSE b[i - Len(a)]
      BY <1>5, <1>7, ConcatProperties
    <3>2. 1 \in 1..(Len(a) + Len(b)) /\ 1 <= Len(a)
      BY <2>2
    <3> QED BY <3>1, <3>2
  <2> QED BY <2>1, <2>2, <2>3, <2>4
<1>10. FscReBuild(e) \in Seq(1..N) /\ Distinct(FscReBuild(e)) /\ Members(FscReBuild(e)) = 1..N
  BY <1>2, <1>3, <1>5, <1>7, <1>8
<1> QED BY <1>2, <1>9, <1>10 DEF N

\* An element is taken out of the list.
LEMMA ListWithout ==
    ASSUME NEW S, NEW q \in Seq(S), Distinct(q), NEW i \in Members(q)
    PROVE  /\ WithoutElement(q, i) \in Seq(S) /\ Distinct(WithoutElement(q, i))
           /\ Members(WithoutElement(q, i)) = Members(q) \ {i}
<1> DEFINE k == CHOOSE j \in DOMAIN q : q[j] = i
<1>1. k \in 1..Len(q) /\ q[k] = i
  <2>1. \E j \in DOMAIN q : q[j] = i
    BY DEF Members
  <2> QED BY <2>1
<1>2. WithoutElement(q, i) = SubSeq(q, 1, k - 1) \o SubSeq(q, k + 1, Len(q))
  BY DEF WithoutElement, RemoveAt
<1> HIDE DEF k
<1>3. LET r == SubSeq(q, 1, k - 1) \o SubSeq(q, k + 1, Len(q))
      IN  /\ r \in Seq(S) /\ Distinct(r) /\ q[k] \in Members(q)
          /\ Members(r) = Members(q) \ {q[k]}
  BY <1>1, RemoveMember
<1> QED BY <1>1, <1>2, <1>3

\* A set of numbers up to n that is not empty has a highest one.
LEMMA HighestOf ==
    ASSUME NEW n \in Nat, NEW I \in SUBSET (1..n), I # {}
    PROVE  Max(I) \in I
<1>1. PICK m \in I : \A r \in I : r <= m
  BY HighestExists
<1>2. \E x \in I : \A y \in I : x >= y
  BY <1>1
<1> QED BY <1>2 DEF Max

\* What a search can see is of the list.
LEMMA ReachableListed ==
    ASSUME NEW S, fscList \in Seq(S)
    PROVE  /\ Reachable \in Seq(S) /\ Members(Reachable) \subseteq Members(fscList)
           /\ Distinct(fscList) => Distinct(Reachable)
<1> DEFINE I == {k \in 1..Len(fscList) : fscElements[fscList[k]].ext = NoVolume}
           stop == IF I # {} THEN Max(I) ELSE 0
<1>1. Reachable = SubSeq(fscList, stop + 1, Len(fscList))
  BY DEF Reachable, SelectLastInSeq
<1>2. Len(fscList) \in Nat
  OBVIOUS
<1>3. stop \in 0..Len(fscList)
  <2>1. CASE I = {}
    BY <1>2, <2>1
  <2>2. CASE I # {}
    <3>1. Max(I) \in I
      BY <1>2, <2>2, HighestOf
    <3> QED BY <3>1, <2>2
  <2> QED BY <2>1, <2>2
<1> HIDE DEF stop
<1>4. Reachable \in Seq(S)
  BY <1>1, <1>3, DropFirst
<1>5. /\ Members(fscList) =
            {fscList[i] : i \in 1..stop} \union Members(SubSeq(fscList, stop + 1, Len(fscList)))
      /\ Distinct(fscList) => Distinct(SubSeq(fscList, stop + 1, Len(fscList)))
  BY <1>3, DropMembers
<1> QED BY <1>1, <1>4, <1>5

\* A search that finds an element finds one of the list that it looks for.
LEMMA ElementFound ==
    ASSUME NEW S, fscList \in Seq(S), NEW v, NEW page, FscFindElement(v, page) # 0
    PROVE  LET i == FscFindElement(v, page)
           IN  i \in Members(fscList) /\ fscElements[i].ext = v /\ fscElements[i].page = page
<1> DEFINE I == {k \in 1..Len(Reachable) :
                    fscElements[Reachable[k]].ext = v /\ fscElements[Reachable[k]].page = page}
           at == IF I # {} THEN Max(I) ELSE 0
<1>1. FscFindElement(v, page) = IF at = 0 THEN 0 ELSE Reachable[at]
  BY DEF FscFindElement, SelectLastInSeq
<1>2. Reachable \in Seq(S) /\ Members(Reachable) \subseteq Members(fscList)
  BY ReachableListed
<1>3. I # {} /\ at = Max(I) /\ FscFindElement(v, page) = Reachable[at]
  BY <1>1
<1>4. at \in I
  <2>1. Len(Reachable) \in Nat /\ I \in SUBSET (1..Len(Reachable))
    BY <1>2
  <2> HIDE DEF I, at
  <2> QED BY <1>3, <2>1, HighestOf
<1>5. Reachable[at] \in Members(Reachable)
  BY <1>4 DEF Members
<1> QED BY <1>2, <1>3, <1>4, <1>5

\* Where a pass of a flush finds what it removes, 0 if nowhere.
PassFinds(v) == SelectLastInSeq(Reachable, LAMBDA i : MayFlush(v, i))

\* So does a pass of a flush.
LEMMA FlushFound ==
    ASSUME NEW S, fscList \in Seq(S), NEW v, PassFinds(v) # 0
    PROVE  Reachable[PassFinds(v)] \in Members(fscList) /\ MayFlush(v, Reachable[PassFinds(v)])
<1> DEFINE I == {k \in 1..Len(Reachable) : MayFlush(v, Reachable[k])}
           at == PassFinds(v)
<1>1. at = IF I # {} THEN Max(I) ELSE 0
  BY DEF PassFinds, SelectLastInSeq
<1>2. Reachable \in Seq(S) /\ Members(Reachable) \subseteq Members(fscList)
  BY ReachableListed
<1>3. I # {} /\ at = Max(I)
  BY <1>1
<1>4. at \in I
  <2>1. Len(Reachable) \in Nat /\ I \in SUBSET (1..Len(Reachable))
    BY <1>2
  <2> HIDE DEF I, at
  <2> QED BY <1>3, <2>1, HighestOf
<1>5. Reachable[at] \in Members(Reachable)
  BY <1>4 DEF Members
<1> QED BY <1>2, <1>4, <1>5

-----------------------------------------------------------------------------
(* Elements that are taken.                                                 *)

\* What the types need.
LEMMA FscTypesHold ==
    /\ NoVolume \notin Volumes /\ MaxSize \in Nat /\ FirstSize \in Nat \ {0}
    /\ Growth \in Nat \ {0} /\ FirstSize <= MaxSize /\ Cardinality(Volumes) \in Nat
    /\ \A v \in Volumes : Cardinality(Volumes) >= 1
    /\ Invalid \in FscElementTypes /\ FscIdle \in FscThreadTypes
<1>1. /\ NoVolume \notin Volumes /\ MaxSize \in Nat /\ FirstSize \in Nat \ {0}
      /\ Growth \in Nat \ {0} /\ FirstSize <= MaxSize /\ IsFiniteSet(Volumes)
  BY FscCacheAssumption
<1>2. Cardinality(Volumes) \in Nat
  BY <1>1, FS_CardinalityType
<1>3. \A v \in Volumes : Cardinality(Volumes) >= 1
  BY <1>1, <1>2, FS_EmptySet
<1>4. 0 \in 0..Cardinality(Volumes) /\ 0 \in 0..MaxSize
  BY <1>1, <1>2
<1>5. Invalid \in FscElementTypes
  BY <1>4 DEF Invalid, FscElementTypes
<1>6. FscIdle \in FscThreadTypes
  BY <1>4 DEF FscIdle, FscThreadTypes
<1> QED BY <1>1, <1>2, <1>3, <1>5, <1>6

\* An element without users is used by nobody.
LEMMA NobodyUses ==
    ASSUME NEW e, NEW th, FscInUse(e, th), NEW i, e[i].users = 0
    PROVE  \A w \in Volumes : ~(th[w].step \in Using /\ th[w].element = i)
BY DEF FscInUse, UsedBy

\* No other thread uses the element of one.
LEMMA NobodyElseUses ==
    ASSUME NEW e, NEW th, FscInUse(e, th), NEW v \in Volumes, NEW i, e[i].ext = v
    PROVE  \A w \in Volumes \ {v} : ~(th[w].step \in Using /\ th[w].element = i)
BY DEF FscInUse, UsedBy

\* The free head of the list becomes a page's element.
LEMMA TakeGood ==
    ASSUME NEW e, NEW l, NEW th, FscGood(e, l, th), l # <<>>, e[Head(l)].users = 0,
           NEW v \in Volumes, th[v].step \notin Using, NEW page \in FscPages \union {0},
           FscTake(v, page, e, l, th)
    PROVE  FscGood(fscElements', fscList', fscThread')
<1> DEFINE h == Head(l)
           x == [e[h] EXCEPT !.ext = v, !.page = page, !.users = 1, !.filling = TRUE]
           r == [FscIdle EXCEPT !.step = "read", !.page = page, !.element = h]
<1>1. /\ e \in Seq(FscElementTypes) /\ Len(e) \in FirstSize..MaxSize
      /\ l \in Seq(1..Len(e)) /\ Distinct(l) /\ FscInUse(e, th)
  BY DEF FscGood, FscTyped, FscListed
<1>2. h \in 1..Len(e) /\ h \in Members(l) /\ h \in 0..MaxSize
  <2>1. h \in 1..Len(e) /\ h \in Members(l)
    BY <1>1, TailLeaves
  <2> QED BY <1>1, <2>1, FscTypesHold
<1>3. e[h] \in FscElementTypes
  BY <1>1, <1>2, ElementOfSeq
<1>4. fscElements' = [e EXCEPT ![h] = x] /\ fscList' = l /\ fscThread' = [th EXCEPT ![v] = r]
  BY DEF FscTake
<1>8. x \in FscElementTypes /\ x.ext = v /\ x.page = page /\ x.users = 1 /\ x.filling
  <2>1. 1 \in 0..Cardinality(Volumes)
    BY FscTypesHold
  <2> QED BY <1>3, <2>1 DEF FscElementTypes
<1>9. r \in FscThreadTypes /\ r.step = "read" /\ r.page = page /\ r.element = h
  BY <1>2, FscTypesHold DEF FscThreadTypes, FscIdle
<1>10. \A w \in Volumes : ~(th[w].step \in Using /\ th[w].element = h)
  BY <1>1, NobodyUses
<1>11. r.step \in Using /\ r.step \notin Flushing /\ r.element = h /\ UsedBy(x, v, r)
  BY <1>8, <1>9 DEF Using, Flushing, UsedBy
<1> HIDE DEF x, r, h
<1>12. FscGood([e EXCEPT ![h] = x], l, [th EXCEPT ![v] = r])
  BY <1>1, <1>2, <1>8, <1>9, <1>10, <1>11, OneElement
<1> QED BY <1>4, <1>12

\* The threads that wait for the host have a pointer into the array that is freed.
MadeStale(threads) ==
    [w \in Volumes |-> [threads[w] EXCEPT !.stale = @ \/ threads[w].step = "read"]]

\* The array grows, and who waits for the host has a pointer into the old one.
LEMMA GrowGood ==
    ASSUME NEW e, NEW l, NEW th, FscGood(e, l, th), NEW size \in Nat,
           Len(e) < size, size <= MaxSize, NEW g, g = Enlarged(e, size), NEW t2, t2 = MadeStale(th)
    PROVE  /\ FscGood(g, FscReBuild(g), t2)
           /\ FscReBuild(g) # <<>> /\ g[Head(FscReBuild(g))].users = 0
           /\ \A w \in Volumes : t2[w].step = th[w].step
<1> DEFINE n == Len(e)
           more == [i \in 1..(size - n) |-> Invalid]
<1>1. /\ e \in Seq(FscElementTypes) /\ n \in FirstSize..MaxSize /\ n \in Nat
      /\ th \in [Volumes -> FscThreadTypes]
      /\ \A v \in Volumes : th[v].step \in Flushing => th[v].left > 0
      /\ FscInUse(e, th)
  BY DEF FscGood, FscTyped
<1>2. more \in Seq(FscElementTypes) /\ Len(more) = size - n /\ \A i \in 1..(size - n) : more[i] = Invalid
  <2>1. size - n \in Nat /\ more \in [1..(size - n) -> FscElementTypes]
    BY <1>1, FscTypesHold
  <2>2. \A q : q \in [1..(size - n) -> FscElementTypes] => q \in Seq(FscElementTypes) /\ Len(q) = size - n
    BY <2>1, SeqDef
  <2> QED BY <2>1, <2>2
<1>3. g = e \o more
  BY DEF Enlarged
<1> HIDE DEF n, more
<1>4. /\ g \in Seq(FscElementTypes) /\ Len(g) = size
      /\ \A i \in 1..n : g[i] = e[i]
      /\ \A i \in 1..size : i \notin 1..n => g[i] = Invalid
  <2>1. /\ e \o more \in Seq(FscElementTypes) /\ Len(e \o more) = Len(e) + Len(more)
        /\ \A i \in 1..(Len(e) + Len(more)) :
              (e \o more)[i] = IF i <= Len(e) THEN e[i] ELSE more[i - Len(e)]
    BY <1>1, <1>2, ConcatProperties
  <2>2. n + (size - n) = size
    BY <1>1
  <2>3. /\ g \in Seq(FscElementTypes) /\ Len(g) = size
        /\ \A i \in 1..size : g[i] = IF i <= n THEN e[i] ELSE more[i - n]
    BY <1>2, <1>3, <2>1, <2>2 DEF n
  <2>4. \A i \in 1..n : i \in 1..size /\ i <= n
    BY <1>1 DEF n
  <2>5. \A i \in 1..size : i \notin 1..n => ~(i <= n) /\ i - n \in 1..(size - n)
    BY <1>1
  <2> QED BY <1>2, <2>3, <2>4, <2>5
<1>5. size > 0 /\ size \in 1..size /\ size \notin 1..n /\ size \in FirstSize..MaxSize
  BY <1>1, FscTypesHold DEF n
<1>6. g[size] = Invalid
  BY <1>4, <1>5
<1>7. /\ FscReBuild(g) \in Seq(1..Len(g)) /\ Distinct(FscReBuild(g))
      /\ Members(FscReBuild(g)) = 1..Len(g)
      /\ FscReBuild(g) # <<>> /\ Head(FscReBuild(g)) = size
  BY <1>4, <1>5, <1>6, RebuiltList DEF Invalid
<1>8. /\ t2 \in [Volumes -> FscThreadTypes]
      /\ \A w \in Volumes : t2[w].step = th[w].step /\ t2[w].page = th[w].page
                            /\ t2[w].element = th[w].element /\ t2[w].left = th[w].left
  <2> SUFFICES ASSUME NEW w \in Volumes
               PROVE  /\ t2[w] \in FscThreadTypes
                      /\ t2[w].step = th[w].step /\ t2[w].page = th[w].page
                      /\ t2[w].element = th[w].element /\ t2[w].left = th[w].left
    BY DEF MadeStale
  <2>1. th[w] \in FscThreadTypes /\ t2[w] = [th[w] EXCEPT !.stale = @ \/ th[w].step = "read"]
    BY <1>1 DEF MadeStale
  <2> QED BY <2>1 DEF FscThreadTypes
<1>9. FscTyped(g, t2)
  BY <1>1, <1>4, <1>5, <1>8 DEF FscTyped
<1>10. FscListed(g, FscReBuild(g))
  BY <1>7 DEF FscListed
<1>11. FscInUse(g, t2)
  <2>1. /\ \A w \in Volumes : th[w].step \in Using =>
              th[w].element \in 1..n /\ UsedBy(e[th[w].element], w, th[w])
        /\ \A j \in 1..n :
              (\A w \in Volumes : ~(th[w].step \in Using /\ th[w].element = j))
                 => e[j].users = 0 /\ ~e[j].filling
    BY <1>1 DEF FscInUse, n
  <2>2. ASSUME NEW w \in Volumes, t2[w].step \in Using
        PROVE  t2[w].element \in 1..Len(g) /\ UsedBy(g[t2[w].element], w, t2[w])
    <3>1. th[w].element \in 1..n /\ UsedBy(e[th[w].element], w, th[w])
      BY <1>8, <2>1, <2>2
    <3>2. t2[w].element \in 1..size /\ g[t2[w].element] = e[th[w].element]
      <4>1. t2[w].element = th[w].element
        BY <1>8
      <4>2. \A k \in 1..n : k \in 1..size /\ g[k] = e[k]
        BY <1>1, <1>4 DEF n
      <4> QED BY <3>1, <4>1, <4>2
    <3> QED BY <1>4, <1>8, <3>1, <3>2 DEF UsedBy
  <2>3. ASSUME NEW j \in 1..Len(g),
               \A w \in Volumes : ~(t2[w].step \in Using /\ t2[w].element = j)
        PROVE  g[j].users = 0 /\ ~g[j].filling
    <3>1. CASE j \in 1..n
      <4>1. \A w \in Volumes : ~(th[w].step \in Using /\ th[w].element = j)
        BY <1>8, <2>3
      <4> QED BY <1>4, <2>1, <3>1, <4>1
    <3>2. CASE j \notin 1..n
      BY <1>4, <3>2 DEF Invalid
    <3> QED BY <3>1, <3>2
  <2> QED BY <2>2, <2>3 DEF FscInUse
<1> QED BY <1>6, <1>7, <1>8, <1>9, <1>10, <1>11 DEF FscGood, Invalid

-----------------------------------------------------------------------------
(* The steps.                                                               *)

\* What the invariant says of one thread.
LEMMA FscThreadRight ==
    ASSUME FscInv, NEW v \in Volumes
    PROVE  /\ fscThread \in [Volumes -> FscThreadTypes] /\ fscThread[v] \in FscThreadTypes
           /\ fscElements \in Seq(FscElementTypes) /\ Len(fscElements) \in FirstSize..MaxSize
           /\ Len(fscElements) \in Nat
           /\ fscList \in Seq(1..Len(fscElements)) /\ Distinct(fscList)
           /\ FscInUse(fscElements, fscThread)
           /\ fscThread[v].step \in Flushing => fscThread[v].left > 0
           /\ fscThread[v].step \in Using =>
                /\ fscThread[v].element \in 1..Len(fscElements)
                /\ UsedBy(fscElements[fscThread[v].element], v, fscThread[v])
           /\ FscGood(fscElements, fscList, fscThread) /\ fscUpdating \in BOOLEAN
<1>1. FscTyped(fscElements, fscThread) /\ FscListed(fscElements, fscList)
      /\ FscInUse(fscElements, fscThread)
  BY DEF FscInv, FscGood
<1>2. FscGood(fscElements, fscList, fscThread) /\ fscUpdating \in BOOLEAN
  BY DEF FscInv
<1>3. FirstSize \in Nat /\ MaxSize \in Nat
  BY FscTypesHold
<1> QED BY <1>1, <1>2, <1>3 DEF FscTyped, FscListed, FscInUse

\* A thread that uses nothing gives up, or goes on to wait.
LEMMA ThreadGoesOn ==
    ASSUME FscInv, NEW v \in Volumes, fscThread[v].step \notin Using, NEW r \in FscThreadTypes,
           r.step \notin Using, r.step \in Flushing => r.left > 0,
           fscThread' = [fscThread EXCEPT ![v] = r],
           fscElements' = fscElements, fscList' = fscList, fscUpdating' \in BOOLEAN
    PROVE  FscInv'
<1> DEFINE t2 == [fscThread EXCEPT ![v] = r]
<1>1. fscThread \in [Volumes -> FscThreadTypes]
  BY FscThreadRight
<1>2. t2 \in [Volumes -> FscThreadTypes] /\ t2[v] = r /\ \A w \in Volumes : w # v => t2[w] = fscThread[w]
  BY <1>1
<1>3. FscGood(fscElements, fscList, fscThread)
  BY FscThreadRight
<1> HIDE DEF t2
<1>4. \A w \in Volumes : \/ t2[w] = fscThread[w]
                         \/ fscThread[w].step \notin Using /\ t2[w].step \notin Using
                            /\ (t2[w].step \in Flushing => t2[w].left > 0)
  BY <1>2
<1>5. FscGood(fscElements, fscList, t2)
  BY <1>2, <1>3, <1>4, OnlyThreads
<1> QED BY <1>5 DEF FscInv, t2

\* A thread that finds no free element grows the cache and takes one, or gives up.
LEMMA FscGrowStep ==
    ASSUME FscInv, NEW v \in Volumes, fscThread[v].step \notin Using,
           NEW page \in FscPages \union {0}, NEW size \in Nat,
           Len(fscElements) < size, size <= MaxSize, FscGrow(v, page, size)
    PROVE  FscInv'
<1>1. CASE FscMapFails(v)
  <2>1. FscIdle \in FscThreadTypes /\ FscIdle.step \notin Using /\ FscIdle.step \notin Flushing
    BY FscTypesHold DEF FscIdle, Using, Flushing
  <2>2. fscUpdating \in BOOLEAN
    BY FscThreadRight
  <2> QED BY <1>1, <2>1, <2>2, ThreadGoesOn DEF FscMapFails
<1>2. CASE ~FscMapFails(v)
  <2> DEFINE g == Enlarged(fscElements, size)
             t2 == MadeStale(fscThread)
  <2>1. FscTake(v, page, g, FscReBuild(g), t2)
    BY <1>2 DEF FscGrow, FscIncreased, MadeStale
  <2>2. FscGood(fscElements, fscList, fscThread) /\ fscUpdating \in BOOLEAN
    BY FscThreadRight
  <2>3. /\ FscGood(g, FscReBuild(g), t2)
        /\ FscReBuild(g) # <<>> /\ g[Head(FscReBuild(g))].users = 0
        /\ \A w \in Volumes : t2[w].step = fscThread[w].step
    BY <2>2, GrowGood
  <2> HIDE DEF g, t2
  <2>4. t2[v].step \notin Using
    BY <2>3
  <2>5. FscGood(fscElements', fscList', fscThread')
    BY <2>1, <2>3, <2>4, TakeGood
  <2>6. fscUpdating' = fscUpdating
    BY <2>1 DEF FscTake
  <2> QED BY <2>2, <2>5, <2>6 DEF FscInv
<1> QED BY <1>1, <1>2

\* FscAllocateFreeElement takes the head, gives up, grows the cache, or waits to.
LEMMA FscAllocateStep ==
    ASSUME FscInv, NEW v \in Volumes, fscThread[v].step \notin Using,
           NEW page \in FscPages \union {0}, FscAllocate(v, page)
    PROVE  FscInv'
<1> DEFINE size == Len(fscElements) + Min({Growth, MaxSize - Len(fscElements)})
<1>1. /\ fscElements \in Seq(FscElementTypes) /\ Len(fscElements) \in FirstSize..MaxSize
      /\ Len(fscElements) \in Nat /\ fscList \in Seq(1..Len(fscElements))
      /\ FscGood(fscElements, fscList, fscThread) /\ fscUpdating \in BOOLEAN
  BY FscThreadRight
<1>2. MaxSize \in Nat /\ Growth \in Nat \ {0}
  BY FscTypesHold
<1>3. /\ size \in Nat /\ size <= MaxSize
      /\ Len(fscElements) < MaxSize => Len(fscElements) < size
  <2> DEFINE room == MaxSize - Len(fscElements)
             m == Min({Growth, room})
  <2>1. room \in Nat /\ room <= MaxSize /\ (Len(fscElements) < MaxSize => room > 0)
        /\ Len(fscElements) + room = MaxSize
    BY <1>1, <1>2
  <2>2. \E x \in {Growth, room} : \A y \in {Growth, room} : x =< y
    <3>1. Growth <= room \/ room <= Growth
      BY <1>2, <2>1
    <3>2. Growth <= Growth /\ room <= room
      BY <1>2, <2>1
    <3> HIDE DEF room
    <3> QED BY <3>1, <3>2
  <2>3. m \in {Growth, room} /\ \A y \in {Growth, room} : m =< y
    BY <2>2 DEF Min
  <2>4. m \in Nat /\ m <= room /\ (Len(fscElements) < MaxSize => m > 0)
    <3> HIDE DEF m, room
    <3> QED BY <1>2, <2>1, <2>3
  <2>5. size = Len(fscElements) + m
    OBVIOUS
  <2> HIDE DEF m, room, size
  <2> QED BY <1>1, <1>2, <2>1, <2>4, <2>5
<1>4. \/ ~NoneFree(fscElements, fscList) /\ FscTake(v, page, fscElements, fscList, fscThread)
      \/ FscMapFails(v)
      \/ Len(fscElements) < MaxSize /\ FscGrow(v, page, size)
      \/ /\ fscThread' = [fscThread EXCEPT ![v] =
                [FscIdle EXCEPT !.step = "grow", !.page = page, !.left = size]]
         /\ UNCHANGED <<fscElements, fscList, fscUpdating>>
  <2> HIDE DEF size
  <2> QED BY DEF FscAllocate, size
<1> HIDE DEF size
<1>5. CASE ~NoneFree(fscElements, fscList) /\ FscTake(v, page, fscElements, fscList, fscThread)
  <2>1. fscList # <<>> /\ ~(fscElements[Head(fscList)].users > 0)
    BY <1>5 DEF NoneFree
  <2>2. Head(fscList) \in 1..Len(fscElements)
    BY <1>1, <2>1, TailOfList
  <2>3. fscElements[Head(fscList)] \in FscElementTypes
    BY <1>1, <2>2, ElementOfSeq
  <2>4. fscElements[Head(fscList)].users = 0
    BY <2>1, <2>3, FscTypesHold DEF FscElementTypes
  <2>5. FscGood(fscElements', fscList', fscThread')
    BY <1>1, <1>5, <2>1, <2>4, TakeGood
  <2>6. fscUpdating' = fscUpdating
    BY <1>5 DEF FscTake
  <2> QED BY <1>1, <2>5, <2>6 DEF FscInv
<1>6. CASE FscMapFails(v)
  <2>1. FscIdle \in FscThreadTypes /\ FscIdle.step \notin Using /\ FscIdle.step \notin Flushing
    BY FscTypesHold DEF FscIdle, Using, Flushing
  <2> QED BY <1>1, <1>6, <2>1, ThreadGoesOn DEF FscMapFails
<1>7. CASE Len(fscElements) < MaxSize /\ FscGrow(v, page, size)
  BY <1>3, <1>7, FscGrowStep
<1>8. CASE /\ fscThread' = [fscThread EXCEPT ![v] =
                  [FscIdle EXCEPT !.step = "grow", !.page = page, !.left = size]]
           /\ UNCHANGED <<fscElements, fscList, fscUpdating>>
  <2> DEFINE r == [FscIdle EXCEPT !.step = "grow", !.page = page, !.left = size]
  <2>1. size \in 0..MaxSize
    BY <1>2, <1>3
  <2>2. r \in FscThreadTypes /\ r.step = "grow"
    BY <2>1, FscTypesHold DEF FscThreadTypes, FscIdle
  <2>3. r.step \notin Using /\ r.step \notin Flushing
    BY <2>2 DEF Using, Flushing
  <2> HIDE DEF r
  <2>4. fscThread' = [fscThread EXCEPT ![v] = r]
    BY <1>8 DEF r
  <2> QED BY <1>1, <1>8, <2>2, <2>3, <2>4, ThreadGoesOn
<1> QED BY <1>4, <1>5, <1>6, <1>7, <1>8

\* FscMapElementPage finds the page, or allocates an element for it.
LEMMA FscMapStep ==
    ASSUME FscInv, NEW v \in Volumes, NEW page \in FscPages, FscMapElementPage(v, page)
    PROVE  FscInv'
<1> DEFINE i == FscFindElement(v, page)
<1>1. /\ fscElements \in Seq(FscElementTypes) /\ Len(fscElements) \in FirstSize..MaxSize
      /\ fscList \in Seq(1..Len(fscElements)) /\ Distinct(fscList)
      /\ FscInUse(fscElements, fscThread)
      /\ FscGood(fscElements, fscList, fscThread) /\ fscUpdating \in BOOLEAN
  BY FscThreadRight
<1>2. fscThread[v].step = "idle" /\ fscThread[v].step \notin Using
  BY DEF FscMapElementPage, Using
<1>3. CASE i = 0
  <2>1. FscAllocate(v, page)
    BY <1>3 DEF FscMapElementPage
  <2> QED BY <1>2, <2>1, FscAllocateStep
<1>4. CASE i # 0
  <2> DEFINE x == [fscElements[i] EXCEPT !.users = @ + 1]
             m == Append(WithoutElement(fscList, i), i)
             r == [FscIdle EXCEPT !.step = "mapped", !.page = page, !.element = i]
  <2>1. i \in Members(fscList) /\ fscElements[i].ext = v /\ fscElements[i].page = page
    BY <1>1, <1>4, ElementFound
  <2>2. fscElements' = [fscElements EXCEPT ![i] = x] /\ fscList' = m
        /\ fscThread' = [fscThread EXCEPT ![v] = r] /\ fscUpdating' = fscUpdating
    BY <1>4 DEF FscMapElementPage
  <2> HIDE DEF i
  <2>3. i \in 1..Len(fscElements) /\ i \in 0..MaxSize
    <3>1. i \in 1..Len(fscElements)
      BY <1>1, <2>1, NoMembers
    <3> QED BY <1>1, <3>1, FscTypesHold
  <2>4. fscElements[i] \in FscElementTypes
    BY <1>1, <2>3, ElementOfSeq
  <2>5. \A w \in Volumes : ~(fscThread[w].step \in Using /\ fscThread[w].element = i)
    BY <1>1, <1>2, <2>1, NobodyElseUses
  <2>6. fscElements[i].users = 0 /\ ~fscElements[i].filling
    BY <1>1, <2>3, <2>5 DEF FscInUse
  <2>7. /\ x \in FscElementTypes /\ x.ext = v /\ x.page = page /\ x.users = 1 /\ ~x.filling
    <3>1. 1 \in 0..Cardinality(Volumes) /\ fscElements[i].users + 1 = 1
      BY <2>6, FscTypesHold
    <3> QED BY <2>1, <2>4, <2>6, <3>1 DEF FscElementTypes
  <2>8. r \in FscThreadTypes /\ r.step = "mapped" /\ r.page = page /\ r.element = i
    BY <2>3, FscTypesHold DEF FscThreadTypes, FscIdle
  <2>9. r.step \in Using /\ r.step \notin Flushing /\ r.element = i /\ UsedBy(x, v, r)
    BY <2>7, <2>8 DEF Using, Flushing, UsedBy
  <2>10. /\ WithoutElement(fscList, i) \in Seq(1..Len(fscElements))
         /\ Distinct(WithoutElement(fscList, i))
         /\ Members(WithoutElement(fscList, i)) = Members(fscList) \ {i}
    BY <1>1, <2>1, ListWithout
  <2>11. /\ m \in Seq(1..Len(fscElements)) /\ Distinct(m)
         /\ Members(m) = (Members(fscList) \ {i}) \union {i}
    <3>1. i \notin Members(WithoutElement(fscList, i))
      BY <2>10
    <3> QED BY <2>3, <2>10, <3>1, AppendMember
  <2>12. Members(m) = Members(fscList)
    BY <2>1, <2>11
  <2> HIDE DEF x, m, r
  <2>13. FscGood([fscElements EXCEPT ![i] = x], m, [fscThread EXCEPT ![v] = r])
    BY <1>1, <1>2, <2>1, <2>3, <2>5, <2>7, <2>8, <2>9, <2>11, <2>12, OneElement
  <2> QED BY <1>1, <2>2, <2>13 DEF FscInv
<1> QED BY <1>3, <1>4

\* FscSetCacheSize, after the wait.
LEMMA FscSetSizeStep ==
    ASSUME FscInv, NEW v \in Volumes, FscSetCacheSize(v)
    PROVE  FscInv'
<1> DEFINE page == fscThread[v].page
           left == fscThread[v].left
<1>1. fscThread[v] \in FscThreadTypes /\ MaxSize \in Nat /\ Len(fscElements) \in Nat
  BY FscThreadRight, FscTypesHold
<1>2. page \in FscPages \union {0} /\ left \in Nat /\ left <= MaxSize
  BY <1>1 DEF FscThreadTypes
<1>3. fscThread[v].step \notin Using
  BY DEF FscSetCacheSize, Using
<1>4. CASE left > Len(fscElements)
  <2>1. FscGrow(v, page, left) /\ Len(fscElements) < left
    BY <1>1, <1>2, <1>4 DEF FscSetCacheSize
  <2> HIDE DEF page, left
  <2> QED BY <1>2, <1>3, <2>1, FscGrowStep
<1>5. CASE ~(left > Len(fscElements))
  <2>1. FscAllocate(v, page)
    BY <1>5 DEF FscSetCacheSize
  <2> HIDE DEF page
  <2> QED BY <1>2, <1>3, <2>1, FscAllocateStep
<1> QED BY <1>4, <1>5

\* An element that is not removed stays where it is in the list, and has one user less.
LEMMA ElementReleased ==
    ASSUME FscInv, NEW v \in Volumes, fscThread[v].step \in Using,
           NEW x \in FscElementTypes, x.ext = fscElements[fscThread[v].element].ext,
           x.users = 0, ~x.filling,
           fscThread[v].element \notin Members(fscList) => x.marked
    PROVE  FscGood([fscElements EXCEPT ![fscThread[v].element] = x], fscList,
                   [fscThread EXCEPT ![v] = FscIdle])
<1> DEFINE i == fscThread[v].element
<1>1. /\ fscList \in Seq(1..Len(fscElements)) /\ Distinct(fscList)
      /\ FscInUse(fscElements, fscThread) /\ FscGood(fscElements, fscList, fscThread)
      /\ i \in 1..Len(fscElements) /\ UsedBy(fscElements[i], v, fscThread[v])
  BY FscThreadRight
<1>2. fscElements[i].ext = v
  BY <1>1 DEF UsedBy
<1> HIDE DEF i
<1>3. \A w \in Volumes \ {v} : ~(fscThread[w].step \in Using /\ fscThread[w].element = i)
  BY <1>1, <1>2, NobodyElseUses
<1>4. FscIdle \in FscThreadTypes /\ FscIdle.step \notin Using /\ FscIdle.step \notin Flushing
  BY FscTypesHold DEF FscIdle, Using, Flushing
<1>5. i \notin Members(fscList) => x.marked /\ x.ext = NoVolume
  BY <1>1 DEF FscGood, FscListed, i
<1>6. fscThread[v].step \in Using => fscThread[v].element = i
  BY DEF i
<1> QED BY <1>1, <1>3, <1>4, <1>5, <1>6, OneElement DEF i

\* The host's answer leaves the element to its volume, or gives it up.
LEMMA FscPageReadStep ==
    ASSUME FscInv, NEW v \in Volumes, FscPageRead(v)
    PROVE  FscInv'
<1> DEFINE i == fscThread[v].element
<1>1. /\ fscElements \in Seq(FscElementTypes)
      /\ fscList \in Seq(1..Len(fscElements)) /\ Distinct(fscList)
      /\ fscThread \in [Volumes -> FscThreadTypes] /\ fscThread[v] \in FscThreadTypes
      /\ FscInUse(fscElements, fscThread) /\ FscGood(fscElements, fscList, fscThread)
      /\ fscUpdating \in BOOLEAN
  BY FscThreadRight
<1>2. fscThread[v].step = "read" /\ fscThread[v].step \in Using
      /\ fscList' = fscList /\ fscUpdating' = fscUpdating
  BY DEF FscPageRead, Using
<1>3. i \in 1..Len(fscElements) /\ UsedBy(fscElements[i], v, fscThread[v])
  BY <1>2, FscThreadRight
<1>4. fscElements[i] \in FscElementTypes
  BY <1>1, <1>3, ElementOfSeq
<1>5. \A w \in Volumes \ {v} : ~(fscThread[w].step \in Using /\ fscThread[w].element = i)
  BY <1>1, <1>3, NobodyElseUses DEF UsedBy
<1>6. i \in Members(fscList)
  <2>1. fscElements[i].ext # NoVolume
    BY <1>3, FscTypesHold DEF UsedBy
  <2> QED BY <1>1, <1>3, <2>1 DEF FscGood, FscListed
<1>7. \/ /\ fscThread' = [fscThread EXCEPT ![v].step = "lost"]
         /\ fscElements' = fscElements
      \/ /\ fscElements' = [fscElements EXCEPT ![i].filling = FALSE]
         /\ fscThread' = [fscThread EXCEPT ![v].step = "mapped"]
      \/ /\ fscElements' = [fscElements EXCEPT ![i] =
                [@ EXCEPT !.users = 0, !.marked = FALSE, !.filling = FALSE]]
         /\ fscThread' = [fscThread EXCEPT ![v] = FscIdle]
  BY DEF FscPageRead
<1>8. CASE fscThread' = [fscThread EXCEPT ![v].step = "lost"] /\ fscElements' = fscElements
  <2> DEFINE r == [fscThread[v] EXCEPT !.step = "lost"]
  <2>1. r \in FscThreadTypes /\ r.step = "lost" /\ r.element = i
    BY <1>1 DEF FscThreadTypes
  <2>2. r.step \in Using /\ r.step \notin Flushing /\ UsedBy(fscElements[i], v, r)
    BY <1>3, <2>1 DEF Using, Flushing, UsedBy
  <2>3. fscThread' = [fscThread EXCEPT ![v] = r]
    BY <1>8
  <2>4. fscElements = [fscElements EXCEPT ![i] = fscElements[i]]
    BY <1>1
  <2>5. fscThread[v].step \in Using => fscThread[v].element = i
    OBVIOUS
  <2> HIDE DEF r, i
  <2>6. FscGood([fscElements EXCEPT ![i] = fscElements[i]], fscList, [fscThread EXCEPT ![v] = r])
    BY <1>1, <1>3, <1>4, <1>5, <1>6, <2>1, <2>2, <2>5, OneElement
  <2>7. FscGood(fscElements, fscList, [fscThread EXCEPT ![v] = r])
    BY <2>4, <2>6
  <2> QED BY <1>1, <1>2, <1>8, <2>3, <2>7 DEF FscInv
<1>9. CASE /\ fscElements' = [fscElements EXCEPT ![i].filling = FALSE]
           /\ fscThread' = [fscThread EXCEPT ![v].step = "mapped"]
  <2> DEFINE r == [fscThread[v] EXCEPT !.step = "mapped"]
             x == [fscElements[i] EXCEPT !.filling = FALSE]
  <2>1. r \in FscThreadTypes /\ r.step = "mapped" /\ r.element = i /\ r.page = fscThread[v].page
    BY <1>1 DEF FscThreadTypes
  <2>2. /\ x \in FscElementTypes /\ ~x.filling
        /\ x.ext = fscElements[i].ext /\ x.users = fscElements[i].users /\ x.page = fscElements[i].page
    BY <1>4 DEF FscElementTypes
  <2>3. r.step \in Using /\ r.step \notin Flushing /\ UsedBy(x, v, r)
    BY <1>2, <1>3, <2>1, <2>2 DEF Using, Flushing, UsedBy
  <2>4. fscThread' = [fscThread EXCEPT ![v] = r] /\ fscElements' = [fscElements EXCEPT ![i] = x]
    BY <1>9
  <2>5. fscThread[v].step \in Using => fscThread[v].element = i
    OBVIOUS
  <2> HIDE DEF r, x, i
  <2>6. FscGood([fscElements EXCEPT ![i] = x], fscList, [fscThread EXCEPT ![v] = r])
    BY <1>1, <1>3, <1>5, <1>6, <2>1, <2>2, <2>3, <2>5, OneElement
  <2> QED BY <1>1, <1>2, <2>4, <2>6 DEF FscInv
<1>10. CASE /\ fscElements' = [fscElements EXCEPT ![i] =
                   [@ EXCEPT !.users = 0, !.marked = FALSE, !.filling = FALSE]]
            /\ fscThread' = [fscThread EXCEPT ![v] = FscIdle]
  <2> DEFINE x == [fscElements[i] EXCEPT !.users = 0, !.marked = FALSE, !.filling = FALSE]
  <2>1. x \in FscElementTypes /\ x.users = 0 /\ ~x.filling /\ x.ext = fscElements[i].ext
    <3>1. 0 \in 0..Cardinality(Volumes)
      BY FscTypesHold
    <3> QED BY <1>4, <3>1 DEF FscElementTypes
  <2>2. fscElements' = [fscElements EXCEPT ![i] = x]
    BY <1>10
  <2> HIDE DEF x
  <2>3. FscGood([fscElements EXCEPT ![i] = x], fscList, [fscThread EXCEPT ![v] = FscIdle])
    BY <1>2, <1>6, <2>1, ElementReleased
  <2> QED BY <1>1, <1>2, <1>10, <2>2, <2>3 DEF FscInv
<1> QED BY <1>7, <1>8, <1>9, <1>10

\* FscUnmapElementPage gives the element up and wakes who flushes.
LEMMA FscUnmapStep ==
    ASSUME FscInv, NEW v \in Volumes, FscUnmapElementPage(v)
    PROVE  FscInv'
<1> DEFINE i == fscThread[v].element
           x == [fscElements[i] EXCEPT !.users = @ - 1, !.filling = FALSE]
           t2 == [fscThread EXCEPT ![v] = FscIdle]
           e2 == [fscElements EXCEPT ![i] = x]
<1>1. /\ fscElements \in Seq(FscElementTypes)
      /\ fscList \in Seq(1..Len(fscElements))
      /\ fscThread \in [Volumes -> FscThreadTypes]
      /\ FscGood(fscElements, fscList, fscThread) /\ fscUpdating \in BOOLEAN
  BY FscThreadRight
<1>2. /\ fscThread[v].step \in Using /\ fscList' = fscList /\ fscUpdating' = fscUpdating
      /\ fscElements' = e2
  <2>1. fscElements' = e2
    BY DEF FscUnmapElementPage
  <2> QED BY <2>1 DEF FscUnmapElementPage, Using
<1>3. i \in 1..Len(fscElements) /\ UsedBy(fscElements[i], v, fscThread[v])
  BY <1>2, FscThreadRight
<1>4. fscElements[i] \in FscElementTypes /\ fscElements[i].users = 1 /\ fscElements[i].ext # NoVolume
  BY <1>1, <1>3, ElementOfSeq, FscTypesHold DEF UsedBy
<1>5. x \in FscElementTypes /\ x.users = 0 /\ ~x.filling /\ x.ext = fscElements[i].ext
  <2>1. 0 \in 0..Cardinality(Volumes) /\ fscElements[i].users - 1 = 0
    BY <1>4, FscTypesHold
  <2> QED BY <1>4, <2>1 DEF FscElementTypes
<1>6. i \in Members(fscList)
  BY <1>1, <1>3, <1>4 DEF FscGood, FscListed
<1>7. FscGood(e2, fscList, t2)
  <2> HIDE DEF x
  <2> QED BY <1>2, <1>5, <1>6, ElementReleased
<1>8. t2 \in [Volumes -> FscThreadTypes] /\ t2[v] = FscIdle
      /\ \A w \in Volumes : w # v => t2[w] = fscThread[w]
  BY <1>1, FscTypesHold
<1>9. \A w \in Volumes : \/ w = v /\ fscThread'[w] = FscIdle
                         \/ /\ w # v /\ fscThread[w].step = "wait"
                            /\ fscThread'[w] = [fscThread[w] EXCEPT !.step = "flush"]
                         \/ w # v /\ fscThread'[w] = fscThread[w]
  BY DEF FscUnmapElementPage
<1>10. \E f : fscThread' = [w \in Volumes |-> f[w]]
  <2> DEFINE f == [w \in Volumes |->
               IF w = v THEN FscIdle
               ELSE IF fscThread[w].step = "wait" /\ fscElements[i].users = 1
                    THEN [fscThread[w] EXCEPT !.step = "flush"]
               ELSE fscThread[w]]
  <2>1. fscThread' = f
    BY DEF FscUnmapElementPage
  <2>2. f = [w \in Volumes |-> f[w]]
    OBVIOUS
  <2> HIDE DEF f
  <2> QED BY <2>1, <2>2
<1> HIDE DEF e2, t2, x, i
<1>11. ASSUME NEW w \in Volumes
       PROVE  /\ fscThread'[w] \in FscThreadTypes
              /\ \/ fscThread'[w] = t2[w]
                 \/ t2[w].step \notin Using /\ fscThread'[w].step \notin Using
                    /\ (fscThread'[w].step \in Flushing => fscThread'[w].left > 0)
  <2>1. CASE w = v /\ fscThread'[w] = FscIdle
    BY <1>8, <2>1
  <2>2. CASE w # v /\ fscThread'[w] = fscThread[w]
    BY <1>8, <2>2
  <2>3. CASE /\ w # v /\ fscThread[w].step = "wait"
             /\ fscThread'[w] = [fscThread[w] EXCEPT !.step = "flush"]
    <3>1. fscThread[w] \in FscThreadTypes /\ fscThread[w].left > 0
      BY <2>3, FscThreadRight DEF Flushing
    <3>2. fscThread'[w] \in FscThreadTypes /\ fscThread'[w].step = "flush"
          /\ fscThread'[w].left = fscThread[w].left
      BY <2>3, <3>1 DEF FscThreadTypes
    <3> QED BY <1>8, <2>3, <3>1, <3>2 DEF Using
  <2> QED BY <1>9, <2>1, <2>2, <2>3
<1>12. fscThread' \in [Volumes -> FscThreadTypes]
  <2>1. PICK f : fscThread' = [w \in Volumes |-> f[w]]
    BY <1>10
  <2> QED BY <1>11, <2>1
<1>13. \A t : /\ t \in [Volumes -> FscThreadTypes]
              /\ \A w \in Volumes : \/ t[w] = t2[w]
                                    \/ t2[w].step \notin Using /\ t[w].step \notin Using
                                       /\ (t[w].step \in Flushing => t[w].left > 0)
              => FscGood(e2, fscList, t)
  BY <1>7, OnlyThreads
<1>14. FscGood(e2, fscList, fscThread')
  BY <1>11, <1>12, <1>13
<1> QED BY <1>1, <1>2, <1>14 DEF FscInv

\* One pass of a flush that has "left" elements to remove.
LEMMA FscPassStep ==
    ASSUME FscInv, NEW v \in Volumes, fscThread[v].step \notin Using, NEW left \in 0..MaxSize,
           PassFinds(v) # 0 => left > 0,
           FscFlushPass(v, left)
    PROVE  FscInv'
<1> DEFINE at == PassFinds(v)
           still == IF at = 0 THEN left ELSE left - 1
           r == IF still = 0 THEN FscIdle ELSE [FscIdle EXCEPT !.step = "unlocked", !.left = still]
           i == Reachable[at]
           x == [fscElements[i] EXCEPT !.ext = NoVolume, !.marked = TRUE]
           m == WithoutElement(fscList, i)
<1>1. /\ fscElements \in Seq(FscElementTypes)
      /\ fscList \in Seq(1..Len(fscElements)) /\ Distinct(fscList)
      /\ FscInUse(fscElements, fscThread) /\ FscGood(fscElements, fscList, fscThread)
      /\ fscUpdating \in BOOLEAN
  BY FscThreadRight
<1>2. /\ at = 0 => fscElements' = fscElements /\ fscList' = fscList
      /\ at # 0 => fscElements' = [fscElements EXCEPT ![i] = x] /\ fscList' = m
      /\ fscUpdating' = (still > 0)
      /\ fscThread' = [fscThread EXCEPT ![v] = r]
  BY DEF FscFlushPass, PassFinds
<1>3. at # 0 => i \in Members(fscList) /\ MayFlush(v, i)
  BY <1>1, FlushFound
<1> HIDE DEF at
<1>4. MaxSize \in Nat /\ still \in 0..MaxSize
  BY FscTypesHold DEF at
<1>5. r \in FscThreadTypes /\ r.step \notin Using /\ (r.step \in Flushing => r.left > 0)
  <2>1. CASE still = 0
    BY <2>1, FscTypesHold DEF FscIdle, Using, Flushing
  <2>2. CASE still # 0
    <3> DEFINE u == [FscIdle EXCEPT !.step = "unlocked", !.left = still]
    <3>1. u \in FscThreadTypes /\ u.step = "unlocked" /\ u.left = still
      <4> HIDE DEF still
      <4> QED BY <1>4, FscTypesHold DEF FscThreadTypes, FscIdle
    <3>2. r = u
      BY <2>2
    <3> HIDE DEF u, r, still
    <3> QED BY <1>4, <2>2, <3>1, <3>2 DEF Using
  <2> QED BY <2>1, <2>2
<1>6. fscUpdating' \in BOOLEAN
  BY <1>2
<1> HIDE DEF r, still
<1>7. CASE at = 0
  BY <1>2, <1>5, <1>6, <1>7, ThreadGoesOn
<1>8. CASE at # 0
  <2> HIDE DEF i
  <2>1. i \in Members(fscList) /\ fscElements[i].users = 0
    BY <1>3, <1>8 DEF MayFlush
  <2>2. i \in 1..Len(fscElements)
    BY <1>1, <2>1, NoMembers
  <2>3. fscElements[i] \in FscElementTypes
    BY <1>1, <2>2, ElementOfSeq
  <2>4. \A w \in Volumes : ~(fscThread[w].step \in Using /\ fscThread[w].element = i)
    BY <1>1, <2>1, NobodyUses
  <2>5. ~fscElements[i].filling
    BY <1>1, <2>2, <2>4 DEF FscInUse
  <2>6. x \in FscElementTypes /\ x.users = 0 /\ ~x.filling /\ x.marked /\ x.ext = NoVolume
    BY <2>1, <2>3, <2>5 DEF FscElementTypes
  <2>7. m \in Seq(1..Len(fscElements)) /\ Distinct(m) /\ Members(m) = Members(fscList) \ {i}
    BY <1>1, <2>1, ListWithout
  <2> HIDE DEF x, m
  <2>8. FscGood([fscElements EXCEPT ![i] = x], m, [fscThread EXCEPT ![v] = r])
    BY <1>1, <1>5, <2>1, <2>2, <2>4, <2>6, <2>7, OneElement
  <2> QED BY <1>2, <1>6, <1>8, <2>8 DEF FscInv
<1> QED BY <1>7, <1>8

\* A flush begins with as many as it finds.
LEMMA FscFlushStep ==
    ASSUME FscInv, NEW v \in Volumes, FscFlushPartitionElements(v)
    PROVE  FscInv'
<1> DEFINE K == {k \in DOMAIN Reachable : fscElements[Reachable[k]].ext = v}
           at == PassFinds(v)
           n == Len(fscElements)
<1>1. fscList \in Seq(1..n) /\ Distinct(fscList) /\ n \in Nat /\ n <= MaxSize /\ MaxSize \in Nat
  BY FscThreadRight, FscTypesHold
<1>2. fscThread[v].step \notin Using /\ FscFlushPass(v, Cardinality(K))
  BY DEF FscFlushPartitionElements, Using
<1>3. Reachable \in Seq(1..n) /\ Distinct(Reachable)
  BY <1>1, ReachableListed
<1>4. Len(Reachable) \in Nat /\ Len(Reachable) <= n
  <2>1. Cardinality(Members(Reachable)) = Len(Reachable) /\ Members(Reachable) \subseteq 1..n
    BY <1>3, LenIsCardinality, NoMembers
  <2>2. IsFiniteSet(1..n) /\ Cardinality(1..n) = n
    <3> HIDE DEF n
    <3> QED BY <1>1, FS_Interval
  <2>3. Cardinality(Members(Reachable)) <= Cardinality(1..n)
    <3> HIDE DEF n
    <3> QED BY <2>1, <2>2, FS_Subset
  <2>4. Len(Reachable) \in Nat
    BY <1>3
  <2> HIDE DEF n
  <2> QED BY <2>1, <2>2, <2>3, <2>4
<1>5. IsFiniteSet(K) /\ Cardinality(K) \in Nat /\ Cardinality(K) <= MaxSize
  <2>1. K \subseteq 1..Len(Reachable)
    BY <1>3
  <2>2. IsFiniteSet(1..Len(Reachable)) /\ Cardinality(1..Len(Reachable)) = Len(Reachable)
    <3> DEFINE k == Len(Reachable)
    <3>1. k \in Nat
      BY <1>4
    <3> HIDE DEF k
    <3>2. IsFiniteSet(1..k) /\ Cardinality(1..k) = k
      BY <3>1, FS_Interval
    <3> QED BY <3>2 DEF k
  <2> HIDE DEF K
  <2>3. IsFiniteSet(K) /\ Cardinality(K) \in Nat /\ Cardinality(K) <= Len(Reachable)
    BY <2>1, <2>2, FS_Subset, FS_CardinalityType
  <2> QED BY <1>1, <1>4, <2>3
<1>6. ASSUME at # 0 PROVE Cardinality(K) > 0
  <2> DEFINE I == {k \in 1..Len(Reachable) : MayFlush(v, Reachable[k])}
  <2>1. I # {}
    BY <1>6 DEF SelectLastInSeq, PassFinds
  <2>2. K # {}
    BY <1>3, <2>1 DEF MayFlush
  <2> HIDE DEF K
  <2> QED BY <1>5, <2>2, FS_EmptySet
<1> HIDE DEF K
<1>7. Cardinality(K) \in 0..MaxSize
  BY <1>1, <1>5
<1> QED BY <1>2, <1>6, <1>7, FscPassStep

\* A flush that is not done waits.
LEMMA FscWaitStep ==
    ASSUME FscInv, NEW v \in Volumes, FscWaitForRelease(v)
    PROVE  FscInv'
<1> DEFINE r == [fscThread[v] EXCEPT !.step = "wait"]
<1>1. fscThread[v] \in FscThreadTypes /\ fscUpdating \in BOOLEAN /\ fscThread[v].left > 0
      /\ fscThread[v].step \notin Using
  BY FscThreadRight DEF FscWaitForRelease, Using, Flushing
<1>2. r \in FscThreadTypes /\ r.step = "wait" /\ r.left = fscThread[v].left
  BY <1>1 DEF FscThreadTypes
<1>3. r.step \notin Using /\ r.left > 0
  BY <1>1, <1>2 DEF Using
<1>4. fscThread' = [fscThread EXCEPT ![v] = r] /\ UNCHANGED <<fscElements, fscList, fscUpdating>>
  BY DEF FscWaitForRelease
<1> HIDE DEF r
<1> QED BY <1>1, <1>2, <1>3, <1>4, ThreadGoesOn

\* A flush that was woken makes another pass.
LEMMA FscGoesOnStep ==
    ASSUME FscInv, NEW v \in Volumes, FscFlushGoesOn(v)
    PROVE  FscInv'
<1>1. fscThread[v] \in FscThreadTypes /\ fscThread[v].left > 0 /\ fscThread[v].step \notin Using
  BY FscThreadRight DEF FscFlushGoesOn, Using, Flushing
<1>2. fscThread[v].left \in 0..MaxSize /\ FscFlushPass(v, fscThread[v].left)
  BY <1>1 DEF FscThreadTypes, FscFlushGoesOn
<1> QED BY <1>1, <1>2, FscPassStep

\* At first all elements are invalid.
LEMMA FscBegins == FscInit => FscInv
<1> SUFFICES ASSUME FscInit PROVE FscInv
  OBVIOUS
<1> DEFINE g == Enlarged(<<>>, FirstSize)
           N == FirstSize
<1>1. N \in Nat \ {0} /\ MaxSize \in Nat /\ N <= MaxSize /\ Invalid \in FscElementTypes
      /\ FscIdle \in FscThreadTypes
  BY FscTypesHold
<1>2. g \in Seq(FscElementTypes) /\ Len(g) = N /\ \A i \in 1..N : g[i] = Invalid
  <2> DEFINE q == [i \in 1..N |-> Invalid]
  <2>1. Len(<<>>) = 0 /\ N - 0 = N
    BY <1>1, EmptySeq
  <2>2. g = <<>> \o q
    BY <2>1 DEF Enlarged
  <2>3. q \in [1..N -> FscElementTypes]
    BY <1>1
  <2>4. \A p : p \in [1..N -> FscElementTypes] => p \in Seq(FscElementTypes) /\ Len(p) = N
    BY <1>1, SeqDef
  <2>5. q \in Seq(FscElementTypes) /\ Len(q) = N
    BY <2>3, <2>4
  <2>6. <<>> \o q = q
    BY <2>5, ConcatEmptySeq
  <2> QED BY <2>2, <2>5, <2>6
<1>3. fscElements = g /\ fscList = FscReBuild(g) /\ fscUpdating = FALSE
      /\ fscThread = [v \in Volumes |-> FscIdle]
  BY DEF FscInit
<1> HIDE DEF g, N
<1>4. FscReBuild(g) \in Seq(1..Len(g)) /\ Distinct(FscReBuild(g)) /\ Members(FscReBuild(g)) = 1..Len(g)
  BY <1>1, <1>2, RebuiltList
<1>5. \A v \in Volumes : fscThread[v] = FscIdle
  BY <1>3
<1>6. FscIdle.step \notin Using /\ FscIdle.step \notin Flushing
  BY DEF FscIdle, Using, Flushing
<1>7. FscTyped(fscElements, fscThread)
  BY <1>1, <1>2, <1>3, <1>5, <1>6 DEF FscTyped, N
<1>8. FscListed(fscElements, fscList)
  BY <1>3, <1>4 DEF FscListed
<1>9. FscInUse(fscElements, fscThread)
  BY <1>2, <1>3, <1>5, <1>6 DEF FscInUse, Invalid
<1> QED BY <1>3, <1>7, <1>8, <1>9 DEF FscInv, FscGood

\* Every step keeps the invariant.
LEMMA FscKeeps == FscInv /\ [FscNext]_fscVars => FscInv'
<1> SUFFICES ASSUME FscInv, [FscNext]_fscVars PROVE FscInv'
  OBVIOUS
<1>1. CASE FscNext
  <2>1. PICK v \in Volumes :
           \/ \E page \in FscPages : FscMapElementPage(v, page)
           \/ FscSetCacheSize(v) \/ FscPageRead(v) \/ FscUnmapElementPage(v)
           \/ FscFlushPartitionElements(v) \/ FscWaitForRelease(v) \/ FscFlushGoesOn(v)
    BY <1>1 DEF FscNext
  <2>2. CASE \E page \in FscPages : FscMapElementPage(v, page)
    BY <2>2, FscMapStep
  <2>3. CASE FscSetCacheSize(v)
    BY <2>3, FscSetSizeStep
  <2>4. CASE FscPageRead(v)
    BY <2>4, FscPageReadStep
  <2>5. CASE FscUnmapElementPage(v)
    BY <2>5, FscUnmapStep
  <2>6. CASE FscFlushPartitionElements(v)
    BY <2>6, FscFlushStep
  <2>7. CASE FscWaitForRelease(v)
    BY <2>7, FscWaitStep
  <2>8. CASE FscFlushGoesOn(v)
    BY <2>8, FscGoesOnStep
  <2> QED BY <2>1, <2>2, <2>3, <2>4, <2>5, <2>6, <2>7, <2>8
<1>2. CASE UNCHANGED fscVars
  BY <1>2 DEF fscVars, FscInv, FscGood, FscTyped, FscListed, FscInUse
<1> QED BY <1>1, <1>2

\* What the invariant says of who uses what is what the run checks.
LEMMA FscInvShows == FscInv => FscMappedStays
<1> SUFFICES ASSUME FscInv PROVE FscMappedStays
  OBVIOUS
<1>1. /\ fscThread \in [Volumes -> FscThreadTypes]
      /\ fscElements \in Seq(FscElementTypes) /\ Len(fscElements) \in FirstSize..MaxSize
      /\ Len(fscElements) \in Nat
      /\ fscList \in Seq(1..Len(fscElements)) /\ Distinct(fscList)
      /\ fscUpdating \in BOOLEAN
      /\ \A i \in 1..Len(fscElements) :
            i \notin Members(fscList) => fscElements[i].marked /\ fscElements[i].ext = NoVolume
  <2>1. FirstSize \in Nat /\ MaxSize \in Nat
    BY FscTypesHold
  <2> QED BY <2>1 DEF FscInv, FscGood, FscTyped, FscListed
<1>2. /\ \A v \in Volumes : fscThread[v].step \in Using =>
            /\ fscThread[v].element \in 1..Len(fscElements)
            /\ UsedBy(fscElements[fscThread[v].element], v, fscThread[v])
      /\ \A i \in 1..Len(fscElements) :
            (\A v \in Volumes : ~(fscThread[v].step \in Using /\ fscThread[v].element = i))
               => fscElements[i].users = 0 /\ ~fscElements[i].filling
  BY DEF FscInv, FscGood, FscInUse
<1>3. FscTypeOK
  BY <1>1 DEF FscTypeOK, FscElementTypes, FscThreadTypes
<1>4. Range(fscList) = Members(fscList) /\ IsInjective(fscList)
  BY <1>1, RangeIsMembers
<1>5. DOMAIN fscElements = 1..Len(fscElements)
  BY <1>1
<1>6. ASSUME NEW v \in Volumes, fscThread[v].step \in {"read", "mapped"}
      PROVE  LET i == fscThread[v].element
             IN  /\ fscElements[i].ext = v /\ fscElements[i].page = fscThread[v].page
                 /\ fscElements[i].filling = (fscThread[v].step = "read")
                 /\ i \in Range(fscList)
  <2> DEFINE i == fscThread[v].element
  <2>1. fscThread[v].step \in Using /\ fscThread[v].step # "lost"
    BY <1>6 DEF Using
  <2>2. i \in 1..Len(fscElements) /\ UsedBy(fscElements[i], v, fscThread[v])
    BY <1>2, <2>1
  <2>3. fscElements[i] \in FscElementTypes
    BY <1>1, <2>2, ElementOfSeq
  <2>4. fscElements[i].filling \in BOOLEAN
    BY <2>3 DEF FscElementTypes
  <2>5. fscElements[i].ext = v /\ fscElements[i].page = fscThread[v].page
        /\ (fscElements[i].filling <=> fscThread[v].step = "read")
    BY <2>1, <2>2 DEF UsedBy
  <2>6. v # NoVolume
    BY FscTypesHold
  <2>7. i \in Range(fscList)
    BY <1>1, <1>4, <2>2, <2>5, <2>6
  <2> QED BY <2>4, <2>5, <2>7
<1>7. ASSUME NEW i \in DOMAIN fscElements
      PROVE  fscElements[i].users = Cardinality({v \in Volumes :
                 fscThread[v].step \in {"read", "mapped", "lost"} /\ fscThread[v].element = i})
  <2> DEFINE U == {v \in Volumes :
                 fscThread[v].step \in {"read", "mapped", "lost"} /\ fscThread[v].element = i}
  <2>1. CASE U = {}
    <3>1. \A v \in Volumes : ~(fscThread[v].step \in Using /\ fscThread[v].element = i)
      BY <2>1 DEF Using
    <3>2. fscElements[i].users = 0
      BY <1>2, <1>5, <3>1
    <3> QED BY <2>1, <3>2, FS_EmptySet
  <2>2. CASE U # {}
    <3>1. PICK v \in U : TRUE
      BY <2>2
    <3>2. \A w \in U : w \in Volumes /\ fscElements[i].ext = w /\ fscElements[i].users = 1
      BY <1>2 DEF Using, UsedBy
    <3>3. U = {v}
      BY <3>1, <3>2
    <3>4. fscElements[i].users = 1
      BY <3>1, <3>2
    <3> HIDE DEF U
    <3>5. Cardinality(U) = 1
      BY <3>3, FS_Singleton
    <3> QED BY <3>4, <3>5 DEF U
  <2> QED BY <2>1, <2>2
<1>8. \A i \in DOMAIN fscElements \ Range(fscList) :
         fscElements[i].marked /\ fscElements[i].ext = NoVolume
  BY <1>1, <1>4, <1>5
<1> QED BY <1>3, <1>4, <1>6, <1>7, <1>8 DEF FscMappedStays

\* What FscMapElementPage, FscUnmapElementPage, growth and flushes keep: the
\* elements are typed, the list has none of them twice and lacks only what a flush
\* has removed, and each element in use is its volume's and has its one user.
THEOREM FscInvariant == FscSpec => []FscInv
<1> QED BY FscBegins, FscKeeps, PTL DEF FscSpec

\* A page that FscMapElementPage has mapped stays in its buffer until it is unmapped,
\* through the searches, growth and flushes of others.
THEOREM PagesStayMapped == FscSpec => []FscMappedStays
<1> QED BY FscInvariant, FscInvShows, PTL
=============================================================================
