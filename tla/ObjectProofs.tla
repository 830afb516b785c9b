---------------------------- MODULE ObjectProofs ----------------------------
(***************************************************************************)
(* The safety properties of ObjectManager, for any number of threads,      *)
(* objects, names and handles.  What makes them inductive is which steps   *)
(* an operation can have left, that a counter of pointers at one means     *)
(* that nobody else can touch the object, and that the free entries are a  *)
(* list, which the walk of FreeListIntact goes along.                      *)
(***************************************************************************)
EXTENDS ObjectManager, ListLemmas

-----------------------------------------------------------------------------
(* The inductive invariant.                                                 *)

FreeEntries == [next : Handles \union {DecodedEnd}, encoded : BOOLEAN]

Headers ==
    [state : {"unborn", "live", "freed"}, kind : Kinds, name : Names \union {NoName},
     pointers : Nat, handles : Nat, attached : BOOLEAN, linked : BOOLEAN,
     permanent : BOOLEAN, device : BOOLEAN, handleCreated : BOOLEAN, cleaned : BOOLEAN]

\* Another reference is asked for only with a name and not to open by it.
Steps ==
    {s \in [op : {"insert"}, obj : Objects, name : Names \union {NoName},
            attributes : SUBSET {"openif", "permanent"}, bias : {0, 1}] :
        s.bias = 1 => s.name # NoName /\ "openif" \notin s.attributes}
    \union [op : {"close"}, obj : Objects, handles : Nat]
    \union [op : {"parse", "handle", "created", "closed"}, obj : Objects]
    \union [op : {"deref", "free"}, obj : AllObjects]

\* What an operation can have left to do.
Plan(q) ==
    \/ q = <<>>
    \/ Len(q) = 1 /\ q[1].op \in {"insert", "parse", "handle", "created"}
    \/ /\ q # <<>> /\ Len(q) <= 3 /\ q[1].op \in {"deref", "free"}
       /\ \A i \in 2..Len(q) : q[i].op = "deref"
    \/ /\ Len(q) = 2 /\ q[1].op = "handle" /\ q[2].op = "created" /\ q[1].obj = q[2].obj
    \/ /\ Len(q) = 3 /\ q[1].op \in {"deref", "free"}
       /\ q[2].op = "handle" /\ q[3].op = "created" /\ q[2].obj = q[3].obj
    \/ /\ Len(q) = 2 /\ q[1].op = "closed" /\ q[2].op = "deref" /\ q[1].obj = q[2].obj
    \/ /\ Len(q) = 3 /\ q[1].op = "close" /\ q[2].op = "closed" /\ q[3].op = "deref"
       /\ q[1].obj = q[2].obj /\ q[1].obj = q[3].obj

Plans == {q \in Seq(Steps) : Plan(q)}

ObTypes ==
    /\ table \in [Handles -> Objects \union FreeEntries]
    /\ firstFree \in Handles \union {DecodedEnd}
    /\ objects \in [AllObjects -> Headers]
    /\ todo \in [Threads -> Plans]
    /\ held \in [Threads -> SUBSET Objects]
    /\ crashed \in {"no", "closed handle", "no free handle", "null Directory"}

\* The free entries, in the order in which they will be given out.
FreeListIs(list) ==
    /\ Distinct(list) /\ Members(list) = {h \in Handles : ~IsObject(h)}
    /\ firstFree = IF list = <<>> THEN DecodedEnd ELSE list[1]
    /\ \A i \in 1..Len(list) :
         table[list[i]].next = IF i = Len(list) THEN DecodedEnd ELSE list[i + 1]

FreeListRight == \E list \in Seq(Handles) : FreeListIs(list)

Holders(o) == {t \in Threads : o \in held[t]}
LinkedOnes == {o \in Objects : objects[o].linked}

PointersRight ==
    /\ \A o \in AllObjects :
         /\ IsFiniteSet(Pending(o, Owning)) /\ IsFiniteSet(Pending(o, {"free"}))
         /\ IsFiniteSet(Holders(o))
    /\ IsFiniteSet(LinkedOnes)
    /\ PointerCountExact

\* Only what has been created is pointed to, and only what is pointed to is kept.
LivesRight ==
    /\ DeletedOnce
    /\ \A o \in AllObjects : objects[o].state = "unborn" =>
           objects[o].pointers = 0 /\ ~objects[o].device

\* The names in the directory.
LinksRight ==
    /\ ~objects[Directory].linked
    /\ \A o \in Objects : objects[o].linked =>
           /\ objects[o].attached /\ objects[o].name \in Names
           /\ objects[o].kind # "file"
           /\ objects[o].permanent \/ objects[o].handles > 0
    /\ \A o, p \in Objects :
           objects[o].linked /\ objects[p].linked /\ objects[o].name = objects[p].name
               => o = p

\* An object that is going to get its name is known to its creator only.
NamedInsert(t, o) ==
    /\ todo[t] # <<>> /\ todo[t][1].op = "insert"
    /\ todo[t][1].obj = o /\ todo[t][1].name # NoName

InsertsRight ==
    \A t \in Threads, o \in Objects : NamedInsert(t, o) =>
        /\ objects[o].name = todo[t][1].name /\ objects[o].kind # "file"
        /\ objects[o].pointers = 1 /\ ~objects[o].linked

\* A file that has had a handle has one, has been cleaned up, or is being closed.
HadHandle(o) ==
    \/ objects[o].handleCreated
    \/ \E t \in Threads : todo[t] # <<>> /\ todo[t][1].op = "created" /\ todo[t][1].obj = o

Closing(o) ==
    \E t \in Threads :
        todo[t] # <<>> /\ todo[t][1].op = "close" /\ todo[t][1].obj = o /\ todo[t][1].handles = 1

FilesRight ==
    \A o \in Objects : objects[o].device =>
        /\ objects[o].kind = "file"
        /\ HadHandle(o) => objects[o].cleaned \/ objects[o].handles > 0 \/ Closing(o)
        /\ objects[o].state = "freed" => objects[o].cleaned

ObInv ==
    /\ ObTypes
    /\ FreeListRight
    /\ HandleCountsExact
    /\ PointersRight
    /\ LivesRight
    /\ LinksRight
    /\ InsertsRight
    /\ FilesRight

-----------------------------------------------------------------------------
(* Operations as lists of steps.                                            *)

\* What a step is.
LEMMA StepIs ==
    ASSUME NEW s \in Steps
    PROVE  /\ s.op \in {"insert", "close", "parse", "handle", "created", "closed", "deref", "free"}
           /\ s.obj \in AllObjects
           /\ s.op \notin {"deref", "free"} => s.obj \in Objects
           /\ s.op = "insert" =>
                /\ s.name \in Names \union {NoName} /\ s.bias \in {0, 1}
                /\ s.bias = 1 => s.name # NoName /\ "openif" \notin s.attributes
           /\ s.op = "close" => s.handles \in Nat
BY DEF Steps, AllObjects

\* The steps that the actions leave.
LEMMA StepsAre ==
    /\ \A o \in AllObjects : Step("deref", o) \in Steps /\ Step("free", o) \in Steps
    /\ \A o \in Objects :
         /\ o \in AllObjects
         /\ \A op \in {"parse", "handle", "created", "closed"} : Step(op, o) \in Steps
         /\ \A n \in Nat : [op |-> "close", obj |-> o, handles |-> n] \in Steps
         /\ \A name \in Names \union {NoName}, a \in SUBSET {"openif", "permanent"}, b \in {0, 1} :
              (b = 1 => name # NoName /\ "openif" \notin a) =>
                [op |-> "insert", obj |-> o, name |-> name, attributes |-> a, bias |-> b] \in Steps
    /\ \A op, o : Step(op, o).op = op /\ Step(op, o).obj = o
BY DEF Steps, Step, AllObjects

\* An operation's list of steps.
LEMMA PlansAre ==
    ASSUME NEW q \in Plans
    PROVE  /\ q \in Seq(Steps) /\ Plan(q)
           /\ Len(q) \in Nat /\ Len(q) <= 3 /\ \A i \in 1..Len(q) : i \in 1..3
           /\ DOMAIN q = 1..Len(q)
           /\ q = <<>> <=> Len(q) = 0
           /\ \A i \in 1..Len(q) : q[i] \in Steps
<1>1. q \in Seq(Steps) /\ Plan(q)
  BY DEF Plans
<1>2. /\ Len(q) \in Nat /\ DOMAIN q = 1..Len(q) /\ (q = <<>> <=> Len(q) = 0)
      /\ \A i \in 1..Len(q) : q[i] \in Steps
  BY <1>1, EmptySeq, ElementOfSeq
<1>3. Len(q) <= 3
  BY <1>1, <1>2 DEF Plan
<1> QED BY <1>1, <1>2, <1>3

\* What is left after the first step of an operation.
LEMMA PlanTail ==
    ASSUME NEW q \in Plans, q # <<>>
    PROVE  /\ Head(q) = q[1] /\ q[1] \in Steps /\ Len(q) \in Nat /\ Len(q) <= 3 /\ 1 \in 1..Len(q)
           /\ Tail(q) \in Seq(Steps) /\ Len(Tail(q)) \in Nat /\ Len(Tail(q)) = Len(q) - 1
           /\ Tail(q) \in Plans
           /\ q[1].op \in {"insert", "parse", "created"} => Tail(q) = <<>>
           /\ q[1].op = "handle" =>
                \/ Tail(q) = <<>>
                \/ /\ Len(Tail(q)) = 1 /\ Tail(q)[1].op = "created"
                   /\ Tail(q)[1].obj = q[1].obj
           /\ q[1].op \in {"deref", "free"} =>
                \/ \A i \in 1..Len(Tail(q)) : Tail(q)[i].op = "deref"
                \/ /\ Len(Tail(q)) = 2 /\ Tail(q)[1].op = "handle" /\ Tail(q)[2].op = "created"
                   /\ Tail(q)[1].obj = Tail(q)[2].obj
           /\ q[1].op = "closed" =>
                Len(Tail(q)) = 1 /\ Tail(q)[1].op = "deref" /\ Tail(q)[1].obj = q[1].obj
           /\ q[1].op = "close" =>
                /\ Len(Tail(q)) = 2 /\ Tail(q)[1].op = "closed" /\ Tail(q)[2].op = "deref"
                /\ Tail(q)[1].obj = q[1].obj /\ Tail(q)[2].obj = q[1].obj
<1> DEFINE r == Tail(q)
<1>0. q \in Seq(Steps) /\ Plan(q) /\ Len(q) <= 3
  BY PlansAre
<1>1. /\ r \in Seq(Steps) /\ Len(q) \in Nat \ {0} /\ Len(r) \in Nat /\ Len(r) = Len(q) - 1
      /\ \A i \in 1..Len(r) : r[i] = q[i + 1]
      /\ r = <<>> <=> Len(q) = 1
  BY <1>0, TailOfList
<1>2. Head(q) = q[1] /\ q[1] \in Steps
  BY <1>0, <1>1, ElementOfSeq
<1> HIDE DEF r
<1>4. /\ 1 \in 1..Len(r) => r[1] = q[2]
      /\ 2 \in 1..Len(r) => r[2] = q[3]
      /\ \A i \in 1..Len(r) : i + 1 \in 2..Len(q)
  BY <1>1
<1>5. q[1].op \in {"insert", "parse", "created"} => r = <<>>
  BY <1>0, <1>1 DEF Plan
<1>6. q[1].op = "handle" =>
          r = <<>> \/ (Len(r) = 1 /\ r[1].op = "created" /\ r[1].obj = q[1].obj)
  BY <1>0, <1>1, <1>4 DEF Plan
<1>7. ASSUME q[1].op \in {"deref", "free"}
      PROVE  \/ \A i \in 1..Len(r) : r[i].op = "deref"
             \/ /\ Len(r) = 2 /\ r[1].op = "handle" /\ r[2].op = "created"
                /\ r[1].obj = r[2].obj
  <2>1. CASE \A i \in 2..Len(q) : q[i].op = "deref"
    BY <1>1, <1>4, <2>1
  <2>2. CASE /\ Len(q) = 3 /\ q[2].op = "handle" /\ q[3].op = "created" /\ q[2].obj = q[3].obj
    BY <1>1, <1>4, <2>2
  <2> QED BY <1>0, <1>7, <2>1, <2>2 DEF Plan
<1>8. q[1].op = "closed" => Len(r) = 1 /\ r[1].op = "deref" /\ r[1].obj = q[1].obj
  BY <1>0, <1>1, <1>4 DEF Plan
<1>9. q[1].op = "close" =>
          /\ Len(r) = 2 /\ r[1].op = "closed" /\ r[2].op = "deref"
          /\ r[1].obj = q[1].obj /\ r[2].obj = q[1].obj
  BY <1>0, <1>1, <1>4 DEF Plan
<1>10. r \in Plans
  <2>1. CASE r = <<>>
    BY <1>1, <2>1 DEF Plans, Plan
  <2>2. CASE r # <<>>
    <3>1. q[1].op \in {"insert", "close", "parse", "handle", "created", "closed", "deref", "free"}
      BY <1>2, StepIs
    <3>2. ASSUME q[1].op \in {"handle", "closed", "close"} PROVE Plan(r)
      BY <1>6, <1>8, <1>9, <2>2, <3>2 DEF Plan
    <3>3. ASSUME q[1].op \in {"deref", "free"} PROVE Plan(r)
      <4>1. CASE \A i \in 1..Len(r) : r[i].op = "deref"
        <5>1. /\ r[1].op = "deref" /\ Len(r) <= 3
              /\ \A i \in 2..Len(r) : r[i].op = "deref"
          BY <1>0, <1>1, <2>2, <4>1, EmptySeq
        <5> QED BY <2>2, <5>1 DEF Plan
      <4>2. CASE /\ Len(r) = 2 /\ r[1].op = "handle" /\ r[2].op = "created"
                 /\ r[1].obj = r[2].obj
        BY <4>2 DEF Plan
      <4> QED BY <1>7, <3>3, <4>1, <4>2
    <3> QED BY <1>1, <1>5, <2>2, <3>1, <3>2, <3>3 DEF Plans
  <2> QED BY <2>1, <2>2
<1> QED BY <1>0, <1>1, <1>2, <1>5, <1>6, <1>7, <1>8, <1>9, <1>10 DEF r


\* Steps put in front of others.
LEMMA StepsInFront ==
    ASSUME NEW s \in Seq(Steps), NEW r \in Seq(Steps)
    PROVE  /\ s \o r \in Seq(Steps) /\ Len(s \o r) = Len(s) + Len(r)
           /\ Len(s) \in Nat /\ Len(r) \in Nat
           /\ \A i \in 1..Len(s) : (s \o r)[i] = s[i]
           /\ \A i \in 1..Len(r) : (s \o r)[Len(s) + i] = r[i]
<1>1. /\ s \o r \in Seq(Steps) /\ Len(s \o r) = Len(s) + Len(r)
      /\ Len(s) \in Nat /\ Len(r) \in Nat
      /\ \A i \in 1..(Len(s) + Len(r)) :
           (s \o r)[i] = IF i <= Len(s) THEN s[i] ELSE r[i - Len(s)]
  BY ConcatProperties, LenProperties
<1> QED BY <1>1

\* The steps of "q" on "o" with operations in "ops", of which there are at
\* most three.
HitAt(q, i, o, ops) ==
    IF i \in 1..Len(q) /\ q[i].obj = o /\ q[i].op \in ops THEN 1 ELSE 0
Count(q, o, ops) == HitAt(q, 1, o, ops) + HitAt(q, 2, o, ops) + HitAt(q, 3, o, ops)
Hit(s, o, ops) == IF s.obj = o /\ s.op \in ops THEN 1 ELSE 0

\* Counting steps one by one.
LEMMA CountSteps ==
    ASSUME NEW o, NEW ops
    PROVE  /\ \A q : Count(q, o, ops) \in Nat
           /\ \A s : Hit(s, o, ops) \in Nat
           /\ Count(<<>>, o, ops) = 0
           /\ \A a : Count(<<a>>, o, ops) = Hit(a, o, ops)
           /\ \A a, b : Count(<<a, b>>, o, ops) = Hit(a, o, ops) + Hit(b, o, ops)
           /\ \A a, b, c : Count(<<a, b, c>>, o, ops)
                             = Hit(a, o, ops) + Hit(b, o, ops) + Hit(c, o, ops)
<1>1. \A q : Count(q, o, ops) \in Nat
  BY DEF Count, HitAt
<1>2. \A s : Hit(s, o, ops) \in Nat
  BY DEF Hit
<1>3. Count(<<>>, o, ops) = 0
  BY DEF Count, HitAt
<1>4. ASSUME NEW a PROVE Count(<<a>>, o, ops) = Hit(a, o, ops)
  BY DEF Count, HitAt, Hit
<1>5. ASSUME NEW a, NEW b PROVE Count(<<a, b>>, o, ops) = Hit(a, o, ops) + Hit(b, o, ops)
  BY DEF Count, HitAt, Hit
<1>6. ASSUME NEW a, NEW b, NEW c
      PROVE  Count(<<a, b, c>>, o, ops) = Hit(a, o, ops) + Hit(b, o, ops) + Hit(c, o, ops)
  BY DEF Count, HitAt, Hit
<1> QED BY <1>1, <1>2, <1>3, <1>4, <1>5, <1>6

\* The first step and the others.
LEMMA CountTail ==
    ASSUME NEW q \in Seq(Steps), q # <<>>, Len(q) <= 3, NEW o, NEW ops
    PROVE  Count(q, o, ops) = Hit(q[1], o, ops) + Count(Tail(q), o, ops)
<1> DEFINE r == Tail(q)
<1>1. /\ Len(r) = Len(q) - 1
      /\ \A i \in 1..Len(r) : r[i] = q[i + 1]
  BY TailOfList
<1> HIDE DEF r
<1>2. /\ HitAt(q, 1, o, ops) = Hit(q[1], o, ops)
      /\ HitAt(q, 2, o, ops) = HitAt(r, 1, o, ops)
      /\ HitAt(q, 3, o, ops) = HitAt(r, 2, o, ops)
      /\ HitAt(r, 3, o, ops) = 0
  BY <1>1 DEF HitAt, Hit
<1> QED BY <1>2, CountSteps DEF Count, HitAt, r

\* The steps in front and the others.
LEMMA CountJoin ==
    ASSUME NEW s \in Seq(Steps), NEW r \in Seq(Steps), Len(s) + Len(r) <= 3, NEW o, NEW ops
    PROVE  Count(s \o r, o, ops) = Count(s, o, ops) + Count(r, o, ops)
<1> DEFINE q == s \o r
<1>1. /\ Len(q) = Len(s) + Len(r) /\ Len(s) \in Nat /\ Len(r) \in Nat
      /\ \A i \in 1..Len(s) : q[i] = s[i]
      /\ \A i \in 1..Len(r) : q[Len(s) + i] = r[i]
  BY StepsInFront
<1> HIDE DEF q
<1>2. CASE Len(s) = 0
  <2>1. \A i \in 1..Len(r) : q[i] = r[i]
    BY <1>1, <1>2
  <2> QED BY <1>1, <1>2, <2>1 DEF Count, HitAt, q
<1>3. CASE Len(s) = 1
  <2>1. \A i \in 1..Len(r) : q[1 + i] = r[i]
    BY <1>1, <1>3
  <2>2. /\ HitAt(q, 1, o, ops) = HitAt(s, 1, o, ops)
        /\ HitAt(q, 2, o, ops) = HitAt(r, 1, o, ops)
        /\ HitAt(q, 3, o, ops) = HitAt(r, 2, o, ops)
        /\ HitAt(s, 2, o, ops) = 0 /\ HitAt(s, 3, o, ops) = 0 /\ HitAt(r, 3, o, ops) = 0
    BY <1>1, <1>3, <2>1 DEF HitAt
  <2> QED BY <2>2 DEF Count, HitAt, q
<1>4. CASE Len(s) = 2
  <2>1. \A i \in 1..Len(r) : q[2 + i] = r[i]
    BY <1>1, <1>4
  <2>2. /\ HitAt(q, 1, o, ops) = HitAt(s, 1, o, ops)
        /\ HitAt(q, 2, o, ops) = HitAt(s, 2, o, ops)
        /\ HitAt(q, 3, o, ops) = HitAt(r, 1, o, ops)
        /\ HitAt(s, 3, o, ops) = 0 /\ HitAt(r, 2, o, ops) = 0 /\ HitAt(r, 3, o, ops) = 0
    BY <1>1, <1>4, <2>1 DEF HitAt
  <2> QED BY <2>2 DEF Count, HitAt, q
<1>5. CASE Len(s) = 3
  BY <1>1, <1>5 DEF Count, HitAt, q
<1>6. Len(s) \in 0..3
  <2>1. Len(s) \in Nat /\ Len(r) \in Nat
    BY <1>1
  <2>2. \A a, b \in Nat : a + b <= 3 => a \in 0..3
    OBVIOUS
  <2> QED BY <2>1, <2>2
<1> QED BY <1>2, <1>3, <1>4, <1>5, <1>6

\* Counting two sets that have nothing in common.
LEMMA DisjointUnion ==
    ASSUME NEW A, NEW B, IsFiniteSet(A), IsFiniteSet(B), A \intersect B = {}
    PROVE  /\ IsFiniteSet(A \union B)
           /\ Cardinality(A \union B) = Cardinality(A) + Cardinality(B)
<1>1. /\ IsFiniteSet(A \union B)
      /\ Cardinality(A \union B) = Cardinality(A) + Cardinality(B) - Cardinality(A \intersect B)
  BY FS_Union
<1>2. Cardinality(A \intersect B) = 0 /\ Cardinality(A) \in Nat /\ Cardinality(B) \in Nat
  BY FS_EmptySet, FS_CardinalityType
<1> QED BY <1>1, <1>2

\* Counting three.
LEMMA DisjointThree ==
    ASSUME NEW A, NEW B, NEW C, IsFiniteSet(A), IsFiniteSet(B), IsFiniteSet(C),
           A \intersect B = {}, A \intersect C = {}, B \intersect C = {}
    PROVE  /\ IsFiniteSet(A \union (B \union C))
           /\ Cardinality(A \union (B \union C))
                = Cardinality(A) + Cardinality(B) + Cardinality(C)
<1>1. /\ IsFiniteSet(B \union C)
      /\ Cardinality(B \union C) = Cardinality(B) + Cardinality(C)
  BY DisjointUnion
<1>2. /\ IsFiniteSet(A \union (B \union C))
      /\ Cardinality(A \union (B \union C)) = Cardinality(A) + Cardinality(B \union C)
  <2>1. A \intersect (B \union C) = {}
    OBVIOUS
  <2> QED BY <1>1, <2>1, DisjointUnion
<1>3. Cardinality(A) \in Nat /\ Cardinality(B) \in Nat /\ Cardinality(C) \in Nat
  BY FS_CardinalityType
<1> QED BY <1>1, <1>2, <1>3

\* A thread's steps, as entries of "Pending", are as many as "Count" says.
LEMMA CountPlaces ==
    ASSUME NEW t, NEW h \in [1..3 -> 0..1]
    PROVE  /\ IsFiniteSet({s \in {t} \X (1..3) : h[s[2]] = 1})
           /\ Cardinality({s \in {t} \X (1..3) : h[s[2]] = 1}) = h[1] + h[2] + h[3]
<1> DEFINE Place(i) == IF h[i] = 1 THEN {<<t, i>>} ELSE {}
<1>1. {s \in {t} \X (1..3) : h[s[2]] = 1} = Place(1) \union (Place(2) \union Place(3))
  OBVIOUS
<1>2. ASSUME NEW i \in 1..3 PROVE IsFiniteSet(Place(i)) /\ Cardinality(Place(i)) = h[i]
  <2>1. CASE h[i] = 1
    BY <2>1, FS_Singleton
  <2>2. CASE h[i] = 0
    BY <2>2, FS_EmptySet
  <2> QED BY <2>1, <2>2
<1>3. /\ Place(1) \intersect Place(2) = {} /\ Place(1) \intersect Place(3) = {}
      /\ Place(2) \intersect Place(3) = {}
  OBVIOUS
<1> HIDE DEF Place
<1>4. /\ IsFiniteSet(Place(1)) /\ IsFiniteSet(Place(2)) /\ IsFiniteSet(Place(3))
      /\ Cardinality(Place(1)) = h[1] /\ Cardinality(Place(2)) = h[2]
      /\ Cardinality(Place(3)) = h[3]
  BY <1>2
<1>5. /\ IsFiniteSet(Place(1) \union (Place(2) \union Place(3)))
      /\ Cardinality(Place(1) \union (Place(2) \union Place(3)))
           = Cardinality(Place(1)) + Cardinality(Place(2)) + Cardinality(Place(3))
  BY <1>3, <1>4, DisjointThree
<1> QED BY <1>1, <1>4, <1>5

\* "Pending" of any assignment of steps to threads.
PendingIn(f, o, ops) ==
    {s \in Threads \X (1..5) :
        /\ s[2] \in DOMAIN f[s[1]]
        /\ f[s[1]][s[2]].obj = o
        /\ f[s[1]][s[2]].op \in ops}

\* One thread's steps change.
LEMMA PendingMoves ==
    ASSUME NEW f \in [Threads -> Plans], NEW g \in [Threads -> Plans],
           NEW t \in Threads, NEW o, NEW ops,
           \A u \in Threads \ {t} : g[u] = f[u],
           IsFiniteSet(PendingIn(f, o, ops))
    PROVE  /\ IsFiniteSet(PendingIn(g, o, ops))
           /\ Cardinality(PendingIn(f, o, ops)) \in Nat
           /\ Cardinality(PendingIn(g, o, ops)) \in Nat
           /\ Cardinality(PendingIn(g, o, ops)) + Count(f[t], o, ops)
                = Cardinality(PendingIn(f, o, ops)) + Count(g[t], o, ops)
<1> DEFINE Here(p) == {s \in {t} \X (1..3) : HitAt(p, s[2], o, ops) = 1}
           Others == {s \in PendingIn(f, o, ops) : s[1] # t}
<1>1. ASSUME NEW p \in Plans, NEW e \in [Threads -> Plans], e[t] = p,
             \A u \in Threads \ {t} : e[u] = f[u]
      PROVE  PendingIn(e, o, ops) = Others \union Here(p)
  <2>1. DOMAIN p = 1..Len(p) /\ \A i \in 1..Len(p) : i \in 1..3
    BY PlansAre
  <2>2. ASSUME NEW s \in Threads \X (1..5), s[1] = t
        PROVE  s \in PendingIn(e, o, ops) <=> s \in Here(p)
    BY <1>1, <2>1, <2>2 DEF PendingIn, HitAt
  <2>3. ASSUME NEW s \in Threads \X (1..5), s[1] # t
        PROVE  s \in PendingIn(e, o, ops) <=> s \in Others
    BY <1>1, <2>3 DEF PendingIn
  <2> QED BY <2>2, <2>3 DEF PendingIn
<1>2. IsFiniteSet(Others)
  BY FS_Subset
<1>3. ASSUME NEW p
      PROVE  /\ IsFiniteSet(Here(p)) /\ Cardinality(Here(p)) = Count(p, o, ops)
             /\ Others \intersect Here(p) = {}
  <2> DEFINE h == [i \in 1..3 |-> HitAt(p, i, o, ops)]
  <2>1. h \in [1..3 -> 0..1]
    BY DEF HitAt
  <2>2. Here(p) = {s \in {t} \X (1..3) : h[s[2]] = 1}
    OBVIOUS
  <2>3. IsFiniteSet(Here(p)) /\ Cardinality(Here(p)) = h[1] + h[2] + h[3]
    BY <2>1, <2>2, CountPlaces
  <2>4. h[1] + h[2] + h[3] = Count(p, o, ops)
    BY DEF Count
  <2>6. Others \intersect Here(p) = {}
    <3>1. /\ \A s \in Others : s[1] # t
          /\ \A s \in Here(p) : s[1] = t
      OBVIOUS
    <3> QED BY <3>1
  <2> QED BY <2>3, <2>4, <2>6
<1>4. f[t] \in Plans /\ g[t] \in Plans
  OBVIOUS
<1>5. PendingIn(f, o, ops) = Others \union Here(f[t])
  BY <1>1, <1>4
<1>6. PendingIn(g, o, ops) = Others \union Here(g[t])
  BY <1>1, <1>4
<1> HIDE DEF Here, Others
<1>7. ASSUME NEW p
      PROVE  /\ IsFiniteSet(Others \union Here(p))
             /\ Cardinality(Others \union Here(p)) = Cardinality(Others) + Count(p, o, ops)
  BY <1>2, <1>3, DisjointUnion
<1>8. /\ Cardinality(Others) \in Nat /\ Count(f[t], o, ops) \in Nat /\ Count(g[t], o, ops) \in Nat
  BY <1>2, FS_CardinalityType, CountSteps
<1>9. /\ IsFiniteSet(PendingIn(g, o, ops))
      /\ Cardinality(PendingIn(f, o, ops)) = Cardinality(Others) + Count(f[t], o, ops)
      /\ Cardinality(PendingIn(g, o, ops)) = Cardinality(Others) + Count(g[t], o, ops)
  BY <1>5, <1>6, <1>7
<1>10. /\ IsFiniteSet(PendingIn(g, o, ops))
       /\ Cardinality(PendingIn(f, o, ops)) \in Nat
       /\ Cardinality(PendingIn(g, o, ops)) \in Nat
       /\ Cardinality(PendingIn(g, o, ops)) + Count(f[t], o, ops)
            = Cardinality(PendingIn(f, o, ops)) + Count(g[t], o, ops)
  BY <1>8, <1>9
<1> QED BY <1>10

-----------------------------------------------------------------------------
(* What the invariant says of an object.                                    *)

\* What is counted is finite.
LEMMA Numbers ==
    ASSUME ObInv, NEW x \in AllObjects
    PROVE  /\ objects[x] \in Headers /\ objects[x].pointers \in Nat /\ objects[x].handles \in Nat
           /\ IsFiniteSet(HandlesTo(x)) /\ Cardinality(HandlesTo(x)) \in Nat
           /\ IsFiniteSet(Pending(x, Owning)) /\ Cardinality(Pending(x, Owning)) \in Nat
           /\ IsFiniteSet(Pending(x, {"free"})) /\ Cardinality(Pending(x, {"free"})) \in Nat
           /\ IsFiniteSet(Holders(x)) /\ Cardinality(Holders(x)) \in Nat
           /\ IsFiniteSet(LinkedOnes) /\ Cardinality(LinkedOnes) \in Nat
<1>1. objects[x] \in Headers /\ objects[x].pointers \in Nat /\ objects[x].handles \in Nat
  BY DEF ObInv, ObTypes, Headers
<1>2. IsFiniteSet(HandlesTo(x))
  <2>1. IsFiniteSet(1..Entries) /\ HandlesTo(x) \subseteq 1..Entries
    BY FS_Interval, ObjectAssumption DEF HandlesTo, Handles
  <2> QED BY <2>1, FS_Subset
<1>3. /\ IsFiniteSet(Pending(x, Owning)) /\ IsFiniteSet(Pending(x, {"free"}))
      /\ IsFiniteSet(Holders(x)) /\ IsFiniteSet(LinkedOnes)
  BY DEF ObInv, PointersRight
<1> QED BY <1>1, <1>2, <1>3, FS_CardinalityType

\* The counter of pointers, in terms of those.
LEMMA PointersAre ==
    ASSUME ObInv, NEW x \in AllObjects
    PROVE  objects[x].pointers =
               Cardinality(HandlesTo(x)) + Cardinality(Pending(x, Owning))
               + Cardinality(Holders(x)) + (IF objects[x].linked THEN 1 ELSE 0)
               + (IF x = Directory THEN 1 + Cardinality(LinkedOnes) ELSE 0)
BY DEF ObInv, PointersRight, PointerCountExact, Holders, LinkedOnes

\* The operations' lists.
LEMMA Lists ==
    ASSUME ObInv, NEW t \in Threads
    PROVE  /\ todo \in [Threads -> Plans] /\ todo[t] \in Plans
           /\ todo[t] \in Seq(Steps) /\ Plan(todo[t]) /\ Len(todo[t]) \in Nat /\ Len(todo[t]) <= 3
           /\ todo[t] = <<>> <=> Len(todo[t]) = 0
           /\ \A i \in 1..Len(todo[t]) : todo[t][i] \in Steps
<1>1. todo \in [Threads -> Plans] /\ todo[t] \in Plans
  BY DEF ObInv, ObTypes
<1> QED BY <1>1, PlansAre

\* The steps under way on an object, when a thread's list becomes "q".
LEMMA PendingThen ==
    ASSUME ObInv, NEW t \in Threads, NEW q \in Plans,
           todo' = [todo EXCEPT ![t] = q], NEW x \in AllObjects,
           NEW ops \in {Owning, {"free"}}
    PROVE  /\ IsFiniteSet(Pending(x, ops)') /\ Cardinality(Pending(x, ops)') \in Nat
           /\ Cardinality(Pending(x, ops)')
                = Cardinality(Pending(x, ops)) - Count(todo[t], x, ops) + Count(q, x, ops)
<1>1. todo \in [Threads -> Plans]
  BY Lists
<1>2. /\ todo' \in [Threads -> Plans] /\ todo'[t] = q
      /\ \A u \in Threads \ {t} : todo'[u] = todo[u]
  BY <1>1
<1>3. /\ Pending(x, ops) = PendingIn(todo, x, ops)
      /\ Pending(x, ops)' = PendingIn(todo', x, ops)
  BY DEF Pending, PendingIn
<1>4. IsFiniteSet(PendingIn(todo, x, ops))
  BY <1>3, Numbers
<1>5. /\ IsFiniteSet(PendingIn(todo', x, ops))
      /\ Cardinality(PendingIn(todo, x, ops)) \in Nat
      /\ Cardinality(PendingIn(todo', x, ops)) \in Nat
      /\ Cardinality(PendingIn(todo', x, ops)) + Count(todo[t], x, ops)
           = Cardinality(PendingIn(todo, x, ops)) + Count(todo'[t], x, ops)
  <2>1. \A f, g \in [Threads -> Plans] :
            IsFiniteSet(PendingIn(f, x, ops)) /\ (\A u \in Threads \ {t} : g[u] = f[u])
            => /\ IsFiniteSet(PendingIn(g, x, ops))
               /\ Cardinality(PendingIn(f, x, ops)) \in Nat
               /\ Cardinality(PendingIn(g, x, ops)) \in Nat
               /\ Cardinality(PendingIn(g, x, ops)) + Count(f[t], x, ops)
                    = Cardinality(PendingIn(f, x, ops)) + Count(g[t], x, ops)
    BY PendingMoves
  <2> QED BY <1>1, <1>2, <1>4, <2>1
<1>6. Count(todo[t], x, ops) \in Nat /\ Count(q, x, ops) \in Nat
  BY CountSteps
<1> QED BY <1>2, <1>3, <1>5, <1>6

\* Steps of a list are under way.
LEMMA PendingHas ==
    ASSUME ObInv, NEW t \in Threads, NEW i \in 1..Len(todo[t]), NEW ops
    PROVE  todo[t][i].op \in ops => <<t, i>> \in Pending(todo[t][i].obj, ops)
<1>1. todo[t] \in Plans
  BY Lists
<1>2. i \in DOMAIN todo[t] /\ i \in 1..5
  BY <1>1, PlansAre
<1> QED BY <1>2 DEF Pending

\* What has a pointer is alive, and nobody deletes it.
LEMMA Kept ==
    ASSUME ObInv, NEW x \in AllObjects,
           \/ x = Directory \/ objects[x].linked
           \/ \E h \in Handles : table[h] = x
           \/ \E t \in Threads : x \in held[t]
           \/ \E t \in Threads : \E i \in 1..Len(todo[t]) :
                todo[t][i].obj = x /\ todo[t][i].op \in Owning
    PROVE  /\ objects[x].pointers > 0 /\ objects[x].state = "live"
           /\ Pending(x, {"free"}) = {}
<1>1. HandlesTo(x) # {} => Cardinality(HandlesTo(x)) > 0
  BY Numbers, FS_EmptySet
<1>2. Pending(x, Owning) # {} => Cardinality(Pending(x, Owning)) > 0
  BY Numbers, FS_EmptySet
<1>3. Holders(x) # {} => Cardinality(Holders(x)) > 0
  BY Numbers, FS_EmptySet
<1>4. objects[x].pointers > 0
  <2>0. /\ objects[x].pointers \in Nat
        /\ Cardinality(HandlesTo(x)) \in Nat /\ Cardinality(Pending(x, Owning)) \in Nat
        /\ Cardinality(Holders(x)) \in Nat /\ Cardinality(LinkedOnes) \in Nat
        /\ objects[x].pointers =
               Cardinality(HandlesTo(x)) + Cardinality(Pending(x, Owning))
               + Cardinality(Holders(x)) + (IF objects[x].linked THEN 1 ELSE 0)
               + (IF x = Directory THEN 1 + Cardinality(LinkedOnes) ELSE 0)
    BY Numbers, PointersAre
  <2>1. CASE x = Directory
    BY <2>0, <2>1
  <2>2. CASE objects[x].linked
    BY <2>0, <2>2
  <2>3. CASE \E h \in Handles : table[h] = x
    <3>1. HandlesTo(x) # {}
      BY <2>3 DEF HandlesTo
    <3> QED BY <3>1, <1>1, <2>0
  <2>4. CASE \E t \in Threads : x \in held[t]
    <3>1. Holders(x) # {}
      BY <2>4 DEF Holders
    <3> QED BY <3>1, <1>3, <2>0
  <2>5. CASE \E t \in Threads : \E i \in 1..Len(todo[t]) :
               todo[t][i].obj = x /\ todo[t][i].op \in Owning
    <3>1. Pending(x, Owning) # {}
      BY <2>5, PendingHas
    <3> QED BY <3>1, <1>2, <2>0
  <2> QED BY <2>1, <2>2, <2>3, <2>4, <2>5
<1>5. /\ objects[x].state # "freed" /\ objects[x].state # "unborn"
      /\ Cardinality(Pending(x, {"free"})) = 0
  BY <1>4 DEF ObInv, LivesRight, DeletedOnce
<1>6. objects[x].state \in {"unborn", "live", "freed"}
  BY Numbers DEF Headers
<1>7. Pending(x, {"free"}) = {}
  BY <1>5, Numbers, FS_EmptySet
<1> QED BY <1>4, <1>5, <1>6, <1>7

\* Whoever is about to delete an object is the only one.
LEMMA Doomed ==
    ASSUME ObInv, NEW t \in Threads, NEW i \in 1..Len(todo[t]), todo[t][i].op = "free"
    PROVE  objects[todo[t][i].obj].state = "live" /\ objects[todo[t][i].obj].pointers = 0
<1> DEFINE x == todo[t][i].obj
<1>1. x \in AllObjects
  BY Lists, StepIs
<1>2. Pending(x, {"free"}) # {}
  BY PendingHas
<1>3. Cardinality(Pending(x, {"free"})) # 0
  BY <1>1, <1>2, Numbers, FS_EmptySet
<1> QED BY <1>1, <1>3 DEF ObInv, LivesRight, DeletedOnce

\* A step is on an object that has been created and still is there.
LEMMA StepsOnLive ==
    ASSUME ObInv, NEW t \in Threads, NEW i \in 1..Len(todo[t])
    PROVE  /\ todo[t][i].obj \in AllObjects /\ objects[todo[t][i].obj].state = "live"
           /\ todo[t][i].op # "free" => objects[todo[t][i].obj].pointers > 0
<1> DEFINE x == todo[t][i].obj
<1>1. /\ x \in AllObjects
      /\ todo[t][i].op \in {"insert", "close", "parse", "handle", "created", "closed", "deref", "free"}
  BY Lists, StepIs
<1>2. CASE todo[t][i].op \in Owning
  BY <1>1, <1>2, Kept
<1>3. CASE todo[t][i].op = "free"
  <2>1. objects[x].state = "live" /\ objects[x].pointers = 0
    BY <1>3, Doomed
  <2> QED BY <1>1, <1>3, <2>1
<1>4. CASE todo[t][i].op \in {"close", "closed"}
  <2>1. \E j \in 1..Len(todo[t]) : todo[t][j].obj = x /\ todo[t][j].op = "deref"
    BY <1>4, Lists DEF Plan
  <2> QED BY <1>1, <1>4, <2>1, Kept DEF Owning
<1> QED BY <1>1, <1>2, <1>3, <1>4 DEF Owning

\* Nothing refers to an object that has not been created.
LEMMA Unborn ==
    ASSUME ObInv, NEW x \in Objects, objects[x].state = "unborn"
    PROVE  /\ objects[x].pointers = 0 /\ objects[x].handles = 0 /\ ~objects[x].linked
           /\ ~objects[x].device
           /\ \A h \in Handles : table[h] # x
           /\ \A t \in Threads : x \notin held[t]
           /\ \A t \in Threads : \A i \in 1..Len(todo[t]) : todo[t][i].obj # x
<1>0. x \in AllObjects
  BY DEF AllObjects
<1>1. /\ ~objects[x].linked
      /\ \A h \in Handles : table[h] # x
      /\ \A t \in Threads : x \notin held[t]
  BY <1>0, Kept
<1>2. \A t \in Threads : \A i \in 1..Len(todo[t]) : todo[t][i].obj # x
  BY <1>0, StepsOnLive
<1>3. objects[x].pointers = 0 /\ ~objects[x].device
  BY <1>0 DEF ObInv, LivesRight
<1>4. objects[x].handles = 0
  <2>1. HandlesTo(x) = {}
    BY <1>1 DEF HandlesTo
  <2> QED BY <2>1, FS_EmptySet DEF ObInv, HandleCountsExact
<1> QED BY <1>1, <1>2, <1>3, <1>4

\* An object that is going to get its name is known to its creator only.
LEMMA Sole ==
    ASSUME ObInv, NEW u \in Threads, NEW x \in Objects, NamedInsert(u, x)
    PROVE  /\ objects[x].pointers = 1 /\ objects[x].state = "live" /\ ~objects[x].linked
           /\ \A h \in Handles : table[h] # x
           /\ \A t \in Threads : x \notin held[t]
           /\ \A t \in Threads \ {u} : \A i \in 1..Len(todo[t]) : todo[t][i].obj # x
<1>0. x \in AllObjects /\ x # Directory
  BY ObjectAssumption DEF AllObjects
<1>1. objects[x].pointers = 1 /\ ~objects[x].linked
  BY DEF ObInv, InsertsRight
<1>2. 1 \in 1..Len(todo[u]) /\ todo[u][1].obj = x /\ todo[u][1].op \in Owning
  BY Lists DEF NamedInsert, Owning
<1>3. objects[x].state = "live"
  BY <1>2, StepsOnLive
<1>4. <<u, 1>> \in Pending(x, Owning)
  BY <1>2, PendingHas
<1>5. /\ Cardinality(HandlesTo(x)) = 0 /\ Cardinality(Holders(x)) = 0
      /\ Cardinality(Pending(x, Owning)) = 1
  <2>1. Cardinality(Pending(x, Owning)) # 0
    BY <1>0, <1>4, Numbers, FS_EmptySet
  <2> QED BY <2>1, <1>0, <1>1, Numbers, PointersAre
<1>6. HandlesTo(x) = {} /\ Holders(x) = {}
  BY <1>0, <1>5, Numbers, FS_EmptySet
<1>7. Pending(x, Owning) = {<<u, 1>>}
  <2>1. \E e : Pending(x, Owning) = {e}
    BY <1>0, <1>5, Numbers, FS_Singleton
  <2> QED BY <2>1, <1>4
<1>8. ASSUME NEW t \in Threads \ {u}, NEW i \in 1..Len(todo[t]), todo[t][i].obj = x
      PROVE  FALSE
  <2>1. ASSUME NEW j \in 1..Len(todo[t]), todo[t][j].obj = x, todo[t][j].op \in Owning
        PROVE  FALSE
    <3>1. <<t, j>> \in Pending(x, Owning)
      BY <2>1, PendingHas
    <3>2. <<t, j>> = <<u, 1>>
      BY <3>1, <1>7
    <3> QED BY <3>2
  <2>2. todo[t][i].op # "free"
    BY <1>1, <1>8, Doomed
  <2>3. todo[t][i].op \in {"close", "closed"}
    BY <1>8, <2>1, <2>2, Lists, StepIs DEF Owning
  <2>4. \E j \in 1..Len(todo[t]) : todo[t][j].obj = x /\ todo[t][j].op = "deref"
    <3>1. Plan(todo[t])
      BY Lists
    <3> QED BY <3>1, <1>8, <2>3 DEF Plan
  <2> QED BY <2>1, <2>4 DEF Owning
<1> QED BY <1>1, <1>3, <1>6, <1>8 DEF HandlesTo, Holders

-----------------------------------------------------------------------------
(* What a step has to leave, part by part.                                  *)

\* A thread's list becomes "q".
LEMMA ListsThen ==
    ASSUME ObInv, NEW t \in Threads, NEW q \in Plans, todo' = [todo EXCEPT ![t] = q]
    PROVE  /\ todo' \in [Threads -> Plans] /\ todo'[t] = q
           /\ \A u \in Threads \ {t} : todo'[u] = todo[u]
BY Lists

\* Steps that own a reference, and steps that do not.
LEMMA HitIs ==
    ASSUME NEW s, NEW x
    PROVE  /\ s.op \in Owning => /\ Hit(s, x, Owning) = IF s.obj = x THEN 1 ELSE 0
                                 /\ Hit(s, x, {"free"}) = 0
           /\ s.op = "free" => /\ Hit(s, x, Owning) = 0
                               /\ Hit(s, x, {"free"}) = IF s.obj = x THEN 1 ELSE 0
           /\ s.op \in {"close", "closed"} => Hit(s, x, Owning) = 0 /\ Hit(s, x, {"free"}) = 0
BY DEF Hit, Owning

\* An operation begins.
LEMMA CountIdle ==
    ASSUME NEW t \in Threads, Idle(t), NEW x, NEW ops
    PROVE  Count(todo[t], x, ops) = 0
BY CountSteps DEF Idle

\* A step is done, and steps are put in its place.
LEMMA CountThen ==
    ASSUME ObInv, NEW t \in Threads, todo[t] # <<>>, NEW s \in Seq(Steps),
           s \o Tail(todo[t]) \in Plans
    PROVE  \A x, ops :
             /\ Count(todo[t], x, ops) = Hit(todo[t][1], x, ops) + Count(Tail(todo[t]), x, ops)
             /\ Count(s \o Tail(todo[t]), x, ops) = Count(s, x, ops) + Count(Tail(todo[t]), x, ops)
<1> SUFFICES ASSUME NEW x, NEW ops
             PROVE  /\ Count(todo[t], x, ops) = Hit(todo[t][1], x, ops) + Count(Tail(todo[t]), x, ops)
                    /\ Count(s \o Tail(todo[t]), x, ops)
                         = Count(s, x, ops) + Count(Tail(todo[t]), x, ops)
  OBVIOUS
<1>1. todo[t] \in Plans /\ todo[t] \in Seq(Steps) /\ Len(todo[t]) <= 3
  BY Lists
<1>2. Tail(todo[t]) \in Seq(Steps)
  BY <1>1, PlanTail
<1>3. Len(s) + Len(Tail(todo[t])) <= 3
  <2>1. Len(s \o Tail(todo[t])) <= 3
    BY PlansAre
  <2>2. Len(s \o Tail(todo[t])) = Len(s) + Len(Tail(todo[t]))
    BY <1>2, StepsInFront
  <2> QED BY <2>1, <2>2
<1>4. Count(todo[t], x, ops) = Hit(todo[t][1], x, ops) + Count(Tail(todo[t]), x, ops)
  BY <1>1, CountTail
<1>5. Count(s \o Tail(todo[t]), x, ops) = Count(s, x, ops) + Count(Tail(todo[t]), x, ops)
  <2>1. \A a, r \in Seq(Steps) : Len(a) + Len(r) <= 3 =>
            Count(a \o r, x, ops) = Count(a, x, ops) + Count(r, x, ops)
    BY CountJoin
  <2> QED BY <1>2, <1>3, <2>1
<1> QED BY <1>4, <1>5

\* The first step of an operation under way.
LEMMA FirstStep ==
    ASSUME ObInv, NEW t \in Threads, NEW op, At(t, op)
    PROVE  /\ todo[t] # <<>> /\ Current(t) = todo[t][1] /\ todo[t][1].op = op
           /\ 1 \in 1..Len(todo[t]) /\ todo[t][1] \in Steps /\ todo[t] \in Plans
           /\ crashed = "no"
           /\ todo[t][1].obj \in AllObjects /\ objects[todo[t][1].obj].state = "live"
           /\ op # "free" => objects[todo[t][1].obj].pointers > 0
<1>1. todo[t] # <<>> /\ Head(todo[t]).op = op /\ crashed = "no" /\ todo[t] \in Plans
  BY Lists DEF At
<1>2. Head(todo[t]) = todo[t][1] /\ todo[t][1] \in Steps /\ 1 \in 1..Len(todo[t])
  BY <1>1, PlanTail
<1>3. /\ todo[t][1].obj \in AllObjects /\ objects[todo[t][1].obj].state = "live"
      /\ todo[t][1].op # "free" => objects[todo[t][1].obj].pointers > 0
  BY <1>2, StepsOnLive
<1> QED BY <1>1, <1>2, <1>3 DEF Current

\* The table is left alone.
LEMMA TableSame ==
    ASSUME ObInv, UNCHANGED tableVars,
           \A x \in Objects : objects'[x].handles = objects[x].handles
    PROVE  /\ FreeListRight' /\ HandleCountsExact'
           /\ \A x : HandlesTo(x)' = HandlesTo(x)
<1>1. table' = table /\ firstFree' = firstFree /\ handleCount' = handleCount
  BY DEF tableVars
<1>2. \A h : IsObject(h)' <=> IsObject(h)
  BY <1>1 DEF IsObject
<1>3. FreeListRight'
  <2>1. \A list : FreeListIs(list) => FreeListIs(list)'
    BY <1>1, <1>2 DEF FreeListIs
  <2> QED BY <2>1 DEF ObInv, FreeListRight
<1>4. \A x : HandlesTo(x)' = HandlesTo(x)
  BY <1>1 DEF HandlesTo
<1>5. {h \in Handles : IsObject(h)'} = {h \in Handles : IsObject(h)}
  BY <1>2
<1> QED BY <1>1, <1>3, <1>4, <1>5 DEF ObInv, HandleCountsExact

\* Each counter of pointers moves as what it counts.
LEMMA PointersThen ==
    ASSUME ObInv, NEW t \in Threads, NEW q \in Plans, todo' = [todo EXCEPT ![t] = q],
           \A x \in AllObjects :
               /\ IsFiniteSet(HandlesTo(x)') /\ IsFiniteSet(Holders(x)')
               /\ objects'[x].pointers \in Nat,
           IsFiniteSet(LinkedOnes'),
           \A x \in AllObjects :
               objects'[x].pointers + Count(todo[t], x, Owning)
               + Cardinality(HandlesTo(x)) + Cardinality(Holders(x))
               + (IF objects[x].linked THEN 1 ELSE 0)
               + (IF x = Directory THEN Cardinality(LinkedOnes) ELSE 0)
               = objects[x].pointers + Count(q, x, Owning)
               + Cardinality(HandlesTo(x)') + Cardinality(Holders(x)')
               + (IF objects'[x].linked THEN 1 ELSE 0)
               + (IF x = Directory THEN Cardinality(LinkedOnes') ELSE 0)
    PROVE  PointersRight'
<1>1. ASSUME NEW x \in AllObjects
      PROVE  /\ IsFiniteSet(Pending(x, Owning)') /\ IsFiniteSet(Pending(x, {"free"})')
             /\ Cardinality(Pending(x, Owning)') \in Nat
             /\ Cardinality(Pending(x, Owning)')
                  = Cardinality(Pending(x, Owning)) - Count(todo[t], x, Owning) + Count(q, x, Owning)
  BY PendingThen
<1>2. ASSUME NEW x \in AllObjects
      PROVE  objects'[x].pointers =
               Cardinality(HandlesTo(x)') + Cardinality(Pending(x, Owning)')
               + Cardinality(Holders(x)') + (IF objects'[x].linked THEN 1 ELSE 0)
               + (IF x = Directory THEN 1 + Cardinality(LinkedOnes') ELSE 0)
  <2>1. /\ Cardinality(HandlesTo(x)') \in Nat /\ Cardinality(Holders(x)') \in Nat
        /\ Cardinality(LinkedOnes') \in Nat /\ objects'[x].pointers \in Nat
    BY FS_CardinalityType
  <2>2. /\ objects[x].pointers \in Nat
        /\ Cardinality(HandlesTo(x)) \in Nat /\ Cardinality(Pending(x, Owning)) \in Nat
        /\ Cardinality(Holders(x)) \in Nat /\ Cardinality(LinkedOnes) \in Nat
    BY Numbers
  <2>3. Count(todo[t], x, Owning) \in Nat /\ Count(q, x, Owning) \in Nat
    BY CountSteps
  <2>4. objects[x].pointers =
               Cardinality(HandlesTo(x)) + Cardinality(Pending(x, Owning))
               + Cardinality(Holders(x)) + (IF objects[x].linked THEN 1 ELSE 0)
               + (IF x = Directory THEN 1 + Cardinality(LinkedOnes) ELSE 0)
    BY PointersAre
  <2> QED BY <1>1, <2>1, <2>2, <2>3, <2>4
<1>3. PointerCountExact'
  BY <1>2 DEF PointerCountExact, Holders, LinkedOnes
<1> QED BY <1>1, <1>3 DEF PointersRight

\* Neither handles nor references of callers nor links change.
LEMMA PointersPlain ==
    ASSUME ObInv, NEW t \in Threads, NEW q \in Plans, todo' = [todo EXCEPT ![t] = q],
           \A x \in AllObjects : HandlesTo(x)' = HandlesTo(x), held' = held,
           \A x \in AllObjects : objects'[x].linked = objects[x].linked,
           \A x \in AllObjects :
               /\ objects'[x].pointers \in Nat
               /\ objects'[x].pointers + Count(todo[t], x, Owning)
                    = objects[x].pointers + Count(q, x, Owning)
    PROVE  PointersRight'
<1>1. \A x \in AllObjects : Holders(x)' = Holders(x)
  BY DEF Holders
<1>2. LinkedOnes' = LinkedOnes
  BY DEF LinkedOnes, AllObjects
<1>3. ASSUME NEW x \in AllObjects
      PROVE  /\ IsFiniteSet(HandlesTo(x)') /\ IsFiniteSet(Holders(x)')
             /\ IsFiniteSet(LinkedOnes')
             /\ objects'[x].pointers + Count(todo[t], x, Owning)
               + Cardinality(HandlesTo(x)) + Cardinality(Holders(x))
               + (IF objects[x].linked THEN 1 ELSE 0)
               + (IF x = Directory THEN Cardinality(LinkedOnes) ELSE 0)
               = objects[x].pointers + Count(q, x, Owning)
               + Cardinality(HandlesTo(x)') + Cardinality(Holders(x)')
               + (IF objects'[x].linked THEN 1 ELSE 0)
               + (IF x = Directory THEN Cardinality(LinkedOnes') ELSE 0)
  BY <1>1, <1>2, Numbers, CountSteps
<1>4. Directory \in AllObjects
  BY DEF AllObjects
<1> QED BY <1>3, <1>4, PointersThen

\* Whoever takes the last pointer deletes the object.
LEMMA LivesThen ==
    ASSUME ObInv, NEW t \in Threads, NEW q \in Plans, todo' = [todo EXCEPT ![t] = q],
           \A x \in AllObjects :
               /\ objects'[x].state = "freed" => objects'[x].pointers = 0
               /\ objects'[x].state = "unborn" => objects'[x].pointers = 0 /\ ~objects'[x].device
               /\ (IF objects'[x].state = "live" /\ objects'[x].pointers = 0 THEN 1 ELSE 0)
                  + Count(todo[t], x, {"free"})
                  = (IF objects[x].state = "live" /\ objects[x].pointers = 0 THEN 1 ELSE 0)
                  + Count(q, x, {"free"})
    PROVE  LivesRight'
<1>1. ASSUME NEW x \in AllObjects
      PROVE  Cardinality(Pending(x, {"free"})') =
               IF objects'[x].state = "live" /\ objects'[x].pointers = 0 THEN 1 ELSE 0
  <2>1. /\ Cardinality(Pending(x, {"free"})') \in Nat
        /\ Cardinality(Pending(x, {"free"})')
             = Cardinality(Pending(x, {"free"})) - Count(todo[t], x, {"free"}) + Count(q, x, {"free"})
    BY PendingThen
  <2>2. Cardinality(Pending(x, {"free"})) =
               IF objects[x].state = "live" /\ objects[x].pointers = 0 THEN 1 ELSE 0
    BY DEF ObInv, LivesRight, DeletedOnce
  <2>3. Count(todo[t], x, {"free"}) \in Nat /\ Count(q, x, {"free"}) \in Nat
    BY CountSteps
  <2> QED BY <2>1, <2>2, <2>3
<1> QED BY <1>1 DEF LivesRight, DeletedOnce

\* No object gets a name.
LEMMA LinksThen ==
    ASSUME ObInv, ~objects'[Directory].linked,
           \A x \in Objects : objects'[x].linked =>
               /\ objects[x].linked
               /\ objects'[x].attached /\ objects'[x].name = objects[x].name
               /\ objects'[x].kind = objects[x].kind
               /\ objects'[x].permanent \/ objects'[x].handles > 0
    PROVE  LinksRight'
BY DEF ObInv, LinksRight

\* The objects of other threads' insertions are left alone.
LEMMA InsertsThen ==
    ASSUME ObInv, NEW t \in Threads, NEW q \in Plans, todo' = [todo EXCEPT ![t] = q],
           q # <<>> /\ q[1].op = "insert" /\ q[1].name # NoName =>
               /\ objects'[q[1].obj].name = q[1].name /\ objects'[q[1].obj].kind # "file"
               /\ objects'[q[1].obj].pointers = 1 /\ ~objects'[q[1].obj].linked,
           \A u \in Threads \ {t}, x \in Objects :
               NamedInsert(u, x) => objects'[x] = objects[x]
    PROVE  InsertsRight'
<1>1. todo'[t] = q /\ \A u \in Threads \ {t} : todo'[u] = todo[u]
  BY ListsThen
<1>2. ASSUME NEW u \in Threads \ {t}, NEW x \in Objects, NamedInsert(u, x)'
      PROVE  /\ NamedInsert(u, x)
             /\ objects'[x].name = todo'[u][1].name /\ objects'[x].kind # "file"
             /\ objects'[x].pointers = 1 /\ ~objects'[x].linked
  <2>1. NamedInsert(u, x)
    BY <1>1, <1>2 DEF NamedInsert
  <2>2. objects'[x] = objects[x]
    BY <2>1
  <2> QED BY <1>1, <2>1, <2>2 DEF ObInv, InsertsRight
<1>3. ASSUME NEW x \in Objects, NamedInsert(t, x)'
      PROVE  /\ objects'[x].name = todo'[t][1].name /\ objects'[x].kind # "file"
             /\ objects'[x].pointers = 1 /\ ~objects'[x].linked
  BY <1>1, <1>3 DEF NamedInsert
<1> QED BY <1>2, <1>3 DEF InsertsRight

\* What a thread does to a file: it has been cleaned up, or still has a handle,
\* or its close is under way.
FileMoves(t, q, o, H) ==
    /\ o \in Objects /\ H.device =>
         \/ /\ objects[o].device /\ H.kind = objects[o].kind
            /\ H.handleCreated => HadHandle(o) \/ H.cleaned
            /\ objects[o].cleaned => H.cleaned
            /\ objects[o].handles > 0 =>
                 \/ H.handles > 0 \/ H.cleaned
                 \/ q # <<>> /\ q[1].op = "close" /\ q[1].obj = o /\ q[1].handles = 1
            /\ H.state = "freed" => H.cleaned
         \/ /\ H.kind = "file" /\ ~H.handleCreated /\ H.state # "freed"
            /\ objects[o].state = "unborn"
    /\ q # <<>> /\ q[1].op = "created" => o = q[1].obj /\ H.handles > 0
    /\ todo[t] # <<>> /\ todo[t][1].op = "close" /\ todo[t][1].handles = 1 =>
           o = todo[t][1].obj /\ H.cleaned

\* Then files are right.
LEMMA FilesThen ==
    ASSUME ObInv, NEW t \in Threads, NEW q \in Plans, NEW o \in AllObjects, NEW H \in Headers,
           todo' = [todo EXCEPT ![t] = q], FileMoves(t, q, o, H),
           objects'[o] = H, \A x \in Objects \ {o} : objects'[x] = objects[x]
    PROVE  FilesRight'
<1>1. todo'[t] = q /\ \A u \in Threads \ {t} : todo'[u] = todo[u]
  BY ListsThen
<1>2. ASSUME NEW x \in Objects, x # o
      PROVE  (HadHandle(x)' => HadHandle(x)) /\ (Closing(x) => Closing(x)')
  <2>1. objects'[x] = objects[x]
    BY <1>2
  <2>2. ~(q # <<>> /\ q[1].op = "created" /\ q[1].obj = x)
    BY <1>2 DEF FileMoves
  <2>3. ~(todo[t] # <<>> /\ todo[t][1].op = "close" /\ todo[t][1].obj = x /\ todo[t][1].handles = 1)
    BY <1>2 DEF FileMoves
  <2>4. HadHandle(x)' => HadHandle(x)
    BY <1>1, <2>1, <2>2 DEF HadHandle
  <2>5. Closing(x) => Closing(x)'
    BY <1>1, <2>3 DEF Closing
  <2> QED BY <2>4, <2>5
<1>3. ASSUME NEW x \in Objects, x # o, objects'[x].device
      PROVE  /\ objects'[x].kind = "file"
             /\ HadHandle(x)' => objects'[x].cleaned \/ objects'[x].handles > 0 \/ Closing(x)'
             /\ objects'[x].state = "freed" => objects'[x].cleaned
  BY <1>2, <1>3 DEF ObInv, FilesRight
<1>4. ASSUME o \in Objects, H.device, objects[o].device, H.kind = objects[o].kind,
             H.handleCreated => HadHandle(o) \/ H.cleaned,
             objects[o].cleaned => H.cleaned,
             objects[o].handles > 0 =>
                 \/ H.handles > 0 \/ H.cleaned
                 \/ q # <<>> /\ q[1].op = "close" /\ q[1].obj = o /\ q[1].handles = 1,
             H.state = "freed" => H.cleaned
      PROVE  /\ H.kind = "file"
             /\ HadHandle(o)' => H.cleaned \/ H.handles > 0 \/ Closing(o)'
             /\ H.state = "freed" => H.cleaned
  <2>1. /\ objects[o].kind = "file"
        /\ HadHandle(o) => objects[o].cleaned \/ objects[o].handles > 0 \/ Closing(o)
    BY <1>4 DEF ObInv, FilesRight
  <2>2. HadHandle(o)' => HadHandle(o) \/ H.cleaned \/ H.handles > 0
    <3>1. q # <<>> /\ q[1].op = "created" => H.handles > 0
      BY DEF FileMoves
    <3> QED BY <1>1, <1>4, <3>1 DEF HadHandle
  <2>3. Closing(o) => Closing(o)' \/ H.cleaned
    <3>1. todo[t] # <<>> /\ todo[t][1].op = "close" /\ todo[t][1].handles = 1 => H.cleaned
      BY DEF FileMoves
    <3> QED BY <1>1, <3>1 DEF Closing
  <2>4. q # <<>> /\ q[1].op = "close" /\ q[1].obj = o /\ q[1].handles = 1 => Closing(o)'
    BY <1>1 DEF Closing
  <2> QED BY <1>4, <2>1, <2>2, <2>3, <2>4
<1>5. ASSUME o \in Objects, H.kind = "file", ~H.handleCreated, H.state # "freed",
             objects[o].state = "unborn"
      PROVE  HadHandle(o)' => H.handles > 0
  <2>1. \A u \in Threads : \A i \in 1..Len(todo[u]) : todo[u][i].obj # o
    BY <1>5, Unborn
  <2>2. \A u \in Threads : todo[u] # <<>> => 1 \in 1..Len(todo[u])
    <3> SUFFICES ASSUME NEW u \in Threads, todo[u] # <<>> PROVE 1 \in 1..Len(todo[u])
      OBVIOUS
    <3>1. Len(todo[u]) \in Nat /\ Len(todo[u]) # 0
      BY Lists
    <3> QED BY <3>1
  <2>3. q # <<>> /\ q[1].op = "created" => H.handles > 0
    BY DEF FileMoves
  <2> QED BY <1>1, <1>5, <2>1, <2>2, <2>3 DEF HadHandle
<1>6. o \in Objects /\ H.device =>
        /\ H.kind = "file"
        /\ HadHandle(o)' => H.cleaned \/ H.handles > 0 \/ Closing(o)'
        /\ H.state = "freed" => H.cleaned
  BY <1>4, <1>5 DEF FileMoves
<1> QED BY <1>3, <1>6 DEF FilesRight

\* Free entries are no objects.
LEMMA EntriesAre ==
    /\ \A e \in FreeEntries : e \notin AllObjects /\ e \notin Objects
    /\ \A n \in Handles \union {DecodedEnd} : FreeEntry(n, FALSE) \in FreeEntries
    /\ \A e \in FreeEntries : e.next \in Handles \union {DecodedEnd}
    /\ Directory \notin Objects /\ Directory \in AllObjects /\ Objects \subseteq AllObjects
    /\ DecodedEnd \notin Handles
<1>1. FreeEntries = [next : 1..Entries \union {-2}, encoded : BOOLEAN]
  BY DEF FreeEntries, Handles, DecodedEnd
<1>2. \A e \in FreeEntries : e \notin Objects \union {Directory}
  BY <1>1, ObjectAssumption
<1>3. \A n \in Handles \union {DecodedEnd} : FreeEntry(n, FALSE) \in FreeEntries
  BY DEF FreeEntry, FreeEntries
<1>4. \A e \in FreeEntries : e.next \in Handles \union {DecodedEnd}
  BY DEF FreeEntries
<1>5. Directory \notin Objects /\ Directory \in AllObjects /\ Objects \subseteq AllObjects
  BY ObjectAssumption DEF AllObjects
<1>6. DecodedEnd \notin Handles
  BY ObjectAssumption DEF DecodedEnd, Handles
<1> QED BY <1>2, <1>3, <1>4, <1>5, <1>6 DEF AllObjects

\* A free handle is taken, from the front of the list.
LEMMA TableTake ==
    ASSUME ObInv, NEW o \in Objects, firstFree # DecodedEnd, TakeHandle(o),
           \A x \in Objects :
               objects'[x].handles = IF x = o THEN objects[x].handles + 1 ELSE objects[x].handles
    PROVE  /\ table' \in [Handles -> Objects \union FreeEntries]
           /\ firstFree' \in Handles \union {DecodedEnd}
           /\ FreeListRight' /\ HandleCountsExact'
           /\ \A x \in AllObjects :
                /\ IsFiniteSet(HandlesTo(x)')
                /\ Cardinality(HandlesTo(x)')
                     = Cardinality(HandlesTo(x)) + (IF x = o THEN 1 ELSE 0)
<1> DEFINE h == firstFree
<1>1. PICK list \in Seq(Handles) : FreeListIs(list)
  BY DEF ObInv, FreeListRight
<1>2. /\ table \in [Handles -> Objects \union FreeEntries]
      /\ firstFree \in Handles \union {DecodedEnd}
  BY DEF ObInv, ObTypes
<1>3. list # <<>> /\ h = list[1] /\ h \in Handles
  BY <1>1, <1>2 DEF FreeListIs
<1>4. ~IsObject(h) /\ table[h] \in FreeEntries /\ table[h] \notin AllObjects
  <2>1. h \in Members(list)
    BY <1>3, HeadLeaves, <1>1 DEF FreeListIs
  <2>2. ~IsObject(h)
    BY <1>1, <2>1 DEF FreeListIs
  <2> QED BY <2>2, <1>2, <1>3, EntriesAre DEF IsObject
<1>5. /\ table' = [table EXCEPT ![h] = o] /\ firstFree' = table[h].next
      /\ handleCount' = handleCount + 1
  BY DEF TakeHandle
<1>6. /\ table' \in [Handles -> Objects \union FreeEntries] /\ table'[h] = o
      /\ \A g \in Handles \ {h} : table'[g] = table[g]
      /\ firstFree' \in Handles \union {DecodedEnd}
  BY <1>2, <1>3, <1>4, <1>5, EntriesAre
<1>7. \A g \in Handles : IsObject(g)' <=> IsObject(g) \/ g = h
  BY <1>6 DEF IsObject
<1>8. FreeListRight'
  <2> DEFINE rest == Tail(list)
  <2>1. /\ rest \in Seq(Handles) /\ Distinct(rest) /\ Members(rest) = Members(list) \ {list[1]}
    <3>1. Distinct(list) /\ Head(list) = list[1]
      BY <1>1, <1>3 DEF FreeListIs
    <3> QED BY <3>1, <1>3, TailLeaves
  <2>2. /\ Len(list) \in Nat \ {0} /\ Len(rest) = Len(list) - 1
        /\ \A i \in 1..Len(rest) : rest[i] = list[i + 1]
        /\ rest = <<>> <=> Len(list) = 1
    BY <1>3, TailOfList
  <2> HIDE DEF rest
  <2>3. Members(rest) = {g \in Handles : ~IsObject(g)'}
    BY <2>1, <1>1, <1>3, <1>7 DEF FreeListIs
  <2>4. firstFree' = IF rest = <<>> THEN DecodedEnd ELSE rest[1]
    <3>1. table[list[1]].next = IF 1 = Len(list) THEN DecodedEnd ELSE list[1 + 1]
      BY <1>1, <2>2 DEF FreeListIs
    <3> QED BY <3>1, <1>3, <1>5, <2>2
  <2>5. ASSUME NEW i \in 1..Len(rest)
        PROVE  table'[rest[i]].next = IF i = Len(rest) THEN DecodedEnd ELSE rest[i + 1]
    <3>1. /\ i + 1 \in 1..Len(list) /\ rest[i] = list[i + 1]
          /\ i # Len(rest) => rest[i + 1] = list[(i + 1) + 1]
          /\ i = Len(rest) <=> i + 1 = Len(list)
      BY <2>2
    <3>2. table[list[i + 1]].next = IF i + 1 = Len(list) THEN DecodedEnd ELSE list[(i + 1) + 1]
      BY <1>1, <3>1 DEF FreeListIs
    <3>3. rest[i] \in Handles \ {h}
      <4>1. rest[i] \in Members(rest) /\ Members(list) \subseteq Handles
        BY <1>1 DEF Members, FreeListIs
      <4> QED BY <4>1, <2>1, <1>3
    <3> QED BY <3>1, <3>2, <3>3, <1>6
  <2>6. FreeListIs(rest)'
    BY <2>1, <2>3, <2>4, <2>5 DEF FreeListIs
  <2> QED BY <2>1, <2>6 DEF FreeListRight
<1>9. ASSUME NEW x \in AllObjects
      PROVE  /\ IsFiniteSet(HandlesTo(x)')
             /\ Cardinality(HandlesTo(x)')
                  = Cardinality(HandlesTo(x)) + (IF x = o THEN 1 ELSE 0)
  <2>1. /\ IsFiniteSet(HandlesTo(x)) /\ Cardinality(HandlesTo(x)) \in Nat /\ h \notin HandlesTo(x)
    BY Numbers, <1>4 DEF HandlesTo
  <2>2. CASE x = o
    <3>1. HandlesTo(x)' = HandlesTo(x) \union {h}
      BY <1>3, <1>6, <2>2 DEF HandlesTo
    <3> QED BY <3>1, <2>1, <2>2, FS_AddElement
  <2>3. CASE x # o
    <3>1. HandlesTo(x)' = HandlesTo(x)
      BY <1>4, <1>6, <2>3 DEF HandlesTo
    <3> QED BY <3>1, <2>1, <2>3
  <2> QED BY <2>2, <2>3
<1>10. HandleCountsExact'
  <2>1. ASSUME NEW x \in Objects PROVE objects'[x].handles = Cardinality(HandlesTo(x)')
    <3>1. x \in AllObjects /\ objects[x].handles = Cardinality(HandlesTo(x))
      BY EntriesAre DEF ObInv, HandleCountsExact
    <3> QED BY <3>1, <1>9, Numbers
  <2>2. handleCount' = Cardinality({g \in Handles : IsObject(g)'})
    <3> DEFINE used == {g \in Handles : IsObject(g)}
    <3>1. IsFiniteSet(used) /\ Cardinality(used) = handleCount
      <4>1. IsFiniteSet(1..Entries) /\ used \subseteq 1..Entries
        BY FS_Interval, ObjectAssumption DEF Handles
      <4> QED BY <4>1, FS_Subset DEF ObInv, HandleCountsExact
    <3>2. {g \in Handles : IsObject(g)'} = used \union {h} /\ h \notin used
      BY <1>3, <1>4, <1>7
    <3> QED BY <3>1, <3>2, <1>5, FS_AddElement
  <2> QED BY <2>1, <2>2 DEF HandleCountsExact
<1> QED BY <1>6, <1>8, <1>9, <1>10

\* A handle is given back, to the front of the list.
LEMMA TableGive ==
    ASSUME ObInv, NEW h \in Handles, IsObject(h), GiveHandle(h),
           \A x \in Objects : objects'[x].handles =
               IF x = table[h] THEN objects[x].handles - 1 ELSE objects[x].handles
    PROVE  /\ table' \in [Handles -> Objects \union FreeEntries]
           /\ firstFree' \in Handles \union {DecodedEnd}
           /\ FreeListRight' /\ HandleCountsExact'
           /\ \A x \in AllObjects :
                /\ IsFiniteSet(HandlesTo(x)')
                /\ Cardinality(HandlesTo(x)')
                     = Cardinality(HandlesTo(x)) - (IF x = table[h] THEN 1 ELSE 0)
<1> DEFINE o == table[h]
           e == FreeEntry(firstFree, FALSE)
<1>1. PICK list \in Seq(Handles) : FreeListIs(list)
  BY DEF ObInv, FreeListRight
<1>2. /\ table \in [Handles -> Objects \union FreeEntries]
      /\ firstFree \in Handles \union {DecodedEnd} /\ o \in Objects
  BY DEF ObInv, ObTypes, IsObject
<1>3. e \in FreeEntries /\ e \notin AllObjects /\ e \notin Objects /\ e.next = firstFree
  BY <1>2, EntriesAre DEF FreeEntry
<1>4. /\ table' = [table EXCEPT ![h] = e] /\ firstFree' = h /\ handleCount' = handleCount - 1
  BY DEF GiveHandle
<1> HIDE DEF e
<1>5. /\ table' \in [Handles -> Objects \union FreeEntries] /\ table'[h] = e
      /\ \A g \in Handles \ {h} : table'[g] = table[g]
      /\ firstFree' \in Handles \union {DecodedEnd}
  BY <1>2, <1>3, <1>4
<1>6. \A g \in Handles : IsObject(g)' <=> IsObject(g) /\ g # h
  BY <1>3, <1>5 DEF IsObject
<1>7. FreeListRight'
  <2> DEFINE longer == <<h>> \o list
  <2>1. h \notin Members(list) /\ Distinct(list)
    BY <1>1 DEF FreeListIs
  <2>2. /\ longer \in Seq(Handles) /\ Distinct(longer) /\ Members(longer) = Members(list) \union {h}
    BY <2>1, PrependMember
  <2>3. /\ Len(list) \in Nat /\ Len(longer) = Len(list) + 1 /\ longer[1] = h
        /\ \A i \in 1..Len(list) : longer[i + 1] = list[i]
        /\ list = <<>> <=> Len(list) = 0
    <3>1. /\ <<h>> \in Seq(Handles) /\ Len(<<h>>) = 1 /\ <<h>>[1] = h /\ Len(list) \in Nat
          /\ list = <<>> <=> Len(list) = 0
      BY EmptySeq
    <3>2. /\ Len(longer) = Len(<<h>>) + Len(list)
          /\ \A i \in 1..(Len(<<h>>) + Len(list)) :
               longer[i] = IF i <= Len(<<h>>) THEN <<h>>[i] ELSE list[i - Len(<<h>>)]
      BY <3>1, ConcatProperties
    <3> HIDE DEF longer
    <3>3. \A i \in 1..Len(list) : i + 1 \in 1..(1 + Len(list)) /\ ~(i + 1 <= 1) /\ (i + 1) - 1 = i
      BY <3>1
    <3> QED BY <3>1, <3>2, <3>3
  <2> HIDE DEF longer
  <2>4. Members(longer) = {g \in Handles : ~IsObject(g)'}
    BY <2>2, <1>1, <1>6 DEF FreeListIs
  <2>5. firstFree' = IF longer = <<>> THEN DecodedEnd ELSE longer[1]
    BY <1>4, <2>2, <2>3, EmptySeq
  <2>6. ASSUME NEW i \in 1..Len(longer)
        PROVE  table'[longer[i]].next = IF i = Len(longer) THEN DecodedEnd ELSE longer[i + 1]
    <3>1. CASE i = 1
      <4>1. table'[longer[i]].next = firstFree
        BY <1>3, <1>5, <2>3, <3>1
      <4>2. firstFree = IF list = <<>> THEN DecodedEnd ELSE list[1]
        BY <1>1 DEF FreeListIs
      <4> QED BY <4>1, <4>2, <2>3, <3>1
    <3>2. CASE i # 1
      <4> DEFINE j == i - 1
      <4>1. /\ j \in 1..Len(list) /\ i = j + 1 /\ longer[i] = list[j]
            /\ i # Len(longer) => longer[i + 1] = list[j + 1]
            /\ i = Len(longer) <=> j = Len(list)
        BY <2>3, <3>2
      <4> HIDE DEF j
      <4>2. table[list[j]].next = IF j = Len(list) THEN DecodedEnd ELSE list[j + 1]
        BY <1>1, <4>1 DEF FreeListIs
      <4>3. list[j] \in Handles \ {h}
        BY <2>1, <4>1, <1>1 DEF Members, FreeListIs
      <4> QED BY <4>1, <4>2, <4>3, <1>5
    <3> QED BY <3>1, <3>2
  <2>7. FreeListIs(longer)'
    BY <2>2, <2>4, <2>5, <2>6 DEF FreeListIs
  <2> QED BY <2>2, <2>7 DEF FreeListRight
<1>8. ASSUME NEW x \in AllObjects
      PROVE  /\ IsFiniteSet(HandlesTo(x)')
             /\ Cardinality(HandlesTo(x)')
                  = Cardinality(HandlesTo(x)) - (IF x = o THEN 1 ELSE 0)
  <2>1. IsFiniteSet(HandlesTo(x)) /\ Cardinality(HandlesTo(x)) \in Nat
    BY Numbers
  <2>2. CASE x = o
    <3>1. HandlesTo(x)' = HandlesTo(x) \ {h} /\ h \in HandlesTo(x)
      BY <1>3, <1>5, <2>2 DEF HandlesTo
    <3> QED BY <3>1, <2>1, <2>2, FS_RemoveElement
  <2>3. CASE x # o
    <3>1. HandlesTo(x)' = HandlesTo(x)
      BY <1>3, <1>5, <2>3 DEF HandlesTo
    <3> QED BY <3>1, <2>1, <2>3
  <2> QED BY <2>2, <2>3
<1>9. HandleCountsExact'
  <2>1. ASSUME NEW x \in Objects PROVE objects'[x].handles = Cardinality(HandlesTo(x)')
    <3>1. x \in AllObjects /\ objects[x].handles = Cardinality(HandlesTo(x))
      BY EntriesAre DEF ObInv, HandleCountsExact
    <3> QED BY <3>1, <1>8, Numbers
  <2>2. handleCount' = Cardinality({g \in Handles : IsObject(g)'})
    <3> DEFINE used == {g \in Handles : IsObject(g)}
    <3>1. IsFiniteSet(used) /\ Cardinality(used) = handleCount
      <4>1. IsFiniteSet(1..Entries) /\ used \subseteq 1..Entries
        BY FS_Interval, ObjectAssumption DEF Handles
      <4> QED BY <4>1, FS_Subset DEF ObInv, HandleCountsExact
    <3>2. {g \in Handles : IsObject(g)'} = used \ {h} /\ h \in used
      BY <1>6
    <3> QED BY <3>1, <3>2, <1>4, FS_RemoveElement
  <2> QED BY <2>1, <2>2 DEF HandleCountsExact
<1> QED BY <1>5, <1>7, <1>8, <1>9

\* A new header.
LEMMA NewHeader ==
    ASSUME NEW state \in {"unborn", "live", "freed"}, NEW kind \in Kinds,
           NEW name \in Names \union {NoName}, NEW n \in Nat
    PROVE  /\ Header(state, kind, name, n) \in Headers
           /\ Header(state, kind, name, n).state = state
           /\ Header(state, kind, name, n).kind = kind
           /\ Header(state, kind, name, n).name = name
           /\ Header(state, kind, name, n).pointers = n
           /\ Header(state, kind, name, n).handles = 0
           /\ ~Header(state, kind, name, n).linked
           /\ ~Header(state, kind, name, n).device
           /\ ~Header(state, kind, name, n).handleCreated
           /\ ~Header(state, kind, name, n).cleaned
BY DEF Header, Headers

-----------------------------------------------------------------------------
(* The beginning, and the end through a bad pointer.                        *)

Initial ==
    /\ table = InitialTable /\ firstFree = 1 /\ handleCount = 0
    /\ objects = InitialObjects
    /\ todo = [t \in Threads |-> <<>>] /\ held = [t \in Threads |-> {}]
    /\ crashed \in {"no", "closed handle", "no free handle", "null Directory"}

\* An empty table and no objects are right.
LEMMA InitialRight == Initial => ObInv
<1> SUFFICES ASSUME Initial PROVE ObInv
  OBVIOUS
<1>1. /\ \A x \in AllObjects : objects[x] \in Headers
      /\ \A x \in Objects : objects[x] = Header("unborn", "plain", NoName, 0)
      /\ objects[Directory].state = "live" /\ objects[Directory].pointers = 1
      /\ ~objects[Directory].linked /\ objects \in [AllObjects -> Headers]
  <2>1. /\ objects = [o \in AllObjects |-> IF o = Directory
              THEN [Header("live", "plain", NoName, 1) EXCEPT !.permanent = TRUE]
              ELSE Header("unborn", "plain", NoName, 0)]
    BY DEF Initial, InitialObjects
  <2>2. /\ [Header("live", "plain", NoName, 1) EXCEPT !.permanent = TRUE] \in Headers
        /\ [Header("live", "plain", NoName, 1) EXCEPT !.permanent = TRUE].state = "live"
        /\ [Header("live", "plain", NoName, 1) EXCEPT !.permanent = TRUE].pointers = 1
        /\ ~[Header("live", "plain", NoName, 1) EXCEPT !.permanent = TRUE].linked
    BY DEF Header, Headers, Kinds
  <2>3. Header("unborn", "plain", NoName, 0) \in Headers
    BY NewHeader DEF Kinds
  <2> QED BY <2>1, <2>2, <2>3, EntriesAre
<1>2. \A x \in Objects :
          /\ objects[x].state = "unborn" /\ objects[x].pointers = 0 /\ objects[x].handles = 0
          /\ ~objects[x].linked /\ ~objects[x].device
  BY <1>1, NewHeader DEF Kinds
<1>3. /\ table = [h \in Handles |-> FreeEntry(IF h = Entries THEN DecodedEnd ELSE h + 1, h # 1)]
      /\ \A h \in Handles : table[h] \in FreeEntries
  <2>1. table = [h \in Handles |-> FreeEntry(IF h = Entries THEN DecodedEnd ELSE h + 1, h # 1)]
    BY DEF Initial, InitialTable
  <2>2. \A n \in Handles \union {DecodedEnd}, b \in BOOLEAN : FreeEntry(n, b) \in FreeEntries
    BY DEF FreeEntry, FreeEntries
  <2>3. \A h \in Handles : (IF h = Entries THEN DecodedEnd ELSE h + 1) \in Handles \union {DecodedEnd}
    BY ObjectAssumption DEF Handles
  <2> QED BY <2>1, <2>2, <2>3
<1>4. ObTypes
  <2>1. /\ 1 \in Handles /\ <<>> \in Plans
    BY ObjectAssumption DEF Handles, Plans, Plan
  <2> QED BY <1>1, <1>3, <2>1 DEF Initial, ObTypes
<1>5. \A h \in Handles : ~IsObject(h) /\ \A x \in AllObjects : table[h] # x
  BY <1>3, EntriesAre DEF IsObject
<1>6. FreeListRight
  <2> DEFINE list == [i \in 1..Entries |-> i]
  <2>1. /\ list \in Seq(Handles) /\ Len(list) = Entries /\ \A i \in 1..Entries : list[i] = i
        /\ Entries \in Nat \ {0}
    BY ObjectAssumption DEF Handles
  <2> HIDE DEF list
  <2>2. Distinct(list) /\ Members(list) = {h \in Handles : ~IsObject(h)}
    BY <1>5, <2>1 DEF Distinct, Members, Handles
  <2>3. list # <<>> /\ firstFree = list[1]
    <3>1. Len(list) # 0 /\ 1 \in 1..Entries
      BY <2>1
    <3>2. list # <<>>
      BY <2>1, <3>1, EmptySeq
    <3> QED BY <2>1, <3>1, <3>2 DEF Initial
  <2>4. ASSUME NEW i \in 1..Len(list)
        PROVE  table[list[i]].next = IF i = Len(list) THEN DecodedEnd ELSE list[i + 1]
    BY <1>3, <2>1 DEF Handles, FreeEntry
  <2> QED BY <2>1, <2>2, <2>3, <2>4 DEF FreeListRight, FreeListIs
<1>7. /\ \A x \in AllObjects : HandlesTo(x) = {} /\ Holders(x) = {}
      /\ \A x, ops : Pending(x, ops) = {}
      /\ LinkedOnes = {} /\ {h \in Handles : IsObject(h)} = {}
  <2>1. \A x \in AllObjects : HandlesTo(x) = {} /\ Holders(x) = {}
    BY <1>5 DEF HandlesTo, Holders, Initial
  <2>2. ASSUME NEW x, NEW ops PROVE Pending(x, ops) = {}
    <3>1. \A t \in Threads : todo[t] = <<>>
      BY DEF Initial
    <3>2. DOMAIN <<>> = {}
      OBVIOUS
    <3> QED BY <3>1, <3>2 DEF Pending
  <2>3. LinkedOnes = {} /\ {h \in Handles : IsObject(h)} = {}
    BY <1>2, <1>5 DEF LinkedOnes
  <2> QED BY <2>1, <2>2, <2>3
<1>8. IsFiniteSet({}) /\ Cardinality({}) = 0
  BY FS_EmptySet
<1>9. HandleCountsExact
  BY <1>2, <1>7, <1>8, EntriesAre DEF HandleCountsExact, Initial
<1>10. PointersRight
  <2>1. {x \in Objects : objects[x].linked} = {}
    BY <1>2
  <2>2. \A x \in AllObjects : {t \in Threads : x \in held[t]} = {}
    BY DEF Initial
  <2>3. PointerCountExact
    <3> SUFFICES ASSUME NEW x \in AllObjects
                 PROVE  objects[x].pointers =
                          Cardinality(HandlesTo(x)) + Cardinality(Pending(x, Owning))
                          + Cardinality({t \in Threads : x \in held[t]})
                          + (IF objects[x].linked THEN 1 ELSE 0)
                          + (IF x = Directory
                             THEN 1 + Cardinality({y \in Objects : objects[y].linked}) ELSE 0)
      BY DEF PointerCountExact
    <3>1. /\ Cardinality(HandlesTo(x)) = 0 /\ Cardinality(Pending(x, Owning)) = 0
          /\ Cardinality({t \in Threads : x \in held[t]}) = 0
          /\ Cardinality({y \in Objects : objects[y].linked}) = 0
      BY <1>7, <1>8, <2>1, <2>2
    <3>2. CASE x = Directory
      BY <1>1, <3>1, <3>2
    <3>3. CASE x # Directory
      <4>1. objects[x].pointers = 0 /\ ~objects[x].linked
        BY <1>2, <3>3 DEF AllObjects
      <4> QED BY <3>1, <3>3, <4>1
    <3> QED BY <3>2, <3>3
  <2> QED BY <1>7, <1>8, <2>3 DEF PointersRight
<1>11. LivesRight
  BY <1>1, <1>2, <1>7, <1>8, EntriesAre DEF LivesRight, DeletedOnce, AllObjects
<1>12. LinksRight /\ FilesRight
  BY <1>1, <1>2 DEF LinksRight, FilesRight
<1>13. InsertsRight
  BY DEF InsertsRight, NamedInsert, Initial
<1> QED BY <1>4, <1>6, <1>9, <1>10, <1>11, <1>12, <1>13 DEF ObInv

\* The same in the next state.
LEMMA InitialNext == Initial' => ObInv'
BY InitialRight, PTL

\* The model stops when a bad pointer is followed.
LEMMA CrashRight ==
    ASSUME NEW why \in {"closed handle", "no free handle", "null Directory"}, Crash(why)
    PROVE  ObInv'
<1>1. Initial'
  BY DEF Initial, Crash, InitialTable, InitialObjects, FreeEntry, Header
<1> QED BY <1>1, InitialNext

-----------------------------------------------------------------------------
(* One action at a time.                                                    *)

\* The lists that operations begin with.
LEMMA PlansNew ==
    /\ <<>> \in Plans
    /\ \A s \in Steps : s.op \in {"insert", "parse", "handle", "created", "deref", "free"} =>
           <<s>> \in Plans /\ <<s>> \in Seq(Steps) /\ <<s>>[1] = s /\ <<s>> # <<>>
    /\ \A a, b \in Steps : a.op \in {"deref", "free"} /\ b.op = "deref" =>
           <<a, b>> \in Plans /\ <<a, b>> \in Seq(Steps) /\ <<a, b>>[1] = a /\ <<a, b>> # <<>>
    /\ \A a, b, c \in Steps :
           \/ a.op = "deref" /\ b.op = "deref" /\ c.op = "deref"
           \/ a.op = "deref" /\ b.op = "handle" /\ c.op = "created" /\ b.obj = c.obj
           \/ a.op = "close" /\ b.op = "closed" /\ c.op = "deref" /\ a.obj = b.obj /\ a.obj = c.obj
           => /\ <<a, b, c>> \in Plans /\ <<a, b, c>> \in Seq(Steps)
              /\ <<a, b, c>>[1] = a /\ <<a, b, c>> # <<>>
<1>1. <<>> \in Plans
  BY DEF Plans, Plan
<1>2. ASSUME NEW s \in Steps, s.op \in {"insert", "parse", "handle", "created", "deref", "free"}
      PROVE  <<s>> \in Plans /\ <<s>> \in Seq(Steps) /\ <<s>>[1] = s /\ <<s>> # <<>>
  <2>1. <<s>> \in Seq(Steps) /\ Len(<<s>>) = 1 /\ <<s>>[1] = s /\ <<s>> # <<>>
    OBVIOUS
  <2> QED BY <1>2, <2>1 DEF Plans, Plan
<1>3. ASSUME NEW a \in Steps, NEW b \in Steps, a.op \in {"deref", "free"}, b.op = "deref"
      PROVE  <<a, b>> \in Plans /\ <<a, b>> \in Seq(Steps) /\ <<a, b>>[1] = a /\ <<a, b>> # <<>>
  <2>1. /\ <<a, b>> \in Seq(Steps) /\ Len(<<a, b>>) = 2 /\ <<a, b>>[1] = a /\ <<a, b>>[2] = b
        /\ <<a, b>> # <<>>
    OBVIOUS
  <2> QED BY <1>3, <2>1 DEF Plans, Plan
<1>4. ASSUME NEW a \in Steps, NEW b \in Steps, NEW c \in Steps,
             \/ a.op = "deref" /\ b.op = "deref" /\ c.op = "deref"
             \/ a.op = "deref" /\ b.op = "handle" /\ c.op = "created" /\ b.obj = c.obj
             \/ a.op = "close" /\ b.op = "closed" /\ c.op = "deref"
                /\ a.obj = b.obj /\ a.obj = c.obj
      PROVE  /\ <<a, b, c>> \in Plans /\ <<a, b, c>> \in Seq(Steps)
             /\ <<a, b, c>>[1] = a /\ <<a, b, c>> # <<>>
  <2>1. /\ <<a, b, c>> \in Seq(Steps) /\ Len(<<a, b, c>>) = 3 /\ <<a, b, c>>[1] = a
        /\ <<a, b, c>>[2] = b /\ <<a, b, c>>[3] = c /\ <<a, b, c>> # <<>>
    OBVIOUS
  <2> QED BY <1>4, <2>1 DEF Plans, Plan
<1> QED BY <1>1, <1>2, <1>3, <1>4


\* What somebody has or is at work on is not about to get its name from another.
LEMMA Touched ==
    ASSUME ObInv, NEW t \in Threads, NEW o \in Objects,
           \/ objects[o].state = "unborn" \/ objects[o].linked \/ objects[o].pointers = 0
           \/ \E h \in Handles : table[h] = o
           \/ \E u \in Threads : o \in held[u]
           \/ \E i \in 1..Len(todo[t]) : todo[t][i].obj = o
    PROVE  \A u \in Threads \ {t} : ~NamedInsert(u, o)
<1> SUFFICES ASSUME NEW u \in Threads \ {t}, NamedInsert(u, o) PROVE FALSE
  OBVIOUS
<1> QED BY Sole

-----------------------------------------------------------------------------
(* Actions that change one object.                                          *)

\* Thread "t" has "q" left to do and has changed the header of "o" to "H".
Moves(t, q, o, H) ==
    /\ todo' = [todo EXCEPT ![t] = q] /\ objects' = [objects EXCEPT ![o] = H]
    /\ crashed' = crashed

\* There are "d" more handles and callers' references to "o".
Referred(o, d) ==
    /\ table' \in [Handles -> Objects \union FreeEntries]
    /\ firstFree' \in Handles \union {DecodedEnd} /\ held' \in [Threads -> SUBSET Objects]
    /\ FreeListRight' /\ HandleCountsExact'
    /\ \A x \in AllObjects :
         /\ IsFiniteSet(HandlesTo(x)') /\ IsFiniteSet(Holders(x)')
         /\ Cardinality(HandlesTo(x)') + Cardinality(Holders(x)')
              = Cardinality(HandlesTo(x)) + Cardinality(Holders(x)) + (IF x = o THEN d ELSE 0)

\* The pointers that go with the link in the directory.
Unlinked(o, H, x) ==
    IF objects[o].linked /\ ~H.linked /\ x \in {o, Directory} THEN 1 ELSE 0

\* The counters of pointers move as the pointers, and whoever takes the last
\* pointer is to delete the object.
Balanced(t, q, o, H, d) ==
    \A x \in AllObjects :
        /\ (IF x = o THEN H.pointers ELSE objects[x].pointers) + Count(todo[t], x, Owning)
             + Unlinked(o, H, x)
           = objects[x].pointers + Count(q, x, Owning) + (IF x = o THEN d ELSE 0)
        /\ (IF x = o /\ H.state = "live" /\ H.pointers = 0 THEN 1 ELSE 0)
             + Count(todo[t], x, {"free"})
           = (IF x = o /\ objects[o].state = "live" /\ objects[o].pointers = 0 THEN 1 ELSE 0)
             + Count(q, x, {"free"})

\* The object keeps its name while it is in the directory.
HeaderMoves(o, H) ==
    /\ H.linked => /\ objects[o].linked
                   /\ H.attached /\ H.name = objects[o].name /\ H.kind = objects[o].kind
                   /\ H.permanent \/ H.handles > 0
    /\ H.state = "freed" => H.pointers = 0
    /\ H.state # "unborn"

\* No other thread is about to put the object into the directory.
NamedMoves(t, q, o, H) ==
    /\ o \in Objects => \A u \in Threads \ {t} : ~NamedInsert(u, o)
    /\ q # <<>> /\ q[1].op = "insert" /\ q[1].name # NoName =>
           /\ q[1].obj = o /\ H.name = q[1].name /\ H.kind # "file"
           /\ H.pointers = 1 /\ ~H.linked

\* The link of one object goes, or none.
LEMMA LinksCount ==
    ASSUME ObInv, NEW o \in AllObjects, NEW H \in Headers,
           objects' = [objects EXCEPT ![o] = H], HeaderMoves(o, H)
    PROVE  /\ IsFiniteSet(LinkedOnes')
           /\ \A x \in AllObjects :
                (IF objects[x].linked THEN 1 ELSE 0)
                + (IF x = Directory THEN Cardinality(LinkedOnes) ELSE 0)
                = (IF objects'[x].linked THEN 1 ELSE 0)
                + (IF x = Directory THEN Cardinality(LinkedOnes') ELSE 0) + Unlinked(o, H, x)
<1>1. /\ objects'[o] = H /\ \A x \in AllObjects \ {o} : objects'[x] = objects[x]
  BY DEF ObInv, ObTypes
<1>2. /\ IsFiniteSet(LinkedOnes) /\ Cardinality(LinkedOnes) \in Nat
      /\ ~objects[Directory].linked
  BY Numbers DEF ObInv, LinksRight
<1>3. /\ Directory \notin Objects /\ Directory \in AllObjects /\ Objects \subseteq AllObjects
      /\ \A x \in AllObjects : x \in Objects \/ x = Directory
  BY EntriesAre DEF AllObjects
<1>4. H.linked => objects[o].linked
  BY DEF HeaderMoves
<1>5. CASE objects[o].linked /\ ~H.linked
  <2>1. o \in Objects
    BY <1>2, <1>3, <1>5
  <2>2. LinkedOnes' = LinkedOnes \ {o} /\ o \in LinkedOnes
    BY <1>1, <1>3, <1>5, <2>1 DEF LinkedOnes
  <2>3. /\ IsFiniteSet(LinkedOnes') /\ Cardinality(LinkedOnes') = Cardinality(LinkedOnes) - 1
        /\ Cardinality(LinkedOnes') \in Nat
    BY <1>2, <2>2, FS_RemoveElement, FS_CardinalityType
  <2>4. ASSUME NEW x \in AllObjects
        PROVE  (IF objects[x].linked THEN 1 ELSE 0)
                + (IF x = Directory THEN Cardinality(LinkedOnes) ELSE 0)
                = (IF objects'[x].linked THEN 1 ELSE 0)
                + (IF x = Directory THEN Cardinality(LinkedOnes') ELSE 0) + Unlinked(o, H, x)
    <3>1. CASE x = o
      BY <1>1, <1>3, <1>5, <2>1, <3>1 DEF Unlinked
    <3>2. CASE x = Directory
      BY <1>1, <1>2, <1>3, <1>5, <2>1, <2>3, <3>2 DEF Unlinked
    <3>3. CASE x # o /\ x # Directory
      BY <1>1, <3>3 DEF Unlinked
    <3> QED BY <3>1, <3>2, <3>3
  <2> QED BY <2>3, <2>4
<1>6. CASE ~(objects[o].linked /\ ~H.linked)
  <2>1. \A x \in AllObjects : objects'[x].linked <=> objects[x].linked
    BY <1>1, <1>4, <1>6
  <2>2. LinkedOnes' = LinkedOnes
    BY <1>3, <2>1 DEF LinkedOnes
  <2>3. \A x : Unlinked(o, H, x) = 0
    BY <1>6 DEF Unlinked
  <2> QED BY <1>2, <2>1, <2>2, <2>3
<1> QED BY <1>5, <1>6

\* What has to be shown of an action that changes one object.
LEMMA ObjectMoves ==
    ASSUME ObInv, NEW t \in Threads, NEW q \in Plans, NEW o \in AllObjects, NEW H \in Headers,
           NEW d \in {-1, 0, 1}, Moves(t, q, o, H), Referred(o, d), Balanced(t, q, o, H, d),
           HeaderMoves(o, H), NamedMoves(t, q, o, H), FileMoves(t, q, o, H)
    PROVE  ObInv'
<1>0. todo' = [todo EXCEPT ![t] = q] /\ objects' = [objects EXCEPT ![o] = H] /\ crashed' = crashed
  BY DEF Moves
<1>1. /\ objects' \in [AllObjects -> Headers] /\ objects'[o] = H
      /\ \A x \in AllObjects \ {o} : objects'[x] = objects[x]
  <2>1. objects \in [AllObjects -> Headers]
    BY DEF ObInv, ObTypes
  <2> QED BY <1>0, <2>1
<1>2. ObTypes'
  BY <1>0, <1>1, ListsThen DEF ObInv, ObTypes, Referred
<1>3. FreeListRight' /\ HandleCountsExact'
  BY DEF Referred
<1>4. PointersRight'
  <2>1. /\ IsFiniteSet(LinkedOnes') /\ Cardinality(LinkedOnes') \in Nat
        /\ \A x \in AllObjects :
             (IF objects[x].linked THEN 1 ELSE 0)
             + (IF x = Directory THEN Cardinality(LinkedOnes) ELSE 0)
             = (IF objects'[x].linked THEN 1 ELSE 0)
             + (IF x = Directory THEN Cardinality(LinkedOnes') ELSE 0) + Unlinked(o, H, x)
    BY <1>0, LinksCount, FS_CardinalityType
  <2>2. ASSUME NEW x \in AllObjects
        PROVE  /\ IsFiniteSet(HandlesTo(x)') /\ IsFiniteSet(Holders(x)')
               /\ objects'[x].pointers \in Nat
               /\ objects'[x].pointers + Count(todo[t], x, Owning)
                  + Cardinality(HandlesTo(x)) + Cardinality(Holders(x))
                  + (IF objects[x].linked THEN 1 ELSE 0)
                  + (IF x = Directory THEN Cardinality(LinkedOnes) ELSE 0)
                  = objects[x].pointers + Count(q, x, Owning)
                  + Cardinality(HandlesTo(x)') + Cardinality(Holders(x)')
                  + (IF objects'[x].linked THEN 1 ELSE 0)
                  + (IF x = Directory THEN Cardinality(LinkedOnes') ELSE 0)
    <3>1. /\ IsFiniteSet(HandlesTo(x)') /\ IsFiniteSet(Holders(x)')
          /\ Cardinality(HandlesTo(x)') + Cardinality(Holders(x)')
              = Cardinality(HandlesTo(x)) + Cardinality(Holders(x)) + (IF x = o THEN d ELSE 0)
      BY DEF Referred
    <3>2. objects'[x].pointers + Count(todo[t], x, Owning) + Unlinked(o, H, x)
           = objects[x].pointers + Count(q, x, Owning) + (IF x = o THEN d ELSE 0)
      BY <1>1 DEF Balanced
    <3>3. /\ objects'[x].pointers \in Nat /\ objects[x].pointers \in Nat
          /\ Cardinality(HandlesTo(x)) \in Nat /\ Cardinality(Holders(x)) \in Nat
          /\ Cardinality(HandlesTo(x)') \in Nat /\ Cardinality(Holders(x)') \in Nat
          /\ Cardinality(LinkedOnes) \in Nat
      BY <1>1, <3>1, Numbers, FS_CardinalityType DEF Headers
    <3>4. Count(todo[t], x, Owning) \in Nat /\ Count(q, x, Owning) \in Nat
      BY CountSteps
    <3>5. Unlinked(o, H, x) \in Nat
      BY DEF Unlinked
    <3>6. (IF objects[x].linked THEN 1 ELSE 0)
             + (IF x = Directory THEN Cardinality(LinkedOnes) ELSE 0)
             = (IF objects'[x].linked THEN 1 ELSE 0)
             + (IF x = Directory THEN Cardinality(LinkedOnes') ELSE 0) + Unlinked(o, H, x)
      BY <2>1
    <3> DEFINE l == IF objects[x].linked THEN 1 ELSE 0
               k == IF x = Directory THEN Cardinality(LinkedOnes) ELSE 0
               l1 == IF objects'[x].linked THEN 1 ELSE 0
               k1 == IF x = Directory THEN Cardinality(LinkedOnes') ELSE 0
               e == IF x = o THEN d ELSE 0
               u == Unlinked(o, H, x)
    <3>7. e \in Int /\ u \in Nat
      BY <3>5
    <3>8. l \in Nat /\ k \in Nat /\ l1 \in Nat /\ k1 \in Nat
      BY <2>1, <3>3
    <3>9. /\ Cardinality(HandlesTo(x)') + Cardinality(Holders(x)')
              = Cardinality(HandlesTo(x)) + Cardinality(Holders(x)) + e
          /\ objects'[x].pointers + Count(todo[t], x, Owning) + u
              = objects[x].pointers + Count(q, x, Owning) + e
          /\ l + k = l1 + k1 + u
      BY <3>1, <3>2, <3>6
    <3> HIDE DEF l, k, l1, k1, e, u
    <3>10. objects'[x].pointers + Count(todo[t], x, Owning)
             + Cardinality(HandlesTo(x)) + Cardinality(Holders(x)) + l + k
           = objects[x].pointers + Count(q, x, Owning)
             + Cardinality(HandlesTo(x)') + Cardinality(Holders(x)') + l1 + k1
      BY <3>3, <3>4, <3>7, <3>8, <3>9
    <3> QED BY <3>1, <3>3, <3>10 DEF l, k, l1, k1
  <2>3. todo' = [todo EXCEPT ![t] = q] /\ IsFiniteSet(LinkedOnes')
    BY <1>0, <2>1
  <2>4. \A x \in AllObjects :
            /\ IsFiniteSet(HandlesTo(x)') /\ IsFiniteSet(Holders(x)')
            /\ objects'[x].pointers \in Nat
    BY <2>2
  <2>5. \A x \in AllObjects :
            objects'[x].pointers + Count(todo[t], x, Owning)
            + Cardinality(HandlesTo(x)) + Cardinality(Holders(x))
            + (IF objects[x].linked THEN 1 ELSE 0)
            + (IF x = Directory THEN Cardinality(LinkedOnes) ELSE 0)
            = objects[x].pointers + Count(q, x, Owning)
            + Cardinality(HandlesTo(x)') + Cardinality(Holders(x)')
            + (IF objects'[x].linked THEN 1 ELSE 0)
            + (IF x = Directory THEN Cardinality(LinkedOnes') ELSE 0)
    BY <2>2
  <2> QED BY <2>3, <2>4, <2>5, PointersThen
<1>5. LivesRight'
  <2>1. \A x \in AllObjects :
            /\ objects[x].state = "freed" => objects[x].pointers = 0
            /\ objects[x].state = "unborn" => objects[x].pointers = 0 /\ ~objects[x].device
    BY DEF ObInv, LivesRight, DeletedOnce
  <2>2. ASSUME NEW x \in AllObjects
        PROVE  /\ objects'[x].state = "freed" => objects'[x].pointers = 0
               /\ objects'[x].state = "unborn" => objects'[x].pointers = 0 /\ ~objects'[x].device
               /\ (IF objects'[x].state = "live" /\ objects'[x].pointers = 0 THEN 1 ELSE 0)
                  + Count(todo[t], x, {"free"})
                  = (IF objects[x].state = "live" /\ objects[x].pointers = 0 THEN 1 ELSE 0)
                  + Count(q, x, {"free"})
    <3>1. Count(todo[t], x, {"free"}) \in Nat /\ Count(q, x, {"free"}) \in Nat
      BY CountSteps
    <3>2. CASE x = o
      BY <1>1, <2>1, <3>2 DEF Balanced, HeaderMoves
    <3>3. CASE x # o
      BY <1>1, <2>1, <3>1, <3>3 DEF Balanced
    <3> QED BY <3>2, <3>3
  <2> QED BY <1>0, <2>2, LivesThen
<1>6. LinksRight'
  <2>1. ~objects[Directory].linked /\ Directory \in AllObjects /\ Objects \subseteq AllObjects
    BY EntriesAre DEF ObInv, LinksRight
  <2>2. \A x \in Objects : objects[x].linked =>
            objects[x].attached /\ (objects[x].permanent \/ objects[x].handles > 0)
    BY DEF ObInv, LinksRight
  <2>3. ~objects'[Directory].linked
    BY <1>1, <2>1 DEF HeaderMoves
  <2>4. ASSUME NEW x \in Objects, objects'[x].linked
        PROVE  /\ objects[x].linked
               /\ objects'[x].attached /\ objects'[x].name = objects[x].name
               /\ objects'[x].kind = objects[x].kind
               /\ objects'[x].permanent \/ objects'[x].handles > 0
    BY <1>1, <2>1, <2>2, <2>4 DEF HeaderMoves
  <2> QED BY <2>3, <2>4, LinksThen
<1>7. InsertsRight'
  <2>1. \A u \in Threads \ {t}, x \in Objects : NamedInsert(u, x) => objects'[x] = objects[x]
    BY <1>1, EntriesAre DEF NamedMoves
  <2>2. q # <<>> /\ q[1].op = "insert" /\ q[1].name # NoName =>
            /\ objects'[q[1].obj].name = q[1].name /\ objects'[q[1].obj].kind # "file"
            /\ objects'[q[1].obj].pointers = 1 /\ ~objects'[q[1].obj].linked
    BY <1>1 DEF NamedMoves
  <2> QED BY <1>0, <2>1, <2>2, InsertsThen
<1>8. FilesRight'
  <2>1. \A x \in Objects \ {o} : objects'[x] = objects[x]
    BY <1>1, EntriesAre
  <2> QED BY <1>0, <1>1, <2>1, FilesThen
<1> QED BY <1>2, <1>3, <1>4, <1>5, <1>6, <1>7, <1>8 DEF ObInv

\* The handle table and what callers have are left alone.
LEMMA ReferredSame ==
    ASSUME ObInv, NEW o \in AllObjects, NEW H \in Headers,
           objects' = [objects EXCEPT ![o] = H], UNCHANGED tableVars, held' = held,
           H.handles = objects[o].handles
    PROVE  Referred(o, 0)
<1>1. \A x \in Objects : objects'[x].handles = objects[x].handles
  BY EntriesAre DEF ObInv, ObTypes
<1>2. /\ FreeListRight' /\ HandleCountsExact'
      /\ \A x : HandlesTo(x)' = HandlesTo(x)
  BY <1>1, TableSame
<1>3. \A x : Holders(x)' = Holders(x)
  BY DEF Holders
<1>4. ASSUME NEW x \in AllObjects
      PROVE  /\ IsFiniteSet(HandlesTo(x)') /\ IsFiniteSet(Holders(x)')
             /\ Cardinality(HandlesTo(x)') + Cardinality(Holders(x)')
                  = Cardinality(HandlesTo(x)) + Cardinality(Holders(x)) + (IF x = o THEN 0 ELSE 0)
  BY <1>2, <1>3, Numbers
<1> QED BY <1>2, <1>4 DEF Referred, ObInv, ObTypes, tableVars

\* A handle is made.
LEMMA ReferredTake ==
    ASSUME ObInv, NEW o \in Objects, NEW H \in Headers,
           objects' = [objects EXCEPT ![o] = H], TakeHandle(o), held' = held,
           firstFree # DecodedEnd, H.handles = objects[o].handles + 1
    PROVE  Referred(o, 1)
<1>1. \A x \in Objects :
          objects'[x].handles = IF x = o THEN objects[x].handles + 1 ELSE objects[x].handles
  BY EntriesAre DEF ObInv, ObTypes
<1>2. /\ table' \in [Handles -> Objects \union FreeEntries]
      /\ firstFree' \in Handles \union {DecodedEnd}
      /\ FreeListRight' /\ HandleCountsExact'
      /\ \A x \in AllObjects :
           /\ IsFiniteSet(HandlesTo(x)')
           /\ Cardinality(HandlesTo(x)') = Cardinality(HandlesTo(x)) + (IF x = o THEN 1 ELSE 0)
  BY <1>1, TableTake
<1>3. \A x : Holders(x)' = Holders(x)
  BY DEF Holders
<1>4. ASSUME NEW x \in AllObjects
      PROVE  /\ IsFiniteSet(HandlesTo(x)') /\ IsFiniteSet(Holders(x)')
             /\ Cardinality(HandlesTo(x)') + Cardinality(Holders(x)')
                  = Cardinality(HandlesTo(x)) + Cardinality(Holders(x)) + (IF x = o THEN 1 ELSE 0)
  BY <1>2, <1>3, Numbers
<1>5. held' \in [Threads -> SUBSET Objects]
  BY DEF ObInv, ObTypes
<1> QED BY <1>2, <1>4, <1>5 DEF Referred

\* A handle is given back.
LEMMA ReferredGive ==
    ASSUME ObInv, NEW h \in Handles, IsObject(h), NEW o \in Objects, o = table[h], NEW H \in Headers,
           objects' = [objects EXCEPT ![o] = H], GiveHandle(h), held' = held,
           H.handles = objects[o].handles - 1
    PROVE  Referred(o, -1)
<1>1. \A x \in Objects : objects'[x].handles =
          IF x = table[h] THEN objects[x].handles - 1 ELSE objects[x].handles
  BY EntriesAre DEF ObInv, ObTypes
<1>2. /\ table' \in [Handles -> Objects \union FreeEntries]
      /\ firstFree' \in Handles \union {DecodedEnd}
      /\ FreeListRight' /\ HandleCountsExact'
      /\ \A x \in AllObjects :
           /\ IsFiniteSet(HandlesTo(x)')
           /\ Cardinality(HandlesTo(x)')
                = Cardinality(HandlesTo(x)) - (IF x = table[h] THEN 1 ELSE 0)
  BY <1>1, TableGive
<1>3. \A x : Holders(x)' = Holders(x)
  BY DEF Holders
<1>4. ASSUME NEW x \in AllObjects
      PROVE  /\ IsFiniteSet(HandlesTo(x)') /\ IsFiniteSet(Holders(x)')
             /\ Cardinality(HandlesTo(x)') + Cardinality(Holders(x)')
                  = Cardinality(HandlesTo(x)) + Cardinality(Holders(x)) + (IF x = o THEN -1 ELSE 0)
  BY <1>2, <1>3, Numbers
<1>5. held' \in [Threads -> SUBSET Objects]
  BY DEF ObInv, ObTypes
<1> QED BY <1>2, <1>4, <1>5 DEF Referred

\* A caller gets a reference.
LEMMA ReferredHold ==
    ASSUME ObInv, NEW t \in Threads, NEW o \in Objects, NEW H \in Headers,
           objects' = [objects EXCEPT ![o] = H], UNCHANGED tableVars,
           o \notin held[t], held' = [held EXCEPT ![t] = @ \union {o}],
           H.handles = objects[o].handles
    PROVE  Referred(o, 1)
<1>1. \A x \in Objects : objects'[x].handles = objects[x].handles
  BY EntriesAre DEF ObInv, ObTypes
<1>2. /\ FreeListRight' /\ HandleCountsExact'
      /\ \A x : HandlesTo(x)' = HandlesTo(x)
  BY <1>1, TableSame
<1>3. /\ held' \in [Threads -> SUBSET Objects]
      /\ held'[t] = held[t] \union {o} /\ \A u \in Threads \ {t} : held'[u] = held[u]
  BY DEF ObInv, ObTypes
<1>4. Holders(o)' = Holders(o) \union {t} /\ t \notin Holders(o)
  BY <1>3 DEF Holders
<1>7. IsFiniteSet(Holders(o)') /\ Cardinality(Holders(o)') = Cardinality(Holders(o)) + 1
  <2>1. IsFiniteSet(Holders(o)) /\ o \in AllObjects
    BY Numbers, EntriesAre
  <2> QED BY <1>4, <2>1, FS_AddElement
<1>5. \A x : x # o => Holders(x)' = Holders(x)
  BY <1>3 DEF Holders
<1>6. ASSUME NEW x \in AllObjects
      PROVE  /\ IsFiniteSet(HandlesTo(x)') /\ IsFiniteSet(Holders(x)')
             /\ Cardinality(HandlesTo(x)') + Cardinality(Holders(x)')
                  = Cardinality(HandlesTo(x)) + Cardinality(Holders(x)) + (IF x = o THEN 1 ELSE 0)
  <2>1. /\ IsFiniteSet(Holders(x)) /\ Cardinality(Holders(x)) \in Nat
        /\ IsFiniteSet(HandlesTo(x)) /\ Cardinality(HandlesTo(x)) \in Nat
    BY Numbers
  <2>2. CASE x = o
    BY <1>2, <1>7, <2>1, <2>2
  <2>3. CASE x # o
    BY <1>2, <1>5, <2>1, <2>3
  <2> QED BY <2>2, <2>3
<1> QED BY <1>2, <1>3, <1>6 DEF Referred, ObInv, ObTypes, tableVars

\* A caller gives a reference up.
LEMMA ReferredDrop ==
    ASSUME ObInv, NEW t \in Threads, NEW o \in Objects, NEW H \in Headers,
           objects' = [objects EXCEPT ![o] = H], UNCHANGED tableVars,
           o \in held[t], held' = [held EXCEPT ![t] = @ \ {o}],
           H.handles = objects[o].handles
    PROVE  Referred(o, -1)
<1>1. \A x \in Objects : objects'[x].handles = objects[x].handles
  BY EntriesAre DEF ObInv, ObTypes
<1>2. /\ FreeListRight' /\ HandleCountsExact'
      /\ \A x : HandlesTo(x)' = HandlesTo(x)
  BY <1>1, TableSame
<1>3. /\ held' \in [Threads -> SUBSET Objects]
      /\ held'[t] = held[t] \ {o} /\ \A u \in Threads \ {t} : held'[u] = held[u]
  BY DEF ObInv, ObTypes
<1>4. Holders(o)' = Holders(o) \ {t} /\ t \in Holders(o)
  BY <1>3 DEF Holders
<1>7. IsFiniteSet(Holders(o)') /\ Cardinality(Holders(o)') = Cardinality(Holders(o)) - 1
  <2>1. IsFiniteSet(Holders(o)) /\ o \in AllObjects
    BY Numbers, EntriesAre
  <2> QED BY <1>4, <2>1, FS_RemoveElement
<1>5. \A x : x # o => Holders(x)' = Holders(x)
  BY <1>3 DEF Holders
<1>6. ASSUME NEW x \in AllObjects
      PROVE  /\ IsFiniteSet(HandlesTo(x)') /\ IsFiniteSet(Holders(x)')
             /\ Cardinality(HandlesTo(x)') + Cardinality(Holders(x)')
                  = Cardinality(HandlesTo(x)) + Cardinality(Holders(x)) + (IF x = o THEN -1 ELSE 0)
  <2>1. /\ IsFiniteSet(Holders(x)) /\ Cardinality(Holders(x)) \in Nat
        /\ IsFiniteSet(HandlesTo(x)) /\ Cardinality(HandlesTo(x)) \in Nat
    BY Numbers
  <2>2. CASE x = o
    BY <1>2, <1>7, <2>1, <2>2
  <2>3. CASE x # o
    BY <1>2, <1>5, <2>1, <2>3
  <2> QED BY <2>2, <2>3
<1> QED BY <1>2, <1>3, <1>6 DEF Referred, ObInv, ObTypes, tableVars

\* A step is done and leaves nothing.
LEMMA NothingLeft ==
    ASSUME ObInv, NEW t \in Threads, NEW op, At(t, op), Then(t, <<>>)
    PROVE  /\ todo' = [todo EXCEPT ![t] = Tail(todo[t])] /\ Tail(todo[t]) \in Plans
           /\ \A x, ops : Count(todo[t], x, ops)
                            = Hit(todo[t][1], x, ops) + Count(Tail(todo[t]), x, ops)
<1>1. todo[t] # <<>> /\ todo[t] \in Plans
  BY FirstStep
<1>2. Tail(todo[t]) \in Plans /\ Tail(todo[t]) \in Seq(Steps)
  BY <1>1, PlanTail
<1>3. <<>> \o Tail(todo[t]) = Tail(todo[t])
  BY <1>2, ConcatEmptySeq
<1>4. todo[t] \in Seq(Steps) /\ Len(todo[t]) <= 3
  BY Lists
<1> QED BY <1>1, <1>2, <1>3, <1>4, CountTail DEF Then

\* A reference that the operation had, or the deletion, is what is left.
LEMMA OneLeft ==
    ASSUME ObInv, NEW t \in Threads, NEW op \in {"insert", "parse", "created", "deref"}, At(t, op),
           NEW s \in Steps, s.op \in {"deref", "free"}, Then(t, <<s>>)
    PROVE  /\ todo' = [todo EXCEPT ![t] = <<s>> \o Tail(todo[t])]
           /\ <<s>> \o Tail(todo[t]) \in Plans /\ <<s>> \o Tail(todo[t]) # <<>>
           /\ (<<s>> \o Tail(todo[t]))[1] = s
           /\ \A x, ops :
                /\ Count(Tail(todo[t]), x, ops) \in Nat
                /\ Count(todo[t], x, ops) = Hit(todo[t][1], x, ops) + Count(Tail(todo[t]), x, ops)
                /\ Count(<<s>> \o Tail(todo[t]), x, ops)
                     = Hit(s, x, ops) + Count(Tail(todo[t]), x, ops)
<1> DEFINE r == Tail(todo[t])
           q == <<s>> \o r
<1>1. todo[t] # <<>> /\ todo[t] \in Plans /\ todo[t][1].op = op
  BY FirstStep
<1>2. /\ r \in Plans /\ r \in Seq(Steps) /\ Len(r) \in Nat /\ Len(r) <= 2
      /\ op \in {"insert", "parse", "created"} => r = <<>>
      /\ op = "deref" =>
           \/ \A i \in 1..Len(r) : r[i].op = "deref"
           \/ /\ Len(r) = 2 /\ r[1].op = "handle" /\ r[2].op = "created" /\ r[1].obj = r[2].obj
  <2>1. /\ Len(todo[t]) \in Nat /\ Len(todo[t]) <= 3
        /\ r \in Seq(Steps) /\ Len(r) \in Nat /\ Len(r) = Len(todo[t]) - 1 /\ r \in Plans
    BY <1>1, PlanTail
  <2>2. todo[t][1].op \in {"insert", "parse", "created"} => r = <<>>
    BY <1>1, PlanTail
  <2>3. todo[t][1].op \in {"deref", "free"} =>
           \/ \A i \in 1..Len(r) : r[i].op = "deref"
           \/ /\ Len(r) = 2 /\ r[1].op = "handle" /\ r[2].op = "created" /\ r[1].obj = r[2].obj
    BY <1>1, PlanTail
  <2> HIDE DEF r
  <2> QED BY <1>1, <2>1, <2>2, <2>3
<1> HIDE DEF r
<1>3. <<s>> \in Seq(Steps) /\ Len(<<s>>) = 1 /\ <<s>>[1] = s
  OBVIOUS
<1>4. /\ q \in Seq(Steps) /\ Len(q) = 1 + Len(r) /\ q[1] = s
      /\ \A i \in 1..Len(r) : q[1 + i] = r[i]
  BY <1>2, <1>3, StepsInFront
<1> HIDE DEF q
<1>5. q # <<>> /\ Len(q) <= 3 /\ Len(q) \in Nat
  BY <1>2, <1>4, EmptySeq
<1>6. q \in Plans
  <2>1. CASE \A i \in 1..Len(r) : r[i].op = "deref"
    <3>1. \A i \in 2..Len(q) : q[i].op = "deref"
      <4> SUFFICES ASSUME NEW i \in 2..Len(q) PROVE q[i].op = "deref"
        OBVIOUS
      <4> DEFINE j == i - 1
      <4>1. j \in 1..Len(r) /\ i = 1 + j
        BY <1>2, <1>4
      <4> QED BY <1>4, <2>1, <4>1
    <3> QED BY <1>4, <1>5, <3>1 DEF Plans, Plan
  <2>2. CASE /\ Len(r) = 2 /\ r[1].op = "handle" /\ r[2].op = "created" /\ r[1].obj = r[2].obj
    <3>1. q[2] = r[1] /\ q[3] = r[2] /\ Len(q) = 3
      BY <1>4, <2>2
    <3> QED BY <1>4, <2>2, <3>1 DEF Plans, Plan
  <2>3. CASE r = <<>>
    BY <2>1, <2>3
  <2> QED BY <1>2, <2>1, <2>2, <2>3
<1>7. ASSUME NEW x, NEW ops
      PROVE  /\ Count(r, x, ops) \in Nat
             /\ Count(todo[t], x, ops) = Hit(todo[t][1], x, ops) + Count(r, x, ops)
             /\ Count(q, x, ops) = Hit(s, x, ops) + Count(r, x, ops)
  <2>1. /\ Count(todo[t], x, ops) = Hit(todo[t][1], x, ops) + Count(Tail(todo[t]), x, ops)
        /\ Count(q, x, ops) = Count(<<s>>, x, ops) + Count(Tail(todo[t]), x, ops)
    <3>1. <<s>> \o Tail(todo[t]) \in Plans /\ q = <<s>> \o Tail(todo[t])
      BY <1>6 DEF q, r
    <3>2. \A y, op2 :
              /\ Count(todo[t], y, op2) = Hit(todo[t][1], y, op2) + Count(Tail(todo[t]), y, op2)
              /\ Count(<<s>> \o Tail(todo[t]), y, op2)
                   = Count(<<s>>, y, op2) + Count(Tail(todo[t]), y, op2)
      BY <1>1, <1>3, <3>1, CountThen
    <3> QED BY <3>1, <3>2
  <2> QED BY <2>1, CountSteps DEF r
<1> QED BY <1>4, <1>5, <1>6, <1>7 DEF Then, q, r

\* ObCreateObject: nobody knows the object yet.
LEMMA CreateRight ==
    ASSUME ObInv, NEW t \in Threads, NEW o \in Objects, NEW kind \in Kinds \ {"file"},
           NEW name \in Names \union {NoName}, NEW a \in Attributes,
           Create(t, o, kind, name, a)
    PROVE  ObInv'
<1> DEFINE s == [op |-> "insert", obj |-> o, name |-> name, attributes |-> a,
                 bias |-> IF kind = "device" THEN 1 ELSE 0]
           q == <<s>>
           H == Header("live", kind, name, 1)
<1>1. /\ Idle(t) /\ todo' = [todo EXCEPT ![t] = q] /\ objects[o].state = "unborn"
      /\ objects' = [objects EXCEPT ![o] = H]
      /\ UNCHANGED tableVars /\ held' = held /\ crashed' = crashed
      /\ kind = "device" => a = {"permanent"} /\ name # NoName
  BY DEF Create, Start
<1>2. s \in Steps
  <2>1. a \in SUBSET {"openif", "permanent"}
    BY DEF Attributes
  <2>2. (IF kind = "device" THEN 1 ELSE 0) = 1 => name # NoName /\ "openif" \notin a
    BY <1>1
  <2> QED BY <2>1, <2>2, StepsAre
<1>3. s.op = "insert" /\ s.obj = o /\ s.name = name
  OBVIOUS
<1> HIDE DEF s
<1>4. q \in Plans /\ q[1] = s /\ q # <<>>
  BY <1>2, <1>3, PlansNew
<1>5. /\ H \in Headers /\ H.state = "live" /\ H.kind = kind /\ H.name = name /\ H.pointers = 1
      /\ H.handles = 0 /\ ~H.linked /\ ~H.device
  BY NewHeader
<1>6. \A x, ops : Count(todo[t], x, ops) = 0 /\ Count(q, x, ops) = Hit(s, x, ops)
  BY <1>1, CountIdle, CountSteps
<1> HIDE DEF q, H
<1>7. o \in AllObjects /\ objects[o].pointers = 0 /\ objects[o].handles = 0 /\ ~objects[o].linked
  BY <1>1, Unborn, EntriesAre
<1>8. Referred(o, 0)
  BY <1>1, <1>5, <1>7, ReferredSame
<1>9. Balanced(t, q, o, H, 0)
  <2>1. ASSUME NEW x \in AllObjects
        PROVE  /\ Count(q, x, Owning) = (IF x = o THEN 1 ELSE 0) /\ Count(q, x, {"free"}) = 0
               /\ Count(todo[t], x, Owning) = 0 /\ Count(todo[t], x, {"free"}) = 0
               /\ objects[x].pointers \in Nat /\ Unlinked(o, H, x) = 0
    BY <1>3, <1>6, <1>7, HitIs, Numbers DEF Owning, Unlinked
  <2> QED BY <1>1, <1>5, <1>7, <2>1 DEF Balanced
<1>10. HeaderMoves(o, H)
  BY <1>5 DEF HeaderMoves
<1>11. NamedMoves(t, q, o, H)
  <2>1. \A u \in Threads \ {t} : ~NamedInsert(u, o)
    BY <1>1, Touched
  <2> QED BY <1>3, <1>4, <1>5, <2>1 DEF NamedMoves
<1>12. FileMoves(t, q, o, H)
  BY <1>1, <1>3, <1>4, <1>5 DEF FileMoves, Idle
<1>13. Moves(t, q, o, H)
  BY <1>1 DEF Moves
<1> QED BY <1>4, <1>5, <1>7, <1>8, <1>9, <1>10, <1>11, <1>12, <1>13, ObjectMoves

\* Only the counter of pointers of an object changes.
LEMMA PointersOnly ==
    ASSUME ObInv, NEW t \in Threads, NEW q \in Plans, NEW o \in AllObjects,
           objects[o].state = "live", NEW n \in Nat,
           q # <<>> => q[1].op # "created", todo[t] # <<>> => todo[t][1].op # "close"
    PROVE  /\ [objects[o] EXCEPT !.pointers = n] \in Headers
           /\ [objects[o] EXCEPT !.pointers = n].pointers = n
           /\ [objects[o] EXCEPT !.pointers = n].state = "live"
           /\ [objects[o] EXCEPT !.pointers = n].handles = objects[o].handles
           /\ HeaderMoves(o, [objects[o] EXCEPT !.pointers = n])
           /\ FileMoves(t, q, o, [objects[o] EXCEPT !.pointers = n])
           /\ \A x : Unlinked(o, [objects[o] EXCEPT !.pointers = n], x) = 0
<1> DEFINE H == [objects[o] EXCEPT !.pointers = n]
<1>1. objects[o] \in Headers
  BY Numbers
<1>2. /\ H \in Headers /\ H.pointers = n /\ H.state = "live" /\ H.handles = objects[o].handles
      /\ H.linked = objects[o].linked /\ H.attached = objects[o].attached
      /\ H.name = objects[o].name /\ H.kind = objects[o].kind
      /\ H.permanent = objects[o].permanent /\ H.device = objects[o].device
      /\ H.handleCreated = objects[o].handleCreated /\ H.cleaned = objects[o].cleaned
  BY <1>1 DEF Headers
<1> HIDE DEF H
<1>3. HeaderMoves(o, H)
  <2>1. objects[o].linked => o \in Objects
    BY DEF ObInv, LinksRight, AllObjects
  <2>2. objects[o].linked => objects[o].attached /\ (objects[o].permanent \/ objects[o].handles > 0)
    BY <2>1 DEF ObInv, LinksRight
  <2> QED BY <1>2, <2>2 DEF HeaderMoves
<1>4. FileMoves(t, q, o, H)
  BY <1>2 DEF FileMoves, HadHandle
<1>5. \A x : Unlinked(o, H, x) = 0
  BY <1>2 DEF Unlinked
<1> QED BY <1>2, <1>3, <1>4, <1>5 DEF H

\* Only the counter of pointers of an object changes, to "n", and a list of
\* steps, which becomes "q".
PointersChange(t, q, o, n) ==
    /\ todo' = [todo EXCEPT ![t] = q]
    /\ objects' = [objects EXCEPT ![o] = [objects[o] EXCEPT !.pointers = n]]
    /\ crashed' = crashed
    /\ q # <<>> => q[1].op # "created" /\ (q[1].op = "insert" => q[1].name = NoName)
    /\ todo[t] # <<>> => todo[t][1].op # "close"
    /\ o \in Objects => \A u \in Threads \ {t} : ~NamedInsert(u, o)

PointersBalanced(t, q, o, n, d) ==
    \A x \in AllObjects :
        /\ (IF x = o THEN n ELSE objects[x].pointers) + Count(todo[t], x, Owning)
           = objects[x].pointers + Count(q, x, Owning) + (IF x = o THEN d ELSE 0)
        /\ (IF x = o /\ n = 0 THEN 1 ELSE 0) + Count(todo[t], x, {"free"})
           = (IF x = o /\ objects[o].pointers = 0 THEN 1 ELSE 0) + Count(q, x, {"free"})

\* Then everything is right.
LEMMA PointersMove ==
    ASSUME ObInv, NEW t \in Threads, NEW q \in Plans, NEW o \in AllObjects, NEW n \in Nat,
           NEW d \in {-1, 0, 1}, objects[o].state = "live",
           PointersChange(t, q, o, n), Referred(o, d), PointersBalanced(t, q, o, n, d)
    PROVE  ObInv'
<1> DEFINE H == [objects[o] EXCEPT !.pointers = n]
<1>0. /\ q # <<>> => q[1].op # "created"
      /\ todo[t] # <<>> => todo[t][1].op # "close"
  BY DEF PointersChange
<1>1. /\ H \in Headers /\ H.pointers = n /\ H.state = "live"
      /\ HeaderMoves(o, H) /\ FileMoves(t, q, o, H) /\ \A x : Unlinked(o, H, x) = 0
  BY <1>0, PointersOnly
<1>2. Moves(t, q, o, H)
  BY DEF Moves, PointersChange
<1> HIDE DEF H
<1>3. NamedMoves(t, q, o, H)
  BY DEF NamedMoves, PointersChange
<1>4. Balanced(t, q, o, H, d)
  <2>1. ASSUME NEW x \in AllObjects
        PROVE  /\ (IF x = o THEN H.pointers ELSE objects[x].pointers) + Count(todo[t], x, Owning)
                    + Unlinked(o, H, x)
                  = objects[x].pointers + Count(q, x, Owning) + (IF x = o THEN d ELSE 0)
               /\ (IF x = o /\ H.state = "live" /\ H.pointers = 0 THEN 1 ELSE 0)
                    + Count(todo[t], x, {"free"})
                  = (IF x = o /\ objects[o].state = "live" /\ objects[o].pointers = 0 THEN 1 ELSE 0)
                    + Count(q, x, {"free"})
    <3>1. objects[x].pointers \in Nat /\ Count(todo[t], x, Owning) \in Nat
      BY Numbers, CountSteps
    <3> QED BY <1>1, <3>1 DEF PointersBalanced
  <2> QED BY <2>1 DEF Balanced
<1> QED BY <1>1, <1>2, <1>3, <1>4, ObjectMoves

\* The same, with the handle table and what callers have left alone.
LEMMA PointersStay ==
    ASSUME ObInv, NEW t \in Threads, NEW q \in Plans, NEW o \in AllObjects, NEW n \in Nat,
           objects[o].state = "live", UNCHANGED tableVars, held' = held,
           PointersChange(t, q, o, n), PointersBalanced(t, q, o, n, 0)
    PROVE  ObInv'
<1> DEFINE H == [objects[o] EXCEPT !.pointers = n]
<1>1. /\ q # <<>> => q[1].op # "created"
      /\ todo[t] # <<>> => todo[t][1].op # "close"
  BY DEF PointersChange
<1>2. H \in Headers /\ H.handles = objects[o].handles
  BY <1>1, PointersOnly
<1>3. objects' = [objects EXCEPT ![o] = H]
  BY DEF PointersChange
<1> HIDE DEF H
<1>4. Referred(o, 0)
  BY <1>2, <1>3, ReferredSame
<1> QED BY <1>4, PointersMove

\* A header that stays.
LEMMA HeaderStays ==
    ASSUME ObInv, NEW o \in AllObjects
    PROVE  /\ [objects[o] EXCEPT !.pointers = objects[o].pointers] = objects[o]
           /\ [objects EXCEPT ![o] = [objects[o] EXCEPT !.pointers = objects[o].pointers]] = objects
<1>1. objects \in [AllObjects -> Headers] /\ objects[o] \in Headers
  BY DEF ObInv, ObTypes
<1>2. [objects[o] EXCEPT !.pointers = objects[o].pointers] = objects[o]
  BY <1>1 DEF Headers
<1> QED BY <1>1, <1>2

\* An operation gives up: its object goes.
LEMMA GiveUpRight ==
    ASSUME ObInv, NEW t \in Threads, NEW op \in {"insert", "parse"}, At(t, op),
           Then(t, <<Step("deref", Current(t).obj)>>),
           UNCHANGED tableVars, objects' = objects, held' = held, crashed' = crashed
    PROVE  ObInv'
<1> DEFINE o == todo[t][1].obj
           s == Step("deref", o)
           q == <<s>> \o Tail(todo[t])
           n == objects[o].pointers
<1>2. /\ todo[t] # <<>> /\ todo[t][1].op = op /\ Current(t) = todo[t][1]
      /\ 1 \in 1..Len(todo[t]) /\ o \in AllObjects /\ objects[o].state = "live"
      /\ objects[o].pointers > 0
  BY FirstStep
<1>3. s \in Steps /\ s.op = "deref" /\ s.obj = o
  BY <1>2, StepsAre
<1>4. Then(t, <<s>>)
  BY <1>2
<1> HIDE DEF s
<1>5. /\ todo' = [todo EXCEPT ![t] = q] /\ q \in Plans /\ q # <<>> /\ q[1] = s
      /\ \A x, ops : /\ Count(Tail(todo[t]), x, ops) \in Nat
                     /\ Count(todo[t], x, ops)
                          = Hit(todo[t][1], x, ops) + Count(Tail(todo[t]), x, ops)
                     /\ Count(q, x, ops) = Hit(s, x, ops) + Count(Tail(todo[t]), x, ops)
  BY <1>3, <1>4, OneLeft
<1> HIDE DEF q
<1>6. PointersBalanced(t, q, o, n, 0)
  <2>1. ASSUME NEW x \in AllObjects
        PROVE  /\ Count(todo[t], x, Owning) = Count(q, x, Owning)
               /\ Count(todo[t], x, {"free"}) = Count(q, x, {"free"})
               /\ objects[x].pointers \in Nat
               /\ Count(q, x, Owning) \in Nat
    <3>1. Hit(todo[t][1], x, Owning) = (IF o = x THEN 1 ELSE 0) /\ Hit(todo[t][1], x, {"free"}) = 0
      BY <1>2, HitIs DEF Owning
    <3>2. Hit(s, x, Owning) = (IF o = x THEN 1 ELSE 0) /\ Hit(s, x, {"free"}) = 0
      BY <1>3, HitIs DEF Owning
    <3> QED BY <1>5, <3>1, <3>2, Numbers, CountSteps
  <2> QED BY <2>1 DEF PointersBalanced
<1>7. o \in Objects => \A u \in Threads \ {t} : ~NamedInsert(u, o)
  BY <1>2, Touched
<1>8. n \in Nat /\ objects' = [objects EXCEPT ![o] = [objects[o] EXCEPT !.pointers = n]]
  BY <1>2, Numbers, HeaderStays
<1>9. PointersChange(t, q, o, n)
  BY <1>2, <1>3, <1>5, <1>7, <1>8 DEF PointersChange
<1> HIDE DEF n, o
<1> QED BY <1>2, <1>5, <1>6, <1>8, <1>9, PointersStay

\* A reference more, and an operation that owns it.
LEMMA ReferenceRight ==
    ASSUME ObInv, NEW t \in Threads, Idle(t), NEW o \in Objects,
           objects[o].state = "live", objects[o].pointers > 0,
           \A u \in Threads \ {t} : ~NamedInsert(u, o),
           NEW s \in Steps, s.op \in {"insert", "parse", "handle", "deref"}, s.obj = o,
           s.op = "insert" => s.name = NoName,
           objects' = [objects EXCEPT ![o].pointers = @ + 1], Start(t, <<s>>),
           UNCHANGED tableVars, held' = held, crashed' = crashed
    PROVE  ObInv'
<1> DEFINE q == <<s>>
           n == objects[o].pointers + 1
<1>1. o \in AllObjects /\ objects[o].pointers \in Nat /\ n \in Nat
  BY EntriesAre, Numbers
<1>2. q \in Plans /\ q # <<>> /\ q[1] = s
  BY PlansNew
<1>3. todo' = [todo EXCEPT ![t] = q] /\ todo[t] = <<>>
  BY DEF Start, Idle
<1>4. \A x, ops : Count(todo[t], x, ops) = 0 /\ Count(q, x, ops) = Hit(s, x, ops)
  BY CountIdle, CountSteps
<1> HIDE DEF q
<1>5. s.op \in Owning
  BY DEF Owning
<1>6. PointersBalanced(t, q, o, n, 0)
  <2>1. ASSUME NEW x \in AllObjects
        PROVE  /\ Count(todo[t], x, Owning) = 0 /\ Count(q, x, Owning) = (IF x = o THEN 1 ELSE 0)
               /\ Count(todo[t], x, {"free"}) = 0 /\ Count(q, x, {"free"}) = 0
               /\ objects[x].pointers \in Nat
    BY <1>4, <1>5, HitIs, Numbers
  <2> QED BY <1>1, <2>1 DEF PointersBalanced
<1>7. PointersChange(t, q, o, n)
  BY <1>2, <1>3 DEF PointersChange
<1> HIDE DEF n
<1> QED BY <1>1, <1>2, <1>6, <1>7, PointersStay

\* What a handle stands for.
LEMMA HandleOf ==
    ASSUME ObInv, NEW t \in Threads, NEW h \in Handles, IsObject(h)
    PROVE  /\ table[h] \in Objects /\ table[h] \in AllObjects
           /\ objects[table[h]].state = "live" /\ objects[table[h]].pointers > 0
           /\ \A u \in Threads \ {t} : ~NamedInsert(u, table[h])
<1>1. table[h] \in Objects /\ table[h] \in AllObjects
  BY EntriesAre DEF IsObject
<1>2. objects[table[h]].state = "live" /\ objects[table[h]].pointers > 0
  BY <1>1, Kept
<1>3. \A u \in Threads \ {t} : ~NamedInsert(u, table[h])
  BY <1>1, Touched
<1> QED BY <1>1, <1>2, <1>3

\* What a caller has.
LEMMA HeldOne ==
    ASSUME ObInv, NEW t \in Threads, NEW o \in Objects, o \in held[t]
    PROVE  /\ o \in AllObjects /\ objects[o].state = "live" /\ objects[o].pointers > 0
           /\ \A u \in Threads \ {t} : ~NamedInsert(u, o)
<1>1. o \in AllObjects
  BY EntriesAre
<1>2. objects[o].state = "live" /\ objects[o].pointers > 0
  BY <1>1, Kept
<1>3. \A u \in Threads \ {t} : ~NamedInsert(u, o)
  BY Touched
<1> QED BY <1>1, <1>2, <1>3

\* ObfDuplicateObject: a reference, for the insertion.
LEMMA DuplicateRight ==
    ASSUME ObInv, NEW t \in Threads, NEW h \in Handles, ObfDuplicateObject(t, h)
    PROVE  ObInv'
<1> DEFINE o == table[h]
           s == [op |-> "insert", obj |-> o, name |-> NoName, attributes |-> {}, bias |-> 0]
<1>1. /\ Idle(t) /\ IsObject(h) /\ objects' = [objects EXCEPT ![o].pointers = @ + 1]
      /\ Start(t, <<s>>) /\ UNCHANGED tableVars /\ held' = held /\ crashed' = crashed
  BY DEF ObfDuplicateObject
<1>2. /\ o \in Objects /\ objects[o].state = "live" /\ objects[o].pointers > 0
      /\ \A u \in Threads \ {t} : ~NamedInsert(u, o)
  BY <1>1, HandleOf
<1>3. s \in Steps /\ s.op = "insert" /\ s.obj = o /\ s.name = NoName
  <2>1. {} \in SUBSET {"openif", "permanent"} /\ NoName \in Names \union {NoName}
        /\ 0 \in {0, 1} /\ 0 # 1
    OBVIOUS
  <2>2. s \in Steps
    BY <1>2, <2>1, StepsAre
  <2> QED BY <2>2
<1> HIDE DEF s, o
<1> QED BY <1>1, <1>2, <1>3, ReferenceRight

\* ObOpenObjectByName: a reference, for the handle or the parse procedure.
LEMMA OpenByNameRight ==
    ASSUME ObInv, NEW t \in Threads, NEW n \in Names, ObOpenObjectByName(t, n)
    PROVE  ObInv'
<1>1. PICK o \in Linked(n) :
          /\ objects' = [objects EXCEPT ![o].pointers = @ + 1]
          /\ Start(t, IF objects[o].kind = "device" THEN <<Step("parse", o)>>
                      ELSE <<Step("handle", o)>>)
  BY DEF ObOpenObjectByName
<1>2. Idle(t) /\ UNCHANGED tableVars /\ held' = held /\ crashed' = crashed
  BY DEF ObOpenObjectByName
<1>3. o \in Objects /\ o \in AllObjects /\ objects[o].linked
  BY EntriesAre DEF Linked
<1>4. /\ objects[o].state = "live" /\ objects[o].pointers > 0
      /\ \A u \in Threads \ {t} : ~NamedInsert(u, o)
  BY <1>3, Kept, Touched
<1> DEFINE s == Step(IF objects[o].kind = "device" THEN "parse" ELSE "handle", o)
<1>5. s \in Steps /\ s.op \in {"parse", "handle"} /\ s.obj = o /\ Start(t, <<s>>)
  BY <1>1, <1>3, StepsAre
<1> HIDE DEF s
<1> QED BY <1>1, <1>2, <1>3, <1>4, <1>5, ReferenceRight

\* ObOpenObjectByPointer: a reference, for the handle.
LEMMA OpenByPointerRight ==
    ASSUME ObInv, NEW t \in Threads, NEW o \in Objects, ObOpenObjectByPointer(t, o)
    PROVE  ObInv'
<1>1. /\ Idle(t) /\ o \in held[t] /\ objects' = [objects EXCEPT ![o].pointers = @ + 1]
      /\ Start(t, <<Step("handle", o)>>) /\ UNCHANGED tableVars /\ held' = held
      /\ crashed' = crashed
  BY DEF ObOpenObjectByPointer
<1>2. /\ objects[o].state = "live" /\ objects[o].pointers > 0
      /\ \A u \in Threads \ {t} : ~NamedInsert(u, o)
  BY <1>1, HeldOne
<1> DEFINE s == Step("handle", o)
<1>3. s \in Steps /\ s.op = "handle" /\ s.obj = o
  BY StepsAre
<1> HIDE DEF s
<1>4. Start(t, <<s>>)
  BY <1>1 DEF s
<1> QED BY <1>1, <1>2, <1>3, <1>4, ReferenceRight

\* ObReferenceObjectByHandle: a reference for the caller, or one that goes.
LEMMA ReferenceByHandleRight ==
    ASSUME ObInv, NEW t \in Threads, NEW h \in Handles, ObReferenceObjectByHandle(t, h)
    PROVE  ObInv'
<1> DEFINE o == table[h]
           n == objects[o].pointers + 1
           s == Step("deref", o)
<1>1. /\ Idle(t) /\ IsObject(h) /\ objects' = [objects EXCEPT ![o].pointers = @ + 1]
      /\ UNCHANGED tableVars /\ crashed' = crashed
  BY DEF ObReferenceObjectByHandle
<1>2. /\ o \in Objects /\ o \in AllObjects /\ objects[o].state = "live" /\ objects[o].pointers > 0
      /\ \A u \in Threads \ {t} : ~NamedInsert(u, o)
  BY <1>1, HandleOf
<1>3. CASE Start(t, <<s>>) /\ held' = held
  <2>1. s \in Steps /\ s.op = "deref" /\ s.obj = o
    BY <1>2, StepsAre
  <2> HIDE DEF s, o
  <2> QED BY <1>1, <1>2, <1>3, <2>1, ReferenceRight
<1>4. CASE o \notin held[t] /\ held' = [held EXCEPT ![t] = @ \union {o}] /\ todo' = todo
  <2> DEFINE H == [objects[o] EXCEPT !.pointers = n]
  <2>1. todo[t] = <<>> /\ todo \in [Threads -> Plans] /\ todo' = [todo EXCEPT ![t] = <<>>]
    BY <1>1, <1>4, Lists DEF Idle
  <2>2. objects' = [objects EXCEPT ![o] = H] /\ n \in Nat /\ <<>> \in Plans
    BY <1>1, <1>2, Numbers, PlansNew
  <2>3. H \in Headers /\ H.handles = objects[o].handles
    BY <1>2, <2>1, <2>2, PointersOnly
  <2>4. PointersChange(t, <<>>, o, n)
    BY <1>1, <1>2, <2>1, <2>2 DEF PointersChange
  <2> HIDE DEF H
  <2>5. Referred(o, 1)
    BY <1>1, <1>2, <1>4, <2>2, <2>3, ReferredHold
  <2>6. PointersBalanced(t, <<>>, o, n, 1)
    <3>1. ASSUME NEW x \in AllObjects
          PROVE  /\ Count(todo[t], x, Owning) = 0 /\ Count(<<>>, x, Owning) = 0
                 /\ Count(todo[t], x, {"free"}) = 0 /\ Count(<<>>, x, {"free"}) = 0
                 /\ objects[x].pointers \in Nat
      BY <2>1, CountSteps, Numbers
    <3> QED BY <1>2, <3>1 DEF PointersBalanced
  <2> HIDE DEF n, o
  <2> QED BY <1>2, <2>2, <2>4, <2>5, <2>6, PointersMove
<1> QED BY <1>3, <1>4 DEF ObReferenceObjectByHandle

\* ObfDereferenceObject is called: the caller's reference becomes the operation's.
LEMMA DropReferenceRight ==
    ASSUME ObInv, NEW t \in Threads, NEW o \in Objects, DropReference(t, o)
    PROVE  ObInv'
<1> DEFINE n == objects[o].pointers
           H == [objects[o] EXCEPT !.pointers = n]
           s == Step("deref", o)
           q == <<s>>
<1>1. /\ Idle(t) /\ o \in held[t] /\ held' = [held EXCEPT ![t] = @ \ {o}]
      /\ todo' = [todo EXCEPT ![t] = q] /\ UNCHANGED tableVars /\ objects' = objects
      /\ crashed' = crashed
  BY DEF DropReference, Start
<1>2. /\ o \in AllObjects /\ objects[o].state = "live" /\ objects[o].pointers > 0
      /\ \A u \in Threads \ {t} : ~NamedInsert(u, o)
  BY <1>1, HeldOne
<1>3. s \in Steps /\ s.op = "deref" /\ s.obj = o
  BY <1>2, StepsAre
<1> HIDE DEF s
<1>4. q \in Plans /\ q # <<>> /\ q[1] = s
  BY <1>3, PlansNew
<1>5. \A x, ops : Count(todo[t], x, ops) = 0 /\ Count(q, x, ops) = Hit(s, x, ops)
  BY <1>1, CountIdle, CountSteps
<1> HIDE DEF q
<1>6. n \in Nat /\ objects' = [objects EXCEPT ![o] = H] /\ H = objects[o]
  BY <1>1, <1>2, Numbers, HeaderStays
<1>7. PointersChange(t, q, o, n)
  BY <1>1, <1>2, <1>3, <1>4, <1>6 DEF PointersChange, Idle
<1> HIDE DEF H
<1>8. H \in Headers /\ H.handles = objects[o].handles
  BY <1>2, <1>6, Numbers
<1>9. Referred(o, -1)
  BY <1>1, <1>6, <1>8, ReferredDrop
<1>10. PointersBalanced(t, q, o, n, -1)
  <2>1. ASSUME NEW x \in AllObjects
        PROVE  /\ Count(todo[t], x, Owning) = 0 /\ Count(q, x, Owning) = (IF x = o THEN 1 ELSE 0)
               /\ Count(todo[t], x, {"free"}) = 0 /\ Count(q, x, {"free"}) = 0
               /\ objects[x].pointers \in Nat
    BY <1>3, <1>5, HitIs, Numbers DEF Owning
  <2> QED BY <1>2, <2>1 DEF PointersBalanced
<1> HIDE DEF n
<1> QED BY <1>2, <1>4, <1>6, <1>7, <1>9, <1>10, PointersMove

\* ObfDereferenceObject: the decrement, and perhaps the deletion.
LEMMA DereferenceRight ==
    ASSUME ObInv, NEW t \in Threads, Dereference(t)
    PROVE  ObInv'
<1> DEFINE o == todo[t][1].obj
           n == objects[o].pointers - 1
           s == Step("free", o)
           r == Tail(todo[t])
<1>1. /\ At(t, "deref") /\ UNCHANGED tableVars /\ held' = held /\ crashed' = crashed
      /\ objects' = [objects EXCEPT ![Current(t).obj].pointers = @ - 1]
      /\ Then(t, IF objects[Current(t).obj].pointers = 1 THEN <<Step("free", Current(t).obj)>>
                 ELSE <<>>)
  BY DEF Dereference
<1>2. /\ todo[t] # <<>> /\ todo[t][1].op = "deref" /\ Current(t) = todo[t][1]
      /\ 1 \in 1..Len(todo[t]) /\ o \in AllObjects /\ objects[o].state = "live"
      /\ objects[o].pointers > 0 /\ todo[t] \in Plans
  BY <1>1, FirstStep
<1>3. objects[o].pointers \in Nat /\ n \in Nat
  BY <1>2, Numbers
<1>4. o \in Objects => \A u \in Threads \ {t} : ~NamedInsert(u, o)
  BY <1>2, Touched
<1>5. ASSUME NEW x
      PROVE  /\ Hit(todo[t][1], x, Owning) = (IF x = o THEN 1 ELSE 0)
             /\ Hit(todo[t][1], x, {"free"}) = 0
  BY <1>2, HitIs DEF Owning
<1>6. CASE objects[o].pointers = 1
  <2> DEFINE q == <<s>> \o r
  <2>1. s \in Steps /\ s.op = "free" /\ s.obj = o /\ Then(t, <<s>>)
    BY <1>1, <1>2, <1>6, StepsAre
  <2> HIDE DEF s
  <2>2. /\ todo' = [todo EXCEPT ![t] = q] /\ q \in Plans /\ q # <<>> /\ q[1] = s
        /\ \A x, ops : /\ Count(r, x, ops) \in Nat
                       /\ Count(todo[t], x, ops) = Hit(todo[t][1], x, ops) + Count(r, x, ops)
                       /\ Count(q, x, ops) = Hit(s, x, ops) + Count(r, x, ops)
    BY <1>1, <2>1, OneLeft
  <2> HIDE DEF q, r
  <2>3. PointersChange(t, q, o, n)
    BY <1>1, <1>2, <1>4, <2>1, <2>2 DEF PointersChange
  <2>4. PointersBalanced(t, q, o, n, 0)
    <3>1. ASSUME NEW x \in AllObjects
          PROVE  /\ Hit(s, x, Owning) = 0 /\ Hit(s, x, {"free"}) = (IF x = o THEN 1 ELSE 0)
                 /\ objects[x].pointers \in Nat
      BY <2>1, HitIs, Numbers
    <3> HIDE DEF o
    <3>2. n = 0
      BY <1>6
    <3> QED BY <1>3, <1>5, <1>6, <2>2, <3>1, <3>2 DEF PointersBalanced
  <2> HIDE DEF n, o
  <2> QED BY <1>1, <1>2, <1>3, <2>2, <2>3, <2>4, PointersStay
<1>7. CASE objects[o].pointers # 1
  <2>1. Then(t, <<>>)
    BY <1>1, <1>2, <1>7
  <2>2. /\ todo' = [todo EXCEPT ![t] = r] /\ r \in Plans
        /\ \A x, ops : Count(todo[t], x, ops) = Hit(todo[t][1], x, ops) + Count(r, x, ops)
    BY <1>1, <2>1, NothingLeft
  <2>3. r # <<>> => r[1].op \in {"deref", "handle"}
    <3>1. \/ \A i \in 1..Len(r) : r[i].op = "deref"
          \/ r[1].op = "handle"
      BY <1>2, PlanTail
    <3> HIDE DEF r
    <3>2. r # <<>> => 1 \in 1..Len(r)
      BY <2>2, PlansAre
    <3> QED BY <3>1, <3>2
  <2> HIDE DEF r
  <2>4. PointersChange(t, r, o, n)
    BY <1>1, <1>2, <1>4, <2>2, <2>3 DEF PointersChange
  <2>5. PointersBalanced(t, r, o, n, 0)
    <3>1. ASSUME NEW x \in AllObjects
          PROVE  objects[x].pointers \in Nat /\ Count(r, x, Owning) \in Nat
                 /\ Count(r, x, {"free"}) \in Nat
      BY Numbers, CountSteps
    <3> HIDE DEF o
    <3>2. n # 0 /\ objects[o].pointers # 0
      BY <1>2, <1>3, <1>7
    <3> QED BY <1>3, <1>5, <2>2, <3>1, <3>2 DEF PointersBalanced
  <2> HIDE DEF n, o
  <2> QED BY <1>1, <1>2, <1>3, <2>2, <2>4, <2>5, PointersStay
<1> QED BY <1>6, <1>7

\* The handle of an object under way, for which a file is waiting perhaps.
LEMMA OpenHandleRight ==
    ASSUME ObInv, NEW t \in Threads, OpenHandle(t)
    PROVE  ObInv'
<1> DEFINE o == todo[t][1].obj
           H == [objects[o] EXCEPT !.handles = @ + 1]
           r == Tail(todo[t])
<1>1. /\ At(t, "handle") /\ firstFree # DecodedEnd /\ TakeHandle(Current(t).obj)
      /\ objects' = [objects EXCEPT ![Current(t).obj].handles = @ + 1]
      /\ Then(t, <<>>) /\ held' = held /\ crashed' = crashed
  BY DEF OpenHandle
<1>2. /\ todo[t] # <<>> /\ todo[t][1].op = "handle" /\ Current(t) = todo[t][1]
      /\ 1 \in 1..Len(todo[t]) /\ o \in AllObjects /\ objects[o].state = "live"
      /\ objects[o].pointers > 0 /\ todo[t] \in Plans /\ todo[t][1] \in Steps
  BY <1>1, FirstStep
<1>3. o \in Objects
  BY <1>2, StepIs
<1>4. \A u \in Threads \ {t} : ~NamedInsert(u, o)
  BY <1>2, <1>3, Touched
<1>5. ASSUME NEW x
      PROVE  /\ Hit(todo[t][1], x, Owning) = (IF x = o THEN 1 ELSE 0)
             /\ Hit(todo[t][1], x, {"free"}) = 0
  BY <1>2, HitIs DEF Owning
<1>6. /\ todo' = [todo EXCEPT ![t] = r] /\ r \in Plans
      /\ \A x, ops : Count(todo[t], x, ops) = Hit(todo[t][1], x, ops) + Count(r, x, ops)
  BY <1>1, NothingLeft
<1>7. r # <<>> => r[1].op = "created" /\ r[1].obj = o
  BY <1>2, PlanTail
<1> HIDE DEF r
<1>8. /\ H \in Headers /\ H.handles = objects[o].handles + 1 /\ H.handles > 0
      /\ H.pointers = objects[o].pointers /\ H.state = "live"
      /\ H.linked = objects[o].linked /\ H.attached = objects[o].attached
      /\ H.name = objects[o].name /\ H.kind = objects[o].kind
      /\ H.device = objects[o].device
      /\ H.handleCreated = objects[o].handleCreated /\ H.cleaned = objects[o].cleaned
  <2>1. objects[o] \in Headers /\ objects[o].handles \in Nat
    BY <1>2, Numbers
  <2> HIDE DEF o
  <2>2. objects[o].handles + 1 \in Nat /\ objects[o].handles + 1 > 0
    BY <2>1
  <2>3. H \in Headers /\ H.handles = objects[o].handles + 1
    BY <2>1, <2>2 DEF Headers
  <2> QED BY <1>2, <2>1, <2>2, <2>3 DEF Headers
<1>9. objects' = [objects EXCEPT ![o] = H]
  BY <1>1, <1>2
<1> HIDE DEF H
<1>10. Referred(o, 1)
  <2>1. TakeHandle(o)
    BY <1>1, <1>2
  <2> HIDE DEF o
  <2> QED BY <1>1, <1>3, <1>8, <1>9, <2>1, ReferredTake
<1>11. Moves(t, r, o, H)
  BY <1>1, <1>6, <1>9 DEF Moves
<1>12. HeaderMoves(o, H)
  <2>1. objects[o].linked => objects[o].attached
    BY <1>3 DEF ObInv, LinksRight
  <2> QED BY <1>8, <2>1 DEF HeaderMoves
<1>13. NamedMoves(t, r, o, H)
  BY <1>4, <1>7 DEF NamedMoves
<1>14. FileMoves(t, r, o, H)
  BY <1>2, <1>7, <1>8 DEF FileMoves, HadHandle
<1>15. Balanced(t, r, o, H, 1)
  <2>1. ASSUME NEW x \in AllObjects
        PROVE  /\ objects[x].pointers \in Nat /\ Count(r, x, Owning) \in Nat
               /\ Count(r, x, {"free"}) \in Nat /\ Unlinked(o, H, x) = 0
    BY <1>8, Numbers, CountSteps DEF Unlinked
  <2> HIDE DEF o
  <2> QED BY <1>2, <1>5, <1>6, <1>8, <2>1 DEF Balanced
<1> HIDE DEF o
<1> QED BY <1>2, <1>6, <1>8, <1>10, <1>11, <1>12, <1>13, <1>14, <1>15, ObjectMoves

\* IoCreateFile after the open.
LEMMA FileCreatedRight ==
    ASSUME ObInv, NEW t \in Threads, FileCreated(t)
    PROVE  ObInv'
<1> DEFINE o == todo[t][1].obj
           s == Step("deref", o)
           q == <<s>> \o Tail(todo[t])
           H == [objects[o] EXCEPT !.handleCreated = TRUE]
<1>1. /\ At(t, "created") /\ UNCHANGED tableVars /\ held' = held /\ crashed' = crashed
      /\ objects' = [objects EXCEPT ![Current(t).obj].handleCreated = TRUE]
      /\ Then(t, <<Step("deref", Current(t).obj)>>)
  BY DEF FileCreated
<1>2. /\ todo[t] # <<>> /\ todo[t][1].op = "created" /\ Current(t) = todo[t][1]
      /\ 1 \in 1..Len(todo[t]) /\ o \in AllObjects /\ objects[o].state = "live"
      /\ objects[o].pointers > 0
  BY <1>1, FirstStep
<1>3. s \in Steps /\ s.op = "deref" /\ s.obj = o /\ Then(t, <<s>>)
  BY <1>1, <1>2, StepsAre
<1> HIDE DEF s
<1>4. /\ todo' = [todo EXCEPT ![t] = q] /\ q \in Plans /\ q # <<>> /\ q[1] = s
      /\ \A x, ops : /\ Count(Tail(todo[t]), x, ops) \in Nat
                     /\ Count(todo[t], x, ops)
                          = Hit(todo[t][1], x, ops) + Count(Tail(todo[t]), x, ops)
                     /\ Count(q, x, ops) = Hit(s, x, ops) + Count(Tail(todo[t]), x, ops)
  BY <1>1, <1>3, OneLeft
<1> HIDE DEF q
<1>5. o \in Objects => \A u \in Threads \ {t} : ~NamedInsert(u, o)
  BY <1>2, Touched
<1>6. HadHandle(o)
  BY <1>2 DEF HadHandle
<1>7. objects' = [objects EXCEPT ![o] = H]
  BY <1>1, <1>2
<1>8. objects[o] \in Headers
  BY <1>2, Numbers
<1>9. ASSUME NEW x \in AllObjects
      PROVE  /\ Count(todo[t], x, Owning) = Count(q, x, Owning)
             /\ Count(todo[t], x, {"free"}) = Count(q, x, {"free"})
             /\ objects[x].pointers \in Nat /\ Count(q, x, Owning) \in Nat
  <2>1. Hit(todo[t][1], x, Owning) = (IF o = x THEN 1 ELSE 0) /\ Hit(todo[t][1], x, {"free"}) = 0
    BY <1>2, HitIs DEF Owning
  <2>2. Hit(s, x, Owning) = (IF o = x THEN 1 ELSE 0) /\ Hit(s, x, {"free"}) = 0
    BY <1>3, HitIs DEF Owning
  <2> QED BY <1>4, <2>1, <2>2, Numbers, CountSteps
<1>10. todo[t][1].op # "close" /\ q[1].op = "deref"
  BY <1>2, <1>3, <1>4
<1> HIDE DEF o
<1>11. /\ H \in Headers /\ H.handles = objects[o].handles /\ H.pointers = objects[o].pointers
       /\ H.state = "live" /\ H.linked = objects[o].linked /\ H.attached = objects[o].attached
       /\ H.name = objects[o].name /\ H.kind = objects[o].kind
       /\ H.permanent = objects[o].permanent /\ H.device = objects[o].device
       /\ H.cleaned = objects[o].cleaned
  BY <1>2, <1>8 DEF Headers
<1> HIDE DEF H
<1>12. Referred(o, 0)
  BY <1>1, <1>2, <1>7, <1>11, ReferredSame
<1>13. Moves(t, q, o, H)
  BY <1>1, <1>4, <1>7 DEF Moves
<1>14. HeaderMoves(o, H)
  <2>1. objects[o].linked => o \in Objects
    BY <1>2 DEF ObInv, LinksRight, AllObjects
  <2>2. objects[o].linked => objects[o].attached /\ (objects[o].permanent \/ objects[o].handles > 0)
    BY <2>1 DEF ObInv, LinksRight
  <2> QED BY <1>11, <2>2 DEF HeaderMoves
<1>15. NamedMoves(t, q, o, H)
  BY <1>5, <1>10 DEF NamedMoves
<1>16. FileMoves(t, q, o, H)
  BY <1>6, <1>10, <1>11 DEF FileMoves
<1>17. Balanced(t, q, o, H, 0)
  <2>1. \A x : Unlinked(o, H, x) = 0
    BY <1>11 DEF Unlinked
  <2> QED BY <1>2, <1>9, <1>11, <2>1 DEF Balanced
<1> QED BY <1>2, <1>4, <1>11, <1>12, <1>13, <1>14, <1>15, <1>16, <1>17, ObjectMoves

\* The deletion: a file that no handle was created for is cleaned up.
LEMMA FreeRight ==
    ASSUME ObInv, NEW t \in Threads, Free(t)
    PROVE  ObInv'
<1> DEFINE o == todo[t][1].obj
           r == Tail(todo[t])
           cleans == objects[o].device /\ ~objects[o].handleCreated
           H == [objects[o] EXCEPT !.state = "freed", !.cleaned = @ \/ cleans]
<1>1. /\ At(t, "free") /\ UNCHANGED tableVars /\ held' = held /\ crashed' = crashed
      /\ Current(t) = todo[t][1] => objects' = [objects EXCEPT ![o].state = "freed",
                                                     ![o].cleaned = @ \/ cleans]
      /\ Then(t, <<>>)
  BY DEF Free
<1>2. /\ todo[t] # <<>> /\ todo[t][1].op = "free" /\ Current(t) = todo[t][1]
      /\ 1 \in 1..Len(todo[t]) /\ o \in AllObjects /\ todo[t] \in Plans
  BY <1>1, FirstStep
<1>3. /\ todo' = [todo EXCEPT ![t] = r] /\ r \in Plans
      /\ \A x, ops : Count(todo[t], x, ops) = Hit(todo[t][1], x, ops) + Count(r, x, ops)
  BY <1>1, NothingLeft
<1>4. r # <<>> => r[1].op \in {"deref", "handle"}
  <2>1. \/ \A i \in 1..Len(r) : r[i].op = "deref"
        \/ r[1].op = "handle"
    BY <1>2, PlanTail
  <2> HIDE DEF r
  <2>2. r # <<>> => 1 \in 1..Len(r)
    BY <1>3, PlansAre
  <2> QED BY <2>1, <2>2
<1> HIDE DEF r
<1>5. objects[o].state = "live" /\ objects[o].pointers = 0
  BY <1>2, Doomed
<1>6. objects' = [objects EXCEPT ![o] = H] /\ objects[o] \in Headers
  BY <1>1, <1>2, Numbers
<1>7. ASSUME NEW x
      PROVE  /\ Hit(todo[t][1], x, Owning) = 0
             /\ Hit(todo[t][1], x, {"free"}) = (IF x = o THEN 1 ELSE 0)
  BY <1>2, HitIs
<1>8. ~objects[o].linked /\ ~(\E h \in Handles : table[h] = o)
      /\ ~\E u \in Threads : \E i \in 1..Len(todo[u]) :
            todo[u][i].obj = o /\ todo[u][i].op \in Owning
  BY <1>2, <1>5, Kept
<1>9. o \in Objects => \A u \in Threads \ {t} : ~NamedInsert(u, o)
  BY <1>2, Touched
<1>10. o \in Objects => objects[o].handles = 0
  <2>1. HandlesTo(o) = {}
    BY <1>8 DEF HandlesTo
  <2> QED BY <2>1, FS_EmptySet DEF ObInv, HandleCountsExact
<1>11. ~Closing(o)
  <2> SUFFICES ASSUME NEW u \in Threads, todo[u] # <<>>, todo[u][1].op = "close", todo[u][1].obj = o
               PROVE  FALSE
    BY DEF Closing
  <2>1. 1 \in 1..Len(todo[u])
    BY Lists
  <2>2. objects[o].pointers > 0
    BY <2>1, StepsOnLive
  <2> QED BY <1>5, <2>2
<1>12. todo[t][1].op # "close"
  BY <1>2
<1> HIDE DEF o
<1>13. o \in Objects /\ objects[o].device => objects[o].kind = "file" /\ (objects[o].cleaned \/ cleans)
  <2>1. objects[o].handleCreated => HadHandle(o)
    BY DEF HadHandle
  <2> QED BY <1>10, <1>11, <2>1 DEF ObInv, FilesRight
<1>14. /\ H \in Headers /\ H.handles = objects[o].handles /\ H.pointers = 0
       /\ H.state = "freed" /\ ~H.linked
       /\ H.name = objects[o].name /\ H.kind = objects[o].kind /\ H.device = objects[o].device
       /\ H.handleCreated = objects[o].handleCreated
       /\ (objects[o].cleaned \/ cleans => H.cleaned)
  BY <1>5, <1>6, <1>8 DEF Headers
<1> HIDE DEF H, cleans
<1>15. Referred(o, 0)
  BY <1>1, <1>2, <1>6, <1>14, ReferredSame
<1>16. Moves(t, r, o, H)
  BY <1>1, <1>3, <1>6 DEF Moves
<1>17. HeaderMoves(o, H)
  BY <1>14 DEF HeaderMoves
<1>18. NamedMoves(t, r, o, H)
  BY <1>4, <1>9 DEF NamedMoves
<1>19. FileMoves(t, r, o, H)
  BY <1>4, <1>12, <1>13, <1>14 DEF FileMoves
<1>20. Balanced(t, r, o, H, 0)
  <2>1. ASSUME NEW x \in AllObjects
        PROVE  /\ objects[x].pointers \in Nat /\ Count(r, x, Owning) \in Nat
               /\ Count(r, x, {"free"}) \in Nat /\ Unlinked(o, H, x) = 0
    BY <1>8, Numbers, CountSteps DEF Unlinked
  <2> QED BY <1>3, <1>5, <1>7, <1>14, <2>1 DEF Balanced
<1> QED BY <1>2, <1>3, <1>14, <1>15, <1>16, <1>17, <1>18, <1>19, <1>20, ObjectMoves

\* IopCloseFile: the cleanup, if this was the last handle.
LEMMA CloseFileRight ==
    ASSUME ObInv, NEW t \in Threads, IopCloseFile(t)
    PROVE  ObInv'
<1> DEFINE o == todo[t][1].obj
           r == Tail(todo[t])
           H == IF todo[t][1].handles = 1
                THEN [objects[o] EXCEPT !.handleCreated = TRUE, !.cleaned = TRUE]
                ELSE objects[o]
<1>1. /\ At(t, "close") /\ UNCHANGED tableVars /\ held' = held /\ crashed' = crashed
      /\ Then(t, <<>>)
      /\ IF Current(t).handles = 1
         THEN objects' = [objects EXCEPT ![Current(t).obj].handleCreated = TRUE,
                                         ![Current(t).obj].cleaned = TRUE]
         ELSE objects' = objects
  BY DEF IopCloseFile
<1>2. /\ todo[t] # <<>> /\ todo[t][1].op = "close" /\ Current(t) = todo[t][1]
      /\ 1 \in 1..Len(todo[t]) /\ o \in AllObjects /\ objects[o].state = "live"
      /\ objects[o].pointers > 0 /\ todo[t] \in Plans /\ todo[t][1] \in Steps
  BY <1>1, FirstStep
<1>3. /\ todo' = [todo EXCEPT ![t] = r] /\ r \in Plans
      /\ \A x, ops : Count(todo[t], x, ops) = Hit(todo[t][1], x, ops) + Count(r, x, ops)
  BY <1>1, NothingLeft
<1>4. r # <<>> => r[1].op = "closed"
  BY <1>2, PlanTail
<1> HIDE DEF r
<1>5. o \in Objects /\ objects[o] \in Headers
  BY <1>2, StepIs, Numbers
<1>6. \A u \in Threads \ {t} : ~NamedInsert(u, o)
  BY <1>2, <1>5, Touched
<1>7. ASSUME NEW x
      PROVE  Hit(todo[t][1], x, Owning) = 0 /\ Hit(todo[t][1], x, {"free"}) = 0
  BY <1>2, HitIs
<1>8. objects' = [objects EXCEPT ![o] = H]
  <2>1. objects \in [AllObjects -> Headers]
    BY DEF ObInv, ObTypes
  <2>2. CASE todo[t][1].handles = 1
    BY <1>1, <1>2, <2>1, <2>2
  <2>3. CASE todo[t][1].handles # 1
    BY <1>1, <1>2, <2>1, <2>3
  <2> QED BY <2>2, <2>3
<1>9. todo[t][1].op = "close" /\ (todo[t][1].handles = 1 => H.cleaned)
  BY <1>2, <1>5 DEF Headers
<1>10. H.handleCreated => objects[o].handleCreated \/ H.cleaned
  BY <1>9
<1>11. /\ H \in Headers /\ H.handles = objects[o].handles /\ H.pointers = objects[o].pointers
       /\ H.state = "live" /\ H.linked = objects[o].linked /\ H.attached = objects[o].attached
       /\ H.name = objects[o].name /\ H.kind = objects[o].kind
       /\ H.permanent = objects[o].permanent /\ H.device = objects[o].device
       /\ (objects[o].cleaned => H.cleaned)
  <2> HIDE DEF o
  <2> QED BY <1>2, <1>5 DEF Headers
<1> HIDE DEF H
<1>12. Referred(o, 0)
  <2> HIDE DEF o
  <2> QED BY <1>1, <1>2, <1>8, <1>11, ReferredSame
<1>13. Moves(t, r, o, H)
  BY <1>1, <1>3, <1>8 DEF Moves
<1>14. HeaderMoves(o, H)
  <2>1. objects[o].linked => objects[o].attached /\ (objects[o].permanent \/ objects[o].handles > 0)
    BY <1>5 DEF ObInv, LinksRight
  <2> QED BY <1>11, <2>1 DEF HeaderMoves
<1>15. NamedMoves(t, r, o, H)
  BY <1>4, <1>6 DEF NamedMoves
<1>16. FileMoves(t, r, o, H)
  BY <1>4, <1>9, <1>10, <1>11 DEF FileMoves, HadHandle
<1>17. Balanced(t, r, o, H, 0)
  <2>1. ASSUME NEW x \in AllObjects
        PROVE  /\ objects[x].pointers \in Nat /\ Count(r, x, Owning) \in Nat
               /\ Count(r, x, {"free"}) \in Nat /\ Unlinked(o, H, x) = 0
    BY <1>11, Numbers, CountSteps DEF Unlinked
  <2> HIDE DEF o
  <2> QED BY <1>2, <1>3, <1>7, <1>11, <2>1 DEF Balanced
<1> HIDE DEF o
<1> QED BY <1>2, <1>3, <1>11, <1>12, <1>13, <1>14, <1>15, <1>16, <1>17, ObjectMoves

\* The end of a section with the header of "o" changed to "G".
LeaveSteps(o, G, rest) == LeavingSteps(o, G) \o rest

Leaves(t, o, G, rest) ==
    /\ todo' = [todo EXCEPT ![t] = LeaveSteps(o, G, rest)]
    /\ objects' = [objects EXCEPT ![o] = Left(G)]
    /\ crashed' = crashed
    /\ ~DirectoryIsNull(G)
    /\ \A u \in Threads \ {t} : ~NamedInsert(u, o)
    /\ todo[t] # <<>> => todo[t][1].op # "close"

\* What may have changed in the header.
LeftAlone(o, G) ==
    /\ G.state = "live" /\ G.pointers = objects[o].pointers
    /\ G.linked = objects[o].linked /\ G.attached = objects[o].attached
    /\ G.name = objects[o].name /\ G.kind = objects[o].kind
    /\ G.device = objects[o].device /\ G.handleCreated = objects[o].handleCreated
    /\ G.cleaned = objects[o].cleaned
    /\ G.device /\ objects[o].handles > 0 => G.handles > 0

\* The rest of the operation owns the pointers it has owned before, and the
\* one that a closed handle was.
RestOwns(t, o, rest, d) ==
    \A x \in AllObjects :
        /\ Count(todo[t], x, Owning) = Count(rest, x, Owning) + (IF x = o THEN d ELSE 0)
        /\ Count(todo[t], x, {"free"}) = 0 /\ Count(rest, x, {"free"}) = 0

\* What the end of a section leaves of a header.
LEMMA LeftIs ==
    ASSUME NEW G \in Headers
    PROVE  /\ Left(G) \in Headers /\ Left(G).state = G.state /\ Left(G).pointers = G.pointers
           /\ Left(G).attached = G.attached /\ Left(G).name = G.name /\ Left(G).kind = G.kind
           /\ Left(G).device = G.device /\ Left(G).handleCreated = G.handleCreated
           /\ Left(G).cleaned = G.cleaned /\ Left(G).handles = G.handles
           /\ Left(G).permanent = G.permanent
           /\ IsDetachable(G) => ~Left(G).linked
           /\ ~IsDetachable(G) => Left(G).linked = G.linked
BY DEF Left, Detached, Headers

\* The steps that it leaves.
LEMMA LeavingIs ==
    ASSUME NEW o \in Objects, NEW G \in Headers, NEW rest \in {<<>>, <<Step("deref", o)>>}
    PROVE  /\ LeaveSteps(o, G, rest) \in Plans
           /\ LeaveSteps(o, G, rest) # <<>> => LeaveSteps(o, G, rest)[1].op = "deref"
           /\ \A x \in AllObjects :
                /\ Count(LeaveSteps(o, G, rest), x, Owning)
                     = Count(rest, x, Owning)
                       + (IF IsDetachable(G) /\ x \in {o, Directory} THEN 1 ELSE 0)
                /\ Count(LeaveSteps(o, G, rest), x, {"free"}) = Count(rest, x, {"free"})
<1> DEFINE a == Step("deref", Directory)
           b == Step("deref", o)
<1>1. /\ a \in Steps /\ a.op = "deref" /\ a.obj = Directory
      /\ b \in Steps /\ b.op = "deref" /\ b.obj = o /\ o # Directory
  BY StepsAre, EntriesAre
<1>2. DetachSteps(o) = <<a, b>>
  BY DEF DetachSteps
<1>3. rest = <<>> \/ rest = <<b>>
  OBVIOUS
<1> HIDE DEF a, b
<1>4. /\ <<>> \in Plans /\ <<b>> \in Plans /\ <<a, b>> \in Plans /\ <<a, b, b>> \in Plans
      /\ <<>> \in Seq(Steps) /\ <<b>> \in Seq(Steps) /\ <<a, b>> \in Seq(Steps)
      /\ <<b>>[1] = b /\ <<a, b>>[1] = a /\ <<a, b, b>>[1] = a
  BY <1>1, PlansNew
<1>5. /\ <<>> \o rest = rest /\ <<a, b>> \o <<>> = <<a, b>> /\ <<a, b>> \o <<b>> = <<a, b, b>>
  <2>1. <<>> \o rest = rest /\ <<a, b>> \o <<>> = <<a, b>>
    BY <1>3, <1>4, ConcatEmptySeq
  <2>2. <<a, b>> \o <<b>> = <<a, b, b>>
    <3>1. /\ <<a, b>> \o <<b>> \in Seq(Steps) /\ Len(<<a, b>> \o <<b>>) = 3
          /\ \A i \in 1..2 : (<<a, b>> \o <<b>>)[i] = <<a, b>>[i]
          /\ (<<a, b>> \o <<b>>)[3] = b
      <4>1. Len(<<a, b>>) = 2 /\ Len(<<b>>) = 1 /\ <<b>>[1] = b
        OBVIOUS
      <4>2. /\ <<a, b>> \o <<b>> \in Seq(Steps)
            /\ Len(<<a, b>> \o <<b>>) = Len(<<a, b>>) + Len(<<b>>)
            /\ \A i \in 1..Len(<<a, b>>) : (<<a, b>> \o <<b>>)[i] = <<a, b>>[i]
            /\ \A i \in 1..Len(<<b>>) : (<<a, b>> \o <<b>>)[Len(<<a, b>>) + i] = <<b>>[i]
        BY <1>4, StepsInFront
      <4>3. 1 \in 1..Len(<<b>>) /\ Len(<<a, b>>) + 1 = 3
        BY <4>1
      <4>4. (<<a, b>> \o <<b>>)[3] = b
        BY <4>1, <4>2, <4>3
      <4>5. Len(<<a, b>> \o <<b>>) = 3
        BY <4>1, <4>2
      <4> QED BY <4>1, <4>2, <4>4, <4>5
    <3>2. /\ <<a, b, b>> \in Seq(Steps) /\ Len(<<a, b, b>>) = 3
          /\ \A i \in 1..2 : <<a, b, b>>[i] = <<a, b>>[i]
          /\ <<a, b, b>>[3] = b
      BY <1>1
    <3>3. \A i \in 1..3 : (<<a, b>> \o <<b>>)[i] = <<a, b, b>>[i]
      BY <3>1, <3>2
    <3> QED BY <3>1, <3>2, <3>3, SeqEqual
  <2> QED BY <2>1, <2>2
<1>6. ASSUME NEW x
      PROVE  /\ Hit(a, x, Owning) = (IF x = Directory THEN 1 ELSE 0) /\ Hit(a, x, {"free"}) = 0
             /\ Hit(b, x, Owning) = (IF x = o THEN 1 ELSE 0) /\ Hit(b, x, {"free"}) = 0
  <2>1. a.op \in Owning /\ b.op \in Owning
    BY <1>1 DEF Owning
  <2> QED BY <1>1, <2>1, HitIs
<1>7. CASE ~IsDetachable(G)
  <2>1. LeaveSteps(o, G, rest) = rest
    BY <1>5, <1>7 DEF LeaveSteps, LeavingSteps
  <2>2. \A x : Count(rest, x, Owning) \in Nat /\ Count(rest, x, {"free"}) \in Nat
    BY CountSteps
  <2>3. rest \in Plans /\ (rest # <<>> => rest[1].op = "deref")
    BY <1>1, <1>3, <1>4
  <2> QED BY <1>7, <2>1, <2>2, <2>3
<1>8. CASE IsDetachable(G) /\ rest = <<>>
  <2>1. LeaveSteps(o, G, rest) = <<a, b>>
    BY <1>2, <1>5, <1>8 DEF LeaveSteps, LeavingSteps
  <2>2. \A x, ops : Count(<<a, b>>, x, ops) = Hit(a, x, ops) + Hit(b, x, ops)
                    /\ Count(<<>>, x, ops) = 0
    BY CountSteps
  <2> QED BY <1>1, <1>4, <1>6, <1>8, <2>1, <2>2
<1>9. CASE IsDetachable(G) /\ rest = <<b>>
  <2>1. LeaveSteps(o, G, rest) = <<a, b, b>>
    BY <1>2, <1>5, <1>9 DEF LeaveSteps, LeavingSteps
  <2>2. ASSUME NEW x, NEW ops
        PROVE  Count(<<a, b, b>>, x, ops) = Hit(a, x, ops) + Hit(b, x, ops) + Hit(b, x, ops)
    <3>1. \A e, f, g : Count(<<e, f, g>>, x, ops) = Hit(e, x, ops) + Hit(f, x, ops) + Hit(g, x, ops)
      BY CountSteps
    <3> QED BY <3>1
  <2>3. \A x, ops : Count(<<b>>, x, ops) = Hit(b, x, ops)
    BY CountSteps
  <2> QED BY <1>1, <1>4, <1>6, <1>9, <2>1, <2>2, <2>3
<1> QED BY <1>3, <1>7, <1>8, <1>9

\* An object is detached, or not.
LEMMA LeaveRight ==
    ASSUME ObInv, NEW t \in Threads, NEW o \in Objects, NEW G \in Headers,
           NEW rest \in {<<>>, <<Step("deref", o)>>}, NEW d \in {-1, 0, 1},
           objects[o].state = "live", Leaves(t, o, G, rest), LeftAlone(o, G),
           RestOwns(t, o, rest, d), Referred(o, d)
    PROVE  ObInv'
<1> DEFINE q == LeaveSteps(o, G, rest)
           H == Left(G)
<1>1. /\ q \in Plans
      /\ q # <<>> => q[1].op = "deref"
      /\ \A x \in AllObjects :
           /\ Count(q, x, Owning)
                = Count(rest, x, Owning) + (IF IsDetachable(G) /\ x \in {o, Directory} THEN 1 ELSE 0)
           /\ Count(q, x, {"free"}) = Count(rest, x, {"free"})
  BY LeavingIs
<1>2. /\ H \in Headers /\ H.state = "live" /\ H.pointers = objects[o].pointers
      /\ H.attached = objects[o].attached /\ H.name = objects[o].name /\ H.kind = objects[o].kind
      /\ H.device = objects[o].device /\ H.handleCreated = objects[o].handleCreated
      /\ H.cleaned = objects[o].cleaned /\ H.handles = G.handles /\ H.permanent = G.permanent
      /\ H.device /\ objects[o].handles > 0 => H.handles > 0
      /\ IsDetachable(G) => ~H.linked
      /\ ~IsDetachable(G) => H.linked = objects[o].linked
  BY LeftIs DEF LeftAlone
<1>3. IsDetachable(G) => objects[o].linked
  BY DEF Leaves, DirectoryIsNull, LeftAlone
<1>4. o \in AllObjects /\ objects[o].pointers \in Nat /\ o # Directory
  BY EntriesAre, Numbers
<1>5. Moves(t, q, o, H)
  BY DEF Leaves, Moves
<1>6. HeaderMoves(o, H)
  <2>1. ASSUME H.linked
        PROVE  /\ objects[o].linked /\ H.attached /\ (H.permanent \/ H.handles > 0)
    <3>1. ~IsDetachable(G)
      BY <1>2, <2>1
    <3>2. objects[o].linked /\ objects[o].attached /\ G.attached
      BY <1>2, <2>1, <3>1 DEF ObInv, LinksRight, LeftAlone
    <3>3. G.permanent \/ G.handles # 0
      BY <3>1, <3>2 DEF IsDetachable
    <3>4. G.handles \in Nat
      BY DEF Headers
    <3> QED BY <1>2, <3>2, <3>3, <3>4
  <2> QED BY <1>2, <2>1 DEF HeaderMoves
<1> HIDE DEF q, H
<1>7. NamedMoves(t, q, o, H)
  <2>1. \A u \in Threads \ {t} : ~NamedInsert(u, o)
    BY DEF Leaves
  <2> QED BY <1>1, <2>1 DEF NamedMoves
<1>8. FileMoves(t, q, o, H)
  <2>1. todo[t] # <<>> => todo[t][1].op # "close"
    BY DEF Leaves
  <2> QED BY <1>1, <1>2, <2>1 DEF FileMoves, HadHandle
<1>9. Balanced(t, q, o, H, d)
  <2>1. ASSUME NEW x \in AllObjects
        PROVE  /\ objects[x].pointers \in Nat /\ Count(rest, x, Owning) \in Nat
               /\ Unlinked(o, H, x) = IF IsDetachable(G) /\ x \in {o, Directory} THEN 1 ELSE 0
    BY <1>2, <1>3, Numbers, CountSteps DEF Unlinked
  <2>2. ASSUME NEW x \in AllObjects
        PROVE  objects[x].pointers + Count(todo[t], x, Owning) + Unlinked(o, H, x)
                 = objects[x].pointers + Count(q, x, Owning) + (IF x = o THEN d ELSE 0)
    <3> DEFINE e == IF x = o THEN d ELSE 0
               u == Unlinked(o, H, x)
    <3>1. e \in Int /\ u \in Nat /\ Count(q, x, Owning) = Count(rest, x, Owning) + u
      BY <1>1, <2>1
    <3>2. Count(todo[t], x, Owning) = Count(rest, x, Owning) + e
      BY DEF RestOwns
    <3> HIDE DEF e, u
    <3>3. objects[x].pointers + Count(todo[t], x, Owning) + u
            = objects[x].pointers + Count(q, x, Owning) + e
      BY <2>1, <3>1, <3>2
    <3> QED BY <3>3 DEF e, u
  <2>3. ASSUME NEW x \in AllObjects
        PROVE  Count(todo[t], x, {"free"}) = 0 /\ Count(q, x, {"free"}) = 0
    BY <1>1 DEF RestOwns
  <2> QED BY <1>2, <2>2, <2>3 DEF Balanced
<1> QED BY <1>1, <1>2, <1>4, <1>5, <1>6, <1>7, <1>8, <1>9, ObjectMoves

\* ObfCloseHandle after the close procedure.
LEMMA FinishCloseRight ==
    ASSUME ObInv, NEW t \in Threads, FinishClose(t)
    PROVE  ObInv'
<1> DEFINE o == todo[t][1].obj
           G == objects[o]
           s == Step("deref", o)
           rest == <<s>>
<1>1. /\ At(t, "closed") /\ UNCHANGED tableVars /\ held' = held /\ crashed' = crashed
      /\ ~DirectoryIsNull(objects[Current(t).obj])
      /\ objects' = [objects EXCEPT ![Current(t).obj] = Left(@)]
      /\ Then(t, LeavingSteps(Current(t).obj, objects[Current(t).obj]))
  BY DEF FinishClose
<1>2. /\ todo[t] # <<>> /\ todo[t][1].op = "closed" /\ Current(t) = todo[t][1]
      /\ 1 \in 1..Len(todo[t]) /\ o \in AllObjects /\ objects[o].state = "live"
      /\ todo[t] \in Plans /\ todo[t][1] \in Steps
  BY <1>1, FirstStep
<1>3. o \in Objects /\ G \in Headers
  BY <1>2, StepIs, Numbers
<1>4. s \in Steps /\ s.op = "deref" /\ s.obj = o
  BY <1>3, StepsAre
<1>5. Tail(todo[t]) = rest
  <2> DEFINE r == Tail(todo[t])
  <2>1. r \in Seq(Steps) /\ Len(r) = 1 /\ r[1].op = "deref" /\ r[1].obj = o
    BY <1>2, PlanTail
  <2> HIDE DEF r
  <2>2. r[1] \in Steps /\ 1 \in 1..Len(r)
    <3>1. 1 \in 1..Len(r)
      BY <2>1
    <3> QED BY <2>1, <3>1, ElementOfSeq
  <2>3. r[1] = s
    BY <2>1, <2>2 DEF s, Step, Steps
  <2>4. rest \in Seq(Steps) /\ Len(rest) = 1 /\ rest[1] = s
    BY <1>4
  <2>5. \A i \in 1..Len(r) : r[i] = rest[i]
    BY <2>1, <2>3, <2>4
  <2> HIDE DEF rest, s
  <2>6. r = rest
    BY <2>1, <2>4, <2>5, SeqEqual
  <2> QED BY <2>6 DEF r
<1>6. \A u \in Threads \ {t} : ~NamedInsert(u, o)
  BY <1>2, <1>3, Touched
<1>7. Leaves(t, o, G, rest)
  BY <1>1, <1>2, <1>5, <1>6 DEF Leaves, LeaveSteps, Then
<1>8. LeftAlone(o, G)
  BY <1>2 DEF LeftAlone
<1> HIDE DEF s
<1>9. RestOwns(t, o, rest, 0)
  <2>1. todo[t] \in Seq(Steps) /\ Len(todo[t]) <= 3
    BY Lists
  <2>2. \A x, ops : Count(todo[t], x, ops) = Hit(todo[t][1], x, ops) + Count(rest, x, ops)
    BY <1>2, <1>5, <2>1, CountTail
  <2>3. ASSUME NEW x
        PROVE  /\ Hit(todo[t][1], x, Owning) = 0 /\ Hit(todo[t][1], x, {"free"}) = 0
               /\ Hit(s, x, {"free"}) = 0
    BY <1>2, <1>4, HitIs DEF Owning
  <2>4. ASSUME NEW x
        PROVE  /\ Count(rest, x, Owning) \in Nat /\ Count(rest, x, {"free"}) = Hit(s, x, {"free"})
    BY CountSteps
  <2> HIDE DEF rest, o
  <2> QED BY <2>2, <2>3, <2>4 DEF RestOwns
<1>10. objects' = [objects EXCEPT ![o] = Left(G)] /\ Left(G) \in Headers
       /\ Left(G).handles = objects[o].handles
  BY <1>1, <1>2, <1>3, LeftIs
<1>11. rest \in {<<>>, <<Step("deref", o)>>}
  BY DEF s
<1> HIDE DEF o, rest, G
<1>12. Referred(o, 0)
  <2> DEFINE H == Left(G)
  <2>1. H \in Headers /\ H.handles = objects[o].handles /\ objects' = [objects EXCEPT ![o] = H]
    BY <1>10
  <2> HIDE DEF H
  <2> QED BY <1>1, <1>2, <2>1, ReferredSame
<1> QED BY <1>2, <1>3, <1>7, <1>8, <1>9, <1>11, <1>12, LeaveRight

\* ObMakeTemporaryObject.
LEMMA MakeTemporaryRight ==
    ASSUME ObInv, NEW t \in Threads, NEW o \in Objects, ObMakeTemporaryObject(t, o)
    PROVE  ObInv'
<1> DEFINE G == [objects[o] EXCEPT !.permanent = FALSE]
<1>1. /\ Idle(t) /\ o \in held[t] /\ UNCHANGED tableVars /\ held' = held /\ crashed' = crashed
      /\ ~DirectoryIsNull(G) /\ objects' = [objects EXCEPT ![o] = Left(G)]
      /\ todo' = [todo EXCEPT ![t] = LeavingSteps(o, G)]
  BY DEF ObMakeTemporaryObject, Start
<1>2. /\ o \in AllObjects /\ objects[o].state = "live"
      /\ \A u \in Threads \ {t} : ~NamedInsert(u, o)
  BY <1>1, HeldOne
<1>3. objects[o] \in Headers
  BY <1>2, Numbers
<1>4. G \in Headers /\ LeftAlone(o, G) /\ G.handles = objects[o].handles
  BY <1>2, <1>3 DEF LeftAlone, Headers
<1> HIDE DEF G
<1>5. LeaveSteps(o, G, <<>>) = LeavingSteps(o, G)
  <2>1. LeavingSteps(o, G) \in Seq(Steps)
    <3>1. Step("deref", Directory) \in Steps /\ Step("deref", o) \in Steps
      BY StepsAre, EntriesAre
    <3> QED BY <3>1 DEF LeavingSteps, DetachSteps
  <2> QED BY <2>1, ConcatEmptySeq DEF LeaveSteps
<1>6. Leaves(t, o, G, <<>>)
  BY <1>1, <1>2, <1>5 DEF Leaves, Idle
<1>7. RestOwns(t, o, <<>>, 0)
  BY <1>1, CountSteps DEF RestOwns, Idle
<1>8. Referred(o, 0)
  <2> DEFINE H == Left(G)
  <2>1. H \in Headers /\ H.handles = objects[o].handles /\ objects' = [objects EXCEPT ![o] = H]
    BY <1>1, <1>4, LeftIs
  <2> HIDE DEF H
  <2> QED BY <1>1, <1>2, <2>1, ReferredSame
<1> QED BY <1>2, <1>4, <1>6, <1>7, <1>8, LeaveRight

\* ObfCloseHandle, for an object without a close procedure.
LEMMA ClosePlainRight ==
    ASSUME ObInv, NEW t \in Threads, NEW h \in Handles, Idle(t), IsObject(h),
           NEW o, o = table[h], NEW G, G = [objects[o] EXCEPT !.handles = @ - 1],
           G.kind # "file", ~DirectoryIsNull(G), objects' = [objects EXCEPT ![o] = Left(G)],
           Start(t, LeavingSteps(o, G) \o <<Step("deref", o)>>),
           GiveHandle(h), held' = held, crashed' = crashed
    PROVE  ObInv'
<1> DEFINE s == Step("deref", o)
           rest == <<s>>
<1>1. /\ o \in Objects /\ o \in AllObjects /\ objects[o].state = "live"
      /\ \A u \in Threads \ {t} : ~NamedInsert(u, o)
  BY HandleOf
<1>2. objects[o] \in Headers /\ objects[o].handles \in Nat /\ objects[o].handles > 0
  <2>1. HandlesTo(o) # {}
    BY DEF HandlesTo
  <2>2. Cardinality(HandlesTo(o)) # 0 /\ Cardinality(HandlesTo(o)) \in Nat
    BY <1>1, <2>1, Numbers, FS_EmptySet
  <2> QED BY <1>1, <2>2, Numbers DEF ObInv, HandleCountsExact
<1>3. /\ G \in Headers /\ G.handles = objects[o].handles - 1 /\ G.kind = objects[o].kind
      /\ G.device = objects[o].device
  BY <1>2 DEF Headers
<1>4. LeftAlone(o, G)
  <2>1. ~G.device
    BY <1>1, <1>3 DEF ObInv, FilesRight
  <2> QED BY <1>1, <1>2, <2>1 DEF LeftAlone, Headers
<1>5. Leaves(t, o, G, rest)
  BY <1>1 DEF Leaves, LeaveSteps, Start, Idle
<1>6. s \in Steps /\ s.op = "deref" /\ s.obj = o
  BY <1>1, StepsAre
<1>7. rest \in {<<>>, <<Step("deref", o)>>}
  OBVIOUS
<1> HIDE DEF s
<1>8. RestOwns(t, o, rest, -1)
  <2>1. ASSUME NEW x
        PROVE  /\ Count(todo[t], x, Owning) = 0 /\ Count(todo[t], x, {"free"}) = 0
               /\ Count(rest, x, Owning) = Hit(s, x, Owning)
               /\ Count(rest, x, {"free"}) = Hit(s, x, {"free"})
    <3>1. Count(todo[t], x, Owning) = 0 /\ Count(todo[t], x, {"free"}) = 0
      BY CountIdle
    <3>2. \A ops : Count(rest, x, ops) = Hit(s, x, ops)
      BY CountSteps
    <3> QED BY <3>1, <3>2
  <2>2. ASSUME NEW x
        PROVE  Hit(s, x, Owning) = (IF x = o THEN 1 ELSE 0) /\ Hit(s, x, {"free"}) = 0
    BY <1>6, HitIs DEF Owning
  <2> HIDE DEF rest
  <2> QED BY <2>1, <2>2 DEF RestOwns
<1>9. Referred(o, -1)
  <2> DEFINE H == Left(G)
  <2>1. H \in Headers /\ H.handles = objects[o].handles - 1 /\ objects' = [objects EXCEPT ![o] = H]
    BY <1>3, LeftIs
  <2> HIDE DEF H
  <2> QED BY <1>1, <2>1, ReferredGive
<1> HIDE DEF rest
<1> QED BY <1>1, <1>3, <1>4, <1>5, <1>7, <1>8, <1>9, LeaveRight

\* ObfCloseHandle, for a file: its close procedure comes first.
LEMMA CloseHandleOfFileRight ==
    ASSUME ObInv, NEW t \in Threads, NEW h \in Handles, Idle(t), IsObject(h),
           NEW o, o = table[h], objects[o].kind = "file",
           objects' = [objects EXCEPT ![o] = [objects[o] EXCEPT !.handles = @ - 1]],
           Start(t, <<[op |-> "close", obj |-> o, handles |-> objects[o].handles],
                      Step("closed", o), Step("deref", o)>>),
           GiveHandle(h), held' = held, crashed' = crashed
    PROVE  ObInv'
<1> DEFINE H == [objects[o] EXCEPT !.handles = @ - 1]
           a == [op |-> "close", obj |-> o, handles |-> objects[o].handles]
           b == Step("closed", o)
           c == Step("deref", o)
           q == <<a, b, c>>
<1>1. /\ o \in Objects /\ o \in AllObjects /\ objects[o].state = "live"
      /\ \A u \in Threads \ {t} : ~NamedInsert(u, o)
  BY HandleOf
<1>2. objects[o] \in Headers /\ objects[o].handles \in Nat /\ objects[o].handles > 0
  <2>1. HandlesTo(o) # {}
    BY DEF HandlesTo
  <2>2. Cardinality(HandlesTo(o)) # 0 /\ Cardinality(HandlesTo(o)) \in Nat
    BY <1>1, <2>1, Numbers, FS_EmptySet
  <2> QED BY <1>1, <2>2, Numbers DEF ObInv, HandleCountsExact
<1>3. /\ a \in Steps /\ b \in Steps /\ c \in Steps
      /\ a.op = "close" /\ b.op = "closed" /\ c.op = "deref"
      /\ a.obj = o /\ b.obj = o /\ c.obj = o /\ a.handles = objects[o].handles
  <2>1. a \in Steps
    BY <1>1, <1>2, StepsAre
  <2>2. b \in Steps /\ c \in Steps /\ b.op = "closed" /\ c.op = "deref" /\ b.obj = o /\ c.obj = o
    BY <1>1, StepsAre
  <2> QED BY <2>1, <2>2
<1>4. todo' = [todo EXCEPT ![t] = q] /\ todo[t] = <<>>
  BY DEF Start, Idle
<1> HIDE DEF a, b, c
<1>5. q \in Plans /\ q # <<>> /\ q[1] = a
  BY <1>3, PlansNew
<1>6. ASSUME NEW x
      PROVE  /\ Count(todo[t], x, Owning) = 0 /\ Count(todo[t], x, {"free"}) = 0
             /\ Count(q, x, Owning) = (IF x = o THEN 1 ELSE 0) /\ Count(q, x, {"free"}) = 0
  <2>1. \A ops : Count(q, x, ops) = Hit(a, x, ops) + Hit(b, x, ops) + Hit(c, x, ops)
    <3>1. ASSUME NEW ops
          PROVE  \A e, f, g : Count(<<e, f, g>>, x, ops) = Hit(e, x, ops) + Hit(f, x, ops) + Hit(g, x, ops)
      BY CountSteps
    <3> QED BY <3>1
  <2>2. /\ Hit(a, x, Owning) = 0 /\ Hit(a, x, {"free"}) = 0
        /\ Hit(b, x, Owning) = 0 /\ Hit(b, x, {"free"}) = 0
    BY <1>3, HitIs
  <2>3. Hit(c, x, Owning) = (IF x = o THEN 1 ELSE 0) /\ Hit(c, x, {"free"}) = 0
    BY <1>3, HitIs DEF Owning
  <2>4. Count(todo[t], x, Owning) = 0 /\ Count(todo[t], x, {"free"}) = 0
    BY CountIdle
  <2> QED BY <2>1, <2>2, <2>3, <2>4
<1> HIDE DEF q
<1>7. objects[o].handles - 1 \in Nat /\ (objects[o].handles # 1 => objects[o].handles - 1 > 0)
  BY <1>2
<1>8. /\ H \in Headers /\ H.handles = objects[o].handles - 1 /\ H.pointers = objects[o].pointers
      /\ H.state = "live" /\ H.linked = objects[o].linked /\ H.kind = objects[o].kind
      /\ H.device = objects[o].device /\ H.handleCreated = objects[o].handleCreated
      /\ H.cleaned = objects[o].cleaned
  BY <1>1, <1>2, <1>7 DEF Headers
<1> HIDE DEF H
<1>9. ~objects[o].linked
  BY <1>1 DEF ObInv, LinksRight
<1>10. objects' = [objects EXCEPT ![o] = H]
  BY DEF H
<1>11. Referred(o, -1)
  BY <1>1, <1>8, <1>10, ReferredGive
<1>12. Moves(t, q, o, H)
  BY <1>4, <1>10 DEF Moves
<1>13. HeaderMoves(o, H)
  BY <1>8, <1>9 DEF HeaderMoves
<1>14. NamedMoves(t, q, o, H)
  BY <1>1, <1>3, <1>5 DEF NamedMoves
<1>15. FileMoves(t, q, o, H)
  BY <1>3, <1>4, <1>5, <1>7, <1>8 DEF FileMoves, HadHandle
<1>16. Balanced(t, q, o, H, -1)
  <2>1. ASSUME NEW x \in AllObjects
        PROVE  objects[x].pointers \in Nat /\ Unlinked(o, H, x) = 0
    BY <1>9, Numbers DEF Unlinked
  <2> QED BY <1>1, <1>6, <1>8, <2>1 DEF Balanced
<1> QED BY <1>1, <1>5, <1>8, <1>11, <1>12, <1>13, <1>14, <1>15, <1>16, ObjectMoves

\* ObfCloseHandle.
LEMMA CloseHandleRight ==
    ASSUME ObInv, NEW t \in Threads, NEW h \in Handles, ObfCloseHandle(t, h)
    PROVE  ObInv'
<1> DEFINE o == table[h]
           G == [objects[o] EXCEPT !.handles = @ - 1]
<1>1. Idle(t) /\ IsObject(h) /\ GiveHandle(h) /\ held' = held /\ crashed' = crashed
  BY DEF ObfCloseHandle
<1>2. G.kind = objects[o].kind
  <2>1. objects[o] \in Headers
    BY <1>1, HandleOf, Numbers
  <2> QED BY <2>1 DEF Headers
<1>3. CASE /\ G.kind = "file" /\ objects' = [objects EXCEPT ![o] = G]
           /\ Start(t, <<[op |-> "close", obj |-> o, handles |-> objects[o].handles],
                         Step("closed", o), Step("deref", o)>>)
  BY <1>1, <1>2, <1>3, CloseHandleOfFileRight
<1>4. CASE /\ G.kind # "file" /\ ~DirectoryIsNull(G) /\ objects' = [objects EXCEPT ![o] = Left(G)]
           /\ Start(t, LeavingSteps(o, G) \o <<Step("deref", o)>>)
  BY <1>1, <1>4, ClosePlainRight
<1> QED BY <1>3, <1>4 DEF ObfCloseHandle

\* ObInsertObject that fails.
LEMMA InsertFailsRight ==
    ASSUME ObInv, NEW t \in Threads, InsertFails(t)
    PROVE  ObInv'
<1>1. /\ At(t, "insert") /\ UNCHANGED tableVars /\ objects' = objects /\ held' = held
      /\ crashed' = crashed /\ Then(t, <<Step("deref", Current(t).obj)>>)
  BY DEF InsertFails
<1> QED BY <1>1, GiveUpRight

\* The steps that the parse procedure leaves, for a new file.
ParsedSteps(o, f, opened) ==
    IF opened THEN <<Step("deref", o), Step("handle", f), Step("created", f)>>
    ELSE <<Step("deref", f), Step("deref", o)>>

\* What they are.
LEMMA ParsedIs ==
    ASSUME NEW o \in Objects, NEW f \in Objects, NEW opened \in BOOLEAN
    PROVE  /\ ParsedSteps(o, f, opened) \in Plans /\ ParsedSteps(o, f, opened) # <<>>
           /\ ParsedSteps(o, f, opened)[1].op = "deref" /\ ParsedSteps(o, f, opened) \in Seq(Steps)
           /\ \A x : /\ Count(ParsedSteps(o, f, opened), x, Owning)
                          = (IF x = o THEN 1 ELSE 0) + (IF x = f THEN IF opened THEN 2 ELSE 1 ELSE 0)
                     /\ Count(ParsedSteps(o, f, opened), x, {"free"}) = 0
<1> DEFINE q == ParsedSteps(o, f, opened)
<1> DEFINE a == Step("deref", o)
           b == Step("handle", f)
           c == Step("created", f)
           d == Step("deref", f)
<1>1. /\ a \in Steps /\ b \in Steps /\ c \in Steps /\ d \in Steps
      /\ a.op = "deref" /\ b.op = "handle" /\ c.op = "created" /\ d.op = "deref"
      /\ a.obj = o /\ b.obj = f /\ c.obj = f /\ d.obj = f
  BY StepsAre, EntriesAre
<1>2. q = IF opened THEN <<a, b, c>> ELSE <<d, a>>
  BY DEF ParsedSteps
<1> HIDE DEF a, b, c, d, q
<1>3. ASSUME NEW x
      PROVE  /\ Hit(a, x, Owning) = (IF x = o THEN 1 ELSE 0) /\ Hit(a, x, {"free"}) = 0
             /\ Hit(b, x, Owning) = (IF x = f THEN 1 ELSE 0) /\ Hit(b, x, {"free"}) = 0
             /\ Hit(c, x, Owning) = (IF x = f THEN 1 ELSE 0) /\ Hit(c, x, {"free"}) = 0
             /\ Hit(d, x, Owning) = (IF x = f THEN 1 ELSE 0) /\ Hit(d, x, {"free"}) = 0
  <2>1. a.op \in Owning /\ b.op \in Owning /\ c.op \in Owning /\ d.op \in Owning
    BY <1>1 DEF Owning
  <2> QED BY <1>1, <2>1, HitIs
<1>4. CASE opened
  <2>1. q = <<a, b, c>>
    BY <1>2, <1>4
  <2>2. ASSUME NEW x, NEW ops
        PROVE  Count(q, x, ops) = Hit(a, x, ops) + Hit(b, x, ops) + Hit(c, x, ops)
    <3>1. \A e, f1, g : Count(<<e, f1, g>>, x, ops) = Hit(e, x, ops) + Hit(f1, x, ops) + Hit(g, x, ops)
      BY CountSteps
    <3> QED BY <2>1, <3>1
  <2>3. q \in Plans /\ q # <<>> /\ q[1] = a /\ q \in Seq(Steps)
    BY <1>1, <2>1, PlansNew
  <2>4. ASSUME NEW x
        PROVE  /\ Count(q, x, Owning)
                      = (IF x = o THEN 1 ELSE 0) + (IF x = f THEN IF opened THEN 2 ELSE 1 ELSE 0)
               /\ Count(q, x, {"free"}) = 0
    <3>1. /\ Count(q, x, Owning) = Hit(a, x, Owning) + Hit(b, x, Owning) + Hit(c, x, Owning)
          /\ Count(q, x, {"free"})
               = Hit(a, x, {"free"}) + Hit(b, x, {"free"}) + Hit(c, x, {"free"})
      BY <2>2
    <3>2. CASE x = o
      BY <1>3, <1>4, <3>1, <3>2
    <3>3. CASE x # o
      BY <1>3, <1>4, <3>1, <3>3
    <3> QED BY <3>2, <3>3
  <2>5. q[1].op = "deref"
    BY <1>1, <2>3
  <2> QED BY <2>3, <2>4, <2>5 DEF q
<1>5. CASE ~opened
  <2>1. q = <<d, a>>
    BY <1>2, <1>5
  <2>2. ASSUME NEW x, NEW ops
        PROVE  Count(q, x, ops) = Hit(d, x, ops) + Hit(a, x, ops)
    <3>1. \A e, g : Count(<<e, g>>, x, ops) = Hit(e, x, ops) + Hit(g, x, ops)
      BY CountSteps
    <3> QED BY <2>1, <3>1
  <2>3. q \in Plans /\ q # <<>> /\ q[1] = d /\ q \in Seq(Steps)
    BY <1>1, <2>1, PlansNew
  <2>4. ASSUME NEW x
        PROVE  /\ Count(q, x, Owning)
                      = (IF x = o THEN 1 ELSE 0) + (IF x = f THEN IF opened THEN 2 ELSE 1 ELSE 0)
               /\ Count(q, x, {"free"}) = 0
    <3>1. /\ Count(q, x, Owning) = Hit(d, x, Owning) + Hit(a, x, Owning)
          /\ Count(q, x, {"free"}) = Hit(d, x, {"free"}) + Hit(a, x, {"free"})
      BY <2>2
    <3>2. CASE x = o
      BY <1>3, <1>5, <3>1, <3>2
    <3>3. CASE x # o
      BY <1>3, <1>5, <3>1, <3>3
    <3> QED BY <3>2, <3>3
  <2>5. q[1].op = "deref"
    BY <1>1, <2>3
  <2> QED BY <2>3, <2>4, <2>5 DEF q
<1> QED BY <1>4, <1>5 DEF q

\* IoParseDevice.
LEMMA ParseRight ==
    ASSUME ObInv, NEW t \in Threads, IoParseDevice(t)
    PROVE  ObInv'
<1> DEFINE o == todo[t][1].obj
<1>1. /\ At(t, "parse") /\ UNCHANGED tableVars /\ held' = held /\ crashed' = crashed
  BY DEF IoParseDevice
<1>2. /\ todo[t] # <<>> /\ todo[t][1].op = "parse" /\ Current(t) = todo[t][1]
      /\ 1 \in 1..Len(todo[t]) /\ o \in AllObjects /\ objects[o].state = "live"
      /\ todo[t] \in Plans /\ todo[t][1] \in Steps
  BY <1>1, FirstStep
<1>3. o \in Objects
  BY <1>2, StepIs
<1>4. CASE Then(t, <<Step("deref", Current(t).obj)>>) /\ objects' = objects
  BY <1>1, <1>4, GiveUpRight
<1>5. ASSUME NEW f \in Objects, objects[f].state = "unborn", NEW opened \in BOOLEAN,
             objects' = [objects EXCEPT ![f] =
                 [Header("live", "file", NoName, IF opened THEN 2 ELSE 1) EXCEPT !.device = opened]],
             Then(t, ParsedSteps(o, f, opened))
      PROVE  ObInv'
  <2> DEFINE q == ParsedSteps(o, f, opened)
             N == Header("live", "file", NoName, IF opened THEN 2 ELSE 1)
             H == [N EXCEPT !.device = opened]
  <2>1. /\ q \in Plans /\ q # <<>> /\ q[1].op = "deref" /\ q \in Seq(Steps)
        /\ \A x : /\ Count(q, x, Owning)
                       = (IF x = o THEN 1 ELSE 0) + (IF x = f THEN IF opened THEN 2 ELSE 1 ELSE 0)
                  /\ Count(q, x, {"free"}) = 0
    BY <1>3, ParsedIs
  <2>2. /\ N \in Headers /\ N.state = "live" /\ N.kind = "file"
        /\ N.pointers = (IF opened THEN 2 ELSE 1) /\ N.handles = 0 /\ ~N.linked
        /\ ~N.handleCreated
    BY NewHeader DEF Kinds
  <2>3. objects' = [objects EXCEPT ![f] = H] /\ Then(t, q)
    BY <1>5
  <2> HIDE DEF N, q
  <2>4. /\ H \in Headers /\ H.state = "live" /\ H.kind = "file"
        /\ H.pointers = (IF opened THEN 2 ELSE 1) /\ H.handles = 0 /\ ~H.linked
        /\ ~H.handleCreated
    BY <2>2 DEF Headers
  <2> HIDE DEF H
  <2>5. todo' = [todo EXCEPT ![t] = q]
    <3>1. Tail(todo[t]) = <<>>
      BY <1>2, PlanTail
    <3>2. q \o <<>> = q
      BY <2>1, ConcatEmptySeq
    <3> QED BY <2>3, <3>1, <3>2 DEF Then
  <2>6. ASSUME NEW x
        PROVE  /\ Count(todo[t], x, Owning) = (IF x = o THEN 1 ELSE 0)
               /\ Count(todo[t], x, {"free"}) = 0
    <3>1. Tail(todo[t]) = <<>> /\ todo[t] \in Seq(Steps) /\ Len(todo[t]) <= 3
      BY <1>2, PlanTail, Lists
    <3>2. \A ops : Count(todo[t], x, ops) = Hit(todo[t][1], x, ops) + Count(<<>>, x, ops)
      BY <1>2, <3>1, CountTail
    <3>3. \A ops : Count(<<>>, x, ops) = 0
      BY CountSteps
    <3>4. /\ Hit(todo[t][1], x, Owning) = (IF x = o THEN 1 ELSE 0)
          /\ Hit(todo[t][1], x, {"free"}) = 0
      BY <1>2, HitIs DEF Owning
    <3> QED BY <3>2, <3>3, <3>4
  <2>7. todo[t][1].op # "close"
    BY <1>2
  <2>8. /\ f \in AllObjects /\ f # o /\ objects[f].pointers = 0 /\ objects[f].handles = 0
        /\ ~objects[f].linked
        /\ \A u \in Threads \ {t} : ~NamedInsert(u, f)
    BY <1>2, <1>5, Unborn, Touched, EntriesAre
  <2> HIDE DEF o
  <2>9. Referred(f, 0)
    BY <1>1, <2>3, <2>4, <2>8, ReferredSame
  <2>10. Moves(t, q, f, H)
    BY <1>1, <2>3, <2>5 DEF Moves
  <2>11. HeaderMoves(f, H)
    BY <2>4 DEF HeaderMoves
  <2>12. NamedMoves(t, q, f, H)
    BY <2>1, <2>8 DEF NamedMoves
  <2>13. FileMoves(t, q, f, H)
    BY <1>5, <2>1, <2>4, <2>7 DEF FileMoves
  <2>14. Balanced(t, q, f, H, 0)
    <3>1. ASSUME NEW x \in AllObjects
          PROVE  objects[x].pointers \in Nat /\ Unlinked(f, H, x) = 0
      BY <2>8, Numbers DEF Unlinked
    <3>2. ASSUME NEW x \in AllObjects
          PROVE  (IF x = f THEN H.pointers ELSE objects[x].pointers) + Count(todo[t], x, Owning)
                   + Unlinked(f, H, x)
                 = objects[x].pointers + Count(q, x, Owning) + (IF x = f THEN 0 ELSE 0)
      <4>1. CASE x = f
        BY <2>1, <2>4, <2>6, <2>8, <3>1, <4>1
      <4>2. CASE x # f
        BY <2>1, <2>6, <3>1, <4>2
      <4> QED BY <4>1, <4>2
    <3>3. ASSUME NEW x \in AllObjects
          PROVE  Count(todo[t], x, {"free"}) = 0 /\ Count(q, x, {"free"}) = 0
      BY <2>1, <2>6
    <3>4. H.pointers # 0 /\ objects[f].state # "live"
      BY <1>5, <2>4
    <3> QED BY <3>2, <3>3, <3>4 DEF Balanced
  <2> QED BY <2>1, <2>4, <2>8, <2>9, <2>10, <2>11, <2>12, <2>13, <2>14, ObjectMoves
<1>6. \/ Then(t, <<Step("deref", Current(t).obj)>>) /\ objects' = objects
      \/ \E f \in {x \in Objects : objects[x].state = "unborn"}, opened \in BOOLEAN :
           /\ objects' = [objects EXCEPT ![f] =
                [Header("live", "file", NoName, IF opened THEN 2 ELSE 1) EXCEPT !.device = opened]]
           /\ Then(t, ParsedSteps(Current(t).obj, f, opened))
  BY DEF IoParseDevice, ParsedSteps
<1> QED BY <1>2, <1>4, <1>5, <1>6

\* A handle for an object, in the end of an insertion.
LEMMA InsertHandleRight ==
    ASSUME ObInv, NEW t \in Threads, At(t, "insert"), NEW y \in Objects, NEW p \in BOOLEAN,
           objects[y].state = "live", objects[y].pointers > 0,
           \A u \in Threads \ {t} : ~NamedInsert(u, y), objects[y].permanent => p,
           firstFree # DecodedEnd, TakeHandle(y),
           objects' = [objects EXCEPT ![y] =
               [objects[y] EXCEPT !.pointers = @ + 1, !.handles = @ + 1, !.permanent = p]],
           Then(t, <<Step("deref", Current(t).obj)>>), held' = held, crashed' = crashed
    PROVE  ObInv'
<1> DEFINE o == todo[t][1].obj
           s == Step("deref", o)
           q == <<s>> \o Tail(todo[t])
           H == [objects[y] EXCEPT !.pointers = @ + 1, !.handles = @ + 1, !.permanent = p]
<1>1. /\ todo[t] # <<>> /\ todo[t][1].op = "insert" /\ Current(t) = todo[t][1]
      /\ o \in AllObjects
  BY FirstStep
<1>2. s \in Steps /\ s.op = "deref" /\ s.obj = o /\ Then(t, <<s>>)
  BY <1>1, StepsAre
<1> HIDE DEF s
<1>3. /\ todo' = [todo EXCEPT ![t] = q] /\ q \in Plans /\ q # <<>> /\ q[1] = s
      /\ \A x, ops : /\ Count(Tail(todo[t]), x, ops) \in Nat
                     /\ Count(todo[t], x, ops) = Hit(todo[t][1], x, ops) + Count(Tail(todo[t]), x, ops)
                     /\ Count(q, x, ops) = Hit(s, x, ops) + Count(Tail(todo[t]), x, ops)
  BY <1>2, OneLeft
<1> HIDE DEF q
<1>4. ASSUME NEW x
      PROVE  /\ Count(q, x, Owning) = Count(todo[t], x, Owning)
             /\ Count(q, x, {"free"}) = Count(todo[t], x, {"free"})
  <2>1. /\ Hit(todo[t][1], x, Owning) = (IF o = x THEN 1 ELSE 0)
        /\ Hit(todo[t][1], x, {"free"}) = 0
        /\ Hit(s, x, Owning) = (IF o = x THEN 1 ELSE 0) /\ Hit(s, x, {"free"}) = 0
    BY <1>1, <1>2, HitIs DEF Owning
  <2> QED BY <1>3, <2>1
<1>5. /\ y \in AllObjects /\ objects[y] \in Headers /\ objects[y].pointers \in Nat
      /\ objects[y].handles \in Nat
  BY Numbers, EntriesAre
<1>6. /\ H \in Headers /\ H.handles = objects[y].handles + 1 /\ H.handles > 0
      /\ H.pointers = objects[y].pointers + 1 /\ H.pointers > 0 /\ H.state = "live"
      /\ H.linked = objects[y].linked /\ H.attached = objects[y].attached
      /\ H.name = objects[y].name /\ H.kind = objects[y].kind
      /\ H.device = objects[y].device
      /\ H.handleCreated = objects[y].handleCreated /\ H.cleaned = objects[y].cleaned
  <2>1. /\ objects[y].handles + 1 \in Nat /\ objects[y].handles + 1 > 0
        /\ objects[y].pointers + 1 \in Nat /\ objects[y].pointers + 1 > 0
    BY <1>5
  <2> QED BY <1>5, <2>1 DEF Headers
<1>7. objects' = [objects EXCEPT ![y] = H]
  OBVIOUS
<1> HIDE DEF H, o
<1>8. Referred(y, 1)
  BY <1>6, <1>7, ReferredTake
<1>9. Moves(t, q, y, H)
  BY <1>3, <1>7 DEF Moves
<1>10. HeaderMoves(y, H)
  <2>1. objects[y].linked => objects[y].attached
    BY DEF ObInv, LinksRight
  <2> QED BY <1>6, <2>1 DEF HeaderMoves
<1>11. NamedMoves(t, q, y, H)
  BY <1>2, <1>3 DEF NamedMoves
<1>12. FileMoves(t, q, y, H)
  BY <1>1, <1>2, <1>3, <1>6 DEF FileMoves, HadHandle
<1>13. Balanced(t, q, y, H, 1)
  <2>1. ASSUME NEW x \in AllObjects
        PROVE  /\ objects[x].pointers \in Nat /\ Count(todo[t], x, Owning) \in Nat
               /\ Count(todo[t], x, {"free"}) \in Nat /\ Unlinked(y, H, x) = 0
    BY <1>6, Numbers, CountSteps DEF Unlinked
  <2> QED BY <1>4, <1>6, <2>1 DEF Balanced
<1> QED BY <1>3, <1>5, <1>6, <1>8, <1>9, <1>10, <1>11, <1>12, <1>13, ObjectMoves

\* A handle for the new object and a link in the directory, and the reference
\* that the creator has asked for.
LinkedHeader(o, bias, p) ==
    [objects[o] EXCEPT !.pointers = @ + bias + 2, !.handles = @ + 1, !.permanent = p,
                       !.attached = TRUE, !.linked = TRUE]
LinkMoves(t, o, bias, p) ==
    /\ TakeHandle(o)
    /\ objects' = [objects EXCEPT ![o] = LinkedHeader(o, bias, p),
                                  ![Directory].pointers = @ + 1]
    /\ Then(t, <<Step("deref", o)>>)
    /\ held' = IF bias = 0 THEN held ELSE [held EXCEPT ![t] = @ \union {o}]
    /\ crashed' = crashed

\* What that does to the objects.
LEMMA LinkedIs ==
    ASSUME ObInv, NEW t \in Threads, NEW o \in Objects, NEW bias \in {0, 1}, NEW p \in BOOLEAN,
           NamedInsert(t, o), LinkMoves(t, o, bias, p)
    PROVE  /\ objects' \in [AllObjects -> Headers]
           /\ objects'[o].pointers = 3 + bias /\ objects'[o].handles = objects[o].handles + 1
           /\ objects'[o].attached /\ objects'[o].linked /\ objects'[o].state = "live"
           /\ objects'[o].name = objects[o].name /\ objects'[o].kind = objects[o].kind
           /\ objects'[o].device = objects[o].device /\ objects[o].pointers = 1
           /\ objects'[Directory].pointers = objects[Directory].pointers + 1
           /\ objects'[Directory].linked = objects[Directory].linked
           /\ objects'[Directory].state = objects[Directory].state
           /\ \A x \in Objects \ {o} : objects'[x] = objects[x]
           /\ \A x \in Objects : objects'[x].handles =
                  IF x = o THEN objects[x].handles + 1 ELSE objects[x].handles
<1> DEFINE H == LinkedHeader(o, bias, p)
           D == [objects[Directory] EXCEPT !.pointers = @ + 1]
<1>1. objects' = [objects EXCEPT ![o] = H, ![Directory].pointers = @ + 1]
  BY DEF LinkMoves
<1>2. objects[o].pointers = 1 /\ objects[o].state = "live"
  BY Sole
<1>3. /\ objects \in [AllObjects -> Headers] /\ o \in AllObjects /\ Directory \in AllObjects
      /\ o # Directory /\ Objects \subseteq AllObjects /\ Directory \notin Objects
  BY EntriesAre DEF ObInv, ObTypes
<1>4. /\ H \in Headers /\ H.pointers = 3 + bias /\ H.handles = objects[o].handles + 1
      /\ H.attached /\ H.linked /\ H.state = "live" /\ H.name = objects[o].name
      /\ H.kind = objects[o].kind /\ H.device = objects[o].device
  <2>1. /\ objects[o].handles + 1 \in Nat /\ objects[o].pointers + bias + 2 \in Nat
        /\ objects[o].pointers + bias + 2 = 3 + bias /\ objects[o] \in Headers
    BY <1>2, <1>3, Numbers
  <2> QED BY <1>2, <2>1 DEF Headers, LinkedHeader
<1>5. /\ D \in Headers /\ D.pointers = objects[Directory].pointers + 1
      /\ D.linked = objects[Directory].linked /\ D.state = objects[Directory].state
  <2>1. objects[Directory].pointers + 1 \in Nat /\ objects[Directory] \in Headers
    BY <1>3, Numbers
  <2> QED BY <2>1 DEF Headers
<1> HIDE DEF H
<1>6. /\ objects' \in [AllObjects -> Headers] /\ objects'[o] = H /\ objects'[Directory] = D
      /\ \A x \in Objects \ {o} : objects'[x] = objects[x]
  BY <1>1, <1>3, <1>4, <1>5
<1> HIDE DEF D
<1> QED BY <1>2, <1>3, <1>4, <1>5, <1>6

\* What it does to what callers have and to the links.
LEMMA LinkedCounts ==
    ASSUME ObInv, NEW t \in Threads, NEW o \in Objects, NEW bias \in {0, 1}, NEW p \in BOOLEAN,
           NamedInsert(t, o), LinkMoves(t, o, bias, p)
    PROVE  /\ held' \in [Threads -> SUBSET Objects]
           /\ \A x \in AllObjects :
                /\ IsFiniteSet(Holders(x)')
                /\ Cardinality(Holders(x)') = Cardinality(Holders(x)) + (IF x = o THEN bias ELSE 0)
           /\ IsFiniteSet(LinkedOnes') /\ Cardinality(LinkedOnes') = Cardinality(LinkedOnes) + 1
<1>1. \A u \in Threads : o \notin held[u]
  BY Sole
<1>2. held \in [Threads -> SUBSET Objects]
  BY DEF ObInv, ObTypes
<1>3. held' = IF bias = 0 THEN held ELSE [held EXCEPT ![t] = @ \union {o}]
  BY DEF LinkMoves
<1>4. held' \in [Threads -> SUBSET Objects]
  BY <1>2, <1>3
<1>5. ASSUME NEW x \in AllObjects
      PROVE  /\ IsFiniteSet(Holders(x)')
             /\ Cardinality(Holders(x)') = Cardinality(Holders(x)) + (IF x = o THEN bias ELSE 0)
  <2>1. IsFiniteSet(Holders(x)) /\ Cardinality(Holders(x)) \in Nat
    BY Numbers
  <2>2. CASE bias = 0 \/ x # o
    <3>1. Holders(x)' = Holders(x)
      BY <1>2, <1>3, <2>2 DEF Holders
    <3> QED BY <2>1, <2>2, <3>1
  <2>3. CASE bias = 1 /\ x = o
    <3>1. Holders(x)' = Holders(x) \union {t} /\ t \notin Holders(x)
      BY <1>1, <1>2, <1>3, <2>3 DEF Holders
    <3>2. IsFiniteSet(Holders(x)') /\ Cardinality(Holders(x)') = Cardinality(Holders(x)) + 1
      BY <2>1, <3>1, FS_AddElement
    <3> QED BY <2>3, <3>2
  <2> QED BY <2>2, <2>3
<1>6. LinkedOnes' = LinkedOnes \union {o} /\ o \notin LinkedOnes
  <2>1. objects'[o].linked /\ \A x \in Objects \ {o} : objects'[x] = objects[x]
    BY LinkedIs
  <2>2. ~objects[o].linked
    BY Sole
  <2> QED BY <2>1, <2>2 DEF LinkedOnes
<1>7. IsFiniteSet(LinkedOnes') /\ Cardinality(LinkedOnes') = Cardinality(LinkedOnes) + 1
  <2>1. IsFiniteSet(LinkedOnes)
    BY Numbers, EntriesAre
  <2> QED BY <1>6, <2>1, FS_AddElement
<1> QED BY <1>4, <1>5, <1>7

\* The creator's step, of which the reference is left.
LEMMA InsertLeaves ==
    ASSUME ObInv, NEW t \in Threads, At(t, "insert"), NEW o \in AllObjects, o = Current(t).obj,
           Then(t, <<Step("deref", o)>>)
    PROVE  \E q \in Plans :
               /\ todo' = [todo EXCEPT ![t] = q] /\ q # <<>> /\ q[1].op = "deref"
               /\ \A x : /\ Count(q, x, Owning) = Count(todo[t], x, Owning)
                         /\ Count(q, x, {"free"}) = Count(todo[t], x, {"free"})
                         /\ Count(q, x, Owning) \in Nat /\ Count(q, x, {"free"}) \in Nat
<1> DEFINE s == Step("deref", o)
           q == <<s>> \o Tail(todo[t])
<1>1. /\ todo[t] # <<>> /\ todo[t][1].op = "insert" /\ todo[t][1].obj = o
  BY FirstStep
<1>2. s \in Steps /\ s.op = "deref" /\ s.obj = o /\ Then(t, <<s>>)
  BY StepsAre
<1> HIDE DEF s
<1>3. /\ todo' = [todo EXCEPT ![t] = q] /\ q \in Plans /\ q # <<>> /\ q[1] = s
      /\ \A x, ops : /\ Count(Tail(todo[t]), x, ops) \in Nat
                     /\ Count(todo[t], x, ops) = Hit(todo[t][1], x, ops) + Count(Tail(todo[t]), x, ops)
                     /\ Count(q, x, ops) = Hit(s, x, ops) + Count(Tail(todo[t]), x, ops)
  BY <1>2, OneLeft
<1> HIDE DEF q
<1>4. ASSUME NEW x
      PROVE  /\ Count(q, x, Owning) = Count(todo[t], x, Owning)
             /\ Count(q, x, {"free"}) = Count(todo[t], x, {"free"})
             /\ Count(q, x, Owning) \in Nat /\ Count(q, x, {"free"}) \in Nat
  <2>1. /\ Hit(todo[t][1], x, Owning) = (IF o = x THEN 1 ELSE 0)
        /\ Hit(todo[t][1], x, {"free"}) = 0
        /\ Hit(s, x, Owning) = (IF o = x THEN 1 ELSE 0) /\ Hit(s, x, {"free"}) = 0
    BY <1>1, <1>2, HitIs DEF Owning
  <2>2. Count(q, x, Owning) \in Nat /\ Count(q, x, {"free"}) \in Nat
    BY CountSteps
  <2> QED BY <1>3, <2>1, <2>2
<1> QED BY <1>2, <1>3, <1>4

\* ObInsertObject, with a new name.
LEMMA LinkRight ==
    ASSUME ObInv, NEW t \in Threads, NEW o \in Objects, NEW bias \in {0, 1}, NEW p \in BOOLEAN,
           At(t, "insert"), o = Current(t).obj, NamedInsert(t, o), Linked(todo[t][1].name) = {},
           firstFree # DecodedEnd, LinkMoves(t, o, bias, p)
    PROVE  ObInv'
<1>1. /\ TakeHandle(o) /\ Then(t, <<Step("deref", o)>>) /\ crashed' = crashed
  BY DEF LinkMoves
<1>2. PICK q \in Plans :
          /\ todo' = [todo EXCEPT ![t] = q] /\ q # <<>> /\ q[1].op = "deref"
          /\ \A x : /\ Count(q, x, Owning) = Count(todo[t], x, Owning)
                    /\ Count(q, x, {"free"}) = Count(todo[t], x, {"free"})
                    /\ Count(q, x, Owning) \in Nat /\ Count(q, x, {"free"}) \in Nat
  BY <1>1, InsertLeaves, EntriesAre
<1>3. /\ objects' \in [AllObjects -> Headers]
      /\ objects'[o].pointers = 3 + bias /\ objects'[o].handles = objects[o].handles + 1
      /\ objects'[o].attached /\ objects'[o].linked /\ objects'[o].state = "live"
      /\ objects'[o].name = objects[o].name /\ objects'[o].kind = objects[o].kind
      /\ objects'[o].device = objects[o].device /\ objects[o].pointers = 1
      /\ objects'[Directory].pointers = objects[Directory].pointers + 1
      /\ objects'[Directory].linked = objects[Directory].linked
      /\ objects'[Directory].state = objects[Directory].state
      /\ \A x \in Objects \ {o} : objects'[x] = objects[x]
      /\ \A x \in Objects : objects'[x].handles =
             IF x = o THEN objects[x].handles + 1 ELSE objects[x].handles
  BY LinkedIs
<1>4. /\ table' \in [Handles -> Objects \union FreeEntries]
      /\ firstFree' \in Handles \union {DecodedEnd}
      /\ FreeListRight' /\ HandleCountsExact'
      /\ \A x \in AllObjects :
           /\ IsFiniteSet(HandlesTo(x)')
           /\ Cardinality(HandlesTo(x)')
                = Cardinality(HandlesTo(x)) + (IF x = o THEN 1 ELSE 0)
  BY <1>1, <1>3, TableTake
<1>5. /\ held' \in [Threads -> SUBSET Objects]
      /\ \A x \in AllObjects :
           /\ IsFiniteSet(Holders(x)')
           /\ Cardinality(Holders(x)') = Cardinality(Holders(x)) + (IF x = o THEN bias ELSE 0)
      /\ IsFiniteSet(LinkedOnes') /\ Cardinality(LinkedOnes') = Cardinality(LinkedOnes) + 1
  BY LinkedCounts
<1>6. /\ ~objects[o].linked /\ objects[o].state = "live"
      /\ objects[o].name = todo[t][1].name /\ objects[o].kind # "file"
      /\ todo[t][1].name # NoName
  BY Sole DEF NamedInsert, ObInv, InsertsRight
<1>7. /\ o \in AllObjects /\ Directory \in AllObjects /\ Directory \notin Objects /\ o # Directory
      /\ \A x \in AllObjects : x \in Objects \/ x = Directory
  BY EntriesAre DEF AllObjects
<1>8. todo[t][1].name \in Names
  <2>1. todo[t][1] \in Steps /\ todo[t][1].op = "insert"
    BY FirstStep
  <2> QED BY <1>6, <2>1, StepIs
<1>9. ObTypes'
  BY <1>1, <1>2, <1>3, <1>4, <1>5, ListsThen DEF ObInv, ObTypes
<1>10. PointersRight'
  <2>1. ASSUME NEW x \in AllObjects
        PROVE  /\ objects'[x].pointers \in Nat /\ objects[x].pointers \in Nat
               /\ Cardinality(HandlesTo(x)) \in Nat /\ Cardinality(Holders(x)) \in Nat
               /\ Cardinality(LinkedOnes) \in Nat
    BY <1>3, Numbers DEF Headers
  <2>2. ASSUME NEW x \in AllObjects
        PROVE  objects'[x].pointers + Count(todo[t], x, Owning)
               + Cardinality(HandlesTo(x)) + Cardinality(Holders(x))
               + (IF objects[x].linked THEN 1 ELSE 0)
               + (IF x = Directory THEN Cardinality(LinkedOnes) ELSE 0)
               = objects[x].pointers + Count(q, x, Owning)
               + Cardinality(HandlesTo(x)') + Cardinality(Holders(x)')
               + (IF objects'[x].linked THEN 1 ELSE 0)
               + (IF x = Directory THEN Cardinality(LinkedOnes') ELSE 0)
    <3>1. Count(q, x, Owning) = Count(todo[t], x, Owning) /\ Count(todo[t], x, Owning) \in Nat
      BY <1>2
    <3>2. CASE x = o
      <4>1. /\ Cardinality(HandlesTo(x)') = Cardinality(HandlesTo(x)) + 1
            /\ Cardinality(Holders(x)') = Cardinality(Holders(x)) + bias
        BY <1>4, <1>5, <3>2
      <4>2. /\ objects'[x].pointers = 3 + bias /\ objects[x].pointers = 1
            /\ ~objects[x].linked /\ objects'[x].linked /\ x # Directory
        BY <1>3, <1>6, <1>7, <3>2
      <4> QED BY <2>1, <3>1, <4>1, <4>2
    <3>3. CASE x = Directory
      <4>1. /\ Cardinality(HandlesTo(x)') = Cardinality(HandlesTo(x))
            /\ Cardinality(Holders(x)') = Cardinality(Holders(x))
        BY <1>4, <1>5, <1>7, <2>1, <3>3
      <4>2. /\ objects'[x].pointers = objects[x].pointers + 1
            /\ ~objects[x].linked /\ ~objects'[x].linked
        BY <1>3, <3>3 DEF ObInv, LinksRight
      <4> QED BY <1>5, <2>1, <3>1, <3>3, <4>1, <4>2
    <3>4. CASE x # o /\ x # Directory
      <4>1. /\ Cardinality(HandlesTo(x)') = Cardinality(HandlesTo(x))
            /\ Cardinality(Holders(x)') = Cardinality(Holders(x))
        BY <1>4, <1>5, <2>1, <3>4
      <4>2. objects'[x] = objects[x]
        BY <1>3, <1>7, <3>4
      <4> QED BY <2>1, <3>1, <3>4, <4>1, <4>2
    <3> QED BY <3>2, <3>3, <3>4
  <2>3. \A x \in AllObjects :
            /\ IsFiniteSet(HandlesTo(x)') /\ IsFiniteSet(Holders(x)')
            /\ objects'[x].pointers \in Nat
    BY <1>4, <1>5, <2>1
  <2> QED BY <1>2, <1>5, <2>2, <2>3, PointersThen
<1>11. LivesRight'
  <2>1. ASSUME NEW x \in AllObjects
        PROVE  /\ objects'[x].state = "freed" => objects'[x].pointers = 0
               /\ objects'[x].state = "unborn" => objects'[x].pointers = 0 /\ ~objects'[x].device
               /\ (IF objects'[x].state = "live" /\ objects'[x].pointers = 0 THEN 1 ELSE 0)
                  + Count(todo[t], x, {"free"})
                  = (IF objects[x].state = "live" /\ objects[x].pointers = 0 THEN 1 ELSE 0)
                  + Count(q, x, {"free"})
    <3>1. Count(q, x, {"free"}) = Count(todo[t], x, {"free"})
      BY <1>2
    <3>2. /\ objects[x].state = "freed" => objects[x].pointers = 0
          /\ objects[x].state = "unborn" => objects[x].pointers = 0 /\ ~objects[x].device
      BY DEF ObInv, LivesRight, DeletedOnce
    <3>3. CASE x = o
      <4>1. 3 + bias # 0
        OBVIOUS
      <4> QED BY <1>3, <1>6, <3>1, <3>3, <4>1
    <3>4. CASE x = Directory
      <4>1. objects[x].pointers \in Nat /\ objects[x].pointers > 0 /\ objects[x].state = "live"
        BY <3>4, Kept, Numbers
      <4>2. objects'[x].pointers # 0 /\ objects'[x].state = "live" /\ objects[x].pointers # 0
        BY <1>3, <3>4, <4>1
      <4> QED BY <3>1, <4>1, <4>2
    <3>5. CASE x # o /\ x # Directory
      <4>1. objects'[x] = objects[x]
        BY <1>3, <1>7, <3>5
      <4> QED BY <3>1, <3>2, <4>1
    <3> QED BY <3>3, <3>4, <3>5
  <2> QED BY <1>2, <2>1, LivesThen
<1>12. LinksRight'
  <2>1. ~objects'[Directory].linked
    BY <1>3 DEF ObInv, LinksRight
  <2>2. ASSUME NEW x \in Objects, objects'[x].linked
        PROVE  /\ objects'[x].attached /\ objects'[x].name \in Names
               /\ objects'[x].kind # "file"
               /\ objects'[x].permanent \/ objects'[x].handles > 0
    <3>1. CASE x = o
      <4>1. objects'[o].handles > 0
        BY <1>3, <1>7, Numbers
      <4> QED BY <1>3, <1>6, <1>8, <3>1, <4>1
    <3>2. CASE x # o
      <4>1. objects'[x] = objects[x]
        BY <1>3, <3>2
      <4> QED BY <2>2, <4>1 DEF ObInv, LinksRight
    <3> QED BY <3>1, <3>2
  <2>3. ASSUME NEW x \in Objects, NEW y \in Objects, objects'[x].linked, objects'[y].linked,
               objects'[x].name = objects'[y].name
        PROVE  x = y
    <3>1. ASSUME NEW z \in Objects, z # o, objects'[z].linked PROVE objects'[z].name # objects'[o].name
      BY <1>3, <1>6, <3>1 DEF Linked
    <3>2. CASE x = o \/ y = o
      BY <2>3, <3>1, <3>2
    <3>3. CASE x # o /\ y # o
      <4>1. objects'[x] = objects[x] /\ objects'[y] = objects[y]
        BY <1>3, <3>3
      <4> QED BY <2>3, <4>1 DEF ObInv, LinksRight
    <3> QED BY <3>2, <3>3
  <2> QED BY <2>1, <2>2, <2>3 DEF LinksRight
<1>13. InsertsRight'
  <2>1. \A u \in Threads \ {t} : ~NamedInsert(u, o)
    <3>1. 1 \in 1..Len(todo[t]) /\ todo[t][1].obj = o
      BY FirstStep
    <3> QED BY <3>1, Touched
  <2>2. \A u \in Threads \ {t}, x \in Objects : NamedInsert(u, x) => objects'[x] = objects[x]
    BY <1>3, <2>1
  <2>3. ~(q # <<>> /\ q[1].op = "insert" /\ q[1].name # NoName)
    BY <1>2
  <2> QED BY <1>2, <2>2, <2>3, InsertsThen
<1>14. FilesRight'
  <2>1. ~objects'[o].device
    BY <1>3, <1>6 DEF ObInv, FilesRight
  <2>2. todo[t][1].op = "insert"
    BY FirstStep
  <2>3. FileMoves(t, q, o, objects'[o])
    BY <1>2, <2>1, <2>2 DEF FileMoves
  <2>4. objects'[o] \in Headers
    BY <1>3, <1>7
  <2> QED BY <1>2, <1>3, <1>7, <2>3, <2>4, FilesThen
<1> QED BY <1>4, <1>9, <1>10, <1>11, <1>12, <1>13, <1>14 DEF ObInv

\* ObInsertObject.
LEMMA InsertRight ==
    ASSUME ObInv, NEW t \in Threads, ObInsertObject(t)
    PROVE  ObInv'
<1> DEFINE step == todo[t][1]
           o == step.obj
           p(y) == objects[y].permanent \/ "permanent" \in step.attributes
<1>1. /\ At(t, "insert") /\ ~Collides(Current(t)) /\ firstFree # DecodedEnd
      /\ Then(t, <<Step("deref", Current(t).obj)>>) /\ crashed' = crashed
      /\ held' = IF Current(t).bias = 0 THEN held
                 ELSE [held EXCEPT ![t] = @ \union {Current(t).obj}]
  BY DEF ObInsertObject
<1>2. /\ todo[t] # <<>> /\ step.op = "insert" /\ Current(t) = step /\ 1 \in 1..Len(todo[t])
      /\ step \in Steps /\ objects[o].state = "live" /\ objects[o].pointers > 0
  BY <1>1, FirstStep
<1>3. /\ o \in Objects /\ step.name \in Names \union {NoName} /\ step.bias \in {0, 1}
      /\ step.bias = 1 => step.name # NoName /\ "openif" \notin step.attributes
  BY <1>2, StepIs
<1>4. /\ objects \in [AllObjects -> Headers] /\ Objects \subseteq AllObjects
      /\ o \in AllObjects /\ o # Directory /\ Directory \in AllObjects
  BY <1>3, EntriesAre DEF ObInv, ObTypes
<1>5. \A y \in Objects : p(y) \in BOOLEAN
  OBVIOUS
<1>6. \A y \in Objects :
          /\ objects[y] \in Headers /\ objects[y].pointers \in Nat /\ objects[y].handles \in Nat
  BY <1>4, Numbers
<1>7. CASE /\ step.name = NoName /\ TakeHandle(o)
           /\ objects' = [objects EXCEPT ![o] =
                [objects[o] EXCEPT !.pointers = @ + step.bias + 1, !.handles = @ + 1,
                                   !.permanent = @ \/ "permanent" \in step.attributes]]
  <2>1. step.bias = 0 /\ held' = held
    BY <1>1, <1>2, <1>3, <1>7
  <2>2. objects[o].pointers + step.bias + 1 = objects[o].pointers + 1
    BY <1>3, <1>6, <2>1
  <2>3. \A u \in Threads \ {t} : ~NamedInsert(u, o)
    BY <1>2, <1>3, Touched
  <2>4. objects' = [objects EXCEPT ![o] =
            [objects[o] EXCEPT !.pointers = @ + 1, !.handles = @ + 1, !.permanent = p(o)]]
    BY <1>7, <2>2
  <2>5. p(o) \in BOOLEAN /\ (objects[o].permanent => p(o))
    OBVIOUS
  <2>6. TakeHandle(o)
    BY <1>7
  <2> HIDE DEF p, o
  <2> QED BY <1>1, <1>2, <1>3, <2>1, <2>3, <2>4, <2>5, <2>6, InsertHandleRight
<1>8. CASE /\ step.name # NoName /\ Existing(step) = {} /\ TakeHandle(o)
           /\ objects' = [objects EXCEPT
                ![o] = [[objects[o] EXCEPT
                          !.pointers = @ + step.bias + 1, !.handles = @ + 1,
                          !.permanent = @ \/ "permanent" \in step.attributes] EXCEPT
                        !.pointers = @ + 1, !.attached = TRUE, !.linked = TRUE],
                ![Directory].pointers = @ + 1]
  <2>1. Linked(step.name) = {} /\ NamedInsert(t, o)
    BY <1>2, <1>8 DEF Existing, NamedInsert
  <2>2. [[objects[o] EXCEPT
            !.pointers = @ + step.bias + 1, !.handles = @ + 1,
            !.permanent = @ \/ "permanent" \in step.attributes] EXCEPT
          !.pointers = @ + 1, !.attached = TRUE, !.linked = TRUE]
        = LinkedHeader(o, step.bias, p(o))
    <3>1. /\ objects[o] \in Headers
          /\ objects[o].pointers + step.bias + 1 + 1 = objects[o].pointers + step.bias + 2
      BY <1>3, <1>6
    <3> QED BY <3>1 DEF LinkedHeader, Headers
  <2>3. LinkMoves(t, o, step.bias, p(o))
    BY <1>1, <1>2, <1>8, <2>2 DEF LinkMoves
  <2>4. p(o) \in BOOLEAN /\ o = Current(t).obj
    BY <1>2
  <2> HIDE DEF p, o
  <2> QED BY <1>1, <1>3, <2>1, <2>3, <2>4, LinkRight
<1>9. ASSUME NEW x \in Existing(step), TakeHandle(x),
             objects' = [objects EXCEPT
                 ![x].pointers = @ + step.bias + 1, ![x].handles = @ + 1,
                 ![x].permanent = @ \/ "permanent" \in step.attributes]
      PROVE  ObInv'
  <2>1. x \in Objects /\ objects[x].linked
    BY DEF Existing, Linked
  <2>2. "openif" \in step.attributes
    BY <1>1, <1>2 DEF Collides
  <2>3. step.bias = 0 /\ held' = held
    BY <1>1, <1>2, <1>3, <2>2
  <2>4. /\ objects[x].state = "live" /\ objects[x].pointers > 0 /\ x \in AllObjects
        /\ \A u \in Threads \ {t} : ~NamedInsert(u, x)
    BY <1>4, <2>1, Kept, Touched
  <2>5. objects' = [objects EXCEPT ![x] =
            [objects[x] EXCEPT !.pointers = @ + 1, !.handles = @ + 1, !.permanent = p(x)]]
    <3>1. objects[x].pointers + step.bias + 1 = objects[x].pointers + 1
      BY <1>3, <1>6, <2>1, <2>3
    <3>2. objects' = [objects EXCEPT ![x] =
              [objects[x] EXCEPT !.pointers = @ + step.bias + 1, !.handles = @ + 1,
                                 !.permanent = @ \/ "permanent" \in step.attributes]]
      BY <1>4, <1>6, <1>9, <2>1
    <3> QED BY <3>1, <3>2
  <2>6. p(x) \in BOOLEAN /\ (objects[x].permanent => p(x)) /\ TakeHandle(x)
    BY <1>9
  <2> HIDE DEF p
  <2> QED BY <1>1, <2>1, <2>3, <2>4, <2>5, <2>6, InsertHandleRight
<1>10. LET s == Current(t)
           i == [objects[s.obj] EXCEPT
                   !.pointers = @ + s.bias + 1, !.handles = @ + 1,
                   !.permanent = @ \/ "permanent" \in s.attributes]
       IN  \/ /\ s.name = NoName /\ TakeHandle(s.obj)
              /\ objects' = [objects EXCEPT ![s.obj] = i]
           \/ /\ s.name # NoName /\ Existing(s) = {} /\ TakeHandle(s.obj)
              /\ objects' = [objects EXCEPT
                   ![s.obj] = [i EXCEPT !.pointers = @ + 1, !.attached = TRUE, !.linked = TRUE],
                   ![Directory].pointers = @ + 1]
           \/ \E x \in Existing(s) :
              /\ TakeHandle(x)
              /\ objects' = [objects EXCEPT
                   ![x].pointers = @ + s.bias + 1, ![x].handles = @ + 1,
                   ![x].permanent = @ \/ "permanent" \in s.attributes]
  BY DEF ObInsertObject
<1> QED BY <1>2, <1>7, <1>8, <1>9, <1>10

-----------------------------------------------------------------------------
(* The theorems.                                                            *)

\* The invariant says nothing else.
LEMMA ObStutters ==
    ASSUME ObInv, UNCHANGED vars
    PROVE  ObInv'
<1>1. /\ table' = table /\ firstFree' = firstFree /\ handleCount' = handleCount
      /\ objects' = objects /\ todo' = todo /\ held' = held /\ crashed' = crashed
  BY DEF vars, tableVars
<1>2. ObTypes'
  BY <1>1 DEF ObInv, ObTypes
<1>3. FreeListRight' /\ HandleCountsExact'
  BY <1>1 DEF ObInv, FreeListRight, FreeListIs, IsObject, HandleCountsExact, HandlesTo
<1>4. PointersRight'
  <2>1. /\ \A x : HandlesTo(x)' = HandlesTo(x) /\ Holders(x)' = Holders(x)
        /\ \A x, ops : Pending(x, ops)' = Pending(x, ops)
        /\ LinkedOnes' = LinkedOnes
    BY <1>1 DEF HandlesTo, Holders, Pending, LinkedOnes
  <2>2. PointerCountExact' = PointerCountExact
    BY <1>1, <2>1 DEF PointerCountExact
  <2> QED BY <2>1, <2>2 DEF ObInv, PointersRight
<1>5. LivesRight'
  <2>1. \A x, ops : Pending(x, ops)' = Pending(x, ops)
    BY <1>1 DEF Pending
  <2> QED BY <1>1, <2>1 DEF ObInv, LivesRight, DeletedOnce
<1>6. LinksRight' /\ InsertsRight'
  BY <1>1 DEF ObInv, LinksRight, InsertsRight, NamedInsert
<1>7. FilesRight'
  BY <1>1 DEF ObInv, FilesRight, HadHandle, Closing
<1> QED BY <1>2, <1>3, <1>4, <1>5, <1>6, <1>7 DEF ObInv

\* An action of a thread.
LEMMA ObKept ==
    ASSUME ObInv, Next
    PROVE  ObInv'
<1> SUFFICES ASSUME NEW t \in Threads,
        \/ \E o \in Objects, kind \in Kinds \ {"file"}, a \in Attributes,
              n \in Names \union {NoName} : Create(t, o, kind, n, a)
        \/ InsertFails(t)
        \/ ObInsertObject(t)
        \/ \E n \in Names : ObOpenObjectByName(t, n)
        \/ IoParseDevice(t)
        \/ OpenHandle(t)
        \/ FileCreated(t)
        \/ \E o \in Objects : \/ ObOpenObjectByPointer(t, o)
                              \/ ObMakeTemporaryObject(t, o)
                              \/ DropReference(t, o)
        \/ \E h \in Handles : \/ ObReferenceObjectByHandle(t, h)
                              \/ ObfDuplicateObject(t, h)
                              \/ ObfCloseHandle(t, h)
        \/ Dereference(t)
        \/ Free(t)
        \/ IopCloseFile(t)
        \/ FinishClose(t)
        \/ ClosedHandleUsed(t)
        \/ TableExhausted(t)
        \/ DetachedTwice(t)
             PROVE  ObInv'
  BY DEF Next
<1>1. CASE \E o \in Objects, kind \in Kinds \ {"file"}, a \in Attributes,
              n \in Names \union {NoName} : Create(t, o, kind, n, a)
  BY <1>1, CreateRight
<1>2. CASE InsertFails(t) \/ ObInsertObject(t)
  BY <1>2, InsertFailsRight, InsertRight
<1>3. CASE \E n \in Names : ObOpenObjectByName(t, n)
  BY <1>3, OpenByNameRight
<1>4. CASE IoParseDevice(t) \/ OpenHandle(t) \/ FileCreated(t)
  BY <1>4, ParseRight, OpenHandleRight, FileCreatedRight
<1>5. CASE \E o \in Objects : ObOpenObjectByPointer(t, o) \/ ObMakeTemporaryObject(t, o)
                              \/ DropReference(t, o)
  BY <1>5, OpenByPointerRight, MakeTemporaryRight, DropReferenceRight
<1>6. CASE \E h \in Handles : ObReferenceObjectByHandle(t, h) \/ ObfDuplicateObject(t, h)
                              \/ ObfCloseHandle(t, h)
  BY <1>6, ReferenceByHandleRight, DuplicateRight, CloseHandleRight
<1>7. CASE Dereference(t) \/ Free(t) \/ IopCloseFile(t) \/ FinishClose(t)
  BY <1>7, DereferenceRight, FreeRight, CloseFileRight, FinishCloseRight
<1>8. CASE ClosedHandleUsed(t) \/ TableExhausted(t) \/ DetachedTwice(t)
  BY <1>8, CrashRight DEF ClosedHandleUsed, TableExhausted, DetachedTwice
<1> QED BY <1>1, <1>2, <1>3, <1>4, <1>5, <1>6, <1>7, <1>8

\* The invariant: who may point to an object, what the operations under way
\* have still to do, and the free list, in every reachable state.
THEOREM ObjectInvariant == Spec => []ObInv
<1>1. Init => ObInv
  BY InitialRight DEF Init, Initial
<1>2. ObInv /\ [Next]_vars => ObInv'
  BY ObKept, ObStutters
<1> QED BY <1>1, <1>2, PTL DEF Spec

\* Both counts of every object are exact, at every point between two steps of
\* ob.cpp: PointerCount has every handle, link, caller and operation.
THEOREM ObjectCounts == Spec => []CountsExact
<1>1. ObInv => CountsExact
  BY DEF ObInv, PointersRight, CountsExact
<1> QED BY <1>1, ObjectInvariant, PTL

\* Whoever takes the last pointer in ObfDereferenceObject deletes the object,
\* nobody else does, and a file that was opened is cleaned up by then.
THEOREM ObjectsEndOnce == Spec => []EndsOnce
<1>1. ObInv => EndsOnce
  BY DEF ObInv, LivesRight, EndsOnce, FilesRight, CleanedBeforeFreed
<1> QED BY <1>1, ObjectInvariant, PTL

\* A name is in the directory once, and that of a temporary object no longer
\* than the object has handles.
THEOREM NamesInDirectory == Spec => []NamesAreUsed
<1>1. ASSUME ObInv PROVE NamesAreUsed
  <2>1. ASSUME NEW n \in Names PROVE Cardinality(Linked(n)) <= 1
    <3>1. \A o, p \in Linked(n) : o = p
      BY <1>1 DEF Linked, ObInv, LinksRight
    <3>2. CASE Linked(n) = {}
      BY <3>2, FS_EmptySet
    <3>3. ASSUME NEW o \in Linked(n) PROVE Cardinality(Linked(n)) = 1
      <4>1. Linked(n) = {o}
        BY <3>1, <3>3
      <4> QED BY <4>1, FS_Singleton
    <3> QED BY <3>2, <3>3
  <2> QED BY <1>1, <2>1 DEF NamesAreUsed, ObInv, LinksRight
<1> QED BY <1>1, ObjectInvariant, PTL

\* What is in use is alive: the counts are exact, and who may delete an object
\* has seen its last pointer go.
LEMMA UsedIsLive == ObInv => NothingFreedInUse
<1> SUFFICES ASSUME ObInv, NEW x \in AllObjects, InUse(x) PROVE objects[x].state = "live"
  BY DEF NothingFreedInUse
<1>1. CASE HandlesTo(x) # {}
  BY <1>1, Kept DEF HandlesTo
<1>2. CASE \E t \in Threads : x \in held[t]
  BY <1>2, Kept
<1>3. ASSUME NEW t \in Threads, NEW k \in DOMAIN todo[t], todo[t][k].obj = x
      PROVE  objects[x].state = "live"
  <2>1. k \in 1..Len(todo[t])
    BY Lists
  <2> QED BY <1>3, <2>1, StepsOnLive
<1>4. CASE objects[x].linked \/ x = Directory
  BY <1>4, Kept
<1> QED BY <1>1, <1>2, <1>3, <1>4 DEF InUse

\* The handle that is given out is a free one.
LEMMA FirstIsFree ==
    ASSUME ObInv, firstFree # DecodedEnd
    PROVE  firstFree \in Handles /\ ~IsObject(firstFree)
<1>1. PICK list \in Seq(Handles) : FreeListIs(list)
  BY DEF ObInv, FreeListRight
<1>2. list # <<>> /\ firstFree = list[1]
  BY <1>1 DEF FreeListIs
<1>3. firstFree \in Members(list)
  BY <1>2, HeadLeaves, <1>1 DEF FreeListIs
<1> QED BY <1>1, <1>3 DEF FreeListIs

\* What a step may do to the table.
TableStep ==
    \/ table' = table
    \/ \E o \in Objects : firstFree # DecodedEnd /\ TakeHandle(o)
    \/ \E h \in Handles : GiveHandle(h)

\* No handle is given to another object.
HandlesStay == \A h \in Handles : IsObject(h) /\ IsObject(h)' => table'[h] = table[h]

LEMMA TableStepKeeps ==
    ASSUME ObInv, TableStep
    PROVE  HandlesStay
<1>1. table \in [Handles -> Objects \union FreeEntries]
  BY DEF ObInv, ObTypes
<1>2. CASE table' = table
  BY <1>2 DEF HandlesStay
<1>3. ASSUME NEW o \in Objects, firstFree # DecodedEnd, TakeHandle(o)
      PROVE  HandlesStay
  <2>1. ~IsObject(firstFree) /\ table' = [table EXCEPT ![firstFree] = o]
    BY <1>3, FirstIsFree DEF TakeHandle
  <2> QED BY <1>1, <2>1 DEF HandlesStay
<1>4. ASSUME NEW h \in Handles, GiveHandle(h)
      PROVE  HandlesStay
  <2> DEFINE e == FreeEntry(firstFree, FALSE)
  <2>1. e \notin Objects
    BY EntriesAre DEF ObInv, ObTypes
  <2>2. table' = [table EXCEPT ![h] = e]
    BY <1>4 DEF GiveHandle
  <2> HIDE DEF e
  <2> QED BY <1>1, <2>1, <2>2 DEF HandlesStay, IsObject
<1> QED BY <1>2, <1>3, <1>4 DEF TableStep

LEMMA TableSteps ==
    ASSUME ObInv, Next, crashed' = "no"
    PROVE  TableStep
<1> SUFFICES ASSUME NEW t \in Threads,
        \/ \E o \in Objects, kind \in Kinds \ {"file"}, a \in Attributes,
              n \in Names \union {NoName} : Create(t, o, kind, n, a)
        \/ InsertFails(t)
        \/ ObInsertObject(t)
        \/ \E n \in Names : ObOpenObjectByName(t, n)
        \/ IoParseDevice(t)
        \/ OpenHandle(t)
        \/ FileCreated(t)
        \/ \E o \in Objects : \/ ObOpenObjectByPointer(t, o)
                              \/ ObMakeTemporaryObject(t, o)
                              \/ DropReference(t, o)
        \/ \E h \in Handles : \/ ObReferenceObjectByHandle(t, h)
                              \/ ObfDuplicateObject(t, h)
                              \/ ObfCloseHandle(t, h)
        \/ Dereference(t)
        \/ Free(t)
        \/ IopCloseFile(t)
        \/ FinishClose(t)
        \/ ClosedHandleUsed(t)
        \/ TableExhausted(t)
        \/ DetachedTwice(t)
             PROVE  TableStep
  BY DEF Next
<1>1. CASE \E o \in Objects, kind \in Kinds \ {"file"}, a \in Attributes,
              n \in Names \union {NoName} : Create(t, o, kind, n, a)
  BY <1>1 DEF Create, TableStep, tableVars
<1>2. CASE InsertFails(t) \/ IoParseDevice(t) \/ FileCreated(t)
  BY <1>2 DEF InsertFails, IoParseDevice, FileCreated, TableStep, tableVars
<1>3. CASE \E n \in Names : ObOpenObjectByName(t, n)
  BY <1>3 DEF ObOpenObjectByName, TableStep, tableVars
<1>4. CASE \E o \in Objects : ObOpenObjectByPointer(t, o) \/ ObMakeTemporaryObject(t, o)
                              \/ DropReference(t, o)
  BY <1>4 DEF ObOpenObjectByPointer, ObMakeTemporaryObject, DropReference, TableStep, tableVars
<1>5. CASE \E h \in Handles : ObReferenceObjectByHandle(t, h) \/ ObfDuplicateObject(t, h)
  BY <1>5 DEF ObReferenceObjectByHandle, ObfDuplicateObject, TableStep, tableVars
<1>6. CASE Dereference(t) \/ Free(t) \/ IopCloseFile(t) \/ FinishClose(t)
  BY <1>6 DEF Dereference, Free, IopCloseFile, FinishClose, TableStep, tableVars
<1>7. CASE \E h \in Handles : ObfCloseHandle(t, h)
  BY <1>7 DEF ObfCloseHandle, TableStep
<1>8. CASE OpenHandle(t)
  <2>1. At(t, "handle") /\ firstFree # DecodedEnd /\ TakeHandle(Current(t).obj)
    BY <1>8 DEF OpenHandle
  <2>2. Current(t) = todo[t][1] /\ todo[t][1] \in Steps /\ todo[t][1].op = "handle"
    BY <2>1, FirstStep
  <2>3. Current(t).obj \in Objects
    BY <2>2, StepIs
  <2> QED BY <2>1, <2>3 DEF TableStep
<1>9. CASE ObInsertObject(t)
  <2>1. /\ At(t, "insert") /\ firstFree # DecodedEnd
        /\ \/ TakeHandle(Current(t).obj)
           \/ \E x \in Existing(Current(t)) : TakeHandle(x)
    BY <1>9 DEF ObInsertObject
  <2>2. Current(t) = todo[t][1] /\ todo[t][1] \in Steps /\ todo[t][1].op = "insert"
    BY <2>1, FirstStep
  <2>3. Current(t).obj \in Objects /\ Existing(Current(t)) \subseteq Objects
    BY <2>2, StepIs DEF Existing, Linked
  <2> QED BY <2>1, <2>3 DEF TableStep
<1>10. CASE ClosedHandleUsed(t) \/ TableExhausted(t) \/ DetachedTwice(t)
  BY <1>10 DEF ClosedHandleUsed, TableExhausted, DetachedTwice, Crash
<1> QED BY <1>1, <1>2, <1>3, <1>4, <1>5, <1>6, <1>7, <1>8, <1>9, <1>10

\* ObpCreateHandleForObject never gives out a handle that is open, as the free
\* list has free entries only, and ObfDereferenceObject deletes nothing in use,
\* as the counts are exact after every step too.
THEOREM HandlesMeanObjects == Spec => HandlesKeepObjects
<1>1. ASSUME ObInv, ObInv', [Next]_vars
      PROVE  [crashed' = "no" => HandlesStay /\ NothingFreedInUse']_vars
  <2>1. ObInv' => NothingFreedInUse'
    BY UsedIsLive, PTL
  <2>2. CASE Next
    BY <1>1, <2>1, <2>2, TableSteps, TableStepKeeps
  <2> QED BY <1>1, <2>2
<1>2. ASSUME [crashed' = "no" => HandlesStay /\ NothingFreedInUse']_vars
      PROVE  [crashed' = "no" =>
                 /\ \A h \in Handles : IsObject(h) /\ IsObject(h)' => table'[h] = table[h]
                 /\ NothingFreedInUse']_vars
  BY <1>2 DEF HandlesStay
<1> QED BY <1>1, <1>2, ObjectInvariant, PTL DEF Spec, HandlesKeepObjects

-----------------------------------------------------------------------------
(* The handle table, in the terms of the run.                               *)

DirectoryHandles == objects[Directory].handles = 0

\* Only where a bad pointer is followed the model stops.
LEMMA Crashes ==
    ASSUME Next, crashed' # "no"
    PROVE  \E why : Crash(why)
<1>1. PICK t \in Threads :
        \/ \E o \in Objects, kind \in Kinds \ {"file"}, a \in Attributes,
              n \in Names \union {NoName} : Create(t, o, kind, n, a)
        \/ InsertFails(t) \/ ObInsertObject(t)
        \/ \E n \in Names : ObOpenObjectByName(t, n)
        \/ IoParseDevice(t) \/ OpenHandle(t) \/ FileCreated(t)
        \/ \E o \in Objects : ObOpenObjectByPointer(t, o) \/ ObMakeTemporaryObject(t, o)
                              \/ DropReference(t, o)
        \/ \E h \in Handles : ObReferenceObjectByHandle(t, h) \/ ObfDuplicateObject(t, h)
                              \/ ObfCloseHandle(t, h)
        \/ Dereference(t) \/ Free(t) \/ IopCloseFile(t) \/ FinishClose(t)
        \/ ClosedHandleUsed(t) \/ TableExhausted(t) \/ DetachedTwice(t)
  BY DEF Next
<1>2. \A o, kind, n, a : Create(t, o, kind, n, a) => crashed' = "no"
  BY DEF Create, Idle
<1>3. InsertFails(t) \/ ObInsertObject(t) => crashed' = "no"
  BY DEF InsertFails, ObInsertObject, At
<1>4. \A n : ObOpenObjectByName(t, n) => crashed' = "no"
  BY DEF ObOpenObjectByName, Idle
<1>5. IoParseDevice(t) \/ OpenHandle(t) \/ FileCreated(t) => crashed' = "no"
  BY DEF IoParseDevice, OpenHandle, FileCreated, At
<1>6. \A o : ObOpenObjectByPointer(t, o) \/ ObMakeTemporaryObject(t, o) \/ DropReference(t, o)
               => crashed' = "no"
  BY DEF ObOpenObjectByPointer, ObMakeTemporaryObject, DropReference, Idle
<1>7. \A h : ObReferenceObjectByHandle(t, h) \/ ObfDuplicateObject(t, h) \/ ObfCloseHandle(t, h)
               => crashed' = "no"
  BY DEF ObReferenceObjectByHandle, ObfDuplicateObject, ObfCloseHandle, Idle
<1>8. Dereference(t) \/ Free(t) \/ IopCloseFile(t) \/ FinishClose(t) => crashed' = "no"
  BY DEF Dereference, Free, IopCloseFile, FinishClose, At
<1>9. ClosedHandleUsed(t) \/ TableExhausted(t) \/ DetachedTwice(t) => \E why : Crash(why)
  BY DEF ClosedHandleUsed, TableExhausted, DetachedTwice
<1> QED BY <1>1, <1>2, <1>3, <1>4, <1>5, <1>6, <1>7, <1>8, <1>9

\* No handle is given to the directory, or taken from it.
DirectorySame == objects'[Directory].handles = objects[Directory].handles

\* What an operation does to another object does not concern it.
LEMMA OtherObject ==
    ASSUME ObInv, NEW o \in Objects, NEW H, objects' = [objects EXCEPT ![o] = H]
    PROVE  DirectorySame
BY EntriesAre DEF ObInv, ObTypes, DirectorySame

\* References to the directory itself are counted, and its deletion would be
\* another field.
LEMMA DirectoryItself ==
    ASSUME ObInv, NEW o \in AllObjects, NEW n, NEW a, NEW b,
           \/ objects' = [objects EXCEPT ![o].pointers = n]
           \/ objects' = [objects EXCEPT ![o].state = a, ![o].cleaned = b]
    PROVE  DirectorySame
<1>1. objects \in [AllObjects -> Headers] /\ Directory \in AllObjects
  BY EntriesAre DEF ObInv, ObTypes
<1>2. CASE objects' = [objects EXCEPT ![o].pointers = n]
  <2>1. objects'[Directory] = IF o = Directory
                              THEN [objects[Directory] EXCEPT !.pointers = n]
                              ELSE objects[Directory]
    BY <1>1, <1>2
  <2> QED BY <1>1, <2>1 DEF Headers, DirectorySame
<1>3. CASE objects' = [objects EXCEPT ![o].state = a, ![o].cleaned = b]
  <2>1. objects' = [objects EXCEPT ![o] = [objects[o] EXCEPT !.state = a, !.cleaned = b]]
    BY <1>1, <1>3 DEF Headers
  <2>2. objects'[Directory] = IF o = Directory
                              THEN [objects[Directory] EXCEPT !.state = a, !.cleaned = b]
                              ELSE objects[Directory]
    BY <1>1, <2>1
  <2> QED BY <1>1, <2>2 DEF Headers, DirectorySame
<1> QED BY <1>2, <1>3

\* A step that is to do on an object other than the directory.
LEMMA StepObject ==
    ASSUME ObInv, NEW t \in Threads, NEW op \in {"insert", "close", "parse", "handle", "created", "closed"},
           At(t, op)
    PROVE  Current(t).obj \in Objects
<1>1. Current(t) = todo[t][1] /\ todo[t][1] \in Steps /\ todo[t][1].op = op
  BY FirstStep
<1> QED BY <1>1, StepIs

\* An insertion refers to the directory once more, and counts no handle there.
LEMMA DirectoryOfInsert ==
    ASSUME ObInv, NEW t \in Threads, ObInsertObject(t)
    PROVE  DirectorySame
<1> DEFINE s == Current(t)
           i == [objects[s.obj] EXCEPT
                   !.pointers = @ + s.bias + 1, !.handles = @ + 1,
                   !.permanent = @ \/ "permanent" \in s.attributes]
           linked == [i EXCEPT !.pointers = @ + 1, !.attached = TRUE, !.linked = TRUE]
<1>1. s.obj \in Objects
  BY StepObject DEF ObInsertObject
<1>2. /\ objects \in [AllObjects -> Headers] /\ Objects \subseteq AllObjects
      /\ Directory \in AllObjects /\ Directory \notin Objects
  BY EntriesAre DEF ObInv, ObTypes
<1>3. \/ objects' = [objects EXCEPT ![s.obj] = i]
      \/ objects' = [objects EXCEPT ![s.obj] = linked, ![Directory].pointers = @ + 1]
      \/ \E x \in Existing(s) :
           objects' = [objects EXCEPT
             ![x].pointers = @ + s.bias + 1, ![x].handles = @ + 1,
             ![x].permanent = @ \/ "permanent" \in s.attributes]
  BY DEF ObInsertObject
<1> HIDE DEF i, linked, s
<1>4. CASE objects' = [objects EXCEPT ![s.obj] = i]
  BY <1>1, <1>4, OtherObject
<1>5. CASE objects' = [objects EXCEPT ![s.obj] = linked, ![Directory].pointers = @ + 1]
  <2>1. objects'[Directory] = [objects[Directory] EXCEPT !.pointers = @ + 1]
    BY <1>1, <1>2, <1>5
  <2> QED BY <1>2, <2>1 DEF Headers, DirectorySame
<1>6. ASSUME NEW x \in Existing(s),
             objects' = [objects EXCEPT
               ![x].pointers = @ + s.bias + 1, ![x].handles = @ + 1,
               ![x].permanent = @ \/ "permanent" \in s.attributes]
      PROVE  DirectorySame
  <2>1. x \in Objects /\ x # Directory
    BY <1>2 DEF Existing, Linked
  <2>2. objects'[Directory] = objects[Directory]
    BY <1>2, <1>6, <2>1
  <2> QED BY <2>2 DEF DirectorySame
<1> QED BY <1>3, <1>4, <1>5, <1>6

\* What any step does.
LEMMA DirectoryOfNext ==
    ASSUME ObInv, Next, crashed' = "no"
    PROVE  DirectorySame
<1> SUFFICES ASSUME NEW t \in Threads,
        \/ \E o \in Objects, kind \in Kinds \ {"file"}, a \in Attributes,
              n \in Names \union {NoName} : Create(t, o, kind, n, a)
        \/ InsertFails(t)
        \/ ObInsertObject(t)
        \/ \E n \in Names : ObOpenObjectByName(t, n)
        \/ IoParseDevice(t)
        \/ OpenHandle(t)
        \/ FileCreated(t)
        \/ \E o \in Objects : \/ ObOpenObjectByPointer(t, o)
                              \/ ObMakeTemporaryObject(t, o)
                              \/ DropReference(t, o)
        \/ \E h \in Handles : \/ ObReferenceObjectByHandle(t, h)
                              \/ ObfDuplicateObject(t, h)
                              \/ ObfCloseHandle(t, h)
        \/ Dereference(t)
        \/ Free(t)
        \/ IopCloseFile(t)
        \/ FinishClose(t)
        \/ ClosedHandleUsed(t)
        \/ TableExhausted(t)
        \/ DetachedTwice(t)
             PROVE  DirectorySame
  BY DEF Next
<1>0. objects \in [AllObjects -> Headers] /\ Objects \subseteq AllObjects
  BY EntriesAre DEF ObInv, ObTypes
<1>1. CASE \E o \in Objects, kind \in Kinds \ {"file"}, a \in Attributes,
              n \in Names \union {NoName} : Create(t, o, kind, n, a)
  BY <1>1, OtherObject DEF Create
<1>2. CASE InsertFails(t) \/ \E o \in Objects : DropReference(t, o)
  BY <1>2 DEF InsertFails, DropReference, DirectorySame
<1>3. CASE ObInsertObject(t)
  BY <1>3, DirectoryOfInsert
<1>4. CASE \E n \in Names : ObOpenObjectByName(t, n)
  BY <1>0, <1>4, DirectoryItself DEF ObOpenObjectByName, Linked
<1>5. CASE \E o \in Objects : ObOpenObjectByPointer(t, o)
  BY <1>0, <1>5, DirectoryItself DEF ObOpenObjectByPointer
<1>6. CASE \E o \in Objects : ObMakeTemporaryObject(t, o)
  BY <1>6, OtherObject DEF ObMakeTemporaryObject
<1>7. CASE \E h \in Handles : ObReferenceObjectByHandle(t, h) \/ ObfDuplicateObject(t, h)
  BY <1>0, <1>7, DirectoryItself DEF ObReferenceObjectByHandle, ObfDuplicateObject, IsObject
<1>8. ASSUME NEW h \in Handles, ObfCloseHandle(t, h) PROVE DirectorySame
  <2>1. table[h] \in Objects /\ \E H : objects' = [objects EXCEPT ![table[h]] = H]
    BY <1>8 DEF ObfCloseHandle, IsObject
  <2> QED BY <2>1, OtherObject
<1>9. CASE IoParseDevice(t)
  <2>1. objects' = objects \/ \E f \in Objects : \E H : objects' = [objects EXCEPT ![f] = H]
    BY <1>9 DEF IoParseDevice
  <2> QED BY <2>1, OtherObject DEF DirectorySame
<1>10. CASE OpenHandle(t)
  BY <1>10, StepObject, OtherObject DEF OpenHandle
<1>11. CASE FileCreated(t)
  BY <1>11, StepObject, OtherObject DEF FileCreated
<1>12. CASE FinishClose(t)
  BY <1>12, StepObject, OtherObject DEF FinishClose
<1>13. CASE IopCloseFile(t)
  <2> DEFINE o == Current(t).obj
  <2>1. o \in Objects /\ (objects' = objects \/ objects' = [objects EXCEPT
            ![o].handleCreated = TRUE, ![o].cleaned = TRUE])
    BY <1>13, StepObject DEF IopCloseFile
  <2> HIDE DEF o
  <2>2. objects'[Directory] = objects[Directory]
    BY <1>0, <2>1, EntriesAre
  <2> QED BY <2>2 DEF DirectorySame
<1>14. CASE Dereference(t)
  <2>1. At(t, "deref") /\ objects' = [objects EXCEPT ![Current(t).obj].pointers = @ - 1]
    BY <1>14 DEF Dereference
  <2>2. Current(t).obj \in AllObjects
    BY <2>1, FirstStep
  <2> QED BY <1>0, <2>1, <2>2, DirectoryItself
<1>15. CASE Free(t)
  <2> DEFINE o == Current(t).obj
             c == objects[o].cleaned \/ (objects[o].device /\ ~objects[o].handleCreated)
  <2>1. At(t, "free") /\ objects' = [objects EXCEPT
            ![o].state = "freed",
            ![o].cleaned = @ \/ (objects[o].device /\ ~objects[o].handleCreated)]
    BY <1>15 DEF Free
  <2>2. o \in AllObjects
    BY <2>1, FirstStep
  <2>3. objects' = [objects EXCEPT ![o].state = "freed", ![o].cleaned = c]
    BY <1>0, <2>1, <2>2 DEF Headers
  <2> HIDE DEF o, c
  <2> QED BY <2>2, <2>3, DirectoryItself
<1>16. CASE ClosedHandleUsed(t) \/ TableExhausted(t) \/ DetachedTwice(t)
  BY <1>16 DEF ClosedHandleUsed, TableExhausted, DetachedTwice, Crash
<1> QED BY <1>1, <1>2, <1>3, <1>4, <1>5, <1>6, <1>7, <1>8, <1>9, <1>10, <1>11, <1>12, <1>13, <1>14,
           <1>15, <1>16

\* The directory's own handle has been closed before anything else happens.
LEMMA DirectoryHandlesNone == Spec => []DirectoryHandles
<1>1. Init => DirectoryHandles
  BY EntriesAre DEF Init, InitialObjects, Header, DirectoryHandles
<1>2. ASSUME ObInv, DirectoryHandles, [Next]_vars PROVE DirectoryHandles'
  <2>1. CASE UNCHANGED vars
    BY <1>2, <2>1 DEF vars, DirectoryHandles
  <2>2. CASE Next /\ crashed' = "no"
    BY <1>2, <2>2, DirectoryOfNext DEF DirectorySame, DirectoryHandles
  <2>3. CASE Next /\ crashed' # "no"
    <3>1. objects' = InitialObjects
      BY <2>3, Crashes DEF Crash
    <3> QED BY <3>1, EntriesAre DEF InitialObjects, Header, DirectoryHandles
  <2> QED BY <1>2, <2>1, <2>2, <2>3
<1> QED BY <1>1, <1>2, ObjectInvariant, PTL DEF Spec

\* What FreeListIntact walks through.
WalkIs(f) ==
    f = [n \in 0..Entries |->
            IF n = 0 THEN firstFree
            ELSE IF f[n - 1] \in {h \in Handles : ~IsObject(h)} THEN table[f[n - 1]].next
            ELSE 0]

\* Where a walk along a list of free entries gets to.
Place(list, n) == IF n < Len(list) THEN list[n + 1] ELSE DecodedEnd

\* The free entries are as many as the list has, and no more than the table.
LEMMA FreeListLength ==
    ASSUME ObInv, NEW list \in Seq(Handles), FreeListIs(list)
    PROVE  /\ Len(list) \in Nat /\ Len(list) <= Entries /\ Entries \in Nat
           /\ Cardinality({h \in Handles : ~IsObject(h)}) = Len(list)
           /\ \A i \in 1..Len(list) : list[i] \in {h \in Handles : ~IsObject(h)}
<1> DEFINE free == {h \in Handles : ~IsObject(h)}
<1>1. Entries \in Nat
  BY ObjectAssumption
<1>2. IsFiniteSet(Handles) /\ Cardinality(Handles) = Entries
  BY <1>1, FS_Interval, ObjectAssumption DEF Handles
<1>3. free \in SUBSET Handles /\ IsFiniteSet(free) /\ Cardinality(free) <= Entries
  BY <1>2, FS_Subset
<1>4. Distinct(list) /\ Members(list) = free
  BY DEF FreeListIs
<1>5. Len(list) \in Nat /\ Cardinality(free) = Len(list)
  BY <1>4, LenIsCardinality, LenProperties
<1>6. \A i \in 1..Len(list) : list[i] \in free
  BY <1>4 DEF Members
<1> QED BY <1>1, <1>3, <1>5, <1>6

\* A walk goes along the list (by reflection, from the well-foundedness of the
\* naturals: there is no first place where it leaves it).
LEMMA WalkFollows ==
    ASSUME ObInv, NEW list \in Seq(Handles), FreeListIs(list), NEW f, WalkIs(f)
    PROVE  \A n \in 0..Len(list) : f[n] = Place(list, n)
<1> DEFINE B == {n \in 0..Len(list) : f[n] # Place(list, n)}
<1>1. /\ Len(list) \in Nat /\ Len(list) <= Entries /\ Entries \in Nat
      /\ \A i \in 1..Len(list) : list[i] \in {h \in Handles : ~IsObject(h)}
  BY FreeListLength
<1>2. /\ f[0] = firstFree
      /\ \A n \in 1..Entries :
           f[n] = IF f[n - 1] \in {h \in Handles : ~IsObject(h)} THEN table[f[n - 1]].next ELSE 0
  <2>1. \A n \in 0..Entries :
            f[n] = IF n = 0 THEN firstFree
                   ELSE IF f[n - 1] \in {h \in Handles : ~IsObject(h)} THEN table[f[n - 1]].next
                   ELSE 0
    BY DEF WalkIs
  <2> QED BY <1>1, <2>1
<1>4. B \subseteq Nat /\ \A n \in B : n <= Len(list) /\ f[n] # Place(list, n)
  BY <1>1
<1>5. \A n \in 0..Len(list) : n \notin B => f[n] = Place(list, n)
  OBVIOUS
<1> HIDE DEF B
<1>3. ASSUME B # {} PROVE FALSE
  <2>1. PICK m \in B : \A n \in B : ~(<<n, m>> \in OpToRel(<, Nat))
    BY <1>3, <1>4, NatLessThanWellFounded, WFMin
  <2>2. \A n \in B : ~(n < m)
    BY <1>4, <2>1 DEF OpToRel
  <2>3. m \in Nat /\ m <= Len(list) /\ f[m] # Place(list, m)
    BY <1>4
  <2>4. CASE m = 0
    <3>1. firstFree = Place(list, 0)
      BY <1>1, EmptySeq DEF FreeListIs, Place
    <3> QED BY <1>2, <2>3, <2>4, <3>1
  <2>5. CASE m # 0
    <3>1. m - 1 \in 0..Len(list) /\ m - 1 < m /\ m \in 1..Len(list) /\ m \in 1..Entries
      BY <1>1, <2>3, <2>5
    <3>2. f[m - 1] = Place(list, m - 1)
      BY <1>5, <2>2, <3>1
    <3>3. Place(list, m - 1) = list[m]
      BY <1>1, <2>3, <3>1 DEF Place
    <3>4. f[m] = table[list[m]].next
      BY <1>1, <1>2, <3>1, <3>2, <3>3
    <3>5. table[list[m]].next = Place(list, m)
      BY <1>1, <2>3, <3>1 DEF FreeListIs, Place
    <3> QED BY <2>3, <3>4, <3>5
  <2> QED BY <2>4, <2>5
<1> QED BY <1>3, <1>5

\* There is a walk: along the list, to its end, and then at 0.
LEMMA WalkExists ==
    ASSUME ObInv, NEW list \in Seq(Handles), FreeListIs(list)
    PROVE  \E f : WalkIs(f)
<1> DEFINE free == {h \in Handles : ~IsObject(h)}
           f == [n \in 0..Entries |-> IF n <= Len(list) THEN Place(list, n) ELSE 0]
<1>1. /\ Len(list) \in Nat /\ Len(list) <= Entries /\ Entries \in Nat
      /\ \A i \in 1..Len(list) : list[i] \in free
  BY FreeListLength
<1>2. DecodedEnd \notin free /\ 0 \notin free
  BY EntriesAre DEF Handles
<1>3. ASSUME NEW n \in 0..Entries
      PROVE  f[n] = IF n = 0 THEN firstFree
                    ELSE IF f[n - 1] \in free THEN table[f[n - 1]].next ELSE 0
  <2>1. CASE n = 0
    <3>1. firstFree = Place(list, 0)
      BY <1>1, EmptySeq DEF FreeListIs, Place
    <3> QED BY <1>1, <2>1, <3>1
  <2>2. CASE n # 0 /\ n <= Len(list)
    <3>1. n - 1 \in 0..Entries /\ n - 1 < Len(list) /\ n - 1 <= Len(list) /\ n \in 1..Len(list)
      BY <1>1, <2>2
    <3>2. f[n - 1] = list[n]
      BY <1>1, <3>1 DEF Place
    <3>3. table[list[n]].next = Place(list, n)
      BY <1>1, <2>2, <3>1 DEF FreeListIs, Place
    <3>4. f[n] = Place(list, n)
      BY <2>2
    <3> HIDE DEF f, free
    <3> QED BY <1>1, <2>2, <3>1, <3>2, <3>3, <3>4
  <2>3. CASE n > Len(list)
    <3>1. n - 1 \in 0..Entries /\ n # 0 /\ n - 1 >= Len(list) /\ ~(n <= Len(list))
      BY <1>1, <2>3
    <3>2. f[n - 1] = DecodedEnd \/ f[n - 1] = 0
      BY <1>1, <3>1 DEF Place
    <3>3. f[n] = 0
      BY <3>1
    <3> HIDE DEF f, free
    <3> QED BY <1>2, <3>1, <3>2, <3>3
  <2> QED BY <1>1, <2>1, <2>2, <2>3
<1> HIDE DEF free
<1>4. f = [n \in 0..Entries |->
              IF n = 0 THEN firstFree
              ELSE IF f[n - 1] \in free THEN table[f[n - 1]].next ELSE 0]
  BY <1>3
<1> HIDE DEF f
<1>5. WalkIs(f)
  BY <1>4 DEF WalkIs, free
<1> QED BY <1>5

\* What the run says of the free entries.
LEMMA FreeListWalked ==
    ASSUME ObInv
    PROVE  FreeListIntact
<1> DEFINE free == {h \in Handles : ~IsObject(h)}
           walk[n \in 0..Entries] ==
               IF n = 0 THEN firstFree
               ELSE IF walk[n - 1] \in free THEN table[walk[n - 1]].next
               ELSE 0
<1>1. PICK list \in Seq(Handles) : FreeListIs(list)
  BY DEF ObInv, FreeListRight
<1>2. \E f : WalkIs(f)
  BY <1>1, WalkExists
<1>3. WalkIs(walk)
  BY <1>2 DEF WalkIs
<1> HIDE DEF walk
<1>4. /\ Len(list) \in Nat /\ Cardinality(free) = Len(list)
      /\ Members(list) = free
  BY <1>1, FreeListLength DEF FreeListIs
<1>5. \A n \in 0..Len(list) : walk[n] = Place(list, n)
  BY <1>1, <1>3, WalkFollows
<1>6. walk[Len(list)] = DecodedEnd
  BY <1>4, <1>5 DEF Place
<1>7. {walk[n] : n \in 0..(Len(list) - 1)} = free
  <2>1. \A n \in 0..(Len(list) - 1) : walk[n] = list[n + 1] /\ n + 1 \in 1..Len(list)
    BY <1>4, <1>5 DEF Place
  <2>2. \A i \in 1..Len(list) : i - 1 \in 0..(Len(list) - 1) /\ walk[i - 1] = list[i]
    <3> SUFFICES ASSUME NEW i \in 1..Len(list)
                 PROVE  i - 1 \in 0..(Len(list) - 1) /\ walk[i - 1] = list[i]
      OBVIOUS
    <3>1. i - 1 \in 0..(Len(list) - 1) /\ (i - 1) + 1 = i
      BY <1>4
    <3> QED BY <2>1, <3>1
  <2>3. Members(list) = {list[i] : i \in 1..Len(list)}
    BY DEF Members
  <2> QED BY <1>4, <2>1, <2>2, <2>3
<1>8. {walk[n] : n \in 0..(Cardinality(free) - 1)} = free /\ walk[Cardinality(free)] = DecodedEnd
  BY <1>4, <1>6, <1>7
<1> USE DEF walk
<1> QED BY <1>8 DEF FreeListIntact

\* Types: a handle's entry is an object or a free entry, and no counter of
\* handles exceeds the size of the table.
LEMMA TypesRight ==
    ASSUME ObInv, DirectoryHandles
    PROVE  TypeOK
<1>1. ObTypes /\ HandleCountsExact
  BY DEF ObInv
<1>2. /\ IsFiniteSet(Handles) /\ Cardinality(Handles) = Entries /\ Entries \in Nat
  <2>1. Entries \in Nat /\ ~(1 > Entries)
    BY ObjectAssumption
  <2>2. IsFiniteSet(1..Entries) /\ Cardinality(1..Entries) = Entries
    BY <2>1, FS_Interval
  <2> QED BY <2>1, <2>2 DEF Handles
<1>3. ASSUME NEW S \in SUBSET Handles PROVE Cardinality(S) \in 0..Entries
  <2>1. Cardinality(S) \in Nat /\ Cardinality(S) <= Entries
    BY <1>2, FS_Subset, FS_CardinalityType
  <2> QED BY <1>2, <2>1
<1>4. handleCount \in 0..Entries
  BY <1>1, <1>3 DEF HandleCountsExact
<1>5. ASSUME NEW o \in AllObjects
      PROVE  /\ objects[o].state \in {"unborn", "live", "freed"}
             /\ objects[o].kind \in Kinds
             /\ objects[o].name \in Names \union {NoName}
             /\ objects[o].pointers \in Nat
  BY <1>1 DEF ObTypes, Headers
<1>6. objects[Directory].handles \in 0..Entries
  BY <1>2 DEF DirectoryHandles
<1>7. ASSUME NEW o \in Objects PROVE objects[o].handles \in 0..Entries
  BY <1>1, <1>3 DEF HandleCountsExact, HandlesTo
<1> QED BY <1>1, <1>4, <1>5, <1>6, <1>7 DEF TypeOK, ObTypes, FreeEntries, AllObjects

\* The handle table is whole however allocations and closes are mixed: every
\* entry is an object or a free entry, and the free list that
\* ObpCreateHandleForObject takes from has every free handle once.
THEOREM HandleTable == Spec => []TableIntact
<1>1. ObInv /\ DirectoryHandles => TableIntact
  BY FreeListWalked, TypesRight DEF TableIntact
<1> QED BY <1>1, ObjectInvariant, DirectoryHandlesNone, PTL

=============================================================================
