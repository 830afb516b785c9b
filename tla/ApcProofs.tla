------------------------------ MODULE ApcProofs ------------------------------
(***************************************************************************)
(* The safety properties of Apc, for any number of threads, APCs and       *)
(* events, any nesting of critical regions and any suspend limit.  What    *)
(* makes them inductive is what the code never writes down: which routines *)
(* can be on a thread's stack, at which level each may be switched away    *)
(* from, and that the special APCs are the first of every list.            *)
(***************************************************************************)
EXTENDS Apc, ListLemmas

-----------------------------------------------------------------------------
(* The inductive invariant.                                                 *)

\* The running thread is the current one.
CpuAgrees == \A t \in Threads : state[t] = "Running" <=> current = t

\* What a thread can be doing where no APC's loop runs: its own code, or a
\* NormalRoutine that interrupted it.
Resting(frames, inProgress) ==
    /\ frames \in Seq(Frames) /\ Len(frames) \in 1..2 /\ frames[1].kind = "thread"
    /\ Len(frames) = 1 => ~inProgress
    /\ Len(frames) = 2 => inProgress /\ frames[2].kind = "normal"

\* ... and in the loop: a KernelRoutine interrupts the thread's own code only.
Looping(frames, inProgress) ==
    /\ frames \in Seq(Frames) /\ Len(frames) \in 2..3 /\ frames[1].kind = "thread"
    /\ Len(frames) = 2 => ~inProgress /\ frames[2].kind \in {"special", "kernel"}
    /\ Len(frames) = 3 => inProgress /\ frames[2].kind = "normal"
                          /\ frames[3].kind = "special"

StackShape ==
    \A t \in Threads : Resting(stack[t], kernelApcInProgress[t])
                       \/ Looping(stack[t], kernelApcInProgress[t])

\* The loop runs its routines at APC_LEVEL, no thread gives the processor away
\* at PASSIVE_LEVEL and goes on at APC_LEVEL, and a thread that ends is at
\* PASSIVE_LEVEL except for the APCs that interrupt it.
LevelsRight ==
    \A t \in Threads :
        /\ InLoop(t) => irql[t] = 1
        /\ state[t] # "Running" /\ waitIrql[t] = 0 => irql[t] = 0
        /\ exiting[t] # "no" /\ ~InLoop(t) => irql[t] = 0

\* PsTerminateSystemThread closes the list in a critical region of its own.
ExitInOrder ==
    \A t \in Threads :
        /\ exiting[t] \in {"closed", "left"} <=> ~apcQueueable[t]
        /\ state[t] = "Terminated" => exiting[t] = "left"
        /\ exiting[t] # "closed" => kernelApcDisable[t] <= MaxDisable
        /\ exiting[t] = "closed" => kernelApcDisable[t] >= 1

\* A special APC never has a normal one in front of it.
SpecialsLead(list) ==
    \A i, j \in 1..Len(list) : i < j /\ list[j] \in SpecialApcs => list[i] \in SpecialApcs

SpecialsFirst == \A t \in Threads : SpecialsLead(apcList[t])

\* A KernelRoutine starts when no special APC is queued: one that has come
\* since is known to the thread, and to the processor if it runs.
SpecialsSeen ==
    \A t \in Threads :
        Top(t).kind = "kernel" /\ (\E a \in ToSet(apcList[t]) : a \in SpecialApcs)
            => kernelApcPending[t] /\ (current = t => apcRequested)

\* A suspended thread has its SuspendApc marked.
SuspendedIsMarked == \A t \in Threads : suspendCount[t] > 0 => suspendInserted[t]

ThreadsRight == CpuAgrees /\ StackShape /\ LevelsRight /\ ExitInOrder

ListsRight == InsertedAgrees /\ SpecialsFirst

DeliveryRight == NoApcStranded /\ SpecialsSeen /\ NoApcOutlivesThread

SuspendRight == SemaphoreAgrees /\ SuspendedIsMarked

ApcInv ==
    /\ TypeOK
    /\ ThreadsRight
    /\ ListsRight
    /\ WaitersAgree
    /\ DeliveryRight
    /\ SuspendRight

USE DEF threadVars, apcVars, regionVars, eventVars, suspendVars

-----------------------------------------------------------------------------
(* The lists.                                                               *)

\* What the community modules call the members and the injectivity of a list.
LEMMA ApcListNames ==
    ASSUME NEW S, NEW q \in Seq(S)
    PROVE  /\ ToSet(q) = Members(q)
           /\ IsInjective(q) <=> Distinct(q)
<1>1. DOMAIN q = 1..Len(q)
  OBVIOUS
<1> QED BY <1>1 DEF ToSet, IsInjective, Members, Distinct

\* "r" has what "q" has, in the same order, but not all of it.
InOrder(r, q) ==
    \A i, j \in 1..Len(r) : i < j =>
        \E k, l \in 1..Len(q) : k < l /\ r[i] = q[k] /\ r[j] = q[l]

\* A list that loses an entry keeps the special APCs first.
LEMMA OrderKept ==
    ASSUME NEW q, NEW r, SpecialsLead(q), InOrder(r, q)
    PROVE  SpecialsLead(r)
BY DEF SpecialsLead, InOrder

\* RemoveEntryList takes out the entry and nothing else.
LEMMA UnlinkedList ==
    ASSUME NEW S, NEW q \in Seq(S), Distinct(q), NEW x
    PROVE  LET r == Unlinked(q, x)
           IN  /\ r \in Seq(S) /\ Distinct(r) /\ InOrder(r, q)
               /\ Members(r) = Members(q) \ {x}
<1>1. ToSet(q) = Members(q) /\ DOMAIN q = 1..Len(q) /\ Len(q) \in Nat
  BY ApcListNames
<1>2. CASE x \in ToSet(q)
  <2>1. \E k \in 1..Len(q) : q[k] = x
    BY <1>1, <1>2 DEF Members
  <2>2. PICK k \in 1..Len(q) :
            q[k] = x /\ k = (CHOOSE j \in DOMAIN q : q[j] = x)
    BY <1>1, <2>1
  <2> DEFINE r == SubSeq(q, 1, k - 1) \o SubSeq(q, k + 1, Len(q))
  <2>3. Unlinked(q, x) = r
    BY <1>2, <2>2 DEF Unlinked, RemoveAt
  <2>4. r \in Seq(S) /\ Distinct(r) /\ Members(r) = Members(q) \ {x}
    BY <2>2, RemoveMember
  <2>5. /\ Len(r) = Len(q) - 1
        /\ \A i \in 1..Len(r) : r[i] = IF i < k THEN q[i] ELSE q[i + 1]
    BY PlacesAfterRemoval
  <2> HIDE DEF r
  <2>6. ASSUME NEW i \in 1..Len(r), NEW j \in 1..Len(r), i < j
        PROVE  \E m, l \in 1..Len(q) : m < l /\ r[i] = q[m] /\ r[j] = q[l]
    <3> DEFINE m == IF i < k THEN i ELSE i + 1
               l == IF j < k THEN j ELSE j + 1
    <3>1. m \in 1..Len(q) /\ l \in 1..Len(q) /\ m < l
      BY <1>1, <2>5, <2>6
    <3>2. r[i] = q[m] /\ r[j] = q[l]
      BY <2>5
    <3> QED BY <3>1, <3>2
  <2> QED BY <2>3, <2>4, <2>6 DEF InOrder
<1>3. CASE x \notin ToSet(q)
  <2>1. Unlinked(q, x) = q
    BY <1>3 DEF Unlinked
  <2>2. InOrder(q, q)
    BY DEF InOrder
  <2> QED BY <1>1, <1>3, <2>1, <2>2
<1> QED BY <1>2, <1>3

\* RemoveHeadList takes out the first.
LEMMA TailList ==
    ASSUME NEW S, NEW q \in Seq(S), Distinct(q), q # <<>>
    PROVE  /\ Head(q) \in S /\ Head(q) \in Members(q)
           /\ Tail(q) \in Seq(S) /\ Distinct(Tail(q)) /\ InOrder(Tail(q), q)
           /\ Members(Tail(q)) = Members(q) \ {Head(q)}
<1>1. /\ Head(q) \in S /\ Tail(q) \in Seq(S)
      /\ Len(q) \in Nat \ {0} /\ Len(Tail(q)) = Len(q) - 1
      /\ \A i \in 1..Len(Tail(q)) : Tail(q)[i] = q[i + 1]
  BY TailOfList
<1>2. Head(q) = q[1] /\ 1 \in 1..Len(q)
  BY <1>1
<1>3. Head(q) \in Members(q)
  BY <1>2 DEF Members
<1>4. Distinct(Tail(q))
  BY <1>1 DEF Distinct
<1>5. InOrder(Tail(q), q)
  <2> SUFFICES ASSUME NEW i \in 1..Len(Tail(q)), NEW j \in 1..Len(Tail(q)), i < j
               PROVE  \E k, l \in 1..Len(q) : k < l /\ Tail(q)[i] = q[k] /\ Tail(q)[j] = q[l]
    BY DEF InOrder
  <2>1. i + 1 \in 1..Len(q) /\ j + 1 \in 1..Len(q) /\ i + 1 < j + 1
    BY <1>1
  <2> QED BY <1>1, <2>1
<1>6. Members(Tail(q)) = Members(q) \ {Head(q)}
  <2>1. ASSUME NEW i \in 1..Len(q), q[i] # q[1]
        PROVE  q[i] \in Members(Tail(q))
    <3>1. i - 1 \in 1..Len(Tail(q)) /\ (i - 1) + 1 = i
      BY <1>1, <2>1
    <3>2. Tail(q)[i - 1] = q[i]
      BY <1>1, <3>1
    <3> QED BY <3>1, <3>2 DEF Members
  <2>2. ASSUME NEW i \in 1..Len(Tail(q))
        PROVE  Tail(q)[i] \in Members(q) /\ Tail(q)[i] # q[1]
    <3>1. i + 1 \in 1..Len(q) /\ i + 1 # 1
      BY <1>1
    <3> QED BY <1>1, <1>2, <3>1 DEF Members, Distinct
  <2> QED BY <1>2, <2>1, <2>2 DEF Members
<1> QED BY <1>1, <1>3, <1>4, <1>5, <1>6

\* KiInsertQueueApc puts a special APC before the normal ones and behind the
\* other special ones.
LEMMA QueuedList ==
    ASSUME NEW q \in Seq(Apcs), SpecialsLead(q), NEW a \in Apcs
    PROVE  LET r == ApcQueuedIn(q, a)
           IN  /\ r \in Seq(Apcs) /\ SpecialsLead(r)
               /\ Members(r) = Members(q) \union {a}
               /\ Distinct(q) /\ a \notin Members(q) => Distinct(r)
<1>1. CASE a \in NormalApcs
  <2> DEFINE r == Append(q, a)
  <2>1. ApcQueuedIn(q, a) = r
    BY <1>1 DEF ApcQueuedIn
  <2>2. /\ r \in Seq(Apcs) /\ Members(r) = Members(q) \union {a}
        /\ Distinct(q) /\ a \notin Members(q) => Distinct(r)
    BY AppendMember
  <2>3. /\ Len(q) \in Nat /\ Len(r) = Len(q) + 1
        /\ \A i \in 1..Len(q) : r[i] = q[i]
        /\ r[Len(q) + 1] = a
    OBVIOUS
  <2>4. a \notin SpecialApcs
    BY <1>1, ApcAssumption
  <2> HIDE DEF r
  <2>5. ASSUME NEW i \in 1..Len(r), NEW j \in 1..Len(r), i < j, r[j] \in SpecialApcs
        PROVE  r[i] \in SpecialApcs
    <3>1. j # Len(q) + 1
      BY <2>3, <2>4, <2>5
    <3>2. i \in 1..Len(q) /\ j \in 1..Len(q)
      BY <2>3, <2>5, <3>1
    <3>3. r[i] = q[i] /\ r[j] = q[j]
      BY <2>3, <3>2
    <3> QED BY <2>5, <3>2, <3>3 DEF SpecialsLead
  <2>6. SpecialsLead(r)
    BY <2>5 DEF SpecialsLead
  <2> QED BY <2>1, <2>2, <2>6
<1>2. CASE a \in SpecialApcs
  <2> DEFINE D == {i \in DOMAIN q : q[i] \in SpecialApcs}
             k == 1 + Cardinality(D)
             r == SubSeq(q, 1, k - 1) \o <<a>> \o SubSeq(q, k, Len(q))
  <2>1. ApcQueuedIn(q, a) = r
    <3>1. a \notin NormalApcs
      BY <1>2, ApcAssumption
    <3> QED BY <3>1 DEF ApcQueuedIn, InsertAt
  <2>2. D \in SUBSET (1..Len(q)) /\ Len(q) \in Nat
    OBVIOUS
  <2>3. \A i, j \in 1..Len(q) : i < j /\ j \in D => i \in D
    BY DEF SpecialsLead
  <2>4. /\ Cardinality(D) \in 0..Len(q)
        /\ \A i \in 1..Len(q) : i \in D <=> i < 1 + Cardinality(D)
    <3> HIDE DEF D
    <3> QED BY <2>2, <2>3, CountedFromTheFront
  <2>5. /\ k \in 1..(Len(q) + 1)
        /\ \A i \in 1..Len(q) : q[i] \in SpecialApcs <=> i < k
    <3>1. \A i \in 1..Len(q) : q[i] \in SpecialApcs <=> i \in D
      BY <2>2
    <3> HIDE DEF D
    <3> QED BY <2>2, <2>4, <3>1
  <2> HIDE DEF k
  <2>6. /\ r \in Seq(Apcs) /\ Members(r) = Members(q) \union {a}
        /\ Distinct(q) /\ a \notin Members(q) => Distinct(r)
    BY <2>5, InsertMember
  <2>7. /\ Len(r) = Len(q) + 1
        /\ \A i \in 1..Len(r) :
               r[i] = IF i < k THEN q[i] ELSE IF i = k THEN a ELSE q[i - 1]
    <3>1. r = SubSeq(q, 1, k - 1) \o <<a>> \o SubSeq(q, k, Len(q))
      OBVIOUS
    <3> HIDE DEF r
    <3>2. \A S : \A p, s \in Seq(S), x \in S : \A m \in 1..(Len(p) + 1) :
              s = SubSeq(p, 1, m - 1) \o <<x>> \o SubSeq(p, m, Len(p))
                  => HasInserted(s, p, m, x)
      BY PlacesAfterInsertion
    <3>3. \A p, s \in Seq(Apcs), x \in Apcs : \A m \in 1..(Len(p) + 1) :
              s = SubSeq(p, 1, m - 1) \o <<x>> \o SubSeq(p, m, Len(p))
                  => HasInserted(s, p, m, x)
      BY <3>2
    <3>4. HasInserted(r, q, k, a)
      BY <2>5, <2>6, <3>1, <3>3
    <3> QED BY <3>4 DEF HasInserted
  <2> HIDE DEF r
  <2>8. ASSUME NEW i \in 1..Len(r), NEW j \in 1..Len(r), i < j, r[j] \in SpecialApcs
        PROVE  r[i] \in SpecialApcs
    <3>1. j <= k
      <4> SUFFICES ASSUME k < j PROVE FALSE
        BY <2>2, <2>5, <2>7
      <4>1. r[j] = q[j - 1] /\ j - 1 \in 1..Len(q) /\ ~(j - 1 < k)
        BY <2>2, <2>5, <2>7
      <4> QED BY <2>5, <2>8, <4>1
    <3>2. i < k /\ i \in 1..Len(q) /\ r[i] = q[i]
      BY <2>2, <2>5, <2>7, <2>8, <3>1
    <3> QED BY <2>5, <3>2
  <2>9. SpecialsLead(r)
    BY <2>8 DEF SpecialsLead
  <2> QED BY <2>1, <2>6, <2>9
<1> QED BY <1>1, <1>2 DEF Apcs

-----------------------------------------------------------------------------
(* One turn of the loop of KiExecuteApcQueue.                               *)

\* The first APC of the thread's list starts.
Takes(t) ==
    /\ apcList[t] # <<>>
    /\ apcList' = [apcList EXCEPT ![t] = Tail(@)]
    /\ inserted' = [inserted EXCEPT ![Head(apcList[t])] = FALSE]

LoopEnds(t) ==
    /\ UNCHANGED <<apcList, inserted>>
    /\ Resting(stack'[t], kernelApcInProgress'[t])
    /\ irql'[t] = 0
    /\ \A a \in ToSet(apcList[t]) :
           ~MayRun(a, kernelApcDisable[t], kernelApcInProgress'[t])

LoopGoesOn(t) ==
    /\ Takes(t)
    /\ Looping(stack'[t], kernelApcInProgress'[t])
    /\ Top(t)'.kind \in {"special", "kernel"}
    /\ irql'[t] = 1
    /\ Top(t)'.kind = "kernel" => \A a \in ToSet(apcList[t]) : a \notin SpecialApcs

\* The KernelRoutine leaves the NormalRoutine to run.
NormalBegins(t) ==
    /\ UNCHANGED <<apcList, inserted>>
    /\ current = t /\ Top(t).kind = "kernel"
    /\ Resting(stack'[t], kernelApcInProgress'[t])
    /\ irql'[t] = 0
    /\ kernelApcInProgress'[t] = TRUE

\* What a turn of the loop for thread "t" does.
Delivers(t) ==
    /\ stack' \in [Threads -> Seq(Frames)] /\ irql' \in [Threads -> 0..1]
    /\ kernelApcInProgress' \in [Threads -> BOOLEAN]
    /\ \A u \in Threads : u # t =>
           /\ stack'[u] = stack[u] /\ irql'[u] = irql[u]
           /\ kernelApcInProgress'[u] = kernelApcInProgress[u]
    /\ LoopEnds(t) \/ LoopGoesOn(t) \/ NormalBegins(t)

\* If the first APC of a list may not run, none may.
LEMMA HeadDecides ==
    ASSUME NEW q \in Seq(Apcs), SpecialsLead(q), q # <<>>,
           NEW disable, NEW inProgress, ~MayRun(Head(q), disable, inProgress)
    PROVE  \A a \in ToSet(q) : ~MayRun(a, disable, inProgress)
<1>1. Len(q) \in Nat \ {0} /\ Head(q) = q[1] /\ 1 \in 1..Len(q)
  BY EmptySeq
<1>2. Head(q) \notin SpecialApcs /\ ~(~inProgress /\ disable = 0)
  BY DEF MayRun
<1>3. ASSUME NEW i \in 1..Len(q) PROVE q[i] \notin SpecialApcs
  BY <1>1, <1>2 DEF SpecialsLead
<1> QED BY <1>2, <1>3, ApcListNames DEF MayRun, Members

\* If the first APC of a list is not special, none is.
LEMMA HeadIsSpecial ==
    ASSUME NEW q \in Seq(Apcs), SpecialsLead(q), q # <<>>, Head(q) \notin SpecialApcs
    PROVE  \A a \in ToSet(q) : a \notin SpecialApcs
<1>1. Len(q) \in Nat \ {0} /\ Head(q) = q[1] /\ 1 \in 1..Len(q)
  BY EmptySeq
<1>2. ASSUME NEW i \in 1..Len(q) PROVE q[i] \notin SpecialApcs
  BY <1>1 DEF SpecialsLead
<1> QED BY <1>2, ApcListNames DEF Members

\* A frame that starts comes on top of those that rest.
LEMMA FrameStarts ==
    ASSUME NEW below, NEW inProgress \in BOOLEAN, Resting(below, inProgress),
           NEW kind \in {"special", "kernel"}, kind = "kernel" => ~inProgress
    PROVE  LET s == Append(below, Frame(kind))
           IN  Looping(s, inProgress) /\ s \in Seq(Frames) /\ Last(s).kind = kind
<1>1. below \in Seq(Frames) /\ Len(below) \in 1..2 /\ Frame(kind) \in Frames
  BY DEF Resting, Frame, Frames
<1> DEFINE s == Append(below, Frame(kind))
<1>2. /\ s \in Seq(Frames) /\ Len(s) = Len(below) + 1 /\ s[Len(below) + 1] = Frame(kind)
      /\ \A i \in 1..Len(below) : s[i] = below[i]
  BY <1>1
<1>3. s[1] = below[1] /\ (Len(below) = 2 => s[2] = below[2])
  BY <1>1, <1>2
<1>4. Frame(kind).kind = kind
  BY DEF Frame
<1> HIDE DEF s
<1>5. Last(s).kind = kind
  BY <1>1, <1>2, <1>4 DEF Last
<1>6. CASE Len(below) = 1
  <2>1. Len(s) = 2 /\ s[2].kind = kind
    BY <1>2, <1>4, <1>6
  <2> QED BY <1>2, <1>3, <1>5, <1>6, <2>1 DEF Looping, Resting, s
<1>7. CASE Len(below) = 2
  <2>1. Len(s) = 3 /\ s[3].kind = kind
    BY <1>2, <1>4, <1>7
  <2> QED BY <1>2, <1>3, <1>5, <1>7, <2>1 DEF Looping, Resting, s
<1> QED BY <1>1, <1>6, <1>7

\* KiExecuteApcQueue, whoever calls it.
LEMMA KiExecuteApcQueueDelivers ==
    ASSUME TypeOK, ListsRight, NEW t \in Threads, NEW below, NEW inProgress \in BOOLEAN,
           Resting(below, inProgress), KiExecuteApcQueue(t, below, inProgress)
    PROVE  Delivers(t) /\ (LoopEnds(t) \/ LoopGoesOn(t))
<1>1. /\ stack \in [Threads -> Seq(Frames)] /\ irql \in [Threads -> 0..1]
      /\ kernelApcInProgress \in [Threads -> BOOLEAN]
      /\ apcList[t] \in Seq(Apcs) /\ SpecialsLead(apcList[t])
  BY DEF TypeOK, ListsRight, SpecialsFirst
<1>2. /\ kernelApcInProgress' \in [Threads -> BOOLEAN]
      /\ kernelApcInProgress'[t] = inProgress
      /\ \A u \in Threads : u # t => kernelApcInProgress'[u] = kernelApcInProgress[u]
  BY <1>1 DEF KiExecuteApcQueue
<1> DEFINE over == apcList[t] = <<>>
                   \/ ~MayRun(Head(apcList[t]), kernelApcDisable[t], inProgress)
<1>3. CASE over
  <2>1. /\ stack' = [stack EXCEPT ![t] = below] /\ irql' = [irql EXCEPT ![t] = 0]
        /\ UNCHANGED <<apcList, inserted>>
    BY <1>3 DEF KiExecuteApcQueue
  <2>2. \A a \in ToSet(apcList[t]) : ~MayRun(a, kernelApcDisable[t], inProgress)
    <3>1. CASE apcList[t] = <<>>
      BY <1>1, <3>1, ApcListNames, EmptyMembers
    <3>2. CASE apcList[t] # <<>>
      BY <1>1, <1>3, <3>2, HeadDecides
    <3> QED BY <3>1, <3>2
  <2>3. /\ stack' \in [Threads -> Seq(Frames)] /\ stack'[t] = below
        /\ irql' \in [Threads -> 0..1] /\ irql'[t] = 0
        /\ \A u \in Threads : u # t => stack'[u] = stack[u] /\ irql'[u] = irql[u]
    BY <1>1, <2>1 DEF Resting
  <2> QED BY <1>2, <2>1, <2>2, <2>3 DEF Delivers, LoopEnds
<1>4. CASE ~over
  <2> DEFINE kind == IF Head(apcList[t]) \in SpecialApcs THEN "special" ELSE "kernel"
             s == Append(below, Frame(kind))
  <2>1. /\ stack' = [stack EXCEPT ![t] = s] /\ irql' = [irql EXCEPT ![t] = 1]
        /\ apcList[t] # <<>> /\ Takes(t)
    BY <1>4 DEF KiExecuteApcQueue, Takes
  <2>2. kind \in {"special", "kernel"} /\ (kind = "kernel" => ~inProgress)
    BY <1>4 DEF MayRun
  <2>3. kind = "kernel" => \A a \in ToSet(apcList[t]) : a \notin SpecialApcs
    BY <1>1, <2>1, HeadIsSpecial
  <2> HIDE DEF kind
  <2>4. Looping(s, inProgress) /\ s \in Seq(Frames) /\ Last(s).kind = kind
    BY <2>2, FrameStarts
  <2> HIDE DEF s
  <2>5. /\ stack' \in [Threads -> Seq(Frames)] /\ stack'[t] = s
        /\ irql' \in [Threads -> 0..1] /\ irql'[t] = 1
        /\ \A u \in Threads : u # t => stack'[u] = stack[u] /\ irql'[u] = irql[u]
    BY <1>1, <2>1, <2>4
  <2>6. Top(t)'.kind = kind
    BY <2>4, <2>5 DEF Top
  <2>7. LoopGoesOn(t)
    BY <1>2, <2>1, <2>2, <2>3, <2>4, <2>5, <2>6 DEF LoopGoesOn
  <2> QED BY <1>2, <2>5, <2>7 DEF Delivers
<1> QED BY <1>3, <1>4

\* What the innermost frame says about the ones below it.
LEMMA StackFacts ==
    ASSUME TypeOK, StackShape, NEW t \in Threads
    PROVE  /\ Top(t) \in Frames
           /\ InLoop(t) <=> Looping(stack[t], kernelApcInProgress[t])
           /\ ~InLoop(t) <=> Resting(stack[t], kernelApcInProgress[t])
           /\ Top(t).kind = "special" =>
                  Resting(Front(stack[t]), kernelApcInProgress[t])
           /\ Top(t).kind \in {"kernel", "normal"} => Resting(Front(stack[t]), FALSE)
           /\ Top(t).kind = "kernel" => Len(stack[t]) = 2 /\ ~kernelApcInProgress[t]
           /\ Top(t).kind = "normal" <=> kernelApcInProgress[t] /\ ~InLoop(t)
<1> DEFINE s == stack[t]
           p == kernelApcInProgress[t]
<1>1. Resting(s, p) \/ Looping(s, p)
  BY DEF StackShape
<1>2. p \in BOOLEAN /\ Top(t) = s[Len(s)]
  BY DEF TypeOK, Top, Last
<1>3. s \in Seq(Frames) /\ Len(s) \in 1..3
  BY <1>1 DEF Resting, Looping
<1>4. \A i \in 1..Len(s) : s[i] \in Frames
  BY <1>3, ElementOfSeq
<1>5. Top(t) \in Frames
  <2>1. Len(s) \in 1..Len(s)
    BY <1>3
  <2> QED BY <1>2, <1>4, <2>1
<1>6. /\ Front(s) \in Seq(Frames) /\ Len(Front(s)) = Len(s) - 1
      /\ \A i \in 1..(Len(s) - 1) : Front(s)[i] = s[i]
  <2>1. Len(s) - 1 \in 0..Len(s)
    <3>1. \A n \in 1..3 : n - 1 \in 0..n
      OBVIOUS
    <3> QED BY <1>3, <3>1
  <2> QED BY <1>3, <2>1, TakeFirst DEF Front
<1>7. /\ 2 <= Len(s) => Front(s)[1] = s[1]
      /\ 3 <= Len(s) => Front(s)[2] = s[2]
  BY <1>3, <1>6
<1> HIDE DEF s, p
<1>8. CASE Resting(s, p)
  <2>1. Top(t).kind = "thread" \/ (Top(t).kind = "normal" /\ Len(s) = 2 /\ p)
    BY <1>2, <1>8 DEF Resting
  <2>2. Top(t).kind = "thread" => Len(s) = 1 /\ ~p
    BY <1>2, <1>8 DEF Resting
  <2>3. ~InLoop(t) /\ ~Looping(s, p)
    BY <1>8, <2>1 DEF InLoop, Resting, Looping
  <2>4. Len(s) = 2 => Resting(Front(s), FALSE)
    BY <1>6, <1>7, <1>8 DEF Resting
  <2> QED BY <1>5, <1>8, <2>1, <2>2, <2>3, <2>4 DEF s, p
<1>9. CASE Looping(s, p)
  <2>1. \/ Len(s) = 2 /\ ~p /\ Top(t).kind \in {"special", "kernel"}
        \/ Len(s) = 3 /\ p /\ Top(t).kind = "special"
    BY <1>2, <1>9 DEF Looping
  <2>2. InLoop(t) /\ ~Resting(s, p)
    BY <1>9, <2>1 DEF InLoop, Resting, Looping
  <2>3. /\ Len(s) = 2 => Resting(Front(s), FALSE)
        /\ Resting(Front(s), p)
    BY <1>6, <1>7, <1>9 DEF Resting, Looping
  <2> QED BY <1>5, <1>9, <2>1, <2>2, <2>3 DEF s, p
<1> QED BY <1>1, <1>8, <1>9

\* The step of a thread that delivers APCs, or of the switch to it.
RunsApcs(t) ==
    /\ Delivers(t)
    /\ current \in {t, NoThread} /\ current' = t
    /\ state[t] \in {"Ready", "Running"} /\ state' = [state EXCEPT ![t] = "Running"]
    /\ kernelApcPending' \in [Threads -> BOOLEAN] /\ apcRequested' \in BOOLEAN
    /\ \A u \in Threads : u # t => kernelApcPending'[u] = kernelApcPending[u]
    /\ NormalBegins(t) => UNCHANGED <<kernelApcPending, apcRequested>>
    /\ UNCHANGED <<waitIrql, kernelApcDisable, apcQueueable, exiting, signal, waiters,
                   suspendCount, suspendSignal, suspendInserted>>

\* A thread that is not in the loop may start it: HalpSwIntApc and the switch.
LEMMA LoopStarts ==
    ASSUME ApcInv, NEW t \in Threads,
           HalpSwIntApc(t) \/ (SwitchTo(t) /\ kernelApcPending[t] /\ waitIrql[t] = 0)
    PROVE  RunsApcs(t)
<1>0. TypeOK /\ ThreadsRight /\ ListsRight
  BY DEF ApcInv
<1>1. /\ KiExecuteApcQueue(t, stack[t], kernelApcInProgress[t])
      /\ current \in {t, NoThread} /\ current' = t
      /\ kernelApcPending' = [kernelApcPending EXCEPT ![t] = FALSE]
      /\ UNCHANGED <<waitIrql, kernelApcDisable, apcQueueable, exiting, signal, waiters,
                     suspendCount, suspendSignal, suspendInserted>>
  BY DEF HalpSwIntApc, SwitchTo
<1>2. irql[t] = 0 /\ apcRequested' \in BOOLEAN
  BY <1>0 DEF HalpSwIntApc, SwitchTo, TypeOK, ThreadsRight, LevelsRight
<1>3. state[t] \in {"Ready", "Running"} /\ state' = [state EXCEPT ![t] = "Running"]
  <2>1. CASE HalpSwIntApc(t)
    BY <1>0, <2>1 DEF HalpSwIntApc, TypeOK, ThreadsRight, CpuAgrees
  <2>2. CASE SwitchTo(t)
    BY <2>2 DEF SwitchTo
  <2> QED BY <2>1, <2>2
<1>4. ~InLoop(t)
  BY <1>0, <1>2 DEF ThreadsRight, LevelsRight
<1>5. Resting(stack[t], kernelApcInProgress[t]) /\ kernelApcInProgress[t] \in BOOLEAN
  BY <1>0, <1>4, StackFacts DEF ThreadsRight, TypeOK
<1>6. Delivers(t) /\ (LoopEnds(t) \/ LoopGoesOn(t))
  BY <1>0, <1>1, <1>5, KiExecuteApcQueueDelivers
<1>7. ~NormalBegins(t)
  BY <1>4 DEF NormalBegins, InLoop
<1>8. /\ kernelApcPending' \in [Threads -> BOOLEAN]
      /\ \A u \in Threads : u # t => kernelApcPending'[u] = kernelApcPending[u]
  BY <1>0, <1>1 DEF TypeOK
<1> QED BY <1>1, <1>2, <1>3, <1>6, <1>7, <1>8 DEF RunsApcs

\* A routine returns into it.
LEMMA LoopResumes ==
    ASSUME ApcInv, NEW t \in Threads,
           SpecialRoutineReturns(t) \/ KernelRoutineReturns(t) \/ NormalRoutineReturns(t)
    PROVE  RunsApcs(t)
<1>0. TypeOK /\ ThreadsRight /\ ListsRight
  BY DEF ApcInv
<1>1. /\ current = t /\ current' = t /\ state' = state
      /\ UNCHANGED <<kernelApcPending, apcRequested>>
      /\ UNCHANGED <<waitIrql, kernelApcDisable, apcQueueable, exiting, signal, waiters,
                     suspendCount, suspendSignal, suspendInserted>>
  BY DEF SpecialRoutineReturns, KernelRoutineReturns, NormalRoutineReturns, Undisturbed,
         RunsCode
<1>2. /\ state[t] = "Running" /\ state' = [state EXCEPT ![t] = "Running"]
      /\ kernelApcPending' \in [Threads -> BOOLEAN] /\ apcRequested' \in BOOLEAN
  BY <1>0, <1>1 DEF TypeOK, ThreadsRight, CpuAgrees
<1>3. Delivers(t)
  <2>1. CASE \E p \in {kernelApcInProgress[t], FALSE} :
                 Resting(Front(stack[t]), p) /\ KiExecuteApcQueue(t, Front(stack[t]), p)
    <3>1. PICK p \in {kernelApcInProgress[t], FALSE} :
                 Resting(Front(stack[t]), p) /\ KiExecuteApcQueue(t, Front(stack[t]), p)
      BY <2>1
    <3>2. p \in BOOLEAN
      BY <1>0 DEF TypeOK
    <3> QED BY <1>0, <3>1, <3>2, KiExecuteApcQueueDelivers
  <2>2. CASE SpecialRoutineReturns(t)
    BY <1>0, <2>1, <2>2, StackFacts DEF ThreadsRight, SpecialRoutineReturns
  <2>3. CASE NormalRoutineReturns(t)
    BY <1>0, <2>1, <2>3, StackFacts DEF ThreadsRight, NormalRoutineReturns
  <2>4. CASE KernelRoutineReturns(t)
    <3>1. Top(t).kind = "kernel" /\ Len(stack[t]) = 2 /\ Resting(Front(stack[t]), FALSE)
      BY <1>0, <2>4, StackFacts DEF ThreadsRight, KernelRoutineReturns
    <3>2. CASE KiExecuteApcQueue(t, Front(stack[t]), FALSE)
      BY <2>1, <3>1, <3>2
    <3>3. CASE /\ stack' = [stack EXCEPT ![t] = Append(Front(@), Frame("normal"))]
               /\ irql' = [irql EXCEPT ![t] = 0]
               /\ kernelApcInProgress' = [kernelApcInProgress EXCEPT ![t] = TRUE]
               /\ UNCHANGED <<apcList, inserted>>
      <4> DEFINE below == Front(stack[t])
                 s == Append(below, Frame("normal"))
      <4>1. /\ below \in Seq(Frames) /\ Len(below) = 1 /\ below[1].kind = "thread"
            /\ Frame("normal") \in Frames /\ Frame("normal").kind = "normal"
        BY <3>1 DEF Resting, Frame, Frames
      <4>2. /\ s \in Seq(Frames) /\ Len(s) = 2 /\ s[1] = below[1]
            /\ s[2] = Frame("normal")
        <5>1. \A q \in Seq(Frames), f \in Frames :
                 /\ Append(q, f) \in Seq(Frames) /\ Len(Append(q, f)) = Len(q) + 1
                 /\ Append(q, f)[Len(q) + 1] = f
                 /\ \A i \in 1..Len(q) : Append(q, f)[i] = q[i]
          OBVIOUS
        <5> HIDE DEF below
        <5>2. /\ s \in Seq(Frames) /\ Len(s) = 1 + 1 /\ s[1 + 1] = Frame("normal")
              /\ \A i \in 1..1 : s[i] = below[i]
          <6>1. /\ s \in Seq(Frames) /\ Len(s) = Len(below) + 1
                /\ s[Len(below) + 1] = Frame("normal")
                /\ \A i \in 1..Len(below) : s[i] = below[i]
            BY <4>1, <5>1
          <6> HIDE DEF s
          <6> QED BY <4>1, <6>1
        <5> QED BY <5>2
      <4>3. Resting(s, TRUE)
        BY <4>1, <4>2 DEF Resting
      <4>4. stack' = [stack EXCEPT ![t] = s]
        BY <3>3
      <4> HIDE DEF s
      <4>5. /\ stack' \in [Threads -> Seq(Frames)] /\ stack'[t] = s
            /\ irql' \in [Threads -> 0..1] /\ irql'[t] = 0
            /\ kernelApcInProgress' \in [Threads -> BOOLEAN]
            /\ kernelApcInProgress'[t] = TRUE
            /\ \A u \in Threads : u # t =>
                   /\ stack'[u] = stack[u] /\ irql'[u] = irql[u]
                   /\ kernelApcInProgress'[u] = kernelApcInProgress[u]
        <5>1. /\ stack \in [Threads -> Seq(Frames)] /\ irql \in [Threads -> 0..1]
              /\ kernelApcInProgress \in [Threads -> BOOLEAN]
          BY <1>0 DEF TypeOK
        <5>2. /\ stack' \in [Threads -> Seq(Frames)] /\ stack'[t] = s
              /\ \A u \in Threads : u # t => stack'[u] = stack[u]
          <6>1. s \in Seq(Frames)
            BY <4>2
          <6> QED BY <4>4, <5>1, <6>1
        <5>3. /\ irql' \in [Threads -> 0..1] /\ irql'[t] = 0
              /\ \A u \in Threads : u # t => irql'[u] = irql[u]
          BY <3>3, <5>1
        <5>4. /\ kernelApcInProgress' \in [Threads -> BOOLEAN]
              /\ kernelApcInProgress'[t] = TRUE
              /\ \A u \in Threads : u # t =>
                     kernelApcInProgress'[u] = kernelApcInProgress[u]
          BY <3>3, <5>1
        <5> QED BY <5>2, <5>3, <5>4
      <4> QED BY <1>1, <3>1, <3>3, <4>3, <4>5 DEF Delivers, NormalBegins
    <3> QED BY <2>4, <3>2, <3>3 DEF KernelRoutineReturns
  <2> QED BY <2>2, <2>3, <2>4
<1> QED BY <1>1, <1>2, <1>3 DEF RunsApcs

\* The other way to be switched to: nothing is delivered, or it is put off.
SwitchesQuietly(t) ==
    /\ current = NoThread /\ state[t] = "Ready"
    /\ current' = t
    /\ state' = [state EXCEPT ![t] = "Running"]
    /\ ~(kernelApcPending[t] /\ waitIrql[t] = 0)
    /\ apcRequested' = (apcRequested \/ kernelApcPending[t])
    /\ UNCHANGED <<irql, stack, apcVars, waitIrql, regionVars, eventVars, suspendVars>>

\* Every step delivers APCs or is one of the other operations.
LEMMA StepKinds ==
    ASSUME ApcInv, [Next]_vars
    PROVE  \/ \E t \in Threads : RunsApcs(t) \/ SwitchesQuietly(t) \/ Code(t) \/ Preempt(t)
           \/ Others
           \/ UNCHANGED vars
<1>1. ASSUME NEW t \in Threads, SwitchTo(t)
      PROVE  RunsApcs(t) \/ SwitchesQuietly(t)
  <2>1. CASE kernelApcPending[t] /\ waitIrql[t] = 0
    BY <1>1, <2>1, LoopStarts
  <2>2. CASE ~(kernelApcPending[t] /\ waitIrql[t] = 0)
    BY <1>1, <2>2 DEF SwitchTo, SwitchesQuietly
  <2> QED BY <2>1, <2>2
<1>2. ASSUME NEW t \in Threads, Routine(t)
      PROVE  RunsApcs(t)
  BY <1>2, LoopStarts, LoopResumes DEF Routine
<1> QED BY <1>1, <1>2 DEF Next

-----------------------------------------------------------------------------
(* The lists agree with the flags, and special APCs come first.             *)

\* What InsertedAgrees and SpecialsFirst say of one thread's list.
ListOfThread(t) ==
    /\ apcList[t] \in Seq(Apcs) /\ Distinct(apcList[t]) /\ SpecialsLead(apcList[t])
    /\ \A a \in Apcs : a \in Members(apcList[t]) <=> inserted[a] /\ ApcThread[a] = t

\* ... which is all they say.
LEMMA ListParts ==
    ASSUME apcList \in [Threads -> Seq(Apcs)]
    PROVE  ListsRight <=> \A t \in Threads : ListOfThread(t)
<1>1. ASSUME NEW t \in Threads
      PROVE  /\ IsInjective(apcList[t]) <=> Distinct(apcList[t])
             /\ ToSet(apcList[t]) = Members(apcList[t])
             /\ Members(apcList[t]) \subseteq Apcs
  <2>1. apcList[t] \in Seq(Apcs)
    OBVIOUS
  <2> QED BY <2>1, ApcListNames, NoMembers
<1>2. ASSUME ListsRight PROVE \A t \in Threads : ListOfThread(t)
  BY <1>1, <1>2 DEF ListsRight, InsertedAgrees, SpecialsFirst, ListOfThread
<1>3. ASSUME \A t \in Threads : ListOfThread(t) PROVE ListsRight
  <2>1. SpecialsFirst
    BY <1>3 DEF SpecialsFirst, ListOfThread
  <2>2. ASSUME NEW t \in Threads
        PROVE  ToSet(apcList[t]) = {a \in Apcs : inserted[a] /\ ApcThread[a] = t}
    BY <1>1, <1>3 DEF ListOfThread
  <2> QED BY <1>1, <1>3, <2>1, <2>2 DEF ListsRight, InsertedAgrees, ListOfThread
<1> QED BY <1>2, <1>3

ListsTyped == apcList \in [Threads -> Seq(Apcs)] /\ inserted \in [Apcs -> BOOLEAN]

ListsAre == ListsTyped /\ \A t \in Threads : ListOfThread(t)

\* The same in one formula, before and after a step.
LEMMA ListsNow == ListsTyped => (ListsAre <=> ListsRight)
BY ListParts DEF ListsTyped, ListsAre

\* After a step.
LEMMA ListsNext == ListsTyped' => (ListsAre' <=> ListsRight')
BY ListsNow, PTL

\* The loop takes the first APC off the list.
LEMMA TakesLists ==
    ASSUME ListsAre, NEW t \in Threads, Takes(t)
    PROVE  ListsAre'
<1> DEFINE q == apcList[t]
           h == Head(q)
<1>1. /\ apcList \in [Threads -> Seq(Apcs)] /\ inserted \in [Apcs -> BOOLEAN]
      /\ q \in Seq(Apcs) /\ Distinct(q) /\ SpecialsLead(q) /\ q # <<>>
      /\ apcList' = [apcList EXCEPT ![t] = Tail(q)]
      /\ inserted' = [inserted EXCEPT ![h] = FALSE]
  BY DEF ListsAre, ListsTyped, ListOfThread, Takes
<1>2. /\ h \in Apcs /\ h \in Members(q) /\ Tail(q) \in Seq(Apcs) /\ Distinct(Tail(q))
      /\ SpecialsLead(Tail(q)) /\ Members(Tail(q)) = Members(q) \ {h}
  BY <1>1, TailList, OrderKept
<1>3. inserted[h] /\ ApcThread[h] = t
  BY <1>2 DEF ListsAre, ListOfThread
<1> HIDE DEF h
<1>4. /\ apcList' \in [Threads -> Seq(Apcs)] /\ inserted' \in [Apcs -> BOOLEAN]
      /\ apcList'[t] = Tail(q) /\ \A u \in Threads : u # t => apcList'[u] = apcList[u]
      /\ inserted'[h] = FALSE /\ \A a \in Apcs : a # h => inserted'[a] = inserted[a]
  BY <1>1, <1>2
<1>5. ListOfThread(t)'
  BY <1>2, <1>4 DEF ListOfThread, ListsAre
<1>6. ASSUME NEW u \in Threads, u # t PROVE ListOfThread(u)'
  BY <1>2, <1>3, <1>4, <1>6 DEF ListOfThread, ListsAre
<1> QED BY <1>4, <1>5, <1>6 DEF ListsAre, ListsTyped

\* KeInsertQueueApc links the APC once.
LEMMA InsertLists ==
    ASSUME ListsAre, NEW a \in Apcs, KeInsertQueueApc(a)
    PROVE  /\ ListsAre'
           /\ \A b \in Apcs : b \in Members(apcList'[ApcThread[a]])
                  <=> b \in Members(apcList[ApcThread[a]]) \/ b = a
           /\ \A u \in Threads : u # ApcThread[a] => apcList'[u] = apcList[u]
<1>1. PICK t \in Threads : t = ApcThread[a]
  BY ApcAssumption
<1> DEFINE q == apcList[t]
           r == ApcQueuedIn(q, a)
<1>2. /\ apcList \in [Threads -> Seq(Apcs)] /\ inserted \in [Apcs -> BOOLEAN]
      /\ q \in Seq(Apcs) /\ Distinct(q) /\ SpecialsLead(q) /\ ~inserted[a]
      /\ apcList' = [apcList EXCEPT ![t] = r]
      /\ inserted' = [inserted EXCEPT ![a] = TRUE]
  BY <1>1 DEF ListsAre, ListsTyped, ListOfThread, KeInsertQueueApc, Accepts
<1>3. a \notin Members(q)
  BY <1>2 DEF ListsAre, ListOfThread
<1>4. /\ r \in Seq(Apcs) /\ Distinct(r) /\ SpecialsLead(r)
      /\ Members(r) = Members(q) \union {a}
  BY <1>2, <1>3, QueuedList
<1> HIDE DEF r
<1>5. /\ apcList' \in [Threads -> Seq(Apcs)] /\ inserted' \in [Apcs -> BOOLEAN]
      /\ apcList'[t] = r /\ \A u \in Threads : u # t => apcList'[u] = apcList[u]
      /\ inserted'[a] = TRUE /\ \A b \in Apcs : b # a => inserted'[b] = inserted[b]
  BY <1>2, <1>4
<1>6. ListOfThread(t)'
  BY <1>1, <1>4, <1>5 DEF ListOfThread, ListsAre
<1>7. ASSUME NEW u \in Threads, u # t PROVE ListOfThread(u)'
  BY <1>1, <1>2, <1>5, <1>7 DEF ListOfThread, ListsAre
<1> QED BY <1>1, <1>4, <1>5, <1>6, <1>7 DEF ListsAre, ListsTyped

\* KeRemoveQueueApc unlinks it.
LEMMA RemoveLists ==
    ASSUME ListsAre, NEW a \in Apcs, KeRemoveQueueApc(a)
    PROVE  /\ ListsAre'
           /\ \A b \in Apcs : b \in Members(apcList'[ApcThread[a]])
                  <=> b \in Members(apcList[ApcThread[a]]) /\ b # a
           /\ \A u \in Threads : u # ApcThread[a] => apcList'[u] = apcList[u]
<1>1. PICK t \in Threads : t = ApcThread[a]
  BY ApcAssumption
<1> DEFINE q == apcList[t]
           r == Unlinked(q, a)
<1>2. /\ apcList \in [Threads -> Seq(Apcs)] /\ inserted \in [Apcs -> BOOLEAN]
      /\ q \in Seq(Apcs) /\ Distinct(q) /\ SpecialsLead(q)
      /\ apcList' = [apcList EXCEPT ![t] = r]
      /\ inserted' = [inserted EXCEPT ![a] = FALSE]
  BY <1>1 DEF ListsAre, ListsTyped, ListOfThread, KeRemoveQueueApc
<1>3. r \in Seq(Apcs) /\ Distinct(r) /\ InOrder(r, q) /\ Members(r) = Members(q) \ {a}
  BY <1>2, UnlinkedList
<1>4. SpecialsLead(r)
  BY <1>2, <1>3, OrderKept
<1> HIDE DEF r
<1>5. /\ apcList' \in [Threads -> Seq(Apcs)] /\ inserted' \in [Apcs -> BOOLEAN]
      /\ apcList'[t] = r /\ \A u \in Threads : u # t => apcList'[u] = apcList[u]
      /\ inserted'[a] = FALSE /\ \A b \in Apcs : b # a => inserted'[b] = inserted[b]
  BY <1>2, <1>3
<1>6. ListOfThread(t)'
  BY <1>1, <1>3, <1>4, <1>5 DEF ListOfThread, ListsAre
<1>7. ASSUME NEW u \in Threads, u # t PROVE ListOfThread(u)'
  BY <1>1, <1>5, <1>7 DEF ListOfThread, ListsAre
<1> QED BY <1>1, <1>3, <1>5, <1>6, <1>7 DEF ListsAre, ListsTyped

\* Every step keeps the lists.
LEMMA NextLists ==
    ASSUME ApcInv, [Next]_vars
    PROVE  ListsAre'
<1>0. ListsAre
  BY ListsNow DEF ApcInv, TypeOK, ListsTyped
<1>1. CASE UNCHANGED <<apcList, inserted>>
  BY <1>0, <1>1 DEF ListsAre, ListsTyped, ListOfThread
<1>2. ASSUME NEW t \in Threads, RunsApcs(t) PROVE ListsAre'
  <2>1. CASE LoopGoesOn(t)
    BY <1>0, <2>1, TakesLists DEF LoopGoesOn
  <2>2. CASE LoopEnds(t) \/ NormalBegins(t)
    BY <1>1, <2>2 DEF LoopEnds, NormalBegins
  <2> QED BY <1>2, <2>1, <2>2 DEF RunsApcs, Delivers
<1>3. ASSUME NEW t \in Threads, SwitchesQuietly(t) \/ Code(t) \/ Preempt(t)
      PROVE  UNCHANGED <<apcList, inserted>>
  BY <1>3 DEF SwitchesQuietly, Code, Preempt, KeEnterCriticalRegion,
     KeLeaveCriticalRegion, RaiseToApcLevel, LowerToPassiveLevel,
     KeWaitForSingleObject, HasTerminated, StopQueueing, LeaveForGood, Terminated
<1>4. CASE Others
  <2>1. CASE \E e \in Events : KeSetEvent(e)
    BY <1>1, <2>1 DEF KeSetEvent
  <2>2. CASE \E t \in SuspendTargets : KeSuspendThread(t) \/ KeResumeThread(t)
    BY <1>1, <2>2 DEF KeSuspendThread, KeResumeThread
  <2>3. CASE \E a \in Apcs : KeInsertQueueApc(a) \/ KeRemoveQueueApc(a)
    BY <1>0, <2>3, InsertLists, RemoveLists
  <2> QED BY <1>4, <2>1, <2>2, <2>3 DEF Others
<1>5. CASE UNCHANGED vars
  BY <1>1, <1>5 DEF vars
<1> QED BY <1>1, <1>2, <1>3, <1>4, <1>5, StepKinds

-----------------------------------------------------------------------------
(* Suspend and resume.                                                      *)

SuspendTyped ==
    /\ suspendCount \in [Threads -> 0..MaximumSuspendCount]
    /\ suspendSignal \in [Threads -> Nat] /\ suspendInserted \in [Threads -> BOOLEAN]

\* The semaphore follows the count and the mark, whoever suspends and resumes.
LEMMA NextSuspend ==
    ASSUME ApcInv, [Next]_vars
    PROVE  SuspendTyped' /\ SuspendRight'
<1>0. SuspendTyped /\ SemaphoreAgrees /\ SuspendedIsMarked /\ MaximumSuspendCount \in Nat
  BY ApcAssumption DEF ApcInv, TypeOK, SuspendTyped, SuspendRight
<1>1. CASE UNCHANGED suspendVars
  BY <1>0, <1>1 DEF SuspendTyped, SuspendRight, SemaphoreAgrees, SuspendedIsMarked
<1>2. ASSUME NEW t \in Threads, KeSuspendThread(t)
      PROVE  SuspendTyped' /\ SuspendRight'
  <2>1. /\ suspendCount[t] \in Nat /\ suspendCount[t] < MaximumSuspendCount
        /\ suspendCount' = [suspendCount EXCEPT ![t] = @ + 1]
        /\ suspendInserted' = [suspendInserted EXCEPT ![t] = @ \/ suspendCount[t] = 0]
        /\ suspendSignal' = [suspendSignal EXCEPT ![t] = @ - TakenBack(t)]
    BY <1>0, <1>2 DEF KeSuspendThread, MaySuspend, SuspendTyped
  <2>2. suspendSignal[t] - TakenBack(t) = 0
    BY <1>0, <1>2 DEF SuspendTyped, SemaphoreAgrees, TakenBack
  <2>3. suspendInserted'[t] = TRUE
    <3>1. suspendInserted'[t] = (suspendInserted[t] \/ suspendCount[t] = 0)
      BY <1>0, <2>1 DEF SuspendTyped
    <3>2. suspendCount[t] = 0 \/ suspendCount[t] > 0
      BY <2>1
    <3>3. suspendCount[t] > 0 => suspendInserted[t] = TRUE
      BY <1>0 DEF SuspendTyped, SuspendedIsMarked
    <3> QED BY <3>1, <3>2, <3>3
  <2>4. SuspendTyped'
    BY <1>0, <2>1, <2>2 DEF SuspendTyped
  <2>5. /\ suspendCount'[t] = suspendCount[t] + 1 /\ suspendSignal'[t] = 0
        /\ \A u \in Threads : u # t =>
               /\ suspendCount'[u] = suspendCount[u]
               /\ suspendSignal'[u] = suspendSignal[u]
               /\ suspendInserted'[u] = suspendInserted[u]
    BY <1>0, <2>1, <2>2 DEF SuspendTyped
  <2>6. ASSUME NEW u \in Threads
        PROVE  /\ suspendSignal'[u] =
                      IF suspendInserted'[u] /\ suspendCount'[u] = 0 THEN 1 ELSE 0
               /\ suspendCount'[u] > 0 => suspendInserted'[u]
    <3>1. CASE u = t
      BY <2>1, <2>3, <2>5, <3>1
    <3>2. CASE u # t
      BY <1>0, <2>5, <3>2 DEF SemaphoreAgrees, SuspendedIsMarked
    <3> QED BY <3>1, <3>2
  <2> QED BY <2>4, <2>6 DEF SuspendRight, SemaphoreAgrees, SuspendedIsMarked
<1>3. ASSUME NEW t \in Threads, KeResumeThread(t)
      PROVE  SuspendTyped' /\ SuspendRight'
  <2> DEFINE n == IF suspendCount[t] = 1 THEN 1 ELSE 0
  <2>1. /\ suspendCount[t] \in Nat \ {0} /\ suspendCount[t] <= MaximumSuspendCount
        /\ suspendCount' = [suspendCount EXCEPT ![t] = @ - 1]
        /\ suspendSignal' = [suspendSignal EXCEPT ![t] = @ + n]
        /\ suspendInserted' = suspendInserted
    BY <1>0, <1>3 DEF KeResumeThread, SuspendTyped
  <2>2. suspendSignal[t] = 0 /\ suspendInserted[t]
    BY <1>0, <2>1 DEF SemaphoreAgrees, SuspendedIsMarked
  <2>3. SuspendTyped'
    BY <1>0, <2>1, <2>2 DEF SuspendTyped
  <2>4. /\ suspendCount'[t] = suspendCount[t] - 1 /\ suspendSignal'[t] = n
        /\ \A u \in Threads : u # t =>
               /\ suspendCount'[u] = suspendCount[u]
               /\ suspendSignal'[u] = suspendSignal[u]
    BY <1>0, <2>1, <2>2 DEF SuspendTyped
  <2>5. ASSUME NEW u \in Threads
        PROVE  /\ suspendSignal'[u] =
                      IF suspendInserted'[u] /\ suspendCount'[u] = 0 THEN 1 ELSE 0
               /\ suspendCount'[u] > 0 => suspendInserted'[u]
    <3>1. CASE u = t
      BY <2>1, <2>2, <2>4, <3>1
    <3>2. CASE u # t
      BY <1>0, <2>1, <2>4, <3>2 DEF SemaphoreAgrees, SuspendedIsMarked
    <3> QED BY <3>1, <3>2
  <2> QED BY <2>3, <2>5 DEF SuspendRight, SemaphoreAgrees, SuspendedIsMarked
<1>4. ASSUME NEW t \in Threads, RunsApcs(t) \/ SwitchesQuietly(t) \/ Code(t) \/ Preempt(t)
      PROVE  UNCHANGED suspendVars
  BY <1>4 DEF RunsApcs, SwitchesQuietly, Code, Preempt, KeEnterCriticalRegion,
     KeLeaveCriticalRegion, RaiseToApcLevel, LowerToPassiveLevel,
     KeWaitForSingleObject, HasTerminated, StopQueueing, LeaveForGood, Terminated
<1>5. CASE Others
  <2>1. CASE \E e \in Events : KeSetEvent(e)
    BY <1>1, <2>1 DEF KeSetEvent
  <2>2. CASE \E t \in SuspendTargets : KeSuspendThread(t) \/ KeResumeThread(t)
    BY <1>2, <1>3, <2>2, ApcAssumption
  <2>3. CASE \E a \in Apcs : KeInsertQueueApc(a) \/ KeRemoveQueueApc(a)
    BY <1>1, <2>3 DEF KeInsertQueueApc, KeRemoveQueueApc
  <2> QED BY <1>5, <2>1, <2>2, <2>3 DEF Others
<1>6. CASE UNCHANGED vars
  BY <1>1, <1>6 DEF vars
<1> QED BY <1>1, <1>4, <1>5, <1>6, StepKinds

-----------------------------------------------------------------------------
(* What the threads are doing.                                              *)

ThreadsTyped ==
    /\ current \in Threads \union {NoThread}
    /\ apcRequested \in BOOLEAN
    /\ state \in [Threads -> {"Ready", "Running", "Waiting", "Terminated"}]
    /\ irql \in [Threads -> 0..1] /\ waitIrql \in [Threads -> 0..1]
    /\ stack \in [Threads -> Seq(Frames)] /\ \A t \in Threads : stack[t] # <<>>
    /\ kernelApcPending \in [Threads -> BOOLEAN]
    /\ kernelApcInProgress \in [Threads -> BOOLEAN]
    /\ kernelApcDisable \in [Threads -> 0..(MaxDisable + 1)]
    /\ apcQueueable \in [Threads -> BOOLEAN]
    /\ exiting \in [Threads -> {"no", "marked", "closed", "left"}]

\* The event a thread waits for is noted in the innermost frame, or crossed out.
LEMMA WaitNoted ==
    ASSUME TypeOK, StackShape, NEW t \in Threads, NEW w \in Events \union {NoEvent},
           stack' = [stack EXCEPT ![t][Len(stack[t])].wait = w],
           UNCHANGED kernelApcInProgress
    PROVE  /\ stack' \in [Threads -> Seq(Frames)] /\ \A u \in Threads : stack'[u] # <<>>
           /\ StackShape'
           /\ Top(t)'.wait = w /\ \A u \in Threads : u # t => stack'[u] = stack[u]
           /\ \A u \in Threads : Top(u)'.kind = Top(u).kind
<1>1. /\ stack \in [Threads -> Seq(Frames)] /\ stack[t] \in Seq(Frames)
      /\ Len(stack[t]) \in 1..3
      /\ \A u \in Threads : stack[u] # <<>>
  BY DEF TypeOK, StackShape, Resting, Looping
<1> DEFINE s == stack[t]
           n == Len(s)
           f == [s[n] EXCEPT !.wait = w]
           r == [s EXCEPT ![n] = f]
<1>2. s[n] \in Frames
  <2>1. n \in 1..Len(s)
    BY <1>1
  <2> QED BY <1>1, <2>1, ElementOfSeq
<1>3. f \in Frames /\ f.wait = w /\ f.kind = s[n].kind
  BY <1>2 DEF Frames
<1>4. stack' = [stack EXCEPT ![t] = r]
  BY <1>1
<1> HIDE DEF f
<1>5. /\ r \in Seq(Frames) /\ Len(r) = n /\ r[n] = f
      /\ \A i \in 1..n : i # n => r[i] = s[i]
  BY <1>1, <1>3
<1> HIDE DEF r
<1>6. /\ stack' \in [Threads -> Seq(Frames)] /\ stack'[t] = r
      /\ \A u \in Threads : u # t => stack'[u] = stack[u]
  BY <1>1, <1>4, <1>5
<1>7. Top(t)' = f /\ Top(t) = s[n]
  BY <1>5, <1>6 DEF Top, Last
<1>8. \A u \in Threads : u # t => Top(u)' = Top(u)
  BY <1>6 DEF Top
<1>9. \A i \in 1..n : r[i].kind = s[i].kind
  BY <1>3, <1>5
<1>10. \A p \in BOOLEAN : /\ Resting(s, p) => Resting(r, p)
                          /\ Looping(s, p) => Looping(r, p)
  BY <1>1, <1>5, <1>9 DEF Resting, Looping
<1>11. StackShape'
  <2>1. kernelApcInProgress[t] \in BOOLEAN
    BY DEF TypeOK
  <2> QED BY <1>6, <1>10, <2>1 DEF StackShape
<1>12. r # <<>>
  BY <1>1, <1>5, EmptySeq
<1> QED BY <1>1, <1>3, <1>6, <1>7, <1>8, <1>11, <1>12

\* What ThreadsRight says of one thread.
ThreadIs(t) ==
    /\ state[t] = "Running" <=> current = t
    /\ Resting(stack[t], kernelApcInProgress[t]) \/ Looping(stack[t], kernelApcInProgress[t])
    /\ InLoop(t) => irql[t] = 1
    /\ state[t] # "Running" /\ waitIrql[t] = 0 => irql[t] = 0
    /\ exiting[t] # "no" /\ ~InLoop(t) => irql[t] = 0
    /\ exiting[t] \in {"closed", "left"} <=> ~apcQueueable[t]
    /\ state[t] = "Terminated" => exiting[t] = "left"
    /\ exiting[t] # "closed" => kernelApcDisable[t] <= MaxDisable
    /\ exiting[t] = "closed" => kernelApcDisable[t] >= 1

ThreadsAre == \A t \in Threads : ThreadIs(t)

\* The same in one formula, before and after a step.
LEMMA ThreadParts == ThreadsRight <=> ThreadsAre
BY DEF ThreadsRight, CpuAgrees, StackShape, LevelsRight, ExitInOrder, ThreadIs, ThreadsAre

\* After a step.
LEMMA ThreadPartsNext == ThreadsRight' <=> ThreadsAre'
BY ThreadParts, PTL

\* A thread that the step leaves alone.
LEMMA ThreadUntouched ==
    ASSUME NEW t \in Threads, ThreadIs(t), current' = t <=> current = t,
           state'[t] = state[t], irql'[t] = irql[t], waitIrql'[t] = waitIrql[t],
           stack'[t] = stack[t], kernelApcInProgress'[t] = kernelApcInProgress[t],
           kernelApcDisable'[t] = kernelApcDisable[t],
           apcQueueable'[t] = apcQueueable[t], exiting'[t] = exiting[t]
    PROVE  ThreadIs(t)'
BY DEF ThreadIs, InLoop, Top

\* Where a thread rests, its innermost frame is not in the loop.
LEMMA RestingTop ==
    ASSUME NEW s, NEW p, Resting(s, p)
    PROVE  Last(s).kind \in {"thread", "normal"} /\ s # <<>>
<1>1. Len(s) \in 1..2 /\ Len(<<>>) = 0
  BY EmptySeq DEF Resting
<1> QED BY <1>1 DEF Resting, Last

\* Delivery keeps what is known of the threads.
LEMMA RunsApcsThreads ==
    ASSUME ApcInv, NEW t \in Threads, RunsApcs(t)
    PROVE  ThreadsTyped' /\ ThreadsRight'
<1>0. TypeOK /\ ThreadsAre /\ NoThread \notin Threads
  BY ThreadParts, ApcAssumption DEF ApcInv
<1>1. /\ Delivers(t)
      /\ current \in {t, NoThread} /\ current' = t
      /\ state'[t] = "Running" /\ \A u \in Threads : u # t => state'[u] = state[u]
      /\ state' \in [Threads -> {"Ready", "Running", "Waiting", "Terminated"}]
      /\ UNCHANGED <<waitIrql, kernelApcDisable, apcQueueable, exiting>>
  BY <1>0 DEF RunsApcs, TypeOK
<1>2. \/ /\ Resting(stack'[t], kernelApcInProgress'[t]) /\ irql'[t] = 0
      \/ /\ Looping(stack'[t], kernelApcInProgress'[t]) /\ irql'[t] = 1
         /\ Top(t)'.kind \in {"special", "kernel"}
  BY <1>1 DEF Delivers, LoopEnds, LoopGoesOn, NormalBegins
<1>3. InLoop(t)' <=> irql'[t] = 1
  <2>1. CASE Resting(stack'[t], kernelApcInProgress'[t]) /\ irql'[t] = 0
    BY <2>1, RestingTop DEF InLoop, Top
  <2>2. CASE irql'[t] = 1 /\ Top(t)'.kind \in {"special", "kernel"}
    BY <2>2 DEF InLoop
  <2> QED BY <1>2, <2>1, <2>2
<1>4. ThreadIs(t)'
  BY <1>0, <1>1, <1>2, <1>3 DEF ThreadIs, ThreadsAre
<1>5. ASSUME NEW u \in Threads, u # t PROVE ThreadIs(u)' /\ stack'[u] # <<>>
  <2>1. /\ current' = u <=> current = u
        /\ state'[u] = state[u] /\ irql'[u] = irql[u] /\ stack'[u] = stack[u]
        /\ kernelApcInProgress'[u] = kernelApcInProgress[u]
    BY <1>0, <1>1, <1>5 DEF Delivers
  <2> QED BY <1>0, <1>1, <2>1, ThreadUntouched DEF TypeOK, ThreadsAre
<1>6. stack'[t] # <<>>
  <2>1. Len(stack'[t]) # 0 /\ Len(<<>>) = 0
    BY <1>2, EmptySeq DEF Resting, Looping
  <2> QED BY <2>1
<1>7. ThreadsTyped'
  BY <1>0, <1>1, <1>5, <1>6 DEF ThreadsTyped, Delivers, RunsApcs, TypeOK
<1>8. ThreadsRight'
  <2>1. \A u \in Threads : ThreadIs(u)'
    BY <1>4, <1>5
  <2> QED BY <2>1, ThreadPartsNext DEF ThreadsAre
<1> QED BY <1>7, <1>8

\* So do the quiet switch and preemption.
LEMMA SwitchThreads ==
    ASSUME ApcInv, NEW t \in Threads, SwitchesQuietly(t) \/ Preempt(t)
    PROVE  ThreadsTyped' /\ ThreadsRight'
<1>0. /\ TypeOK /\ ThreadsAre /\ NoThread \notin Threads
      /\ irql[t] \in 0..1
  BY ThreadParts, ApcAssumption DEF ApcInv, TypeOK
<1>1. /\ {current, current'} = {t, NoThread}
      /\ state'[t] = "Running" <=> current' = t
      /\ state'[t] \in {"Running", "Ready"}
      /\ \A u \in Threads : u # t => state'[u] = state[u] /\ waitIrql'[u] = waitIrql[u]
      /\ state' \in [Threads -> {"Ready", "Running", "Waiting", "Terminated"}]
      /\ waitIrql' \in [Threads -> 0..1]
      /\ state'[t] # "Running" /\ waitIrql'[t] = 0 => irql[t] = 0
      /\ apcRequested' \in BOOLEAN
      /\ UNCHANGED <<irql, stack, kernelApcPending, kernelApcInProgress,
                     kernelApcDisable, apcQueueable, exiting>>
  <2>1. CASE SwitchesQuietly(t)
    BY <1>0, <2>1 DEF SwitchesQuietly, TypeOK
  <2>2. CASE Preempt(t)
    BY <1>0, <2>2 DEF Preempt, TypeOK
  <2> QED BY <2>1, <2>2
<1>2. ThreadIs(t)'
  <2>1. InLoop(t)' <=> InLoop(t)
    BY <1>1 DEF InLoop, Top
  <2> QED BY <1>0, <1>1, <2>1 DEF ThreadIs, ThreadsAre
<1>3. ASSUME NEW u \in Threads, u # t PROVE ThreadIs(u)'
  BY <1>0, <1>1, <1>3, ThreadUntouched DEF ThreadsAre
<1>4. ThreadsTyped'
  BY <1>0, <1>1 DEF ThreadsTyped, TypeOK
<1>5. ThreadsRight'
  <2>1. \A u \in Threads : ThreadIs(u)'
    BY <1>2, <1>3
  <2> QED BY <2>1, ThreadPartsNext DEF ThreadsAre
<1> QED BY <1>4, <1>5

\* Regions, levels and the way to the end of a thread.
LEMMA RegionThreads ==
    ASSUME ApcInv, NEW t \in Threads,
           \/ KeEnterCriticalRegion(t) \/ KeLeaveCriticalRegion(t)
           \/ RaiseToApcLevel(t) \/ LowerToPassiveLevel(t)
           \/ HasTerminated(t) \/ StopQueueing(t) \/ LeaveForGood(t)
    PROVE  ThreadsTyped' /\ ThreadsRight'
<1>0. TypeOK /\ ThreadsAre /\ MaxDisable \in Nat /\ ThreadIs(t)
  BY ThreadParts, ApcAssumption DEF ApcInv, ThreadsAre
<1>1. /\ RunsCode(t) /\ current = t
      /\ UNCHANGED <<current, state, waitIrql, stack, kernelApcInProgress>>
      /\ kernelApcPending' \in [Threads -> BOOLEAN] /\ apcRequested' \in BOOLEAN
  BY <1>0 DEF KeEnterCriticalRegion, KeLeaveCriticalRegion, RaiseToApcLevel,
     LowerToPassiveLevel, HasTerminated, StopQueueing, LeaveForGood, ReleaseApcs,
     RunsCode, Undisturbed, TypeOK
<1>2. ~InLoop(t) /\ InLoop(t)' = InLoop(t)
  BY <1>1 DEF RunsCode, InLoop, Top
<1>3. /\ kernelApcDisable[t] \in 0..(MaxDisable + 1) /\ irql[t] \in 0..1
      /\ apcQueueable[t] \in BOOLEAN /\ state[t] = "Running"
  BY <1>0, <1>1 DEF TypeOK, ThreadIs
<1> DEFINE Change(d, q, x, l) ==
        /\ kernelApcDisable' = [kernelApcDisable EXCEPT ![t] = d]
        /\ apcQueueable' = [apcQueueable EXCEPT ![t] = q]
        /\ exiting' = [exiting EXCEPT ![t] = x]
        /\ irql' = [irql EXCEPT ![t] = l]
<1>4. ASSUME NEW d \in 0..(MaxDisable + 1), NEW q \in BOOLEAN,
             NEW x \in {"no", "marked", "closed", "left"}, NEW l \in 0..1,
             Change(d, q, x, l),
             x # "no" => l = 0, x \in {"closed", "left"} <=> ~q,
             x # "closed" => d <= MaxDisable, x = "closed" => d >= 1
      PROVE  ThreadsTyped' /\ ThreadsRight'
  <2>1. /\ kernelApcDisable' \in [Threads -> 0..(MaxDisable + 1)]
        /\ apcQueueable' \in [Threads -> BOOLEAN]
        /\ exiting' \in [Threads -> {"no", "marked", "closed", "left"}]
        /\ irql' \in [Threads -> 0..1]
        /\ kernelApcDisable'[t] = d /\ apcQueueable'[t] = q /\ exiting'[t] = x
        /\ irql'[t] = l
        /\ \A u \in Threads : u # t =>
               /\ kernelApcDisable'[u] = kernelApcDisable[u]
               /\ apcQueueable'[u] = apcQueueable[u] /\ exiting'[u] = exiting[u]
               /\ irql'[u] = irql[u]
    BY <1>0, <1>4 DEF TypeOK
  <2>2. ThreadIs(t)'
    BY <1>0, <1>1, <1>2, <1>3, <1>4, <2>1 DEF ThreadIs
  <2>3. ASSUME NEW u \in Threads, u # t PROVE ThreadIs(u)'
    BY <1>0, <1>1, <2>1, <2>3, ThreadUntouched DEF ThreadsAre
  <2>4. ThreadsTyped'
    BY <1>0, <1>1, <2>1 DEF ThreadsTyped, TypeOK
  <2> QED BY <2>2, <2>3, <2>4, ThreadPartsNext DEF ThreadsAre
<1>5. /\ kernelApcDisable = [kernelApcDisable EXCEPT ![t] = kernelApcDisable[t]]
      /\ apcQueueable = [apcQueueable EXCEPT ![t] = apcQueueable[t]]
      /\ exiting = [exiting EXCEPT ![t] = exiting[t]]
      /\ irql = [irql EXCEPT ![t] = irql[t]]
      /\ exiting[t] \in {"no", "marked", "closed", "left"}
      /\ exiting[t] # "no" => irql[t] = 0
  BY <1>0, <1>2 DEF TypeOK, ThreadIs
<1>6. CASE KeEnterCriticalRegion(t)
  <2>1. /\ Change(kernelApcDisable[t] + 1, apcQueueable[t], exiting[t], irql[t])
        /\ exiting[t] = "no" /\ kernelApcDisable[t] < MaxDisable
    BY <1>5, <1>6 DEF KeEnterCriticalRegion
  <2>2. kernelApcDisable[t] + 1 \in 0..(MaxDisable + 1)
        /\ kernelApcDisable[t] + 1 <= MaxDisable
    BY <1>0, <1>3, <2>1
  <2> HIDE DEF Change
  <2> QED BY <1>0, <1>3, <1>4, <1>5, <2>1, <2>2 DEF ThreadIs
<1>7. CASE KeLeaveCriticalRegion(t)
  <2>1. /\ Change(kernelApcDisable[t] - 1, apcQueueable[t], exiting[t], irql[t])
        /\ exiting[t] = "no" /\ kernelApcDisable[t] > 0
    BY <1>5, <1>7 DEF KeLeaveCriticalRegion
  <2>2. kernelApcDisable[t] - 1 \in 0..(MaxDisable + 1)
        /\ kernelApcDisable[t] - 1 <= MaxDisable
    BY <1>0, <1>3, <2>1
  <2> HIDE DEF Change
  <2> QED BY <1>0, <1>3, <1>4, <1>5, <2>1, <2>2 DEF ThreadIs
<1>8. CASE RaiseToApcLevel(t) \/ LowerToPassiveLevel(t)
  <2>1. /\ \E l \in 0..1 :
               Change(kernelApcDisable[t], apcQueueable[t], exiting[t], l)
        /\ exiting[t] = "no"
    BY <1>5, <1>8 DEF RaiseToApcLevel, LowerToPassiveLevel
  <2> HIDE DEF Change
  <2> QED BY <1>0, <1>3, <1>4, <1>5, <2>1 DEF ThreadIs
<1>9. CASE HasTerminated(t)
  <2>1. Change(kernelApcDisable[t], apcQueueable[t], "marked", 0) /\ exiting[t] = "no"
    BY <1>5, <1>9 DEF HasTerminated
  <2> HIDE DEF Change
  <2> QED BY <1>0, <1>3, <1>4, <2>1 DEF ThreadIs
<1>10. CASE StopQueueing(t)
  <2>1. /\ Change(kernelApcDisable[t] + 1, FALSE, "closed", irql[t])
        /\ exiting[t] = "marked"
    BY <1>5, <1>10 DEF StopQueueing
  <2>2. kernelApcDisable[t] + 1 \in 0..(MaxDisable + 1) /\ kernelApcDisable[t] + 1 >= 1
    BY <1>0, <1>3, <2>1 DEF ThreadIs
  <2> HIDE DEF Change
  <2> QED BY <1>0, <1>3, <1>4, <1>5, <2>1, <2>2
<1>11. CASE LeaveForGood(t)
  <2>1. /\ Change(kernelApcDisable[t] - 1, apcQueueable[t], "left", irql[t])
        /\ exiting[t] = "closed"
    BY <1>5, <1>11 DEF LeaveForGood
  <2>2. kernelApcDisable[t] - 1 \in 0..(MaxDisable + 1)
        /\ kernelApcDisable[t] - 1 <= MaxDisable
    BY <1>0, <1>3, <2>1 DEF ThreadIs
  <2> HIDE DEF Change
  <2> QED BY <1>0, <1>3, <1>4, <1>5, <2>1, <2>2 DEF ThreadIs
<1> QED BY <1>6, <1>7, <1>8, <1>9, <1>10, <1>11

\* A thread begins to wait, or ends.
LEMMA LeavingThreads ==
    ASSUME ApcInv, NEW t \in Threads,
           Terminated(t) \/ \E e \in Events : KeWaitForSingleObject(t, e)
    PROVE  ThreadsTyped' /\ ThreadsRight'
<1>0. TypeOK /\ ThreadsAre /\ ThreadIs(t) /\ StackShape /\ NoThread \notin Threads
  BY ThreadParts, ApcAssumption DEF ApcInv, ThreadsAre, ThreadsRight
<1>1. /\ current = t /\ Top(t).kind \in {"thread", "normal"} /\ irql[t] \in 0..1
      /\ UNCHANGED <<apcRequested, irql, kernelApcPending, kernelApcInProgress,
                     kernelApcDisable, apcQueueable, exiting>>
  BY <1>0 DEF Terminated, KeWaitForSingleObject, RunsCode, Undisturbed, TypeOK
<1> DEFINE Noted ==
        /\ stack' \in [Threads -> Seq(Frames)] /\ \A u \in Threads : stack'[u] # <<>>
        /\ StackShape' /\ \A u \in Threads : u # t => stack'[u] = stack[u]
        /\ \A u \in Threads : Top(u)'.kind = Top(u).kind
<1>2. Noted
  <2>1. CASE Terminated(t)
    BY <1>0, <2>1 DEF Terminated, TypeOK, StackShape, Top
  <2>2. ASSUME NEW e \in Events, KeWaitForSingleObject(t, e)
        PROVE  \E w \in Events \union {NoEvent} :
                   stack' = [stack EXCEPT ![t][Len(stack[t])].wait = w]
    BY <2>2 DEF KeWaitForSingleObject
  <2>3. ASSUME NEW w \in Events \union {NoEvent},
               stack' = [stack EXCEPT ![t][Len(stack[t])].wait = w]
        PROVE  Noted
    BY <1>0, <1>1, <2>3, WaitNoted
  <2> QED BY <2>1, <2>2, <2>3
<1>3. /\ \/ current' = t /\ state' = state /\ waitIrql' = waitIrql
         \/ /\ current' = NoThread
            /\ \/ state' = [state EXCEPT ![t] = "Waiting"]
                  /\ waitIrql' = [waitIrql EXCEPT ![t] = irql[t]]
               \/ state' = [state EXCEPT ![t] = "Terminated"] /\ exiting[t] = "left"
                  /\ waitIrql' = waitIrql
  BY <1>1 DEF Terminated, KeWaitForSingleObject, RunsCode, Undisturbed
<1>4. /\ state' \in [Threads -> {"Ready", "Running", "Waiting", "Terminated"}]
      /\ waitIrql' \in [Threads -> 0..1]
      /\ \A u \in Threads : u # t => state'[u] = state[u] /\ waitIrql'[u] = waitIrql[u]
      /\ current' \in {t, NoThread} /\ (state'[t] = "Running" <=> current' = t)
      /\ state'[t] = "Waiting" => waitIrql'[t] = irql[t]
      /\ state'[t] = "Terminated" => exiting[t] = "left"
      /\ state'[t] \in {"Running", "Waiting", "Terminated"}
  BY <1>0, <1>1, <1>3 DEF TypeOK, ThreadIs
<1>5. ~InLoop(t) /\ ~InLoop(t)'
  BY <1>1, <1>2 DEF InLoop
<1>6. exiting[t] # "no" => irql[t] = 0
  BY <1>0, <1>5 DEF ThreadIs
<1>7. ThreadIs(t)'
  BY <1>0, <1>1, <1>2, <1>4, <1>5, <1>6 DEF ThreadIs, StackShape
<1>8. ASSUME NEW u \in Threads, u # t PROVE ThreadIs(u)'
  BY <1>0, <1>1, <1>2, <1>4, <1>8, ThreadUntouched DEF ThreadsAre
<1>9. ThreadsTyped'
  BY <1>0, <1>1, <1>2, <1>4 DEF ThreadsTyped, TypeOK
<1> QED BY <1>7, <1>8, <1>9, ThreadPartsNext DEF ThreadsAre

\* A wait that is ended by somebody else.
LEMMA EndedWaitThreads ==
    ASSUME ApcInv, NEW t \in Threads, state[t] = "Waiting",
           state' = [state EXCEPT ![t] = "Ready"],
           \/ UNCHANGED stack
           \/ stack' = [stack EXCEPT ![t][Len(stack[t])].wait = NoEvent],
           kernelApcPending' \in [Threads -> BOOLEAN], apcRequested' \in BOOLEAN,
           UNCHANGED <<current, irql, waitIrql, kernelApcInProgress, kernelApcDisable,
                       apcQueueable, exiting>>
    PROVE  ThreadsTyped' /\ ThreadsRight'
<1>0. TypeOK /\ ThreadsAre /\ ThreadIs(t) /\ StackShape
  BY ThreadParts DEF ApcInv, ThreadsAre, ThreadsRight
<1>1. /\ stack' \in [Threads -> Seq(Frames)] /\ \A u \in Threads : stack'[u] # <<>>
      /\ StackShape' /\ \A u \in Threads : u # t => stack'[u] = stack[u]
      /\ \A u \in Threads : Top(u)'.kind = Top(u).kind
  <2>1. CASE UNCHANGED stack
    BY <1>0, <2>1 DEF TypeOK, StackShape, Top
  <2>2. CASE stack' = [stack EXCEPT ![t][Len(stack[t])].wait = NoEvent]
    BY <1>0, <2>2, WaitNoted
  <2> QED BY <2>1, <2>2
<1>2. /\ state' \in [Threads -> {"Ready", "Running", "Waiting", "Terminated"}]
      /\ state'[t] = "Ready" /\ \A u \in Threads : u # t => state'[u] = state[u]
  BY <1>0 DEF TypeOK
<1>3. InLoop(t)' <=> InLoop(t)
  BY <1>1 DEF InLoop
<1>4. ThreadIs(t)'
  BY <1>0, <1>1, <1>2, <1>3 DEF ThreadIs, StackShape
<1>5. ASSUME NEW u \in Threads, u # t PROVE ThreadIs(u)'
  BY <1>0, <1>1, <1>2, <1>5, ThreadUntouched DEF ThreadsAre
<1>6. ThreadsTyped'
  BY <1>0, <1>1, <1>2 DEF ThreadsTyped, TypeOK
<1> QED BY <1>4, <1>5, <1>6, ThreadPartsNext DEF ThreadsAre

-----------------------------------------------------------------------------
(* Who waits for which event.                                               *)

WaitersTyped ==
    signal \in [Events -> BOOLEAN] /\ waiters \in [Events -> Seq(Threads)]

\* What WaitersAgree says of one event.
EventIs(e) ==
    /\ signal[e] => waiters[e] = <<>>
    /\ Distinct(waiters[e])
    /\ \A t \in Threads :
           t \in Members(waiters[e]) <=> state[t] = "Waiting" /\ Top(t).wait = e

EventsAre == WaitersTyped /\ \A e \in Events : EventIs(e)

\* The same in one formula, before and after a step.
LEMMA WaitersNow == WaitersTyped => (EventsAre <=> WaitersAgree)
<1> SUFFICES ASSUME WaitersTyped PROVE EventsAre <=> WaitersAgree
  OBVIOUS
<1>1. ASSUME NEW e \in Events
      PROVE  /\ IsInjective(waiters[e]) <=> Distinct(waiters[e])
             /\ ToSet(waiters[e]) = Members(waiters[e])
             /\ Members(waiters[e]) \subseteq Threads
  <2>1. waiters[e] \in Seq(Threads)
    BY DEF WaitersTyped
  <2> QED BY <2>1, ApcListNames, NoMembers
<1>2. ASSUME NEW e \in Events
      PROVE  ToSet(waiters[e]) = {t \in Threads : state[t] = "Waiting" /\ Top(t).wait = e}
             <=> \A t \in Threads :
                     t \in Members(waiters[e]) <=> state[t] = "Waiting" /\ Top(t).wait = e
  BY <1>1
<1> QED BY <1>1, <1>2 DEF EventsAre, WaitersAgree, EventIs

\* After a step.
LEMMA WaitersNext == WaitersTyped' => (EventsAre' <=> WaitersAgree')
BY WaitersNow, PTL

\* The first in an event's list is a thread that waits for the event.
LEMMA FirstWaits ==
    ASSUME EventsAre, NEW e \in Events, waiters[e] # <<>>
    PROVE  /\ Head(waiters[e]) \in Threads
           /\ state[Head(waiters[e])] = "Waiting" /\ Top(Head(waiters[e])).wait = e
<1>1. waiters[e] \in Seq(Threads) /\ Distinct(waiters[e])
  BY DEF EventsAre, WaitersTyped, EventIs
<1>2. Head(waiters[e]) \in Threads /\ Head(waiters[e]) \in Members(waiters[e])
  BY <1>1, TailList
<1> QED BY <1>2 DEF EventsAre, EventIs

\* A step that leaves the lists, and the threads that wait, alone.
LEMMA WaitersUntouched ==
    ASSUME EventsAre, UNCHANGED <<signal, waiters>>,
           \A t \in Threads : state'[t] = "Waiting" <=> state[t] = "Waiting",
           \A t \in Threads : state[t] = "Waiting" => stack'[t] = stack[t]
    PROVE  EventsAre'
<1>1. ASSUME NEW t \in Threads, state[t] = "Waiting" PROVE Top(t)' = Top(t)
  BY <1>1 DEF Top
<1>2. ASSUME NEW e \in Events PROVE EventIs(e)'
  BY <1>1 DEF EventsAre, EventIs
<1> QED BY <1>2 DEF EventsAre, WaitersTyped

\* A thread takes the event, or joins its list.
LEMMA WaitWaiters ==
    ASSUME ApcInv, EventsAre, NEW t \in Threads, NEW e \in Events,
           KeWaitForSingleObject(t, e)
    PROVE  EventsAre'
<1>0. /\ TypeOK /\ StackShape /\ state[t] = "Running"
      /\ signal \in [Events -> BOOLEAN] /\ waiters \in [Events -> Seq(Threads)]
      /\ state \in [Threads -> {"Ready", "Running", "Waiting", "Terminated"}]
      /\ UNCHANGED kernelApcInProgress
  BY DEF ApcInv, TypeOK, ThreadsRight, CpuAgrees, KeWaitForSingleObject, Undisturbed
<1>1. CASE signal[e]
  <2>1. /\ stack' = [stack EXCEPT ![t][Len(stack[t])].wait = NoEvent]
        /\ signal' = [signal EXCEPT ![e] = FALSE] /\ UNCHANGED <<state, waiters>>
    BY <1>1 DEF KeWaitForSingleObject
  <2>2. \A u \in Threads : u # t => stack'[u] = stack[u]
    BY <1>0, <2>1, WaitNoted
  <2>3. \A u \in Threads : state[u] = "Waiting" => Top(u)' = Top(u)
    BY <1>0, <2>2 DEF Top
  <2>4. \A f \in Events : signal'[f] => signal[f]
    BY <1>0, <2>1
  <2>5. signal' \in [Events -> BOOLEAN]
    BY <1>0, <2>1
  <2>6. ASSUME NEW f \in Events PROVE EventIs(f)'
    BY <2>1, <2>3, <2>4 DEF EventsAre, EventIs
  <2> QED BY <1>0, <2>1, <2>5, <2>6 DEF EventsAre, WaitersTyped
<1>2. CASE ~signal[e]
  <2> DEFINE q == waiters[e]
             r == Append(q, t)
  <2>1. /\ stack' = [stack EXCEPT ![t][Len(stack[t])].wait = e]
        /\ waiters' = [waiters EXCEPT ![e] = r] /\ signal' = signal
        /\ state' = [state EXCEPT ![t] = "Waiting"]
    BY <1>2 DEF KeWaitForSingleObject
  <2>2. Top(t)'.wait = e /\ \A u \in Threads : u # t => stack'[u] = stack[u]
    BY <1>0, <2>1, WaitNoted
  <2>3. q \in Seq(Threads) /\ Distinct(q) /\ t \notin Members(q)
    BY <1>0 DEF EventsAre, EventIs
  <2>4. r \in Seq(Threads) /\ Members(r) = Members(q) \union {t} /\ Distinct(r)
    BY <2>3, AppendMember
  <2> HIDE DEF r
  <2>5. /\ waiters' \in [Events -> Seq(Threads)] /\ waiters'[e] = r
        /\ \A f \in Events : f # e => waiters'[f] = waiters[f]
        /\ state'[t] = "Waiting" /\ \A u \in Threads : u # t => state'[u] = state[u]
    BY <1>0, <2>1, <2>4
  <2>6. \A u \in Threads : u # t => Top(u)' = Top(u)
    BY <2>2 DEF Top
  <2>7. EventIs(e)'
    BY <1>2, <2>1, <2>2, <2>4, <2>5, <2>6 DEF EventsAre, EventIs
  <2>8. ASSUME NEW f \in Events, f # e PROVE EventIs(f)'
    BY <1>0, <2>1, <2>2, <2>5, <2>6, <2>8 DEF EventsAre, EventIs
  <2> QED BY <1>0, <2>1, <2>5, <2>7, <2>8 DEF EventsAre, WaitersTyped
<1> QED BY <1>1, <1>2

\* KeSetEvent hands the event to the first, who leaves the list.
LEMMA SetWaiters ==
    ASSUME ApcInv, EventsAre, NEW e \in Events, KeSetEvent(e)
    PROVE  EventsAre'
<1>0. /\ TypeOK /\ StackShape
      /\ signal \in [Events -> BOOLEAN] /\ waiters \in [Events -> Seq(Threads)]
      /\ state \in [Threads -> {"Ready", "Running", "Waiting", "Terminated"}]
      /\ UNCHANGED kernelApcInProgress
  BY DEF ApcInv, TypeOK, ThreadsRight, KeSetEvent
<1>1. CASE waiters[e] = <<>>
  <2>1. /\ signal' = [signal EXCEPT ![e] = TRUE] /\ UNCHANGED <<waiters, state, stack>>
    BY <1>1 DEF KeSetEvent
  <2>2. \A f \in Events : signal'[f] => signal[f] \/ f = e
    BY <1>0, <2>1
  <2>3. signal' \in [Events -> BOOLEAN]
    BY <1>0, <2>1
  <2>4. ASSUME NEW f \in Events PROVE EventIs(f)'
    BY <1>1, <2>1, <2>2 DEF EventsAre, EventIs, Top
  <2> QED BY <1>0, <2>1, <2>3, <2>4 DEF EventsAre, WaitersTyped
<1>2. CASE waiters[e] # <<>>
  <2> DEFINE q == waiters[e]
  <2>1. PICK t \in Threads : t = Head(q) /\ state[t] = "Waiting" /\ Top(t).wait = e
    BY <1>2, FirstWaits
  <2>2. /\ waiters' = [waiters EXCEPT ![e] = Tail(q)] /\ signal' = signal
        /\ state' = [state EXCEPT ![t] = "Ready"]
        /\ stack' = [stack EXCEPT ![t][Len(stack[t])].wait = NoEvent]
    BY <1>2, <2>1 DEF KeSetEvent
  <2>3. q \in Seq(Threads) /\ Distinct(q)
    BY <1>0 DEF EventsAre, EventIs
  <2>4. Tail(q) \in Seq(Threads) /\ Distinct(Tail(q)) /\ Members(Tail(q)) = Members(q) \ {t}
    BY <1>2, <2>1, <2>3, TailList
  <2>5. /\ waiters' \in [Events -> Seq(Threads)] /\ waiters'[e] = Tail(q)
        /\ \A f \in Events : f # e => waiters'[f] = waiters[f]
        /\ state'[t] = "Ready" /\ \A u \in Threads : u # t => state'[u] = state[u]
    BY <1>0, <2>2, <2>4
  <2>6. \A u \in Threads : u # t => stack'[u] = stack[u]
    BY <1>0, <2>2, WaitNoted
  <2>7. \A u \in Threads : u # t => Top(u)' = Top(u)
    BY <2>6 DEF Top
  <2>8. ~signal[e]
    BY <1>2 DEF EventsAre, EventIs
  <2>9. EventIs(e)'
    BY <2>2, <2>4, <2>5, <2>7, <2>8 DEF EventsAre, EventIs
  <2>10. ASSUME NEW f \in Events, f # e PROVE EventIs(f)'
    BY <2>1, <2>2, <2>5, <2>7, <2>10 DEF EventsAre, EventIs
  <2> QED BY <1>0, <2>2, <2>5, <2>9, <2>10 DEF EventsAre, WaitersTyped
<1> QED BY <1>1, <1>2

\* An APC that ends a wait takes the thread off the list it is in.
LEMMA UnwaitWaiters ==
    ASSUME ApcInv, EventsAre, NEW t \in Threads, UnwaitForApc(t),
           UNCHANGED <<signal, stack>>
    PROVE  EventsAre'
<1>0. /\ signal \in [Events -> BOOLEAN] /\ waiters \in [Events -> Seq(Threads)]
      /\ state \in [Threads -> {"Ready", "Running", "Waiting", "Terminated"}]
  BY DEF ApcInv, TypeOK
<1>1. /\ state'[t] = "Ready" /\ \A u \in Threads : u # t => state'[u] = state[u]
      /\ waiters' = [e \in Events |-> Unlinked(waiters[e], t)]
      /\ \A u \in Threads : Top(u)' = Top(u)
  BY <1>0 DEF UnwaitForApc, Top
<1>2. ASSUME NEW e \in Events
      PROVE  waiters'[e] \in Seq(Threads) /\ EventIs(e)'
  <2> DEFINE q == waiters[e]
             r == Unlinked(q, t)
  <2>1. q \in Seq(Threads) /\ Distinct(q) /\ (signal[e] => q = <<>>)
    BY <1>0 DEF EventsAre, EventIs
  <2>2. r \in Seq(Threads) /\ Distinct(r) /\ Members(r) = Members(q) \ {t}
    BY <2>1, UnlinkedList
  <2>3. waiters'[e] = r
    BY <1>1
  <2> HIDE DEF r
  <2>4. signal'[e] => r = <<>>
    <3>1. q = <<>> => Members(r) = {}
      BY <2>2, EmptyMembers
    <3> QED BY <2>1, <2>2, <3>1, NoMembers
  <2> QED BY <1>1, <2>2, <2>3, <2>4 DEF EventsAre, EventIs
<1>3. waiters' \in [Events -> Seq(Threads)]
  BY <1>1, <1>2
<1> QED BY <1>0, <1>2, <1>3 DEF EventsAre, WaitersTyped

-----------------------------------------------------------------------------
(* Every step keeps the threads and the waiters right.                      *)

\* Steps that change neither a thread nor a wait.
LEMMA QuietThreads ==
    ASSUME ApcInv, kernelApcPending' \in [Threads -> BOOLEAN], apcRequested' \in BOOLEAN,
           UNCHANGED <<current, threadVars, kernelApcInProgress, regionVars>>
    PROVE  ThreadsTyped' /\ ThreadsRight'
<1>1. TypeOK /\ ThreadsAre
  BY ThreadParts DEF ApcInv
<1>2. ASSUME NEW t \in Threads PROVE ThreadIs(t)'
  BY <1>1, ThreadUntouched DEF ThreadsAre
<1>3. ThreadsTyped'
  BY <1>1 DEF ThreadsTyped, TypeOK
<1> QED BY <1>2, <1>3, ThreadPartsNext DEF ThreadsAre

\* Every step keeps the threads and the events right, and their types.
LEMMA NextThreads ==
    ASSUME ApcInv, [Next]_vars
    PROVE  ThreadsTyped' /\ ThreadsRight' /\ EventsAre'
<1>0. /\ TypeOK /\ EventsAre /\ ThreadsAre /\ kernelApcPending \in [Threads -> BOOLEAN]
      /\ apcRequested \in BOOLEAN
  BY WaitersNow, ThreadParts DEF ApcInv, TypeOK, WaitersTyped
<1>1. ASSUME UNCHANGED <<current, threadVars, kernelApcInProgress, regionVars, eventVars>>,
             kernelApcPending' \in [Threads -> BOOLEAN], apcRequested' \in BOOLEAN
      PROVE  ThreadsTyped' /\ ThreadsRight' /\ EventsAre'
  BY <1>0, <1>1, QuietThreads, WaitersUntouched
<1>2. ASSUME NEW t \in Threads, RunsApcs(t)
      PROVE  ThreadsTyped' /\ ThreadsRight' /\ EventsAre'
  <2>1. /\ \A u \in Threads : state'[u] = "Waiting" <=> state[u] = "Waiting"
        /\ \A u \in Threads : state[u] = "Waiting" => stack'[u] = stack[u]
        /\ UNCHANGED <<signal, waiters>>
    BY <1>0, <1>2 DEF RunsApcs, Delivers, TypeOK
  <2> QED BY <1>0, <1>2, <2>1, RunsApcsThreads, WaitersUntouched
<1>3. ASSUME NEW t \in Threads, SwitchesQuietly(t) \/ Preempt(t)
      PROVE  ThreadsTyped' /\ ThreadsRight' /\ EventsAre'
  <2>1. state[t] # "Waiting"
    BY <1>0, <1>3 DEF SwitchesQuietly, Preempt, ThreadsAre, ThreadIs
  <2>2. /\ \A u \in Threads : state'[u] = "Waiting" <=> state[u] = "Waiting"
        /\ UNCHANGED <<signal, waiters, stack>>
    BY <1>0, <1>3, <2>1 DEF SwitchesQuietly, Preempt, TypeOK
  <2> QED BY <1>0, <1>3, <2>2, SwitchThreads, WaitersUntouched
<1>4. ASSUME NEW t \in Threads, Code(t)
      PROVE  ThreadsTyped' /\ ThreadsRight' /\ EventsAre'
  <2>1. CASE \E e \in Events : KeWaitForSingleObject(t, e)
    BY <1>0, <2>1, LeavingThreads, WaitWaiters
  <2>2. CASE Terminated(t)
    <3>1. state[t] # "Waiting"
      BY <1>0, <2>2 DEF Terminated, RunsCode, Undisturbed, ThreadsAre, ThreadIs
    <3>2. /\ \A u \in Threads : state'[u] = "Waiting" <=> state[u] = "Waiting"
          /\ UNCHANGED <<signal, waiters, stack>>
      BY <1>0, <2>2, <3>1 DEF Terminated, TypeOK
    <3> QED BY <1>0, <2>2, <3>2, LeavingThreads, WaitersUntouched
  <2>3. CASE \/ KeEnterCriticalRegion(t) \/ KeLeaveCriticalRegion(t)
             \/ RaiseToApcLevel(t) \/ LowerToPassiveLevel(t)
             \/ HasTerminated(t) \/ StopQueueing(t) \/ LeaveForGood(t)
    <3>1. UNCHANGED <<state, stack, signal, waiters>>
      BY <2>3 DEF KeEnterCriticalRegion, KeLeaveCriticalRegion, RaiseToApcLevel,
         LowerToPassiveLevel, HasTerminated, StopQueueing, LeaveForGood
    <3> QED BY <1>0, <2>3, <3>1, RegionThreads, WaitersUntouched
  <2> QED BY <1>4, <2>1, <2>2, <2>3 DEF Code
<1>5. ASSUME NEW e \in Events, KeSetEvent(e)
      PROVE  ThreadsTyped' /\ ThreadsRight' /\ EventsAre'
  <2>1. EventsAre'
    BY <1>0, <1>5, SetWaiters
  <2>2. CASE waiters[e] = <<>>
    BY <1>0, <1>5, <2>1, <2>2, QuietThreads DEF KeSetEvent
  <2>3. CASE waiters[e] # <<>>
    <3>1. PICK t \in Threads : t = Head(waiters[e]) /\ state[t] = "Waiting"
      BY <1>0, <2>3, FirstWaits
    <3>2. /\ state' = [state EXCEPT ![t] = "Ready"]
          /\ stack' = [stack EXCEPT ![t][Len(stack[t])].wait = NoEvent]
          /\ UNCHANGED <<current, irql, waitIrql, kernelApcInProgress, kernelApcDisable,
                         apcQueueable, exiting, kernelApcPending, apcRequested>>
      BY <1>5, <2>3, <3>1 DEF KeSetEvent
    <3> QED BY <1>0, <2>1, <3>1, <3>2, EndedWaitThreads
  <2> QED BY <2>2, <2>3
<1>6. ASSUME NEW a \in Apcs, KeInsertQueueApc(a)
      PROVE  ThreadsTyped' /\ ThreadsRight' /\ EventsAre'
  <2>1. PICK t \in Threads : t = ApcThread[a]
    BY ApcAssumption
  <2>2. /\ UNCHANGED <<current, irql, waitIrql, stack, kernelApcInProgress,
                       kernelApcDisable, apcQueueable, exiting, signal>>
        /\ kernelApcPending' \in [Threads -> BOOLEAN] /\ apcRequested' \in BOOLEAN
    BY <1>0, <1>6, <2>1 DEF KeInsertQueueApc
  <2>3. CASE EndsWait(t, a)
    <3>1. UnwaitForApc(t) /\ state[t] = "Waiting" /\ state' = [state EXCEPT ![t] = "Ready"]
      BY <1>6, <2>1, <2>3 DEF KeInsertQueueApc, EndsWait, UnwaitForApc
    <3>2. ThreadsTyped' /\ ThreadsRight'
      BY <2>2, <3>1, EndedWaitThreads
    <3> QED BY <1>0, <2>2, <3>1, <3>2, UnwaitWaiters
  <2>4. CASE ~EndsWait(t, a)
    <3>1. UNCHANGED <<state, waiters>>
      BY <1>6, <2>1, <2>4 DEF KeInsertQueueApc
    <3> QED BY <1>1, <2>2, <3>1
  <2> QED BY <2>3, <2>4
<1>7. ASSUME NEW a \in Apcs, KeRemoveQueueApc(a)
      PROVE  ThreadsTyped' /\ ThreadsRight' /\ EventsAre'
  <2>1. /\ UNCHANGED <<current, apcRequested, threadVars, kernelApcInProgress, regionVars,
                       eventVars>>
        /\ kernelApcPending' \in [Threads -> BOOLEAN]
    <3>1. PICK t \in Threads : t = ApcThread[a]
      BY ApcAssumption
    <3>2. kernelApcPending' =
              [kernelApcPending EXCEPT ![t] = @ /\ apcList'[t] # <<>>]
      BY <1>7, <3>1 DEF KeRemoveQueueApc
    <3>3. (kernelApcPending[t] /\ apcList'[t] # <<>>) \in BOOLEAN
      OBVIOUS
    <3>4. kernelApcPending' \in [Threads -> BOOLEAN]
      BY <1>0, <3>2, <3>3
    <3> QED BY <1>7, <3>4 DEF KeRemoveQueueApc
  <2> QED BY <1>0, <1>1, <2>1
<1>8. CASE \E t \in SuspendTargets : KeSuspendThread(t) \/ KeResumeThread(t)
  <2>1. UNCHANGED <<current, apcRequested, threadVars, kernelApcPending,
                    kernelApcInProgress, regionVars, eventVars>>
    BY <1>8 DEF KeSuspendThread, KeResumeThread
  <2> QED BY <1>0, <1>1, <2>1
<1>9. CASE UNCHANGED vars
  BY <1>0, <1>1, <1>9 DEF vars
<1> QED BY <1>2, <1>3, <1>4, <1>5, <1>6, <1>7, <1>8, <1>9, StepKinds DEF Others

-----------------------------------------------------------------------------
(* Delivery.                                                                *)

\* An APC of the list could run, or is special.
SomeSpecial(t) == \E a \in ToSet(apcList[t]) : a \in SpecialApcs

\* What DeliveryRight says of one thread.
DeliveryIs(t) ==
    /\ Due(t) => /\ kernelApcPending[t] \/ InLoop(t)
                 /\ current = t => apcRequested \/ InLoop(t)
                 /\ ~(state[t] = "Waiting" /\ waitIrql[t] = 0)
    /\ Top(t).kind = "kernel" /\ SomeSpecial(t) =>
           kernelApcPending[t] /\ (current = t => apcRequested)
    /\ state[t] = "Terminated" /\ ~kernelApcInProgress[t] /\ kernelApcDisable[t] = 0 =>
           apcList[t] = <<>>

DeliveryAre == \A t \in Threads : DeliveryIs(t)

\* The same in one formula, before and after a step.
LEMMA DeliveryParts == DeliveryRight <=> DeliveryAre
BY DEF DeliveryRight, NoApcStranded, SpecialsSeen, NoApcOutlivesThread, DeliveryIs,
       SomeSpecial, DeliveryAre

\* After a step.
LEMMA DeliveryPartsNext == DeliveryRight' <=> DeliveryAre'
BY DeliveryParts, PTL

\* Nothing that counts for the delivery to "t" happens.
LEMMA DeliveryUntouched ==
    ASSUME NEW t \in Threads, DeliveryIs(t),
           apcList'[t] = apcList[t],
           kernelApcInProgress'[t] = kernelApcInProgress[t],
           kernelApcDisable'[t] = 0 => kernelApcDisable[t] = 0,
           kernelApcPending[t] => kernelApcPending'[t],
           current' = t => current = t /\ (apcRequested => apcRequested'),
           state'[t] = "Waiting" /\ waitIrql'[t] = 0 =>
               state[t] = "Waiting" /\ waitIrql[t] = 0,
           state'[t] = "Terminated" => state[t] = "Terminated",
           Top(t)'.kind = Top(t).kind
    PROVE  DeliveryIs(t)'
<1>1. Due(t)' => Due(t)
  BY DEF Due, MayRun
<1>2. InLoop(t)' <=> InLoop(t)
  BY DEF InLoop
<1>3. SomeSpecial(t)' <=> SomeSpecial(t)
  BY DEF SomeSpecial
<1> QED BY <1>1, <1>2, <1>3 DEF DeliveryIs

\* A turn of the loop leaves nothing due, or goes on; a NormalRoutine begins with
\* what came since announced.
LEMMA RunsApcsDelivers ==
    ASSUME ApcInv, NEW t \in Threads, RunsApcs(t), ListsAre'
    PROVE  DeliveryAre'
<1>0. /\ TypeOK /\ DeliveryAre /\ ThreadsAre /\ ListsAre /\ NoThread \notin Threads
      /\ apcList[t] \in Seq(Apcs)
  BY DeliveryParts, ThreadParts, ListsNow, ApcAssumption
     DEF ApcInv, TypeOK, ListsTyped
<1>1. /\ Delivers(t) /\ current \in {t, NoThread} /\ current' = t
      /\ state'[t] = "Running" /\ \A u \in Threads : u # t => state'[u] = state[u]
      /\ \A u \in Threads : u # t => kernelApcPending'[u] = kernelApcPending[u]
      /\ UNCHANGED <<waitIrql, kernelApcDisable>>
  BY <1>0 DEF RunsApcs, TypeOK
<1>2. ASSUME NEW u \in Threads, u # t PROVE DeliveryIs(u)'
  <2>1. apcList'[u] = apcList[u]
    BY <1>0, <1>1, <1>2 DEF Delivers, LoopEnds, LoopGoesOn, NormalBegins, Takes, TypeOK
  <2>2. Top(u)' = Top(u) /\ kernelApcInProgress'[u] = kernelApcInProgress[u]
    BY <1>1, <1>2 DEF Delivers, Top
  <2> QED BY <1>0, <1>1, <1>2, <2>1, <2>2, DeliveryUntouched DEF DeliveryAre
<1>3. DeliveryIs(t)'
  <2>1. CASE LoopEnds(t)
    <3>1. ~Due(t)'
      BY <1>1, <2>1 DEF LoopEnds, Due
    <3>2. Top(t)'.kind # "kernel"
      BY <2>1, RestingTop DEF LoopEnds, Top
    <3> QED BY <1>1, <3>1, <3>2 DEF DeliveryIs
  <2>2. CASE LoopGoesOn(t)
    <3>1. InLoop(t)'
      BY <2>2 DEF LoopGoesOn, InLoop
    <3>2. Top(t)'.kind = "kernel" => ~SomeSpecial(t)'
      <4>1. apcList[t] # <<>> /\ apcList'[t] = Tail(apcList[t])
        BY <1>0, <2>2 DEF LoopGoesOn, Takes, TypeOK
      <4>2. Distinct(apcList[t])
        BY <1>0 DEF ListsAre, ListOfThread
      <4>3. Tail(apcList[t]) \in Seq(Apcs)
            /\ Members(Tail(apcList[t])) \subseteq Members(apcList[t])
        BY <1>0, <4>1, <4>2, TailList
      <4>4. ToSet(apcList[t])' \subseteq ToSet(apcList[t])
        BY <1>0, <4>1, <4>3, ApcListNames
      <4> QED BY <2>2, <4>4 DEF LoopGoesOn, SomeSpecial
    <3> QED BY <1>1, <3>1, <3>2 DEF DeliveryIs
  <2>3. CASE NormalBegins(t)
    <3>1. /\ Top(t).kind = "kernel" /\ apcList' = apcList /\ kernelApcInProgress'[t] = TRUE
          /\ UNCHANGED <<kernelApcPending, apcRequested>>
      BY <2>3 DEF NormalBegins, RunsApcs
    <3>2. Due(t)' => SomeSpecial(t)
      BY <3>1 DEF Due, MayRun, SomeSpecial
    <3>3. current = t
      BY <2>3 DEF NormalBegins
    <3>4. Top(t)'.kind # "kernel"
      BY <2>3, RestingTop DEF NormalBegins, Top
    <3> QED BY <1>0, <1>1, <3>1, <3>2, <3>3, <3>4 DEF DeliveryIs, DeliveryAre
  <2> QED BY <1>1, <2>1, <2>2, <2>3 DEF Delivers
<1> QED BY <1>2, <1>3 DEF DeliveryAre

\* A thread that runs its own code and takes no interrupt has nothing due that
\* it does not know of.
LEMMA CodeKnows ==
    ASSUME ApcInv, NEW t \in Threads, Undisturbed(t), Top(t).kind \in {"thread", "normal"}
    PROVE  /\ state[t] = "Running" /\ current = t /\ ~InLoop(t) /\ Top(t).kind # "kernel"
           /\ irql[t] = 0 => ~Due(t)
<1>1. DeliveryIs(t) /\ ThreadIs(t) /\ irql[t] \in 0..1
  BY DeliveryParts, ThreadParts DEF ApcInv, DeliveryAre, ThreadsAre, TypeOK
<1>2. current = t /\ ~InLoop(t) /\ Top(t).kind # "kernel"
  BY DEF Undisturbed, InLoop
<1>3. ASSUME irql[t] = 0 PROVE ~Due(t)
  BY <1>1, <1>2, <1>3 DEF DeliveryIs, Undisturbed
<1> QED BY <1>1, <1>2, <1>3 DEF ThreadIs

\* Switches that deliver nothing.
LEMMA SwitchDelivers ==
    ASSUME ApcInv, NEW t \in Threads, SwitchesQuietly(t) \/ Preempt(t)
    PROVE  DeliveryAre'
<1>0. /\ TypeOK /\ DeliveryAre /\ NoThread \notin Threads
      /\ ThreadIs(t)
  BY DeliveryParts, ThreadParts, ApcAssumption DEF ApcInv, ThreadsAre
<1>1. /\ UNCHANGED <<apcList, kernelApcInProgress, kernelApcDisable, kernelApcPending, stack>>
      /\ \A u \in Threads : Top(u)' = Top(u)
  BY DEF SwitchesQuietly, Preempt, Top
<1>2. /\ current' \in {t, NoThread} /\ state'[t] \in {"Running", "Ready"}
      /\ \A u \in Threads : u # t => state'[u] = state[u] /\ waitIrql'[u] = waitIrql[u]
  BY <1>0 DEF SwitchesQuietly, Preempt, TypeOK
<1>3. ASSUME NEW u \in Threads, u # t PROVE DeliveryIs(u)'
  BY <1>0, <1>1, <1>2, <1>3, DeliveryUntouched DEF DeliveryAre
<1>4. DeliveryIs(t)'
  <2>1. CASE Preempt(t)
    <3>1. current' # t
      BY <1>0, <2>1 DEF Preempt
    <3> QED BY <1>0, <1>1, <1>2, <3>1, DeliveryUntouched DEF DeliveryAre
  <2>2. CASE SwitchesQuietly(t)
    <3>1. /\ current = NoThread /\ apcRequested' = (apcRequested \/ kernelApcPending[t])
      BY <2>2 DEF SwitchesQuietly
    <3>2. /\ Due(t)' <=> Due(t)
          /\ SomeSpecial(t)' <=> SomeSpecial(t)
          /\ InLoop(t)' <=> InLoop(t)
      BY <1>1 DEF Due, MayRun, SomeSpecial, InLoop
    <3> QED BY <1>0, <1>1, <1>2, <3>1, <3>2 DEF DeliveryIs, DeliveryAre
  <2> QED BY <2>1, <2>2
<1> QED BY <1>3, <1>4 DEF DeliveryAre

\* The thread's own operations.
LEMMA CodeDelivers ==
    ASSUME ApcInv, NEW t \in Threads, Code(t)
    PROVE  DeliveryAre'
<1>0. /\ TypeOK /\ StackShape /\ DeliveryAre /\ NoThread \notin Threads /\ ThreadIs(t)
  BY DeliveryParts, ThreadParts, ApcAssumption DEF ApcInv, ThreadsAre, ThreadsRight
<1>a. kernelApcDisable[t] \in Nat
  <2>1. kernelApcDisable[t] \in 0..(MaxDisable + 1) /\ MaxDisable \in Nat
    BY <1>0, ApcAssumption DEF TypeOK
  <2> QED BY <2>1
<1>1. /\ Undisturbed(t) /\ Top(t).kind \in {"thread", "normal"}
      /\ UNCHANGED <<apcList, kernelApcInProgress>>
  BY DEF Code, KeEnterCriticalRegion, KeLeaveCriticalRegion, RaiseToApcLevel,
     LowerToPassiveLevel, KeWaitForSingleObject, HasTerminated, StopQueueing,
     LeaveForGood, Terminated, RunsCode
<1>2. /\ state[t] = "Running" /\ current = t /\ ~InLoop(t) /\ Top(t).kind # "kernel"
      /\ irql[t] = 0 => ~Due(t)
  BY <1>1, CodeKnows
<1>3. \A u \in Threads : Top(u)'.kind = Top(u).kind
  <2>1. CASE \E e \in Events : KeWaitForSingleObject(t, e)
    <3>1. PICK e \in Events : KeWaitForSingleObject(t, e)
      BY <2>1
    <3>2. PICK w \in Events \union {NoEvent} :
              stack' = [stack EXCEPT ![t][Len(stack[t])].wait = w]
      BY <3>1 DEF KeWaitForSingleObject
    <3> QED BY <1>0, <1>1, <3>2, WaitNoted
  <2>2. CASE UNCHANGED stack
    BY <2>2 DEF Top
  <2>3. \/ \E e \in Events : KeWaitForSingleObject(t, e)
        \/ UNCHANGED stack
    BY DEF Code, KeEnterCriticalRegion, KeLeaveCriticalRegion, RaiseToApcLevel,
       LowerToPassiveLevel, HasTerminated, StopQueueing, LeaveForGood, Terminated
  <2> QED BY <2>1, <2>2, <2>3
<1>4. ASSUME NEW u \in Threads, u # t PROVE DeliveryIs(u)'
  <2>1. /\ kernelApcDisable'[u] = kernelApcDisable[u] /\ state'[u] = state[u]
        /\ waitIrql'[u] = waitIrql[u] /\ current' \in {t, NoThread}
        /\ kernelApcPending[u] => kernelApcPending'[u]
    BY <1>0, <1>2, <1>4 DEF Code, KeEnterCriticalRegion, KeLeaveCriticalRegion,
       RaiseToApcLevel, LowerToPassiveLevel, KeWaitForSingleObject, HasTerminated,
       StopQueueing, LeaveForGood, Terminated, ReleaseApcs, TypeOK
  <2> QED BY <1>0, <1>1, <1>3, <1>4, <2>1, DeliveryUntouched DEF DeliveryAre
<1>5. DeliveryIs(t)'
  <2>1. CASE \/ KeEnterCriticalRegion(t) \/ StopQueueing(t)
             \/ RaiseToApcLevel(t) \/ LowerToPassiveLevel(t) \/ HasTerminated(t)
    <3>1. /\ kernelApcDisable'[t] = 0 => kernelApcDisable[t] = 0
          /\ UNCHANGED <<kernelApcPending, current, apcRequested, state, waitIrql>>
      BY <1>0, <1>a, <2>1 DEF KeEnterCriticalRegion, StopQueueing, RaiseToApcLevel,
         LowerToPassiveLevel, HasTerminated, TypeOK
    <3> QED BY <1>0, <1>1, <1>3, <3>1, DeliveryUntouched DEF DeliveryAre
  <2>2. CASE KeLeaveCriticalRegion(t) \/ LeaveForGood(t)
    <3> DEFINE due == kernelApcDisable'[t] = 0 /\ apcList[t] # <<>>
    <3>1. /\ UNCHANGED <<current, state, waitIrql, stack>>
          /\ kernelApcDisable[t] # 0
          /\ kernelApcPending'[t] = (kernelApcPending[t] \/ due)
          /\ apcRequested' = (apcRequested \/ due)
      BY <1>0, <1>a, <2>2 DEF KeLeaveCriticalRegion, LeaveForGood, ReleaseApcs, TypeOK,
         ThreadIs
    <3>2. CASE kernelApcDisable'[t] = 0
      <4>1. Due(t)' => apcList[t] # <<>>
        <5>1. apcList[t] = <<>> => ToSet(apcList[t]) = {}
          BY DEF ToSet
        <5> QED BY <1>1, <5>1 DEF Due
      <4>2. Top(t)'.kind # "kernel" /\ state'[t] = "Running" /\ current' = t
        BY <1>2, <1>3, <3>1
      <4> QED BY <3>1, <3>2, <4>1, <4>2 DEF DeliveryIs
    <3>3. CASE kernelApcDisable'[t] # 0
      <4>1. kernelApcPending'[t] = kernelApcPending[t] /\ apcRequested' = apcRequested
        BY <1>0, <3>1, <3>3 DEF TypeOK
      <4> QED BY <1>0, <1>1, <1>3, <3>1, <3>3, <4>1, DeliveryUntouched DEF DeliveryAre
    <3> QED BY <3>2, <3>3
  <2>3. CASE \E e \in Events : KeWaitForSingleObject(t, e)
    <3>1. PICK e \in Events : KeWaitForSingleObject(t, e)
      BY <2>3
    <3>2. CASE signal[e]
      <4>1. UNCHANGED <<kernelApcPending, current, apcRequested, state, waitIrql,
                        kernelApcDisable>>
        BY <3>1, <3>2 DEF KeWaitForSingleObject
      <4> QED BY <1>0, <1>1, <1>3, <4>1, DeliveryUntouched DEF DeliveryAre
    <3>3. CASE ~signal[e]
      <4>1. /\ UNCHANGED <<kernelApcPending, apcRequested, kernelApcDisable>>
            /\ current' = NoThread /\ state'[t] = "Waiting" /\ waitIrql'[t] = irql[t]
        BY <1>0, <3>1, <3>3 DEF KeWaitForSingleObject, TypeOK
      <4>2. /\ Due(t)' <=> Due(t)
            /\ InLoop(t)' <=> InLoop(t)
        BY <1>1, <1>3, <4>1 DEF Due, MayRun, InLoop
      <4> QED BY <1>0, <1>2, <1>3, <4>1, <4>2 DEF DeliveryIs, DeliveryAre
    <3> QED BY <3>2, <3>3
  <2>4. CASE Terminated(t)
    <3>1. /\ UNCHANGED <<kernelApcPending, apcRequested, kernelApcDisable, stack>>
          /\ current' = NoThread /\ state'[t] = "Terminated" /\ exiting[t] = "left"
      BY <1>0, <2>4 DEF Terminated, TypeOK
    <3>2. ~Due(t)
      BY <1>0, <1>2, <3>1 DEF ThreadIs
    <3>3. kernelApcInProgress[t] \/ kernelApcDisable[t] # 0 \/ apcList[t] = <<>>
      <4> SUFFICES ASSUME ~kernelApcInProgress[t], kernelApcDisable[t] = 0,
                          apcList[t] # <<>>
                   PROVE  FALSE
        OBVIOUS
      <4>1. apcList[t] \in Seq(Apcs)
        BY <1>0 DEF TypeOK
      <4>2. PICK a \in ToSet(apcList[t]) : TRUE
        BY <4>1, ApcListNames, NoMembers
      <4>3. MayRun(a, kernelApcDisable[t], kernelApcInProgress[t])
        BY DEF MayRun
      <4> QED BY <3>2, <4>3 DEF Due
    <3>4. ~Due(t)' /\ Top(t)'.kind # "kernel"
      BY <1>1, <1>2, <1>3, <3>1, <3>2 DEF Due, MayRun
    <3> QED BY <1>1, <3>1, <3>3, <3>4 DEF DeliveryIs
  <2> QED BY <2>1, <2>2, <2>3, <2>4 DEF Code
<1> QED BY <1>4, <1>5 DEF DeliveryAre

\* An APC that comes is announced, and ends the wait it may end; one that goes
\* takes the announcement with it only if it was the last.
LEMMA QueueingDelivers ==
    ASSUME ApcInv, NEW a \in Apcs, KeInsertQueueApc(a) \/ KeRemoveQueueApc(a),
           ListsAre'
    PROVE  DeliveryAre'
<1>1. PICK t \in Threads : t = ApcThread[a]
  BY ApcAssumption
<1>0. /\ TypeOK /\ DeliveryAre /\ ThreadIs(t) /\ ListsAre
      /\ DeliveryIs(t) /\ apcList[t] \in Seq(Apcs) /\ apcList'[t] \in Seq(Apcs)
  BY DeliveryParts, ThreadParts, ListsNow
     DEF ApcInv, ThreadsAre, DeliveryAre, TypeOK, ListsTyped, ListsAre
<1>2. /\ ToSet(apcList[t]) = Members(apcList[t])
      /\ ToSet(apcList[t])' = Members(apcList'[t])
  BY <1>0, ApcListNames
<1>3. /\ UNCHANGED <<current, irql, waitIrql, stack, kernelApcInProgress,
                     kernelApcDisable>>
      /\ apcRequested => apcRequested'
      /\ \A u \in Threads : Top(u)' = Top(u)
  <2>1. CASE KeInsertQueueApc(a)
    BY <2>1 DEF KeInsertQueueApc, Top
  <2>2. CASE KeRemoveQueueApc(a)
    BY <2>2 DEF KeRemoveQueueApc, Top
  <2> QED BY <2>1, <2>2
<1>4. InLoop(t)' <=> InLoop(t)
  BY <1>3 DEF InLoop
<1>5. CASE KeInsertQueueApc(a)
  <2>1. /\ \A b \in Apcs : b \in Members(apcList'[t]) <=> b \in Members(apcList[t]) \/ b = a
        /\ \A u \in Threads : u # t => apcList'[u] = apcList[u]
    BY <1>0, <1>1, <1>5, InsertLists
  <2>2. /\ kernelApcPending'[t] = TRUE
        /\ \A u \in Threads : u # t => kernelApcPending'[u] = kernelApcPending[u]
        /\ apcRequested' = (apcRequested \/ state[t] = "Running")
        /\ apcQueueable[t]
    BY <1>0, <1>1, <1>5 DEF KeInsertQueueApc, Accepts, TypeOK
  <2>3. /\ \A u \in Threads : u # t => state'[u] = state[u]
        /\ EndsWait(t, a) => state'[t] = "Ready"
        /\ ~EndsWait(t, a) => state'[t] = state[t]
    BY <1>0, <1>1, <1>5 DEF KeInsertQueueApc, UnwaitForApc, TypeOK
  <2>4. ASSUME NEW u \in Threads, u # t PROVE DeliveryIs(u)'
    BY <1>0, <1>3, <2>1, <2>2, <2>3, <2>4, DeliveryUntouched DEF DeliveryAre
  <2>5. current = t => apcRequested'
    BY <1>0, <2>2 DEF ThreadIs
  <2>6. ASSUME Due(t)', state'[t] = "Waiting", waitIrql'[t] = 0 PROVE FALSE
    <3>1. state[t] = "Waiting" /\ waitIrql[t] = 0 /\ ~EndsWait(t, a)
      BY <1>3, <2>3, <2>6
    <3>2. ~MayRun(a, kernelApcDisable[t], kernelApcInProgress[t])
      BY <3>1 DEF EndsWait
    <3>3. PICK b \in Members(apcList'[t]) :
              MayRun(b, kernelApcDisable[t], kernelApcInProgress[t])
      BY <1>2, <1>3, <2>6 DEF Due
    <3>4. b \in Apcs /\ b # a
      BY <1>0, <3>2, <3>3, NoMembers
    <3>5. Due(t)
      BY <1>2, <2>1, <3>3, <3>4 DEF Due
    <3> QED BY <1>0, <3>1, <3>5 DEF DeliveryIs
  <2>7. state'[t] # "Terminated"
    BY <1>0, <2>2, <2>3 DEF ThreadIs
  <2>8. DeliveryIs(t)'
    BY <1>3, <2>2, <2>5, <2>6, <2>7 DEF DeliveryIs
  <2> QED BY <2>4, <2>8 DEF DeliveryAre
<1>6. CASE KeRemoveQueueApc(a)
  <2>1. /\ \A b \in Apcs : b \in Members(apcList'[t]) <=> b \in Members(apcList[t]) /\ b # a
        /\ \A u \in Threads : u # t => apcList'[u] = apcList[u]
    BY <1>0, <1>1, <1>6, RemoveLists
  <2>2. /\ kernelApcPending'[t] = (kernelApcPending[t] /\ apcList'[t] # <<>>)
        /\ \A u \in Threads : u # t => kernelApcPending'[u] = kernelApcPending[u]
        /\ UNCHANGED <<apcRequested, state>>
    BY <1>0, <1>1, <1>6 DEF KeRemoveQueueApc, TypeOK
  <2>3. ASSUME NEW u \in Threads, u # t PROVE DeliveryIs(u)'
    BY <1>0, <1>3, <2>1, <2>2, <2>3, DeliveryUntouched DEF DeliveryAre
  <2>4. /\ \A b \in ToSet(apcList[t])' : b \in ToSet(apcList[t]) /\ apcList'[t] # <<>>
        /\ apcList[t] = <<>> => apcList'[t] = <<>>
    <3>1. Members(apcList'[t]) \subseteq Apcs
          /\ (apcList'[t] = <<>> <=> Members(apcList'[t]) = {})
          /\ (apcList[t] = <<>> <=> Members(apcList[t]) = {})
      BY <1>0, NoMembers
    <3> QED BY <1>2, <2>1, <3>1
  <2>5. /\ Due(t)' => Due(t) /\ apcList'[t] # <<>>
        /\ SomeSpecial(t)' => SomeSpecial(t) /\ apcList'[t] # <<>>
    BY <1>3, <2>4 DEF Due, MayRun, SomeSpecial
  <2>6. DeliveryIs(t)'
    BY <1>0, <1>3, <1>4, <2>2, <2>4, <2>5 DEF DeliveryIs
  <2> QED BY <2>3, <2>6 DEF DeliveryAre
<1> QED BY <1>5, <1>6

\* Every step keeps the delivery right.
LEMMA NextDelivery ==
    ASSUME ApcInv, [Next]_vars
    PROVE  DeliveryAre'
<1>0. TypeOK /\ DeliveryAre /\ EventsAre /\ StackShape
  BY DeliveryParts, WaitersNow DEF ApcInv, TypeOK, WaitersTyped, ThreadsRight
<1>1. ASSUME UNCHANGED <<current, apcRequested, threadVars, apcVars, regionVars>>
      PROVE  DeliveryAre'
  <2>1. \A t \in Threads : Top(t)' = Top(t)
    BY <1>1 DEF Top
  <2> QED BY <1>0, <1>1, <2>1, DeliveryUntouched DEF DeliveryAre
<1>2. ASSUME NEW e \in Events, KeSetEvent(e) PROVE DeliveryAre'
  <2>1. CASE waiters[e] = <<>>
    BY <1>1, <1>2, <2>1 DEF KeSetEvent
  <2>2. CASE waiters[e] # <<>>
    <3>1. PICK t \in Threads : t = Head(waiters[e])
      BY <1>0, <2>2, FirstWaits
    <3>2. /\ state' = [state EXCEPT ![t] = "Ready"]
          /\ stack' = [stack EXCEPT ![t][Len(stack[t])].wait = NoEvent]
          /\ UNCHANGED <<current, apcRequested, irql, waitIrql, apcVars, regionVars>>
      BY <1>2, <2>2, <3>1 DEF KeSetEvent
    <3>3. \A u \in Threads : Top(u)'.kind = Top(u).kind
      BY <1>0, <3>2, WaitNoted
    <3>4. \A u \in Threads : state'[u] \in {state[u], "Ready"}
      BY <1>0, <3>2 DEF TypeOK
    <3>5. ASSUME NEW u \in Threads PROVE DeliveryIs(u)'
      BY <1>0, <3>2, <3>3, <3>4, DeliveryUntouched DEF DeliveryAre
    <3> QED BY <3>5 DEF DeliveryAre
  <2> QED BY <2>1, <2>2
<1>3. CASE Others
  <2>1. CASE \E t \in SuspendTargets : KeSuspendThread(t) \/ KeResumeThread(t)
    BY <1>1, <2>1 DEF KeSuspendThread, KeResumeThread
  <2>2. CASE \E a \in Apcs : KeInsertQueueApc(a) \/ KeRemoveQueueApc(a)
    BY <2>2, QueueingDelivers, NextLists
  <2> QED BY <1>2, <1>3, <2>1, <2>2 DEF Others
<1>4. CASE UNCHANGED vars
  BY <1>1, <1>4 DEF vars
<1> QED BY <1>3, <1>4, StepKinds, NextLists, RunsApcsDelivers, SwitchDelivers, CodeDelivers

-----------------------------------------------------------------------------
(* The theorems.                                                            *)

\* No APC is queued and no thread has begun to wait: the invariant holds.
LEMMA InitApc == Init => ApcInv
<1> SUFFICES ASSUME Init PROVE ApcInv
  OBVIOUS
<1>1. /\ NoThread \notin Threads /\ NoEvent \notin Events
      /\ MaxDisable \in Nat \ {0} /\ MaximumSuspendCount \in Nat
  BY ApcAssumption
<1>2. ASSUME NEW t \in Threads
      PROVE  /\ stack[t] \in Seq(Frames) /\ Len(stack[t]) = 1
             /\ stack[t][1].kind = "thread" /\ stack[t] # <<>> /\ Top(t).kind = "thread"
  <2>1. stack[t] = <<Frame("thread")>> /\ Frame("thread") \in Frames
        /\ Frame("thread").kind = "thread"
    BY DEF Init, Frame, Frames
  <2> QED BY <2>1 DEF Top, Last
<1>3. \A t \in Threads : apcList[t] = <<>> /\ ToSet(apcList[t]) = {}
  BY DEF Init, ToSet
<1>4. \A e \in Events : waiters[e] = <<>> /\ ToSet(waiters[e]) = {}
  BY DEF Init, ToSet
<1>5. TypeOK
  <2>1. stack \in [Threads -> Seq(Frames)]
    BY <1>2 DEF Init
  <2>2. apcList \in [Threads -> Seq(Apcs)] /\ waiters \in [Events -> Seq(Threads)]
    BY DEF Init
  <2>3. /\ kernelApcDisable \in [Threads -> 0..(MaxDisable + 1)]
        /\ suspendCount \in [Threads -> 0..MaximumSuspendCount]
        /\ suspendSignal \in [Threads -> Nat]
    BY <1>1 DEF Init
  <2>4. /\ current \in Threads \union {NoThread} /\ apcRequested \in BOOLEAN
        /\ state \in [Threads -> {"Ready", "Running", "Waiting", "Terminated"}]
        /\ exiting \in [Threads -> {"no", "marked", "closed", "left"}]
    BY DEF Init
  <2>6. irql \in [Threads -> 0..1] /\ waitIrql \in [Threads -> 0..1]
    <3>1. 0 \in 0..1 /\ 1 \in 0..1
      OBVIOUS
    <3> QED BY <3>1 DEF Init
  <2>5. /\ kernelApcPending \in [Threads -> BOOLEAN]
        /\ kernelApcInProgress \in [Threads -> BOOLEAN]
        /\ apcQueueable \in [Threads -> BOOLEAN] /\ inserted \in [Apcs -> BOOLEAN]
        /\ signal \in [Events -> BOOLEAN] /\ suspendInserted \in [Threads -> BOOLEAN]
    BY DEF Init
  <2> QED BY <1>2, <2>1, <2>2, <2>3, <2>4, <2>5, <2>6 DEF TypeOK
<1>6. ThreadsAre
  <2> SUFFICES ASSUME NEW t \in Threads PROVE ThreadIs(t)
    BY DEF ThreadsAre
  <2>1. Resting(stack[t], kernelApcInProgress[t]) /\ ~InLoop(t)
    BY <1>2 DEF Init, Resting, InLoop
  <2>2. /\ state[t] = "Ready" /\ current # t /\ irql[t] = 0 /\ waitIrql[t] = 1
        /\ exiting[t] = "no" /\ apcQueueable[t] = TRUE /\ kernelApcDisable[t] = 0
    BY <1>1 DEF Init
  <2>3. 0 <= MaxDisable
    BY <1>1
  <2> QED BY <2>1, <2>2, <2>3 DEF ThreadIs
<1>7. ListsRight
  BY <1>3 DEF Init, ListsRight, InsertedAgrees, SpecialsFirst, SpecialsLead, IsInjective
<1>8. WaitersAgree
  BY <1>4 DEF Init, WaitersAgree, IsInjective
<1>9. DeliveryAre
  BY <1>2, <1>3 DEF Init, DeliveryAre, DeliveryIs, Due
<1>10. SuspendRight
  BY DEF Init, SuspendRight, SemaphoreAgrees, SuspendedIsMarked
<1> QED BY <1>5, <1>6, <1>7, <1>8, <1>9, <1>10, ThreadParts, DeliveryParts DEF ApcInv

\* Every step keeps the invariant.
LEMMA NextApc == ApcInv /\ [Next]_vars => ApcInv'
<1> SUFFICES ASSUME ApcInv, [Next]_vars PROVE ApcInv'
  OBVIOUS
<1>1. ThreadsTyped' /\ ThreadsRight' /\ EventsAre'
  BY NextThreads
<1>2. ListsAre' /\ DeliveryAre'
  BY NextLists, NextDelivery
<1>3. SuspendTyped' /\ SuspendRight'
  BY NextSuspend
<1>4. TypeOK'
  BY <1>1, <1>2, <1>3 DEF TypeOK, ThreadsTyped, EventsAre, WaitersTyped, ListsAre,
     ListsTyped, SuspendTyped
<1>5. ListsRight'
  BY <1>2, ListsNext DEF ListsAre
<1>6. WaitersAgree'
  BY <1>1, WaitersNext DEF EventsAre
<1>7. DeliveryRight'
  BY <1>2, DeliveryPartsNext
<1> QED BY <1>1, <1>3, <1>4, <1>5, <1>6, <1>7 DEF ApcInv

\* The inductive invariant holds whatever interrupts, ends or suspends a thread.
THEOREM ApcInvariant == Spec => []ApcInv
BY InitApc, NextApc, PTL DEF Spec

\* Inserted says which APCs are linked, the wait lists hold exactly those that
\* wait, and the suspend semaphore counts what suspend and resume left of it.
THEOREM ApcQueues == Spec => []QueuesAgree
<1>1. ApcInv => QueuesAgree
  BY DEF ApcInv, QueuesAgree, ListsRight, SuspendRight
<1> QED BY <1>1, ApcInvariant, PTL

\* No APC that could run stays behind: in a list its thread does not look at, in
\* a processor that was not asked to deliver it, or behind a wait.
THEOREM NoApcIsStranded == Spec => []NoApcStranded
<1>1. ApcInv => NoApcStranded
  BY DEF ApcInv, DeliveryRight
<1> QED BY <1>1, ApcInvariant, PTL

\* PsTerminateSystemThread leaves no APC behind that it could have delivered.
THEOREM NoApcOutlives == Spec => []NoApcOutlivesThread
<1>1. ApcInv => NoApcOutlivesThread
  BY DEF ApcInv, DeliveryRight
<1> QED BY <1>1, ApcInvariant, PTL

\* However APCs interrupt each other, one NormalRoutine at a time is on a stack,
\* and KernelApcInProgress knows of it.
THEOREM NormalApcsDoNotNest == Spec => []OneNormalAtATime
<1>1. ASSUME ApcInv, NEW t \in Threads
      PROVE  Cardinality({i \in DOMAIN stack[t] : stack[t][i].kind = "normal"})
                 = IF kernelApcInProgress[t] THEN 1 ELSE 0
  <2> DEFINE s == stack[t]
             N == {i \in DOMAIN s : s[i].kind = "normal"}
  <2>1. Resting(s, kernelApcInProgress[t]) \/ Looping(s, kernelApcInProgress[t])
    BY <1>1 DEF ApcInv, ThreadsRight, StackShape
  <2>2. DOMAIN s = 1..Len(s) /\ Len(s) \in 1..3 /\ s[1].kind = "thread"
    BY <2>1 DEF Resting, Looping
  <2>3. CASE kernelApcInProgress[t]
    <3>1. Len(s) \in 2..3 /\ s[2].kind = "normal" /\ (Len(s) = 3 => s[3].kind = "special")
      BY <2>1, <2>3 DEF Resting, Looping
    <3>2. N = {2}
      BY <2>2, <3>1
    <3> QED BY <2>3, <3>2, FS_Singleton
  <2>4. CASE ~kernelApcInProgress[t]
    <3>1. Len(s) \in 1..2 /\ (Len(s) = 2 => s[2].kind # "normal")
      BY <2>1, <2>4 DEF Resting, Looping
    <3>2. N = {}
      BY <2>2, <3>1
    <3> QED BY <2>4, <3>2, FS_EmptySet
  <2> QED BY <2>3, <2>4
<1>2. ApcInv => OneNormalAtATime
  BY <1>1 DEF OneNormalAtATime
<1> QED BY <1>2, ApcInvariant, PTL


\* A wait is ended by who hands over the event, or by an APC that the thread can
\* run at once: a critical region keeps the normal ones off.
THEOREM WaitsEndForAReason == Spec => WaitEndsForAReason
<1> DEFINE Reason ==
        \A t \in Threads : state[t] = "Waiting" /\ state'[t] # "Waiting"
            => Top(t)'.wait = NoEvent \/ Due(t)'
<1>1. ASSUME ApcInv, [Next]_vars PROVE [Reason]_vars
  <2>0. TypeOK /\ StackShape /\ ThreadsAre /\ EventsAre /\ ListsAre /\ ListsAre'
    BY <1>1, ThreadParts, WaitersNow, ListsNow, NextLists
       DEF ApcInv, TypeOK, ThreadsRight, WaitersTyped, ListsTyped
  <2>1. ASSUME NEW t \in Threads, RunsApcs(t) \/ SwitchesQuietly(t) \/ Code(t) \/ Preempt(t)
        PROVE  Reason
    <3>1. state[t] \in {"Ready", "Running"}
      BY <2>0, <2>1 DEF RunsApcs, SwitchesQuietly, Code, Preempt, KeEnterCriticalRegion,
         KeLeaveCriticalRegion, RaiseToApcLevel, LowerToPassiveLevel,
         KeWaitForSingleObject, HasTerminated, StopQueueing, LeaveForGood, Terminated,
         RunsCode, Undisturbed, ThreadsAre, ThreadIs
    <3>2. \A u \in Threads : u # t => state'[u] = state[u]
      BY <2>0, <2>1 DEF RunsApcs, SwitchesQuietly, Code, Preempt, KeEnterCriticalRegion,
         KeLeaveCriticalRegion, RaiseToApcLevel, LowerToPassiveLevel,
         KeWaitForSingleObject, HasTerminated, StopQueueing, LeaveForGood, Terminated,
         TypeOK
    <3> QED BY <3>1, <3>2
  <2>2. ASSUME NEW e \in Events, KeSetEvent(e) PROVE Reason
    <3>1. CASE waiters[e] = <<>>
      BY <2>2, <3>1 DEF KeSetEvent
    <3>2. CASE waiters[e] # <<>>
      <4>1. PICK t \in Threads : t = Head(waiters[e])
        BY <2>0, <3>2, FirstWaits
      <4>2. /\ state' = [state EXCEPT ![t] = "Ready"]
            /\ stack' = [stack EXCEPT ![t][Len(stack[t])].wait = NoEvent]
            /\ UNCHANGED kernelApcInProgress
        BY <2>2, <3>2, <4>1 DEF KeSetEvent
      <4>3. Top(t)'.wait = NoEvent
        BY <2>0, <4>2, WaitNoted
      <4>4. \A u \in Threads : u # t => state'[u] = state[u]
        BY <2>0, <4>2 DEF TypeOK
      <4> QED BY <4>3, <4>4
    <3> QED BY <3>1, <3>2
  <2>3. ASSUME NEW a \in Apcs, KeInsertQueueApc(a) PROVE Reason
    <3>1. PICK t \in Threads : t = ApcThread[a]
      BY ApcAssumption
    <3>2. \A u \in Threads : u # t => state'[u] = state[u]
      BY <2>0, <2>3, <3>1 DEF KeInsertQueueApc, UnwaitForApc, TypeOK
    <3>3. CASE EndsWait(t, a)
      <4>1. a \in Members(apcList'[t]) /\ apcList'[t] \in Seq(Apcs)
        BY <2>0, <2>3, <3>1, InsertLists DEF ListsAre, ListsTyped
      <4>2. a \in ToSet(apcList[t])'
        BY <4>1, ApcListNames
      <4>3. MayRun(a, kernelApcDisable'[t], kernelApcInProgress'[t])
        BY <2>3, <3>3 DEF EndsWait, KeInsertQueueApc
      <4>4. Due(t)'
        BY <4>2, <4>3 DEF Due
      <4> QED BY <3>2, <4>4
    <3>4. CASE ~EndsWait(t, a)
      BY <2>3, <3>1, <3>4 DEF KeInsertQueueApc
    <3> QED BY <3>3, <3>4
  <2>4. CASE Others
    BY <2>2, <2>3, <2>4 DEF Others, KeRemoveQueueApc, KeSuspendThread, KeResumeThread
  <2>5. CASE UNCHANGED vars
    BY <2>5
  <2> QED BY <1>1, <2>1, <2>4, <2>5, StepKinds
<1>2. ApcInv /\ [Next]_vars => [Reason]_vars
  BY <1>1
<1> QED BY <1>2, ApcInvariant, PTL DEF Spec, WaitEndsForAReason
=============================================================================
