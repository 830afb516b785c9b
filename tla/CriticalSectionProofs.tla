------------------------ MODULE CriticalSectionProofs ------------------------
(***************************************************************************)
(* Proofs about CriticalSection: the atomic LockCount alone carries the    *)
(* exclusion, and nobody sleeps for a section that is free.                *)
(*                                                                         *)
(* LockCount counts the claims on the section; the right to enter is a     *)
(* token which is, at any time, with the thread that has the section, in   *)
(* flight in a thread on its way to signal the event, or in the event, and *)
(* which exists exactly if there is a claim.  OwningThread is right or     *)
(* null, and RecursionCount right for the thread that has the section.     *)
(***************************************************************************)
EXTENDS CriticalSection, ListLemmas

-----------------------------------------------------------------------------
(* The inductive invariant.                                                 *)

\* The places at which a thread has counted itself in without having entered.
Claiming == {"first", "setcount", "check", "again", "wait", "blocked", "woken"}

Claim(t) == IF pc[t] \in Claiming THEN depth[t] + 1 ELSE depth[t]

Claims == Tally([t \in Threads |-> Claim(t)])

ClaimsCounted == /\ IsFiniteSet(Claims)
                 /\ lockCount + 1 = Cardinality(Claims)

Waiting == Members(waiters[Event])

QueueRight ==
    /\ \A t \in Waiting : pc[t] = "blocked"
    /\ Distinct(waiters[Event])

\* A thread on its way to signal the event.
InFlight(t) ==
    pc[t] \in {"test", "clear", "signal"} /\ count[t] >= 0 /\ depth[t] = 0

Holder(t) == \/ depth[t] > 0
             \/ pc[t] \in {"first", "setcount", "woken"}
             \/ pc[t] = "blocked" /\ t \notin Waiting

OneToken ==
    /\ \A t, u \in Threads : Holder(t) /\ Holder(u) => t = u
    /\ \A t, u \in Threads : InFlight(t) /\ InFlight(u) => t = u
    /\ \A t, u \in Threads : ~(Holder(t) /\ InFlight(u))
    /\ signal[Event] = 1 => \A t \in Threads : ~Holder(t) /\ ~InFlight(t)

TokenIffClaimed ==
    lockCount >= 0 <=> \/ \E t \in Threads : Holder(t) \/ InFlight(t)
                       \/ signal[Event] = 1

RecursionRight ==
    /\ \A t \in Threads : depth[t] > 0 =>
           recursionCount = IF pc[t] \in {"decrement", "lastdec", "moredec"}
                            THEN depth[t] - 1 ELSE depth[t]
    /\ (\A t \in Threads : depth[t] = 0) => recursionCount = 0

OwnerRight ==
    /\ \A t \in Threads : depth[t] > 0 \/ pc[t] = "setcount" =>
           owningThread \in {t, NoThread}
    /\ \A t \in Threads : owningThread = t =>
           depth[t] > 0 \/ pc[t] \in {"setcount", "test", "clear"}

DepthRight ==
    \A t \in Threads :
        /\ pc[t] \in {"again", "tryagain", "decrement"} => depth[t] > 0
        /\ pc[t] = "lastdec" => depth[t] = 1
        /\ pc[t] = "moredec" => depth[t] > 1
        /\ pc[t] \in {"first", "setcount", "woken", "clear", "signal"}
               => depth[t] = 0
        /\ pc[t] = "blocked" /\ t \notin Waiting => depth[t] = 0
        /\ pc[t] = "signal" => count[t] >= 0

SectionInv ==
    /\ TypeOK
    /\ ClaimsCounted
    /\ QueueRight
    /\ OneToken
    /\ TokenIffClaimed
    /\ RecursionRight
    /\ OwnerRight
    /\ DepthRight

-----------------------------------------------------------------------------
(* The event's queue.                                                       *)

\* Waiting for the event is being in its queue.
LEMMA WaitsInQueue ==
    ASSUME NEW t
    PROVE  SectionEvent!Waits(t) <=> t \in Waiting
    BY DEF SectionEvent!Waits, SectionEvent!Objects, Waiting, Members

\* A thread that blocks is added to those waiting.
LEMMA BlockAdds ==
    ASSUME TypeOK, QueueRight, NEW t \in Threads, SectionEvent!Block(Event, t)
    PROVE  /\ t \notin Waiting /\ Waiting' = Waiting \union {t}
           /\ Distinct(waiters'[Event])
           /\ signal[Event] = 0 /\ UNCHANGED signal
           /\ waiters' \in [{Event} -> Seq(Threads)]
    <1>1. waiters[Event] \in Seq(Threads) /\ t \notin Waiting
        BY WaitsInQueue DEF TypeOK, SectionEvent!Block
    <1>2. waiters'[Event] = Append(waiters[Event], t)
        BY DEF TypeOK, SectionEvent!Block
    <1>3. Waiting' = Waiting \union {t} /\ Distinct(waiters'[Event])
        BY <1>1, <1>2, AppendMember DEF Waiting, QueueRight
    <1> QED BY <1>1, <1>2, <1>3 DEF SectionEvent!Block, TypeOK

\* Signalling the event hands it to one of the threads waiting, or leaves it
\* signalled if there are none.
LEMMA SetHandsOver ==
    ASSUME TypeOK, QueueRight, SectionEvent!SetSynchronization(Event)
    PROVE  /\ waiters' \in [{Event} -> Seq(Threads)]
           /\ signal' \in [{Event} -> {0, 1}]
           /\ Distinct(waiters'[Event])
           /\ \/ signal'[Event] = 1 /\ Waiting = {} /\ Waiting' = {}
              \/ /\ signal'[Event] = signal[Event]
                 /\ \E u \in Waiting : Waiting' = Waiting \ {u}
    <1> DEFINE q == waiters[Event]
    <1>1. q \in Seq(Threads) /\ Distinct(q)
        BY DEF TypeOK, QueueRight
    <1>2. CASE q = <<>>
        <2>1. signal' = [signal EXCEPT ![Event] = 1] /\ waiters' = waiters
            BY <1>2 DEF SectionEvent!SetSynchronization
        <2>2. Waiting = {} /\ Waiting' = {}
            BY <1>2, <2>1, EmptyMembers DEF Waiting
        <2> QED BY <1>1, <2>1, <2>2 DEF TypeOK
    <1>3. CASE q # <<>>
        <2> DEFINE r == SubSeq(q, 1 + 1, Len(q))
        <2>1. waiters' = [waiters EXCEPT ![Event] = r] /\ signal' = signal
            BY <1>3 DEF SectionEvent!SetSynchronization, SectionEvent!Leave
        <2>2. /\ q[1] \in Members(q) /\ r \in Seq(Threads)
              /\ Members(r) = Members(q) \ {q[1]} /\ Distinct(r)
            BY <1>1, <1>3, HeadLeaves
        <2> HIDE DEF r
        <2>3. waiters'[Event] = r
            BY <2>1 DEF TypeOK
        <2> QED BY <2>1, <2>2, <2>3 DEF TypeOK, Waiting
    <1> QED BY <1>2, <1>3

-----------------------------------------------------------------------------
(* The claims.                                                              *)

\* What a thread does in one step while the machine runs on.
SectionStep(t) == (Enter(t) \/ Leave(t) \/ Proceed(t)) /\ ~SignalUnwaitsNoThread(t)

\* The claims of a thread are a number.
LEMMA ClaimIsNat ==
    ASSUME TypeOK, NEW t \in Threads
    PROVE  Claim(t) \in Nat
    BY DEF TypeOK, Claim

ClaimsMakeSense ==
    ClaimsCounted /\ lockCount \in Int /\ \A t \in Threads : Claim(t) \in Nat

FreeIffUnclaimed ==
    lockCount >= -1 /\ (lockCount = -1 <=> \A t \in Threads : Claim(t) = 0)

\* LockCount is -1 exactly if there is no claim, and never less.
LEMMA FreeIfUnclaimed == ClaimsMakeSense => FreeIffUnclaimed
    <1> SUFFICES ASSUME ClaimsMakeSense PROVE FreeIffUnclaimed
        OBVIOUS
    <1>1. [t \in Threads |-> Claim(t)] \in [Threads -> Nat]
        BY DEF ClaimsMakeSense
    <1>2. /\ Cardinality(Claims) \in Nat
          /\ Cardinality(Claims) = 0 <=> \A t \in Threads : Claim(t) = 0
        BY <1>1, TallyZero DEF ClaimsMakeSense, ClaimsCounted, Claims
    <1> QED BY <1>2 DEF ClaimsMakeSense, ClaimsCounted, FreeIffUnclaimed

\* The same of the state a step leads to.
LEMMA FreeIfUnclaimedNext == ClaimsMakeSense' => FreeIffUnclaimed'
    BY FreeIfUnclaimed, PTL

\* A step that neither claims nor gives up.
LEMMA ClaimsStay ==
    ASSUME ClaimsCounted, \A u \in Threads : Claim(u)' = Claim(u), lockCount' = lockCount
    PROVE  ClaimsCounted'
    <1>1. Claims' = Claims
        BY DEF Claims
    <1> QED BY <1>1 DEF ClaimsCounted

\* A step that claims.
LEMMA ClaimAdded ==
    ASSUME ClaimsCounted, \A u \in Threads : Claim(u) \in Nat, NEW t \in Threads,
           Claim(t)' = Claim(t) + 1,
           \A u \in Threads \ {t} : Claim(u)' = Claim(u),
           lockCount \in Int, lockCount' = lockCount + 1
    PROVE  ClaimsCounted'
    <1>1. /\ [u \in Threads |-> Claim(u)] \in [Threads -> Nat]
          /\ [u \in Threads |-> Claim(u)'] \in [Threads -> Nat]
        OBVIOUS
    <1>2. /\ IsFiniteSet(Claims') /\ Cardinality(Claims') = Cardinality(Claims) + 1
          /\ Cardinality(Claims) \in Nat
        BY <1>1, TallyUp, FS_CardinalityType DEF ClaimsCounted, Claims
    <1> QED BY <1>2 DEF ClaimsCounted

\* A step that gives a claim up.
LEMMA ClaimDropped ==
    ASSUME ClaimsCounted, \A u \in Threads : Claim(u) \in Nat, NEW t \in Threads,
           Claim(t) > 0, Claim(t)' = Claim(t) - 1,
           \A u \in Threads \ {t} : Claim(u)' = Claim(u),
           lockCount \in Int, lockCount' = lockCount - 1
    PROVE  ClaimsCounted'
    <1>1. /\ [u \in Threads |-> Claim(u)] \in [Threads -> Nat]
          /\ [u \in Threads |-> Claim(u)'] \in [Threads -> Nat]
        OBVIOUS
    <1>2. /\ IsFiniteSet(Claims') /\ Cardinality(Claims') = Cardinality(Claims) - 1
          /\ Cardinality(Claims) \in Nat
        BY <1>1, TallyDown, FS_CardinalityType DEF ClaimsCounted, Claims
    <1> QED BY <1>2 DEF ClaimsCounted

\* LockCount counts the claims.
LEMMA ClaimsNext ==
    ASSUME SectionInv, NEW t \in Threads, SectionStep(t)
    PROVE  ClaimsCounted'
    <1> USE DEF SectionInv
    <1>1. CASE RtlEnterCriticalSection(t)
        BY <1>1, ClaimAdded, ClaimIsNat DEF RtlEnterCriticalSection, Goto,
            Claim, Claiming, TypeOK, DepthRight, eventVars, sectionVars
    <1>2. CASE RtlTryEnterCriticalSection(t)
        <2>1. CASE lockCount = -1
            <3>1. /\ Claim(t)' = Claim(t) + 1 /\ lockCount' = lockCount + 1
                  /\ \A u \in Threads \ {t} : Claim(u)' = Claim(u)
                BY <1>2, <2>1 DEF RtlTryEnterCriticalSection, Goto, Claim,
                    Claiming, TypeOK
            <3>2. lockCount \in Int /\ \A u \in Threads : Claim(u) \in Nat
                BY ClaimIsNat DEF TypeOK
            <3> QED BY <3>1, <3>2, ClaimAdded
        <2>2. CASE lockCount # -1
            BY <1>2, <2>2, ClaimsStay DEF RtlTryEnterCriticalSection,
               Goto, Claim, Claiming, TypeOK
        <2> QED BY <2>1, <2>2
    <1>3. CASE TryCheckOwner(t)
        BY <1>3, ClaimsStay DEF TryCheckOwner, Goto, Claim, Claiming, TypeOK,
            DepthRight, eventVars, sectionVars
    <1>4. CASE TryCountAgain(t)
        BY <1>4, ClaimAdded, ClaimIsNat DEF TryCountAgain, Goto, Claim,
            Claiming, TypeOK, DepthRight, eventVars, sectionVars
    <1>5. CASE SetOwner(t)
        BY <1>5, ClaimsStay DEF SetOwner, Goto, Claim, Claiming, TypeOK,
            DepthRight, eventVars, sectionVars
    <1>6. CASE SetRecursionCount(t)
        BY <1>6, ClaimsStay DEF SetRecursionCount, Goto, Claim, Claiming,
            TypeOK, DepthRight, eventVars, sectionVars
    <1>7. CASE CheckOwner(t)
        BY <1>7, ClaimsStay DEF CheckOwner, Goto, Claim, Claiming, TypeOK,
            DepthRight, eventVars, sectionVars
    <1>8. CASE EnterAgain(t)
        BY <1>8, ClaimsStay DEF EnterAgain, Goto, Claim, Claiming, TypeOK,
            DepthRight, eventVars, sectionVars
    <1>9. CASE RtlpWaitForCriticalSection(t)
        BY <1>9, ClaimsStay DEF RtlpWaitForCriticalSection, Goto, Claim,
            Claiming, TypeOK, DepthRight, eventVars, sectionVars
    <1>10. CASE WaitReturns(t)
        BY <1>10, ClaimsStay DEF WaitReturns, Goto, Claim, Claiming, TypeOK,
            DepthRight, eventVars, sectionVars
    <1>11. CASE RtlLeaveCriticalSection(t)
        BY <1>11, ClaimsStay DEF RtlLeaveCriticalSection, Goto, Claim,
            Claiming, TypeOK, DepthRight, eventVars, sectionVars
    <1>12. CASE DecrementLockCount(t)
        <2>1. /\ Claim(t)' = Claim(t) - 1 /\ lockCount' = lockCount - 1
              /\ \A u \in Threads \ {t} : Claim(u)' = Claim(u)
            BY <1>12 DEF DecrementLockCount, Goto, Claim, Claiming, TypeOK
        <2>2. Claim(t) > 0 /\ lockCount \in Int
            BY <1>12 DEF DecrementLockCount, Goto, Claim, Claiming, TypeOK,
                DepthRight
        <2> QED BY <2>1, <2>2, ClaimIsNat, ClaimDropped
    <1>13. CASE TestRecursionCount(t)
        BY <1>13, ClaimsStay DEF TestRecursionCount, Goto, Claim, Claiming,
            TypeOK, DepthRight, eventVars, sectionVars
    <1>14. CASE ClearOwner(t)
        BY <1>14, ClaimsStay DEF ClearOwner, Goto, Claim, Claiming, TypeOK,
            DepthRight, eventVars, sectionVars
    <1>15. CASE SignalWaiter(t)
        BY <1>15, ClaimsStay DEF SignalWaiter, Goto, Claim, Claiming, TypeOK,
            DepthRight, eventVars, sectionVars
    <1>16. CASE RtlLeaveCriticalSectionAndRegion(t)
        BY <1>16, ClaimsStay DEF RtlLeaveCriticalSectionAndRegion, Goto,
            Claim, Claiming, TypeOK, DepthRight, eventVars, sectionVars
    <1>17. CASE DecrementLast(t)
        <2>1. /\ Claim(t)' = Claim(t) - 1 /\ lockCount' = lockCount - 1
              /\ \A u \in Threads \ {t} : Claim(u)' = Claim(u)
            BY <1>17 DEF DecrementLast, Goto, Claim, Claiming, TypeOK
        <2>2. Claim(t) > 0 /\ lockCount \in Int
            BY <1>17 DEF DecrementLast, Goto, Claim, Claiming, TypeOK,
                DepthRight
        <2> QED BY <2>1, <2>2, ClaimIsNat, ClaimDropped
    <1>18. CASE DecrementMore(t)
        <2>1. /\ Claim(t)' = Claim(t) - 1 /\ lockCount' = lockCount - 1
              /\ \A u \in Threads \ {t} : Claim(u)' = Claim(u)
            BY <1>18 DEF DecrementMore, Goto, Claim, Claiming, TypeOK
        <2>2. Claim(t) > 0 /\ lockCount \in Int
            BY <1>18 DEF DecrementMore, Goto, Claim, Claiming, TypeOK,
                DepthRight
        <2> QED BY <2>1, <2>2, ClaimIsNat, ClaimDropped
    <1> QED BY <1>1, <1>2, <1>3, <1>4, <1>5, <1>6, <1>7, <1>8, <1>9, <1>10,
        <1>11, <1>12, <1>13, <1>14, <1>15, <1>16, <1>17, <1>18 DEF
            SectionStep, Enter, Leave, Proceed

-----------------------------------------------------------------------------
(* The other parts of the invariant.                                        *)

\* The types, LockCount's lower bound apart, which is that of the claims.
LEMMA TypesNext ==
    ASSUME SectionInv, NEW t \in Threads, SectionStep(t)
    PROVE  /\ lockCount' \in Int
           /\ recursionCount' \in Nat
           /\ owningThread' \in Threads \union {NoThread}
           /\ signal' \in [{Event} -> {0, 1}]
           /\ waiters' \in [{Event} -> Seq(Threads)]
           /\ pc' \in [Threads -> PcValues]
           /\ count' \in [Threads -> Int]
           /\ depth' \in [Threads -> Nat]
    <1> USE DEF SectionInv
    <1>1. CASE RtlEnterCriticalSection(t)
        BY <1>1 DEF RtlEnterCriticalSection, Goto, TypeOK, PcValues,
            eventVars, sectionVars
    <1>2. CASE RtlTryEnterCriticalSection(t)
        BY <1>2 DEF RtlTryEnterCriticalSection, Goto, TypeOK, PcValues,
            eventVars, sectionVars
    <1>3. CASE TryCheckOwner(t)
        BY <1>3 DEF TryCheckOwner, Goto, TypeOK, PcValues, eventVars,
            sectionVars
    <1>4. CASE TryCountAgain(t)
        BY <1>4 DEF TryCountAgain, Goto, TypeOK, PcValues, eventVars,
            sectionVars
    <1>5. CASE SetOwner(t)
        BY <1>5 DEF SetOwner, Goto, TypeOK, PcValues, eventVars, sectionVars
    <1>6. CASE SetRecursionCount(t)
        BY <1>6 DEF SetRecursionCount, Goto, TypeOK, PcValues, eventVars,
            sectionVars
    <1>7. CASE CheckOwner(t)
        BY <1>7 DEF CheckOwner, Goto, TypeOK, PcValues, eventVars, sectionVars
    <1>8. CASE EnterAgain(t)
        BY <1>8 DEF EnterAgain, Goto, TypeOK, PcValues, eventVars, sectionVars
    <1>9. CASE RtlpWaitForCriticalSection(t)
        BY <1>9, BlockAdds DEF RtlpWaitForCriticalSection, Goto, TypeOK,
            PcValues, eventVars, sectionVars, SectionEvent!TakeEvent
    <1>10. CASE WaitReturns(t)
        BY <1>10 DEF WaitReturns, Goto, TypeOK, PcValues, eventVars,
            sectionVars
    <1>11. CASE RtlLeaveCriticalSection(t)
        <2>1. recursionCount = depth[t] /\ depth[t] \in Nat \ {0}
            <3>1. depth[t] > 0 /\ depth[t] \in Nat /\ pc[t] = "call"
                BY <1>11 DEF RtlLeaveCriticalSection, Goto, TypeOK
            <3> QED BY <3>1 DEF RecursionRight
        <2> QED BY <1>11, <2>1 DEF RtlLeaveCriticalSection, Goto, TypeOK,
                PcValues, eventVars, sectionVars
    <1>12. CASE DecrementLockCount(t)
        BY <1>12 DEF DecrementLockCount, Goto, TypeOK, PcValues, eventVars,
            sectionVars, DepthRight
    <1>13. CASE TestRecursionCount(t)
        BY <1>13 DEF TestRecursionCount, Goto, TypeOK, PcValues, eventVars,
            sectionVars
    <1>14. CASE ClearOwner(t)
        BY <1>14 DEF ClearOwner, Goto, TypeOK, PcValues, eventVars, sectionVars
    <1>15. CASE SignalWaiter(t)
        BY <1>15, SetHandsOver DEF SignalWaiter, Goto, TypeOK, PcValues,
            eventVars, sectionVars
    <1>16. CASE RtlLeaveCriticalSectionAndRegion(t)
        <2>1. recursionCount = depth[t] /\ depth[t] \in Nat \ {0}
            <3>1. depth[t] > 0 /\ depth[t] \in Nat /\ pc[t] = "call"
                BY <1>16 DEF RtlLeaveCriticalSectionAndRegion, Goto, TypeOK
            <3> QED BY <3>1 DEF RecursionRight
        <2> QED BY <1>16, <2>1 DEF RtlLeaveCriticalSectionAndRegion, Goto,
            TypeOK,
                PcValues, eventVars, sectionVars
    <1>17. CASE DecrementLast(t)
        BY <1>17 DEF DecrementLast, Goto, TypeOK, PcValues, eventVars,
            sectionVars, DepthRight
    <1>18. CASE DecrementMore(t)
        BY <1>18 DEF DecrementMore, Goto, TypeOK, PcValues, eventVars,
            sectionVars, DepthRight
    <1> QED BY <1>1, <1>2, <1>3, <1>4, <1>5, <1>6, <1>7, <1>8, <1>9, <1>10,
        <1>11, <1>12, <1>13, <1>14, <1>15, <1>16, <1>17, <1>18 DEF
            SectionStep, Enter, Leave, Proceed

\* Such a step is one of a machine that runs, and leaves it running.
LEMMA RunsOn ==
    ASSUME NEW t \in Threads, SectionStep(t)
    PROVE  crashed' = crashed
    <1>1. SectionStep(t) => \E from, to : Goto(t, from, to)
        BY DEF SectionStep, Enter, Leave, Proceed, RtlEnterCriticalSection,
           RtlTryEnterCriticalSection, TryCheckOwner, TryCountAgain, SetOwner,
           SetRecursionCount, CheckOwner, EnterAgain, RtlpWaitForCriticalSection,
           WaitReturns, RtlLeaveCriticalSection, DecrementLockCount,
           TestRecursionCount, ClearOwner, SignalWaiter,
           RtlLeaveCriticalSectionAndRegion, DecrementLast, DecrementMore
    <1> QED BY <1>1 DEF Goto

\* The event's queue: who is in it is blocked, and is there once.
LEMMA QueueNext ==
    ASSUME SectionInv, NEW t \in Threads, SectionStep(t)
    PROVE  QueueRight'
    <1> USE DEF SectionInv
    <1>0. Waiting \subseteq Threads
        BY NoMembers DEF Waiting, TypeOK
    <1>1. CASE RtlEnterCriticalSection(t)
        BY <1>1, <1>0 DEF RtlEnterCriticalSection, Goto, TypeOK, eventVars,
            sectionVars, QueueRight, Waiting
    <1>2. CASE RtlTryEnterCriticalSection(t)
        BY <1>2, <1>0 DEF RtlTryEnterCriticalSection, Goto, TypeOK, eventVars,
            sectionVars, QueueRight, Waiting
    <1>3. CASE TryCheckOwner(t)
        BY <1>3, <1>0 DEF TryCheckOwner, Goto, TypeOK, eventVars, sectionVars,
            QueueRight, Waiting
    <1>4. CASE TryCountAgain(t)
        BY <1>4, <1>0 DEF TryCountAgain, Goto, TypeOK, eventVars, sectionVars,
            QueueRight, Waiting
    <1>5. CASE SetOwner(t)
        BY <1>5, <1>0 DEF SetOwner, Goto, TypeOK, eventVars, sectionVars,
            QueueRight, Waiting
    <1>6. CASE SetRecursionCount(t)
        BY <1>6, <1>0 DEF SetRecursionCount, Goto, TypeOK, eventVars,
            sectionVars, QueueRight, Waiting
    <1>7. CASE CheckOwner(t)
        BY <1>7, <1>0 DEF CheckOwner, Goto, TypeOK, eventVars, sectionVars,
            QueueRight, Waiting
    <1>8. CASE EnterAgain(t)
        BY <1>8, <1>0 DEF EnterAgain, Goto, TypeOK, eventVars, sectionVars,
            QueueRight, Waiting
    <1>9. CASE RtlpWaitForCriticalSection(t)
        BY <1>9, <1>0, BlockAdds DEF RtlpWaitForCriticalSection, Goto, TypeOK,
            eventVars, sectionVars, QueueRight, Waiting, SectionEvent!TakeEvent
    <1>10. CASE WaitReturns(t)
        BY <1>10, <1>0, WaitsInQueue DEF WaitReturns, Goto, TypeOK, eventVars,
            sectionVars, QueueRight, Waiting
    <1>11. CASE RtlLeaveCriticalSection(t)
        BY <1>11, <1>0 DEF RtlLeaveCriticalSection, Goto, TypeOK, eventVars,
            sectionVars, QueueRight, Waiting
    <1>12. CASE DecrementLockCount(t)
        BY <1>12, <1>0 DEF DecrementLockCount, Goto, TypeOK, eventVars,
            sectionVars, QueueRight, Waiting
    <1>13. CASE TestRecursionCount(t)
        BY <1>13, <1>0 DEF TestRecursionCount, Goto, TypeOK, eventVars,
            sectionVars, QueueRight, Waiting
    <1>14. CASE ClearOwner(t)
        BY <1>14, <1>0 DEF ClearOwner, Goto, TypeOK, eventVars, sectionVars,
            QueueRight, Waiting
    <1>15. CASE SignalWaiter(t)
        BY <1>15, <1>0, SetHandsOver DEF SignalWaiter, Goto, TypeOK,
            eventVars, sectionVars, QueueRight, Waiting
    <1>16. CASE RtlLeaveCriticalSectionAndRegion(t)
        BY <1>16, <1>0 DEF RtlLeaveCriticalSectionAndRegion, Goto, TypeOK,
            eventVars, sectionVars, QueueRight, Waiting
    <1>17. CASE DecrementLast(t)
        BY <1>17, <1>0 DEF DecrementLast, Goto, TypeOK, eventVars,
            sectionVars, QueueRight, Waiting
    <1>18. CASE DecrementMore(t)
        BY <1>18, <1>0 DEF DecrementMore, Goto, TypeOK, eventVars,
            sectionVars, QueueRight, Waiting
    <1> QED BY <1>1, <1>2, <1>3, <1>4, <1>5, <1>6, <1>7, <1>8, <1>9, <1>10,
        <1>11, <1>12, <1>13, <1>14, <1>15, <1>16, <1>17, <1>18 DEF
            SectionStep, Enter, Leave, Proceed

\* RecursionCount.
LEMMA RecursionNext ==
    ASSUME SectionInv, NEW t \in Threads, SectionStep(t)
    PROVE  RecursionRight'
    <1> USE DEF SectionInv
    <1>0. \A u \in Threads : depth[u] > 0 => \A v \in Threads \ {u} : depth[v] = 0
        BY DEF OneToken, Holder, TypeOK
    <1>1. CASE RtlEnterCriticalSection(t)
        BY <1>1, <1>0 DEF RtlEnterCriticalSection, Goto, TypeOK, eventVars,
            sectionVars, RecursionRight, OneToken, Holder, DepthRight
    <1>2. CASE RtlTryEnterCriticalSection(t)
        BY <1>2, <1>0 DEF RtlTryEnterCriticalSection, Goto, TypeOK, eventVars,
            sectionVars, RecursionRight, OneToken, Holder, DepthRight
    <1>3. CASE TryCheckOwner(t)
        BY <1>3, <1>0 DEF TryCheckOwner, Goto, TypeOK, eventVars, sectionVars,
            RecursionRight, OneToken, Holder, DepthRight
    <1>4. CASE TryCountAgain(t)
        BY <1>4, <1>0 DEF TryCountAgain, Goto, TypeOK, eventVars, sectionVars,
            RecursionRight, OneToken, Holder, DepthRight
    <1>5. CASE SetOwner(t)
        BY <1>5, <1>0 DEF SetOwner, Goto, TypeOK, eventVars, sectionVars,
            RecursionRight, OneToken, Holder, DepthRight
    <1>6. CASE SetRecursionCount(t)
        BY <1>6, <1>0 DEF SetRecursionCount, Goto, TypeOK, eventVars,
            sectionVars, RecursionRight, OneToken, Holder, DepthRight
    <1>7. CASE CheckOwner(t)
        BY <1>7, <1>0 DEF CheckOwner, Goto, TypeOK, eventVars, sectionVars,
            RecursionRight, OneToken, Holder, DepthRight
    <1>8. CASE EnterAgain(t)
        BY <1>8, <1>0 DEF EnterAgain, Goto, TypeOK, eventVars, sectionVars,
            RecursionRight, OneToken, Holder, DepthRight
    <1>9. CASE RtlpWaitForCriticalSection(t)
        BY <1>9, <1>0 DEF RtlpWaitForCriticalSection, Goto, TypeOK, eventVars,
            sectionVars, RecursionRight, OneToken, Holder, DepthRight
    <1>10. CASE WaitReturns(t)
        BY <1>10, <1>0 DEF WaitReturns, Goto, TypeOK, eventVars, sectionVars,
            RecursionRight, OneToken, Holder, DepthRight
    <1>11. CASE RtlLeaveCriticalSection(t)
        BY <1>11, <1>0 DEF RtlLeaveCriticalSection, Goto, TypeOK, eventVars,
            sectionVars, RecursionRight, OneToken, Holder, DepthRight
    <1>12. CASE DecrementLockCount(t)
        BY <1>12, <1>0 DEF DecrementLockCount, Goto, TypeOK, eventVars,
            sectionVars, RecursionRight, OneToken, Holder, DepthRight
    <1>13. CASE TestRecursionCount(t)
        BY <1>13, <1>0 DEF TestRecursionCount, Goto, TypeOK, eventVars,
            sectionVars, RecursionRight, OneToken, Holder, DepthRight
    <1>14. CASE ClearOwner(t)
        BY <1>14, <1>0 DEF ClearOwner, Goto, TypeOK, eventVars, sectionVars,
            RecursionRight, OneToken, Holder, DepthRight
    <1>15. CASE SignalWaiter(t)
        BY <1>15, <1>0 DEF SignalWaiter, Goto, TypeOK, eventVars, sectionVars,
            RecursionRight, OneToken, Holder, DepthRight
    <1>16. CASE RtlLeaveCriticalSectionAndRegion(t)
        BY <1>16, <1>0 DEF RtlLeaveCriticalSectionAndRegion, Goto, TypeOK,
            eventVars, sectionVars, RecursionRight, OneToken, Holder,
                DepthRight
    <1>17. CASE DecrementLast(t)
        BY <1>17, <1>0 DEF DecrementLast, Goto, TypeOK, eventVars,
            sectionVars, RecursionRight, OneToken, Holder, DepthRight
    <1>18. CASE DecrementMore(t)
        BY <1>18, <1>0 DEF DecrementMore, Goto, TypeOK, eventVars,
            sectionVars, RecursionRight, OneToken, Holder, DepthRight
    <1> QED BY <1>1, <1>2, <1>3, <1>4, <1>5, <1>6, <1>7, <1>8, <1>9, <1>10,
        <1>11, <1>12, <1>13, <1>14, <1>15, <1>16, <1>17, <1>18 DEF
            SectionStep, Enter, Leave, Proceed

\* OwningThread.
LEMMA OwnerNext ==
    ASSUME SectionInv, NEW t \in Threads, SectionStep(t)
    PROVE  OwnerRight'
    <1> USE DEF SectionInv
    <1>0. NoThread \notin Threads
        BY SectionAssumption
    <1>1. CASE RtlEnterCriticalSection(t)
        BY <1>1, <1>0 DEF RtlEnterCriticalSection, Goto, TypeOK, eventVars,
            sectionVars, RecursionRight, OneToken, Holder, DepthRight,
                OwnerRight
    <1>2. CASE RtlTryEnterCriticalSection(t)
        BY <1>2, <1>0 DEF RtlTryEnterCriticalSection, Goto, TypeOK, eventVars,
            sectionVars, RecursionRight, OneToken, Holder, DepthRight,
                OwnerRight
    <1>3. CASE TryCheckOwner(t)
        BY <1>3, <1>0 DEF TryCheckOwner, Goto, TypeOK, eventVars, sectionVars,
            RecursionRight, OneToken, Holder, DepthRight, OwnerRight
    <1>4. CASE TryCountAgain(t)
        BY <1>4, <1>0 DEF TryCountAgain, Goto, TypeOK, eventVars, sectionVars,
            RecursionRight, OneToken, Holder, DepthRight, OwnerRight
    <1>5. CASE SetOwner(t)
        BY <1>5, <1>0 DEF SetOwner, Goto, TypeOK, eventVars, sectionVars,
            RecursionRight, OneToken, Holder, DepthRight, OwnerRight
    <1>6. CASE SetRecursionCount(t)
        BY <1>6, <1>0 DEF SetRecursionCount, Goto, TypeOK, eventVars,
            sectionVars, RecursionRight, OneToken, Holder, DepthRight,
                OwnerRight
    <1>7. CASE CheckOwner(t)
        BY <1>7, <1>0 DEF CheckOwner, Goto, TypeOK, eventVars, sectionVars,
            RecursionRight, OneToken, Holder, DepthRight, OwnerRight
    <1>8. CASE EnterAgain(t)
        BY <1>8, <1>0 DEF EnterAgain, Goto, TypeOK, eventVars, sectionVars,
            RecursionRight, OneToken, Holder, DepthRight, OwnerRight
    <1>9. CASE RtlpWaitForCriticalSection(t)
        BY <1>9, <1>0 DEF RtlpWaitForCriticalSection, Goto, TypeOK, eventVars,
            sectionVars, RecursionRight, OneToken, Holder, DepthRight,
                OwnerRight
    <1>10. CASE WaitReturns(t)
        BY <1>10, <1>0 DEF WaitReturns, Goto, TypeOK, eventVars, sectionVars,
            RecursionRight, OneToken, Holder, DepthRight, OwnerRight
    <1>11. CASE RtlLeaveCriticalSection(t)
        BY <1>11, <1>0 DEF RtlLeaveCriticalSection, Goto, TypeOK, eventVars,
            sectionVars, RecursionRight, OneToken, Holder, DepthRight,
                OwnerRight
    <1>12. CASE DecrementLockCount(t)
        BY <1>12, <1>0 DEF DecrementLockCount, Goto, TypeOK, eventVars,
            sectionVars, RecursionRight, OneToken, Holder, DepthRight,
                OwnerRight
    <1>13. CASE TestRecursionCount(t)
        <2>1. owningThread' = owningThread /\ depth' = depth
              /\ \A u \in Threads \ {t} : pc'[u] = pc[u]
              /\ pc[t] = "test" /\ pc'[t] \in {"clear", "call"}
            BY <1>13 DEF TestRecursionCount, Goto, TypeOK, sectionVars
        <2>2. ASSUME owningThread = t, depth[t] = 0 PROVE pc'[t] = "clear"
            <3>1. \A u \in Threads : depth[u] = 0
                <4> SUFFICES ASSUME NEW u \in Threads, depth[u] > 0 PROVE FALSE
                    BY DEF TypeOK
                <4> QED BY <2>2, <1>0 DEF OwnerRight
            <3> QED BY <1>13, <3>1 DEF TestRecursionCount, Goto, TypeOK,
                    RecursionRight
        <2> QED BY <2>1, <2>2 DEF OwnerRight, TypeOK
    <1>14. CASE ClearOwner(t)
        BY <1>14, <1>0 DEF ClearOwner, Goto, TypeOK, eventVars, sectionVars,
            RecursionRight, OneToken, Holder, DepthRight, OwnerRight
    <1>15. CASE SignalWaiter(t)
        BY <1>15, <1>0 DEF SignalWaiter, Goto, TypeOK, eventVars, sectionVars,
            RecursionRight, OneToken, Holder, DepthRight, OwnerRight
    <1>16. CASE RtlLeaveCriticalSectionAndRegion(t)
        BY <1>16, <1>0 DEF RtlLeaveCriticalSectionAndRegion, Goto, TypeOK,
            eventVars, sectionVars, RecursionRight, OneToken, Holder,
                DepthRight, OwnerRight
    <1>17. CASE DecrementLast(t)
        BY <1>17, <1>0 DEF DecrementLast, Goto, TypeOK, eventVars,
            sectionVars, RecursionRight, OneToken, Holder, DepthRight,
                OwnerRight
    <1>18. CASE DecrementMore(t)
        BY <1>18, <1>0 DEF DecrementMore, Goto, TypeOK, eventVars,
            sectionVars, RecursionRight, OneToken, Holder, DepthRight,
                OwnerRight
    <1> QED BY <1>1, <1>2, <1>3, <1>4, <1>5, <1>6, <1>7, <1>8, <1>9, <1>10,
        <1>11, <1>12, <1>13, <1>14, <1>15, <1>16, <1>17, <1>18 DEF
            SectionStep, Enter, Leave, Proceed

\* Where a thread is tells how often it has entered.
LEMMA DepthNext ==
    ASSUME SectionInv, NEW t \in Threads, SectionStep(t)
    PROVE  DepthRight'
    <1> USE DEF SectionInv
    <1>0. lockCount = -1 => \A u \in Threads : depth[u] = 0
        BY FreeIfUnclaimed, ClaimIsNat DEF TypeOK, Claim, ClaimsMakeSense,
            FreeIffUnclaimed
    <1>1. CASE RtlEnterCriticalSection(t)
        BY <1>1, <1>0 DEF RtlEnterCriticalSection, Goto, TypeOK, eventVars,
            sectionVars, RecursionRight, OneToken, Holder, DepthRight,
                OwnerRight, Waiting, QueueRight
    <1>2. CASE RtlTryEnterCriticalSection(t)
        BY <1>2, <1>0 DEF RtlTryEnterCriticalSection, Goto, TypeOK, eventVars,
            sectionVars, RecursionRight, OneToken, Holder, DepthRight,
                OwnerRight, Waiting, QueueRight
    <1>3. CASE TryCheckOwner(t)
        BY <1>3, <1>0 DEF TryCheckOwner, Goto, TypeOK, eventVars, sectionVars,
            RecursionRight, OneToken, Holder, DepthRight, OwnerRight, Waiting,
                QueueRight
    <1>4. CASE TryCountAgain(t)
        BY <1>4, <1>0 DEF TryCountAgain, Goto, TypeOK, eventVars, sectionVars,
            RecursionRight, OneToken, Holder, DepthRight, OwnerRight, Waiting,
                QueueRight
    <1>5. CASE SetOwner(t)
        BY <1>5, <1>0 DEF SetOwner, Goto, TypeOK, eventVars, sectionVars,
            RecursionRight, OneToken, Holder, DepthRight, OwnerRight, Waiting,
                QueueRight
    <1>6. CASE SetRecursionCount(t)
        BY <1>6, <1>0 DEF SetRecursionCount, Goto, TypeOK, eventVars,
            sectionVars, RecursionRight, OneToken, Holder, DepthRight,
                OwnerRight, Waiting, QueueRight
    <1>7. CASE CheckOwner(t)
        BY <1>7, <1>0 DEF CheckOwner, Goto, TypeOK, eventVars, sectionVars,
            RecursionRight, OneToken, Holder, DepthRight, OwnerRight, Waiting,
                QueueRight
    <1>8. CASE EnterAgain(t)
        BY <1>8, <1>0 DEF EnterAgain, Goto, TypeOK, eventVars, sectionVars,
            RecursionRight, OneToken, Holder, DepthRight, OwnerRight, Waiting,
                QueueRight
    <1>9. CASE RtlpWaitForCriticalSection(t)
        BY <1>9, <1>0, BlockAdds DEF RtlpWaitForCriticalSection, Goto, TypeOK,
            eventVars, sectionVars, RecursionRight, OneToken, Holder,
                DepthRight, OwnerRight, Waiting, QueueRight,
                    SectionEvent!TakeEvent
    <1>10. CASE WaitReturns(t)
        BY <1>10, <1>0, WaitsInQueue DEF WaitReturns, Goto, TypeOK, eventVars,
            sectionVars, RecursionRight, OneToken, Holder, DepthRight,
                OwnerRight, Waiting, QueueRight
    <1>11. CASE RtlLeaveCriticalSection(t)
        BY <1>11, <1>0 DEF RtlLeaveCriticalSection, Goto, TypeOK, eventVars,
            sectionVars, RecursionRight, OneToken, Holder, DepthRight,
                OwnerRight, Waiting, QueueRight
    <1>12. CASE DecrementLockCount(t)
        BY <1>12, <1>0 DEF DecrementLockCount, Goto, TypeOK, eventVars,
            sectionVars, RecursionRight, OneToken, Holder, DepthRight,
                OwnerRight, Waiting, QueueRight
    <1>13. CASE TestRecursionCount(t)
        BY <1>13, <1>0 DEF TestRecursionCount, Goto, TypeOK, eventVars,
            sectionVars, RecursionRight, OneToken, Holder, DepthRight,
                OwnerRight, Waiting, QueueRight
    <1>14. CASE ClearOwner(t)
        BY <1>14, <1>0 DEF ClearOwner, Goto, TypeOK, eventVars, sectionVars,
            RecursionRight, OneToken, Holder, DepthRight, OwnerRight, Waiting,
                QueueRight
    <1>15. CASE SignalWaiter(t)
        BY <1>15, <1>0, SetHandsOver DEF SignalWaiter, Goto, TypeOK,
            eventVars, sectionVars, RecursionRight, OneToken, Holder,
                DepthRight, OwnerRight, Waiting, QueueRight, InFlight
    <1>16. CASE RtlLeaveCriticalSectionAndRegion(t)
        BY <1>16, <1>0 DEF RtlLeaveCriticalSectionAndRegion, Goto, TypeOK,
            eventVars, sectionVars, RecursionRight, OneToken, Holder,
                DepthRight, OwnerRight, Waiting, QueueRight
    <1>17. CASE DecrementLast(t)
        BY <1>17, <1>0 DEF DecrementLast, Goto, TypeOK, eventVars,
            sectionVars, RecursionRight, OneToken, Holder, DepthRight,
                OwnerRight, Waiting, QueueRight
    <1>18. CASE DecrementMore(t)
        BY <1>18, <1>0 DEF DecrementMore, Goto, TypeOK, eventVars,
            sectionVars, RecursionRight, OneToken, Holder, DepthRight,
                OwnerRight, Waiting, QueueRight
    <1> QED BY <1>1, <1>2, <1>3, <1>4, <1>5, <1>6, <1>7, <1>8, <1>9, <1>10,
        <1>11, <1>12, <1>13, <1>14, <1>15, <1>16, <1>17, <1>18 DEF
            SectionStep, Enter, Leave, Proceed

-----------------------------------------------------------------------------
(* The token.                                                               *)

\* A thread's claims, and what a thread that has or signals the section knows.
LEMMA HolderFacts ==
    ASSUME SectionInv, NEW t \in Threads, Holder(t)
    PROVE  /\ lockCount >= 0 /\ signal[Event] = 0
           /\ \A u \in Threads : ~InFlight(u)
           /\ \A u \in Threads \ {t} : ~Holder(u) /\ depth[u] = 0
    <1>1. signal[Event] \in {0, 1} /\ \A u \in Threads : depth[u] \in Nat
        BY DEF SectionInv, TypeOK
    <1>2. \A u \in Threads : depth[u] > 0 => Holder(u)
        BY DEF Holder
    <1> QED BY <1>1, <1>2 DEF SectionInv, OneToken, TokenIffClaimed

\* While no thread has claimed the section there is no token.
LEMMA FreeFacts ==
    ASSUME SectionInv, lockCount = -1
    PROVE  /\ signal[Event] = 0
           /\ \A u \in Threads : ~InFlight(u) /\ ~Holder(u) /\ depth[u] = 0
    <1>1. signal[Event] \in {0, 1} /\ \A u \in Threads : depth[u] \in Nat
        BY DEF SectionInv, TypeOK
    <1>2. \A u \in Threads : depth[u] > 0 => Holder(u)
        BY DEF Holder
    <1> QED BY <1>1, <1>2 DEF SectionInv, OneToken, TokenIffClaimed

\* What a step does to the token: it stays where it is; a first claim makes it
\* and the last claim's end destroys it; or it moves on to a thread on its way
\* to signal the event, from it to the event or a thread that waits, and from
\* the event to a thread that comes to wait.
Same(u) == (Holder(u)' <=> Holder(u)) /\ (InFlight(u)' <=> InFlight(u))

TokenStays == /\ \A u \in Threads : Same(u)
              /\ signal'[Event] = signal[Event]
              /\ lockCount' >= 0 <=> lockCount >= 0

TokenMade(t) == /\ lockCount = -1 /\ lockCount' = 0
                /\ Holder(t)' /\ ~InFlight(t)'
                /\ \A u \in Threads \ {t} : Same(u)
                /\ signal'[Event] = signal[Event]

TokenGone(t) == /\ Holder(t) /\ lockCount' = -1
                /\ ~Holder(t)' /\ ~InFlight(t)'
                /\ \A u \in Threads \ {t} : Same(u)
                /\ signal'[Event] = signal[Event]

TokenSent(t) == /\ Holder(t) /\ lockCount' >= 0
                /\ ~Holder(t)' /\ InFlight(t)'
                /\ \A u \in Threads \ {t} : Same(u)
                /\ signal'[Event] = signal[Event]

TokenStored(t) == /\ InFlight(t) /\ lockCount' = lockCount
                  /\ ~Holder(t)' /\ ~InFlight(t)'
                  /\ \A u \in Threads \ {t} : Same(u)
                  /\ signal'[Event] = 1

TokenGiven(t, w) == /\ InFlight(t) /\ lockCount' = lockCount
                    /\ w # t /\ Holder(w)' /\ ~InFlight(w)'
                    /\ ~Holder(t)' /\ ~InFlight(t)'
                    /\ \A u \in Threads \ {t, w} : Same(u)
                    /\ signal'[Event] = signal[Event]

TokenTaken(t) == /\ signal[Event] = 1 /\ lockCount' = lockCount
                 /\ Holder(t)' /\ ~InFlight(t)'
                 /\ \A u \in Threads \ {t} : Same(u)
                 /\ signal'[Event] = 0

TokenStep(t) ==
    \/ TokenStays
    \/ TokenMade(t) \/ TokenGone(t) \/ TokenSent(t)
    \/ TokenStored(t) \/ (\E w \in Threads : TokenGiven(t, w)) \/ TokenTaken(t)

\* Each of these keeps the token one, and there exactly if there is a claim.
LEMMA TokenStepKeepsOne ==
    ASSUME SectionInv, NEW t \in Threads, TokenStep(t),
           signal'[Event] \in {0, 1}, lockCount' \in Int
    PROVE  OneToken' /\ TokenIffClaimed'
    <1> USE DEF SectionInv
    <1>0. signal[Event] \in {0, 1} /\ lockCount \in Int
        BY DEF TypeOK
    <1>1. CASE TokenStays
        BY <1>0, <1>1 DEF TokenStays, Same, OneToken, TokenIffClaimed
    <1>2. CASE TokenMade(t)
        BY <1>0, <1>2, FreeFacts DEF TokenMade, Same, OneToken, TokenIffClaimed
    <1>3. CASE TokenGone(t)
        BY <1>0, <1>3, HolderFacts DEF TokenGone, Same, OneToken, TokenIffClaimed
    <1>4. CASE TokenSent(t)
        BY <1>0, <1>4, HolderFacts DEF TokenSent, Same, OneToken, TokenIffClaimed
    <1>5. CASE TokenStored(t)
        BY <1>0, <1>5 DEF TokenStored, Same, OneToken, TokenIffClaimed
    <1>6. ASSUME NEW w \in Threads, TokenGiven(t, w)
          PROVE  OneToken' /\ TokenIffClaimed'
        BY <1>0, <1>6 DEF TokenGiven, Same, OneToken, TokenIffClaimed
    <1>7. CASE TokenTaken(t)
        BY <1>0, <1>7 DEF TokenTaken, Same, OneToken, TokenIffClaimed
    <1> QED BY <1>1, <1>2, <1>3, <1>4, <1>5, <1>6, <1>7 DEF TokenStep

\* Every step does one of them.
LEMMA TokenNext ==
    ASSUME SectionInv, NEW t \in Threads, SectionStep(t)
    PROVE  TokenStep(t)
    <1> USE DEF SectionInv
    <1>0. Waiting \subseteq Threads /\ \A u \in Threads : depth[u] \in Nat
        BY NoMembers DEF Waiting, TypeOK
    <1>1. CASE RtlEnterCriticalSection(t)
        BY <1>1, <1>0 DEF RtlEnterCriticalSection, Goto, TypeOK, eventVars,
            sectionVars, DepthRight, Holder, InFlight, TokenStep, TokenStays,
                TokenMade, TokenGone, TokenSent, TokenStored, TokenGiven,
                    TokenTaken, Same, Waiting
    <1>2. CASE RtlTryEnterCriticalSection(t)
        BY <1>2, <1>0 DEF RtlTryEnterCriticalSection, Goto, TypeOK, eventVars,
            sectionVars, DepthRight, Holder, InFlight, TokenStep, TokenStays,
                TokenMade, TokenGone, TokenSent, TokenStored, TokenGiven,
                    TokenTaken, Same, Waiting
    <1>3. CASE TryCheckOwner(t)
        BY <1>3, <1>0 DEF TryCheckOwner, Goto, TypeOK, eventVars, sectionVars,
            DepthRight, Holder, InFlight, TokenStep, TokenStays, TokenMade,
                TokenGone, TokenSent, TokenStored, TokenGiven, TokenTaken,
                    Same, Waiting
    <1>4. CASE TryCountAgain(t)
        BY <1>4, <1>0 DEF TryCountAgain, Goto, TypeOK, eventVars, sectionVars,
            DepthRight, Holder, InFlight, TokenStep, TokenStays, TokenMade,
                TokenGone, TokenSent, TokenStored, TokenGiven, TokenTaken,
                    Same, Waiting
    <1>5. CASE SetOwner(t)
        BY <1>5, <1>0 DEF SetOwner, Goto, TypeOK, eventVars, sectionVars,
            DepthRight, Holder, InFlight, TokenStep, TokenStays, TokenMade,
                TokenGone, TokenSent, TokenStored, TokenGiven, TokenTaken,
                    Same, Waiting
    <1>6. CASE SetRecursionCount(t)
        BY <1>6, <1>0 DEF SetRecursionCount, Goto, TypeOK, eventVars,
            sectionVars, DepthRight, Holder, InFlight, TokenStep, TokenStays,
                TokenMade, TokenGone, TokenSent, TokenStored, TokenGiven,
                    TokenTaken, Same, Waiting
    <1>7. CASE CheckOwner(t)
        BY <1>7, <1>0 DEF CheckOwner, Goto, TypeOK, eventVars, sectionVars,
            DepthRight, Holder, InFlight, TokenStep, TokenStays, TokenMade,
                TokenGone, TokenSent, TokenStored, TokenGiven, TokenTaken,
                    Same, Waiting
    <1>8. CASE EnterAgain(t)
        BY <1>8, <1>0 DEF EnterAgain, Goto, TypeOK, eventVars, sectionVars,
            DepthRight, Holder, InFlight, TokenStep, TokenStays, TokenMade,
                TokenGone, TokenSent, TokenStored, TokenGiven, TokenTaken,
                    Same, Waiting
    <1>9. CASE RtlpWaitForCriticalSection(t)
        <2>1. /\ pc[t] = "wait" /\ pc' = [pc EXCEPT ![t] = pc'[t]]
              /\ UNCHANGED <<lockCount, count, depth>>
            BY <1>9 DEF RtlpWaitForCriticalSection, Goto, TypeOK, sectionVars
        <2>2. CASE pc'[t] = "woken" /\ SectionEvent!TakeEvent(Event)
            <3>1. signal[Event] = 1 /\ signal'[Event] = 0 /\ waiters' = waiters
                BY <2>2 DEF SectionEvent!TakeEvent, TypeOK
            <3> QED BY <2>1, <2>2, <3>1 DEF TypeOK, Holder, InFlight, Waiting,
                    TokenStep, TokenTaken, Same
        <2>3. CASE pc'[t] = "blocked" /\ SectionEvent!Block(Event, t)
            <3>1. Waiting' = Waiting \union {t} /\ signal' = signal
                BY <2>3, BlockAdds
            <3> QED BY <2>1, <2>3, <3>1 DEF TypeOK, Holder, InFlight,
                    TokenStep, TokenStays, Same
        <2> QED BY <1>9, <2>1, <2>2, <2>3 DEF RtlpWaitForCriticalSection,
            Goto, TypeOK
    <1>10. CASE WaitReturns(t)
        <2>1. /\ pc[t] = "blocked" /\ pc' = [pc EXCEPT ![t] = "woken"]
              /\ t \notin Waiting
              /\ UNCHANGED <<lockCount, count, depth, signal, waiters>>
            BY <1>10, WaitsInQueue DEF WaitReturns, Goto, sectionVars,
                eventVars
        <2>2. Waiting' = Waiting
            BY <2>1 DEF Waiting
        <2> QED BY <2>1, <2>2 DEF TypeOK, Holder, InFlight, TokenStep,
                TokenStays, Same
    <1>11. CASE RtlLeaveCriticalSection(t)
        BY <1>11, <1>0 DEF RtlLeaveCriticalSection, Goto, TypeOK, eventVars,
            sectionVars, DepthRight, Holder, InFlight, TokenStep, TokenStays,
                TokenMade, TokenGone, TokenSent, TokenStored, TokenGiven,
                    TokenTaken, Same, Waiting
    <1>12. CASE DecrementLockCount(t)
        <2>1. /\ pc[t] = "decrement" /\ pc' = [pc EXCEPT ![t] = "test"]
              /\ lockCount' = lockCount - 1
              /\ count' = [count EXCEPT ![t] = lockCount - 1]
              /\ depth' = [depth EXCEPT ![t] = @ - 1]
              /\ signal' = signal /\ Waiting' = Waiting /\ depth[t] > 0
            BY <1>12 DEF DecrementLockCount, Goto, TypeOK, eventVars,
                DepthRight, Waiting
        <2>2. depth[t] \in Nat /\ depth'[t] = depth[t] - 1 /\ pc'[t] = "test"
              /\ depth' \in [Threads -> Nat]
            BY <2>1 DEF TypeOK
        <2>3. lockCount' >= -1 /\ (depth'[t] > 0 => lockCount' >= 0)
            <3>1. \A u \in Threads : Claim(u)' \in Nat
                BY <2>1, <2>2 DEF Claim, TypeOK
            <3>2. lockCount' \in Int /\ ClaimsCounted'
                BY <2>1, ClaimsNext DEF TypeOK
            <3>3. FreeIffUnclaimed'
                BY <3>1, <3>2, FreeIfUnclaimedNext DEF ClaimsMakeSense
            <3>4. depth'[t] > 0 => Claim(t)' # 0
                BY <2>2 DEF Claim
            <3> QED BY <3>2, <3>3, <3>4 DEF FreeIffUnclaimed
        <2>4. Holder(t) /\ lockCount >= 0
            BY <2>1, HolderFacts DEF Holder
        <2>5. \A u \in Threads \ {t} : Same(u)
            BY <2>1 DEF Same, Holder, InFlight, TypeOK
        <2>6. CASE depth'[t] = 0
            <3>1. ~Holder(t)' /\ (InFlight(t)' <=> lockCount' >= 0)
                BY <2>1, <2>2, <2>6 DEF Holder, InFlight, TypeOK
            <3> QED BY <2>1, <2>3, <2>4, <2>5, <3>1 DEF TokenStep, TokenSent,
                    TokenGone, TypeOK
        <2>7. CASE depth'[t] > 0
            <3>1. Holder(t)' /\ ~InFlight(t)' /\ ~InFlight(t)
                BY <2>1, <2>2, <2>7 DEF Holder, InFlight
            <3>2. \A u \in Threads : Same(u)
                BY <2>4, <2>5, <3>1 DEF Same
            <3> QED BY <2>1, <2>3, <2>4, <3>2, <2>7 DEF TokenStep, TokenStays
        <2> QED BY <2>2, <2>6, <2>7 DEF TypeOK
    <1>13. CASE TestRecursionCount(t)
        <2>1. /\ pc[t] = "test" /\ pc' = [pc EXCEPT ![t] = pc'[t]]
              /\ pc'[t] = IF recursionCount = 0 THEN "clear" ELSE "call"
              /\ UNCHANGED <<lockCount, count, depth, signal, waiters>>
            BY <1>13 DEF TestRecursionCount, Goto, sectionVars, eventVars,
                TypeOK
        <2>2. Waiting' = Waiting
            BY <2>1 DEF Waiting
        <2>3. InFlight(t) => recursionCount = 0
            <3>1. InFlight(t) => \A u \in Threads : depth[u] = 0
                BY <1>0 DEF OneToken, Holder
            <3> QED BY <3>1 DEF RecursionRight
        <2>4. \A u \in Threads \ {t} : Same(u)
            BY <2>1, <2>2 DEF TypeOK, Holder, InFlight, Same
        <2>5. Same(t)
            BY <2>1, <2>2, <2>3 DEF TypeOK, Holder, InFlight, Same
        <2> QED BY <2>1, <2>4, <2>5 DEF TokenStep, TokenStays
    <1>14. CASE ClearOwner(t)
        BY <1>14, <1>0 DEF ClearOwner, Goto, TypeOK, eventVars, sectionVars,
            DepthRight, Holder, InFlight, TokenStep, TokenStays, TokenMade,
                TokenGone, TokenSent, TokenStored, TokenGiven, TokenTaken,
                    Same, Waiting
    <1>15. CASE SignalWaiter(t)
        <2>1. /\ pc[t] = "signal" /\ pc' = [pc EXCEPT ![t] = "call"]
              /\ SectionEvent!SetSynchronization(Event)
              /\ UNCHANGED <<lockCount, count, depth>>
            BY <1>15 DEF SignalWaiter, Goto, sectionVars
        <2>2. InFlight(t) /\ ~Holder(t)' /\ ~InFlight(t)'
            BY <2>1 DEF TypeOK, DepthRight, Holder, InFlight
        <2>3. CASE signal'[Event] = 1 /\ Waiting = {} /\ Waiting' = {}
            BY <2>1, <2>2, <2>3 DEF TypeOK, Holder, InFlight, TokenStep,
               TokenStored, Same
        <2>4. ASSUME NEW w \in Waiting, Waiting' = Waiting \ {w},
                     signal'[Event] = signal[Event]
              PROVE  TokenStep(t)
            <3>1. w \in Threads /\ w # t /\ pc[w] = "blocked"
                BY <1>0, <2>1 DEF QueueRight
            <3>2. Holder(w)' /\ ~InFlight(w)'
                BY <2>1, <2>4, <3>1 DEF TypeOK, Holder, InFlight
            <3>3. \A u \in Threads \ {t, w} : Same(u)
                BY <2>1, <2>4, <3>1 DEF TypeOK, Holder, InFlight, Same
            <3>4. TokenGiven(t, w)
                BY <2>1, <2>2, <2>4, <3>1, <3>2, <3>3 DEF TokenGiven
            <3> QED BY <3>1, <3>4 DEF TokenStep
        <2> QED BY <2>1, <2>3, <2>4, SetHandsOver
    <1>16. CASE RtlLeaveCriticalSectionAndRegion(t)
        BY <1>16, <1>0 DEF RtlLeaveCriticalSectionAndRegion, Goto, TypeOK,
            eventVars, sectionVars, DepthRight, Holder, InFlight, TokenStep,
                TokenStays, TokenMade, TokenGone, TokenSent, TokenStored,
                    TokenGiven, TokenTaken, Same, Waiting
    <1>17. CASE DecrementLast(t)
        <2>1. /\ pc[t] = "lastdec" /\ pc' = [pc EXCEPT ![t] = "clear"]
              /\ lockCount' = lockCount - 1
              /\ count' = [count EXCEPT ![t] = lockCount - 1]
              /\ depth' = [depth EXCEPT ![t] = @ - 1]
              /\ signal' = signal /\ Waiting' = Waiting /\ depth[t] > 0
            BY <1>17 DEF DecrementLast, Goto, TypeOK, eventVars, DepthRight,
                Waiting
        <2>2. depth[t] \in Nat /\ depth'[t] = depth[t] - 1 /\ pc'[t] = "clear"
              /\ depth' \in [Threads -> Nat]
            BY <2>1 DEF TypeOK
        <2>3. lockCount' >= -1 /\ (depth'[t] > 0 => lockCount' >= 0)
            <3>1. \A u \in Threads : Claim(u)' \in Nat
                BY <2>1, <2>2 DEF Claim, TypeOK
            <3>2. lockCount' \in Int /\ ClaimsCounted'
                BY <2>1, ClaimsNext DEF TypeOK
            <3>3. FreeIffUnclaimed'
                BY <3>1, <3>2, FreeIfUnclaimedNext DEF ClaimsMakeSense
            <3>4. depth'[t] > 0 => Claim(t)' # 0
                BY <2>2 DEF Claim
            <3> QED BY <3>2, <3>3, <3>4 DEF FreeIffUnclaimed
        <2>4. Holder(t) /\ lockCount >= 0
            BY <2>1, HolderFacts DEF Holder
        <2>5. \A u \in Threads \ {t} : Same(u)
            BY <2>1 DEF Same, Holder, InFlight, TypeOK
        <2>6. depth'[t] = 0
            BY <2>1, <2>2 DEF DepthRight
        <2> QED
            <3>1. ~Holder(t)' /\ (InFlight(t)' <=> lockCount' >= 0)
                BY <2>1, <2>2, <2>6 DEF Holder, InFlight, TypeOK
            <3> QED BY <2>1, <2>3, <2>4, <2>5, <3>1 DEF TokenStep, TokenSent,
                    TokenGone, TypeOK
    <1>18. CASE DecrementMore(t)
        <2>1. /\ pc[t] = "moredec" /\ pc' = [pc EXCEPT ![t] = "call"]
              /\ lockCount' = lockCount - 1
              /\ count' = count
              /\ depth' = [depth EXCEPT ![t] = @ - 1]
              /\ signal' = signal /\ Waiting' = Waiting /\ depth[t] > 0
            BY <1>18 DEF DecrementMore, Goto, TypeOK, eventVars, DepthRight,
                Waiting
        <2>2. depth[t] \in Nat /\ depth'[t] = depth[t] - 1 /\ pc'[t] = "call"
              /\ depth' \in [Threads -> Nat]
            BY <2>1 DEF TypeOK
        <2>3. lockCount' >= -1 /\ (depth'[t] > 0 => lockCount' >= 0)
            <3>1. \A u \in Threads : Claim(u)' \in Nat
                BY <2>1, <2>2 DEF Claim, TypeOK
            <3>2. lockCount' \in Int /\ ClaimsCounted'
                BY <2>1, ClaimsNext DEF TypeOK
            <3>3. FreeIffUnclaimed'
                BY <3>1, <3>2, FreeIfUnclaimedNext DEF ClaimsMakeSense
            <3>4. depth'[t] > 0 => Claim(t)' # 0
                BY <2>2 DEF Claim
            <3> QED BY <3>2, <3>3, <3>4 DEF FreeIffUnclaimed
        <2>4. Holder(t) /\ lockCount >= 0
            BY <2>1, HolderFacts DEF Holder
        <2>5. \A u \in Threads \ {t} : Same(u)
            BY <2>1 DEF Same, Holder, InFlight, TypeOK
        <2>6. depth'[t] > 0
            BY <2>1, <2>2 DEF DepthRight
        <2> QED
            <3>1. Holder(t)' /\ ~InFlight(t)' /\ ~InFlight(t)
                BY <2>1, <2>2, <2>6 DEF Holder, InFlight
            <3>2. \A u \in Threads : Same(u)
                BY <2>4, <2>5, <3>1 DEF Same
            <3> QED BY <2>1, <2>3, <2>4, <2>6, <3>2 DEF TokenStep, TokenStays
    <1> QED BY <1>1, <1>2, <1>3, <1>4, <1>5, <1>6, <1>7, <1>8, <1>9, <1>10,
        <1>11, <1>12, <1>13, <1>14, <1>15, <1>16, <1>17, <1>18 DEF
            SectionStep, Enter, Leave, Proceed

-----------------------------------------------------------------------------
(* The theorems.                                                            *)

\* Before any routine is called.
LEMMA SectionInit == Init => SectionInv
    <1> SUFFICES ASSUME Init PROVE SectionInv
        OBVIOUS
    <1>1. TypeOK
        <2>1. crashed \in BOOLEAN
            BY DEF Init
        <2> QED BY <2>1 DEF Init, TypeOK, PcValues
    <1>2. /\ IsFiniteSet(Claims) /\ Cardinality(Claims) = 0
          /\ Waiting = {} /\ Distinct(waiters[Event])
        <2>1. \A t \in Threads : Claim(t) = 0
            BY DEF Init, Claim, Claiming
        <2>2. [t \in Threads |-> Claim(t)] \in [Threads -> Nat]
            BY <2>1
        <2>3. IsFiniteSet(Claims) /\ Cardinality(Claims) = 0
            BY <2>1, <2>2, TallyZero DEF Claims
        <2> QED BY <2>3, EmptyMembers DEF Init, Waiting
    <1>3. ClaimsCounted
        BY <1>2 DEF ClaimsCounted, Init
    <1>4. NoThread \notin Threads
        BY SectionAssumption
    <1> QED BY <1>1, <1>2, <1>3, <1>4 DEF SectionInv, Init, QueueRight, OneToken,
            TokenIffClaimed, RecursionRight, OwnerRight, DepthRight, Holder,
            InFlight

\* Every step keeps the invariant.
LEMMA SectionNext == SectionInv /\ [Next]_csVars => SectionInv'
    <1> SUFFICES ASSUME SectionInv, [Next]_csVars PROVE SectionInv'
        OBVIOUS
    <1>1. ASSUME NEW t \in Threads, SectionStep(t) PROVE SectionInv'
        <2>1. ClaimsCounted' /\ QueueRight' /\ RecursionRight' /\ OwnerRight'
              /\ DepthRight'
            BY <1>1, ClaimsNext, QueueNext, RecursionNext, OwnerNext, DepthNext
        <2>2. \A u \in Threads : Claim(u)' \in Nat
            BY <1>1, TypesNext DEF Claim
        <2>3. lockCount' >= -1
            BY <1>1, <2>1, <2>2, TypesNext, FreeIfUnclaimedNext
               DEF ClaimsMakeSense, FreeIffUnclaimed
        <2>4. TypeOK' /\ signal'[Event] \in {0, 1} /\ lockCount' \in Int
            <3>1. crashed' \in BOOLEAN
                BY <1>1, RunsOn DEF SectionInv, TypeOK
            <3> QED BY <1>1, <2>3, <3>1, TypesNext DEF TypeOK
        <2>5. OneToken' /\ TokenIffClaimed'
            BY <1>1, <2>4, TokenNext, TokenStepKeepsOne
        <2> QED BY <2>1, <2>4, <2>5 DEF SectionInv
    <1>2. ASSUME UNCHANGED <<sectionVars, eventVars, pc, count, depth>>, crashed' \in BOOLEAN
          PROVE  SectionInv'
        BY <1>2 DEF SectionInv, TypeOK, ClaimsCounted, Claims, Claim, QueueRight,
           Waiting, OneToken, TokenIffClaimed, RecursionRight, OwnerRight,
           DepthRight, Holder, InFlight, eventVars, sectionVars
    <1>3. CASE UNCHANGED csVars
        BY <1>2, <1>3 DEF csVars, SectionInv, TypeOK
    <1>4. ASSUME NEW t \in Threads, SignalUnwaitsNoThread(t) PROVE SectionInv'
        BY <1>2, <1>4 DEF SignalUnwaitsNoThread
    <1> QED BY <1>1, <1>3, <1>4 DEF Next, SectionStep

\* The inductive invariant holds of every run.
THEOREM SectionInvariant == Spec => []SectionInv
    BY SectionInit, SectionNext, PTL DEF Spec

\* RtlEnterCriticalSection, RtlTryEnterCriticalSection and the two routines
\* that leave keep the threads out of each other's way: for any number of
\* threads, nested as deep as they like, at most one has the section.
THEOREM SectionMutualExclusion == Spec => []MutualExclusion
    <1>1. SectionInv => MutualExclusion
        <2> SUFFICES ASSUME SectionInv PROVE MutualExclusion
            OBVIOUS
        <2>1. \A t \in Threads : HasSection(t) <=> Holder(t)
            BY WaitsInQueue DEF HasSection, Holder
        <2> QED BY <2>1 DEF SectionInv, OneToken, MutualExclusion
    <1> QED BY <1>1, SectionInvariant, PTL

\* Nobody sleeps in RtlpWaitForCriticalSection for a section that is free: the
\* claim of a sleeper is counted, so that there is a token.
THEOREM SectionNotForgotten == Spec => []NotForgotten
    <1>1. SectionInv => NotForgotten
        <2> SUFFICES ASSUME SectionInv, NEW t \in Threads, SectionEvent!Waits(t)
                     PROVE  \/ \E u \in Threads : HasSection(u)
                            \/ \E u \in Threads :
                                   pc[u] \in {"test", "clear", "signal"} /\ count[u] >= 0
                            \/ signal[Event] = 1
            BY DEF NotForgotten
        <2>1. \A u \in Threads : HasSection(u) <=> Holder(u)
            BY WaitsInQueue DEF HasSection, Holder
        <2>2. pc[t] = "blocked"
            BY WaitsInQueue DEF SectionInv, QueueRight
        <2>3. \A u \in Threads : Claim(u) \in Nat
            BY ClaimIsNat DEF SectionInv
        <2>4. Claim(t) # 0
            BY <2>2 DEF Claim, Claiming, SectionInv, TypeOK
        <2>5. lockCount >= 0
            BY <2>3, <2>4, FreeIfUnclaimed DEF SectionInv, TypeOK,
               ClaimsMakeSense, FreeIffUnclaimed
        <2> QED BY <2>1, <2>5 DEF SectionInv, TokenIffClaimed, InFlight
    <1> QED BY <1>1, SectionInvariant, PTL
=============================================================================
