------------------------ MODULE ReadWriteLockProofs ------------------------
(***************************************************************************)
(* Proofs about ReadWriteLock: a writer is alone, and nobody sleeps for a  *)
(* lock that nobody has or is about to be given.                           *)
(*                                                                         *)
(* The four counters are exact at any time, if one counts what is still on *)
(* its way: LockCount counts the claims; the writers that are due are      *)
(* those WritersWaitingCount counts and the one the event is about to let  *)
(* in; the readers that are due are those ReadersWaitingCount counts and   *)
(* those there is a permit for; ReadersEntryCount counts the readers that  *)
(* are in and the permits.  There is a writer, or its event, exactly if    *)
(* there are claims and ReadersEntryCount is zero.                         *)
(***************************************************************************)
EXTENDS ReadWriteLock, ListLemmas

-----------------------------------------------------------------------------
(* The inductive invariant.                                                 *)

SleepingWriters == Members(waiters[WriterEvent])
SleepingReaders == Members(waiters[ReaderSemaphore])

\* What LockCount counts, and what ReadersEntryCount counts when it is used.
Claim(t) == shares[t] + (IF t \in writer THEN 1 ELSE 0)
    + (IF pc[t] \in {"waitwriter", "blockedwriter", "waitreader", "blockedreader"}
       THEN 1 ELSE 0)

Reading(t) == IF pc[t] = "blockedreader" /\ t \notin SleepingReaders
              THEN shares[t] + 1 ELSE shares[t]

Claims == Tally([t \in Threads |-> Claim(t)])
Readings == Tally([t \in Threads |-> Reading(t)])

WritersDue == {t \in Threads : pc[t] = "waitwriter" \/ t \in SleepingWriters}
ReadersDue == {t \in Threads : pc[t] = "waitreader" \/ t \in SleepingReaders}

ClaimsCounted == IsFiniteSet(Claims) /\ lockCount + 1 = Cardinality(Claims)

QueuesRight ==
    /\ \A t \in SleepingWriters : pc[t] = "blockedwriter"
    /\ \A t \in Threads : pc[t] = "blockedwriter" => t \in SleepingWriters
    /\ \A t \in SleepingReaders : pc[t] = "blockedreader"
    /\ \A o \in {WriterEvent, ReaderSemaphore} :
           Distinct(waiters[o]) /\ (signal[o] > 0 => waiters[o] = <<>>)

PlacesRight ==
    \A t \in Threads :
        /\ t \in writer => pc[t] = "call" /\ shares[t] = 0
        /\ pc[t] \in {"waitwriter", "blockedwriter"} => shares[t] = 0
        /\ permits[t] > 0 <=> pc[t] = "releasesemaphore"

\* The lock is a writer's: it has it, or is about to be let in by this thread.
WritersToken(t) == t \in writer \/ pc[t] = "setevent"

OneWriter ==
    /\ \A t, u \in Threads : WritersToken(t) /\ WritersToken(u) => t = u
    /\ signal[WriterEvent] \in {0, 1}
    /\ signal[WriterEvent] = 1 => \A t \in Threads : ~WritersToken(t)
    /\ lockCount >= 0 /\ readersEntryCount = 0
           <=> signal[WriterEvent] = 1 \/ \E t \in Threads : WritersToken(t)
    /\ lockCount = -1 => readersEntryCount = 0

LettingIn == IF signal[WriterEvent] = 1 \/ \E t \in Threads : pc[t] = "setevent"
             THEN 1 ELSE 0

WritersCounted ==
    /\ IsFiniteSet(WritersDue)
    /\ Cardinality(WritersDue) = writersWaitingCount + LettingIn

\* The permits that are about to be released, or are not yet taken.
PermitsAre(n) ==
    \/ /\ \A t \in Threads : pc[t] # "releasesemaphore"
       /\ n = signal[ReaderSemaphore]
    \/ /\ signal[ReaderSemaphore] = 0
       /\ \E t \in Threads :
              /\ pc[t] = "releasesemaphore" /\ n = permits[t]
              /\ \A u \in Threads : pc[u] = "releasesemaphore" => u = t

ReadersCounted ==
    /\ IsFiniteSet(ReadersDue) /\ IsFiniteSet(Readings)
    /\ \E n \in Nat :
           /\ PermitsAre(n)
           /\ Cardinality(ReadersDue) = readersWaitingCount + n
           /\ readersEntryCount = Cardinality(Readings) + n

\* While readers are in, others wait only behind a writer.
WritersTurn ==
    readersEntryCount > 0 /\ readersWaitingCount > 0 => writersWaitingCount > 0

LockInv ==
    /\ TypeOK
    /\ ClaimsCounted
    /\ QueuesRight
    /\ PlacesRight
    /\ OneWriter
    /\ WritersCounted
    /\ ReadersCounted
    /\ WritersTurn

-----------------------------------------------------------------------------
(* The event's and the semaphore's queue.                                   *)

\* Waiting for the lock is being in a queue.
LEMMA WaitsInQueue ==
    ASSUME NEW t
    PROVE  LockObjects!Waits(t) <=> t \in SleepingWriters \/ t \in SleepingReaders
    BY DEF LockObjects!Waits, LockObjects!Objects, SleepingWriters,
       SleepingReaders, Members

\* A thread that blocks is added to those sleeping.
LEMMA BlockAdds ==
    ASSUME TypeOK, QueuesRight, NEW o \in {WriterEvent, ReaderSemaphore},
           NEW t \in Threads, LockObjects!Block(o, t)
    PROVE  /\ t \notin SleepingWriters /\ t \notin SleepingReaders
           /\ signal[o] = 0 /\ signal' = signal
           /\ waiters' \in [{WriterEvent, ReaderSemaphore} -> Seq(Threads)]
           /\ \A x \in {WriterEvent, ReaderSemaphore} :
                  /\ Distinct(waiters'[x])
                  /\ signal[x] > 0 => waiters'[x] = <<>>
                  /\ Members(waiters'[x]) = IF x = o THEN Members(waiters[x]) \union {t}
                                            ELSE Members(waiters[x])
    <1>1. /\ waiters[o] \in Seq(Threads) /\ t \notin Members(waiters[o])
          /\ t \notin SleepingWriters /\ t \notin SleepingReaders
        BY WaitsInQueue DEF TypeOK, LockObjects!Block, SleepingWriters, SleepingReaders
    <1>2. waiters' = [waiters EXCEPT ![o] = Append(waiters[o], t)]
        BY DEF LockObjects!Block
    <1>3. /\ Append(waiters[o], t) \in Seq(Threads) /\ Distinct(Append(waiters[o], t))
          /\ Members(Append(waiters[o], t)) = Members(waiters[o]) \union {t}
        BY <1>1, AppendMember DEF QueuesRight
    <1>4. signal[o] = 0 /\ signal' = signal
        BY DEF LockObjects!Block, TypeOK
    <1>5. waiters' \in [{WriterEvent, ReaderSemaphore} -> Seq(Threads)]
        BY <1>2, <1>3 DEF TypeOK
    <1>6. ASSUME NEW x \in {WriterEvent, ReaderSemaphore}
          PROVE  waiters'[x] = IF x = o THEN Append(waiters[o], t) ELSE waiters[x]
        BY <1>2 DEF TypeOK
    <1>7. ASSUME NEW x \in {WriterEvent, ReaderSemaphore}
          PROVE  /\ Distinct(waiters'[x])
                 /\ signal[x] > 0 => waiters'[x] = <<>>
                 /\ Members(waiters'[x]) = IF x = o THEN Members(waiters[x]) \union {t}
                                           ELSE Members(waiters[x])
        <2>1. CASE x = o
            BY <1>3, <1>4, <1>6, <2>1
        <2>2. CASE x # o
            BY <1>6, <2>2 DEF QueuesRight
        <2> QED BY <2>1, <2>2
    <1> QED BY <1>1, <1>4, <1>5, <1>7

\* The semaphore lets as many sleeping readers in as there are permits for;
\* what is left stays for those about to wait.
LEMMA ReleaseLetsIn ==
    ASSUME TypeOK, QueuesRight, NEW n \in Nat,
           LockObjects!ReleaseSemaphore(ReaderSemaphore, n)
    PROVE  /\ waiters' \in [{WriterEvent, ReaderSemaphore} -> Seq(Threads)]
           /\ signal' \in [{WriterEvent, ReaderSemaphore} -> Nat]
           /\ waiters'[WriterEvent] = waiters[WriterEvent]
           /\ signal'[WriterEvent] = signal[WriterEvent]
           /\ Distinct(waiters'[ReaderSemaphore])
           /\ signal'[ReaderSemaphore] > 0 => waiters'[ReaderSemaphore] = <<>>
           /\ \E G \in SUBSET SleepingReaders :
                 /\ IsFiniteSet(G)
                 /\ SleepingReaders' = SleepingReaders \ G
                 /\ signal'[ReaderSemaphore]
                        = signal[ReaderSemaphore] + n - Cardinality(G)
    <1> DEFINE q == waiters[ReaderSemaphore]
               new == signal[ReaderSemaphore] + n
               k == IF new < Len(q) THEN new ELSE Len(q)
               r == SubSeq(q, k + 1, Len(q))
               G == {q[i] : i \in 1..k}
    <1>1. /\ q \in Seq(Threads) /\ Distinct(q) /\ WriterEvent # ReaderSemaphore
          /\ new \in Nat /\ Len(q) \in Nat
        BY LockAssumption DEF TypeOK, QueuesRight
    <1>2. k \in 0..Len(q) /\ new - k \in Nat /\ (new - k > 0 => k = Len(q))
        BY <1>1
    <1>3. /\ signal' = [signal EXCEPT ![ReaderSemaphore] = new - k]
          /\ waiters' = [waiters EXCEPT ![ReaderSemaphore] = r]
        BY DEF LockObjects!ReleaseSemaphore, LockObjects!Leave
    <1> HIDE DEF k, new
    <1>4. r \in Seq(Threads) /\ Len(r) = Len(q) - k
        BY <1>1, <1>2, DropFirst
    <1>5. /\ Members(q) = G \union Members(r)
          /\ Distinct(r) /\ G \intersect Members(r) = {}
        BY <1>1, <1>2, DropMembers
    <1>6. G \subseteq Members(q) /\ IsFiniteSet(G) /\ Cardinality(G) = k
        BY <1>1, <1>2, FirstAreCounted
    <1> HIDE DEF r, G
    <1>7. Members(r) = Members(q) \ G
        BY <1>5
    <1>8. /\ waiters'[ReaderSemaphore] = r /\ signal'[ReaderSemaphore] = new - k
          /\ waiters'[WriterEvent] = waiters[WriterEvent]
          /\ signal'[WriterEvent] = signal[WriterEvent]
          /\ waiters' \in [{WriterEvent, ReaderSemaphore} -> Seq(Threads)]
          /\ signal' \in [{WriterEvent, ReaderSemaphore} -> Nat]
        BY <1>1, <1>2, <1>3, <1>4 DEF TypeOK
    <1>9. new - k > 0 => r = <<>>
        BY <1>1, <1>2, <1>4, NoMembers
    <1>10. SleepingReaders' = SleepingReaders \ G /\ G \in SUBSET SleepingReaders
        BY <1>6, <1>7, <1>8 DEF SleepingReaders
    <1>11. signal'[ReaderSemaphore] = signal[ReaderSemaphore] + n - Cardinality(G)
        <2>1. /\ signal[ReaderSemaphore] \in Nat /\ k \in Int
              /\ new = signal[ReaderSemaphore] + n
            BY <1>1, <1>2 DEF new, TypeOK
        <2> QED BY <1>6, <1>8, <2>1
    <1> QED BY <1>5, <1>6, <1>8, <1>9, <1>10, <1>11

-----------------------------------------------------------------------------
(* Counting.                                                                *)

\* All that is counted is a number.
LEMMA CountsAreNat ==
    ASSUME LockInv
    PROVE  /\ \A u \in Threads : Claim(u) \in Nat /\ Reading(u) \in Nat
           /\ [u \in Threads |-> Claim(u)] \in [Threads -> Nat]
           /\ [u \in Threads |-> Reading(u)] \in [Threads -> Nat]
           /\ Cardinality(Claims) \in Nat /\ Cardinality(Readings) \in Nat
           /\ Cardinality(WritersDue) \in Nat /\ Cardinality(ReadersDue) \in Nat
           /\ SleepingWriters \subseteq Threads /\ SleepingReaders \subseteq Threads
           /\ LettingIn \in {0, 1}
    <1>1. \A u \in Threads : Claim(u) \in Nat /\ Reading(u) \in Nat
        BY DEF LockInv, TypeOK, Claim, Reading
    <1>2. /\ IsFiniteSet(Claims) /\ IsFiniteSet(Readings)
          /\ IsFiniteSet(WritersDue) /\ IsFiniteSet(ReadersDue)
        BY DEF LockInv, ClaimsCounted, WritersCounted, ReadersCounted
    <1>3. SleepingWriters \subseteq Threads /\ SleepingReaders \subseteq Threads
        BY NoMembers DEF LockInv, TypeOK, SleepingWriters, SleepingReaders
    <1> QED BY <1>1, <1>2, <1>3, FS_CardinalityType DEF LettingIn

\* Without a claim nobody has the lock, waits for it or is let in.
LEMMA FreeFacts ==
    ASSUME LockInv, lockCount = -1
    PROVE  /\ readersEntryCount = 0 /\ readersWaitingCount = 0
           /\ signal[WriterEvent] = 0
           /\ \A u \in Threads : Claim(u) = 0 /\ ~WritersToken(u)
    <1>1. \A u \in Threads : Claim(u) = 0
        BY CountsAreNat, TallyZero DEF LockInv, ClaimsCounted, Claims
    <1>2. /\ signal[WriterEvent] = 0 /\ \A u \in Threads : ~WritersToken(u)
          /\ readersEntryCount = 0
        BY DEF LockInv, OneWriter
    <1>3. ReadersDue = {}
        <2>1. \A u \in Threads : pc[u] # "waitreader" /\ pc[u] # "blockedreader"
            <3> SUFFICES ASSUME NEW u \in Threads,
                                pc[u] \in {"waitreader", "blockedreader"}
                         PROVE  FALSE
                OBVIOUS
            <3>1. shares[u] \in Nat /\ Claim(u) = 0
                BY <1>1 DEF LockInv, TypeOK
            <3> QED BY <3>1 DEF Claim
        <2> QED BY <2>1, CountsAreNat DEF ReadersDue, LockInv, QueuesRight
    <1>4. readersWaitingCount = 0
        <2>1. Cardinality(ReadersDue) = 0 /\ readersWaitingCount \in Nat
            BY <1>3, FS_EmptySet DEF LockInv, TypeOK
        <2> QED BY <2>1 DEF LockInv, ReadersCounted
    <1> QED BY <1>1, <1>2, <1>4

\* A step in which at most one thread claims the lock or gives a claim up.
LEMMA ClaimsNext ==
    ASSUME LockInv, NEW t \in Threads, NEW d \in {-1, 0, 1},
           lockCount' = lockCount + d, Claim(t)' = Claim(t) + d, Claim(t) + d \in Nat,
           \A u \in Threads \ {t} : Claim(u)' = Claim(u)
    PROVE  ClaimsCounted' /\ lockCount' \in Nat \union {-1}
    <1>1. [u \in Threads |-> Claim(u)'] \in [Threads -> Nat]
        BY CountsAreNat
    <1>2. IsFiniteSet(Claims') /\ Cardinality(Claims') = Cardinality(Claims) + d
        <2>0. IsFiniteSet(Claims)
            BY DEF LockInv, ClaimsCounted
        <2>1. CASE d = 0
            <3>1. \A u \in Threads : Claim(u)' = Claim(u)
                BY <2>1, CountsAreNat
            <3>2. Claims' = Claims
                BY <3>1 DEF Claims
            <3> QED BY <2>0, <2>1, <3>2, CountsAreNat
        <2>2. CASE d = 1
            BY <1>1, <2>0, <2>2, CountsAreNat, TallyUp DEF Claims
        <2>3. CASE d = -1
            <3>1. Claim(t) > 0 /\ Claim(t)' = Claim(t) - 1
                BY <2>3, CountsAreNat
            <3> QED BY <1>1, <2>0, <2>3, <3>1, CountsAreNat, TallyDown DEF Claims
        <2> QED BY <2>1, <2>2, <2>3
    <1>3. Cardinality(Claims') \in Nat
        BY <1>2, FS_CardinalityType
    <1>4. lockCount \in Int /\ lockCount + 1 = Cardinality(Claims)
        BY DEF LockInv, ClaimsCounted, TypeOK
    <1> QED BY <1>2, <1>3, <1>4, CountsAreNat DEF ClaimsCounted

\* A step in which none does.
LEMMA ClaimsStay ==
    ASSUME LockInv, lockCount' = lockCount, \A u \in Threads : Claim(u)' = Claim(u)
    PROVE  ClaimsCounted' /\ lockCount' \in Nat \union {-1}
    <1>1. Claims' = Claims
        BY DEF Claims
    <1> QED BY <1>1 DEF LockInv, ClaimsCounted, TypeOK

\* A step in which at most one thread comes to read or stops.
LEMMA ReadingsNext ==
    ASSUME LockInv, NEW t \in Threads, NEW d \in {-1, 0, 1},
           Reading(t)' = Reading(t) + d, Reading(t) + d \in Nat,
           \A u \in Threads \ {t} : Reading(u)' = Reading(u)
    PROVE  IsFiniteSet(Readings') /\ Cardinality(Readings') = Cardinality(Readings) + d
    <1>1. [u \in Threads |-> Reading(u)'] \in [Threads -> Nat]
        BY CountsAreNat
    <1>2. IsFiniteSet(Readings)
        BY DEF LockInv, ReadersCounted
    <1>3. CASE d = 0
        <2>1. \A u \in Threads : Reading(u)' = Reading(u)
            BY <1>3, CountsAreNat
        <2>2. Readings' = Readings
            BY <2>1 DEF Readings
        <2> QED BY <1>2, <1>3, <2>2, CountsAreNat
    <1>4. CASE d = 1
        BY <1>1, <1>2, <1>4, CountsAreNat, TallyUp DEF Readings
    <1>5. CASE d = -1
        <2>1. Reading(t) > 0 /\ Reading(t)' = Reading(t) - 1
            BY <1>5, CountsAreNat
        <2> QED BY <1>1, <1>2, <1>5, <2>1, CountsAreNat, TallyDown DEF Readings
    <1> QED BY <1>3, <1>4, <1>5

\* One comes to be due, or is so no longer.
LEMMA OneMore ==
    ASSUME NEW S, IsFiniteSet(S), NEW x, x \notin S
    PROVE  IsFiniteSet(S \union {x}) /\ Cardinality(S \union {x}) = Cardinality(S) + 1
    BY FS_AddElement

\* One is taken off.
LEMMA OneLess ==
    ASSUME NEW S, IsFiniteSet(S), NEW x \in S
    PROVE  IsFiniteSet(S \ {x}) /\ Cardinality(S \ {x}) = Cardinality(S) - 1
    BY FS_RemoveElement

-----------------------------------------------------------------------------
(* Every step keeps the invariant.                                          *)

\* ExAcquireReadWriteLockExclusive.
LEMMA AcquireExclusiveKeeps ==
    ASSUME LockInv, NEW t \in Threads, ExAcquireReadWriteLockExclusive(t)
    PROVE  LockInv'
    <1> USE DEF LockInv
    <1>1. /\ t \notin writer /\ shares[t] = 0 /\ pc[t] = "call"
          /\ lockCount' = lockCount + 1
          /\ UNCHANGED <<readersWaitingCount, readersEntryCount, signal, waiters,
                         permits, shares, crashed>>
        BY DEF ExAcquireReadWriteLockExclusive, objectVars, Goto, HoldExclusive, holds
    <1>2. UNCHANGED <<SleepingWriters, SleepingReaders>>
        BY <1>1 DEF SleepingWriters, SleepingReaders
    <1>3. t \notin SleepingWriters /\ t \notin SleepingReaders
        BY <1>1 DEF QueuesRight
    <1>4. CASE lockCount = -1
        <2>1. /\ pc' = pc /\ writer' = writer \union {t}
              /\ writersWaitingCount' = writersWaitingCount
            BY <1>4 DEF ExAcquireReadWriteLockExclusive, Goto, HoldExclusive, TypeOK
        <2>2. ClaimsCounted' /\ lockCount' \in Nat \union {-1}
            <3>1. Claim(t)' = Claim(t) + 1 /\ \A u \in Threads \ {t} : Claim(u)' = Claim(u)
                BY <1>1, <2>1 DEF Claim, TypeOK
            <3> QED BY <1>1, <3>1, ClaimsNext, CountsAreNat
        <2>3. TypeOK'
            BY <1>1, <2>1, <2>2 DEF TypeOK
        <2>4. QueuesRight' /\ PlacesRight'
            BY <1>1, <1>2, <2>1 DEF QueuesRight, PlacesRight
        <2>5. OneWriter'
            BY <1>1, <1>2, <1>4, <2>1, FreeFacts DEF OneWriter, WritersToken
        <2>6. WritersCounted' /\ ReadersCounted' /\ WritersTurn'
            <3>1. UNCHANGED <<WritersDue, ReadersDue, Readings, LettingIn>>
                BY <1>1, <1>2, <2>1 DEF WritersDue, ReadersDue, Readings, Reading,
                   LettingIn
            <3> QED BY <1>1, <2>1, <3>1 DEF WritersCounted, ReadersCounted,
                    WritersTurn, PermitsAre
        <2> QED BY <2>2, <2>3, <2>4, <2>5, <2>6
    <1>5. CASE lockCount # -1
        <2>1. /\ pc' = [pc EXCEPT ![t] = "waitwriter"] /\ writer' = writer
              /\ writersWaitingCount' = writersWaitingCount + 1
            BY <1>5 DEF ExAcquireReadWriteLockExclusive, Goto, holds
        <2>2. ClaimsCounted' /\ lockCount' \in Nat \union {-1}
            <3>1. Claim(t)' = Claim(t) + 1 /\ \A u \in Threads \ {t} : Claim(u)' = Claim(u)
                BY <1>1, <2>1 DEF Claim, TypeOK
            <3> QED BY <1>1, <3>1, ClaimsNext, CountsAreNat
        <2>3. TypeOK'
            BY <1>1, <2>1, <2>2 DEF TypeOK, PcValues
        <2>4. QueuesRight' /\ PlacesRight'
            BY <1>1, <1>2, <1>3, <2>1, CountsAreNat DEF QueuesRight, PlacesRight, TypeOK
        <2>5. OneWriter'
            BY <1>1, <1>2, <1>5, <2>1 DEF OneWriter, WritersToken, TypeOK
        <2>6. WritersCounted'
            <3>1. WritersDue' = WritersDue \union {t} /\ t \notin WritersDue
                BY <1>1, <1>2, <1>3, <2>1 DEF WritersDue, TypeOK
            <3>2. LettingIn' = LettingIn
                BY <1>1, <2>1 DEF LettingIn, TypeOK
            <3>3. /\ IsFiniteSet(WritersDue')
                  /\ Cardinality(WritersDue') = Cardinality(WritersDue) + 1
                BY <3>1, OneMore DEF WritersCounted
            <3> QED BY <2>1, <3>2, <3>3, CountsAreNat DEF WritersCounted, TypeOK
        <2>7. ReadersCounted' /\ WritersTurn'
            <3>1. UNCHANGED <<ReadersDue, Readings>>
                BY <1>1, <1>2, <1>3, <2>1 DEF ReadersDue, Readings, Reading, TypeOK
            <3>2. \A n \in Nat : PermitsAre(n) => PermitsAre(n)'
                BY <1>1, <2>1 DEF PermitsAre, TypeOK
            <3> QED BY <1>1, <2>1, <3>1, <3>2 DEF ReadersCounted, WritersTurn, TypeOK
        <2> QED BY <2>2, <2>3, <2>4, <2>5, <2>6, <2>7
    <1> QED BY <1>4, <1>5

\* ExAcquireReadWriteLockShared.
LEMMA AcquireSharedKeeps ==
    ASSUME LockInv, NEW t \in Threads, ExAcquireReadWriteLockShared(t)
    PROVE  LockInv'
    <1> USE DEF LockInv
    <1>1. /\ t \notin writer /\ pc[t] = "call"
          /\ lockCount' = lockCount + 1
          /\ UNCHANGED <<writersWaitingCount, signal, waiters, permits, writer, crashed>>
        BY DEF ExAcquireReadWriteLockShared, objectVars, Goto, HoldShared, holds
    <1>2. UNCHANGED <<SleepingWriters, SleepingReaders>>
        BY <1>1 DEF SleepingWriters, SleepingReaders
    <1>3. t \notin SleepingWriters /\ t \notin SleepingReaders
        BY <1>1 DEF QueuesRight
    <1>4. CASE ~(lockCount # -1 /\ MustWait)
        <2>1. /\ pc' = pc /\ shares' = [shares EXCEPT ![t] = @ + 1]
              /\ readersEntryCount' = readersEntryCount + 1
              /\ readersWaitingCount' = readersWaitingCount
            BY <1>4 DEF ExAcquireReadWriteLockShared, Goto, HoldShared, TypeOK
        <2>2. ClaimsCounted' /\ lockCount' \in Nat \union {-1}
            <3>1. Claim(t)' = Claim(t) + 1 /\ \A u \in Threads \ {t} : Claim(u)' = Claim(u)
                BY <1>1, <2>1 DEF Claim, TypeOK
            <3> QED BY <1>1, <3>1, ClaimsNext, CountsAreNat
        <2>3. TypeOK'
            BY <1>1, <2>1, <2>2 DEF TypeOK
        <2>4. QueuesRight' /\ PlacesRight'
            BY <1>1, <1>2, <2>1 DEF QueuesRight, PlacesRight, TypeOK
        <2>5. OneWriter'
            <3>1. \A u \in Threads : WritersToken(u)' <=> WritersToken(u)
                BY <1>1, <1>2, <2>1 DEF WritersToken
            <3>2. signal[WriterEvent] # 1 /\ \A u \in Threads : ~WritersToken(u)
                BY <1>4, FreeFacts DEF OneWriter, MustWait
            <3> QED BY <1>1, <2>1, <2>2, <3>1, <3>2 DEF OneWriter, TypeOK
        <2>6. WritersCounted'
            <3>1. UNCHANGED <<WritersDue, LettingIn>>
                BY <1>1, <1>2, <2>1 DEF WritersDue, LettingIn
            <3> QED BY <1>1, <2>1, <3>1 DEF WritersCounted
        <2>7. ReadersCounted'
            <3>1. ReadersDue' = ReadersDue /\ \A n \in Nat : PermitsAre(n) => PermitsAre(n)'
                BY <1>1, <1>2, <2>1 DEF ReadersDue, PermitsAre
            <3>2. Reading(t)' = Reading(t) + 1
                  /\ \A u \in Threads \ {t} : Reading(u)' = Reading(u)
                BY <1>1, <1>2, <2>1 DEF Reading, TypeOK
            <3>3. IsFiniteSet(Readings') /\ Cardinality(Readings') = Cardinality(Readings) + 1
                BY <3>2, ReadingsNext, CountsAreNat
            <3> QED BY <2>1, <3>1, <3>3, CountsAreNat DEF ReadersCounted, TypeOK
        <2>8. WritersTurn'
            BY <1>1, <1>4, <2>1, FreeFacts DEF WritersTurn, MustWait, TypeOK
        <2> QED BY <2>2, <2>3, <2>4, <2>5, <2>6, <2>7, <2>8
    <1>5. CASE lockCount # -1 /\ MustWait
        <2>1. /\ pc' = [pc EXCEPT ![t] = "waitreader"] /\ shares' = shares
              /\ readersWaitingCount' = readersWaitingCount + 1
              /\ readersEntryCount' = readersEntryCount
            BY <1>5 DEF ExAcquireReadWriteLockShared, Goto, holds
        <2>2. ClaimsCounted' /\ lockCount' \in Nat \union {-1}
            <3>1. Claim(t)' = Claim(t) + 1 /\ \A u \in Threads \ {t} : Claim(u)' = Claim(u)
                BY <1>1, <2>1 DEF Claim, TypeOK
            <3> QED BY <1>1, <3>1, ClaimsNext, CountsAreNat
        <2>3. TypeOK'
            BY <1>1, <2>1, <2>2 DEF TypeOK, PcValues
        <2>4. QueuesRight' /\ PlacesRight'
            BY <1>1, <1>2, <1>3, <2>1, CountsAreNat DEF QueuesRight, PlacesRight, TypeOK
        <2>5. OneWriter'
            BY <1>1, <1>2, <1>5, <2>1 DEF OneWriter, WritersToken, TypeOK
        <2>6. WritersCounted'
            <3>1. UNCHANGED <<WritersDue, LettingIn>>
                BY <1>1, <1>2, <1>3, <2>1 DEF WritersDue, LettingIn, TypeOK
            <3> QED BY <1>1, <2>1, <3>1 DEF WritersCounted
        <2>7. ReadersCounted'
            <3>1. ReadersDue' = ReadersDue \union {t} /\ t \notin ReadersDue
                BY <1>1, <1>2, <1>3, <2>1 DEF ReadersDue, TypeOK
            <3>2. Readings' = Readings
                BY <1>1, <1>2, <1>3, <2>1 DEF Readings, Reading, TypeOK
            <3>3. \A n \in Nat : PermitsAre(n) => PermitsAre(n)'
                BY <1>1, <2>1 DEF PermitsAre, TypeOK
            <3>4. IsFiniteSet(ReadersDue') /\ Cardinality(ReadersDue') = Cardinality(ReadersDue) + 1
                BY <3>1, OneMore DEF ReadersCounted
            <3>5. PICK n \in Nat : /\ PermitsAre(n)
                                   /\ Cardinality(ReadersDue) = readersWaitingCount + n
                                   /\ readersEntryCount = Cardinality(Readings) + n
                BY DEF ReadersCounted
            <3> QED BY <2>1, <3>2, <3>3, <3>4, <3>5 DEF ReadersCounted, TypeOK
        <2>8. WritersTurn'
            BY <1>1, <1>5, <2>1 DEF WritersTurn, MustWait, TypeOK
        <2> QED BY <2>2, <2>3, <2>4, <2>5, <2>6, <2>7, <2>8
    <1> QED BY <1>4, <1>5

\* KeWaitForSingleObject on the writers' event.
LEMMA WaitForWriterEventKeeps ==
    ASSUME LockInv, NEW t \in Threads, WaitForWriterEvent(t)
    PROVE  LockInv'
    <1> USE DEF LockInv
    <1>1. /\ pc[t] = "waitwriter" /\ t \notin writer /\ shares[t] = 0
          /\ UNCHANGED <<lockCount, writersWaitingCount, readersWaitingCount,
                         readersEntryCount, permits, shares, crashed>>
          /\ WriterEvent # ReaderSemaphore
        BY LockAssumption DEF WaitForWriterEvent, counters, Goto, HoldExclusive, holds,
           PlacesRight
    <1>2. t \notin SleepingWriters /\ t \notin SleepingReaders
        BY <1>1 DEF QueuesRight
    <1>3. CASE /\ Goto(t, "waitwriter", "call") /\ HoldExclusive(t)
               /\ LockObjects!TakeEvent(WriterEvent)
        <2>1. /\ pc' = [pc EXCEPT ![t] = "call"] /\ writer' = writer \union {t}
              /\ signal[WriterEvent] = 1
              /\ signal' = [signal EXCEPT ![WriterEvent] = 0] /\ waiters' = waiters
            BY <1>3 DEF Goto, HoldExclusive, LockObjects!TakeEvent, OneWriter
        <2>2. UNCHANGED <<SleepingWriters, SleepingReaders>>
            BY <2>1 DEF SleepingWriters, SleepingReaders
        <2>3. ClaimsCounted' /\ lockCount' \in Nat \union {-1}
            <3>1. \A u \in Threads : Claim(u)' = Claim(u)
                BY <1>1, <2>1 DEF Claim, TypeOK
            <3> QED BY <1>1, <3>1, ClaimsStay
        <2>4. TypeOK'
            BY <1>1, <2>1, <2>3 DEF TypeOK, PcValues
        <2>5. QueuesRight' /\ PlacesRight'
            <3>1. QueuesRight'
                BY <1>1, <1>2, <2>1, <2>2, CountsAreNat DEF QueuesRight, TypeOK
            <3>2. PlacesRight'
                BY <1>1, <1>2, <2>1, <2>2 DEF PlacesRight, TypeOK
            <3> QED BY <3>1, <3>2
        <2>6. OneWriter'
            BY <1>1, <1>2, <2>1, <2>2 DEF OneWriter, WritersToken, TypeOK
        <2>7. WritersCounted'
            <3>1. WritersDue' = WritersDue \ {t} /\ t \in WritersDue
                BY <1>1, <1>2, <2>1, <2>2 DEF WritersDue, TypeOK
            <3>2. LettingIn = 1 /\ LettingIn' = 0
                BY <1>1, <2>1 DEF LettingIn, OneWriter, WritersToken, TypeOK
            <3>3. /\ IsFiniteSet(WritersDue')
                  /\ Cardinality(WritersDue') = Cardinality(WritersDue) - 1
                BY <3>1, OneLess DEF WritersCounted
            <3> QED BY <1>1, <3>2, <3>3 DEF WritersCounted, TypeOK
        <2>8. ReadersCounted' /\ WritersTurn'
            <3>1. UNCHANGED <<ReadersDue, Readings>>
                BY <1>1, <1>2, <2>1, <2>2 DEF ReadersDue, Readings, Reading, TypeOK
            <3>2. \A n \in Nat : PermitsAre(n) => PermitsAre(n)'
                BY <1>1, <2>1 DEF PermitsAre, TypeOK
            <3> QED BY <1>1, <2>1, <3>1, <3>2 DEF ReadersCounted, WritersTurn
        <2> QED BY <2>3, <2>4, <2>5, <2>6, <2>7, <2>8
    <1>4. CASE /\ Goto(t, "waitwriter", "blockedwriter")
               /\ LockObjects!Block(WriterEvent, t) /\ UNCHANGED holds
        <2>1. /\ pc' = [pc EXCEPT ![t] = "blockedwriter"] /\ writer' = writer
              /\ signal' = signal
            BY <1>4, BlockAdds DEF Goto, holds
        <2>2. /\ SleepingWriters' = SleepingWriters \union {t}
              /\ SleepingReaders' = SleepingReaders
              /\ waiters' \in [{WriterEvent, ReaderSemaphore} -> Seq(Threads)]
              /\ \A x \in {WriterEvent, ReaderSemaphore} :
                    Distinct(waiters'[x]) /\ (signal[x] > 0 => waiters'[x] = <<>>)
            BY <1>1, <1>4, BlockAdds DEF SleepingWriters, SleepingReaders
        <2>3. ClaimsCounted' /\ lockCount' \in Nat \union {-1}
            <3>1. \A u \in Threads : Claim(u)' = Claim(u)
                BY <1>1, <2>1 DEF Claim, TypeOK
            <3> QED BY <1>1, <3>1, ClaimsStay
        <2>4. TypeOK'
            BY <1>1, <2>1, <2>2, <2>3 DEF TypeOK, PcValues
        <2>5. QueuesRight' /\ PlacesRight'
            <3>1. QueuesRight'
                BY <1>1, <1>2, <2>1, <2>2, CountsAreNat DEF QueuesRight, TypeOK
            <3>2. PlacesRight'
                BY <1>1, <1>2, <2>1, <2>2 DEF PlacesRight, TypeOK
            <3> QED BY <3>1, <3>2
        <2>6. OneWriter'
            BY <1>1, <1>2, <2>1, <2>2 DEF OneWriter, WritersToken, TypeOK
        <2>7. WritersCounted'
            <3>1. UNCHANGED <<WritersDue, LettingIn>>
                BY <1>1, <1>2, <2>1, <2>2 DEF WritersDue, LettingIn, TypeOK
            <3> QED BY <1>1, <3>1 DEF WritersCounted
        <2>8. ReadersCounted' /\ WritersTurn'
            <3>1. UNCHANGED <<ReadersDue, Readings>>
                BY <1>1, <1>2, <2>1, <2>2 DEF ReadersDue, Readings, Reading, TypeOK
            <3>2. \A n \in Nat : PermitsAre(n) => PermitsAre(n)'
                BY <1>1, <2>1 DEF PermitsAre, TypeOK
            <3> QED BY <1>1, <2>1, <3>1, <3>2 DEF ReadersCounted, WritersTurn
        <2> QED BY <2>3, <2>4, <2>5, <2>6, <2>7, <2>8
    <1> QED BY <1>3, <1>4 DEF WaitForWriterEvent

\* KeWaitForSingleObject on the readers' semaphore.
LEMMA WaitForReaderSemaphoreKeeps ==
    ASSUME LockInv, NEW t \in Threads, WaitForReaderSemaphore(t)
    PROVE  LockInv'
    <1> USE DEF LockInv
    <1>1. /\ pc[t] = "waitreader" /\ t \notin writer
          /\ UNCHANGED <<lockCount, writersWaitingCount, readersWaitingCount,
                         readersEntryCount, permits, writer, crashed>>
          /\ WriterEvent # ReaderSemaphore
        BY LockAssumption DEF WaitForReaderSemaphore, counters, Goto, HoldShared,
           holds, PlacesRight
    <1>2. t \notin SleepingWriters /\ t \notin SleepingReaders
        BY <1>1 DEF QueuesRight
    <1>3. CASE /\ Goto(t, "waitreader", "call") /\ HoldShared(t)
               /\ LockObjects!TakeSemaphore(ReaderSemaphore)
        <2>1. /\ pc' = [pc EXCEPT ![t] = "call"]
              /\ shares' = [shares EXCEPT ![t] = @ + 1]
              /\ signal[ReaderSemaphore] \in Nat \ {0}
              /\ signal' = [signal EXCEPT ![ReaderSemaphore] = @ - 1]
              /\ waiters' = waiters
            BY <1>3 DEF Goto, HoldShared, LockObjects!TakeSemaphore, TypeOK
        <2>2. UNCHANGED <<SleepingWriters, SleepingReaders>>
            BY <2>1 DEF SleepingWriters, SleepingReaders
        <2>3. ClaimsCounted' /\ lockCount' \in Nat \union {-1}
            <3>1. \A u \in Threads : Claim(u)' = Claim(u)
                BY <1>1, <2>1 DEF Claim, TypeOK
            <3> QED BY <1>1, <3>1, ClaimsStay
        <2>4. TypeOK'
            BY <1>1, <2>1, <2>3 DEF TypeOK, PcValues
        <2>5. QueuesRight' /\ PlacesRight'
            <3>1. QueuesRight'
                <4>1. \A o \in {WriterEvent, ReaderSemaphore} :
                          Distinct(waiters'[o]) /\ (signal'[o] > 0 => waiters'[o] = <<>>)
                    BY <1>1, <2>1 DEF QueuesRight, TypeOK
                <4>2. \A u \in Threads \ {t} : pc'[u] = pc[u]
                    BY <2>1 DEF TypeOK
                <4>3. pc'[t] = "call"
                    BY <2>1 DEF TypeOK
                <4> QED BY <1>2, <2>2, <4>1, <4>2, <4>3, CountsAreNat DEF QueuesRight
            <3>2. PlacesRight'
                BY <1>1, <1>2, <2>1, <2>2 DEF PlacesRight, TypeOK
            <3> QED BY <3>1, <3>2
        <2>6. OneWriter'
            BY <1>1, <1>2, <2>1, <2>2 DEF OneWriter, WritersToken, TypeOK
        <2>7. WritersCounted' /\ WritersTurn'
            <3>1. UNCHANGED <<WritersDue, LettingIn>>
                BY <1>1, <1>2, <2>1, <2>2 DEF WritersDue, LettingIn, TypeOK
            <3> QED BY <1>1, <3>1 DEF WritersCounted, WritersTurn
        <2>8. ReadersCounted'
            <3>1. PICK m \in Nat : signal[ReaderSemaphore] = m + 1
                BY <2>1
            <3>2. PICK n \in Nat : /\ PermitsAre(n)
                                   /\ Cardinality(ReadersDue) = readersWaitingCount + n
                                   /\ readersEntryCount = Cardinality(Readings) + n
                BY DEF ReadersCounted
            <3>3. n = m + 1 /\ PermitsAre(m)'
                BY <1>1, <2>1, <3>1, <3>2 DEF PermitsAre, TypeOK
            <3>4. ReadersDue' = ReadersDue \ {t} /\ t \in ReadersDue
                BY <1>1, <1>2, <2>1, <2>2 DEF ReadersDue, TypeOK
            <3>5. /\ IsFiniteSet(ReadersDue')
                  /\ Cardinality(ReadersDue') = Cardinality(ReadersDue) - 1
                BY <3>4, OneLess DEF ReadersCounted
            <3>6. /\ Reading(t)' = Reading(t) + 1
                  /\ \A u \in Threads \ {t} : Reading(u)' = Reading(u)
                BY <1>1, <1>2, <2>1, <2>2 DEF Reading, TypeOK
            <3>7. IsFiniteSet(Readings') /\ Cardinality(Readings') = Cardinality(Readings) + 1
                BY <3>6, ReadingsNext, CountsAreNat
            <3>8. /\ Cardinality(ReadersDue') = readersWaitingCount' + m
                  /\ readersEntryCount' = Cardinality(Readings') + m
                <4>1. /\ readersWaitingCount \in Nat /\ readersEntryCount \in Nat
                      /\ Cardinality(ReadersDue) \in Nat /\ Cardinality(Readings) \in Nat
                    BY CountsAreNat DEF TypeOK
                <4> QED BY <1>1, <3>2, <3>3, <3>5, <3>7, <4>1
            <3> QED BY <3>3, <3>5, <3>7, <3>8 DEF ReadersCounted
        <2> QED BY <2>3, <2>4, <2>5, <2>6, <2>7, <2>8
    <1>4. CASE /\ Goto(t, "waitreader", "blockedreader")
               /\ LockObjects!Block(ReaderSemaphore, t) /\ UNCHANGED holds
        <2>1. /\ pc' = [pc EXCEPT ![t] = "blockedreader"] /\ shares' = shares
              /\ signal' = signal
            BY <1>4, BlockAdds DEF Goto, holds
        <2>2. /\ SleepingReaders' = SleepingReaders \union {t}
              /\ SleepingWriters' = SleepingWriters
              /\ waiters' \in [{WriterEvent, ReaderSemaphore} -> Seq(Threads)]
              /\ \A x \in {WriterEvent, ReaderSemaphore} :
                    Distinct(waiters'[x]) /\ (signal[x] > 0 => waiters'[x] = <<>>)
            BY <1>1, <1>4, BlockAdds DEF SleepingWriters, SleepingReaders
        <2>3. ClaimsCounted' /\ lockCount' \in Nat \union {-1}
            <3>1. \A u \in Threads : Claim(u)' = Claim(u)
                BY <1>1, <2>1 DEF Claim, TypeOK
            <3> QED BY <1>1, <3>1, ClaimsStay
        <2>4. TypeOK'
            BY <1>1, <2>1, <2>2, <2>3 DEF TypeOK, PcValues
        <2>5. QueuesRight' /\ PlacesRight'
            <3>1. QueuesRight'
                BY <1>1, <1>2, <2>1, <2>2, CountsAreNat DEF QueuesRight, TypeOK
            <3>2. PlacesRight'
                BY <1>1, <1>2, <2>1, <2>2 DEF PlacesRight, TypeOK
            <3> QED BY <3>1, <3>2
        <2>6. OneWriter'
            BY <1>1, <1>2, <2>1, <2>2 DEF OneWriter, WritersToken, TypeOK
        <2>7. WritersCounted' /\ WritersTurn'
            <3>1. UNCHANGED <<WritersDue, LettingIn>>
                BY <1>1, <1>2, <2>1, <2>2 DEF WritersDue, LettingIn, TypeOK
            <3> QED BY <1>1, <3>1 DEF WritersCounted, WritersTurn
        <2>8. ReadersCounted'
            <3>1. UNCHANGED <<ReadersDue, Readings>>
                BY <1>1, <1>2, <2>1, <2>2 DEF ReadersDue, Readings, Reading, TypeOK
            <3>2. \A n \in Nat : PermitsAre(n) => PermitsAre(n)'
                BY <1>1, <2>1 DEF PermitsAre, TypeOK
            <3> QED BY <1>1, <2>1, <3>1, <3>2 DEF ReadersCounted
        <2> QED BY <2>3, <2>4, <2>5, <2>6, <2>7, <2>8
    <1> QED BY <1>3, <1>4 DEF WaitForReaderSemaphore

\* KeWaitForSingleObject returns, a permit having been handed to the reader.
LEMMA WaitReturnsKeeps ==
    ASSUME LockInv, NEW t \in Threads, WaitReturns(t)
    PROVE  LockInv'
    <1> USE DEF LockInv
    <1>1. /\ t \notin SleepingWriters /\ t \notin SleepingReaders /\ t \notin writer
          /\ UNCHANGED <<lockCount, writersWaitingCount, readersWaitingCount,
                         readersEntryCount, signal, waiters, permits, crashed>>
        BY WaitsInQueue DEF WaitReturns, counters, objectVars, Goto, PlacesRight
    <1>2. UNCHANGED <<SleepingWriters, SleepingReaders>>
        BY <1>1 DEF SleepingWriters, SleepingReaders
    <1>3. /\ pc[t] = "blockedreader" /\ pc' = [pc EXCEPT ![t] = "call"]
          /\ shares' = [shares EXCEPT ![t] = @ + 1] /\ writer' = writer
        BY DEF WaitReturns, Goto, HoldShared
    <1>4. ClaimsCounted' /\ lockCount' \in Nat \union {-1}
        <2>1. \A u \in Threads : Claim(u)' = Claim(u)
            BY <1>1, <1>3 DEF Claim, TypeOK
        <2> QED BY <1>1, <2>1, ClaimsStay
    <1>5. TypeOK'
        BY <1>1, <1>3, <1>4 DEF TypeOK, PcValues
    <1>6. QueuesRight'
        BY <1>1, <1>2, <1>3, CountsAreNat DEF QueuesRight, TypeOK
    <1>7. PlacesRight'
        BY <1>1, <1>3 DEF PlacesRight, TypeOK
    <1>8. OneWriter'
        BY <1>1, <1>3 DEF OneWriter, WritersToken, TypeOK
    <1>9. UNCHANGED <<WritersDue, ReadersDue, LettingIn>>
        BY <1>1, <1>2, <1>3 DEF WritersDue, ReadersDue, LettingIn, TypeOK
    <1>10. Readings' = Readings
        BY <1>1, <1>2, <1>3 DEF Readings, Reading, TypeOK
    <1>11. \A n \in Nat : PermitsAre(n) => PermitsAre(n)'
        BY <1>1, <1>3 DEF PermitsAre, TypeOK
    <1>12. WritersCounted' /\ ReadersCounted' /\ WritersTurn'
        BY <1>1, <1>9, <1>10, <1>11 DEF WritersCounted, ReadersCounted, WritersTurn
    <1> QED BY <1>4, <1>5, <1>6, <1>7, <1>8, <1>12

\* SetWriterEvent: the event is signalled for the writer that is about to wait.
LEMMA SetWriterEventKeeps ==
    ASSUME LockInv, NEW t \in Threads, SetWriterEvent(t)
    PROVE  LockInv'
    <1> USE DEF LockInv
    <1>1. /\ pc[t] = "setevent" /\ pc' = [pc EXCEPT ![t] = "call"]
          /\ t \notin writer /\ WritersToken(t) /\ signal[WriterEvent] = 0
          /\ UNCHANGED <<lockCount, writersWaitingCount, readersWaitingCount,
                         readersEntryCount, permits, writer, shares, crashed>>
          /\ WriterEvent # ReaderSemaphore
        BY LockAssumption DEF SetWriterEvent, counters, holds, Goto, PlacesRight,
           WritersToken, OneWriter
    <1>2. /\ waiters[WriterEvent] = <<>> /\ waiters' = waiters
          /\ signal' = [signal EXCEPT ![WriterEvent] = 1]
        BY DEF SetWriterEvent, LockObjects!SetSynchronization
    <1>3. UNCHANGED <<SleepingWriters, SleepingReaders>>
        BY <1>2 DEF SleepingWriters, SleepingReaders
    <1>4. ClaimsCounted' /\ lockCount' \in Nat \union {-1}
        <2>1. \A u \in Threads : Claim(u)' = Claim(u)
            BY <1>1 DEF Claim, TypeOK
        <2> QED BY <1>1, <2>1, ClaimsStay
    <1>5. TypeOK'
        BY <1>1, <1>2, <1>4 DEF TypeOK, PcValues
    <1>6. QueuesRight' /\ PlacesRight'
        <2>1. PlacesRight'
            BY <1>1 DEF PlacesRight, TypeOK
        <2>2. t \notin SleepingWriters /\ t \notin SleepingReaders
            BY <1>1 DEF QueuesRight
        <2>3. \A o \in {WriterEvent, ReaderSemaphore} :
                  Distinct(waiters'[o]) /\ (signal'[o] > 0 => waiters'[o] = <<>>)
            BY <1>1, <1>2 DEF QueuesRight, TypeOK
        <2> QED BY <1>1, <1>3, <2>1, <2>2, <2>3, CountsAreNat DEF QueuesRight, TypeOK
    <1>7. ReadersCounted' /\ WritersTurn'
        <2>1. UNCHANGED <<ReadersDue, Readings>>
            BY <1>1, <1>3 DEF ReadersDue, Readings, Reading, TypeOK
        <2>2. \A n \in Nat : PermitsAre(n) => PermitsAre(n)'
            BY <1>1, <1>2 DEF PermitsAre, TypeOK
        <2> QED BY <1>1, <2>1, <2>2 DEF ReadersCounted, WritersTurn
    <1>8. OneWriter'
        <2>1. \A u \in Threads : ~WritersToken(u)'
            BY <1>1 DEF OneWriter, WritersToken, TypeOK
        <2> QED BY <1>1, <1>2, <2>1 DEF OneWriter, TypeOK
    <1>9. WritersCounted'
        <2>1. LettingIn = 1 /\ LettingIn' = 1
            BY <1>1, <1>2 DEF LettingIn, TypeOK
        <2>2. WritersDue' = WritersDue
            BY <1>1, <1>3 DEF WritersDue, TypeOK
        <2> QED BY <1>1, <2>1, <2>2 DEF WritersCounted
    <1> QED BY <1>4, <1>5, <1>6, <1>7, <1>8, <1>9

\* ReleaseReaders: the readers are let in.
LEMMA ReleaseReadersKeeps ==
    ASSUME LockInv, NEW t \in Threads, ReleaseReaders(t)
    PROVE  LockInv'
    <1> USE DEF LockInv
    <1>1. /\ pc[t] = "releasesemaphore" /\ pc' = [pc EXCEPT ![t] = "call"]
          /\ permits' = [permits EXCEPT ![t] = 0] /\ permits[t] \in Nat
          /\ LockObjects!ReleaseSemaphore(ReaderSemaphore, permits[t])
          /\ UNCHANGED <<lockCount, writersWaitingCount, readersWaitingCount,
                         readersEntryCount, writer, shares, crashed>>
          /\ WriterEvent # ReaderSemaphore
        BY LockAssumption DEF ReleaseReaders, counters, holds, Goto, TypeOK
    <1>2. /\ waiters' \in [{WriterEvent, ReaderSemaphore} -> Seq(Threads)]
          /\ signal' \in [{WriterEvent, ReaderSemaphore} -> Nat]
          /\ waiters'[WriterEvent] = waiters[WriterEvent]
          /\ signal'[WriterEvent] = signal[WriterEvent]
          /\ Distinct(waiters'[ReaderSemaphore])
          /\ signal'[ReaderSemaphore] > 0 => waiters'[ReaderSemaphore] = <<>>
        BY <1>1, ReleaseLetsIn
    <1>3. PICK G \in SUBSET SleepingReaders :
              /\ IsFiniteSet(G)
              /\ SleepingReaders' = SleepingReaders \ G
              /\ signal'[ReaderSemaphore]
                     = signal[ReaderSemaphore] + permits[t] - Cardinality(G)
        BY <1>1, ReleaseLetsIn
    <1>4. /\ t \notin SleepingWriters /\ t \notin SleepingReaders
          /\ SleepingWriters' = SleepingWriters
          /\ \A u \in G : u \in Threads /\ pc[u] = "blockedreader" /\ u # t
        BY <1>1, <1>2, CountsAreNat DEF QueuesRight, SleepingWriters
    <1>5. ClaimsCounted' /\ lockCount' \in Nat \union {-1}
        <2>1. \A u \in Threads : Claim(u)' = Claim(u)
            BY <1>1 DEF Claim, TypeOK
        <2> QED BY <1>1, <2>1, ClaimsStay
    <1>6. TypeOK'
        BY <1>1, <1>2, <1>5 DEF TypeOK, PcValues
    <1>7. QueuesRight' /\ PlacesRight'
        <2>1. PlacesRight'
            BY <1>1 DEF PlacesRight, TypeOK
        <2>2. \A o \in {WriterEvent, ReaderSemaphore} :
                  Distinct(waiters'[o]) /\ (signal'[o] > 0 => waiters'[o] = <<>>)
            BY <1>2 DEF QueuesRight
        <2> QED BY <1>1, <1>3, <1>4, <2>1, <2>2, CountsAreNat DEF QueuesRight, TypeOK
    <1>8. OneWriter'
        BY <1>1, <1>2, <1>4 DEF OneWriter, WritersToken, TypeOK
    <1>9. WritersCounted' /\ WritersTurn'
        <2>1. UNCHANGED <<WritersDue, LettingIn>>
            BY <1>1, <1>2, <1>4 DEF WritersDue, LettingIn, TypeOK
        <2> QED BY <1>1, <2>1 DEF WritersCounted, WritersTurn
    <1>10. ReadersCounted'
        <2>1. PICK n \in Nat : /\ PermitsAre(n)
                               /\ Cardinality(ReadersDue) = readersWaitingCount + n
                               /\ readersEntryCount = Cardinality(Readings) + n
            BY DEF ReadersCounted
        <2>2. /\ n = permits[t] /\ signal[ReaderSemaphore] = 0
              /\ \A u \in Threads : pc[u] = "releasesemaphore" => u = t
            BY <1>1, <2>1 DEF PermitsAre
        <2>3. PICK m \in Nat : m = signal'[ReaderSemaphore]
            BY <1>2
        <2>4. PermitsAre(m)'
            BY <1>1, <2>2, <2>3 DEF PermitsAre, TypeOK
        <2>5. Cardinality(G) \in Nat /\ m = n - Cardinality(G)
            BY <1>1, <1>3, <2>2, <2>3, FS_CardinalityType
        <2>6. ReadersDue' = ReadersDue \ G /\ ReadersDue \intersect G = G
            BY <1>1, <1>3, <1>4 DEF ReadersDue, TypeOK
        <2>7. /\ IsFiniteSet(ReadersDue')
              /\ Cardinality(ReadersDue') = Cardinality(ReadersDue) - Cardinality(G)
            <3>1. IsFiniteSet(ReadersDue)
                BY DEF ReadersCounted
            <3>2. /\ IsFiniteSet(ReadersDue \ G)
                  /\ Cardinality(ReadersDue \ G)
                         = Cardinality(ReadersDue) - Cardinality(ReadersDue \intersect G)
                BY <3>1, FS_Difference
            <3> QED BY <2>6, <3>2
        <2>8. IsFiniteSet(Readings') /\ Cardinality(Readings') = Cardinality(Readings) + Cardinality(G)
            <3>1. \A u \in Threads : Reading(u)' = IF u \in G THEN Reading(u) + 1 ELSE Reading(u)
                BY <1>1, <1>3, <1>4 DEF Reading, TypeOK
            <3>2. /\ [u \in Threads |-> Reading(u)'] \in [Threads -> Nat]
                  /\ G \in SUBSET Threads /\ IsFiniteSet(Readings)
                BY <1>4, <3>1, CountsAreNat DEF ReadersCounted
            <3> QED BY <1>3, <3>1, <3>2, CountsAreNat, TallyGroup DEF Readings
        <2>9. /\ Cardinality(ReadersDue') = readersWaitingCount' + m
              /\ readersEntryCount' = Cardinality(Readings') + m
            <3>1. /\ readersWaitingCount \in Nat /\ readersEntryCount \in Nat
                  /\ Cardinality(ReadersDue) \in Nat /\ Cardinality(Readings) \in Nat
                BY CountsAreNat DEF TypeOK
            <3> QED BY <1>1, <2>1, <2>5, <2>7, <2>8, <3>1
        <2> QED BY <2>4, <2>7, <2>8, <2>9 DEF ReadersCounted
    <1> QED BY <1>5, <1>6, <1>7, <1>8, <1>9, <1>10

-----------------------------------------------------------------------------
(* Releasing.                                                               *)

\* A writer is alone.
LEMMA WriterFacts ==
    ASSUME LockInv, NEW t \in writer
    PROVE  /\ t \in Threads /\ shares[t] = 0 /\ pc[t] = "call"
           /\ lockCount >= 0 /\ readersEntryCount = 0
           /\ signal[WriterEvent] = 0 /\ LettingIn = 0
           /\ \A u \in Threads : WritersToken(u) => u = t
           /\ \A u \in Threads : Reading(u) = 0 /\ pc[u] # "releasesemaphore"
           /\ Cardinality(Readings) = 0 /\ signal[ReaderSemaphore] = 0
           /\ Cardinality(ReadersDue) = readersWaitingCount
    <1> USE DEF LockInv
    <1>1. t \in Threads /\ shares[t] = 0 /\ pc[t] = "call" /\ WritersToken(t)
        BY DEF TypeOK, PlacesRight, WritersToken
    <1>2. /\ lockCount >= 0 /\ readersEntryCount = 0 /\ signal[WriterEvent] = 0
          /\ \A u \in Threads : WritersToken(u) => u = t
        BY <1>1 DEF OneWriter
    <1>3. LettingIn = 0
        BY <1>1, <1>2 DEF LettingIn, WritersToken
    <1>4. PICK n \in Nat : /\ PermitsAre(n)
                           /\ Cardinality(ReadersDue) = readersWaitingCount + n
                           /\ readersEntryCount = Cardinality(Readings) + n
        BY DEF ReadersCounted
    <1>5. n = 0 /\ Cardinality(Readings) = 0 /\ readersWaitingCount \in Nat
        BY <1>2, <1>4, CountsAreNat DEF TypeOK
    <1>6. \A u \in Threads : Reading(u) = 0
        BY <1>5, CountsAreNat, TallyZero DEF Readings, ReadersCounted
    <1>7. signal[ReaderSemaphore] = 0 /\ \A u \in Threads : pc[u] # "releasesemaphore"
        BY <1>4, <1>5 DEF PermitsAre, PlacesRight, TypeOK
    <1> QED BY <1>1, <1>2, <1>3, <1>4, <1>5, <1>6, <1>7

\* While a reader is in there is no writer and none is let in.
LEMMA ReaderFacts ==
    ASSUME LockInv, NEW t \in Threads, Reading(t) > 0
    PROVE  /\ readersEntryCount > 0 /\ lockCount >= 0
           /\ signal[WriterEvent] = 0 /\ LettingIn = 0
           /\ \A u \in Threads : ~WritersToken(u)
    <1> USE DEF LockInv
    <1>1. Cardinality(Readings) # 0
        BY CountsAreNat, TallyZero DEF Readings, ReadersCounted
    <1>2. readersEntryCount > 0
        BY <1>1, CountsAreNat DEF ReadersCounted
    <1>3. signal[WriterEvent] = 0 /\ \A u \in Threads : ~WritersToken(u)
        BY <1>2 DEF OneWriter
    <1>4. LettingIn = 0
        BY <1>3 DEF LettingIn, WritersToken
    <1>5. lockCount >= 0
        BY <1>2 DEF OneWriter, TypeOK
    <1> QED BY <1>2, <1>3, <1>4, <1>5

\* The only claim, or not the only one.
LEMMA LastClaim ==
    ASSUME LockInv, NEW t \in Threads, Claim(t) > 0
    PROVE  /\ lockCount = 0 => Claim(t) = 1 /\ \A u \in Threads \ {t} : Claim(u) = 0
           /\ lockCount > 0 /\ Claim(t) = 1 => \E u \in Threads \ {t} : Claim(u) > 0
    <1>1. /\ IsFiniteSet(Claims) /\ lockCount + 1 = Cardinality(Claims)
          /\ lockCount \in Int
        BY DEF LockInv, ClaimsCounted, TypeOK
    <1>2. ASSUME lockCount = 0
          PROVE  Claim(t) = 1 /\ \A u \in Threads \ {t} : Claim(u) = 0
        <2>1. Cardinality(Claims) = 1
            BY <1>1, <1>2
        <2> QED BY <1>1, <2>1, CountsAreNat, TallyOne DEF Claims
    <1>3. ASSUME Claim(t) = 1, \A u \in Threads \ {t} : Claim(u) = 0
          PROVE  lockCount = 0
        <2>1. Cardinality(Claims) = 1
            BY <1>1, <1>3, CountsAreNat, TallyOnly DEF Claims
        <2> QED BY <1>1, <2>1
    <1> QED BY <1>2, <1>3, CountsAreNat

\* What all releases do.
LEMMA ReleaseFacts ==
    ASSUME LockInv, NEW t \in Threads, ExReleaseReadWriteLock(t)
    PROVE  /\ pc[t] = "call" /\ Claim(t) > 0
           /\ \/ t \in writer /\ writer' = writer \ {t} /\ shares' = shares
              \/ /\ t \notin writer /\ shares[t] > 0 /\ Reading(t) > 0
                 /\ shares' = [shares EXCEPT ![t] = @ - 1] /\ writer' = writer
           /\ lockCount' = lockCount - 1 /\ lockCount >= 0
           /\ UNCHANGED <<signal, waiters, SleepingWriters, SleepingReaders>>
           /\ t \notin SleepingWriters /\ t \notin SleepingReaders
           /\ pc' \in [Threads -> PcValues] /\ pc' = [pc EXCEPT ![t] = pc'[t]]
           /\ pc'[t] \in {"call", "releasesemaphore", "setevent"}
           /\ ClaimsCounted' /\ lockCount' \in Nat \union {-1} /\ QueuesRight'
           /\ writer' \subseteq Threads /\ shares' \in [Threads -> Nat]
           /\ crashed' = crashed
    <1> USE DEF LockInv
    <1>1. /\ pc[t] = "call" /\ pc' = [pc EXCEPT ![t] = pc'[t]]
          /\ pc'[t] \in {"call", "releasesemaphore", "setevent"}
          /\ crashed' = crashed
        BY DEF ExReleaseReadWriteLock, ReleaseLast, ReleaseToReaders,
           ReleaseAmongReaders, ReleaseToWriter, Goto, TypeOK
    <1>2. \/ t \in writer /\ writer' = writer \ {t} /\ shares' = shares
          \/ /\ t \notin writer /\ shares[t] > 0
             /\ shares' = [shares EXCEPT ![t] = @ - 1] /\ writer' = writer
        BY DEF ExReleaseReadWriteLock, PlacesRight
    <1>3. UNCHANGED <<signal, waiters, SleepingWriters, SleepingReaders>>
          /\ lockCount' = lockCount - 1
        BY DEF ExReleaseReadWriteLock, objectVars, SleepingWriters, SleepingReaders
    <1>4. t \notin SleepingWriters /\ t \notin SleepingReaders
        BY <1>1 DEF QueuesRight
    <1>5. /\ Claim(t) > 0 /\ Claim(t)' = Claim(t) - 1
          /\ \A u \in Threads \ {t} : Claim(u)' = Claim(u)
        BY <1>1, <1>2 DEF Claim, TypeOK
    <1>6. ClaimsCounted' /\ lockCount' \in Nat \union {-1}
        <2>1. /\ lockCount' = lockCount + (-1) /\ Claim(t)' = Claim(t) + (-1)
              /\ Claim(t) + (-1) \in Nat /\ -1 \in {-1, 0, 1}
            <3>1. lockCount \in Int /\ Claim(t) \in Nat
                BY CountsAreNat DEF TypeOK
            <3> QED BY <1>3, <1>5, <3>1
        <2> QED BY <1>5, <2>1, ClaimsNext
    <1>7. pc' \in [Threads -> PcValues] /\ QueuesRight'
        BY <1>1, <1>3, <1>4, CountsAreNat DEF QueuesRight, TypeOK, PcValues
    <1>8. lockCount >= 0
        BY <1>5, FreeFacts DEF TypeOK
    <1>9. writer' \subseteq Threads /\ shares' \in [Threads -> Nat]
        <2>1. shares \in [Threads -> Nat] /\ writer \subseteq Threads
            BY DEF TypeOK
        <2>2. CASE shares' = shares /\ writer' = writer \ {t}
            BY <2>1, <2>2
        <2>3. CASE shares[t] > 0 /\ shares' = [shares EXCEPT ![t] = @ - 1] /\ writer' = writer
            <3>1. shares[t] - 1 \in Nat
                BY <2>1, <2>3
            <3> QED BY <2>1, <2>3, <3>1
        <2> QED BY <1>2, <2>2, <2>3
    <1>10. t \notin writer /\ shares[t] > 0 => Reading(t) > 0
        BY <1>1 DEF Reading
    <1> QED BY <1>1, <1>2, <1>3, <1>4, <1>5, <1>6, <1>7, <1>8, <1>9, <1>10

\* The last claim goes.
LEMMA ReleaseLastKeeps ==
    ASSUME LockInv, NEW t \in Threads, ExReleaseReadWriteLock(t), ReleaseLast(t)
    PROVE  LockInv'
    <1> USE DEF LockInv
    <1>1. /\ lockCount = 0 /\ readersEntryCount' = 0 /\ pc' = pc
          /\ UNCHANGED <<writersWaitingCount, readersWaitingCount, permits>>
        BY DEF ReleaseLast, Goto, TypeOK
    <1>2. lockCount' = -1 /\ Claim(t) = 1 /\ \A u \in Threads \ {t} : Claim(u) = 0
        BY <1>1, ReleaseFacts, LastClaim
    <1>3. TypeOK'
        BY <1>1, ReleaseFacts DEF TypeOK
    <1>4. PlacesRight'
        BY <1>1, ReleaseFacts DEF PlacesRight, TypeOK
    <1>5. OneWriter'
        <2>1. signal[WriterEvent] = 0 /\ \A u \in Threads : ~WritersToken(u)'
            BY <1>1, ReleaseFacts, WriterFacts, ReaderFacts DEF WritersToken
        <2> QED BY <1>1, <1>2, <2>1, ReleaseFacts DEF OneWriter
    <1>6. WritersCounted' /\ WritersTurn'
        <2>1. UNCHANGED <<WritersDue, LettingIn>>
            BY <1>1, ReleaseFacts DEF WritersDue, LettingIn
        <2> QED BY <1>1, <2>1 DEF WritersCounted, WritersTurn
    <1>7. ReadersCounted'
        <2>1. \A u \in Threads : pc[u] \notin {"waitreader", "blockedreader"}
            <3> SUFFICES ASSUME NEW u \in Threads, pc[u] \in {"waitreader", "blockedreader"}
                         PROVE  FALSE
                OBVIOUS
            <3>1. u # t /\ shares[u] \in Nat
                BY ReleaseFacts DEF TypeOK
            <3>2. Claim(u) = 0
                BY <1>2, <3>1
            <3> QED BY <3>1, <3>2 DEF Claim
        <2>2. ReadersDue = {} /\ ReadersDue' = {}
            BY <1>1, <2>1, ReleaseFacts DEF ReadersDue, QueuesRight
        <2>3. PICK n \in Nat : PermitsAre(n) /\ Cardinality(ReadersDue) = readersWaitingCount + n
            BY DEF ReadersCounted
        <2>4. n = 0 /\ readersWaitingCount = 0 /\ Cardinality(ReadersDue') = 0
              /\ IsFiniteSet(ReadersDue')
            BY <2>2, <2>3, FS_EmptySet DEF TypeOK
        <2>5. PermitsAre(n)'
            BY <1>1, <2>3, ReleaseFacts DEF PermitsAre
        <2>6. \A u \in Threads : Reading(u)' = 0
            <3> SUFFICES ASSUME NEW u \in Threads PROVE Reading(u)' = 0
                OBVIOUS
            <3>1. shares'[u] = 0
                <4>1. CASE u = t
                    BY <1>2, <4>1, ReleaseFacts, WriterFacts DEF Claim, TypeOK
                <4>2. CASE u # t
                    <5>1. Claim(u) = 0
                        BY <1>2, <4>2
                    <5>2. shares'[u] = shares[u]
                        <6>1. /\ shares \in [Threads -> Nat]
                              /\ \/ shares' = shares
                                 \/ shares' = [shares EXCEPT ![t] = @ - 1]
                            BY ReleaseFacts DEF TypeOK
                        <6> QED BY <4>2, <6>1
                    <5>3. shares[u] \in Nat
                        BY DEF TypeOK
                    <5> QED BY <5>1, <5>2, <5>3 DEF Claim
                <4> QED BY <4>1, <4>2
            <3> QED BY <1>1, <2>1, <3>1 DEF Reading
        <2>7. IsFiniteSet(Readings') /\ Cardinality(Readings') = 0
            <3>1. [u \in Threads |-> Reading(u)'] \in [Threads -> Nat]
                BY <2>6
            <3> QED BY <2>6, <3>1, TallyZero DEF Readings
        <2> QED BY <1>1, <2>4, <2>5, <2>7 DEF ReadersCounted
    <1> QED BY <1>3, <1>4, <1>5, <1>6, <1>7, ReleaseFacts

\* A writer lets in all waiting readers.
LEMMA ReleaseToReadersKeeps ==
    ASSUME LockInv, NEW t \in Threads, ExReleaseReadWriteLock(t), ReleaseToReaders(t)
    PROVE  LockInv'
    <1> USE DEF LockInv
    <1>1. /\ readersEntryCount = 0 /\ readersWaitingCount \in Nat \ {0}
          /\ permits' = [permits EXCEPT ![t] = readersWaitingCount]
          /\ readersEntryCount' = readersWaitingCount /\ readersWaitingCount' = 0
          /\ pc' = [pc EXCEPT ![t] = "releasesemaphore"]
          /\ lockCount # 0 /\ writersWaitingCount' = writersWaitingCount
        BY DEF ReleaseToReaders, Goto, TypeOK
    <1>2. t \in writer /\ writer' = writer \ {t} /\ shares' = shares
        BY <1>1, ReleaseFacts, ReaderFacts
    <1>3. TypeOK'
        BY <1>1, ReleaseFacts DEF TypeOK
    <1>4. PlacesRight'
        BY <1>1, <1>2, ReleaseFacts DEF PlacesRight, TypeOK
    <1>5. OneWriter'
        <2>1. signal[WriterEvent] = 0 /\ \A u \in Threads : ~WritersToken(u)'
            <3>1. /\ signal[WriterEvent] = 0
                  /\ \A u \in Threads : WritersToken(u) => u = t
                BY <1>2, WriterFacts
            <3>2. UNCHANGED SleepingWriters
                BY ReleaseFacts
            <3>3. /\ pc'[t] = "releasesemaphore" /\ t \notin writer'
                  /\ \A u \in Threads \ {t} : pc'[u] = pc[u] /\ (u \in writer' => u \in writer)
                BY <1>1, <1>2 DEF TypeOK
            <3>4. ~WritersToken(t)'
                BY <3>3 DEF WritersToken
            <3>5. \A u \in Threads \ {t} : WritersToken(u)' => WritersToken(u)
                BY <3>2, <3>3 DEF WritersToken
            <3> QED BY <3>1, <3>4, <3>5
        <2>2. lockCount' # -1 /\ readersEntryCount' # 0
            <3>1. lockCount' = lockCount - 1 /\ lockCount >= 0
                BY ReleaseFacts
            <3> QED BY <1>1, <3>1 DEF TypeOK
        <2> QED BY <2>1, <2>2, ReleaseFacts DEF OneWriter
    <1>6. WritersCounted' /\ WritersTurn'
        <2>1. WritersDue' = WritersDue
            BY <1>1, ReleaseFacts DEF WritersDue, TypeOK
        <2>2. LettingIn' = 0 /\ LettingIn = 0
            BY <1>1, <1>2, ReleaseFacts, WriterFacts DEF LettingIn, TypeOK
        <2> QED BY <1>1, <2>1, <2>2 DEF WritersCounted, WritersTurn
    <1>7. ReadersCounted'
        <2>1. PICK m \in Nat : m = readersWaitingCount
            BY <1>1
        <2>2. PermitsAre(m)'
            <3>1. /\ signal'[ReaderSemaphore] = 0
                  /\ \A u \in Threads : pc[u] # "releasesemaphore"
                BY <1>2, ReleaseFacts, WriterFacts
            <3>2. /\ pc'[t] = "releasesemaphore" /\ m = permits'[t]
                  /\ \A u \in Threads : pc'[u] = "releasesemaphore" => u = t
                BY <1>1, <2>1, <3>1 DEF TypeOK
            <3> QED BY <3>1, <3>2 DEF PermitsAre
        <2>3. UNCHANGED <<ReadersDue, Readings>>
            BY <1>1, <1>2, ReleaseFacts DEF ReadersDue, Readings, Reading, TypeOK
        <2>4. /\ Cardinality(ReadersDue') = readersWaitingCount' + m
              /\ readersEntryCount' = Cardinality(Readings') + m
            BY <1>1, <1>2, <2>1, <2>3, WriterFacts
        <2>5. IsFiniteSet(ReadersDue) /\ IsFiniteSet(Readings)
            BY DEF ReadersCounted
        <2> QED BY <2>2, <2>3, <2>4, <2>5 DEF ReadersCounted
    <1> QED BY <1>3, <1>4, <1>5, <1>6, <1>7, ReleaseFacts

\* A reader leaves others behind.
LEMMA ReleaseAmongReadersKeeps ==
    ASSUME LockInv, NEW t \in Threads, ExReleaseReadWriteLock(t), ReleaseAmongReaders(t)
    PROVE  LockInv'
    <1> USE DEF LockInv
    <1>1. /\ lockCount # 0 /\ readersEntryCount > 1 /\ pc' = pc
          /\ readersEntryCount' = readersEntryCount - 1
          /\ UNCHANGED <<writersWaitingCount, readersWaitingCount, permits>>
        BY DEF ReleaseAmongReaders, Goto, TypeOK
    <1>2. /\ shares[t] > 0 /\ shares' = [shares EXCEPT ![t] = @ - 1]
          /\ writer' = writer /\ Reading(t) > 0
        BY <1>1, ReleaseFacts, WriterFacts
    <1>3. TypeOK'
        BY <1>1, ReleaseFacts DEF TypeOK
    <1>4. PlacesRight'
        BY <1>1, <1>2, ReleaseFacts DEF PlacesRight, TypeOK
    <1>5. OneWriter'
        <2>1. signal[WriterEvent] = 0 /\ \A u \in Threads : ~WritersToken(u)'
            BY <1>1, <1>2, ReleaseFacts, ReaderFacts DEF WritersToken
        <2>2. lockCount' # -1 /\ readersEntryCount' # 0
            <3>1. lockCount' = lockCount - 1 /\ lockCount >= 0
                BY ReleaseFacts
            <3> QED BY <1>1, <3>1 DEF TypeOK
        <2> QED BY <2>1, <2>2, ReleaseFacts DEF OneWriter
    <1>6. WritersCounted' /\ WritersTurn'
        <2>1. UNCHANGED <<WritersDue, LettingIn>>
            BY <1>1, ReleaseFacts DEF WritersDue, LettingIn
        <2> QED BY <1>1, <2>1 DEF WritersCounted, WritersTurn, TypeOK
    <1>7. ReadersCounted'
        <2>1. PICK n \in Nat : /\ PermitsAre(n)
                               /\ Cardinality(ReadersDue) = readersWaitingCount + n
                               /\ readersEntryCount = Cardinality(Readings) + n
            BY DEF ReadersCounted
        <2>2. PermitsAre(n)' /\ ReadersDue' = ReadersDue
            BY <1>1, <2>1, ReleaseFacts DEF PermitsAre, ReadersDue
        <2>3. Reading(t)' = Reading(t) - 1 /\ \A u \in Threads \ {t} : Reading(u)' = Reading(u)
            BY <1>1, <1>2, ReleaseFacts DEF Reading, TypeOK
        <2>4. IsFiniteSet(Readings') /\ Cardinality(Readings') = Cardinality(Readings) - 1
            BY <1>2, <2>3, ReadingsNext, CountsAreNat
        <2>5. IsFiniteSet(ReadersDue)
            BY DEF ReadersCounted
        <2>6. readersEntryCount' = Cardinality(Readings') + n
            BY <1>1, <2>1, <2>4, CountsAreNat
        <2> QED BY <1>1, <2>1, <2>2, <2>4, <2>5, <2>6 DEF ReadersCounted
    <1> QED BY <1>3, <1>4, <1>5, <1>6, <1>7, ReleaseFacts

\* The next writer is let in: the writer that was in goes and no reader waits,
\* or the last reader goes.
LEMMA ReleaseToWriterKeeps ==
    ASSUME LockInv, NEW t \in Threads, ExReleaseReadWriteLock(t), ReleaseToWriter(t)
    PROVE  LockInv'
    <1> USE DEF LockInv
    <1>1. /\ lockCount # 0 /\ pc' = [pc EXCEPT ![t] = "setevent"] /\ pc[t] = "call"
          /\ writersWaitingCount' = writersWaitingCount - 1 /\ readersEntryCount' = 0
          /\ \/ readersEntryCount = 0 /\ readersWaitingCount = 0
             \/ readersEntryCount = 1
          /\ readersWaitingCount' = readersWaitingCount /\ permits' = permits
        BY DEF ReleaseToWriter, Goto, TypeOK
    <1>2. /\ lockCount > 0 /\ lockCount' \in Nat
          /\ UNCHANGED <<signal, waiters, SleepingWriters, SleepingReaders>>
          /\ t \notin SleepingWriters /\ t \notin SleepingReaders
        BY <1>1, ReleaseFacts DEF TypeOK
    <1>3. /\ \/ /\ t \in writer /\ writer' = writer \ {t} /\ shares' = shares
                /\ readersEntryCount = 0 /\ readersWaitingCount = 0
             \/ /\ t \notin writer /\ shares[t] > 0 /\ Reading(t) > 0
                /\ shares' = [shares EXCEPT ![t] = @ - 1] /\ writer' = writer
                /\ readersEntryCount = 1
          /\ shares \in [Threads -> Nat]
        <2>1. CASE t \in writer
            BY <1>1, <2>1, ReleaseFacts, WriterFacts DEF TypeOK
        <2>2. CASE t \notin writer
            BY <1>1, <2>2, ReleaseFacts, ReaderFacts DEF TypeOK
        <2> QED BY <2>1, <2>2
    \* Before the step nobody but "t" has the lock.
    <1>4. /\ signal[WriterEvent] = 0 /\ LettingIn = 0
          /\ \A u \in Threads : WritersToken(u) => u = t
          /\ t \notin writer' /\ Claim(t) = 1
        <2>1. CASE t \in writer
            <3>1. shares[t] = 0
                BY <2>1, WriterFacts
            <3> QED BY <1>1, <1>3, <2>1, <3>1, WriterFacts DEF Claim
        <2>2. CASE t \notin writer
            <3>1. readersEntryCount = 1 /\ Reading(t) > 0 /\ writer' = writer
                BY <1>3, <2>2
            <3>2. Cardinality(Readings) = 1
                <4>1. Cardinality(Readings) # 0
                    BY <3>1, CountsAreNat, TallyZero DEF Readings, ReadersCounted
                <4> QED BY <3>1, <4>1, CountsAreNat DEF ReadersCounted
            <3>3. Reading(t) = 1
                BY <3>1, <3>2, CountsAreNat, TallyOne DEF Readings, ReadersCounted
            <3>4. Claim(t) = 1
                BY <1>1, <1>3, <2>2, <3>3 DEF Claim, Reading
            <3> QED BY <2>2, <3>1, <3>4, ReaderFacts
        <2> QED BY <2>1, <2>2
    <1>5. PICK n \in Nat : /\ PermitsAre(n)
                           /\ Cardinality(ReadersDue) = readersWaitingCount + n
                           /\ readersEntryCount = Cardinality(Readings) + n
        BY DEF ReadersCounted
    <1>6. n = 0 /\ (t \in writer => Cardinality(Readings) = 0)
                /\ (t \notin writer => Cardinality(Readings) = 1)
        <2>1. CASE t \in writer
            BY <1>3, <1>5, <2>1, CountsAreNat, WriterFacts
        <2>2. CASE t \notin writer
            <3>1. Cardinality(Readings) # 0
                BY <1>3, <2>2, CountsAreNat, TallyZero DEF Readings, ReadersCounted
            <3> QED BY <1>3, <1>5, <2>2, <3>1, CountsAreNat
        <2> QED BY <2>1, <2>2
    <1>7. \A u \in Threads \ {t} : Reading(u) = 0
        <2>1. CASE t \in writer
            BY <2>1, WriterFacts
        <2>2. CASE t \notin writer
            BY <1>3, <1>6, <2>2, CountsAreNat, TallyOne DEF Readings, ReadersCounted
        <2> QED BY <2>1, <2>2
    \* Another has a claim, and nobody but a writer can have it.
    <1>8. PICK u \in Threads \ {t} : Claim(u) > 0
        BY <1>2, <1>4, LastClaim
    <1>9. writersWaitingCount > 0
        <2>1. shares[u] = 0 /\ u \notin writer
            BY <1>4, <1>7, <1>8 DEF Reading, WritersToken, TypeOK
        <2>2. pc[u] \in {"waitwriter", "blockedwriter", "waitreader", "blockedreader"}
            BY <1>8, <2>1 DEF Claim
        <2>3. CASE pc[u] \in {"waitwriter", "blockedwriter"}
            <3>1. u \in WritersDue
                BY <2>3 DEF WritersDue, QueuesRight
            <3>2. Cardinality(WritersDue) # 0
                BY <3>1, FS_EmptySet DEF WritersCounted
            <3> QED BY <1>4, <3>2 DEF WritersCounted, TypeOK
        <2>4. CASE pc[u] \in {"waitreader", "blockedreader"}
            <3>1. u \in ReadersDue
                BY <1>7, <2>1, <2>4 DEF ReadersDue, Reading
            <3>2. Cardinality(ReadersDue) # 0
                BY <3>1, FS_EmptySet DEF ReadersCounted
            <3>3. readersWaitingCount > 0
                BY <1>5, <1>6, <3>2 DEF TypeOK
            <3> QED BY <1>3, <3>3 DEF WritersTurn
        <2> QED BY <2>2, <2>3, <2>4
    <1>10. TypeOK'
        <2>1. writersWaitingCount' \in Nat
            BY <1>1, <1>9 DEF TypeOK
        <2> QED BY <1>1, <1>2, <2>1, ReleaseFacts DEF TypeOK
    <1>11. PlacesRight'
        <2>1. shares'[t] = 0
            BY <1>1, <1>3, <1>4 DEF Claim, TypeOK
        <2> QED BY <1>1, <1>3, <2>1 DEF PlacesRight, TypeOK
    <1>12. OneWriter'
        <2>1. \A x \in Threads : WritersToken(x)' <=> x = t
            BY <1>1, <1>2, <1>3, <1>4 DEF WritersToken, TypeOK
        <2> QED BY <1>1, <1>2, <1>4, <2>1 DEF OneWriter
    <1>13. WritersCounted' /\ WritersTurn'
        <2>1. WritersDue' = WritersDue
            BY <1>1, <1>2 DEF WritersDue, TypeOK
        <2>2. LettingIn' = 1
            BY <1>1 DEF LettingIn, TypeOK
        <2> QED BY <1>1, <1>4, <2>1, <2>2 DEF WritersCounted, WritersTurn, TypeOK
    <1>14. ReadersCounted'
        <2>1. PermitsAre(n)' /\ ReadersDue' = ReadersDue
            BY <1>1, <1>2, <1>5 DEF PermitsAre, ReadersDue, TypeOK
        <2>2. \A x \in Threads : Reading(x)' = 0
            <3>1. CASE t \in writer
                BY <1>1, <1>2, <1>3, <3>1, WriterFacts DEF Reading, TypeOK
            <3>2. CASE t \notin writer
                <4>1. shares[t] = 1
                    BY <1>1, <1>3, <1>4, <3>2 DEF Claim
                <4> QED BY <1>1, <1>2, <1>3, <1>7, <3>2, <4>1 DEF Reading, TypeOK
            <3> QED BY <3>1, <3>2
        <2>3. IsFiniteSet(Readings') /\ Cardinality(Readings') = 0
            <3>1. [x \in Threads |-> Reading(x)'] \in [Threads -> Nat]
                BY <2>2
            <3> QED BY <2>2, <3>1, TallyZero DEF Readings
        <2>4. IsFiniteSet(ReadersDue)
            BY DEF ReadersCounted
        <2> QED BY <1>1, <1>5, <1>6, <2>1, <2>3, <2>4 DEF ReadersCounted
    <1> QED BY <1>2, <1>10, <1>11, <1>12, <1>13, <1>14, ReleaseFacts

-----------------------------------------------------------------------------
(* The theorems.                                                            *)

\* A new lock is free.
LEMMA LockInit ==
    Init => LockInv
    <1> SUFFICES ASSUME Init PROVE LockInv
        OBVIOUS
    <1>1. /\ lockCount = -1 /\ writersWaitingCount = 0 /\ readersWaitingCount = 0
          /\ readersEntryCount = 0 /\ writer = {}
          /\ signal[WriterEvent] = 0 /\ signal[ReaderSemaphore] = 0
          /\ \A o \in {WriterEvent, ReaderSemaphore} : waiters[o] = <<>>
          /\ \A t \in Threads : pc[t] = "call" /\ permits[t] = 0 /\ shares[t] = 0
        BY DEF Init
    <1>2. SleepingWriters = {} /\ SleepingReaders = {}
        BY <1>1, EmptyMembers DEF SleepingWriters, SleepingReaders
    <1>3. TypeOK
        <2>1. crashed \in BOOLEAN
            BY DEF Init
        <2>2. signal \in [{WriterEvent, ReaderSemaphore} -> Nat]
              /\ waiters \in [{WriterEvent, ReaderSemaphore} -> Seq(Threads)]
            BY DEF Init
        <2>3. pc \in [Threads -> PcValues] /\ permits \in [Threads -> Nat]
              /\ shares \in [Threads -> Nat]
            BY DEF Init, PcValues
        <2> QED BY <1>1, <2>1, <2>2, <2>3 DEF TypeOK
    <1>4. QueuesRight /\ PlacesRight
        BY <1>1, <1>2, EmptyMembers DEF QueuesRight, PlacesRight
    <1>5. OneWriter /\ LettingIn = 0 /\ WritersTurn
        BY <1>1, <1>2 DEF OneWriter, WritersToken, LettingIn, WritersTurn
    <1>6. WritersCounted
        <2>1. WritersDue = {}
            BY <1>1, <1>2 DEF WritersDue
        <2> QED BY <1>1, <1>5, <2>1, FS_EmptySet DEF WritersCounted
    <1>7. ClaimsCounted
        <2>1. /\ \A t \in Threads : Claim(t) = 0
              /\ [t \in Threads |-> Claim(t)] \in [Threads -> Nat]
            BY <1>1 DEF Claim
        <2>2. IsFiniteSet(Claims) /\ Cardinality(Claims) = 0
            BY <2>1, TallyZero DEF Claims
        <2> QED BY <1>1, <2>2 DEF ClaimsCounted
    <1>8. ReadersCounted
        <2>1. ReadersDue = {}
            BY <1>1, <1>2 DEF ReadersDue
        <2>2. /\ \A t \in Threads : Reading(t) = 0
              /\ [t \in Threads |-> Reading(t)] \in [Threads -> Nat]
            BY <1>1 DEF Reading
        <2>3. IsFiniteSet(Readings) /\ Cardinality(Readings) = 0
            BY <2>2, TallyZero DEF Readings
        <2>4. PermitsAre(0)
            BY <1>1 DEF PermitsAre
        <2> QED BY <1>1, <2>1, <2>3, <2>4, FS_EmptySet DEF ReadersCounted
    <1> QED BY <1>3, <1>4, <1>5, <1>6, <1>7, <1>8 DEF LockInv

\* A step that leaves the lock alone: any other step of the system, or a call
\* of KeSetEvent that brings the machine down.
LEMMA LockStutters ==
    ASSUME LockInv, UNCHANGED <<counters, objectVars, pc, permits, holds>>,
           crashed' \in BOOLEAN
    PROVE  LockInv'
    <1>1. UNCHANGED <<lockCount, writersWaitingCount, readersWaitingCount,
                      readersEntryCount, signal, waiters, pc, permits, writer, shares>>
        BY DEF counters, objectVars, holds
    <1>2. /\ UNCHANGED <<SleepingWriters, SleepingReaders>>
          /\ \A t : UNCHANGED <<Claim(t), WritersToken(t)>>
        BY <1>1 DEF SleepingWriters, SleepingReaders, Claim, WritersToken
    <1>3. \A t : UNCHANGED Reading(t)
        BY <1>1, <1>2 DEF Reading
    <1>4. UNCHANGED <<Claims, Readings, WritersDue, ReadersDue, LettingIn>>
        BY <1>1, <1>2, <1>3 DEF Claims, Readings, WritersDue, ReadersDue, LettingIn
    <1>5. \A n \in Nat : PermitsAre(n) => PermitsAre(n)'
        BY <1>1 DEF PermitsAre
    <1>6. TypeOK' /\ PlacesRight' /\ WritersTurn' /\ OneWriter'
        BY <1>1, <1>2 DEF LockInv, TypeOK, PlacesRight, WritersTurn, OneWriter
    <1>7. QueuesRight'
        BY <1>1, <1>2 DEF LockInv, QueuesRight
    <1>8. ClaimsCounted' /\ WritersCounted' /\ ReadersCounted'
        BY <1>1, <1>4, <1>5 DEF LockInv, ClaimsCounted, WritersCounted, ReadersCounted
    <1> QED BY <1>6, <1>7, <1>8 DEF LockInv

\* Every step of every thread keeps the counters right.
LEMMA LockNext ==
    LockInv /\ [Next]_rwVars => LockInv'
    <1> SUFFICES ASSUME LockInv, [Next]_rwVars PROVE LockInv'
        OBVIOUS
    <1>1. CASE UNCHANGED rwVars
        BY <1>1, LockStutters DEF rwVars, LockInv, TypeOK
    <1>2. ASSUME NEW t \in Threads, Acquire(t) PROVE LockInv'
        BY <1>2, AcquireExclusiveKeeps, AcquireSharedKeeps DEF Acquire
    <1>3. ASSUME NEW t \in Threads, ExReleaseReadWriteLock(t) PROVE LockInv'
        <2>1. ReleaseLast(t) \/ ReleaseToReaders(t) \/ ReleaseAmongReaders(t) \/ ReleaseToWriter(t)
            BY <1>3 DEF ExReleaseReadWriteLock
        <2> QED BY <1>3, <2>1, ReleaseLastKeeps, ReleaseToReadersKeeps,
                   ReleaseAmongReadersKeeps, ReleaseToWriterKeeps
    <1>4. ASSUME NEW t \in Threads, Proceed(t) PROVE LockInv'
        <2>1. CASE SetEventOfSleepers(t)
            BY <2>1, LockStutters DEF SetEventOfSleepers
        <2> QED BY <1>4, <2>1, WaitForWriterEventKeeps, WaitForReaderSemaphoreKeeps,
                   WaitReturnsKeeps, ReleaseReadersKeeps, SetWriterEventKeeps DEF Proceed
    <1> QED BY <1>1, <1>2, <1>3, <1>4 DEF Next

\* The counters of the lock agree with the threads at any time.
THEOREM LockInvariant ==
    Spec => []LockInv
    BY LockInit, LockNext, PTL DEF Spec

\* What there is of the lock is a writer's or the readers'.
LEMMA LockExcludes ==
    LockInv => Exclusion
    <1> SUFFICES ASSUME LockInv PROVE Exclusion
        OBVIOUS
    <1>1. \A t \in Threads : /\ Writes(t) => WritersToken(t)
                             /\ Reads(t) => Reading(t) > 0
        <2> SUFFICES ASSUME NEW t \in Threads
                     PROVE  (Writes(t) => WritersToken(t)) /\ (Reads(t) => Reading(t) > 0)
            OBVIOUS
        <2>1. shares[t] \in Nat
            BY DEF LockInv, TypeOK
        <2> QED BY <2>1, WaitsInQueue DEF Writes, Reads, WritersToken, Reading
    <1>2. \A t, u \in Threads : ~(WritersToken(t) /\ Reading(u) > 0)
        BY ReaderFacts
    <1>3. \A t, u \in Threads : WritersToken(t) /\ WritersToken(u) => t = u
        BY DEF LockInv, OneWriter
    <1>4. TypeOK
        BY DEF LockInv
    <1> QED BY <1>1, <1>2, <1>3, <1>4 DEF Exclusion

\* A writer has the lock alone.
THEOREM LockExclusion ==
    Spec => []Exclusion
    BY LockInvariant, LockExcludes, PTL

\* The lock of a sleeper is had, or on its way to somebody.
LEMMA LockRemembers ==
    LockInv => NotForgotten
    <1> SUFFICES ASSUME LockInv, NEW s \in Threads, LockObjects!Waits(s)
                 PROVE  \/ \E t \in Threads : Writes(t) \/ Reads(t)
                        \/ InFlight(WriterEvent, "setevent", "waitwriter", "blockedwriter")
                        \/ InFlight(ReaderSemaphore, "releasesemaphore", "waitreader",
                                    "blockedreader")
        BY DEF NotForgotten
    <1> USE DEF LockInv
    <1>1. pc[s] \in {"blockedwriter", "blockedreader"} /\ lockCount >= 0
        <2>1. pc[s] \in {"blockedwriter", "blockedreader"}
            BY WaitsInQueue DEF QueuesRight
        <2>2. Claim(s) # 0
            BY <2>1 DEF Claim, TypeOK
        <2> QED BY <2>1, <2>2, FreeFacts DEF TypeOK
    <1>2. CASE readersEntryCount = 0
        <2>1. signal[WriterEvent] = 1 \/ \E t \in Threads : WritersToken(t)
            BY <1>1, <1>2 DEF OneWriter
        <2>2. CASE \E t \in Threads : WritersToken(t) /\ pc[t] # "setevent"
            <3>1. PICK t \in Threads : WritersToken(t) /\ pc[t] # "setevent"
                BY <2>2
            <3>2. Writes(t)
                BY <3>1 DEF Writes, WritersToken
            <3> QED BY <3>2
        <2>3. CASE signal[WriterEvent] = 1 \/ \E t \in Threads : pc[t] = "setevent"
            <3>1. LettingIn = 1
                BY <2>3 DEF LettingIn
            <3>2. WritersDue # {}
                <4>1. Cardinality(WritersDue) # 0
                    BY <3>1, CountsAreNat DEF WritersCounted, TypeOK
                <4> QED BY <4>1, FS_EmptySet
            <3>3. PICK w \in Threads : pc[w] = "waitwriter" \/ w \in SleepingWriters
                BY <3>2 DEF WritersDue
            <3>4. CASE signal[WriterEvent] = 1
                <4>1. SleepingWriters = {}
                    BY <3>4, EmptyMembers DEF QueuesRight, SleepingWriters
                <4> QED BY <3>3, <3>4, <4>1 DEF InFlight
            <3>5. CASE \E t \in Threads : pc[t] = "setevent"
                <4>1. pc[w] \in {"waitwriter", "blockedwriter"}
                    BY <3>3 DEF QueuesRight
                <4> QED BY <3>5, <4>1 DEF InFlight
            <3> QED BY <2>3, <3>4, <3>5
        <2> QED BY <2>1, <2>2, <2>3
    <1>3. CASE readersEntryCount > 0
        <2>1. PICK n \in Nat : /\ PermitsAre(n)
                               /\ Cardinality(ReadersDue) = readersWaitingCount + n
                               /\ readersEntryCount = Cardinality(Readings) + n
            BY DEF ReadersCounted
        <2>2. CASE \E t \in Threads : Reading(t) > 0
            <3>1. PICK t \in Threads : Reading(t) > 0
                BY <2>2
            <3>2. Reads(t)
                BY <3>1, WaitsInQueue DEF Reads, Reading, QueuesRight
            <3> QED BY <3>2
        <2>3. CASE \A t \in Threads : ~(Reading(t) > 0)
            <3>1. \A t \in Threads : Reading(t) = 0
                BY <2>3, CountsAreNat
            <3>2. Cardinality(Readings) = 0
                BY <3>1, CountsAreNat, TallyZero DEF Readings
            <3>3. n > 0 /\ Cardinality(ReadersDue) # 0
                BY <1>3, <2>1, <3>2 DEF TypeOK
            <3>4. PICK r \in Threads : pc[r] = "waitreader" \/ r \in SleepingReaders
                BY <3>3, FS_EmptySet DEF ReadersDue
            <3>5. CASE \E t \in Threads : pc[t] = "releasesemaphore"
                <4>1. pc[r] \in {"waitreader", "blockedreader"}
                    BY <3>4 DEF QueuesRight
                <4> QED BY <3>5, <4>1 DEF InFlight
            <3>6. CASE \A t \in Threads : pc[t] # "releasesemaphore"
                <4>1. signal[ReaderSemaphore] > 0
                    BY <2>1, <3>3, <3>6 DEF PermitsAre
                <4>2. SleepingReaders = {}
                    BY <4>1, EmptyMembers DEF QueuesRight, SleepingReaders
                <4> QED BY <3>4, <4>1, <4>2 DEF InFlight
            <3> QED BY <3>5, <3>6
        <2> QED BY <2>2, <2>3
    <1> QED BY <1>2, <1>3 DEF TypeOK

\* Nobody sleeps in ExAcquireReadWriteLockExclusive or -Shared for a lock that
\* nobody has and that no thread is on its way to let anybody into: no release
\* misjudges from the counters whom to call KeSetEvent or KeReleaseSemaphore
\* for.  For a sleeping writer that call is the machine's last.
THEOREM LockNotForgotten ==
    Spec => []NotForgotten
    BY LockInvariant, LockRemembers, PTL
=============================================================================
