--------------------------- MODULE IoFileProofs ---------------------------
(***************************************************************************)
(* Proofs about the file objects of IoFile, for any number of threads,     *)
(* files and names and any rights asked for: what the counts count, who    *)
(* has the lock, when a file object may be freed, and that sharing is      *)
(* enforced by counts that are exact.                                      *)
(*                                                                         *)
(* The steps a thread has left are one of 35 lists.  The proofs give each  *)
(* list a name, its phase, and follow the phase and the file of every      *)
(* thread in place of the lists: what a list promises to do is then a fact *)
(* about its name.                                                         *)
(***************************************************************************)
EXTENDS IoFile, ListLemmas

-----------------------------------------------------------------------------
(* Lists of a few steps.                                                     *)

\* Few members make a list.
LEMMA TuplesAreLists ==
    ASSUME NEW S
    PROVE  /\ \A a \in S : <<a>> \in Seq(S)
           /\ \A a, b \in S : <<a, b>> \in Seq(S)
           /\ \A a, b, c \in S : <<a, b, c>> \in Seq(S)
           /\ \A a, b, c, d \in S : <<a, b, c, d>> \in Seq(S)
           /\ \A a, b, c, d, e \in S : <<a, b, c, d, e>> \in Seq(S)
<1>1. \A a, b, c, d \in S : <<a, b, c, d>> \in Seq(S)
  OBVIOUS
<1>2. \A a, b, c, d, e \in S : <<a, b, c, d, e>> \in Seq(S)
  OBVIOUS
<1> QED BY <1>1, <1>2

\* What a list is that has one list's members and then another's.
LEMMA Joined ==
    ASSUME NEW S, NEW q \in Seq(S), NEW r \in Seq(S), NEW s \in Seq(S),
           Len(s) = Len(q) + Len(r), \A i \in 1..Len(q) : s[i] = q[i],
           \A i \in 1..Len(r) : s[Len(q) + i] = r[i]
    PROVE  q \o r = s
<1>1. /\ q \o r \in Seq(S) /\ Len(q \o r) = Len(s) /\ Len(q) \in Nat /\ Len(r) \in Nat
      /\ \A i \in 1..(Len(q) + Len(r)) :
            (q \o r)[i] = IF i <= Len(q) THEN q[i] ELSE r[i - Len(q)]
  BY ConcatProperties
<1>2. ASSUME NEW i \in 1..Len(q \o r) PROVE (q \o r)[i] = s[i]
  <2>1. CASE i <= Len(q)
    BY <1>1, <2>1
  <2>2. CASE i > Len(q)
    <3>1. i - Len(q) \in 1..Len(r) /\ Len(q) + (i - Len(q)) = i
      BY <1>1, <2>2
    <3> QED BY <1>1, <2>2, <3>1
  <2> QED BY <1>1, <2>1, <2>2
<1> QED BY <1>1, <1>2, SeqEqual

\* One step put in front.
LEMMA OneInFront ==
    ASSUME NEW S
    PROVE  /\ \A a, b \in S : <<a>> \o <<b>> = <<a, b>>
           /\ \A a, b, c \in S : <<a>> \o <<b, c>> = <<a, b, c>>
           /\ \A a, b, c, d \in S : <<a>> \o <<b, c, d>> = <<a, b, c, d>>
           /\ \A a, b, c, d, e \in S : <<a>> \o <<b, c, d, e>> = <<a, b, c, d, e>>
<1>1. ASSUME NEW a \in S, NEW b \in S
      PROVE  <<a>> \o <<b>> = <<a, b>>
  <2> DEFINE q == <<a>>
             r == <<b>>
             s == <<a, b>>
  <2>1. q \in Seq(S) /\ r \in Seq(S) /\ s \in Seq(S)
    BY TuplesAreLists
  <2>2. Len(q) = 1 /\ Len(r) = 1 /\ Len(s) = 2
    OBVIOUS
  <2>3. \A i \in 1..1 : s[i] = q[i]
    OBVIOUS
  <2>4. \A i \in 1..1 : s[1 + i] = r[i]
    OBVIOUS
  <2> HIDE DEF q, r, s
  <2>5. /\ Len(s) = Len(q) + Len(r)
        /\ \A i \in 1..Len(q) : s[i] = q[i]
        /\ \A i \in 1..Len(r) : s[Len(q) + i] = r[i]
    BY <2>2, <2>3, <2>4
  <2>6. q \o r = s
    BY <2>1, <2>5, Joined
  <2> QED BY <2>6 DEF q, r, s
<1>2. ASSUME NEW a \in S, NEW b \in S, NEW c \in S
      PROVE  <<a>> \o <<b, c>> = <<a, b, c>>
  <2> DEFINE q == <<a>>
             r == <<b, c>>
             s == <<a, b, c>>
  <2>1. q \in Seq(S) /\ r \in Seq(S) /\ s \in Seq(S)
    BY TuplesAreLists
  <2>2. Len(q) = 1 /\ Len(r) = 2 /\ Len(s) = 3
    OBVIOUS
  <2>3. \A i \in 1..1 : s[i] = q[i]
    OBVIOUS
  <2>4. \A i \in 1..2 : s[1 + i] = r[i]
    OBVIOUS
  <2> HIDE DEF q, r, s
  <2>5. /\ Len(s) = Len(q) + Len(r)
        /\ \A i \in 1..Len(q) : s[i] = q[i]
        /\ \A i \in 1..Len(r) : s[Len(q) + i] = r[i]
    BY <2>2, <2>3, <2>4
  <2>6. q \o r = s
    BY <2>1, <2>5, Joined
  <2> QED BY <2>6 DEF q, r, s
<1>3. ASSUME NEW a \in S, NEW b \in S, NEW c \in S, NEW d \in S
      PROVE  <<a>> \o <<b, c, d>> = <<a, b, c, d>>
  <2> DEFINE q == <<a>>
             r == <<b, c, d>>
             s == <<a, b, c, d>>
  <2>1. q \in Seq(S) /\ r \in Seq(S) /\ s \in Seq(S)
    BY TuplesAreLists
  <2>2. Len(q) = 1 /\ Len(r) = 3 /\ Len(s) = 4
    OBVIOUS
  <2>3. \A i \in 1..1 : s[i] = q[i]
    OBVIOUS
  <2>4. \A i \in 1..3 : s[1 + i] = r[i]
    OBVIOUS
  <2> HIDE DEF q, r, s
  <2>5. /\ Len(s) = Len(q) + Len(r)
        /\ \A i \in 1..Len(q) : s[i] = q[i]
        /\ \A i \in 1..Len(r) : s[Len(q) + i] = r[i]
    BY <2>2, <2>3, <2>4
  <2>6. q \o r = s
    BY <2>1, <2>5, Joined
  <2> QED BY <2>6 DEF q, r, s
<1>4. ASSUME NEW a \in S, NEW b \in S, NEW c \in S, NEW d \in S, NEW e \in S
      PROVE  <<a>> \o <<b, c, d, e>> = <<a, b, c, d, e>>
  <2> DEFINE q == <<a>>
             r == <<b, c, d, e>>
             s == <<a, b, c, d, e>>
  <2>1. q \in Seq(S) /\ r \in Seq(S) /\ s \in Seq(S)
    BY TuplesAreLists
  <2>2. Len(q) = 1 /\ Len(r) = 4 /\ Len(s) = 5
    OBVIOUS
  <2>3. \A i \in 1..1 : s[i] = q[i]
    OBVIOUS
  <2>4. \A i \in 1..4 : s[1 + i] = r[i]
    OBVIOUS
  <2> HIDE DEF q, r, s
  <2>5. /\ Len(s) = Len(q) + Len(r)
        /\ \A i \in 1..Len(q) : s[i] = q[i]
        /\ \A i \in 1..Len(r) : s[Len(q) + i] = r[i]
    BY <2>2, <2>3, <2>4
  <2>6. q \o r = s
    BY <2>1, <2>5, Joined
  <2> QED BY <2>6 DEF q, r, s
<1> QED BY <1>1, <1>2, <1>3, <1>4

\* Three steps put in front of one.
LEMMA ThreeInFront ==
    ASSUME NEW S, NEW a \in S, NEW b \in S, NEW c \in S, NEW d \in S
    PROVE  <<a, b, c>> \o <<d>> = <<a, b, c, d>>
<1> DEFINE q == <<a, b, c>>
           r == <<d>>
           s == <<a, b, c, d>>
<1>1. q \in Seq(S) /\ r \in Seq(S) /\ s \in Seq(S)
  BY TuplesAreLists
<1>2. Len(q) = 3 /\ Len(r) = 1 /\ Len(s) = 4
  OBVIOUS
<1>3. \A i \in 1..3 : s[i] = q[i]
  OBVIOUS
<1>4. \A i \in 1..1 : s[3 + i] = r[i]
  OBVIOUS
<1> HIDE DEF q, r, s
<1>5. /\ Len(s) = Len(q) + Len(r)
      /\ \A i \in 1..Len(q) : s[i] = q[i]
      /\ \A i \in 1..Len(r) : s[Len(q) + i] = r[i]
  BY <1>2, <1>3, <1>4
<1>6. q \o r = s
  BY <1>1, <1>5, Joined
<1> QED BY <1>6 DEF q, r, s

\* Four steps put in front of one.
LEMMA FourInFront ==
    ASSUME NEW S, NEW a \in S, NEW b \in S, NEW c \in S, NEW d \in S, NEW e \in S
    PROVE  <<a, b, c, d>> \o <<e>> = <<a, b, c, d, e>>
<1> DEFINE q == <<a, b, c, d>>
           r == <<e>>
           s == <<a, b, c, d, e>>
<1>1. q \in Seq(S) /\ r \in Seq(S) /\ s \in Seq(S)
  BY TuplesAreLists
<1>2. Len(q) = 4 /\ Len(r) = 1 /\ Len(s) = 5
  OBVIOUS
<1>3. \A i \in 1..4 : s[i] = q[i]
  OBVIOUS
<1>4. \A i \in 1..1 : s[4 + i] = r[i]
  OBVIOUS
<1> HIDE DEF q, r, s
<1>5. /\ Len(s) = Len(q) + Len(r)
      /\ \A i \in 1..Len(q) : s[i] = q[i]
      /\ \A i \in 1..Len(r) : s[Len(q) + i] = r[i]
  BY <1>2, <1>3, <1>4
<1>6. q \o r = s
  BY <1>1, <1>5, Joined
<1> QED BY <1>6 DEF q, r, s

-----------------------------------------------------------------------------
(* Phases.                                                                  *)

\* The steps left in a phase.
Plan(x, f) ==
    CASE x = "idle" -> <<>>
      [] x = "parse" -> <<Step("parse", f)>>
      [] x = "lockdevice" -> <<Step("lockdevice", f), Step("mount", f), Step("parse", f)>>
      [] x = "mount" -> <<Step("mount", f), Step("parse", f)>>
      [] x = "giveup" -> <<Step("volume", f)>>
      [] x = "create" -> <<Step("create", f)>>
      [] x = "handle" -> <<Step("handle", f), Step("created", f), Step("deref", f)>>
      [] x = "created" -> <<Step("created", f), Step("deref", f)>>
      [] x = "refused" -> <<Step("deref", f), Step("volume", NoInfo)>>
      [] x = "refusedFree" -> <<Step("free", f), Step("volume", NoInfo)>>
      [] x = "readAcquire" -> <<Step("acquire", f), Step("transfer", f),
                                Step("deref", f), Step("release", f)>>
      [] x = "readWait" -> <<Step("wait", f), Step("transfer", f),
                             Step("deref", f), Step("release", f)>>
      [] x = "read" -> <<Step("transfer", f), Step("deref", f), Step("release", f)>>
      [] x = "readDone" -> <<Step("deref", f), Step("release", f)>>
      [] x = "readRelease" -> <<Step("release", f)>>
      [] x = "lastSignal" -> <<Step("signal", f)>>
      [] x = "queryAcquire" -> <<Step("acquire", f), Step("transfer", f),
                                 Step("release", f), Step("deref", f)>>
      [] x = "queryWait" -> <<Step("wait", f), Step("transfer", f),
                              Step("release", f), Step("deref", f)>>
      [] x = "query" -> <<Step("transfer", f), Step("release", f), Step("deref", f)>>
      [] x = "release" -> <<Step("release", f), Step("deref", f)>>
      [] x = "signal" -> <<Step("signal", f), Step("deref", f)>>
      [] x = "deref" -> <<Step("deref", f)>>
      [] x = "failAcquire" -> <<Step("acquire", f), Step("release", f), Step("deref", f)>>
      [] x = "failWait" -> <<Step("wait", f), Step("release", f), Step("deref", f)>>
      [] x = "duplicate" -> <<Step("duplicate", f), Step("deref", f)>>
      [] x = "closeAcquire" -> <<Step("acquire", f), Step("cleanup", f),
                                 Step("release", f), Step("deref", f)>>
      [] x = "closeWait" -> <<Step("wait", f), Step("cleanup", f),
                              Step("release", f), Step("deref", f)>>
      [] x = "cleanup" -> <<Step("cleanup", f), Step("release", f), Step("deref", f)>>
      [] x = "deleteAcquire" -> <<Step("acquire", f), Step("close", f),
                                  Step("volume", f), Step("free", f)>>
      [] x = "deleteWait" -> <<Step("wait", f), Step("close", f),
                               Step("volume", f), Step("free", f)>>
      [] x = "close" -> <<Step("close", f), Step("volume", f), Step("free", f)>>
      [] x = "volume" -> <<Step("volume", f), Step("free", f)>>
      [] x = "free" -> <<Step("free", f)>>
      [] x = "selfAcquire" -> <<Step("acquire", f), Step("close", f), Step("volume", f),
                                Step("free", f), Step("release", f)>>
      [] x = "selfWait" -> <<Step("wait", f), Step("close", f), Step("volume", f),
                             Step("free", f), Step("release", f)>>
      [] OTHER -> <<>>

\* Phases before there is a file object.
NoFilePhases == {"idle", "parse", "lockdevice", "mount", "giveup"}

\* Nobody else has heard of the file.
PrivatePhases == {"create", "handle", "refused", "refusedFree"}
RefusedPhases == {"refused", "refusedFree"}
OpeningPhases == PrivatePhases \union {"created"}

\* Before, while and after the lock is claimed by a request.
Acquiring == {"readAcquire", "queryAcquire", "failAcquire", "closeAcquire",
              "deleteAcquire", "selfAcquire"}
Waiting == {"readWait", "queryWait", "failWait", "closeWait", "deleteWait", "selfWait"}
Entered == {"read", "readDone", "readRelease", "query", "release", "cleanup",
            "close", "volume", "free"}
Signalling == {"lastSignal", "signal"}

\* Who has the lock, or still owes the event that hands it on.  The thread in
\* "self" has the lock already and asks for it again.
Owning == Entered \union Signalling \union {"selfAcquire", "selfWait"}

\* The file is deleted, is still to be cleaned up, is still to be closed.
Deleting == {"deleteAcquire", "deleteWait", "close", "volume", "free",
             "selfAcquire", "selfWait", "refusedFree"}
Cleaning == {"closeAcquire", "closeWait", "cleanup"}
CleaningOrNew == Cleaning \union {"create", "handle"}
Closing == {"deleteAcquire", "deleteWait", "close", "selfAcquire", "selfWait"}

\* A reference of the volume is still to be given back.
Volumed == Closing \union {"giveup", "refused", "refusedFree", "volume"}

\* What a thread may be doing.
Phases == NoFilePhases \union OpeningPhases \union Acquiring \union Waiting
          \union Owning \union Deleting \union {"deref", "duplicate"}

\* References to the file that a phase has, and claims on its lock.
Referring == {"create", "created", "refused", "readAcquire", "readWait", "read", "readDone",
              "queryAcquire", "queryWait", "query", "release", "signal", "deref",
              "failAcquire", "failWait", "duplicate"} \union Cleaning

\* How many references.
Refs(x) == IF x = "handle" THEN 2 ELSE IF x \in Referring THEN 1 ELSE 0

\* The phases with a claim on the lock.
Claiming == Waiting \union Entered \union {"selfAcquire"}
Claims(x) == IF x = "selfWait" THEN 2 ELSE IF x \in Claiming THEN 1 ELSE 0

-----------------------------------------------------------------------------
(* The inductive invariant.                                                 *)

\* The values that occur.
FileTypes ==
    [state : {"unborn", "live", "freed"}, pointers : Nat, handles : Nat,
     device : BOOLEAN, handleCreated : BOOLEAN, cleaned : BOOLEAN,
     lockCount : Nat \union {-1}, lockSignal : BOOLEAN,
     info : Infos \union {NoInfo}, access : SUBSET Rights, shared : SUBSET Rights]

Shares == [open : 0..OpenLimit, access : [Rights -> 0..OpenLimit],
           shared : [Rights -> 0..OpenLimit]]

InfoTypes ==
    [state : {"none", "listed", "freed"}, name : Names \union {Volume},
     references : Nat, share : Shares, deleteOnClose : BOOLEAN]

Types ==
    /\ files \in [Files -> FileTypes] /\ infos \in [Infos -> InfoTypes]
    /\ references \in Nat
    /\ crashed \in {"no", "volume freed twice", "volume listed twice", "cleaned twice",
                   "wild unwait"}

\* Each thread has the steps of its phase left.
Lists(ph, fl) ==
    /\ ph \in [Threads -> Phases] /\ fl \in [Threads -> Files \union {NoInfo}]
    /\ todo = [t \in Threads |-> Plan(ph[t], fl[t])]
    /\ \A t \in Threads : ph[t] \in NoFilePhases <=> fl[t] = NoInfo

\* A device is mounted once, by the thread that has its lock.
Mounting(ph) ==
    /\ volumes \in {0, 1}
    /\ mounting = {t \in Threads : ph[t] = "mount"}
    /\ \A t, u \in mounting : t = u

\* The life of a file object.  Only live files are worked on; a file is private
\* to the thread that creates it until it has a handle, or for good if the open
\* is refused; only then has it no device, and only while it is opened has its
\* last handle neither been made nor closed.
InHand(fl) == \A t \in Threads : fl[t] # NoInfo => files[fl[t]].state = "live"

\* A file object that only its creator knows of has no handle.
Private(ph, fl) ==
    \A t \in Threads : ph[t] \in PrivatePhases =>
        /\ \A u \in Threads \ {t} : fl[u] # fl[t]
        /\ files[fl[t]].handles = 0
        /\ files[fl[t]].device <=> ph[t] \notin RefusedPhases

\* Only a refused open leaves a file object without a device.
WithDevice(ph, fl) ==
    \A f \in Files : files[f].state = "live" /\ ~files[f].device =>
        \E t \in Threads : fl[t] = f /\ ph[t] \in RefusedPhases

\* A file object without its first handle is still being opened.
HandleMade(ph, fl) ==
    \A f \in Files : files[f].state = "live" /\ ~files[f].handleCreated =>
        \E t \in Threads : fl[t] = f /\ ph[t] \in OpeningPhases

\* One thread deletes it, when nothing refers to it any more.
OneDeletes(ph, fl) ==
    \A t \in Threads : ph[t] \in Deleting =>
        /\ files[fl[t]].pointers = 0
        /\ \A u \in Threads : fl[u] = fl[t] /\ ph[u] \in Deleting => u = t

\* Nothing refers to what is not there.
NoneCounted == \A f \in Files : files[f].state # "live" => files[f].pointers = 0

\* A file without handles is cleaned up, is about to be, or has never had any.
CleanedUp(ph, fl) ==
    \A f \in Files :
        files[f].state = "live" /\ files[f].device /\ files[f].handles = 0 =>
            \/ files[f].cleaned
            \/ \E t \in Threads : fl[t] = f /\ ph[t] \in CleaningOrNew

\* All that is said of the files' lives.
Lives(ph, fl) ==
    /\ InHand(fl) /\ Private(ph, fl) /\ WithDevice(ph, fl) /\ HandleMade(ph, fl)
    /\ OneDeletes(ph, fl) /\ NoneCounted /\ CleanedUp(ph, fl)

\* What the pointer count of a file counts besides its handles.
RefsTo(ph, fl, f) == [t \in Threads |-> IF fl[t] = f THEN Refs(ph[t]) ELSE 0]

\* The pointer count counts the handles and those.
Pointers(ph, fl) ==
    \A f \in Files :
        /\ IsFiniteSet(Tally(RefsTo(ph, fl, f)))
        /\ files[f].pointers = files[f].handles + Cardinality(Tally(RefsTo(ph, fl, f)))

\* What the volume's count counts.
OnVolume == {f \in Files : files[f].state = "live" /\ files[f].device /\ files[f].pointers > 0}
InVolume(ph) == {t \in Threads : ph[t] \in Volumed}

\* The volume's count counts the files on it and the threads.
VolumeCount(ph) ==
    /\ IsFiniteSet(OnVolume) /\ IsFiniteSet(InVolume(ph))
    /\ references = Cardinality(OnVolume) + Cardinality(InVolume(ph))

\* The lock is nobody's, one thread's, or on its way in the event; its count
\* is that of the claims on it.
Owners(ph, fl, f) == {t \in Threads : fl[t] = f /\ ph[t] \in Owning}
ClaimsTo(ph, fl, f) == [t \in Threads |-> IF fl[t] = f THEN Claims(ph[t]) ELSE 0]

\* What is said of one lock.
Locked(ph, fl, f) ==
    /\ \A t, u \in Owners(ph, fl, f) : t = u
    /\ files[f].lockSignal => Owners(ph, fl, f) = {}
    /\ files[f].lockCount = -1 => Owners(ph, fl, f) = {} /\ ~files[f].lockSignal
    /\ files[f].lockCount # -1 => Owners(ph, fl, f) # {} \/ files[f].lockSignal
    /\ IsFiniteSet(Tally(ClaimsTo(ph, fl, f)))
    /\ Cardinality(Tally(ClaimsTo(ph, fl, f))) = files[f].lockCount + 1

\* The locks of all files.
Locks(ph, fl) == \A f \in Files : files[f].state = "live" => Locked(ph, fl, f)

\* A file is open, as IsOpen says, in terms of phases.
Used(ph, fl, f) == files[f].pointers > 0 \/ \E t \in Threads : fl[t] = f /\ ph[t] \in Closing

\* The files open on an entry of FATX.
Openers(i) == {f \in Files : IsOpen(f) /\ files[f].info = i}

\* What FATX keeps of a file lasts as long as a file object is open on it.
ListedWhileOpen ==
    /\ \A f \in Files : IsOpen(f) =>
         /\ infos[files[f].info].state = "listed"
         /\ infos[files[f].info].references >= Cardinality(Openers(files[f].info))
    /\ \A i \in Infos : IsFiniteSet(Openers(i))

\* A file in use has a FATX_FILE_INFO once its creation is over, and none before.
HasInfo(ph, fl) ==
    \A f \in Files : files[f].state = "live" /\ files[f].device /\ Used(ph, fl, f) =>
        files[f].info # NoInfo \/ \E t \in Threads : fl[t] = f /\ ph[t] = "create"

\* An entry not in use.
NothingYet(ph, fl) ==
    \A f \in Files :
        files[f].state = "unborn" \/ (\E t \in Threads : fl[t] = f /\ ph[t] = "create") =>
            infos[f].state = "none" /\ files[f].info = NoInfo /\ ~files[f].cleaned

\* One FATX_FILE_INFO of a name is on the list; VolumeInfo has its own, is
\* never freed, and counts no opens while it is off the list.
NamesApart ==
    /\ infos[Volume].name = Volume
    /\ \A f \in Files : infos[f].state = "listed" => infos[f].name # Volume
    /\ \A i, j \in Infos :
         infos[i].state = "listed" /\ infos[j].state = "listed" /\ infos[i].name = infos[j].name
             => i = j
    /\ infos[Volume].state # "freed"
    /\ infos[Volume].state = "none" => infos[Volume].share.open = 0

\* What is said of FATX.
OpenInfos(ph, fl) ==
    ListedWhileOpen /\ HasInfo(ph, fl) /\ NothingYet(ph, fl) /\ NamesApart

\* All that is said of the phases and files of the threads.
Good(ph, fl) ==
    /\ Lists(ph, fl) /\ Mounting(ph) /\ Lives(ph, fl) /\ Pointers(ph, fl)
    /\ VolumeCount(ph) /\ Locks(ph, fl) /\ OpenInfos(ph, fl)
    /\ SharingHolds /\ ShareCountsExact

\* Threads are in phases that explain the state.
IInv == Types /\ \E ph, fl : Good(ph, fl)

-----------------------------------------------------------------------------
(* Steps done and steps added.                                              *)

\* The step a thread is at in a phase, and the phase after it.
HeadOp(x) ==
    CASE x \in {"parse", "lockdevice", "mount", "create", "handle", "created", "duplicate",
                "cleanup", "close", "volume", "free", "release", "signal", "deref"} -> x
      [] x = "giveup" -> "volume"
      [] x \in {"refused", "readDone"} -> "deref"
      [] x = "refusedFree" -> "free"
      [] x \in Acquiring -> "acquire"
      [] x \in Waiting -> "wait"
      [] x \in {"read", "query"} -> "transfer"
      [] x = "readRelease" -> "release"
      [] x = "lastSignal" -> "signal"
      [] OTHER -> "none"

\* The phase that follows.
After(x) ==
    CASE x = "lockdevice" -> "mount"
      [] x = "mount" -> "parse"
      [] x = "handle" -> "created"
      [] x \in {"created", "release", "signal", "duplicate"} -> "deref"
      [] x \in {"refused", "refusedFree"} -> "giveup"
      [] x \in {"readAcquire", "readWait"} -> "read"
      [] x = "read" -> "readDone"
      [] x = "readDone" -> "readRelease"
      [] x \in {"queryAcquire", "queryWait"} -> "query"
      [] x \in {"query", "failAcquire", "failWait", "cleanup"} -> "release"
      [] x \in {"closeAcquire", "closeWait"} -> "cleanup"
      [] x \in {"deleteAcquire", "deleteWait"} -> "close"
      [] x = "close" -> "volume"
      [] x = "volume" -> "free"
      [] OTHER -> "idle"

\* The file that goes with a phase.
FileIn(x, f) == IF x \in NoFilePhases THEN NoInfo ELSE f

\* All phases, one by one.
LEMMA PhasesAre ==
    Phases = {"idle", "selfAcquire", "selfWait",
              "parse", "lockdevice", "mount", "giveup", "create", "handle",
              "created", "refused", "refusedFree", "readAcquire",
              "readWait", "read", "readDone", "readRelease", "lastSignal",
              "queryAcquire", "queryWait", "query", "release", "signal",
              "deref", "failAcquire", "failWait", "duplicate",
              "closeAcquire", "closeWait", "cleanup", "deleteAcquire",
              "deleteWait", "close", "volume", "free"}
    BY DEF Phases, NoFilePhases, PrivatePhases, RefusedPhases, OpeningPhases, Acquiring,
           Waiting, Entered, Signalling, Owning, Deleting, Closing, Cleaning

\* A phase is a step and the phase after it.
LEMMA PlanTable ==
    ASSUME NEW x \in Phases \ {"idle", "selfAcquire", "selfWait"}, NEW f,
           x \in NoFilePhases => f = NoInfo
    PROVE  /\ Plan(x, f) # <<>> /\ Head(Plan(x, f)) = Step(HeadOp(x), f)
           /\ After(x) \in Phases
           /\ Tail(Plan(x, f)) = Plan(After(x), FileIn(After(x), f))
<1>0. After(x) \in Phases
  BY PhasesAre DEF After
<1>1. CASE x = "parse"
  BY <1>0, <1>1 DEF Plan, HeadOp, After, FileIn, NoFilePhases, Acquiring, Waiting
<1>2. CASE x = "lockdevice"
  BY <1>0, <1>2 DEF Plan, HeadOp, After, FileIn, NoFilePhases, Acquiring, Waiting
<1>3. CASE x = "mount"
  BY <1>0, <1>3 DEF Plan, HeadOp, After, FileIn, NoFilePhases, Acquiring, Waiting
<1>4. CASE x = "giveup"
  BY <1>0, <1>4 DEF Plan, HeadOp, After, FileIn, NoFilePhases, Acquiring, Waiting
<1>5. CASE x = "create"
  BY <1>0, <1>5 DEF Plan, HeadOp, After, FileIn, NoFilePhases, Acquiring, Waiting
<1>6. CASE x = "handle"
  BY <1>0, <1>6 DEF Plan, HeadOp, After, FileIn, NoFilePhases, Acquiring, Waiting
<1>7. CASE x = "created"
  BY <1>0, <1>7 DEF Plan, HeadOp, After, FileIn, NoFilePhases, Acquiring, Waiting
<1>8. CASE x = "refused"
  BY <1>0, <1>8 DEF Plan, HeadOp, After, FileIn, NoFilePhases, Acquiring, Waiting
<1>9. CASE x = "refusedFree"
  BY <1>0, <1>9 DEF Plan, HeadOp, After, FileIn, NoFilePhases, Acquiring, Waiting
<1>10. CASE x = "readAcquire"
  BY <1>0, <1>10 DEF Plan, HeadOp, After, FileIn, NoFilePhases, Acquiring, Waiting
<1>11. CASE x = "readWait"
  BY <1>0, <1>11 DEF Plan, HeadOp, After, FileIn, NoFilePhases, Acquiring, Waiting
<1>12. CASE x = "read"
  BY <1>0, <1>12 DEF Plan, HeadOp, After, FileIn, NoFilePhases, Acquiring, Waiting
<1>13. CASE x = "readDone"
  BY <1>0, <1>13 DEF Plan, HeadOp, After, FileIn, NoFilePhases, Acquiring, Waiting
<1>14. CASE x = "readRelease"
  BY <1>0, <1>14 DEF Plan, HeadOp, After, FileIn, NoFilePhases, Acquiring, Waiting
<1>15. CASE x = "lastSignal"
  BY <1>0, <1>15 DEF Plan, HeadOp, After, FileIn, NoFilePhases, Acquiring, Waiting
<1>16. CASE x = "queryAcquire"
  BY <1>0, <1>16 DEF Plan, HeadOp, After, FileIn, NoFilePhases, Acquiring, Waiting
<1>17. CASE x = "queryWait"
  BY <1>0, <1>17 DEF Plan, HeadOp, After, FileIn, NoFilePhases, Acquiring, Waiting
<1>18. CASE x = "query"
  BY <1>0, <1>18 DEF Plan, HeadOp, After, FileIn, NoFilePhases, Acquiring, Waiting
<1>19. CASE x = "release"
  BY <1>0, <1>19 DEF Plan, HeadOp, After, FileIn, NoFilePhases, Acquiring, Waiting
<1>20. CASE x = "signal"
  BY <1>0, <1>20 DEF Plan, HeadOp, After, FileIn, NoFilePhases, Acquiring, Waiting
<1>21. CASE x = "deref"
  BY <1>0, <1>21 DEF Plan, HeadOp, After, FileIn, NoFilePhases, Acquiring, Waiting
<1>22. CASE x = "failAcquire"
  BY <1>0, <1>22 DEF Plan, HeadOp, After, FileIn, NoFilePhases, Acquiring, Waiting
<1>23. CASE x = "failWait"
  BY <1>0, <1>23 DEF Plan, HeadOp, After, FileIn, NoFilePhases, Acquiring, Waiting
<1>24. CASE x = "duplicate"
  BY <1>0, <1>24 DEF Plan, HeadOp, After, FileIn, NoFilePhases, Acquiring, Waiting
<1>25. CASE x = "closeAcquire"
  BY <1>0, <1>25 DEF Plan, HeadOp, After, FileIn, NoFilePhases, Acquiring, Waiting
<1>26. CASE x = "closeWait"
  BY <1>0, <1>26 DEF Plan, HeadOp, After, FileIn, NoFilePhases, Acquiring, Waiting
<1>27. CASE x = "cleanup"
  BY <1>0, <1>27 DEF Plan, HeadOp, After, FileIn, NoFilePhases, Acquiring, Waiting
<1>28. CASE x = "deleteAcquire"
  BY <1>0, <1>28 DEF Plan, HeadOp, After, FileIn, NoFilePhases, Acquiring, Waiting
<1>29. CASE x = "deleteWait"
  BY <1>0, <1>29 DEF Plan, HeadOp, After, FileIn, NoFilePhases, Acquiring, Waiting
<1>30. CASE x = "close"
  BY <1>0, <1>30 DEF Plan, HeadOp, After, FileIn, NoFilePhases, Acquiring, Waiting
<1>31. CASE x = "volume"
  BY <1>0, <1>31 DEF Plan, HeadOp, After, FileIn, NoFilePhases, Acquiring, Waiting
<1>32. CASE x = "free"
  BY <1>0, <1>32 DEF Plan, HeadOp, After, FileIn, NoFilePhases, Acquiring, Waiting
<1> QED BY PhasesAre, <1>1, <1>2, <1>3, <1>4, <1>5, <1>6, <1>7, <1>8, <1>9, <1>10, <1>11, <1>12, <1>13, <1>14, <1>15, <1>16, <1>17, <1>18, <1>19, <1>20, <1>21, <1>22, <1>23, <1>24, <1>25, <1>26, <1>27, <1>28, <1>29, <1>30, <1>31, <1>32

\* A phase is a list of steps.
LEMMA PlanSeq ==
    ASSUME NEW x \in Phases, NEW f \in Files \union {NoInfo}
    PROVE  Plan(x, f) \in Seq([op : Steps, file : Files \union {NoInfo}])
<1> DEFINE S == [op : Steps, file : Files \union {NoInfo}]
<1>0. \A op \in Steps : Step(op, f) \in S /\ Step(op, NoInfo) \in S
  BY DEF Step
<1> SUFFICES Plan(x, f) \in Seq(S)
  OBVIOUS
<1> HIDE DEF S
<1>s. /\ Step("parse", f) \in S /\ Step("lockdevice", f) \in S /\ Step("mount", f) \in S
      /\ Step("create", f) \in S /\ Step("handle", f) \in S /\ Step("created", f) \in S
      /\ Step("duplicate", f) \in S /\ Step("acquire", f) \in S /\ Step("wait", f) \in S
      /\ Step("transfer", f) \in S /\ Step("cleanup", f) \in S /\ Step("close", f) \in S
      /\ Step("release", f) \in S /\ Step("signal", f) \in S /\ Step("deref", f) \in S
      /\ Step("volume", f) \in S /\ Step("free", f) \in S
      /\ Step("volume", NoInfo) \in S
  BY <1>0 DEF Steps
<1>t. /\ \A a \in S : <<a>> \in Seq(S)
      /\ \A a, b \in S : <<a, b>> \in Seq(S)
      /\ \A a, b, c \in S : <<a, b, c>> \in Seq(S)
      /\ \A a, b, c, d \in S : <<a, b, c, d>> \in Seq(S)
      /\ \A a, b, c, d, e \in S : <<a, b, c, d, e>> \in Seq(S)
  BY TuplesAreLists
<1>1. CASE x = "idle"
  BY <1>s, <1>t, <1>1 DEF Plan
<1>2. CASE x = "parse"
  BY <1>s, <1>t, <1>2 DEF Plan
<1>3. CASE x = "lockdevice"
  BY <1>s, <1>t, <1>3 DEF Plan
<1>4. CASE x = "mount"
  BY <1>s, <1>t, <1>4 DEF Plan
<1>5. CASE x = "giveup"
  BY <1>s, <1>t, <1>5 DEF Plan
<1>6. CASE x = "create"
  BY <1>s, <1>t, <1>6 DEF Plan
<1>7. CASE x = "handle"
  BY <1>s, <1>t, <1>7 DEF Plan
<1>8. CASE x = "created"
  BY <1>s, <1>t, <1>8 DEF Plan
<1>9. CASE x = "refused"
  BY <1>s, <1>t, <1>9 DEF Plan
<1>10. CASE x = "refusedFree"
  BY <1>s, <1>t, <1>10 DEF Plan
<1>11. CASE x = "readAcquire"
  BY <1>s, <1>t, <1>11 DEF Plan
<1>12. CASE x = "readWait"
  BY <1>s, <1>t, <1>12 DEF Plan
<1>13. CASE x = "read"
  BY <1>s, <1>t, <1>13 DEF Plan
<1>14. CASE x = "readDone"
  BY <1>s, <1>t, <1>14 DEF Plan
<1>15. CASE x = "readRelease"
  BY <1>s, <1>t, <1>15 DEF Plan
<1>16. CASE x = "lastSignal"
  BY <1>s, <1>t, <1>16 DEF Plan
<1>17. CASE x = "queryAcquire"
  BY <1>s, <1>t, <1>17 DEF Plan
<1>18. CASE x = "queryWait"
  BY <1>s, <1>t, <1>18 DEF Plan
<1>19. CASE x = "query"
  BY <1>s, <1>t, <1>19 DEF Plan
<1>20. CASE x = "release"
  BY <1>s, <1>t, <1>20 DEF Plan
<1>21. CASE x = "signal"
  BY <1>s, <1>t, <1>21 DEF Plan
<1>22. CASE x = "deref"
  BY <1>s, <1>t, <1>22 DEF Plan
<1>23. CASE x = "failAcquire"
  BY <1>s, <1>t, <1>23 DEF Plan
<1>24. CASE x = "failWait"
  BY <1>s, <1>t, <1>24 DEF Plan
<1>25. CASE x = "duplicate"
  BY <1>s, <1>t, <1>25 DEF Plan
<1>26. CASE x = "closeAcquire"
  BY <1>s, <1>t, <1>26 DEF Plan
<1>27. CASE x = "closeWait"
  BY <1>s, <1>t, <1>27 DEF Plan
<1>28. CASE x = "cleanup"
  BY <1>s, <1>t, <1>28 DEF Plan
<1>29. CASE x = "deleteAcquire"
  BY <1>s, <1>t, <1>29 DEF Plan
<1>30. CASE x = "deleteWait"
  BY <1>s, <1>t, <1>30 DEF Plan
<1>31. CASE x = "close"
  BY <1>s, <1>t, <1>31 DEF Plan
<1>32. CASE x = "volume"
  BY <1>s, <1>t, <1>32 DEF Plan
<1>33. CASE x = "free"
  BY <1>s, <1>t, <1>33 DEF Plan
<1>34. CASE x = "selfAcquire"
  BY <1>s, <1>t, <1>34 DEF Plan
<1>35. CASE x = "selfWait"
  BY <1>s, <1>t, <1>35 DEF Plan
<1> QED BY PhasesAre, <1>1, <1>2, <1>3, <1>4, <1>5, <1>6, <1>7, <1>8, <1>9, <1>10, <1>11, <1>12, <1>13, <1>14, <1>15, <1>16, <1>17, <1>18, <1>19, <1>20, <1>21, <1>22, <1>23, <1>24, <1>25, <1>26, <1>27, <1>28, <1>29, <1>30, <1>31, <1>32, <1>33, <1>34, <1>35

\* The phases a step is made from.
LEMMA HeadPhases ==
    ASSUME NEW x \in Phases
    PROVE  /\ HeadOp(x) = "acquire" => x \in Acquiring
           /\ HeadOp(x) = "wait" => x \in Waiting
           /\ HeadOp(x) = "release" => x \in {"readRelease", "release"}
           /\ HeadOp(x) = "signal" => x \in Signalling
           /\ HeadOp(x) = "deref" => x \in {"deref", "readDone", "refused"}
           /\ HeadOp(x) = "free" => x \in {"free", "refusedFree"}
           /\ HeadOp(x) = "volume" => x \in {"giveup", "volume"}
           /\ HeadOp(x) = "transfer" => x \in {"read", "query"}
           /\ HeadOp(x) \in {"parse", "lockdevice", "mount", "create", "handle", "created",
                             "duplicate", "cleanup", "close"} => x = HeadOp(x)
    BY PhasesAre DEF HeadOp, Acquiring, Waiting, Signalling

\* What a thread asks for the lock a second time for.
LEMMA SelfTable ==
    ASSUME NEW x \in {"selfAcquire", "selfWait"}, NEW f
    PROVE  Plan(x, f) # <<>> /\ Head(Plan(x, f)) = Step(HeadOp(x), f)
<1>1. CASE x = "selfAcquire"
  BY <1>1 DEF Plan, HeadOp, Acquiring, Waiting
<1>2. CASE x = "selfWait"
  BY <1>2 DEF Plan, HeadOp, Acquiring, Waiting
<1> QED BY <1>1, <1>2

\* The step a thread is at says what phase it is in.
LEMMA AtPhase ==
    ASSUME NEW ph, NEW fl, Lists(ph, fl), NEW t \in Threads, NEW op, At(t, op)
    PROVE  /\ crashed = "no" /\ ph[t] \in Phases \ {"idle"} /\ HeadOp(ph[t]) = op
           /\ Current(t) = fl[t] /\ fl[t] \in Files \union {NoInfo}
           /\ ph[t] \in NoFilePhases <=> fl[t] = NoInfo
<1>1. /\ ph[t] \in Phases /\ fl[t] \in Files \union {NoInfo}
      /\ todo[t] = Plan(ph[t], fl[t])
      /\ ph[t] \in NoFilePhases <=> fl[t] = NoInfo
  BY DEF Lists
<1>2. ph[t] # "idle"
  BY <1>1 DEF At, Plan
<1>3. Head(Plan(ph[t], fl[t])) = Step(HeadOp(ph[t]), fl[t])
  <2>1. CASE ph[t] \in {"selfAcquire", "selfWait"}
    BY <2>1, SelfTable
  <2>2. CASE ph[t] \notin {"selfAcquire", "selfWait"}
    BY <1>1, <1>2, <2>2, PlanTable
  <2> QED BY <2>1, <2>2
<1> QED BY <1>1, <1>2, <1>3 DEF At, Current, Step

\* Thread t gets into phase y, with file g.
Moved(ph, fl, t, y, g) ==
    /\ y \in Phases /\ g \in Files \union {NoInfo}
    /\ y \in NoFilePhases <=> g = NoInfo
    /\ todo' = [todo EXCEPT ![t] = Plan(y, g)]

\* Then its list is that of the phase.
LEMMA MovedLists ==
    ASSUME NEW ph, NEW fl, Lists(ph, fl), NEW t \in Threads, NEW y, NEW g,
           Moved(ph, fl, t, y, g)
    PROVE  Lists([ph EXCEPT ![t] = y], [fl EXCEPT ![t] = g])'
    BY DEF Lists, Moved

\* A step that adds none.
LEMMA ThenNothing ==
    ASSUME NEW ph, NEW fl, Lists(ph, fl), NEW t \in Threads, NEW x,
           x = ph[t], x \notin {"idle", "selfAcquire", "selfWait"}, Then(t, <<>>)
    PROVE  Moved(ph, fl, t, After(x), FileIn(After(x), fl[t]))
<1>1. /\ x \in Phases /\ fl[t] \in Files \union {NoInfo} /\ todo[t] = Plan(x, fl[t])
      /\ x \in NoFilePhases <=> fl[t] = NoInfo
  BY DEF Lists
<1>2. /\ After(x) \in Phases
      /\ Tail(Plan(x, fl[t])) = Plan(After(x), FileIn(After(x), fl[t]))
  BY <1>1, PlanTable
<1>3. x \in NoFilePhases => After(x) \in NoFilePhases
  BY <1>1, PhasesAre DEF After, NoFilePhases
<1>4. Tail(todo[t]) \in Seq([op : Steps, file : Files \union {NoInfo}])
  <2>1. FileIn(After(x), fl[t]) \in Files \union {NoInfo}
    BY <1>1 DEF FileIn
  <2> QED BY PlanSeq, <1>2, <1>1, <2>1
<1>5. <<>> \o Tail(todo[t]) = Tail(todo[t])
  BY <1>4, ConcatEmptySeq
<1> QED BY <1>1, <1>2, <1>3, <1>5 DEF Moved, Then, FileIn

-----------------------------------------------------------------------------
(* What each operation does to the phase of its thread.                     *)

\* The wait that follows a claim.
WaitOf(x) ==
    CASE x = "readAcquire" -> "readWait"
      [] x = "queryAcquire" -> "queryWait"
      [] x = "failAcquire" -> "failWait"
      [] x = "closeAcquire" -> "closeWait"
      [] x = "deleteAcquire" -> "deleteWait"
      [] OTHER -> "selfWait"

\* A phase with a step in front of what is left.
LEMMA WaitTable ==
    ASSUME NEW x \in Acquiring, NEW f \in Files
    PROVE  /\ WaitOf(x) \in Waiting
           /\ <<Step("wait", f)>> \o Tail(Plan(x, f)) = Plan(WaitOf(x), f)
<1> DEFINE S == [op : Steps, file : Files \union {NoInfo}]
<1>1. /\ Step("wait", f) \in S /\ Step("transfer", f) \in S /\ Step("release", f) \in S
      /\ Step("deref", f) \in S /\ Step("cleanup", f) \in S /\ Step("close", f) \in S
      /\ Step("volume", f) \in S /\ Step("free", f) \in S
  BY DEF Step, Steps
<1> HIDE DEF S
<1>2. /\ \A a, b, c \in S : <<a>> \o <<b, c>> = <<a, b, c>>
      /\ \A a, b, c, d \in S : <<a>> \o <<b, c, d>> = <<a, b, c, d>>
      /\ \A a, b, c, d, e \in S : <<a>> \o <<b, c, d, e>> = <<a, b, c, d, e>>
  BY OneInFront
<1>3. CASE x = "readAcquire"
  <2>1. Tail(Plan(x, f)) = <<Step("transfer", f), Step("deref", f), Step("release", f)>>
    BY <1>3 DEF Plan
  <2> QED BY <1>1, <1>2, <1>3, <2>1 DEF Plan, WaitOf, Waiting
<1>4. CASE x = "queryAcquire"
  <2>1. Tail(Plan(x, f)) = <<Step("transfer", f), Step("release", f), Step("deref", f)>>
    BY <1>4 DEF Plan
  <2> QED BY <1>1, <1>2, <1>4, <2>1 DEF Plan, WaitOf, Waiting
<1>5. CASE x = "failAcquire"
  <2>1. Tail(Plan(x, f)) = <<Step("release", f), Step("deref", f)>>
    BY <1>5 DEF Plan
  <2> QED BY <1>1, <1>2, <1>5, <2>1 DEF Plan, WaitOf, Waiting
<1>6. CASE x = "closeAcquire"
  <2>1. Tail(Plan(x, f)) = <<Step("cleanup", f), Step("release", f), Step("deref", f)>>
    BY <1>6 DEF Plan
  <2> QED BY <1>1, <1>2, <1>6, <2>1 DEF Plan, WaitOf, Waiting
<1>7. CASE x = "deleteAcquire"
  <2>1. Tail(Plan(x, f)) = <<Step("close", f), Step("volume", f), Step("free", f)>>
    BY <1>7 DEF Plan
  <2> QED BY <1>1, <1>2, <1>7, <2>1 DEF Plan, WaitOf, Waiting
<1>8. CASE x = "selfAcquire"
  <2>1. Tail(Plan(x, f)) = <<Step("close", f), Step("volume", f), Step("free", f), Step("release", f)>>
    BY <1>8 DEF Plan
  <2> QED BY <1>1, <1>2, <1>8, <2>1 DEF Plan, WaitOf, Waiting
<1> QED BY <1>3, <1>4, <1>5, <1>6, <1>7, <1>8 DEF Acquiring

\* Which file a thread is at.
LEMMA FileAt ==
    ASSUME NEW ph, NEW fl, Lists(ph, fl), NEW t \in Threads, ph[t] \notin NoFilePhases
    PROVE  fl[t] \in Files /\ fl[t] # NoInfo /\ ph[t] \in Phases
    BY DEF Lists

\* The phases that have a file.
LEMMA WithFile ==
    /\ \A S \in {Acquiring, Waiting, Entered, Signalling, Owning, Deleting, Cleaning, Closing,
                 PrivatePhases, RefusedPhases, OpeningPhases, Referring, Claiming} :
           S \intersect NoFilePhases = {}
    /\ \A S \in {Acquiring, Waiting, Entered, Signalling, Owning, Deleting, Cleaning, Closing,
                 PrivatePhases, RefusedPhases, OpeningPhases, Referring, Claiming, NoFilePhases,
                 Volumed} :
           S \subseteq Phases
    BY PhasesAre DEF NoFilePhases, PrivatePhases, RefusedPhases, OpeningPhases, Acquiring, Waiting, Entered,
           Signalling, Owning, Deleting, Closing, Cleaning, Referring, Claiming, Volumed

\* IopAcquireSynchronousFileLock goes on with the request or waits.
LEMMA AcquireMoves ==
    ASSUME NEW ph, NEW fl, Lists(ph, fl), NEW t \in Threads, IopAcquireSynchronousFileLock(t),
           ph[t] = "selfAcquire" => files[fl[t]].lockCount # -1
    PROVE  /\ fl[t] \in Files /\ ph[t] \in Acquiring
           /\ files' = [files EXCEPT ![fl[t]].lockCount = @ + 1]
           /\ \/ /\ files[fl[t]].lockCount = -1 /\ ph[t] # "selfAcquire"
                 /\ Moved(ph, fl, t, After(ph[t]), fl[t])
              \/ /\ files[fl[t]].lockCount # -1
                 /\ Moved(ph, fl, t, WaitOf(ph[t]), fl[t])
           /\ UNCHANGED <<deviceVars, infos, crashed>>
<1>1. At(t, "acquire") /\ Current(t) = fl[t] /\ ph[t] \in Phases \ {"idle"} /\ HeadOp(ph[t]) = "acquire"
  BY AtPhase DEF IopAcquireSynchronousFileLock
<1>2. ph[t] \in Acquiring
  BY <1>1, HeadPhases
<1>3. fl[t] \in Files /\ fl[t] # NoInfo
  <2>1. Acquiring \intersect NoFilePhases = {}
    BY WithFile
  <2> QED BY <1>2, <2>1, FileAt
<1>4. CASE files[fl[t]].lockCount = -1
  <2>1. Then(t, <<>>)
    BY <1>1, <1>4 DEF IopAcquireSynchronousFileLock
  <2>2. ph[t] \notin {"idle", "selfAcquire", "selfWait"}
    BY <1>2, <1>4 DEF Acquiring
  <2>3. Moved(ph, fl, t, After(ph[t]), FileIn(After(ph[t]), fl[t]))
    BY <2>1, <2>2, ThenNothing
  <2>4. After(ph[t]) \notin NoFilePhases
    BY <1>2, <2>2 DEF After, Acquiring, NoFilePhases
  <2> QED BY <1>1, <1>2, <1>3, <1>4, <2>2, <2>3, <2>4 DEF IopAcquireSynchronousFileLock, FileIn
<1>5. CASE files[fl[t]].lockCount # -1
  <2>1. Then(t, <<Step("wait", fl[t])>>)
    BY <1>1, <1>5 DEF IopAcquireSynchronousFileLock
  <2>2. todo[t] = Plan(ph[t], fl[t])
    BY DEF Lists
  <2>3. /\ WaitOf(ph[t]) \in Waiting
        /\ <<Step("wait", fl[t])>> \o Tail(Plan(ph[t], fl[t])) = Plan(WaitOf(ph[t]), fl[t])
    BY <1>2, <1>3, WaitTable
  <2>4. WaitOf(ph[t]) \in Phases \ NoFilePhases
    <3>1. Waiting \intersect NoFilePhases = {} /\ Waiting \subseteq Phases
      BY WithFile
    <3> QED BY <2>3, <3>1
  <2>5. Moved(ph, fl, t, WaitOf(ph[t]), fl[t])
    BY <1>3, <2>1, <2>2, <2>3, <2>4 DEF Moved, Then
  <2> QED BY <1>1, <1>2, <1>3, <1>5, <2>5 DEF IopAcquireSynchronousFileLock
<1> QED BY <1>4, <1>5

\* A step that adds none, in phase x, leads to phase y.
LEMMA PlainMove ==
    ASSUME NEW ph, NEW fl, Lists(ph, fl), NEW t \in Threads, NEW op, At(t, op), Then(t, <<>>),
           ph[t] \notin {"selfAcquire", "selfWait"}
    PROVE  /\ ph[t] \in Phases \ {"idle", "selfAcquire", "selfWait"} /\ HeadOp(ph[t]) = op
           /\ Current(t) = fl[t]
           /\ Moved(ph, fl, t, After(ph[t]), FileIn(After(ph[t]), fl[t]))
<1>1. ph[t] \in Phases \ {"idle"} /\ HeadOp(ph[t]) = op /\ Current(t) = fl[t]
  BY AtPhase
<1> QED BY <1>1, ThenNothing

\* Of phases that have a file.
LEMMA HasFile ==
    ASSUME NEW ph, NEW fl, Lists(ph, fl), NEW t \in Threads, NEW S,
           ph[t] \in S, S \intersect NoFilePhases = {}
    PROVE  fl[t] \in Files
    BY DEF Lists

\* KeSetEvent of the lock's event.
LEMMA SignalMoves ==
    ASSUME NEW ph, NEW fl, Lists(ph, fl), NEW t \in Threads, SignalFileLock(t)
    PROVE  /\ files' = [files EXCEPT ![fl[t]].lockSignal = TRUE]
           /\ UNCHANGED <<deviceVars, infos, crashed>>
           /\ fl[t] \in Files
           /\ \/ ph[t] = "lastSignal" /\ Moved(ph, fl, t, "idle", NoInfo)
              \/ ph[t] = "signal" /\ Moved(ph, fl, t, "deref", fl[t])
<1>1. At(t, "signal") /\ Then(t, <<>>)
  BY DEF SignalFileLock
<1>2. ph[t] \in Phases \ {"idle"} /\ HeadOp(ph[t]) = "signal" /\ Current(t) = fl[t]
  BY <1>1, AtPhase
<1>3. ph[t] \in {"lastSignal", "signal"}
  BY <1>2, HeadPhases DEF Signalling
<1>4. Moved(ph, fl, t, After(ph[t]), FileIn(After(ph[t]), fl[t]))
  BY <1>1, <1>3, PlainMove
<1>5. ph[t] = "lastSignal" => After(ph[t]) = "idle" /\ FileIn(After(ph[t]), fl[t]) = NoInfo
  BY DEF After, FileIn, NoFilePhases
<1>6. ph[t] = "signal" => After(ph[t]) = "deref" /\ FileIn(After(ph[t]), fl[t]) = fl[t]
  BY DEF After, FileIn, NoFilePhases
<1>7. fl[t] \in Files
  BY <1>3, FileAt DEF NoFilePhases
<1> QED BY <1>1, <1>2, <1>3, <1>4, <1>5, <1>6, <1>7 DEF SignalFileLock

\* The object's memory is freed last.
LEMMA FreeMoves ==
    ASSUME NEW ph, NEW fl, Lists(ph, fl), NEW t \in Threads, FreeFile(t)
    PROVE  /\ files' = [files EXCEPT ![fl[t]].state = "freed"]
           /\ UNCHANGED <<deviceVars, infos, crashed>>
           /\ fl[t] \in Files
           /\ \/ ph[t] = "free" /\ Moved(ph, fl, t, "idle", NoInfo)
              \/ ph[t] = "refusedFree" /\ Moved(ph, fl, t, "giveup", NoInfo)
<1>1. At(t, "free") /\ Then(t, <<>>)
  BY DEF FreeFile
<1>2. ph[t] \in Phases \ {"idle"} /\ HeadOp(ph[t]) = "free" /\ Current(t) = fl[t]
  BY <1>1, AtPhase
<1>3. ph[t] \in {"free", "refusedFree"}
  BY <1>2, HeadPhases DEF Signalling
<1>4. Moved(ph, fl, t, After(ph[t]), FileIn(After(ph[t]), fl[t]))
  BY <1>1, <1>3, PlainMove
<1>5. ph[t] = "free" => After(ph[t]) = "idle" /\ FileIn(After(ph[t]), fl[t]) = NoInfo
  BY DEF After, FileIn, NoFilePhases
<1>6. ph[t] = "refusedFree" => After(ph[t]) = "giveup" /\ FileIn(After(ph[t]), fl[t]) = NoInfo
  BY DEF After, FileIn, NoFilePhases
<1>7. fl[t] \in Files
  BY <1>3, FileAt DEF NoFilePhases
<1> QED BY <1>1, <1>2, <1>3, <1>4, <1>5, <1>6, <1>7 DEF FreeFile

\* A reference of the volume is given back.
LEMMA VolumeMoves ==
    ASSUME NEW ph, NEW fl, Lists(ph, fl), NEW t \in Threads, IopDereferenceDeviceObject(t)
    PROVE  /\ references' = references - 1
           /\ UNCHANGED <<volumes, mounting, files, infos, crashed>>
           /\ \/ ph[t] = "giveup" /\ Moved(ph, fl, t, "idle", NoInfo)
              \/ ph[t] = "volume" /\ Moved(ph, fl, t, "free", fl[t])
<1>1. At(t, "volume") /\ Then(t, <<>>)
  BY DEF IopDereferenceDeviceObject
<1>2. ph[t] \in Phases \ {"idle"} /\ HeadOp(ph[t]) = "volume" /\ Current(t) = fl[t]
  BY <1>1, AtPhase
<1>3. ph[t] \in {"giveup", "volume"}
  BY <1>2, HeadPhases DEF Signalling
<1>4. Moved(ph, fl, t, After(ph[t]), FileIn(After(ph[t]), fl[t]))
  BY <1>1, <1>3, PlainMove
<1>5. ph[t] = "giveup" => After(ph[t]) = "idle" /\ FileIn(After(ph[t]), fl[t]) = NoInfo
  BY DEF After, FileIn, NoFilePhases
<1>6. ph[t] = "volume" => After(ph[t]) = "free" /\ FileIn(After(ph[t]), fl[t]) = fl[t]
  BY DEF After, FileIn, NoFilePhases
<1> QED BY <1>1, <1>2, <1>3, <1>4, <1>5, <1>6 DEF IopDereferenceDeviceObject

\* The open that mounts has the device to itself.
LEMMA LockDeviceMoves ==
    ASSUME NEW ph, NEW fl, Lists(ph, fl), NEW t \in Threads, WaitForDeviceLock(t)
    PROVE  /\ mounting = {} /\ mounting' = {t}
           /\ UNCHANGED <<volumes, references, files, infos, crashed>>
           /\ ph[t] = "lockdevice" /\ Moved(ph, fl, t, "mount", NoInfo)
<1>1. At(t, "lockdevice") /\ Then(t, <<>>)
  BY DEF WaitForDeviceLock
<1>2. ph[t] \in Phases \ {"idle"} /\ HeadOp(ph[t]) = "lockdevice" /\ Current(t) = fl[t]
  BY <1>1, AtPhase
<1>3. ph[t] \in {"lockdevice"}
  BY <1>2, HeadPhases DEF Signalling
<1>4. Moved(ph, fl, t, After(ph[t]), FileIn(After(ph[t]), fl[t]))
  BY <1>1, <1>3, PlainMove
<1>5. ph[t] = "lockdevice" => After(ph[t]) = "mount" /\ FileIn(After(ph[t]), fl[t]) = NoInfo
  BY DEF After, FileIn, NoFilePhases
<1> QED BY <1>1, <1>2, <1>3, <1>4, <1>5 DEF WaitForDeviceLock

\* The mounted volume is parsed by the open that mounted it.
LEMMA MountMoves ==
    ASSUME NEW ph, NEW fl, Lists(ph, fl), NEW t \in Threads, IopMountDevice(t)
    PROVE  /\ volumes' = Mounted /\ mounting' = {}
           /\ UNCHANGED <<references, files, infos, crashed>>
           /\ ph[t] = "mount" /\ Moved(ph, fl, t, "parse", NoInfo)
<1>1. At(t, "mount") /\ Then(t, <<>>)
  BY DEF IopMountDevice
<1>2. ph[t] \in Phases \ {"idle"} /\ HeadOp(ph[t]) = "mount" /\ Current(t) = fl[t]
  BY <1>1, AtPhase
<1>3. ph[t] \in {"mount"}
  BY <1>2, HeadPhases DEF Signalling
<1>4. Moved(ph, fl, t, After(ph[t]), FileIn(After(ph[t]), fl[t]))
  BY <1>1, <1>3, PlainMove
<1>5. ph[t] = "mount" => After(ph[t]) = "parse" /\ FileIn(After(ph[t]), fl[t]) = NoInfo
  BY DEF After, FileIn, NoFilePhases
<1> QED BY <1>1, <1>2, <1>3, <1>4, <1>5 DEF IopMountDevice

\* The new handle takes over one of the open's two references.
LEMMA HandleMoves ==
    ASSUME NEW ph, NEW fl, Lists(ph, fl), NEW t \in Threads, ObOpenObjectByName(t)
    PROVE  /\ files' = [files EXCEPT ![fl[t]].handles = @ + 1]
           /\ UNCHANGED <<deviceVars, infos, crashed>>
           /\ fl[t] \in Files
           /\ ph[t] = "handle" /\ Moved(ph, fl, t, "created", fl[t])
<1>1. At(t, "handle") /\ Then(t, <<>>)
  BY DEF ObOpenObjectByName
<1>2. ph[t] \in Phases \ {"idle"} /\ HeadOp(ph[t]) = "handle" /\ Current(t) = fl[t]
  BY <1>1, AtPhase
<1>3. ph[t] \in {"handle"}
  BY <1>2, HeadPhases DEF Signalling
<1>4. Moved(ph, fl, t, After(ph[t]), FileIn(After(ph[t]), fl[t]))
  BY <1>1, <1>3, PlainMove
<1>5. ph[t] = "handle" => After(ph[t]) = "created" /\ FileIn(After(ph[t]), fl[t]) = fl[t]
  BY DEF After, FileIn, NoFilePhases
<1>6. fl[t] \in Files
  BY <1>3, FileAt DEF NoFilePhases
<1> QED BY <1>1, <1>2, <1>3, <1>4, <1>5, <1>6 DEF ObOpenObjectByName

\* NtCreateFile notes that there is a handle.
LEMMA CreatedMoves ==
    ASSUME NEW ph, NEW fl, Lists(ph, fl), NEW t \in Threads, IoCreateFile(t)
    PROVE  /\ files' = [files EXCEPT ![fl[t]].handleCreated = TRUE]
           /\ UNCHANGED <<deviceVars, infos, crashed>>
           /\ fl[t] \in Files
           /\ ph[t] = "created" /\ Moved(ph, fl, t, "deref", fl[t])
<1>1. At(t, "created") /\ Then(t, <<>>)
  BY DEF IoCreateFile
<1>2. ph[t] \in Phases \ {"idle"} /\ HeadOp(ph[t]) = "created" /\ Current(t) = fl[t]
  BY <1>1, AtPhase
<1>3. ph[t] \in {"created"}
  BY <1>2, HeadPhases DEF Signalling
<1>4. Moved(ph, fl, t, After(ph[t]), FileIn(After(ph[t]), fl[t]))
  BY <1>1, <1>3, PlainMove
<1>5. ph[t] = "created" => After(ph[t]) = "deref" /\ FileIn(After(ph[t]), fl[t]) = fl[t]
  BY DEF After, FileIn, NoFilePhases
<1>6. fl[t] \in Files
  BY <1>3, FileAt DEF NoFilePhases
<1> QED BY <1>1, <1>2, <1>3, <1>4, <1>5, <1>6 DEF IoCreateFile

\* The transfer or the query itself.
LEMMA TransferMoves ==
    ASSUME NEW ph, NEW fl, Lists(ph, fl), NEW t \in Threads, FatxIrpTransfer(t)
    PROVE  /\ UNCHANGED <<deviceVars, files, infos, crashed>>
           /\ fl[t] \in Files
           /\ \/ ph[t] = "read" /\ Moved(ph, fl, t, "readDone", fl[t])
              \/ ph[t] = "query" /\ Moved(ph, fl, t, "release", fl[t])
<1>1. At(t, "transfer") /\ Then(t, <<>>)
  BY DEF FatxIrpTransfer
<1>2. ph[t] \in Phases \ {"idle"} /\ HeadOp(ph[t]) = "transfer" /\ Current(t) = fl[t]
  BY <1>1, AtPhase
<1>3. ph[t] \in {"read", "query"}
  BY <1>2, HeadPhases DEF Signalling
<1>4. Moved(ph, fl, t, After(ph[t]), FileIn(After(ph[t]), fl[t]))
  BY <1>1, <1>3, PlainMove
<1>5. ph[t] = "read" => After(ph[t]) = "readDone" /\ FileIn(After(ph[t]), fl[t]) = fl[t]
  BY DEF After, FileIn, NoFilePhases
<1>6. ph[t] = "query" => After(ph[t]) = "release" /\ FileIn(After(ph[t]), fl[t]) = fl[t]
  BY DEF After, FileIn, NoFilePhases
<1>7. fl[t] \in Files
  BY <1>3, FileAt DEF NoFilePhases
<1> QED BY <1>1, <1>2, <1>3, <1>4, <1>5, <1>6, <1>7 DEF FatxIrpTransfer

\* The duplicate counts as a handle and as a pointer.
LEMMA DuplicateMoves ==
    ASSUME NEW ph, NEW fl, Lists(ph, fl), NEW t \in Threads, ObInsertObject(t)
    PROVE  /\ files' = [files EXCEPT ![fl[t]].handles = @ + 1, ![fl[t]].pointers = @ + 1]
           /\ UNCHANGED <<deviceVars, infos, crashed>>
           /\ fl[t] \in Files
           /\ ph[t] = "duplicate" /\ Moved(ph, fl, t, "deref", fl[t])
<1>1. At(t, "duplicate") /\ Then(t, <<>>)
  BY DEF ObInsertObject
<1>2. ph[t] \in Phases \ {"idle"} /\ HeadOp(ph[t]) = "duplicate" /\ Current(t) = fl[t]
  BY <1>1, AtPhase
<1>3. ph[t] \in {"duplicate"}
  BY <1>2, HeadPhases DEF Signalling
<1>4. Moved(ph, fl, t, After(ph[t]), FileIn(After(ph[t]), fl[t]))
  BY <1>1, <1>3, PlainMove
<1>5. ph[t] = "duplicate" => After(ph[t]) = "deref" /\ FileIn(After(ph[t]), fl[t]) = fl[t]
  BY DEF After, FileIn, NoFilePhases
<1>6. fl[t] \in Files
  BY <1>3, FileAt DEF NoFilePhases
<1> QED BY <1>1, <1>2, <1>3, <1>4, <1>5, <1>6 DEF ObInsertObject

\* IopCloseFile's cleanup of the last handle.
LEMMA CleanupMoves ==
    ASSUME NEW ph, NEW fl, Lists(ph, fl), NEW t \in Threads, FatxIrpCleanup(t)
    PROVE  /\ ~files[fl[t]].cleaned /\ files' = [files EXCEPT ![fl[t]].cleaned = TRUE]
           /\ infos' = [infos EXCEPT ![files[fl[t]].info].share = ShareAfterCleanup(fl[t])]
           /\ UNCHANGED <<deviceVars, crashed>>
           /\ fl[t] \in Files
           /\ ph[t] = "cleanup" /\ Moved(ph, fl, t, "release", fl[t])
<1>1. At(t, "cleanup") /\ Then(t, <<>>)
  BY DEF FatxIrpCleanup
<1>2. ph[t] \in Phases \ {"idle"} /\ HeadOp(ph[t]) = "cleanup" /\ Current(t) = fl[t]
  BY <1>1, AtPhase
<1>3. ph[t] \in {"cleanup"}
  BY <1>2, HeadPhases DEF Signalling
<1>4. Moved(ph, fl, t, After(ph[t]), FileIn(After(ph[t]), fl[t]))
  BY <1>1, <1>3, PlainMove
<1>5. ph[t] = "cleanup" => After(ph[t]) = "release" /\ FileIn(After(ph[t]), fl[t]) = fl[t]
  BY DEF After, FileIn, NoFilePhases
<1>6. fl[t] \in Files
  BY <1>3, FileAt DEF NoFilePhases
<1> QED BY <1>1, <1>2, <1>3, <1>4, <1>5, <1>6 DEF FatxIrpCleanup

\* IopDeleteFile's close, of a file that is or is not open in FATX.
LEMMA CloseMoves ==
    ASSUME NEW ph, NEW fl, Lists(ph, fl), NEW t \in Threads, FatxIrpClose(t)
    PROVE  /\ files' = [files EXCEPT ![fl[t]].info =
                   IF LastUse(files[fl[t]].info) THEN NoInfo ELSE @]
           /\ infos' = [infos EXCEPT ![files[fl[t]].info] =
                   IF ~LastUse(files[fl[t]].info)
                   THEN [infos[files[fl[t]].info] EXCEPT !.references = @ - 1]
                   ELSE IF files[fl[t]].info = Volume
                   THEN [infos[files[fl[t]].info] EXCEPT !.references = @ - 1, !.state = "none"]
                   ELSE [infos[files[fl[t]].info] EXCEPT !.references = @ - 1, !.state = "freed"]]
           /\ UNCHANGED <<deviceVars, crashed>>
           /\ fl[t] \in Files
           /\ ph[t] = "close" /\ Moved(ph, fl, t, "volume", fl[t])
<1>1. At(t, "close") /\ Then(t, <<>>)
  BY DEF FatxIrpClose
<1>2. ph[t] \in Phases \ {"idle"} /\ HeadOp(ph[t]) = "close" /\ Current(t) = fl[t]
  BY <1>1, AtPhase
<1>3. ph[t] \in {"close"}
  BY <1>2, HeadPhases DEF Signalling
<1>4. Moved(ph, fl, t, After(ph[t]), FileIn(After(ph[t]), fl[t]))
  BY <1>1, <1>3, PlainMove
<1>5. ph[t] = "close" => After(ph[t]) = "volume" /\ FileIn(After(ph[t]), fl[t]) = fl[t]
  BY DEF After, FileIn, NoFilePhases
<1>6. fl[t] \in Files
  BY <1>3, FileAt DEF NoFilePhases
<1> QED BY <1>1, <1>2, <1>3, <1>4, <1>5, <1>6 DEF FatxIrpClose

\* A waiter goes on once the event is signalled, and takes the event with it.
LEMMA WaitMoves ==
    ASSUME NEW ph, NEW fl, Lists(ph, fl), NEW t \in Threads, WaitForFileLock(t),
           ph[t] # "selfWait"
    PROVE  /\ files[fl[t]].lockSignal
           /\ files' = [files EXCEPT ![fl[t]].lockSignal = FALSE]
           /\ UNCHANGED <<deviceVars, infos, crashed>>
           /\ fl[t] \in Files /\ ph[t] \in Waiting
           /\ Moved(ph, fl, t, After(ph[t]), fl[t])
<1>1. At(t, "wait") /\ Then(t, <<>>)
  BY DEF WaitForFileLock
<1>2. ph[t] \in Phases \ {"idle"} /\ HeadOp(ph[t]) = "wait" /\ Current(t) = fl[t]
  BY <1>1, AtPhase
<1>3. ph[t] \in Waiting
  BY <1>2, HeadPhases
<1>4. Moved(ph, fl, t, After(ph[t]), FileIn(After(ph[t]), fl[t]))
  BY <1>1, <1>3, PlainMove DEF Waiting
<1>5. FileIn(After(ph[t]), fl[t]) = fl[t]
  BY <1>3 DEF Waiting, After, FileIn, NoFilePhases
<1>6. fl[t] \in Files
  BY <1>3, FileAt DEF NoFilePhases, Waiting
<1> QED BY <1>1, <1>2, <1>3, <1>4, <1>5, <1>6 DEF WaitForFileLock

\* IopReleaseSynchronousFileLock owes the event when somebody else has a claim.
LEMMA ReleaseMoves ==
    ASSUME NEW ph, NEW fl, Lists(ph, fl), NEW t \in Threads, IopReleaseSynchronousFileLock(t)
    PROVE  /\ files' = [files EXCEPT ![fl[t]].lockCount = @ - 1]
           /\ UNCHANGED <<deviceVars, infos, crashed>>
           /\ fl[t] \in Files
           /\ \/ /\ ~(files[fl[t]].lockCount > 0) /\ ph[t] = "readRelease"
                 /\ Moved(ph, fl, t, "idle", NoInfo)
              \/ /\ ~(files[fl[t]].lockCount > 0) /\ ph[t] = "release"
                 /\ Moved(ph, fl, t, "deref", fl[t])
              \/ /\ files[fl[t]].lockCount > 0 /\ ph[t] = "readRelease"
                 /\ Moved(ph, fl, t, "lastSignal", fl[t])
              \/ /\ files[fl[t]].lockCount > 0 /\ ph[t] = "release"
                 /\ Moved(ph, fl, t, "signal", fl[t])
<1> DEFINE f == fl[t]
<1>1. At(t, "release")
  BY DEF IopReleaseSynchronousFileLock
<1>2. ph[t] \in Phases \ {"idle"} /\ HeadOp(ph[t]) = "release" /\ Current(t) = f
  BY <1>1, AtPhase
<1>3. ph[t] \in {"readRelease", "release"}
  BY <1>2, HeadPhases
<1>4. f \in Files /\ f # NoInfo
  BY <1>3, FileAt DEF NoFilePhases
<1>5. todo[t] = Plan(ph[t], f)
  BY DEF Lists
<1>6. CASE ~(files[f].lockCount > 0)
  <2>1. Then(t, <<>>)
    BY <1>2, <1>6 DEF IopReleaseSynchronousFileLock, MustSignal
  <2>2. Moved(ph, fl, t, After(ph[t]), FileIn(After(ph[t]), fl[t]))
    BY <1>1, <1>3, <2>1, PlainMove
  <2>3. /\ ph[t] = "readRelease" => After(ph[t]) = "idle" /\ FileIn(After(ph[t]), fl[t]) = NoInfo
        /\ ph[t] = "release" => After(ph[t]) = "deref" /\ FileIn(After(ph[t]), fl[t]) = fl[t]
    BY DEF After, FileIn, NoFilePhases
  <2> QED BY <1>2, <1>3, <1>4, <1>6, <2>2, <2>3 DEF IopReleaseSynchronousFileLock
<1>7. CASE files[f].lockCount > 0
  <2>1. Then(t, <<Step("signal", f)>>)
    BY <1>2, <1>7 DEF IopReleaseSynchronousFileLock, MustSignal
  <2>2. Step("signal", f) \in {Step("signal", f), Step("deref", f)}
    OBVIOUS
  <2>3. <<Step("signal", f)>> \o <<>> = <<Step("signal", f)>>
    <3>1. <<Step("signal", f)>> \in Seq({Step("signal", f)})
      BY TuplesAreLists
    <3> QED BY <3>1, ConcatEmptySeq
  <2>4. <<Step("signal", f)>> \o <<Step("deref", f)>> = <<Step("signal", f), Step("deref", f)>>
    BY <2>2, OneInFront
  <2>5. CASE ph[t] = "readRelease"
    <3>1. Tail(todo[t]) = <<>>
      BY <1>5, <2>5 DEF Plan
    <3>2. Plan("lastSignal", f) = <<Step("signal", f)>>
      BY DEF Plan
    <3>3. "lastSignal" \in Phases \ NoFilePhases
      BY PhasesAre DEF NoFilePhases
    <3> QED BY <1>2, <1>4, <1>7, <2>1, <2>3, <2>5, <3>1, <3>2, <3>3
            DEF IopReleaseSynchronousFileLock, Moved, Then
  <2>6. CASE ph[t] = "release"
    <3>1. Tail(todo[t]) = <<Step("deref", f)>>
      BY <1>5, <2>6 DEF Plan
    <3>2. Plan("signal", f) = <<Step("signal", f), Step("deref", f)>>
      BY DEF Plan
    <3>3. "signal" \in Phases \ NoFilePhases
      BY PhasesAre DEF NoFilePhases
    <3> QED BY <1>2, <1>4, <1>7, <2>1, <2>4, <2>6, <3>1, <3>2, <3>3
            DEF IopReleaseSynchronousFileLock, Moved, Then
  <2> QED BY <1>3, <2>5, <2>6
<1> QED BY <1>6, <1>7

\* The reference is given back; with the last one the file is deleted.
LEMMA DerefMoves ==
    ASSUME NEW ph, NEW fl, Lists(ph, fl), NEW t \in Threads, ObfDereferenceObject(t),
           files[fl[t]].pointers = 1 =>
               IF ph[t] = "refused" THEN ~files[fl[t]].device
               ELSE files[fl[t]].device /\ files[fl[t]].handleCreated
    PROVE  /\ files' = [files EXCEPT ![fl[t]].pointers = @ - 1]
           /\ UNCHANGED <<deviceVars, infos, crashed>>
           /\ fl[t] \in Files
           /\ \/ /\ files[fl[t]].pointers # 1
                 /\ \/ ph[t] = "deref" /\ Moved(ph, fl, t, "idle", NoInfo)
                    \/ ph[t] = "readDone" /\ Moved(ph, fl, t, "readRelease", fl[t])
                    \/ ph[t] = "refused" /\ Moved(ph, fl, t, "giveup", NoInfo)
              \/ /\ files[fl[t]].pointers = 1
                 /\ \/ ph[t] = "deref" /\ Moved(ph, fl, t, "deleteAcquire", fl[t])
                    \/ ph[t] = "readDone" /\ Moved(ph, fl, t, "selfAcquire", fl[t])
                    \/ ph[t] = "refused" /\ Moved(ph, fl, t, "refusedFree", fl[t])
<1> DEFINE f == fl[t]
<1>1. At(t, "deref")
  BY DEF ObfDereferenceObject
<1>2. ph[t] \in Phases \ {"idle"} /\ HeadOp(ph[t]) = "deref" /\ Current(t) = f
  BY <1>1, AtPhase
<1>3. ph[t] \in {"deref", "readDone", "refused"}
  BY <1>2, HeadPhases
<1>4. f \in Files /\ f # NoInfo
  BY <1>3, FileAt DEF NoFilePhases
<1>5. todo[t] = Plan(ph[t], f)
  BY DEF Lists
<1>6. CASE files[f].pointers # 1
  <2>1. Then(t, <<>>)
    BY <1>2, <1>6 DEF ObfDereferenceObject
  <2>2. Moved(ph, fl, t, After(ph[t]), FileIn(After(ph[t]), fl[t]))
    BY <1>1, <1>3, <2>1, PlainMove
  <2>3. /\ ph[t] = "deref" => After(ph[t]) = "idle" /\ FileIn(After(ph[t]), fl[t]) = NoInfo
        /\ ph[t] = "readDone" => After(ph[t]) = "readRelease" /\ FileIn(After(ph[t]), fl[t]) = fl[t]
        /\ ph[t] = "refused" => After(ph[t]) = "giveup" /\ FileIn(After(ph[t]), fl[t]) = NoInfo
    BY DEF After, FileIn, NoFilePhases
  <2> QED BY <1>2, <1>3, <1>4, <1>6, <2>2, <2>3 DEF ObfDereferenceObject
<1>7. CASE files[f].pointers = 1
  <2> DEFINE S == {Step("acquire", f), Step("close", f), Step("volume", f), Step("free", f),
                   Step("release", f), Step("volume", NoInfo)}
             a == Step("acquire", f)
             c == Step("close", f)
             v == Step("volume", f)
             e == Step("free", f)
             r == Step("release", f)
             w == Step("volume", NoInfo)
  <2>0. Then(t, DeleteSteps(f))
    BY <1>2, <1>7 DEF ObfDereferenceObject
  <2>1. a \in S /\ c \in S /\ v \in S /\ e \in S /\ r \in S /\ w \in S
    OBVIOUS
  <2>2. /\ Plan("deleteAcquire", f) = <<a, c, v, e>>
        /\ Plan("selfAcquire", f) = <<a, c, v, e, r>>
        /\ Plan("refusedFree", f) = <<e, w>>
    BY DEF Plan
  <2>3. ph[t] = "refused" => DeleteSteps(f) = <<>> \o <<e>>
    BY <1>7 DEF DeleteSteps
  <2>13. ph[t] = "refused" => Tail(todo[t]) = <<w>>
    BY <1>5 DEF Plan
  <2>4. ph[t] # "refused" => DeleteSteps(f) = (<<>> \o <<a, c, v>>) \o <<e>>
    BY <1>7 DEF DeleteSteps
  <2>5. ph[t] = "deref" => Tail(todo[t]) = <<>>
    BY <1>5 DEF Plan
  <2>6. ph[t] = "readDone" => Tail(todo[t]) = <<r>>
    BY <1>5 DEF Plan
  <2> HIDE DEF S, a, c, v, e, r, w
  <2>7. /\ <<>> \o <<e>> = <<e>> /\ <<>> \o <<a, c, v>> = <<a, c, v>>
        /\ <<a, c, v, e>> \o <<>> = <<a, c, v, e>>
    <3>1. <<e>> \in Seq(S) /\ <<a, c, v>> \in Seq(S) /\ <<a, c, v, e>> \in Seq(S)
      BY <2>1, TuplesAreLists
    <3> QED BY <3>1, ConcatEmptySeq
  <2>8. /\ <<a, c, v>> \o <<e>> = <<a, c, v, e>>
        /\ <<a, c, v, e>> \o <<r>> = <<a, c, v, e, r>>
        /\ <<e>> \o <<w>> = <<e, w>>
    <3>1. <<a, c, v>> \o <<e>> = <<a, c, v, e>>
      BY <2>1, ThreeInFront
    <3>2. <<a, c, v, e>> \o <<r>> = <<a, c, v, e, r>>
      BY <2>1, FourInFront
    <3>3. \A b1, b2 \in S : <<b1>> \o <<b2>> = <<b1, b2>>
      BY OneInFront
    <3> QED BY <2>1, <3>1, <3>2, <3>3
  <2>9. {"deleteAcquire", "selfAcquire", "refusedFree"} \subseteq Phases \ NoFilePhases
    BY PhasesAre DEF NoFilePhases
  <2>10. CASE ph[t] = "refused"
    <3>1. Moved(ph, fl, t, "refusedFree", f)
      BY <1>4, <2>0, <2>2, <2>3, <2>7, <2>8, <2>9, <2>10, <2>13 DEF Moved, Then
    <3> QED BY <1>2, <1>4, <1>7, <2>10, <3>1 DEF ObfDereferenceObject
  <2>11. CASE ph[t] = "deref"
    <3>1. Moved(ph, fl, t, "deleteAcquire", f)
      BY <1>4, <2>0, <2>2, <2>4, <2>5, <2>7, <2>8, <2>9, <2>11 DEF Moved, Then
    <3> QED BY <1>2, <1>4, <1>7, <2>11, <3>1 DEF ObfDereferenceObject
  <2>12. CASE ph[t] = "readDone"
    <3>1. Moved(ph, fl, t, "selfAcquire", f)
      BY <1>4, <2>0, <2>2, <2>4, <2>6, <2>7, <2>8, <2>9, <2>12 DEF Moved, Then
    <3> QED BY <1>2, <1>4, <1>7, <2>12, <3>1 DEF ObfDereferenceObject
  <2> QED BY <1>3, <2>10, <2>11, <2>12
<1> QED BY <1>6, <1>7

\* A thread with nothing left to do is idle.
LEMMA IdlePhase ==
    ASSUME NEW ph, NEW fl, Lists(ph, fl), NEW t \in Threads, todo[t] = <<>>
    PROVE  ph[t] = "idle" /\ fl[t] = NoInfo
<1>1. /\ ph[t] \in Phases /\ todo[t] = Plan(ph[t], fl[t])
      /\ ph[t] \in NoFilePhases <=> fl[t] = NoInfo
  BY DEF Lists
<1>2. ph[t] \in {"selfAcquire", "selfWait"} => todo[t] # <<>>
  BY <1>1, SelfTable
<1>3. ph[t] \in Phases \ {"idle", "selfAcquire", "selfWait"} => todo[t] # <<>>
  BY <1>1, PlanTable
<1>4. ph[t] = "idle"
  BY <1>1, <1>2, <1>3
<1> QED BY <1>1, <1>4 DEF NoFilePhases

\* A call starts, or goes on after its last step.
LEMMA StartMoves ==
    ASSUME NEW ph, NEW fl, Lists(ph, fl), NEW t \in Threads, NEW y \in Phases,
           NEW g \in Files \union {NoInfo}, y \in NoFilePhases <=> g = NoInfo,
           \/ Start(t, Plan(y, g))
           \/ Then(t, Plan(y, g)) /\ ph[t] \in {"parse", "create"}
    PROVE  Moved(ph, fl, t, y, g)
<1>1. CASE Start(t, Plan(y, g))
  BY <1>1 DEF Start, Moved
<1>2. CASE Then(t, Plan(y, g)) /\ ph[t] \in {"parse", "create"}
  <2>1. Tail(todo[t]) = <<>>
    <3>1. todo[t] = Plan(ph[t], fl[t])
      BY DEF Lists
    <3>2. CASE ph[t] = "parse"
      <4>1. todo[t] = <<Step("parse", fl[t])>>
        BY <3>1, <3>2 DEF Plan
      <4> QED BY <4>1
    <3>3. CASE ph[t] = "create"
      <4>1. todo[t] = <<Step("create", fl[t])>>
        BY <3>1, <3>3 DEF Plan
      <4> QED BY <4>1
    <3> QED BY <1>2, <3>2, <3>3
  <2>2. Plan(y, g) \o <<>> = Plan(y, g)
    BY PlanSeq, ConcatEmptySeq
  <2> QED BY <1>2, <2>1, <2>2 DEF Then, Moved
<1> QED BY <1>1, <1>2

\* NtCreateFile begins with the parse of the device.
LEMMA CreateFileMoves ==
    ASSUME NEW ph, NEW fl, Lists(ph, fl), NEW t \in Threads, NtCreateFile(t)
    PROVE  /\ UNCHANGED <<deviceVars, files, infos, crashed>>
           /\ ph[t] = "idle" /\ fl[t] = NoInfo /\ Moved(ph, fl, t, "parse", NoInfo)
<1>1. ph[t] = "idle" /\ fl[t] = NoInfo
  BY IdlePhase DEF NtCreateFile, Idle
<1>2. Plan("parse", NoInfo) = <<Step("parse", NoInfo)>> /\ "parse" \in Phases /\ "parse" \in NoFilePhases
  BY PhasesAre DEF Plan, NoFilePhases
<1>3. Start(t, Plan("parse", NoInfo))
  BY <1>2 DEF NtCreateFile
<1>4. Moved(ph, fl, t, "parse", NoInfo)
  BY <1>2, <1>3, StartMoves
<1> QED BY <1>1, <1>4 DEF NtCreateFile

\* An open of a device without a volume is to mount it.
LEMMA MountNeededMoves ==
    ASSUME NEW ph, NEW fl, Lists(ph, fl), NEW t \in Threads, MountNeeded(t)
    PROVE  /\ UNCHANGED <<deviceVars, files, infos, crashed>>
           /\ ph[t] = "parse" /\ fl[t] = NoInfo /\ Moved(ph, fl, t, "lockdevice", NoInfo)
<1>2. ph[t] = "parse" /\ fl[t] = NoInfo
  <2>1. ph[t] \in Phases /\ HeadOp(ph[t]) = "parse"
    BY AtPhase DEF MountNeeded
  <2>2. ph[t] = "parse"
    BY <2>1, HeadPhases
  <2> QED BY <2>2 DEF Lists, NoFilePhases
<1>3. /\ Plan("lockdevice", NoInfo)
           = <<Step("lockdevice", NoInfo), Step("mount", NoInfo), Step("parse", NoInfo)>>
      /\ "lockdevice" \in Phases /\ "lockdevice" \in NoFilePhases
  BY PhasesAre DEF Plan, NoFilePhases
<1>4. Then(t, Plan("lockdevice", NoInfo))
  BY <1>3 DEF MountNeeded
<1>5. Moved(ph, fl, t, "lockdevice", NoInfo)
  BY <1>2, <1>3, <1>4, StartMoves
<1> QED BY <1>2, <1>5 DEF MountNeeded

\* A mount that fails ends the open.
LEMMA MountFailsMoves ==
    ASSUME NEW ph, NEW fl, Lists(ph, fl), NEW t \in Threads, IopMountDeviceFails(t)
    PROVE  /\ UNCHANGED <<volumes, references, files, infos, crashed>>
           /\ mounting' = {}
           /\ ph[t] = "mount" /\ fl[t] = NoInfo /\ Moved(ph, fl, t, "idle", NoInfo)
<1>1. ph[t] \in Phases /\ HeadOp(ph[t]) = "mount"
  BY AtPhase DEF IopMountDeviceFails
<1>2. ph[t] = "mount"
  BY <1>1, HeadPhases
<1>3. fl[t] = NoInfo
  BY <1>2 DEF Lists, NoFilePhases
<1>4. Plan("idle", NoInfo) = <<>> /\ "idle" \in Phases /\ "idle" \in NoFilePhases
  BY PhasesAre DEF Plan, NoFilePhases
<1>5. Start(t, Plan("idle", NoInfo))
  BY <1>4 DEF IopMountDeviceFails
<1>6. Moved(ph, fl, t, "idle", NoInfo)
  BY <1>4, <1>5, StartMoves
<1> QED BY <1>2, <1>3, <1>6 DEF IopMountDeviceFails

\* IoParseDevice references the volume, and creates a file object if it can.
LEMMA ParseMoves ==
    ASSUME NEW ph, NEW fl, Lists(ph, fl), NEW t \in Threads, IoParseDevice(t)
    PROVE  /\ UNCHANGED <<volumes, mounting, infos, crashed>>
           /\ references' = references + 1
           /\ ph[t] = "parse" /\ fl[t] = NoInfo
           /\ \/ \E f \in Files :
                   /\ files[f].state = "unborn" /\ files' = [files EXCEPT ![f] = NewFile]
                   /\ Moved(ph, fl, t, "create", f)
              \/ UNCHANGED files /\ Moved(ph, fl, t, "giveup", NoInfo)
<1>1. ph[t] \in Phases /\ HeadOp(ph[t]) = "parse"
  BY AtPhase DEF IoParseDevice
<1>2. ph[t] = "parse"
  BY <1>1, HeadPhases
<1>3. fl[t] = NoInfo
  BY <1>2 DEF Lists, NoFilePhases
<1>4. /\ Plan("giveup", NoInfo) = <<Step("volume", NoInfo)>>
      /\ \A f : Plan("create", f) = <<Step("create", f)>>
      /\ {"giveup", "create"} \subseteq Phases
      /\ "giveup" \in NoFilePhases /\ "create" \notin NoFilePhases
  BY PhasesAre DEF Plan, NoFilePhases
<1>5. CASE Then(t, <<Step("volume", NoInfo)>>) /\ UNCHANGED files
  <2>1. Moved(ph, fl, t, "giveup", NoInfo)
    BY <1>2, <1>4, <1>5, StartMoves
  <2> QED BY <1>2, <1>3, <1>5, <2>1 DEF IoParseDevice
<1>6. ASSUME NEW f \in Files, files[f].state = "unborn", files' = [files EXCEPT ![f] = NewFile],
             Then(t, <<Step("create", f)>>)
      PROVE  Moved(ph, fl, t, "create", f)
  <2>1. f # NoInfo
    BY IoFileAssumption
  <2> QED BY <1>2, <1>4, <1>6, <2>1, StartMoves
<1> QED BY <1>2, <1>3, <1>5, <1>6 DEF IoParseDevice

\* An open that fails, and one that succeeds.
LEMMA CreateMoves ==
    ASSUME NEW ph, NEW fl, Lists(ph, fl), NEW t \in Threads, At(t, "create")
    PROVE  /\ ph[t] = "create" /\ fl[t] \in Files /\ Current(t) = fl[t]
           /\ Refused(t, fl[t]) => Moved(ph, fl, t, "refused", fl[t])
           /\ \A i, asked : ToHandle(t, fl[t], i, asked) => Moved(ph, fl, t, "handle", fl[t])
<1> DEFINE f == fl[t]
<1>1. ph[t] \in Phases /\ HeadOp(ph[t]) = "create" /\ Current(t) = f
  BY AtPhase
<1>2. ph[t] = "create"
  BY <1>1, HeadPhases
<1>3. f \in Files /\ f # NoInfo
  BY <1>2, FileAt DEF NoFilePhases
<1>4. /\ Plan("refused", f) = <<Step("deref", f), Step("volume", NoInfo)>>
      /\ Plan("handle", f) = <<Step("handle", f), Step("created", f), Step("deref", f)>>
      /\ {"refused", "handle"} \subseteq Phases
      /\ "refused" \notin NoFilePhases /\ "handle" \notin NoFilePhases
  BY PhasesAre DEF Plan, NoFilePhases
<1>5. Then(t, Plan("refused", f)) => Moved(ph, fl, t, "refused", f)
  BY <1>2, <1>3, <1>4, StartMoves
<1>6. Then(t, Plan("handle", f)) => Moved(ph, fl, t, "handle", f)
  BY <1>2, <1>3, <1>4, StartMoves
<1> QED BY <1>1, <1>2, <1>3, <1>4, <1>5, <1>6 DEF Refused, ToHandle

\* A call with a handle.
LEMMA CallMoves ==
    ASSUME NEW ph, NEW fl, Lists(ph, fl), NEW t \in Threads, NEW f \in Files,
           NEW y \in {"readAcquire", "queryAcquire", "failAcquire", "deref", "duplicate"},
           WithHandle(t, f, Plan(y, f))
    PROVE  /\ ph[t] = "idle" /\ fl[t] = NoInfo /\ Moved(ph, fl, t, y, f)
           /\ files[f].handles > 0 /\ files' = [files EXCEPT ![f].pointers = @ + 1]
           /\ UNCHANGED <<deviceVars, infos, crashed>>
<1>1. ph[t] = "idle" /\ fl[t] = NoInfo
  BY IdlePhase DEF WithHandle, Idle
<1>2. y \in Phases /\ y \notin NoFilePhases /\ f # NoInfo
  BY PhasesAre, IoFileAssumption DEF NoFilePhases
<1>3. Start(t, Plan(y, f))
  BY DEF WithHandle
<1>4. Moved(ph, fl, t, y, f)
  BY <1>2, <1>3, StartMoves
<1> QED BY <1>1, <1>4 DEF WithHandle

\* A request references the file of a handle that is open.
LEMMA RequestMoves ==
    ASSUME NEW ph, NEW fl, Lists(ph, fl), NEW t \in Threads, NEW f \in Files,
           \/ NtReadFile(t, f) \/ NtQueryInformationFile(t, f) \/ RequestFails(t, f)
           \/ NtDuplicateObject(t, f)
    PROVE  \E y \in {"readAcquire", "queryAcquire", "failAcquire", "deref", "duplicate"} :
             /\ ph[t] = "idle" /\ fl[t] = NoInfo /\ Moved(ph, fl, t, y, f)
             /\ files[f].handles > 0 /\ files' = [files EXCEPT ![f].pointers = @ + 1]
             /\ UNCHANGED <<deviceVars, infos, crashed>>
<1>1. /\ Plan("readAcquire", f) = <<Step("acquire", f), Step("transfer", f), Step("deref", f), Step("release", f)>>
      /\ Plan("queryAcquire", f) = <<Step("acquire", f), Step("transfer", f), Step("release", f), Step("deref", f)>>
      /\ Plan("failAcquire", f) = <<Step("acquire", f), Step("release", f), Step("deref", f)>>
      /\ Plan("deref", f) = <<Step("deref", f)>>
      /\ Plan("duplicate", f) = <<Step("duplicate", f), Step("deref", f)>>
  BY DEF Plan
<1>2. \E y \in {"readAcquire", "queryAcquire", "failAcquire", "deref", "duplicate"} :
          WithHandle(t, f, Plan(y, f))
  <2>1. CASE NtReadFile(t, f)
    <3>1. WithHandle(t, f, Plan("readAcquire", f))
      BY <1>1, <2>1 DEF NtReadFile
    <3> QED BY <3>1
  <2>2. CASE NtQueryInformationFile(t, f)
    <3>1. WithHandle(t, f, Plan("queryAcquire", f)) \/ WithHandle(t, f, Plan("failAcquire", f))
      BY <1>1, <2>2 DEF NtQueryInformationFile
    <3> QED BY <3>1
  <2>3. CASE RequestFails(t, f)
    <3>1. WithHandle(t, f, Plan("deref", f))
      BY <1>1, <2>3 DEF RequestFails
    <3> QED BY <3>1
  <2>4. CASE NtDuplicateObject(t, f)
    <3>1. WithHandle(t, f, Plan("duplicate", f))
      BY <1>1, <2>4 DEF NtDuplicateObject
    <3> QED BY <3>1
  <2> QED BY <2>1, <2>2, <2>3, <2>4
<1>3. PICK y \in {"readAcquire", "queryAcquire", "failAcquire", "deref", "duplicate"} :
          WithHandle(t, f, Plan(y, f))
  BY <1>2
<1> QED BY <1>3, CallMoves

\* NtClose of the last handle leaves a cleanup to do, of another a reference.
LEMMA NtCloseMoves ==
    ASSUME NEW ph, NEW fl, Lists(ph, fl), NEW t \in Threads, NEW f \in Files, NtClose(t, f)
    PROVE  /\ ph[t] = "idle" /\ fl[t] = NoInfo /\ files[f].handles > 0
           /\ files' = [files EXCEPT ![f].handles = @ - 1,
                                     ![f].handleCreated = @ \/ files[f].handles = 1]
           /\ UNCHANGED <<deviceVars, infos, crashed>>
           /\ \/ files[f].handles = 1 /\ Moved(ph, fl, t, "closeAcquire", f)
              \/ files[f].handles # 1 /\ Moved(ph, fl, t, "deref", f)
<1>1. ph[t] = "idle" /\ fl[t] = NoInfo
  BY IdlePhase DEF NtClose, Idle
<1>2. /\ Plan("closeAcquire", f) = <<Step("acquire", f), Step("cleanup", f), Step("release", f), Step("deref", f)>>
      /\ Plan("deref", f) = <<Step("deref", f)>>
      /\ {"closeAcquire", "deref"} \subseteq Phases /\ f # NoInfo
      /\ "closeAcquire" \notin NoFilePhases /\ "deref" \notin NoFilePhases
  BY PhasesAre, IoFileAssumption DEF Plan, NoFilePhases
<1> DEFINE S == {Step("acquire", f), Step("cleanup", f), Step("release", f), Step("deref", f)}
<1>3. /\ CleanupSteps(f) \o <<Step("deref", f)>> = Plan("closeAcquire", f)
      /\ <<>> \o <<Step("deref", f)>> = Plan("deref", f)
  <2>1. Step("acquire", f) \in S /\ Step("cleanup", f) \in S /\ Step("release", f) \in S /\ Step("deref", f) \in S
    OBVIOUS
  <2> HIDE DEF S
  <2>2. <<Step("deref", f)>> \in Seq(S)
    BY <2>1, TuplesAreLists
  <2> QED BY <1>2, <2>1, <2>2, ThreeInFront, ConcatEmptySeq DEF CleanupSteps
<1>4. CASE files[f].handles = 1
  <2>1. Start(t, Plan("closeAcquire", f))
    BY <1>3, <1>4 DEF NtClose, IsLastHandle
  <2>2. Moved(ph, fl, t, "closeAcquire", f)
    BY <1>2, <2>1, StartMoves
  <2> QED BY <1>1, <1>4, <2>2 DEF NtClose, IsLastHandle
<1>5. CASE files[f].handles # 1
  <2>1. Start(t, Plan("deref", f))
    BY <1>3, <1>5 DEF NtClose, IsLastHandle
  <2>2. Moved(ph, fl, t, "deref", f)
    BY <1>2, <2>1, StartMoves
  <2> QED BY <1>1, <1>5, <2>2 DEF NtClose, IsLastHandle
<1> QED BY <1>4, <1>5

-----------------------------------------------------------------------------
(* Steps that leave a part of the invariant as it is.                       *)

\* p2 and f2 are ph and fl once t is in phase y with file g.
Shift(ph, fl, t, y, g, p2, f2) ==
    /\ p2 \in [Threads -> Phases] /\ f2 \in [Threads -> Files \union {NoInfo}]
    /\ p2[t] = y /\ f2[t] = g
    /\ \A u \in Threads \ {t} : p2[u] = ph[u] /\ f2[u] = fl[u]

\* There are such.
LEMMA MovedShift ==
    ASSUME NEW ph, NEW fl, Lists(ph, fl), NEW t \in Threads, NEW y, NEW g,
           Moved(ph, fl, t, y, g)
    PROVE  \E p2, f2 : Shift(ph, fl, t, y, g, p2, f2) /\ Lists(p2, f2)'
<1> DEFINE p2 == [ph EXCEPT ![t] = y]
           f2 == [fl EXCEPT ![t] = g]
<1>1. Lists(p2, f2)'
  BY MovedLists
<1>2. Shift(ph, fl, t, y, g, p2, f2)
  BY DEF Shift, Lists, Moved
<1> QED BY <1>1, <1>2

\* The device's lock and its volume.
LEMMA MountingKept ==
    ASSUME NEW ph, NEW fl, NEW t \in Threads, NEW y, NEW g, NEW p2, NEW f2,
           Shift(ph, fl, t, y, g, p2, f2), Mounting(ph), ph[t] # "mount", y # "mount",
           UNCHANGED <<volumes, mounting>>
    PROVE  Mounting(p2)'
<1>1. \A u \in Threads : p2[u] = "mount" <=> ph[u] = "mount"
  BY DEF Shift
<1> QED BY <1>1 DEF Mounting

\* Opens and closes under way.
LEMMA InVolumeKept ==
    ASSUME NEW ph, NEW fl, NEW t \in Threads, NEW y, NEW g, NEW p2, NEW f2,
           Shift(ph, fl, t, y, g, p2, f2), IsFiniteSet(InVolume(ph))
    PROVE  /\ IsFiniteSet(InVolume(p2)) /\ Cardinality(InVolume(ph)) \in Nat
           /\ (ph[t] \in Volumed <=> y \in Volumed) =>
                Cardinality(InVolume(p2)) = Cardinality(InVolume(ph))
           /\ ph[t] \notin Volumed /\ y \in Volumed =>
                Cardinality(InVolume(p2)) = Cardinality(InVolume(ph)) + 1
           /\ ph[t] \in Volumed /\ y \notin Volumed =>
                Cardinality(InVolume(p2)) = Cardinality(InVolume(ph)) - 1
<1>1. /\ p2[t] = y /\ \A u \in Threads : u # t => p2[u] = ph[u]
  BY DEF Shift
<1>2. CASE y \in Volumed
  <2>1. InVolume(p2) = InVolume(ph) \union {t}
    BY <1>1, <1>2 DEF InVolume
  <2>2. t \in InVolume(ph) <=> ph[t] \in Volumed
    BY DEF InVolume
  <2> QED BY <1>2, <2>1, <2>2, FS_AddElement, FS_CardinalityType
<1>3. CASE y \notin Volumed
  <2>1. InVolume(p2) = InVolume(ph) \ {t}
    BY <1>1, <1>3 DEF InVolume
  <2>2. t \in InVolume(ph) <=> ph[t] \in Volumed
    BY DEF InVolume
  <2> QED BY <1>3, <2>1, <2>2, FS_RemoveElement, FS_CardinalityType
<1> QED BY <1>2, <1>3

\* Files on the volume.
HasVolume(f) == files[f].state = "live" /\ files[f].device /\ files[f].pointers > 0

\* What one file's change does to the number of files on the volume.
LEMMA OnVolumeKept ==
    ASSUME IsFiniteSet(OnVolume), NEW f \in Files,
           \A h \in Files \ {f} : HasVolume(h)' <=> HasVolume(h)
    PROVE  /\ IsFiniteSet(OnVolume') /\ Cardinality(OnVolume) \in Nat
           /\ (HasVolume(f)' <=> HasVolume(f)) => Cardinality(OnVolume') = Cardinality(OnVolume)
           /\ HasVolume(f)' /\ ~HasVolume(f) => Cardinality(OnVolume') = Cardinality(OnVolume) + 1
           /\ ~HasVolume(f)' /\ HasVolume(f) => Cardinality(OnVolume') = Cardinality(OnVolume) - 1
<1>1. /\ \A h : h \in OnVolume <=> h \in Files /\ HasVolume(h)
      /\ \A h : h \in OnVolume' <=> h \in Files /\ HasVolume(h)'
  BY DEF OnVolume, HasVolume
<1>2. CASE HasVolume(f)'
  <2>1. OnVolume' = OnVolume \union {f}
    BY <1>1, <1>2
  <2> QED BY <1>1, <1>2, <2>1, FS_AddElement, FS_CardinalityType
<1>3. CASE ~HasVolume(f)'
  <2>1. OnVolume' = OnVolume \ {f}
    BY <1>1, <1>3
  <2> QED BY <1>1, <1>3, <2>1, FS_RemoveElement, FS_CardinalityType
<1> QED BY <1>2, <1>3

\* The volume's count, when nothing it counts comes or goes.
LEMMA VolumeKept ==
    ASSUME NEW ph, NEW fl, NEW t \in Threads, NEW y, NEW g, NEW p2, NEW f2,
           Shift(ph, fl, t, y, g, p2, f2), VolumeCount(ph), references' = references,
           ph[t] \in Volumed <=> y \in Volumed,
           \A h \in Files : HasVolume(h)' <=> HasVolume(h)
    PROVE  VolumeCount(p2)'
<1>1. OnVolume' = OnVolume
  BY DEF OnVolume, HasVolume
<1>2. IsFiniteSet(InVolume(p2)) /\ Cardinality(InVolume(p2)) = Cardinality(InVolume(ph))
  BY InVolumeKept DEF VolumeCount
<1>3. InVolume(p2)' = InVolume(p2)
  BY DEF InVolume
<1> QED BY <1>1, <1>2, <1>3 DEF VolumeCount

\* A count of what the threads have of a file follows its thread.
LEMMA CountKept ==
    ASSUME NEW a \in [Threads -> Nat], NEW b \in [Threads -> Nat], NEW t \in Threads,
           \A u \in Threads \ {t} : b[u] = a[u],
           IsFiniteSet(Tally(a))
    PROVE  /\ Cardinality(Tally(a)) \in Nat
           /\ b[t] = a[t] => IsFiniteSet(Tally(b)) /\ Cardinality(Tally(b)) = Cardinality(Tally(a))
           /\ b[t] = a[t] + 1 =>
                IsFiniteSet(Tally(b)) /\ Cardinality(Tally(b)) = Cardinality(Tally(a)) + 1
           /\ b[t] = a[t] - 1 =>
                IsFiniteSet(Tally(b)) /\ Cardinality(Tally(b)) = Cardinality(Tally(a)) - 1
<1>1. Cardinality(Tally(a)) \in Nat
  BY FS_CardinalityType
<1>2. b[t] = a[t] => a = b
  OBVIOUS
<1>3. b[t] = a[t] + 1 =>
         IsFiniteSet(Tally(b)) /\ Cardinality(Tally(b)) = Cardinality(Tally(a)) + 1
  BY TallyUp
<1>4. b[t] = a[t] - 1 =>
         IsFiniteSet(Tally(b)) /\ Cardinality(Tally(b)) = Cardinality(Tally(a)) - 1
  <2>1. SUFFICES ASSUME b[t] = a[t] - 1
                 PROVE  IsFiniteSet(Tally(b)) /\ Cardinality(Tally(b)) = Cardinality(Tally(a)) - 1
    OBVIOUS
  <2>2. a[t] > 0
    BY <2>1
  <2> QED BY <2>1, <2>2, TallyDown
<1> QED BY <1>1, <1>2, <1>3, <1>4

\* What the threads have of a file is a number each.
LEMMA CountsAreNat ==
    ASSUME NEW ph, NEW fl, NEW f
    PROVE  RefsTo(ph, fl, f) \in [Threads -> Nat] /\ ClaimsTo(ph, fl, f) \in [Threads -> Nat]
    BY DEF RefsTo, ClaimsTo, Refs, Claims

\* The references of t to f, before and after.
RefsOf(x, f, h) == IF f = h THEN Refs(x) ELSE 0
ClaimsOf(x, f, h) == IF f = h THEN Claims(x) ELSE 0

\* The counts of the files follow t from phase x and file f to y and g.
PointersFollow(x, f, y, g) ==
    \A h \in Files :
        /\ RefsOf(y, g, h) - RefsOf(x, f, h) \in {0, 1, -1}
        /\ files'[h].pointers - files'[h].handles - (files[h].pointers - files[h].handles)
             = RefsOf(y, g, h) - RefsOf(x, f, h)

\* The pointer counts stay right when they follow the thread.
LEMMA PointersKept ==
    ASSUME NEW ph, NEW fl, NEW t \in Threads, NEW y, NEW g, NEW p2, NEW f2,
           Shift(ph, fl, t, y, g, p2, f2), Pointers(ph, fl), Types, Types',
           PointersFollow(ph[t], fl[t], y, g)
    PROVE  Pointers(p2, f2)'
<1> SUFFICES ASSUME NEW h \in Files
             PROVE  /\ IsFiniteSet(Tally(RefsTo(p2, f2, h)))
                    /\ files'[h].pointers = files'[h].handles + Cardinality(Tally(RefsTo(p2, f2, h)))
  BY DEF Pointers, RefsTo
<1> DEFINE a == RefsTo(ph, fl, h)
           b == RefsTo(p2, f2, h)
<1>1. a \in [Threads -> Nat] /\ b \in [Threads -> Nat]
  BY CountsAreNat
<1>2. /\ a[t] = RefsOf(ph[t], fl[t], h) /\ b[t] = RefsOf(y, g, h)
      /\ \A u \in Threads \ {t} : b[u] = a[u]
  BY DEF Shift, RefsTo, RefsOf
<1>3. /\ files[h].pointers \in Nat /\ files[h].handles \in Nat
      /\ files'[h].pointers \in Nat /\ files'[h].handles \in Nat
  BY DEF Types, FileTypes
<1>4. IsFiniteSet(Tally(a)) /\ files[h].pointers = files[h].handles + Cardinality(Tally(a))
  BY DEF Pointers
<1>5. /\ b[t] - a[t] \in {0, 1, -1}
      /\ files'[h].pointers - files'[h].handles - (files[h].pointers - files[h].handles) = b[t] - a[t]
  BY <1>2 DEF PointersFollow
<1>6. a[t] \in Nat /\ b[t] \in Nat
  BY <1>1
<1> HIDE DEF a, b
<1>7. /\ Cardinality(Tally(a)) \in Nat
      /\ b[t] = a[t] => IsFiniteSet(Tally(b)) /\ Cardinality(Tally(b)) = Cardinality(Tally(a))
      /\ b[t] = a[t] + 1 =>
           IsFiniteSet(Tally(b)) /\ Cardinality(Tally(b)) = Cardinality(Tally(a)) + 1
      /\ b[t] = a[t] - 1 =>
           IsFiniteSet(Tally(b)) /\ Cardinality(Tally(b)) = Cardinality(Tally(a)) - 1
  BY <1>1, <1>2, <1>4, CountKept
<1>8. b[t] = a[t] \/ b[t] = a[t] + 1 \/ b[t] = a[t] - 1
  BY <1>5, <1>6
<1>9. IsFiniteSet(Tally(b)) /\ files'[h].pointers = files'[h].handles + Cardinality(Tally(b))
  <2>1. CASE b[t] = a[t]
    BY <1>3, <1>4, <1>5, <1>6, <1>7, <2>1
  <2>2. CASE b[t] = a[t] + 1
    BY <1>3, <1>4, <1>5, <1>6, <1>7, <2>2
  <2>3. CASE b[t] = a[t] - 1
    BY <1>3, <1>4, <1>5, <1>6, <1>7, <2>3
  <2> QED BY <1>8, <2>1, <2>2, <2>3
<1> QED BY <1>9 DEF b

\* A lock's count that follows the claims on it still counts them.
ClaimsFollow(ph, fl, t, y, g, p2, f2, h) ==
    \A m, n \in Int :
        /\ Cardinality(Tally(ClaimsTo(ph, fl, h))) = m + 1 /\ n - m \in {0, 1, -1}
        /\ n - m = ClaimsOf(y, g, h) - ClaimsOf(ph[t], fl[t], h)
        => /\ IsFiniteSet(Tally(ClaimsTo(p2, f2, h)))
           /\ Cardinality(Tally(ClaimsTo(p2, f2, h))) = n + 1

\* The claims on a lock, and its count.
LEMMA ClaimsKept ==
    ASSUME NEW ph, NEW fl, NEW t \in Threads, NEW y, NEW g, NEW p2, NEW f2,
           Shift(ph, fl, t, y, g, p2, f2), NEW h \in Files,
           IsFiniteSet(Tally(ClaimsTo(ph, fl, h)))
    PROVE  ClaimsFollow(ph, fl, t, y, g, p2, f2, h)
<1> SUFFICES ASSUME NEW m \in Int, NEW n \in Int,
                    Cardinality(Tally(ClaimsTo(ph, fl, h))) = m + 1, n - m \in {0, 1, -1},
                    n - m = ClaimsOf(y, g, h) - ClaimsOf(ph[t], fl[t], h)
             PROVE  /\ IsFiniteSet(Tally(ClaimsTo(p2, f2, h)))
                    /\ Cardinality(Tally(ClaimsTo(p2, f2, h))) = n + 1
  BY DEF ClaimsFollow
<1> DEFINE a == ClaimsTo(ph, fl, h)
           b == ClaimsTo(p2, f2, h)
<1>1. a \in [Threads -> Nat] /\ b \in [Threads -> Nat]
  BY CountsAreNat
<1>2. /\ a[t] = ClaimsOf(ph[t], fl[t], h) /\ b[t] = ClaimsOf(y, g, h)
      /\ \A u \in Threads \ {t} : b[u] = a[u]
  BY DEF Shift, ClaimsTo, ClaimsOf
<1>3. IsFiniteSet(Tally(a)) /\ Cardinality(Tally(a)) = m + 1
  OBVIOUS
<1>4. a[t] \in Nat /\ b[t] \in Nat /\ n - m = b[t] - a[t]
  BY <1>1, <1>2
<1> HIDE DEF a, b
<1>5. /\ b[t] = a[t] => IsFiniteSet(Tally(b)) /\ Cardinality(Tally(b)) = Cardinality(Tally(a))
      /\ b[t] = a[t] + 1 =>
           IsFiniteSet(Tally(b)) /\ Cardinality(Tally(b)) = Cardinality(Tally(a)) + 1
      /\ b[t] = a[t] - 1 =>
           IsFiniteSet(Tally(b)) /\ Cardinality(Tally(b)) = Cardinality(Tally(a)) - 1
  BY <1>1, <1>2, <1>3, CountKept
<1>6. IsFiniteSet(Tally(b)) /\ Cardinality(Tally(b)) = n + 1
  <2>1. CASE n = m
    BY <1>3, <1>4, <1>5, <2>1
  <2>2. CASE n = m + 1
    BY <1>3, <1>4, <1>5, <2>2
  <2>3. CASE n = m - 1
    BY <1>3, <1>4, <1>5, <2>3
  <2> QED BY <2>1, <2>2, <2>3
<1> QED BY <1>6 DEF b

\* A phase that has the lock of a file.
OwnsOf(x, f, h) == f = h /\ x \in Owning

\* Who has the lock, after t's step.
LEMMA OwnersKept ==
    ASSUME NEW ph, NEW fl, NEW t \in Threads, NEW y, NEW g, NEW p2, NEW f2,
           Shift(ph, fl, t, y, g, p2, f2), NEW h
    PROVE  /\ OwnsOf(y, g, h) => Owners(p2, f2, h) = Owners(ph, fl, h) \union {t}
           /\ ~OwnsOf(y, g, h) => Owners(p2, f2, h) = Owners(ph, fl, h) \ {t}
           /\ t \in Owners(ph, fl, h) <=> OwnsOf(ph[t], fl[t], h)
    BY DEF Shift, Owners, OwnsOf

\* A lock that t's step has nothing to do with.
LEMMA LockKept ==
    ASSUME NEW ph, NEW fl, NEW t \in Threads, NEW y, NEW g, NEW p2, NEW f2,
           Shift(ph, fl, t, y, g, p2, f2), NEW h \in Files, Types, Locked(ph, fl, h)
    PROVE  /\ files'[h].lockCount = files[h].lockCount
           /\ files'[h].lockSignal = files[h].lockSignal
           /\ OwnsOf(y, g, h) <=> OwnsOf(ph[t], fl[t], h)
           /\ ClaimsOf(y, g, h) = ClaimsOf(ph[t], fl[t], h)
           => Locked(p2, f2, h)'
<1>4. /\ IsFiniteSet(Tally(ClaimsTo(ph, fl, h)))
      /\ Cardinality(Tally(ClaimsTo(ph, fl, h))) = files[h].lockCount + 1
  BY DEF Locked
<1>c. ClaimsFollow(ph, fl, t, y, g, p2, f2, h)
  BY <1>4, ClaimsKept
<1> SUFFICES ASSUME files'[h].lockCount = files[h].lockCount,
                    files'[h].lockSignal = files[h].lockSignal,
                    OwnsOf(y, g, h) <=> OwnsOf(ph[t], fl[t], h),
                    ClaimsOf(y, g, h) = ClaimsOf(ph[t], fl[t], h)
             PROVE  Locked(p2, f2, h)'
  OBVIOUS
<1>1. files[h].lockCount \in Int
  <2>1. files[h] \in FileTypes
    BY DEF Types
  <2> QED BY <2>1 DEF FileTypes
<1>2. Owners(p2, f2, h) = Owners(ph, fl, h)
  BY OwnersKept
<1>3. ClaimsOf(y, g, h) \in Int
  BY DEF ClaimsOf, Claims
<1>5. /\ files[h].lockCount - files[h].lockCount \in {0, 1, -1}
      /\ files[h].lockCount - files[h].lockCount = ClaimsOf(y, g, h) - ClaimsOf(ph[t], fl[t], h)
  BY <1>1, <1>3
<1>6. /\ IsFiniteSet(Tally(ClaimsTo(p2, f2, h)))
      /\ Cardinality(Tally(ClaimsTo(p2, f2, h))) = files[h].lockCount + 1
  BY <1>1, <1>4, <1>5, <1>c DEF ClaimsFollow
<1>7. Owners(p2, f2, h)' = Owners(p2, f2, h) /\ ClaimsTo(p2, f2, h)' = ClaimsTo(p2, f2, h)
  BY DEF Owners, ClaimsTo
<1> QED BY <1>2, <1>6, <1>7 DEF Locked

\* Locks of files that are not new.
LocksFollow(x, f, y, g) ==
    \A h \in Files : files'[h].state = "live" =>
        /\ files[h].state = "live"
        /\ files'[h].lockCount = files[h].lockCount
        /\ files'[h].lockSignal = files[h].lockSignal
        /\ OwnsOf(y, g, h) <=> OwnsOf(x, f, h)
        /\ ClaimsOf(y, g, h) = ClaimsOf(x, f, h)

\* The locks stay right when neither owner nor claims change.
LEMMA LocksKept ==
    ASSUME NEW ph, NEW fl, NEW t \in Threads, NEW y, NEW g, NEW p2, NEW f2,
           Shift(ph, fl, t, y, g, p2, f2), Types, Locks(ph, fl),
           LocksFollow(ph[t], fl[t], y, g)
    PROVE  Locks(p2, f2)'
<1> SUFFICES ASSUME NEW h \in Files, files'[h].state = "live"
             PROVE  Locked(p2, f2, h)'
  BY DEF Locks
<1>1. /\ files[h].state = "live"
      /\ files'[h].lockCount = files[h].lockCount
      /\ files'[h].lockSignal = files[h].lockSignal
      /\ OwnsOf(y, g, h) <=> OwnsOf(ph[t], fl[t], h)
      /\ ClaimsOf(y, g, h) = ClaimsOf(ph[t], fl[t], h)
  BY DEF LocksFollow
<1>2. Locked(ph, fl, h)
  BY <1>1 DEF Locks
<1> QED BY <1>1, <1>2, LockKept

\* A lock that t's step claims, gives up or hands on.
LEMMA LockChanged ==
    ASSUME NEW ph, NEW fl, NEW t \in Threads, NEW y, NEW g, NEW p2, NEW f2,
           Shift(ph, fl, t, y, g, p2, f2), Types, Types', Locks(ph, fl),
           fl[t] \in Files, files[fl[t]].state = "live", g \in {fl[t], NoInfo},
           \A h \in Files \ {fl[t]} : files'[h] = files[h],
           files'[fl[t]].lockCount - files[fl[t]].lockCount \in {0, 1, -1},
           files'[fl[t]].lockCount - files[fl[t]].lockCount
               = ClaimsOf(y, g, fl[t]) - Claims(ph[t]),
           Locked(ph, fl, fl[t]) =>
               LET old == Owners(ph, fl, fl[t])
                   new == IF OwnsOf(y, g, fl[t]) THEN old \union {t} ELSE old \ {t}
               IN  /\ \A u, v \in new : u = v
                   /\ files'[fl[t]].lockSignal => new = {}
                   /\ files'[fl[t]].lockCount = -1 => new = {} /\ ~files'[fl[t]].lockSignal
                   /\ files'[fl[t]].lockCount # -1 => new # {} \/ files'[fl[t]].lockSignal
    PROVE  Locks(p2, f2)'
<1> SUFFICES ASSUME NEW h \in Files, files'[h].state = "live"
             PROVE  Locked(p2, f2, h)'
  BY DEF Locks
<1>1. CASE h # fl[t]
  <2>1. ~OwnsOf(y, g, h) /\ ~OwnsOf(ph[t], fl[t], h)
    BY <1>1, IoFileAssumption DEF OwnsOf
  <2>2. ClaimsOf(y, g, h) = ClaimsOf(ph[t], fl[t], h)
    BY <1>1, IoFileAssumption DEF ClaimsOf
  <2>3. files'[h] = files[h]
    BY <1>1
  <2>4. Locked(ph, fl, h)
    BY <2>3 DEF Locks
  <2> QED BY <2>1, <2>2, <2>3, <2>4, LockKept
<1>2. CASE h = fl[t]
  <2>1. Locked(ph, fl, h)
    BY <1>2 DEF Locks
  <2> DEFINE new == IF OwnsOf(y, g, h) THEN Owners(ph, fl, h) \union {t}
                    ELSE Owners(ph, fl, h) \ {t}
  <2>2. /\ \A u, v \in new : u = v
        /\ files'[h].lockSignal => new = {}
        /\ files'[h].lockCount = -1 => new = {} /\ ~files'[h].lockSignal
        /\ files'[h].lockCount # -1 => new # {} \/ files'[h].lockSignal
    BY <1>2, <2>1
  <2>3. Owners(p2, f2, h) = new
    BY OwnersKept
  <2>4. files[h].lockCount \in Int /\ files'[h].lockCount \in Int
    <3>1. files[h] \in FileTypes /\ files'[h] \in FileTypes
      BY DEF Types, FileTypes
    <3> QED BY <3>1 DEF FileTypes
  <2>5. /\ IsFiniteSet(Tally(ClaimsTo(ph, fl, h)))
        /\ Cardinality(Tally(ClaimsTo(ph, fl, h))) = files[h].lockCount + 1
    BY <2>1 DEF Locked
  <2>6. ClaimsOf(ph[t], fl[t], h) = Claims(ph[t])
    BY <1>2 DEF ClaimsOf
  <2>7. /\ files'[h].lockCount - files[h].lockCount \in {0, 1, -1}
        /\ files'[h].lockCount - files[h].lockCount = ClaimsOf(y, g, h) - ClaimsOf(ph[t], fl[t], h)
    BY <1>2, <2>6
  <2>c. ClaimsFollow(ph, fl, t, y, g, p2, f2, h)
    BY <2>5, ClaimsKept
  <2>8. /\ IsFiniteSet(Tally(ClaimsTo(p2, f2, h)))
        /\ Cardinality(Tally(ClaimsTo(p2, f2, h))) = files'[h].lockCount + 1
    BY <2>4, <2>5, <2>7, <2>c DEF ClaimsFollow
  <2>9. Owners(p2, f2, h)' = Owners(p2, f2, h) /\ ClaimsTo(p2, f2, h)' = ClaimsTo(p2, f2, h)
    BY DEF Owners, ClaimsTo
  <2> QED BY <2>2, <2>3, <2>8, <2>9 DEF Locked
<1> QED BY <1>1, <1>2

\* Phases that the life of a file makes no difference between.
Alike(x, y) ==
    /\ x \in PrivatePhases <=> y \in PrivatePhases
    /\ x \in RefusedPhases <=> y \in RefusedPhases
    /\ x \in OpeningPhases <=> y \in OpeningPhases
    /\ x \in Deleting <=> y \in Deleting
    /\ x \in CleaningOrNew <=> y \in CleaningOrNew

\* Phases that make no difference for it.
Plain == (Phases \ OpeningPhases) \ (Deleting \union CleaningOrNew)

\* Files whose life is as it was.
SameLife(h) ==
    /\ files'[h].state = files[h].state /\ files'[h].device = files[h].device
    /\ files'[h].handles = files[h].handles
    /\ files'[h].handleCreated = files[h].handleCreated
    /\ files'[h].cleaned = files[h].cleaned

\* Steps that leave the files' lives alone.
LEMMA LivesKept ==
    ASSUME NEW ph, NEW fl, NEW t \in Threads, NEW y, NEW g, NEW p2, NEW f2,
           Shift(ph, fl, t, y, g, p2, f2), Lists(ph, fl), Lists(p2, f2)', Lives(ph, fl),
           \A h \in Files : SameLife(h),
           Alike(ph[t], y), g = fl[t] \/ (ph[t] \in Plain /\ y \in Plain),
           g # NoInfo => files[g].state = "live",
           g # fl[t] /\ g # NoInfo =>
               \A u \in Threads : ph[u] \in PrivatePhases => fl[u] # g,
           \A h \in Files : files'[h].pointers = files[h].pointers
               \/ (files[h].state = "live" /\ \A u \in Threads : ph[u] \in Deleting => fl[u] # h)
    PROVE  Lives(p2, f2)'
<1>1. /\ p2[t] = y /\ f2[t] = g /\ \A u \in Threads : u # t => p2[u] = ph[u] /\ f2[u] = fl[u]
  BY DEF Shift
<1>2. /\ fl \in [Threads -> Files \union {NoInfo}] /\ ph \in [Threads -> Phases]
      /\ f2 \in [Threads -> Files \union {NoInfo}] /\ p2 \in [Threads -> Phases]
      /\ \A u \in Threads : ph[u] \in NoFilePhases <=> fl[u] = NoInfo
      /\ \A u \in Threads : p2[u] \in NoFilePhases <=> f2[u] = NoInfo
      /\ NoInfo \notin Files
  BY IoFileAssumption DEF Lists
<1>0. /\ (PrivatePhases \union Deleting) \intersect NoFilePhases = {}
      /\ PrivatePhases \subseteq OpeningPhases
      /\ OpeningPhases \intersect Plain = {} /\ Deleting \intersect Plain = {}
      /\ CleaningOrNew \intersect Plain = {} /\ RefusedPhases \subseteq PrivatePhases
  <2>1. PrivatePhases \intersect NoFilePhases = {} /\ Deleting \intersect NoFilePhases = {}
    BY WithFile
  <2>2. OpeningPhases \intersect Plain = {} /\ Deleting \intersect Plain = {}
        /\ CleaningOrNew \intersect Plain = {}
    BY DEF Plain
  <2>3. PrivatePhases \subseteq OpeningPhases
    BY DEF OpeningPhases
  <2>4. RefusedPhases \subseteq PrivatePhases
    BY DEF PrivatePhases, RefusedPhases
  <2> QED BY <2>1, <2>2, <2>3, <2>4
<1>3. InHand(f2)'
  BY <1>1, <1>2 DEF Lives, InHand, SameLife
<1>4. Private(p2, f2)'
  <2> SUFFICES ASSUME NEW u \in Threads, p2[u] \in PrivatePhases
               PROVE  /\ \A v \in Threads \ {u} : f2[v] # f2[u]
                      /\ files'[f2[u]].handles = 0
                      /\ files'[f2[u]].device <=> p2[u] \notin RefusedPhases
    BY DEF Private
  <2>1. f2[u] = fl[u] /\ f2[u] \in Files /\ ph[u] \in PrivatePhases
        /\ (ph[u] \in RefusedPhases <=> p2[u] \in RefusedPhases)
    BY <1>0, <1>1, <1>2 DEF Alike
  <2>2. /\ \A v \in Threads \ {u} : fl[v] # fl[u]
        /\ files[fl[u]].handles = 0
        /\ files[fl[u]].device <=> ph[u] \notin RefusedPhases
    BY <2>1 DEF Lives, Private
  <2>3. ASSUME NEW v \in Threads \ {u} PROVE f2[v] # f2[u]
    BY <1>1, <1>2, <2>1, <2>2
  <2> QED BY <2>1, <2>2, <2>3 DEF SameLife
<1>5. WithDevice(p2, f2)'
  BY <1>0, <1>1 DEF Lives, WithDevice, SameLife, Alike
<1>6. HandleMade(p2, f2)'
  BY <1>0, <1>1 DEF Lives, HandleMade, SameLife, Alike
<1>7. OneDeletes(p2, f2)'
  <2>1. \A u \in Threads : p2[u] \in Deleting => ph[u] \in Deleting /\ f2[u] = fl[u] /\ fl[u] \in Files
    BY <1>0, <1>1, <1>2 DEF Alike
  <2> QED BY <2>1 DEF Lives, OneDeletes
<1>8. NoneCounted'
  BY DEF Lives, NoneCounted, SameLife
<1>9. CleanedUp(p2, f2)'
  BY <1>0, <1>1 DEF Lives, CleanedUp, SameLife, Alike
<1> QED BY <1>3, <1>4, <1>5, <1>6, <1>7, <1>8, <1>9 DEF Lives

\* Where the step is that gives back a reference, and the volume's.
DerefPlace(x) ==
    IF x \in {"create", "refused", "readDone", "deref"} THEN 1
    ELSE IF x \in {"created", "read", "release", "signal", "duplicate"} THEN 2
    ELSE IF x \in {"queryAcquire", "queryWait", "closeAcquire", "closeWait"} THEN 4 ELSE 3
RefPlace(x, i) == IF x = "handle" /\ i = 1 THEN 1 ELSE DerefPlace(x)

\* Where the volume's reference is given back.
VolumePlace(x) ==
    IF x \in {"giveup", "volume"} THEN 1
    ELSE IF x \in {"refused", "refusedFree", "close"} THEN 2 ELSE 3

\* What is said of the steps left in a phase, as far as the properties ask:
\* they are about the file, but for the volume's; those that hold references;
\* the volume's; whether a close and a cleanup are to come; that the lock is
\* given back; and that it is not given back before it is acquired.
Says(x, f, s) ==
    /\ \A k \in DOMAIN s : s[k].file \in {f, NoInfo}
    /\ \A k : k \in DOMAIN s /\ s[k].op \in {"create", "handle", "deref"}
         <=> \E i \in 1..Refs(x) : k = RefPlace(x, i)
    /\ \A k \in DOMAIN s : s[k].op # "volume" => s[k].file = f
    /\ \A k : k \in DOMAIN s /\ s[k].op = "volume" <=> x \in Volumed /\ k = VolumePlace(x)
    /\ x \in Closing <=> \E k \in DOMAIN s : s[k].op = "close"
    /\ x \in Cleaning <=> \E k \in DOMAIN s : s[k].op = "cleanup"
    /\ x \in Owning \ {"close", "volume", "free"} => \E k \in DOMAIN s : s[k].op \in {"release", "signal"}
    /\ x \in Waiting \ {"deleteWait"} => \E k \in DOMAIN s : s[k].op = "release"
    /\ \A k \in DOMAIN s : s[k].op \in {"release", "close"} =>
         x \in Owning \/ \E j \in 1..(k-1) : s[j].op \in {"acquire", "wait"}

\* It is true of the phase's steps.
LEMMA PlanSays ==
    ASSUME NEW x \in Phases, NEW f
    PROVE  Says(x, f, Plan(x, f))
<1> USE DEF Plan, Says, Step, Refs, RefPlace, DerefPlace, VolumePlace, Referring, Closing,
            Cleaning, Volumed, Owning, Waiting, Entered, Signalling
<1>1. CASE x = "idle"
  BY <1>1
<1>2. CASE x = "parse"
  BY <1>2
<1>3. CASE x = "lockdevice"
  BY <1>3
<1>4. CASE x = "mount"
  BY <1>4
<1>5. CASE x = "giveup"
  BY <1>5
<1>6. CASE x = "create"
  BY <1>6
<1>7. CASE x = "handle"
  BY <1>7
<1>8. CASE x = "created"
  BY <1>8
<1>9. CASE x = "refused"
  BY <1>9
<1>10. CASE x = "refusedFree"
  BY <1>10
<1>11. CASE x = "readAcquire"
  BY <1>11
<1>12. CASE x = "readWait"
  BY <1>12
<1>13. CASE x = "read"
  BY <1>13
<1>14. CASE x = "readDone"
  BY <1>14
<1>15. CASE x = "readRelease"
  BY <1>15
<1>16. CASE x = "lastSignal"
  BY <1>16
<1>17. CASE x = "queryAcquire"
  BY <1>17
<1>18. CASE x = "queryWait"
  BY <1>18
<1>19. CASE x = "query"
  BY <1>19
<1>20. CASE x = "release"
  BY <1>20
<1>21. CASE x = "signal"
  BY <1>21
<1>22. CASE x = "deref"
  BY <1>22
<1>23. CASE x = "failAcquire"
  BY <1>23
<1>24. CASE x = "failWait"
  BY <1>24
<1>25. CASE x = "duplicate"
  BY <1>25
<1>26. CASE x = "closeAcquire"
  BY <1>26
<1>27. CASE x = "closeWait"
  BY <1>27
<1>28. CASE x = "cleanup"
  BY <1>28
<1>29. CASE x = "deleteAcquire"
  BY <1>29
<1>30. CASE x = "deleteWait"
  BY <1>30
<1>31. CASE x = "close"
  BY <1>31
<1>32. CASE x = "volume"
  BY <1>32
<1>33. CASE x = "free"
  BY <1>33
<1>34. CASE x = "selfAcquire"
  BY <1>34
<1>35. CASE x = "selfWait"
  BY <1>35
<1> HIDE DEF Plan, Says, Step, Refs, RefPlace, DerefPlace, VolumePlace, Referring, Closing,
             Cleaning, Volumed, Owning, Waiting, Entered, Signalling
<1> QED
  BY PhasesAre, <1>1, <1>2, <1>3, <1>4, <1>5, <1>6, <1>7, <1>8, <1>9, <1>10, <1>11, <1>12, <1>13, <1>14, <1>15, <1>16, <1>17, <1>18, <1>19, <1>20, <1>21, <1>22, <1>23, <1>24, <1>25, <1>26, <1>27, <1>28, <1>29, <1>30, <1>31, <1>32, <1>33, <1>34, <1>35

\* A file that is to be closed is in the hands of a thread that will close it.
LEMMA PendingClose ==
    ASSUME NEW ph, NEW fl, Lists(ph, fl), NEW f \in Files
    PROVE  /\ Pending({"close"}, f) # {} <=> \E t \in Threads : fl[t] = f /\ ph[t] \in Closing
           /\ Pending({"cleanup"}, f) # {} <=> \E t \in Threads : fl[t] = f /\ ph[t] \in Cleaning
<1>1. \A t \in Threads : todo[t] = Plan(ph[t], fl[t]) /\ ph[t] \in Phases
  BY DEF Lists
<1>2. \A t \in Threads : Says(ph[t], fl[t], todo[t])
  BY <1>1, PlanSays
<1>3. ASSUME NEW t \in Threads
      PROVE  /\ \A k \in DOMAIN todo[t] : todo[t][k].op # "volume" => todo[t][k].file = fl[t]
             /\ ph[t] \in Closing <=> \E k \in DOMAIN todo[t] : todo[t][k].op = "close"
             /\ ph[t] \in Cleaning <=> \E k \in DOMAIN todo[t] : todo[t][k].op = "cleanup"
  BY <1>2 DEF Says
<1>4. ASSUME NEW ops
      PROVE  Pending(ops, f) # {} <=>
         \E t \in Threads : \E k \in DOMAIN todo[t] : todo[t][k].op \in ops /\ todo[t][k].file = f
  <2>1. \A p : p \in Pending(ops, f) <=>
           \E t \in Threads : \E k \in DOMAIN todo[t] :
               p = <<t, k>> /\ todo[t][k].op \in ops /\ todo[t][k].file = f
    BY DEF Pending
  <2> QED BY <2>1
<1>5. Pending({"close"}, f) # {} <=>
         \E t \in Threads : \E k \in DOMAIN todo[t] : todo[t][k].op = "close" /\ todo[t][k].file = f
  BY <1>4
<1>6. Pending({"cleanup"}, f) # {} <=>
         \E t \in Threads : \E k \in DOMAIN todo[t] : todo[t][k].op = "cleanup" /\ todo[t][k].file = f
  BY <1>4
<1> QED BY <1>3, <1>5, <1>6

\* What it means, in phases, that a file is open.
Open(ph, fl, f) ==
    files[f].state = "live" /\ files[f].device /\ files[f].info # NoInfo /\ Used(ph, fl, f)

\* Whether a file is open, by the phases.
LEMMA IsOpenIs ==
    \A ph, fl : Lists(ph, fl) => \A f \in Files : IsOpen(f) <=> Open(ph, fl, f)
    BY PendingClose DEF IsOpen, Open, Used

\* The same after a step.
LEMMA IsOpenNext ==
    \A ph, fl : Lists(ph, fl)' => \A f \in Files : IsOpen(f)' <=> Open(ph, fl, f)'
<1>1. (\A ph, fl : Lists(ph, fl) => \A f \in Files : IsOpen(f) <=> Open(ph, fl, f))'
  BY IsOpenIs, PTL
<1> QED BY <1>1

\* What FATX keeps of an open file, before and after.
SameInFatx(h) ==
    /\ files'[h].info = files[h].info /\ files'[h].access = files[h].access
    /\ files'[h].shared = files[h].shared /\ files'[h].cleaned = files[h].cleaned
    /\ IsOpen(h)' <=> IsOpen(h)

\* The same of files that are open.
SameWhenOpen(h) ==
    /\ IsOpen(h)' <=> IsOpen(h)
    /\ IsOpen(h) =>
         /\ files'[h].info = files[h].info /\ files'[h].access = files[h].access
         /\ files'[h].shared = files[h].shared /\ files'[h].cleaned = files[h].cleaned

\* Files open as before.
LEMMA OpenersKept ==
    ASSUME \A h \in Files : SameWhenOpen(h)
    PROVE  /\ \A i : Openers(i)' = Openers(i)
           /\ \A i : Sharers(i)' = Sharers(i)
    BY DEF SameWhenOpen, Openers, Sharers

\* The FATX_FILE_INFOs are as before, but for references that may be more.
InfosKept ==
    \A i \in Infos :
        /\ infos'[i].state = infos[i].state /\ infos'[i].name = infos[i].name
        /\ infos'[i].share = infos[i].share
        /\ infos'[i].references >= infos[i].references

\* Nothing comes to be shared, and nothing ceases to be.
LEMMA SharingKept ==
    ASSUME \A h \in Files : SameWhenOpen(h), InfosKept, SharingHolds, ShareCountsExact
    PROVE  SharingHolds' /\ ShareCountsExact'
<1>1. \A i : Sharers(i)' = Sharers(i)
  BY OpenersKept
<1>2. \A i : \A h \in Sharers(i) : h \in Files /\ IsOpen(h)
  BY DEF Sharers
<1>0. \A i : \A h \in Sharers(i) :
         files'[h].access = files[h].access /\ files'[h].shared = files[h].shared
  BY <1>2 DEF SameWhenOpen
<1>3. SharingHolds'
  BY <1>0, <1>1, <1>2 DEF SharingHolds
<1>4. ShareCountsExact'
  <2> SUFFICES ASSUME NEW i \in Infos, infos'[i].state = "listed"
               PROVE  /\ infos'[i].share.open = Cardinality(Sharers(i)')
                      /\ \A r \in Rights :
                           /\ infos'[i].share.access[r] = Cardinality({f \in Sharers(i)' : r \in files'[f].access})
                           /\ infos'[i].share.shared[r] = Cardinality({f \in Sharers(i)' : r \in files'[f].shared})
    BY DEF ShareCountsExact
  <2>1. ASSUME NEW r \in Rights
        PROVE  /\ {f \in Sharers(i)' : r \in files'[f].access} = {f \in Sharers(i) : r \in files[f].access}
               /\ {f \in Sharers(i)' : r \in files'[f].shared} = {f \in Sharers(i) : r \in files[f].shared}
    BY <1>0, <1>1, <1>2
  <2>2. infos[i].state = "listed" /\ infos'[i].share = infos[i].share
    BY DEF InfosKept
  <2> QED BY <1>1, <2>1, <2>2 DEF ShareCountsExact
<1> QED BY <1>3, <1>4

\* Files that take part, whatever FATX has of them.
Standing(ph, fl, h) == files[h].state = "live" /\ files[h].device /\ Used(ph, fl, h)

\* The same of the files open after a step.
LEMMA ListedWhileOpenNext ==
    ASSUME \A i \in Infos : IsFiniteSet(Openers(i)'),
           \A h \in Files : IsOpen(h)' =>
               \E i : /\ i = files'[h].info /\ infos'[i].state = "listed"
                      /\ infos'[i].references >= Cardinality(Openers(i)')
    PROVE  ListedWhileOpen'
<1>1. ASSUME NEW h \in Files, IsOpen(h)'
      PROVE  /\ infos'[files'[h].info].state = "listed"
             /\ infos'[files'[h].info].references
                  >= Cardinality({k \in Files : IsOpen(k)' /\ files'[k].info = files'[h].info})
  <2>1. PICK i : /\ i = files'[h].info /\ infos'[i].state = "listed"
                 /\ infos'[i].references >= Cardinality(Openers(i)')
    BY <1>1
  <2>2. Openers(i)' = {k \in Files : IsOpen(k)' /\ files'[k].info = files'[h].info}
    BY <2>1 DEF Openers
  <2> QED BY <2>1, <2>2
<1>2. \A h \in Files : IsOpen(h)' =>
        /\ infos'[files'[h].info].state = "listed"
        /\ infos'[files'[h].info].references
                  >= Cardinality({k \in Files : IsOpen(k)' /\ files'[k].info = files'[h].info})
  BY <1>1
<1>3. \A i \in Infos : IsFiniteSet({k \in Files : IsOpen(k)' /\ files'[k].info = i})
  BY DEF Openers
<1> QED BY <1>2, <1>3 DEF ListedWhileOpen, Openers

\* Nothing is opened, closed or cleaned up.
LEMMA FatxKept ==
    ASSUME NEW ph, NEW fl, NEW t \in Threads, NEW y, NEW g, NEW p2, NEW f2,
           Shift(ph, fl, t, y, g, p2, f2), Types, Types',
           OpenInfos(ph, fl), SharingHolds, ShareCountsExact, InfosKept,
           \A h \in Files : SameInFatx(h),
           \A h \in Files : Standing(p2, f2, h)' => Standing(ph, fl, h),
           \A h \in Files : files'[h].state = "unborn" => files[h].state = "unborn",
           y # "create", ph[t] = "create" => ~files'[fl[t]].device
    PROVE  OpenInfos(p2, f2)' /\ SharingHolds' /\ ShareCountsExact'
<1>0. \A h \in Files : SameWhenOpen(h)
  BY DEF SameInFatx, SameWhenOpen
<1>1. SharingHolds' /\ ShareCountsExact'
  BY <1>0, SharingKept
<1>2. /\ p2[t] = y /\ f2[t] = g /\ \A u \in Threads \ {t} : p2[u] = ph[u] /\ f2[u] = fl[u]
  BY DEF Shift
<1>3. ListedWhileOpen'
  <2>1. \A i : Openers(i)' = Openers(i)
    BY <1>0, OpenersKept
  <2>2. \A h \in Files : files'[h].info = files[h].info /\ (IsOpen(h)' <=> IsOpen(h))
    BY DEF SameInFatx
  <2>3. \A i \in Infos : IsFiniteSet(Openers(i)')
    BY <2>1 DEF OpenInfos, ListedWhileOpen
  <2>4. ASSUME NEW h \in Files, NEW i, i = files[h].info, IsOpen(h)
        PROVE  /\ infos'[i].state = "listed"
               /\ infos'[i].references >= Cardinality(Openers(i)')
    <3>1. i \in Infos
      <4>1. files[h] \in FileTypes
        BY DEF Types
      <4> QED BY <2>4, <4>1 DEF FileTypes, IsOpen
    <3>2. /\ infos[i].state = "listed" /\ infos[i].references >= Cardinality(Openers(i))
          /\ IsFiniteSet(Openers(i))
      BY <2>4, <3>1 DEF OpenInfos, ListedWhileOpen
    <3>3. /\ infos'[i].state = infos[i].state
          /\ infos'[i].references >= infos[i].references
      BY <3>1 DEF InfosKept
    <3>4. infos[i] \in InfoTypes /\ infos'[i] \in InfoTypes
      BY <3>1 DEF Types
    <3>5. infos[i].references \in Nat /\ infos'[i].references \in Nat
      BY <3>4 DEF InfoTypes
    <3>6. Cardinality(Openers(i)) \in Nat
      BY <3>2, FS_CardinalityType
    <3>7. infos'[i].references >= Cardinality(Openers(i))
      BY <3>2, <3>3, <3>5, <3>6
    <3> QED BY <2>1, <3>2, <3>3, <3>7
  <2>5. \A h \in Files : IsOpen(h)' =>
           \E i : /\ i = files'[h].info /\ infos'[i].state = "listed"
                  /\ infos'[i].references >= Cardinality(Openers(i)')
    BY <2>2, <2>4
  <2> QED BY <2>3, <2>5, ListedWhileOpenNext
<1>4. HasInfo(p2, f2)'
  BY <1>2 DEF OpenInfos, HasInfo, SameInFatx, Standing
<1>5. NothingYet(p2, f2)'
  BY <1>2 DEF OpenInfos, NothingYet, SameInFatx, InfosKept, Infos
<1>6. NamesApart'
  BY DEF OpenInfos, NamesApart, InfosKept, Infos
<1> QED BY <1>1, <1>3, <1>4, <1>5, <1>6 DEF OpenInfos

\* The same, for a step that changes neither what FATX has of a file nor its use.
LEMMA FatxUntouched ==
    ASSUME NEW ph, NEW fl, NEW t \in Threads, NEW y, NEW g, NEW p2, NEW f2,
           Shift(ph, fl, t, y, g, p2, f2), Lists(ph, fl), Lists(p2, f2)', Types, Types',
           OpenInfos(ph, fl), SharingHolds, ShareCountsExact, infos' = infos,
           ph[t] # "create", y # "create",
           \A h \in Files :
               /\ files'[h].state = files[h].state /\ files'[h].device = files[h].device
               /\ files'[h].info = files[h].info /\ files'[h].access = files[h].access
               /\ files'[h].shared = files[h].shared /\ files'[h].cleaned = files[h].cleaned
               /\ Used(p2, f2, h)' <=> Used(ph, fl, h)
    PROVE  OpenInfos(p2, f2)' /\ SharingHolds' /\ ShareCountsExact'
<1>1. \A h \in Files : (IsOpen(h) <=> Open(ph, fl, h)) /\ (IsOpen(h)' <=> Open(p2, f2, h)')
  BY IsOpenIs, IsOpenNext
<1>2. \A h \in Files : SameInFatx(h)
  BY <1>1 DEF SameInFatx, Open
<1>3. \A h \in Files : Standing(p2, f2, h)' => Standing(ph, fl, h)
  BY DEF Standing
<1>4. InfosKept
  <2>1. ASSUME NEW i \in Infos PROVE infos[i].references \in Nat
    <3>1. infos[i] \in InfoTypes
      BY DEF Types
    <3> QED BY <3>1 DEF InfoTypes
  <2> QED BY <2>1 DEF InfosKept
<1>5. \A h \in Files : files'[h].state = "unborn" => files[h].state = "unborn"
  OBVIOUS
<1> QED BY <1>2, <1>3, <1>4, <1>5, FatxKept

-----------------------------------------------------------------------------
(* Steps of the lock.                                                       *)

\* Phases that only the lock makes a difference between.
SameRole(x, y) ==
    /\ Alike(x, y)
    /\ x \in Volumed <=> y \in Volumed
    /\ x \in Closing <=> y \in Closing
    /\ Refs(x) = Refs(y)
    /\ {x, y} \intersect {"mount", "create"} = {}

\* Only the lock of f changes.
LockOnly(f) ==
    /\ files' \in [Files -> FileTypes]
    /\ \A h \in Files \ {f} : files'[h] = files[h]
    /\ SameLife(f) /\ files'[f].pointers = files[f].pointers
    /\ files'[f].info = files[f].info
    /\ files'[f].access = files[f].access /\ files'[f].shared = files[f].shared

\* A thread that leaves its file idle had no part in its life.
IdleAfterwards(x) == x \in Plain /\ Refs(x) = 0 /\ x \notin Closing

\* If the lock is well after it, so is everything.
LEMMA LockStep ==
    ASSUME NEW ph, NEW fl, Types, Good(ph, fl), NEW t \in Threads, NEW y, NEW g,
           Moved(ph, fl, t, y, g), fl[t] \in Files, g = fl[t] \/ (g = NoInfo /\ IdleAfterwards(ph[t])),
           SameRole(ph[t], y), LockOnly(fl[t]), UNCHANGED <<deviceVars, infos, crashed>>,
           \A p2, f2 : Shift(ph, fl, t, y, g, p2, f2) /\ Types' => Locks(p2, f2)'
    PROVE  IInv'
<1> DEFINE f == fl[t]
<1>1. PICK p2, f2 : Shift(ph, fl, t, y, g, p2, f2) /\ Lists(p2, f2)'
  BY MovedShift DEF Good
<1>2. Types'
  BY DEF Types, LockOnly, deviceVars
<1>0. /\ \A h \in Files : SameLife(h) /\ files'[h].pointers = files[h].pointers
      /\ \A h \in Files : files'[h].info = files[h].info /\ files'[h].access = files[h].access
             /\ files'[h].shared = files[h].shared
  BY DEF LockOnly, SameLife
<1>3. Mounting(p2)'
  BY <1>1, MountingKept DEF Good, SameRole, deviceVars
<1>4. Lives(p2, f2)'
  <2>1. g # NoInfo => files[g].state = "live"
    BY DEF Good, Lives, InHand
  <2>2. g # fl[t] /\ g # NoInfo => \A u \in Threads : ph[u] \in PrivatePhases => fl[u] # g
    OBVIOUS
  <2>3. g = fl[t] \/ (ph[t] \in Plain /\ y \in Plain)
    BY DEF IdleAfterwards, SameRole, Alike, Plain, Moved
  <2>4. Lists(ph, fl) /\ Lives(ph, fl)
    BY DEF Good
  <2>5. Alike(ph[t], y)
    BY DEF SameRole
  <2>6. \A h \in Files : SameLife(h)
    BY <1>0
  <2>7. \A h \in Files : files'[h].pointers = files[h].pointers
           \/ (files[h].state = "live" /\ \A u \in Threads : ph[u] \in Deleting => fl[u] # h)
    BY <1>0
  <2> QED BY <1>1, <2>1, <2>2, <2>3, <2>4, <2>5, <2>6, <2>7, LivesKept
<1>5. Pointers(p2, f2)'
  <2>1. ASSUME NEW h \in Files
        PROVE  /\ RefsOf(y, g, h) - RefsOf(ph[t], fl[t], h) = 0
               /\ files'[h].pointers - files'[h].handles - (files[h].pointers - files[h].handles) = 0
    <3>1. RefsOf(y, g, h) = RefsOf(ph[t], fl[t], h) /\ RefsOf(y, g, h) \in Nat
      BY IoFileAssumption DEF RefsOf, SameRole, IdleAfterwards, Refs
    <3>2. files[h] \in FileTypes
      BY DEF Types
    <3>3. files[h].pointers \in Nat /\ files[h].handles \in Nat
      BY <3>2 DEF FileTypes
    <3>4. files'[h].pointers = files[h].pointers /\ files'[h].handles = files[h].handles
      BY <1>0 DEF SameLife
    <3> QED BY <3>1, <3>3, <3>4
  <2>2. Pointers(ph, fl)
    BY DEF Good
  <2>3. PointersFollow(ph[t], fl[t], y, g)
    BY <2>1 DEF PointersFollow
  <2> QED BY <1>1, <1>2, <2>2, <2>3, PointersKept
<1>6. VolumeCount(p2)'
  <2>1. \A h \in Files : HasVolume(h)' <=> HasVolume(h)
    BY <1>0 DEF HasVolume, SameLife
  <2>2. VolumeCount(ph) /\ references' = references /\ (ph[t] \in Volumed <=> y \in Volumed)
    BY DEF Good, SameRole, deviceVars
  <2> QED BY <1>1, <2>1, <2>2, VolumeKept
<1>7. Locks(p2, f2)'
  BY <1>1, <1>2
<1>8. OpenInfos(p2, f2)' /\ SharingHolds' /\ ShareCountsExact'
  <2>1. ASSUME NEW h \in Files PROVE Used(p2, f2, h)' <=> Used(ph, fl, h)
    <3>1. \A u \in Threads : f2[u] = h /\ p2[u] \in Closing <=> fl[u] = h /\ ph[u] \in Closing
      <4>1. \A u \in Threads \ {t} : p2[u] = ph[u] /\ f2[u] = fl[u]
        BY <1>1 DEF Shift
      <4>2. f2[t] = h /\ p2[t] \in Closing <=> fl[t] = h /\ ph[t] \in Closing
        BY <1>1, IoFileAssumption DEF Shift, SameRole, IdleAfterwards
      <4> QED BY <4>1, <4>2
    <3> QED BY <1>0, <3>1 DEF Used
  <2>2. \A h \in Files :
           /\ files'[h].state = files[h].state /\ files'[h].device = files[h].device
           /\ files'[h].info = files[h].info /\ files'[h].access = files[h].access
           /\ files'[h].shared = files[h].shared /\ files'[h].cleaned = files[h].cleaned
           /\ Used(p2, f2, h)' <=> Used(ph, fl, h)
    BY <1>0, <2>1 DEF SameLife
  <2>3. /\ Lists(ph, fl) /\ OpenInfos(ph, fl) /\ SharingHolds /\ ShareCountsExact
        /\ infos' = infos /\ ph[t] # "create" /\ y # "create"
    BY DEF Good, SameRole
  <2> QED BY <1>1, <1>2, <2>2, <2>3, FatxUntouched
<1> QED BY <1>1, <1>2, <1>3, <1>4, <1>5, <1>6, <1>7, <1>8 DEF IInv, Good

\* What the phases have to do with the lock.
LEMMA LockTable ==
    /\ \A x \in Acquiring \ {"selfAcquire"} :
         /\ SameRole(x, After(x)) /\ Claims(x) = 0 /\ Claims(After(x)) = 1
         /\ x \notin Owning /\ After(x) \in Owning
    /\ \A x \in Acquiring :
         /\ SameRole(x, WaitOf(x)) /\ Claims(WaitOf(x)) = Claims(x) + 1
         /\ x \in Owning <=> WaitOf(x) \in Owning
    /\ \A x \in Waiting \ {"selfWait"} :
         /\ SameRole(x, After(x)) /\ Claims(x) = 1 /\ Claims(After(x)) = 1
         /\ x \notin Owning /\ After(x) \in Owning
<1> USE DEF SameRole, Alike, PrivatePhases, RefusedPhases, OpeningPhases, Deleting, Cleaning,
            CleaningOrNew, Volumed, Closing, Refs, Referring, Claims, Claiming, Waiting, Entered,
            Signalling, Owning, After, WaitOf
<1>1. ASSUME NEW x \in Acquiring \ {"selfAcquire"}
      PROVE  /\ SameRole(x, After(x)) /\ Claims(x) = 0 /\ Claims(After(x)) = 1
             /\ x \notin Owning /\ After(x) \in Owning
  <2>1. x \in {"readAcquire", "queryAcquire", "failAcquire", "closeAcquire", "deleteAcquire"}
    BY DEF Acquiring
  <2> QED BY <2>1
<1>2. ASSUME NEW x \in Acquiring
      PROVE  /\ SameRole(x, WaitOf(x)) /\ Claims(WaitOf(x)) = Claims(x) + 1
             /\ x \in Owning <=> WaitOf(x) \in Owning
  <2>1. x \in {"readAcquire", "queryAcquire", "failAcquire", "closeAcquire", "deleteAcquire",
               "selfAcquire"}
    BY DEF Acquiring
  <2> QED BY <2>1
<1>3. ASSUME NEW x \in Waiting \ {"selfWait"}
      PROVE  /\ SameRole(x, After(x)) /\ Claims(x) = 1 /\ Claims(After(x)) = 1
             /\ x \notin Owning /\ After(x) \in Owning
  <2>1. x \in {"readWait", "queryWait", "failWait", "closeWait", "deleteWait"}
    OBVIOUS
  <2> QED BY <2>1
<1> QED BY <1>1, <1>2, <1>3, Zenon

\* What the phases around a release have in common.
LEMMA ReleaseTable ==
    /\ \A x \in {"readRelease", "lastSignal"} : IdleAfterwards(x) /\ SameRole(x, "idle")
    /\ \A x \in {"release", "signal"} : SameRole(x, "deref")
    /\ SameRole("readRelease", "lastSignal") /\ SameRole("release", "signal")
    /\ SameRole("read", "readDone") /\ SameRole("query", "release")
    /\ \A x \in {"read", "readDone", "query", "release", "readRelease"} : x \in Owning /\ Claims(x) = 1
    /\ \A x \in {"lastSignal", "signal"} : x \in Owning /\ Claims(x) = 0
    /\ \A x \in {"idle", "deref"} : x \notin Owning /\ Claims(x) = 0
<1> USE DEF SameRole, Alike, PrivatePhases, RefusedPhases, OpeningPhases, Deleting, Cleaning,
            CleaningOrNew, Volumed, Closing, Refs, Referring, Claims, Claiming, Waiting, Entered,
            Signalling, Owning
<1>1. \A x \in {"readRelease", "lastSignal"} : IdleAfterwards(x)
  BY PhasesAre DEF IdleAfterwards, Plain
<1>2. \A x \in {"readRelease", "lastSignal"} : SameRole(x, "idle")
  OBVIOUS
<1>3. \A x \in {"release", "signal"} : SameRole(x, "deref")
  OBVIOUS
<1>4. /\ SameRole("readRelease", "lastSignal") /\ SameRole("release", "signal")
      /\ SameRole("read", "readDone") /\ SameRole("query", "release")
  OBVIOUS
<1>5. /\ \A x \in {"read", "readDone", "query", "release", "readRelease"} : x \in Owning /\ Claims(x) = 1
      /\ \A x \in {"lastSignal", "signal"} : x \in Owning /\ Claims(x) = 0
      /\ \A x \in {"idle", "deref"} : x \notin Owning /\ Claims(x) = 0
  OBVIOUS
<1> QED BY <1>1, <1>2, <1>3, <1>4, <1>5, Zenon

\* The thread that has the lock is the only one, the lock is claimed, and its
\* event is not signalled.
LEMMA OwnerHas ==
    ASSUME NEW ph, NEW fl, Good(ph, fl), NEW t \in Threads, ph[t] \in Owning
    PROVE  /\ fl[t] \in Files /\ files[fl[t]].state = "live"
           /\ Owners(ph, fl, fl[t]) = {t}
           /\ files[fl[t]].lockCount # -1 /\ ~files[fl[t]].lockSignal
<1>1. ph[t] \notin NoFilePhases
  BY WithFile
<1>2. fl[t] \in Files /\ fl[t] # NoInfo
  BY <1>1, FileAt DEF Good
<1>3. files[fl[t]].state = "live"
  BY <1>2 DEF Good, Lives, InHand
<1>4. t \in Owners(ph, fl, fl[t])
  BY DEF Owners
<1>5. Locked(ph, fl, fl[t])
  BY <1>2, <1>3 DEF Good, Locks
<1> QED BY <1>2, <1>3, <1>4, <1>5 DEF Locked

\* A file somebody works on is live, and its lock is well.
LEMMA LockOf ==
    ASSUME NEW ph, NEW fl, Types, Good(ph, fl), NEW t \in Threads, fl[t] \in Files
    PROVE  /\ files[fl[t]].state = "live" /\ Locked(ph, fl, fl[t])
           /\ files[fl[t]] \in FileTypes
           /\ files[fl[t]].lockCount \in Nat \union {-1}
           /\ files[fl[t]].lockSignal \in BOOLEAN
<1>1. files[fl[t]].state = "live"
  BY IoFileAssumption DEF Good, Lives, InHand
<1>2. Locked(ph, fl, fl[t])
  BY <1>1 DEF Good, Locks
<1>3. files[fl[t]] \in FileTypes
  BY DEF Types
<1> QED BY <1>1, <1>2, <1>3 DEF FileTypes

\* A step that changes the count or the event of a lock, and nothing else.
LEMMA LockOnlyChanges ==
    ASSUME Types, NEW f \in Files,
           \/ files' = files
           \/ \E n \in Nat \union {-1} : files' = [files EXCEPT ![f].lockCount = n]
           \/ \E b \in BOOLEAN : files' = [files EXCEPT ![f].lockSignal = b]
    PROVE  LockOnly(f)
<1>1. files \in [Files -> FileTypes] /\ files[f] \in FileTypes
  BY DEF Types
<1>2. CASE files' = files
  BY <1>1, <1>2 DEF LockOnly, SameLife
<1>3. ASSUME NEW n \in Nat \union {-1}, files' = [files EXCEPT ![f].lockCount = n]
      PROVE  LockOnly(f)
  <2>1. [files[f] EXCEPT !.lockCount = n] \in FileTypes
    BY <1>1 DEF FileTypes
  <2>2. files'[f] = [files[f] EXCEPT !.lockCount = n] /\ files' \in [Files -> FileTypes]
    BY <1>1, <1>3, <2>1
  <2>3. \A h \in Files \ {f} : files'[h] = files[h]
    BY <1>1, <1>3
  <2> QED BY <1>1, <2>2, <2>3 DEF LockOnly, SameLife, FileTypes
<1>4. ASSUME NEW b \in BOOLEAN, files' = [files EXCEPT ![f].lockSignal = b]
      PROVE  LockOnly(f)
  <2>1. [files[f] EXCEPT !.lockSignal = b] \in FileTypes
    BY <1>1 DEF FileTypes
  <2>2. files'[f] = [files[f] EXCEPT !.lockSignal = b] /\ files' \in [Files -> FileTypes]
    BY <1>1, <1>4, <2>1
  <2>3. \A h \in Files \ {f} : files'[h] = files[h]
    BY <1>1, <1>4
  <2> QED BY <1>1, <2>2, <2>3 DEF LockOnly, SameLife, FileTypes
<1> QED BY <1>2, <1>3, <1>4

\* How the lock of t's file may change: its count with the claims of t, and
\* what is asked of those who have it.
LockAfter(ph, fl, t, y, g) ==
    LET f == fl[t]
        old == Owners(ph, fl, f)
        new == IF OwnsOf(y, g, f) THEN old \union {t} ELSE old \ {t}
    IN  /\ files'[f].lockCount - files[f].lockCount \in {0, 1, -1}
        /\ files'[f].lockCount - files[f].lockCount = ClaimsOf(y, g, f) - Claims(ph[t])
        /\ \A u, v \in new : u = v
        /\ files'[f].lockSignal => new = {}
        /\ files'[f].lockCount = -1 => new = {} /\ ~files'[f].lockSignal
        /\ files'[f].lockCount # -1 => new # {} \/ files'[f].lockSignal

\* A step of the thread's file at its lock leaves all locks right.
LEMMA LockOfFile ==
    ASSUME NEW ph, NEW fl, Types, Good(ph, fl), NEW t \in Threads, fl[t] \in Files,
           NEW y, NEW g, g \in {fl[t], NoInfo}, LockOnly(fl[t]), LockAfter(ph, fl, t, y, g)
    PROVE  \A p2, f2 : Shift(ph, fl, t, y, g, p2, f2) /\ Types' => Locks(p2, f2)'
<1> SUFFICES ASSUME NEW p2, NEW f2, Shift(ph, fl, t, y, g, p2, f2), Types'
             PROVE  Locks(p2, f2)'
  OBVIOUS
<1>1. files[fl[t]].state = "live"
  BY LockOf
<1>2. \A h \in Files \ {fl[t]} : files'[h] = files[h]
  BY DEF LockOnly
<1>3. Locks(ph, fl)
  BY DEF Good
<1> QED BY <1>1, <1>2, <1>3, LockChanged DEF LockAfter

\* The lock is claimed.
LEMMA AcquireKeeps ==
    ASSUME NEW ph, NEW fl, Types, Good(ph, fl), NEW t \in Threads,
           IopAcquireSynchronousFileLock(t)
    PROVE  IInv'
<1> DEFINE f == fl[t]
           x == ph[t]
           c == files[f].lockCount
<1>0. Lists(ph, fl)
  BY DEF Good
<1>1. x = "selfAcquire" => c # -1
  BY OwnerHas DEF Owning
<1>2. /\ f \in Files /\ x \in Acquiring
      /\ files' = [files EXCEPT ![f].lockCount = @ + 1]
      /\ \/ c = -1 /\ x # "selfAcquire" /\ Moved(ph, fl, t, After(x), f)
         \/ c # -1 /\ Moved(ph, fl, t, WaitOf(x), f)
      /\ UNCHANGED <<deviceVars, infos, crashed>>
  BY <1>0, <1>1, AcquireMoves
<1>3. /\ Locked(ph, fl, f) /\ files[f] \in FileTypes /\ c \in Nat \union {-1}
      /\ files[f].lockSignal \in BOOLEAN
  BY <1>2, LockOf
<1>4. files' = [files EXCEPT ![f].lockCount = c + 1] /\ c + 1 \in Nat \union {-1}
  BY <1>2, <1>3
<1>5. LockOnly(f)
  BY <1>2, <1>4, LockOnlyChanges
<1>6. files'[f].lockCount = c + 1 /\ files'[f].lockSignal = files[f].lockSignal
  <2>1. files'[f] = [files[f] EXCEPT !.lockCount = c + 1]
    BY <1>2, <1>4 DEF Types
  <2> QED BY <1>3, <2>1 DEF FileTypes
<1>7. CASE c = -1
  <2>1. /\ SameRole(x, After(x)) /\ Claims(x) = 0 /\ Claims(After(x)) = 1
        /\ x \notin Owning /\ After(x) \in Owning
    BY <1>2, <1>7, LockTable
  <2>2. Owners(ph, fl, f) = {} /\ ~files[f].lockSignal
    BY <1>3, <1>7 DEF Locked
  <2>3. OwnsOf(After(x), f, f) /\ ClaimsOf(After(x), f, f) = 1
    BY <2>1 DEF OwnsOf, ClaimsOf
  <2>4. \A p2, f2 : Shift(ph, fl, t, After(x), f, p2, f2) /\ Types' => Locks(p2, f2)'
    <3>1. LockAfter(ph, fl, t, After(x), f)
      BY <1>6, <1>7, <2>1, <2>2, <2>3 DEF LockAfter
    <3> QED BY <1>2, <1>5, <3>1, LockOfFile
  <2> QED BY <1>2, <1>5, <1>7, <2>1, <2>4, LockStep
<1>8. CASE c # -1
  <2>1. /\ SameRole(x, WaitOf(x)) /\ Claims(WaitOf(x)) = Claims(x) + 1
        /\ x \in Owning <=> WaitOf(x) \in Owning
    BY <1>2, LockTable
  <2>2. /\ \A u, v \in Owners(ph, fl, f) : u = v
        /\ files[f].lockSignal => Owners(ph, fl, f) = {}
        /\ Owners(ph, fl, f) # {} \/ files[f].lockSignal
    BY <1>3, <1>8 DEF Locked
  <2>3. /\ OwnsOf(WaitOf(x), f, f) <=> t \in Owners(ph, fl, f)
        /\ ClaimsOf(WaitOf(x), f, f) = Claims(x) + 1 /\ Claims(x) \in Nat
    BY <2>1 DEF OwnsOf, ClaimsOf, Owners, Claims
  <2>4. (IF OwnsOf(WaitOf(x), f, f) THEN Owners(ph, fl, f) \union {t} ELSE Owners(ph, fl, f) \ {t})
          = Owners(ph, fl, f)
    BY <2>3
  <2>5. c + 1 # -1 /\ c + 1 - c = Claims(x) + 1 - Claims(x) /\ c + 1 - c \in {0, 1, -1}
    BY <1>3, <2>3
  <2>6. \A p2, f2 : Shift(ph, fl, t, WaitOf(x), f, p2, f2) /\ Types' => Locks(p2, f2)'
    <3>0. /\ files'[f].lockCount - c \in {0, 1, -1}
          /\ files'[f].lockCount - c = ClaimsOf(WaitOf(x), f, f) - Claims(x)
          /\ files'[f].lockCount # -1
      BY <1>3, <1>6, <2>3, <2>5
    <3>1. LockAfter(ph, fl, t, WaitOf(x), f)
      BY <1>6, <2>2, <2>4, <3>0 DEF LockAfter
    <3> QED BY <1>2, <1>5, <3>1, LockOfFile
  <2> QED BY <1>2, <1>5, <1>8, <2>1, <2>6, LockStep
<1> QED BY <1>7, <1>8

\* A waiter gets the lock.
LEMMA WaitKeeps ==
    ASSUME NEW ph, NEW fl, Types, Good(ph, fl), NEW t \in Threads, WaitForFileLock(t)
    PROVE  IInv'
<1> DEFINE f == fl[t]
           x == ph[t]
           c == files[f].lockCount
<1>0. Lists(ph, fl)
  BY DEF Good
<1>1. x # "selfWait"
  <2>1. SUFFICES ASSUME x = "selfWait" PROVE FALSE
    OBVIOUS
  <2>2. ~files[f].lockSignal
    BY <2>1, OwnerHas DEF Owning
  <2>3. Current(t) = f
    BY <1>0, AtPhase DEF WaitForFileLock
  <2> QED BY <2>2, <2>3 DEF WaitForFileLock
<1>2. /\ files[f].lockSignal
      /\ files' = [files EXCEPT ![f].lockSignal = FALSE]
      /\ UNCHANGED <<deviceVars, infos, crashed>>
      /\ f \in Files /\ x \in Waiting
      /\ Moved(ph, fl, t, After(x), f)
  BY <1>0, <1>1, WaitMoves
<1>3. Locked(ph, fl, f) /\ files[f] \in FileTypes /\ c \in Nat \union {-1}
  BY <1>2, LockOf
<1>5. LockOnly(f)
  BY <1>2, LockOnlyChanges
<1>6. files'[f].lockCount = c /\ ~files'[f].lockSignal
  BY <1>2, <1>3 DEF Types, FileTypes
<1>7. /\ SameRole(x, After(x)) /\ Claims(x) = 1 /\ Claims(After(x)) = 1
      /\ x \notin Owning /\ After(x) \in Owning
  BY <1>1, <1>2, LockTable
<1>8. Owners(ph, fl, f) = {} /\ c # -1
  BY <1>2, <1>3 DEF Locked
<1>9. OwnsOf(After(x), f, f) /\ ClaimsOf(After(x), f, f) = 1
  BY <1>7 DEF OwnsOf, ClaimsOf
<1>10. c - c = 0
  BY <1>3
<1>11. \A p2, f2 : Shift(ph, fl, t, After(x), f, p2, f2) /\ Types' => Locks(p2, f2)'
  <2>1. LockAfter(ph, fl, t, After(x), f)
    BY <1>6, <1>7, <1>8, <1>9, <1>10 DEF LockAfter
  <2> QED BY <1>2, <1>5, <2>1, LockOfFile
<1> QED BY <1>2, <1>5, <1>7, <1>11, LockStep

\* The lock is given up, or to be handed on.
LEMMA ReleaseKeeps ==
    ASSUME NEW ph, NEW fl, Types, Good(ph, fl), NEW t \in Threads,
           IopReleaseSynchronousFileLock(t)
    PROVE  IInv'
<1> DEFINE f == fl[t]
           x == ph[t]
           c == files[f].lockCount
<1>0. Lists(ph, fl)
  BY DEF Good
<1>2. /\ files' = [files EXCEPT ![f].lockCount = @ - 1]
      /\ UNCHANGED <<deviceVars, infos, crashed>>
      /\ f \in Files
      /\ \E y, g :
           /\ Moved(ph, fl, t, y, g)
           /\ \/ ~(c > 0) /\ x = "readRelease" /\ y = "idle" /\ g = NoInfo
              \/ ~(c > 0) /\ x = "release" /\ y = "deref" /\ g = f
              \/ c > 0 /\ x = "readRelease" /\ y = "lastSignal" /\ g = f
              \/ c > 0 /\ x = "release" /\ y = "signal" /\ g = f
  BY <1>0, ReleaseMoves
<1>3. PICK y, g :
           /\ Moved(ph, fl, t, y, g)
           /\ \/ ~(c > 0) /\ x = "readRelease" /\ y = "idle" /\ g = NoInfo
              \/ ~(c > 0) /\ x = "release" /\ y = "deref" /\ g = f
              \/ c > 0 /\ x = "readRelease" /\ y = "lastSignal" /\ g = f
              \/ c > 0 /\ x = "release" /\ y = "signal" /\ g = f
  BY <1>2
<1>4. x \in Owning /\ Claims(x) = 1
  BY <1>3, ReleaseTable
<1>5. Owners(ph, fl, f) = {t} /\ c # -1 /\ ~files[f].lockSignal
  BY <1>4, OwnerHas
<1>6. files[f] \in FileTypes /\ c \in Nat
  BY <1>2, <1>5, LockOf
<1>7. files' = [files EXCEPT ![f].lockCount = c - 1] /\ c - 1 \in Nat \union {-1}
  BY <1>2, <1>6
<1>8. LockOnly(f)
  BY <1>2, <1>7, LockOnlyChanges
<1>9. files'[f].lockCount = c - 1 /\ ~files'[f].lockSignal
  <2>1. files'[f] = [files[f] EXCEPT !.lockCount = c - 1]
    BY <1>2, <1>7 DEF Types
  <2> QED BY <1>5, <1>6, <2>1 DEF FileTypes
<1>10. /\ SameRole(x, y) /\ g \in {f, NoInfo} /\ Claims(y) = 0
       /\ c > 0 <=> y \in Owning
       /\ g = f \/ (g = NoInfo /\ IdleAfterwards(x))
       /\ y \in Owning => g = f
  BY <1>3, ReleaseTable
<1>11. ClaimsOf(y, g, f) = 0 /\ (OwnsOf(y, g, f) <=> c > 0)
  BY <1>10 DEF ClaimsOf, OwnsOf
<1>12. /\ c - 1 - c \in {0, 1, -1} /\ c - 1 - c = 0 - 1
       /\ c - 1 = -1 <=> ~(c > 0)
  BY <1>6
<1>13. \A p2, f2 : Shift(ph, fl, t, y, g, p2, f2) /\ Types' => Locks(p2, f2)'
  <2>1. LockAfter(ph, fl, t, y, g)
    BY <1>4, <1>5, <1>9, <1>11, <1>12 DEF LockAfter
  <2> QED BY <1>2, <1>8, <1>10, <2>1, LockOfFile
<1> QED BY <1>2, <1>3, <1>8, <1>10, <1>13, LockStep

\* The event is signalled.
LEMMA SignalKeeps ==
    ASSUME NEW ph, NEW fl, Types, Good(ph, fl), NEW t \in Threads, SignalFileLock(t)
    PROVE  IInv'
<1> DEFINE f == fl[t]
           x == ph[t]
           c == files[f].lockCount
<1>0. Lists(ph, fl)
  BY DEF Good
<1>2. /\ files' = [files EXCEPT ![f].lockSignal = TRUE]
      /\ UNCHANGED <<deviceVars, infos, crashed>>
      /\ f \in Files
      /\ \E y, g :
           /\ Moved(ph, fl, t, y, g)
           /\ \/ x = "lastSignal" /\ y = "idle" /\ g = NoInfo
              \/ x = "signal" /\ y = "deref" /\ g = f
  BY <1>0, SignalMoves
<1>3. PICK y, g :
           /\ Moved(ph, fl, t, y, g)
           /\ \/ x = "lastSignal" /\ y = "idle" /\ g = NoInfo
              \/ x = "signal" /\ y = "deref" /\ g = f
  BY <1>2
<1>4. x \in Owning /\ Claims(x) = 0
  BY <1>3, ReleaseTable
<1>5. Owners(ph, fl, f) = {t} /\ c # -1 /\ ~files[f].lockSignal
  BY <1>4, OwnerHas
<1>6. files[f] \in FileTypes /\ c \in Nat
  BY <1>2, <1>5, LockOf
<1>8. LockOnly(f)
  BY <1>2, LockOnlyChanges
<1>9. files'[f].lockCount = c /\ files'[f].lockSignal
  BY <1>2, <1>5, <1>6 DEF Types, FileTypes
<1>10. /\ SameRole(x, y) /\ g \in {f, NoInfo} /\ Claims(y) = 0 /\ y \notin Owning
       /\ g = f \/ (g = NoInfo /\ IdleAfterwards(x))
  BY <1>3, ReleaseTable
<1>11. ClaimsOf(y, g, f) = 0 /\ ~OwnsOf(y, g, f)
  BY <1>10 DEF ClaimsOf, OwnsOf
<1>12. c - c \in {0, 1, -1} /\ c - c = 0 - 0
  BY <1>6
<1>13. \A p2, f2 : Shift(ph, fl, t, y, g, p2, f2) /\ Types' => Locks(p2, f2)'
  <2>1. LockAfter(ph, fl, t, y, g)
    BY <1>4, <1>5, <1>9, <1>11, <1>12 DEF LockAfter
  <2> QED BY <1>2, <1>8, <1>10, <2>1, LockOfFile
<1> QED BY <1>2, <1>3, <1>8, <1>10, <1>13, LockStep

\* The request itself.
LEMMA TransferKeeps ==
    ASSUME NEW ph, NEW fl, Types, Good(ph, fl), NEW t \in Threads, FatxIrpTransfer(t)
    PROVE  IInv'
<1> DEFINE f == fl[t]
           x == ph[t]
<1>0. Lists(ph, fl)
  BY DEF Good
<1>2. /\ UNCHANGED <<deviceVars, files, infos, crashed>>
      /\ f \in Files
      /\ \E y :
           /\ Moved(ph, fl, t, y, f)
           /\ \/ x = "read" /\ y = "readDone"
              \/ x = "query" /\ y = "release"
  BY <1>0, TransferMoves
<1>3. PICK y :
           /\ Moved(ph, fl, t, y, f)
           /\ \/ x = "read" /\ y = "readDone"
              \/ x = "query" /\ y = "release"
  BY <1>2
<1>4. SameRole(x, y) /\ x \in Owning /\ y \in Owning /\ Claims(x) = 1 /\ Claims(y) = 1
  BY <1>3, ReleaseTable
<1>5. LockOnly(f)
  BY <1>2, LockOnlyChanges
<1>6. \A p2, f2 : Shift(ph, fl, t, y, f, p2, f2) /\ Types' => Locks(p2, f2)'
  <2> SUFFICES ASSUME NEW p2, NEW f2, Shift(ph, fl, t, y, f, p2, f2), Types'
               PROVE  Locks(p2, f2)'
    OBVIOUS
  <2>1. \A h : (OwnsOf(y, f, h) <=> OwnsOf(x, f, h)) /\ ClaimsOf(y, f, h) = ClaimsOf(x, f, h)
    BY <1>4 DEF OwnsOf, ClaimsOf
  <2>2. Locks(ph, fl)
    BY DEF Good
  <2>3. LocksFollow(x, f, y, f)
    BY <1>2, <2>1 DEF LocksFollow
  <2> QED BY <2>2, <2>3, LocksKept
<1> QED BY <1>2, <1>3, <1>4, <1>5, <1>6, LockStep

-----------------------------------------------------------------------------
(* Steps that change no file object.                                        *)

\* Phases that only the device and the volume make a difference between.
SameButDevice(x, y) ==
    /\ Alike(x, y)
    /\ x \in Closing <=> y \in Closing
    /\ x \in Owning <=> y \in Owning
    /\ Refs(x) = Refs(y) /\ Claims(x) = Claims(y)
    /\ "create" \notin {x, y}

\* Parts of a lemma's hypotheses, named: the step keeps the thread's file,
\* the files, and what is said of the device.
SameFile(fl, t, g) == g = fl[t]
FilesKept == files' = files
DeviceAfter(ph, fl, t, y, g) ==
    \A p2, f2 : Shift(ph, fl, t, y, g, p2, f2) => Mounting(p2)' /\ VolumeCount(p2)'

\* Steps at the device leave the invariant true, if its own part stays right.
LEMMA DeviceStep ==
    ASSUME NEW ph, NEW fl, Types, Good(ph, fl), NEW t \in Threads, NEW y, NEW g,
           SameFile(fl, t, g), Moved(ph, fl, t, y, g), SameButDevice(ph[t], y),
           FilesKept, UNCHANGED <<infos, crashed>>, references' \in Nat,
           DeviceAfter(ph, fl, t, y, g)
    PROVE  IInv'
<1>1. PICK p2, f2 : Shift(ph, fl, t, y, g, p2, f2) /\ Lists(p2, f2)'
  BY MovedShift DEF Good
<1>2. Types'
  BY DEF Types, FilesKept
<1>3. Mounting(p2)' /\ VolumeCount(p2)'
  BY <1>1 DEF DeviceAfter
<1>4. Lives(p2, f2)'
  <2>1. g # NoInfo => files[g].state = "live"
    BY DEF Good, Lives, InHand, SameFile
  <2>2. Lists(ph, fl) /\ Lives(ph, fl) /\ Alike(ph[t], y)
    BY DEF Good, SameButDevice
  <2>3. \A h \in Files : SameLife(h) /\ files'[h].pointers = files[h].pointers
    BY DEF SameLife, FilesKept
  <2> QED BY <1>1, <2>1, <2>2, <2>3, LivesKept DEF SameFile
<1>5. Pointers(p2, f2)'
  <2>1. ASSUME NEW h \in Files
        PROVE  /\ RefsOf(y, g, h) - RefsOf(ph[t], fl[t], h) = 0
               /\ files'[h].pointers - files'[h].handles - (files[h].pointers - files[h].handles) = 0
    <3>1. RefsOf(y, g, h) = RefsOf(ph[t], fl[t], h) /\ RefsOf(y, g, h) \in Nat
      BY DEF RefsOf, SameButDevice, Refs, SameFile
    <3>2. files[h] \in FileTypes
      BY DEF Types
    <3>3. files[h].pointers \in Nat /\ files[h].handles \in Nat
      BY <3>2 DEF FileTypes
    <3> QED BY <3>1, <3>3 DEF FilesKept
  <2>2. Pointers(ph, fl)
    BY DEF Good
  <2>3. PointersFollow(ph[t], fl[t], y, g)
    BY <2>1 DEF PointersFollow
  <2> QED BY <1>1, <1>2, <2>2, <2>3, PointersKept
<1>6. Locks(p2, f2)'
  <2>1. \A h : (OwnsOf(y, g, h) <=> OwnsOf(ph[t], fl[t], h)) /\ ClaimsOf(y, g, h) = ClaimsOf(ph[t], fl[t], h)
    BY DEF OwnsOf, ClaimsOf, SameButDevice, SameFile
  <2>2. Locks(ph, fl)
    BY DEF Good
  <2>3. LocksFollow(ph[t], fl[t], y, g)
    BY <2>1 DEF LocksFollow, FilesKept
  <2> QED BY <1>1, <2>1, <2>2, <2>3, LocksKept
<1>7. OpenInfos(p2, f2)' /\ SharingHolds' /\ ShareCountsExact'
  <2>1. ASSUME NEW h \in Files PROVE Used(p2, f2, h)' <=> Used(ph, fl, h)
    <3>1. \A u \in Threads : f2[u] = h /\ p2[u] \in Closing <=> fl[u] = h /\ ph[u] \in Closing
      BY <1>1 DEF Shift, SameButDevice, SameFile
    <3> QED BY <3>1 DEF Used, FilesKept
  <2>2. \A h \in Files :
           /\ files'[h].state = files[h].state /\ files'[h].device = files[h].device
           /\ files'[h].info = files[h].info /\ files'[h].access = files[h].access
           /\ files'[h].shared = files[h].shared /\ files'[h].cleaned = files[h].cleaned
           /\ Used(p2, f2, h)' <=> Used(ph, fl, h)
    BY <2>1 DEF FilesKept
  <2>3. /\ Lists(ph, fl) /\ OpenInfos(ph, fl) /\ SharingHolds /\ ShareCountsExact
        /\ infos' = infos /\ ph[t] # "create" /\ y # "create"
    BY DEF Good, SameButDevice
  <2> QED BY <1>1, <1>2, <2>2, <2>3, FatxUntouched
<1> QED BY <1>1, <1>2, <1>3, <1>4, <1>5, <1>6, <1>7 DEF IInv, Good

\* The phases of the steps that follow.
LEMMA DeviceTable ==
    /\ \A x, y \in {"idle", "parse", "lockdevice", "mount", "giveup"} : SameButDevice(x, y)
    /\ SameButDevice("volume", "free")
    /\ "giveup" \in Volumed /\ "volume" \in Volumed
    /\ \A x \in {"idle", "parse", "lockdevice", "mount", "free"} : x \notin Volumed
<1> USE DEF SameButDevice, Alike, PrivatePhases, RefusedPhases, OpeningPhases, Deleting, Cleaning,
            CleaningOrNew, Volumed, Closing, Refs, Referring, Claims, Claiming, Waiting, Entered,
            Signalling, Owning
<1>1. \A x, y \in {"idle", "parse", "lockdevice", "mount", "giveup"} : SameButDevice(x, y)
  OBVIOUS
<1>2. /\ SameButDevice("volume", "free")
      /\ "giveup" \in Volumed /\ "volume" \in Volumed
      /\ \A x \in {"idle", "parse", "lockdevice", "mount", "free"} : x \notin Volumed
  OBVIOUS
<1> QED BY <1>1, <1>2

\* The volume's count, when t comes to it or goes.
LEMMA VolumeFollows ==
    ASSUME NEW ph, NEW fl, NEW t \in Threads, NEW y, NEW g, NEW p2, NEW f2,
           Shift(ph, fl, t, y, g, p2, f2), Types, VolumeCount(ph), files' = files
    PROVE  /\ (ph[t] \in Volumed <=> y \in Volumed) /\ references' = references => VolumeCount(p2)'
           /\ ph[t] \notin Volumed /\ y \in Volumed /\ references' = references + 1 => VolumeCount(p2)'
           /\ ph[t] \in Volumed /\ y \notin Volumed /\ references' = references - 1 =>
                VolumeCount(p2)' /\ references' \in Nat
<1>1. OnVolume' = OnVolume /\ InVolume(p2)' = InVolume(p2)
  BY DEF OnVolume, InVolume
<1>2. /\ IsFiniteSet(OnVolume) /\ IsFiniteSet(InVolume(ph))
      /\ references = Cardinality(OnVolume) + Cardinality(InVolume(ph))
  BY DEF VolumeCount
<1>3. Cardinality(OnVolume) \in Nat
  BY <1>2, FS_CardinalityType
<1>4. /\ IsFiniteSet(InVolume(p2)) /\ Cardinality(InVolume(ph)) \in Nat
      /\ (ph[t] \in Volumed <=> y \in Volumed) =>
           Cardinality(InVolume(p2)) = Cardinality(InVolume(ph))
      /\ ph[t] \notin Volumed /\ y \in Volumed =>
           Cardinality(InVolume(p2)) = Cardinality(InVolume(ph)) + 1
      /\ ph[t] \in Volumed /\ y \notin Volumed =>
           Cardinality(InVolume(p2)) = Cardinality(InVolume(ph)) - 1
  BY <1>2, InVolumeKept
<1>5. Cardinality(InVolume(p2)) \in Nat
  BY <1>4, FS_CardinalityType
<1> DEFINE a == Cardinality(OnVolume)
           b == Cardinality(InVolume(ph))
           d == Cardinality(InVolume(p2))
<1>6. VolumeCount(p2)' <=> references' = a + d
  BY <1>1, <1>2, <1>4 DEF VolumeCount
<1>7. references = a + b /\ a \in Nat /\ b \in Nat /\ d \in Nat
  BY <1>2, <1>3, <1>4, <1>5
<1>8. /\ (ph[t] \in Volumed <=> y \in Volumed) => d = b
      /\ ph[t] \notin Volumed /\ y \in Volumed => d = b + 1
      /\ ph[t] \in Volumed /\ y \notin Volumed => d = b - 1
  BY <1>4
<1> HIDE DEF a, b, d
<1> QED BY <1>6, <1>7, <1>8

\* The steps around the mount.
LEMMA MountsKeep ==
    ASSUME NEW ph, NEW fl, Types, Good(ph, fl), NEW t \in Threads,
           \/ NtCreateFile(t) \/ MountNeeded(t) \/ WaitForDeviceLock(t)
           \/ IopMountDevice(t) \/ IopMountDeviceFails(t)
    PROVE  IInv'
<1> DEFINE x == ph[t]
<1>0. Lists(ph, fl) /\ Mounting(ph) /\ VolumeCount(ph)
  BY DEF Good
<1>1. /\ UNCHANGED <<references, files, infos, crashed>> /\ fl[t] = NoInfo
      /\ \E y \in {"idle", "parse", "lockdevice", "mount", "giveup"} :
           /\ x \in {"idle", "parse", "lockdevice", "mount"} /\ y # "giveup"
           /\ Moved(ph, fl, t, y, NoInfo)
           /\ \/ x # "mount" /\ y # "mount" /\ UNCHANGED <<volumes, mounting>>
              \/ x # "mount" /\ y = "mount" /\ mounting = {} /\ mounting' = {t} /\ volumes' = volumes
              \/ x = "mount" /\ y # "mount" /\ mounting' = {} /\ volumes' \in {volumes, Mounted}
  <2>1. CASE NtCreateFile(t)
    <3>1. /\ UNCHANGED <<deviceVars, files, infos, crashed>>
          /\ x = "idle" /\ fl[t] = NoInfo /\ Moved(ph, fl, t, "parse", NoInfo)
      BY <1>0, <2>1, CreateFileMoves
    <3> QED BY <3>1 DEF deviceVars
  <2>2. CASE MountNeeded(t)
    <3>1. /\ UNCHANGED <<deviceVars, files, infos, crashed>>
          /\ x = "parse" /\ fl[t] = NoInfo /\ Moved(ph, fl, t, "lockdevice", NoInfo)
      BY <1>0, <2>2, MountNeededMoves
    <3> QED BY <3>1 DEF deviceVars
  <2>3. CASE WaitForDeviceLock(t)
    <3>1. /\ mounting = {} /\ mounting' = {t}
          /\ UNCHANGED <<volumes, references, files, infos, crashed>>
          /\ x = "lockdevice" /\ Moved(ph, fl, t, "mount", NoInfo)
      BY <1>0, <2>3, LockDeviceMoves
    <3>2. fl[t] = NoInfo
      BY <1>0, <3>1 DEF Lists, NoFilePhases
    <3> QED BY <3>1, <3>2
  <2>4. CASE IopMountDevice(t)
    <3>1. /\ volumes' = Mounted /\ mounting' = {}
          /\ UNCHANGED <<references, files, infos, crashed>>
          /\ x = "mount" /\ Moved(ph, fl, t, "parse", NoInfo)
      BY <1>0, <2>4, MountMoves
    <3>2. fl[t] = NoInfo
      BY <1>0, <3>1 DEF Lists, NoFilePhases
    <3> QED BY <3>1, <3>2
  <2>5. CASE IopMountDeviceFails(t)
    <3>1. /\ UNCHANGED <<volumes, references, files, infos, crashed>>
          /\ mounting' = {}
          /\ x = "mount" /\ fl[t] = NoInfo /\ Moved(ph, fl, t, "idle", NoInfo)
      BY <1>0, <2>5, MountFailsMoves
    <3> QED BY <3>1
  <2> QED BY <2>1, <2>2, <2>3, <2>4, <2>5
<1>2. PICK y \in {"idle", "parse", "lockdevice", "mount", "giveup"} :
           /\ x \in {"idle", "parse", "lockdevice", "mount"} /\ y # "giveup"
           /\ Moved(ph, fl, t, y, NoInfo)
           /\ \/ x # "mount" /\ y # "mount" /\ UNCHANGED <<volumes, mounting>>
              \/ x # "mount" /\ y = "mount" /\ mounting = {} /\ mounting' = {t} /\ volumes' = volumes
              \/ x = "mount" /\ y # "mount" /\ mounting' = {} /\ volumes' \in {volumes, Mounted}
  BY <1>1
<1>3. SameButDevice(x, y) /\ x \notin Volumed /\ y \notin Volumed
  BY <1>2, DeviceTable
<1>4. references' \in Nat
  BY <1>1 DEF Types
<1>5. ASSUME NEW p2, NEW f2, Shift(ph, fl, t, y, fl[t], p2, f2)
      PROVE  Mounting(p2)' /\ VolumeCount(p2)'
  <2>1. VolumeCount(p2)'
    BY <1>0, <1>1, <1>3, <1>5, VolumeFollows
  <2>2. p2[t] = y /\ \A u \in Threads : u # t => p2[u] = ph[u]
    BY <1>5 DEF Shift
  <2>3. Mounting(p2)'
    <3>1. /\ volumes \in {0, 1} /\ \A u, v \in mounting : u = v
          /\ \A u : u \in mounting <=> u \in Threads /\ ph[u] = "mount"
      BY <1>0 DEF Mounting
    <3>2. volumes' \in {0, 1}
      BY <1>2, <3>1 DEF Mounted
    <3>3. \A u : u \in mounting' <=> u \in Threads /\ p2[u] = "mount"
      <4>1. CASE x # "mount" /\ y # "mount" /\ mounting' = mounting
        BY <2>2, <3>1, <4>1
      <4>2. CASE x # "mount" /\ y = "mount" /\ mounting = {} /\ mounting' = {t}
        BY <2>2, <3>1, <4>2
      <4>3. CASE x = "mount" /\ y # "mount" /\ mounting' = {}
        BY <2>2, <3>1, <4>3
      <4> QED BY <1>2, <4>1, <4>2, <4>3
    <3>4. \A u, v \in mounting' : u = v
      BY <1>2, <3>1
    <3> QED BY <3>2, <3>3, <3>4 DEF Mounting
  <2> QED BY <2>1, <2>3
<1> QED BY <1>1, <1>2, <1>3, <1>4, <1>5, DeviceStep DEF DeviceAfter, SameFile, FilesKept

\* A reference of the volume is given back.
LEMMA VolumeKeeps ==
    ASSUME NEW ph, NEW fl, Types, Good(ph, fl), NEW t \in Threads,
           IopDereferenceDeviceObject(t)
    PROVE  IInv'
<1> DEFINE x == ph[t]
<1>0. Lists(ph, fl) /\ Mounting(ph) /\ VolumeCount(ph)
  BY DEF Good
<1>1. /\ references' = references - 1
      /\ UNCHANGED <<volumes, mounting, files, infos, crashed>>
      /\ \/ x = "giveup" /\ Moved(ph, fl, t, "idle", NoInfo)
         \/ x = "volume" /\ Moved(ph, fl, t, "free", fl[t])
  BY <1>0, VolumeMoves
<1>2. x = "giveup" => fl[t] = NoInfo
  BY <1>0 DEF Lists, NoFilePhases
<1>3. PICK y : /\ Moved(ph, fl, t, y, fl[t])
               /\ (x = "giveup" /\ y = "idle") \/ (x = "volume" /\ y = "free")
  <2>1. CASE x = "giveup"
    BY <1>1, <1>2, <2>1
  <2>2. CASE x = "volume"
    BY <1>1, <2>2
  <2> QED BY <1>1, <2>1, <2>2
<1>4. SameButDevice(x, y) /\ x \in Volumed /\ y \notin Volumed /\ x # "mount" /\ y # "mount"
  BY <1>3, DeviceTable
<1>5. ASSUME NEW p2, NEW f2, Shift(ph, fl, t, y, fl[t], p2, f2)
      PROVE  Mounting(p2)' /\ VolumeCount(p2)' /\ references' \in Nat
  <2>1. VolumeCount(p2)' /\ references' \in Nat
    BY <1>0, <1>1, <1>4, <1>5, VolumeFollows
  <2>2. Mounting(p2)'
    BY <1>0, <1>1, <1>4, <1>5, MountingKept
  <2> QED BY <2>1, <2>2
<1>6. references' \in Nat
  <2>1. \E p2, f2 : Shift(ph, fl, t, y, fl[t], p2, f2)
    BY <1>0, <1>3, MovedShift
  <2> QED BY <1>5, <2>1
<1> QED BY <1>1, <1>3, <1>4, <1>5, <1>6, DeviceStep DEF DeviceAfter, SameFile, FilesKept

\* There is no memory for the file object.
LEMMA GiveUpKeeps ==
    ASSUME NEW ph, NEW fl, Types, Good(ph, fl), NEW t \in Threads,
           UNCHANGED <<volumes, mounting, files, infos, crashed>>, references' = references + 1,
           ph[t] = "parse", fl[t] = NoInfo, Moved(ph, fl, t, "giveup", NoInfo)
    PROVE  IInv'
<1>0. Lists(ph, fl) /\ Mounting(ph) /\ VolumeCount(ph)
  BY DEF Good
<1>1. SameButDevice(ph[t], "giveup") /\ ph[t] \notin Volumed /\ "giveup" \in Volumed
  BY DeviceTable
<1>2. ASSUME NEW p2, NEW f2, Shift(ph, fl, t, "giveup", fl[t], p2, f2)
      PROVE  Mounting(p2)' /\ VolumeCount(p2)'
  <2>1. VolumeCount(p2)'
    BY <1>0, <1>1, <1>2, VolumeFollows
  <2>2. Mounting(p2)'
    BY <1>0, <1>2, MountingKept
  <2> QED BY <2>1, <2>2
<1>3. references' \in Nat
  <2>1. references \in Nat
    BY DEF Types
  <2> QED BY <2>1
<1> QED BY <1>1, <1>2, <1>3, DeviceStep DEF DeviceAfter, SameFile, FilesKept

-----------------------------------------------------------------------------
(* The life of one file.                                                    *)

\* What is said of one file's life.
LifeOf(ph, fl, f) ==
    /\ \A t \in Threads : fl[t] = f => files[f].state = "live"
    /\ \A t \in Threads : fl[t] = f /\ ph[t] \in PrivatePhases =>
         /\ \A u \in Threads \ {t} : fl[u] # f
         /\ files[f].handles = 0
         /\ files[f].device <=> ph[t] \notin RefusedPhases
    /\ files[f].state = "live" /\ ~files[f].device =>
         \E t \in Threads : fl[t] = f /\ ph[t] \in RefusedPhases
    /\ files[f].state = "live" /\ ~files[f].handleCreated =>
         \E t \in Threads : fl[t] = f /\ ph[t] \in OpeningPhases
    /\ \A t \in Threads : fl[t] = f /\ ph[t] \in Deleting =>
         /\ files[f].pointers = 0
         /\ \A u \in Threads : fl[u] = f /\ ph[u] \in Deleting => u = t
    /\ files[f].state # "live" => files[f].pointers = 0
    /\ files[f].state = "live" /\ files[f].device /\ files[f].handles = 0 =>
         files[f].cleaned \/ \E t \in Threads : fl[t] = f /\ ph[t] \in CleaningOrNew

\* The life of files is that of each of them.
LEMMA LivesByFile ==
    \A ph, fl : Lists(ph, fl) => (Lives(ph, fl) <=> \A f \in Files : LifeOf(ph, fl, f))
<1> SUFFICES ASSUME NEW ph, NEW fl, Lists(ph, fl)
             PROVE  Lives(ph, fl) <=> \A f \in Files : LifeOf(ph, fl, f)
  OBVIOUS
<1>1. /\ \A t \in Threads : fl[t] \in Files \union {NoInfo}
      /\ \A t \in Threads : ph[t] \in PrivatePhases \union Deleting => fl[t] \in Files
      /\ NoInfo \notin Files
  <2>1. PrivatePhases \intersect NoFilePhases = {} /\ Deleting \intersect NoFilePhases = {}
    BY WithFile
  <2> QED BY <2>1, IoFileAssumption DEF Lists
<1>2. ASSUME Lives(ph, fl), NEW f \in Files PROVE LifeOf(ph, fl, f)
  BY <1>1, <1>2 DEF LifeOf, Lives, InHand, Private, WithDevice, HandleMade, OneDeletes, NoneCounted,
                    CleanedUp
<1>3. ASSUME \A f \in Files : LifeOf(ph, fl, f) PROVE Lives(ph, fl)
  <2>1. InHand(fl)
    BY <1>1, <1>3 DEF LifeOf, InHand
  <2>2. Private(ph, fl)
    BY <1>1, <1>3 DEF LifeOf, Private
  <2>3. WithDevice(ph, fl) /\ HandleMade(ph, fl) /\ NoneCounted /\ CleanedUp(ph, fl)
    BY <1>3 DEF LifeOf, WithDevice, HandleMade, NoneCounted, CleanedUp
  <2>4. OneDeletes(ph, fl)
    BY <1>1, <1>3 DEF LifeOf, OneDeletes
  <2> QED BY <2>1, <2>2, <2>3, <2>4 DEF Lives
<1> QED BY <1>2, <1>3

\* The same after a step.
LEMMA LivesByFileNext ==
    \A ph, fl : Lists(ph, fl)' => (Lives(ph, fl)' <=> \A f \in Files : LifeOf(ph, fl, f)')
<1>1. (\A ph, fl : Lists(ph, fl) => (Lives(ph, fl) <=> \A f \in Files : LifeOf(ph, fl, f)))'
  BY LivesByFile, PTL
<1> QED BY <1>1

\* One file changes, and its life is well afterwards.
LEMMA LivesChanged ==
    ASSUME NEW ph, NEW fl, NEW t \in Threads, NEW y, NEW g, NEW p2, NEW f2,
           Shift(ph, fl, t, y, g, p2, f2), Lists(ph, fl), Lists(p2, f2)', Lives(ph, fl),
           NEW f \in Files, fl[t] \in {f, NoInfo}, g \in {f, NoInfo},
           \A h \in Files \ {f} : files'[h] = files[h],
           LifeOf(p2, f2, f)'
    PROVE  Lives(p2, f2)'
<1>1. /\ p2[t] = y /\ f2[t] = g /\ \A u \in Threads : u # t => p2[u] = ph[u] /\ f2[u] = fl[u]
  BY DEF Shift
<1>2. ASSUME NEW h \in Files, h # f PROVE LifeOf(p2, f2, h)'
  <2>1. LifeOf(ph, fl, h)
    BY LivesByFile
  <2>2. files'[h] = files[h] /\ h # NoInfo
    BY <1>2, IoFileAssumption
  <2>3. \A u \in Threads : (f2[u] = h <=> fl[u] = h) /\ (f2[u] = h => p2[u] = ph[u])
    BY <1>1, <1>2, <2>2
  <2> QED BY <2>1, <2>2, <2>3 DEF LifeOf
<1> QED BY <1>2, LivesByFileNext

\* Steps that change who refers to a file, but not what FATX or its lock has of it.
UseOnly(f) ==
    /\ files' \in [Files -> FileTypes]
    /\ \A h \in Files \ {f} : files'[h] = files[h]
    /\ files'[f].state = files[f].state /\ files'[f].device = files[f].device
    /\ files'[f].cleaned = files[f].cleaned /\ files'[f].info = files[f].info
    /\ files'[f].access = files[f].access /\ files'[f].shared = files[f].shared
    /\ files'[f].lockCount = files[f].lockCount /\ files'[f].lockSignal = files[f].lockSignal

\* Phases that differ in the life of the file and in references only.
SameLock(x, y) ==
    /\ x \in Owning <=> y \in Owning
    /\ Claims(x) = Claims(y)
    /\ {x, y} \intersect {"mount", "create"} = {}

\* It goes on well after the step.
LifeAfter(ph, fl, t, y, g, f) ==
    \A p2, f2 : Shift(ph, fl, t, y, g, p2, f2) => LifeOf(p2, f2, f)'

\* If the file's life goes on well after such a step, so does everything.
LEMMA UseStep ==
    ASSUME NEW ph, NEW fl, Types, Good(ph, fl), NEW t \in Threads, NEW y, NEW g, NEW f \in Files,
           Moved(ph, fl, t, y, g), fl[t] \in {f, NoInfo}, g \in {f, NoInfo},
           SameLock(ph[t], y),
           g = fl[t] \/ (ph[t] \notin Owning /\ Claims(ph[t]) = 0),
           ph[t] \notin Closing /\ y \notin Closing,
           ph[t] \in Volumed <=> y \in Volumed,
           UseOnly(f), files[f].pointers > 0 <=> files'[f].pointers > 0,
           UNCHANGED <<deviceVars, infos, crashed>>,
           PointersFollow(ph[t], fl[t], y, g),
           LifeAfter(ph, fl, t, y, g, f)
    PROVE  IInv'
<1>1. PICK p2, f2 : Shift(ph, fl, t, y, g, p2, f2) /\ Lists(p2, f2)'
  BY MovedShift DEF Good
<1>0. /\ Lists(ph, fl) /\ Mounting(ph) /\ Lives(ph, fl) /\ Pointers(ph, fl) /\ VolumeCount(ph)
      /\ Locks(ph, fl) /\ OpenInfos(ph, fl) /\ SharingHolds /\ ShareCountsExact
  BY DEF Good
<1>2. Types'
  BY DEF Types, UseOnly, deviceVars
<1>3. Mounting(p2)'
  BY <1>0, <1>1, MountingKept DEF SameLock, deviceVars
<1>4. Lives(p2, f2)'
  <2>1. \A h \in Files \ {f} : files'[h] = files[h]
    BY DEF UseOnly
  <2>2. LifeOf(p2, f2, f)'
    BY <1>1 DEF LifeAfter
  <2> QED BY <1>0, <1>1, <2>1, <2>2, LivesChanged
<1>5. Pointers(p2, f2)'
  BY <1>0, <1>1, <1>2, PointersKept
<1>6. VolumeCount(p2)'
  <2>1. \A h \in Files : HasVolume(h)' <=> HasVolume(h)
    BY DEF HasVolume, UseOnly
  <2>2. references' = references
    BY DEF deviceVars
  <2> QED BY <1>0, <1>1, <2>1, <2>2, VolumeKept
<1>7. Locks(p2, f2)'
  <2>1. \A h \in Files : (OwnsOf(y, g, h) <=> OwnsOf(ph[t], fl[t], h))
                         /\ ClaimsOf(y, g, h) = ClaimsOf(ph[t], fl[t], h)
    BY DEF OwnsOf, ClaimsOf, SameLock
  <2>2. LocksFollow(ph[t], fl[t], y, g)
    BY <2>1 DEF LocksFollow, UseOnly
  <2> QED BY <1>0, <1>1, <2>2, LocksKept
<1>8. OpenInfos(p2, f2)' /\ SharingHolds' /\ ShareCountsExact'
  <2>1. ASSUME NEW h \in Files PROVE Used(p2, f2, h)' <=> Used(ph, fl, h)
    <3>1. \A u \in Threads : f2[u] = h /\ p2[u] \in Closing <=> fl[u] = h /\ ph[u] \in Closing
      BY <1>1 DEF Shift
    <3>2. files[h].pointers > 0 <=> files'[h].pointers > 0
      BY DEF UseOnly
    <3> QED BY <3>1, <3>2 DEF Used
  <2>2. \A h \in Files :
           /\ files'[h].state = files[h].state /\ files'[h].device = files[h].device
           /\ files'[h].info = files[h].info /\ files'[h].access = files[h].access
           /\ files'[h].shared = files[h].shared /\ files'[h].cleaned = files[h].cleaned
           /\ Used(p2, f2, h)' <=> Used(ph, fl, h)
    BY <2>1 DEF UseOnly
  <2>3. infos' = infos /\ ph[t] # "create" /\ y # "create"
    BY DEF SameLock
  <2> QED BY <1>0, <1>1, <1>2, <2>2, <2>3, FatxUntouched
<1> QED BY <1>1, <1>2, <1>3, <1>4, <1>5, <1>6, <1>7, <1>8 DEF IInv, Good

\* What the pointer count says of those that refer to a file.
LEMMA RefFacts ==
    ASSUME NEW ph, NEW fl, Types, Good(ph, fl), NEW f \in Files
    PROVE  /\ files[f].pointers \in Nat /\ files[f].handles \in Nat
           /\ files[f].handles <= files[f].pointers
           /\ \A t \in Threads : fl[t] = f /\ Refs(ph[t]) > 0 => files[f].pointers > files[f].handles
           /\ files[f].pointers = 1 => \A t \in Threads : fl[t] = f /\ Refs(ph[t]) > 0 =>
                /\ files[f].handles = 0 /\ Refs(ph[t]) = 1
                /\ \A u \in Threads \ {t} : fl[u] = f => Refs(ph[u]) = 0
<1> DEFINE a == RefsTo(ph, fl, f)
<1>1. a \in [Threads -> Nat]
  BY CountsAreNat
<1>2. IsFiniteSet(Tally(a)) /\ files[f].pointers = files[f].handles + Cardinality(Tally(a))
  BY DEF Good, Pointers
<1>3. \A t \in Threads : fl[t] = f => a[t] = Refs(ph[t])
  BY DEF RefsTo
<1>4. files[f].pointers \in Nat /\ files[f].handles \in Nat
  <2>1. files[f] \in FileTypes
    BY DEF Types
  <2> QED BY <2>1 DEF FileTypes
<1>5. \A t \in Threads : Refs(ph[t]) \in Nat
  BY DEF Refs
<1> HIDE DEF a
<1>6. Cardinality(Tally(a)) \in Nat /\ (Cardinality(Tally(a)) = 0 <=> \A t \in Threads : a[t] = 0)
  BY <1>1, <1>2, TallyZero
<1>7. ASSUME NEW t \in Threads, fl[t] = f, Refs(ph[t]) > 0
      PROVE  files[f].pointers > files[f].handles
  BY <1>2, <1>3, <1>4, <1>5, <1>6, <1>7
<1>8. ASSUME files[f].pointers = 1, NEW t \in Threads, fl[t] = f, Refs(ph[t]) > 0
      PROVE  /\ files[f].handles = 0 /\ Refs(ph[t]) = 1
             /\ \A u \in Threads \ {t} : fl[u] = f => Refs(ph[u]) = 0
  <2>1. files[f].handles = 0 /\ Cardinality(Tally(a)) = 1
    BY <1>2, <1>4, <1>6, <1>7, <1>8
  <2>2. a[t] > 0
    BY <1>3, <1>8
  <2>3. a[t] = 1 /\ \A u \in Threads \ {t} : a[u] = 0
    BY <1>1, <1>2, <2>1, <2>2, TallyOne
  <2> QED BY <1>3, <1>8, <2>1, <2>3
<1>9. files[f].handles <= files[f].pointers
  BY <1>2, <1>4, <1>6
<1> QED BY <1>4, <1>7, <1>8, <1>9

\* A file of which only one thread has heard.
LEMMA AloneFacts ==
    ASSUME NEW ph, NEW fl, Types, Good(ph, fl), NEW t \in Threads, ph[t] \in PrivatePhases
    PROVE  /\ fl[t] \in Files /\ files[fl[t]].state = "live" /\ files[fl[t]].handles = 0
           /\ \A u \in Threads \ {t} : fl[u] # fl[t]
           /\ Refs(ph[t]) < 2 => files[fl[t]].pointers = Refs(ph[t])
           /\ files[fl[t]].device <=> ph[t] \notin RefusedPhases
<1> DEFINE f == fl[t]
           a == RefsTo(ph, fl, f)
<1>1. fl[t] \in Files
  <2>1. PrivatePhases \intersect NoFilePhases = {}
    BY WithFile
  <2> QED BY <2>1, FileAt DEF Good
<1>2. /\ files[f].state = "live" /\ files[f].handles = 0
      /\ \A u \in Threads \ {t} : fl[u] # f
      /\ files[f].device <=> ph[t] \notin RefusedPhases
  BY <1>1, IoFileAssumption DEF Good, Lives, InHand, Private
<1>3. a \in [Threads -> Nat]
  BY CountsAreNat
<1>4. /\ IsFiniteSet(Tally(a)) /\ files[f].pointers = files[f].handles + Cardinality(Tally(a))
  BY <1>1 DEF Good, Pointers
<1>5. a[t] = Refs(ph[t]) /\ \A u \in Threads \ {t} : a[u] = 0
  BY <1>2 DEF RefsTo
<1>6. ASSUME Refs(ph[t]) = 1 PROVE files[f].pointers = 1
  <2>1. a[t] = 1
    BY <1>5, <1>6
  <2>2. Cardinality(Tally(a)) = 1
    <3> HIDE DEF a
    <3> QED BY <1>3, <1>4, <1>5, <2>1, TallyOnly
  <2> QED BY <1>2, <1>4, <2>2
<1>7. ASSUME Refs(ph[t]) = 0 PROVE files[f].pointers = 0
  <2>1. \A u \in Threads : a[u] = 0
    BY <1>5, <1>7
  <2>2. Cardinality(Tally(a)) = 0
    <3> HIDE DEF a
    <3> QED BY <1>3, <1>4, <2>1, TallyZero
  <2> QED BY <1>2, <1>4, <2>2
<1>8. Refs(ph[t]) \in {0, 1, 2}
  BY DEF Refs
<1> QED BY <1>1, <1>2, <1>6, <1>7, <1>8

\* Nobody but t creates or deletes a file that t or a handle refers to.
LEMMA Undisturbed ==
    ASSUME NEW ph, NEW fl, Types, Good(ph, fl), NEW t \in Threads, NEW f \in Files,
           \/ fl[t] = f /\ Refs(ph[t]) > 0
           \/ files[f].handles > 0
    PROVE  /\ files[f].state = "live" /\ files[f].pointers > 0
           /\ \A u \in Threads \ {t} : fl[u] = f => ph[u] \notin PrivatePhases \union Deleting
<1>1. Lists(ph, fl) /\ Lives(ph, fl)
  BY DEF Good
<1>2. LifeOf(ph, fl, f)
  BY <1>1, LivesByFile
<1>3. /\ files[f].pointers \in Nat /\ files[f].handles \in Nat
      /\ files[f].handles <= files[f].pointers
      /\ fl[t] = f /\ Refs(ph[t]) > 0 => files[f].pointers > files[f].handles
  BY RefFacts
<1>4. files[f].pointers > 0
  BY <1>3
<1>5. files[f].state = "live"
  BY <1>2, <1>3, <1>4 DEF LifeOf
<1>6. ASSUME NEW u \in Threads \ {t}, fl[u] = f
      PROVE  ph[u] \notin PrivatePhases \union Deleting
  <2>1. ph[u] \notin Deleting
    BY <1>2, <1>4, <1>6 DEF LifeOf
  <2>2. ph[u] \notin PrivatePhases
    BY <1>2, <1>3, <1>6 DEF LifeOf
  <2> QED BY <2>1, <2>2
<1> QED BY <1>4, <1>5, <1>6

\* The life of such a file goes on, if it keeps its device and its cleanup.
LEMMA LifeGoesOn ==
    ASSUME NEW ph, NEW fl, Good(ph, fl), NEW t \in Threads, NEW y, NEW g, NEW f \in Files,
           fl[t] \in {f, NoInfo}, g \in {f, NoInfo}, UseOnly(f), files[f].state = "live",
           \A u \in Threads \ {t} : fl[u] = f => ph[u] \notin PrivatePhases \union Deleting,
           y \notin PrivatePhases \union Deleting,
           fl[t] = f => ph[t] \notin RefusedPhases,
           files[f].handleCreated => files'[f].handleCreated,
           fl[t] = f /\ ph[t] \in OpeningPhases =>
               files'[f].handleCreated \/ (g = f /\ y \in OpeningPhases),
           files'[f].handles = 0 =>
               \/ files[f].handles = 0 /\ (fl[t] = f => ph[t] \notin CleaningOrNew)
               \/ g = f /\ y \in CleaningOrNew
    PROVE  LifeAfter(ph, fl, t, y, g, f)
<1> SUFFICES ASSUME NEW p2, NEW f2, Shift(ph, fl, t, y, g, p2, f2)
             PROVE  LifeOf(p2, f2, f)'
  BY DEF LifeAfter
<1>0. LifeOf(ph, fl, f) /\ f # NoInfo
  BY LivesByFile, IoFileAssumption DEF Good
<1>1. /\ p2[t] = y /\ f2[t] = g /\ \A u \in Threads \ {t} : p2[u] = ph[u] /\ f2[u] = fl[u]
  BY DEF Shift
<1>2. /\ files'[f].state = files[f].state /\ files'[f].device = files[f].device
      /\ files'[f].cleaned = files[f].cleaned
  BY DEF UseOnly
<1>3. \A u \in Threads : f2[u] = f => p2[u] \notin PrivatePhases \union Deleting
  BY <1>1
<1>4. ~files[f].device => \E u \in Threads : f2[u] = f /\ p2[u] \in RefusedPhases
  BY <1>0, <1>1 DEF LifeOf
<1>5. ~files'[f].handleCreated => \E u \in Threads : f2[u] = f /\ p2[u] \in OpeningPhases
  BY <1>0, <1>1 DEF LifeOf
<1>6. files[f].device /\ files'[f].handles = 0 =>
         files[f].cleaned \/ \E u \in Threads : f2[u] = f /\ p2[u] \in CleaningOrNew
  BY <1>0, <1>1 DEF LifeOf
<1> QED BY <1>2, <1>3, <1>4, <1>5, <1>6 DEF LifeOf

\* The phases of the steps that follow.
LEMMA UseTable ==
    /\ \A y \in {"readAcquire", "queryAcquire", "failAcquire", "deref", "duplicate", "closeAcquire"} :
         /\ SameLock("idle", y) /\ y \notin PrivatePhases \union Deleting /\ Refs(y) = 1
         /\ y \notin Closing \union Volumed /\ y \notin CleaningOrNew \ {"closeAcquire"}
    /\ \A y \in {"idle", "created", "handle", "readDone", "readRelease"} :
         y \notin Closing \union Volumed \union Deleting \union RefusedPhases
    /\ "created" \in OpeningPhases /\ "created" \notin CleaningOrNew
    /\ "closeAcquire" \in CleaningOrNew
    /\ \A y \in {"created", "idle", "deref", "readDone", "readRelease"} : y \notin PrivatePhases
    /\ \A y \in {"deref", "duplicate", "readDone"} : y \notin OpeningPhases \union CleaningOrNew
    /\ Refs("handle") = 2 /\ Refs("created") = 1 /\ Refs("readDone") = 1
    /\ Refs("idle") = 0 /\ Refs("readRelease") = 0
    /\ SameLock("handle", "created") /\ SameLock("created", "deref")
    /\ SameLock("duplicate", "deref") /\ SameLock("deref", "idle")
    /\ SameLock("readDone", "readRelease")
    /\ \A y \in {"idle", "deref"} : y \notin Owning /\ Claims(y) = 0
<1> USE DEF SameLock, PrivatePhases, RefusedPhases, OpeningPhases, Deleting, Cleaning,
            CleaningOrNew, Volumed, Closing, Refs, Referring, Claims, Claiming, Waiting, Entered,
            Signalling, Owning
<1>1. \A y \in {"readAcquire", "queryAcquire", "failAcquire", "deref", "duplicate", "closeAcquire"} :
         /\ SameLock("idle", y) /\ y \notin PrivatePhases \union Deleting /\ Refs(y) = 1
         /\ y \notin Closing \union Volumed /\ y \notin CleaningOrNew \ {"closeAcquire"}
  OBVIOUS
<1>2. /\ \A y \in {"idle", "created", "handle", "readDone", "readRelease"} :
             y \notin Closing \union Volumed \union Deleting \union RefusedPhases
      /\ "created" \in OpeningPhases /\ "created" \notin CleaningOrNew
      /\ "closeAcquire" \in CleaningOrNew
      /\ \A y \in {"created", "idle", "deref", "readDone", "readRelease"} : y \notin PrivatePhases
      /\ \A y \in {"deref", "duplicate", "readDone"} : y \notin OpeningPhases \union CleaningOrNew
  OBVIOUS
<1>3. /\ Refs("handle") = 2 /\ Refs("created") = 1 /\ Refs("readDone") = 1
      /\ Refs("idle") = 0 /\ Refs("readRelease") = 0
      /\ SameLock("handle", "created") /\ SameLock("created", "deref")
      /\ SameLock("duplicate", "deref") /\ SameLock("deref", "idle")
      /\ SameLock("readDone", "readRelease")
      /\ \A y \in {"idle", "deref"} : y \notin Owning /\ Claims(y) = 0
  OBVIOUS
<1> QED BY <1>1, <1>2, <1>3

\* The counts follow, when one file's does.
LEMMA FileFollows ==
    ASSUME Types, NEW x, NEW y, NEW f \in Files, NEW g, NEW h, g \in {f, NoInfo}, h \in {f, NoInfo},
           UseOnly(f), Refs(x) \in Nat, Refs(y) \in Nat,
           RefsOf(y, h, f) - RefsOf(x, g, f) \in {0, 1, -1},
           files'[f].pointers - files'[f].handles - (files[f].pointers - files[f].handles)
               = RefsOf(y, h, f) - RefsOf(x, g, f)
    PROVE  PointersFollow(x, g, y, h)
<1> SUFFICES ASSUME NEW k \in Files, k # f
             PROVE  /\ RefsOf(y, h, k) - RefsOf(x, g, k) = 0
                    /\ files'[k].pointers - files'[k].handles - (files[k].pointers - files[k].handles) = 0
  BY DEF PointersFollow
<1>1. RefsOf(y, h, k) = 0 /\ RefsOf(x, g, k) = 0
  BY IoFileAssumption DEF RefsOf
<1>2. files[k] \in FileTypes /\ files'[k] = files[k]
  BY DEF Types, UseOnly
<1>3. files[k].pointers \in Nat /\ files[k].handles \in Nat
  BY <1>2 DEF FileTypes
<1> QED BY <1>1, <1>2, <1>3

-----------------------------------------------------------------------------
(* Calls with a handle, and references given back that are not the last.    *)

\* A step of a file that t or a handle refers to, in which t neither begins
\* nor ends to create or delete it, or to have its lock.
LEMMA CallStep ==
    ASSUME NEW ph, NEW fl, Types, Good(ph, fl), NEW t \in Threads, NEW y, NEW g, NEW f \in Files,
           Moved(ph, fl, t, y, g), fl[t] \in {f, NoInfo}, g \in {f, NoInfo},
           (fl[t] = f /\ Refs(ph[t]) > 0) \/ files[f].handles > 0,
           SameLock(ph[t], y), g = fl[t] \/ (ph[t] \notin Owning /\ Claims(ph[t]) = 0),
           ph[t] \notin Closing \union Volumed \union RefusedPhases,
           y \notin Closing \union Volumed \union PrivatePhases \union Deleting,
           UseOnly(f), files'[f].pointers > 0, UNCHANGED <<deviceVars, infos, crashed>>,
           RefsOf(y, g, f) - RefsOf(ph[t], fl[t], f) \in {0, 1, -1},
           files'[f].pointers - files'[f].handles - (files[f].pointers - files[f].handles)
               = RefsOf(y, g, f) - RefsOf(ph[t], fl[t], f),
           files[f].handleCreated => files'[f].handleCreated,
           fl[t] = f /\ ph[t] \in OpeningPhases =>
               files'[f].handleCreated \/ (g = f /\ y \in OpeningPhases),
           files'[f].handles = 0 =>
               \/ files[f].handles = 0 /\ (fl[t] = f => ph[t] \notin CleaningOrNew)
               \/ g = f /\ y \in CleaningOrNew
    PROVE  IInv'
<1>1. /\ files[f].state = "live" /\ files[f].pointers > 0
      /\ \A u \in Threads \ {t} : fl[u] = f => ph[u] \notin PrivatePhases \union Deleting
  BY Undisturbed
<1>2. LifeAfter(ph, fl, t, y, g, f)
  <2>1. ph[t] \notin RefusedPhases /\ y \notin PrivatePhases \union Deleting
    OBVIOUS
  <2> QED BY <1>1, <2>1, LifeGoesOn
<1>3. PointersFollow(ph[t], fl[t], y, g)
  <2>1. Refs(ph[t]) \in Nat /\ Refs(y) \in Nat
    BY DEF Refs
  <2> QED BY <2>1, FileFollows
<1>4. /\ ph[t] \notin Closing /\ y \notin Closing
      /\ ph[t] \in Volumed <=> y \in Volumed
      /\ files[f].pointers > 0 <=> files'[f].pointers > 0
  BY <1>1
<1> QED BY <1>2, <1>3, <1>4, UseStep

\* ObOpenObjectByName.
LEMMA HandleKeeps ==
    ASSUME NEW ph, NEW fl, Types, Good(ph, fl), NEW t \in Threads, ObOpenObjectByName(t)
    PROVE  IInv'
<1> DEFINE f == fl[t]
<1>1. /\ files' = [files EXCEPT ![f].handles = @ + 1]
      /\ UNCHANGED <<deviceVars, infos, crashed>>
      /\ f \in Files /\ ph[t] = "handle" /\ Moved(ph, fl, t, "created", f)
  BY HandleMoves DEF Good
<1>2. /\ files[f].pointers \in Nat /\ files[f].handles \in Nat
      /\ files[f].pointers > files[f].handles
  BY <1>1, RefFacts, UseTable
<1>3. /\ files'[f] = [files[f] EXCEPT !.handles = files[f].handles + 1]
      /\ files[f] \in FileTypes /\ \A h \in Files \ {f} : files'[h] = files[h]
  BY <1>1 DEF Types
<1>4. files'[f].handles = files[f].handles + 1 /\ files'[f].pointers = files[f].pointers
      /\ files'[f].handleCreated = files[f].handleCreated
  BY <1>3 DEF FileTypes
<1>5. UseOnly(f)
  <2>1. files'[f] \in FileTypes
    BY <1>2, <1>3 DEF FileTypes
  <2>2. files' \in [Files -> FileTypes]
    BY <1>1, <1>3, <2>1 DEF Types
  <2> QED BY <1>3, <2>2 DEF UseOnly, FileTypes
<1>6. RefsOf("created", f, f) = 1 /\ RefsOf(ph[t], f, f) = 2
  BY <1>1, UseTable DEF RefsOf
<1>7. /\ SameLock(ph[t], "created")
      /\ ph[t] \notin Closing \union Volumed \union RefusedPhases
      /\ "created" \notin Closing \union Volumed \union PrivatePhases \union Deleting
      /\ "created" \in OpeningPhases
  BY <1>1, UseTable
<1>8. files'[f].pointers - files'[f].handles - (files[f].pointers - files[f].handles)
         = RefsOf("created", f, f) - RefsOf(ph[t], f, f)
      /\ RefsOf("created", f, f) - RefsOf(ph[t], f, f) \in {0, 1, -1}
      /\ files'[f].handles # 0 /\ files'[f].pointers > 0 /\ Refs(ph[t]) > 0
  BY <1>1, <1>2, <1>4, <1>6, UseTable
<1> QED BY <1>1, <1>4, <1>5, <1>7, <1>8, CallStep

\* IoCreateFile.
LEMMA CreatedKeeps ==
    ASSUME NEW ph, NEW fl, Types, Good(ph, fl), NEW t \in Threads, IoCreateFile(t)
    PROVE  IInv'
<1> DEFINE f == fl[t]
<1>1. /\ files' = [files EXCEPT ![f].handleCreated = TRUE]
      /\ UNCHANGED <<deviceVars, infos, crashed>>
      /\ f \in Files /\ ph[t] = "created" /\ Moved(ph, fl, t, "deref", f)
  BY CreatedMoves DEF Good
<1>2. /\ files[f].pointers \in Nat /\ files[f].handles \in Nat
      /\ files[f].pointers > files[f].handles
  BY <1>1, RefFacts, UseTable
<1>3. /\ files'[f] = [files[f] EXCEPT !.handleCreated = TRUE]
      /\ files[f] \in FileTypes /\ \A h \in Files \ {f} : files'[h] = files[h]
  BY <1>1 DEF Types
<1>4. files'[f].handles = files[f].handles /\ files'[f].pointers = files[f].pointers
      /\ files'[f].handleCreated
  BY <1>3 DEF FileTypes
<1>5. UseOnly(f)
  <2>1. files'[f] \in FileTypes
    BY <1>2, <1>3 DEF FileTypes
  <2>2. files' \in [Files -> FileTypes]
    BY <1>1, <1>3, <2>1 DEF Types
  <2> QED BY <1>3, <2>2 DEF UseOnly, FileTypes
<1>6. RefsOf("deref", f, f) = 1 /\ RefsOf(ph[t], f, f) = 1
  BY <1>1, UseTable DEF RefsOf
<1>7. /\ SameLock(ph[t], "deref")
      /\ ph[t] \notin Closing \union Volumed \union RefusedPhases
      /\ "deref" \notin Closing \union Volumed \union PrivatePhases \union Deleting
      /\ ph[t] \notin CleaningOrNew
  BY <1>1, UseTable
<1>8. files'[f].pointers - files'[f].handles - (files[f].pointers - files[f].handles)
         = RefsOf("deref", f, f) - RefsOf(ph[t], f, f)
      /\ RefsOf("deref", f, f) - RefsOf(ph[t], f, f) \in {0, 1, -1}
      /\ files'[f].pointers > 0 /\ Refs(ph[t]) > 0
  BY <1>1, <1>2, <1>4, <1>6, UseTable
<1> QED BY <1>1, <1>4, <1>5, <1>7, <1>8, CallStep

\* ObInsertObject, for a duplicate.
LEMMA DuplicateKeeps ==
    ASSUME NEW ph, NEW fl, Types, Good(ph, fl), NEW t \in Threads, ObInsertObject(t)
    PROVE  IInv'
<1> DEFINE f == fl[t]
<1>1. /\ files' = [files EXCEPT ![f].handles = @ + 1, ![f].pointers = @ + 1]
      /\ UNCHANGED <<deviceVars, infos, crashed>>
      /\ f \in Files /\ ph[t] = "duplicate" /\ Moved(ph, fl, t, "deref", f)
  BY DuplicateMoves DEF Good
<1>2. /\ files[f].pointers \in Nat /\ files[f].handles \in Nat
      /\ files[f].pointers > files[f].handles
  BY <1>1, RefFacts, UseTable
<1>3. /\ files'[f] = [files[f] EXCEPT !.handles = files[f].handles + 1,
                                      !.pointers = files[f].pointers + 1]
      /\ files[f] \in FileTypes /\ \A h \in Files \ {f} : files'[h] = files[h]
  BY <1>1 DEF Types
<1>4. files'[f].handles = files[f].handles + 1 /\ files'[f].pointers = files[f].pointers + 1
      /\ files'[f].handleCreated = files[f].handleCreated
  BY <1>3 DEF FileTypes
<1>5. UseOnly(f)
  <2>0. files[f].handles + 1 \in Nat /\ files[f].pointers + 1 \in Nat
    BY <1>2
  <2>1. files'[f] \in FileTypes
    BY <1>3, <2>0 DEF FileTypes
  <2>2. files' \in [Files -> FileTypes]
    BY <1>1, <1>3, <2>1 DEF Types
  <2> QED BY <1>3, <2>2 DEF UseOnly, FileTypes
<1>6. RefsOf("deref", f, f) = 1 /\ RefsOf(ph[t], f, f) = 1
  BY <1>1, UseTable DEF RefsOf
<1>7. /\ SameLock(ph[t], "deref")
      /\ ph[t] \notin Closing \union Volumed \union RefusedPhases
      /\ "deref" \notin Closing \union Volumed \union PrivatePhases \union Deleting
      /\ ph[t] \notin OpeningPhases
  <2>1. SameLock(ph[t], "deref") /\ ph[t] \notin OpeningPhases
        /\ "deref" \notin Closing \union Volumed \union PrivatePhases \union Deleting
    BY <1>1, UseTable
  <2>2. ph[t] \notin Closing \union Volumed /\ ph[t] \notin PrivatePhases \union Deleting
    BY <1>1, UseTable
  <2>3. RefusedPhases \subseteq PrivatePhases
    BY DEF RefusedPhases, PrivatePhases
  <2> QED BY <2>1, <2>2, <2>3
<1>8. files'[f].pointers - files'[f].handles - (files[f].pointers - files[f].handles)
         = RefsOf("deref", f, f) - RefsOf(ph[t], f, f)
      /\ RefsOf("deref", f, f) - RefsOf(ph[t], f, f) \in {0, 1, -1}
      /\ files'[f].pointers > 0 /\ files'[f].handles # 0 /\ Refs(ph[t]) > 0
  BY <1>1, <1>2, <1>4, <1>6, UseTable
<1> QED BY <1>1, <1>4, <1>5, <1>7, <1>8, CallStep

\* A call with a handle begins.
LEMMA RequestKeeps ==
    ASSUME NEW ph, NEW fl, Types, Good(ph, fl), NEW t \in Threads, NEW f \in Files,
           \/ NtReadFile(t, f) \/ NtQueryInformationFile(t, f) \/ RequestFails(t, f)
           \/ NtDuplicateObject(t, f)
    PROVE  IInv'
<1>1. PICK y \in {"readAcquire", "queryAcquire", "failAcquire", "deref", "duplicate"} :
         /\ ph[t] = "idle" /\ fl[t] = NoInfo /\ Moved(ph, fl, t, y, f)
         /\ files[f].handles > 0 /\ files' = [files EXCEPT ![f].pointers = @ + 1]
         /\ UNCHANGED <<deviceVars, infos, crashed>>
  BY RequestMoves DEF Good
<1>2. /\ files[f].pointers \in Nat /\ files[f].handles \in Nat
  BY RefFacts
<1>3. /\ files'[f] = [files[f] EXCEPT !.pointers = files[f].pointers + 1]
      /\ files[f] \in FileTypes /\ \A h \in Files \ {f} : files'[h] = files[h]
  BY <1>1 DEF Types
<1>4. files'[f].handles = files[f].handles /\ files'[f].pointers = files[f].pointers + 1
      /\ files'[f].handleCreated = files[f].handleCreated
  BY <1>3 DEF FileTypes
<1>5. UseOnly(f)
  <2>1. files'[f] \in FileTypes
    BY <1>2, <1>3 DEF FileTypes
  <2>2. files' \in [Files -> FileTypes]
    BY <1>1, <1>3, <2>1 DEF Types
  <2> QED BY <1>3, <2>2 DEF UseOnly, FileTypes
<1>6. RefsOf(y, f, f) = 1 /\ RefsOf(ph[t], NoInfo, f) = 0
  BY <1>1, UseTable, IoFileAssumption DEF RefsOf
<1>7. /\ SameLock(ph[t], y) /\ ph[t] \notin Owning /\ Claims(ph[t]) = 0
      /\ ph[t] \notin Closing \union Volumed \union RefusedPhases
      /\ y \notin Closing \union Volumed \union PrivatePhases \union Deleting
  BY <1>1, UseTable
<1>8. files'[f].pointers - files'[f].handles - (files[f].pointers - files[f].handles)
         = RefsOf(y, f, f) - RefsOf(ph[t], NoInfo, f)
      /\ RefsOf(y, f, f) - RefsOf(ph[t], NoInfo, f) \in {0, 1, -1}
      /\ files'[f].pointers > 0 /\ files'[f].handles # 0 /\ fl[t] # f
  BY <1>1, <1>2, <1>4, <1>6, IoFileAssumption
<1> QED BY <1>1, <1>4, <1>5, <1>7, <1>8, CallStep

\* NtClose.
LEMMA NtCloseKeeps ==
    ASSUME NEW ph, NEW fl, Types, Good(ph, fl), NEW t \in Threads, NEW f \in Files, NtClose(t, f)
    PROVE  IInv'
<1> DEFINE made == files[f].handleCreated \/ files[f].handles = 1
<1>1. /\ ph[t] = "idle" /\ fl[t] = NoInfo /\ files[f].handles > 0
      /\ files' = [files EXCEPT ![f].handles = @ - 1,
                                ![f].handleCreated = @ \/ files[f].handles = 1]
      /\ UNCHANGED <<deviceVars, infos, crashed>>
      /\ \E y \in {"closeAcquire", "deref"} :
            Moved(ph, fl, t, y, f) /\ (files[f].handles = 1 => y = "closeAcquire")
  BY NtCloseMoves DEF Good
<1>2. PICK y \in {"closeAcquire", "deref"} :
         Moved(ph, fl, t, y, f) /\ (files[f].handles = 1 => y = "closeAcquire")
  BY <1>1
<1>3. /\ files[f].pointers \in Nat /\ files[f].handles \in Nat /\ files[f].handles <= files[f].pointers
  BY RefFacts
<1>4. /\ files[f] \in FileTypes /\ \A h \in Files \ {f} : files'[h] = files[h]
      /\ files'[f] = [files[f] EXCEPT !.handles = files[f].handles - 1,
                                      !.handleCreated = made]
  <2>1. files[f] \in FileTypes
    BY DEF Types
  <2>2. files'[f] = [files[f] EXCEPT !.handles = @ - 1, !.handleCreated = @ \/ files[f].handles = 1]
    BY <1>1 DEF Types
  <2>3. files'[f] = [[files[f] EXCEPT !.handles = files[f].handles - 1] EXCEPT !.handleCreated = made]
    <3> DEFINE r == [files[f] EXCEPT !.handles = files[f].handles - 1]
    <3>1. r.handleCreated = files[f].handleCreated
      BY <2>1 DEF FileTypes
    <3>2. files'[f] = [r EXCEPT !.handleCreated = r.handleCreated \/ files[f].handles = 1]
      BY <2>2, Zenon
    <3> QED BY <3>1, <3>2
  <2>4. \A h \in Files \ {f} : files'[h] = files[h]
    BY <1>1 DEF Types
  <2> HIDE DEF made
  <2> QED BY <2>1, <2>3, <2>4
<1>5. files'[f].handles = files[f].handles - 1 /\ files'[f].pointers = files[f].pointers
      /\ (files[f].handleCreated => files'[f].handleCreated)
  BY <1>4 DEF FileTypes
<1>6. UseOnly(f)
  <2>0. files[f].handles - 1 \in Nat /\ made \in BOOLEAN
    BY <1>1, <1>3
  <2>1. files'[f] \in FileTypes
    <3> HIDE DEF made
    <3> QED BY <1>4, <2>0 DEF FileTypes
  <2>2. files' \in [Files -> FileTypes]
    BY <1>1, <1>4, <2>1 DEF Types
  <2> QED BY <1>4, <2>2 DEF UseOnly, FileTypes
<1>7. RefsOf(y, f, f) = 1 /\ RefsOf(ph[t], NoInfo, f) = 0
  BY <1>1, UseTable, IoFileAssumption DEF RefsOf
<1>8. /\ SameLock(ph[t], y) /\ ph[t] \notin Owning /\ Claims(ph[t]) = 0
      /\ ph[t] \notin Closing \union Volumed \union RefusedPhases
      /\ y \notin Closing \union Volumed \union PrivatePhases \union Deleting
  BY <1>1, UseTable
<1>9. files'[f].handles = 0 => y \in CleaningOrNew
  BY <1>2, <1>3, <1>5, UseTable
<1>10. files'[f].pointers - files'[f].handles - (files[f].pointers - files[f].handles)
         = RefsOf(y, f, f) - RefsOf(ph[t], NoInfo, f)
      /\ RefsOf(y, f, f) - RefsOf(ph[t], NoInfo, f) \in {0, 1, -1}
      /\ files'[f].pointers > 0 /\ fl[t] # f
  BY <1>1, <1>3, <1>5, <1>7, IoFileAssumption
<1> QED BY <1>1, <1>2, <1>5, <1>6, <1>8, <1>9, <1>10, CallStep

\* A reference that is not the last.
LEMMA DerefKeeps ==
    ASSUME NEW ph, NEW fl, Types, Good(ph, fl), NEW t \in Threads, NEW y, NEW g,
           files' = [files EXCEPT ![fl[t]].pointers = @ - 1],
           UNCHANGED <<deviceVars, infos, crashed>>, fl[t] \in Files, files[fl[t]].pointers # 1,
           \/ ph[t] = "deref" /\ y = "idle" /\ g = NoInfo
           \/ ph[t] = "readDone" /\ y = "readRelease" /\ g = fl[t],
           Moved(ph, fl, t, y, g)
    PROVE  IInv'
<1> DEFINE f == fl[t]
<1>2. /\ files[f].pointers \in Nat /\ files[f].handles \in Nat
      /\ files[f].pointers > files[f].handles
  BY RefFacts, UseTable
<1>3. /\ files'[f] = [files[f] EXCEPT !.pointers = files[f].pointers - 1]
      /\ files[f] \in FileTypes /\ \A h \in Files \ {f} : files'[h] = files[h]
  BY DEF Types
<1>4. files'[f].handles = files[f].handles /\ files'[f].pointers = files[f].pointers - 1
      /\ files'[f].handleCreated = files[f].handleCreated
  BY <1>3 DEF FileTypes
<1>5. UseOnly(f)
  <2>1. files'[f] \in FileTypes
    BY <1>2, <1>3 DEF FileTypes
  <2>2. files' \in [Files -> FileTypes]
    BY <1>3, <2>1 DEF Types
  <2> QED BY <1>3, <2>2 DEF UseOnly, FileTypes
<1>6. RefsOf(y, g, f) = 0 /\ RefsOf(ph[t], f, f) = 1 /\ Refs(ph[t]) > 0
  BY UseTable, IoFileAssumption DEF RefsOf
<1>7. /\ SameLock(ph[t], y)
      /\ g = fl[t] \/ (ph[t] \notin Owning /\ Claims(ph[t]) = 0)
      /\ y \notin Closing \union Volumed \union PrivatePhases \union Deleting
      /\ ph[t] \notin OpeningPhases \union CleaningOrNew
  BY UseTable
<1>8. ph[t] \notin Closing \union Volumed \union RefusedPhases
  <2>1. RefusedPhases \subseteq PrivatePhases
    BY DEF RefusedPhases, PrivatePhases
  <2> QED BY <2>1, UseTable
<1>9. files'[f].pointers - files'[f].handles - (files[f].pointers - files[f].handles)
         = RefsOf(y, g, f) - RefsOf(ph[t], f, f)
      /\ RefsOf(y, g, f) - RefsOf(ph[t], f, f) \in {0, 1, -1}
      /\ files'[f].pointers > 0
  BY <1>2, <1>4, <1>6
<1>10. SameLock(ph[t], y)
  BY UseTable
<1>11. g = fl[t] \/ (ph[t] \notin Owning /\ Claims(ph[t]) = 0)
  BY UseTable
<1> QED BY <1>4, <1>5, <1>6, <1>7, <1>8, <1>9, <1>10, <1>11, CallStep

-----------------------------------------------------------------------------
(* Steps that create and delete.                                            *)

\* A condition as a number.
Bit(b) == IF b THEN 1 ELSE 0

\* The volume's reference goes from the file to its thread, or back.
VolumeBalanced(x, y, f) ==
    references' - references =
        (Bit(HasVolume(f)') - Bit(HasVolume(f))) + (Bit(y \in Volumed) - Bit(x \in Volumed))

\* The volume's count then stays right.
LEMMA VolumeBalance ==
    ASSUME NEW ph, NEW fl, NEW t \in Threads, NEW y, NEW g, NEW p2, NEW f2, NEW f \in Files,
           Shift(ph, fl, t, y, g, p2, f2), VolumeCount(ph), references' \in Int,
           \A h \in Files \ {f} : files'[h] = files[h],
           VolumeBalanced(ph[t], y, f)
    PROVE  VolumeCount(p2)' /\ references' \in Nat
<1>1. /\ IsFiniteSet(OnVolume) /\ IsFiniteSet(InVolume(ph))
      /\ references = Cardinality(OnVolume) + Cardinality(InVolume(ph))
  BY DEF VolumeCount
<1>2. \A h \in Files \ {f} : HasVolume(h)' <=> HasVolume(h)
  BY DEF HasVolume
<1> DEFINE a == Cardinality(OnVolume)
           b == Cardinality(InVolume(ph))
           c == Cardinality(OnVolume')
           d == Cardinality(InVolume(p2))
<1>3. /\ IsFiniteSet(OnVolume') /\ a \in Nat
      /\ (HasVolume(f)' <=> HasVolume(f)) => c = a
      /\ HasVolume(f)' /\ ~HasVolume(f) => c = a + 1
      /\ ~HasVolume(f)' /\ HasVolume(f) => c = a - 1
  BY <1>1, <1>2, OnVolumeKept
<1>4. /\ IsFiniteSet(InVolume(p2)) /\ b \in Nat
      /\ (ph[t] \in Volumed <=> y \in Volumed) => d = b
      /\ ph[t] \notin Volumed /\ y \in Volumed => d = b + 1
      /\ ph[t] \in Volumed /\ y \notin Volumed => d = b - 1
  BY <1>1, InVolumeKept
<1>5. c \in Nat /\ d \in Nat
  BY <1>3, <1>4, FS_CardinalityType
<1>6. InVolume(p2)' = InVolume(p2)
  BY DEF InVolume
<1>7. references' = c + d
  <2> HIDE DEF a, b, c, d
  <2>1. references = a + b
    BY <1>1 DEF a, b
  <2>2. Bit(HasVolume(f)') - Bit(HasVolume(f)) = c - a
    BY <1>3, <1>5 DEF Bit
  <2>3. Bit(y \in Volumed) - Bit(ph[t] \in Volumed) = d - b
    BY <1>4, <1>5 DEF Bit
  <2>4. references' - references = (c - a) + (d - b)
    BY <2>2, <2>3 DEF VolumeBalanced
  <2>5. a \in Nat /\ b \in Nat
    BY <1>3, <1>4
  <2>6. references' - (a + b) = (c - a) + (d - b)
    BY <2>1, <2>4
  <2>8. PICK r \in Int : r = references'
    OBVIOUS
  <2>9. r - (a + b) = (c - a) + (d - b)
    BY <2>6, <2>8
  <2>10. r = c + d
    BY <1>5, <2>5, <2>9
  <2> QED BY <2>8, <2>10
<1>8. references' \in Nat
  BY <1>5, <1>7
<1>9. VolumeCount(p2)'
  BY <1>3, <1>4, <1>6, <1>7 DEF VolumeCount
<1> QED BY <1>8, <1>9

\* What is left to show of a step of one file: what FATX has of it.
LEMMA FileStep ==
    ASSUME NEW ph, NEW fl, Types, Good(ph, fl), NEW t \in Threads, NEW y, NEW g, NEW f \in Files,
           NEW p2, NEW f2, Shift(ph, fl, t, y, g, p2, f2), Lists(p2, f2)', Types',
           fl[t] \in {f, NoInfo}, g \in {f, NoInfo}, "mount" \notin {ph[t], y},
           \A h \in Files \ {f} : files'[h] = files[h],
           UNCHANGED <<volumes, mounting>>, VolumeBalanced(ph[t], y, f),
           PointersFollow(ph[t], fl[t], y, g), LifeOf(p2, f2, f)',
           Locks(p2, f2)', OpenInfos(p2, f2)', SharingHolds', ShareCountsExact'
    PROVE  IInv'
<1>0. /\ Lists(ph, fl) /\ Mounting(ph) /\ Lives(ph, fl) /\ Pointers(ph, fl) /\ VolumeCount(ph)
  BY DEF Good
<1>1. Mounting(p2)'
  BY <1>0, MountingKept
<1>2. Lives(p2, f2)'
  BY <1>0, LivesChanged
<1>3. Pointers(p2, f2)'
  BY <1>0, PointersKept
<1>4. VolumeCount(p2)'
  <2>1. references' \in Nat
    BY DEF Types
  <2>2. references' \in Int
    BY <2>1
  <2> QED BY <1>0, <2>2, VolumeBalance
<1> QED BY <1>1, <1>2, <1>3, <1>4 DEF IInv, Good

\* Locks other than that of a new file or a freed one.
LEMMA OtherLocks ==
    ASSUME NEW ph, NEW fl, Types, Good(ph, fl), NEW t \in Threads, NEW y, NEW g, NEW f \in Files,
           NEW p2, NEW f2, Shift(ph, fl, t, y, g, p2, f2),
           fl[t] \in {f, NoInfo}, g \in {f, NoInfo},
           \A h \in Files \ {f} : files'[h] = files[h],
           files'[f].state = "live" => Locked(p2, f2, f)'
    PROVE  Locks(p2, f2)'
<1>1. ASSUME NEW h \in Files, h # f, files'[h].state = "live"
      PROVE  Locked(p2, f2, h)'
  <2>1. ~OwnsOf(y, g, h) /\ ~OwnsOf(ph[t], fl[t], h)
        /\ ClaimsOf(y, g, h) = 0 /\ ClaimsOf(ph[t], fl[t], h) = 0
    BY <1>1, IoFileAssumption DEF OwnsOf, ClaimsOf
  <2>2. files'[h] = files[h]
    BY <1>1
  <2>3. Locked(ph, fl, h)
    BY <1>1, <2>2 DEF Good, Locks
  <2> QED BY <2>1, <2>2, <2>3, LockKept
<1>2. \A h \in Files : files'[h].state = "live" => Locked(p2, f2, h)'
  BY <1>1
<1> QED BY <1>2 DEF Locks

\* The lock of the file itself, if t's step has nothing to do with it.
LEMMA SameLocks ==
    ASSUME NEW ph, NEW fl, Types, Good(ph, fl), NEW t \in Threads, NEW y, NEW f \in Files,
           NEW p2, NEW f2, Shift(ph, fl, t, y, f, p2, f2), fl[t] = f,
           \A h \in Files \ {f} : files'[h] = files[h],
           files'[f].lockCount = files[f].lockCount, files'[f].lockSignal = files[f].lockSignal,
           ph[t] \in Owning <=> y \in Owning, Claims(ph[t]) = Claims(y)
    PROVE  Locks(p2, f2)'
<1>1. files[f].state = "live" /\ Locked(ph, fl, f)
  BY LockOf
<1>2. (OwnsOf(y, f, f) <=> OwnsOf(ph[t], fl[t], f)) /\ ClaimsOf(y, f, f) = ClaimsOf(ph[t], fl[t], f)
  BY DEF OwnsOf, ClaimsOf
<1>3. Locked(p2, f2, f)'
  BY <1>1, <1>2, LockKept
<1> QED BY <1>3, OtherLocks

\* FATX_FILE_INFOs that are as before.
LEMMA SameInfosKept ==
    ASSUME Types, infos' = infos
    PROVE  InfosKept
<1>1. ASSUME NEW i \in Infos PROVE infos[i].references \in Nat
  <2>1. infos[i] \in InfoTypes
    BY DEF Types
  <2> QED BY <2>1 DEF InfoTypes
<1> QED BY <1>1 DEF InfosKept

\* Files other than the one of the step are used as before.
LEMMA OthersUsed ==
    ASSUME NEW ph, NEW fl, NEW t \in Threads, NEW y, NEW g, NEW f \in Files,
           NEW p2, NEW f2, Shift(ph, fl, t, y, g, p2, f2), Lists(ph, fl), Lists(p2, f2)',
           fl[t] \in {f, NoInfo}, g \in {f, NoInfo},
           \A h \in Files \ {f} : files'[h] = files[h]
    PROVE  \A h \in Files \ {f} :
              /\ Used(p2, f2, h)' <=> Used(ph, fl, h)
              /\ Standing(p2, f2, h)' <=> Standing(ph, fl, h)
              /\ IsOpen(h)' <=> IsOpen(h)
              /\ SameInFatx(h)
<1> SUFFICES ASSUME NEW h \in Files \ {f}
             PROVE  /\ Used(p2, f2, h)' <=> Used(ph, fl, h)
                    /\ Standing(p2, f2, h)' <=> Standing(ph, fl, h)
                    /\ IsOpen(h)' <=> IsOpen(h)
                    /\ SameInFatx(h)
  OBVIOUS
<1>1. \A u \in Threads : f2[u] = h /\ p2[u] \in Closing <=> fl[u] = h /\ ph[u] \in Closing
  BY IoFileAssumption DEF Shift
<1>2. Used(p2, f2, h)' <=> Used(ph, fl, h)
  BY <1>1 DEF Used
<1>3. Standing(p2, f2, h)' <=> Standing(ph, fl, h)
  BY <1>2 DEF Standing
<1>4. Open(p2, f2, h)' <=> Open(ph, fl, h)
  BY <1>2 DEF Open
<1>5. IsOpen(h)' <=> IsOpen(h)
  BY <1>4, IsOpenIs, IsOpenNext
<1> QED BY <1>2, <1>3, <1>5 DEF SameInFatx

\* The phases of a file's end.
LEMMA EndTable ==
    /\ \A x \in {"deref", "readDone"} :
         x \notin RefusedPhases \union OpeningPhases \union CleaningOrNew \union Volumed
    /\ "refused" \in RefusedPhases /\ "refusedFree" \in RefusedPhases
    /\ "refusedFree" \notin Closing /\ "refused" \notin Closing
    /\ \A y \in {"deleteAcquire", "selfAcquire"} : y \in Closing /\ y \notin PrivatePhases
    /\ \A y \in {"deleteAcquire", "selfAcquire", "refusedFree", "free"} : Refs(y) = 0 /\ y \in Deleting
    /\ \A x \in {"deref", "readDone", "refused"} : Refs(x) = 1
    /\ Refs("giveup") = 0 /\ Refs("idle") = 0
    /\ {"deleteAcquire", "selfAcquire", "refused", "refusedFree", "giveup"} \subseteq Volumed
    /\ {"idle", "free"} \intersect Volumed = {}
    /\ "free" \notin Closing /\ "free" \in Owning
    /\ "deref" \notin Owning /\ "deleteAcquire" \notin Owning
    /\ "readDone" \in Owning /\ "selfAcquire" \in Owning
    /\ "refused" \notin Owning /\ "refusedFree" \notin Owning
    /\ Claims("deref") = 0 /\ Claims("deleteAcquire") = 0
    /\ Claims("readDone") = 1 /\ Claims("selfAcquire") = 1
    /\ Claims("refused") = 0 /\ Claims("refusedFree") = 0
<1> USE DEF PrivatePhases, RefusedPhases, OpeningPhases, Deleting, Cleaning,
            CleaningOrNew, Volumed, Closing, Refs, Referring, Claims, Claiming, Waiting, Entered,
            Signalling, Owning
<1>1. /\ \A x \in {"deref", "readDone"} :
           x \notin RefusedPhases \union OpeningPhases \union CleaningOrNew \union Volumed
      /\ "refused" \in RefusedPhases /\ "refusedFree" \in RefusedPhases
      /\ "refusedFree" \notin Closing /\ "refused" \notin Closing
      /\ \A y \in {"deleteAcquire", "selfAcquire"} : y \in Closing /\ y \notin PrivatePhases
  OBVIOUS
<1>2. /\ \A y \in {"deleteAcquire", "selfAcquire", "refusedFree", "free"} : Refs(y) = 0 /\ y \in Deleting
      /\ \A x \in {"deref", "readDone", "refused"} : Refs(x) = 1
      /\ Refs("giveup") = 0 /\ Refs("idle") = 0
  OBVIOUS
<1>3. /\ {"deleteAcquire", "selfAcquire", "refused", "refusedFree", "giveup"} \subseteq Volumed
      /\ {"idle", "free"} \intersect Volumed = {}
      /\ "free" \notin Closing /\ "free" \in Owning
      /\ "deref" \notin Owning /\ "deleteAcquire" \notin Owning
      /\ "readDone" \in Owning /\ "selfAcquire" \in Owning
      /\ "refused" \notin Owning /\ "refusedFree" \notin Owning
  OBVIOUS
<1>4. /\ Claims("deref") = 0 /\ Claims("deleteAcquire") = 0
      /\ Claims("readDone") = 1 /\ Claims("selfAcquire") = 1
      /\ Claims("refused") = 0 /\ Claims("refusedFree") = 0
  OBVIOUS
<1> QED BY <1>1, <1>2, <1>3, <1>4

\* A phase that has a file and no reference to it is at the end of the file's
\* life, or of a request.
LEMMA WithoutReference ==
    \A x \in Phases : x \notin NoFilePhases /\ Refs(x) = 0 =>
        x \in Deleting \/ x \in Owning
    BY PhasesAre DEF NoFilePhases, Refs, Referring, Deleting, Owning, Entered, Signalling, Cleaning

\* Refused files are private.
LEMMA RefusedArePrivate == RefusedPhases \subseteq PrivatePhases /\ PrivatePhases \subseteq OpeningPhases
    BY DEF RefusedPhases, PrivatePhases, OpeningPhases

\* When a file is freed nobody else has anything to do with it.
LEMMA FreeAlone ==
    ASSUME NEW ph, NEW fl, Types, Good(ph, fl), NEW t \in Threads, ph[t] \in {"free", "refusedFree"}
    PROVE  /\ fl[t] \in Files /\ files[fl[t]].state = "live" /\ files[fl[t]].pointers = 0
           /\ files[fl[t]].handles = 0
           /\ \A u \in Threads \ {t} : fl[u] # fl[t]
           /\ ph[t] = "refusedFree" => ~files[fl[t]].device
<1> DEFINE f == fl[t]
<1>0. /\ Lists(ph, fl) /\ Lives(ph, fl)
      /\ ph[t] \in Deleting /\ ph[t] \notin NoFilePhases
  <2>1. Deleting \intersect NoFilePhases = {}
    BY WithFile
  <2> QED BY <2>1, EndTable DEF Good
<1>1. f \in Files
  BY <1>0, FileAt
<1>2. LifeOf(ph, fl, f)
  BY <1>0, <1>1, LivesByFile
<1>3. files[f].state = "live" /\ files[f].pointers = 0
  BY <1>0, <1>2 DEF LifeOf
<1>4. files[f].handles = 0 /\ \A u \in Threads : fl[u] = f => ~(Refs(ph[u]) > 0)
  BY <1>1, <1>3, RefFacts
<1>5. ASSUME NEW u \in Threads, u # t, fl[u] = f PROVE FALSE
  <2>1. ph[u] \in Phases /\ ph[u] \notin NoFilePhases
    BY <1>0, <1>1, <1>5, IoFileAssumption DEF Lists
  <2>2. Refs(ph[u]) = 0
    BY <1>4, <1>5 DEF Refs
  <2>3. ph[u] \notin Deleting
    BY <1>0, <1>2, <1>5 DEF LifeOf
  <2>4. ph[u] \in Owning
    BY <2>1, <2>2, <2>3, WithoutReference
  <2>5. CASE ph[t] = "free"
    <3>1. Owners(ph, fl, f) = {t}
      BY <2>5, EndTable, OwnerHas
    <3> QED BY <1>5, <2>4, <3>1 DEF Owners
  <2>6. CASE ph[t] = "refusedFree"
    BY <1>2, <1>5, <2>6, EndTable, RefusedArePrivate DEF LifeOf
  <2> QED BY <2>5, <2>6
<1>6. ph[t] = "refusedFree" => ~files[f].device
  BY <1>2, EndTable, RefusedArePrivate DEF LifeOf
<1> QED BY <1>1, <1>3, <1>4, <1>5, <1>6

\* The memory of a file.
LEMMA FreeKeeps ==
    ASSUME NEW ph, NEW fl, Types, Good(ph, fl), NEW t \in Threads, FreeFile(t)
    PROVE  IInv'
<1>0. Lists(ph, fl)
  BY DEF Good
<1>1. /\ files' = [files EXCEPT ![fl[t]].state = "freed"]
      /\ UNCHANGED <<deviceVars, infos, crashed>>
      /\ \E y \in {"idle", "giveup"} :
           /\ Moved(ph, fl, t, y, NoInfo)
           /\ ph[t] = IF y = "idle" THEN "free" ELSE "refusedFree"
  BY <1>0, FreeMoves
<1>2. PICK y \in {"idle", "giveup"} :
           /\ Moved(ph, fl, t, y, NoInfo)
           /\ ph[t] = IF y = "idle" THEN "free" ELSE "refusedFree"
  BY <1>1
<1>3. PICK f : f = fl[t]
  OBVIOUS
<1>4. /\ f \in Files /\ files[f].state = "live" /\ files[f].pointers = 0 /\ files[f].handles = 0
      /\ \A u \in Threads \ {t} : fl[u] # f
      /\ ph[t] = "refusedFree" => ~files[f].device
  BY <1>2, <1>3, FreeAlone
<1>5. /\ files'[f] = [files[f] EXCEPT !.state = "freed"]
      /\ files[f] \in FileTypes /\ \A h \in Files \ {f} : files'[h] = files[h]
  BY <1>1, <1>3, <1>4 DEF Types
<1>6. /\ files'[f].state = "freed" /\ files'[f].pointers = 0 /\ files'[f].handles = 0
      /\ files'[f].device = files[f].device /\ files'[f].info = files[f].info
      /\ files'[f].access = files[f].access /\ files'[f].shared = files[f].shared
      /\ files'[f].cleaned = files[f].cleaned
  BY <1>4, <1>5 DEF FileTypes
<1>7. Types'
  <2>1. files'[f] \in FileTypes
    BY <1>5 DEF FileTypes
  <2> QED BY <1>1, <1>3, <1>5, <2>1 DEF Types, deviceVars
<1>8. PICK p2, f2 : Shift(ph, fl, t, y, NoInfo, p2, f2) /\ Lists(p2, f2)'
  BY <1>0, <1>2, MovedShift
<1>9. /\ p2[t] = y /\ f2[t] = NoInfo /\ \A u \in Threads \ {t} : p2[u] = ph[u] /\ f2[u] = fl[u]
  BY <1>8 DEF Shift
<1>10. \A u \in Threads : f2[u] # f
  BY <1>4, <1>9, IoFileAssumption
<1>11. LifeOf(p2, f2, f)'
  BY <1>6, <1>10 DEF LifeOf
<1>12. Locks(p2, f2)'
  <2>1. files'[f].state = "live" => Locked(p2, f2, f)'
    BY <1>6
  <2>2. fl[t] \in {f, NoInfo} /\ NoInfo \in {f, NoInfo}
    BY <1>3
  <2>3. \A h \in Files \ {f} : files'[h] = files[h]
    BY <1>5
  <2> QED BY <1>4, <1>8, <2>1, <2>2, <2>3, OtherLocks
<1>13. VolumeBalanced(ph[t], y, f)
  <2>1. ~HasVolume(f) /\ ~HasVolume(f)'
    BY <1>4, <1>6 DEF HasVolume
  <2>2. ph[t] \in Volumed <=> y \in Volumed
    BY <1>2, EndTable
  <2>0. references \in Nat
    BY DEF Types
  <2>3. references' = references /\ references \in Int
    BY <1>1, <2>0 DEF deviceVars
  <2> QED BY <2>1, <2>2, <2>3 DEF VolumeBalanced, Bit
<1>14. PointersFollow(ph[t], f, y, NoInfo)
  <2>1. Refs(ph[t]) = 0 /\ Refs(y) = 0
    BY <1>2, EndTable
  <2>2. RefsOf(ph[t], f, f) = 0 /\ RefsOf(y, NoInfo, f) = 0
    BY <2>1 DEF RefsOf
  <2>3. ASSUME NEW h \in Files
        PROVE  /\ RefsOf(y, NoInfo, h) - RefsOf(ph[t], f, h) = 0
               /\ files'[h].pointers - files'[h].handles - (files[h].pointers - files[h].handles) = 0
    <3>1. files[h] \in FileTypes
      BY DEF Types
    <3>2. files[h].pointers \in Nat /\ files[h].handles \in Nat
      BY <3>1 DEF FileTypes
    <3>3. files'[h].pointers = files[h].pointers /\ files'[h].handles = files[h].handles
      BY <1>4, <1>5, <1>6
    <3> QED BY <2>1, <3>2, <3>3 DEF RefsOf
  <2> QED BY <2>3 DEF PointersFollow
<1>15. OpenInfos(p2, f2)' /\ SharingHolds' /\ ShareCountsExact'
  <2>1. \A h \in Files \ {f} :
              /\ Standing(p2, f2, h)' <=> Standing(ph, fl, h)
              /\ SameInFatx(h)
    BY <1>0, <1>3, <1>4, <1>5, <1>8, OthersUsed
  <2>2. ~Standing(p2, f2, f)'
    BY <1>6 DEF Standing
  <2>3. SameInFatx(f)
    <3>1. ~Open(ph, fl, f)
      <4>1. CASE ph[t] = "free"
        BY <1>3, <1>4, <4>1, EndTable DEF Open, Used
      <4>2. CASE ph[t] = "refusedFree"
        BY <1>4, <4>2 DEF Open
      <4> QED BY <1>2, <4>1, <4>2
    <3>2. ~Open(p2, f2, f)'
      BY <1>6 DEF Open
    <3>3. IsOpen(f)' <=> IsOpen(f)
      BY <1>0, <1>4, <1>8, <3>1, <3>2, IsOpenIs, IsOpenNext
    <3> QED BY <1>6, <3>3 DEF SameInFatx
  <2>4. InfosKept
    <3>1. infos' = infos
      BY <1>1
    <3> QED BY <3>1, SameInfosKept
  <2>5. \A h \in Files : SameInFatx(h) /\ (Standing(p2, f2, h)' => Standing(ph, fl, h))
    BY <2>1, <2>2, <2>3
  <2>6. \A h \in Files : files'[h].state = "unborn" => files[h].state = "unborn"
    BY <1>5, <1>6
  <2>7. y # "create" /\ ph[t] # "create"
    BY <1>2
  <2>8. OpenInfos(ph, fl) /\ SharingHolds /\ ShareCountsExact
    BY DEF Good
  <2> QED BY <1>7, <1>8, <2>4, <2>5, <2>6, <2>7, <2>8, FatxKept
<1>16. UNCHANGED <<volumes, mounting>> /\ "mount" \notin {ph[t], y}
  BY <1>1, <1>2 DEF deviceVars
<1> QED BY <1>3, <1>4, <1>5, <1>7, <1>8, <1>11, <1>12, <1>13, <1>14, <1>15, <1>16, FileStep

\* When the last reference to a file is given back nobody else has one, and
\* unless its open was refused its creation is over.
LEMMA LastReference ==
    ASSUME NEW ph, NEW fl, Types, Good(ph, fl), NEW t \in Threads,
           ph[t] \in {"deref", "readDone", "refused"}, fl[t] \in Files,
           files[fl[t]].pointers = 1
    PROVE  /\ files[fl[t]].handles = 0
           /\ IF ph[t] = "refused" THEN ~files[fl[t]].device
              ELSE files[fl[t]].device /\ files[fl[t]].handleCreated
<1>1. PICK f : f = fl[t]
  OBVIOUS
<1>0. f \in Files /\ LifeOf(ph, fl, f)
  BY <1>1, LivesByFile DEF Good
<1>2. Refs(ph[t]) = 1
  BY EndTable
<1>3. /\ files[f].handles = 0
      /\ \A u \in Threads \ {t} : fl[u] = f => Refs(ph[u]) = 0
  BY <1>0, <1>1, <1>2, RefFacts
<1>4. files[f].state = "live"
  BY <1>0, <1>1 DEF LifeOf
<1>5. CASE ph[t] = "refused"
  BY <1>0, <1>1, <1>3, <1>5, EndTable, RefusedArePrivate DEF LifeOf
<1>6. CASE ph[t] \in {"deref", "readDone"}
  <2>1. \A u \in Threads : fl[u] = f => ph[u] \notin PrivatePhases
    BY <1>0, <1>1, <1>6, EndTable, RefusedArePrivate DEF LifeOf
  <2>2. \A u \in Threads : fl[u] = f => ph[u] \notin OpeningPhases
    <3>1. \A u \in Threads : fl[u] = f => ph[u] # "created"
      BY <1>1, <1>3, <1>6, UseTable
    <3>2. OpeningPhases = PrivatePhases \union {"created"}
      BY DEF OpeningPhases
    <3> QED BY <2>1, <3>1, <3>2
  <2>3. files[f].device /\ files[f].handleCreated
    BY <1>0, <1>4, <2>1, <2>2, RefusedArePrivate DEF LifeOf
  <2> QED BY <1>1, <1>3, <1>6, <2>3
<1> QED BY <1>5, <1>6

\* The last reference to a file is given back, and it is deleted.
LEMMA LastDerefKeeps ==
    ASSUME NEW ph, NEW fl, Types, Good(ph, fl), NEW t \in Threads, NEW y,
           files' = [files EXCEPT ![fl[t]].pointers = @ - 1],
           UNCHANGED <<deviceVars, infos, crashed>>, fl[t] \in Files, files[fl[t]].pointers = 1,
           \/ ph[t] = "deref" /\ y = "deleteAcquire"
           \/ ph[t] = "readDone" /\ y = "selfAcquire"
           \/ ph[t] = "refused" /\ y = "refusedFree",
           Moved(ph, fl, t, y, fl[t])
    PROVE  IInv'
<1>0. Lists(ph, fl)
  BY DEF Good
<1>1. PICK f : f = fl[t]
  OBVIOUS
<1>2. f \in Files /\ LifeOf(ph, fl, f)
  BY <1>0, <1>1, LivesByFile DEF Good
<1>3. Refs(ph[t]) = 1
  BY EndTable
<1>4. /\ files[f].handles = 0 /\ files[f].pointers = 1
      /\ IF ph[t] = "refused" THEN ~files[f].device ELSE files[f].device /\ files[f].handleCreated
  BY <1>1, LastReference
<1>5. /\ files[f].state = "live"
      /\ \A u \in Threads \ {t} : fl[u] = f => ph[u] \notin PrivatePhases \union Deleting
  BY <1>1, <1>2, <1>3, Undisturbed
<1>6. /\ files'[f] = [files[f] EXCEPT !.pointers = 0]
      /\ files[f] \in FileTypes /\ \A h \in Files \ {f} : files'[h] = files[h]
  <2>1. /\ files'[f] = [files[f] EXCEPT !.pointers = files[f].pointers - 1]
        /\ files[f] \in FileTypes /\ \A h \in Files \ {f} : files'[h] = files[h]
    BY <1>1, <1>2 DEF Types
  <2>2. files[f].pointers - 1 = 0
    BY <1>4
  <2> QED BY <2>1, <2>2
<1>7. /\ files'[f].state = "live" /\ files'[f].pointers = 0 /\ files'[f].handles = 0
      /\ files'[f].device = files[f].device /\ files'[f].info = files[f].info
      /\ files'[f].access = files[f].access /\ files'[f].shared = files[f].shared
      /\ files'[f].cleaned = files[f].cleaned /\ files'[f].handleCreated = files[f].handleCreated
      /\ files'[f].lockCount = files[f].lockCount /\ files'[f].lockSignal = files[f].lockSignal
  BY <1>4, <1>5, <1>6 DEF FileTypes
<1>8. Types'
  <2>1. files'[f] \in FileTypes
    BY <1>6 DEF FileTypes
  <2> QED BY <1>1, <1>6, <2>1 DEF Types, deviceVars
<1>9. PICK p2, f2 : Shift(ph, fl, t, y, f, p2, f2) /\ Lists(p2, f2)'
  BY <1>0, <1>1, MovedShift
<1>10. /\ p2[t] = y /\ f2[t] = f /\ \A u \in Threads \ {t} : p2[u] = ph[u] /\ f2[u] = fl[u]
  BY <1>9 DEF Shift
<1>11. y \in Deleting /\ Refs(y) = 0
  BY EndTable
<1>12. LifeOf(p2, f2, f)'
  <2>1. \A u \in Threads : f2[u] = f /\ p2[u] \in Deleting => u = t
    BY <1>5, <1>10
  <2>2. CASE ph[t] = "refused"
    <3>1. \A u \in Threads \ {t} : fl[u] # f
      BY <1>1, <1>2, <2>2, EndTable, RefusedArePrivate DEF LifeOf
    <3>2. p2[t] \in RefusedPhases /\ p2[t] \in OpeningPhases /\ ~files[f].device
      BY <1>4, <1>10, <2>2, EndTable, RefusedArePrivate
    <3> QED BY <1>7, <1>10, <2>1, <3>1, <3>2 DEF LifeOf
  <2>3. CASE ph[t] # "refused"
    <3>1. \A u \in Threads : f2[u] = f => p2[u] \notin PrivatePhases
      BY <1>5, <1>10, <2>3, EndTable
    <3>2. files[f].device /\ files[f].handleCreated
      BY <1>4, <2>3
    <3>3. files[f].cleaned \/ \E u \in Threads : f2[u] = f /\ p2[u] \in CleaningOrNew
      BY <1>1, <1>2, <1>4, <1>5, <1>10, <2>3, EndTable DEF LifeOf
    <3> QED BY <1>7, <2>1, <3>1, <3>2, <3>3 DEF LifeOf
  <2> QED BY <2>2, <2>3
<1>13. Locks(p2, f2)'
  <2>1. (ph[t] \in Owning <=> y \in Owning) /\ Claims(ph[t]) = Claims(y)
    BY EndTable
  <2> QED BY <1>1, <1>2, <1>6, <1>7, <1>9, <2>1, SameLocks
<1>14. VolumeBalanced(ph[t], y, f)
  <2>0. references \in Nat
    BY DEF Types
  <2>1. references' = references /\ references \in Int
    BY <2>0 DEF deviceVars
  <2>2. ~HasVolume(f)' /\ (HasVolume(f) <=> files[f].device)
    BY <1>4, <1>5, <1>7 DEF HasVolume
  <2>3. y \in Volumed /\ (ph[t] \in Volumed <=> ph[t] = "refused")
    BY EndTable
  <2>4. HasVolume(f) <=> ph[t] # "refused"
    BY <1>4, <2>2
  <2> QED BY <2>1, <2>2, <2>3, <2>4 DEF VolumeBalanced, Bit
<1>15. PointersFollow(ph[t], f, y, f)
  <2>1. RefsOf(ph[t], f, f) = 1 /\ RefsOf(y, f, f) = 0
    BY <1>3, <1>11 DEF RefsOf
  <2>2. ASSUME NEW h \in Files, h # f
        PROVE  /\ RefsOf(y, f, h) - RefsOf(ph[t], f, h) = 0
               /\ files'[h].pointers - files'[h].handles - (files[h].pointers - files[h].handles) = 0
    <3>1. files[h] \in FileTypes /\ files'[h] = files[h]
      BY <1>6, <2>2 DEF Types
    <3>2. files[h].pointers \in Nat /\ files[h].handles \in Nat
      BY <3>1 DEF FileTypes
    <3>3. RefsOf(y, f, h) = 0 /\ RefsOf(ph[t], f, h) = 0
      BY <2>2 DEF RefsOf
    <3>4. files'[h].pointers = files[h].pointers /\ files'[h].handles = files[h].handles
      BY <3>1
    <3> QED BY <3>2, <3>3, <3>4
  <2>3. files'[f].pointers - files'[f].handles - (files[f].pointers - files[f].handles) = 0 - 1
    BY <1>4, <1>7
  <2> QED BY <2>1, <2>2, <2>3 DEF PointersFollow
<1>16. OpenInfos(p2, f2)' /\ SharingHolds' /\ ShareCountsExact'
  <2>1. \A h \in Files \ {f} :
              /\ Standing(p2, f2, h)' <=> Standing(ph, fl, h)
              /\ SameInFatx(h)
    BY <1>0, <1>1, <1>2, <1>6, <1>9, OthersUsed
  <2>2. files[f].device => Used(ph, fl, f) /\ Used(p2, f2, f)'
    <3>1. files[f].device => y \in Closing
      BY <1>4, EndTable
    <3> QED BY <1>4, <1>10, <3>1 DEF Used
  <2>3. Standing(p2, f2, f)' => Standing(ph, fl, f)
    BY <1>5, <1>7, <2>2 DEF Standing
  <2>4. SameInFatx(f)
    <3>1. Open(p2, f2, f)' <=> Open(ph, fl, f)
      BY <1>5, <1>7, <2>2 DEF Open
    <3>2. IsOpen(f)' <=> IsOpen(f)
      BY <1>0, <1>2, <1>9, <3>1, IsOpenIs, IsOpenNext
    <3> QED BY <1>7, <3>2 DEF SameInFatx
  <2>5. InfosKept
    BY SameInfosKept
  <2>6. \A h \in Files : SameInFatx(h) /\ (Standing(p2, f2, h)' => Standing(ph, fl, h))
    BY <2>1, <2>3, <2>4
  <2>7. \A h \in Files : files'[h].state = "unborn" => files[h].state = "unborn"
    BY <1>6, <1>7
  <2>8. y # "create" /\ ph[t] # "create"
    OBVIOUS
  <2>9. OpenInfos(ph, fl) /\ SharingHolds /\ ShareCountsExact
    BY DEF Good
  <2> QED BY <1>8, <1>9, <2>5, <2>6, <2>7, <2>8, <2>9, FatxKept
<1>17. UNCHANGED <<volumes, mounting>> /\ "mount" \notin {ph[t], y}
  BY DEF deviceVars
<1> QED BY <1>1, <1>2, <1>6, <1>8, <1>9, <1>12, <1>13, <1>14, <1>15, <1>16, <1>17, FileStep

\* ObfDereferenceObject.
LEMMA DereferenceKeeps ==
    ASSUME NEW ph, NEW fl, Types, Good(ph, fl), NEW t \in Threads, ObfDereferenceObject(t)
    PROVE  IInv'
<1>0. Lists(ph, fl)
  BY DEF Good
<1>1. ph[t] \in {"deref", "readDone", "refused"} /\ fl[t] \in Files
  <2>1. HeadOp(ph[t]) = "deref" /\ ph[t] \in Phases \ {"idle"}
    BY <1>0, AtPhase DEF ObfDereferenceObject
  <2>2. ph[t] \in {"deref", "readDone", "refused"}
    BY <2>1, HeadPhases
  <2>3. ph[t] \notin NoFilePhases
    BY <2>2 DEF NoFilePhases
  <2> QED BY <1>0, <2>2, <2>3, FileAt
<1>2. files[fl[t]].pointers = 1 =>
         IF ph[t] = "refused" THEN ~files[fl[t]].device
         ELSE files[fl[t]].device /\ files[fl[t]].handleCreated
  BY <1>1, LastReference
<1>3. /\ files' = [files EXCEPT ![fl[t]].pointers = @ - 1]
      /\ UNCHANGED <<deviceVars, infos, crashed>>
      /\ fl[t] \in Files
      /\ \/ /\ files[fl[t]].pointers # 1
            /\ \/ ph[t] = "deref" /\ Moved(ph, fl, t, "idle", NoInfo)
               \/ ph[t] = "readDone" /\ Moved(ph, fl, t, "readRelease", fl[t])
               \/ ph[t] = "refused" /\ Moved(ph, fl, t, "giveup", NoInfo)
         \/ /\ files[fl[t]].pointers = 1
            /\ \/ ph[t] = "deref" /\ Moved(ph, fl, t, "deleteAcquire", fl[t])
               \/ ph[t] = "readDone" /\ Moved(ph, fl, t, "selfAcquire", fl[t])
               \/ ph[t] = "refused" /\ Moved(ph, fl, t, "refusedFree", fl[t])
  BY <1>0, <1>2, DerefMoves
<1>4. CASE files[fl[t]].pointers # 1
  <2>1. ph[t] # "refused"
    <3>1. SUFFICES ASSUME ph[t] = "refused" PROVE files[fl[t]].pointers = 1
      BY <1>4
    <3>2. ph[t] \in PrivatePhases /\ Refs(ph[t]) = 1
      BY <3>1, EndTable, RefusedArePrivate
    <3> QED BY <3>2, AloneFacts
  <2>2. CASE ph[t] = "deref" /\ Moved(ph, fl, t, "idle", NoInfo)
    BY <1>3, <1>4, <2>2, DerefKeeps
  <2>3. CASE ph[t] = "readDone" /\ Moved(ph, fl, t, "readRelease", fl[t])
    BY <1>3, <1>4, <2>3, DerefKeeps
  <2> QED BY <1>3, <1>4, <2>1, <2>2, <2>3
<1>5. CASE files[fl[t]].pointers = 1
  <2>1. CASE ph[t] = "deref" /\ Moved(ph, fl, t, "deleteAcquire", fl[t])
    BY <1>3, <1>5, <2>1, LastDerefKeeps
  <2>2. CASE ph[t] = "readDone" /\ Moved(ph, fl, t, "selfAcquire", fl[t])
    BY <1>3, <1>5, <2>2, LastDerefKeeps
  <2>3. CASE ph[t] = "refused" /\ Moved(ph, fl, t, "refusedFree", fl[t])
    BY <1>3, <1>5, <2>3, LastDerefKeeps
  <2> QED BY <1>3, <1>5, <2>1, <2>2, <2>3
<1> QED BY <1>4, <1>5

\* The phases of a file's beginning.
LEMMA BeginTable ==
    /\ "create" \in PrivatePhases /\ "create" \notin RefusedPhases /\ "create" \in OpeningPhases
    /\ "create" \in CleaningOrNew /\ "create" \notin Deleting /\ "create" \notin Owning
    /\ "create" \notin Volumed /\ "create" \notin Closing
    /\ Refs("create") = 1 /\ Claims("create") = 0 /\ Refs("parse") = 0 /\ "parse" \notin Volumed
    /\ "refused" \in PrivatePhases /\ "refused" \in RefusedPhases /\ "refused" \in OpeningPhases
    /\ "refused" \notin Deleting /\ "refused" \in Volumed /\ Refs("refused") = 1
    /\ "refused" \notin Owning /\ Claims("refused") = 0 /\ "refused" \notin Closing
    /\ "handle" \in PrivatePhases /\ "handle" \notin RefusedPhases /\ "handle" \in OpeningPhases
    /\ "handle" \in CleaningOrNew /\ "handle" \notin Deleting /\ "handle" \notin Owning
    /\ "handle" \notin Volumed /\ "handle" \notin Closing
    /\ Refs("handle") = 2 /\ Claims("handle") = 0
<1> USE DEF PrivatePhases, RefusedPhases, OpeningPhases, Deleting, Cleaning,
            CleaningOrNew, Volumed, Closing, Refs, Referring, Claims, Claiming, Waiting, Entered,
            Signalling, Owning
<1>1. /\ "create" \in PrivatePhases /\ "create" \notin RefusedPhases /\ "create" \in OpeningPhases
      /\ "create" \in CleaningOrNew /\ "create" \notin Deleting /\ "create" \notin Owning
      /\ "create" \notin Volumed /\ "create" \notin Closing
      /\ Refs("create") = 1 /\ Claims("create") = 0 /\ Refs("parse") = 0 /\ "parse" \notin Volumed
  OBVIOUS
<1>2. /\ "refused" \in PrivatePhases /\ "refused" \in RefusedPhases /\ "refused" \in OpeningPhases
      /\ "refused" \notin Deleting /\ "refused" \in Volumed /\ Refs("refused") = 1
      /\ "refused" \notin Owning /\ Claims("refused") = 0 /\ "refused" \notin Closing
  OBVIOUS
<1>3. /\ "handle" \in PrivatePhases /\ "handle" \notin RefusedPhases /\ "handle" \in OpeningPhases
      /\ "handle" \in CleaningOrNew /\ "handle" \notin Deleting /\ "handle" \notin Owning
      /\ "handle" \notin Volumed /\ "handle" \notin Closing
      /\ Refs("handle") = 2 /\ Claims("handle") = 0
  OBVIOUS
<1> QED BY <1>1, <1>2, <1>3

\* A file that IoParseDevice makes.
LEMMA NewFileKeeps ==
    ASSUME NEW ph, NEW fl, Types, Good(ph, fl), NEW t \in Threads, NEW f \in Files,
           UNCHANGED <<volumes, mounting, infos, crashed>>, references' = references + 1,
           ph[t] = "parse", fl[t] = NoInfo, files[f].state = "unborn",
           files' = [files EXCEPT ![f] = NewFile], Moved(ph, fl, t, "create", f)
    PROVE  IInv'
<1>0. Lists(ph, fl) /\ f # NoInfo
  BY IoFileAssumption DEF Good
<1>1. LifeOf(ph, fl, f)
  BY <1>0, LivesByFile DEF Good
<1>2. \A u \in Threads : fl[u] # f
  BY <1>1 DEF LifeOf
<1>3. /\ files[f].pointers = 0 /\ files[f].handles = 0
  <2>1. files[f].pointers = 0
    BY <1>1 DEF LifeOf
  <2> QED BY <2>1, RefFacts
<1>4. files'[f] = NewFile /\ \A h \in Files \ {f} : files'[h] = files[h]
  BY DEF Types
<1>5. /\ files'[f].state = "live" /\ files'[f].pointers = 1 /\ files'[f].handles = 0
      /\ files'[f].device = TRUE /\ files'[f].handleCreated = FALSE /\ files'[f].cleaned = FALSE
      /\ files'[f].lockCount = -1 /\ files'[f].lockSignal = FALSE /\ files'[f].info = NoInfo
  BY <1>4 DEF NewFile
<1>6. Types'
  <2>1. NewFile \in FileTypes
    BY DEF NewFile, FileTypes
  <2>2. references' \in Nat
    <3>1. references \in Nat
      BY DEF Types
    <3> QED BY <3>1
  <2>3. files' \in [Files -> FileTypes]
    BY <2>1 DEF Types
  <2> QED BY <2>2, <2>3 DEF Types
<1>7. PICK p2, f2 : Shift(ph, fl, t, "create", f, p2, f2) /\ Lists(p2, f2)'
  BY <1>0, MovedShift
<1>8. /\ p2[t] = "create" /\ f2[t] = f /\ \A u \in Threads \ {t} : p2[u] = ph[u] /\ f2[u] = fl[u]
  BY <1>7 DEF Shift
<1>9. \A u \in Threads \ {t} : f2[u] # f
  BY <1>2, <1>8
<1>10. LifeOf(p2, f2, f)'
  BY <1>5, <1>8, <1>9, BeginTable DEF LifeOf
<1>11. Locks(p2, f2)'
  <2>1. Locked(p2, f2, f)'
    <3>1. Owners(p2, f2, f) = {}
      BY <1>8, <1>9, BeginTable DEF Owners
    <3>2. ClaimsTo(p2, f2, f) \in [Threads -> Nat]
      BY CountsAreNat
    <3>3. \A u \in Threads : ClaimsTo(p2, f2, f)[u] = 0
      BY <1>8, <1>9, BeginTable DEF ClaimsTo
    <3>4. IsFiniteSet(Tally(ClaimsTo(p2, f2, f))) /\ Cardinality(Tally(ClaimsTo(p2, f2, f))) = 0
      <4> DEFINE c == ClaimsTo(p2, f2, f)
      <4>1. c \in [Threads -> Nat] /\ \A u \in Threads : c[u] = 0
        BY <3>2, <3>3
      <4> HIDE DEF c
      <4>2. IsFiniteSet(Tally(c)) /\ Cardinality(Tally(c)) = 0
        BY <4>1, TallyZero
      <4> QED BY <4>2 DEF c
    <3>5. Owners(p2, f2, f)' = Owners(p2, f2, f) /\ ClaimsTo(p2, f2, f)' = ClaimsTo(p2, f2, f)
      BY DEF Owners, ClaimsTo
    <3> QED BY <1>5, <3>1, <3>4, <3>5 DEF Locked
  <2>2. fl[t] \in {f, NoInfo} /\ f \in {f, NoInfo}
    OBVIOUS
  <2> QED BY <1>4, <1>7, <2>1, <2>2, OtherLocks
<1>12. VolumeBalanced(ph[t], "create", f)
  <2>1. references \in Nat
    BY DEF Types
  <2>2. HasVolume(f)' /\ ~HasVolume(f)
    BY <1>5 DEF HasVolume
  <2>3. ph[t] \notin Volumed /\ "create" \notin Volumed
    BY BeginTable
  <2>4. references' - references = 1
    BY <2>1
  <2> QED BY <2>2, <2>3, <2>4 DEF VolumeBalanced, Bit
<1>13. PointersFollow(ph[t], NoInfo, "create", f)
  <2>1. RefsOf(ph[t], NoInfo, f) = 0 /\ RefsOf("create", f, f) = 1
    BY <1>0, BeginTable DEF RefsOf
  <2>2. ASSUME NEW h \in Files, h # f
        PROVE  /\ RefsOf("create", f, h) - RefsOf(ph[t], NoInfo, h) = 0
               /\ files'[h].pointers - files'[h].handles - (files[h].pointers - files[h].handles) = 0
    <3>1. files[h] \in FileTypes /\ files'[h] = files[h]
      BY <1>4, <2>2 DEF Types
    <3>2. files[h].pointers \in Nat /\ files[h].handles \in Nat
      BY <3>1 DEF FileTypes
    <3>3. RefsOf("create", f, h) = 0 /\ RefsOf(ph[t], NoInfo, h) = 0
      BY <2>2, IoFileAssumption DEF RefsOf
    <3>4. files'[h].pointers = files[h].pointers /\ files'[h].handles = files[h].handles
      BY <3>1
    <3> QED BY <3>2, <3>3, <3>4
  <2>3. files'[f].pointers - files'[f].handles - (files[f].pointers - files[f].handles) = 1
    BY <1>3, <1>5
  <2> QED BY <2>1, <2>2, <2>3 DEF PointersFollow
<1>14. OpenInfos(ph, fl) /\ SharingHolds /\ ShareCountsExact
  BY DEF Good
<1>15. \A h \in Files \ {f} :
              /\ Standing(p2, f2, h)' <=> Standing(ph, fl, h)
              /\ IsOpen(h)' <=> IsOpen(h)
              /\ SameInFatx(h)
  <2>1. fl[t] \in {f, NoInfo} /\ f \in {f, NoInfo}
    OBVIOUS
  <2> QED BY <1>0, <1>4, <1>7, <2>1, OthersUsed
<1>16. ~IsOpen(f) /\ ~IsOpen(f)'
  BY <1>5 DEF IsOpen
<1>17. \A h \in Files : SameWhenOpen(h)
  BY <1>15, <1>16 DEF SameWhenOpen, SameInFatx
<1>18. InfosKept
  BY SameInfosKept
<1>19. SharingHolds' /\ ShareCountsExact'
  BY <1>14, <1>17, <1>18, SharingKept
<1>20. OpenInfos(p2, f2)'
  <2>1. ListedWhileOpen'
    <3>1. \A i : Openers(i)' = Openers(i)
      BY <1>17, OpenersKept
    <3>2. \A i \in Infos : IsFiniteSet(Openers(i)')
      BY <1>14, <3>1 DEF OpenInfos, ListedWhileOpen
    <3>3. ASSUME NEW h \in Files, IsOpen(h)'
          PROVE  \E i : /\ i = files'[h].info /\ infos'[i].state = "listed"
                        /\ infos'[i].references >= Cardinality(Openers(i)')
      <4>1. IsOpen(h) /\ files'[h].info = files[h].info
        BY <1>4, <1>15, <1>16, <3>3
      <4>2. /\ infos[files[h].info].state = "listed"
            /\ infos[files[h].info].references >= Cardinality(Openers(files[h].info))
        BY <1>14, <4>1 DEF OpenInfos, ListedWhileOpen
      <4>3. PICK i : i = files[h].info
        OBVIOUS
      <4>4. infos'[i].state = "listed" /\ infos'[i].references >= Cardinality(Openers(i)')
        BY <3>1, <4>2, <4>3
      <4> QED BY <4>1, <4>3, <4>4
    <3> QED BY <3>2, <3>3, ListedWhileOpenNext
  <2>2. HasInfo(p2, f2)'
    BY <1>8, <1>14, <1>15 DEF OpenInfos, HasInfo, SameInFatx, Standing
  <2>3. NothingYet(p2, f2)'
    BY <1>4, <1>5, <1>8, <1>14 DEF OpenInfos, NothingYet
  <2>4. NamesApart'
    BY <1>14 DEF OpenInfos, NamesApart
  <2> QED BY <2>1, <2>2, <2>3, <2>4 DEF OpenInfos
<1>21. UNCHANGED <<volumes, mounting>> /\ "mount" \notin {ph[t], "create"}
       /\ fl[t] \in {f, NoInfo} /\ f \in {f, NoInfo}
  OBVIOUS
<1> QED BY <1>4, <1>6, <1>7, <1>10, <1>11, <1>12, <1>13, <1>19, <1>20, <1>21, FileStep

-----------------------------------------------------------------------------
(* Counts of opens.                                                         *)

\* A SHARE_ACCESS with counts of any size.
AnyShare == [open : Nat, access : [Rights -> Nat], shared : [Rights -> Nat]]

\* s counts the files in S.
Tells(s, S) ==
    /\ s \in AnyShare /\ IsFiniteSet(S)
    /\ s.open = Cardinality(S)
    /\ \A r \in Rights :
         /\ s.access[r] = Cardinality({f \in S : r \in files[f].access})
         /\ s.shared[r] = Cardinality({f \in S : r \in files[f].shared})

\* The counts of a FATX_FILE_INFO that is listed.
LEMMA ListedTells ==
    ASSUME Types, ListedWhileOpen, ShareCountsExact, NEW i \in Infos
    PROVE  /\ IsFiniteSet(Sharers(i)) /\ infos[i].share \in Shares
           /\ infos[i].state = "listed" => Tells(infos[i].share, Sharers(i))
<1>1. infos[i].share \in Shares
  <2>1. infos[i] \in InfoTypes
    BY DEF Types
  <2> QED BY <2>1 DEF InfoTypes
<1>2. IsFiniteSet(Sharers(i))
  <2>1. Sharers(i) \subseteq Openers(i)
    BY DEF Sharers, Openers
  <2>2. IsFiniteSet(Openers(i))
    BY DEF ListedWhileOpen
  <2> QED BY <2>1, <2>2, FS_Subset
<1>3. infos[i].share \in AnyShare
  <2>1. 0..OpenLimit \subseteq Nat
    OBVIOUS
  <2> QED BY <1>1, <2>1 DEF Shares, AnyShare
<1> QED BY <1>1, <1>2, <1>3 DEF Tells, ShareCountsExact

\* SHARE_ACCESSes with the same counts are the same.
LEMMA ShareEqual ==
    ASSUME NEW s \in AnyShare, NEW w \in AnyShare, s.open = w.open,
           \A r \in Rights : s.access[r] = w.access[r] /\ s.shared[r] = w.shared[r]
    PROVE  s = w
<1>1. s.access = w.access /\ s.shared = w.shared
  BY DEF AnyShare
<1> QED BY <1>1 DEF AnyShare

\* Nobody is counted by a SHARE_ACCESS without counts, and by no other.
LEMMA NobodyTells ==
    /\ Tells(NoShare, {})
    /\ \A s, S : Tells(s, S) => (s.open = 0 <=> S = {})
    /\ \A s : Tells(s, {}) => s = NoShare
<1>1. /\ NoShare \in AnyShare /\ NoShare.open = 0
      /\ \A r \in Rights : NoShare.access[r] = 0 /\ NoShare.shared[r] = 0
  BY DEF NoShare, AnyShare
<1>2. \A P : {f \in {} : P} = {}
  OBVIOUS
<1>3. IsFiniteSet({}) /\ Cardinality({}) = 0
  BY FS_EmptySet
<1>4. Tells(NoShare, {})
  <2>1. \A r : {f \in {} : r \in files[f].access} = {} /\ {f \in {} : r \in files[f].shared} = {}
    OBVIOUS
  <2> QED BY <1>1, <1>3, <2>1 DEF Tells
<1>5. ASSUME NEW s, NEW S, Tells(s, S) PROVE s.open = 0 <=> S = {}
  BY <1>3, <1>5, FS_EmptySet DEF Tells
<1>6. ASSUME NEW s, Tells(s, {}) PROVE s = NoShare
  <2>1. \A r : {f \in {} : r \in files[f].access} = {} /\ {f \in {} : r \in files[f].shared} = {}
    OBVIOUS
  <2>2. s \in AnyShare /\ s.open = 0 /\ \A r \in Rights : s.access[r] = 0 /\ s.shared[r] = 0
    BY <1>3, <1>6, <2>1 DEF Tells
  <2> QED BY <1>1, <2>2, ShareEqual
<1> QED BY <1>4, <1>5, <1>6

\* What one more open does to the counts, and one less.
LEMMA CountedIs ==
    ASSUME NEW s \in AnyShare, NEW a, NEW sh, NEW by \in {1, -1}
    PROVE  /\ a = {} => Counted(s, a, sh, by) = s
           /\ a # {} =>
                /\ Counted(s, a, sh, by) \in [open : Int, access : [Rights -> Int], shared : [Rights -> Int]]
                /\ Counted(s, a, sh, by).open = s.open + by
                /\ \A r \in Rights :
                     /\ Counted(s, a, sh, by).access[r] = s.access[r] + (IF r \in a THEN by ELSE 0)
                     /\ Counted(s, a, sh, by).shared[r] = s.shared[r] + (IF r \in sh THEN by ELSE 0)
<1>1. s.open \in Nat /\ \A r \in Rights : s.access[r] \in Nat /\ s.shared[r] \in Nat
  BY DEF AnyShare
<1> QED BY <1>1 DEF Counted

\* An open that is counted and taken off again leaves the counts as they were.
LEMMA CountedBack ==
    ASSUME NEW s \in AnyShare, NEW a, NEW sh
    PROVE  Counted(Counted(s, a, sh, 1), a, sh, -1) = s
<1>1. CASE a = {}
  BY <1>1 DEF Counted
<1>2. CASE a # {}
  <2>1. s.open \in Nat /\ s.access \in [Rights -> Nat] /\ s.shared \in [Rights -> Nat]
    BY DEF AnyShare
  <2> DEFINE up(c, set) == [r \in Rights |-> c[r] + (IF r \in set THEN 1 ELSE 0)]
             down(c, set) == [r \in Rights |-> c[r] + (IF r \in set THEN -1 ELSE 0)]
  <2>2. ASSUME NEW c \in [Rights -> Nat], NEW set PROVE down(up(c, set), set) = c
    OBVIOUS
  <2>3. Counted(s, a, sh, 1) = [open |-> s.open + 1, access |-> up(s.access, a), shared |-> up(s.shared, sh)]
    BY <1>2 DEF Counted
  <2>4. Counted(Counted(s, a, sh, 1), a, sh, -1)
           = [open |-> (s.open + 1) + (-1), access |-> down(up(s.access, a), a),
              shared |-> down(up(s.shared, sh), sh)]
    BY <1>2, <2>3 DEF Counted
  <2>5. (s.open + 1) + (-1) = s.open
    BY <2>1
  <2>6. down(up(s.access, a), a) = s.access /\ down(up(s.shared, sh), sh) = s.shared
    BY <2>1, <2>2
  <2> HIDE DEF up, down
  <2>7. Counted(Counted(s, a, sh, 1), a, sh, -1) = [open |-> s.open, access |-> s.access, shared |-> s.shared]
    BY <2>4, <2>5, <2>6
  <2> QED BY <2>7 DEF AnyShare
<1> QED BY <1>1, <1>2

\* An open that is refused, if it leaves the FATX_FILE_INFOs as they were, or
\* with a reference too many.
LEMMA RefusedKeeps ==
    ASSUME NEW ph, NEW fl, Types, Good(ph, fl), NEW t \in Threads, At(t, "create"),
           Refused(t, fl[t]), infos' \in [Infos -> InfoTypes], InfosKept,
           UNCHANGED <<deviceVars, crashed>>
    PROVE  IInv'
<1>0. Lists(ph, fl)
  BY DEF Good
<1>1. ph[t] = "create" /\ Moved(ph, fl, t, "refused", fl[t])
  BY <1>0, CreateMoves
<1>2. PICK f : f = fl[t]
  OBVIOUS
<1>3. /\ f \in Files /\ files[f].state = "live" /\ files[f].handles = 0
      /\ \A u \in Threads \ {t} : fl[u] # f
      /\ files[f].pointers = 1 /\ files[f].device
  BY <1>1, <1>2, BeginTable, AloneFacts
<1>4. files[f].info = NoInfo
  BY <1>1, <1>2, <1>3 DEF Good, OpenInfos, NothingYet
<1>5. /\ files'[f] = [files[f] EXCEPT !.device = FALSE]
      /\ files[f] \in FileTypes /\ \A h \in Files \ {f} : files'[h] = files[h]
  BY <1>2, <1>3 DEF Types, Refused
<1>6. /\ files'[f].state = "live" /\ files'[f].pointers = 1 /\ files'[f].handles = 0
      /\ files'[f].device = FALSE /\ files'[f].info = files[f].info
      /\ files'[f].access = files[f].access /\ files'[f].shared = files[f].shared
      /\ files'[f].cleaned = files[f].cleaned /\ files'[f].handleCreated = files[f].handleCreated
      /\ files'[f].lockCount = files[f].lockCount /\ files'[f].lockSignal = files[f].lockSignal
  BY <1>3, <1>5 DEF FileTypes
<1>7. Types'
  <2>1. files'[f] \in FileTypes
    BY <1>5 DEF FileTypes
  <2>2. files' \in [Files -> FileTypes]
    BY <1>2, <1>5, <2>1 DEF Types, Refused
  <2> QED BY <2>2 DEF Types, deviceVars
<1>8. PICK p2, f2 : Shift(ph, fl, t, "refused", f, p2, f2) /\ Lists(p2, f2)'
  BY <1>0, <1>1, <1>2, MovedShift
<1>9. /\ p2[t] = "refused" /\ f2[t] = f /\ \A u \in Threads \ {t} : p2[u] = ph[u] /\ f2[u] = fl[u]
  BY <1>8 DEF Shift
<1>10. \A u \in Threads \ {t} : f2[u] # f
  BY <1>3, <1>9
<1>11. LifeOf(p2, f2, f)'
  BY <1>6, <1>9, <1>10, BeginTable DEF LifeOf
<1>12. Locks(p2, f2)'
  <2>1. (ph[t] \in Owning <=> "refused" \in Owning) /\ Claims(ph[t]) = Claims("refused")
    BY <1>1, BeginTable
  <2>2. /\ fl[t] = f /\ f \in Files /\ \A h \in Files \ {f} : files'[h] = files[h]
        /\ files'[f].lockCount = files[f].lockCount /\ files'[f].lockSignal = files[f].lockSignal
    BY <1>2, <1>3, <1>5, <1>6
  <2> HIDE <1>2
  <2> QED BY <1>8, <2>1, <2>2, SameLocks
<1>13. VolumeBalanced(ph[t], "refused", f)
  <2>1. references \in Nat
    BY DEF Types
  <2>2. references' = references /\ references \in Int
    BY <2>1 DEF deviceVars
  <2>3. ~HasVolume(f)' /\ HasVolume(f)
    BY <1>3, <1>6 DEF HasVolume
  <2>4. ph[t] \notin Volumed /\ "refused" \in Volumed
    BY <1>1, BeginTable
  <2> QED BY <2>2, <2>3, <2>4 DEF VolumeBalanced, Bit
<1>14. PointersFollow(ph[t], f, "refused", f)
  <2>1. Refs(ph[t]) = 1 /\ Refs("refused") = 1
    BY <1>1, BeginTable
  <2>2. ASSUME NEW h \in Files
        PROVE  /\ RefsOf("refused", f, h) - RefsOf(ph[t], f, h) = 0
               /\ files'[h].pointers - files'[h].handles - (files[h].pointers - files[h].handles) = 0
    <3>1. files[h] \in FileTypes
      BY DEF Types
    <3>2. files[h].pointers \in Nat /\ files[h].handles \in Nat
      BY <3>1 DEF FileTypes
    <3>3. RefsOf("refused", f, h) - RefsOf(ph[t], f, h) = 0
      BY <2>1 DEF RefsOf
    <3>4. files'[h].pointers = files[h].pointers /\ files'[h].handles = files[h].handles
      BY <1>3, <1>5, <1>6
    <3> QED BY <3>2, <3>3, <3>4
  <2> QED BY <2>2 DEF PointersFollow
<1>15. OpenInfos(p2, f2)' /\ SharingHolds' /\ ShareCountsExact'
  <2>1. \A h \in Files \ {f} :
              /\ Standing(p2, f2, h)' <=> Standing(ph, fl, h)
              /\ SameInFatx(h)
    <3>1. fl[t] \in {f, NoInfo} /\ f \in {f, NoInfo}
      BY <1>2
    <3> QED BY <1>0, <1>3, <1>5, <1>8, <3>1, OthersUsed
  <2>2. ~Standing(p2, f2, f)'
    BY <1>6 DEF Standing
  <2>3. SameInFatx(f)
    BY <1>4, <1>6 DEF SameInFatx, IsOpen
  <2>4. \A h \in Files : SameInFatx(h) /\ (Standing(p2, f2, h)' => Standing(ph, fl, h))
    BY <2>1, <2>2, <2>3
  <2>5. \A h \in Files : files'[h].state = "unborn" => files[h].state = "unborn"
    BY <1>5, <1>6
  <2>6. ph[t] = "create" => ~files'[fl[t]].device
    BY <1>2, <1>6
  <2>7. OpenInfos(ph, fl) /\ SharingHolds /\ ShareCountsExact
    BY DEF Good
  <2> QED BY <1>7, <1>8, <2>4, <2>5, <2>6, <2>7, FatxKept
<1>16. UNCHANGED <<volumes, mounting>> /\ "mount" \notin {ph[t], "refused"}
       /\ fl[t] \in {f, NoInfo} /\ f \in {f, NoInfo}
  BY <1>1, <1>2 DEF deviceVars
<1> QED BY <1>2, <1>3, <1>5, <1>7, <1>8, <1>11, <1>12, <1>13, <1>14, <1>15, <1>16, FileStep

\* FatxIrpCreate fails.
LEMMA CreateFailsKeeps ==
    ASSUME NEW ph, NEW fl, Types, Good(ph, fl), NEW t \in Threads, FatxIrpCreateFails(t)
    PROVE  IInv'
<1>1. At(t, "create") /\ Refused(t, Current(t)) /\ UNCHANGED <<deviceVars, infos, crashed>>
  BY DEF FatxIrpCreateFails
<1>2. Current(t) = fl[t]
  BY <1>1, CreateMoves DEF Good
<1>3. InfosKept /\ infos' \in [Infos -> InfoTypes]
  BY <1>1, SameInfosKept DEF Types
<1> QED BY <1>1, <1>2, <1>3, RefusedKeeps

\* FatxIrpCreate fails as the host refuses the open.
LEMMA CreateHostFailsKeeps ==
    ASSUME NEW ph, NEW fl, Types, Good(ph, fl), NEW t \in Threads, FatxIrpCreateHostFails(t)
    PROVE  IInv'
<1>1. At(t, "create") /\ Refused(t, Current(t)) /\ UNCHANGED <<deviceVars, crashed>>
  BY DEF FatxIrpCreateHostFails
<1>2. Current(t) = fl[t]
  BY <1>1, CreateMoves DEF Good
<1>3. PICK name \in Names, asked \in Asked : \E i \in Listed(name) :
         /\ Admits(i, asked)
         /\ infos' = [infos EXCEPT ![i].references = @ + 1,
                ![i].share = Counted(Opened(@, asked), asked.access, asked.shared, -1)]
  BY DEF FatxIrpCreateHostFails
<1>4. PICK i \in Listed(name) :
         infos' = [infos EXCEPT ![i].references = @ + 1,
                ![i].share = Counted(Opened(@, asked), asked.access, asked.shared, -1)]
  BY <1>3
<1>5. i \in Infos /\ infos[i].state = "listed"
  BY DEF Listed
<1>6. /\ ListedWhileOpen /\ ShareCountsExact
  BY DEF Good, OpenInfos
<1>7. infos[i].share \in Shares /\ Tells(infos[i].share, Sharers(i))
  BY <1>5, <1>6, ListedTells
<1> DEFINE s == infos[i].share
           w == IF s.open = 0 THEN NoShare ELSE s
<1>8. w = s
  <2>1. s.open = 0 => s = NoShare
    BY <1>7, NobodyTells
  <2> QED BY <2>1
<1>9. Counted(Opened(s, asked), asked.access, asked.shared, -1) = s
  <2>1. s \in AnyShare
    BY <1>7 DEF Tells
  <2>2. Opened(s, asked) = Counted(s, asked.access, asked.shared, 1)
    BY <1>8 DEF Opened
  <2> QED BY <2>1, <2>2, CountedBack
<1>10. infos[i] \in InfoTypes /\ infos \in [Infos -> InfoTypes]
  BY <1>5 DEF Types
<1>11. infos' = [infos EXCEPT ![i] = [infos[i] EXCEPT !.references = @ + 1, !.share =
                     Counted(Opened(s, asked), asked.access, asked.shared, -1)]]
  BY <1>4, <1>5, <1>10 DEF InfoTypes
<1>12. infos' = [infos EXCEPT ![i] = [infos[i] EXCEPT !.references = infos[i].references + 1, !.share = s]]
  BY <1>9, <1>11
<1>13. infos[i].references \in Nat
  BY <1>10 DEF InfoTypes
<1>14. infos' \in [Infos -> InfoTypes]
  <2>1. infos[i].references + 1 \in Nat
    BY <1>13
  <2>2. [infos[i] EXCEPT !.references = infos[i].references + 1, !.share = s] \in InfoTypes
    BY <1>7, <1>10, <2>1 DEF InfoTypes
  <2> QED BY <1>10, <1>12, <2>2
<1>15. InfosKept
  <2> SUFFICES ASSUME NEW j \in Infos
               PROVE  /\ infos'[j].state = infos[j].state /\ infos'[j].name = infos[j].name
                      /\ infos'[j].share = infos[j].share
                      /\ infos'[j].references >= infos[j].references
    BY DEF InfosKept
  <2>1. infos[j] \in InfoTypes
    BY <1>10
  <2>2. infos[j].references \in Nat
    BY <2>1 DEF InfoTypes
  <2>3. CASE j = i
    <3>1. infos'[i] = [infos[i] EXCEPT !.references = infos[i].references + 1, !.share = s]
      BY <1>5, <1>10, <1>12
    <3> QED BY <1>10, <1>13, <2>3, <3>1 DEF InfoTypes
  <2>4. CASE j # i
    <3>1. infos'[j] = infos[j]
      BY <1>10, <1>12, <2>4
    <3> QED BY <2>2, <3>1
  <2> QED BY <2>3, <2>4
<1> QED BY <1>1, <1>2, <1>14, <1>15, RefusedKeeps

\* Counts are no larger than the number of files.
LEMMA TellsBound ==
    \A s, S : Tells(s, S) /\ s.open <= OpenLimit => s \in Shares
<1> SUFFICES ASSUME NEW s, NEW S, Tells(s, S), s.open <= OpenLimit PROVE s \in Shares
  OBVIOUS
<1>1. s \in AnyShare /\ IsFiniteSet(S) /\ s.open = Cardinality(S)
  BY DEF Tells
<1>2. s.open \in Nat /\ OpenLimit \in Nat
  BY <1>1, IoFileAssumption DEF AnyShare
<1>3. ASSUME NEW r \in Rights
      PROVE  s.access[r] \in 0..OpenLimit /\ s.shared[r] \in 0..OpenLimit
  <2>1. /\ {f \in S : r \in files[f].access} \subseteq S
        /\ {f \in S : r \in files[f].shared} \subseteq S
    OBVIOUS
  <2>2. /\ Cardinality({f \in S : r \in files[f].access}) <= Cardinality(S)
        /\ Cardinality({f \in S : r \in files[f].shared}) <= Cardinality(S)
    BY <1>1, <2>1, FS_Subset
  <2>3. /\ s.access[r] = Cardinality({f \in S : r \in files[f].access})
        /\ s.shared[r] = Cardinality({f \in S : r \in files[f].shared})
    BY DEF Tells
  <2>4. s.access[r] \in Nat /\ s.shared[r] \in Nat
    BY <1>1 DEF AnyShare
  <2>5. s.access[r] <= s.open /\ s.shared[r] <= s.open
    BY <1>1, <2>2, <2>3
  <2> QED BY <1>2, <2>4, <2>5
<1>4. s.open \in 0..OpenLimit
  BY <1>2
<1>5. s.access \in [Rights -> 0..OpenLimit] /\ s.shared \in [Rights -> 0..OpenLimit]
  BY <1>1, <1>3 DEF AnyShare
<1> QED BY <1>1, <1>4, <1>5 DEF AnyShare, Shares

\* Some of S, and the same with f or without.
OneUp(S, f, P, Q) == f \notin S /\ IsFiniteSet(S) /\ P \subseteq S /\ (Q = P \/ Q = P \union {f})

\* What their numbers are.
LEMMA OneMore ==
    ASSUME NEW S, NEW f, NEW P, NEW Q, OneUp(S, f, P, Q)
    PROVE  /\ Cardinality(P) \in Nat
           /\ Cardinality(Q) = Cardinality(P) + (IF f \in Q THEN 1 ELSE 0)
<1>1. IsFiniteSet(P) /\ f \notin P /\ Cardinality(P) \in Nat
  BY FS_Subset, FS_CardinalityType DEF OneUp
<1>2. CASE Q = P
  BY <1>1, <1>2
<1>3. CASE Q = P \union {f}
  <2>1. Cardinality(Q) = Cardinality(P) + 1
    BY <1>1, <1>3, FS_AddElement
  <2> QED BY <1>1, <1>3, <2>1
<1> QED BY <1>2, <1>3 DEF OneUp

\* A file more is counted.
LEMMA TellsMore ==
    ASSUME NEW s, NEW S, Tells(s, S), NEW f, f \notin S, NEW a, NEW sh, a # {},
           \A h \in S : files'[h].access = files[h].access /\ files'[h].shared = files[h].shared,
           files'[f].access = a, files'[f].shared = sh
    PROVE  Tells(Counted(s, a, sh, 1), S \union {f})'
<1> DEFINE w == Counted(s, a, sh, 1)
           R == S \union {f}
<1>1. s \in AnyShare /\ IsFiniteSet(S) /\ s.open = Cardinality(S)
  BY DEF Tells
<1>2. s.open \in Nat /\ \A r \in Rights : s.access[r] \in Nat /\ s.shared[r] \in Nat
  BY <1>1 DEF AnyShare
<1>3. /\ w \in [open : Int, access : [Rights -> Int], shared : [Rights -> Int]]
      /\ w.open = s.open + 1
      /\ \A r \in Rights :
           /\ w.access[r] = s.access[r] + (IF r \in a THEN 1 ELSE 0)
           /\ w.shared[r] = s.shared[r] + (IF r \in sh THEN 1 ELSE 0)
  BY <1>1, CountedIs
<1> HIDE DEF w
<1>4. IsFiniteSet(R) /\ w.open = Cardinality(R)
  <2>1. IsFiniteSet(R) /\ Cardinality(R) = Cardinality(S) + 1
    BY <1>1, FS_AddElement
  <2> QED BY <1>1, <1>3, <2>1
<1>5. ASSUME NEW r \in Rights
      PROVE  /\ w.access[r] \in Nat /\ w.shared[r] \in Nat
             /\ w.access[r] = Cardinality({h \in R : r \in files'[h].access})
             /\ w.shared[r] = Cardinality({h \in R : r \in files'[h].shared})
  <2> DEFINE P == {h \in S : r \in files[h].access}
             Q == {h \in R : r \in files'[h].access}
             V == {h \in S : r \in files[h].shared}
             W == {h \in R : r \in files'[h].shared}
  <2>1. OneUp(S, f, P, Q) /\ (f \in Q <=> r \in a)
    BY <1>1 DEF OneUp
  <2>2. OneUp(S, f, V, W) /\ (f \in W <=> r \in sh)
    BY <1>1 DEF OneUp
  <2>3. s.access[r] = Cardinality(P) /\ s.shared[r] = Cardinality(V)
    BY DEF Tells
  <2> HIDE DEF P, Q, V, W
  <2>4. Cardinality(Q) = Cardinality(P) + (IF r \in a THEN 1 ELSE 0) /\ Cardinality(P) \in Nat
    BY <2>1, OneMore
  <2>5. Cardinality(W) = Cardinality(V) + (IF r \in sh THEN 1 ELSE 0) /\ Cardinality(V) \in Nat
    BY <2>2, OneMore
  <2>6. w.access[r] = Cardinality(Q) /\ w.access[r] \in Nat
    BY <1>3, <2>3, <2>4
  <2>7. w.shared[r] = Cardinality(W) /\ w.shared[r] \in Nat
    BY <1>3, <2>3, <2>5
  <2> QED BY <2>6, <2>7 DEF Q, W
<1>6. w \in AnyShare
  <2>1. w.open \in Nat
    BY <1>2, <1>3
  <2> QED BY <1>3, <1>5, <2>1 DEF AnyShare
<1>7. /\ w \in AnyShare /\ IsFiniteSet(R) /\ w.open = Cardinality(R)
      /\ \A r \in Rights :
           /\ w.access[r] = Cardinality({h \in R : r \in files'[h].access})
           /\ w.shared[r] = Cardinality({h \in R : r \in files'[h].shared})
  BY <1>4, <1>5, <1>6
<1> QED BY <1>7 DEF Tells, w

\* A file less is counted.
LEMMA TellsFewer ==
    ASSUME NEW s, NEW S, Tells(s, S), NEW f, f \in S, NEW a, NEW sh, a # {},
           \A h \in S : files'[h].access = files[h].access /\ files'[h].shared = files[h].shared,
           files[f].access = a, files[f].shared = sh
    PROVE  Tells(Counted(s, a, sh, -1), S \ {f})'
<1> DEFINE w == Counted(s, a, sh, -1)
           R == S \ {f}
<1>1. s \in AnyShare /\ IsFiniteSet(S) /\ s.open = Cardinality(S)
  BY DEF Tells
<1>2. s.open \in Nat /\ \A r \in Rights : s.access[r] \in Nat /\ s.shared[r] \in Nat
  BY <1>1 DEF AnyShare
<1>3. /\ w \in [open : Int, access : [Rights -> Int], shared : [Rights -> Int]]
      /\ w.open = s.open + (-1)
      /\ \A r \in Rights :
           /\ w.access[r] = s.access[r] + (IF r \in a THEN -1 ELSE 0)
           /\ w.shared[r] = s.shared[r] + (IF r \in sh THEN -1 ELSE 0)
  BY <1>1, CountedIs
<1> HIDE DEF w
<1>4. IsFiniteSet(R) /\ w.open = Cardinality(R) /\ w.open \in Nat
  <2>1. IsFiniteSet(R) /\ Cardinality(R) = Cardinality(S) - 1
    BY <1>1, FS_RemoveElement
  <2>2. Cardinality(R) \in Nat
    BY <2>1, FS_CardinalityType
  <2> QED BY <1>1, <1>2, <1>3, <2>1, <2>2
<1>5. ASSUME NEW r \in Rights
      PROVE  /\ w.access[r] \in Nat /\ w.shared[r] \in Nat
             /\ w.access[r] = Cardinality({h \in R : r \in files'[h].access})
             /\ w.shared[r] = Cardinality({h \in R : r \in files'[h].shared})
  <2> DEFINE P == {h \in S : r \in files[h].access}
             Q == {h \in R : r \in files'[h].access}
             V == {h \in S : r \in files[h].shared}
             W == {h \in R : r \in files'[h].shared}
  <2>1. OneUp(R, f, Q, P) /\ (f \in P <=> r \in a)
    BY <1>4 DEF OneUp
  <2>2. OneUp(R, f, W, V) /\ (f \in V <=> r \in sh)
    BY <1>4 DEF OneUp
  <2>3. s.access[r] = Cardinality(P) /\ s.shared[r] = Cardinality(V)
    BY DEF Tells
  <2> HIDE DEF P, Q, V, W, R
  <2>4. Cardinality(P) = Cardinality(Q) + (IF r \in a THEN 1 ELSE 0) /\ Cardinality(Q) \in Nat
    BY <2>1, OneMore
  <2>5. Cardinality(V) = Cardinality(W) + (IF r \in sh THEN 1 ELSE 0) /\ Cardinality(W) \in Nat
    BY <2>2, OneMore
  <2>6. w.access[r] = Cardinality(Q) /\ w.access[r] \in Nat
    BY <1>3, <2>3, <2>4
  <2>7. w.shared[r] = Cardinality(W) /\ w.shared[r] \in Nat
    BY <1>3, <2>3, <2>5
  <2> QED BY <2>6, <2>7 DEF Q, W
<1>6. w \in AnyShare
  BY <1>3, <1>4, <1>5 DEF AnyShare
<1>7. /\ w \in AnyShare /\ IsFiniteSet(R) /\ w.open = Cardinality(R)
      /\ \A r \in Rights :
           /\ w.access[r] = Cardinality({h \in R : r \in files'[h].access})
           /\ w.shared[r] = Cardinality({h \in R : r \in files'[h].shared})
  BY <1>4, <1>5, <1>6
<1> QED BY <1>7 DEF Tells, w

\* The same files are counted.
LEMMA TellsKept ==
    ASSUME NEW s, NEW S, Tells(s, S),
           \A h \in S : files'[h].access = files[h].access /\ files'[h].shared = files[h].shared
    PROVE  Tells(s, S)'
<1>1. \A r : /\ {h \in S : r \in files'[h].access} = {h \in S : r \in files[h].access}
             /\ {h \in S : r \in files'[h].shared} = {h \in S : r \in files[h].shared}
  OBVIOUS
<1> QED BY <1>1 DEF Tells

\* Whoever may share a file, shares it with everybody who has it open.
LEMMA MayShareHolds ==
    ASSUME NEW s, NEW S, Tells(s, S), NEW asked, asked.access \subseteq Rights, asked.access # {},
           s.open = 0 \/ MayShare(s, asked),
           \A g \in S : files[g].access \subseteq Rights
    PROVE  \A g \in S : asked.access \subseteq files[g].shared /\ files[g].access \subseteq asked.shared
<1> SUFFICES ASSUME NEW g \in S
             PROVE  asked.access \subseteq files[g].shared /\ files[g].access \subseteq asked.shared
  OBVIOUS
<1>1. IsFiniteSet(S) /\ s.open = Cardinality(S)
  BY DEF Tells
<1>2. /\ \A r \in asked.access : s.shared[r] = s.open
      /\ \A r \in Rights : s.access[r] # 0 => r \in asked.shared
  <2>1. s.open # 0
    BY NobodyTells
  <2> QED BY <2>1 DEF MayShare
<1>3. ASSUME NEW r \in asked.access PROVE r \in files[g].shared
  <2> DEFINE V == {h \in S : r \in files[h].shared}
  <2>1. r \in Rights /\ V \subseteq S
    OBVIOUS
  <2>2. Cardinality(V) = Cardinality(S)
    BY <1>1, <1>2, <2>1 DEF Tells
  <2>3. V = S
    BY <1>1, <2>1, <2>2, FS_Subset
  <2> QED BY <2>3
<1>4. ASSUME NEW r \in files[g].access PROVE r \in asked.shared
  <2> DEFINE P == {h \in S : r \in files[h].access}
  <2>1. r \in Rights /\ g \in P /\ P \subseteq S
    BY <1>4
  <2>2. IsFiniteSet(P)
    BY <1>1, <2>1, FS_Subset
  <2>3. Cardinality(P) # 0
    BY <2>1, <2>2, FS_EmptySet
  <2>4. s.access[r] # 0
    BY <2>1, <2>3 DEF Tells
  <2> QED BY <1>2, <2>1, <2>4
<1> QED BY <1>3, <1>4

-----------------------------------------------------------------------------
(* Opens that succeed.                                                      *)

\* Counts that tell are as ShareCountsExact wants them.
LEMMA SharesTold ==
    ASSUME \A j \in Infos : infos'[j].state = "listed" =>
              \E w, R : w = infos'[j].share /\ R = Sharers(j)' /\ Tells(w, R)'
    PROVE  ShareCountsExact'
<1> SUFFICES ASSUME NEW j \in Infos, infos'[j].state = "listed"
             PROVE  /\ infos'[j].share.open = Cardinality(Sharers(j)')
                    /\ \A r \in Rights :
                         /\ infos'[j].share.access[r] = Cardinality({h \in Sharers(j)' : r \in files'[h].access})
                         /\ infos'[j].share.shared[r] = Cardinality({h \in Sharers(j)' : r \in files'[h].shared})
  BY DEF ShareCountsExact
<1>1. PICK w, R : w = infos'[j].share /\ R = Sharers(j)' /\ Tells(w, R)'
  OBVIOUS
<1>2. /\ w.open = Cardinality(R)
      /\ \A r \in Rights :
           /\ w.access[r] = Cardinality({h \in R : r \in files'[h].access})
           /\ w.shared[r] = Cardinality({h \in R : r \in files'[h].shared})
  BY <1>1 DEF Tells
<1> QED BY <1>1, <1>2

\* f is opened, with what asked says.
Joins(f, i, asked) ==
    /\ f \in Files /\ \A h \in Files \ {f} : SameWhenOpen(h)
    /\ ~IsOpen(f) /\ IsOpen(f)' /\ files'[f].info = i /\ ~files'[f].cleaned
    /\ files'[f].access = asked.access
    /\ files'[f].shared = IF asked.access = {} THEN {} ELSE asked.shared

\* Who has the files open, then.
LEMMA JoinsSets ==
    ASSUME NEW f, NEW i, NEW asked, Joins(f, i, asked)
    PROVE  /\ \A j : j # i => Openers(j)' = Openers(j) /\ Sharers(j)' = Sharers(j)
           /\ f \notin Openers(i) /\ Openers(i)' = Openers(i) \union {f}
           /\ Sharers(i)' = IF asked.access = {} THEN Sharers(i) ELSE Sharers(i) \union {f}
           /\ \A j : f \notin Sharers(j)
           /\ \A j : \A h \in Sharers(j) :
                files'[h].access = files[h].access /\ files'[h].shared = files[h].shared
<1>1. /\ f \in Files /\ \A h \in Files \ {f} : IsOpen(h)' <=> IsOpen(h)
      /\ \A h \in Files \ {f} : IsOpen(h) =>
            /\ files'[h].info = files[h].info /\ files'[h].access = files[h].access
            /\ files'[h].shared = files[h].shared /\ files'[h].cleaned = files[h].cleaned
      /\ ~IsOpen(f) /\ IsOpen(f)' /\ files'[f].info = i /\ ~files'[f].cleaned
      /\ files'[f].access = asked.access
  BY DEF Joins, SameWhenOpen
<1>2. \A j : /\ \A h : h \in Openers(j) <=> h \in Files /\ IsOpen(h) /\ files[h].info = j
             /\ \A h : h \in Openers(j)' <=> h \in Files /\ IsOpen(h)' /\ files'[h].info = j
  BY DEF Openers
<1>3. \A j : /\ \A h : h \in Sharers(j) <=> /\ h \in Files /\ IsOpen(h) /\ files[h].info = j
                                            /\ ~files[h].cleaned /\ files[h].access # {}
             /\ \A h : h \in Sharers(j)' <=> /\ h \in Files /\ IsOpen(h)' /\ files'[h].info = j
                                            /\ ~files'[h].cleaned /\ files'[h].access # {}
  BY DEF Sharers
<1>4. ASSUME NEW j, j # i PROVE Openers(j)' = Openers(j)
  <2>1. \A h : h \in Openers(j)' <=> h \in Openers(j)
    BY <1>1, <1>2, <1>4
  <2> QED BY <2>1
<1>5. f \notin Openers(i) /\ Openers(i)' = Openers(i) \union {f}
  BY <1>1, <1>2
<1>6. \A j : f \notin Sharers(j)
  BY <1>1, <1>3
<1>7. \A j : \A h \in Sharers(j) :
                files'[h].access = files[h].access /\ files'[h].shared = files[h].shared
  BY <1>1, <1>3
<1>8. ASSUME NEW j, j # i PROVE Sharers(j)' = Sharers(j)
  <2>1. \A h : h \in Sharers(j)' <=> h \in Sharers(j)
    BY <1>1, <1>3, <1>8
  <2> QED BY <2>1
<1>9. ASSUME asked.access = {} PROVE Sharers(i)' = Sharers(i)
  <2>1. \A h : h \in Sharers(i)' <=> h \in Sharers(i)
    BY <1>1, <1>3, <1>9
  <2> QED BY <2>1
<1>10. asked.access # {} => Sharers(i)' = Sharers(i) \union {f}
  BY <1>1, <1>3
<1> QED BY <1>4, <1>5, <1>6, <1>7, <1>8, <1>9, <1>10

\* A FATX_FILE_INFO with one open more than s counts.
OneMoreOpen(n, i, s, asked) ==
    /\ n \in [state : {"listed"}, name : Names \union {Volume}, references : Nat,
              share : {Counted(s, asked.access, asked.shared, 1)}, deleteOnClose : BOOLEAN]
    /\ n.references >= Cardinality(Openers(i)) + 1
    /\ s \in Shares /\ Tells(s, Sharers(i)) /\ (s.open = 0 \/ MayShare(s, asked))

\* Sharing is enforced when f is opened, and its counts stay exact.
LEMMA JoinsSharing ==
    ASSUME Types, Types', ListedWhileOpen, SharingHolds, ShareCountsExact,
           NEW f, NEW i \in Infos, NEW asked \in Asked, NEW n, NEW s, NEW R, R = Sharers(i),
           Joins(f, i, asked), s \in Shares, Tells(s, R), s.open = 0 \/ MayShare(s, asked),
           n.share = Counted(s, asked.access, asked.shared, 1),
           infos' = [infos EXCEPT ![i] = n]
    PROVE  SharingHolds' /\ ShareCountsExact'
<1>1. /\ \A j : j # i => Sharers(j)' = Sharers(j)
      /\ Sharers(i)' = IF asked.access = {} THEN R ELSE R \union {f}
      /\ f \notin R
      /\ \A j : \A h \in Sharers(j) :
           files'[h].access = files[h].access /\ files'[h].shared = files[h].shared
  BY JoinsSets
<1>2. /\ f \in Files /\ files'[f].access = asked.access
      /\ asked.access # {} => files'[f].shared = asked.shared
  BY DEF Joins
<1>3. asked.access \subseteq Rights /\ asked.shared \subseteq Rights
  BY IoFileAssumption
<1>4. \A g \in R : g \in Files /\ files[g].access \subseteq Rights
  <2>1. ASSUME NEW g \in R PROVE g \in Files /\ files[g].access \subseteq Rights
    <3>1. g \in Files
      BY DEF Sharers
    <3>2. files[g] \in FileTypes
      BY <3>1 DEF Types
    <3> QED BY <3>1, <3>2 DEF FileTypes
  <2> QED BY <2>1
<1>5. asked.access # {} =>
         \A g \in R : asked.access \subseteq files[g].shared /\ files[g].access \subseteq asked.shared
  BY <1>3, <1>4, MayShareHolds
<1>6. SharingHolds'
  <2> SUFFICES ASSUME NEW j \in Infos, NEW g \in Sharers(j)', NEW h \in Sharers(j)', g # h
               PROVE  files'[g].access \subseteq files'[h].shared
    BY DEF SharingHolds
  <2>1. CASE g \in Sharers(j) /\ h \in Sharers(j)
    BY <1>1, <2>1 DEF SharingHolds
  <2>2. CASE ~(g \in Sharers(j) /\ h \in Sharers(j))
    <3>1. j = i /\ asked.access # {} /\ (g = f \/ h = f) /\ g \in R \union {f} /\ h \in R \union {f}
      BY <1>1, <2>2
    <3>2. CASE g = f
      <4>1. h \in R
        BY <3>1, <3>2
      <4>2. files'[h].shared = files[h].shared
        BY <1>1, <4>1
      <4> QED BY <1>2, <1>5, <3>1, <3>2, <4>1, <4>2
    <3>3. CASE h = f
      <4>1. g \in R
        BY <3>1, <3>3
      <4>2. files'[g].access = files[g].access
        BY <1>1, <4>1
      <4> QED BY <1>2, <1>5, <3>1, <3>3, <4>1, <4>2
    <3> QED BY <3>1, <3>2, <3>3
  <2> QED BY <2>1, <2>2
<1>7. ASSUME NEW j \in Infos, infos'[j].state = "listed"
      PROVE  \E w, V : w = infos'[j].share /\ V = Sharers(j)' /\ Tells(w, V)'
  <2>1. CASE j # i
    <3>1. infos'[j] = infos[j]
      BY <2>1 DEF Types
    <3>2. PICK w, V : w = infos[j].share /\ V = Sharers(j)
      OBVIOUS
    <3>3. Tells(w, V)
      BY <1>7, <3>1, <3>2, ListedTells
    <3>4. \A h \in V : files'[h].access = files[h].access /\ files'[h].shared = files[h].shared
      BY <1>1, <3>2
    <3>5. Tells(w, V)'
      BY <3>3, <3>4, TellsKept
    <3>6. w = infos'[j].share /\ V = Sharers(j)'
      BY <1>1, <2>1, <3>1, <3>2
    <3> QED BY <3>5, <3>6
  <2>2. CASE j = i
    <3>1. infos'[i].share = Counted(s, asked.access, asked.shared, 1)
      BY DEF Types
    <3>2. \A h \in R : files'[h].access = files[h].access /\ files'[h].shared = files[h].shared
      BY <1>1
    <3>3. CASE asked.access = {}
      <4>1. Counted(s, asked.access, asked.shared, 1) = s
        BY <3>3 DEF Counted
      <4>2. Tells(s, R)'
        BY <3>2, TellsKept
      <4>3. s = infos'[j].share /\ R = Sharers(j)'
        BY <1>1, <2>2, <3>1, <3>3, <4>1
      <4> QED BY <4>2, <4>3
    <3>4. CASE asked.access # {}
      <4>1. Tells(Counted(s, asked.access, asked.shared, 1), R \union {f})'
        BY <1>1, <1>2, <3>2, <3>4, TellsMore
      <4>2. /\ Counted(s, asked.access, asked.shared, 1) = infos'[j].share
            /\ R \union {f} = Sharers(j)'
        BY <1>1, <2>2, <3>1, <3>4
      <4>3. PICK w, V : w = Counted(s, asked.access, asked.shared, 1) /\ V = R \union {f}
        OBVIOUS
      <4>4. Tells(w, V)'
        BY <4>1, <4>3
      <4> QED BY <4>2, <4>3, <4>4
    <3> QED BY <3>3, <3>4
  <2> QED BY <2>1, <2>2
<1>8. ShareCountsExact'
  BY <1>7, SharesTold
<1> QED BY <1>6, <1>8

\* The count of one open more is still one.
LEMMA OneMoreIsShare ==
    ASSUME NEW s, NEW R, s \in Shares, Tells(s, R), NEW asked \in Asked,
           s.open = 0 \/ MayShare(s, asked)
    PROVE  Counted(s, asked.access, asked.shared, 1) \in Shares
<1> DEFINE w == Counted(s, asked.access, asked.shared, 1)
<1>1. CASE asked.access = {}
  BY <1>1 DEF Counted
<1>2. CASE asked.access # {}
  <2>1. OpenLimit \in Nat /\ OpenLimit > 0
    BY IoFileAssumption
  <2>2. s.open \in Nat /\ s.open < OpenLimit
    <3>1. s.open \in Nat
      BY DEF Shares
    <3> QED BY <1>2, <2>1, <3>1 DEF MayShare
  <2>3. ASSUME NEW r \in Rights
        PROVE  /\ s.access[r] \in Nat /\ s.shared[r] \in Nat
               /\ s.access[r] <= s.open /\ s.shared[r] <= s.open
    <3>0. s \in AnyShare /\ IsFiniteSet(R) /\ s.open = Cardinality(R)
      BY DEF Tells
    <3>1. /\ {f \in R : r \in files[f].access} \subseteq R
          /\ {f \in R : r \in files[f].shared} \subseteq R
      OBVIOUS
    <3>2. /\ Cardinality({f \in R : r \in files[f].access}) <= Cardinality(R)
          /\ Cardinality({f \in R : r \in files[f].shared}) <= Cardinality(R)
      BY <3>0, <3>1, FS_Subset
    <3>3. /\ s.access[r] = Cardinality({f \in R : r \in files[f].access})
          /\ s.shared[r] = Cardinality({f \in R : r \in files[f].shared})
      BY DEF Tells
    <3>4. s.access[r] \in Nat /\ s.shared[r] \in Nat
      BY <3>0 DEF AnyShare
    <3> QED BY <3>0, <3>2, <3>3, <3>4
  <2>4. s \in AnyShare
    BY DEF Tells
  <2>5. /\ w \in [open : Int, access : [Rights -> Int], shared : [Rights -> Int]]
        /\ w.open = s.open + 1
        /\ \A r \in Rights :
             /\ w.access[r] = s.access[r] + (IF r \in asked.access THEN 1 ELSE 0)
             /\ w.shared[r] = s.shared[r] + (IF r \in asked.shared THEN 1 ELSE 0)
    BY <1>2, <2>4, CountedIs
  <2> HIDE DEF w
  <2>6. w.open \in 0..OpenLimit
    BY <2>1, <2>2, <2>5
  <2>7. \A r \in Rights : w.access[r] \in 0..OpenLimit /\ w.shared[r] \in 0..OpenLimit
    BY <2>1, <2>2, <2>3, <2>5
  <2>8. w \in Shares
    BY <2>5, <2>6, <2>7 DEF Shares
  <2> QED BY <2>8 DEF w
<1> QED BY <1>1, <1>2

\* An open that succeeds, on a FATX_FILE_INFO that is n then.
LEMMA OpenedKeeps ==
    ASSUME NEW ph, NEW fl, Types, Good(ph, fl), NEW t \in Threads, At(t, "create"),
           NEW i \in Infos, NEW asked \in Asked, ToHandle(t, fl[t], i, asked),
           NEW n, NEW s, OneMoreOpen(n, i, s, asked), infos' = [infos EXCEPT ![i] = n],
           infos[i].state = "listed" \/ i \in {fl[t], Volume}, NamesApart',
           UNCHANGED <<deviceVars, crashed>>
    PROVE  IInv'
<1>0. Lists(ph, fl)
  BY DEF Good
<1>1. ph[t] = "create" /\ Moved(ph, fl, t, "handle", fl[t])
  BY <1>0, CreateMoves
<1>2. PICK f : f = fl[t]
  OBVIOUS
<1>3. /\ f \in Files /\ files[f].state = "live" /\ files[f].handles = 0
      /\ \A u \in Threads \ {t} : fl[u] # f
      /\ files[f].pointers = 1 /\ files[f].device
  BY <1>1, <1>2, BeginTable, AloneFacts
<1>4. /\ OpenInfos(ph, fl) /\ SharingHolds /\ ShareCountsExact
      /\ files[f].info = NoInfo /\ ~files[f].cleaned
  BY <1>1, <1>2, <1>3 DEF Good, OpenInfos, NothingYet
<1> DEFINE shared == IF asked.access = {} THEN {} ELSE asked.shared
<1>5. asked.access \subseteq Rights /\ shared \subseteq Rights /\ i # NoInfo /\ i \in Infos \union {NoInfo}
  BY IoFileAssumption DEF Infos
<1>6. /\ files[f] \in FileTypes /\ \A h \in Files \ {f} : files'[h] = files[h]
      /\ files'[f] = [files[f] EXCEPT !.info = i, !.pointers = 2, !.access = asked.access,
                                      !.shared = shared]
  <2>1. files[f] \in FileTypes /\ \A h \in Files \ {f} : files'[h] = files[h]
    BY <1>2, <1>3 DEF Types, ToHandle
  <2>2. files'[f] = [files[f] EXCEPT !.info = i, !.pointers = files[f].pointers + 1,
                                     !.access = asked.access, !.shared = shared]
    BY <1>2, <1>3 DEF Types, ToHandle
  <2>3. files[f].pointers + 1 = 2
    BY <1>3
  <2> HIDE DEF shared
  <2> QED BY <2>1, <2>2, <2>3
<1> HIDE DEF shared
<1>7. /\ files'[f].state = "live" /\ files'[f].pointers = 2 /\ files'[f].handles = 0
      /\ files'[f].device = files[f].device /\ files'[f].info = i
      /\ files'[f].access = asked.access /\ files'[f].shared = shared
      /\ files'[f].cleaned = files[f].cleaned /\ files'[f].handleCreated = files[f].handleCreated
      /\ files'[f].lockCount = files[f].lockCount /\ files'[f].lockSignal = files[f].lockSignal
  BY <1>3, <1>6 DEF FileTypes
<1>8. /\ n \in [state : {"listed"}, name : Names \union {Volume}, references : Nat,
                share : {Counted(s, asked.access, asked.shared, 1)}, deleteOnClose : BOOLEAN]
      /\ n.references >= Cardinality(Openers(i)) + 1
      /\ s \in Shares /\ Tells(s, Sharers(i)) /\ (s.open = 0 \/ MayShare(s, asked))
  BY DEF OneMoreOpen
<1>9. Types'
  <2>1. files'[f] \in FileTypes
    <3>1. /\ i \in Infos \union {NoInfo} /\ 2 \in Nat
          /\ asked.access \in SUBSET Rights /\ shared \in SUBSET Rights
      BY <1>5
    <3>2. PICK a, b : a = asked.access /\ b = shared
      OBVIOUS
    <3>3. files'[f] = [files[f] EXCEPT !.info = i, !.pointers = 2, !.access = a, !.shared = b]
      BY <1>6, <3>2
    <3>4. a \in SUBSET Rights /\ b \in SUBSET Rights
      BY <3>1, <3>2
    <3> QED BY <1>6, <3>1, <3>3, <3>4 DEF FileTypes
  <2>2. files' \in [Files -> FileTypes]
    BY <1>2, <1>6, <2>1 DEF Types, ToHandle
  <2>3. Counted(s, asked.access, asked.shared, 1) \in Shares
    BY <1>8, OneMoreIsShare
  <2>4. n \in InfoTypes
    BY <1>8, <2>3 DEF InfoTypes
  <2>5. infos' \in [Infos -> InfoTypes]
    BY <2>4 DEF Types
  <2> QED BY <2>2, <2>5 DEF Types, deviceVars
<1>10. PICK p2, f2 : Shift(ph, fl, t, "handle", f, p2, f2) /\ Lists(p2, f2)'
  BY <1>0, <1>1, <1>2, MovedShift
<1>11. /\ p2[t] = "handle" /\ f2[t] = f /\ \A u \in Threads \ {t} : p2[u] = ph[u] /\ f2[u] = fl[u]
  BY <1>10 DEF Shift
<1>12. \A u \in Threads \ {t} : f2[u] # f
  BY <1>3, <1>11
<1>13. LifeOf(p2, f2, f)'
  BY <1>3, <1>7, <1>11, <1>12, BeginTable DEF LifeOf
<1>14. Locks(p2, f2)'
  <2>1. (ph[t] \in Owning <=> "handle" \in Owning) /\ Claims(ph[t]) = Claims("handle")
    BY <1>1, BeginTable
  <2>2. /\ fl[t] = f /\ f \in Files /\ \A h \in Files \ {f} : files'[h] = files[h]
        /\ files'[f].lockCount = files[f].lockCount /\ files'[f].lockSignal = files[f].lockSignal
    BY <1>2, <1>3, <1>6, <1>7
  <2> HIDE <1>2
  <2> QED BY <1>10, <2>1, <2>2, SameLocks
<1>15. VolumeBalanced(ph[t], "handle", f)
  <2>1. references \in Nat
    BY DEF Types
  <2>2. references' = references /\ references \in Int
    BY <2>1 DEF deviceVars
  <2>3. HasVolume(f)' /\ HasVolume(f)
    BY <1>3, <1>7 DEF HasVolume
  <2>4. ph[t] \notin Volumed /\ "handle" \notin Volumed
    BY <1>1, BeginTable
  <2> QED BY <2>2, <2>3, <2>4 DEF VolumeBalanced, Bit
<1>16. PointersFollow(ph[t], f, "handle", f)
  <2>1. RefsOf(ph[t], f, f) = 1 /\ RefsOf("handle", f, f) = 2
    BY <1>1, BeginTable DEF RefsOf
  <2>2. ASSUME NEW h \in Files, h # f
        PROVE  /\ RefsOf("handle", f, h) - RefsOf(ph[t], f, h) = 0
               /\ files'[h].pointers - files'[h].handles - (files[h].pointers - files[h].handles) = 0
    <3>1. files[h] \in FileTypes /\ files'[h] = files[h]
      BY <1>6, <2>2 DEF Types
    <3>2. files[h].pointers \in Nat /\ files[h].handles \in Nat
      BY <3>1 DEF FileTypes
    <3>3. RefsOf("handle", f, h) = 0 /\ RefsOf(ph[t], f, h) = 0
      BY <2>2 DEF RefsOf
    <3>4. files'[h].pointers = files[h].pointers /\ files'[h].handles = files[h].handles
      BY <3>1
    <3> QED BY <3>2, <3>3, <3>4
  <2>3. files'[f].pointers - files'[f].handles - (files[f].pointers - files[f].handles) = 1
    BY <1>3, <1>7
  <2> QED BY <2>1, <2>2, <2>3 DEF PointersFollow
<1>17. \A h \in Files \ {f} :
              /\ Standing(p2, f2, h)' <=> Standing(ph, fl, h)
              /\ IsOpen(h)' <=> IsOpen(h)
              /\ SameInFatx(h)
  <2>1. fl[t] \in {f, NoInfo} /\ f \in {f, NoInfo}
    BY <1>2
  <2> QED BY <1>0, <1>3, <1>6, <1>10, <2>1, OthersUsed
<1>18. Joins(f, i, asked)
  <2>1. ~IsOpen(f)
    BY <1>4 DEF IsOpen
  <2>2. Open(p2, f2, f)'
    BY <1>3, <1>5, <1>7 DEF Open, Used
  <2>3. IsOpen(f)'
    BY <1>3, <1>10, <2>2, IsOpenNext
  <2>4. \A h \in Files \ {f} : SameWhenOpen(h)
    BY <1>17 DEF SameInFatx, SameWhenOpen
  <2>5. files'[f].shared = IF asked.access = {} THEN {} ELSE asked.shared
    BY <1>7 DEF shared
  <2> QED BY <1>3, <1>4, <1>7, <2>1, <2>3, <2>4, <2>5 DEF Joins
<1>19. SharingHolds' /\ ShareCountsExact'
  <2>1. PICK R : R = Sharers(i)
    OBVIOUS
  <2>2. ListedWhileOpen /\ n.share = Counted(s, asked.access, asked.shared, 1)
    BY <1>4, <1>8 DEF OpenInfos
  <2>3. s \in Shares /\ Tells(s, R) /\ (s.open = 0 \/ MayShare(s, asked))
    BY <1>8, <2>1
  <2> QED BY <1>4, <1>9, <1>18, <2>1, <2>2, <2>3, JoinsSharing
<1>20. OpenInfos(p2, f2)'
  <2>0. infos'[i] = n /\ \A j \in Infos \ {i} : infos'[j] = infos[j]
    BY DEF Types
  <2>1. ListedWhileOpen'
    <3>1. /\ \A j : j # i => Openers(j)' = Openers(j)
          /\ f \notin Openers(i) /\ Openers(i)' = Openers(i) \union {f}
      BY <1>18, JoinsSets
    <3>2. \A j \in Infos : IsFiniteSet(Openers(j))
      BY <1>4 DEF OpenInfos, ListedWhileOpen
    <3>3. IsFiniteSet(Openers(i)') /\ Cardinality(Openers(i)') = Cardinality(Openers(i)) + 1
      BY <3>1, <3>2, FS_AddElement
    <3>4. \A j \in Infos : IsFiniteSet(Openers(j)')
      BY <3>1, <3>2, <3>3
    <3>5. ASSUME NEW h \in Files, IsOpen(h)'
          PROVE  \E j : /\ j = files'[h].info /\ infos'[j].state = "listed"
                        /\ infos'[j].references >= Cardinality(Openers(j)')
      <4>1. CASE files'[h].info = i
        <5>1. /\ infos'[i].state = "listed"
              /\ infos'[i].references >= Cardinality(Openers(i)')
          BY <1>8, <2>0, <3>3
        <5> QED BY <4>1, <5>1
      <4>2. CASE files'[h].info # i
        <5>1. h # f /\ IsOpen(h) /\ files'[h].info = files[h].info
          BY <1>6, <1>7, <1>17, <3>5, <4>2
        <5>2. PICK j : j = files[h].info
          OBVIOUS
        <5>3. j \in Infos /\ j # i
          <6>1. files[h] \in FileTypes
            BY DEF Types
          <6> QED BY <4>2, <5>1, <5>2, <6>1 DEF FileTypes, IsOpen
        <5>4. infos[j].state = "listed" /\ infos[j].references >= Cardinality(Openers(j))
          BY <1>4, <5>1, <5>2 DEF OpenInfos, ListedWhileOpen
        <5>5. infos'[j].state = "listed" /\ infos'[j].references >= Cardinality(Openers(j)')
          BY <2>0, <3>1, <5>3, <5>4
        <5> QED BY <5>1, <5>2, <5>5
      <4> QED BY <4>1, <4>2
    <3> QED BY <3>4, <3>5, ListedWhileOpenNext
  <2>2. HasInfo(p2, f2)'
    <3>1. ASSUME NEW h \in Files, Standing(p2, f2, h)'
          PROVE  files'[h].info # NoInfo \/ \E u \in Threads : f2[u] = h /\ p2[u] = "create"
      <4>1. CASE h = f
        BY <1>5, <1>7, <4>1
      <4>2. CASE h # f
        <5>1. Standing(ph, fl, h) /\ files'[h].info = files[h].info
          BY <1>17, <3>1, <4>2 DEF SameInFatx
        <5>2. files[h].info # NoInfo \/ \E u \in Threads : fl[u] = h /\ ph[u] = "create"
          BY <1>4, <5>1 DEF OpenInfos, HasInfo, Standing
        <5> QED BY <1>2, <1>11, <4>2, <5>1, <5>2
      <4> QED BY <4>1, <4>2
    <3> QED BY <3>1 DEF HasInfo, Standing
  <2>3. NothingYet(p2, f2)'
    <3>1. ASSUME NEW h \in Files,
                 files'[h].state = "unborn" \/ \E u \in Threads : f2[u] = h /\ p2[u] = "create"
          PROVE  infos'[h].state = "none" /\ files'[h].info = NoInfo /\ ~files'[h].cleaned
      <4>1. h # f
        BY <1>7, <1>11, <1>12, <3>1
      <4>2. files'[h] = files[h]
        BY <1>6, <4>1
      <4>3. files[h].state = "unborn" \/ \E u \in Threads : fl[u] = h /\ ph[u] = "create"
        BY <1>11, <3>1, <4>2
      <4>4. infos[h].state = "none" /\ files[h].info = NoInfo /\ ~files[h].cleaned
        BY <1>4, <4>3 DEF OpenInfos, NothingYet
      <4>5. h # i
        BY <1>2, <4>1, <4>4, IoFileAssumption
      <4>6. infos'[h] = infos[h]
        BY <2>0, <4>5 DEF Infos
      <4> QED BY <4>2, <4>4, <4>6
    <3> QED BY <3>1 DEF NothingYet
  <2> QED BY <2>1, <2>2, <2>3 DEF OpenInfos
<1>21. UNCHANGED <<volumes, mounting>> /\ "mount" \notin {ph[t], "handle"}
       /\ fl[t] \in {f, NoInfo} /\ f \in {f, NoInfo}
  BY <1>1, <1>2 DEF deviceVars
<1> QED BY <1>2, <1>3, <1>6, <1>9, <1>10, <1>13, <1>14, <1>15, <1>16, <1>19, <1>20, <1>21, FileStep

\* Nobody has a file open whose FATX_FILE_INFO is off the list; others have no
\* more openers than references.
LEMMA OpenersCounted ==
    ASSUME Types, ListedWhileOpen, NEW i \in Infos
    PROVE  /\ infos[i].state # "listed" => Openers(i) = {} /\ Sharers(i) = {}
           /\ IsFiniteSet(Openers(i)) /\ infos[i].references \in Nat
           /\ infos[i].references >= Cardinality(Openers(i))
<1>1. IsFiniteSet(Openers(i))
  BY DEF ListedWhileOpen
<1>2. infos[i].references \in Nat
  <2>1. infos[i] \in InfoTypes
    BY DEF Types
  <2> QED BY <2>1 DEF InfoTypes
<1>3. Sharers(i) \subseteq Openers(i)
  BY DEF Sharers, Openers
<1>4. \A f \in Openers(i) : infos[i].state = "listed" /\ infos[i].references >= Cardinality(Openers(i))
  BY DEF Openers, ListedWhileOpen
<1>5. Openers(i) = {} => Cardinality(Openers(i)) = 0
  BY FS_EmptySet
<1>6. infos[i].state # "listed" => Openers(i) = {}
  BY <1>4
<1> QED BY <1>1, <1>2, <1>3, <1>4, <1>5, <1>6

\* Nothing is counted at first.
LEMMA NoShareIs ==
    NoShare \in Shares /\ NoShare.open = 0 /\ Tells(NoShare, {})
<1>1. 0 \in 0..OpenLimit
  BY IoFileAssumption
<1> QED BY <1>1, NobodyTells DEF NoShare, Shares

\* FatxIrpCreate of a file nobody has open.
LEMMA CreateNewKeeps ==
    ASSUME NEW ph, NEW fl, Types, Good(ph, fl), NEW t \in Threads, FatxIrpCreateNew(t)
    PROVE  IInv'
<1>1. At(t, "create") /\ UNCHANGED <<deviceVars, crashed>>
  BY DEF FatxIrpCreateNew
<1>2. /\ Current(t) = fl[t] /\ fl[t] \in Files /\ ph[t] = "create"
  BY <1>1, CreateMoves DEF Good
<1>3. PICK name \in Names, asked \in Asked, delete \in BOOLEAN :
         /\ Listed(name) = {}
         /\ infos' = [infos EXCEPT ![fl[t]] =
                [NewInfo(name) EXCEPT !.references = 1, !.deleteOnClose = delete,
                                         !.share = Opened(NoShare, asked)]]
         /\ ToHandle(t, fl[t], fl[t], asked)
  BY <1>2 DEF FatxIrpCreateNew
<1>4. PICK n : n = [NewInfo(name) EXCEPT !.references = 1, !.deleteOnClose = delete,
                                         !.share = Opened(NoShare, asked)]
  OBVIOUS
<1>5. /\ n.state = "listed" /\ n.name = name
      /\ n \in [state : {"listed"}, name : Names \union {Volume}, references : Nat,
                share : {Counted(NoShare, asked.access, asked.shared, 1)}, deleteOnClose : BOOLEAN]
      /\ n.references = 1
  <2>1. Opened(NoShare, asked) = Counted(NoShare, asked.access, asked.shared, 1)
    BY DEF Opened
  <2> QED BY <1>4, <2>1 DEF NewInfo
<1>6. fl[t] \in Infos /\ infos[fl[t]].state = "none"
  BY <1>2 DEF Infos, Good, OpenInfos, NothingYet
<1>7. OneMoreOpen(n, fl[t], NoShare, asked)
  <2>1. Openers(fl[t]) = {} /\ Sharers(fl[t]) = {}
    BY <1>6, OpenersCounted DEF Good, OpenInfos
  <2>2. n.references >= Cardinality(Openers(fl[t])) + 1
    BY <1>5, <2>1, FS_EmptySet
  <2> QED BY <1>5, <2>1, <2>2, NoShareIs DEF OneMoreOpen
<1>8. infos' = [infos EXCEPT ![fl[t]] = n]
  BY <1>3, <1>4
<1>9. NamesApart'
  <2>1. PICK f : f = fl[t]
    OBVIOUS
  <2>2. infos'[f] = n /\ \A j \in Infos \ {f} : infos'[j] = infos[j]
    BY <1>6, <1>8, <2>1 DEF Types
  <2>3. /\ f \in Files /\ f # Volume /\ Volume \in Infos /\ name # Volume /\ n.state = "listed"
        /\ n.name = name
    BY <1>2, <1>5, <2>1, IoFileAssumption DEF Infos
  <2>4. \A j \in Infos : ~(infos[j].state = "listed" /\ infos[j].name = name)
    BY <1>3 DEF Listed
  <2>5. NamesApart
    BY DEF Good, OpenInfos
  <2>6. /\ infos'[Volume].name = Volume
        /\ \A h \in Files : infos'[h].state = "listed" => infos'[h].name # Volume
    BY <2>2, <2>3, <2>5 DEF NamesApart, Infos
  <2>7. \A j, k \in Infos :
          infos'[j].state = "listed" /\ infos'[k].state = "listed" /\ infos'[j].name = infos'[k].name
             => j = k
    BY <2>2, <2>3, <2>4, <2>5 DEF NamesApart
  <2>8. /\ infos'[Volume].state # "freed"
        /\ infos'[Volume].state = "none" => infos'[Volume].share.open = 0
    BY <2>2, <2>3, <2>5 DEF NamesApart
  <2> QED BY <2>6, <2>7, <2>8 DEF NamesApart
<1> QED BY <1>1, <1>3, <1>6, <1>7, <1>8, <1>9, OpenedKeeps

\* FatxIrpCreate of a file that is open.
LEMMA CreateAgainKeeps ==
    ASSUME NEW ph, NEW fl, Types, Good(ph, fl), NEW t \in Threads, FatxIrpCreateAgain(t)
    PROVE  IInv'
<1>1. At(t, "create") /\ UNCHANGED <<deviceVars, crashed>>
  BY DEF FatxIrpCreateAgain
<1>2. /\ Current(t) = fl[t] /\ fl[t] \in Files /\ ph[t] = "create"
  BY <1>1, CreateMoves DEF Good
<1>3. PICK name \in Names, asked \in Asked : \E i \in Listed(name) :
         /\ Admits(i, asked)
         /\ infos' = [infos EXCEPT ![i].references = @ + 1, ![i].share = Opened(@, asked)]
         /\ ToHandle(t, fl[t], i, asked)
  BY <1>2 DEF FatxIrpCreateAgain
<1>4. PICK i \in Listed(name) :
         /\ Admits(i, asked)
         /\ infos' = [infos EXCEPT ![i].references = @ + 1, ![i].share = Opened(@, asked)]
         /\ ToHandle(t, fl[t], i, asked)
  BY <1>3
<1>5. i \in Infos /\ infos[i].state = "listed"
  BY DEF Listed
<1>6. infos[i] \in InfoTypes /\ infos \in [Infos -> InfoTypes]
  BY <1>5 DEF Types
<1>7. ListedWhileOpen /\ ShareCountsExact
  BY DEF Good, OpenInfos
<1>8. PICK s : s = infos[i].share
  OBVIOUS
<1>9. s \in Shares /\ Tells(s, Sharers(i))
  BY <1>5, <1>7, <1>8, ListedTells
<1>10. Opened(s, asked) = Counted(s, asked.access, asked.shared, 1)
  <2>1. s.open = 0 => s = NoShare
    BY <1>9, NobodyTells
  <2> QED BY <2>1 DEF Opened
<1>11. PICK n : n = [infos[i] EXCEPT !.references = infos[i].references + 1, !.share = Opened(s, asked)]
  OBVIOUS
<1>12. infos' = [infos EXCEPT ![i] = n]
  BY <1>4, <1>5, <1>6, <1>8, <1>11 DEF InfoTypes
<1>13. /\ n.state = "listed" /\ n.name = infos[i].name
       /\ n \in [state : {"listed"}, name : Names \union {Volume}, references : Nat,
                 share : {Counted(s, asked.access, asked.shared, 1)}, deleteOnClose : BOOLEAN]
       /\ n.references = infos[i].references + 1
  <2>1. infos[i].references + 1 \in Nat
    BY <1>6 DEF InfoTypes
  <2>2. PICK m, w : m = infos[i].references + 1 /\ w = Counted(s, asked.access, asked.shared, 1)
    OBVIOUS
  <2>3. n = [infos[i] EXCEPT !.references = m, !.share = w] /\ m \in Nat
    BY <1>10, <1>11, <2>1, <2>2
  <2>4. /\ n.state = "listed" /\ n.name = infos[i].name /\ n.references = m
        /\ n \in [state : {"listed"}, name : Names \union {Volume}, references : Nat,
                  share : {w}, deleteOnClose : BOOLEAN]
    BY <1>5, <1>6, <2>3 DEF InfoTypes
  <2> QED BY <2>2, <2>4
<1>14. OneMoreOpen(n, i, s, asked)
  <2>1. n.references >= Cardinality(Openers(i)) + 1
    <3>1. /\ infos[i].references \in Nat /\ infos[i].references >= Cardinality(Openers(i))
          /\ IsFiniteSet(Openers(i))
      BY <1>5, <1>7, OpenersCounted
    <3>2. Cardinality(Openers(i)) \in Nat
      BY <3>1, FS_CardinalityType
    <3> QED BY <1>13, <3>1, <3>2
  <2>2. s.open = 0 \/ MayShare(s, asked)
    BY <1>4, <1>8 DEF Admits
  <2> QED BY <1>9, <1>13, <2>1, <2>2 DEF OneMoreOpen
<1>15. NamesApart'
  <2>1. infos'[i] = n /\ \A j \in Infos \ {i} : infos'[j] = infos[j]
    BY <1>5, <1>6, <1>12
  <2>2. \A j \in Infos : infos'[j].state = infos[j].state /\ infos'[j].name = infos[j].name
    BY <1>5, <1>13, <2>1
  <2>3. infos'[Volume].state = "none" => infos'[Volume].share = infos[Volume].share
    BY <1>13, <2>1, <2>2 DEF Infos
  <2>4. NamesApart
    BY DEF Good, OpenInfos
  <2> QED BY <2>2, <2>3, <2>4 DEF NamesApart, Infos
<1> QED BY <1>1, <1>4, <1>5, <1>12, <1>14, <1>15, OpenedKeeps

\* FatxIrpCreate of the volume itself.
LEMMA CreateVolumeKeeps ==
    ASSUME NEW ph, NEW fl, Types, Good(ph, fl), NEW t \in Threads, FatxIrpCreateVolume(t)
    PROVE  IInv'
<1>1. At(t, "create") /\ UNCHANGED <<deviceVars, crashed>> /\ infos[Volume].state = "none"
  BY DEF FatxIrpCreateVolume
<1>2. /\ Current(t) = fl[t] /\ fl[t] \in Files /\ ph[t] = "create"
  BY <1>1, CreateMoves DEF Good
<1>3. PICK asked \in Asked :
         /\ infos' = [infos EXCEPT ![Volume] =
                [infos[Volume] EXCEPT !.state = "listed", !.references = @ + 1,
                                      !.share = Opened(@, asked)]]
         /\ ToHandle(t, fl[t], Volume, asked)
  BY <1>2 DEF FatxIrpCreateVolume
<1>4. Volume \in Infos /\ infos[Volume] \in InfoTypes
  BY DEF Types, Infos
<1>5. ListedWhileOpen /\ NamesApart
  BY DEF Good, OpenInfos
<1>6. Opened(infos[Volume].share, asked) = Counted(NoShare, asked.access, asked.shared, 1)
  BY <1>1, <1>5 DEF NamesApart, Opened
<1>7. PICK n : n = [infos[Volume] EXCEPT !.state = "listed", !.references = infos[Volume].references + 1,
                                         !.share = Counted(NoShare, asked.access, asked.shared, 1)]
  OBVIOUS
<1>8. infos' = [infos EXCEPT ![Volume] = n]
  <2>1. infos' = [infos EXCEPT ![Volume] =
          [infos[Volume] EXCEPT !.state = "listed", !.references = @ + 1, !.share = Opened(@, asked)]]
    BY <1>3
  <2> QED BY <1>6, <1>7, <2>1
<1>9. /\ n.state = "listed" /\ n.name = infos[Volume].name
      /\ n \in [state : {"listed"}, name : Names \union {Volume}, references : Nat,
                share : {Counted(NoShare, asked.access, asked.shared, 1)}, deleteOnClose : BOOLEAN]
      /\ n.references = infos[Volume].references + 1
  <2>1. infos[Volume].references + 1 \in Nat
    BY <1>4 DEF InfoTypes
  <2>2. PICK m, w : m = infos[Volume].references + 1 /\ w = Counted(NoShare, asked.access, asked.shared, 1)
    OBVIOUS
  <2>3. n = [infos[Volume] EXCEPT !.state = "listed", !.references = m, !.share = w] /\ m \in Nat
    BY <1>7, <2>1, <2>2
  <2>4. /\ n.state = "listed" /\ n.name = infos[Volume].name /\ n.references = m
        /\ n \in [state : {"listed"}, name : Names \union {Volume}, references : Nat,
                  share : {w}, deleteOnClose : BOOLEAN]
    BY <1>4, <2>3 DEF InfoTypes
  <2> QED BY <2>2, <2>4
<1>10. OneMoreOpen(n, Volume, NoShare, asked)
  <2>1. Openers(Volume) = {} /\ Sharers(Volume) = {} /\ infos[Volume].references \in Nat
    BY <1>1, <1>4, <1>5, OpenersCounted
  <2>2. n.references >= Cardinality(Openers(Volume)) + 1
    BY <1>9, <2>1, FS_EmptySet
  <2> QED BY <1>9, <2>1, <2>2, NoShareIs DEF OneMoreOpen
<1>11. NamesApart'
  <2>1. infos'[Volume] = n /\ \A j \in Infos \ {Volume} : infos'[j] = infos[j]
    BY <1>4, <1>8 DEF Types
  <2>2. /\ infos[Volume].name = Volume
        /\ \A h \in Files : infos[h].state = "listed" => infos[h].name # Volume
        /\ \A i, j \in Infos :
             infos[i].state = "listed" /\ infos[j].state = "listed" /\ infos[i].name = infos[j].name
                 => i = j
    BY <1>5 DEF NamesApart
  <2>3. \A h \in Files : h # Volume /\ h \in Infos
    BY IoFileAssumption DEF Infos
  <2>4. /\ infos'[Volume].name = Volume /\ infos'[Volume].state = "listed"
        /\ \A h \in Files : infos'[h].state = "listed" => infos'[h].name # Volume
    BY <1>9, <2>1, <2>2, <2>3
  <2>5. ASSUME NEW j \in Infos, NEW k \in Infos,
               infos'[j].state = "listed", infos'[k].state = "listed", infos'[j].name = infos'[k].name
        PROVE  j = k
    <3>1. Infos = Files \union {Volume}
      BY DEF Infos
    <3>2. CASE j = Volume \/ k = Volume
      BY <2>4, <2>5, <3>1, <3>2
    <3>3. CASE j # Volume /\ k # Volume
      BY <2>1, <2>2, <2>5, <3>3
    <3> QED BY <3>2, <3>3
  <2> QED BY <2>4, <2>5 DEF NamesApart
<1> QED BY <1>1, <1>3, <1>4, <1>8, <1>10, <1>11, OpenedKeeps

-----------------------------------------------------------------------------
(* Cleanup and close.                                                       *)

\* The phases of a file's end in FATX.
LEMMA FatxTable ==
    /\ \A y \in {"cleanup", "release", "close", "volume"} :
         /\ y \notin PrivatePhases \union RefusedPhases \union OpeningPhases
         /\ y \in Owning /\ Claims(y) = 1
    /\ \A y \in {"cleanup", "release"} : Refs(y) = 1 /\ y \notin Deleting \union Volumed \union Closing
    /\ \A y \in {"close", "volume"} :
         Refs(y) = 0 /\ y \in Deleting /\ y \in Volumed /\ y \notin CleaningOrNew
    /\ "close" \in Closing /\ "volume" \notin Closing
    /\ \A y \in Cleaning : Refs(y) = 1
    /\ CleaningOrNew = Cleaning \union {"create", "handle"}
    /\ {"create", "handle"} \subseteq PrivatePhases
<1> USE DEF PrivatePhases, RefusedPhases, OpeningPhases, Deleting, Cleaning,
            CleaningOrNew, Volumed, Closing, Refs, Referring, Claims, Claiming, Waiting, Entered,
            Signalling, Owning
<1>1. /\ \A y \in {"cleanup", "release", "close", "volume"} :
           /\ y \notin PrivatePhases \union RefusedPhases \union OpeningPhases
           /\ y \in Owning /\ Claims(y) = 1
      /\ \A y \in {"cleanup", "release"} : Refs(y) = 1 /\ y \notin Deleting \union Volumed \union Closing
  OBVIOUS
<1>2. /\ \A y \in {"close", "volume"} :
           Refs(y) = 0 /\ y \in Deleting /\ y \in Volumed /\ y \notin CleaningOrNew
      /\ "close" \in Closing /\ "volume" \notin Closing
      /\ \A y \in Cleaning : Refs(y) = 1
      /\ {"create", "handle"} \subseteq PrivatePhases
  OBVIOUS
<1>3. CleaningOrNew = Cleaning \union {"create", "handle"}
  BY DEF CleaningOrNew
<1> QED BY <1>1, <1>2, <1>3

\* Counts that tell are of the right type, if not too many.
LEMMA TellsBoundNext ==
    \A s, S : Tells(s, S)' /\ s.open <= OpenLimit => s \in Shares
<1>1. (\A s, S : Tells(s, S) /\ s.open <= OpenLimit => s \in Shares)'
  BY TellsBound, PTL
<1> QED BY <1>1

\* f no longer shares what it has open as i.
Leaves(f, i) ==
    /\ f \in Files /\ \A h \in Files \ {f} : SameWhenOpen(h)
    /\ IsOpen(f) /\ IsOpen(f)' /\ files'[f].info = files[f].info /\ files[f].info = i
    /\ ~files[f].cleaned /\ files'[f].cleaned
    /\ files'[f].access = files[f].access /\ files'[f].shared = files[f].shared

\* Who has the files open, then.
LEMMA LeavesSets ==
    ASSUME NEW f, NEW i, Leaves(f, i)
    PROVE  /\ \A j : Openers(j)' = Openers(j)
           /\ \A j : j # i => Sharers(j)' = Sharers(j)
           /\ Sharers(i)' = Sharers(i) \ {f}
           /\ files[f].access # {} => f \in Sharers(i)
           /\ files[f].access = {} => f \notin Sharers(i)
           /\ \A j : \A h \in Sharers(j) :
                files'[h].access = files[h].access /\ files'[h].shared = files[h].shared
<1>1. /\ f \in Files /\ \A h \in Files \ {f} : IsOpen(h)' <=> IsOpen(h)
      /\ \A h \in Files \ {f} : IsOpen(h) =>
            /\ files'[h].info = files[h].info /\ files'[h].access = files[h].access
            /\ files'[h].shared = files[h].shared /\ files'[h].cleaned = files[h].cleaned
      /\ IsOpen(f) /\ IsOpen(f)' /\ files'[f].info = i /\ files[f].info = i
      /\ ~files[f].cleaned /\ files'[f].cleaned
      /\ files'[f].access = files[f].access /\ files'[f].shared = files[f].shared
  BY DEF Leaves, SameWhenOpen
<1>2. \A j : /\ \A h : h \in Openers(j) <=> h \in Files /\ IsOpen(h) /\ files[h].info = j
             /\ \A h : h \in Openers(j)' <=> h \in Files /\ IsOpen(h)' /\ files'[h].info = j
  BY DEF Openers
<1>3. \A j : /\ \A h : h \in Sharers(j) <=> /\ h \in Files /\ IsOpen(h) /\ files[h].info = j
                                            /\ ~files[h].cleaned /\ files[h].access # {}
             /\ \A h : h \in Sharers(j)' <=> /\ h \in Files /\ IsOpen(h)' /\ files'[h].info = j
                                            /\ ~files'[h].cleaned /\ files'[h].access # {}
  BY DEF Sharers
<1>4. ASSUME NEW j PROVE Openers(j)' = Openers(j)
  <2>1. \A h : h \in Openers(j)' <=> h \in Openers(j)
    BY <1>1, <1>2
  <2> QED BY <2>1
<1>5. ASSUME NEW j, j # i PROVE Sharers(j)' = Sharers(j)
  <2>1. \A h : h \in Sharers(j)' <=> h \in Sharers(j)
    BY <1>1, <1>3, <1>5
  <2> QED BY <2>1
<1>6. Sharers(i)' = Sharers(i) \ {f}
  <2>1. \A h : h \in Sharers(i)' <=> h \in Sharers(i) \ {f}
    BY <1>1, <1>3
  <2> QED BY <2>1
<1>7. (files[f].access # {} => f \in Sharers(i)) /\ (files[f].access = {} => f \notin Sharers(i))
  BY <1>1, <1>3
<1>8. \A j : \A h \in Sharers(j) :
                files'[h].access = files[h].access /\ files'[h].shared = files[h].shared
  BY <1>1, <1>3
<1> QED BY <1>4, <1>5, <1>6, <1>7, <1>8

\* Sharing stays as it is, and is counted right, when f is cleaned up.
LEMMA LeavesSharing ==
    ASSUME Types, ListedWhileOpen, SharingHolds, ShareCountsExact,
           NEW f, NEW i \in Infos, Leaves(f, i), NEW s, s = infos[i].share, NEW w,
           w = Counted(s, files[f].access, files[f].shared, -1),
           infos' = [infos EXCEPT ![i].share = w]
    PROVE  SharingHolds' /\ ShareCountsExact' /\ w \in Shares
<1>1. /\ \A j : j # i => Sharers(j)' = Sharers(j)
      /\ Sharers(i)' = Sharers(i) \ {f}
      /\ files[f].access # {} => f \in Sharers(i)
      /\ files[f].access = {} => f \notin Sharers(i)
      /\ \A j : \A h \in Sharers(j) :
           files'[h].access = files[h].access /\ files'[h].shared = files[h].shared
  BY LeavesSets
<1>2. SharingHolds'
  BY <1>1 DEF SharingHolds
<1>3. infos[i].state = "listed"
  BY DEF Leaves, ListedWhileOpen
<1>4. s \in Shares /\ Tells(s, Sharers(i))
  BY <1>3, ListedTells
<1>5. PICK R : R = Sharers(i)
  OBVIOUS
<1>6. PICK a, sh : a = files[f].access /\ sh = files[f].shared
  OBVIOUS
<1>7. Tells(w, R \ {f})' /\ w.open <= OpenLimit
  <2>0. /\ \A h \in R : files'[h].access = files[h].access /\ files'[h].shared = files[h].shared
        /\ Tells(s, R) /\ s \in AnyShare /\ s.open \in Nat /\ s.open <= OpenLimit
    BY <1>1, <1>4, <1>5, IoFileAssumption DEF Tells, Shares
  <2>1. CASE a = {}
    <3>1. w = s /\ R \ {f} = R
      BY <1>1, <1>5, <1>6, <2>1 DEF Counted
    <3>2. Tells(s, R)'
      BY <2>0, TellsKept
    <3> QED BY <2>0, <3>1, <3>2
  <2>2. CASE a # {}
    <3>1. Tells(Counted(s, a, sh, -1), R \ {f})'
      BY <1>1, <1>5, <1>6, <2>0, <2>2, TellsFewer
    <3>2. w = Counted(s, a, sh, -1)
      BY <1>6
    <3>3. w.open = s.open + (-1)
      BY <2>0, <2>2, <3>2, CountedIs
    <3>4. w.open <= OpenLimit
      BY <2>0, <3>3, IoFileAssumption
    <3> QED BY <3>1, <3>2, <3>4
  <2> QED BY <2>1, <2>2
<1>8. w \in Shares
  BY <1>7, TellsBoundNext
<1>9. ASSUME NEW j \in Infos, infos'[j].state = "listed"
      PROVE  \E v, V : v = infos'[j].share /\ V = Sharers(j)' /\ Tells(v, V)'
  <2>1. CASE j # i
    <3>1. infos'[j] = infos[j]
      BY <2>1 DEF Types
    <3>2. PICK v, V : v = infos[j].share /\ V = Sharers(j)
      OBVIOUS
    <3>3. Tells(v, V)
      BY <1>9, <3>1, <3>2, ListedTells
    <3>4. \A h \in V : files'[h].access = files[h].access /\ files'[h].shared = files[h].shared
      BY <1>1, <3>2
    <3>5. Tells(v, V)'
      BY <3>3, <3>4, TellsKept
    <3>6. v = infos'[j].share /\ V = Sharers(j)'
      BY <1>1, <2>1, <3>1, <3>2
    <3> QED BY <3>5, <3>6
  <2>2. CASE j = i
    <3>1. infos'[i].share = w
      <4>1. infos[i] \in InfoTypes /\ infos'[i] = [infos[i] EXCEPT !.share = w]
        BY DEF Types
      <4> QED BY <4>1 DEF InfoTypes
    <3>2. w = infos'[j].share /\ R \ {f} = Sharers(j)'
      BY <1>1, <1>5, <2>2, <3>1
    <3>3. PICK V : V = R \ {f}
      OBVIOUS
    <3> QED BY <1>7, <3>2, <3>3
  <2> QED BY <2>1, <2>2
<1>10. ShareCountsExact'
  BY <1>9, SharesTold
<1> QED BY <1>2, <1>8, <1>10

\* A FATX_FILE_INFO of which the share counts change, as they do at a cleanup.
LEMMA ShareOnly ==
    ASSUME Types, NEW i \in Infos, NEW w, infos' = [infos EXCEPT ![i].share = w]
    PROVE  \A j \in Infos :
              /\ infos'[j].state = infos[j].state /\ infos'[j].name = infos[j].name
              /\ infos'[j].references = infos[j].references
              /\ infos'[j].deleteOnClose = infos[j].deleteOnClose
              /\ j # i => infos'[j] = infos[j]
              /\ j = i => infos'[j].share = w
<1> SUFFICES ASSUME NEW j \in Infos
             PROVE  /\ infos'[j].state = infos[j].state /\ infos'[j].name = infos[j].name
                    /\ infos'[j].references = infos[j].references
                    /\ infos'[j].deleteOnClose = infos[j].deleteOnClose
                    /\ j # i => infos'[j] = infos[j]
                    /\ j = i => infos'[j].share = w
  OBVIOUS
<1>1. CASE j # i
  BY <1>1 DEF Types
<1>2. CASE j = i
  <2>1. infos[i] \in InfoTypes /\ infos'[i] = [infos[i] EXCEPT !.share = w]
    BY DEF Types
  <2> QED BY <1>2, <2>1 DEF InfoTypes
<1> QED BY <1>1, <1>2

\* A file that somebody refers to, other than by opening it, has a FATX_FILE_INFO.
LEMMA ReferredIsOpen ==
    ASSUME NEW ph, NEW fl, Types, Good(ph, fl), NEW t \in Threads, NEW f \in Files,
           fl[t] = f, Refs(ph[t]) > 0, ph[t] \notin PrivatePhases
    PROVE  /\ files[f].state = "live" /\ files[f].device /\ files[f].pointers > 0
           /\ files[f].info \in Infos /\ IsOpen(f)
           /\ \A u \in Threads \ {t} : fl[u] = f => ph[u] \notin PrivatePhases \union Deleting
<1>1. Lists(ph, fl) /\ LifeOf(ph, fl, f) /\ OpenInfos(ph, fl)
  BY LivesByFile DEF Good
<1>2. /\ files[f].state = "live" /\ files[f].pointers > 0
      /\ \A u \in Threads \ {t} : fl[u] = f => ph[u] \notin PrivatePhases \union Deleting
  BY Undisturbed
<1>3. \A u \in Threads : fl[u] = f => ph[u] \notin PrivatePhases
  BY <1>2
<1>4. files[f].device
  BY <1>1, <1>2, <1>3, RefusedArePrivate DEF LifeOf
<1>5. Used(ph, fl, f)
  BY <1>2 DEF Used
<1>6. files[f].info # NoInfo
  <2>1. files[f].info # NoInfo \/ \E u \in Threads : fl[u] = f /\ ph[u] = "create"
    BY <1>1, <1>2, <1>4, <1>5 DEF OpenInfos, HasInfo
  <2> QED BY <1>3, <2>1, FatxTable
<1>7. files[f].info \in Infos
  <2>1. files[f] \in FileTypes
    BY DEF Types
  <2> QED BY <1>6, <2>1 DEF FileTypes
<1>8. IsOpen(f)
  BY <1>1, <1>2, <1>4, <1>5, <1>6, IsOpenIs DEF Open
<1> QED BY <1>2, <1>4, <1>7, <1>8

\* FatxIrpCleanup.
LEMMA CleanupKeeps ==
    ASSUME NEW ph, NEW fl, Types, Good(ph, fl), NEW t \in Threads, FatxIrpCleanup(t)
    PROVE  IInv'
<1>0. Lists(ph, fl)
  BY DEF Good
<1>1. PICK f : f = fl[t]
  OBVIOUS
<1>2. /\ f \in Files /\ ph[t] = "cleanup" /\ Moved(ph, fl, t, "release", f)
      /\ ~files[f].cleaned /\ files' = [files EXCEPT ![f].cleaned = TRUE]
      /\ infos' = [infos EXCEPT ![files[f].info].share = ShareAfterCleanup(f)]
      /\ UNCHANGED <<deviceVars, crashed>>
  BY <1>0, <1>1, CleanupMoves
<1>3. Refs(ph[t]) > 0 /\ ph[t] \notin PrivatePhases \union OpeningPhases
  BY <1>2, FatxTable
<1>4. /\ files[f].state = "live" /\ files[f].device /\ files[f].pointers > 0
      /\ files[f].info \in Infos /\ IsOpen(f)
      /\ \A u \in Threads \ {t} : fl[u] = f => ph[u] \notin PrivatePhases \union Deleting
  BY <1>1, <1>2, <1>3, ReferredIsOpen
<1>5. PICK i \in Infos : i = files[f].info
  BY <1>4
<1>6. /\ OpenInfos(ph, fl) /\ SharingHolds /\ ShareCountsExact /\ ListedWhileOpen
      /\ infos[i].state = "listed" /\ LifeOf(ph, fl, f)
  <2>1. OpenInfos(ph, fl) /\ SharingHolds /\ ShareCountsExact /\ ListedWhileOpen
    BY DEF Good, OpenInfos
  <2>2. infos[i].state = "listed"
    BY <1>2, <1>4, <1>5, <2>1 DEF ListedWhileOpen
  <2> QED BY <1>0, <1>2, <2>1, <2>2, LivesByFile DEF Good
<1>7. PICK s : s = infos[i].share
  OBVIOUS
<1>8. PICK w : w = Counted(s, files[f].access, files[f].shared, -1)
  OBVIOUS
<1>9. infos' = [infos EXCEPT ![i].share = w]
  BY <1>2, <1>5, <1>7, <1>8 DEF ShareAfterCleanup
<1>10. /\ files[f] \in FileTypes /\ \A h \in Files \ {f} : files'[h] = files[h]
       /\ files'[f] = [files[f] EXCEPT !.cleaned = TRUE]
  BY <1>2 DEF Types
<1>11. /\ files'[f].state = "live" /\ files'[f].device /\ files'[f].cleaned
       /\ files'[f].pointers = files[f].pointers /\ files'[f].handles = files[f].handles
       /\ files'[f].info = files[f].info
       /\ files'[f].access = files[f].access /\ files'[f].shared = files[f].shared
       /\ files'[f].handleCreated = files[f].handleCreated
       /\ files'[f].lockCount = files[f].lockCount /\ files'[f].lockSignal = files[f].lockSignal
  BY <1>4, <1>10 DEF FileTypes
<1>12. PICK p2, f2 : Shift(ph, fl, t, "release", f, p2, f2) /\ Lists(p2, f2)'
  BY <1>0, <1>2, MovedShift
<1>13. /\ p2[t] = "release" /\ f2[t] = f /\ \A u \in Threads \ {t} : p2[u] = ph[u] /\ f2[u] = fl[u]
  BY <1>12 DEF Shift
<1>14. \A h \in Files \ {f} : (IsOpen(h)' <=> IsOpen(h)) /\ SameInFatx(h)
                              /\ (Standing(p2, f2, h)' <=> Standing(ph, fl, h))
  BY <1>0, <1>1, <1>2, <1>10, <1>12, OthersUsed
<1>15. IsOpen(f)'
  <2>1. Open(p2, f2, f)'
    BY <1>4, <1>5, <1>11, IoFileAssumption DEF Open, Used, Infos
  <2> QED BY <1>2, <1>12, <2>1, IsOpenNext
<1>16. Leaves(f, i)
  <2>1. \A h \in Files \ {f} : SameWhenOpen(h)
    BY <1>14 DEF SameInFatx, SameWhenOpen
  <2> QED BY <1>2, <1>4, <1>5, <1>11, <1>15, <2>1 DEF Leaves
<1>17. SharingHolds' /\ ShareCountsExact' /\ w \in Shares
  BY <1>6, <1>7, <1>8, <1>9, <1>16, LeavesSharing
<1>18. \A j \in Infos :
         /\ infos'[j].state = infos[j].state /\ infos'[j].name = infos[j].name
         /\ infos'[j].references = infos[j].references
         /\ j # i => infos'[j] = infos[j]
  BY <1>9, ShareOnly
<1>19. Types'
  <2>1. files'[f] \in FileTypes
    BY <1>10 DEF FileTypes
  <2>2. files' \in [Files -> FileTypes]
    BY <1>2, <1>10, <2>1 DEF Types
  <2>3. infos[i] \in InfoTypes /\ infos'[i] = [infos[i] EXCEPT !.share = w]
    BY <1>9 DEF Types
  <2>4. infos'[i] \in InfoTypes
    BY <1>17, <2>3 DEF InfoTypes
  <2>5. infos' \in [Infos -> InfoTypes]
    BY <1>9, <2>4 DEF Types
  <2> QED BY <1>2, <2>2, <2>5 DEF Types, deviceVars
<1>20. LifeOf(p2, f2, f)'
  <2>1. \A u \in Threads : f2[u] = f => p2[u] \notin PrivatePhases \union Deleting
    BY <1>4, <1>13, FatxTable
  <2>2. ~files[f].handleCreated => \E u \in Threads : f2[u] = f /\ p2[u] \in OpeningPhases
    BY <1>1, <1>3, <1>4, <1>6, <1>13 DEF LifeOf
  <2> QED BY <1>11, <2>1, <2>2 DEF LifeOf
<1>21. Locks(p2, f2)'
  <2>1. (ph[t] \in Owning <=> "release" \in Owning) /\ Claims(ph[t]) = Claims("release")
    BY <1>2, FatxTable
  <2>2. /\ fl[t] = f /\ f \in Files /\ \A h \in Files \ {f} : files'[h] = files[h]
        /\ files'[f].lockCount = files[f].lockCount /\ files'[f].lockSignal = files[f].lockSignal
    BY <1>1, <1>2, <1>10, <1>11
  <2> HIDE <1>1
  <2> QED BY <1>12, <2>1, <2>2, SameLocks
<1>22. VolumeBalanced(ph[t], "release", f)
  <2>1. references \in Nat
    BY DEF Types
  <2>2. references' = references /\ references \in Int
    BY <1>2, <2>1 DEF deviceVars
  <2>3. HasVolume(f)' /\ HasVolume(f)
    BY <1>4, <1>11 DEF HasVolume
  <2>4. ph[t] \notin Volumed /\ "release" \notin Volumed
    BY <1>2, FatxTable
  <2> QED BY <2>2, <2>3, <2>4 DEF VolumeBalanced, Bit
<1>23. PointersFollow(ph[t], f, "release", f)
  <2>1. ASSUME NEW h \in Files
        PROVE  /\ RefsOf("release", f, h) - RefsOf(ph[t], f, h) = 0
               /\ files'[h].pointers - files'[h].handles - (files[h].pointers - files[h].handles) = 0
    <3>1. files[h] \in FileTypes
      BY DEF Types
    <3>2. files[h].pointers \in Nat /\ files[h].handles \in Nat
      BY <3>1 DEF FileTypes
    <3>3. RefsOf("release", f, h) = RefsOf(ph[t], f, h) /\ RefsOf(ph[t], f, h) \in Nat
      BY <1>2, FatxTable DEF RefsOf
    <3>4. files'[h].pointers = files[h].pointers /\ files'[h].handles = files[h].handles
      BY <1>10, <1>11
    <3> QED BY <3>2, <3>3, <3>4
  <2> QED BY <2>1 DEF PointersFollow
<1>24. OpenInfos(p2, f2)'
  <2>1. ListedWhileOpen'
    <3>1. \A j : Openers(j)' = Openers(j)
      BY <1>16, LeavesSets
    <3>2. \A j \in Infos : IsFiniteSet(Openers(j)')
      BY <1>6, <3>1 DEF ListedWhileOpen
    <3>3. ASSUME NEW h \in Files, IsOpen(h)'
          PROVE  \E j : /\ j = files'[h].info /\ infos'[j].state = "listed"
                        /\ infos'[j].references >= Cardinality(Openers(j)')
      <4>1. IsOpen(h) /\ files'[h].info = files[h].info
        BY <1>4, <1>11, <1>14, <3>3 DEF SameInFatx
      <4>2. PICK j : j = files[h].info
        OBVIOUS
      <4>3. j \in Infos
        <5>1. files[h] \in FileTypes
          BY DEF Types
        <5> QED BY <4>1, <4>2, <5>1 DEF FileTypes, IsOpen
      <4>4. infos[j].state = "listed" /\ infos[j].references >= Cardinality(Openers(j))
        BY <1>6, <4>1, <4>2 DEF ListedWhileOpen
      <4>5. infos'[j].state = "listed" /\ infos'[j].references >= Cardinality(Openers(j)')
        BY <1>18, <3>1, <4>3, <4>4
      <4> QED BY <4>1, <4>2, <4>5
    <3> QED BY <3>2, <3>3, ListedWhileOpenNext
  <2>2. HasInfo(p2, f2)'
    <3>1. ASSUME NEW h \in Files, Standing(p2, f2, h)'
          PROVE  files'[h].info # NoInfo \/ \E u \in Threads : f2[u] = h /\ p2[u] = "create"
      <4>1. CASE h = f
        BY <1>4, <1>11, <4>1, IoFileAssumption DEF Infos
      <4>2. CASE h # f
        <5>1. Standing(ph, fl, h) /\ files'[h].info = files[h].info
          BY <1>14, <3>1, <4>2 DEF SameInFatx
        <5>2. files[h].info # NoInfo \/ \E u \in Threads : fl[u] = h /\ ph[u] = "create"
          BY <1>6, <5>1 DEF OpenInfos, HasInfo, Standing
        <5> QED BY <1>1, <1>13, <4>2, <5>1, <5>2
      <4> QED BY <4>1, <4>2
    <3> QED BY <3>1 DEF HasInfo, Standing
  <2>3. NothingYet(p2, f2)'
    <3>1. ASSUME NEW h \in Files,
                 files'[h].state = "unborn" \/ \E u \in Threads : f2[u] = h /\ p2[u] = "create"
          PROVE  infos'[h].state = "none" /\ files'[h].info = NoInfo /\ ~files'[h].cleaned
      <4>1. h # f
        BY <1>4, <1>11, <1>13, <3>1, FatxTable
      <4>2. files'[h] = files[h]
        BY <1>10, <4>1
      <4>3. files[h].state = "unborn" \/ \E u \in Threads : fl[u] = h /\ ph[u] = "create"
        BY <1>13, <3>1, <4>2
      <4>4. infos[h].state = "none" /\ files[h].info = NoInfo /\ ~files[h].cleaned
        BY <1>6, <4>3 DEF OpenInfos, NothingYet
      <4>5. infos'[h].state = infos[h].state
        BY <1>18 DEF Infos
      <4> QED BY <4>2, <4>4, <4>5
    <3> QED BY <3>1 DEF NothingYet
  <2>4. NamesApart'
    <3>1. infos'[Volume].state = "none" => infos'[Volume].share.open = 0
      <4>1. ASSUME infos'[Volume].state = "none" PROVE infos'[Volume].share.open = 0
        <5>1. Volume \in Infos
          BY DEF Infos
        <5>2. infos[Volume].state = "none" /\ infos'[Volume] = infos[Volume]
          BY <1>6, <1>18, <4>1, <5>1
        <5> QED BY <1>6, <5>2 DEF OpenInfos, NamesApart
      <4> QED BY <4>1
    <3> QED BY <1>6, <1>18, <3>1 DEF OpenInfos, NamesApart, Infos
  <2> QED BY <2>1, <2>2, <2>3, <2>4 DEF OpenInfos
<1>25. UNCHANGED <<volumes, mounting>> /\ "mount" \notin {ph[t], "release"}
       /\ fl[t] \in {f, NoInfo} /\ f \in {f, NoInfo}
  BY <1>1, <1>2 DEF deviceVars
<1> QED BY <1>1, <1>2, <1>10, <1>12, <1>17, <1>19, <1>20, <1>21, <1>22, <1>23, <1>24, <1>25, FileStep

\* A FATX_FILE_INFO that is used once less.
UsedLess(i) ==
    /\ \A j \in Infos \ {i} : infos'[j] = infos[j]
    /\ infos'[i] \in InfoTypes
    /\ infos'[i].name = infos[i].name /\ infos'[i].share = infos[i].share
    /\ infos'[i].references = infos[i].references - 1
    /\ infos'[i].state = IF ~LastUse(i) THEN infos[i].state
                         ELSE IF i = Volume THEN "none" ELSE "freed"

\* What FatxIrpClose does to it.
LEMMA CloseUsedLess ==
    ASSUME Types, NEW i \in Infos, infos[i].references >= 1,
           infos' = [infos EXCEPT ![i] =
               IF ~LastUse(i) THEN [infos[i] EXCEPT !.references = @ - 1]
               ELSE IF i = Volume THEN [infos[i] EXCEPT !.references = @ - 1, !.state = "none"]
               ELSE [infos[i] EXCEPT !.references = @ - 1, !.state = "freed"]]
    PROVE  UsedLess(i)
<1>1. infos[i] \in InfoTypes /\ \A j \in Infos \ {i} : infos'[j] = infos[j]
  BY DEF Types
<1>2. PICK r : r = infos[i].references - 1
  OBVIOUS
<1>3. r \in Nat
  <2>1. infos[i].references \in Nat
    BY <1>1 DEF InfoTypes
  <2> QED BY <1>2, <2>1
<1>4. CASE ~LastUse(i)
  <2>1. infos'[i] = [infos[i] EXCEPT !.references = r]
    BY <1>2, <1>4 DEF Types
  <2> QED BY <1>1, <1>2, <1>3, <1>4, <2>1 DEF InfoTypes, UsedLess
<1>5. CASE LastUse(i) /\ i = Volume
  <2>1. infos'[i] = [infos[i] EXCEPT !.references = r, !.state = "none"]
    BY <1>2, <1>5 DEF Types
  <2>2. PICK a \in InfoTypes : a = infos[i]
    BY <1>1
  <2>3. PICK b : b = [a EXCEPT !.references = r, !.state = "none"]
    OBVIOUS
  <2>4. b.name = a.name /\ b.share = a.share /\ b.references = r /\ b.state = "none"
    BY <2>3 DEF InfoTypes
  <2>5. b \in InfoTypes
    BY <1>3, <2>3 DEF InfoTypes
  <2>6. infos'[i] = b
    BY <2>1, <2>2, <2>3
  <2> QED BY <1>1, <1>2, <1>5, <2>2, <2>4, <2>5, <2>6 DEF UsedLess
<1>6. CASE LastUse(i) /\ i # Volume
  <2>1. infos'[i] = [infos[i] EXCEPT !.references = r, !.state = "freed"]
    BY <1>2, <1>6 DEF Types
  <2>2. PICK a \in InfoTypes : a = infos[i]
    BY <1>1
  <2>3. PICK b : b = [a EXCEPT !.references = r, !.state = "freed"]
    OBVIOUS
  <2>4. b.name = a.name /\ b.share = a.share /\ b.references = r /\ b.state = "freed"
    BY <2>3 DEF InfoTypes
  <2>5. b \in InfoTypes
    BY <1>3, <2>3 DEF InfoTypes
  <2>6. infos'[i] = b
    BY <2>1, <2>2, <2>3
  <2> QED BY <1>1, <1>2, <1>6, <2>2, <2>4, <2>5, <2>6 DEF UsedLess
<1> QED BY <1>4, <1>5, <1>6

\* f is no longer open as i; it was cleaned up before.
Ends(f, i) ==
    /\ f \in Files /\ \A h \in Files \ {f} : SameWhenOpen(h)
    /\ IsOpen(f) /\ ~IsOpen(f)' /\ files[f].info = i /\ files[f].cleaned

\* Who has the files open, then.
LEMMA EndsSets ==
    ASSUME NEW f, NEW i, Ends(f, i)
    PROVE  /\ \A j : j # i => Openers(j)' = Openers(j)
           /\ Openers(i)' = Openers(i) \ {f} /\ f \in Openers(i) /\ f \notin Sharers(i)
           /\ \A j : Sharers(j)' = Sharers(j)
           /\ \A j : \A h \in Sharers(j) :
                files'[h].access = files[h].access /\ files'[h].shared = files[h].shared
<1>1. /\ f \in Files /\ \A h \in Files \ {f} : IsOpen(h)' <=> IsOpen(h)
      /\ \A h \in Files \ {f} : IsOpen(h) =>
            /\ files'[h].info = files[h].info /\ files'[h].access = files[h].access
            /\ files'[h].shared = files[h].shared /\ files'[h].cleaned = files[h].cleaned
      /\ IsOpen(f) /\ ~IsOpen(f)' /\ files[f].info = i /\ files[f].cleaned
  BY DEF Ends, SameWhenOpen
<1>2. \A j : /\ \A h : h \in Openers(j) <=> h \in Files /\ IsOpen(h) /\ files[h].info = j
             /\ \A h : h \in Openers(j)' <=> h \in Files /\ IsOpen(h)' /\ files'[h].info = j
  BY DEF Openers
<1>3. \A j : /\ \A h : h \in Sharers(j) <=> /\ h \in Files /\ IsOpen(h) /\ files[h].info = j
                                            /\ ~files[h].cleaned /\ files[h].access # {}
             /\ \A h : h \in Sharers(j)' <=> /\ h \in Files /\ IsOpen(h)' /\ files'[h].info = j
                                            /\ ~files'[h].cleaned /\ files'[h].access # {}
  BY DEF Sharers
<1>4. ASSUME NEW j, j # i PROVE Openers(j)' = Openers(j)
  <2>1. \A h : h \in Openers(j)' <=> h \in Openers(j)
    BY <1>1, <1>2, <1>4
  <2> QED BY <2>1
<1>5. Openers(i)' = Openers(i) \ {f}
  <2>1. \A h : h \in Openers(i)' <=> h \in Openers(i) \ {f}
    BY <1>1, <1>2
  <2> QED BY <2>1
<1>6. ASSUME NEW j PROVE Sharers(j)' = Sharers(j)
  <2>1. \A h : h \in Sharers(j)' <=> h \in Sharers(j)
    BY <1>1, <1>3
  <2> QED BY <2>1
<1>7. f \in Openers(i) /\ f \notin Sharers(i)
  BY <1>1, <1>2, <1>3
<1>8. \A j : \A h \in Sharers(j) :
                files'[h].access = files[h].access /\ files'[h].shared = files[h].shared
  BY <1>1, <1>3
<1> QED BY <1>4, <1>5, <1>6, <1>7, <1>8

\* Sharing is as before, and is counted right, when f is closed.
LEMMA EndsSharing ==
    ASSUME Types, ListedWhileOpen, SharingHolds, ShareCountsExact, NEW f, NEW i \in Infos, Ends(f, i),
           UsedLess(i), infos[i].state = "listed"
    PROVE  SharingHolds' /\ ShareCountsExact'
<1>1. /\ \A j : Sharers(j)' = Sharers(j)
      /\ \A j : \A h \in Sharers(j) :
           files'[h].access = files[h].access /\ files'[h].shared = files[h].shared
  BY EndsSets
<1>2. SharingHolds'
  BY <1>1 DEF SharingHolds
<1>3. ASSUME NEW j \in Infos, infos'[j].state = "listed"
      PROVE  \E v, V : v = infos'[j].share /\ V = Sharers(j)' /\ Tells(v, V)'
  <2>1. infos[j].state = "listed" /\ infos'[j].share = infos[j].share
    BY <1>3 DEF UsedLess
  <2>2. PICK v, V : v = infos[j].share /\ V = Sharers(j)
    OBVIOUS
  <2>3. Tells(v, V)
    BY <2>1, <2>2, ListedTells
  <2>4. \A h \in V : files'[h].access = files[h].access /\ files'[h].shared = files[h].shared
    BY <1>1, <2>2
  <2>5. Tells(v, V)'
    BY <2>3, <2>4, TellsKept
  <2>6. v = infos'[j].share /\ V = Sharers(j)'
    BY <1>1, <2>1, <2>2
  <2> QED BY <2>5, <2>6
<1>4. ShareCountsExact'
  BY <1>3, SharesTold
<1> QED BY <1>2, <1>4

\* The FATX_FILE_INFOs of open files, when f is closed.
LEMMA EndsListed ==
    ASSUME Types, ListedWhileOpen, NEW f, NEW i \in Infos, Ends(f, i), UsedLess(i)
    PROVE  ListedWhileOpen' /\ (LastUse(i) => Openers(i) = {f})
<1>1. /\ \A j : j # i => Openers(j)' = Openers(j)
      /\ Openers(i)' = Openers(i) \ {f} /\ f \in Openers(i)
  BY EndsSets
<1>2. /\ \A j \in Infos : IsFiniteSet(Openers(j))
      /\ infos[i].state = "listed" /\ infos[i].references >= Cardinality(Openers(i))
  BY DEF Ends, ListedWhileOpen
<1>3. IsFiniteSet(Openers(i)') /\ Cardinality(Openers(i)') = Cardinality(Openers(i)) - 1
  BY <1>1, <1>2, FS_RemoveElement
<1>4. infos[i].references \in Nat /\ Cardinality(Openers(i)) \in Nat /\ Cardinality(Openers(i)') \in Nat
  <2>1. infos[i] \in InfoTypes
    BY DEF Types
  <2> QED BY <1>2, <1>3, <2>1, FS_CardinalityType DEF InfoTypes
<1>5. ASSUME LastUse(i) PROVE Openers(i) = {f} /\ Openers(i)' = {}
  <2>1. infos[i].references = 1
    BY <1>5 DEF LastUse
  <2>2. Cardinality(Openers(i)') = 0
    BY <1>2, <1>3, <1>4, <2>1
  <2>3. Openers(i)' = {}
    BY <1>3, <2>2, FS_EmptySet
  <2> QED BY <1>1, <2>3
<1>6. \A j \in Infos : IsFiniteSet(Openers(j)')
  BY <1>1, <1>2, <1>3
<1>7. ASSUME NEW h \in Files, IsOpen(h)'
      PROVE  \E j : /\ j = files'[h].info /\ infos'[j].state = "listed"
                    /\ infos'[j].references >= Cardinality(Openers(j)')
  <2>1. h # f /\ IsOpen(h) /\ files'[h].info = files[h].info
    BY <1>7 DEF Ends, SameWhenOpen
  <2>2. PICK j : j = files[h].info
    OBVIOUS
  <2>3. j \in Infos
    <3>1. files[h] \in FileTypes
      BY DEF Types
    <3> QED BY <2>1, <2>2, <3>1 DEF FileTypes, IsOpen
  <2>4. infos[j].state = "listed" /\ infos[j].references >= Cardinality(Openers(j))
    BY <2>1, <2>2 DEF ListedWhileOpen
  <2>5. CASE j # i
    <3>1. infos'[j].state = "listed" /\ infos'[j].references >= Cardinality(Openers(j)')
      BY <1>1, <2>3, <2>4, <2>5 DEF UsedLess
    <3> QED BY <2>1, <2>2, <3>1
  <2>6. CASE j = i
    <3>1. h \in Openers(i)
      BY <2>1, <2>2, <2>6 DEF Openers
    <3>2. ~LastUse(i)
      BY <1>5, <2>1, <3>1
    <3>3. infos'[i].state = "listed" /\ infos'[i].references = infos[i].references - 1
      BY <1>2, <3>2 DEF UsedLess
    <3>4. infos'[i].references >= Cardinality(Openers(i)')
      <4>1. PICK a, b, c \in Nat : a = infos[i].references /\ b = Cardinality(Openers(i))
                                   /\ c = Cardinality(Openers(i)')
        BY <1>4
      <4>2. a - 1 >= c
        BY <1>2, <1>3, <4>1
      <4> QED BY <3>3, <4>1, <4>2
    <3> QED BY <2>1, <2>2, <2>6, <3>3, <3>4
  <2> QED BY <2>5, <2>6
<1>8. ListedWhileOpen'
  BY <1>6, <1>7, ListedWhileOpenNext
<1> QED BY <1>5, <1>8

\* A file that is being closed is cleaned up, and nobody else can get at it.
LEMMA ClosingFacts ==
    ASSUME NEW ph, NEW fl, Types, Good(ph, fl), NEW t \in Threads, NEW f \in Files,
           fl[t] = f, ph[t] \in Closing, ph[t] \notin CleaningOrNew
    PROVE  /\ files[f].state = "live" /\ files[f].device /\ files[f].pointers = 0
           /\ files[f].handles = 0 /\ files[f].cleaned /\ files[f].handleCreated
           /\ files[f].info \in Infos /\ IsOpen(f)
           /\ \A u \in Threads \ {t} : fl[u] = f =>
                ph[u] \notin PrivatePhases \union OpeningPhases \union Deleting \union Closing
<1>0. /\ Closing \subseteq Deleting /\ Closing \intersect (OpeningPhases \union RefusedPhases) = {}
      /\ OpeningPhases = PrivatePhases \union {"created"} /\ Refs("created") = 1
      /\ RefusedPhases \subseteq PrivatePhases
  BY DEF Closing, Deleting, OpeningPhases, PrivatePhases, RefusedPhases, Refs, Referring
<1>1. Lists(ph, fl) /\ LifeOf(ph, fl, f) /\ OpenInfos(ph, fl)
  BY LivesByFile DEF Good
<1>2. /\ files[f].state = "live" /\ files[f].pointers = 0
      /\ \A u \in Threads : fl[u] = f /\ ph[u] \in Deleting => u = t
  BY <1>0, <1>1 DEF LifeOf
<1>3. /\ files[f].handles = 0 /\ \A u \in Threads : fl[u] = f => ~(Refs(ph[u]) > 0)
  BY <1>2, RefFacts
<1>4. \A u \in Threads : fl[u] = f => ph[u] \notin PrivatePhases
  BY <1>0, <1>1 DEF LifeOf
<1>5. \A u \in Threads : fl[u] = f => ph[u] \notin OpeningPhases /\ ph[u] \notin Cleaning
  BY <1>0, <1>3, <1>4, FatxTable
<1>6. files[f].device /\ files[f].handleCreated
  BY <1>0, <1>1, <1>2, <1>4, <1>5 DEF LifeOf
<1>7. files[f].cleaned
  <2>1. files[f].cleaned \/ \E u \in Threads : fl[u] = f /\ ph[u] \in CleaningOrNew
    BY <1>1, <1>2, <1>3, <1>6 DEF LifeOf
  <2> QED BY <1>4, <1>5, <2>1, FatxTable
<1>8. Used(ph, fl, f)
  BY DEF Used
<1>9. files[f].info # NoInfo
  <2>1. files[f].info # NoInfo \/ \E u \in Threads : fl[u] = f /\ ph[u] = "create"
    BY <1>1, <1>2, <1>6, <1>8 DEF OpenInfos, HasInfo
  <2> QED BY <1>4, <2>1, FatxTable
<1>10. files[f].info \in Infos
  <2>1. files[f] \in FileTypes
    BY DEF Types
  <2> QED BY <1>9, <2>1 DEF FileTypes
<1>11. IsOpen(f)
  BY <1>1, <1>2, <1>6, <1>8, <1>9, IsOpenIs DEF Open
<1> QED BY <1>0, <1>2, <1>3, <1>4, <1>5, <1>6, <1>7, <1>10, <1>11

\* What FatxIrpClose does to the file object.
LEMMA CloseOfFile ==
    ASSUME NEW ph, NEW fl, Lists(ph, fl), NEW t \in Threads, FatxIrpClose(t)
    PROVE  files' = [files EXCEPT ![fl[t]].info = IF LastUse(files[fl[t]].info) THEN NoInfo ELSE @]
<1>1. At(t, "close")
  BY DEF FatxIrpClose
<1>2. Current(t) = fl[t]
  BY <1>1, AtPhase
<1> QED BY <1>2 DEF FatxIrpClose

\* FatxIrpClose.
LEMMA CloseKeeps ==
    ASSUME NEW ph, NEW fl, Types, Good(ph, fl), NEW t \in Threads, FatxIrpClose(t)
    PROVE  IInv'
<1>0. Lists(ph, fl)
  BY DEF Good
<1>1. PICK f : f = fl[t]
  OBVIOUS
<1>2. /\ f \in Files /\ ph[t] = "close" /\ Moved(ph, fl, t, "volume", f)
      /\ UNCHANGED <<deviceVars, crashed>>
  BY <1>0, <1>1, CloseMoves
<1>3. ph[t] \in Closing /\ ph[t] \notin CleaningOrNew
  BY <1>2, FatxTable
<1>4. /\ files[f].state = "live" /\ files[f].device /\ files[f].pointers = 0
      /\ files[f].handles = 0 /\ files[f].cleaned /\ files[f].handleCreated
      /\ files[f].info \in Infos /\ IsOpen(f)
      /\ \A u \in Threads \ {t} : fl[u] = f =>
           ph[u] \notin PrivatePhases \union OpeningPhases \union Deleting \union Closing
  BY <1>1, <1>2, <1>3, ClosingFacts
<1>5. PICK i \in Infos : i = files[f].info
  BY <1>4
<1>6. /\ OpenInfos(ph, fl) /\ SharingHolds /\ ShareCountsExact /\ ListedWhileOpen
      /\ infos[i].state = "listed" /\ infos[i].references >= 1
  <2>1. OpenInfos(ph, fl) /\ SharingHolds /\ ShareCountsExact /\ ListedWhileOpen
    BY DEF Good, OpenInfos
  <2>2. /\ infos[i].state = "listed" /\ infos[i].references >= Cardinality(Openers(i))
        /\ IsFiniteSet(Openers(i))
    BY <1>2, <1>4, <1>5, <2>1 DEF ListedWhileOpen
  <2>3. f \in Openers(i)
    BY <1>2, <1>4, <1>5 DEF Openers
  <2>4. Cardinality(Openers(i)) \in Nat /\ Cardinality(Openers(i)) # 0
    BY <2>2, <2>3, FS_CardinalityType, FS_EmptySet
  <2>5. infos[i].references \in Nat
    <3>1. infos[i] \in InfoTypes
      BY DEF Types
    <3> QED BY <3>1 DEF InfoTypes
  <2> QED BY <2>1, <2>2, <2>4, <2>5
<1>7. UsedLess(i)
  <2>1. infos' = [infos EXCEPT ![i] =
               IF ~LastUse(i) THEN [infos[i] EXCEPT !.references = @ - 1]
               ELSE IF i = Volume THEN [infos[i] EXCEPT !.references = @ - 1, !.state = "none"]
               ELSE [infos[i] EXCEPT !.references = @ - 1, !.state = "freed"]]
    <3>1. infos' = [infos EXCEPT ![files[fl[t]].info] =
                   IF ~LastUse(files[fl[t]].info)
                   THEN [infos[files[fl[t]].info] EXCEPT !.references = @ - 1]
                   ELSE IF files[fl[t]].info = Volume
                   THEN [infos[files[fl[t]].info] EXCEPT !.references = @ - 1, !.state = "none"]
                   ELSE [infos[files[fl[t]].info] EXCEPT !.references = @ - 1, !.state = "freed"]]
      <4> HIDE <1>1, <1>2, <1>3, <1>4, <1>5, <1>6
      <4> QED BY <1>0, CloseMoves
    <3>2. i = files[fl[t]].info
      BY <1>1, <1>5
    <3> QED BY <3>1, <3>2
  <2> QED BY <1>6, <2>1, CloseUsedLess
<1>8. PICK x : x = IF LastUse(i) THEN NoInfo ELSE i
  OBVIOUS
<1>9. /\ files[f] \in FileTypes /\ \A h \in Files \ {f} : files'[h] = files[h]
      /\ files'[f] = [files[f] EXCEPT !.info = x] /\ files' \in [Files -> {files'[h] : h \in Files}]
  <2>1. files' = [files EXCEPT ![f].info = IF LastUse(files[f].info) THEN NoInfo ELSE @]
    <3>1. files' = [files EXCEPT ![fl[t]].info =
                   IF LastUse(files[fl[t]].info) THEN NoInfo ELSE @]
      BY <1>0, CloseOfFile
    <3> QED BY <1>1, <3>1 DEF LastUse
  <2>2. files' = [files EXCEPT ![f] = [files[f] EXCEPT !.info =
                     IF LastUse(files[f].info) THEN NoInfo ELSE files[f].info]]
    BY <2>1 DEF LastUse
  <2>3. files' = [files EXCEPT ![f] = [files[f] EXCEPT !.info = x]]
    BY <1>5, <1>8, <2>2 DEF LastUse
  <2> QED BY <1>2, <2>3 DEF Types
<1>10. /\ files'[f].state = "live" /\ files'[f].device /\ files'[f].cleaned
       /\ files'[f].pointers = 0 /\ files'[f].handles = 0 /\ files'[f].handleCreated
       /\ files'[f].lockCount = files[f].lockCount /\ files'[f].lockSignal = files[f].lockSignal
  BY <1>4, <1>9 DEF FileTypes
<1>11. PICK p2, f2 : Shift(ph, fl, t, "volume", f, p2, f2) /\ Lists(p2, f2)'
  BY <1>0, <1>2, MovedShift
<1>12. /\ p2[t] = "volume" /\ f2[t] = f /\ \A u \in Threads \ {t} : p2[u] = ph[u] /\ f2[u] = fl[u]
  BY <1>11 DEF Shift
<1>13. \A h \in Files \ {f} : (IsOpen(h)' <=> IsOpen(h)) /\ SameInFatx(h)
                              /\ (Standing(p2, f2, h)' <=> Standing(ph, fl, h))
  BY <1>0, <1>1, <1>2, <1>9, <1>11, OthersUsed
<1>14. ~Used(p2, f2, f)' /\ ~IsOpen(f)'
  <2>1. \A u \in Threads : ~(f2[u] = f /\ p2[u] \in Closing)
    BY <1>4, <1>12, FatxTable
  <2>2. ~Used(p2, f2, f)'
    BY <1>10, <2>1 DEF Used
  <2>3. ~Open(p2, f2, f)'
    BY <2>2 DEF Open
  <2> QED BY <1>2, <1>11, <2>2, <2>3, IsOpenNext
<1>15. Ends(f, i)
  <2>1. \A h \in Files \ {f} : SameWhenOpen(h)
    BY <1>13 DEF SameInFatx, SameWhenOpen
  <2> QED BY <1>2, <1>4, <1>5, <1>14, <2>1 DEF Ends
<1>16. SharingHolds' /\ ShareCountsExact'
  BY <1>6, <1>7, <1>15, EndsSharing
<1>17. ListedWhileOpen' /\ (LastUse(i) => Openers(i) = {f})
  BY <1>6, <1>7, <1>15, EndsListed
<1>18. Types'
  <2>1. x \in Infos \union {NoInfo}
    BY <1>8
  <2>2. files'[f] \in FileTypes
    BY <1>9, <2>1 DEF FileTypes
  <2>3. files' \in [Files -> FileTypes]
    BY <1>9, <2>2 DEF Types
  <2>4. infos' \in [Infos -> InfoTypes]
    <3>1. \A j \in Infos : infos'[j] \in InfoTypes
      BY <1>7 DEF Types, UsedLess
    <3>2. infos' = [j \in Infos |-> infos'[j]]
      BY <1>0, <1>1, <1>5, CloseMoves DEF Types
    <3> QED BY <3>1, <3>2
  <2> QED BY <1>2, <2>3, <2>4 DEF Types, deviceVars
<1>19. LifeOf(p2, f2, f)'
  <2>1. \A u \in Threads : f2[u] = f => p2[u] \notin PrivatePhases
    BY <1>4, <1>12, FatxTable
  <2>2. \A u \in Threads : f2[u] = f /\ p2[u] \in Deleting => u = t
    BY <1>4, <1>12
  <2> QED BY <1>10, <2>1, <2>2 DEF LifeOf
<1>20. Locks(p2, f2)'
  <2>1. (ph[t] \in Owning <=> "volume" \in Owning) /\ Claims(ph[t]) = Claims("volume")
    BY <1>2, FatxTable
  <2>2. /\ fl[t] = f /\ f \in Files /\ \A h \in Files \ {f} : files'[h] = files[h]
        /\ files'[f].lockCount = files[f].lockCount /\ files'[f].lockSignal = files[f].lockSignal
    BY <1>1, <1>2, <1>9, <1>10
  <2> HIDE <1>1
  <2> QED BY <1>11, <2>1, <2>2, SameLocks
<1>21. VolumeBalanced(ph[t], "volume", f)
  <2>1. references \in Nat
    BY DEF Types
  <2>2. references' = references /\ references \in Int
    BY <1>2, <2>1 DEF deviceVars
  <2>3. ~HasVolume(f)' /\ ~HasVolume(f)
    BY <1>4, <1>10 DEF HasVolume
  <2>4. ph[t] \in Volumed /\ "volume" \in Volumed
    BY <1>2, FatxTable
  <2> QED BY <2>2, <2>3, <2>4 DEF VolumeBalanced, Bit
<1>22. PointersFollow(ph[t], f, "volume", f)
  <2>1. ASSUME NEW h \in Files
        PROVE  /\ RefsOf("volume", f, h) - RefsOf(ph[t], f, h) = 0
               /\ files'[h].pointers - files'[h].handles - (files[h].pointers - files[h].handles) = 0
    <3>1. files[h] \in FileTypes
      BY DEF Types
    <3>2. files[h].pointers \in Nat /\ files[h].handles \in Nat
      BY <3>1 DEF FileTypes
    <3>3. RefsOf("volume", f, h) = RefsOf(ph[t], f, h) /\ RefsOf(ph[t], f, h) \in Nat
      BY <1>2, FatxTable DEF RefsOf
    <3>4. files'[h].pointers = files[h].pointers /\ files'[h].handles = files[h].handles
      BY <1>4, <1>9, <1>10
    <3> QED BY <3>2, <3>3, <3>4
  <2> QED BY <2>1 DEF PointersFollow
<1>23. OpenInfos(p2, f2)'
  <2>1. HasInfo(p2, f2)'
    <3>1. ASSUME NEW h \in Files, Standing(p2, f2, h)'
          PROVE  files'[h].info # NoInfo \/ \E u \in Threads : f2[u] = h /\ p2[u] = "create"
      <4>1. h # f
        BY <1>14, <3>1 DEF Standing
      <4>2. Standing(ph, fl, h) /\ files'[h].info = files[h].info
        BY <1>13, <3>1, <4>1 DEF SameInFatx
      <4>3. files[h].info # NoInfo \/ \E u \in Threads : fl[u] = h /\ ph[u] = "create"
        BY <1>6, <4>2 DEF OpenInfos, HasInfo, Standing
      <4> QED BY <1>1, <1>12, <4>1, <4>2, <4>3
    <3> QED BY <3>1 DEF HasInfo, Standing
  <2>2. NothingYet(p2, f2)'
    <3>1. ASSUME NEW h \in Files,
                 files'[h].state = "unborn" \/ \E u \in Threads : f2[u] = h /\ p2[u] = "create"
          PROVE  infos'[h].state = "none" /\ files'[h].info = NoInfo /\ ~files'[h].cleaned
      <4>1. h # f
        BY <1>4, <1>10, <1>12, <3>1, FatxTable
      <4>2. files'[h] = files[h]
        BY <1>9, <4>1
      <4>3. files[h].state = "unborn" \/ \E u \in Threads : fl[u] = h /\ ph[u] = "create"
        BY <1>12, <3>1, <4>2
      <4>4. infos[h].state = "none" /\ files[h].info = NoInfo /\ ~files[h].cleaned
        BY <1>6, <4>3 DEF OpenInfos, NothingYet
      <4>5. infos'[h] = infos[h]
        BY <1>6, <1>7, <4>4 DEF Infos, UsedLess
      <4> QED BY <4>2, <4>4, <4>5
    <3> QED BY <3>1 DEF NothingYet
  <2>3. NamesApart'
    <3>1. NamesApart
      BY <1>6 DEF OpenInfos
    <3>2. \A j \in Infos : /\ infos'[j].name = infos[j].name
                           /\ infos'[j].state = "listed" => infos[j].state = "listed"
                           /\ infos'[j].share = infos[j].share
                           /\ j # i => infos'[j].state = infos[j].state
      BY <1>6, <1>7 DEF UsedLess
    <3>3. infos'[Volume].state # "freed"
      <4>1. CASE i = Volume
        BY <1>6, <1>7, <4>1 DEF UsedLess
      <4>2. CASE i # Volume
        BY <3>1, <3>2, <4>2 DEF NamesApart, Infos
      <4> QED BY <4>1, <4>2
    <3>4. ASSUME infos'[Volume].state = "none" PROVE infos'[Volume].share.open = 0
      <4>0. Volume \in Infos
        BY DEF Infos
      <4>1. CASE i = Volume
        <5>1. LastUse(i)
          BY <1>6, <1>7, <3>4, <4>1 DEF UsedLess
        <5>2. Openers(i) = {f} /\ f \notin Sharers(i)
          BY <1>15, <1>17, <5>1, EndsSets
        <5>3. Sharers(i) \subseteq Openers(i)
          BY DEF Sharers, Openers
        <5>4. Sharers(i) = {}
          BY <5>2, <5>3
        <5>5. infos[i].share.open = Cardinality(Sharers(i))
          BY <1>6 DEF ShareCountsExact
        <5>6. infos[i].share.open = 0
          BY <5>4, <5>5, FS_EmptySet
        <5> QED BY <3>2, <4>0, <4>1, <5>6
      <4>2. CASE i # Volume
        <5>1. infos[Volume].state = "none"
          BY <3>2, <3>4, <4>0, <4>2
        <5> QED BY <3>1, <3>2, <4>0, <5>1 DEF NamesApart
      <4> QED BY <4>1, <4>2
    <3>5. /\ infos'[Volume].name = Volume
          /\ \A h \in Files : infos'[h].state = "listed" => infos'[h].name # Volume
      BY <3>1, <3>2 DEF NamesApart, Infos
    <3>6. \A j, k \in Infos :
            infos'[j].state = "listed" /\ infos'[k].state = "listed"
            /\ infos'[j].name = infos'[k].name => j = k
      BY <3>1, <3>2 DEF NamesApart
    <3> QED BY <3>3, <3>4, <3>5, <3>6 DEF NamesApart
  <2> QED BY <1>17, <2>1, <2>2, <2>3 DEF OpenInfos
<1>24. UNCHANGED <<volumes, mounting>> /\ "mount" \notin {ph[t], "volume"}
       /\ fl[t] \in {f, NoInfo} /\ f \in {f, NoInfo}
  BY <1>1, <1>2 DEF deviceVars
<1> QED BY <1>1, <1>2, <1>9, <1>11, <1>16, <1>18, <1>19, <1>20, <1>21, <1>22, <1>23, <1>24, FileStep

-----------------------------------------------------------------------------
(* The invariant.                                                           *)

\* Nothing is mounted or open: the beginning, and where the model stops.
Fresh ==
    /\ volumes = 0 /\ references = 0 /\ mounting = {}
    /\ files = [f \in Files |-> UnusedFile]
    /\ infos = [i \in Infos |-> UnusedInfo]
    /\ todo = [t \in Threads |-> <<>>]
    /\ crashed \in {"no", "volume freed twice", "volume listed twice", "cleaned twice",
                   "wild unwait"}

\* The invariant holds then.
LEMMA FreshIsGood == Fresh => IInv
<1> SUFFICES ASSUME Fresh PROVE IInv
  OBVIOUS
<1> DEFINE p == [t \in Threads |-> "idle"]
           g == [t \in Threads |-> NoInfo]
<1>1. /\ UnusedFile \in FileTypes /\ UnusedFile.state = "unborn" /\ UnusedFile.pointers = 0
      /\ UnusedFile.handles = 0 /\ UnusedFile.info = NoInfo /\ ~UnusedFile.cleaned
  BY DEF UnusedFile, NewFile, FileTypes
<1>2. /\ UnusedInfo \in InfoTypes /\ UnusedInfo.state = "none" /\ UnusedInfo.name = Volume
      /\ UnusedInfo.share.open = 0
  <2>1. NoShare \in Shares /\ NoShare.open = 0
    BY NoShareIs
  <2>2. PICK s \in Shares : s = NoShare
    BY <2>1
  <2>3. NewInfo(Volume) = [state |-> "listed", name |-> Volume, references |-> 0, share |-> s,
                           deleteOnClose |-> FALSE]
    BY <2>2 DEF NewInfo
  <2>4. PICK n : n = NewInfo(Volume)
    OBVIOUS
  <2>5. n \in InfoTypes /\ n.name = Volume /\ n.share = s
    BY <2>3, <2>4 DEF InfoTypes
  <2>6. UnusedInfo = [n EXCEPT !.state = "none"]
    BY <2>4 DEF UnusedInfo
  <2>7. s.open = 0
    BY <2>1, <2>2
  <2>8. UnusedInfo \in InfoTypes
    BY <2>5, <2>6 DEF InfoTypes
  <2>9. UnusedInfo.state = "none" /\ UnusedInfo.name = Volume /\ UnusedInfo.share = s
    BY <2>5, <2>6 DEF InfoTypes
  <2> QED BY <2>7, <2>8, <2>9
<1>3. /\ \A f \in Files : files[f] = UnusedFile
      /\ \A i \in Infos : infos[i] = UnusedInfo
  BY DEF Fresh
<1>4. Types
  BY <1>1, <1>2 DEF Types, Fresh
<1>5. \A f \in Files : ~IsOpen(f)
  BY <1>1, <1>3 DEF IsOpen
<1>6. /\ "idle" \in Phases /\ "idle" \in NoFilePhases /\ "idle" \notin Volumed /\ "idle" # "mount"
      /\ Refs("idle") = 0 /\ Plan("idle", NoInfo) = <<>>
      /\ "idle" \notin PrivatePhases \union Deleting
  BY PhasesAre, EndTable DEF NoFilePhases, Plan, PrivatePhases, Deleting
<1>7. \A t \in Threads : p[t] = "idle" /\ g[t] = NoInfo
  OBVIOUS
<1>8. p \in [Threads -> Phases] /\ g \in [Threads -> Files \union {NoInfo}]
  BY <1>6
<1> HIDE DEF p, g
<1>9. Lists(p, g)
  <2>1. [t \in Threads |-> Plan(p[t], g[t])] = [t \in Threads |-> <<>>]
    BY <1>6, <1>7
  <2> QED BY <1>6, <1>7, <1>8, <2>1 DEF Lists, Fresh
<1>10. Mounting(p)
  BY <1>6, <1>7 DEF Mounting, Fresh
<1>11. Lives(p, g)
  BY <1>1, <1>3, <1>6, <1>7 DEF Lives, InHand, Private, WithDevice, HandleMade, OneDeletes,
                                NoneCounted, CleanedUp
<1>12. Pointers(p, g)
  <2>1. ASSUME NEW f \in Files
        PROVE  /\ IsFiniteSet(Tally(RefsTo(p, g, f)))
               /\ files[f].pointers = files[f].handles + Cardinality(Tally(RefsTo(p, g, f)))
    <3>1. RefsTo(p, g, f) \in [Threads -> Nat]
      BY CountsAreNat
    <3>2. \A t \in Threads : RefsTo(p, g, f)[t] = 0
      BY <1>6, <1>7 DEF RefsTo
    <3>3. /\ IsFiniteSet(Tally(RefsTo(p, g, f))) /\ Cardinality(Tally(RefsTo(p, g, f))) = 0
      BY <3>1, <3>2, TallyZero
    <3> QED BY <1>1, <1>3, <3>3
  <2> QED BY <2>1 DEF Pointers
<1>13. VolumeCount(p)
  <2>1. OnVolume = {} /\ InVolume(p) = {}
    BY <1>1, <1>3, <1>6, <1>7 DEF OnVolume, InVolume
  <2>2. IsFiniteSet({}) /\ Cardinality({}) = 0
    BY FS_EmptySet
  <2>3. references = 0
    BY DEF Fresh
  <2> QED BY <2>1, <2>2, <2>3 DEF VolumeCount
<1>14. Locks(p, g)
  BY <1>1, <1>3 DEF Locks
<1>15. OpenInfos(p, g)
  <2>1. ListedWhileOpen
    <3>1. \A i : Openers(i) = {}
      BY <1>5 DEF Openers
    <3> QED BY <1>5, <3>1, FS_EmptySet DEF ListedWhileOpen
  <2>2. HasInfo(p, g)
    BY <1>1, <1>3 DEF HasInfo
  <2>3. NothingYet(p, g)
    BY <1>1, <1>2, <1>3 DEF NothingYet, Infos
  <2>4. NamesApart
    BY <1>2, <1>3 DEF NamesApart, Infos
  <2> QED BY <2>1, <2>2, <2>3, <2>4 DEF OpenInfos
<1>16. SharingHolds
  BY <1>5 DEF SharingHolds, Sharers
<1>17. ShareCountsExact
  BY <1>2, <1>3 DEF ShareCountsExact
<1>18. Good(p, g)
  BY <1>9, <1>10, <1>11, <1>12, <1>13, <1>14, <1>15, <1>16, <1>17 DEF Good
<1> QED BY <1>4, <1>18 DEF IInv

\* The same after a step.
LEMMA FreshIsGoodNext == Fresh' => IInv'
<1>1. (Fresh => IInv)'
  BY FreshIsGood, PTL
<1> QED BY <1>1

\* IoParseDevice.
LEMMA ParseKeeps ==
    ASSUME NEW ph, NEW fl, Types, Good(ph, fl), NEW t \in Threads, IoParseDevice(t)
    PROVE  IInv'
<1>1. /\ UNCHANGED <<volumes, mounting, infos, crashed>>
      /\ references' = references + 1
      /\ ph[t] = "parse" /\ fl[t] = NoInfo
      /\ \/ \E f \in Files :
              /\ files[f].state = "unborn" /\ files' = [files EXCEPT ![f] = NewFile]
              /\ Moved(ph, fl, t, "create", f)
         \/ UNCHANGED files /\ Moved(ph, fl, t, "giveup", NoInfo)
  BY ParseMoves DEF Good
<1>2. CASE UNCHANGED files /\ Moved(ph, fl, t, "giveup", NoInfo)
  BY <1>1, <1>2, GiveUpKeeps
<1>3. ASSUME NEW f \in Files, files[f].state = "unborn", files' = [files EXCEPT ![f] = NewFile],
             Moved(ph, fl, t, "create", f)
      PROVE  IInv'
  BY <1>1, <1>3, NewFileKeeps
<1> QED BY <1>1, <1>2, <1>3

\* The invariant holds at the beginning.
LEMMA InitIsGood == Init => IInv
    BY FreshIsGood DEF Init, Fresh

\* Every step preserves it.
LEMMA NextKeeps == IInv /\ [Next]_vars => IInv'
<1> SUFFICES ASSUME IInv, [Next]_vars PROVE IInv'
  OBVIOUS
<1>0. PICK ph, fl : Good(ph, fl)
  BY DEF IInv
<1>1. Types
  BY DEF IInv
<1>2. ASSUME NEW why \in {"volume freed twice", "volume listed twice", "cleaned twice",
                           "wild unwait"},
             Crash(why)
      PROVE  IInv'
  <2>1. Fresh'
    BY <1>2 DEF Crash, Fresh
  <2> QED BY <2>1, FreshIsGoodNext
<1>3. CASE UNCHANGED vars
  <2>1. /\ volumes' = volumes /\ references' = references /\ mounting' = mounting
        /\ files' = files /\ infos' = infos /\ todo' = todo /\ crashed' = crashed
    BY <1>3 DEF vars, deviceVars
  <2>2. Types'
    BY <1>1, <2>1 DEF Types
  <2>3. Lists(ph, fl)' /\ Mounting(ph)' /\ Lives(ph, fl)' /\ Pointers(ph, fl)'
    BY <1>0, <2>1 DEF Good, Lists, Mounting, Lives, InHand, Private, WithDevice, HandleMade,
                      OneDeletes, NoneCounted, CleanedUp, Pointers, RefsTo
  <2>4. VolumeCount(ph)' /\ Locks(ph, fl)'
    BY <1>0, <2>1 DEF Good, VolumeCount, OnVolume, InVolume, Locks, Locked, Owners, ClaimsTo
  <2>5. \A f : IsOpen(f)' <=> IsOpen(f)
    BY <2>1 DEF IsOpen, Pending
  <2>6. \A i : Openers(i)' = Openers(i) /\ Sharers(i)' = Sharers(i)
    BY <2>1, <2>5 DEF Openers, Sharers
  <2>7. ListedWhileOpen'
    <3>1. ListedWhileOpen
      BY <1>0 DEF Good, OpenInfos
    <3>2. \A f \in Files : IsOpen(f)' =>
            /\ infos'[files'[f].info].state = "listed"
            /\ infos'[files'[f].info].references >= Cardinality(Openers(files[f].info)')
      BY <2>1, <2>5, <2>6, <3>1 DEF ListedWhileOpen
    <3>3. \A i \in Infos : IsFiniteSet(Openers(i)')
      BY <2>6, <3>1 DEF ListedWhileOpen
    <3>4. \A f \in Files : IsOpen(f)' =>
            \E i : /\ i = files'[f].info /\ infos'[i].state = "listed"
                   /\ infos'[i].references >= Cardinality(Openers(i)')
      BY <2>1, <3>2
    <3> QED BY <3>3, <3>4, ListedWhileOpenNext
  <2>8. OpenInfos(ph, fl)'
    <3>1. HasInfo(ph, fl)' /\ NothingYet(ph, fl)' /\ NamesApart'
      BY <1>0, <2>1 DEF Good, OpenInfos, HasInfo, NothingYet, NamesApart, Used
    <3> QED BY <2>7, <3>1 DEF OpenInfos
  <2>9. SharingHolds' /\ ShareCountsExact'
    <3>1. \A h \in Files : SameWhenOpen(h)
      BY <2>1, <2>5 DEF SameWhenOpen
    <3>2. InfosKept
      BY <1>1, <2>1, SameInfosKept
    <3> QED BY <1>0, <3>1, <3>2, SharingKept DEF Good
  <2> QED BY <2>2, <2>3, <2>4, <2>8, <2>9 DEF IInv, Good
<1>4. ASSUME NEW t \in Threads,
             \/ IopAcquireSynchronousFileLock(t) \/ WaitForFileLock(t)
             \/ IopReleaseSynchronousFileLock(t) \/ SignalFileLock(t) \/ SignalFindsSleeper(t)
             \/ ObfDereferenceObject(t) \/ FreeFile(t) \/ IopDereferenceDeviceObject(t)
      PROVE  IInv'
  BY <1>0, <1>1, <1>2, <1>4, AcquireKeeps, WaitKeeps, ReleaseKeeps, SignalKeeps,
     DereferenceKeeps, FreeKeeps, VolumeKeeps DEF SignalFindsSleeper
<1>5. ASSUME NEW t \in Threads,
             \/ NtCreateFile(t) \/ MountNeeded(t) \/ WaitForDeviceLock(t) \/ IopMountDevice(t)
             \/ IopMountDeviceFails(t) \/ DeviceLockFindsSleeper(t) \/ FatxDeleteVolume(t)
             \/ IoParseDevice(t)
      PROVE  IInv'
  BY <1>0, <1>1, <1>2, <1>5, MountsKeep, ParseKeeps DEF FatxDeleteVolume, DeviceLockFindsSleeper
<1>6. ASSUME NEW t \in Threads,
             \/ FatxIrpCreateFails(t) \/ FatxIrpCreateNew(t) \/ FatxIrpCreateAgain(t)
             \/ FatxIrpCreateHostFails(t) \/ FatxIrpCreateVolume(t) \/ VolumeListedTwice(t)
             \/ ObOpenObjectByName(t) \/ IoCreateFile(t)
      PROVE  IInv'
  BY <1>0, <1>1, <1>2, <1>6, CreateFailsKeeps, CreateNewKeeps, CreateAgainKeeps,
     CreateHostFailsKeeps, CreateVolumeKeeps, HandleKeeps, CreatedKeeps DEF VolumeListedTwice
<1>7. ASSUME NEW t \in Threads, NEW f \in Files,
             \/ NtReadFile(t, f) \/ NtQueryInformationFile(t, f) \/ RequestFails(t, f)
             \/ NtDuplicateObject(t, f) \/ NtClose(t, f)
      PROVE  IInv'
  BY <1>0, <1>1, <1>7, RequestKeeps, NtCloseKeeps
<1>8. ASSUME NEW t \in Threads,
             \/ FatxIrpTransfer(t) \/ ObInsertObject(t)
             \/ FatxIrpCleanup(t) \/ CleanedTwice(t) \/ FatxIrpClose(t)
      PROVE  IInv'
  BY <1>0, <1>1, <1>2, <1>8, TransferKeeps, DuplicateKeeps, CleanupKeeps, CloseKeeps DEF CleanedTwice
<1> QED BY <1>3, <1>4, <1>5, <1>6, <1>7, <1>8 DEF Next

\* So it always holds.
LEMMA FileInvariant == Spec => []IInv
<1>1. Init => IInv
  BY InitIsGood
<1>2. IInv /\ [Next]_vars => IInv'
  BY NextKeeps
<1> QED BY <1>1, <1>2, PTL DEF Spec

-----------------------------------------------------------------------------
(* What the invariant says of the counts.                                   *)

\* What is said of phases is said of what the threads have left to do.
LEMMA ThreadsSay ==
    ASSUME NEW ph, NEW fl, Lists(ph, fl), NEW t \in Threads
    PROVE  /\ Says(ph[t], fl[t], todo[t]) /\ fl[t] \in Files \union {NoInfo}
           /\ todo[t] \in Seq([op : Steps, file : Files \union {NoInfo}])
           /\ todo[t] # <<>> => Head(todo[t]) = Step(HeadOp(ph[t]), fl[t])
<1>1. /\ todo[t] = Plan(ph[t], fl[t]) /\ ph[t] \in Phases /\ fl[t] \in Files \union {NoInfo}
      /\ ph[t] \in NoFilePhases <=> fl[t] = NoInfo
  BY DEF Lists
<1>2. todo[t] # <<>> => Head(Plan(ph[t], fl[t])) = Step(HeadOp(ph[t]), fl[t])
  <2>1. CASE ph[t] \in {"selfAcquire", "selfWait"}
    BY <2>1, SelfTable
  <2>2. CASE ph[t] \in Phases \ {"idle", "selfAcquire", "selfWait"}
    BY <1>1, <2>2, PlanTable
  <2>3. CASE ph[t] = "idle"
    BY <1>1, <2>3 DEF Plan
  <2> QED BY <1>1, <2>1, <2>2, <2>3
<1> QED BY <1>1, <1>2, PlanSays, PlanSeq

\* The steps of some kinds, wherever they are.
LEMMA InPending ==
    ASSUME NEW ops, NEW f, NEW p
    PROVE  p \in Pending(ops, f) <=>
               \E t \in Threads : \E k \in DOMAIN todo[t] :
                   p = <<t, k>> /\ todo[t][k].op \in ops /\ todo[t][k].file = f
    BY DEF Pending

\* A phase's references are given back by steps of their own.
LEMMA PlacesDiffer ==
    ASSUME NEW x, NEW i \in 1..Refs(x), NEW j \in 1..Refs(x), RefPlace(x, i) = RefPlace(x, j)
    PROVE  i = j
<1>1. CASE x = "handle"
  <2>1. Refs(x) = 2
    BY <1>1 DEF Refs
  <2>2. i \in {1, 2} /\ j \in {1, 2}
    BY <2>1
  <2>3. RefPlace(x, 1) = 1 /\ RefPlace(x, 2) = 3
    BY <1>1 DEF RefPlace, DerefPlace
  <2> QED BY <2>2, <2>3
<1>2. CASE x # "handle"
  <2>1. Refs(x) \in {0, 1}
    BY <1>2 DEF Refs
  <2> QED BY <2>1
<1> QED BY <1>1, <1>2

\* The references that calls under way will give back are those of the phases.
LEMMA PointersAreExact ==
    ASSUME NEW ph, NEW fl, Good(ph, fl)
    PROVE  PointersExact
<1> SUFFICES ASSUME NEW f \in Files
             PROVE  files[f].pointers =
                        files[f].handles + Cardinality(Pending({"create", "handle", "deref"}, f))
  BY DEF PointersExact
<1> DEFINE a == RefsTo(ph, fl, f)
           P == Pending({"create", "handle", "deref"}, f)
           b == [c \in Tally(a) |-> <<c[1], RefPlace(ph[c[1]], c[2])>>]
<1>0. Lists(ph, fl)
  BY DEF Good
<1>1. IsFiniteSet(Tally(a)) /\ files[f].pointers = files[f].handles + Cardinality(Tally(a))
  BY DEF Good, Pointers
<1>2. \A c : c \in Tally(a) <=> \E t \in Threads : \E i \in 1..a[t] : c = <<t, i>>
  <2>1. a \in [Threads -> Nat]
    BY CountsAreNat
  <2> HIDE DEF a
  <2> QED BY <2>1, InTally
<1>3. \A t \in Threads : a[t] = IF fl[t] = f THEN Refs(ph[t]) ELSE 0
  BY DEF RefsTo
<1>4. \A p : p \in P <=> \E t \in Threads : \E k \in DOMAIN todo[t] :
                p = <<t, k>> /\ todo[t][k].op \in {"create", "handle", "deref"} /\ todo[t][k].file = f
  BY InPending
<1> HIDE DEF a, P
<1>5. ASSUME NEW t \in Threads, NEW k
      PROVE  /\ k \in DOMAIN todo[t] /\ todo[t][k].op \in {"create", "handle", "deref"}
                  <=> \E i \in 1..Refs(ph[t]) : k = RefPlace(ph[t], i)
             /\ k \in DOMAIN todo[t] /\ todo[t][k].op \in {"create", "handle", "deref"}
                  => todo[t][k].file = fl[t]
  <2>1. Says(ph[t], fl[t], todo[t])
    BY <1>0, ThreadsSay
  <2>2. /\ \A m : m \in DOMAIN todo[t] /\ todo[t][m].op \in {"create", "handle", "deref"}
              <=> \E i \in 1..Refs(ph[t]) : m = RefPlace(ph[t], i)
        /\ \A m \in DOMAIN todo[t] : todo[t][m].op # "volume" => todo[t][m].file = fl[t]
    BY <2>1 DEF Says
  <2> QED BY <2>2
<1>6. \A p : p \in P <=> \E t \in Threads : \E i \in 1..a[t] : p = <<t, RefPlace(ph[t], i)>>
  <2>1. ASSUME NEW p \in P
        PROVE  \E t \in Threads : \E i \in 1..a[t] : p = <<t, RefPlace(ph[t], i)>>
    <3>0. \E t \in Threads : \E k \in DOMAIN todo[t] :
             p = <<t, k>> /\ todo[t][k].op \in {"create", "handle", "deref"} /\ todo[t][k].file = f
      BY <1>4, Zenon
    <3>1. PICK t \in Threads : \E k \in DOMAIN todo[t] :
             p = <<t, k>> /\ todo[t][k].op \in {"create", "handle", "deref"} /\ todo[t][k].file = f
      BY <3>0
    <3>3. PICK k \in DOMAIN todo[t] :
             p = <<t, k>> /\ todo[t][k].op \in {"create", "handle", "deref"} /\ todo[t][k].file = f
      BY <3>1
    <3>2. fl[t] = f /\ \E i \in 1..Refs(ph[t]) : k = RefPlace(ph[t], i)
      BY <1>5, <3>3
    <3> QED BY <1>3, <3>2, <3>3
  <2>2. ASSUME NEW t \in Threads, NEW i \in 1..a[t]
        PROVE  <<t, RefPlace(ph[t], i)>> \in P
    <3>1. fl[t] = f /\ i \in 1..Refs(ph[t])
      BY <1>3
    <3>2. PICK k : k = RefPlace(ph[t], i)
      OBVIOUS
    <3>3. /\ k \in DOMAIN todo[t] /\ todo[t][k].op \in {"create", "handle", "deref"}
          /\ todo[t][k].file = f
      BY <1>5, <3>1, <3>2
    <3> QED BY <1>4, <3>2, <3>3
  <2> QED BY <2>1, <2>2
<1>7. b \in Bijection(Tally(a), P)
  <2>1. b \in [Tally(a) -> P]
    BY <1>2, <1>6
  <2>2. ASSUME NEW c \in Tally(a), NEW d \in Tally(a), b[c] = b[d] PROVE c = d
    <3>a. PICK t \in Threads : \E i \in 1..a[t] : c = <<t, i>>
      BY <1>2
    <3>1. PICK i \in 1..a[t] : c = <<t, i>>
      BY <3>a
    <3>b. PICK u \in Threads : \E j \in 1..a[u] : d = <<u, j>>
      BY <1>2
    <3>2. PICK j \in 1..a[u] : d = <<u, j>>
      BY <3>b
    <3>3. b[c] = <<t, RefPlace(ph[t], i)>> /\ b[d] = <<u, RefPlace(ph[u], j)>>
      BY <3>1, <3>2
    <3>4. t = u /\ RefPlace(ph[t], i) = RefPlace(ph[t], j)
      BY <2>2, <3>3
    <3>5. i \in 1..Refs(ph[t]) /\ j \in 1..Refs(ph[t])
      BY <1>3, <3>4
    <3>6. i = j
      BY <3>4, <3>5, PlacesDiffer
    <3> QED BY <3>1, <3>2, <3>4, <3>6
  <2>3. ASSUME NEW p \in P PROVE \E c \in Tally(a) : b[c] = p
    <3>0. PICK t \in Threads : \E i \in 1..a[t] : p = <<t, RefPlace(ph[t], i)>>
      BY <1>6
    <3>1. PICK i \in 1..a[t] : p = <<t, RefPlace(ph[t], i)>>
      BY <3>0
    <3>2. <<t, i>> \in Tally(a)
      BY <1>2
    <3> QED BY <3>1, <3>2
  <2> HIDE DEF b
  <2> QED BY <2>1, <2>2, <2>3 DEF Bijection, Injection, Surjection, IsInjective
<1>8. Cardinality(P) = Cardinality(Tally(a))
  BY <1>1, <1>7, FS_Bijection DEF ExistsBijection
<1> QED BY <1>1, <1>8 DEF P

\* The opens and closes under way are those of the phases.
LEMMA VolumeIsExact ==
    ASSUME NEW ph, NEW fl, Good(ph, fl)
    PROVE  VolumeReferencesExact
<1> DEFINE P == UNION {Pending({"volume"}, f) : f \in Files \union {NoInfo}}
           V == InVolume(ph)
           b == [t \in V |-> <<t, VolumePlace(ph[t])>>]
<1>0. Lists(ph, fl)
  BY DEF Good
<1>1. IsFiniteSet(V) /\ references = Cardinality(OnVolume) + Cardinality(V)
  BY DEF Good, VolumeCount
<1>2. \A p : p \in P <=> \E t \in Threads : \E k \in DOMAIN todo[t] :
             p = <<t, k>> /\ todo[t][k].op = "volume" /\ todo[t][k].file \in Files \union {NoInfo}
  <2>1. \A p : p \in P <=> \E f \in Files \union {NoInfo} : p \in Pending({"volume"}, f)
    OBVIOUS
  <2>2. \A p, f : p \in Pending({"volume"}, f) <=>
           \E t \in Threads : \E k \in DOMAIN todo[t] :
               p = <<t, k>> /\ todo[t][k].op \in {"volume"} /\ todo[t][k].file = f
    BY InPending
  <2> HIDE DEF P
  <2> QED BY <2>1, <2>2
<1>3. ASSUME NEW t \in Threads, NEW k
      PROVE  /\ k \in DOMAIN todo[t] /\ todo[t][k].op = "volume"
                  <=> ph[t] \in Volumed /\ k = VolumePlace(ph[t])
             /\ k \in DOMAIN todo[t] => todo[t][k].file \in Files \union {NoInfo}
  <2>1. Says(ph[t], fl[t], todo[t]) /\ fl[t] \in Files \union {NoInfo}
    BY <1>0, ThreadsSay
  <2>2. /\ \A m : m \in DOMAIN todo[t] /\ todo[t][m].op = "volume"
              <=> ph[t] \in Volumed /\ m = VolumePlace(ph[t])
        /\ \A m \in DOMAIN todo[t] : todo[t][m].file \in {fl[t], NoInfo}
    BY <2>1 DEF Says
  <2> QED BY <2>1, <2>2
<1> HIDE DEF P
<1>4. \A t : t \in V <=> t \in Threads /\ ph[t] \in Volumed
  BY DEF InVolume
<1> HIDE DEF V
<1>5. \A p : p \in P <=> \E t \in V : p = <<t, VolumePlace(ph[t])>>
  <2>1. ASSUME NEW p \in P PROVE \E t \in V : p = <<t, VolumePlace(ph[t])>>
    <3>0. PICK t \in Threads : \E k \in DOMAIN todo[t] : p = <<t, k>> /\ todo[t][k].op = "volume"
      BY <1>2
    <3>1. PICK k \in DOMAIN todo[t] : p = <<t, k>> /\ todo[t][k].op = "volume"
      BY <3>0
    <3> QED BY <1>3, <1>4, <3>1
  <2>2. ASSUME NEW t \in V PROVE <<t, VolumePlace(ph[t])>> \in P
    <3>1. PICK k : k = VolumePlace(ph[t])
      OBVIOUS
    <3>2. /\ t \in Threads /\ k \in DOMAIN todo[t] /\ todo[t][k].op = "volume"
          /\ todo[t][k].file \in Files \union {NoInfo}
      BY <1>3, <1>4, <3>1
    <3> QED BY <1>2, <3>1, <3>2
  <2> QED BY <2>1, <2>2
<1>6. b \in Bijection(V, P)
  BY <1>5 DEF Bijection, Injection, Surjection, IsInjective
<1>7. Cardinality(P) = Cardinality(V)
  BY <1>1, <1>6, FS_Bijection DEF ExistsBijection
<1>8. references = Cardinality(OnVolume) + Cardinality(P)
  BY <1>1, <1>7
<1> QED BY <1>8 DEF P, VolumeReferencesExact, OnVolume

\* All counts, and types, are right.
LEMMA GoodCounts == IInv => ReferencesExact
<1> SUFFICES ASSUME IInv PROVE ReferencesExact
  OBVIOUS
<1>0. PICK ph, fl : Good(ph, fl)
  BY DEF IInv
<1>1. Types /\ Lists(ph, fl) /\ Mounting(ph)
  BY <1>0 DEF IInv, Good
<1>2. volumes \in {0, 1} /\ mounting \subseteq Threads
  BY <1>1 DEF Mounting
<1>3. Cardinality(mounting) <= 1
  <2>1. CASE mounting = {}
    BY <2>1, FS_EmptySet
  <2>2. CASE mounting # {}
    <3>1. PICK t : t \in mounting
      BY <2>2
    <3>2. \A u \in mounting : u = t
      BY <1>1, <3>1 DEF Mounting
    <3>3. mounting = {t}
      BY <3>1, <3>2
    <3> QED BY <3>3, FS_Singleton
  <2> QED BY <2>1, <2>2
<1>4. \A f \in Files :
         /\ files[f].state \in {"unborn", "live", "freed"}
         /\ files[f].pointers \in Nat /\ files[f].handles \in Nat
         /\ files[f].lockCount \in Nat \union {-1}
         /\ files[f].info \in Infos \union {NoInfo}
         /\ files[f].access \subseteq Rights /\ files[f].shared \subseteq Rights
  <2>1. \A f \in Files : files[f] \in FileTypes
    BY <1>1 DEF Types
  <2> QED BY <2>1 DEF FileTypes
<1>5. \A i \in Infos :
         /\ infos[i].state \in {"none", "listed", "freed"}
         /\ infos[i].name \in Names \union {Volume}
         /\ infos[i].references \in Nat
         /\ infos[i].share \in Shares
  <2>1. \A i \in Infos : infos[i] \in InfoTypes
    BY <1>1 DEF Types
  <2> QED BY <2>1 DEF InfoTypes
<1>6. todo \in [Threads -> Seq([op : Steps, file : Files \union {NoInfo}])]
  <2>1. \A t \in Threads : todo[t] \in Seq([op : Steps, file : Files \union {NoInfo}])
    BY <1>1, ThreadsSay
  <2>2. todo = [t \in Threads |-> todo[t]]
    BY <1>1 DEF Lists
  <2> QED BY <2>1, <2>2
<1>7. volumes \in Nat /\ volumes <= 1
  BY <1>2
<1>8. TypeOK
  BY <1>1, <1>2, <1>3, <1>4, <1>5, <1>6, <1>7 DEF TypeOK, Types, Shares
<1>9. PointersExact /\ VolumeReferencesExact
  BY <1>0, PointersAreExact, VolumeIsExact
<1> QED BY <1>7, <1>8, <1>9 DEF ReferencesExact, MountedOnce

\* Whoever has something to do with a file has one that is live.
LEMMA GoodUntouched == IInv => FreedUntouched
<1> SUFFICES ASSUME IInv, NEW t \in Threads, NEW k \in DOMAIN todo[t], todo[t][k].file # NoInfo
             PROVE  files[todo[t][k].file].state = "live"
  BY DEF FreedUntouched
<1>0. PICK ph, fl : Good(ph, fl)
  BY DEF IInv
<1>1. Says(ph[t], fl[t], todo[t])
  BY <1>0, ThreadsSay DEF Good
<1>2. todo[t][k].file = fl[t] /\ fl[t] # NoInfo
  BY <1>1 DEF Says
<1> QED BY <1>0, <1>2 DEF Good, Lives, InHand

\* Who holds a lock in the sense of the property has it.
LEMMA HolderOwns ==
    ASSUME NEW ph, NEW fl, Lists(ph, fl), NEW t \in Threads, NEW f \in Files, Holds(t, f)
    PROVE  fl[t] = f /\ ph[t] \in Owning
<1>1. /\ Says(ph[t], fl[t], todo[t])
      /\ todo[t] \in Seq([op : Steps, file : Files \union {NoInfo}])
  BY ThreadsSay
<1>2. PICK k \in DOMAIN todo[t] :
         /\ todo[t][k] \in {Step("release", f), Step("close", f)}
         /\ \A j \in 1..(k - 1) : todo[t][j] \notin {Step("acquire", f), Step("wait", f)}
  BY DEF Holds
<1>3. todo[t][k].op \in {"release", "close"} /\ todo[t][k].file = f
  BY <1>2 DEF Step
<1>4. fl[t] = f
  BY <1>1, <1>3 DEF Says
<1>5. ph[t] \in Owning \/ \E j \in 1..(k - 1) : todo[t][j].op \in {"acquire", "wait"}
  BY <1>1, <1>3 DEF Says
<1>6. ASSUME NEW j \in 1..(k - 1), todo[t][j].op \in {"acquire", "wait"} PROVE FALSE
  <2>1. j \in DOMAIN todo[t]
    <3>1. DOMAIN todo[t] = 1..Len(todo[t]) /\ Len(todo[t]) \in Nat
      BY <1>1
    <3> QED BY <3>1
  <2>2. todo[t][j] \in [op : Steps, file : Files \union {NoInfo}]
    <3> DEFINE S == [op : Steps, file : Files \union {NoInfo}]
    <3>1. todo[t] \in Seq(S)
      BY <1>1
    <3> HIDE DEF S
    <3>2. todo[t][j] \in S
      BY <2>1, <3>1
    <3> QED BY <3>2 DEF S
  <2>3. todo[t][j].file = f
    BY <1>1, <1>4, <1>6, <2>1 DEF Says
  <2>4. todo[t][j] = Step("acquire", f) \/ todo[t][j] = Step("wait", f)
    BY <1>6, <2>2, <2>3 DEF Step
  <2> QED BY <1>2, <2>4
<1> QED BY <1>4, <1>5, <1>6

\* A thread that owns a lock has yet to release it, or to signal its event.
LEMMA OwnerReleases ==
    ASSUME NEW ph, NEW fl, Lists(ph, fl), NEW t \in Threads, NEW f \in Files, fl[t] = f,
           \/ ph[t] \in Owning \ {"close", "volume", "free"}
           \/ ph[t] \in Waiting \ {"deleteWait"}
    PROVE  Pending({"release", "signal"}, f) # {}
<1>1. Says(ph[t], fl[t], todo[t])
  BY ThreadsSay
<1>2. /\ ph[t] \in Owning \ {"close", "volume", "free"} =>
           \E k \in DOMAIN todo[t] : todo[t][k].op \in {"release", "signal"}
      /\ ph[t] \in Waiting \ {"deleteWait"} => \E k \in DOMAIN todo[t] : todo[t][k].op = "release"
      /\ \A k \in DOMAIN todo[t] : todo[t][k].op # "volume" => todo[t][k].file = f
  BY <1>1 DEF Says
<1>3. \E k \in DOMAIN todo[t] : todo[t][k].op \in {"release", "signal"}
  BY <1>2
<1>4. PICK k \in DOMAIN todo[t] : todo[t][k].op \in {"release", "signal"} /\ todo[t][k].file = f
  BY <1>2, <1>3
<1>5. <<t, k>> \in Pending({"release", "signal"}, f)
  BY <1>4, InPending
<1> QED BY <1>5

\* The lock is one request's, and no claim to it is overlooked.
LEMMA GoodLocks == IInv => FileLockRight
<1> SUFFICES ASSUME IInv PROVE FileLockRight
  OBVIOUS
<1>0. PICK ph, fl : Good(ph, fl)
  BY DEF IInv
<1>1. Types /\ Lists(ph, fl)
  BY <1>0 DEF IInv, Good
<1>2. ASSUME NEW f \in Files
      PROVE  Cardinality({t \in Threads : Holds(t, f)}) <= 1
  <2> DEFINE H == {t \in Threads : Holds(t, f)}
  <2>1. CASE H = {}
    BY <2>1, FS_EmptySet
  <2>2. CASE H # {}
    <3>1. PICK t : t \in Threads /\ Holds(t, f)
      BY <2>2
    <3>2. fl[t] = f /\ ph[t] \in Owning
      BY <1>1, <3>1, HolderOwns
    <3>3. Owners(ph, fl, f) = {t}
      BY <1>0, <3>1, <3>2, OwnerHas
    <3>4. \A u \in H : u \in Owners(ph, fl, f)
      BY <1>1, HolderOwns DEF Owners
    <3>5. H = {t}
      BY <3>1, <3>3, <3>4
    <3> QED BY <3>5, FS_Singleton
  <2> QED BY <2>1, <2>2
<1>3. ASSUME NEW t \in Threads, NEW f \in Files, todo[t] # <<>>, Head(todo[t]) = Step("wait", f)
      PROVE  files[f].lockSignal \/ Pending({"release", "signal"}, f) # {}
  <2>1. HeadOp(ph[t]) = "wait" /\ fl[t] = f
    <3>1. Step("wait", f) = Step(HeadOp(ph[t]), fl[t])
      <4>1. Head(todo[t]) = Step(HeadOp(ph[t]), fl[t])
        BY <1>1, <1>3, ThreadsSay
      <4> QED BY <1>3, <4>1
    <3>2. \A o, g : Step(o, g).op = o /\ Step(o, g).file = g
      BY DEF Step
    <3> QED BY <3>1, <3>2
  <2>2. ph[t] \in Waiting
    BY <1>1, <2>1, HeadPhases DEF Lists
  <2>3. CASE ph[t] # "deleteWait"
    BY <1>1, <2>1, <2>2, <2>3, OwnerReleases
  <2>4. CASE ph[t] = "deleteWait"
    <3>1. files[f].state = "live" /\ Locked(ph, fl, f)
      BY <1>0, <1>1, <2>1, LockOf
    <3>2. files[f].lockCount # -1
      <4>1. ClaimsTo(ph, fl, f) \in [Threads -> Nat] /\ ClaimsTo(ph, fl, f)[t] = Claims(ph[t])
        <5>1. ClaimsTo(ph, fl, f) \in [Threads -> Nat]
          BY CountsAreNat
        <5>2. ClaimsTo(ph, fl, f)[t] = Claims(ph[t])
          BY <1>3, <2>1 DEF ClaimsTo
        <5> QED BY <5>1, <5>2
      <4>2. Claims(ph[t]) = 1
        BY <2>4 DEF Claims, Claiming, Waiting
      <4>3. /\ IsFiniteSet(Tally(ClaimsTo(ph, fl, f)))
            /\ Cardinality(Tally(ClaimsTo(ph, fl, f))) = files[f].lockCount + 1
        BY <3>1 DEF Locked
      <4>4. Cardinality(Tally(ClaimsTo(ph, fl, f))) # 0
        <5> DEFINE a == ClaimsTo(ph, fl, f)
        <5>1. a \in [Threads -> Nat] /\ a[t] # 0 /\ IsFiniteSet(Tally(a))
          BY <4>1, <4>2, <4>3
        <5> HIDE DEF a
        <5>2. Cardinality(Tally(a)) # 0
          BY <5>1, TallyZero
        <5> QED BY <5>2 DEF a
      <4> QED BY <4>3, <4>4
    <3>3. CASE files[f].lockSignal
      BY <3>3
    <3>4. ASSUME NEW u \in Threads, fl[u] = f, ph[u] \in Owning
          PROVE  Pending({"release", "signal"}, f) # {}
      <4>1. {"deleteWait", "close", "volume", "free"} \subseteq Deleting /\ "deleteWait" \notin Owning
        BY DEF Deleting, Owning, Entered, Signalling
      <4>2. ph[u] \notin {"close", "volume", "free"}
        BY <1>0, <2>1, <2>4, <3>4, <4>1 DEF Good, Lives, OneDeletes
      <4> QED BY <1>1, <3>4, <4>2, OwnerReleases
    <3> QED BY <3>1, <3>2, <3>3, <3>4 DEF Locked, Owners
  <2> QED BY <2>3, <2>4
<1> QED BY <1>2, <1>3 DEF FileLockRight, OneRequestAtATime, WaiterRemembered

\* What a file has in FATX lasts until its close.
LEMMA GoodOrder == IInv => ClosedInOrder
<1> SUFFICES ASSUME IInv PROVE ClosedInOrder
  OBVIOUS
<1>0. PICK ph, fl : Good(ph, fl)
  BY DEF IInv
<1>1. Types /\ Lists(ph, fl) /\ ListedWhileOpen /\ NamesApart
  BY <1>0 DEF IInv, Good, OpenInfos
<1>2. ASSUME NEW f \in Files, IsOpen(f)
      PROVE  /\ infos[files[f].info].state = "listed"
             /\ infos[files[f].info].references
                  >= Cardinality({g \in Files : IsOpen(g) /\ files[g].info = files[f].info})
    BY <1>1, <1>2 DEF ListedWhileOpen, Openers
<1>3. ASSUME NEW name \in Names PROVE Cardinality(Listed(name)) <= 1
  <2>1. CASE Listed(name) = {}
    BY <2>1, FS_EmptySet
  <2>2. CASE Listed(name) # {}
    <3>1. PICK i : i \in Listed(name)
      BY <2>2
    <3>2. Listed(name) = {i}
      BY <1>1, <3>1 DEF Listed, NamesApart
    <3> QED BY <3>2, FS_Singleton
  <2> QED BY <2>1, <2>2
<1>4. ASSUME NEW f \in Files, Pending({"close"}, f) # {}
      PROVE  files[f].handles = 0 /\ files[f].cleaned
  <2>1. PICK t \in Threads : fl[t] = f /\ ph[t] \in Closing
    BY <1>1, <1>4, PendingClose
  <2>2. ph[t] \notin CleaningOrNew
    BY <2>1 DEF Closing, CleaningOrNew, Cleaning
  <2> QED BY <1>0, <1>1, <2>1, <2>2, ClosingFacts
<1> QED BY <1>2, <1>3, <1>4 DEF ClosedInOrder, InfosOutliveFiles, CleanedBeforeClosed

-----------------------------------------------------------------------------
(* The theorems.                                                            *)

\* Every reference to a file object and to the volume is counted, through opens
\* that fail half-way, duplicates and closes that overtake requests.
THEOREM FileReferences == Spec => []ReferencesExact
    BY FileInvariant, GoodCounts, PTL

\* No thread has anything left to do with a file object whose memory is freed.
THEOREM FilesOutliveRequests == Spec => []FreedUntouched
    BY FileInvariant, GoodUntouched, PTL

\* The lock of a file object is never two threads' between
\* IopAcquireSynchronousFileLock and IopReleaseSynchronousFileLock, and for who
\* has claimed it KeSetEvent is still to be called, or has been: by a release
\* or by one that reads LockCount later.  Whoever is already asleep when it is
\* called does not get the lock: that call is the machine's last.
THEOREM FileLocks == Spec => []FileLockRight
    BY FileInvariant, GoodLocks, PTL

\* A FATX_FILE_INFO stays listed, under a name of its own, until the last file
\* object open on it is closed, and each is cleaned up before that.
THEOREM FilesClosedInOrder == Spec => []ClosedInOrder
    BY FileInvariant, GoodOrder, PTL

\* Share modes are enforced between any two files open together, by counts that
\* are those of the files not yet cleaned up.
THEOREM SharingEnforced == Spec => []SharingExact
<1>1. IInv => SharingExact
  BY DEF IInv, Good, SharingExact
<1> QED BY <1>1, FileInvariant, PTL
=============================================================================
