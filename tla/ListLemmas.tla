----------------------------- MODULE ListLemmas -----------------------------
(***************************************************************************)
(* Lemmas about the kernel's lists as the modules model them, sequences    *)
(* that are appended to, that lose their first entries, and in which no    *)
(* entry is twice; and about tallies, by which a counter of the code is    *)
(* compared with what it counts: how much each of the threads has of it.   *)
(***************************************************************************)
EXTENDS Integers, Sequences, FiniteSets, FiniteSetTheorems, SequenceTheorems,
        WellFoundedInduction, TLAPS

Members(q) == {q[i] : i \in 1..Len(q)}

Distinct(q) == \A i, j \in 1..Len(q) : q[i] = q[j] => i = j

\* An empty list has no members.
LEMMA EmptyMembers ==
    Members(<<>>) = {} /\ Distinct(<<>>)
    BY DEF Members, Distinct

\* Only the empty list has no members.
LEMMA NoMembers ==
    ASSUME NEW S, NEW q \in Seq(S)
    PROVE  /\ Members(q) \subseteq S
           /\ q = <<>> <=> Members(q) = {}
           /\ q = <<>> <=> Len(q) = 0
    <1>1. Members(q) \subseteq S
        BY ElementOfSeq DEF Members
    <1>2. ASSUME q # <<>> PROVE q[1] \in Members(q) /\ Len(q) # 0
        <2>1. Len(q) \in Nat \ {0}
            BY <1>2, EmptySeq
        <2> QED BY <2>1 DEF Members
    <1>3. Len(<<>>) = 0
        BY EmptySeq
    <1> QED BY <1>1, <1>2, <1>3, EmptyMembers

\* What is appended becomes a member.
LEMMA AppendMember ==
    ASSUME NEW S, NEW q \in Seq(S), NEW x \in S
    PROVE  /\ Append(q, x) \in Seq(S)
           /\ Members(Append(q, x)) = Members(q) \union {x}
           /\ Distinct(q) /\ x \notin Members(q) => Distinct(Append(q, x))
    <1>1. /\ Append(q, x) \in Seq(S) /\ Len(Append(q, x)) = Len(q) + 1
          /\ Len(q) \in Nat
          /\ \A i \in 1..Len(q) : Append(q, x)[i] = q[i]
          /\ Append(q, x)[Len(q) + 1] = x
        OBVIOUS
    <1>2. Members(Append(q, x)) = Members(q) \union {x}
        BY <1>1 DEF Members
    <1>3. ASSUME Distinct(q), x \notin Members(q) PROVE Distinct(Append(q, x))
        BY <1>1, <1>3 DEF Distinct, Members
    <1> QED BY <1>1, <1>2, <1>3

\* A list without its first "k" entries.
LEMMA DropFirst ==
    ASSUME NEW S, NEW q \in Seq(S), NEW k \in 0..Len(q)
    PROVE  /\ SubSeq(q, k + 1, Len(q)) \in Seq(S)
           /\ Len(SubSeq(q, k + 1, Len(q))) = Len(q) - k
           /\ \A i \in 1..(Len(q) - k) : SubSeq(q, k + 1, Len(q))[i] = q[i + k]
    <1> DEFINE r == SubSeq(q, k + 1, Len(q))
    <1>1. Len(q) \in Nat /\ k + 1 \in Int
        OBVIOUS
    <1>2. \A i \in (k + 1)..Len(q) : q[i] \in S
        BY <1>1, ElementOfSeq
    <1>3. /\ r \in Seq(S)
          /\ Len(r) = IF k + 1 <= Len(q) THEN Len(q) - (k + 1) + 1 ELSE 0
          /\ \A i \in 1..(Len(q) - (k + 1) + 1) : r[i] = q[k + 1 + i - 1]
        <2> HIDE DEF r
        <2>1. \A m, n \in Int : (\A i \in m..n : q[i] \in S) =>
                 /\ SubSeq(q, m, n) \in Seq(S)
                 /\ Len(SubSeq(q, m, n)) = IF m <= n THEN n - m + 1 ELSE 0
                 /\ \A i \in 1..(n - m + 1) : SubSeq(q, m, n)[i] = q[m + i - 1]
            BY SubSeqProperties
        <2> QED BY <1>1, <1>2, <2>1 DEF r
    <1> HIDE DEF r
    <1>4. Len(r) = Len(q) - k
        BY <1>1, <1>3
    <1>5. \A i \in 1..(Len(q) - k) : r[i] = q[i + k]
        <2> TAKE i \in 1..(Len(q) - k)
        <2>1. r[i] = q[k + 1 + i - 1] /\ k + 1 + i - 1 = i + k
            BY <1>1, <1>3
        <2> QED BY <2>1
    <1> QED BY <1>3, <1>4, <1>5 DEF r

\* Those that leave and those that stay are all there were, and, if none is
\* there twice, are not the same.
LEMMA DropMembers ==
    ASSUME NEW S, NEW q \in Seq(S), NEW k \in 0..Len(q)
    PROVE  /\ Members(q) = {q[i] : i \in 1..k} \union Members(SubSeq(q, k + 1, Len(q)))
           /\ Distinct(q) =>
                /\ Distinct(SubSeq(q, k + 1, Len(q)))
                /\ {q[i] : i \in 1..k} \intersect Members(SubSeq(q, k + 1, Len(q))) = {}
    <1> DEFINE r == SubSeq(q, k + 1, Len(q))
    <1>1. /\ Len(r) = Len(q) - k /\ Len(q) \in Nat
          /\ \A i \in 1..(Len(q) - k) : r[i] = q[i + k]
        BY DropFirst
    <1> HIDE DEF r
    <1>2. Members(r) = {q[i] : i \in (k + 1)..Len(q)}
        <2>1. ASSUME NEW i \in 1..Len(r) PROVE r[i] \in {q[j] : j \in (k + 1)..Len(q)}
            <3>1. i + k \in (k + 1)..Len(q) /\ r[i] = q[i + k]
                BY <1>1
            <3> QED BY <3>1
        <2>2. ASSUME NEW j \in (k + 1)..Len(q) PROVE q[j] \in Members(r)
            <3>1. j - k \in 1..Len(r) /\ r[j - k] = q[j]
                <4>1. j - k \in 1..(Len(q) - k) /\ (j - k) + k = j
                    BY <1>1
                <4> QED BY <1>1, <4>1
            <3> QED BY <3>1 DEF Members
        <2> QED BY <2>1, <2>2 DEF Members
    <1>3. Members(q) = {q[i] : i \in 1..k} \union Members(r)
        <2>1. 1..Len(q) = (1..k) \union ((k + 1)..Len(q))
            BY <1>1
        <2> QED BY <1>2, <2>1, Zenon DEF Members
    <1>4. ASSUME Distinct(q) PROVE Distinct(r)
        <2> SUFFICES ASSUME NEW i \in 1..Len(r), NEW j \in 1..Len(r), r[i] = r[j]
                     PROVE  i = j
            BY DEF Distinct
        <2>1. /\ i + k \in 1..Len(q) /\ j + k \in 1..Len(q)
              /\ r[i] = q[i + k] /\ r[j] = q[j + k]
            BY <1>1
        <2>2. i + k = j + k
            BY <1>4, <2>1 DEF Distinct
        <2> QED BY <2>2
    <1>5. ASSUME Distinct(q) PROVE {q[i] : i \in 1..k} \intersect Members(r) = {}
        <2> SUFFICES ASSUME NEW i \in 1..k, NEW j \in (k + 1)..Len(q), q[i] = q[j]
                     PROVE  FALSE
            BY <1>2
        <2>1. i \in 1..Len(q) /\ j \in 1..Len(q) /\ i # j
            BY <1>1
        <2> QED BY <1>5, <2>1 DEF Distinct
    <1> QED BY <1>3, <1>4, <1>5 DEF r

\* The first of a list leaves it.
LEMMA HeadLeaves ==
    ASSUME NEW S, NEW q \in Seq(S), q # <<>>, Distinct(q)
    PROVE  /\ q[1] \in Members(q)
           /\ SubSeq(q, 1 + 1, Len(q)) \in Seq(S)
           /\ Members(SubSeq(q, 1 + 1, Len(q))) = Members(q) \ {q[1]}
           /\ Distinct(SubSeq(q, 1 + 1, Len(q)))
    <1>1. Len(q) \in Nat \ {0} /\ 1 \in 0..Len(q)
        BY EmptySeq
    <1>2. {q[i] : i \in 1..1} = {q[1]}
        OBVIOUS
    <1>3. SubSeq(q, 1 + 1, Len(q)) \in Seq(S)
        BY <1>1, DropFirst
    <1>4. /\ Members(q) = {q[i] : i \in 1..1} \union Members(SubSeq(q, 1 + 1, Len(q)))
          /\ Distinct(SubSeq(q, 1 + 1, Len(q)))
          /\ {q[i] : i \in 1..1} \intersect Members(SubSeq(q, 1 + 1, Len(q))) = {}
        BY <1>1, DropMembers
    <1> QED BY <1>2, <1>3, <1>4, Zenon

\* The head of a list leaves it.
LEMMA TailLeaves ==
    ASSUME NEW S, NEW q \in Seq(S), q # <<>>, Distinct(q)
    PROVE  /\ Head(q) \in Members(q) /\ Head(q) \in S /\ Tail(q) \in Seq(S)
           /\ Members(Tail(q)) = Members(q) \ {Head(q)}
           /\ Distinct(Tail(q))
    <1>1. Head(q) = q[1] /\ Head(q) \in S /\ Tail(q) = SubSeq(q, 2, Len(q)) /\ 2 = 1 + 1
        BY HeadTailProperties, TailIsSubSeq
    <1>2. /\ q[1] \in Members(q)
          /\ SubSeq(q, 1 + 1, Len(q)) \in Seq(S)
          /\ Members(SubSeq(q, 1 + 1, Len(q))) = Members(q) \ {q[1]}
          /\ Distinct(SubSeq(q, 1 + 1, Len(q)))
        BY HeadLeaves
    <1> QED BY <1>1, <1>2

\* A list without what comes after its first "k" entries.
LEMMA TakeFirst ==
    ASSUME NEW S, NEW q \in Seq(S), NEW k \in 0..Len(q)
    PROVE  /\ SubSeq(q, 1, k) \in Seq(S)
           /\ Len(SubSeq(q, 1, k)) = k
           /\ \A i \in 1..k : SubSeq(q, 1, k)[i] = q[i]
           /\ Members(SubSeq(q, 1, k)) = {q[i] : i \in 1..k}
           /\ Distinct(q) => Distinct(SubSeq(q, 1, k))
    <1>1. k \in Nat /\ Len(q) \in Nat /\ \A i \in 1..k : q[i] \in S
        BY ElementOfSeq
    <1>2. /\ SubSeq(q, 1, k) \in Seq(S)
          /\ Len(SubSeq(q, 1, k)) = IF 1 <= k THEN k - 1 + 1 ELSE 0
          /\ \A i \in 1..(k - 1 + 1) : SubSeq(q, 1, k)[i] = q[1 + i - 1]
        <2>1. \A m, n \in Int : (\A i \in m..n : q[i] \in S) =>
                 /\ SubSeq(q, m, n) \in Seq(S)
                 /\ Len(SubSeq(q, m, n)) = IF m <= n THEN n - m + 1 ELSE 0
                 /\ \A i \in 1..(n - m + 1) : SubSeq(q, m, n)[i] = q[m + i - 1]
            BY SubSeqProperties
        <2> QED BY <1>1, <2>1
    <1> DEFINE r == SubSeq(q, 1, k)
    <1> HIDE DEF r
    <1>3. r \in Seq(S) /\ Len(r) = k /\ \A i \in 1..k : r[i] = q[i]
        BY <1>1, <1>2 DEF r
    <1>4. Members(r) = {q[i] : i \in 1..k}
        BY <1>3 DEF Members
    <1>5. Distinct(q) => Distinct(r)
        BY <1>1, <1>3 DEF Distinct
    <1> QED BY <1>3, <1>4, <1>5 DEF r

\* Two lists in one.
LEMMA JoinMembers ==
    ASSUME NEW S, NEW q \in Seq(S), NEW r \in Seq(S)
    PROVE  /\ q \o r \in Seq(S) /\ Len(q \o r) = Len(q) + Len(r)
           /\ Members(q \o r) = Members(q) \union Members(r)
           /\ Distinct(q) /\ Distinct(r) /\ Members(q) \intersect Members(r) = {}
                  => Distinct(q \o r)
    <1> DEFINE s == q \o r
    <1>1. /\ s \in Seq(S) /\ Len(s) = Len(q) + Len(r) /\ Len(q) \in Nat /\ Len(r) \in Nat
          /\ \A i \in 1..(Len(q) + Len(r)) :
                s[i] = IF i <= Len(q) THEN q[i] ELSE r[i - Len(q)]
        BY ConcatProperties
    <1> HIDE DEF s
    <1>2. ASSUME NEW i \in 1..Len(q) PROVE i \in 1..Len(s) /\ s[i] = q[i]
        BY <1>1
    <1>3. ASSUME NEW j \in 1..Len(r) PROVE j + Len(q) \in 1..Len(s) /\ s[j + Len(q)] = r[j]
        <2>1. j + Len(q) \in 1..(Len(q) + Len(r)) /\ ~(j + Len(q) <= Len(q))
              /\ j + Len(q) - Len(q) = j
            BY <1>1
        <2> QED BY <1>1, <2>1
    <1>4. ASSUME NEW i \in 1..Len(s)
          PROVE  \/ i \in 1..Len(q) /\ s[i] = q[i]
                 \/ \E j \in 1..Len(r) : i = j + Len(q) /\ s[i] = r[j]
        <2>1. CASE i <= Len(q)
            BY <1>1, <2>1
        <2>2. CASE ~(i <= Len(q))
            <3>1. i - Len(q) \in 1..Len(r) /\ i = (i - Len(q)) + Len(q)
                BY <1>1, <2>2
            <3> QED BY <1>1, <2>2, <3>1
        <2> QED BY <2>1, <2>2
    <1>5. Members(s) = Members(q) \union Members(r)
        <2>1. Members(s) \subseteq Members(q) \union Members(r)
            BY <1>4 DEF Members
        <2>2. Members(q) \union Members(r) \subseteq Members(s)
            BY <1>2, <1>3 DEF Members
        <2> QED BY <2>1, <2>2
    <1>6. ASSUME Distinct(q), Distinct(r), Members(q) \intersect Members(r) = {}
          PROVE  Distinct(s)
        <2> SUFFICES ASSUME NEW i \in 1..Len(s), NEW j \in 1..Len(s), s[i] = s[j]
                     PROVE  i = j
            BY DEF Distinct
        <2>1. CASE i \in 1..Len(q) /\ s[i] = q[i] /\ j \in 1..Len(q) /\ s[j] = q[j]
            BY <1>6, <2>1 DEF Distinct
        <2>2. ASSUME NEW a \in 1..Len(r), NEW b \in 1..Len(q), r[a] = q[b]
              PROVE  FALSE
            BY <1>6, <2>2 DEF Members
        <2>3. ASSUME NEW a \in 1..Len(r), i = a + Len(q), s[i] = r[a],
                     NEW b \in 1..Len(r), j = b + Len(q), s[j] = r[b]
              PROVE  i = j
            <3>1. a = b
                BY <1>6, <2>3 DEF Distinct
            <3> QED BY <2>3, <3>1
        <2> QED BY <1>4, <2>1, <2>2, <2>3
    <1> QED BY <1>1, <1>5, <1>6 DEF s

\* One is put before all others.
LEMMA PrependMember ==
    ASSUME NEW S, NEW q \in Seq(S), NEW x \in S
    PROVE  /\ <<x>> \o q \in Seq(S)
           /\ Members(<<x>> \o q) = Members(q) \union {x}
           /\ Distinct(q) /\ x \notin Members(q) => Distinct(<<x>> \o q)
    <1>1. <<x>> \in Seq(S) /\ Members(<<x>>) = {x} /\ Distinct(<<x>>)
        BY DEF Members, Distinct
    <1>2. /\ <<x>> \o q \in Seq(S)
          /\ Members(<<x>> \o q) = Members(<<x>>) \union Members(q)
          /\ Distinct(<<x>>) /\ Distinct(q) /\ Members(<<x>>) \intersect Members(q) = {}
                  => Distinct(<<x>> \o q)
        <2>0. \A a, b \in Seq(S) :
                 /\ a \o b \in Seq(S)
                 /\ Members(a \o b) = Members(a) \union Members(b)
                 /\ Distinct(a) /\ Distinct(b) /\ Members(a) \intersect Members(b) = {}
                        => Distinct(a \o b)
            BY JoinMembers
        <2> QED BY <1>1, <2>0
    <1> QED BY <1>1, <1>2

\* The "k"-th leaves the list.
LEMMA RemoveMember ==
    ASSUME NEW S, NEW q \in Seq(S), Distinct(q), NEW k \in 1..Len(q)
    PROVE  LET r == SubSeq(q, 1, k - 1) \o SubSeq(q, k + 1, Len(q))
           IN  /\ r \in Seq(S) /\ Distinct(r) /\ q[k] \in Members(q)
               /\ Members(r) = Members(q) \ {q[k]}
    <1> DEFINE before == SubSeq(q, 1, k - 1)
               after == SubSeq(q, k + 1, Len(q))
    <1>1. Len(q) \in Nat /\ k - 1 \in 0..Len(q) /\ k \in 0..Len(q)
        OBVIOUS
    <1>2. /\ before \in Seq(S) /\ Distinct(before)
          /\ Members(before) = {q[i] : i \in 1..(k - 1)}
        BY <1>1, TakeFirst
    <1>3. /\ after \in Seq(S) /\ Distinct(after)
          /\ Members(q) = {q[i] : i \in 1..k} \union Members(after)
          /\ {q[i] : i \in 1..k} \intersect Members(after) = {}
        BY <1>1, DropFirst, DropMembers
    <1>4. /\ {q[i] : i \in 1..k} = Members(before) \union {q[k]}
          /\ q[k] \notin Members(before)
        <2>1. 1..k = (1..(k - 1)) \union {k}
            BY <1>1
        <2>2. \A i \in 1..(k - 1) : q[i] # q[k]
            BY <1>1 DEF Distinct
        <2> QED BY <1>2, <2>1, <2>2, Zenon
    <1> HIDE DEF before, after
    <1>5. /\ before \o after \in Seq(S)
          /\ Members(before \o after) = Members(before) \union Members(after)
          /\ Members(before) \intersect Members(after) = {} => Distinct(before \o after)
        <2>0. \A a, b \in Seq(S) :
                 /\ a \o b \in Seq(S)
                 /\ Members(a \o b) = Members(a) \union Members(b)
                 /\ Distinct(a) /\ Distinct(b) /\ Members(a) \intersect Members(b) = {}
                        => Distinct(a \o b)
            BY JoinMembers
        <2> QED BY <1>2, <1>3, <2>0
    <1>6. Members(before) \intersect Members(after) = {} /\ q[k] \notin Members(after)
          /\ q[k] \in Members(q)
        BY <1>3, <1>4
    <1>7. Members(before \o after) = Members(q) \ {q[k]}
        BY <1>3, <1>4, <1>5, <1>6
    <1> QED BY <1>5, <1>6, <1>7 DEF before, after

\* One is put into the list as its "k"-th.
LEMMA InsertMember ==
    ASSUME NEW S, NEW q \in Seq(S), NEW k \in 1..(Len(q) + 1), NEW x \in S
    PROVE  LET r == SubSeq(q, 1, k - 1) \o <<x>> \o SubSeq(q, k, Len(q))
           IN  /\ r \in Seq(S) /\ Members(r) = Members(q) \union {x}
               /\ Distinct(q) /\ x \notin Members(q) => Distinct(r)
    <1> DEFINE before == SubSeq(q, 1, k - 1)
               after == SubSeq(q, k, Len(q))
    <1>1. Len(q) \in Nat /\ k - 1 \in 0..Len(q) /\ (k - 1) + 1 = k
        OBVIOUS
    <1>2. /\ before \in Seq(S)
          /\ Distinct(q) => Distinct(before)
          /\ Members(before) = {q[i] : i \in 1..(k - 1)}
        BY <1>1, TakeFirst
    <1>3. /\ after \in Seq(S)
          /\ Distinct(q) => Distinct(after)
          /\ Members(q) = Members(before) \union Members(after)
          /\ Distinct(q) => Members(before) \intersect Members(after) = {}
        <2>1. /\ SubSeq(q, (k - 1) + 1, Len(q)) \in Seq(S)
              /\ Members(q) = {q[i] : i \in 1..(k - 1)}
                                  \union Members(SubSeq(q, (k - 1) + 1, Len(q)))
              /\ Distinct(q) =>
                   /\ Distinct(SubSeq(q, (k - 1) + 1, Len(q)))
                   /\ {q[i] : i \in 1..(k - 1)}
                          \intersect Members(SubSeq(q, (k - 1) + 1, Len(q))) = {}
            BY <1>1, DropFirst, DropMembers
        <2> QED BY <1>1, <1>2, <2>1
    <1> HIDE DEF before, after
    <1>4. <<x>> \in Seq(S) /\ Members(<<x>>) = {x} /\ Distinct(<<x>>)
        BY DEF Members, Distinct
    <1>5. /\ before \o <<x>> \in Seq(S)
          /\ Members(before \o <<x>>) = Members(before) \union {x}
          /\ Distinct(before) /\ x \notin Members(before) => Distinct(before \o <<x>>)
        <2>1. /\ before \o <<x>> \in Seq(S)
              /\ Members(before \o <<x>>) = Members(before) \union Members(<<x>>)
              /\ Distinct(before) /\ Distinct(<<x>>)
                   /\ Members(before) \intersect Members(<<x>>) = {}
                      => Distinct(before \o <<x>>)
            <3>0. \A a, b \in Seq(S) :
                     /\ a \o b \in Seq(S)
                     /\ Members(a \o b) = Members(a) \union Members(b)
                     /\ Distinct(a) /\ Distinct(b) /\ Members(a) \intersect Members(b) = {}
                            => Distinct(a \o b)
                BY JoinMembers
            <3> QED BY <1>2, <1>4, <3>0
        <2> QED BY <1>4, <2>1
    <1>6. /\ before \o <<x>> \o after \in Seq(S)
          /\ Members(before \o <<x>> \o after) = Members(before \o <<x>>) \union Members(after)
          /\ Distinct(before \o <<x>>) /\ Distinct(after)
               /\ Members(before \o <<x>>) \intersect Members(after) = {}
                  => Distinct(before \o <<x>> \o after)
        <2>0. \A a, b \in Seq(S) :
                 /\ a \o b \in Seq(S)
                 /\ Members(a \o b) = Members(a) \union Members(b)
                 /\ Distinct(a) /\ Distinct(b) /\ Members(a) \intersect Members(b) = {}
                        => Distinct(a \o b)
            BY JoinMembers
        <2> QED BY <1>3, <1>5, <2>0
    <1>7. Members(before \o <<x>> \o after) = Members(q) \union {x}
        BY <1>3, <1>5, <1>6
    <1>8. Distinct(q) /\ x \notin Members(q) => Distinct(before \o <<x>> \o after)
        BY <1>2, <1>3, <1>5, <1>6
    <1> QED BY <1>6, <1>7, <1>8 DEF before, after

\* A list in which none is twice is as long as it has members.
LEMMA LenIsCardinality ==
    ASSUME NEW S, NEW q \in Seq(S), Distinct(q)
    PROVE  IsFiniteSet(Members(q)) /\ Cardinality(Members(q)) = Len(q)
    <1>1. Len(q) \in Nat /\ q \in [1..Len(q) -> S] 
        BY LenProperties
    <1>2. q \in Bijection(1..Len(q), Members(q))
        BY <1>1 DEF Bijection, Injection, Surjection, IsInjective, Members, Distinct
    <1>3. IsFiniteSet(1..Len(q)) /\ Cardinality(1..Len(q)) = Len(q)
        BY <1>1, FS_Interval
    <1> QED BY <1>2, <1>3, FS_Bijection DEF ExistsBijection

-----------------------------------------------------------------------------
(* Tallies.                                                                 *)

\* As many pairs with "t" as "f" says that "t" has.
Tally(f) == UNION {{t} \X (1..f[t]) : t \in DOMAIN f}

\* What a tally consists of.
LEMMA InTally ==
    ASSUME NEW S, NEW f \in [S -> Nat], NEW c
    PROVE  c \in Tally(f) <=> \E t \in S : \E i \in 1..f[t] : c = <<t, i>>
    BY DEF Tally

\* Nothing is counted exactly if nobody has anything.
LEMMA TallyZero ==
    ASSUME NEW S, NEW f \in [S -> Nat]
    PROVE  /\ (\A t \in S : f[t] = 0) => IsFiniteSet(Tally(f)) /\ Cardinality(Tally(f)) = 0
           /\ IsFiniteSet(Tally(f)) =>
                /\ Cardinality(Tally(f)) \in Nat
                /\ Cardinality(Tally(f)) = 0 <=> \A t \in S : f[t] = 0
    <1>0. \A x : x \in Tally(f) <=> \E u \in S : \E i \in 1..f[u] : x = <<u, i>>
        BY InTally
    <1>1. Tally(f) = {} <=> \A t \in S : 1..f[t] = {}
        BY <1>0
    <1>2. \A t \in S : 1..f[t] = {} <=> f[t] = 0
        OBVIOUS
    <1> QED BY <1>1, <1>2, FS_EmptySet, FS_CardinalityType

\* Someone gets one more.
LEMMA TallyUp ==
    ASSUME NEW S, NEW f \in [S -> Nat], NEW t \in S, NEW g \in [S -> Nat],
           g[t] = f[t] + 1, \A u \in S \ {t} : g[u] = f[u], IsFiniteSet(Tally(f))
    PROVE  IsFiniteSet(Tally(g)) /\ Cardinality(Tally(g)) = Cardinality(Tally(f)) + 1
    <1> DEFINE c == <<t, f[t] + 1>>
    <1>0. /\ \A x : x \in Tally(f) <=> \E u \in S : \E i \in 1..f[u] : x = <<u, i>>
          /\ \A x : x \in Tally(g) <=> \E u \in S : \E i \in 1..g[u] : x = <<u, i>>
        BY InTally
    <1>1. \A u \in S : \A i : i \in 1..g[u] <=> i \in 1..f[u] \/ <<u, i>> = c
        OBVIOUS
    <1>2. Tally(g) = Tally(f) \union {c}
        <2>1. ASSUME NEW x \in Tally(g) PROVE x \in Tally(f) \union {c}
            <3>1. PICK u \in S : \E i \in 1..g[u] : x = <<u, i>>
                BY <1>0, <2>1
            <3> QED BY <1>0, <1>1, <3>1, Zenon
        <2>2. ASSUME NEW x \in Tally(f) PROVE x \in Tally(g)
            <3>1. PICK u \in S : \E i \in 1..f[u] : x = <<u, i>>
                BY <1>0, <2>2
            <3> QED BY <1>0, <1>1, <3>1, Zenon
        <2>3. c \in Tally(g)
            BY <1>0, <1>1, Zenon
        <2> QED BY <2>1, <2>2, <2>3, Zenon
    <1>3. c \notin Tally(f)
        <2>1. f[t] + 1 \notin 1..f[t]
            OBVIOUS
        <2> QED BY <1>0, <2>1
    <1>4. Cardinality(Tally(f)) \in Nat
        BY FS_CardinalityType
    <1>5. /\ IsFiniteSet(Tally(f) \union {c})
          /\ Cardinality(Tally(f) \union {c}) = Cardinality(Tally(f)) + 1
        BY <1>3, FS_AddElement
    <1> QED BY <1>2, <1>5

\* Someone gives one up.
LEMMA TallyDown ==
    ASSUME NEW S, NEW f \in [S -> Nat], NEW t \in S, f[t] > 0, NEW g \in [S -> Nat],
           g[t] = f[t] - 1, \A u \in S \ {t} : g[u] = f[u], IsFiniteSet(Tally(f))
    PROVE  IsFiniteSet(Tally(g)) /\ Cardinality(Tally(g)) = Cardinality(Tally(f)) - 1
    <1> DEFINE c == <<t, f[t]>>
    <1>0. /\ \A x : x \in Tally(f) <=> \E u \in S : \E i \in 1..f[u] : x = <<u, i>>
          /\ \A x : x \in Tally(g) <=> \E u \in S : \E i \in 1..g[u] : x = <<u, i>>
        BY InTally
    <1>1. \A u \in S : \A i : i \in 1..g[u] <=> i \in 1..f[u] /\ <<u, i>> # c
        OBVIOUS
    <1>2. Tally(g) = Tally(f) \ {c}
        <2>1. ASSUME NEW x \in Tally(g) PROVE x \in Tally(f) \ {c}
            <3>1. PICK u \in S : \E i \in 1..g[u] : x = <<u, i>>
                BY <1>0, <2>1
            <3>2. PICK i \in 1..g[u] : x = <<u, i>>
                BY <3>1
            <3>3. i \in 1..f[u] /\ x # c
                BY <1>1, <3>2, Zenon
            <3> QED BY <1>0, <3>2, <3>3, Zenon
        <2>2. ASSUME NEW x \in Tally(f) \ {c} PROVE x \in Tally(g)
            <3>1. PICK u \in S : \E i \in 1..f[u] : x = <<u, i>>
                BY <1>0, <2>2
            <3> QED BY <1>0, <1>1, <2>2, <3>1, Zenon
        <2> QED BY <2>1, <2>2, Zenon
    <1>3. c \in Tally(f)
        <2>1. f[t] \in 1..f[t]
            OBVIOUS
        <2> QED BY <1>0, <2>1
    <1>5. /\ IsFiniteSet(Tally(f) \ {c})
          /\ Cardinality(Tally(f) \ {c}) = Cardinality(Tally(f)) - 1
        BY <1>3, FS_RemoveElement
    <1> QED BY <1>2, <1>5

\* Each of a group gets one more.
LEMMA TallyGroup ==
    ASSUME NEW S, NEW f \in [S -> Nat], NEW G \in SUBSET S, IsFiniteSet(G),
           NEW g \in [S -> Nat], \A u \in S : g[u] = IF u \in G THEN f[u] + 1 ELSE f[u],
           IsFiniteSet(Tally(f))
    PROVE  /\ IsFiniteSet(Tally(g))
           /\ Cardinality(Tally(g)) = Cardinality(Tally(f)) + Cardinality(G)
    <1> DEFINE A == {<<u, f[u] + 1>> : u \in G}
               h == [u \in G |-> <<u, f[u] + 1>>]
    <1>1. h \in Bijection(G, A)
        BY DEF Bijection, Injection, Surjection, IsInjective
    <1>2. IsFiniteSet(A) /\ Cardinality(A) = Cardinality(G)
        BY <1>1, FS_Bijection DEF ExistsBijection
    <1>0. /\ \A x : x \in Tally(f) <=> \E u \in S : \E i \in 1..f[u] : x = <<u, i>>
          /\ \A x : x \in Tally(g) <=> \E u \in S : \E i \in 1..g[u] : x = <<u, i>>
        BY InTally
    <1>3. \A u \in S : \A i : i \in 1..g[u] <=> i \in 1..f[u] \/ (u \in G /\ i = f[u] + 1)
        OBVIOUS
    <1>4. Tally(g) = Tally(f) \union A
        BY <1>0, <1>3
    <1>5. Tally(f) \intersect A = {}
        <2>1. \A u \in S : f[u] + 1 \notin 1..f[u]
            OBVIOUS
        <2> QED BY <1>0, <2>1
    <1>6. Cardinality(Tally(f) \intersect A) = 0
        BY <1>5, FS_EmptySet
    <1> HIDE DEF A
    <1>7. Cardinality(Tally(f)) \in Nat /\ Cardinality(G) \in Nat
        BY FS_CardinalityType
    <1>8. /\ IsFiniteSet(Tally(f) \union A)
          /\ Cardinality(Tally(f) \union A) = Cardinality(Tally(f))
                 + Cardinality(A) - Cardinality(Tally(f) \intersect A)
        BY <1>2, FS_Union
    <1> QED BY <1>2, <1>4, <1>6, <1>7, <1>8

\* If one is counted, it is that of the only one who has any.
LEMMA TallyOne ==
    ASSUME NEW S, NEW f \in [S -> Nat], NEW t \in S, f[t] > 0,
           IsFiniteSet(Tally(f)), Cardinality(Tally(f)) = 1
    PROVE  f[t] = 1 /\ \A u \in S \ {t} : f[u] = 0
    <1>1. \E g \in [S -> Nat] : g[t] = f[t] - 1 /\ \A u \in S \ {t} : g[u] = f[u]
        <2> WITNESS [f EXCEPT ![t] = f[t] - 1] \in [S -> Nat]
        <2> QED OBVIOUS
    <1>2. PICK g \in [S -> Nat] : g[t] = f[t] - 1 /\ \A u \in S \ {t} : g[u] = f[u]
        BY <1>1
    <1>3. IsFiniteSet(Tally(g)) /\ Cardinality(Tally(g)) = Cardinality(Tally(f)) - 1
        BY <1>2, TallyDown
    <1>4. \A u \in S : g[u] = 0
        BY <1>3, TallyZero
    <1> QED BY <1>2, <1>4

\* Whoever alone has one is all that is counted.
LEMMA TallyOnly ==
    ASSUME NEW S, NEW f \in [S -> Nat], NEW t \in S, f[t] = 1,
           \A u \in S \ {t} : f[u] = 0, IsFiniteSet(Tally(f))
    PROVE  Cardinality(Tally(f)) = 1
    <1>1. \E g \in [S -> Nat] : \A u \in S : g[u] = 0
        <2> WITNESS [u \in S |-> 0] \in [S -> Nat]
        <2> QED OBVIOUS
    <1>2. PICK g \in [S -> Nat] : \A u \in S : g[u] = 0
        BY <1>1
    <1>3. IsFiniteSet(Tally(g)) /\ Cardinality(Tally(g)) = 0
        BY <1>2, TallyZero
    <1>4. g[t] = f[t] - 1 /\ \A u \in S \ {t} : g[u] = f[u]
        BY <1>2
    <1>5. Cardinality(Tally(g)) = Cardinality(Tally(f)) - 1
        BY <1>4, TallyDown
    <1>6. Cardinality(Tally(f)) \in Nat
        BY FS_CardinalityType
    <1> QED BY <1>3, <1>5, <1>6

\* As many leave a list as are counted, one by one.
LEMMA FirstAreCounted ==
    ASSUME NEW S, NEW q \in Seq(S), Distinct(q), NEW k \in 0..Len(q)
    PROVE  /\ {q[i] : i \in 1..k} \subseteq Members(q)
           /\ IsFiniteSet({q[i] : i \in 1..k})
           /\ Cardinality({q[i] : i \in 1..k}) = k
    <1> DEFINE G == {q[i] : i \in 1..k}
               h == [i \in 1..k |-> q[i]]
    <1>1. Len(q) \in Nat /\ 1..k \subseteq 1..Len(q)
        OBVIOUS
    <1>2. G \subseteq Members(q)
        BY <1>1 DEF Members
    <1>3. h \in Bijection(1..k, G)
        BY <1>1 DEF Bijection, Injection, Surjection, IsInjective, Distinct
    <1>4. IsFiniteSet(1..k) /\ Cardinality(1..k) = k
        BY <1>1, FS_Interval
    <1> QED BY <1>2, <1>3, <1>4, FS_Bijection DEF ExistsBijection

-----------------------------------------------------------------------------
(* Numbers and places.                                                      *)

\* A nonempty set of numbers up to N has a highest member (by reflection, from the
\* well-foundedness of the naturals).
LEMMA HighestExists ==
    ASSUME NEW N \in Nat, NEW S \in SUBSET (1..N), S # {}
    PROVE  \E m \in S : \A r \in S : r <= m
<1> DEFINE T == {N - p : p \in S}
<1>1. T \subseteq Nat /\ T # {}
  <2>1. \A p \in S : N - p \in Nat
    OBVIOUS
  <2>2. T \subseteq Nat
    BY <2>1
  <2>3. PICK p \in S : TRUE
    OBVIOUS
  <2>4. N - p \in T
    OBVIOUS
  <2> QED BY <2>2, <2>4
<1>2. PICK x \in T : \A y \in T : ~(<<y, x>> \in OpToRel(<, Nat))
  BY <1>1, NatLessThanWellFounded, WFMin
<1>3. \A y \in T : ~(y < x)
  BY <1>1, <1>2 DEF OpToRel
<1>4. PICK m \in S : x = N - m
  OBVIOUS
<1>5. \A r \in S : r <= m
  <2> TAKE r \in S
  <2>1. N - r \in T
    OBVIOUS
  <2>2. ~(N - r < N - m)
    BY <1>3, <1>4, <2>1
  <2> QED BY <2>2
<1> QED BY <1>5

\* The tail of a list is a list; it is empty if there was one member.
LEMMA TailOfList ==
    ASSUME NEW S, NEW s \in Seq(S), s # <<>>
    PROVE  /\ Head(s) \in S
           /\ Tail(s) \in Seq(S)
           /\ Len(s) \in Nat \ {0} /\ Len(Tail(s)) = Len(s) - 1
           /\ \A i \in 1..Len(Tail(s)) : Tail(s)[i] = s[i + 1]
           /\ Tail(s) = <<>> <=> Len(s) = 1
<1>1. /\ Head(s) \in S /\ Tail(s) \in Seq(S) /\ Len(Tail(s)) = Len(s) - 1
      /\ \A i \in 1..Len(Tail(s)) : Tail(s)[i] = s[i + 1]
  BY HeadTailProperties
<1>2. Len(s) \in Nat \ {0} /\ Len(<<>>) = 0
  BY EmptySeq
<1>3. Tail(s) # <<>> => Len(Tail(s)) \in Nat \ {0}
  BY <1>1, EmptySeq
<1>4. Tail(s) = <<>> => Len(Tail(s)) = 0
  BY <1>2
<1>5. Len(Tail(s)) = Len(s) - 1
  BY <1>1
<1>6. Tail(s) = <<>> <=> Len(s) = 1
  BY <1>2, <1>3, <1>4, <1>5
<1> QED BY <1>1, <1>2, <1>6

\* What is where after the removal of the "k"-th entry.
LEMMA PlacesAfterRemoval ==
    ASSUME NEW S, NEW q \in Seq(S), NEW k \in 1..Len(q)
    PROVE  LET r == SubSeq(q, 1, k - 1) \o SubSeq(q, k + 1, Len(q))
           IN  /\ r \in Seq(S) /\ Len(r) = Len(q) - 1
               /\ \A i \in 1..Len(r) : r[i] = IF i < k THEN q[i] ELSE q[i + 1]
    <1> DEFINE before == SubSeq(q, 1, k - 1)
               after == SubSeq(q, k + 1, Len(q))
    <1>1. Len(q) \in Nat /\ k - 1 \in 0..Len(q) /\ k \in 0..Len(q)
        OBVIOUS
    <1>2. /\ before \in Seq(S) /\ Len(before) = k - 1
          /\ \A i \in 1..(k - 1) : before[i] = q[i]
        BY <1>1, TakeFirst
    <1>3. /\ after \in Seq(S) /\ Len(after) = Len(q) - k
          /\ \A i \in 1..(Len(q) - k) : after[i] = q[i + k]
        BY <1>1, DropFirst
    <1> HIDE DEF before, after
    <1>4. /\ before \o after \in Seq(S) /\ Len(before \o after) = Len(before) + Len(after)
          /\ \A i \in 1..(Len(before) + Len(after)) :
                 (before \o after)[i] = IF i <= Len(before) THEN before[i]
                                        ELSE after[i - Len(before)]
        BY <1>2, <1>3, ConcatProperties
    <1>5. Len(before \o after) = Len(q) - 1
        BY <1>1, <1>2, <1>3, <1>4
    <1>6. ASSUME NEW i \in 1..Len(before \o after)
          PROVE  (before \o after)[i] = IF i < k THEN q[i] ELSE q[i + 1]
        <2>1. i \in 1..(Len(q) - 1) /\ i \in 1..(Len(before) + Len(after))
            BY <1>4, <1>5
        <2>2. CASE i < k
            <3>1. i \in 1..(k - 1) /\ i <= Len(before)
                BY <1>2, <2>1, <2>2
            <3> QED BY <1>2, <1>4, <2>1, <2>2, <3>1
        <2>3. CASE ~(i < k)
            <3>1. /\ ~(i <= Len(before)) /\ i - Len(before) \in 1..(Len(q) - k)
                  /\ (i - Len(before)) + k = i + 1
                BY <1>1, <1>2, <2>1, <2>3
            <3> QED BY <1>3, <1>4, <2>1, <2>3, <3>1
        <2> QED BY <2>2, <2>3
    <1> QED BY <1>4, <1>5, <1>6 DEF before, after

\* "r" is "q" with "x" as its "k"-th entry.
HasInserted(r, q, k, x) ==
    /\ Len(r) = Len(q) + 1
    /\ \A i \in 1..Len(r) : r[i] = IF i < k THEN q[i] ELSE IF i = k THEN x ELSE q[i - 1]

\* What is where after an insertion as the "k"-th entry.
LEMMA PlacesAfterInsertion ==
    ASSUME NEW S, NEW q \in Seq(S), NEW k \in 1..(Len(q) + 1), NEW x \in S,
           NEW r, r = SubSeq(q, 1, k - 1) \o <<x>> \o SubSeq(q, k, Len(q))
    PROVE  r \in Seq(S) /\ HasInserted(r, q, k, x)
    <1> DEFINE before == SubSeq(q, 1, k - 1)
               first == before \o <<x>>
               after == SubSeq(q, k, Len(q))
    <1>1. Len(q) \in Nat /\ k - 1 \in 0..Len(q) /\ k \in Nat
        OBVIOUS
    <1>2. /\ before \in Seq(S) /\ Len(before) = k - 1
          /\ \A i \in 1..(k - 1) : before[i] = q[i]
        BY <1>1, TakeFirst
    <1>3. /\ after \in Seq(S) /\ Len(after) = Len(q) - (k - 1)
          /\ \A i \in 1..(Len(q) - (k - 1)) : after[i] = q[i + (k - 1)]
        <2>1. (k - 1) + 1 = k
            BY <1>1
        <2>2. \A j \in 0..Len(q) :
                 /\ SubSeq(q, j + 1, Len(q)) \in Seq(S)
                 /\ Len(SubSeq(q, j + 1, Len(q))) = Len(q) - j
                 /\ \A i \in 1..(Len(q) - j) : SubSeq(q, j + 1, Len(q))[i] = q[i + j]
            BY DropFirst
        <2> QED BY <1>1, <2>1, <2>2
    <1> HIDE DEF before, after
    <1>4. /\ first \in Seq(S) /\ Len(first) = k /\ first[k] = x
          /\ \A i \in 1..(k - 1) : first[i] = before[i]
        BY <1>1, <1>2
    <1> HIDE DEF first
    <1>5. /\ first \o after \in Seq(S) /\ Len(first \o after) = Len(first) + Len(after)
          /\ \A i \in 1..(Len(first) + Len(after)) :
                 (first \o after)[i] = IF i <= Len(first) THEN first[i]
                                       ELSE after[i - Len(first)]
        BY <1>3, <1>4, ConcatProperties
    <1>6. Len(first \o after) = Len(q) + 1
        BY <1>1, <1>3, <1>4, <1>5
    <1>7. ASSUME NEW i \in 1..Len(first \o after)
          PROVE  (first \o after)[i] =
                     IF i < k THEN q[i] ELSE IF i = k THEN x ELSE q[i - 1]
        <2>1. i \in 1..(Len(q) + 1) /\ i \in 1..(Len(first) + Len(after))
            BY <1>5, <1>6
        <2>2. CASE i < k
            <3>1. i \in 1..(k - 1) /\ i <= Len(first)
                BY <1>4, <2>1, <2>2
            <3> QED BY <1>2, <1>4, <1>5, <2>1, <2>2, <3>1
        <2>3. CASE i = k
            <3>1. i <= Len(first) /\ ~(i < k)
                BY <1>1, <1>4, <2>3
            <3> QED BY <1>4, <1>5, <2>1, <2>3, <3>1
        <2>4. CASE ~(i < k) /\ i # k
            <3>1. /\ ~(i <= Len(first)) /\ i - Len(first) \in 1..(Len(q) - (k - 1))
                  /\ (i - Len(first)) + (k - 1) = i - 1
                BY <1>1, <1>4, <2>1, <2>4
            <3> QED BY <1>3, <1>4, <1>5, <2>1, <2>4, <3>1
        <2> QED BY <2>2, <2>3, <2>4
    <1> QED BY <1>5, <1>6, <1>7 DEF first, before, after, HasInserted

\* If what satisfies a condition comes first in a list, its number says where
\* the rest begins.
LEMMA CountedFromTheFront ==
    ASSUME NEW N \in Nat, NEW D \in SUBSET (1..N),
           \A i, j \in 1..N : i < j /\ j \in D => i \in D
    PROVE  /\ Cardinality(D) \in 0..N
           /\ \A i \in 1..N : i \in D <=> i < 1 + Cardinality(D)
    <1>1. CASE D = {}
        BY <1>1, FS_EmptySet
    <1>2. CASE D # {}
        <2>1. PICK m \in D : \A r \in D : r <= m
            BY <1>2, HighestExists
        <2>2. D = 1..m
            <3>1. m \in 1..N /\ m \in Nat
                BY <2>1
            <3>2. ASSUME NEW i \in 1..m
                  PROVE  i \in D
                <4>1. i \in 1..N /\ (i = m \/ i < m)
                    BY <3>1
                <4> QED BY <2>1, <3>1, <4>1
            <3>3. ASSUME NEW i \in D
                  PROVE  i \in 1..m
                <4>1. i \in 1..N
                    OBVIOUS
                <4> QED BY <2>1, <3>1, <4>1
            <3> QED BY <3>2, <3>3
        <2>3. Cardinality(D) = m
            BY <2>1, <2>2, FS_Interval
        <2> QED BY <2>1, <2>2, <2>3
    <1> QED BY <1>1, <1>2
=============================================================================
