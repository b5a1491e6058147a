---------------------------- MODULE RingTheorems ----------------------------
(***************************************************************************)
(* What the deque operations of the scheduler do to a sequence without     *)
(* repetitions: its set of elements, and that it stays without repetitions.*)
(***************************************************************************)
EXTENDS Integers, FiniteSets, SequencesExt, SequenceTheorems, TLAPS

\* Membership as load_balancer.py writes it ("in queue") is membership in the
\* set of elements.
LEMMA ContainsIsMembership ==
  ASSUME NEW S, NEW q \in Seq(S), NEW w
  PROVE  Contains(q, w) <=> w \in ToSet(q)
BY DEF Contains, ToSet

\* The elements of a sequence over S are in S.
LEMMA ToSetType ==
  ASSUME NEW S, NEW q \in Seq(S)
  PROVE  /\ ToSet(q) \subseteq S
         /\ (q = <<>> <=> ToSet(q) = {})
BY DEF ToSet

\* Appending a new element.
LEMMA AppendRing ==
  ASSUME NEW S, NEW q \in Seq(S), NEW w \in S
  PROVE  /\ Append(q, w) \in Seq(S)
         /\ ToSet(Append(q, w)) = ToSet(q) \cup {w}
         /\ IsInjective(q) /\ w \notin ToSet(q) => IsInjective(Append(q, w))
<1>1. /\ Append(q, w) \in Seq(S)
      /\ Len(Append(q, w)) = Len(q) + 1
      /\ DOMAIN Append(q, w) = 1..(Len(q) + 1)
      /\ DOMAIN q = 1..Len(q)
      /\ Len(q) \in Nat
  OBVIOUS
<1>2. \A i \in 1..(Len(q) + 1) :
        Append(q, w)[i] = IF i = Len(q) + 1 THEN w ELSE q[i]
  OBVIOUS
<1>3. ToSet(Append(q, w)) = ToSet(q) \cup {w}
  <2>1. ASSUME NEW x \in ToSet(q) PROVE x \in ToSet(Append(q, w))
    BY <1>1, <1>2 DEF ToSet
  <2>2. w \in ToSet(Append(q, w))
    BY <1>1, <1>2 DEF ToSet
  <2>3. ASSUME NEW x \in ToSet(Append(q, w)) PROVE x \in ToSet(q) \cup {w}
    BY <1>1, <1>2 DEF ToSet
  <2> QED BY <2>1, <2>2, <2>3
<1>4. IsInjective(q) /\ w \notin ToSet(q) => IsInjective(Append(q, w))
  BY <1>1, <1>2 DEF IsInjective, ToSet
<1> QED BY <1>1, <1>3, <1>4

\* Keeping a suffix: what is left after the first k elements are popped.
LEMMA SuffixRing ==
  ASSUME NEW S, NEW q \in Seq(S), NEW k \in 0..Len(q), IsInjective(q)
  PROVE  LET s == SubSeq(q, k + 1, Len(q)) IN
         /\ s \in Seq(S)
         /\ IsInjective(s)
         /\ ToSet(s) = ToSet(q) \ {q[i] : i \in 1..k}
<1> DEFINE s == SubSeq(q, k + 1, Len(q))
<1>1. /\ s \in Seq(S)
      /\ Len(s) = Len(q) - k
      /\ DOMAIN s = 1..(Len(q) - k)
      /\ DOMAIN q = 1..Len(q)
      /\ Len(q) \in Nat
      /\ \A i \in 1..(Len(q) - k) : s[i] = q[i + k]
  OBVIOUS
<1> HIDE DEF s
<1>0. \A i, j \in 1..Len(q) : q[i] = q[j] => i = j
  BY <1>1 DEF IsInjective
<1>2. IsInjective(s)
  <2>1. ASSUME NEW i \in 1..(Len(q) - k), NEW j \in 1..(Len(q) - k), s[i] = s[j]
        PROVE  i = j
    <3>1. i + k \in 1..Len(q) /\ j + k \in 1..Len(q) /\ q[i + k] = q[j + k]
      BY <1>1, <2>1
    <3>2. i + k = j + k
      BY <1>0, <3>1
    <3> QED BY <3>2
  <2> QED BY <1>1, <2>1 DEF IsInjective
<1>3. ASSUME NEW x \in ToSet(s) PROVE x \in ToSet(q) \ {q[i] : i \in 1..k}
  <2>1. PICK j \in 1..(Len(q) - k) : x = q[j + k]
    BY <1>1 DEF ToSet
  <2>2. j + k \in 1..Len(q) /\ \A i \in 1..k : i \in 1..Len(q) /\ i # j + k
    BY <1>1
  <2>3. x \in ToSet(q)
    BY <1>1, <2>1, <2>2 DEF ToSet
  <2>4. \A i \in 1..k : q[i] # x
    BY <1>0, <2>1, <2>2
  <2> QED BY <2>3, <2>4
<1>4. ASSUME NEW x \in ToSet(q) \ {q[i] : i \in 1..k} PROVE x \in ToSet(s)
  <2>1. PICK j \in 1..Len(q) : x = q[j] /\ j > k
    BY <1>1 DEF ToSet
  <2>2. j - k \in 1..(Len(q) - k) /\ s[j - k] = x
    BY <1>1, <2>1
  <2> QED BY <1>1, <2>2 DEF ToSet
<1>5. ToSet(s) = ToSet(q) \ {q[i] : i \in 1..k}
  BY <1>3, <1>4
<1> QED BY <1>1, <1>2, <1>5 DEF s

\* deque.popleft() on a non-empty deque.
LEMMA TailRing ==
  ASSUME NEW S, NEW q \in Seq(S), q # <<>>, IsInjective(q)
  PROVE  /\ Tail(q) \in Seq(S)
         /\ IsInjective(Tail(q))
         /\ ToSet(Tail(q)) = ToSet(q) \ {Head(q)}
         /\ Head(q) \in ToSet(q)
<1>1. Tail(q) = SubSeq(q, 1 + 1, Len(q)) /\ Head(q) = q[1] /\ 1 \in 0..Len(q) /\ 1 \in 1..Len(q)
  OBVIOUS
<1>2. {q[i] : i \in 1..1} = {q[1]}
  OBVIOUS
<1>3. /\ SubSeq(q, 1 + 1, Len(q)) \in Seq(S)
      /\ IsInjective(SubSeq(q, 1 + 1, Len(q)))
      /\ ToSet(SubSeq(q, 1 + 1, Len(q))) = ToSet(q) \ {q[i] : i \in 1..1}
  BY <1>1, SuffixRing
<1>4. q[1] \in ToSet(q)
  BY <1>1 DEF ToSet
<1> QED BY <1>1, <1>2, <1>3, <1>4

\* What is left when an element is taken out of a sequence that has it once.
LEMMA RemoveFirstElements ==
  ASSUME NEW S, NEW q \in Seq(S), NEW w \in ToSet(q), IsInjective(q)
  PROVE  \E k \in 1..Len(q) :
           /\ q[k] = w
           /\ RemoveFirst(q, w) \in Seq(S)
           /\ Len(RemoveFirst(q, w)) = Len(q) - 1
           /\ \A i \in 1..(Len(q) - 1) :
                RemoveFirst(q, w)[i] = IF i < k THEN q[i] ELSE q[i + 1]
<1>1. PICK k \in 1..Len(q) : q[k] = w
  BY DEF ToSet
<1>2. RemoveFirst(q, w) = RemoveAt(q, k)
  <2> DEFINE I == {i \in 1..Len(q) : q[i] = w}
  <2>1. I = {k}
    BY <1>1 DEF IsInjective
  <2>2. Min({k}) = k
    BY DEF Min
  <2>3. SelectInSeq(q, LAMBDA v : v = w) = k
    BY <2>1, <2>2 DEF SelectInSeq
  <2> QED BY <1>1, <2>3 DEF RemoveFirst
<1> DEFINE r == SubSeq(q, 1, k - 1) \o SubSeq(q, k + 1, Len(q))
<1>3. /\ r \in Seq(S)
      /\ Len(r) = Len(q) - 1
      /\ DOMAIN r = 1..(Len(q) - 1)
      /\ DOMAIN q = 1..Len(q)
      /\ Len(q) \in Nat
      /\ \A i \in 1..(Len(q) - 1) : r[i] = IF i < k THEN q[i] ELSE q[i + 1]
  <2>1. /\ SubSeq(q, 1, k - 1) \in Seq(S) /\ Len(SubSeq(q, 1, k - 1)) = k - 1
        /\ SubSeq(q, k + 1, Len(q)) \in Seq(S) /\ Len(SubSeq(q, k + 1, Len(q))) = Len(q) - k
        /\ \A i \in 1..(k - 1) : SubSeq(q, 1, k - 1)[i] = q[i]
        /\ \A i \in 1..(Len(q) - k) : SubSeq(q, k + 1, Len(q))[i] = q[i + k]
    OBVIOUS
  <2> DEFINE a == SubSeq(q, 1, k - 1)
             b == SubSeq(q, k + 1, Len(q))
  <2> HIDE DEF a, b
  <2>2. /\ a \in Seq(S) /\ Len(a) = k - 1 /\ \A i \in 1..(k - 1) : a[i] = q[i]
        /\ b \in Seq(S) /\ Len(b) = Len(q) - k /\ \A i \in 1..(Len(q) - k) : b[i] = q[i + k]
    BY <2>1 DEF a, b
  <2>3. /\ a \o b \in Seq(S)
        /\ Len(a \o b) = Len(a) + Len(b)
        /\ \A i \in 1..(Len(a) + Len(b)) :
             (a \o b)[i] = IF i <= Len(a) THEN a[i] ELSE b[i - Len(a)]
    BY <2>2, ConcatProperties
  <2> HIDE DEF r
  <2>4. ASSUME NEW i \in 1..(Len(q) - 1)
        PROVE  (a \o b)[i] = IF i < k THEN q[i] ELSE q[i + 1]
    <3>1. CASE i < k
      BY <2>2, <2>3, <3>1
    <3>2. CASE i >= k
      <4>1. i - (k - 1) \in 1..(Len(q) - k) /\ (i - (k - 1)) + k = i + 1
        BY <3>2
      <4>2. b[i - (k - 1)] = q[i + 1]
        BY <2>2, <4>1
      <4>3. (a \o b)[i] = b[i - (k - 1)]
        BY <2>2, <2>3, <3>2
      <4> QED BY <3>2, <4>2, <4>3
    <3>3. i < k \/ i >= k
      OBVIOUS
    <3> HIDE DEF a, b
    <3> QED BY <3>1, <3>2, <3>3
  <2>5. r = a \o b
    BY DEF a, b, r
  <2> QED BY <2>2, <2>3, <2>4, <2>5
<1> HIDE DEF r
<1>4. RemoveFirst(q, w) = r
  BY <1>2 DEF RemoveAt, r
<1> QED BY <1>1, <1>3, <1>4

\* deque.remove(w), which does nothing here when w is not in the deque.
LEMMA RemoveFirstRing ==
  ASSUME NEW S, NEW q \in Seq(S), NEW w, IsInjective(q)
  PROVE  /\ RemoveFirst(q, w) \in Seq(S)
         /\ IsInjective(RemoveFirst(q, w))
         /\ ToSet(RemoveFirst(q, w)) = ToSet(q) \ {w}
<1>1. CASE w \notin ToSet(q)
  <2>1. ~\E i \in 1..Len(q) : q[i] = w
    BY <1>1 DEF ToSet
  <2>2. RemoveFirst(q, w) = q
    BY <2>1 DEF RemoveFirst
  <2> QED BY <1>1, <2>2
<1>2. CASE w \in ToSet(q)
  <2> DEFINE r == RemoveFirst(q, w)
  <2>1. PICK k \in 1..Len(q) :
          /\ q[k] = w
          /\ r \in Seq(S)
          /\ Len(r) = Len(q) - 1
          /\ \A i \in 1..(Len(q) - 1) : r[i] = IF i < k THEN q[i] ELSE q[i + 1]
    BY <1>2, RemoveFirstElements
  <2>3. DOMAIN r = 1..(Len(q) - 1) /\ DOMAIN q = 1..Len(q) /\ Len(q) \in Nat
    BY <2>1
  <2> HIDE DEF r
  <2>0. \A i, j \in 1..Len(q) : q[i] = q[j] => i = j
    BY <2>1, <2>3 DEF IsInjective
  <2>4. IsInjective(r)
    <3>1. ASSUME NEW i \in 1..(Len(q) - 1), NEW j \in 1..(Len(q) - 1), r[i] = r[j]
          PROVE  i = j
      <4> DEFINE at(n) == IF n < k THEN n ELSE n + 1
      <4>1. at(i) \in 1..Len(q) /\ at(j) \in 1..Len(q) /\ (at(i) = at(j) => i = j)
        OBVIOUS
      <4>2. r[i] = q[at(i)] /\ r[j] = q[at(j)]
        BY <2>1, <2>3
      <4> HIDE DEF at
      <4> QED BY <2>0, <3>1, <4>1, <4>2
    <3> QED BY <2>1, <2>3, <3>1 DEF IsInjective
  <2>5. ASSUME NEW x \in ToSet(r) PROVE x \in ToSet(q) \ {w}
    <3>1. PICK i \in 1..(Len(q) - 1) : x = r[i]
      BY <2>1, <2>3 DEF ToSet
    <3>2. CASE i < k
      <4>1. i \in 1..Len(q) /\ i # k /\ x = q[i]
        BY <2>1, <2>3, <3>1, <3>2
      <4> QED BY <2>0, <2>1, <2>3, <4>1 DEF ToSet
    <3>3. CASE i >= k
      <4>1. i + 1 \in 1..Len(q) /\ i + 1 # k /\ x = q[i + 1]
        BY <2>1, <2>3, <3>1, <3>3
      <4> QED BY <2>0, <2>1, <2>3, <4>1 DEF ToSet
    <3> QED BY <3>2, <3>3
  <2>6. ASSUME NEW x \in ToSet(q) \ {w} PROVE x \in ToSet(r)
    <3>1. PICK j \in 1..Len(q) : x = q[j] /\ j # k
      BY <2>1, <2>3 DEF ToSet
    <3>2. CASE j < k
      BY <2>1, <2>3, <3>1, <3>2 DEF ToSet
    <3>3. CASE j > k
      <4>1. j - 1 \in 1..(Len(q) - 1) /\ r[j - 1] = x
        BY <2>1, <2>3, <3>1, <3>3
      <4> QED BY <2>1, <2>3, <4>1 DEF ToSet
    <3> QED BY <3>1, <3>2, <3>3
  <2> QED BY <2>1, <2>4, <2>5, <2>6 DEF r
<1> QED BY <1>1, <1>2

\* Popping what precedes an element and moving that one to the end.
LEMMA RotateRing ==
  ASSUME NEW S, NEW q \in Seq(S), IsInjective(q), NEW i \in 1..Len(q)
  PROVE  LET r == Append(SubSeq(q, i + 1, Len(q)), q[i]) IN
         /\ r \in Seq(S)
         /\ IsInjective(r)
         /\ ToSet(r) = ToSet(q) \ {q[j] : j \in 1..(i - 1)}
<1> DEFINE s == SubSeq(q, i + 1, Len(q))
<1>1. /\ s \in Seq(S)
      /\ IsInjective(s)
      /\ ToSet(s) = ToSet(q) \ {q[j] : j \in 1..i}
  BY SuffixRing
<1> HIDE DEF s
<1>2. q[i] \in S /\ q[i] \in ToSet(q) /\ q[i] \notin ToSet(s)
  <2>1. q[i] \in {q[j] : j \in 1..i}
    OBVIOUS
  <2>2. q[i] \in S /\ q[i] \in ToSet(q)
    BY DEF ToSet
  <2> QED BY <1>1, <2>1, <2>2
<1>3. \A j \in 1..(i - 1) : q[j] # q[i]
  BY DEF IsInjective
<1>4. {q[j] : j \in 1..i} = {q[j] : j \in 1..(i - 1)} \cup {q[i]}
  OBVIOUS
<1>5. /\ Append(s, q[i]) \in Seq(S)
      /\ IsInjective(Append(s, q[i]))
      /\ ToSet(Append(s, q[i])) = ToSet(s) \cup {q[i]}
  BY <1>1, <1>2, AppendRing
<1> QED BY <1>1, <1>2, <1>3, <1>4, <1>5 DEF s

-----------------------------------------------------------------------------
(* Where an element goes.                                                    *)

\* Appending moves nothing.
LEMMA AppendPlace ==
  ASSUME NEW S, NEW q \in Seq(S), NEW w \in S, NEW k \in 1..Len(q)
  PROVE  k \in 1..Len(Append(q, w)) /\ Append(q, w)[k] = q[k]
OBVIOUS

\* What is not the head moves up by one when the head goes.
LEMMA TailPlace ==
  ASSUME NEW S, NEW q \in Seq(S), NEW k \in 1..Len(q), q[k] # Head(q)
  PROVE  k - 1 \in 1..Len(Tail(q)) /\ Tail(q)[k - 1] = q[k]
<1>1. q # <<>> /\ k # 1
  OBVIOUS
<1>2. Len(Tail(q)) = Len(q) - 1 /\ \A i \in 1..(Len(q) - 1) : Tail(q)[i] = q[i + 1]
  BY <1>1
<1> QED BY <1>1, <1>2

\* What follows the element that is moved to the end moves up by what precedes it
\* and one more.
LEMMA RotatePlace ==
  ASSUME NEW S, NEW q \in Seq(S), NEW i \in 1..Len(q), NEW k \in 1..Len(q), i < k
  PROVE  LET r == Append(SubSeq(q, i + 1, Len(q)), q[i]) IN
         k - i \in 1..Len(r) /\ r[k - i] = q[k] /\ k - i <= k - 1
<1> DEFINE s == SubSeq(q, i + 1, Len(q))
<1>1. /\ s \in Seq(S) /\ Len(s) = Len(q) - i
      /\ \A j \in 1..(Len(q) - i) : s[j] = q[j + i]
  OBVIOUS
<1>2. k - i \in 1..Len(s) /\ s[k - i] = q[k]
  BY <1>1
<1> HIDE DEF s
<1>3. k - i \in 1..Len(Append(s, q[i])) /\ Append(s, q[i])[k - i] = q[k]
  BY <1>1, <1>2, AppendPlace
<1> QED BY <1>3 DEF s

\* Taking another element out moves nothing back.
LEMMA RemoveFirstPlace ==
  ASSUME NEW S, NEW q \in Seq(S), IsInjective(q), NEW w, NEW k \in 1..Len(q), q[k] # w
  PROVE  \E j \in 1..Len(RemoveFirst(q, w)) : RemoveFirst(q, w)[j] = q[k] /\ j <= k
<1>1. CASE w \notin ToSet(q)
  <2>1. ~\E i \in 1..Len(q) : q[i] = w
    BY <1>1 DEF ToSet
  <2>2. RemoveFirst(q, w) = q
    BY <2>1 DEF RemoveFirst
  <2> QED BY <2>2
<1>2. CASE w \in ToSet(q)
  <2> DEFINE r == RemoveFirst(q, w)
  <2>1. PICK m \in 1..Len(q) :
          /\ q[m] = w
          /\ Len(r) = Len(q) - 1
          /\ \A i \in 1..(Len(q) - 1) : r[i] = IF i < m THEN q[i] ELSE q[i + 1]
    BY <1>2, RemoveFirstElements
  <2> HIDE DEF r
  <2>2. CASE k < m
    BY <2>1, <2>2 DEF r
  <2>3. CASE k > m
    <3>1. k - 1 \in 1..Len(r) /\ r[k - 1] = q[k]
      BY <2>1, <2>3
    <3> QED BY <3>1 DEF r
  <2> QED BY <2>1, <2>2, <2>3
<1> QED BY <1>1, <1>2
=============================================================================
