------------------------------- MODULE ListLemmas -------------------------------
(***************************************************************************)
(* The linked lists of the drivers as sequences without repetition: what   *)
(* list_add_tail, and list_del of the first node, do to their elements.    *)
(***************************************************************************)
EXTENDS Integers, Sequences, SequenceTheorems, TLAPS

Elems(s) == {s[i] : i \in 1 .. Len(s)}
NoDup(s) == \A i, j \in 1 .. Len(s) : i # j => s[i] # s[j]

\* list_add_tail adds exactly the new element.
LEMMA AppendElems ==
    ASSUME NEW S, NEW s \in Seq(S), NEW n \in S
    PROVE  /\ Append(s, n) \in Seq(S)
           /\ Append(s, n) # <<>>
           /\ Elems(Append(s, n)) = Elems(s) \cup {n}
           /\ n \notin Elems(s) /\ NoDup(s) => NoDup(Append(s, n))
<1>1. /\ Append(s, n) \in Seq(S) /\ Len(Append(s, n)) = Len(s) + 1 /\ Len(s) \in Nat
      /\ \A i \in 1 .. Len(s) : Append(s, n)[i] = s[i]
      /\ Append(s, n)[Len(s) + 1] = n
  BY AppendProperties, LenProperties
<1>2. Append(s, n) # <<>>
  BY <1>1, EmptySeq
<1>3. Elems(Append(s, n)) = Elems(s) \cup {n}
  <2>1. \A x : x \in Elems(Append(s, n)) => x \in Elems(s) \cup {n}
    BY <1>1 DEF Elems
  <2>2. \A x \in Elems(s) : x \in Elems(Append(s, n))
    <3> SUFFICES ASSUME NEW i \in 1 .. Len(s) PROVE s[i] \in Elems(Append(s, n))
      BY DEF Elems
    <3>1. i \in 1 .. Len(Append(s, n)) /\ Append(s, n)[i] = s[i]
      BY <1>1
    <3> QED BY <3>1 DEF Elems
  <2>3. n \in Elems(Append(s, n))
    BY <1>1 DEF Elems
  <2> QED BY <2>1, <2>2, <2>3
<1>4. ASSUME n \notin Elems(s), NoDup(s) PROVE NoDup(Append(s, n))
  BY <1>1, <1>4 DEF Elems, NoDup
<1> QED BY <1>1, <1>2, <1>3, <1>4

\* Taking the first element off removes exactly that one.
LEMMA TailElems ==
    ASSUME NEW S, NEW s \in Seq(S), s # <<>>, NoDup(s)
    PROVE  /\ Tail(s) \in Seq(S) /\ Head(s) \in S
           /\ Head(s) = s[1] /\ Head(s) \in Elems(s)
           /\ Elems(Tail(s)) = Elems(s) \ {Head(s)}
           /\ NoDup(Tail(s))
<1>1. /\ Tail(s) \in Seq(S) /\ Head(s) \in S /\ Len(Tail(s)) = Len(s) - 1
      /\ \A i \in 1 .. Len(Tail(s)) : Tail(s)[i] = s[i + 1]
      /\ Len(s) \in Nat \ {0} /\ Head(s) = s[1]
  BY HeadTailProperties, EmptySeq
<1>2. Head(s) \in Elems(s)
  BY <1>1 DEF Elems
<1>3. Elems(Tail(s)) = Elems(s) \ {Head(s)}
  <2>1. ASSUME NEW i \in 1 .. Len(Tail(s))
        PROVE  Tail(s)[i] \in Elems(s) /\ Tail(s)[i] # Head(s)
    <3>1. i + 1 \in 1 .. Len(s) /\ i + 1 # 1 /\ Tail(s)[i] = s[i + 1] /\ 1 \in 1 .. Len(s)
      BY <1>1
    <3> QED BY <1>1, <3>1 DEF Elems, NoDup
  <2>2. ASSUME NEW i \in 1 .. Len(s), s[i] # Head(s)
        PROVE  s[i] \in Elems(Tail(s))
    <3>1. i - 1 \in 1 .. Len(Tail(s)) /\ Tail(s)[i - 1] = s[i]
      BY <1>1, <2>2
    <3> QED BY <3>1 DEF Elems
  <2> QED BY <2>1, <2>2 DEF Elems
<1>4. NoDup(Tail(s))
  <2> SUFFICES ASSUME NEW i \in 1 .. Len(Tail(s)), NEW j \in 1 .. Len(Tail(s)), i # j
               PROVE  Tail(s)[i] # Tail(s)[j]
    BY DEF NoDup
  <2>1. i + 1 \in 1 .. Len(s) /\ j + 1 \in 1 .. Len(s) /\ i + 1 # j + 1
    BY <1>1
  <2> QED BY <1>1, <2>1 DEF NoDup
<1> QED BY <1>1, <1>2, <1>3, <1>4

\* Removing the element at the front, found at position k, leaves the tail.
LEMMA RemoveHead ==
    ASSUME NEW S, NEW s \in Seq(S), s # <<>>, NoDup(s),
           NEW k \in 1 .. Len(s), s[k] = Head(s)
    PROVE  [i \in 1 .. Len(s) - 1 |-> IF i < k THEN s[i] ELSE s[i + 1]] = Tail(s)
<1>1. /\ Tail(s) \in Seq(S) /\ Len(Tail(s)) = Len(s) - 1
      /\ \A i \in 1 .. Len(Tail(s)) : Tail(s)[i] = s[i + 1]
      /\ Len(s) \in Nat \ {0} /\ Head(s) = s[1]
  BY HeadTailProperties, EmptySeq
<1>2. k = 1
  BY <1>1 DEF NoDup
<1>3. Tail(s) = [i \in 1 .. Len(s) - 1 |-> s[i + 1]]
  BY <1>1, LenProperties
<1> QED BY <1>1, <1>2, <1>3

\* A function on 1 .. n is a sequence of length n.
LEMMA FunctionIsSeq ==
    ASSUME NEW S, NEW n \in Nat, NEW f \in [1 .. n -> S]
    PROVE  f \in Seq(S) /\ Len(f) = n
<1>1. f \in Seq(S)
  BY SeqDef
<1>2. Len(f) \in Nat /\ 1 .. Len(f) = 1 .. n
  BY <1>1, LenProperties
<1> QED BY <1>1, <1>2

\* What a function does to the elements it does to a list that grows or loses
\* its first element.
LEMMA MapAppendTail ==
    ASSUME NEW S, NEW T, NEW s \in Seq(S), NEW f, \A i \in 1 .. Len(s) : f[s[i]] \in T
    PROVE  LET m == [i \in 1 .. Len(s) |-> f[s[i]]]
           IN  /\ m \in Seq(T) /\ Len(m) = Len(s)
               /\ (m = <<>>) <=> (s = <<>>)
               /\ \A n \in S : f[n] \in T =>
                    [i \in 1 .. Len(Append(s, n)) |-> f[Append(s, n)[i]]] = Append(m, f[n])
               /\ s # <<>> =>
                    /\ Head(m) = f[Head(s)]
                    /\ [i \in 1 .. Len(Tail(s)) |-> f[Tail(s)[i]]] = Tail(m)
<1> DEFINE m == [i \in 1 .. Len(s) |-> f[s[i]]]
<1>1. Len(s) \in Nat
  BY LenProperties
<1>2. m \in Seq(T) /\ Len(m) = Len(s)
  <2>1. m \in [1 .. Len(s) -> T]
    OBVIOUS
  <2> QED BY <1>1, <2>1, FunctionIsSeq
<1>3. \A i \in 1 .. Len(s) : m[i] = f[s[i]]
  OBVIOUS
<1> HIDE DEF m
<1>4. (m = <<>>) <=> (s = <<>>)
  BY <1>1, <1>2, EmptySeq
<1>5. ASSUME NEW n \in S, f[n] \in T
      PROVE  [i \in 1 .. Len(Append(s, n)) |-> f[Append(s, n)[i]]] = Append(m, f[n])
  <2>1. /\ Append(s, n) \in Seq(S) /\ Len(Append(s, n)) = Len(s) + 1
        /\ \A i \in 1 .. Len(s) : Append(s, n)[i] = s[i]
        /\ Append(s, n)[Len(s) + 1] = n
    BY AppendProperties
  <2>2. /\ Append(m, f[n]) \in Seq(T) /\ Len(Append(m, f[n])) = Len(s) + 1
        /\ \A i \in 1 .. Len(s) : Append(m, f[n])[i] = m[i]
        /\ Append(m, f[n])[Len(s) + 1] = f[n]
    BY <1>2, <1>5, AppendProperties
  <2>3. Append(m, f[n]) = [i \in 1 .. Len(s) + 1 |-> Append(m, f[n])[i]]
    BY <2>2, LenProperties
  <2>4. \A i \in 1 .. Len(s) + 1 : f[Append(s, n)[i]] = Append(m, f[n])[i]
    BY <1>1, <1>3, <2>1, <2>2
  <2> QED BY <2>1, <2>3, <2>4
<1>6. ASSUME s # <<>>
      PROVE  /\ Head(m) = f[Head(s)]
             /\ [i \in 1 .. Len(Tail(s)) |-> f[Tail(s)[i]]] = Tail(m)
  <2>1. /\ Len(s) \in Nat \ {0} /\ Head(s) = s[1] /\ Len(Tail(s)) = Len(s) - 1
        /\ \A i \in 1 .. Len(Tail(s)) : Tail(s)[i] = s[i + 1]
    BY <1>6, HeadTailProperties, EmptySeq
  <2>2. /\ Tail(m) \in Seq(T) /\ Head(m) = m[1] /\ Len(Tail(m)) = Len(s) - 1
        /\ \A i \in 1 .. Len(Tail(m)) : Tail(m)[i] = m[i + 1]
    BY <1>2, <1>4, <1>6, HeadTailProperties
  <2>3. Tail(m) = [i \in 1 .. Len(s) - 1 |-> Tail(m)[i]]
    BY <2>2, LenProperties
  <2>4. \A i \in 1 .. Len(s) - 1 : f[Tail(s)[i]] = Tail(m)[i]
    BY <1>3, <2>1, <2>2
  <2> QED BY <1>3, <2>1, <2>2, <2>3, <2>4
<1> QED BY <1>2, <1>4, <1>5, <1>6 DEF m

\* Those in front of the element at position j.
Ahead(s, j) == {s[i] : i \in 1 .. j - 1}

\* t is s with the element at position k taken out.
TakenOut(s, t, k) ==
    /\ Len(t) = Len(s) - 1
    /\ \A i \in 1 .. Len(t) : (i < k => t[i] = s[i]) /\ (i >= k => t[i] = s[i + 1])

\* t has lost x only: the others are in their order, and none has anyone new in
\* front of it.
LosesOnly(s, t, x) ==
    /\ NoDup(t) /\ Elems(t) = Elems(s) \ {x}
    /\ \A j \in 1 .. Len(t) : \E i \in 1 .. Len(s) :
          i >= j /\ t[j] = s[i] /\ Ahead(t, j) \subseteq Ahead(s, i) \ {x}

\* Taking one element out keeps all others in their order.
LEMMA RemoveKeepsOrder ==
    ASSUME NEW S, NEW s \in Seq(S), NoDup(s), NEW k \in 1 .. Len(s),
           NEW t \in Seq(S), TakenOut(s, t, k)
    PROVE  LosesOnly(s, t, s[k])
<1>1. Len(s) \in Nat /\ \A i \in 1 .. Len(s) : s[i] \in S
  BY LenProperties, ElementOfSeq
<1> DEFINE n == Len(s) - 1
           at(j) == IF j < k THEN j ELSE j + 1
<1>2. n \in Nat /\ k \in 1 .. n + 1
  BY <1>1
<1>5. Len(t) = n /\ \A j \in 1 .. n : (j < k => t[j] = s[j]) /\ (j >= k => t[j] = s[j + 1])
  BY DEF TakenOut
<1>3. ASSUME NEW j \in 1 .. n
      PROVE  at(j) \in 1 .. n + 1 /\ at(j) # k /\ at(j) >= j /\ t[j] = s[at(j)]
  <2>1. CASE j < k
    BY <1>2, <1>5, <2>1
  <2>2. CASE j >= k
    <3>1. ~(j < k) /\ j + 1 \in 1 .. n + 1 /\ j + 1 # k /\ j + 1 >= j
      BY <1>2, <2>2
    <3>2. at(j) = j + 1 /\ t[j] = s[j + 1]
      BY <1>5, <2>2, <3>1
    <3> HIDE DEF at
    <3> QED BY <3>1, <3>2
  <2>3. j < k \/ j >= k
    BY <1>2
  <2> QED BY <2>1, <2>2, <2>3
<1>6. \A i, j \in 1 .. n : i # j => at(i) # at(j)
  BY <1>2
<1>7. \A i, j \in 1 .. n : i < j => at(i) < at(j)
  BY <1>2
<1>8. \A i \in 1 .. n + 1 : i # k => \E j \in 1 .. n : at(j) = i
  <2> SUFFICES ASSUME NEW i \in 1 .. n + 1, i # k PROVE \E j \in 1 .. n : at(j) = i
    OBVIOUS
  <2>1. CASE i < k
    <3>1. i \in 1 .. n /\ at(i) = i
      BY <1>2, <2>1
    <3> QED BY <3>1
  <2>2. CASE i > k
    <3>1. i - 1 \in 1 .. n /\ ~(i - 1 < k) /\ (i - 1) + 1 = i
      BY <1>2, <2>2
    <3>2. at(i - 1) = i
      BY <3>1
    <3> HIDE DEF at
    <3> QED BY <3>1, <3>2
  <2> QED BY <1>2, <2>1, <2>2
<1>9. n + 1 = Len(s)
  BY <1>1
<1> HIDE DEF n, at
<1>10. \A j \in 1 .. n : t[j] # s[k]
  BY <1>3, <1>9 DEF NoDup
<1>11. NoDup(t)
  BY <1>3, <1>5, <1>6, <1>9 DEF NoDup
<1>12. Elems(t) = Elems(s) \ {s[k]}
  <2>1. \A i \in 1 .. n + 1 : s[i] # s[k] => \E j \in 1 .. n : t[j] = s[i]
    BY <1>3, <1>8
  <2>2. Elems(t) = {t[j] : j \in 1 .. n} /\ Elems(s) = {s[i] : i \in 1 .. n + 1}
    BY <1>5, <1>9 DEF Elems
  <2>3. Elems(s) \ {s[k]} \subseteq Elems(t)
    BY <2>1, <2>2
  <2>4. Elems(t) \subseteq Elems(s) \ {s[k]}
    BY <1>3, <1>10, <2>2
  <2> QED BY <2>3, <2>4
<1>13. ASSUME NEW j \in 1 .. n
       PROVE  \E i \in 1 .. Len(s) :
                 i >= j /\ t[j] = s[i] /\ Ahead(t, j) \subseteq Ahead(s, i) \ {s[k]}
  <2>1. at(j) \in 1 .. n + 1 /\ t[j] = s[at(j)] /\ at(j) >= j
    BY <1>3
  <2>2. \A i \in 1 .. j - 1 : i \in 1 .. n /\ i < j
    BY <1>2
  <2>3. \A i \in 1 .. j - 1 : t[i] = s[at(i)] /\ at(i) \in 1 .. at(j) - 1 /\ t[i] # s[k]
    <3>1. \A i \in 1 .. j - 1 : at(i) < at(j) /\ at(i) \in 1 .. n + 1 /\ t[i] = s[at(i)]
      BY <1>3, <1>7, <2>2
    <3>2. \A i \in 1 .. j - 1 : at(i) \in 1 .. at(j) - 1
      <4>1. n + 1 \in Nat /\ at(j) \in Int
        BY <1>2, <2>1
      <4>2. ASSUME NEW i \in 1 .. j - 1 PROVE at(i) \in 1 .. at(j) - 1
        <5>1. at(i) \in 1 .. n + 1 /\ at(i) < at(j)
          BY <3>1
        <5> QED BY <4>1, <5>1
      <4> QED BY <4>2
    <3>3. \A i \in 1 .. j - 1 : t[i] # s[k]
      BY <1>10, <2>2
    <3> QED BY <3>1, <3>2, <3>3
  <2>4. Ahead(t, j) \subseteq Ahead(s, at(j)) \ {s[k]}
    BY <2>3 DEF Ahead
  <2> QED BY <1>9, <2>1, <2>4
<1> QED BY <1>5, <1>11, <1>12, <1>13 DEF LosesOnly
=============================================================================
