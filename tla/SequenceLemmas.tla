--------------------------- MODULE SequenceLemmas ---------------------------
(***************************************************************************)
(* Facts about the lists of the library: which elements a sequence has     *)
(* (ToSet) and that it has none of them twice (IsInjective), after a push, *)
(* a pop, a concatenation and a reversal.                                  *)
(***************************************************************************)
EXTENDS Naturals, Sequences, SequencesExt, SequenceTheorems, FiniteSetTheorems, TLAPS

\* The empty list.
LEMMA ListEmpty == ToSet(<<>>) = {} /\ IsInjective(<<>>)
BY DEF ToSet, IsInjective

\* Elements are what the indices 1 .. Len(s) give.
LEMMA ListElements ==
    ASSUME NEW S, NEW s \in Seq(S)
    PROVE  /\ Len(s) \in Nat
           /\ \A i \in 1 .. Len(s) : s[i] \in S
           /\ \A x : x \in ToSet(s) <=> \E i \in 1 .. Len(s) : s[i] = x
           /\ ToSet(s) \subseteq S
           /\ s = <<>> <=> Len(s) = 0
           /\ s = <<>> <=> ToSet(s) = {}
           /\ IsInjective(s) <=> \A i, j \in 1 .. Len(s) : s[i] = s[j] => i = j
<1>1. Len(s) \in Nat /\ DOMAIN s = 1 .. Len(s) /\ s \in [1 .. Len(s) -> S]
  BY LenProperties
<1>2. \A i \in 1 .. Len(s) : s[i] \in S
  BY <1>1
<1>3. \A x : x \in ToSet(s) <=> \E i \in 1 .. Len(s) : s[i] = x
  BY <1>1 DEF ToSet
<1>4. s = <<>> <=> Len(s) = 0
  BY EmptySeq
<1>5. s = <<>> <=> ToSet(s) = {}
  <2>1. CASE s = <<>>
    BY <2>1, ListEmpty
  <2>2. CASE s # <<>>
    BY <1>1, <1>3, <1>4, <2>2
  <2> QED
    BY <2>1, <2>2
<1>6. IsInjective(s) <=> \A i, j \in 1 .. Len(s) : s[i] = s[j] => i = j
  BY <1>1 DEF IsInjective
<1> QED
  BY <1>1, <1>2, <1>3, <1>4, <1>5, <1>6

\* Two lists one after the other.
LEMMA ListConcat ==
    ASSUME NEW S, NEW s \in Seq(S), NEW t \in Seq(S)
    PROVE  /\ s \o t \in Seq(S)
           /\ ToSet(s \o t) = ToSet(s) \cup ToSet(t)
           /\ IsInjective(s \o t) <=>
                IsInjective(s) /\ IsInjective(t) /\ ToSet(s) \cap ToSet(t) = {}
<1> DEFINE u == s \o t
<1>1. /\ u \in Seq(S)
      /\ Len(u) = Len(s) + Len(t)
      /\ \A i \in 1 .. Len(s) + Len(t) : u[i] = IF i <= Len(s) THEN s[i] ELSE t[i - Len(s)]
  BY ConcatProperties
<1>2. Len(s) \in Nat /\ Len(t) \in Nat
  BY ListElements
<1> HIDE DEF u
<1>3. \A i \in 1 .. Len(s) : i \in 1 .. Len(u) /\ u[i] = s[i]
  BY <1>1, <1>2
<1>4. \A i \in 1 .. Len(t) : Len(s) + i \in 1 .. Len(u) /\ u[Len(s) + i] = t[i]
  <2> TAKE i \in 1 .. Len(t)
  <2>1. /\ Len(s) + i \in 1 .. Len(s) + Len(t)
        /\ ~(Len(s) + i <= Len(s))
        /\ (Len(s) + i) - Len(s) = i
    BY <1>2
  <2> QED
    BY <1>1, <2>1
<1>5. \A i \in 1 .. Len(u) : \/ i \in 1 .. Len(s) /\ u[i] = s[i]
                             \/ i - Len(s) \in 1 .. Len(t) /\ u[i] = t[i - Len(s)]
  BY <1>1, <1>2
<1>6. \A x : x \in ToSet(u) <=> x \in ToSet(s) \/ x \in ToSet(t)
  <2> TAKE x
  <2>1. /\ x \in ToSet(u) <=> \E i \in 1 .. Len(u) : u[i] = x
        /\ x \in ToSet(s) <=> \E i \in 1 .. Len(s) : s[i] = x
        /\ x \in ToSet(t) <=> \E i \in 1 .. Len(t) : t[i] = x
    BY <1>1, ListElements
  <2> QED
    BY <1>3, <1>4, <1>5, <2>1
<1>7. /\ IsInjective(u) <=> \A i, j \in 1 .. Len(u) : u[i] = u[j] => i = j
      /\ IsInjective(s) <=> \A i, j \in 1 .. Len(s) : s[i] = s[j] => i = j
      /\ IsInjective(t) <=> \A i, j \in 1 .. Len(t) : t[i] = t[j] => i = j
  BY <1>1, ListElements
<1>8. ToSet(s) \cap ToSet(t) = {} <=> \A i \in 1 .. Len(s), j \in 1 .. Len(t) : s[i] # t[j]
  <2>1. /\ \A x : x \in ToSet(s) <=> \E i \in 1 .. Len(s) : s[i] = x
        /\ \A x : x \in ToSet(t) <=> \E i \in 1 .. Len(t) : t[i] = x
    BY ListElements
  <2> QED
    BY <2>1
<1>9. ASSUME IsInjective(u)
      PROVE  IsInjective(s) /\ IsInjective(t) /\ ToSet(s) \cap ToSet(t) = {}
  <2>1. \A i, j \in 1 .. Len(s) : s[i] = s[j] => i = j
    BY <1>3, <1>7, <1>9
  <2>2. \A i, j \in 1 .. Len(t) : t[i] = t[j] => i = j
    <3> TAKE i, j \in 1 .. Len(t)
    <3> HAVE t[i] = t[j]
    <3>1. Len(s) + i = Len(s) + j
      BY <1>4, <1>7, <1>9
    <3> QED
      BY <1>2, <3>1
  <2>3. \A i \in 1 .. Len(s), j \in 1 .. Len(t) : s[i] # t[j]
    <3> TAKE i \in 1 .. Len(s), j \in 1 .. Len(t)
    <3>1. s[i] = t[j] => i = Len(s) + j
      BY <1>3, <1>4, <1>7, <1>9
    <3> QED
      BY <1>2, <3>1
  <2> QED
    BY <1>7, <1>8, <2>1, <2>2, <2>3
<1>10. ASSUME IsInjective(s), IsInjective(t), ToSet(s) \cap ToSet(t) = {}
       PROVE  IsInjective(u)
  <2> SUFFICES ASSUME NEW i \in 1 .. Len(u), NEW j \in 1 .. Len(u), u[i] = u[j]
               PROVE  i = j
    BY <1>7
  <2>1. \A a, b \in 1 .. Len(s) : s[a] = s[b] => a = b
    BY <1>7, <1>10
  <2>2. \A a, b \in 1 .. Len(t) : t[a] = t[b] => a = b
    BY <1>7, <1>10
  <2>3. \A a \in 1 .. Len(s), b \in 1 .. Len(t) : s[a] # t[b]
    BY <1>8, <1>10
  <2>4. i \in Int /\ j \in Int
    BY <1>1, <1>2
  <2>5. i - Len(s) = j - Len(s) => i = j
    BY <1>2, <2>4
  <2> QED
    BY <1>5, <2>1, <2>2, <2>3, <2>5
<1>11. ToSet(u) = ToSet(s) \cup ToSet(t)
  BY <1>6
<1> QED
  BY <1>1, <1>9, <1>10, <1>11 DEF u

\* A list of one element.
LEMMA ListSingle ==
    ASSUME NEW S, NEW e \in S
    PROVE  <<e>> \in Seq(S) /\ ToSet(<<e>>) = {e} /\ IsInjective(<<e>>)
<1>1. <<e>> \in Seq(S) /\ Len(<<e>>) = 1 /\ <<e>>[1] = e /\ DOMAIN <<e>> = 1 .. 1
  OBVIOUS
<1> QED
  BY <1>1 DEF ToSet, IsInjective

\* Pushing e on the front of a list.
LEMMA ListPush ==
    ASSUME NEW S, NEW s \in Seq(S), NEW e \in S
    PROVE  /\ <<e>> \o s \in Seq(S)
           /\ <<e>> \o s # <<>>
           /\ Head(<<e>> \o s) = e
           /\ ToSet(<<e>> \o s) = {e} \cup ToSet(s)
           /\ IsInjective(<<e>> \o s) <=> (e \notin ToSet(s) /\ IsInjective(s))
<1>1. <<e>> \in Seq(S) /\ ToSet(<<e>>) = {e} /\ IsInjective(<<e>>)
  BY ListSingle
<1>2. /\ <<e>> \o s \in Seq(S)
      /\ ToSet(<<e>> \o s) = {e} \cup ToSet(s)
      /\ IsInjective(<<e>> \o s) <=>
           IsInjective(<<e>>) /\ IsInjective(s) /\ {e} \cap ToSet(s) = {}
  <2> DEFINE one == <<e>>
  <2>1. one \in Seq(S) /\ ToSet(one) = {e}
    BY <1>1
  <2> HIDE DEF one
  <2>2. /\ one \o s \in Seq(S)
        /\ ToSet(one \o s) = {e} \cup ToSet(s)
        /\ IsInjective(one \o s) <=>
             IsInjective(one) /\ IsInjective(s) /\ {e} \cap ToSet(s) = {}
    BY <2>1, ListConcat
  <2> QED
    BY <2>2 DEF one
<1>3. <<e>> \o s # <<>>
  BY <1>2, ListElements
<1>4. Head(<<e>> \o s) = e
  <2>1. Len(<<e>>) = 1 /\ <<e>>[1] = e /\ Len(s) \in Nat
    BY ListElements
  <2>2. (<<e>> \o s)[1] = e
    BY <1>1, <2>1, ConcatProperties
  <2> QED
    BY <1>2, <1>3, <2>2
<1> QED
  BY <1>1, <1>2, <1>3, <1>4

\* Taking the first element off a list.
LEMMA ListPop ==
    ASSUME NEW S, NEW s \in Seq(S), s # <<>>
    PROVE  /\ Head(s) \in S
           /\ Tail(s) \in Seq(S)
           /\ Len(Tail(s)) = Len(s) - 1
           /\ s = <<Head(s)>> \o Tail(s)
           /\ ToSet(s) = {Head(s)} \cup ToSet(Tail(s))
           /\ IsInjective(s) => Head(s) \notin ToSet(Tail(s)) /\ IsInjective(Tail(s))
<1>1. /\ Head(s) \in S /\ Tail(s) \in Seq(S) /\ Len(Tail(s)) = Len(s) - 1
      /\ \A i \in 1 .. Len(Tail(s)) : Tail(s)[i] = s[i + 1]
  BY HeadTailProperties
<1>2. Len(s) \in Nat /\ Len(s) # 0 /\ Head(s) = s[1]
  BY ListElements
<1>3. s = <<Head(s)>> \o Tail(s)
  <2> DEFINE u == <<Head(s)>> \o Tail(s)
  <2>1. <<Head(s)>> \in Seq(S) /\ Len(<<Head(s)>>) = 1 /\ <<Head(s)>>[1] = Head(s)
    BY <1>1
  <2>2. /\ u \in Seq(S)
        /\ Len(u) = 1 + Len(Tail(s))
        /\ \A i \in 1 .. 1 + Len(Tail(s)) : u[i] = IF i <= 1 THEN <<Head(s)>>[i] ELSE Tail(s)[i - 1]
    BY <1>1, <2>1, ConcatProperties
  <2> HIDE DEF u
  <2>3. Len(u) = Len(s) /\ \A i \in 1 .. Len(u) : u[i] = s[i]
    BY <1>1, <1>2, <2>1, <2>2
  <2>4. s = u
    BY <2>2, <2>3, SeqEqual
  <2> QED
    BY <2>4 DEF u
<1> QED
  BY <1>1, <1>3, ListPush

\* Turning a list round.
LEMMA ListReverse ==
    ASSUME NEW S, NEW s \in Seq(S)
    PROVE  /\ Reverse(s) \in Seq(S)
           /\ Len(Reverse(s)) = Len(s)
           /\ ToSet(Reverse(s)) = ToSet(s)
           /\ IsInjective(Reverse(s)) <=> IsInjective(s)
<1> DEFINE r == Reverse(s)
<1>1. Len(s) \in Nat /\ \A i \in 1 .. Len(s) : s[i] \in S
  BY ListElements
<1>2. r = [i \in 1 .. Len(s) |-> s[(Len(s) - i) + 1]]
  BY DEF Reverse
<1>3. \A i \in 1 .. Len(s) : (Len(s) - i) + 1 \in 1 .. Len(s)
  BY <1>1
<1>4. r \in [1 .. Len(s) -> S]
  BY <1>1, <1>2, <1>3
<1>5. r \in Seq(S) /\ Len(r) = Len(s)
  BY <1>1, <1>4
<1> HIDE DEF r
<1>6. \A i \in 1 .. Len(s) : /\ r[i] = s[(Len(s) - i) + 1]
                             /\ s[i] = r[(Len(s) - i) + 1]
  BY <1>1, <1>2, <1>3
<1>7. /\ \A x : x \in ToSet(r) <=> \E i \in 1 .. Len(s) : r[i] = x
      /\ \A x : x \in ToSet(s) <=> \E i \in 1 .. Len(s) : s[i] = x
      /\ IsInjective(r) <=> \A i, j \in 1 .. Len(s) : r[i] = r[j] => i = j
      /\ IsInjective(s) <=> \A i, j \in 1 .. Len(s) : s[i] = s[j] => i = j
  BY <1>5, ListElements
<1>8. ToSet(r) = ToSet(s)
  <2>1. ASSUME NEW x \in ToSet(r) PROVE x \in ToSet(s)
    BY <1>3, <1>6, <1>7
  <2>2. ASSUME NEW x \in ToSet(s) PROVE x \in ToSet(r)
    BY <1>3, <1>6, <1>7
  <2> QED
    BY <2>1, <2>2
<1>9. \A i, j \in 1 .. Len(s) : (Len(s) - i) + 1 = (Len(s) - j) + 1 => i = j
  BY <1>1
<1>10. ASSUME IsInjective(s) PROVE IsInjective(r)
  <2> SUFFICES ASSUME NEW i \in 1 .. Len(s), NEW j \in 1 .. Len(s), r[i] = r[j]
               PROVE  i = j
    BY <1>7
  <2>1. (Len(s) - i) + 1 = (Len(s) - j) + 1
    <3>1. \A a, b \in 1 .. Len(s) : s[a] = s[b] => a = b
      BY <1>7, <1>10
    <3>2. s[(Len(s) - i) + 1] = s[(Len(s) - j) + 1]
      BY <1>6
    <3> QED
      BY <1>3, <3>1, <3>2
  <2> QED
    BY <1>9, <2>1
<1>11. ASSUME IsInjective(r) PROVE IsInjective(s)
  <2> SUFFICES ASSUME NEW i \in 1 .. Len(s), NEW j \in 1 .. Len(s), s[i] = s[j]
               PROVE  i = j
    BY <1>7
  <2>1. (Len(s) - i) + 1 = (Len(s) - j) + 1
    <3>1. \A a, b \in 1 .. Len(s) : r[a] = r[b] => a = b
      BY <1>7, <1>11
    <3>2. r[(Len(s) - i) + 1] = r[(Len(s) - j) + 1]
      BY <1>6
    <3> QED
      BY <1>3, <3>1, <3>2
  <2> QED
    BY <1>9, <2>1
<1> QED
  BY <1>5, <1>8, <1>10, <1>11 DEF r

\* A list with another one behind it: what is taken first is taken from the
\* first list.
LEMMA ListPopConcat ==
    ASSUME NEW S, NEW s \in Seq(S), NEW t \in Seq(S), s # <<>>
    PROVE  /\ s \o t # <<>>
           /\ Head(s \o t) = Head(s)
           /\ Tail(s \o t) = Tail(s) \o t
<1>1. Len(s) \in Nat /\ Len(s) # 0 /\ Len(t) \in Nat
  BY ListElements
<1>2. Tail(s) \in Seq(S) /\ Len(Tail(s)) = Len(s) - 1 /\ \A i \in 1 .. Len(Tail(s)) : Tail(s)[i] = s[i + 1]
  BY HeadTailProperties
<1> DEFINE u == s \o t
<1>3. /\ u \in Seq(S)
      /\ Len(u) = Len(s) + Len(t)
      /\ \A i \in 1 .. Len(s) + Len(t) : u[i] = IF i <= Len(s) THEN s[i] ELSE t[i - Len(s)]
  BY ConcatProperties
<1> DEFINE v == Tail(s) \o t
<1>4. /\ v \in Seq(S)
      /\ Len(v) = Len(Tail(s)) + Len(t)
      /\ \A i \in 1 .. Len(Tail(s)) + Len(t) :
           v[i] = IF i <= Len(Tail(s)) THEN Tail(s)[i] ELSE t[i - Len(Tail(s))]
  BY <1>2, ConcatProperties
<1> HIDE DEF u, v
<1>5. u # <<>>
  BY <1>1, <1>3, ListElements
<1>6. Head(u) = Head(s)
  <2>1. u[1] = s[1]
    BY <1>1, <1>3
  <2> QED
    BY <1>3, <1>5, <2>1
<1>7. Tail(u) = v
  <2>1. /\ Tail(u) \in Seq(S) /\ Len(Tail(u)) = Len(u) - 1
        /\ \A i \in 1 .. Len(Tail(u)) : Tail(u)[i] = u[i + 1]
    BY <1>3, <1>5, HeadTailProperties
  <2>2. Len(Tail(u)) = Len(v)
    BY <1>1, <1>2, <1>3, <1>4, <2>1
  <2>3. ASSUME NEW i \in 1 .. Len(v) PROVE Tail(u)[i] = v[i]
    <3>1. Tail(u)[i] = u[i + 1]
      BY <2>1, <2>2
    <3>2. CASE i <= Len(Tail(s))
      <4>1. i \in 1 .. Len(Tail(s)) /\ i + 1 <= Len(s) /\ i + 1 \in 1 .. Len(s) + Len(t)
        BY <1>1, <1>2, <1>4, <3>2
      <4> QED
        BY <1>2, <1>3, <1>4, <3>1, <4>1
    <3>3. CASE ~(i <= Len(Tail(s)))
      <4>1. ~(i + 1 <= Len(s)) /\ i + 1 \in 1 .. Len(s) + Len(t) /\ (i + 1) - Len(s) = i - Len(Tail(s))
        BY <1>1, <1>2, <1>4, <3>3
      <4> QED
        BY <1>3, <1>4, <3>1, <3>3, <4>1
    <3> QED
      BY <3>2, <3>3
  <2> QED
    BY <1>4, <2>1, <2>2, <2>3, SeqEqual
<1> QED
  BY <1>5, <1>6, <1>7 DEF u, v

\* Adding e at the end of a list.
LEMMA ListAppend ==
    ASSUME NEW S, NEW s \in Seq(S), NEW e \in S
    PROVE  /\ Append(s, e) \in Seq(S)
           /\ Append(s, e) # <<>>
           /\ Len(Append(s, e)) = Len(s) + 1
           /\ ToSet(Append(s, e)) = ToSet(s) \cup {e}
           /\ IsInjective(Append(s, e)) <=> (e \notin ToSet(s) /\ IsInjective(s))
<1> DEFINE one == <<e>>
<1>1. one \in Seq(S) /\ ToSet(one) = {e} /\ IsInjective(one)
  BY ListSingle
<1>2. Append(s, e) = s \o one
  BY AppendIsConcat
<1>3. Append(s, e) \in Seq(S) /\ Append(s, e) # <<>> /\ Len(Append(s, e)) = Len(s) + 1
  BY AppendProperties
<1> HIDE DEF one
<1>4. /\ ToSet(s \o one) = ToSet(s) \cup ToSet(one)
      /\ IsInjective(s \o one) <=>
           IsInjective(s) /\ IsInjective(one) /\ ToSet(s) \cap ToSet(one) = {}
  BY <1>1, ListConcat
<1> QED
  BY <1>1, <1>2, <1>3, <1>4

\* A push on a stack is an append to the list of its elements from the bottom.
LEMMA ListReversePush ==
    ASSUME NEW S, NEW s \in Seq(S), NEW e \in S
    PROVE  Reverse(<<e>> \o s) = Append(Reverse(s), e)
<1> DEFINE p == <<e>> \o s
           r == Reverse(p)
           a == Append(Reverse(s), e)
<1>1. Len(s) \in Nat
  BY ListElements
<1>2. p \in Seq(S) /\ Len(p) = Len(s) + 1
      /\ p[1] = e /\ \A i \in 1 .. Len(s) : p[i + 1] = s[i]
  <2> DEFINE one == <<e>>
  <2>1. one \in Seq(S) /\ Len(one) = 1 /\ one[1] = e
    OBVIOUS
  <2> HIDE DEF one
  <2> DEFINE q == one \o s
  <2>2. /\ q \in Seq(S)
        /\ Len(q) = Len(one) + Len(s)
        /\ \A i \in 1 .. Len(one) + Len(s) :
             q[i] = IF i <= Len(one) THEN one[i] ELSE s[i - Len(one)]
    BY <2>1, ConcatProperties
  <2>3. q \in Seq(S) /\ Len(q) = 1 + Len(s)
        /\ \A i \in 1 .. 1 + Len(s) : q[i] = IF i <= 1 THEN one[i] ELSE s[i - 1]
    <3> HIDE DEF q
    <3> QED
      BY <2>1, <2>2
  <2> HIDE DEF q
  <2>4. q[1] = e
    BY <1>1, <2>1, <2>3
  <2>5. ASSUME NEW i \in 1 .. Len(s) PROVE q[i + 1] = s[i]
    <3>1. i + 1 \in 1 .. 1 + Len(s) /\ ~(i + 1 <= 1) /\ (i + 1) - 1 = i
      BY <1>1
    <3> QED
      BY <2>3, <3>1
  <2>6. q \in Seq(S) /\ Len(q) = Len(s) + 1 /\ q[1] = e /\ \A i \in 1 .. Len(s) : q[i + 1] = s[i]
    BY <1>1, <2>3, <2>4, <2>5
  <2> QED
    BY <2>6 DEF q, one
<1> HIDE DEF p
<1>3. /\ r \in Seq(S) /\ Len(r) = Len(s) + 1
      /\ \A i \in 1 .. Len(s) + 1 : r[i] = p[((Len(s) + 1) - i) + 1]
  BY <1>1, <1>2, ListReverse DEF Reverse
<1>4. /\ Reverse(s) \in Seq(S) /\ Len(Reverse(s)) = Len(s)
      /\ \A i \in 1 .. Len(s) : Reverse(s)[i] = s[(Len(s) - i) + 1]
  BY <1>1, ListReverse DEF Reverse
<1>5. /\ a \in Seq(S) /\ Len(a) = Len(s) + 1
      /\ \A i \in 1 .. Len(s) : a[i] = Reverse(s)[i]
      /\ a[Len(s) + 1] = e
  BY <1>4, AppendProperties
<1> HIDE DEF r, a
<1>6. ASSUME NEW i \in 1 .. Len(r) PROVE r[i] = a[i]
  <2>1. CASE i = Len(s) + 1
    <3>1. ((Len(s) + 1) - i) + 1 = 1
      BY <1>1, <2>1
    <3> QED
      BY <1>1, <1>2, <1>3, <1>5, <2>1, <3>1
  <2>2. CASE i # Len(s) + 1
    <3>1. /\ i \in 1 .. Len(s)
          /\ (Len(s) - i) + 1 \in 1 .. Len(s)
          /\ ((Len(s) + 1) - i) + 1 = ((Len(s) - i) + 1) + 1
          /\ i \in 1 .. Len(s) + 1
      BY <1>1, <1>3, <2>2
    <3> QED
      BY <1>2, <1>3, <1>4, <1>5, <3>1
  <2> QED
    BY <2>1, <2>2
<1>7. r = a
  BY <1>3, <1>5, <1>6, SeqEqual
<1> QED
  BY <1>7 DEF r, a, p

\* The empty list is neutral for \o and its own reverse.
LEMMA ListEmptyConcat ==
    ASSUME NEW S, NEW s \in Seq(S)
    PROVE  <<>> \o s = s /\ s \o <<>> = s /\ Reverse(<<>>) = <<>>
<1>1. <<>> \o s = s /\ s \o <<>> = s
  BY ConcatEmptySeq
<1>2. <<>> \in Seq({})
  OBVIOUS
<1>3. Reverse(<<>>) \in Seq({}) /\ Len(Reverse(<<>>)) = Len(<<>>)
  BY <1>2, ListReverse
<1>4. Reverse(<<>>) = <<>>
  BY <1>3, ListElements
<1> QED
  BY <1>1, <1>4

\* Appending to the second of two lists.
LEMMA ListConcatAppend ==
    ASSUME NEW S, NEW s \in Seq(S), NEW t \in Seq(S), NEW e \in S
    PROVE  s \o Append(t, e) = Append(s \o t, e)
<1> DEFINE one == <<e>>
<1>1. one \in Seq(S)
  OBVIOUS
<1>2. Append(t, e) = t \o one /\ Append(s \o t, e) = (s \o t) \o one
  BY AppendIsConcat, ListConcat
<1> HIDE DEF one
<1>3. s \o (t \o one) = (s \o t) \o one
  BY <1>1, ConcatAssociative
<1> QED
  BY <1>2, <1>3

\* A list without repetitions has as many elements as its length.
LEMMA ListSize ==
    ASSUME NEW S, NEW s \in Seq(S), IsInjective(s)
    PROVE  Cardinality(ToSet(s)) = Len(s)
<1>1. /\ Len(s) \in Nat /\ s \in [1 .. Len(s) -> ToSet(s)]
      /\ \A x \in ToSet(s) : \E i \in 1 .. Len(s) : s[i] = x
      /\ \A i, j \in 1 .. Len(s) : s[i] = s[j] => i = j
  <2>1. Len(s) \in Nat /\ DOMAIN s = 1 .. Len(s) /\ s = [i \in 1 .. Len(s) |-> s[i]]
    BY LenProperties
  <2> QED
    BY <2>1, ListElements
<1>2. s \in Bijection(1 .. Len(s), ToSet(s))
  BY <1>1 DEF Bijection, Injection, Surjection, IsInjective
<1>3. ExistsBijection(1 .. Len(s), ToSet(s))
  BY <1>2 DEF ExistsBijection
<1> QED
  BY <1>1, <1>3, FS_CountingElements
=============================================================================
