--------------------------- MODULE CollectProofs ---------------------------
(***************************************************************************)
(* What Collect returns, for every sequence.                               *)
(*                                                                         *)
(* Induction over the naturals is stated with a set in the place of a      *)
(* predicate, and follows from the least element of a set of naturals      *)
(* (WFMin); with it the function that Collect chooses is shown to exist.   *)
(***************************************************************************)
EXTENDS Collect, WellFoundedInduction, TLAPS

\* A set of naturals has a least element.
LEMMA NatMin ==
  ASSUME NEW T, T \subseteq Nat, T # {}
  PROVE  \E x \in T : \A y \in T : x <= y
<1>1. \A x, y \in Nat : y < x => <<y, x>> \in OpToRel(<, Nat)
  BY DEF OpToRel
<1>2. PICK x \in T : \A y \in T : ~ (<<y, x>> \in OpToRel(<, Nat))
  BY WFMin, NatLessThanWellFounded
<1>3. ASSUME NEW y \in T PROVE x <= y
  <2>1. x \in Nat /\ y \in Nat /\ ~(y < x)
    BY <1>1, <1>2
  <2> QED
    BY <2>1
<1> QED
  BY <1>3

\* A set of naturals with an upper bound has a greatest element.
LEMMA NatMax ==
  ASSUME NEW S, S \subseteq Nat, S # {}, NEW n \in Nat, \A x \in S : x <= n
  PROVE  \E x \in S : \A y \in S : y <= x
<1> DEFINE Bounds == {u \in Nat : \A x \in S : x <= u}
<1>1. PICK u \in Bounds : \A v \in Bounds : u <= v
  BY NatMin
<1>2. u \in S
  <2>1. SUFFICES ASSUME u \notin S PROVE FALSE
    OBVIOUS
  <2>2. \A x \in S : x <= u - 1
    BY <2>1
  <2>3. PICK x \in S : TRUE
    OBVIOUS
  <2>4. u - 1 \in Nat
    BY <2>2, <2>3
  <2> QED
    BY <1>1, <2>2, <2>4
<1> QED
  BY <1>2

\* What holds of 0, and of n + 1 if it holds of n, holds of all naturals.
LEMMA Induction ==
  ASSUME NEW S, 0 \in S, \A n \in Nat : n \in S => n + 1 \in S
  PROVE  \A n \in Nat : n \in S
<1> DEFINE Others == {n \in Nat : n \notin S}
<1> SUFFICES ASSUME Others # {} PROVE FALSE
  OBVIOUS
<1>1. PICK x \in Others : \A y \in Others : x <= y
  BY NatMin
<1>2. x - 1 \in Nat /\ x - 1 \notin Others
  BY <1>1
<1> QED
  BY <1>2

-----------------------------------------------------------------------------
(* The function that Collect builds exists, and there is one only. *)

\* c is what the loop has built after each of the first n elements.
Builds(c, s, S, n) ==
  c = [i \in 0 .. n |->
         IF i = 0 THEN <<>>
         ELSE IF s[i] \in S THEN Append(c[i - 1], s[i]) ELSE c[i - 1]]

\* It is built one element at a time.
LEMMA BuiltExists ==
  ASSUME NEW s, NEW S, NEW n \in Nat
  PROVE  \E c : Builds(c, s, S, n)
<1> DEFINE Good == {k \in Nat : \E c : Builds(c, s, S, k)}
<1>1. 0 \in Good
  <2>1. Builds([i \in 0 .. 0 |-> <<>>], s, S, 0)
    BY DEF Builds
  <2> QED
    BY <2>1
<1>2. ASSUME NEW k \in Nat, k \in Good PROVE k + 1 \in Good
  <2>1. PICK c : Builds(c, s, S, k)
    BY <1>2
  <2> DEFINE d == [i \in 0 .. k + 1 |->
                     IF i <= k THEN c[i]
                     ELSE IF s[i] \in S THEN Append(c[k], s[i]) ELSE c[k]]
  <2>2. ASSUME NEW i \in 0 .. k + 1
        PROVE  d[i] = IF i = 0 THEN <<>>
                      ELSE IF s[i] \in S THEN Append(d[i - 1], s[i]) ELSE d[i - 1]
    <3>1. CASE i <= k
      <4>1. i \in 0 .. k /\ d[i] = c[i]
        BY <3>1
      <4>2. i # 0 => i - 1 \in 0 .. k + 1 /\ i - 1 <= k
        BY <3>1
      <4>3. i # 0 => d[i - 1] = c[i - 1]
        BY <4>2
      <4> HIDE DEF d
      <4> QED
        BY <4>1, <4>3, <2>1 DEF Builds
    <3>2. CASE i = k + 1
      BY <3>2
    <3> QED
      BY <3>1, <3>2
  <2>3. Builds(d, s, S, k + 1)
    <3> HIDE DEF d
    <3>1. d = [i \in 0 .. k + 1 |-> d[i]]
      BY DEF d
    <3> QED
      BY <3>1, <2>2 DEF Builds
  <2> QED
    BY <2>3
<1> HIDE DEF Good
<1>3. n \in Good
  BY <1>1, <1>2, Induction
<1> QED
  BY <1>3 DEF Good

\* What is built of a sequence does not depend on what comes after.
LEMMA BuiltAgree ==
  ASSUME NEW s, NEW t, NEW S, NEW c, NEW d, NEW n \in Nat,
         \A i \in 1 .. n : s[i] = t[i], Builds(c, s, S, n), Builds(d, t, S, n + 1)
  PROVE  \A i \in 0 .. n : c[i] = d[i]
<1> DEFINE Good == {k \in Nat : k <= n => c[k] = d[k]}
<1>1. 0 \in Good
  BY DEF Builds
<1>2. ASSUME NEW k \in Nat, k \in Good PROVE k + 1 \in Good
  <2> SUFFICES ASSUME k + 1 <= n PROVE c[k + 1] = d[k + 1]
    OBVIOUS
  <2>1. k + 1 \in 0 .. n /\ k + 1 \in 0 .. n + 1 /\ k + 1 # 0 /\ (k + 1) - 1 = k
    OBVIOUS
  <2>2. c[k + 1] = IF s[k + 1] \in S THEN Append(c[k], s[k + 1]) ELSE c[k]
    BY <2>1 DEF Builds
  <2>3. d[k + 1] = IF t[k + 1] \in S THEN Append(d[k], t[k + 1]) ELSE d[k]
    BY <2>1 DEF Builds
  <2>4. c[k] = d[k] /\ s[k + 1] = t[k + 1]
    BY <1>2
  <2> QED
    BY <2>2, <2>3, <2>4
<1> HIDE DEF Good
<1>3. \A k \in Nat : k \in Good
  BY <1>1, <1>2, Induction
<1> QED
  BY <1>3 DEF Good

\* Collect is its value at the end of the sequence.
LEMMA CollectBuilt ==
  ASSUME NEW s, NEW S, Len(s) \in Nat
  PROVE  \E c : Builds(c, s, S, Len(s)) /\ Collect(s, S) = c[Len(s)]
<1> DEFINE c == CHOOSE c : Builds(c, s, S, Len(s))
<1>1. Builds(c, s, S, Len(s))
  BY BuiltExists
<1>2. Collect(s, S) = c[Len(s)]
  BY DEF Collect, Builds
<1> QED
  BY <1>1, <1>2

\* Collect, by the last element of the sequence.
LEMMA CollectEmpty == ASSUME NEW S PROVE Collect(<<>>, S) = <<>>
<1>1. PICK c : Builds(c, <<>>, S, 0) /\ Collect(<<>>, S) = c[0]
  <2>1. Len(<<>>) = 0
    OBVIOUS
  <2> QED
    BY <2>1, CollectBuilt
<1> QED
  BY <1>1 DEF Builds

LEMMA CollectAppend ==
  ASSUME NEW T, NEW s \in Seq(T), NEW e \in T, NEW S
  PROVE  Collect(Append(s, e), S) =
           IF e \in S THEN Append(Collect(s, S), e) ELSE Collect(s, S)
<1> DEFINE t == Append(s, e)
           n == Len(s)
<1>1. n \in Nat /\ Len(t) = n + 1 /\ t[n + 1] = e /\ \A i \in 1 .. n : s[i] = t[i]
  OBVIOUS
<1>2. PICK c : Builds(c, s, S, n) /\ Collect(s, S) = c[n]
  BY <1>1, CollectBuilt
<1> HIDE DEF t, n
<1>3. PICK d : Builds(d, t, S, n + 1) /\ Collect(t, S) = d[n + 1]
  <2>1. Len(t) \in Nat
    BY <1>1
  <2> QED
    BY <1>1, <2>1, CollectBuilt
<1>4. c[n] = d[n]
  <2>2. n \in Nat /\ \A i \in 1 .. n : s[i] = t[i]
    BY <1>1
  <2>3. Builds(c, s, S, n) /\ Builds(d, t, S, n + 1)
    BY <1>2, <1>3
  <2>4. \A i \in 0 .. n : c[i] = d[i]
    BY <2>2, <2>3, BuiltAgree
  <2> QED
    BY <2>4, <1>1
<1>5. d[n + 1] = IF t[n + 1] \in S THEN Append(d[n], t[n + 1]) ELSE d[n]
  <2>1. n + 1 \in 0 .. n + 1 /\ n + 1 # 0 /\ (n + 1) - 1 = n
    BY <1>1
  <2> QED
    BY <2>1, <1>3 DEF Builds
<1> QED
  BY <1>1, <1>2, <1>3, <1>4, <1>5 DEF t, n

-----------------------------------------------------------------------------
(* Sequences, by induction over their elements. *)

\* What holds of the empty sequence, and of s with an element appended if it
\* holds of s, holds of all sequences.
LEMMA SeqInduction ==
  ASSUME NEW T, NEW Good, <<>> \in Good,
         \A s \in Seq(T), e \in T : s \in Good => Append(s, e) \in Good
  PROVE  \A s \in Seq(T) : s \in Good
<1> DEFINE Long == {n \in Nat : \A s \in Seq(T) : Len(s) = n => s \in Good}
<1>1. 0 \in Long
  <2>1. \A s \in Seq(T) : Len(s) = 0 => s = <<>>
    OBVIOUS
  <2> QED
    BY <2>1
<1>2. ASSUME NEW n \in Nat, n \in Long PROVE n + 1 \in Long
  <2> SUFFICES ASSUME NEW s \in Seq(T), Len(s) = n + 1 PROVE s \in Good
    OBVIOUS
  <2> DEFINE r == [i \in 1 .. n |-> s[i]]
  <2>1. r \in Seq(T) /\ Len(r) = n
    OBVIOUS
  <2>2. s[n + 1] \in T /\ s = Append(r, s[n + 1])
    OBVIOUS
  <2>3. r \in Good
    BY <1>2, <2>1
  <2> QED
    BY <2>1, <2>2, <2>3
<1> HIDE DEF Long
<1>3. \A n \in Nat : n \in Long
  BY <1>1, <1>2, Induction
<1> QED
  BY <1>3 DEF Long

LEMMA CollectType ==
  ASSUME NEW T, NEW S
  PROVE  \A s \in Seq(T) : Collect(s, S) \in Seq(T) /\ Len(Collect(s, S)) \in Nat
<1> DEFINE Good == {s \in Seq(T) : Collect(s, S) \in Seq(T)}
<1>1. <<>> \in Good
  <2>1. Collect(<<>>, S) = <<>>
    BY CollectEmpty
  <2>2. <<>> \in Seq(T)
    OBVIOUS
  <2>3. Collect(<<>>, S) \in Seq(T)
    BY <2>1, <2>2
  <2> QED
    BY <2>2, <2>3
<1>2. ASSUME NEW s \in Seq(T), NEW e \in T, s \in Good PROVE Append(s, e) \in Good
  <2>1. Append(s, e) \in Seq(T)
    OBVIOUS
  <2>2. Collect(s, S) \in Seq(T) /\ Append(Collect(s, S), e) \in Seq(T)
    BY <1>2
  <2>3. Collect(Append(s, e), S) \in Seq(T)
    BY <2>2, CollectAppend
  <2> QED
    BY <2>1, <2>3
<1> HIDE DEF Good
<1>3. \A s \in Seq(T) : s \in Good
  BY <1>1, <1>2, SeqInduction
<1> QED
  BY <1>3 DEF Good

\* Of two sets, the one that has more of the elements collects more.
LEMMA CollectMore ==
  ASSUME NEW T, NEW A, NEW B
  PROVE  \A s \in Seq(T) : (\A i \in DOMAIN s : s[i] \in A => s[i] \in B)
           => Len(Collect(s, A)) <= Len(Collect(s, B))
<1> DEFINE Sub(s) == \A i \in DOMAIN s : s[i] \in A => s[i] \in B
           Good == {s \in Seq(T) : Sub(s) => Len(Collect(s, A)) <= Len(Collect(s, B))}
<1>1. <<>> \in Good
  <2>1. Collect(<<>>, A) = <<>> /\ Collect(<<>>, B) = <<>>
    BY CollectEmpty
  <2>2. <<>> \in Seq(T) /\ Len(<<>>) = 0 /\ 0 <= 0
    OBVIOUS
  <2>3. Len(Collect(<<>>, A)) <= Len(Collect(<<>>, B))
    BY <2>1, <2>2
  <2> QED
    BY <2>2, <2>3
<1>2. ASSUME NEW s \in Seq(T), NEW e \in T, s \in Good PROVE Append(s, e) \in Good
  <2>0. Append(s, e) \in Seq(T)
    OBVIOUS
  <2> SUFFICES ASSUME Sub(Append(s, e))
               PROVE  Len(Collect(Append(s, e), A)) <= Len(Collect(Append(s, e), B))
    BY <2>0
  <2>1. Sub(s) /\ (e \in A => e \in B)
    <3>1. /\ DOMAIN Append(s, e) = 1 .. Len(s) + 1 /\ DOMAIN s = 1 .. Len(s)
          /\ Len(s) \in Nat /\ Append(s, e)[Len(s) + 1] = e
          /\ \A i \in 1 .. Len(s) : Append(s, e)[i] = s[i]
      OBVIOUS
    <3> QED
      BY <3>1
  <2>2. Len(Collect(s, A)) <= Len(Collect(s, B))
    BY <1>2, <2>1
  <2>3. /\ Collect(s, A) \in Seq(T) /\ Collect(s, B) \in Seq(T)
        /\ Len(Collect(s, A)) \in Nat /\ Len(Collect(s, B)) \in Nat
    BY CollectType
  <2>4. \A r \in Seq(T) : Len(Append(r, e)) = Len(r) + 1
    OBVIOUS
  <2>5. /\ Len(Collect(Append(s, e), A)) = Len(Collect(s, A)) + IF e \in A THEN 1 ELSE 0
        /\ Len(Collect(Append(s, e), B)) = Len(Collect(s, B)) + IF e \in B THEN 1 ELSE 0
    BY <2>3, <2>4, CollectAppend
  <2> QED
    BY <2>1, <2>2, <2>3, <2>5
<1> HIDE DEF Good
<1>3. \A s \in Seq(T) : s \in Good
  BY <1>1, <1>2, SeqInduction
<1> QED
  BY <1>3 DEF Good

\* One more element, which is there once at most, makes one more at most.
LEMMA CollectOne ==
  ASSUME NEW T, NEW A, NEW v
  PROVE  \A s \in Seq(T) : (\A i, j \in DOMAIN s : s[i] = v /\ s[j] = v => i = j)
           => Len(Collect(s, A \cup {v})) <= Len(Collect(s, A)) + 1
<1> DEFINE Once(s) == \A i, j \in DOMAIN s : s[i] = v /\ s[j] = v => i = j
           Good == {s \in Seq(T) : Once(s) =>
                      Len(Collect(s, A \cup {v})) <= Len(Collect(s, A)) + 1}
<1>1. <<>> \in Good
  <2>1. Collect(<<>>, A) = <<>> /\ Collect(<<>>, A \cup {v}) = <<>>
    BY CollectEmpty
  <2>2. <<>> \in Seq(T) /\ Len(<<>>) <= Len(<<>>) + 1
    OBVIOUS
  <2> QED
    BY <2>1, <2>2
<1>2. ASSUME NEW s \in Seq(T), NEW e \in T, s \in Good PROVE Append(s, e) \in Good
  <2>0. Append(s, e) \in Seq(T)
    OBVIOUS
  <2> SUFFICES ASSUME Once(Append(s, e))
               PROVE  Len(Collect(Append(s, e), A \cup {v}))
                        <= Len(Collect(Append(s, e), A)) + 1
    BY <2>0
  <2>1. /\ DOMAIN Append(s, e) = 1 .. Len(s) + 1 /\ DOMAIN s = 1 .. Len(s)
        /\ Len(s) \in Nat /\ Append(s, e)[Len(s) + 1] = e
        /\ \A i \in 1 .. Len(s) : Append(s, e)[i] = s[i]
    OBVIOUS
  <2>2. Once(s) /\ (e = v => \A i \in DOMAIN s : s[i] # v)
    BY <2>1
  <2>3. /\ Collect(s, A) \in Seq(T) /\ Collect(s, A \cup {v}) \in Seq(T)
        /\ Len(Collect(s, A)) \in Nat /\ Len(Collect(s, A \cup {v})) \in Nat
    BY CollectType
  <2>4. \A r \in Seq(T) : Len(Append(r, e)) = Len(r) + 1
    OBVIOUS
  <2>5. /\ Len(Collect(Append(s, e), A)) = Len(Collect(s, A)) + IF e \in A THEN 1 ELSE 0
        /\ Len(Collect(Append(s, e), A \cup {v}))
             = Len(Collect(s, A \cup {v})) + IF e \in A \cup {v} THEN 1 ELSE 0
    BY <2>3, <2>4, CollectAppend
  <2>6. CASE e = v
    <3>1. Len(Collect(s, A \cup {v})) <= Len(Collect(s, A))
      <4>1. \A i \in DOMAIN s : s[i] \in A \cup {v} => s[i] \in A
        BY <2>2, <2>6
      <4> QED
        BY <4>1, CollectMore
    <3> QED
      BY <2>3, <2>5, <3>1
  <2>7. CASE e # v
    BY <1>2, <2>2, <2>3, <2>5, <2>7
  <2> QED
    BY <2>6, <2>7
<1> HIDE DEF Good
<1>3. \A s \in Seq(T) : s \in Good
  BY <1>1, <1>2, SeqInduction
<1> QED
  BY <1>3 DEF Good

LEMMA CollectConcat ==
  ASSUME NEW T, NEW S, NEW s \in Seq(T)
  PROVE  \A t \in Seq(T) : Collect(s \o t, S) = Collect(s, S) \o Collect(t, S)
<1> DEFINE Good == {t \in Seq(T) : Collect(s \o t, S) = Collect(s, S) \o Collect(t, S)}
<1>1. <<>> \in Good
  <2>1. Collect(<<>>, S) = <<>>
    BY CollectEmpty
  <2>2. <<>> \in Seq(T) /\ \A r \in Seq(T) : r \o <<>> = r
    OBVIOUS
  <2>3. Collect(s, S) \in Seq(T)
    BY CollectType
  <2> QED
    BY <2>1, <2>2, <2>3
<1>2. ASSUME NEW t \in Seq(T), NEW e \in T, t \in Good PROVE Append(t, e) \in Good
  <2>1. \A q, r \in Seq(T) : /\ q \o r \in Seq(T) /\ Append(r, e) \in Seq(T)
                             /\ q \o Append(r, e) = Append(q \o r, e)
    OBVIOUS
  <2>2. Collect(s, S) \in Seq(T) /\ Collect(t, S) \in Seq(T)
    BY CollectType
  <2>3. Collect(s \o t, S) = Collect(s, S) \o Collect(t, S)
    BY <1>2
  <2>4. Collect(Append(t, e), S) = IF e \in S THEN Append(Collect(t, S), e) ELSE Collect(t, S)
    BY CollectAppend
  <2>5. Collect(s \o Append(t, e), S)
          = IF e \in S THEN Append(Collect(s \o t, S), e) ELSE Collect(s \o t, S)
    <3>1. Collect(Append(s \o t, e), S)
            = IF e \in S THEN Append(Collect(s \o t, S), e) ELSE Collect(s \o t, S)
      BY <2>1, CollectAppend
    <3> QED
      BY <2>1, <3>1, Zenon
  <2>6. Collect(s \o Append(t, e), S) = Collect(s, S) \o Collect(Append(t, e), S)
    <3>1. CASE e \in S
      <4>1. Collect(s, S) \o Append(Collect(t, S), e) = Append(Collect(s, S) \o Collect(t, S), e)
        BY <2>1, <2>2
      <4>2. Collect(Append(t, e), S) = Append(Collect(t, S), e)
        BY <2>4, <3>1, Zenon
      <4>3. Collect(s \o Append(t, e), S) = Append(Collect(s \o t, S), e)
        BY <2>5, <3>1, Zenon
      <4> QED
        BY <2>3, <4>1, <4>2, <4>3, Zenon
    <3>2. CASE e \notin S
      BY <2>3, <2>4, <2>5, <3>2, Zenon
    <3> QED
      BY <3>1, <3>2
  <2> QED
    BY <2>1, <2>6
<1> HIDE DEF Good
<1>3. \A t \in Seq(T) : t \in Good
  BY <1>1, <1>2, SeqInduction
<1> QED
  BY <1>3 DEF Good

LEMMA CollectAll ==
  ASSUME NEW T, NEW S
  PROVE  \A s \in Seq(T) : (\A i \in DOMAIN s : s[i] \in S) => Collect(s, S) = s
<1> DEFINE Good == {s \in Seq(T) : (\A i \in DOMAIN s : s[i] \in S) => Collect(s, S) = s}
<1>1. <<>> \in Good
  <2>1. Collect(<<>>, S) = <<>>
    BY CollectEmpty
  <2>2. <<>> \in Seq(T)
    OBVIOUS
  <2> QED
    BY <2>1, <2>2
<1>2. ASSUME NEW s \in Seq(T), NEW e \in T, s \in Good PROVE Append(s, e) \in Good
  <2>1. /\ DOMAIN Append(s, e) = 1 .. Len(s) + 1 /\ DOMAIN s = 1 .. Len(s)
        /\ Len(s) \in Nat /\ Append(s, e)[Len(s) + 1] = e
        /\ \A i \in 1 .. Len(s) : Append(s, e)[i] = s[i]
        /\ Append(s, e) \in Seq(T)
    OBVIOUS
  <2> SUFFICES ASSUME \A i \in DOMAIN Append(s, e) : Append(s, e)[i] \in S
               PROVE  Collect(Append(s, e), S) = Append(s, e)
    BY <2>1
  <2>2. e \in S /\ \A i \in DOMAIN s : s[i] \in S
    BY <2>1
  <2>3. Collect(s, S) = s
    BY <1>2, <2>2
  <2>4. Collect(Append(s, e), S) = Append(Collect(s, S), e)
    BY <2>2, CollectAppend
  <2> QED
    BY <2>3, <2>4
<1> HIDE DEF Good
<1>3. \A s \in Seq(T) : s \in Good
  BY <1>1, <1>2, SeqInduction
<1> QED
  BY <1>3 DEF Good

LEMMA CollectNone ==
  ASSUME NEW T, NEW S
  PROVE  \A s \in Seq(T) : (\A i \in DOMAIN s : s[i] \notin S) => Collect(s, S) = <<>>
<1> DEFINE Good == {s \in Seq(T) : (\A i \in DOMAIN s : s[i] \notin S) => Collect(s, S) = <<>>}
<1>1. <<>> \in Good
  <2>1. Collect(<<>>, S) = <<>>
    BY CollectEmpty
  <2>2. <<>> \in Seq(T)
    OBVIOUS
  <2> QED
    BY <2>1, <2>2
<1>2. ASSUME NEW s \in Seq(T), NEW e \in T, s \in Good PROVE Append(s, e) \in Good
  <2>1. /\ DOMAIN Append(s, e) = 1 .. Len(s) + 1 /\ DOMAIN s = 1 .. Len(s)
        /\ Len(s) \in Nat /\ Append(s, e)[Len(s) + 1] = e
        /\ \A i \in 1 .. Len(s) : Append(s, e)[i] = s[i]
        /\ Append(s, e) \in Seq(T)
    OBVIOUS
  <2> SUFFICES ASSUME \A i \in DOMAIN Append(s, e) : Append(s, e)[i] \notin S
               PROVE  Collect(Append(s, e), S) = <<>>
    BY <2>1
  <2>2. e \notin S /\ \A i \in DOMAIN s : s[i] \notin S
    BY <2>1
  <2>3. Collect(s, S) = <<>>
    BY <1>2, <2>2
  <2>4. Collect(Append(s, e), S) = Collect(s, S)
    BY <2>2, CollectAppend
  <2> QED
    BY <2>3, <2>4
<1> HIDE DEF Good
<1>3. \A s \in Seq(T) : s \in Good
  BY <1>1, <1>2, SeqInduction
<1> QED
  BY <1>3 DEF Good

Members(s) == {s[i] : i \in DOMAIN s}

\* What is collected is what is in the sequence and in the set.
LEMMA CollectMembers ==
  ASSUME NEW T, NEW S
  PROVE  \A s \in Seq(T) : Members(Collect(s, S)) = Members(s) \cap S
<1> DEFINE Good == {s \in Seq(T) : Members(Collect(s, S)) = Members(s) \cap S}
<1>1. <<>> \in Good
  <2>1. Collect(<<>>, S) = <<>>
    BY CollectEmpty
  <2>2. <<>> \in Seq(T) /\ DOMAIN <<>> = {}
    OBVIOUS
  <2>3. Members(<<>>) = {}
    BY <2>2, Zenon DEF Members
  <2> QED
    BY <2>1, <2>2, <2>3
<1>2. ASSUME NEW s \in Seq(T), NEW e \in T, s \in Good PROVE Append(s, e) \in Good
  <2>1. \A r \in Seq(T) : Append(r, e) \in Seq(T) /\ Members(Append(r, e)) = Members(r) \cup {e}
    <3> TAKE r \in Seq(T)
    <3>1. /\ DOMAIN Append(r, e) = 1 .. Len(r) + 1 /\ DOMAIN r = 1 .. Len(r)
          /\ Len(r) \in Nat /\ Append(r, e)[Len(r) + 1] = e
          /\ \A i \in 1 .. Len(r) : Append(r, e)[i] = r[i]
          /\ Append(r, e) \in Seq(T)
      OBVIOUS
    <3> QED
      BY <3>1 DEF Members
  <2>2. Collect(s, S) \in Seq(T)
    BY CollectType
  <2>3. Members(Collect(s, S)) = Members(s) \cap S
    BY <1>2
  <2>4. Collect(Append(s, e), S) = IF e \in S THEN Append(Collect(s, S), e) ELSE Collect(s, S)
    BY CollectAppend
  <2>5. Members(Collect(Append(s, e), S)) = Members(Append(s, e)) \cap S
    <3>1. CASE e \in S
      BY <2>1, <2>2, <2>3, <2>4, <3>1
    <3>2. CASE e \notin S
      BY <2>1, <2>3, <2>4, <3>2
    <3> QED
      BY <3>1, <3>2
  <2> QED
    BY <2>1, <2>5
<1> HIDE DEF Good
<1>3. \A s \in Seq(T) : s \in Good
  BY <1>1, <1>2, SeqInduction
<1> QED
  BY <1>3 DEF Good
=============================================================================
