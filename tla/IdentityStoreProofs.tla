------------------------ MODULE IdentityStoreProofs ------------------------
(***************************************************************************)
(* Proofs about IdentityStore, for any threads, files, numbers and marks,  *)
(* whatever fails and however often the process dies.  It moves the        *)
(* database only by steps of IdentityDatabase, so what is proved of the    *)
(* one holds of the other.                                                 *)
(***************************************************************************)
EXTENDS IdentityStore, SequenceTheorems, FiniteSetTheorems, WellFoundedInduction, TLAPS

-----------------------------------------------------------------------------
(* Induction over numbers and sequences, with a set T in place of a        *)
(* predicate: a set of numbers that is not empty has a least element.      *)

LEMMA Induct ==
  ASSUME NEW T, 0 \in T, \A n \in Nat : n \in T => n + 1 \in T
  PROVE  \A n \in Nat : n \in T
<1> DEFINE R == {p \in Nat \X Nat : p[1] < p[2]}
           Out == Nat \ T
<1> SUFFICES ASSUME Out # {} PROVE FALSE
  OBVIOUS
<1>1. IsWellFoundedOn(R, Nat)
  BY NatLessThanWellFounded DEF OpToRel
<1>2. \E x \in Out : \A y \in Out : ~(<<y, x>> \in R)
  <2>1. Out \subseteq Nat
    OBVIOUS
  <2> HIDE DEF R, Out
  <2> QED
    BY <1>1, <2>1, WFMin
<1>3. PICK x \in Out : \A y \in Out : ~(y < x)
  BY <1>2
<1>4. x # 0 /\ x - 1 \in Nat
  OBVIOUS
<1>5. x - 1 \in T
  BY <1>3, <1>4
<1> QED
  BY <1>4, <1>5

LEMMA SeqInduct ==
  ASSUME NEW R, NEW T, << >> \in T,
         \A s \in Seq(R), e \in R : s \in T => Append(s, e) \in T
  PROVE  \A s \in Seq(R) : s \in T
<1> DEFINE N == {n \in Nat : \A s \in Seq(R) : Len(s) = n => s \in T}
<1>1. 0 \in N
  BY EmptySeq
<1>2. ASSUME NEW n \in Nat, n \in N PROVE n + 1 \in N
  <2> SUFFICES ASSUME NEW s \in Seq(R), Len(s) = n + 1 PROVE s \in T
    OBVIOUS
  <2>1. s # << >>
    OBVIOUS
  <2>2. PICK r \in Seq(R), e \in R : s = Append(r, e)
    BY <2>1, SequenceEmptyOrAppend
  <2>3. Len(r) = n
    BY <2>2
  <2> QED
    BY <1>2, <2>2, <2>3
<1>3. \A n \in Nat : n \in N
  <2> HIDE DEF N
  <2> QED
    BY <1>1, <1>2, Induct
<1> QED
  BY <1>3

-----------------------------------------------------------------------------
(* What Keep keeps. *)

\* g computes Keep(s, S) up to the n-th element.
IsKept(g, s, S, n) ==
  g = [m \in 0..n |-> IF m = 0 THEN << >>
                      ELSE IF s[m] \in S THEN Append(g[m - 1], s[m]) ELSE g[m - 1]]

LEMMA KeptExists ==
  ASSUME NEW s, NEW S
  PROVE  \A n \in Nat : \E g : IsKept(g, s, S, n)
<1> DEFINE N == {n \in Nat : \E g : IsKept(g, s, S, n)}
<1>1. 0 \in N
  <2>1. IsKept([m \in 0..0 |-> << >>], s, S, 0)
    BY DEF IsKept
  <2> QED
    BY <2>1
<1>2. ASSUME NEW n \in Nat, n \in N PROVE n + 1 \in N
  <2>1. PICK g : IsKept(g, s, S, n)
    BY <1>2
  <2> DEFINE h == [m \in 0..(n + 1) |->
                      IF m # n + 1 THEN g[m]
                      ELSE IF s[m] \in S THEN Append(g[m - 1], s[m]) ELSE g[m - 1]]
  <2>2. \A m \in 0..n : g[m] = IF m = 0 THEN << >>
                               ELSE IF s[m] \in S THEN Append(g[m - 1], s[m]) ELSE g[m - 1]
    BY <2>1 DEF IsKept
  <2>3. \A m \in 0..n : h[m] = g[m]
    OBVIOUS
  <2>4. h[n + 1] = IF s[n + 1] \in S THEN Append(h[n], s[n + 1]) ELSE h[n]
    BY <2>3
  <2>5. \A m \in 0..(n + 1) : h[m] = IF m = 0 THEN << >>
                               ELSE IF s[m] \in S THEN Append(h[m - 1], s[m]) ELSE h[m - 1]
    <3> HIDE DEF h
    <3> SUFFICES ASSUME NEW m \in 0..(n + 1)
                 PROVE  h[m] = IF m = 0 THEN << >>
                               ELSE IF s[m] \in S THEN Append(h[m - 1], s[m]) ELSE h[m - 1]
      OBVIOUS
    <3>1. CASE m = n + 1
      BY <2>4, <3>1
    <3>2. CASE m # n + 1
      <4>1. m \in 0..n /\ (m # 0 => m - 1 \in 0..n)
        BY <3>2
      <4> QED
        BY <2>2, <2>3, <4>1
    <3> QED
      BY <3>1, <3>2
  <2>6. h = [m \in 0..(n + 1) |-> h[m]]
    OBVIOUS
  <2>7. IsKept(h, s, S, n + 1)
    <3> HIDE DEF h
    <3> QED
      BY <2>5, <2>6 DEF IsKept
  <2> QED
    BY <2>7
<1> HIDE DEF N
<1>3. \A n \in Nat : n \in N
  BY <1>1, <1>2, Induct
<1> QED
  BY <1>3 DEF N

LEMMA KeptUnique ==
  ASSUME NEW s, NEW t, NEW S, NEW k \in Nat, NEW l \in Nat, k <= l,
         \A i \in 1..k : s[i] = t[i],
         NEW g, NEW h, IsKept(g, s, S, k), IsKept(h, t, S, l)
  PROVE  g[k] = h[k]
<1> DEFINE N == {n \in Nat : n <= k => g[n] = h[n]}
<1>1. \A m \in 0..k : g[m] = IF m = 0 THEN << >>
                             ELSE IF s[m] \in S THEN Append(g[m - 1], s[m]) ELSE g[m - 1]
  BY DEF IsKept
<1>2. \A m \in 0..l : h[m] = IF m = 0 THEN << >>
                             ELSE IF t[m] \in S THEN Append(h[m - 1], t[m]) ELSE h[m - 1]
  BY DEF IsKept
<1>3. 0 \in N
  BY <1>1, <1>2
<1>4. ASSUME NEW n \in Nat, n \in N PROVE n + 1 \in N
  <2> SUFFICES ASSUME n + 1 <= k PROVE g[n + 1] = h[n + 1]
    OBVIOUS
  <2>1. g[n] = h[n] /\ s[n + 1] = t[n + 1] /\ n + 1 \in 0..k /\ n + 1 \in 0..l /\ n + 1 # 0 /\ (n + 1) - 1 = n
    BY <1>4
  <2> QED
    BY <1>1, <1>2, <2>1
<1> HIDE DEF N
<1>5. \A n \in Nat : n \in N
  BY <1>3, <1>4, Induct
<1> QED
  BY <1>5 DEF N

LEMMA KeepIsKept ==
  ASSUME NEW s, Len(s) \in Nat, NEW S
  PROVE  \E g : IsKept(g, s, S, Len(s)) /\ Keep(s, S) = g[Len(s)]
<1> DEFINE kept == CHOOSE g : g = [m \in 0..Len(s) |->
                      IF m = 0 THEN << >>
                      ELSE IF s[m] \in S THEN Append(g[m - 1], s[m]) ELSE g[m - 1]]
<1>1. PICK g : IsKept(g, s, S, Len(s))
  BY KeptExists
<1>3. IsKept(kept, s, S, Len(s))
  BY <1>1, Zenon DEF IsKept
<1>2. Keep(s, S) = kept[Len(s)]
  BY DEF Keep
<1> QED
  BY <1>2, <1>3

LEMMA KeepEmpty == \A S : Keep(<< >>, S) = << >>
<1> TAKE S
<1>1. PICK g : IsKept(g, << >>, S, 0) /\ Keep(<< >>, S) = g[0]
  BY KeepIsKept
<1> QED
  BY <1>1 DEF IsKept

LEMMA KeepAppend ==
  ASSUME NEW R, NEW s \in Seq(R), NEW e \in R, NEW S
  PROVE  Keep(Append(s, e), S) = IF e \in S THEN Append(Keep(s, S), e) ELSE Keep(s, S)
<1> DEFINE t == Append(s, e)
           n == Len(s)
<1>1. n \in Nat /\ Len(t) = n + 1 /\ t[n + 1] = e /\ \A i \in 1..n : s[i] = t[i]
  OBVIOUS
<1>2. PICK g : IsKept(g, s, S, n) /\ Keep(s, S) = g[n]
  BY <1>1, KeepIsKept
<1> HIDE DEF t
<1>3. PICK h : IsKept(h, t, S, n + 1) /\ Keep(t, S) = h[n + 1]
  <2>1. Len(t) \in Nat
    BY <1>1
  <2> QED
    BY <1>1, <2>1, KeepIsKept
<1>4. g[n] = h[n]
  <2> HIDE DEF n
  <2> QED
    BY <1>1, <1>2, <1>3, KeptUnique
<1>5. h[n + 1] = IF t[n + 1] \in S THEN Append(h[n], t[n + 1]) ELSE h[n]
  <2> HIDE DEF n
  <2>1. \A m \in 0..(n + 1) : h[m] = IF m = 0 THEN << >>
                             ELSE IF t[m] \in S THEN Append(h[m - 1], t[m]) ELSE h[m - 1]
    BY <1>3 DEF IsKept
  <2>2. n + 1 \in 0..(n + 1) /\ n + 1 # 0 /\ (n + 1) - 1 = n
    BY <1>1
  <2> QED
    BY <2>1, <2>2
<1> QED
  BY <1>1, <1>2, <1>3, <1>4, <1>5 DEF t

LEMMA KeepType ==
  ASSUME NEW R, NEW S
  PROVE  \A s \in Seq(R) : Keep(s, S) \in Seq(R) /\ Len(Keep(s, S)) <= Len(s)
<1> DEFINE T == {s \in Seq(R) : Keep(s, S) \in Seq(R) /\ Len(Keep(s, S)) <= Len(s)}
<1>1. << >> \in T
  <2>1. Keep(<< >>, S) = << >> /\ << >> \in Seq(R) /\ Len(<< >>) <= Len(<< >>)
    BY KeepEmpty
  <2> QED
    BY <2>1
<1>2. ASSUME NEW s \in Seq(R), NEW e \in R, s \in T PROVE Append(s, e) \in T
  <2>1. Keep(s, S) \in Seq(R) /\ Len(Keep(s, S)) <= Len(s)
    BY <1>2
  <2>2. Keep(Append(s, e), S) = IF e \in S THEN Append(Keep(s, S), e) ELSE Keep(s, S)
    BY KeepAppend
  <2> QED
    BY <2>1, <2>2
<1> HIDE DEF T
<1>3. \A s \in Seq(R) : s \in T
  BY <1>1, <1>2, SeqInduct
<1> QED
  BY <1>3 DEF T

LEMMA RangeAppend ==
  ASSUME NEW R, NEW s \in Seq(R), NEW e \in R
  PROVE  Range(Append(s, e)) = Range(s) \cup {e}
<1>1. /\ DOMAIN s = 1..Len(s) /\ DOMAIN Append(s, e) = 1..(Len(s) + 1) /\ Len(s) \in Nat
      /\ \A i \in 1..Len(s) : Append(s, e)[i] = s[i]
      /\ Append(s, e)[Len(s) + 1] = e
  OBVIOUS
<1>2. Range(Append(s, e)) \subseteq Range(s) \cup {e}
  BY <1>1 DEF Range
<1>3. Range(s) \subseteq Range(Append(s, e))
  BY <1>1 DEF Range
<1>4. e \in Range(Append(s, e))
  BY <1>1 DEF Range
<1> QED
  BY <1>2, <1>3, <1>4

LEMMA KeepRange ==
  ASSUME NEW R, NEW S
  PROVE  \A s \in Seq(R) : Range(Keep(s, S)) = Range(s) \cap S
<1> DEFINE T == {s \in Seq(R) : Range(Keep(s, S)) = Range(s) \cap S}
<1>1. << >> \in T
  BY KeepEmpty DEF Range
<1>2. ASSUME NEW s \in Seq(R), NEW e \in R, s \in T PROVE Append(s, e) \in T
  <2>1. Range(Keep(s, S)) = Range(s) \cap S /\ Keep(s, S) \in Seq(R)
    BY <1>2, KeepType
  <2>2. Range(Append(s, e)) = Range(s) \cup {e} /\ Range(Append(Keep(s, S), e)) = Range(Keep(s, S)) \cup {e}
    BY <2>1, RangeAppend
  <2>3. Keep(Append(s, e), S) = IF e \in S THEN Append(Keep(s, S), e) ELSE Keep(s, S)
    BY KeepAppend
  <2>4. Range(Keep(Append(s, e), S)) = Range(Append(s, e)) \cap S
    BY <2>1, <2>2, <2>3
  <2> QED
    BY <2>4
<1> HIDE DEF T
<1>3. \A s \in Seq(R) : s \in T
  BY <1>1, <1>2, SeqInduct
<1> QED
  BY <1>3 DEF T

LEMMA KeepSame ==
  ASSUME NEW R, NEW A, NEW B
  PROVE  \A s \in Seq(R) : Range(s) \cap A = Range(s) \cap B => Keep(s, A) = Keep(s, B)
<1> DEFINE T == {s \in Seq(R) : Range(s) \cap A = Range(s) \cap B => Keep(s, A) = Keep(s, B)}
<1>1. << >> \in T
  BY KeepEmpty
<1>2. ASSUME NEW s \in Seq(R), NEW e \in R, s \in T PROVE Append(s, e) \in T
  <2>1. SUFFICES ASSUME Range(Append(s, e)) \cap A = Range(Append(s, e)) \cap B
                 PROVE  Keep(Append(s, e), A) = Keep(Append(s, e), B)
    BY DEF T
  <2>2. (e \in A) = (e \in B) /\ Range(s) \cap A = Range(s) \cap B
    BY <2>1, RangeAppend
  <2>3. Keep(s, A) = Keep(s, B)
    BY <1>2, <2>2
  <2>4. /\ Keep(Append(s, e), A) = IF e \in A THEN Append(Keep(s, A), e) ELSE Keep(s, A)
        /\ Keep(Append(s, e), B) = IF e \in B THEN Append(Keep(s, B), e) ELSE Keep(s, B)
    BY KeepAppend
  <2> QED
    BY <2>2, <2>3, <2>4
<1> HIDE DEF T
<1>3. \A s \in Seq(R) : s \in T
  BY <1>1, <1>2, SeqInduct
<1> QED
  BY <1>3 DEF T

LEMMA KeepTwice ==
  ASSUME NEW R, NEW A, NEW B
  PROVE  \A s \in Seq(R) : Keep(Keep(s, A), B) = Keep(s, A \cap B)
<1> DEFINE T == {s \in Seq(R) : Keep(Keep(s, A), B) = Keep(s, A \cap B)}
<1>1. << >> \in T
  BY KeepEmpty
<1>2. ASSUME NEW s \in Seq(R), NEW e \in R, s \in T PROVE Append(s, e) \in T
  <2>1. Keep(Keep(s, A), B) = Keep(s, A \cap B) /\ Keep(s, A) \in Seq(R)
    BY <1>2, KeepType
  <2>2. /\ Keep(Append(s, e), A) = IF e \in A THEN Append(Keep(s, A), e) ELSE Keep(s, A)
        /\ Keep(Append(s, e), A \cap B) =
               IF e \in A \cap B THEN Append(Keep(s, A \cap B), e) ELSE Keep(s, A \cap B)
    BY KeepAppend
  <2>3. Keep(Append(Keep(s, A), e), B) =
            IF e \in B THEN Append(Keep(Keep(s, A), B), e) ELSE Keep(Keep(s, A), B)
    BY <2>1, KeepAppend
  <2>4. Keep(Keep(Append(s, e), A), B) = Keep(Append(s, e), A \cap B)
    <3>1. CASE e \in A
      <4>1. Keep(Keep(Append(s, e), A), B) = Keep(Append(Keep(s, A), e), B)
        BY <2>2, <3>1
      <4>2. (e \in A \cap B) = (e \in B)
        BY <3>1
      <4> QED
        BY <2>1, <2>2, <2>3, <4>1, <4>2
    <3>2. CASE e \notin A
      BY <2>1, <2>2, <3>2
    <3> QED
      BY <3>1, <3>2
  <2> QED
    BY <2>4
<1> HIDE DEF T
<1>3. \A s \in Seq(R) : s \in T
  BY <1>1, <1>2, SeqInduct
<1> QED
  BY <1>3 DEF T

LEMMA KeepFirst ==
  ASSUME NEW R, NEW S
  PROVE  \A s \in Seq(R) :
            \/ Keep(s, S) = << >> /\ \A i \in 1..Len(s) : s[i] \notin S
            \/ /\ Keep(s, S) # << >>
               /\ \E i \in 1..Len(s) : /\ s[i] \in S /\ Head(Keep(s, S)) = s[i]
                                       /\ \A j \in 1..(i - 1) : s[j] \notin S
<1> DEFINE None(s) == Keep(s, S) = << >> /\ \A i \in 1..Len(s) : s[i] \notin S
           Some(s) == /\ Keep(s, S) # << >>
                      /\ \E i \in 1..Len(s) : /\ s[i] \in S /\ Head(Keep(s, S)) = s[i]
                                              /\ \A j \in 1..(i - 1) : s[j] \notin S
           T == {s \in Seq(R) : None(s) \/ Some(s)}
<1>1. << >> \in T
  <2>1. Keep(<< >>, S) = << >> /\ << >> \in Seq(R) /\ 1..Len(<< >>) = {}
    BY KeepEmpty
  <2> QED
    BY <2>1
<1>2. ASSUME NEW s \in Seq(R), NEW e \in R, s \in T PROVE Append(s, e) \in T
  <2>1. /\ Keep(Append(s, e), S) = IF e \in S THEN Append(Keep(s, S), e) ELSE Keep(s, S)
        /\ Keep(s, S) \in Seq(R)
    BY KeepAppend, KeepType
  <2>2. /\ Len(s) \in Nat /\ Len(Append(s, e)) = Len(s) + 1 /\ Append(s, e)[Len(s) + 1] = e
        /\ \A i \in 1..Len(s) : Append(s, e)[i] = s[i]
    OBVIOUS
  <2> HIDE DEF None, Some
  <2>3. ASSUME e \notin S, None(s) PROVE None(Append(s, e))
    BY <2>1, <2>2, <2>3 DEF None
  <2>4. ASSUME e \in S, None(s) PROVE Some(Append(s, e))
    <3>1. Keep(Append(s, e), S) = <<e>>
      BY <2>1, <2>4 DEF None
    <3>2. \A j \in 1..((Len(s) + 1) - 1) : Append(s, e)[j] \notin S
      BY <2>2, <2>4 DEF None
    <3>3. Len(s) + 1 \in 1..Len(Append(s, e)) /\ Append(s, e)[Len(s) + 1] \in S
          /\ Head(Keep(Append(s, e), S)) = Append(s, e)[Len(s) + 1]
      BY <2>2, <2>4, <3>1
    <3> QED
      BY <3>1, <3>2, <3>3 DEF Some
  <2>5. ASSUME Some(s) PROVE Some(Append(s, e))
    <3>1. PICK i \in 1..Len(s) : /\ s[i] \in S /\ Head(Keep(s, S)) = s[i]
                                 /\ \A j \in 1..(i - 1) : s[j] \notin S
      BY <2>5 DEF Some
    <3>2. /\ Keep(Append(s, e), S) # << >>
          /\ Head(Keep(Append(s, e), S)) = Head(Keep(s, S))
      BY <2>1, <2>5 DEF Some
    <3>3. /\ i \in 1..Len(Append(s, e)) /\ Append(s, e)[i] = s[i]
          /\ \A j \in 1..(i - 1) : Append(s, e)[j] = s[j]
      BY <2>2
    <3> QED
      BY <3>1, <3>2, <3>3 DEF Some
  <2> QED
    BY <1>2, <2>3, <2>4, <2>5
<1> HIDE DEF T
<1>3. \A s \in Seq(R) : s \in T
  BY <1>1, <1>2, SeqInduct
<1> QED
  BY <1>3 DEF T

LEMMA KeepAll ==
  ASSUME NEW R, NEW S
  PROVE  \A s \in Seq(R) : Range(s) \subseteq S => Keep(s, S) = s
<1> DEFINE T == {s \in Seq(R) : Range(s) \subseteq S => Keep(s, S) = s}
<1>1. << >> \in T
  <2>1. Keep(<< >>, S) = << >> /\ << >> \in Seq(R)
    BY KeepEmpty
  <2> QED
    BY <2>1
<1>2. ASSUME NEW s \in Seq(R), NEW e \in R, s \in T PROVE Append(s, e) \in T
  <2>1. /\ Keep(Append(s, e), S) = IF e \in S THEN Append(Keep(s, S), e) ELSE Keep(s, S)
        /\ Range(Append(s, e)) = Range(s) \cup {e}
    BY KeepAppend, RangeAppend
  <2>2. Range(Append(s, e)) \subseteq S => Keep(Append(s, e), S) = Append(s, e)
    BY <1>2, <2>1
  <2> QED
    BY <2>2
<1> HIDE DEF T
<1>3. \A s \in Seq(R) : s \in T
  BY <1>1, <1>2, SeqInduct
<1> QED
  BY <1>3 DEF T

LEMMA KeepConcat ==
  ASSUME NEW R, NEW S, NEW s \in Seq(R)
  PROVE  \A t \in Seq(R) : Keep(s \o t, S) = Keep(s, S) \o Keep(t, S)
<1> DEFINE T == {t \in Seq(R) : Keep(s \o t, S) = Keep(s, S) \o Keep(t, S)}
<1>1. << >> \in T
  <2>1. s \o << >> = s /\ Keep(s, S) \o << >> = Keep(s, S)
    BY KeepType
  <2> QED
    <3>1. Keep(s \o << >>, S) = Keep(s, S) /\ Keep(<< >>, S) = << >> /\ << >> \in Seq(R)
      BY <2>1, KeepEmpty
    <3>2. Keep(s \o << >>, S) = Keep(s, S) \o Keep(<< >>, S)
      BY <2>1, <3>1
    <3> QED
      BY <3>1, <3>2
<1>2. ASSUME NEW t \in Seq(R), NEW e \in R, t \in T PROVE Append(t, e) \in T
  <2>1. Keep(s, S) \in Seq(R) /\ Keep(t, S) \in Seq(R) /\ s \o t \in Seq(R)
    BY KeepType
  <2>2. s \o Append(t, e) = Append(s \o t, e)
    OBVIOUS
  <2>3. Keep(s, S) \o Append(Keep(t, S), e) = Append(Keep(s, S) \o Keep(t, S), e)
    BY <2>1
  <2>4. /\ Keep(Append(s \o t, e), S) = IF e \in S THEN Append(Keep(s \o t, S), e) ELSE Keep(s \o t, S)
        /\ Keep(Append(t, e), S) = IF e \in S THEN Append(Keep(t, S), e) ELSE Keep(t, S)
    BY <2>1, KeepAppend
  <2>5. Keep(s \o Append(t, e), S) = Keep(s, S) \o Keep(Append(t, e), S)
    BY <1>2, <2>2, <2>3, <2>4
  <2> QED
    BY <2>5
<1> HIDE DEF T
<1>3. \A t \in Seq(R) : t \in T
  BY <1>1, <1>2, SeqInduct
<1> QED
  BY <1>3 DEF T

-----------------------------------------------------------------------------
(* The database by itself. *)

\* The order of strings is one: no two of them are before each other, and none before itself.
LEMMA BeforeAsymmetric ==
  ASSUME NEW a \in Seq(Nat), NEW b \in Seq(Nat), Before(a, b)
  PROVE  ~Before(b, a)
<1> SUFFICES ASSUME Before(b, a) PROVE FALSE
  OBVIOUS
<1>1. PICK n \in 0..Len(a) :
        n < Len(b) /\ (\A i \in 1..n : a[i] = b[i]) /\ (n = Len(a) \/ a[n + 1] < b[n + 1])
  BY DEF Before
<1>2. PICK m \in 0..Len(b) :
        m < Len(a) /\ (\A i \in 1..m : b[i] = a[i]) /\ (m = Len(b) \/ b[m + 1] < a[m + 1])
  BY DEF Before
<1>4. CASE n = m
  BY <1>1, <1>2, <1>4
<1>5. CASE n < m
  BY <1>1, <1>2, <1>5
<1>6. CASE m < n
  BY <1>1, <1>2, <1>6
<1> QED
  BY <1>4, <1>5, <1>6

LEMMA BeforeIrreflexive ==
  ASSUME NEW a \in Seq(Nat)
  PROVE  ~Before(a, a)
  BY BeforeAsymmetric

LEMMA Constants ==
  /\ AnyFile \in Files
  /\ NoJob \in Jobs /\ Reading \in Jobs
  /\ NoTxn \in [holder : Threads \cup {Nobody}, version : Versions, phones : Contents,
                blind : BOOLEAN]
  /\ Versions \subseteq Seq(Nat) /\ NoVersion \in Versions /\ NoPages \in Contents
  /\ \A f \in Files : f.version \in Versions /\ Pages(f) \in Contents
<1>1. AnyFile \in Files
  BY DatabaseAssumption DEF AnyFile
<1>2. Versions \subseteq Seq(Nat) /\ NoVersion \in Versions /\ NoPages \in Contents
  <2>1. NoVersion \in Seq(Nat)
    BY DEF NoVersion
  <2>2. \A f \in Files : f.version \in Seq(Nat)
    BY DatabaseAssumption
  <2> QED
    BY <2>1, <2>2 DEF Versions, Contents
<1>3. \A f \in Files : f.version \in Versions /\ Pages(f) \in Contents
  BY DEF Versions, Contents
<1> QED
  BY <1>1, <1>2, <1>3 DEF Jobs, NoTxn

-----------------------------------------------------------------------------
(* Type correctness. *)

LEMMA InitType == DatabaseInit => DatabaseTypeOK
<1> SUFFICES ASSUME DatabaseInit PROVE DatabaseTypeOK
  OBVIOUS
<1> DEFINE Disks == [user : 0..2, made : 0..6, columns : SUBSET Columns,
                     version : Versions, phones : Contents]
<1>1. Fresh \in Disks /\ Old \in Disks
  BY Constants DEF Fresh, Old
<1>2. \A f \in Bundled : [Old EXCEPT !.version = f.version, !.phones = Pages(f)] \in Disks
  BY <1>1, Constants, DatabaseAssumption
<1>3. disk \in Disks
  BY <1>1, <1>2 DEF DatabaseInit
<1>4. /\ pc \in [Threads -> Labels]
      /\ job \in [Threads -> Jobs] /\ file \in [Threads -> Files]
  BY Constants DEF DatabaseInit, Labels
<1>5. crashes \in 0..MaxCrashes
  <2>1. crashes = 0 /\ MaxCrashes \in Nat
    BY Zenon, DatabaseAssumption DEF DatabaseInit
  <2> QED
    BY <2>1
<1>6. txn \in [holder : Threads \cup {Nobody}, version : Versions, phones : Contents,
               blind : BOOLEAN]
  BY Constants DEF DatabaseInit
<1>7. instance \in BOOLEAN
  BY Zenon DEF DatabaseInit
<1>8. mutex \in Threads \cup {Nobody}
  BY DEF DatabaseInit
<1> QED
  BY <1>3, <1>4, <1>5, <1>6, <1>7, <1>8 DEF DatabaseTypeOK

LEMMA DieType ==
  ASSUME DatabaseTypeOK, Die, crashes' \in 0..MaxCrashes
  PROVE  DatabaseTypeOK'
<1>1. instance' \in BOOLEAN
  BY Zenon DEF Die
<1>2. pc' \in [Threads -> Labels] /\ job' \in [Threads -> Jobs] /\ file' \in [Threads -> Files]
  BY Constants DEF Die, Labels
<1>3. txn' \in [holder : Threads \cup {Nobody}, version : Versions, phones : Contents,
                blind : BOOLEAN]
  BY Constants DEF Die
<1>4. mutex' \in Threads \cup {Nobody} /\ disk' = disk
  BY DEF Die
<1> QED
  BY <1>1, <1>2, <1>3, <1>4 DEF DatabaseTypeOK

\* What the operators that a step is made of leave well typed.
LEMMA MoveType ==
  ASSUME DatabaseTypeOK, NEW t \in Threads
  PROVE  /\ \A label \in Labels : GoTo(t, label) => pc' \in [Threads -> Labels]
         /\ Finish(t) \/ Go(t) \/ Imported(t) =>
                /\ pc' \in [Threads -> Labels]
                /\ job' \in [Threads -> Jobs]
                /\ file' \in [Threads -> Files]
<1>1. \A label \in Labels : GoTo(t, label) => pc' \in [Threads -> Labels]
  BY DEF GoTo, DatabaseTypeOK
<1>3. Finish(t) => pc' \in [Threads -> Labels] /\ job' \in [Threads -> Jobs] /\ file' \in [Threads -> Files]
  BY <1>1, Constants DEF Finish, DatabaseTypeOK, Labels
<1>4. job[t].kind \notin {"none", "read"} => job[t].file \in Files
  BY DEF DatabaseTypeOK, Jobs, NoJob, Reading, Importing
<1>5. job[t].file \in Files
  BY <1>4, Constants DEF DatabaseTypeOK, Jobs, NoJob, Reading, Importing
<1>6. Go(t) => pc' \in [Threads -> Labels] /\ job' \in [Threads -> Jobs] /\ file' \in [Threads -> Files]
  BY <1>1, <1>3, <1>5 DEF Go, Import, DatabaseTypeOK, Labels
<1>7. Imported(t) => pc' \in [Threads -> Labels] /\ job' \in [Threads -> Jobs] /\ file' \in [Threads -> Files]
  <2>1. ASSUME GoTo(t, "stamp"), file' = [file EXCEPT ![t] = AnyFile], UNCHANGED job
        PROVE  pc' \in [Threads -> Labels] /\ job' \in [Threads -> Jobs] /\ file' \in [Threads -> Files]
    <3>1. "stamp" \in Labels
      BY DEF Labels
    <3>2. file \in [Threads -> Files] /\ job \in [Threads -> Jobs] /\ AnyFile \in Files
      BY Constants DEF DatabaseTypeOK
    <3>3. pc' \in [Threads -> Labels]
      BY <1>1, <2>1, <3>1
    <3> QED
      BY <2>1, <3>2, <3>3
  <2> QED
    BY <1>3, <2>1 DEF Imported
<1> QED
  BY <1>1, <1>3, <1>6, <1>7

LEMMA CreateFailsType ==
  ASSUME DatabaseTypeOK, NEW t \in Threads, CreateFails(t)
  PROVE  DatabaseTypeOK'
<1>1. CASE job[t].kind = "import"
  BY <1>1, DieType DEF CreateFails, DatabaseTypeOK
<1>2. CASE job[t].kind # "import"
  BY <1>2, MoveType DEF CreateFails, DatabaseTypeOK, Labels
<1> QED
  BY <1>1, <1>2

LEMMA AddColumnType ==
  ASSUME DatabaseTypeOK, NEW t \in Threads, NEW column \in Columns, NEW next \in Labels,
         AddColumn(t, column, next)
  PROVE  DatabaseTypeOK'
<1>1. CASE column \in disk.columns
  BY <1>1, CreateFailsType DEF AddColumn
<1>2. CASE column \notin disk.columns
  BY <1>2, MoveType DEF AddColumn, DatabaseTypeOK
<1> QED
  BY <1>1, <1>2

LEMMA StepType ==
  ASSUME DatabaseTypeOK, NEW t \in Threads, DatabaseStep(t)
  PROVE  DatabaseTypeOK'
<1>1. CASE GetInstance(t)
  BY <1>1, MoveType DEF GetInstance, DatabaseTypeOK, Labels
<1>2. CASE OpenFails(t)
  BY <1>2, CreateFailsType DEF OpenFails
<1>3. CASE CreateTable(t)
  <2>1. disk.made + 1 \in 0..6
    BY <1>3 DEF CreateTable, DatabaseTypeOK
  <2> QED
    BY <1>3, <2>1 DEF CreateTable, threadVars, DatabaseTypeOK
<1>4. CASE OnCreate(t)
  <2>1. PICK f \in Bundled : IF Parses(f) THEN Import(t, f)
                             ELSE GoTo(t, "stamp") /\ UNCHANGED <<job, file>>
    BY <1>4 DEF OnCreate
  <2>2. f \in Files
    BY DatabaseAssumption
  <2> QED
    BY <1>4, <2>1, <2>2, MoveType DEF OnCreate, Import, DatabaseTypeOK, Labels
<1>5. CASE OnUpgrade(t)
  BY <1>5, AddColumnType DEF OnUpgrade, Columns, Labels
<1>6. CASE Opened(t)
  BY <1>6, MoveType DEF Opened, DatabaseTypeOK
<1>7. CASE BeginTransaction(t)
  <2>1. txn' \in [holder : Threads \cup {Nobody}, version : Versions, phones : Contents,
                  blind : BOOLEAN]
    <3>1. /\ disk.version \in Versions /\ disk.phones \in Contents
          /\ FALSE \in BOOLEAN /\ t \in Threads \cup {Nobody}
      BY DEF DatabaseTypeOK
    <3>2. [holder |-> t, version |-> disk.version, phones |-> disk.phones, blind |-> FALSE]
              \in [holder : Threads \cup {Nobody}, version : Versions, phones : Contents,
                   blind : BOOLEAN]
      BY <3>1
    <3> QED
      BY <1>7, <3>2, Zenon DEF BeginTransaction, DatabaseTypeOK
  <2>2. /\ pc' \in [Threads -> Labels] /\ job' \in [Threads -> Jobs]
        /\ file' \in [Threads -> Files]
    BY <1>7, MoveType DEF BeginTransaction, DatabaseTypeOK, Labels
  <2> QED
    BY <1>7, <2>1, <2>2 DEF BeginTransaction, DatabaseTypeOK
<1>8. CASE CheckVersion(t)
  BY <1>8, MoveType DEF CheckVersion, DatabaseTypeOK, Labels
<1>9. CASE PutProperty(t)
  <2>1. file[t].version \in Versions /\ NoVersion \in Versions
    BY Constants DEF DatabaseTypeOK
  <2> QED
    BY <1>9, <2>1, MoveType DEF PutProperty, DatabaseTypeOK, Labels
<1>10. CASE ImportYellowPageRecords(t)
  <2>1. Pages(file[t]) \in Contents
    BY Constants DEF DatabaseTypeOK
  <2> QED
    BY <1>10, <2>1, MoveType DEF ImportYellowPageRecords, DatabaseTypeOK, Labels
<1>11. CASE Commit(t)
  BY <1>11, MoveType, Constants DEF Commit, DatabaseTypeOK, Labels
<1>12. CASE RollBack(t)
  BY <1>12, MoveType, Constants DEF RollBack, DatabaseTypeOK
<1> QED
  BY <1>1, <1>2, <1>3, <1>4, <1>5, <1>6, <1>7, <1>8, <1>9, <1>10, <1>11, <1>12 DEF DatabaseStep

LEMMA NextType == DatabaseTypeOK /\ [DatabaseNext]_databaseVars => DatabaseTypeOK'
<1> SUFFICES ASSUME DatabaseTypeOK, [DatabaseNext]_databaseVars PROVE DatabaseTypeOK'
  OBVIOUS
<1>1. ASSUME NEW t \in Threads, NEW j \in Jobs, Call(t, j) PROVE DatabaseTypeOK'
  BY <1>1, MoveType DEF Call, DatabaseTypeOK, Labels
<1>2. ASSUME NEW t \in Threads, Release(t) PROVE DatabaseTypeOK'
  BY <1>2, MoveType DEF Release, DatabaseTypeOK
<1>3. CASE Crash
  <2>1. crashes' \in 0..MaxCrashes
    BY <1>3, DatabaseAssumption DEF Crash, DatabaseTypeOK
  <2> QED
    BY <1>3, <2>1, DieType DEF Crash
<1>4. CASE UNCHANGED databaseVars
  BY <1>4 DEF databaseVars, DatabaseTypeOK
<1> QED
  BY <1>1, <1>2, <1>3, <1>4, StepType DEF DatabaseNext

\* The database, the lock, the transaction and the threads are in the states named, whatever
\* fails or crashes.
THEOREM DatabaseTypeCorrect == DatabaseSpec => []DatabaseTypeOK
  BY InitType, NextType, PTL DEF DatabaseSpec

-----------------------------------------------------------------------------
(* The transactions. *)

\* A thread moves only itself, unless the process dies.
LEMMA OnlyOwn ==
  ASSUME DatabaseTypeOK, NEW t \in Threads,
         DatabaseStep(t) \/ Release(t) \/ \E j \in Jobs : Call(t, j)
  PROVE  Die \/ \A s \in Threads \ {t} : pc'[s] = pc[s] /\ file'[s] = file[s]
<1> DEFINE Same == \A s \in Threads \ {t} : pc'[s] = pc[s] /\ file'[s] = file[s]
<1>1. \A label : GoTo(t, label) => \A s \in Threads \ {t} : pc'[s] = pc[s]
  BY DEF GoTo, DatabaseTypeOK
<1>2. Finish(t) \/ Go(t) \/ Imported(t) \/ (\E f : Import(t, f)) => Same
  BY <1>1 DEF Finish, Go, Import, Imported, DatabaseTypeOK
<1>3. CreateFails(t) => Die \/ Same
  BY <1>1 DEF CreateFails
<1>4. \A column, next : AddColumn(t, column, next) => Die \/ Same
  BY <1>1, <1>3 DEF AddColumn
<1>5. GetInstance(t) \/ CreateTable(t) \/ OnCreate(t) \/ Opened(t) => Same
  BY <1>1, <1>2 DEF GetInstance, CreateTable, threadVars, OnCreate, Opened
<1>6. OpenFails(t) \/ OnUpgrade(t) => Die \/ Same
  BY <1>3, <1>4 DEF OpenFails, OnUpgrade
<1>7. BeginTransaction(t) \/ CheckVersion(t) \/ PutProperty(t) => Same
  BY <1>1, <1>2 DEF BeginTransaction, CheckVersion, PutProperty
<1>8. ImportYellowPageRecords(t) \/ Commit(t) \/ RollBack(t) => Same
  BY <1>1, <1>2 DEF ImportYellowPageRecords, Commit, RollBack
<1>9. Release(t) \/ (\E j \in Jobs : Call(t, j)) => Same
  BY <1>1, <1>2 DEF Release, Call
<1> QED
  BY <1>5, <1>6, <1>7, <1>8, <1>9 DEF DatabaseStep

\* A dead process is in no transaction and opens nothing.
LEMMA DeadInv ==
  ASSUME DatabaseTypeOK, TransactionInv, OpenInv, Die
  PROVE  TransactionInv' /\ OpenInv' /\ disk' = disk
<1>1. disk' = disk /\ ~instance' /\ mutex' = Nobody /\ \A s \in Threads : pc'[s] = "idle"
  BY DEF Die
<1>2. PagesMatchVersion' /\ Made'
  BY <1>1 DEF TransactionInv, PagesMatchVersion, OpenInv, Made, Complete
<1>3. \A s \in Threads : InOrder(s)' /\ Making(s)'
  BY <1>1 DEF InOrder, InTransaction, Making, InImport
<1> QED
  BY <1>1, <1>2, <1>3 DEF TransactionInv, OpenInv

\* Another thread stays in order if what is committed and the transaction stay, or if the
\* transaction was not its own.
LEMMA OtherInOrder ==
  ASSUME TransactionInv, NEW t \in Threads, NEW s \in Threads \ {t},
         pc'[s] = pc[s], file'[s] = file[s],
         \/ txn' = txn /\ disk'.version = disk.version /\ disk'.phones = disk.phones
         \/ txn.holder \in {t, Nobody}
  PROVE  InOrder(s)'
<1>1. InOrder(s)
  BY DEF TransactionInv
<1>2. CASE txn' = txn /\ disk'.version = disk.version /\ disk'.phones = disk.phones
  BY <1>1, <1>2 DEF InOrder, Match
<1>3. CASE txn.holder \in {t, Nobody}
  <2>1. pc[s] \notin InTransaction
    BY <1>1, <1>3, DatabaseAssumption DEF InOrder
  <2> QED
    BY <2>1 DEF InOrder, InTransaction
<1> QED
  BY <1>2, <1>3

\* Neither opening nor reading is in a transaction.
LEMMA QuietStep ==
  ASSUME DatabaseTypeOK, TransactionInv, NEW t \in Threads, ~Die,
         \/ GetInstance(t) \/ OpenFails(t) \/ CreateTable(t) \/ OnCreate(t) \/ OnUpgrade(t)
         \/ Opened(t) \/ Release(t) \/ \E j \in Jobs : Call(t, j)
  PROVE  /\ txn' = txn /\ disk'.version = disk.version /\ disk'.phones = disk.phones
         /\ pc'[t] \notin InTransaction
<1> USE DEF InTransaction, DatabaseTypeOK
<1>1. \A label : GoTo(t, label) => pc'[t] = label
  BY DEF GoTo
<1>2. /\ Go(t) => pc'[t] \in {"ready", "begin", "idle"}
      /\ Finish(t) => pc'[t] = "idle"
      /\ \A f : Import(t, f) => pc'[t] = "begin"
  BY <1>1 DEF Go, Import, Finish
<1>3. CASE GetInstance(t)
  BY <1>1, <1>2, <1>3 DEF GetInstance
<1>4. CreateFails(t) => txn' = txn /\ disk' = disk /\ pc'[t] = "null"
  BY <1>1 DEF CreateFails
<1>5. CASE OpenFails(t)
  BY <1>4, <1>5 DEF OpenFails
<1>6. CASE CreateTable(t)
  BY <1>6 DEF CreateTable, threadVars
<1>7. CASE OnCreate(t)
  BY <1>1, <1>2, <1>7 DEF OnCreate
<1>8. ASSUME NEW column, NEW next \in {"alter", "stamp"}, AddColumn(t, column, next)
      PROVE  /\ txn' = txn /\ disk'.version = disk.version /\ disk'.phones = disk.phones
             /\ pc'[t] \in {"alter", "stamp", "null"}
  BY <1>1, <1>4, <1>8 DEF AddColumn
<1>9. CASE OnUpgrade(t)
  BY <1>8, <1>9 DEF OnUpgrade
<1>10. CASE Opened(t)
  BY <1>2, <1>10 DEF Opened
<1>11. CASE Release(t)
  BY <1>2, <1>11 DEF Release
<1>12. CASE \E j \in Jobs : Call(t, j)
  BY <1>1, <1>12 DEF Call
<1> QED
  BY <1>3, <1>5, <1>6, <1>7, <1>9, <1>10, <1>11, <1>12

\* An import checks, writes and commits in order.
LEMMA ImportStep ==
  ASSUME DatabaseTypeOK, TransactionInv, NEW t \in Threads,
         \/ BeginTransaction(t) \/ CheckVersion(t) \/ PutProperty(t)
         \/ ImportYellowPageRecords(t) \/ Commit(t) \/ RollBack(t)
  PROVE  /\ InOrder(t)' /\ PagesMatchVersion'
         /\ (txn' = txn /\ disk' = disk) \/ txn.holder \in {t, Nobody}
<1>1. \A label : GoTo(t, label) => pc'[t] = label
  BY DEF GoTo, DatabaseTypeOK
<1>2. Imported(t) => pc'[t] \in {"stamp", "idle"}
  BY <1>1 DEF Imported, Finish
<1>3. InOrder(t) /\ PagesMatchVersion
  BY DEF TransactionInv
<1>4. pc[t] \in InTransaction => txn.holder = t
  BY <1>3 DEF InOrder
<1>5. pc'[t] \notin InTransaction => InOrder(t)'
  BY DEF InOrder, InTransaction
<1>6. /\ disk.version \in Seq(Nat) /\ file[t].version \in Seq(Nat) /\ txn.version \in Seq(Nat)
      /\ file[t] \in Files
  BY Constants DEF DatabaseTypeOK
<1>7. disk' = disk => PagesMatchVersion'
  BY <1>3 DEF PagesMatchVersion
<1>8. CASE BeginTransaction(t)
  <2>1. CASE Imported(t) /\ txn' = txn
    BY <1>2, <1>5, <1>7, <1>8, <2>1 DEF BeginTransaction, InTransaction
  <2>2. CASE /\ txn.holder = Nobody
             /\ txn' = [holder |-> t, version |-> disk.version, phones |-> disk.phones,
                        blind |-> FALSE]
             /\ GoTo(t, "check")
    <3>1. disk' = disk
      BY <1>8 DEF BeginTransaction
    <3> QED
      BY <1>1, <1>7, <2>2, <3>1 DEF InOrder, InTransaction
  <2> QED
    BY <1>8, <2>1, <2>2 DEF BeginTransaction
<1>9. CASE CheckVersion(t)
  <2>1. /\ txn.holder = t /\ txn.version = disk.version /\ txn.phones = disk.phones
        /\ disk' = disk /\ file' = file
    BY <1>3, <1>4, <1>9 DEF CheckVersion, InOrder, InTransaction
  <2>2. CASE txn' = txn /\ GoTo(t, IF Before(disk.version, file[t].version) THEN "put" ELSE "commit")
    <3>1. ~Before(disk.version, file[t].version) => pc'[t] = "commit"
      BY <1>1, <2>2
    <3>2. Before(disk.version, file[t].version) => pc'[t] = "put"
      BY <1>1, <2>2
    <3>3. Match(txn.version, txn.phones)
      BY <1>3, <2>1 DEF PagesMatchVersion
    <3>4. ~Before(txn.version, disk.version)
      BY <1>6, <2>1, BeforeIrreflexive
    <3> QED
      BY <1>6, <1>7, <2>1, <2>2, <3>1, <3>2, <3>3, <3>4 DEF InOrder, InTransaction, Match
  <2>3. CASE GoTo(t, "put") /\ txn' = [txn EXCEPT !.blind = TRUE]
    <3>1. pc'[t] = "put" /\ txn'.holder = t /\ txn'.blind
      BY <1>1, <2>1, <2>3 DEF DatabaseTypeOK
    <3> QED
      BY <1>7, <2>1, <3>1 DEF InOrder, InTransaction
  <2> QED
    BY <1>9, <2>2, <2>3 DEF CheckVersion
<1>10. CASE PutProperty(t)
  <2>1. /\ txn.holder = t /\ disk' = disk /\ file' = file
        /\ ~txn.blind => Before(disk.version, file[t].version)
    BY <1>3, <1>4, <1>10 DEF PutProperty, InOrder, InTransaction
  <2>2. ASSUME NEW version \in {file[t].version, NoVersion},
               version = file[t].version \/ disk.version = NoVersion,
               txn' = [txn EXCEPT !.version = version], GoTo(t, "records")
        PROVE  InOrder(t)'
    <3>1. pc'[t] = "records" /\ txn'.holder = t /\ txn'.version = version /\ (txn'.blind <=> txn.blind)
      BY <1>1, <2>1, <2>2 DEF DatabaseTypeOK
    <3>2. ~txn.blind => ~Before(version, disk.version)
      BY <1>6, <2>1, <2>2, BeforeAsymmetric, BeforeIrreflexive
    <3> QED
      BY <2>1, <3>1, <3>2 DEF InOrder, InTransaction
  <2>3. CASE GoTo(t, "rollback") /\ txn' = txn
    <3>1. pc'[t] = "rollback" /\ txn'.holder = t
      BY <1>1, <2>1, <2>3
    <3> QED
      BY <1>7, <2>1, <3>1 DEF InOrder
  <2> QED
    <3>1. \/ txn' = [txn EXCEPT !.version = file[t].version] /\ GoTo(t, "records")
          \/ disk.version = NoVersion /\ txn' = [txn EXCEPT !.version = NoVersion] /\ GoTo(t, "records")
          \/ GoTo(t, "rollback") /\ txn' = txn
      BY <1>10 DEF PutProperty
    <3>2. InOrder(t)'
      BY <2>2, <2>3, <3>1
    <3> QED
      BY <1>7, <2>1, <3>2
<1>11. CASE ImportYellowPageRecords(t)
  <2>1. /\ txn.holder = t /\ disk' = disk /\ file' = file
        /\ txn.version \in {NoVersion, file[t].version}
        /\ ~txn.blind => ~Before(txn.version, disk.version)
    BY <1>3, <1>4, <1>11 DEF ImportYellowPageRecords, InOrder, InTransaction
  <2>2. CASE txn' = [txn EXCEPT !.phones = Pages(file[t])] /\ GoTo(t, "commit")
    <3>1. /\ pc'[t] = "commit" /\ txn'.holder = t /\ txn'.version = txn.version
          /\ txn'.phones = Pages(file[t]) /\ (txn'.blind <=> txn.blind)
      BY <1>1, <2>1, <2>2 DEF DatabaseTypeOK
    <3>2. Match(txn.version, Pages(file[t]))
      BY <1>6, <2>1, DatabaseAssumption DEF Match
    <3>3. Match(txn'.version, txn'.phones)
      BY <3>1, <3>2
    <3> QED
      BY <1>7, <2>1, <3>1, <3>3 DEF InOrder, InTransaction, Match
  <2>3. CASE GoTo(t, "rollback") /\ txn' = txn
    BY <1>1, <1>7, <2>1, <2>3 DEF InOrder, InTransaction
  <2> QED
    BY <1>11, <2>2, <2>3 DEF ImportYellowPageRecords
<1>12. CASE Commit(t)
  <2>1. txn.holder = t /\ Match(txn.version, txn.phones)
    BY <1>3, <1>4, <1>12 DEF Commit, InOrder, InTransaction
  <2>2. CASE disk' = [disk EXCEPT !.version = txn.version, !.phones = txn.phones] /\ Imported(t)
    <3>1. disk'.version = txn.version /\ disk'.phones = txn.phones
      BY <2>2 DEF DatabaseTypeOK
    <3> QED
      BY <1>2, <1>5, <2>1, <2>2, <3>1 DEF PagesMatchVersion, Match, InTransaction
  <2>3. CASE GoTo(t, "rollback") /\ disk' = disk /\ txn' = txn
    BY <1>1, <1>7, <2>1, <2>3 DEF InOrder, InTransaction
  <2> QED
    BY <1>12, <2>2, <2>3 DEF Commit
<1>13. CASE RollBack(t)
  <2>1. txn.holder = t /\ disk' = disk /\ Imported(t)
    BY <1>4, <1>13 DEF RollBack, InTransaction
  <2> QED
    BY <1>2, <1>5, <1>7, <2>1 DEF InTransaction
<1> QED
  BY <1>8, <1>9, <1>10, <1>11, <1>12, <1>13

-----------------------------------------------------------------------------
(* The tables. *)

\* Tables and columns are never lost, and user_version only becomes 2.
LEMMA Grows ==
  ASSUME DatabaseTypeOK, disk' \in [user : 0..2, made : 0..6, columns : SUBSET Columns,
                                    version : Versions, phones : Contents],
         disk.columns \subseteq disk'.columns, disk.made <= disk'.made
  PROVE  Complete => Complete'
  BY DEF Complete, DatabaseTypeOK

\* One step of the thread that opens the store.
LEMMA OpeningStep ==
  ASSUME DatabaseTypeOK, DatabaseTypeOK', OpenInv, NEW t \in Threads, ~Die,
         DatabaseStep(t) \/ Release(t) \/ \E j \in Jobs : Call(t, j)
  PROVE  /\ Made' /\ Making(t)'
         /\ disk.columns \subseteq disk'.columns /\ disk.made <= disk'.made
         /\ mutex' \in {mutex, t, Nobody}
<1> DEFINE Grown == /\ disk.columns \subseteq disk'.columns /\ disk.made <= disk'.made
                    /\ mutex' \in {mutex, t, Nobody}
<1>1. \A label : GoTo(t, label) => pc'[t] = label
  BY DEF GoTo, DatabaseTypeOK
<1>2. /\ Go(t) => pc'[t] \in {"ready", "begin", "idle"}
      /\ Finish(t) => pc'[t] = "idle"
      /\ \A f : Import(t, f) => pc'[t] = "begin"
      /\ Imported(t) => IF mutex = t THEN pc'[t] = "stamp" ELSE pc'[t] = "idle"
  BY <1>1 DEF Go, Import, Finish, Imported
<1>3. Made /\ Making(t) /\ t # Nobody
  BY DatabaseAssumption DEF OpenInv
<1>4. disk.made \in Nat /\ disk.user \in 0..2
  BY DEF DatabaseTypeOK
<1>5. ASSUME disk' = disk, instance' = instance PROVE Made'
  BY <1>3, <1>5 DEF Made, Complete
<1>6. CASE GetInstance(t)
  <2>1. /\ disk' = disk /\ instance' = instance /\ mutex = Nobody
        /\ \/ mutex' = mutex /\ pc'[t] \in {"ready", "begin", "idle"}
           \/ mutex' = t /\ pc'[t] = "open"
    BY <1>1, <1>2, <1>6 DEF GetInstance
  <2> QED
    BY <1>3, <1>4, <1>5, <2>1 DEF Making, InImport, InTransaction
<1>7. ASSUME CreateFails(t) PROVE Made' /\ Making(t)' /\ Grown
  <2>1. disk' = disk /\ instance' = instance /\ mutex' = Nobody /\ pc'[t] = "null"
    BY <1>1, <1>7 DEF CreateFails
  <2> QED
    BY <1>3, <1>4, <1>5, <2>1 DEF Making
<1>8. CASE OpenFails(t)
  BY <1>7, <1>8 DEF OpenFails
<1>9. CASE CreateTable(t)
  <2>1. /\ pc'[t] = "open" /\ instance' = instance /\ mutex' = mutex
        /\ disk.user = 0 /\ disk'.user = 0 /\ disk'.made = disk.made + 1
        /\ disk'.columns = IF disk.made = 3 THEN Columns ELSE disk.columns
    BY <1>9 DEF CreateTable, threadVars, DatabaseTypeOK
  <2>2. disk.columns \subseteq disk'.columns
    BY <2>1 DEF DatabaseTypeOK
  <2>3. Made' /\ Making(t)'
    BY <1>3, <1>4, <2>1 DEF Made, Making, InImport, InTransaction
  <2> QED
    BY <1>4, <2>1, <2>2, <2>3
<1>10. CASE OnCreate(t)
  <2>1. /\ disk' = disk /\ instance' = instance /\ mutex' = mutex
        /\ disk.user = 0 /\ disk.made = 6 /\ pc'[t] \in {"begin", "stamp"}
    BY <1>1, <1>2, <1>10 DEF OnCreate
  <2>2. Complete /\ disk'.columns = disk.columns /\ disk'.made = disk.made
    BY <1>3, <2>1 DEF Made, Complete
  <2> QED
    BY <1>4, <1>5, <2>1, <2>2 DEF Making, Complete
<1>11. ASSUME NEW column \in Columns, NEW next \in {"alter", "stamp"},
              AddColumn(t, column, next), disk.user = 1,
              next = "alter" => column = "SUPPLIER_ID",
              next = "stamp" => disk.columns \cup {column} = Columns
       PROVE  Made' /\ Making(t)' /\ Grown
  <2>1. CASE column \in disk.columns
    BY <1>7, <1>11, <2>1 DEF AddColumn
  <2>2. CASE column \notin disk.columns
    <3>1. /\ disk'.user = 1 /\ disk'.made = disk.made /\ disk'.columns = disk.columns \cup {column}
          /\ instance' = instance /\ mutex' = mutex /\ pc'[t] = next
      BY <1>1, <1>11, <2>2 DEF AddColumn, DatabaseTypeOK
    <3>2. Made' /\ disk'.made = 6
      BY <1>3, <1>11, <3>1 DEF Made
    <3>3. Making(t)'
      BY <1>11, <3>1, <3>2 DEF Making, InImport, InTransaction, Complete
    <3> QED
      BY <1>4, <3>1, <3>2, <3>3
  <2> QED
    BY <2>1, <2>2
<1>12. CASE OnUpgrade(t)
  <2>1. CASE pc[t] = "open" /\ AddColumn(t, "SUPPLIER_ID", "alter")
    BY <1>11, <1>12, <2>1 DEF OnUpgrade, Columns
  <2>2. CASE pc[t] = "alter" /\ AddColumn(t, "IS_INTELLIGENT_DB", "stamp")
    <3>1. disk.columns \cup {"IS_INTELLIGENT_DB"} = Columns
      BY <1>3, <2>2 DEF Making, Columns, DatabaseTypeOK
    <3> QED
      BY <1>11, <1>12, <2>2, <3>1 DEF OnUpgrade, Columns
  <2> QED
    BY <1>12, <2>1, <2>2 DEF OnUpgrade
<1>13. CASE Opened(t)
  <2>1. Complete
    BY <1>3, <1>13 DEF Opened, Made, Making
  <2>2. /\ disk'.user = 2 /\ disk'.made = disk.made /\ disk'.columns = disk.columns
        /\ mutex' = Nobody /\ pc'[t] \in {"ready", "begin", "idle"}
    BY <1>2, <1>13 DEF Opened, DatabaseTypeOK
  <2> QED
    BY <1>3, <1>4, <2>1, <2>2 DEF Made, Making, Complete
<1>14. ASSUME disk'.user = disk.user, disk'.made = disk.made, disk'.columns = disk.columns,
              instance' = instance, mutex' = mutex,
              \/ pc[t] \in InImport /\ pc'[t] \in InImport
              \/ pc[t] \in InImport /\ Imported(t)
              \/ pc'[t] \in {"idle", "lock"}
       PROVE  Made' /\ Making(t)' /\ Grown
  BY <1>2, <1>3, <1>4, <1>14 DEF Made, Making, InImport, InTransaction, Complete
<1>15. CASE BeginTransaction(t) \/ CheckVersion(t) \/ PutProperty(t) \/ ImportYellowPageRecords(t)
  <2>1. disk' = disk /\ instance' = instance /\ mutex' = mutex /\ pc[t] \in InImport
    BY <1>15 DEF BeginTransaction, CheckVersion, PutProperty, ImportYellowPageRecords,
                 InImport, InTransaction
  <2>2. pc'[t] \in InTransaction \/ Imported(t)
    BY <1>1, <1>15 DEF BeginTransaction, CheckVersion, PutProperty, ImportYellowPageRecords,
                       InTransaction
  <2> QED
    BY <1>14, <2>1, <2>2 DEF InImport
<1>16. CASE Commit(t) \/ RollBack(t)
  <2>1. /\ disk'.user = disk.user /\ disk'.made = disk.made /\ disk'.columns = disk.columns
        /\ instance' = instance /\ mutex' = mutex /\ pc[t] \in InImport
    BY <1>16 DEF Commit, RollBack, InImport, InTransaction, DatabaseTypeOK
  <2>2. pc'[t] = "rollback" \/ Imported(t)
    BY <1>1, <1>16 DEF Commit, RollBack
  <2> QED
    BY <1>14, <2>1, <2>2 DEF InImport, InTransaction
<1>17. CASE Release(t) \/ \E j \in Jobs : Call(t, j)
  <2>1. disk' = disk /\ instance' = instance /\ mutex' = mutex /\ pc'[t] \in {"idle", "lock"}
    BY <1>1, <1>2, <1>17 DEF Release, Call
  <2> QED
    BY <1>14, <2>1
<1> QED
  BY <1>6, <1>8, <1>9, <1>10, <1>12, <1>13, <1>15, <1>16, <1>17 DEF DatabaseStep

-----------------------------------------------------------------------------
(* The invariant. *)

LEMMA StepInv ==
  ASSUME DatabaseInv, DatabaseTypeOK', NEW t \in Threads,
         DatabaseStep(t) \/ Release(t) \/ \E j \in Jobs : Call(t, j)
  PROVE  TransactionInv' /\ OpenInv'
<1> USE DEF DatabaseInv
<1>1. CASE Die
  BY <1>1, DeadInv
<1>2. CASE ~Die
  <2>1. \A s \in Threads \ {t} : pc'[s] = pc[s] /\ file'[s] = file[s]
    BY <1>2, OnlyOwn
  <2>2. /\ InOrder(t)' /\ PagesMatchVersion'
        /\ \/ txn' = txn /\ disk'.version = disk.version /\ disk'.phones = disk.phones
           \/ txn.holder \in {t, Nobody}
    <3>1. CASE \/ BeginTransaction(t) \/ CheckVersion(t) \/ PutProperty(t)
               \/ ImportYellowPageRecords(t) \/ Commit(t) \/ RollBack(t)
      BY <3>1, ImportStep
    <3>2. CASE \/ GetInstance(t) \/ OpenFails(t) \/ CreateTable(t) \/ OnCreate(t)
               \/ OnUpgrade(t) \/ Opened(t) \/ Release(t) \/ \E j \in Jobs : Call(t, j)
      <4>1. /\ txn' = txn /\ disk'.version = disk.version /\ disk'.phones = disk.phones
            /\ pc'[t] \notin InTransaction
        BY <1>2, <3>2, QuietStep
      <4> QED
        BY <4>1 DEF InOrder, InTransaction, TransactionInv, PagesMatchVersion
    <3> QED
      BY <3>1, <3>2 DEF DatabaseStep
  <2>3. \A s \in Threads \ {t} : InOrder(s)'
    BY <2>1, <2>2, OtherInOrder
  <2>4. TransactionInv'
    BY <2>2, <2>3 DEF TransactionInv
  <2>5. /\ Made' /\ Making(t)' /\ mutex' \in {mutex, t, Nobody}
        /\ disk.columns \subseteq disk'.columns /\ disk.made <= disk'.made
    BY <1>2, OpeningStep
  <2>6. Complete => Complete'
    BY <2>5, Grows DEF DatabaseTypeOK
  <2>7. ASSUME NEW s \in Threads \ {t} PROVE Making(s)'
    <3>1. Making(s) /\ pc'[s] = pc[s] /\ (mutex' = s => mutex = s)
      BY <2>1, <2>5, DatabaseAssumption DEF OpenInv
    <3> QED
      BY <2>5, <2>6, <3>1 DEF Making
  <2> QED
    BY <2>4, <2>5, <2>7 DEF OpenInv
<1> QED
  BY <1>1, <1>2

LEMMA DatabaseInvInvariant == DatabaseSpec => []DatabaseInv
<1>1. DatabaseInit => DatabaseInv
  <2> SUFFICES ASSUME DatabaseInit PROVE TransactionInv /\ OpenInv
    BY InitType DEF DatabaseInv
  <2>1. PICK f \in Files : \/ disk \in {Fresh, Old}
                           \/ disk = [Old EXCEPT !.version = f.version, !.phones = Pages(f)]
    BY DatabaseAssumption DEF DatabaseInit
  <2>2. /\ disk.user \in {0, 1} /\ (disk.user = 0 => disk.made = 0)
        /\ disk.user = 1 => disk.made = 6
        /\ disk.version = NoVersion \/ (disk.version = f.version /\ disk.phones = Pages(f))
    <3>1. Fresh.user = 0 /\ Fresh.made = 0 /\ Fresh.version = NoVersion
      BY DEF Fresh
    <3>2. Old.user = 1 /\ Old.made = 6 /\ Old.version = NoVersion
      BY DEF Old
    <3>3. CASE disk = [Old EXCEPT !.version = f.version, !.phones = Pages(f)]
      <4>1. /\ disk.user = Old.user /\ disk.made = Old.made
            /\ disk.version = f.version /\ disk.phones = Pages(f)
        BY <3>3 DEF Old
      <4> QED
        BY <4>1 DEF Old
    <3>4. CASE disk = Fresh \/ disk = Old
      BY <3>1, <3>2, <3>4
    <3> QED
      BY <2>1, <3>3, <3>4
  <2>3. PagesMatchVersion
    BY <2>2, DatabaseAssumption DEF PagesMatchVersion, Match
  <2>4. Made
    <3>1. ~instance
      BY DEF DatabaseInit
    <3> QED
      BY <2>2, <3>1 DEF Made
  <2>5. \A t \in Threads : pc[t] = "idle"
    BY DEF DatabaseInit
  <2> QED
    BY <2>3, <2>4, <2>5 DEF TransactionInv, InOrder, InTransaction, OpenInv, Making, InImport
<1>2. DatabaseInv /\ [DatabaseNext]_databaseVars => DatabaseInv'
  <2> SUFFICES ASSUME DatabaseInv, [DatabaseNext]_databaseVars PROVE DatabaseInv'
    OBVIOUS
  <2>1. DatabaseTypeOK'
    BY NextType DEF DatabaseInv
  <2>2. ASSUME NEW t \in Threads, DatabaseStep(t) \/ Release(t) \/ \E j \in Jobs : Call(t, j)
        PROVE  DatabaseInv'
    BY <2>1, <2>2, StepInv DEF DatabaseInv
  <2>3. CASE Crash
    BY <2>1, <2>3, DeadInv DEF Crash, DatabaseInv
  <2>4. CASE UNCHANGED databaseVars
    BY <2>1, <2>4 DEF databaseVars, DatabaseInv, TransactionInv, PagesMatchVersion, Match, InOrder,
                      OpenInv, Made, Making, Complete
  <2> QED
    BY <2>2, <2>3, <2>4 DEF DatabaseNext
<1> QED
  BY <1>1, <1>2, PTL DEF DatabaseSpec

\* The pages in the table are those of the recorded version.
THEOREM DatabasePagesMatch == DatabaseSpec => []PagesMatchVersion
<1>1. DatabaseInv => PagesMatchVersion
  BY DEF DatabaseInv, TransactionInv
<1> QED
  BY <1>1, DatabaseInvInvariant, PTL

\* Who has the instance has every table and column.
THEOREM DatabaseOpenComplete == DatabaseSpec => []OpenMeansComplete
<1>1. DatabaseInv => OpenMeansComplete
  BY DEF DatabaseInv, OpenInv, Made, OpenMeansComplete
<1> QED
  BY <1>1, DatabaseInvInvariant, PTL

\* The recorded version falls only in a transaction that could not read it.
THEOREM DatabaseDowngradeOnlyBlind == DatabaseSpec => DowngradeOnlyBlind
<1>1. DatabaseInv /\ [DatabaseNext]_databaseVars => [NoSightedDowngrade]_disk
  <2> SUFFICES ASSUME DatabaseInv, [DatabaseNext]_databaseVars, disk' # disk,
                      Before(disk'.version, disk.version)
               PROVE  txn.blind
    BY DEF NoSightedDowngrade
  <2>1. disk.version \in Seq(Nat) /\ txn.version \in Seq(Nat)
    BY Constants DEF DatabaseInv, DatabaseTypeOK
  <2>2. disk'.version # disk.version /\ ~Die
    BY <2>1, BeforeIrreflexive DEF Die
  <2>3. PICK t \in Threads : DatabaseStep(t) \/ Release(t) \/ \E j \in Jobs : Call(t, j)
    BY <2>2 DEF DatabaseNext, Crash, databaseVars
  <2>4. Commit(t)
    <3>1. BeginTransaction(t) \/ CheckVersion(t) \/ PutProperty(t)
              \/ ImportYellowPageRecords(t) \/ RollBack(t) => disk' = disk
      BY DEF BeginTransaction, CheckVersion, PutProperty, ImportYellowPageRecords, RollBack
    <3> QED
      BY <2>2, <2>3, <3>1, QuietStep DEF DatabaseStep, DatabaseInv
  <2>5. InOrder(t) /\ disk'.version = txn.version
    BY <2>2, <2>4 DEF Commit, DatabaseInv, TransactionInv, DatabaseTypeOK
  <2> QED
    BY <2>1, <2>4, <2>5 DEF Commit, InOrder
<1> QED
  BY <1>1, DatabaseInvInvariant, PTL DEF DatabaseSpec, DowngradeOnlyBlind

-----------------------------------------------------------------------------
(* The store uses the database as IdentityDatabase says. *)

LEMMA JobsOfStore == Reading \in Jobs \ {NoJob} /\ \A f \in Updates : Importing(f) \in Jobs \ {NoJob}
<1>1. Reading # NoJob /\ \A f \in Updates : Importing(f) # NoJob
  <2>1. Reading.kind = "read" /\ NoJob.kind = "none" /\ \A f \in Updates : Importing(f).kind = "import"
    BY DEF Reading, NoJob, Importing
  <2> QED
    BY <2>1
<1> QED
  BY <1>1, StoreAssumption DEF Jobs

\* A client, and what of the server needs no database.
LEMMA ClientStep ==
  ASSUME NEW t \in Threads,
         \/ \E ask \in Asks[t] : Ask(t, ask)
         \/ Refused(t) \/ ProcessNumber(t) \/ Settle(t) \/ Callback(t)
  PROVE  UNCHANGED databaseVars
  BY DEF Ask, Refused, ProcessNumber, Settle, Callback

\* The server gets the instance, and gives it up.
LEMMA ServerStep ==
  ASSUME NEW t \in Threads,
         \/ Accept(t) \/ NoInstance(t) \/ StatementFails(t) \/ ReadPages(t)
         \/ GetInstanceAgain(t) \/ ReadMarks(t) \/ ReadTable(t) \/ Write(t)
  PROVE  Call(t, Reading) \/ Release(t)
<1>1. CASE Accept(t) \/ GetInstanceAgain(t)
  BY <1>1 DEF Accept, GetInstanceAgain, Need
<1>2. CASE NoInstance(t) \/ StatementFails(t)
  BY <1>2 DEF NoInstance, StatementFails, Answer
<1>3. CASE ReadPages(t) \/ ReadMarks(t) \/ ReadTable(t)
  BY <1>3 DEF ReadPages, ReadMarks, ReadTable, Answer
<1>4. CASE Write(t)
  BY <1>4 DEF Write
<1> QED
  BY <1>1, <1>2, <1>3, <1>4

LEMMA StoreStep == [Next]_vars => [DatabaseNext]_databaseVars
<1> SUFFICES ASSUME [Next]_vars PROVE [DatabaseNext]_databaseVars
  OBVIOUS
<1>1. ASSUME NEW t \in Threads,
             \/ \E ask \in Asks[t] : Ask(t, ask)
             \/ Refused(t) \/ ProcessNumber(t) \/ Settle(t) \/ Callback(t)
      PROVE  [DatabaseNext]_databaseVars
  BY <1>1, ClientStep
<1>2. ASSUME NEW t \in Threads,
             \/ Accept(t) \/ NoInstance(t) \/ StatementFails(t) \/ ReadPages(t)
             \/ GetInstanceAgain(t) \/ ReadMarks(t) \/ ReadTable(t) \/ Write(t)
      PROVE  DatabaseNext
  BY <1>2, ServerStep, JobsOfStore DEF DatabaseNext
<1>3. ASSUME NEW t \in Threads, Database(t) PROVE DatabaseNext
  BY <1>3 DEF Database, DatabaseNext
<1>4. ASSUME NEW t \in Threads, NEW f \in Updates, ImportYellowPageData(t, f)
      PROVE  DatabaseNext
  BY <1>4, JobsOfStore DEF ImportYellowPageData, DatabaseNext
<1>5. CASE ServerDies
  BY <1>5 DEF ServerDies, DatabaseNext
<1>6. CASE UNCHANGED vars
  BY <1>6 DEF vars
<1> QED
  BY <1>1, <1>2, <1>3, <1>4, <1>5, <1>6 DEF Next

\* Queries, updates, imports and crashes use the database as IdentityDatabase says.
THEOREM StoreImplementsDatabase == Spec => DatabaseSpec
<1>1. Init => DatabaseInit
  BY DEF Init
<1> QED
  BY <1>1, StoreStep, PTL DEF Spec, DatabaseSpec

\* Whatever is queried, marked and imported meanwhile, the pages in the table are those of
\* the recorded version.
THEOREM StorePagesMatch == Spec => []PagesMatchVersion
  BY StoreImplementsDatabase, DatabasePagesMatch, PTL

\* Every thread of NumberMarkAbility that gets the instance finds all tables and columns.
THEOREM StoreOpenComplete == Spec => []OpenMeansComplete
  BY StoreImplementsDatabase, DatabaseOpenComplete, PTL

\* The version recorded falls only in an import that could not read it.
THEOREM StoreDowngradeOnlyBlind == Spec => DowngradeOnlyBlind
  BY StoreImplementsDatabase, DatabaseDowngradeOnlyBlind, PTL

-----------------------------------------------------------------------------
(* Types of the store. *)

RowFields == {"number", "type", "cloud"}

LEMMA OverRange ==
  ASSUME NEW R, NEW s \in Seq(R)
  PROVE  s \in Seq(Range(s)) /\ Range(s) \subseteq R /\ \A i \in DOMAIN s : s[i] \in Range(s)
<1>1. DOMAIN s = 1..Len(s) /\ Len(s) \in Nat /\ s = [i \in 1..Len(s) |-> s[i]] /\ \A i \in 1..Len(s) : s[i] \in R
  OBVIOUS
<1>2. \A i \in 1..Len(s) : s[i] \in Range(s)
  BY <1>1 DEF Range
<1>3. Range(s) \subseteq R
  BY <1>1 DEF Range
<1>4. [i \in 1..Len(s) |-> s[i]] \in Seq(Range(s))
  BY <1>1, <1>2
<1> QED
  BY <1>1, <1>2, <1>3, <1>4

\* What a call writes are marks again.
LEMMA WrittenType ==
  ASSUME marks \in Seq(Range(marks)), \A i \in DOMAIN marks : DOMAIN marks[i] = RowFields,
         NEW ask, ask.road \in {"set", "insert", "delete"}
  PROVE  /\ Written(ask) \in Seq(Range(Written(ask)))
         /\ \A i \in DOMAIN Written(ask) : DOMAIN Written(ask)[i] = RowFields
<1> DEFINE R == Range(marks)
           Whole(s) == s \in Seq(Range(s)) /\ \A i \in DOMAIN s : DOMAIN s[i] = RowFields
<1>1. \A r \in R : DOMAIN r = RowFields
  BY DEF Range
<1>2. ASSUME NEW Q, \A r \in Q : DOMAIN r = RowFields, NEW s \in Seq(Q) PROVE Whole(s)
  <2>1. s \in Seq(Range(s)) /\ Range(s) \subseteq Q /\ \A i \in DOMAIN s : s[i] \in Range(s)
    BY OverRange
  <2> QED
    BY <1>2, <2>1
<1> HIDE DEF Whole
<1>3. \A S : Whole(Keep(marks, S))
  BY <1>1, <1>2, KeepType
<1>4. \A number, type, cloud : Whole(Append(marks, Row(number, type, cloud)))
  <2> TAKE number, type, cloud
  <2>1. DOMAIN Row(number, type, cloud) = RowFields
    BY DEF Row, RowFields
  <2>2. Append(marks, Row(number, type, cloud)) \in Seq(R \cup {Row(number, type, cloud)})
    BY AppendProperties
  <2> QED
    BY <1>1, <1>2, <2>1, <2>2
<1>5. \A number, type : Whole(SetLocalNumberMark(number, type))
  <2> TAKE number, type
  <2> DEFINE new == {[r EXCEPT !.type = type] : r \in R}
             mine(row) == row.number = number /\ ~row.cloud
             changed == [i \in DOMAIN marks |-> IF mine(marks[i]) THEN [marks[i] EXCEPT !.type = type]
                                                                 ELSE marks[i]]
  <2>1. \A r \in R \cup new : DOMAIN r = RowFields
    BY <1>1 DEF RowFields
  <2>2. \A i \in DOMAIN marks : changed[i] \in R \cup new
    BY DEF Range
  <2>3. changed \in Seq(R \cup new)
    <3>1. DOMAIN marks = 1..Len(marks) /\ Len(marks) \in Nat
      OBVIOUS
    <3> HIDE DEF new, mine, R
    <3> QED
      BY <2>2, <3>1
  <2>4. Whole(changed)
    <3> HIDE DEF changed, new, R
    <3> QED
      BY <1>2, <2>1, <2>3
  <2> QED
    BY <1>3, <1>4, <2>4 DEF SetLocalNumberMark
<1>6. Whole(Written(ask))
  BY <1>3, <1>4, <1>5 DEF Written
<1> QED
  BY <1>6 DEF Whole

\* A call after it has taken a step.
LEMMA NextCall ==
  ASSUME NEW asks, NEW c, IsCall(c, asks), c.step # "idle",
         NEW d, DOMAIN d = DOMAIN c, d.ask = c.ask, d.changes = c.changes,
         d.step \in Steps \ {"idle"}, d.step = "write" => c.ask.road \in {"set", "insert", "delete"},
         d.promise \in {"none", "resolved", "rejected"}, d.promise # "none" => d.step = "settled"
  PROVE  IsCall(d, asks)
  BY DEF IsCall

\* A call that is under way goes on as d, at a step.
GoesOn(c, d, step) ==
  /\ DOMAIN d = DOMAIN c /\ d.ask = c.ask /\ d.step = step /\ d.promise = "none"
  /\ d.seen = c.seen /\ d.changes = c.changes

LEMMA GoesOnCall ==
  ASSUME NEW asks, NEW c, IsCall(c, asks), c.step # "idle", NEW step \in Steps \ {"idle"}, NEW d,
         GoesOn(c, d, step), step = "write" => c.ask.road \in {"set", "insert", "delete"}
  PROVE  IsCall(d, asks)
  BY NextCall DEF GoesOn

\* The ways in which it does.
AtStep(c, step) == [c EXCEPT !.step = step]
WithFailure(c) == [c EXCEPT !.step = "reply", !.failed = TRUE]
WithInfo(c, info) == [c EXCEPT !.step = "reply", !.info = info]
WithRows(c, rows) == [c EXCEPT !.step = "reply", !.rows = rows]

LEMMA MovedCall ==
  ASSUME NEW asks, NEW c, IsCall(c, asks), c.step \notin {"idle", "settled"}
  PROVE  /\ \A step : GoesOn(c, AtStep(c, step), step)
         /\ GoesOn(c, WithFailure(c), "reply") /\ WithFailure(c).failed = TRUE
         /\ \A info : GoesOn(c, WithInfo(c, info), "reply") /\ WithInfo(c, info).info = info
         /\ \A rows : GoesOn(c, WithRows(c, rows), "reply")
<1>1. DOMAIN c = {"ask", "step", "promise", "info", "rows", "seen", "changes", "failed"} /\ c.promise = "none"
  BY DEF IsCall, Idle
<1> QED
  BY <1>1 DEF GoesOn, AtStep, WithFailure, WithInfo, WithRows

LEMMA SettledCall ==
  ASSUME NEW asks, NEW c, IsCall(c, asks), NEW promise \in {"resolved", "rejected"}
  PROVE  /\ Settled(c, promise).ask = c.ask /\ Settled(c, promise).step = "settled"
         /\ Settled(c, promise).promise = promise
         /\ Settled(c, promise).info = c.info /\ Settled(c, promise).seen = c.seen
         /\ Settled(c, promise).changes = c.changes /\ Settled(c, promise).failed = c.failed
         /\ c.step # "idle" => IsCall(Settled(c, promise), asks)
<1>1. DOMAIN c = {"ask", "step", "promise", "info", "rows", "seen", "changes", "failed"}
  BY DEF IsCall, Idle
<1>2. /\ Settled(c, promise).ask = c.ask /\ Settled(c, promise).step = "settled"
      /\ Settled(c, promise).promise = promise
      /\ Settled(c, promise).info = c.info /\ Settled(c, promise).seen = c.seen
      /\ Settled(c, promise).changes = c.changes /\ Settled(c, promise).failed = c.failed
      /\ DOMAIN Settled(c, promise) = DOMAIN c
  BY <1>1 DEF Settled
<1> QED
  BY <1>2, NextCall DEF Steps

LEMMA OrphanedCall ==
  ASSUME NEW asks, NEW c, IsCall(c, asks)
  PROVE  /\ IsCall(Orphaned(c), asks)
         /\ \/ Orphaned(c) = c /\ c.step \in {"idle", "accept", "settled"}
            \/ Orphaned(c) = Settled(c, "rejected")
  BY SettledCall DEF Orphaned

LEMMA NotedCall ==
  ASSUME NEW asks, NEW c, IsCall(c, asks)
  PROVE  /\ IsCall(Noted(c), asks)
         /\ Noted(c).ask = c.ask /\ Noted(c).step = c.step /\ Noted(c).promise = c.promise
         /\ Noted(c).info = c.info /\ Noted(c).failed = c.failed
<1> DEFINE d == [c EXCEPT !.seen = @ \cup {Best(c.ask.number, disk'.phones, marks')},
                          !.changes = IF @ < 2 THEN @ + 1 ELSE @]
<1>1. DOMAIN c = {"ask", "step", "promise", "info", "rows", "seen", "changes", "failed"}
  BY DEF IsCall, Idle
<1>2. /\ DOMAIN d = DOMAIN c /\ d.ask = c.ask /\ d.step = c.step /\ d.promise = c.promise
      /\ d.info = c.info /\ d.failed = c.failed /\ d.changes = IF c.changes < 2 THEN c.changes + 1 ELSE c.changes
  BY <1>1
<1>3. d.changes \in 0..2
  BY <1>2 DEF IsCall
<1> HIDE DEF d
<1>4. CASE Noted(c) = c
  BY <1>4
<1>5. CASE c.step # "idle" /\ Noted(c) = d
  BY <1>2, <1>3, <1>5 DEF IsCall
<1> QED
  BY <1>4, <1>5 DEF Noted, d

\* No step of the database makes a thread read, and an import without an instance is the end of
\* the process.
LEMMA ReadersOnly ==
  ASSUME DatabaseTypeOK, NEW t \in Threads, DatabaseStep(t)
  PROVE  /\ \A u \in Threads : job'[u].kind = "read" => job[u].kind = "read"
         /\ Dereferenced(t) => Die
<1> DEFINE Fewer == \A u \in Threads : job'[u].kind = "read" => job[u].kind = "read"
<1>1. Die \/ Finish(t) \/ Go(t) \/ Imported(t) \/ UNCHANGED job \/ (\E f : Import(t, f)) => Fewer
  <2>1. NoJob.kind # "read"
    BY DEF NoJob
  <2> QED
    BY <2>1 DEF Die, Finish, Go, Imported, Import, DatabaseTypeOK
<1>2. ASSUME CreateFails(t) PROVE Fewer /\ (job[t].kind = "import" => Die)
  BY <1>1, <1>2 DEF CreateFails
<1>3. ASSUME NEW column, NEW next, AddColumn(t, column, next)
      PROVE  Fewer /\ (CreateFails(t) \/ mutex' = mutex)
  BY <1>1, <1>2, <1>3 DEF AddColumn
<1>4. ASSUME GetInstance(t) \/ CreateTable(t) \/ OnCreate(t) \/ BeginTransaction(t)
             \/ CheckVersion(t) \/ PutProperty(t) \/ ImportYellowPageRecords(t) \/ Commit(t) \/ RollBack(t)
      PROVE  Fewer /\ (mutex = Nobody \/ mutex' = mutex)
  <2>1. CASE GetInstance(t) \/ CreateTable(t) \/ OnCreate(t)
    BY <1>1, <2>1 DEF GetInstance, CreateTable, OnCreate, threadVars
  <2>2. CASE BeginTransaction(t) \/ CheckVersion(t) \/ PutProperty(t)
    BY <1>1, <2>2 DEF BeginTransaction, CheckVersion, PutProperty
  <2>3. CASE ImportYellowPageRecords(t) \/ Commit(t) \/ RollBack(t)
    BY <1>1, <2>3 DEF ImportYellowPageRecords, Commit, RollBack
  <2> QED
    BY <1>4, <2>1, <2>2, <2>3
<1>5. ASSUME Opened(t) PROVE Fewer /\ instance' = TRUE
  BY <1>1, <1>5 DEF Opened
<1>6. ASSUME OpenFails(t) \/ OnUpgrade(t) PROVE Fewer /\ (CreateFails(t) \/ mutex' = mutex)
  BY <1>2, <1>3, <1>6 DEF OpenFails, OnUpgrade
<1>7. Dereferenced(t) => mutex # Nobody /\ mutex' # mutex /\ ~instance' /\ job[t].kind = "import"
  BY DatabaseAssumption DEF Dereferenced
<1> QED
  BY <1>2, <1>4, <1>5, <1>6, <1>7 DEF DatabaseStep

\* What has to be shown of a step.
LEMMA TypedNext ==
  ASSUME DatabaseTypeOK', marks' \in Seq(Range(marks')), Len(marks') <= MaxRows,
         \A i \in DOMAIN marks' : DOMAIN marks'[i] = RowFields,
         roaming' \in Countries, call' = [u \in Threads |-> call'[u]],
         \A u \in Threads : IsCall(call'[u], Asks[u]),
         \A u \in Threads : job'[u].kind = "read" => call'[u].step \in {"pages", "marks", "write"}
  PROVE  StoreTyped'
<1>1. \A u \in Threads : call'[u].step = "idle" => call'[u].ask = NoAsk
  BY DEF IsCall, Idle
<1>2. \A u \in Threads : /\ call'[u].ask \in Asks[u] \cup {NoAsk}
                         /\ call'[u].step \in Steps /\ call'[u].promise \in {"none", "resolved", "rejected"}
                         /\ call'[u].step = "idle" => call'[u] = Idle
  BY <1>1 DEF IsCall
<1> QED
  BY <1>2 DEF StoreTyped, TypeOK, RowFields

\* A step of one call that leaves the marks alone.
LEMMA OneTyped ==
  ASSUME StoreTyped, DatabaseTypeOK', NEW t \in Threads, NEW d, IsCall(d, Asks[t]),
         call' = [call EXCEPT ![t] = d], UNCHANGED <<marks, roaming>>,
         \A u \in Threads \ {t} : job'[u] = job[u],
         job'[t].kind = "read" => d.step \in {"pages", "marks", "write"}
  PROVE  StoreTyped'
<1>1. /\ marks' = marks /\ roaming' = roaming
      /\ call'[t] = d /\ \A u \in Threads \ {t} : call'[u] = call[u]
      /\ call' = [u \in Threads |-> call'[u]]
  BY DEF StoreTyped
<1>2. \A u \in Threads : IsCall(call'[u], Asks[u])
  BY <1>1 DEF StoreTyped
<1>3. \A u \in Threads : job'[u].kind = "read" => call'[u].step \in {"pages", "marks", "write"}
  BY <1>1 DEF StoreTyped, TypeOK
<1>4. /\ marks' \in Seq(Range(marks')) /\ Len(marks') <= MaxRows /\ roaming' \in Countries
      /\ \A i \in DOMAIN marks' : DOMAIN marks'[i] = RowFields
  BY <1>1 DEF StoreTyped, TypeOK, RowFields
<1> QED
  BY <1>1, <1>2, <1>3, <1>4, TypedNext

-----------------------------------------------------------------------------
(* What a number is answered with. *)

\* The answer is taken from the rows of the number: its first page of them all, or the first of
\* its marks that is the user's.
LEMMA BestOfRows ==
  ASSUME NEW R, NEW rows \in Seq(R), NEW number, NEW pages
  PROVE  Best(number, pages, rows) =
            LET found == QueryLocalYellowPage(number, pages)
            IN IF found # << >> THEN FindYellowPageBestMatch(number, found)
               ELSE UserMark(Select(rows, EqualTo("NUMBER", Standard(number))))
<1> DEFINE A == {row \in Range(rows) : row.number \in {Standard(number)}}
           mine == Keep(rows, A)
           B == {row \in Range(mine) : IsUserMark(row)}
           user == {i \in DOMAIN rows : rows[i].number = Standard(number) /\ IsUserMark(rows[i])}
           answer == IF user = {} THEN NoInfo ELSE FromNumberMark(rows[Min(user)])
<1>1. Select(rows, EqualTo("NUMBER", Standard(number))) = mine
  BY DEF Select, EqualTo
<1>2. Keep(mine, B) = Keep(rows, A \cap B)
  <2> HIDE DEF A, B
  <2> QED
    BY KeepTwice
<1>3. Range(mine) = Range(rows) \cap A
  <2> HIDE DEF A
  <2> QED
    BY KeepRange
<1>4. DOMAIN rows = 1..Len(rows) /\ Len(rows) \in Nat /\ \A i \in DOMAIN rows : rows[i] \in Range(rows)
  BY OverRange
<1>5. \A i \in 1..Len(rows) : rows[i] \in A \cap B <=> i \in user
  <2> HIDE DEF mine
  <2> QED
    BY <1>3, <1>4
<1>6. \/ Keep(mine, B) = << >> /\ user = {}
      \/ Keep(mine, B) # << >> /\ user # {} /\ Head(Keep(mine, B)) = rows[Min(user)]
  <2>1. CASE Keep(rows, A \cap B) = << >> /\ \A i \in 1..Len(rows) : rows[i] \notin A \cap B
    <3>1. \A i \in 1..Len(rows) : i \notin user
      BY <1>5, <2>1
    <3>2. user \subseteq 1..Len(rows)
      BY <1>4
    <3> HIDE DEF user
    <3> QED
      BY <1>2, <2>1, <3>1, <3>2
  <2>2. CASE /\ Keep(rows, A \cap B) # << >>
             /\ \E i \in 1..Len(rows) : /\ rows[i] \in A \cap B
                                        /\ Head(Keep(rows, A \cap B)) = rows[i]
                                        /\ \A j \in 1..(i - 1) : rows[j] \notin A \cap B
    <3>1. PICK i \in 1..Len(rows) : /\ rows[i] \in A \cap B
                                    /\ Head(Keep(rows, A \cap B)) = rows[i]
                                    /\ \A j \in 1..(i - 1) : rows[j] \notin A \cap B
      BY <2>2
    <3>2. i \in user /\ user \subseteq 1..Len(rows) /\ \A j \in 1..(i - 1) : j \notin user
      <4>1. \A j \in 1..(i - 1) : j \in 1..Len(rows)
        OBVIOUS
      <4>2. user \subseteq 1..Len(rows)
        BY <1>4
      <4> HIDE DEF user, A, B
      <4> QED
        BY <1>5, <3>1, <4>1, <4>2
    <3>3. Min(user) = i
      <4> HIDE DEF user
      <4>1. \A j \in user : i <= j
        BY <3>2
      <4>2. \A k \in user : (\A j \in user : k <= j) => k = i
        BY <3>2, <4>1
      <4> QED
        BY <3>2, <4>1, <4>2 DEF Min
    <3> HIDE DEF user, mine, A, B
    <3> QED
      BY <1>2, <2>2, <3>1, <3>2, <3>3
  <2> HIDE DEF A, B, user, mine
  <2> QED
    BY <2>1, <2>2, KeepFirst
<1>7. UserMark(mine) = answer
  <2>1. UserMark(mine) = IF Keep(mine, B) = << >> THEN NoInfo ELSE FromNumberMark(Head(Keep(mine, B)))
    BY DEF UserMark
  <2> HIDE DEF mine, B, user
  <2> QED
    BY <1>6, <2>1
<1>8. Best(number, pages, rows) =
        IF QueryLocalYellowPage(number, pages) # << >>
        THEN FindYellowPageBestMatch(number, QueryLocalYellowPage(number, pages))
        ELSE answer
  BY DEF Best
<1> HIDE DEF mine, answer
<1> QED
  BY <1>1, <1>7, <1>8

\* The same rows, the same answer.
LEMMA SameRows ==
  ASSUME NEW R, NEW Q, NEW rows \in Seq(R), NEW new \in Seq(Q), NEW number, NEW pages, NEW newPages,
         Rows(number, newPages, new) = Rows(number, pages, rows)
  PROVE  /\ Best(number, newPages, new) = Best(number, pages, rows)
         /\ QueryLocalYellowPage(number, newPages) = QueryLocalYellowPage(number, pages)
         /\ Select(new, EqualTo("NUMBER", Standard(number)))
                = Select(rows, EqualTo("NUMBER", Standard(number)))
<1>1. /\ QueryLocalYellowPage(number, newPages) = QueryLocalYellowPage(number, pages)
      /\ Select(new, EqualTo("NUMBER", Standard(number)))
                = Select(rows, EqualTo("NUMBER", Standard(number)))
  BY DEF Rows
<1>2. /\ Best(number, pages, rows) =
            LET found == QueryLocalYellowPage(number, pages)
            IN IF found # << >> THEN FindYellowPageBestMatch(number, found)
               ELSE UserMark(Select(rows, EqualTo("NUMBER", Standard(number))))
      /\ Best(number, newPages, new) =
            LET found == QueryLocalYellowPage(number, newPages)
            IN IF found # << >> THEN FindYellowPageBestMatch(number, found)
               ELSE UserMark(Select(new, EqualTo("NUMBER", Standard(number))))
  BY BestOfRows
<1> QED
  BY <1>1, <1>2

\* A call that notes a change of the pages or of the marks stays right.
LEMMA NotedRight ==
  ASSUME NEW asks, NEW c, IsCall(c, asks), marks \in Seq(Range(marks)), marks' \in Seq(Range(marks')),
         disk'.phones = disk.phones \/ marks' = marks, Right(c, disk.phones, marks)
  PROVE  Right(Noted(c), disk'.phones, marks')
<1> DEFINE number == c.ask.number
           d == [c EXCEPT !.seen = @ \cup {Best(number, disk'.phones, marks')},
                          !.changes = IF @ < 2 THEN @ + 1 ELSE @]
           same == Rows(number, disk'.phones, marks') = Rows(number, disk.phones, marks)
           user(rows) == UserMark(Select(rows, EqualTo("NUMBER", Standard(number))))
<1>1. CASE c.ask.road # "info"
  <2>1. Noted(c).ask = c.ask
    BY NotedCall
  <2> QED
    BY <1>1, <2>1 DEF Right
<1>2. CASE c.ask.road = "info" /\ c.step \in {"idle", "settled"}
  <2>1. Noted(c) = c
    BY <1>2 DEF Noted
  <2> QED
    BY <1>2, <2>1 DEF Right
<1>3. CASE c.ask.road = "info" /\ c.step \notin {"idle", "settled"} /\ same
  <2>1. Noted(c) = c
    BY <1>3 DEF Noted
  <2>2. /\ Best(number, disk'.phones, marks') = Best(number, disk.phones, marks)
        /\ QueryLocalYellowPage(number, disk'.phones) = QueryLocalYellowPage(number, disk.phones)
        /\ Select(marks', EqualTo("NUMBER", Standard(number)))
                = Select(marks, EqualTo("NUMBER", Standard(number)))
    BY <1>3, SameRows
  <2> QED
    BY <2>1, <2>2 DEF Right
<1>4. CASE c.ask.road = "info" /\ c.step \notin {"idle", "settled"} /\ ~same
  <2>1. Noted(c) = d
    <3>1. ~(disk'.phones = disk.phones /\ marks' = marks)
      BY <1>4
    <3> QED
      BY <1>4, <3>1 DEF Noted
  <2>2. DOMAIN c = {"ask", "step", "promise", "info", "rows", "seen", "changes", "failed"}
        /\ c.changes \in 0..2 /\ c.promise = "none"
    BY <1>4 DEF IsCall, Idle
  <2>3. /\ d.ask = c.ask /\ d.step = c.step /\ d.promise = c.promise /\ d.info = c.info /\ d.failed = c.failed
        /\ d.seen = c.seen \cup {Best(number, disk'.phones, marks')}
        /\ d.changes = IF c.changes < 2 THEN c.changes + 1 ELSE c.changes
    BY <2>2
  <2>4. c.step = "marks" =>
            \/ d.changes = 2 \/ QueryLocalYellowPage(number, disk'.phones) = << >>
            \/ d.changes = 1 /\ user(marks') \in d.seen
    <3> SUFFICES ASSUME c.step = "marks", d.changes # 2,
                        QueryLocalYellowPage(number, disk'.phones) # << >>
                 PROVE  d.changes = 1 /\ user(marks') \in d.seen
      OBVIOUS
    <3>1. c.changes = 0 /\ d.changes = 1
      BY <2>2, <2>3
    <3>2. QueryLocalYellowPage(number, disk.phones) = << >>
      BY <1>4, <3>1 DEF Right
    <3>3. marks' = marks
      BY <3>2
    <3>4. Best(number, disk.phones, marks) = user(marks)
      BY <3>2, BestOfRows
    <3>5. Best(number, disk.phones, marks) \in c.seen
      BY <1>4 DEF Right
    <3> HIDE DEF d
    <3> QED
      BY <2>3, <3>1, <3>3, <3>4, <3>5
  <2>5. c.step = "reply" => d.failed = TRUE \/ d.changes = 2 \/ d.info \in d.seen
    <3>1. c.step = "reply" => c.failed = TRUE \/ c.changes = 2 \/ c.info \in c.seen
      BY <1>4 DEF Right
    <3> HIDE DEF d
    <3> QED
      BY <2>2, <2>3, <3>1
  <2> HIDE DEF d
  <2> QED
    BY <1>4, <2>1, <2>2, <2>3, <2>4, <2>5 DEF Right
<1> QED
  BY <1>1, <1>2, <1>3, <1>4

\* A call that is settled with nothing, or goes on, while the tables stay as they are.
LEMMA SettledRight ==
  ASSUME NEW asks, NEW c, IsCall(c, asks), NEW pages, NEW rows, Right(c, pages, rows)
  PROVE  /\ Right(Settled(c, "rejected"), pages, rows)
         /\ c.step = "reply" => Right(Settled(c, "resolved"), pages, rows)
         /\ Right(Orphaned(c), pages, rows)
<1>1. /\ Right(Settled(c, "rejected"), pages, rows)
      /\ c.step = "reply" => Right(Settled(c, "resolved"), pages, rows)
  BY SettledCall DEF Right
<1> QED
  BY <1>1, OrphanedCall

\* The tables are looked at with the roaming of the next state, which is the same.
LEMMA RightNext ==
  ASSUME roaming' = roaming, NEW t \in Threads, Right(call'[t], disk'.phones, marks')
  PROVE  Right(call[t], disk.phones, marks)'
  BY DEF Right, Best, QueryLocalYellowPage, Standard

-----------------------------------------------------------------------------
(* The invariant of the store. *)

\* A step of one call, beside which nothing changes but what threads need the database for.
LEMMA OneCall ==
  ASSUME StoreInv, DatabaseTypeOK', NEW t \in Threads, NEW d, IsCall(d, Asks[t]),
         Right(d, disk.phones, marks),
         call' = [call EXCEPT ![t] = d], UNCHANGED <<disk, marks, roaming>>,
         \A u \in Threads \ {t} : job'[u] = job[u],
         job'[t].kind = "read" => d.step \in {"pages", "marks", "write"}
  PROVE  StoreInv'
<1>1. StoreTyped'
  BY OneTyped DEF StoreInv
<1>2. \A u \in Threads : call'[u] = IF u = t THEN d ELSE call[u]
  BY DEF StoreInv, StoreTyped
<1>3. \A u \in Threads : Right(call'[u], disk'.phones, marks')
  BY <1>2 DEF StoreInv
<1>4. \A u \in Threads : Right(call[u], disk.phones, marks)'
  BY <1>3, RightNext
<1> QED
  BY <1>1, <1>4 DEF StoreInv

LEMMA ClientInv ==
  ASSUME StoreInv, DatabaseTypeOK', NEW t \in Threads,
         (\E ask \in Asks[t] : Ask(t, ask)) \/ Refused(t) \/ ProcessNumber(t) \/ Settle(t) \/ Callback(t)
  PROVE  StoreInv'
<1> DEFINE c == call[t]
<1>1. /\ IsCall(c, Asks[t]) /\ Right(c, disk.phones, marks)
      /\ job[t].kind = "read" => c.step \in {"pages", "marks", "write"}
      /\ call = [u \in Threads |-> call[u]]
  BY DEF StoreInv, StoreTyped, TypeOK
<1>2. UNCHANGED <<disk, job, marks, roaming>>
  <2>1. UNCHANGED <<databaseVars, marks, roaming>>
    BY Zenon DEF Ask, Refused, ProcessNumber, Settle, Callback
  <2> QED
    BY <2>1 DEF databaseVars
<1>3. ASSUME NEW d, IsCall(d, Asks[t]), Right(d, disk.phones, marks), call' = [call EXCEPT ![t] = d],
             c.step \notin {"pages", "marks", "write"}
      PROVE  StoreInv'
  BY <1>1, <1>2, <1>3, OneCall
<1> HIDE DEF c
<1>4. ASSUME NEW ask \in Asks[t], Ask(t, ask) PROVE StoreInv'
  <2> DEFINE seen == IF ask.road = "info" THEN {Best(ask.number, disk.phones, marks)} ELSE {}
             d == [Idle EXCEPT !.ask = ask, !.step = "accept", !.seen = seen]
  <2>1. c.step = "idle" /\ call' = [call EXCEPT ![t] = d]
    BY <1>4, Zenon DEF Ask, c
  <2>2. \A e : DOMAIN e = DOMAIN Idle =>
            LET n == [e EXCEPT !.ask = ask, !.step = "accept", !.seen = seen]
            IN /\ DOMAIN n = DOMAIN e /\ n.ask = ask /\ n.step = "accept" /\ n.seen = seen
               /\ n.promise = e.promise /\ n.changes = e.changes
    BY DEF Idle
  <2>3. Idle.promise = "none" /\ Idle.changes = 0
    BY DEF Idle
  <2>4. /\ DOMAIN d = DOMAIN Idle /\ d.ask = ask /\ d.step = "accept" /\ d.seen = seen
        /\ d.promise = "none" /\ d.changes = 0
    BY <2>2, <2>3
  <2> HIDE DEF d
  <2>5. IsCall(d, Asks[t])
    BY <2>4 DEF IsCall, Steps
  <2>6. Right(d, disk.phones, marks)
    BY <2>4 DEF Right
  <2> QED
    BY <1>3, <2>1, <2>5, <2>6
<1>5. CASE Refused(t)
  <2>1. c.step = "accept" /\ call' = [call EXCEPT ![t] = Settled(c, "rejected")]
    BY <1>5 DEF Refused, c
  <2> QED
    BY <1>1, <1>3, <2>1, SettledCall, SettledRight
<1>6. CASE ProcessNumber(t)
  <2> DEFINE rows == << PageForm(c.ask.number), Standard(c.ask.number) >>
  <2>1. /\ c.step = "accept" /\ c.ask.road = "process"
        /\ call' = [call EXCEPT ![t] = WithRows(c, rows)]
    BY <1>6 DEF ProcessNumber, WithRows, c
  <2> HIDE DEF rows
  <2> DEFINE d == WithRows(c, rows)
  <2>2. GoesOn(c, d, "reply")
    BY <1>1, <2>1, MovedCall
  <2> HIDE DEF d
  <2>3. IsCall(d, Asks[t]) /\ Right(d, disk.phones, marks)
    BY <1>1, <2>1, <2>2, GoesOnCall DEF GoesOn, Right, Steps
  <2> QED
    BY <1>3, <2>1, <2>3 DEF d
<1>7. CASE Settle(t)
  <2>1. c.step = "reply" /\ call' = [call EXCEPT ![t] = Settled(c, "resolved")]
    BY <1>7 DEF Settle, c
  <2> QED
    BY <1>1, <1>3, <2>1, SettledCall, SettledRight
<1>8. CASE Callback(t)
  <2>1. c.step = "settled" /\ call' = [call EXCEPT ![t] = Idle]
    BY <1>8 DEF Callback, c
  <2>2. Idle.promise = "none" /\ Idle.changes = 0 /\ Idle.step = "idle" /\ Idle.ask.road = "none"
    BY DEF Idle, NoAsk
  <2>3. IsCall(Idle, Asks[t]) /\ Right(Idle, disk.phones, marks)
    BY <2>2 DEF IsCall, Right, Steps
  <2> QED
    BY <1>3, <2>1, <2>3
<1> QED
  BY <1>4, <1>5, <1>6, <1>7, <1>8

LEMMA ServerInv ==
  ASSUME StoreInv, DatabaseTypeOK', NEW t \in Threads,
         \/ Accept(t) \/ NoInstance(t) \/ StatementFails(t) \/ ReadPages(t)
         \/ GetInstanceAgain(t) \/ ReadMarks(t) \/ ReadTable(t)
  PROVE  StoreInv'
<1> DEFINE c == call[t]
           number == c.ask.number
<1>1. /\ IsCall(c, Asks[t]) /\ Right(c, disk.phones, marks) /\ job \in [Threads -> Jobs]
      /\ call = [u \in Threads |-> call[u]] /\ marks \in Seq(Range(marks))
  BY DEF StoreInv, StoreTyped, TypeOK, DatabaseTypeOK
<1>2. ASSUME NEW step \in {"pages", "marks", "write"}, Need(t, step), c.step \notin {"idle", "settled"},
             step = "write" => c.ask.road \in {"set", "insert", "delete"},
             Right(AtStep(c, step), disk.phones, marks)
      PROVE  StoreInv'
  <2> DEFINE d == AtStep(c, step)
  <2>1. GoesOn(c, d, step)
    BY <1>1, <1>2, MovedCall
  <2>2. /\ UNCHANGED <<disk, marks, roaming>> /\ call' = [call EXCEPT ![t] = d]
        /\ job' = [job EXCEPT ![t] = Reading]
    BY <1>2 DEF Need, Call, AtStep
  <2> HIDE DEF d, c
  <2>3. IsCall(d, Asks[t])
    BY <1>1, <1>2, <2>1, GoesOnCall DEF Steps
  <2> QED
    BY <1>1, <1>2, <2>1, <2>2, <2>3, OneCall DEF d, GoesOn
<1>3. ASSUME NEW d, Answer(t, d), IsCall(d, Asks[t]), Right(d, disk.phones, marks) PROVE StoreInv'
  <2>1. /\ UNCHANGED <<disk, marks, roaming>> /\ call' = [call EXCEPT ![t] = d]
        /\ job' = [job EXCEPT ![t] = NoJob]
    BY <1>3 DEF Answer, Release, Finish
  <2>2. NoJob.kind = "none"
    BY DEF NoJob
  <2> QED
    BY <1>1, <1>3, <2>1, <2>2, OneCall
<1> HIDE DEF c
<1>4. ASSUME NEW d, GoesOn(c, d, "reply"), Answer(t, d), c.step \notin {"idle", "settled"},
             Right(d, disk.phones, marks)
      PROVE  StoreInv'
  BY <1>1, <1>3, <1>4, GoesOnCall DEF Steps
<1>5. CASE Accept(t)
  <2>1. c.step = "accept" /\ c.ask.road # "process" /\ Need(t, First(c.ask.road))
    BY <1>5 DEF Accept, c
  <2>2. c.ask \in Asks[t]
    BY <1>1, <2>1 DEF IsCall
  <2>3. c.ask.road \in Roads
    BY <2>2, StoreAssumption, Zenon
  <2> DEFINE step == First(c.ask.road)
             d == AtStep(c, step)
  <2>4. /\ step \in {"pages", "marks", "write"}
        /\ step = "write" => c.ask.road \in {"set", "insert", "delete"}
        /\ c.ask.road = "info" => step = "pages"
    BY <2>1, <2>3 DEF First, Roads
  <2>5. GoesOn(c, d, step)
    BY <1>1, <2>1, MovedCall
  <2> HIDE DEF d, step
  <2>6. Right(d, disk.phones, marks)
    BY <1>1, <2>1, <2>4, <2>5 DEF Right, GoesOn
  <2> QED
    BY <1>2, <2>1, <2>4, <2>6 DEF d, step
<1>6. CASE GetInstanceAgain(t)
  <2>1. c.step = "marks" /\ c.ask.road = "info" /\ Need(t, "marks")
    BY <1>6 DEF GetInstanceAgain, c
  <2> DEFINE d == AtStep(c, "marks")
  <2>2. GoesOn(c, d, "marks")
    BY <1>1, <2>1, MovedCall
  <2> HIDE DEF d
  <2>3. Right(d, disk.phones, marks)
    BY <1>1, <2>1, <2>2 DEF Right, GoesOn
  <2> QED
    BY <1>2, <2>1, <2>3 DEF d
<1>7. CASE NoInstance(t) \/ StatementFails(t)
  <2> DEFINE failed == WithFailure(c)
             replied == AtStep(c, "reply")
  <2>1. /\ c.step \in {"pages", "marks", "write"}
        /\ \/ Answer(t, Settled(c, "rejected"))
           \/ c.ask.road = "info" /\ Answer(t, failed)
           \/ c.ask.road = "set" /\ Answer(t, replied)
    BY <1>7 DEF NoInstance, StatementFails, Failure, WithFailure, AtStep, c
  <2>2. GoesOn(c, failed, "reply") /\ failed.failed = TRUE /\ GoesOn(c, replied, "reply")
    BY <1>1, <2>1, MovedCall
  <2>3. CASE Answer(t, Settled(c, "rejected"))
    BY <1>1, <1>3, <2>1, <2>3, SettledCall, SettledRight
  <2> HIDE DEF failed, replied
  <2>4. CASE Answer(t, failed)
    <3>1. Right(failed, disk.phones, marks)
      BY <1>1, <2>1, <2>2 DEF Right, GoesOn
    <3> QED
      BY <1>4, <2>1, <2>2, <2>4, <3>1
  <2>5. CASE c.ask.road = "set" /\ Answer(t, replied)
    <3>1. Right(replied, disk.phones, marks)
      BY <2>2, <2>5 DEF Right, GoesOn
    <3> QED
      BY <1>4, <2>1, <2>2, <2>5, <3>1
  <2> QED
    BY <2>1, <2>3, <2>4, <2>5
<1>8. CASE ReadPages(t)
  <2> DEFINE rows == QueryLocalYellowPage(number, disk.phones)
             page == FindYellowPageBestMatch(number, rows)
             next == AtStep(c, "marks")
             found == WithInfo(c, page)
  <2>1. /\ c.step = "pages" /\ c.ask.road = "info"
        /\ \/ rows = << >> /\ Answer(t, next)
           \/ rows # << >> /\ Answer(t, found)
    BY <1>8 DEF ReadPages, AtStep, WithInfo, c
  <2>2. /\ GoesOn(c, next, "marks")
        /\ GoesOn(c, found, "reply") /\ found.info = page
    <3>1. c.step \notin {"idle", "settled"}
      BY <2>1
    <3> HIDE DEF page
    <3> QED
      BY <1>1, <3>1, MovedCall, Zenon
  <2>3. Best(number, disk.phones, marks) \in c.seen
    BY <1>1, <2>1 DEF Right
  <2>4. rows # << >> => Best(number, disk.phones, marks) = page
    BY DEF Best
  <2> HIDE DEF next, found, page
  <2>5. CASE rows = << >> /\ Answer(t, next)
    <3>1. Right(next, disk.phones, marks)
      BY <1>1, <2>1, <2>2, <2>3, <2>5 DEF Right, GoesOn
    <3>2. IsCall(next, Asks[t])
      BY <1>1, <2>1, <2>2, GoesOnCall DEF Steps
    <3> QED
      BY <1>3, <2>5, <3>1, <3>2
  <2>6. CASE rows # << >> /\ Answer(t, found)
    <3>1. Right(found, disk.phones, marks)
      BY <1>1, <2>1, <2>2, <2>3, <2>4, <2>6 DEF Right, GoesOn
    <3> QED
      BY <1>4, <2>1, <2>2, <2>6, <3>1
  <2> QED
    BY <2>1, <2>5, <2>6
<1>9. CASE ReadMarks(t)
  <2> DEFINE mark == UserMark(QueryLocalNumberMark(number))
             d == WithInfo(c, mark)
  <2>1. c.step = "marks" /\ c.ask.road = "info" /\ Answer(t, d)
    BY <1>9 DEF ReadMarks, WithInfo, c
  <2>2. GoesOn(c, d, "reply") /\ d.info = mark
    <3>1. c.step \notin {"idle", "settled"}
      BY <2>1
    <3> HIDE DEF mark
    <3> QED
      BY <1>1, <3>1, MovedCall, Zenon
  <2>3. mark = UserMark(Select(marks, EqualTo("NUMBER", Standard(number))))
    BY DEF QueryLocalNumberMark
  <2>4. QueryLocalYellowPage(number, disk.phones) = << >> => Best(number, disk.phones, marks) = mark
    BY <1>1, <2>3, BestOfRows
  <2> HIDE DEF d, mark
  <2>5. c.changes = 2 \/ mark \in c.seen
    BY <1>1, <2>1, <2>3, <2>4 DEF Right
  <2>6. Right(d, disk.phones, marks)
    BY <1>1, <2>1, <2>2, <2>5 DEF Right, GoesOn
  <2> QED
    BY <1>4, <2>1, <2>2, <2>6
<1>10. CASE ReadTable(t)
  <2>1. PICK mappable \in BOOLEAN :
          /\ c.ask.road \in {"pages", "marks"} /\ c.step = c.ask.road
          /\ Answer(t, WithRows(c, IF c.ask.road = "pages" THEN YellowPageProxy(number, mappable)
                                                           ELSE NumberMarkProxy(number, mappable)))
    BY <1>10 DEF ReadTable, WithRows, c
  <2> DEFINE rows == IF c.ask.road = "pages" THEN YellowPageProxy(number, mappable)
                                             ELSE NumberMarkProxy(number, mappable)
  <2>2. /\ c.ask.road \in {"pages", "marks"} /\ c.step = c.ask.road
        /\ Answer(t, WithRows(c, rows))
    BY <2>1
  <2> HIDE DEF rows
  <2> DEFINE d == WithRows(c, rows)
  <2>3. GoesOn(c, d, "reply")
    BY <1>1, <2>2, MovedCall
  <2> HIDE DEF d
  <2>4. Right(d, disk.phones, marks)
    BY <2>2, <2>3 DEF Right, GoesOn
  <2> QED
    BY <1>4, <2>2, <2>3, <2>4 DEF d
<1> QED
  BY <1>5, <1>6, <1>7, <1>8, <1>9, <1>10

\* A write is noted by all other calls.
LEMMA WriteInv ==
  ASSUME StoreInv, DatabaseTypeOK', NEW t \in Threads, Write(t)
  PROVE  StoreInv'
<1> DEFINE c == call[t]
<1>1. \A u \in Threads :
         /\ IsCall(call[u], Asks[u]) /\ Right(call[u], disk.phones, marks)
         /\ job[u].kind = "read" => call[u].step \in {"pages", "marks", "write"}
  BY DEF StoreInv, StoreTyped, TypeOK
<1>2. marks \in Seq(Range(marks)) /\ \A i \in DOMAIN marks : DOMAIN marks[i] = RowFields
  BY DEF StoreInv, StoreTyped, TypeOK, RowFields
<1>3. c.step = "write" /\ c.ask.road \in {"set", "insert", "delete"}
  BY <1>1 DEF Write, IsCall
<1>4. /\ marks' = Written(c.ask) /\ Len(Written(c.ask)) <= MaxRows
      /\ roaming' = roaming /\ disk' = disk /\ job' = [job EXCEPT ![t] = NoJob]
  BY DEF Write, Release, Finish
<1>5. PICK d : /\ d = AtStep(c, "reply") \/ d = Settled(c, "rejected")
               /\ call' = [u \in Threads |-> IF u = t THEN d ELSE Noted(call[u])]
  <2>1. PICK d \in {AtStep(c, "reply")} \cup
                   IF Faults /\ c.ask.road = "set" THEN {Settled(c, "rejected")} ELSE {} :
                call' = [u \in Threads |-> IF u = t THEN d ELSE Noted(call[u])]
    BY Zenon DEF Write, AtStep
  <2> QED
    BY <2>1
<1> HIDE DEF c
<1>6. IsCall(d, Asks[t]) /\ d.ask = c.ask
  <2>1. IsCall(c, Asks[t])
    BY <1>1 DEF c
  <2>2. GoesOn(c, AtStep(c, "reply"), "reply")
    BY <1>3, <2>1, MovedCall
  <2>3. IsCall(AtStep(c, "reply"), Asks[t]) /\ AtStep(c, "reply").ask = c.ask
    BY <1>3, <2>1, <2>2, GoesOnCall DEF GoesOn, Steps
  <2>4. IsCall(Settled(c, "rejected"), Asks[t]) /\ Settled(c, "rejected").ask = c.ask
    BY <1>3, <2>1, SettledCall
  <2> QED
    BY <1>5, <2>3, <2>4
<1>7. /\ marks' \in Seq(Range(marks')) /\ Len(marks') <= MaxRows
      /\ \A i \in DOMAIN marks' : DOMAIN marks'[i] = RowFields
  <2>1. /\ Written(c.ask) \in Seq(Range(Written(c.ask)))
        /\ \A i \in DOMAIN Written(c.ask) : DOMAIN Written(c.ask)[i] = RowFields
    BY <1>2, <1>3, WrittenType
  <2> QED
    BY <1>4, <2>1
<1>8. \A u \in Threads : call'[u] = IF u = t THEN d ELSE Noted(call[u])
  BY <1>5
<1>9. \A u \in Threads : IsCall(call'[u], Asks[u])
  BY <1>1, <1>6, <1>8, NotedCall
<1>10. \A u \in Threads : Right(call'[u], disk'.phones, marks')
  <2>1. Right(d, disk'.phones, marks')
    BY <1>3, <1>6 DEF Right
  <2>2. \A u \in Threads : Right(Noted(call[u]), disk'.phones, marks')
    BY <1>1, <1>2, <1>4, <1>7, NotedRight
  <2> QED
    BY <1>8, <2>1, <2>2
<1>11. \A u \in Threads : job'[u].kind = "read" => call'[u].step \in {"pages", "marks", "write"}
  <2>1. job' \in [Threads -> Jobs] /\ job \in [Threads -> Jobs] /\ NoJob.kind = "none"
    BY DEF DatabaseTypeOK, StoreInv, StoreTyped, TypeOK, NoJob
  <2>2. \A u \in Threads \ {t} : job'[u] = job[u] /\ call'[u].step = call[u].step
    <3>1. \A u \in Threads : Noted(call[u]).step = call[u].step
      BY <1>1, NotedCall
    <3> QED
      BY <1>4, <1>8, <2>1, <3>1
  <2>3. job'[t].kind = "none"
    BY <1>4, <2>1
  <2> QED
    BY <1>1, <2>2, <2>3
<1>12. roaming' \in Countries
  BY <1>4 DEF StoreInv, StoreTyped, TypeOK
<1>13. call' = [u \in Threads |-> call'[u]]
  BY <1>5
<1>14. StoreTyped'
  BY <1>7, <1>9, <1>11, <1>12, <1>13, TypedNext
<1>15. \A u \in Threads : Right(call[u], disk.phones, marks)'
  BY <1>4, <1>10, RightNext
<1> QED
  BY <1>14, <1>15 DEF StoreInv

\* A step of the database is noted by all calls; without the process they are orphaned.
LEMMA ProcessInv ==
  ASSUME StoreInv, DatabaseTypeOK', (\E t \in Threads : Database(t)) \/ ServerDies
  PROVE  StoreInv'
<1>1. \A u \in Threads :
         /\ IsCall(call[u], Asks[u]) /\ Right(call[u], disk.phones, marks)
         /\ job[u].kind = "read" => call[u].step \in {"pages", "marks", "write"}
  BY DEF StoreInv, StoreTyped, TypeOK
<1>2. /\ marks \in Seq(Range(marks)) /\ Len(marks) <= MaxRows /\ roaming \in Countries
      /\ \A i \in DOMAIN marks : DOMAIN marks[i] = RowFields
  BY DEF StoreInv, StoreTyped, TypeOK, RowFields
<1>3. marks' = marks /\ roaming' = roaming
  BY DEF Database, ServerDies
<1>4. \/ Die /\ call' = [u \in Threads |-> Orphaned(call[u])]
      \/ /\ call' = [u \in Threads |-> Noted(call[u])]
         /\ \A u \in Threads : job'[u].kind = "read" => job[u].kind = "read"
  <2>1. CASE ServerDies
    BY <2>1 DEF ServerDies, Crash
  <2>2. ASSUME NEW t \in Threads, Database(t) PROVE <1>4
    <3>1. /\ \A u \in Threads : job'[u].kind = "read" => job[u].kind = "read"
          /\ Dereferenced(t) => Die
      BY <2>2, ReadersOnly DEF Database, StoreInv, StoreTyped, TypeOK
    <3>2. call' = [u \in Threads |-> IF Dereferenced(t) THEN Orphaned(call[u]) ELSE Noted(call[u])]
      BY <2>2 DEF Database
    <3>3. CASE Dereferenced(t)
      BY <3>1, <3>2, <3>3
    <3>4. CASE ~Dereferenced(t)
      BY <3>1, <3>2, <3>4
    <3> QED
      BY <3>3, <3>4
  <2> QED
    BY <2>1, <2>2
<1>5. /\ call' = [u \in Threads |-> call'[u]]
      /\ \A u \in Threads : IsCall(call'[u], Asks[u])
      /\ \A u \in Threads : Right(call'[u], disk'.phones, marks')
      /\ \A u \in Threads : job'[u].kind = "read" => call'[u].step \in {"pages", "marks", "write"}
  <2>1. CASE Die /\ call' = [u \in Threads |-> Orphaned(call[u])]
    <3>1. \A u \in Threads : job'[u].kind # "read"
      BY <2>1 DEF Die, NoJob
    <3>2. \A u \in Threads : IsCall(Orphaned(call[u]), Asks[u])
      BY <1>1, OrphanedCall
    <3>3. disk' = disk
      BY <2>1 DEF Die
    <3>4. \A u \in Threads : Right(Orphaned(call[u]), disk.phones, marks)
      BY <1>1, SettledRight
    <3> QED
      BY <1>3, <2>1, <3>1, <3>2, <3>3, <3>4
  <2>2. CASE /\ call' = [u \in Threads |-> Noted(call[u])]
             /\ \A u \in Threads : job'[u].kind = "read" => job[u].kind = "read"
    <3>1. \A u \in Threads : IsCall(Noted(call[u]), Asks[u]) /\ Noted(call[u]).step = call[u].step
      BY <1>1, NotedCall
    <3>2. marks' \in Seq(Range(marks'))
      BY <1>2, <1>3
    <3>3. \A u \in Threads : Right(Noted(call[u]), disk'.phones, marks')
      BY <1>1, <1>2, <1>3, <3>2, NotedRight
    <3>4. \A u \in Threads : call'[u] = Noted(call[u])
      BY <2>2
    <3> QED
      BY <1>1, <2>2, <3>1, <3>3, <3>4
  <2> QED
    BY <1>4, <2>1, <2>2
<1>6. StoreTyped'
  <2>1. /\ marks' \in Seq(Range(marks')) /\ Len(marks') <= MaxRows /\ roaming' \in Countries
        /\ \A i \in DOMAIN marks' : DOMAIN marks'[i] = RowFields
    BY <1>2, <1>3
  <2> QED
    BY <1>5, <2>1, TypedNext
<1>7. \A u \in Threads : Right(call[u], disk.phones, marks)'
  BY <1>3, <1>5, RightNext
<1> QED
  BY <1>6, <1>7 DEF StoreInv

\* An import does not concern the calls.
LEMMA ImportInv ==
  ASSUME StoreInv, DatabaseTypeOK', NEW t \in Threads, NEW f \in Updates, ImportYellowPageData(t, f)
  PROVE  StoreInv'
<1>1. /\ UNCHANGED <<disk, marks, roaming, call>> /\ job' = [job EXCEPT ![t] = Importing(f)]
  BY DEF ImportYellowPageData, Call
<1>2. job \in [Threads -> Jobs] /\ Importing(f).kind = "import"
  BY DEF StoreInv, StoreTyped, TypeOK, DatabaseTypeOK, Importing
<1>3. /\ IsCall(call[t], Asks[t]) /\ Right(call[t], disk.phones, marks)
      /\ call' = [call EXCEPT ![t] = call[t]]
  BY <1>1 DEF StoreInv, StoreTyped
<1>4. (\A u \in Threads \ {t} : job'[u] = job[u]) /\ job'[t].kind # "read"
  BY <1>1, <1>2
<1> QED
  BY <1>1, <1>3, <1>4, OneCall

LEMMA StoreInvInvariant == Spec => []StoreInv
<1>1. Init => StoreInv
  <2> SUFFICES ASSUME Init PROVE StoreInv
    OBVIOUS
  <2>1. DatabaseTypeOK
    BY InitType DEF Init
  <2>2. marks = << >> /\ roaming \in Countries /\ call = [t \in Threads |-> Idle]
    BY DEF Init
  <2>3. /\ marks \in Seq(Range(marks)) /\ DOMAIN marks = {} /\ Len(marks) <= MaxRows
    <3>1. MaxRows \in Nat
      BY StoreAssumption, Zenon
    <3> QED
      BY <2>2, <3>1
  <2>4. /\ Idle.promise = "none" /\ Idle.changes = 0 /\ Idle.step = "idle"
        /\ Idle.ask = NoAsk /\ NoAsk.road = "none"
    BY DEF Idle, NoAsk
  <2>5. \A t \in Threads : IsCall(Idle, Asks[t]) /\ Right(Idle, disk.phones, marks)
    BY <2>4 DEF IsCall, Right, Steps
  <2>6. \A t \in Threads : job[t].kind = "none"
    <3>1. job = [t \in Threads |-> NoJob]
      BY Zenon DEF Init, DatabaseInit
    <3>2. NoJob.kind = "none"
      BY DEF NoJob
    <3> QED
      BY <3>1, <3>2
  <2>7. \A t \in Threads : call[t] = Idle
    BY <2>2
  <2>8. TypeOK
    BY <2>1, <2>2, <2>3, <2>4, <2>6, <2>7 DEF TypeOK, Steps
  <2>9. call = [t \in Threads |-> call[t]]
    BY <2>2
  <2> QED
    BY <2>3, <2>5, <2>7, <2>8, <2>9 DEF StoreInv, StoreTyped
<1>2. StoreInv /\ [Next]_vars => StoreInv'
  <2> SUFFICES ASSUME StoreInv, [Next]_vars PROVE StoreInv'
    OBVIOUS
  <2>1. DatabaseTypeOK'
    BY StoreStep, NextType DEF StoreInv, StoreTyped, TypeOK
  <2>2. CASE UNCHANGED vars
    <3>1. UNCHANGED <<disk, job, marks, roaming, call>>
      BY <2>2 DEF vars, databaseVars
    <3>2. StoreTyped'
      BY <2>1, <3>1, TypedNext DEF StoreInv, StoreTyped, TypeOK, RowFields
    <3>3. \A t \in Threads : Right(call[t], disk.phones, marks)'
      BY <3>1, RightNext DEF StoreInv
    <3> QED
      BY <3>2, <3>3 DEF StoreInv
  <2>3. CASE Next
    BY <2>1, <2>3, ClientInv, ServerInv, WriteInv, ProcessInv, ImportInv DEF Next
  <2> QED
    BY <2>2, <2>3
<1> QED
  BY <1>1, <1>2, PTL DEF Spec

\* The database, the marks and the calls are in the states named, whatever fails or crashes.
THEOREM StoreTypeCorrect == Spec => []TypeOK
<1>1. StoreInv => TypeOK
  BY DEF StoreInv, StoreTyped
<1> QED
  BY <1>1, StoreInvInvariant, PTL

\* Whatever is imported, set, inserted and deleted between the reads of a query, it answers with
\* what was right at some moment, unless a read failed or the rows changed more than once.
THEOREM AnswerAtomic == Spec => []AnswerIsAtomic
<1>1. StoreInv => AnswerIsAtomic
  <2> SUFFICES ASSUME StoreInv, NEW t \in Threads, call[t].promise = "resolved",
                      call[t].ask.road = "info", ~call[t].failed, call[t].changes < 2
               PROVE  call[t].info \in call[t].seen
    BY DEF AnswerIsAtomic
  <2>1. Right(call[t], disk.phones, marks)
    BY DEF StoreInv
  <2>2. call[t].changes # 2
    OBVIOUS
  <2>3. ~(call[t].failed = TRUE)
    BY Zenon
  <2> QED
    BY <2>1, <2>2, <2>3, Zenon DEF Right
<1> QED
  BY <1>1, StoreInvInvariant, PTL
-----------------------------------------------------------------------------
(* The two roads to a yellow page. *)

\* A selection of rows without a number twice has none either.
LEMMA KeepDistinct ==
  ASSUME NEW R, NEW S
  PROVE  \A s \in Seq(R) : Distinct(s) => Distinct(Keep(s, S))
<1> DEFINE T == {s \in Seq(R) : Distinct(s) => Distinct(Keep(s, S))}
<1>1. << >> \in T
  <2>1. Keep(<< >>, S) = << >> /\ << >> \in Seq(R)
    BY KeepEmpty
  <2> QED
    BY <2>1
<1>2. ASSUME NEW s \in Seq(R), NEW e \in R, s \in T PROVE Append(s, e) \in T
  <2> SUFFICES ASSUME Distinct(Append(s, e)) PROVE Distinct(Keep(Append(s, e), S))
    OBVIOUS
  <2> DEFINE k == Keep(s, S)
  <2>1. /\ Len(s) \in Nat /\ DOMAIN s = 1..Len(s) /\ DOMAIN Append(s, e) = 1..(Len(s) + 1)
        /\ Append(s, e)[Len(s) + 1] = e /\ \A i \in 1..Len(s) : Append(s, e)[i] = s[i]
    OBVIOUS
  <2>2. Distinct(s) /\ \A i \in 1..Len(s) : s[i].number # e.number
    BY <2>1 DEF Distinct
  <2>3. k \in Seq(R) /\ Range(k) = Range(s) \cap S
    BY KeepType, KeepRange
  <2>4. Keep(Append(s, e), S) = IF e \in S THEN Append(k, e) ELSE k
    BY KeepAppend
  <2>5. Distinct(k)
    BY <1>2, <2>2
  <2> HIDE DEF k
  <2>6. \A i \in DOMAIN k : k[i].number # e.number
    <3>1. \A i \in DOMAIN k : k[i] \in Range(s)
      BY <2>3 DEF Range
    <3>2. \A row \in Range(s) : row.number # e.number
      BY <2>1, <2>2 DEF Range
    <3> QED
      BY <3>1, <3>2
  <2>7. Distinct(Append(k, e))
    <3>1. /\ Len(k) \in Nat /\ DOMAIN k = 1..Len(k) /\ DOMAIN Append(k, e) = 1..(Len(k) + 1)
          /\ Append(k, e)[Len(k) + 1] = e /\ \A i \in 1..Len(k) : Append(k, e)[i] = k[i]
      BY <2>3
    <3> QED
      BY <2>5, <2>6, <3>1 DEF Distinct
  <2> QED
    BY <2>4, <2>5, <2>7
<1> HIDE DEF T
<1>3. \A s \in Seq(R) : s \in T
  BY <1>1, <1>2, SeqInduct
<1> QED
  BY <1>3 DEF T

LEMMA OnlyElement ==
  ASSUME NEW i \in Int
  PROVE  Max({i}) = i /\ Min({i}) = i
  BY DEF Max, Min

LEMMA OnlyOne ==
  ASSUME NEW v
  PROVE  Cardinality({v}) = 1 /\ SetToSeq({v})[1] = v
<1>1. Cardinality({v}) = 1
  BY FS_Singleton
<1>2. IsInjective([i \in 1..1 |-> v]) /\ [i \in 1..1 |-> v] \in [1..1 -> {v}]
  BY DEF IsInjective
<1>3. SetToSeq({v}) \in [1..1 -> {v}]
  BY <1>1, <1>2 DEF SetToSeq
<1> QED
  BY <1>1, <1>3

\* MapResult for one value asked for: the row of the value, or that of what it is transformed to.
RowOf(rows, v, w) ==
  IF Has(rows, v) THEN LastWith(rows, v) ELSE [LastWith(rows, w) EXCEPT !.number = v]

LEMMA MapOne ==
  ASSUME NEW R, NEW rows \in Seq(R), NEW v, NEW mapping, DOMAIN mapping = {v},
         \A i \in DOMAIN rows : rows[i].number \in {v, mapping[v]}
  PROVE  LET table == MapResult(rows, mapping)
         IN /\ table = << >> <=> rows = << >>
            /\ rows # << >> => table[1] = RowOf(rows, v, mapping[v])
<1> DEFINE found(u) == IF Has(rows, u) THEN LastWith(rows, u)
                                       ELSE [LastWith(rows, mapping[u]) EXCEPT !.number = u]
           present == {u \in DOMAIN mapping : Has(rows, u) \/ Has(rows, mapping[u])}
           table == [i \in 1..Cardinality(present) |-> found(SetToSeq(present)[i])]
<1>1. MapResult(rows, mapping) = table
  BY DEF MapResult
<1>2. CASE rows = << >>
  <2>1. present = {}
    BY <1>2 DEF Has
  <2>2. 1..Cardinality(present) = {}
    <3> HIDE DEF present
    <3> QED
      BY <2>1, FS_EmptySet
  <2>3. table = << >>
    <3> HIDE DEF present, found
    <3> QED
      BY <2>2
  <2> HIDE DEF table
  <2> QED
    BY <1>1, <1>2, <2>3
<1>3. CASE rows # << >>
  <2>1. 1 \in DOMAIN rows
    BY <1>3
  <2>2. present = {v}
    <3>1. Has(rows, v) \/ Has(rows, mapping[v])
      BY <2>1 DEF Has
    <3> QED
      BY <3>1
  <2>3. Cardinality(present) = 1 /\ SetToSeq(present)[1] = v
    <3> HIDE DEF present
    <3> QED
      BY <2>2, OnlyOne
  <2>4. DOMAIN table = 1..1 /\ table[1] = found(v)
    <3> HIDE DEF present, found
    <3> QED
      BY <2>3
  <2>5. found(v) = RowOf(rows, v, mapping[v])
    BY DEF RowOf
  <2>6. table # << >>
    <3> HIDE DEF table
    <3> QED
      BY <2>4
  <2> HIDE DEF table, found
  <2> QED
    BY <1>1, <1>3, <2>4, <2>5, <2>6
<1> QED
  BY <1>2, <1>3

LEMMA ContentsType ==
  ASSUME NEW phones \in Contents
  PROVE  phones \in Seq(Range(phones)) /\ \A i \in DOMAIN phones : DOMAIN phones[i] = PhoneFields
<1>1. CASE phones = << >>
  BY <1>1
<1>2. ASSUME NEW f \in Files, phones = Pages(f) PROVE phones \in Seq(Range(phones))
                                                      /\ \A i \in DOMAIN phones : DOMAIN phones[i] = PhoneFields
  <2> DEFINE S == {p \in Range(f.phones) :
                      \A i \in DOMAIN f.phones : f.phones[i].record = p.record => f.phones[i].complete}
  <2>1. f.phones \in Seq(Range(f.phones)) /\ \A p \in Range(f.phones) : DOMAIN p = PhoneFields
    BY DatabaseAssumption
  <2>2. phones = Keep(f.phones, S)
    BY <1>2 DEF Pages
  <2> HIDE DEF S
  <2>3. phones \in Seq(Range(f.phones))
    BY <2>1, <2>2, KeepType
  <2>4. phones \in Seq(Range(phones)) /\ \A i \in DOMAIN phones : phones[i] \in Range(f.phones)
    BY <2>3, OverRange
  <2> QED
    BY <2>1, <2>4
<1> QED
  BY <1>1, <1>2 DEF Contents, NoPages

\* The row under the number asked for is the best match, in tables without a number twice.
LEMMA BestIsNamed ==
  ASSUME NEW R, NEW rows \in Seq(R), rows # << >>, Distinct(rows), NEW n, NEW p,
         \A i \in DOMAIN rows : DOMAIN rows[i] = PhoneFields,
         \A i \in DOMAIN rows : rows[i].number \in {n, p}
  PROVE  /\ RowOf(rows, n, p).name = FindYellowPageBestMatch(n, rows).name
         /\ RowOf(rows, n, p).number = n
<1> DEFINE with(v) == {i \in DOMAIN rows : rows[i].number = v}
<1>1. DOMAIN rows = 1..Len(rows) /\ Len(rows) \in Nat /\ 1 \in DOMAIN rows /\ Head(rows) = rows[1]
  OBVIOUS
<1>2. \A v, i : i \in with(v) => with(v) = {i}
  BY DEF Distinct
<1>3. \A v : LastWith(rows, v) = rows[Max(with(v))]
  BY DEF LastWith
<1>4. FindYellowPageBestMatch(n, rows).name =
          IF with(n) # {} THEN rows[Min(with(n))].name ELSE Head(rows).name
  BY DEF FindYellowPageBestMatch, FromYellowPage
<1>5. CASE Has(rows, n)
  <2>1. PICK i \in with(n) : i \in Int /\ rows[i].number = n
    BY <1>1, <1>5 DEF Has
  <2>2. with(n) = {i}
    BY <1>2, <2>1
  <2> HIDE DEF with
  <2>3. Max(with(n)) = i /\ Min(with(n)) = i
    BY <2>1, <2>2, OnlyElement
  <2> QED
    BY <1>3, <1>4, <1>5, <2>1, <2>3 DEF RowOf
<1>6. CASE ~Has(rows, n)
  <2>1. with(n) = {} /\ 1 \in with(p)
    BY <1>1, <1>6 DEF Has
  <2>2. with(p) = {1}
    BY <1>2, <2>1
  <2> HIDE DEF with
  <2>3. LastWith(rows, p) = rows[1]
    BY <1>3, <2>2, OnlyElement
  <2>4. DOMAIN rows[1] = {"record", "name", "number", "complete"}
    BY <1>1 DEF PhoneFields
  <2>5. [rows[1] EXCEPT !.number = n].name = rows[1].name /\ [rows[1] EXCEPT !.number = n].number = n
    BY <2>4
  <2> QED
    BY <1>1, <1>4, <1>6, <2>1, <2>3, <2>5 DEF RowOf
<1> QED
  BY <1>5, <1>6

\* Rows that are not mapped are those that the query for a number chooses from.
LEMMA Unmapped ==
  ASSUME NEW n
  PROVE  YellowPageProxy(n, FALSE) = QueryLocalYellowPage(n, disk.phones)
<1> DEFINE p == PageForm(n)
           under(values) == Keep(disk.phones, {row \in Range(disk.phones) : row.number \in values})
<1>1. CASE p = n
  <2>1. QueryLocalYellowPage(n, disk.phones) = under({n})
    BY <1>1 DEF QueryLocalYellowPage, Select, EqualTo
  <2>2. YellowPageProxy(n, FALSE) = under({n})
    BY <1>1 DEF YellowPageProxy, ProxyQuery, TransformOperation, Select, EqualTo
  <2> QED
    BY <2>1, <2>2
<1>2. CASE p # n
  <2>1. QueryLocalYellowPage(n, disk.phones) = under({p, n})
    BY <1>2 DEF QueryLocalYellowPage, Select, In
  <2>2. YellowPageProxy(n, FALSE) = under({n, p})
    BY <1>2, Zenon DEF YellowPageProxy, ProxyQuery, TransformOperation, Select, EqualTo, In, Conditions
  <2>3. {n, p} = {p, n}
    OBVIOUS
  <2> HIDE DEF under, p
  <2> QED
    BY <2>1, <2>2, <2>3
<1> QED
  BY <1>1, <1>2

LEMMA RoadsMeet ==
  ASSUME disk.phones \in Contents, Distinct(disk.phones), NEW n
  PROVE  LET table == YellowPageProxy(n, TRUE)
             pages == QueryLocalYellowPage(n, disk.phones)
         IN /\ (table = << >>) = (pages = << >>)
            /\ pages # << >> => /\ table[1].name = FindYellowPageBestMatch(n, pages).name
                                /\ table[1].number = n
<1> DEFINE phones == disk.phones
           p == PageForm(n)
           under(values) == Keep(phones, {row \in Range(phones) : row.number \in values})
           pages == QueryLocalYellowPage(n, phones)
           table == YellowPageProxy(n, TRUE)
<1>1. /\ phones \in Seq(Range(phones)) /\ Distinct(phones)
      /\ \A i \in DOMAIN phones : DOMAIN phones[i] = PhoneFields
  BY ContentsType
<1>2. \A values : /\ under(values) \in Seq(Range(phones)) /\ Distinct(under(values))
                  /\ \A i \in DOMAIN under(values) :
                        DOMAIN under(values)[i] = PhoneFields /\ under(values)[i].number \in values
  <2> HIDE DEF phones
  <2> TAKE values
  <2> DEFINE S == {r \in Range(phones) : r.number \in values}
  <2>1. Keep(phones, S) \in Seq(Range(phones)) /\ Distinct(Keep(phones, S))
        /\ Range(Keep(phones, S)) = Range(phones) \cap S
    <3> HIDE DEF S
    <3> QED
      BY <1>1, KeepType, KeepDistinct, KeepRange
  <2>2. \A r \in Range(phones) : DOMAIN r = PhoneFields
    BY <1>1 DEF Range
  <2>3. \A i \in DOMAIN Keep(phones, S) : Keep(phones, S)[i] \in Range(phones) \cap S
    <3> HIDE DEF S
    <3> QED
      BY <2>1 DEF Range
  <2> QED
    BY <2>1, <2>2, <2>3
<1>3. CASE p = n
  <2>1. pages = under({n})
    BY <1>3 DEF QueryLocalYellowPage, Select, EqualTo
  <2>2. table = under({n})
    BY <1>3 DEF YellowPageProxy, ProxyQuery, TransformOperation, Select, EqualTo
  <2>3. ASSUME pages # << >> PROVE RowOf(pages, n, p) = pages[1]
    <3> HIDE DEF phones, pages
    <3>1. 1 \in DOMAIN pages /\ pages[1].number = n
      <4> HIDE DEF under
      <4> QED
        BY <1>2, <2>1, <2>3
    <3>2. {i \in DOMAIN pages : pages[i].number = n} = {1}
      <4> HIDE DEF under
      <4> QED
        BY <1>2, <2>1, <3>1 DEF Distinct
    <3>3. Has(pages, n) /\ LastWith(pages, n) = pages[1]
      BY <3>1, <3>2, OnlyElement DEF Has, LastWith
    <3> QED
      BY <3>3 DEF RowOf
  <2>4. ASSUME pages # << >> PROVE RowOf(pages, n, p).name = FindYellowPageBestMatch(n, pages).name
                                   /\ RowOf(pages, n, p).number = n
    <3>1. \A i \in DOMAIN pages : pages[i].number \in {n, p}
      <4> HIDE DEF under, pages, phones, p
      <4> QED
        BY <1>2, <2>1
    <3> HIDE DEF under, pages, phones, p
    <3> QED
      BY <1>2, <2>1, <2>4, <3>1, BestIsNamed
  <2> HIDE DEF pages, table, under, p
  <2> QED
    BY <2>1, <2>2, <2>3, <2>4 DEF pages, table
<1>4. CASE p # n
  <2>1. pages = under({p, n})
    BY <1>4 DEF QueryLocalYellowPage, Select, In
  <2>2. table = MapResult(under({n, p}), [u \in {n} |-> p])
    BY <1>4, Zenon DEF YellowPageProxy, ProxyQuery, TransformOperation, Select, EqualTo, In, Conditions
  <2>3. {n, p} = {p, n}
    OBVIOUS
  <2>4. /\ (table = << >>) = (pages = << >>)
        /\ pages # << >> => table[1] = RowOf(pages, n, p)
    <3>1. \A i \in DOMAIN pages : pages[i].number \in {n, p}
      <4> HIDE DEF under, pages, phones, p
      <4> QED
        BY <1>2, <2>1, <2>3
    <3>2. pages \in Seq(Range(phones)) /\ table = MapResult(pages, [u \in {n} |-> p])
      <4> HIDE DEF under, pages, table, phones, p
      <4> QED
        BY <1>2, <2>1, <2>2, <2>3
    <3> DEFINE mapping == [u \in {n} |-> p]
               mapped == MapResult(pages, mapping)
    <3>3. /\ mapped = << >> <=> pages = << >>
          /\ pages # << >> => mapped[1] = RowOf(pages, n, p)
      <4>1. DOMAIN mapping = {n} /\ mapping[n] = p
        OBVIOUS
      <4> HIDE DEF under, pages, table, phones, p, mapping
      <4>2. DOMAIN mapping = {n} /\ \A i \in DOMAIN pages : pages[i].number \in {n, mapping[n]}
        BY <3>1, <4>1
      <4>3. /\ MapResult(pages, mapping) = << >> <=> pages = << >>
            /\ pages # << >> => MapResult(pages, mapping)[1] = RowOf(pages, n, mapping[n])
        BY <3>2, <4>2, MapOne
      <4> QED
        BY <4>1, <4>3
    <3>4. mapped = table
      BY <3>2
    <3> HIDE DEF under, pages, table, phones, p, mapped
    <3> QED
      BY <3>3, <3>4
  <2>5. ASSUME pages # << >> PROVE RowOf(pages, n, p).name = FindYellowPageBestMatch(n, pages).name
                                   /\ RowOf(pages, n, p).number = n
    <3>1. \A i \in DOMAIN pages : pages[i].number \in {n, p}
      <4> HIDE DEF under, pages, phones, p
      <4> QED
        BY <1>2, <2>1, <2>3
    <3> HIDE DEF under, pages, phones, p
    <3> QED
      BY <1>2, <2>1, <2>5, <3>1, BestIsNamed
  <2> HIDE DEF pages, table, under, p
  <2> QED
    BY <2>4, <2>5 DEF pages, table
<1> QED
  BY <1>3, <1>4

\* The table queried through StringFieldProxy and the query for a number name the same page, and
\* the former under the number asked for, for any area codes and whatever is in the files.
THEOREM RoadsAgree == Spec => []BothRoadsAgree
<1>1. StoreInv => disk.phones \in Contents
  BY DEF StoreInv, StoreTyped, TypeOK, DatabaseTypeOK
<1>2. disk.phones \in Contents => BothRoadsAgree
  BY RoadsMeet, Unmapped DEF BothRoadsAgree
<1> QED
  BY <1>1, <1>2, StoreInvInvariant, PTL

-----------------------------------------------------------------------------
(* The one form of a mobile number, whatever its last eight digits. *)

Characters == 0..11

Mobiles ==
  {m \in Seq(Digit) : /\ Len(m) = 11 /\ m[1] = 1
                      /\ <<m[2], m[3]>> \in MobileZones \cup ({7} \X {0, 1})}

LEMMA PrefixElements ==
  ASSUME NEW p \in Seq(Characters), NEW s \in Seq(Characters)
  PROVE  IsPrefix(p, s) <=> Len(p) <= Len(s) /\ \A i \in 1..Len(p) : p[i] = s[i]
<1>1. /\ Len(p) \in Nat /\ Len(s) \in Nat
      /\ SubSeq(p, 1, Len(p)) = [i \in 1..Len(p) |-> p[i]]
      /\ SubSeq(s, 1, Len(p)) = [i \in 1..Len(p) |-> s[i]]
  OBVIOUS
<1>2. SubSeq(p, 1, Len(p)) = SubSeq(s, 1, Len(p)) <=> \A i \in 1..Len(p) : p[i] = s[i]
  BY <1>1
<1> QED
  BY <1>2 DEF IsPrefix

LEMMA Joined ==
  ASSUME NEW c \in Seq(Characters), NEW m \in Seq(Characters)
  PROVE  /\ c \o m \in Seq(Characters) /\ Len(c \o m) = Len(c) + Len(m)
         /\ \A i \in 1..Len(c) : (c \o m)[i] = c[i]
         /\ \A i \in 1..Len(m) : (c \o m)[Len(c) + i] = m[i]
         /\ Take(c \o m, Len(c)) = c /\ Drop(c \o m, Len(c)) = m
<1>1. /\ c \o m \in Seq(Characters) /\ Len(c \o m) = Len(c) + Len(m)
      /\ \A i \in 1..Len(c) : (c \o m)[i] = c[i]
      /\ \A i \in 1..Len(m) : (c \o m)[Len(c) + i] = m[i]
      /\ Len(c) \in Nat /\ Len(m) \in Nat
      /\ c = [i \in 1..Len(c) |-> c[i]] /\ m = [i \in 1..Len(m) |-> m[i]]
  OBVIOUS
<1>2. Take(c \o m, Len(c)) = [i \in 1..Len(c) |-> (c \o m)[i]]
  BY <1>1 DEF Take
<1>3. Drop(c \o m, Len(c)) = [i \in 1..Len(m) |-> (c \o m)[Len(c) + i]]
  <2>1. SubSeq(c \o m, Len(c) + 1, Len(c \o m)) = [i \in 1..Len(m) |-> (c \o m)[Len(c) + i]]
    BY <1>1
  <2> QED
    BY <2>1 DEF Drop
<1> QED
  BY <1>1, <1>2, <1>3

LEMMA MobileDigits ==
  ASSUME NEW m \in Mobiles
  PROVE  /\ m \in Seq(Digit) /\ m \in Seq(Characters) /\ Len(m) = 11 /\ m[1] = 1
         /\ m[2] \in 3..9 /\ m[3] \in Digit /\ ~(m[2] = 7 /\ m[3] = 9)
         /\ <<m[2], m[3]>> \in MobileZones \cup ({7} \X {0, 1})
         /\ DOMAIN m = 1..11 /\ (\A i \in 1..11 : m[i] \in Digit) /\ Range(m) \subseteq Digit
<1>1. m \in Seq(Digit) /\ Len(m) = 11 /\ m[1] = 1 /\ <<m[2], m[3]>> \in MobileZones \cup ({7} \X {0, 1})
  BY DEF Mobiles
<1>2. m[2] \in 3..9 /\ m[3] \in Digit /\ ~(m[2] = 7 /\ m[3] = 9)
  BY <1>1 DEF MobileZones, Digit
<1>3. m \in Seq(Characters)
  BY <1>1 DEF Digit, Characters
<1>4. DOMAIN m = 1..11 /\ (\A i \in 1..11 : m[i] \in Digit) /\ Range(m) \subseteq Digit
  BY <1>1, OverRange
<1> QED
  BY <1>1, <1>2, <1>3, <1>4

LEMMA MobileIsNotEmpty ==
  ASSUME NEW m \in Mobiles
  PROVE  m # << >>
<1>1. Len(m) = 11
  BY MobileDigits, Zenon
<1>2. Len(<< >>) = 0
  OBVIOUS
<1>3. Len(m) # Len(<< >>)
  BY <1>1, <1>2
<1> QED
  BY <1>3, Zenon

\* What may stand before a mobile number.
Heads == {<<0>>, <<1, 7, 9, 5, 1>>, <<0, 1, 1, 8, 6>>} \cup ChinaCodes

\* s is the mobile number m with c before it.
Begins(s, c, m) ==
  /\ s \in Seq(Characters) /\ Len(s) = Len(c) + 11
  /\ \A i \in 1..Len(c) : s[i] = c[i]
  /\ \A i \in 1..11 : s[Len(c) + i] = m[i]
  /\ Take(s, Len(c)) = c /\ Drop(s, Len(c)) = m

LEMMA Headed ==
  ASSUME NEW m \in Mobiles, NEW c \in Heads
  PROVE  c \in Seq(Characters) /\ Begins(c \o m, c, m)
<1>1. c \in Seq(Characters)
  <2>1. <<0>> \in Seq(Characters) /\ <<8, 6>> \in Seq(Characters)
    BY DEF Characters
  <2>2. <<Plus, 8, 6>> \in Seq(Characters) /\ <<0, 0, 8, 6>> \in Seq(Characters)
    BY DEF Characters, Plus
  <2>3. <<1, 7, 9, 5, 1>> \in Seq(Characters) /\ <<0, 1, 1, 8, 6>> \in Seq(Characters)
    BY DEF Characters
  <2> QED
    BY <2>1, <2>2, <2>3 DEF Heads, ChinaCodes
<1>2. m \in Seq(Characters) /\ Len(m) = 11
  BY MobileDigits
<1>3. /\ c \o m \in Seq(Characters) /\ Len(c \o m) = Len(c) + Len(m)
      /\ \A i \in 1..Len(c) : (c \o m)[i] = c[i]
      /\ \A i \in 1..Len(m) : (c \o m)[Len(c) + i] = m[i]
      /\ Take(c \o m, Len(c)) = c /\ Drop(c \o m, Len(c)) = m
  <2> HIDE DEF Heads
  <2> QED
    BY <1>1, <1>2, Joined, Zenon
<1> QED
  BY <1>1, <1>2, <1>3 DEF Begins

LEMMA DigitsOnly ==
  ASSUME NEW S, NEW s \in Seq(S), Len(s) \in 1..20, \A i \in 1..Len(s) : s[i] \in Digit
  PROVE  AreDigits(s)
<1>1. s = [i \in 1..Len(s) |-> s[i]]
  OBVIOUS
<1>2. [i \in 1..Len(s) |-> s[i]] \in Seq(Digit)
  OBVIOUS
<1>3. s # << >>
  <2> SUFFICES ASSUME s = << >> PROVE FALSE
    OBVIOUS
  <2>1. Len(s) = 0
    OBVIOUS
  <2> QED
    BY <2>1
<1> QED
  BY <1>1, <1>2, <1>3, Zenon DEF AreDigits

LEMMA BeginsZero ==
  ASSUME NEW m \in Mobiles, NEW s, Begins(s, << 0 >>, m)
  PROVE  /\ s \in Seq(Characters) /\ Len(s) = 12 /\ s[1] = 0 /\ s[2] = 1 /\ s[3] = m[2] /\ s[4] = m[3]
         /\ Tail(s) = m /\ AreDigits(s)
<1>1. m \in Seq(Digit) /\ Len(m) = 11 /\ m[1] = 1 /\ DOMAIN m = 1..11 /\ \A i \in 1..11 : m[i] \in Digit
  BY MobileDigits, Zenon
<1>2. /\ s \in Seq(Characters) /\ Len(s) = 12 /\ s[1] = 0
      /\ \A i \in 1..11 : s[1 + i] = m[i]
      /\ Drop(s, 1) = m
  BY DEF Begins
<1>3. s[1 + 1] = m[1] /\ s[1 + 2] = m[2] /\ s[1 + 3] = m[3]
  BY <1>2
<1>4. Tail(s) = m
  <2>1. Len(s) = 12 /\ s \in Seq(Characters)
    BY <1>2
  <2>2. s # << >>
    <3> SUFFICES ASSUME s = << >> PROVE FALSE
      OBVIOUS
    <3>1. Len(s) = 0
      OBVIOUS
    <3> QED
      BY <2>1, <3>1
  <2>3. Tail(s) = SubSeq(s, 2, Len(s))
    BY <2>1, <2>2, TailIsSubSeq, Zenon
  <2>4. Drop(s, 1) = SubSeq(s, 2, Len(s))
    BY DEF Drop
  <2> QED
    BY <1>2, <2>3, <2>4, Zenon
<1>5. \A i \in 1..12 : s[i] \in Digit
  <2>1. \A i \in 1..12 : i # 1 => i - 1 \in 1..11 /\ s[i] = s[1 + (i - 1)]
    OBVIOUS
  <2> QED
    BY <1>1, <1>2, <2>1 DEF Digit
<1>6. AreDigits(s)
  <2>1. s \in Seq(Characters) /\ Len(s) = 12 /\ 12 \in 1..20
    BY <1>2
  <2> QED
    BY <2>1, <1>5, DigitsOnly, Zenon
<1> QED
  BY <1>1, <1>2, <1>3, <1>4, <1>6

LEMMA BeginsPlus ==
  ASSUME NEW m, NEW s, Begins(s, <<Plus, 8, 6>>, m)
  PROVE  s \in Seq(Characters) /\ Len(s) = 14 /\ s[1] = Plus /\ s[2] = 8 /\ s[3] = 6 /\ Drop(s, 3) = m
  BY DEF Begins

LEMMA BeginsCode ==
  ASSUME NEW m, NEW s, Begins(s, <<8, 6>>, m)
  PROVE  s \in Seq(Characters) /\ Len(s) = 13 /\ s[1] = 8 /\ s[2] = 6 /\ Drop(s, 2) = m
  BY DEF Begins

LEMMA BeginsZeros ==
  ASSUME NEW m, NEW s, Begins(s, <<0, 0, 8, 6>>, m)
  PROVE  /\ s \in Seq(Characters) /\ Len(s) = 15 /\ s[1] = 0 /\ s[2] = 0 /\ s[3] = 8 /\ s[4] = 6
         /\ Drop(s, 4) = m
  BY DEF Begins

LEMMA BeginsIpHead ==
  ASSUME NEW m, NEW s, Begins(s, <<1, 7, 9, 5, 1>>, m)
  PROVE  /\ s \in Seq(Characters) /\ Len(s) = 16 /\ s[1] = 1
         /\ Take(s, 5) = <<1, 7, 9, 5, 1>> /\ Drop(s, 5) = m
  BY DEF Begins

LEMMA BeginsAbroad ==
  ASSUME NEW m, NEW s, Begins(s, <<0, 1, 1, 8, 6>>, m)
  PROVE  /\ s \in Seq(Characters) /\ Len(s) = 16
         /\ s[1] = 0 /\ s[2] = 1 /\ s[3] = 1 /\ s[4] = 8 /\ s[5] = 6 /\ Drop(s, 5) = m
  BY DEF Begins

\* No call-by-call prefix begins like a mobile number, or like one with another thing before it.
LEMMA NoIpHead ==
  ASSUME NEW s \in Seq(Characters), Len(s) >= 5, s[1] \notin {1, 9}
  PROVE  IpHeadBarber(s) = s
<1> DEFINE t == Take(s, 5)
<1>1. t[1] = s[1]
  BY DEF Take
<1>2. \A h \in IpHeads : h[1] \in {1, 9}
  BY DEF IpHeads
<1> HIDE DEF t
<1>3. t \notin IpHeads
  BY <1>1, <1>2
<1> QED
  BY <1>3 DEF IpHeadBarber, t

LEMMA MobileNoIpHead ==
  ASSUME NEW m \in Mobiles
  PROVE  IpHeadBarber(m) = m
<1> DEFINE t == Take(m, 5)
<1>1. m \in Seq(Characters) /\ Len(m) = 11 /\ m[1] = 1 /\ m[2] \in 3..9 /\ ~(m[2] = 7 /\ m[3] = 9)
  BY MobileDigits, Zenon
<1>2. t[1] = m[1] /\ t[2] = m[2] /\ t[3] = m[3]
  BY <1>1 DEF Take
<1>3. \A h \in IpHeads : \/ h[1] = 9
                         \/ h[1] = 1 /\ h[2] \in 0..2
                         \/ h[1] = 1 /\ h[2] = 7 /\ h[3] = 9
  BY DEF IpHeads
<1> HIDE DEF t
<1>4. t \notin IpHeads
  BY <1>1, <1>2, <1>3
<1> QED
  BY <1>4 DEF IpHeadBarber, t

LEMMA NotJustACode ==
  ASSUME NEW s \in Seq(Characters), Len(s) > 4
  PROVE  s \notin ChinaCodes
<1>1. ASSUME s = <<Plus, 8, 6>> PROVE FALSE
  BY <1>1
<1>2. ASSUME s = <<8, 6>> PROVE FALSE
  BY <1>2
<1>3. ASSUME s = <<0, 0, 8, 6>> PROVE FALSE
  BY <1>3
<1> QED
  BY <1>1, <1>2, <1>3 DEF ChinaCodes

LEMMA CodeElements ==
  ASSUME NEW s \in Seq(Characters)
  PROVE  /\ IsPrefix(<<8, 6>>, s) <=> Len(s) >= 2 /\ s[1] = 8 /\ s[2] = 6
         /\ IsPrefix(<<Plus, 8, 6>>, s) <=> Len(s) >= 3 /\ s[1] = Plus /\ s[2] = 8 /\ s[3] = 6
         /\ IsPrefix(<<0, 0, 8, 6>>, s) <=> Len(s) >= 4 /\ s[1] = 0 /\ s[2] = 0 /\ s[3] = 8 /\ s[4] = 6
<1>1. IsPrefix(<<8, 6>>, s) <=> Len(s) >= 2 /\ s[1] = 8 /\ s[2] = 6
  <2> DEFINE p == <<8, 6>>
  <2>1. p \in Seq(Characters) /\ Len(p) = 2 /\ p[1] = 8 /\ p[2] = 6 /\ Len(s) \in Nat
    BY DEF Characters
  <2> HIDE DEF p
  <2>2. IsPrefix(p, s) <=> Len(p) <= Len(s) /\ \A i \in 1..Len(p) : p[i] = s[i]
    BY <2>1, PrefixElements, Zenon
  <2> QED
    BY <2>1, <2>2 DEF p
<1>2. IsPrefix(<<Plus, 8, 6>>, s) <=> Len(s) >= 3 /\ s[1] = Plus /\ s[2] = 8 /\ s[3] = 6
  <2> DEFINE p == <<Plus, 8, 6>>
  <2>1. p \in Seq(Characters) /\ Len(p) = 3 /\ p[1] = Plus /\ p[2] = 8 /\ p[3] = 6 /\ Len(s) \in Nat
    BY DEF Characters, Plus
  <2> HIDE DEF p
  <2>2. IsPrefix(p, s) <=> Len(p) <= Len(s) /\ \A i \in 1..Len(p) : p[i] = s[i]
    BY <2>1, PrefixElements, Zenon
  <2> QED
    BY <2>1, <2>2 DEF p
<1>3. IsPrefix(<<0, 0, 8, 6>>, s) <=> Len(s) >= 4 /\ s[1] = 0 /\ s[2] = 0 /\ s[3] = 8 /\ s[4] = 6
  <2> DEFINE p == <<0, 0, 8, 6>>
  <2>1. p \in Seq(Characters) /\ Len(p) = 4 /\ p[1] = 0 /\ p[2] = 0 /\ p[3] = 8 /\ p[4] = 6 /\ Len(s) \in Nat
    BY DEF Characters
  <2> HIDE DEF p
  <2>2. IsPrefix(p, s) <=> Len(p) <= Len(s) /\ \A i \in 1..Len(p) : p[i] = s[i]
    BY <2>1, PrefixElements, Zenon
  <2> QED
    BY <2>1, <2>2 DEF p
<1> QED
  BY <1>1, <1>2, <1>3

\* A mobile number as it is written at home, but for blanks and a call-by-call prefix.
AtHomeForm(s, m) == s = m \/ \E c \in {<<0>>} \cup ChinaCodes : Begins(s, c, m)

LEMMA OneFormAtHome ==
  ASSUME NEW m \in Mobiles, NEW s, AtHomeForm(s, m)
  PROVE  /\ s \in Seq(Characters) /\ IpHeadBarber(s) = s
         /\ WithoutCode(IF VALID_1ST_0_PATTERN(s) THEN Tail(s) ELSE s) = m
<1>1. /\ m \in Seq(Characters) /\ Len(m) = 11 /\ m[1] = 1
      /\ m[2] \in 3..9 /\ m[3] \in Digit /\ ~(m[2] = 7 /\ m[3] = 9)
      /\ <<m[2], m[3]>> \in MobileZones \cup ({7} \X {0, 1})
      /\ DOMAIN m = 1..11 /\ \A i \in 1..11 : m[i] \in Digit
  BY MobileDigits, Zenon
<1>2. WithoutCode(m) = m
  <2>1. ~IsPrefix(<<8, 6>>, m) /\ ~IsPrefix(<<Plus, 8, 6>>, m) /\ ~IsPrefix(<<0, 0, 8, 6>>, m)
    BY <1>1, CodeElements DEF Plus
  <2>2. m \notin ChinaCodes
    <3>1. Len(m) > 4
      BY <1>1
    <3> QED
      BY <1>1, <3>1, NotJustACode, Zenon
  <2> QED
    BY <2>1, <2>2 DEF WithoutCode
<1>3. HW_CALL_API_FACTORY_MPN_PATTERN(m)
  <2>1. AreDigits(m)
    BY <1>1, MobileIsNotEmpty, MobileDigits, Zenon DEF AreDigits
  <2> QED
    BY <1>1, <2>1 DEF HW_CALL_API_FACTORY_MPN_PATTERN
<1>4. CASE s = m
  <2>1. ~VALID_1ST_0_PATTERN(m)
    BY <1>1 DEF VALID_1ST_0_PATTERN
  <2>2. IpHeadBarber(m) = m
    BY MobileNoIpHead
  <2> QED
    BY <1>1, <1>2, <1>4, <2>1, <2>2
<1>5. CASE Begins(s, <<0>>, m)
  <2>1. /\ s \in Seq(Characters) /\ Len(s) = 12 /\ s[1] = 0 /\ s[2] = 1
        /\ s[3] = m[2] /\ s[4] = m[3] /\ Tail(s) = m /\ AreDigits(s)
    BY <1>5, BeginsZero, Zenon
  <2>2. IpHeadBarber(s) = s
    <3>1. Len(s) >= 5 /\ s[1] \notin {1, 9}
      BY <2>1 DEF Plus
    <3> QED
      BY <2>1, <3>1, NoIpHead, Zenon
  <2>3. VALID_1ST_0_PATTERN(s)
    BY <1>1, <2>1 DEF VALID_1ST_0_PATTERN
  <2> QED
    BY <1>2, <2>1, <2>2, <2>3
<1>6. CASE Begins(s, <<Plus, 8, 6>>, m)
  <2>1. /\ s \in Seq(Characters) /\ Len(s) = 14 /\ s[1] = Plus /\ s[2] = 8 /\ s[3] = 6 /\ Drop(s, 3) = m
    BY <1>6, BeginsPlus, Zenon
  <2>2. IpHeadBarber(s) = s
    <3>1. Len(s) >= 5 /\ s[1] \notin {1, 9}
      BY <2>1 DEF Plus
    <3> QED
      BY <2>1, <3>1, NoIpHead, Zenon
  <2>3. ~VALID_1ST_0_PATTERN(s)
    BY <2>1 DEF VALID_1ST_0_PATTERN
  <2>4. ~IsPrefix(<<8, 6>>, s) /\ IsPrefix(<<Plus, 8, 6>>, s)
    BY <2>1, CodeElements DEF Plus
  <2>5. s \notin ChinaCodes
    <3>1. Len(s) > 4
      BY <2>1
    <3> QED
      BY <2>1, <3>1, NotJustACode, Zenon
  <2> QED
    BY <2>1, <2>2, <2>3, <2>4, <2>5 DEF WithoutCode
<1>7. CASE Begins(s, <<8, 6>>, m)
  <2>1. s \in Seq(Characters) /\ Len(s) = 13 /\ s[1] = 8 /\ s[2] = 6 /\ Drop(s, 2) = m
    BY <1>7, BeginsCode, Zenon
  <2>2. IpHeadBarber(s) = s
    <3>1. Len(s) >= 5 /\ s[1] \notin {1, 9}
      BY <2>1 DEF Plus
    <3> QED
      BY <2>1, <3>1, NoIpHead, Zenon
  <2>3. ~VALID_1ST_0_PATTERN(s)
    BY <2>1 DEF VALID_1ST_0_PATTERN
  <2>4. IsPrefix(<<8, 6>>, s)
    BY <2>1, CodeElements
  <2>5. s \notin ChinaCodes
    <3>1. Len(s) > 4
      BY <2>1
    <3> QED
      BY <2>1, <3>1, NotJustACode, Zenon
  <2>6. IsMobilePhoneNumber(s)
    BY <1>3, <2>1 DEF IsMobilePhoneNumber
  <2> QED
    BY <2>1, <2>2, <2>3, <2>4, <2>5, <2>6 DEF WithoutCode
<1>8. CASE Begins(s, <<0, 0, 8, 6>>, m)
  <2>1. /\ s \in Seq(Characters) /\ Len(s) = 15 /\ s[1] = 0 /\ s[2] = 0 /\ s[3] = 8 /\ s[4] = 6
        /\ Drop(s, 4) = m
    BY <1>8, BeginsZeros, Zenon
  <2>2. IpHeadBarber(s) = s
    <3>1. Len(s) >= 5 /\ s[1] \notin {1, 9}
      BY <2>1 DEF Plus
    <3> QED
      BY <2>1, <3>1, NoIpHead, Zenon
  <2>3. ~VALID_1ST_0_PATTERN(s)
    BY <2>1 DEF VALID_1ST_0_PATTERN
  <2>4. ~IsPrefix(<<8, 6>>, s) /\ ~IsPrefix(<<Plus, 8, 6>>, s) /\ IsPrefix(<<0, 0, 8, 6>>, s)
    BY <2>1, CodeElements DEF Plus
  <2>5. s \notin ChinaCodes
    <3>1. Len(s) > 4
      BY <2>1
    <3> QED
      BY <2>1, <3>1, NotJustACode, Zenon
  <2> QED
    BY <2>1, <2>2, <2>3, <2>4, <2>5 DEF WithoutCode
<1> QED
  BY <1>4, <1>5, <1>6, <1>7, <1>8 DEF AtHomeForm, ChinaCodes

LEMMA OneFormOfIpHead ==
  ASSUME NEW m, NEW s, Begins(s, <<1, 7, 9, 5, 1>>, m)
  PROVE  IpHeadBarber(s) = m
<1>1. /\ s \in Seq(Characters) /\ Len(s) = 16 /\ s[1] = 1
      /\ Take(s, 5) = <<1, 7, 9, 5, 1>> /\ Drop(s, 5) = m
  BY BeginsIpHead, Zenon
<1>2. Take(s, 5) \in IpHeads
  BY <1>1, Zenon DEF IpHeads
<1> QED
  BY <1>1, <1>2 DEF IpHeadBarber

-----------------------------------------------------------------------------
(* The blanks in a number. *)

Shown == Characters \ {Blank}

LEMMA Trimmed ==
  ASSUME NEW s \in Seq(Characters)
  PROVE  Trim(s) = Keep(s, Shown) /\ RemoveDashesAndBlanksBrackets(s) = Keep(s, Shown)
<1>1. Range(s) \subseteq Characters
  BY OverRange
<1>2. Range(s) \cap (Range(s) \ {Blank}) = Range(s) \cap Shown
  BY <1>1 DEF Shown
<1>3. Keep(s, Range(s) \ {Blank}) = Keep(s, Shown)
  <2> HIDE DEF Shown
  <2> QED
    BY <1>2, KeepSame
<1> QED
  BY <1>3 DEF Trim, RemoveDashesAndBlanksBrackets

LEMMA WithoutBlanks ==
  ASSUME NEW s \in Seq(Characters), \A i \in 1..Len(s) : s[i] # Blank
  PROVE  Keep(s, Shown) = s
<1>1. \A i \in DOMAIN s : s[i] \in Shown
  BY DEF Shown
<1>2. Range(s) \subseteq Shown
  BY <1>1 DEF Range
<1> HIDE DEF Shown
<1> QED
  BY <1>2, KeepAll

LEMMA KeepBlank == Keep(<<Blank>>, Shown) = << >>
<1>1. Blank \in Characters /\ Blank \notin Shown
  BY DEF Shown, Blank, Characters
<1>2. Append(<< >>, Blank) = <<Blank>> /\ << >> \in Seq(Characters)
  OBVIOUS
<1> HIDE DEF Shown
<1>3. Keep(Append(<< >>, Blank), Shown) = Keep(<< >>, Shown)
  BY <1>1, <1>2, KeepAppend
<1> QED
  BY <1>2, <1>3, KeepEmpty

LEMMA KeepBetween ==
  ASSUME NEW a \in Seq(Characters), NEW b \in Seq(Characters),
         \A i \in 1..Len(a) : a[i] # Blank, \A i \in 1..Len(b) : b[i] # Blank
  PROVE  Keep((a \o <<Blank>>) \o b, Shown) = a \o b
<1>1. Keep(a, Shown) = a /\ Keep(b, Shown) = b
  BY WithoutBlanks
<1>2. <<Blank>> \in Seq(Characters) /\ a \o <<Blank>> \in Seq(Characters)
  BY DEF Blank, Characters
<1> HIDE DEF Shown, Characters
<1>3. Keep((a \o <<Blank>>) \o b, Shown) = Keep(a \o <<Blank>>, Shown) \o Keep(b, Shown)
  BY <1>2, KeepConcat
<1>4. Keep(a \o <<Blank>>, Shown) = Keep(a, Shown) \o Keep(<<Blank>>, Shown)
  BY <1>2, KeepConcat
<1>5. a \o << >> = a
  OBVIOUS
<1> QED
  BY <1>1, <1>3, <1>4, <1>5, KeepBlank

LEMMA HeadedWithoutBlanks ==
  ASSUME NEW m \in Mobiles, NEW c \in Heads
  PROVE  Keep(c \o m, Shown) = c \o m
<1>1. \A i \in 1..11 : m[i] \in Digit
  BY MobileDigits, Zenon
<1>2. \A i \in 1..Len(c) : c[i] # Blank
  <2>1. \A i \in 1..1 : <<0>>[i] # Blank
    BY DEF Blank
  <2>2. \A i \in 1..5 : <<1, 7, 9, 5, 1>>[i] # Blank /\ <<0, 1, 1, 8, 6>>[i] # Blank
    BY DEF Blank
  <2>3. \A i \in 1..3 : <<Plus, 8, 6>>[i] # Blank
    BY DEF Blank, Plus
  <2>4. (\A i \in 1..2 : <<8, 6>>[i] # Blank) /\ \A i \in 1..4 : <<0, 0, 8, 6>>[i] # Blank
    BY DEF Blank
  <2> QED
    BY <2>1, <2>2, <2>3, <2>4 DEF Heads, ChinaCodes
<1>3. c \in Seq(Characters) /\ Begins(c \o m, c, m)
  <2> HIDE DEF Heads
  <2> QED
    BY Headed
<1> DEFINE s == c \o m
<1> HIDE DEF s
<1>4. s \in Seq(Characters) /\ Begins(s, c, m)
  BY <1>3 DEF s, Begins
<1>5. \A i \in 1..Len(s) : s[i] # Blank
  <2> SUFFICES ASSUME NEW i \in 1..Len(s) PROVE s[i] # Blank
    OBVIOUS
  <2>1. Len(c) \in Nat
    BY <1>3
  <2>2. CASE i \in 1..Len(c)
    BY <1>2, <1>4, <2>2 DEF Begins
  <2>3. CASE i \notin 1..Len(c)
    <3>1. Len(s) = Len(c) + 11
      BY <1>4 DEF Begins
    <3>2. \A k \in 1..11 : m[k] # Blank
      <4>1. \A d \in Digit : d # Blank
        BY DEF Digit, Blank
      <4> QED
        BY <1>1, <4>1, Zenon
    <3>3. PICK k \in 1..11 : i = Len(c) + k
      <4>1. i - Len(c) \in 1..11 /\ i = Len(c) + (i - Len(c))
        BY <2>1, <2>3, <3>1
      <4> QED
        BY <4>1
    <3>4. s[Len(c) + k] = m[k]
      BY <1>4 DEF Begins
    <3> QED
      BY <3>2, <3>3, <3>4
  <2> QED
    BY <2>2, <2>3
<1>6. Keep(s, Shown) = s
  BY <1>4, <1>5, WithoutBlanks
<1> QED
  BY <1>6 DEF s

-----------------------------------------------------------------------------
(* The prefixes for calls abroad. *)

AbroadPrefixes == {<<0, 1, 1>>, <<9, 9, 0>>, <<9, 9, 4>>, <<9, 9, 9>>, <<0, 0>>}

LEMMA PrefixesOfCountries ==
  /\ DOMAIN InternationPrefix = {"US", "CA", "FI", "CN"}
  /\ DOMAIN InternationPrefix["CN"] = {}
  /\ \A iso \in {"US", "CA"} : DOMAIN InternationPrefix[iso] = {1} /\ InternationPrefix[iso][1] = <<0, 1, 1>>
  /\ LET p == InternationPrefix["FI"]
     IN /\ DOMAIN p = 1..4
        /\ p[1] = <<9, 9, 0>> /\ p[2] = <<9, 9, 4>> /\ p[3] = <<9, 9, 9>> /\ p[4] = <<0, 0>>
  BY DEF InternationPrefix

LEMMA PrefixesAreKnown ==
  \A iso \in DOMAIN InternationPrefix :
      \A i \in DOMAIN InternationPrefix[iso] : InternationPrefix[iso][i] \in AbroadPrefixes
<1>1. \A iso \in {"US", "CA"} :
          \A i \in DOMAIN InternationPrefix[iso] : InternationPrefix[iso][i] \in AbroadPrefixes
  BY PrefixesOfCountries DEF AbroadPrefixes
<1>2. \A i \in DOMAIN InternationPrefix["FI"] : InternationPrefix["FI"][i] \in AbroadPrefixes
  <2> DEFINE p == InternationPrefix["FI"]
  <2>1. /\ DOMAIN p = 1..4
        /\ p[1] = <<9, 9, 0>> /\ p[2] = <<9, 9, 4>> /\ p[3] = <<9, 9, 9>> /\ p[4] = <<0, 0>>
    BY PrefixesOfCountries
  <2>2. \A i \in 1..4 : i = 1 \/ i = 2 \/ i = 3 \/ i = 4
    OBVIOUS
  <2> HIDE DEF p
  <2>3. \A i \in DOMAIN p : p[i] \in AbroadPrefixes
    BY <2>1, <2>2, Zenon DEF AbroadPrefixes
  <2> QED
    BY <2>3 DEF p
<1>3. \A i \in DOMAIN InternationPrefix["CN"] : InternationPrefix["CN"][i] \in AbroadPrefixes
  BY PrefixesOfCountries, Zenon
<1>4. \A iso \in DOMAIN InternationPrefix : iso = "US" \/ iso = "CA" \/ iso = "FI" \/ iso = "CN"
  BY PrefixesOfCountries, Zenon
<1> QED
  BY <1>1, <1>2, <1>3, <1>4, Zenon

LEMMA AbroadElements ==
  ASSUME NEW s \in Seq(Characters)
  PROVE  /\ IsPrefix(<<0, 0>>, s) <=> Len(s) >= 2 /\ s[1] = 0 /\ s[2] = 0
         /\ IsPrefix(<<0, 1, 1>>, s) <=> Len(s) >= 3 /\ s[1] = 0 /\ s[2] = 1 /\ s[3] = 1
         /\ \A d \in {0, 4, 9} : IsPrefix(<<9, 9, d>>, s) => s[1] = 9
<1>1. IsPrefix(<<0, 0>>, s) <=> Len(s) >= 2 /\ s[1] = 0 /\ s[2] = 0
  <2> DEFINE p == <<0, 0>>
  <2>1. p \in Seq(Characters) /\ Len(p) = 2 /\ p[1] = 0 /\ p[2] = 0 /\ Len(s) \in Nat
    BY DEF Characters
  <2> HIDE DEF p
  <2>2. IsPrefix(p, s) <=> Len(p) <= Len(s) /\ \A i \in 1..Len(p) : p[i] = s[i]
    BY <2>1, PrefixElements, Zenon
  <2> QED
    BY <2>1, <2>2 DEF p
<1>2. IsPrefix(<<0, 1, 1>>, s) <=> Len(s) >= 3 /\ s[1] = 0 /\ s[2] = 1 /\ s[3] = 1
  <2> DEFINE p == <<0, 1, 1>>
  <2>1. p \in Seq(Characters) /\ Len(p) = 3 /\ p[1] = 0 /\ p[2] = 1 /\ p[3] = 1 /\ Len(s) \in Nat
    BY DEF Characters
  <2> HIDE DEF p
  <2>2. IsPrefix(p, s) <=> Len(p) <= Len(s) /\ \A i \in 1..Len(p) : p[i] = s[i]
    BY <2>1, PrefixElements, Zenon
  <2> QED
    BY <2>1, <2>2 DEF p
<1>3. ASSUME NEW d \in {0, 4, 9}, IsPrefix(<<9, 9, d>>, s) PROVE s[1] = 9
  <2> DEFINE p == <<9, 9, d>>
  <2>1. p \in Seq(Characters) /\ Len(p) = 3 /\ p[1] = 9
    BY DEF Characters
  <2> HIDE DEF p
  <2>2. IsPrefix(p, s)
    BY <1>3 DEF p
  <2>3. \A i \in 1..Len(p) : p[i] = s[i]
    BY <2>1, <2>2, PrefixElements, Zenon
  <2> QED
    BY <2>1, <2>3
<1> QED
  BY <1>1, <1>2, <1>3

\* A number without such a prefix stays as it is.
LEMMA NothingToDelete ==
  ASSUME NEW iso \in DOMAIN InternationPrefix, NEW s \in Seq(Characters), s[1] # 9,
         ~IsPrefix(<<0, 0>>, s), ~IsPrefix(<<0, 1, 1>>, s)
  PROVE  DeleteInternationalPrefix(s, iso) = s
<1>1. \A p \in AbroadPrefixes : ~IsPrefix(p, s)
  BY AbroadElements, Zenon DEF AbroadPrefixes
<1> DEFINE fits == {i \in DOMAIN InternationPrefix[iso] : IsPrefix(InternationPrefix[iso][i], s)}
<1>2. fits = {}
  BY <1>1, PrefixesAreKnown, Zenon
<1> QED
  BY <1>2, Zenon DEF DeleteInternationalPrefix

\* The only prefix that fits is cut off.
LEMMA OneToDelete ==
  ASSUME NEW iso, NEW s, NEW k \in Nat,
         {i \in DOMAIN InternationPrefix[iso] : IsPrefix(InternationPrefix[iso][i], s)} = {k}
  PROVE  DeleteInternationalPrefix(s, iso) = <<Plus>> \o Drop(s, Len(InternationPrefix[iso][k]))
<1> DEFINE fits == {i \in DOMAIN InternationPrefix[iso] : IsPrefix(InternationPrefix[iso][i], s)}
           first == CHOOSE i \in fits : \A j \in fits : i <= j
<1>1. fits = {k}
  OBVIOUS
<1>2. first = k
  <2> HIDE DEF fits
  <2> QED
    BY <1>1
<1>3. fits # {}
  <2> HIDE DEF fits
  <2> QED
    BY <1>1
<1>4. DeleteInternationalPrefix(s, iso) =
          IF fits = {} THEN s ELSE <<Plus>> \o Drop(s, Len(InternationPrefix[iso][first]))
  BY Zenon DEF DeleteInternationalPrefix
<1> HIDE DEF fits, first
<1> QED
  BY <1>2, <1>3, <1>4, Zenon

\* What is then left of a number of China.
LEMMA PlusInstead ==
  ASSUME NEW s \in Seq(Characters), NEW n \in Nat, Len(s) = n + 13, s[n + 1] = 8, s[n + 2] = 6
  PROVE  LET d == <<Plus>> \o Drop(s, n)
         IN d \in Seq(Characters) /\ IsPrefix(<<Plus, 8, 6>>, d) /\ Drop(d, 3) = Drop(s, n + 2)
<1> DEFINE r == Drop(s, n)
           d == <<Plus>> \o r
<1>1. r \in Seq(Characters) /\ Len(r) = 13 /\ \A i \in 1..13 : r[i] = s[n + i]
  BY DEF Drop
<1>2. r[1] = 8 /\ r[2] = 6
  <2>1. r[1] = s[n + 1] /\ r[2] = s[n + 2]
    <3> HIDE DEF r
    <3> QED
      BY <1>1
  <2> QED
    BY <2>1
<1> HIDE DEF r
<1>3. <<Plus>> \in Seq(Characters) /\ Len(<<Plus>>) = 1 /\ <<Plus>>[1] = Plus
  BY DEF Characters, Plus
<1>4. /\ d \in Seq(Characters) /\ Len(d) = 14 /\ d[1] = Plus
      /\ \A i \in 1..13 : d[1 + i] = r[i]
  <2> DEFINE h == <<Plus>>
  <2>1. h \in Seq(Characters) /\ Len(h) = 1 /\ h[1] = Plus
    BY <1>3
  <2> HIDE DEF h
  <2>2. /\ h \o r \in Seq(Characters) /\ Len(h \o r) = Len(h) + Len(r)
        /\ \A i \in 1..Len(h) : (h \o r)[i] = h[i]
        /\ \A i \in 1..Len(r) : (h \o r)[Len(h) + i] = r[i]
    BY <1>1, <2>1, Joined, Zenon
  <2> DEFINE e == h \o r
  <2> HIDE DEF e
  <2>3. /\ e \in Seq(Characters) /\ Len(e) = Len(h) + Len(r)
        /\ \A i \in 1..Len(h) : e[i] = h[i]
        /\ \A i \in 1..Len(r) : e[Len(h) + i] = r[i]
    BY <2>2, Zenon DEF e
  <2>4. Len(h) = 1 /\ Len(r) = 13
    BY <1>1, <2>1
  <2>5. Len(e) = 14
    BY <2>3, <2>4
  <2>6. e[1] = Plus
    BY <2>1, <2>3, <2>4
  <2>7. \A i \in 1..13 : e[1 + i] = r[i]
    BY <2>3, <2>4, Zenon
  <2> QED
    BY <2>3, <2>5, <2>6, <2>7, Zenon DEF e, h
<1> HIDE DEF d
<1>5. d[2] = 8 /\ d[3] = 6
  <2>1. d[1 + 1] = r[1] /\ d[1 + 2] = r[2]
    BY <1>4
  <2> QED
    BY <1>2, <2>1
<1>6. IsPrefix(<<Plus, 8, 6>>, d)
  <2>1. Len(d) >= 3 /\ d[1] = Plus /\ d[2] = 8 /\ d[3] = 6
    BY <1>4, <1>5
  <2> QED
    BY <1>4, <2>1, CodeElements, Zenon
<1>7. Drop(d, 3) = Drop(s, n + 2)
  <2>1. Drop(d, 3) = [i \in 1..11 |-> d[3 + i]]
    BY <1>4 DEF Drop
  <2>2. Drop(s, n + 2) = [i \in 1..11 |-> s[n + 2 + i]]
    <3> DEFINE k == n + 2
    <3>1. k \in Nat /\ Len(s) = k + 11
      OBVIOUS
    <3> HIDE DEF k
    <3>2. Drop(s, k) = [i \in 1..11 |-> s[k + i]]
      BY <3>1, SMTT(30) DEF Drop
    <3> QED
      BY <3>2 DEF k
  <2>3. \A i \in 1..11 : d[3 + i] = s[n + 2 + i]
    <3> SUFFICES ASSUME NEW i \in 1..11 PROVE d[3 + i] = s[n + 2 + i]
      OBVIOUS
    <3>1. PICK k \in 1..13 : k = 2 + i
      OBVIOUS
    <3>2. d[1 + k] = r[k] /\ r[k] = s[n + k]
      BY <1>1, <1>4
    <3>3. 1 + k = 3 + i /\ n + k = n + 2 + i
      BY <3>1
    <3> QED
      BY <3>2, <3>3
  <2> QED
    BY <2>1, <2>2, <2>3
<1> QED
  BY <1>4, <1>6, <1>7 DEF d, r

-----------------------------------------------------------------------------
(* A number of China, dialled at home or abroad. *)

CodeOfChina == <<Plus, 8, 6>>

NotAbroad == ""
Anywhere == {NotAbroad} \cup DOMAIN InternationPrefix

LEMMA Standardized ==
  ASSUME NEW m \in Mobiles, NEW number \in Seq(Characters), NEW country,
         AtHomeForm(AtHome(number, IpHeadBarber(Keep(number, Shown)), country), m)
  PROVE  StandardizationPhoneNum(number, country) = m
<1> DEFINE h == AtHome(number, IpHeadBarber(Keep(number, Shown)), country)
<1>1. RemoveDashesAndBlanksBrackets(number) = Keep(number, Shown)
  BY Trimmed, Zenon
<1>2. StandardizationPhoneNum(number, country) =
          WithoutCode(IF VALID_1ST_0_PATTERN(h) THEN Tail(h) ELSE h)
  BY <1>1, Zenon DEF StandardizationPhoneNum
<1> HIDE DEF h
<1>3. AtHomeForm(h, m)
  BY DEF h
<1>4. WithoutCode(IF VALID_1ST_0_PATTERN(h) THEN Tail(h) ELSE h) = m
  BY <1>3, OneFormAtHome
<1> QED
  BY <1>2, <1>4

LEMMA StaysAsItIs ==
  ASSUME NEW number, NEW s, NEW abroad,
         abroad = NotAbroad \/ IsPrefix(CodeOfChina, s) \/ ~IsPrefix(CodeOfChina, E164Abroad(number, abroad))
  PROVE  AtHome(number, s, abroad) = s
  BY Zenon DEF AtHome, CodeOfChina, NotAbroad

LEMMA ComesHome ==
  ASSUME NEW m \in Mobiles, NEW number, NEW s, NEW abroad, abroad # NotAbroad,
         ~IsPrefix(CodeOfChina, s), IsPrefix(CodeOfChina, E164Abroad(number, abroad)),
         Drop(E164Abroad(number, abroad), 3) = m
  PROVE  AtHome(number, s, abroad) = m
<1>1. HW_CALL_API_FACTORY_MPN_PATTERN(m)
  <2>1. /\ Len(m) = 11 /\ m[1] = 1 /\ m \in Seq(Characters)
        /\ DOMAIN m = 1..11 /\ \A i \in 1..11 : m[i] \in Digit
    BY MobileDigits, Zenon
  <2>2. m # << >>
    BY MobileIsNotEmpty
  <2> QED
    BY <2>1, <2>2, MobileDigits, Zenon DEF HW_CALL_API_FACTORY_MPN_PATTERN, AreDigits
<1> QED
  BY <1>1, Zenon DEF AtHome, CodeOfChina, NotAbroad

\* The number as it would be dialled without the prefix for calls abroad is used if it names China.
LEMMA E164IsNumber ==
  ASSUME NEW number \in Seq(Characters), NEW iso,
         ~IsPrefix(CodeOfChina, number),
         ~IsPrefix(CodeOfChina, DeleteInternationalPrefix(Keep(number, Shown), iso))
  PROVE  ~IsPrefix(CodeOfChina, E164Abroad(number, iso))
<1>1. Trim(number) = Keep(number, Shown)
  BY Trimmed, Zenon
<1> QED
  BY <1>1, Zenon DEF E164Abroad, CodeOfChina

LEMMA E164IsChinese ==
  ASSUME NEW number \in Seq(Characters), NEW iso,
         IsPrefix(CodeOfChina, DeleteInternationalPrefix(Keep(number, Shown), iso))
  PROVE  E164Abroad(number, iso) = DeleteInternationalPrefix(Keep(number, Shown), iso)
<1>1. Trim(number) = Keep(number, Shown)
  BY Trimmed, Zenon
<1> QED
  BY <1>1, Zenon DEF E164Abroad, CodeOfChina

\* No prefix for calls abroad, no code of China: the country does not matter.
LEMMA OneFormWithoutPrefix ==
  ASSUME NEW m \in Mobiles, NEW number \in Seq(Characters),
         NEW country \in Anywhere,
         NEW x \in Seq(Characters), Keep(number, Shown) = x,
         x[1] # 9, x[1] # Plus, number[1] # Plus, ~IsPrefix(<<0, 0>>, x), ~IsPrefix(<<0, 1, 1>>, x),
         AtHomeForm(IpHeadBarber(x), m)
  PROVE  StandardizationPhoneNum(number, country) = m
<1>1. ~IsPrefix(CodeOfChina, x) /\ ~IsPrefix(CodeOfChina, number)
  BY CodeElements, Zenon DEF CodeOfChina
<1>2. country # NotAbroad => ~IsPrefix(CodeOfChina, E164Abroad(number, country))
  <2> SUFFICES ASSUME country # NotAbroad PROVE ~IsPrefix(CodeOfChina, E164Abroad(number, country))
    OBVIOUS
  <2>1. country \in DOMAIN InternationPrefix
    BY Zenon DEF Anywhere
  <2>2. DeleteInternationalPrefix(x, country) = x
    BY <2>1, NothingToDelete, Zenon
  <2> QED
    BY <1>1, <2>2, E164IsNumber, Zenon
<1>3. AtHome(number, IpHeadBarber(x), country) = IpHeadBarber(x)
  BY <1>2, StaysAsItIs, Zenon
<1> QED
  BY <1>3, Standardized, Zenon

LEMMA OneFormPlain ==
  ASSUME NEW m \in Mobiles, NEW country \in Anywhere,
         NEW number \in Seq(Characters), Keep(number, Shown) = m, number[1] # Plus
  PROVE  StandardizationPhoneNum(number, country) = m
<1>1. m \in Seq(Characters) /\ m[1] = 1
  BY MobileDigits, Zenon
<1>2. m[1] # 9 /\ m[1] # Plus /\ ~IsPrefix(<<0, 0>>, m) /\ ~IsPrefix(<<0, 1, 1>>, m)
  <2>1. m[1] # 9 /\ m[1] # Plus /\ m[1] # 0
    BY <1>1 DEF Plus
  <2> QED
    BY <1>1, <2>1, AbroadElements, Zenon
<1>3. AtHomeForm(IpHeadBarber(m), m)
  BY MobileNoIpHead, Zenon DEF AtHomeForm
<1> QED
  BY <1>1, <1>2, <1>3, OneFormWithoutPrefix, Zenon

PlainHeads == {<<0>>, <<1, 7, 9, 5, 1>>, <<8, 6>>}

LEMMA OneFormHeaded ==
  ASSUME NEW m \in Mobiles, NEW country \in Anywhere,
         NEW c \in PlainHeads
  PROVE  StandardizationPhoneNum(c \o m, country) = m
<1> DEFINE s == c \o m
<1>1. c \in Heads
  BY Zenon DEF Heads, ChinaCodes, PlainHeads
<1>2. Begins(s, c, m) /\ Keep(s, Shown) = s
  BY <1>1, Headed, HeadedWithoutBlanks, Zenon
<1> HIDE DEF s
<1>3. s \in Seq(Characters)
  BY <1>2, Zenon DEF Begins
<1>4. /\ s[1] # 9 /\ s[1] # Plus /\ ~IsPrefix(<<0, 0>>, s) /\ ~IsPrefix(<<0, 1, 1>>, s)
      /\ AtHomeForm(IpHeadBarber(s), m)
  <2>1. CASE c = <<0>>
    <3>1. Begins(s, <<0>>, m)
      BY <1>2, <2>1, Zenon
    <3>2. s[1] = 0 /\ s[2] = 1 /\ s[3] = m[2]
      BY <3>1, BeginsZero, Zenon
    <3>3. m[2] \in 3..9
      BY MobileDigits, Zenon
    <3>4. s[1] # 9 /\ s[1] # Plus /\ s[2] # 0 /\ s[3] # 1
      BY <3>2, <3>3 DEF Plus
    <3>5. AtHomeForm(s, m)
      BY <3>1, Zenon DEF AtHomeForm
    <3>6. AtHomeForm(IpHeadBarber(s), m)
      BY <3>5, OneFormAtHome, Zenon
    <3> QED
      BY <1>3, <3>4, <3>6, AbroadElements, Zenon
  <2>2. CASE c = <<1, 7, 9, 5, 1>>
    <3>1. Begins(s, <<1, 7, 9, 5, 1>>, m)
      BY <1>2, <2>2, Zenon
    <3>2. s[1] = 1
      BY <3>1, BeginsIpHead, Zenon
    <3>3. s[1] # 9 /\ s[1] # Plus /\ s[1] # 0
      BY <3>2 DEF Plus
    <3>4. AtHomeForm(IpHeadBarber(s), m)
      BY <3>1, OneFormOfIpHead, Zenon DEF AtHomeForm
    <3> QED
      BY <1>3, <3>3, <3>4, AbroadElements, Zenon
  <2>3. CASE c = <<8, 6>>
    <3>1. Begins(s, <<8, 6>>, m)
      BY <1>2, <2>3, Zenon
    <3>2. s[1] = 8
      BY <3>1, BeginsCode, Zenon
    <3>3. s[1] # 9 /\ s[1] # Plus /\ s[1] # 0
      BY <3>2 DEF Plus
    <3>4. AtHomeForm(s, m)
      BY <3>1, Zenon DEF AtHomeForm, ChinaCodes
    <3>5. AtHomeForm(IpHeadBarber(s), m)
      BY <3>4, OneFormAtHome, Zenon
    <3> QED
      BY <1>3, <3>3, <3>5, AbroadElements, Zenon
  <2> QED
    BY <2>1, <2>2, <2>3, Zenon DEF PlainHeads
<1>5. StandardizationPhoneNum(s, country) = m
  BY <1>2, <1>3, <1>4, OneFormWithoutPrefix, Zenon
<1> QED
  BY <1>5, Zenon DEF s

LEMMA OneFormPlus ==
  ASSUME NEW m \in Mobiles, NEW country
  PROVE  StandardizationPhoneNum(<<Plus, 8, 6>> \o m, country) = m
<1> DEFINE s == <<Plus, 8, 6>> \o m
<1>1. <<Plus, 8, 6>> \in Heads
  BY Zenon DEF Heads, ChinaCodes
<1>2. Begins(s, <<Plus, 8, 6>>, m) /\ Keep(s, Shown) = s
  BY <1>1, Headed, HeadedWithoutBlanks, Zenon
<1> HIDE DEF s
<1>3. s \in Seq(Characters) /\ Len(s) = 14 /\ s[1] = Plus /\ s[2] = 8 /\ s[3] = 6
  BY <1>2, BeginsPlus, Zenon
<1>4. AtHomeForm(s, m)
  BY <1>2, Zenon DEF AtHomeForm, ChinaCodes
<1>5. IpHeadBarber(s) = s
  BY <1>4, OneFormAtHome, Zenon
<1>6. IsPrefix(CodeOfChina, s)
  <2>1. Len(s) >= 3
    BY <1>3
  <2> QED
    BY <1>3, <2>1, CodeElements, Zenon DEF CodeOfChina
<1>7. AtHome(s, s, country) = s
  BY <1>6, StaysAsItIs, Zenon
<1>8. StandardizationPhoneNum(s, country) = m
  <2>1. AtHome(s, IpHeadBarber(Keep(s, Shown)), country) = s
    BY <1>2, <1>5, <1>7, Zenon
  <2>2. AtHomeForm(AtHome(s, IpHeadBarber(Keep(s, Shown)), country), m)
    BY <1>4, <2>1, Zenon
  <2> QED
    BY <1>3, <2>2, Standardized, Zenon
<1> QED
  BY <1>8 DEF s

LEMMA NoneFits ==
  ASSUME NEW iso, NEW s,
         \A i \in DOMAIN InternationPrefix[iso] : ~IsPrefix(InternationPrefix[iso][i], s)
  PROVE  DeleteInternationalPrefix(s, iso) = s
<1> DEFINE fits == {i \in DOMAIN InternationPrefix[iso] : IsPrefix(InternationPrefix[iso][i], s)}
<1>1. fits = {}
  BY Zenon
<1> QED
  BY <1>1, Zenon DEF DeleteInternationalPrefix

\* The prefix of the country before the code of China makes it a number of China.
LEMMA OneFormCutOff ==
  ASSUME NEW m \in Mobiles, NEW country, country # NotAbroad, NEW number \in Seq(Characters),
         NEW s \in Seq(Characters), Keep(number, Shown) = s, NEW n \in Nat, Len(s) = n + 13,
         s[1] = 0, s[n + 1] = 8, s[n + 2] = 6, Drop(s, n + 2) = m,
         DeleteInternationalPrefix(s, country) = <<Plus>> \o Drop(s, n)
  PROVE  StandardizationPhoneNum(number, country) = m
<1> DEFINE d == DeleteInternationalPrefix(s, country)
<1>1. d \in Seq(Characters) /\ IsPrefix(CodeOfChina, d) /\ Drop(d, 3) = m
  BY PlusInstead DEF CodeOfChina
<1> HIDE DEF d
<1>2. E164Abroad(number, country) = d
  <2>1. IsPrefix(CodeOfChina, DeleteInternationalPrefix(Keep(number, Shown), country))
    BY <1>1, Zenon DEF d
  <2> QED
    BY <2>1, E164IsChinese, Zenon DEF d
<1>3. IpHeadBarber(s) = s
  <2>1. Len(s) >= 5 /\ s[1] \notin {1, 9}
    OBVIOUS
  <2> QED
    BY <2>1, NoIpHead, Zenon
<1>4. ~IsPrefix(CodeOfChina, s)
  <2>1. s[1] # Plus
    BY DEF Plus
  <2> QED
    BY <2>1, CodeElements, Zenon DEF CodeOfChina
<1>5. AtHome(number, s, country) = m
  BY <1>1, <1>2, <1>4, ComesHome, Zenon
<1> QED
  BY <1>3, <1>5, Standardized, Zenon DEF AtHomeForm

LEMMA OneFormZeros ==
  ASSUME NEW m \in Mobiles, NEW country \in Anywhere
  PROVE  StandardizationPhoneNum(<<0, 0, 8, 6>> \o m, country) = m
<1> DEFINE s == <<0, 0, 8, 6>> \o m
<1>1. <<0, 0, 8, 6>> \in Heads
  BY Zenon DEF Heads, ChinaCodes
<1>2. Begins(s, <<0, 0, 8, 6>>, m) /\ Keep(s, Shown) = s
  BY <1>1, Headed, HeadedWithoutBlanks, Zenon
<1> HIDE DEF s
<1>3. /\ s \in Seq(Characters) /\ Len(s) = 15 /\ s[1] = 0 /\ s[2] = 0 /\ s[3] = 8 /\ s[4] = 6
      /\ Drop(s, 4) = m
  BY <1>2, BeginsZeros, Zenon
<1>4. AtHomeForm(s, m)
  BY <1>2, Zenon DEF AtHomeForm, ChinaCodes
<1>5. IpHeadBarber(s) = s
  BY <1>4, OneFormAtHome, Zenon
<1>6. IsPrefix(<<0, 0>>, s) /\ ~IsPrefix(<<0, 1, 1>>, s) /\ \A d \in {0, 4, 9} : ~IsPrefix(<<9, 9, d>>, s)
  <2>1. Len(s) >= 2 /\ s[2] # 1 /\ s[1] # 9
    BY <1>3
  <2> QED
    BY <1>3, <2>1, AbroadElements, Zenon
<1>7. ~IsPrefix(CodeOfChina, s)
  <2>1. s[1] # Plus
    BY <1>3 DEF Plus
  <2> QED
    BY <1>3, <2>1, CodeElements, Zenon DEF CodeOfChina
<1>8. ASSUME country = NotAbroad \/ (country # NotAbroad /\ DeleteInternationalPrefix(s, country) = s)
      PROVE  StandardizationPhoneNum(s, country) = m
  <2>1. country # NotAbroad => ~IsPrefix(CodeOfChina, E164Abroad(s, country))
    BY <1>2, <1>3, <1>7, <1>8, E164IsNumber, Zenon
  <2>2. AtHome(s, s, country) = s
    BY <2>1, StaysAsItIs, Zenon
  <2>3. AtHome(s, IpHeadBarber(Keep(s, Shown)), country) = s
    BY <1>2, <1>5, <2>2, Zenon
  <2>4. AtHomeForm(AtHome(s, IpHeadBarber(Keep(s, Shown)), country), m)
    BY <1>4, <2>3, Zenon
  <2> QED
    BY <1>3, <2>4, Standardized, Zenon
<1>9. CASE country = "FI"
  <2> DEFINE p == InternationPrefix["FI"]
  <2>1. /\ DOMAIN p = 1..4
        /\ p[1] = <<9, 9, 0>> /\ p[2] = <<9, 9, 4>> /\ p[3] = <<9, 9, 9>> /\ p[4] = <<0, 0>>
    BY PrefixesOfCountries
  <2> HIDE DEF p
  <2>2. IsPrefix(p[4], s) /\ ~IsPrefix(p[1], s) /\ ~IsPrefix(p[2], s) /\ ~IsPrefix(p[3], s)
    BY <1>6, <2>1, Zenon
  <2>3. {i \in 1..4 : IsPrefix(p[i], s)} = {4}
    <3>1. \A i \in 1..4 : i = 1 \/ i = 2 \/ i = 3 \/ i = 4
      OBVIOUS
    <3>2. 4 \in 1..4
      OBVIOUS
    <3> QED
      BY <2>2, <3>1, <3>2, Zenon
  <2>4. DeleteInternationalPrefix(s, country) = <<Plus>> \o Drop(s, 2)
    <3>1. Len(p[4]) = 2
      BY <2>1
    <3>2. DeleteInternationalPrefix(s, country) = <<Plus>> \o Drop(s, Len(p[4]))
      <4>1. 4 \in Nat
        OBVIOUS
      <4>2. {i \in DOMAIN InternationPrefix[country] : IsPrefix(InternationPrefix[country][i], s)} = {4}
        BY <1>9, <2>1, <2>3, Zenon DEF p
      <4> QED
        BY <1>9, <4>1, <4>2, OneToDelete, Zenon DEF p
    <3> QED
      BY <3>1, <3>2, Zenon
  <2>5. country # NotAbroad
    BY <1>9, Zenon DEF NotAbroad
  <2>6. 2 \in Nat /\ Len(s) = 2 + 13 /\ s[2 + 1] = 8 /\ s[2 + 2] = 6 /\ Drop(s, 2 + 2) = m
    BY <1>3
  <2> QED
    BY <1>2, <1>3, <2>4, <2>5, <2>6, OneFormCutOff, Zenon DEF s
<1>10. CASE country \in {"US", "CA"}
  <2>1. DOMAIN InternationPrefix[country] = {1} /\ InternationPrefix[country][1] = <<0, 1, 1>>
    BY <1>10, PrefixesOfCountries, Zenon
  <2>2. DeleteInternationalPrefix(s, country) = s
    BY <1>6, <2>1, NoneFits, Zenon
  <2>3. StandardizationPhoneNum(s, country) = m
    BY <1>8, <2>2, Zenon
  <2> QED
    BY <2>3, Zenon DEF s
<1>11. CASE country = "CN"
  <2>1. DOMAIN InternationPrefix[country] = {}
    BY <1>11, PrefixesOfCountries, Zenon
  <2>2. DeleteInternationalPrefix(s, country) = s
    BY <2>1, NoneFits, Zenon
  <2>3. StandardizationPhoneNum(s, country) = m
    BY <1>8, <2>2, Zenon
  <2> QED
    BY <2>3, Zenon DEF s
<1>12. CASE country = NotAbroad
  <2>1. StandardizationPhoneNum(s, country) = m
    BY <1>8, <1>12, Zenon
  <2> QED
    BY <2>1, Zenon DEF s
<1> QED
  BY <1>9, <1>10, <1>11, <1>12, PrefixesOfCountries, Zenon DEF Anywhere

\* The prefix of the United States, with or without a blank after it.
LEMMA OneFormFromUS ==
  ASSUME NEW m \in Mobiles, NEW number \in Seq(Characters),
         Keep(number, Shown) = <<0, 1, 1, 8, 6>> \o m
  PROVE  StandardizationPhoneNum(number, "US") = m
<1> DEFINE s == <<0, 1, 1, 8, 6>> \o m
<1>1. <<0, 1, 1, 8, 6>> \in Heads
  BY Zenon DEF Heads
<1>2. Begins(s, <<0, 1, 1, 8, 6>>, m) /\ Keep(number, Shown) = s
  BY <1>1, Headed, Zenon
<1> HIDE DEF s
<1>3. /\ s \in Seq(Characters) /\ Len(s) = 16
      /\ s[1] = 0 /\ s[2] = 1 /\ s[3] = 1 /\ s[4] = 8 /\ s[5] = 6 /\ Drop(s, 5) = m
  BY <1>2, BeginsAbroad, Zenon
<1>4. IsPrefix(<<0, 1, 1>>, s)
  <2>1. Len(s) >= 3
    BY <1>3
  <2> QED
    BY <1>3, <2>1, AbroadElements, Zenon
<1>5. DeleteInternationalPrefix(s, "US") = <<Plus>> \o Drop(s, 3)
  <2>1. DOMAIN InternationPrefix["US"] = {1} /\ InternationPrefix["US"][1] = <<0, 1, 1>>
    BY PrefixesOfCountries, Zenon
  <2>2. {i \in DOMAIN InternationPrefix["US"] : IsPrefix(InternationPrefix["US"][i], s)} = {1}
    BY <1>4, <2>1, Zenon
  <2>3. Len(<<0, 1, 1>>) = 3 /\ 1 \in Nat
    OBVIOUS
  <2>4. DeleteInternationalPrefix(s, "US") = <<Plus>> \o Drop(s, Len(InternationPrefix["US"][1]))
    BY <2>2, <2>3, OneToDelete, Zenon
  <2> QED
    BY <2>1, <2>3, <2>4, Zenon
<1>6. 3 \in Nat /\ Len(s) = 3 + 13 /\ s[3 + 1] = 8 /\ s[3 + 2] = 6 /\ Drop(s, 3 + 2) = m
  BY <1>3
<1>7. "US" # NotAbroad
  BY Zenon DEF NotAbroad
<1> QED
  BY <1>2, <1>3, <1>5, <1>6, <1>7, OneFormCutOff, ZenonT(30)

LEMMA Parts ==
  ASSUME NEW s \in Seq(Characters), NEW n \in Nat, NEW k \in Nat, Len(s) = n + k
  PROVE  /\ Take(s, n) \in Seq(Characters) /\ Len(Take(s, n)) = n
         /\ \A i \in 1..n : Take(s, n)[i] = s[i]
         /\ Drop(s, n) \in Seq(Characters) /\ Len(Drop(s, n)) = k
         /\ \A i \in 1..k : Drop(s, n)[i] = s[n + i]
<1>1. \A i \in 1..(n + k) : s[i] \in Characters
  OBVIOUS
<1>2. Take(s, n) = [i \in 1..n |-> s[i]]
  BY DEF Take
<1>3. Drop(s, n) = [i \in 1..k |-> s[n + i]]
  BY DEF Drop
<1>4. \A i \in 1..k : n + i \in 1..(n + k)
  OBVIOUS
<1>5. \A i \in 1..n : i \in 1..(n + k)
  OBVIOUS
<1>6. [i \in 1..n |-> s[i]] \in Seq(Characters) /\ [i \in 1..k |-> s[n + i]] \in Seq(Characters)
  <2> HIDE DEF Characters
  <2> QED
    BY <1>1, <1>4, <1>5
<1> QED
  BY <1>2, <1>3, <1>6

LEMMA OneFormWithBlank ==
  ASSUME NEW m \in Mobiles, NEW country \in Anywhere
  PROVE  StandardizationPhoneNum(Take(m, 3) \o <<Blank>> \o Drop(m, 3), country) = m
<1> DEFINE a == Take(m, 3)
           b == Drop(m, 3)
           number == (a \o <<Blank>>) \o b
<1>1. m \in Seq(Characters) /\ Len(m) = 11 /\ m[1] = 1
  BY MobileDigits, Zenon
<1>2. \A i \in 1..11 : m[i] # Blank
  <2>1. \A i \in 1..11 : m[i] \in Digit
    BY MobileDigits, Zenon
  <2>2. \A d \in Digit : d # Blank
    BY DEF Digit, Blank
  <2> QED
    BY <2>1, <2>2, Zenon
<1>3. a \in Seq(Characters) /\ Len(a) = 3 /\ \A i \in 1..3 : a[i] = m[i]
  <2>1. Len(m) = 3 + 8 /\ 3 \in Nat /\ 8 \in Nat
    BY <1>1
  <2> QED
    BY <1>1, <2>1, Parts, Zenon
<1>4. b \in Seq(Characters) /\ Len(b) = 8 /\ \A i \in 1..8 : b[i] = m[3 + i]
  <2>1. Len(m) = 3 + 8 /\ 3 \in Nat /\ 8 \in Nat
    BY <1>1
  <2> QED
    BY <1>1, <2>1, Parts, Zenon
<1>5. a \o b = m
  <2>1. Take(m, 3) \o Drop(m, 3) = [i \in 1..11 |-> m[i]]
    BY <1>1 DEF Take, Drop
  <2>2. m = [i \in 1..11 |-> m[i]]
    BY <1>1
  <2> QED
    BY <2>1, <2>2
<1> HIDE DEF a, b
<1>6. (\A i \in 1..Len(a) : a[i] # Blank) /\ (\A i \in 1..Len(b) : b[i] # Blank)
  <2>1. \A i \in 1..3 : i \in 1..11
    OBVIOUS
  <2>2. \A i \in 1..8 : 3 + i \in 1..11
    OBVIOUS
  <2>3. \A i \in 1..Len(a) : a[i] # Blank
    BY <1>2, <1>3, <2>1, Zenon
  <2>4. \A i \in 1..Len(b) : b[i] # Blank
    BY <1>2, <1>4, <2>2, Zenon
  <2> QED
    BY <2>3, <2>4
<1>7. Keep(number, Shown) = m
  BY <1>3, <1>4, <1>5, <1>6, KeepBetween
<1>8. number \in Seq(Characters) /\ number[1] # Plus
  <2>1. <<Blank>> \in Seq(Characters)
    BY DEF Blank, Characters
  <2> DEFINE c == <<Blank>>
             h == a \o c
  <2>5. Len(c) = 1
    OBVIOUS
  <2> HIDE DEF c
  <2>6. h \in Seq(Characters) /\ Len(h) = Len(a) + Len(c) /\ \A i \in 1..Len(a) : h[i] = a[i]
    BY <1>3, <2>1, Joined, Zenon DEF c
  <2> HIDE DEF h
  <2>2. h \in Seq(Characters) /\ Len(h) = 4 /\ h[1] = a[1]
    BY <1>3, <2>5, <2>6
  <2>7. h \o b \in Seq(Characters) /\ \A i \in 1..Len(h) : (h \o b)[i] = h[i]
    BY <1>4, <2>2, Joined, Zenon
  <2>3. h \o b \in Seq(Characters) /\ (h \o b)[1] = h[1]
    <3>1. 1 \in 1..Len(h)
      BY <2>2
    <3> QED
      BY <2>7, <3>1, Zenon
  <2>4. a[1] = 1
    BY <1>1, <1>3
  <2> QED
    <3>1. number[1] = 1
      BY <2>2, <2>3, <2>4, Zenon DEF h, c
    <3>2. 1 # Plus
      BY DEF Plus
    <3> QED
      BY <2>3, <3>1, <3>2, Zenon DEF h, c
<1> HIDE DEF number
<1>9. StandardizationPhoneNum(number, country) = m
  BY <1>7, <1>8, OneFormPlain, Zenon
<1> QED
  BY <1>9, Zenon DEF number, a, b

LEMMA Appended ==
  ASSUME NEW R, NEW s \in Seq(R), NEW t \in Seq(R), Len(t) = Len(s) + 1,
         \A i \in 1..Len(s) : t[i] = s[i]
  PROVE  Append(s, t[Len(t)]) = t
<1> DEFINE n == Len(s) + 1
           e == t[Len(t)]
           u == Append(s, e)
<1>1. n \in Nat /\ Len(s) \in Nat /\ e \in R
  OBVIOUS
<1>2. u \in Seq(R) /\ Len(u) = n /\ u[n] = e /\ \A i \in 1..Len(s) : u[i] = s[i]
  BY <1>1
<1>3. \A i \in 1..n : u[i] = t[i]
  BY <1>1, <1>2
<1> HIDE DEF u, e
<1>4. u = [i \in 1..n |-> u[i]] /\ t = [i \in 1..n |-> t[i]]
  BY <1>2
<1>5. u = t
  BY <1>3, <1>4
<1> QED
  BY <1>5 DEF u, e

LEMMA OneFormFromUSWithBlank ==
  ASSUME NEW m \in Mobiles
  PROVE  StandardizationPhoneNum(<<0, 1, 1, Blank, 8, 6>> \o m, "US") = m
<1> DEFINE a == <<0, 1, 1>>
           c == <<0, 1, 1, Blank, 8, 6>>
           number == c \o m
<1>1. a \in Seq(Characters) /\ c \in Seq(Characters) /\ Blank \in Characters
  BY DEF Characters, Blank
<1>2. \A i \in 1..Len(a) : a[i] # Blank
  BY DEF Blank
<1>4. Keep(c, Shown) = <<0, 1, 1, 8, 6>>
  <2> DEFINE d == Append(a, Blank)
             e == Append(d, 8)
  <2>1. Keep(a, Shown) = a
    BY <1>1, <1>2, WithoutBlanks, Zenon
  <2>2. d = <<0, 1, 1, Blank>> /\ e = <<0, 1, 1, Blank, 8>> /\ c = Append(e, 6)
    <3> DEFINE x == <<0, 1, 1, Blank>>
               y == <<0, 1, 1, Blank, 8>>
    <3>1. x \in Seq(Characters) /\ y \in Seq(Characters)
      BY DEF Characters, Blank
    <3>2. Len(x) = Len(a) + 1 /\ x[Len(x)] = Blank /\ \A i \in 1..Len(a) : x[i] = a[i]
      OBVIOUS
    <3>3. Len(y) = Len(x) + 1 /\ y[Len(y)] = 8 /\ \A i \in 1..Len(x) : y[i] = x[i]
      OBVIOUS
    <3>4. Len(c) = Len(y) + 1 /\ c[Len(c)] = 6 /\ \A i \in 1..Len(y) : c[i] = y[i]
      OBVIOUS
    <3> HIDE DEF a, c, x, y
    <3>5. Append(a, x[Len(x)]) = x /\ Append(x, y[Len(y)]) = y /\ Append(y, c[Len(c)]) = c
      BY <1>1, <3>1, <3>2, <3>3, <3>4, Appended, Zenon
    <3>6. Append(a, Blank) = x /\ Append(x, 8) = y /\ Append(y, 6) = c
      BY <3>2, <3>3, <3>4, <3>5, Zenon
    <3> QED
      BY <3>6, Zenon DEF x, y
  <2>3. Append(a, 8) = <<0, 1, 1, 8>> /\ Append(Append(a, 8), 6) = <<0, 1, 1, 8, 6>>
    <3> DEFINE x == <<0, 1, 1, 8>>
               y == <<0, 1, 1, 8, 6>>
    <3>1. x \in Seq(Characters) /\ y \in Seq(Characters)
      BY DEF Characters
    <3>2. Len(x) = Len(a) + 1 /\ x[Len(x)] = 8 /\ \A i \in 1..Len(a) : x[i] = a[i]
      OBVIOUS
    <3>3. Len(y) = Len(x) + 1 /\ y[Len(y)] = 6 /\ \A i \in 1..Len(x) : y[i] = x[i]
      OBVIOUS
    <3> HIDE DEF a, c, x, y
    <3>4. Append(a, x[Len(x)]) = x /\ Append(x, y[Len(y)]) = y
      BY <1>1, <3>1, <3>2, <3>3, Appended, Zenon
    <3>5. Append(a, 8) = x /\ Append(x, 6) = y
      BY <3>2, <3>3, <3>4, Zenon
    <3> QED
      BY <3>5, Zenon DEF x, y
  <2>4. 8 \in Characters /\ 6 \in Characters /\ 8 \in Shown /\ 6 \in Shown /\ Blank \notin Shown
    BY DEF Characters, Blank, Shown
  <2>5. d \in Seq(Characters) /\ e \in Seq(Characters)
    BY <1>1, <2>4
  <2> HIDE DEF a, c, d, e
  <2>6. Keep(d, Shown) = a
    <3>1. Keep(d, Shown) = IF Blank \in Shown THEN Append(Keep(a, Shown), Blank) ELSE Keep(a, Shown)
      BY <1>1, KeepAppend, Zenon DEF d
    <3> QED
      BY <2>1, <2>4, <3>1, Zenon
  <2>7. Keep(e, Shown) = Append(a, 8)
    <3>1. Keep(e, Shown) = IF 8 \in Shown THEN Append(Keep(d, Shown), 8) ELSE Keep(d, Shown)
      BY <2>4, <2>5, KeepAppend DEF e
    <3> QED
      BY <2>4, <2>6, <3>1, Zenon
  <2>8. Keep(Append(e, 6), Shown) = Append(Append(a, 8), 6)
    <3>1. Keep(Append(e, 6), Shown) = IF 6 \in Shown THEN Append(Keep(e, Shown), 6) ELSE Keep(e, Shown)
      BY <2>4, <2>5, KeepAppend
    <3> QED
      BY <2>4, <2>7, <3>1, Zenon
  <2> QED
    BY <2>2, <2>3, <2>8, Zenon
<1> HIDE DEF a, c
<1>5. m \in Seq(Characters) /\ Keep(m, Shown) = m
  <2>1. m \in Seq(Characters) /\ Len(m) = 11 /\ \A i \in 1..11 : m[i] \in Digit
    BY MobileDigits, Zenon
  <2>2. \A d \in Digit : d # Blank
    BY DEF Digit, Blank
  <2>3. \A i \in 1..Len(m) : m[i] # Blank
    BY <2>1, <2>2, Zenon
  <2> QED
    BY <2>1, <2>3, WithoutBlanks, Zenon
<1>6. number \in Seq(Characters) /\ Keep(number, Shown) = Keep(c, Shown) \o Keep(m, Shown)
  <2>1. number \in Seq(Characters)
    BY <1>1, <1>5, Joined, Zenon
  <2>2. Keep(number, Shown) = Keep(c, Shown) \o Keep(m, Shown)
    BY <1>1, <1>5, KeepConcat, ZenonT(30)
  <2> QED
    BY <2>1, <2>2, Zenon
<1> HIDE DEF number
<1>7. Keep(number, Shown) = <<0, 1, 1, 8, 6>> \o m
  BY <1>4, <1>5, <1>6, Zenon
<1>8. StandardizationPhoneNum(number, "US") = m
  BY <1>6, <1>7, OneFormFromUS, Zenon
<1> QED
  BY <1>8, Zenon DEF number, c

\* For any mobile number, in any country of InternationPrefix and at home.
LEMMA OneFormOfAll ==
  ASSUME NEW m \in Mobiles, NEW country \in Anywhere, NEW s \in Spellings(m, country)
  PROVE  StandardizationPhoneNum(s, country) = m
<1>1. ASSUME s = m PROVE StandardizationPhoneNum(s, country) = m
  <2>1. m \in Seq(Characters) /\ m[1] = 1 /\ Len(m) = 11 /\ \A i \in 1..11 : m[i] \in Digit
    BY MobileDigits, Zenon
  <2>2. \A d \in Digit : d # Blank
    BY DEF Digit, Blank
  <2>3. \A i \in 1..Len(m) : m[i] # Blank
    BY <2>1, <2>2, Zenon
  <2>4. m[1] # Plus
    BY <2>1 DEF Plus
  <2>5. Keep(m, Shown) = m
    BY <2>1, <2>3, WithoutBlanks, Zenon
  <2> QED
    BY <1>1, <2>1, <2>4, <2>5, OneFormPlain, Zenon
<1>2. ASSUME s = << 0 >> \o m \/ s = <<1, 7, 9, 5, 1>> \o m \/ s = <<8, 6>> \o m
      PROVE  StandardizationPhoneNum(s, country) = m
  BY <1>2, OneFormHeaded, Zenon DEF PlainHeads
<1>3. ASSUME country = "US", s = <<0, 1, 1, 8, 6>> \o m PROVE StandardizationPhoneNum(s, country) = m
  <2>1. <<0, 1, 1, 8, 6>> \in Heads
    BY Zenon DEF Heads
  <2>2. Keep(s, Shown) = s /\ s \in Seq(Characters)
    BY <1>3, <2>1, Headed, HeadedWithoutBlanks, Zenon DEF Begins
  <2> QED
    BY <1>3, <2>2, OneFormFromUS, Zenon
<1>4. \/ s = m \/ s = <<0>> \o m \/ s = <<1, 7, 9, 5, 1>> \o m \/ s = <<8, 6>> \o m
      \/ s = <<Plus, 8, 6>> \o m \/ s = <<0, 0, 8, 6>> \o m
      \/ s = Take(m, 3) \o <<Blank>> \o Drop(m, 3)
      \/ country = "US" /\ s = <<0, 1, 1, 8, 6>> \o m
      \/ country = "US" /\ s = <<0, 1, 1, Blank, 8, 6>> \o m
  BY Zenon DEF Spellings, ChinaCodes
<1> QED
  BY <1>1, <1>2, <1>3, <1>4, OneFormPlus, OneFormZeros, OneFormWithBlank, OneFormFromUSWithBlank, Zenon

LEMMA MobileNumbersAreMobile == MobileNumbers \subseteq Mobiles
<1> SUFFICES ASSUME NEW z \in MobileZones \cup ({7} \X {0, 1})
             PROVE  <<1, z[1], z[2], 0, 0, 0, 0, 0, 0, 1, 7>> \in Mobiles
  BY Zenon DEF MobileNumbers
<1> DEFINE m == <<1, z[1], z[2], 0, 0, 0, 0, 0, 0, 1, 7>>
<1>1. z[1] \in Digit /\ z[2] \in Digit /\ z = <<z[1], z[2]>>
  BY DEF MobileZones, Digit
<1>2. m \in Seq(Digit) /\ Len(m) = 11 /\ m[1] = 1 /\ m[2] = z[1] /\ m[3] = z[2]
  BY <1>1 DEF Digit
<1> HIDE DEF m
<1>3. m \in Mobiles
  BY <1>1, <1>2, Zenon DEF Mobiles
<1> QED
  BY <1>3 DEF m

\* However a mobile number is spelled and wherever the phone is, it is marked under one form.
THEOREM OneForm == Spec => []MobileHasOneForm
<1>1. Countries \subseteq Anywhere
  BY StoreAssumption, Zenon DEF Anywhere, NotAbroad
<1>2. Anywhere \cap Countries \subseteq OneFormIn
  BY OneFormOfAll, MobileNumbersAreMobile, Zenon DEF OneFormIn
<1>3. StoreInv => MobileHasOneForm
  <2>1. StoreInv => roaming \in Countries
    BY DEF StoreInv, StoreTyped, TypeOK
  <2> QED
    BY <1>1, <1>2, <2>1, Zenon DEF MobileHasOneForm
<1> QED
  BY <1>3, StoreInvInvariant, PTL
=============================================================================
