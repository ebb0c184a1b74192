--------------------------- MODULE TextBoxProofs ---------------------------
(* Proofs about TextBox, for a box, a queue and keys of any number.          *)
EXTENDS TextBox, FiniteSetTheorems, SequenceTheorems, WellFoundedInduction, TLAPS

-----------------------------------------------------------------------------
(* The inductive invariant *)

\* Between a poll and the drawing after it the queue holds what raylib made of
\* the keys.
PolledInv ==
  pc = "draw" => /\ queue = SubSeq(Typed(keys), 1, Min({Len(Typed(keys)), QueueLimit}))
                 /\ back <=> \E i \in DOMAIN keys : keys[i] = "backspace"

\* Character by character, while nothing has gone wrong.
ContentInv ==
  faults = {} => /\ Len(meant) = currentChar
                 /\ \A i \in 1 .. currentChar : text[i - 1] = meant[i]

TextInv == TypeOK /\ EndsAtCurrentChar /\ PolledInv /\ ContentInv

-----------------------------------------------------------------------------
(* Induction over the keys *)

\* A set of natural numbers has a least one.
LEMMA LeastNumber ==
  ASSUME NEW T \in SUBSET Nat, T # {}
  PROVE  \E x \in T : \A y \in T : x <= y
<1> DEFINE R == {p \in Nat \X Nat : p[1] < p[2]}
<1>1. IsWellFoundedOn(R, Nat)
  BY NatLessThanWellFounded DEF OpToRel
<1>2. PICK x \in T : \A y \in T : ~(<<y, x>> \in R)
  BY <1>1, WFMin
<1>3. ASSUME NEW y \in T
      PROVE  x <= y
  <2>1. ~(<<y, x>> \in R) /\ <<y, x>> \in Nat \X Nat /\ x \in Nat /\ y \in Nat
    BY <1>2
  <2> QED
    BY <2>1
<1> QED
  BY <1>3

\* What holds of 0 and of the next number holds of all.
LEMMA Induction ==
  ASSUME NEW S \in SUBSET Nat, 0 \in S, \A n \in S : n + 1 \in S
  PROVE  \A n \in Nat : n \in S
<1> SUFFICES ASSUME Nat \ S # {} PROVE FALSE
  OBVIOUS
<1>1. PICK n \in Nat \ S : \A m \in Nat \ S : n <= m
  BY LeastNumber
<1>2. n # 0
  OBVIOUS
<1>3. n - 1 \in Nat
  BY <1>2
<1>4. n - 1 \in S
  BY <1>1, <1>3
<1>5. (n - 1) + 1 \in S
  BY <1>4
<1> QED
  BY <1>5

\* A set of numbers up to a bound has a greatest one.
LEMMA GreatestNumber ==
  ASSUME NEW N \in Nat, NEW T \in SUBSET (0 .. N), T # {}
  PROVE  Max(T) \in T /\ \A y \in T : y <= Max(T)
<1> DEFINE D == {d \in Nat : N - d \in T}
<1>1. \E d \in D : \A e \in D : d <= e
  <2>1. PICK x \in T : TRUE
    OBVIOUS
  <2>2. N - x \in D
    <3>1. N - x \in Nat /\ N - (N - x) = x
      BY <2>1
    <3> QED
      BY <3>1
  <2> QED
    BY <2>2, LeastNumber
<1>2. PICK d \in D : \A e \in D : d <= e
  BY <1>1
<1>3. N - d \in T
  OBVIOUS
<1>4. ASSUME NEW y \in T
      PROVE  N - d >= y
  <2>1. N - y \in Nat /\ N - (N - y) = y
    OBVIOUS
  <2>2. N - y \in D
    BY <2>1
  <2>3. d <= N - y
    BY <1>2, <2>2
  <2> QED
    BY <2>1, <2>3
<1>5. \E x \in T : \A y \in T : x >= y
  BY <1>3, <1>4
<1>6. Max(T) \in T /\ \A y \in T : Max(T) >= y
  BY <1>5 DEF Max
<1> QED
  BY <1>6

\* The smaller of two.
LEMMA MinOfTwo ==
  ASSUME NEW a \in Nat, NEW b \in Nat
  PROVE  Min({a, b}) \in {a, b} /\ Min({a, b}) <= a /\ Min({a, b}) <= b
<1>1. \E x \in {a, b} : \A y \in {a, b} : x =< y
  OBVIOUS
<1> QED
  BY <1>1 DEF Min

\* Sequences up to a length.
LEMMA Bounded ==
  ASSUME NEW S, NEW n \in Nat
  PROVE  BoundedSeq(S, n) = {s \in Seq(S) : Len(s) <= n}
  BY DEF BoundedSeq, SeqOf

-----------------------------------------------------------------------------
(* The two recursive functions of the model *)

Kept == Keys \ {"backspace"}
Texts == {s \in Seq(Chars) : Len(s) <= SizeLimit}

\* g has the characters among the first n keys, for every n up to m.
TypedBy(g, ks, m) ==
  /\ g \in [0 .. m -> Seq(Kept)] /\ g[0] = <<>>
  /\ \A n \in 1 .. m : g[n] = IF ks[n] = "backspace" THEN g[n - 1] ELSE Append(g[n - 1], ks[n])
\* ... has the text after the first n keys.
EditedBy(g, s, ks, m) ==
  /\ g \in [0 .. m -> Texts] /\ g[0] = s
  /\ \A n \in 1 .. m : g[n] = Edit(g[n - 1], ks[n])

\* The definition of Typed.
IsTyped(h, ks) ==
  h = [n \in 0 .. Len(ks) |->
        IF n = 0 THEN <<>>
        ELSE IF ks[n] = "backspace" THEN h[n - 1] ELSE Append(h[n - 1], ks[n])]
IsEdited(h, s, ks) ==
  h = [n \in 0 .. Len(ks) |-> IF n = 0 THEN s ELSE Edit(h[n - 1], ks[n])]

LEMMA KeyTypes == Kept = Chars \cup {"odd"} /\ NUL \notin Chars /\ "odd" \notin Chars
                  /\ "backspace" \notin Chars
  BY NULAssumption DEF Kept, Keys

\* Typed is defined, key by key.
LEMMA TypedSteps ==
  ASSUME NEW ks \in Seq(Keys)
  PROVE  \E g : TypedBy(g, ks, Len(ks)) /\ Typed(ks) = g[Len(ks)]
<1> DEFINE S == {m \in Nat : m <= Len(ks) => \E g : TypedBy(g, ks, m)}
<1>1. 0 \in S
  <2>1. TypedBy([n \in 0 .. 0 |-> <<>>], ks, 0)
    BY DEF TypedBy
  <2> QED
    BY <2>1
<1>2. ASSUME NEW m \in S
      PROVE  m + 1 \in S
  <2> SUFFICES ASSUME m + 1 <= Len(ks) PROVE \E g : TypedBy(g, ks, m + 1)
    OBVIOUS
  <2>1. m \in Nat /\ Len(ks) \in Nat /\ m <= Len(ks)
    OBVIOUS
  <2>2. PICK g : TypedBy(g, ks, m)
    BY <2>1
  <2> DEFINE x == IF ks[m + 1] = "backspace" THEN g[m] ELSE Append(g[m], ks[m + 1])
             h == [n \in 0 .. m + 1 |-> IF n = m + 1 THEN x ELSE g[n]]
  <2>3. x \in Seq(Kept)
    <3>1. g[m] \in Seq(Kept)
      BY <2>1, <2>2 DEF TypedBy
    <3>2. ks[m + 1] \in Keys
      BY <2>1
    <3> QED
      BY <3>1, <3>2 DEF Kept
  <2> HIDE DEF x
  <2>4. h \in [0 .. m + 1 -> Seq(Kept)]
    BY <2>1, <2>2, <2>3 DEF TypedBy
  <2>5. h[0] = <<>>
    BY <2>1, <2>2 DEF TypedBy
  <2>6. ASSUME NEW n \in 1 .. m + 1
        PROVE  h[n] = IF ks[n] = "backspace" THEN h[n - 1] ELSE Append(h[n - 1], ks[n])
    <3>1. CASE n = m + 1
      <4>1. h[n] = x /\ h[n - 1] = g[m]
        BY <2>1, <3>1
      <4> QED
        BY <3>1, <4>1 DEF x
    <3>2. CASE n \in 1 .. m
      <4>1. h[n] = g[n] /\ h[n - 1] = g[n - 1]
        BY <2>1, <3>2
      <4> QED
        BY <2>2, <3>2, <4>1 DEF TypedBy
    <3> QED
      BY <2>1, <3>1, <3>2
  <2> HIDE DEF h
  <2> QED
    BY <2>4, <2>5, <2>6 DEF TypedBy
<1>3. \A m \in Nat : m \in S
  <2> HIDE DEF S
  <2>1. S \in SUBSET Nat
    BY DEF S
  <2> QED
    BY <1>1, <1>2, <2>1, Induction
<1>4. PICK g : TypedBy(g, ks, Len(ks))
  <2>1. Len(ks) \in Nat
    OBVIOUS
  <2> QED
    BY <1>3, <2>1
<1>5. IsTyped(g, ks)
  <2> DEFINE e == [n \in 0 .. Len(ks) |->
                    IF n = 0 THEN <<>>
                    ELSE IF ks[n] = "backspace" THEN g[n - 1] ELSE Append(g[n - 1], ks[n])]
  <2>1. DOMAIN g = 0 .. Len(ks) /\ g = [n \in 0 .. Len(ks) |-> g[n]]
    BY <1>4 DEF TypedBy
  <2>2. ASSUME NEW n \in 0 .. Len(ks)
        PROVE  g[n] = e[n]
    <3>1. CASE n = 0
      BY <1>4, <3>1 DEF TypedBy
    <3>2. CASE n # 0
      <4>1. n \in 1 .. Len(ks)
        BY <3>2
      <4>2. g[n] = IF ks[n] = "backspace" THEN g[n - 1] ELSE Append(g[n - 1], ks[n])
        BY <1>4, <4>1 DEF TypedBy
      <4> QED
        BY <3>2, <4>2
    <3> QED
      BY <3>1, <3>2
  <2>3. g = e
    BY <2>1, <2>2
  <2> QED
    BY <2>3 DEF IsTyped
<1> DEFINE t == CHOOSE h : IsTyped(h, ks)
<1>6. IsTyped(t, ks)
  BY <1>5
<1>7. Typed(ks) = t[Len(ks)]
  BY DEF Typed, IsTyped
<1> HIDE DEF t
<1>8. \A n \in 0 .. Len(ks) : t[n] = IF n = 0 THEN <<>>
        ELSE IF ks[n] = "backspace" THEN t[n - 1] ELSE Append(t[n - 1], ks[n])
  BY <1>6 DEF IsTyped
<1> DEFINE E == {m \in Nat : m <= Len(ks) => t[m] = g[m]}
<1>9. 0 \in E
  BY <1>4, <1>8 DEF TypedBy
<1>10. ASSUME NEW m \in E
       PROVE  m + 1 \in E
  <2> SUFFICES ASSUME m + 1 <= Len(ks) PROVE t[m + 1] = g[m + 1]
    OBVIOUS
  <2>1. m \in Nat /\ t[m] = g[m] /\ m + 1 \in 1 .. Len(ks) /\ m + 1 # 0 /\ (m + 1) - 1 = m
    OBVIOUS
  <2>2. t[m + 1] = IF ks[m + 1] = "backspace" THEN t[m] ELSE Append(t[m], ks[m + 1])
    BY <1>8, <2>1
  <2>3. g[m + 1] = IF ks[m + 1] = "backspace" THEN g[m] ELSE Append(g[m], ks[m + 1])
    BY <1>4, <2>1 DEF TypedBy
  <2> QED
    BY <2>1, <2>2, <2>3
<1>11. \A m \in Nat : m \in E
  <2> HIDE DEF E
  <2>1. E \in SUBSET Nat
    BY DEF E
  <2> QED
    BY <1>9, <1>10, <2>1, Induction
<1>12. Len(ks) \in E
  <2>1. Len(ks) \in Nat
    OBVIOUS
  <2> HIDE DEF E
  <2> QED
    BY <1>11, <2>1
<1> QED
  BY <1>4, <1>7, <1>12

\* One key changes a text at its end, and keeps it within the limit.
LEMMA EditIs ==
  ASSUME NEW s \in Texts, NEW k \in Keys
  PROVE  /\ Edit(s, k) \in Texts
         /\ k = "backspace" /\ s # <<>> =>
              /\ Len(Edit(s, k)) = Len(s) - 1
              /\ \A i \in 1 .. Len(s) - 1 : Edit(s, k)[i] = s[i]
         /\ k \in Chars /\ Len(s) < SizeLimit => Edit(s, k) = Append(s, k)
         /\ (k = "backspace" /\ s = <<>>) \/ (k \in Chars /\ Len(s) = SizeLimit) \/ k \in Kept \ Chars
              => Edit(s, k) = s
<1>1. "backspace" \notin Chars /\ SizeLimit \in Nat
  BY KeyTypes, LimitsAssumption
<1>2. s \in Seq(Chars) /\ Len(s) <= SizeLimit /\ Len(s) \in Nat
  BY DEF Texts
<1>3. CASE k = "backspace" /\ s = <<>>
  <2>1. Edit(s, k) = s
    BY <1>1, <1>3 DEF Edit
  <2> QED
    BY <1>1, <1>3, <2>1 DEF Kept
<1>4. CASE k = "backspace" /\ s # <<>>
  <2>1. Edit(s, k) = SubSeq(s, 1, Len(s) - 1)
    BY <1>1, <1>4 DEF Edit, Front
  <2>2. Len(s) # 0
    BY <1>2, <1>4, EmptySeq
  <2>3. Len(s) - 1 \in 0 .. Len(s) /\ \A i \in 1 .. Len(s) - 1 : i \in 1 .. Len(s)
    BY <1>2, <2>2
  <2>4. /\ SubSeq(s, 1, Len(s) - 1) \in Seq(Chars)
        /\ Len(SubSeq(s, 1, Len(s) - 1)) = Len(s) - 1
        /\ \A i \in 1 .. Len(s) - 1 : SubSeq(s, 1, Len(s) - 1)[i] = s[i]
    <3>1. 1 \in Int /\ Len(s) - 1 \in Int /\ \A i \in 1 .. Len(s) - 1 : s[i] \in Chars
      BY <1>2, <2>3
    <3>2. /\ SubSeq(s, 1, Len(s) - 1) \in Seq(Chars)
          /\ Len(SubSeq(s, 1, Len(s) - 1)) = IF 1 <= Len(s) - 1 THEN (Len(s) - 1) - 1 + 1 ELSE 0
          /\ \A i \in 1 .. (Len(s) - 1) - 1 + 1 : SubSeq(s, 1, Len(s) - 1)[i] = s[1 + i - 1]
      BY <3>1, SubSeqProperties
    <3>3. (Len(s) - 1) - 1 + 1 = Len(s) - 1 /\ \A i \in 1 .. Len(s) - 1 : 1 + i - 1 = i
      BY <1>2
    <3>4. Len(SubSeq(s, 1, Len(s) - 1)) = Len(s) - 1
      <4>1. Len(s) \in Nat /\ Len(s) # 0
        BY <1>2, <2>2
      <4>2. Len(SubSeq(s, 1, Len(s) - 1)) = IF 1 <= Len(s) - 1 THEN (Len(s) - 1) - 1 + 1 ELSE 0
        BY <3>2
      <4>3. PICK n \in Nat \ {0} : n = Len(s)
        BY <4>1
      <4>4. (IF 1 <= n - 1 THEN (n - 1) - 1 + 1 ELSE 0) = n - 1
        OBVIOUS
      <4> QED
        BY <4>2, <4>3, <4>4
    <3> QED
      BY <3>2, <3>3, <3>4
  <2> QED
    BY <1>1, <1>2, <1>4, <2>1, <2>4 DEF Texts, Kept
<1>5. CASE k \in Chars /\ Len(s) < SizeLimit
  <2>1. Edit(s, k) = Append(s, k)
    BY <1>1, <1>5 DEF Edit
  <2>2. Append(s, k) \in Seq(Chars) /\ Len(Append(s, k)) = Len(s) + 1
    BY <1>2, <1>5
  <2>3. Append(s, k) \in Texts
    BY <1>1, <1>2, <1>5, <2>2 DEF Texts
  <2> QED
    BY <1>1, <1>5, <2>1, <2>3 DEF Kept
<1>6. CASE k \in Chars /\ ~(Len(s) < SizeLimit)
  BY <1>1, <1>6 DEF Edit, Kept
<1>7. CASE k \notin Chars /\ k # "backspace"
  BY <1>1, <1>7 DEF Edit, Kept
<1> QED
  BY <1>3, <1>4, <1>5, <1>6, <1>7

\* Edited is defined, key by key.
LEMMA EditedSteps ==
  ASSUME NEW ks \in Seq(Keys), NEW s \in Texts
  PROVE  \E g : EditedBy(g, s, ks, Len(ks)) /\ Edited(s, ks) = g[Len(ks)]
<1> DEFINE S == {m \in Nat : m <= Len(ks) => \E g : EditedBy(g, s, ks, m)}
<1>1. 0 \in S
  <2>1. EditedBy([n \in 0 .. 0 |-> s], s, ks, 0)
    BY DEF EditedBy
  <2> QED
    BY <2>1
<1>2. ASSUME NEW m \in S
      PROVE  m + 1 \in S
  <2> SUFFICES ASSUME m + 1 <= Len(ks) PROVE \E g : EditedBy(g, s, ks, m + 1)
    OBVIOUS
  <2>1. m \in Nat /\ Len(ks) \in Nat /\ m <= Len(ks)
    OBVIOUS
  <2>2. PICK g : EditedBy(g, s, ks, m)
    BY <2>1
  <2> DEFINE x == Edit(g[m], ks[m + 1])
             h == [n \in 0 .. m + 1 |-> IF n = m + 1 THEN x ELSE g[n]]
  <2>3. x \in Texts
    <3>1. g[m] \in Texts
      BY <2>1, <2>2 DEF EditedBy
    <3>2. ks[m + 1] \in Keys
      BY <2>1
    <3> QED
      BY <3>1, <3>2, EditIs
  <2> HIDE DEF x
  <2>4. h \in [0 .. m + 1 -> Texts]
    BY <2>1, <2>2, <2>3 DEF EditedBy
  <2>5. h[0] = s
    BY <2>1, <2>2 DEF EditedBy
  <2>6. ASSUME NEW n \in 1 .. m + 1
        PROVE  h[n] = Edit(h[n - 1], ks[n])
    <3>1. CASE n = m + 1
      <4>1. h[n] = x /\ h[n - 1] = g[m]
        BY <2>1, <3>1
      <4> QED
        BY <3>1, <4>1 DEF x
    <3>2. CASE n \in 1 .. m
      <4>1. h[n] = g[n] /\ h[n - 1] = g[n - 1]
        BY <2>1, <3>2
      <4> QED
        BY <2>2, <3>2, <4>1 DEF EditedBy
    <3> QED
      BY <2>1, <3>1, <3>2
  <2> HIDE DEF h
  <2> QED
    BY <2>4, <2>5, <2>6 DEF EditedBy
<1>3. \A m \in Nat : m \in S
  <2> HIDE DEF S
  <2>1. S \in SUBSET Nat
    BY DEF S
  <2> QED
    BY <1>1, <1>2, <2>1, Induction
<1>4. PICK g : EditedBy(g, s, ks, Len(ks))
  <2>1. Len(ks) \in Nat
    OBVIOUS
  <2> QED
    BY <1>3, <2>1
<1>5. IsEdited(g, s, ks)
  <2> DEFINE e == [n \in 0 .. Len(ks) |-> IF n = 0 THEN s ELSE Edit(g[n - 1], ks[n])]
  <2>1. DOMAIN g = 0 .. Len(ks) /\ g = [n \in 0 .. Len(ks) |-> g[n]]
    BY <1>4 DEF EditedBy
  <2>2. ASSUME NEW n \in 0 .. Len(ks)
        PROVE  g[n] = e[n]
    <3>1. CASE n = 0
      BY <1>4, <3>1 DEF EditedBy
    <3>2. CASE n # 0
      <4>1. n \in 1 .. Len(ks)
        BY <3>2
      <4>2. g[n] = Edit(g[n - 1], ks[n])
        BY <1>4, <4>1 DEF EditedBy
      <4> QED
        BY <3>2, <4>2
    <3> QED
      BY <3>1, <3>2
  <2>3. g = e
    BY <2>1, <2>2
  <2> QED
    BY <2>3 DEF IsEdited
<1> DEFINE t == CHOOSE h : IsEdited(h, s, ks)
<1>6. IsEdited(t, s, ks)
  BY <1>5
<1>7. Edited(s, ks) = t[Len(ks)]
  BY DEF Edited, IsEdited
<1> HIDE DEF t
<1>8. \A n \in 0 .. Len(ks) : t[n] = IF n = 0 THEN s ELSE Edit(t[n - 1], ks[n])
  BY <1>6 DEF IsEdited
<1> DEFINE E == {m \in Nat : m <= Len(ks) => t[m] = g[m]}
<1>9. 0 \in E
  BY <1>4, <1>8 DEF EditedBy
<1>10. ASSUME NEW m \in E
       PROVE  m + 1 \in E
  <2> SUFFICES ASSUME m + 1 <= Len(ks) PROVE t[m + 1] = g[m + 1]
    OBVIOUS
  <2>1. m \in Nat /\ t[m] = g[m] /\ m + 1 \in 1 .. Len(ks) /\ m + 1 # 0 /\ (m + 1) - 1 = m
    OBVIOUS
  <2>2. t[m + 1] = Edit(t[m], ks[m + 1])
    BY <1>8, <2>1
  <2>3. g[m + 1] = Edit(g[m], ks[m + 1])
    BY <1>4, <2>1 DEF EditedBy
  <2> QED
    BY <2>1, <2>2, <2>3
<1>11. \A m \in Nat : m \in E
  <2> HIDE DEF E
  <2>1. E \in SUBSET Nat
    BY DEF E
  <2> QED
    BY <1>9, <1>10, <2>1, Induction
<1>12. Len(ks) \in E
  <2>1. Len(ks) \in Nat
    OBVIOUS
  <2> HIDE DEF E
  <2> QED
    BY <1>11, <2>1
<1> QED
  BY <1>4, <1>7, <1>12

\* Of keys with no backspace but the first, the characters are the others.
LEMMA TypedIs ==
  ASSUME NEW ks \in Seq(Keys), NEW b \in {0, 1}, b <= Len(ks),
         \A i \in 1 .. Len(ks) : ks[i] = "backspace" <=> i <= b
  PROVE  Len(Typed(ks)) = Len(ks) - b /\ \A i \in 1 .. Len(ks) - b : Typed(ks)[i] = ks[b + i]
<1>1. PICK g : TypedBy(g, ks, Len(ks)) /\ Typed(ks) = g[Len(ks)]
  BY TypedSteps
<1> DEFINE L == Len(ks)
           P(m) == Len(g[m]) = m - b /\ \A i \in 1 .. m - b : g[m][i] = ks[b + i]
           S == {m \in Nat : b + m <= L => P(b + m)}
<1>2. L \in Nat
  OBVIOUS
<1>3. 0 \in S
  <2>1. CASE b = 0
    BY <1>1, <2>1 DEF TypedBy
  <2>2. CASE b = 1
    <3>1. 1 \in 1 .. L
      BY <1>2, <2>2
    <3>2. g[1] = g[0] /\ g[0] = <<>>
      <4>1. ks[1] = "backspace" /\ 1 - 1 = 0
        BY <2>2, <3>1
      <4> QED
        BY <1>1, <3>1, <4>1 DEF TypedBy
    <3> QED
      BY <2>2, <3>2
  <2> QED
    BY <2>1, <2>2
<1>4. ASSUME NEW m \in S
      PROVE  m + 1 \in S
  <2> SUFFICES ASSUME b + (m + 1) <= L PROVE P(b + (m + 1))
    OBVIOUS
  <2>1. m \in Nat /\ b + m <= L /\ P(b + m)
    BY <1>2
  <2>2. b + (m + 1) \in 1 .. L /\ ~(b + (m + 1) <= b) /\ (b + (m + 1)) - 1 = b + m
    BY <1>2, <2>1
  <2>3. g[b + m] \in Seq(Kept)
    <3>1. b + m \in 0 .. L
      BY <1>2, <2>1
    <3> QED
      BY <1>1, <3>1 DEF TypedBy
  <2>4. g[b + (m + 1)] = Append(g[b + m], ks[b + (m + 1)])
    BY <1>1, <2>2 DEF TypedBy
  <2>5. Len(g[b + m]) = m /\ \A i \in 1 .. m : g[b + m][i] = ks[b + i]
    <3>1. (b + m) - b = m
      BY <2>1
    <3> QED
      BY <2>1, <3>1
  <2>6. ks[b + (m + 1)] \in Kept
    <3>1. ks[b + (m + 1)] \in Keys /\ ks[b + (m + 1)] # "backspace"
      BY <2>2
    <3> QED
      BY <3>1 DEF Kept
  <2>7. /\ Len(g[b + (m + 1)]) = m + 1
        /\ \A i \in 1 .. m : g[b + (m + 1)][i] = g[b + m][i]
        /\ g[b + (m + 1)][m + 1] = ks[b + (m + 1)]
    BY <2>3, <2>4, <2>5, <2>6, AppendProperties
  <2>8. (b + (m + 1)) - b = m + 1
    BY <2>1
  <2>9. ASSUME NEW i \in 1 .. m + 1
        PROVE  g[b + (m + 1)][i] = ks[b + i]
    BY <2>1, <2>5, <2>7, <2>9
  <2> QED
    BY <2>7, <2>8, <2>9
<1>5. \A m \in Nat : m \in S
  <2> HIDE DEF S
  <2>1. S \in SUBSET Nat
    BY DEF S
  <2> QED
    BY <1>3, <1>4, <2>1, Induction
<1>6. L - b \in Nat /\ b + (L - b) = L
  BY <1>2
<1>7. P(L)
  <2>1. L - b \in S
    <3> HIDE DEF S
    <3> QED
      BY <1>5, <1>6
  <2>2. L - b \in Nat /\ b + (L - b) <= L => P(b + (L - b))
    BY <2>1
  <2> HIDE DEF P
  <2> QED
    BY <1>2, <1>6, <2>2
<1> QED
  BY <1>1, <1>7

-----------------------------------------------------------------------------
(* The box, frame by frame *)

LEMMA Limits == SizeLimit \in Nat \ {0} /\ QueueLimit \in Nat \ {0} /\ MaxKeys \in Nat
  BY LimitsAssumption

\* The types in the form the proofs use.
Types ==
  /\ pc \in {"poll", "draw"} /\ text \in [0 .. SizeLimit -> Chars \cup {NUL}]
  /\ currentChar \in 0 .. SizeLimit /\ selected \in BOOLEAN
  /\ keys \in Seq(Keys) /\ Len(keys) <= MaxKeys /\ back \in BOOLEAN
  /\ queue \in Seq(Kept) /\ Len(queue) <= QueueLimit
  /\ meant \in Texts
  /\ faults \subseteq {"order lost", "backspace lost", "stopped at odd", "queue full"}

LEMMA TypesAre == TypeOK <=> Types
<1>1. /\ BoundedSeq(Keys, MaxKeys) = {s \in Seq(Keys) : Len(s) <= MaxKeys}
      /\ BoundedSeq(Kept, QueueLimit) = {s \in Seq(Kept) : Len(s) <= QueueLimit}
      /\ BoundedSeq(Chars, SizeLimit) = Texts
  BY Bounded, Limits DEF Texts
<1> QED
  BY <1>1 DEF TypeOK, Types, Kept

\* The loop over the characters stops at the first that is odd or at the limit.
LEMMA TakenIs ==
  ASSUME Types, NEW from \in 0 .. SizeLimit
  PROVE  /\ Taken(from) \in 0 .. Len(queue) /\ from + Taken(from) <= SizeLimit
         /\ \A i \in 1 .. Taken(from) : queue[i] \in Chars
         /\ Taken(from) < Len(queue) /\ from + Taken(from) < SizeLimit =>
              queue[Taken(from) + 1] \notin Chars
<1> DEFINE T == {n \in 0 .. Len(queue) : from + n <= SizeLimit /\ \A i \in 1 .. n : queue[i] \in Chars}
<1>1. Len(queue) \in Nat /\ SizeLimit \in Nat
  <2>1. queue \in Seq(Kept)
    BY DEF Types
  <2> QED
    BY <2>1, Limits
<1>2. 0 \in T /\ T \in SUBSET (0 .. Len(queue))
  BY <1>1
<1>3. Taken(from) = Max(T)
  BY DEF Taken
<1>4. Taken(from) \in T /\ \A m \in T : m <= Taken(from)
  <2> HIDE DEF T
  <2> QED
    BY <1>1, <1>2, <1>3, GreatestNumber
<1>5. ASSUME Taken(from) < Len(queue), from + Taken(from) < SizeLimit,
             queue[Taken(from) + 1] \in Chars
      PROVE  FALSE
  <2>1. PICK n \in 0 .. Len(queue) : n = Taken(from)
    BY <1>4
  <2>2. n + 1 \in 0 .. Len(queue) /\ from + (n + 1) <= SizeLimit
    BY <1>1, <1>5, <2>1
  <2>3. \A i \in 1 .. n + 1 : queue[i] \in Chars
    <3>1. \A i \in 1 .. n : queue[i] \in Chars
      BY <1>4, <2>1
    <3>2. \A i \in 1 .. n + 1 : i \in 1 .. n \/ i = n + 1
      BY <2>1
    <3> QED
      BY <1>5, <2>1, <3>1, <3>2
  <2>4. n + 1 \in T
    BY <2>2, <2>3
  <2>5. n + 1 <= n
    BY <1>4, <2>1, <2>4
  <2> QED
    BY <2>1, <2>5
<1> QED
  BY <1>4, <1>5

\* Where the first character goes.
From == IF back /\ currentChar > 0 THEN currentChar - 1 ELSE currentChar

\* updateText keeps the end behind what it wrote.
LEMMA UpdateEnds ==
  ASSUME Types, EndsAtCurrentChar, UpdateText
  PROVE  /\ text' \in [0 .. SizeLimit -> Chars \cup {NUL}] /\ currentChar' \in 0 .. SizeLimit
         /\ EndsAtCurrentChar'
         /\ From \in 0 .. currentChar /\ Taken(From) \in 0 .. Len(queue)
         /\ currentChar' = From + Taken(From)
         /\ \A i \in 1 .. From : text'[i - 1] = text[i - 1]
         /\ \A i \in 1 .. Taken(From) : text'[From + i - 1] = queue[i]
<1>1. currentChar \in 0 .. SizeLimit /\ SizeLimit \in Nat /\ Len(queue) \in Nat
  <2>1. queue \in Seq(Kept) /\ currentChar \in 0 .. SizeLimit
    BY DEF Types
  <2> QED
    BY <2>1, Limits
<1>2. From \in 0 .. currentChar /\ From \in 0 .. SizeLimit
  BY <1>1 DEF From
<1>3. PICK from \in 0 .. SizeLimit : from = From
  BY <1>2
<1>4. PICK n \in 0 .. Len(queue) : n = Taken(from)
  BY <1>3, TakenIs
<1>5. from + n <= SizeLimit /\ \A i \in 1 .. n : queue[i] \in Chars
  BY <1>4, TakenIs
<1>6. /\ currentChar' = from + n
      /\ text' = [i \in 0 .. SizeLimit |->
                    IF i \in from .. from + n - 1 THEN queue[i - from + 1]
                    ELSE IF i = from + n /\ (back \/ n > 0) THEN NUL ELSE text[i]]
  BY <1>3, <1>4 DEF UpdateText, From
<1>7. ASSUME NEW i \in 0 .. SizeLimit
      PROVE  /\ i \in from .. from + n - 1 => text'[i] = queue[i - from + 1] /\ text'[i] \in Chars
             /\ i < from => text'[i] = text[i]
             /\ i = from + n /\ (back \/ n > 0) => text'[i] = NUL
             /\ i = from + n /\ ~(back \/ n > 0) => text'[i] = text[i]
             /\ text'[i] \in Chars \cup {NUL}
  <2>1. text'[i] = IF i \in from .. from + n - 1 THEN queue[i - from + 1]
                   ELSE IF i = from + n /\ (back \/ n > 0) THEN NUL ELSE text[i]
    BY <1>6
  <2>2. i \in from .. from + n - 1 => i - from + 1 \in 1 .. n
    BY <1>1, <1>3, <1>4
  <2>3. text[i] \in Chars \cup {NUL}
    BY DEF Types
  <2>4. (i < from => i \notin from .. from + n - 1 /\ i # from + n)
        /\ (i = from + n => i \notin from .. from + n - 1)
    BY <1>1, <1>3, <1>4
  <2> QED
    BY <1>5, <2>1, <2>2, <2>3, <2>4
<1>8. text' \in [0 .. SizeLimit -> Chars \cup {NUL}]
  BY <1>6, <1>7
<1>9. currentChar' \in 0 .. SizeLimit
  BY <1>1, <1>5, <1>6
<1>10. text'[from + n] = NUL
  <2>1. from + n \in 0 .. SizeLimit
    BY <1>6, <1>9
  <2>2. CASE back \/ n > 0
    BY <1>7, <2>1, <2>2
  <2>3. CASE ~(back \/ n > 0)
    <3>1. from = currentChar /\ from + n = currentChar
      BY <1>1, <1>3, <1>4, <2>3 DEF From
    <3>2. text'[from + n] = text[from + n]
      BY <1>7, <2>1, <2>3
    <3> QED
      BY <3>1, <3>2 DEF EndsAtCurrentChar
  <2> QED
    BY <2>2, <2>3
<1>11. ASSUME NEW i \in 0 .. from + n - 1
       PROVE  text'[i] # NUL
  <2>1. i \in 0 .. SizeLimit
    BY <1>1, <1>3, <1>4, <1>5
  <2>2. CASE i < from
    <3>1. i \in 0 .. currentChar - 1
      BY <1>1, <1>2, <1>3, <2>1, <2>2
    <3> QED
      BY <1>7, <2>1, <2>2, <3>1 DEF EndsAtCurrentChar
  <2>3. CASE ~(i < from)
    <3>1. i \in from .. from + n - 1
      BY <1>1, <1>3, <1>4, <2>1, <2>3
    <3> QED
      BY <1>7, <2>1, <3>1, KeyTypes
  <2> QED
    BY <2>2, <2>3
<1>12. EndsAtCurrentChar'
  <2>1. currentChar' = from + n
    BY <1>6
  <2>2. text'[currentChar'] = NUL
    BY <1>10, <2>1
  <2>3. \A i \in 0 .. currentChar' - 1 : text'[i] # NUL
    BY <1>11, <2>1
  <2> QED
    BY <2>2, <2>3 DEF EndsAtCurrentChar
<1>13. \A i \in 1 .. from : text'[i - 1] = text[i - 1]
  <2>1. \A i \in 1 .. from : i - 1 \in 0 .. SizeLimit /\ i - 1 < from
    BY <1>1, <1>3
  <2> QED
    BY <1>7, <2>1
<1>14. \A i \in 1 .. n : text'[from + i - 1] = queue[i]
  <2>1. ASSUME NEW i \in 1 .. n
        PROVE  /\ from + i - 1 \in 0 .. SizeLimit /\ from + i - 1 \in from .. from + n - 1
               /\ (from + i - 1) - from + 1 = i
    BY <1>1, <1>3, <1>4, <1>5, <2>1
  <2> QED
    BY <1>7, <2>1
<1> QED
  BY <1>2, <1>3, <1>4, <1>6, <1>8, <1>9, <1>12, <1>13, <1>14

\* Keys of which none is mixed up or lost: an optional backspace, then characters,
\* then odd ones.
LEMMA NotMixedUp ==
  ASSUME Types, PolledInv, pc = "draw", MixedUp = {}
  PROVE  \E b \in {0, 1} :
           /\ b <= Len(keys) /\ (back <=> b = 1)
           /\ \A i \in 1 .. Len(keys) : keys[i] = "backspace" <=> i <= b
           /\ Len(queue) = Len(keys) - b /\ \A i \in 1 .. Len(keys) - b : queue[i] = keys[b + i]
           /\ \A i, j \in 1 .. Len(queue) : i < j /\ queue[i] = "odd" => queue[j] \notin Chars
<1> DEFINE L == Len(keys)
           B == {i \in DOMAIN keys : keys[i] = "backspace"}
<1>1. keys \in Seq(Keys) /\ L \in Nat /\ DOMAIN keys = 1 .. L
  <2>1. keys \in Seq(Keys)
    BY DEF Types
  <2> QED
    BY <2>1
<1>2. /\ \A i, j \in 1 .. L : ~(i < j /\ keys[i] # "backspace" /\ keys[j] = "backspace")
      /\ ~(Cardinality(B) > 1)
      /\ \A i, j \in 1 .. L : ~(i < j /\ keys[i] = "odd" /\ keys[j] \in Chars)
      /\ ~(Len(Typed(keys)) > QueueLimit)
  <2>1. \A S, T, U, V : S \cup T \cup U \cup V = {} => S = {} /\ T = {} /\ U = {} /\ V = {}
    OBVIOUS
  <2>2. "order lost" \in {"order lost"} /\ "backspace lost" \in {"backspace lost"}
        /\ "stopped at odd" \in {"stopped at odd"} /\ "queue full" \in {"queue full"}
    OBVIOUS
  <2>3. ~ \E i, j \in DOMAIN keys : i < j /\ keys[i] # "backspace" /\ keys[j] = "backspace"
    BY <2>1, <2>2 DEF MixedUp
  <2>4. ~(Cardinality(B) > 1)
    BY <2>1, <2>2 DEF MixedUp
  <2>5. ~ \E i, j \in DOMAIN keys : i < j /\ keys[i] = "odd" /\ keys[j] \in Chars
    BY <2>1, <2>2 DEF MixedUp
  <2>6. ~(Len(Typed(keys)) > QueueLimit)
    BY <2>1, <2>2 DEF MixedUp
  <2> HIDE DEF B
  <2> QED
    BY <1>1, <2>3, <2>4, <2>5, <2>6
<1>3. ASSUME NEW i \in 1 .. L, NEW j \in 1 .. L, keys[i] = "backspace", keys[j] = "backspace"
      PROVE  i = j
  <2> SUFFICES ASSUME i # j PROVE FALSE
    OBVIOUS
  <2>1. IsFiniteSet(B) /\ {i, j} \subseteq B
    <3>1. B \subseteq 1 .. L /\ IsFiniteSet(1 .. L)
      BY <1>1, FS_Interval
    <3>2. IsFiniteSet(B)
      BY <3>1, FS_Subset
    <3> QED
      BY <1>1, <1>3, <3>2
  <2>2. Cardinality({i, j}) = 2
    <3>1. Cardinality({i}) = 1 /\ IsFiniteSet({i})
      BY FS_Singleton
    <3>2. Cardinality({i} \cup {j}) = Cardinality({i}) + 1
      BY <3>1, FS_AddElement
    <3>3. {i, j} = {i} \cup {j}
      OBVIOUS
    <3> QED
      BY <3>1, <3>2, <3>3
  <2>3. Cardinality(B) >= 2
    <3>1. Cardinality({i, j}) <= Cardinality(B)
      BY <2>1, FS_Subset
    <3>2. Cardinality(B) \in Nat
      BY <2>1, FS_CardinalityType
    <3> QED
      BY <2>2, <3>1, <3>2
  <2> HIDE DEF B
  <2>4. Cardinality(B) \in Nat
    BY <2>1, FS_CardinalityType
  <2> QED
    BY <1>2, <2>3, <2>4
<1>4. ASSUME NEW i \in 1 .. L, keys[i] = "backspace"
      PROVE  i = 1
  <2> SUFFICES ASSUME i # 1 PROVE FALSE
    OBVIOUS
  <2>1. 1 \in 1 .. L /\ 1 < i
    BY <1>1
  <2>2. keys[1] # "backspace"
    BY <1>3, <1>4, <2>1
  <2> QED
    BY <1>2, <1>4, <2>1, <2>2
<1> DEFINE b0 == IF back THEN 1 ELSE 0
<1>5. PICK b \in {0, 1} : b = b0
  OBVIOUS
<1>6. back <=> \E i \in 1 .. L : keys[i] = "backspace"
  BY <1>1 DEF PolledInv
<1>7. back \in BOOLEAN
  BY DEF Types
<1>8. (back <=> b = 1) /\ (~back <=> b = 0)
  BY <1>5, <1>7
<1>9. b <= L /\ \A i \in 1 .. L : keys[i] = "backspace" <=> i <= b
  <2>1. CASE back
    <3>1. PICK i \in 1 .. L : keys[i] = "backspace"
      BY <1>6, <2>1
    <3>2. i = 1
      BY <1>4, <3>1
    <3>3. b = 1 /\ keys[1] = "backspace" /\ 1 <= L
      BY <1>1, <1>8, <2>1, <3>1, <3>2
    <3>4. \A k \in 1 .. L : k <= 1 => k = 1
      BY <1>1
    <3> QED
      BY <1>4, <3>3, <3>4
  <2>2. CASE ~back
    <3>1. b = 0
      BY <1>8, <2>2
    <3>2. \A i \in 1 .. L : keys[i] # "backspace" /\ ~(i <= 0)
      BY <1>1, <1>6, <2>2
    <3> QED
      BY <1>1, <3>1, <3>2
  <2> QED
    BY <1>7, <2>1, <2>2
<1>10. Len(Typed(keys)) = L - b /\ \A i \in 1 .. L - b : Typed(keys)[i] = keys[b + i]
  BY <1>1, <1>9, TypedIs
<1>11. Typed(keys) \in Seq(Kept)
  <2>1. PICK g : TypedBy(g, keys, L) /\ Typed(keys) = g[L]
    BY <1>1, TypedSteps
  <2>2. L \in 0 .. L
    BY <1>1
  <2> QED
    BY <2>1, <2>2 DEF TypedBy
<1>12. queue = Typed(keys)
  <2> DEFINE t == Typed(keys)
  <2>1. queue = SubSeq(t, 1, Min({Len(t), QueueLimit}))
    BY DEF PolledInv
  <2>2. t \in Seq(Kept) /\ Len(t) \in Nat /\ ~(Len(t) > QueueLimit)
    BY <1>2, <1>11
  <2> HIDE DEF t
  <2>3. Min({Len(t), QueueLimit}) = Len(t)
    BY <2>2, MinOfTwo, Limits
  <2> QED
    BY <2>1, <2>2, <2>3, SubSeqFull DEF t
<1>13. ASSUME NEW i \in 1 .. Len(queue), NEW j \in 1 .. Len(queue), i < j, queue[i] = "odd"
       PROVE  queue[j] \notin Chars
  <2>1. /\ b + i \in 1 .. L /\ b + j \in 1 .. L /\ b + i < b + j
        /\ i \in 1 .. L - b /\ j \in 1 .. L - b
    <3>1. Len(queue) = L - b
      BY <1>10, <1>12
    <3> QED
      BY <1>1, <1>9, <1>13, <3>1
  <2>2. keys[b + i] = "odd" /\ keys[b + j] = queue[j]
    BY <1>10, <1>12, <1>13, <2>1
  <2> QED
    BY <1>2, <2>1, <2>2
<1> HIDE DEF b0
<1> QED
  BY <1>8, <1>9, <1>10, <1>12, <1>13

\* What updateText makes of the buffer is what the keys make of the text, one by one.
LEMMA ContentKept ==
  ASSUME Types, EndsAtCurrentChar, PolledInv, ContentInv, pc = "draw", UpdateText,
         meant' = Edited(meant, keys), faults' = faults \cup MixedUp, faults' = {}
  PROVE  Len(meant') = currentChar' /\ \A i \in 1 .. currentChar' : text'[i - 1] = meant'[i]
<1> DEFINE L == Len(keys)
<1>1. faults = {} /\ MixedUp = {}
  OBVIOUS
<1>2. /\ keys \in Seq(Keys) /\ L \in Nat /\ queue \in Seq(Kept) /\ Len(queue) \in Nat
      /\ SizeLimit \in Nat /\ meant \in Texts /\ currentChar \in 0 .. SizeLimit
  <2>1. keys \in Seq(Keys) /\ queue \in Seq(Kept) /\ meant \in Texts
        /\ currentChar \in 0 .. SizeLimit
    BY DEF Types
  <2> QED
    BY <2>1, Limits
<1>3. PICK b \in {0, 1} :
           /\ b <= L /\ (back <=> b = 1)
           /\ \A i \in 1 .. L : keys[i] = "backspace" <=> i <= b
           /\ Len(queue) = L - b /\ \A i \in 1 .. L - b : queue[i] = keys[b + i]
           /\ \A i, j \in 1 .. Len(queue) : i < j /\ queue[i] = "odd" => queue[j] \notin Chars
  BY <1>1, NotMixedUp
<1>4. PICK g : EditedBy(g, meant, keys, L) /\ meant' = g[L]
  BY <1>2, EditedSteps
<1>5. PICK from \in 0 .. SizeLimit : from = From
  BY <1>2, UpdateEnds
<1>6. PICK n \in 0 .. Len(queue) : n = Taken(from)
  BY <1>5, TakenIs
<1>7. /\ from + n <= SizeLimit /\ \A i \in 1 .. n : queue[i] \in Chars
      /\ n < Len(queue) /\ from + n < SizeLimit => queue[n + 1] \notin Chars
  BY <1>6, TakenIs
<1>8. /\ currentChar' = from + n
      /\ \A i \in 1 .. from : text'[i - 1] = text[i - 1]
      /\ \A i \in 1 .. n : text'[from + i - 1] = queue[i]
  BY <1>5, <1>6, UpdateEnds
<1> DEFINE Mn(m) == IF m <= n THEN m ELSE n
           P(m) == /\ Len(g[b + m]) = from + Mn(m)
                   /\ \A i \in 1 .. from : g[b + m][i] = text[i - 1]
                   /\ \A i \in 1 .. Mn(m) : g[b + m][from + i] = queue[i]
           S == {m \in Nat : b + m <= L => P(m)}
<1>9. Len(g[b]) = from /\ \A i \in 1 .. from : g[b][i] = text[i - 1]
  <2>1. Len(meant) = currentChar /\ \A i \in 1 .. currentChar : text[i - 1] = meant[i]
    BY <1>1 DEF ContentInv
  <2>2. CASE b = 0
    <3>1. from = currentChar /\ g[b] = meant
      BY <1>3, <1>4, <1>5, <2>2 DEF From, EditedBy
    <3> QED
      BY <2>1, <3>1
  <2>3. CASE b = 1
    <3>1. 1 \in 1 .. L /\ keys[1] = "backspace"
      BY <1>2, <1>3, <2>3
    <3>2. g[1] = Edit(meant, "backspace")
      <4>1. 1 - 1 = 0
        OBVIOUS
      <4> QED
        BY <1>4, <3>1, <4>1 DEF EditedBy
    <3>3. "backspace" \in Keys
      BY DEF Keys
    <3>4. CASE currentChar = 0
      <4>1. meant = <<>>
        <5>1. meant \in Seq(Chars) /\ Len(meant) = 0
          BY <1>2, <2>1, <3>4 DEF Texts
        <5> QED
          BY <5>1, EmptySeq
      <4>2. g[1] = meant
        BY <1>2, <3>2, <3>3, <4>1, EditIs
      <4>3. from = 0
        BY <1>5, <3>4 DEF From
      <4> QED
        BY <2>1, <2>3, <3>4, <4>2, <4>3
    <3>5. CASE currentChar > 0
      <4>1. meant # <<>>
        BY <2>1, <3>5
      <4>2. from = currentChar - 1
        BY <1>3, <1>5, <2>3, <3>5 DEF From
      <4>3. /\ Len(g[1]) = Len(meant) - 1
            /\ \A i \in 1 .. Len(meant) - 1 : g[1][i] = meant[i]
        BY <1>2, <3>2, <3>3, <4>1, EditIs
      <4>4. \A i \in 1 .. from : i \in 1 .. currentChar
        BY <1>2, <4>2
      <4> QED
        BY <2>1, <2>3, <4>2, <4>3, <4>4
    <3> QED
      BY <1>2, <3>4, <3>5
  <2> QED
    BY <2>2, <2>3
<1>10. 0 \in S
  <2>1. b + 0 = b /\ Mn(0) = 0 /\ from + 0 = from
    BY <1>2
  <2> QED
    BY <1>9, <2>1
<1>11. ASSUME NEW m \in S
       PROVE  m + 1 \in S
  <2> SUFFICES ASSUME b + (m + 1) <= L PROVE P(m + 1)
    OBVIOUS
  <2>1. m \in Nat /\ b + m <= L /\ P(m) /\ b + m \in 0 .. L
    <3> HIDE DEF P
    <3>1. m \in Nat /\ (b + m <= L => P(m))
      OBVIOUS
    <3>2. b \in Int /\ 0 <= b /\ L \in Int
      BY <1>2
    <3>3. b + m <= L /\ b + m \in 0 .. L
      <4> HIDE DEF L, S
      <4> QED
        BY <3>1, <3>2
    <3> QED
      BY <3>1, <3>3
  <2>2. b + (m + 1) \in 1 .. L /\ ~(b + (m + 1) <= b) /\ (b + (m + 1)) - 1 = b + m
        /\ m + 1 \in 1 .. L - b /\ m + 1 \in 1 .. Len(queue)
    BY <1>2, <1>3, <2>1
  <2> DEFINE s == g[b + m]
             k == queue[m + 1]
  <2>3. s \in Texts
    BY <1>4, <2>1 DEF EditedBy
  <2>4. k \in Kept /\ k \in Keys
    <3>1. k \in Kept
      BY <1>2, <2>2
    <3> QED
      BY <3>1 DEF Kept
  <2>5. g[b + (m + 1)] = Edit(s, k)
    <3>1. g[b + (m + 1)] = Edit(g[b + m], keys[b + (m + 1)])
      BY <1>4, <2>2 DEF EditedBy
    <3>2. keys[b + (m + 1)] = queue[m + 1]
      BY <1>3, <2>2
    <3> QED
      BY <3>1, <3>2
  <2>6. /\ Len(s) = from + Mn(m) /\ \A i \in 1 .. from : s[i] = text[i - 1]
        /\ \A i \in 1 .. Mn(m) : s[from + i] = queue[i]
    BY <2>1
  <2> HIDE DEF s, k, P
  <2>7. CASE m + 1 <= n
    <3>1. Mn(m) = m /\ Mn(m + 1) = m + 1
      BY <2>1, <2>7
    <3>2. k \in Chars
      BY <1>7, <2>1, <2>7 DEF k
    <3>3. Len(s) < SizeLimit
      BY <1>2, <1>6, <1>7, <2>1, <2>6, <2>7, <3>1
    <3>4. Edit(s, k) = Append(s, k)
      BY <2>3, <2>4, <3>2, <3>3, EditIs
    <3>5. s \in Seq(Chars)
      BY <2>3 DEF Texts
    <3>6. /\ Len(Append(s, k)) = Len(s) + 1
          /\ \A i \in 1 .. Len(s) : Append(s, k)[i] = s[i]
          /\ Append(s, k)[Len(s) + 1] = k
      BY <3>2, <3>5, AppendProperties
    <3>7. Len(s) = from + m /\ Len(s) + 1 = from + (m + 1)
      <4>1. Len(s) = from + m
        <5> HIDE DEF Mn
        <5> QED
          BY <2>6, <3>1
      <4>2. from \in Int /\ m \in Int
        BY <1>5, <2>1
      <4> HIDE DEF S, Mn
      <4>3. (from + m) + 1 = from + (m + 1)
        BY <4>2
      <4> QED
        BY <4>1, <4>3
    <3>8. \A i \in 1 .. from : Append(s, k)[i] = text[i - 1]
      <4>1. \A i \in 1 .. from : i \in 1 .. Len(s)
        BY <1>5, <2>1, <3>7
      <4> QED
        BY <2>6, <3>6, <4>1
    <3>9. ASSUME NEW i \in 1 .. m + 1
          PROVE  Append(s, k)[from + i] = queue[i]
      <4>1. CASE i = m + 1
        BY <3>6, <3>7, <4>1 DEF k
      <4>2. CASE i \in 1 .. m
        <5>1. from + i \in 1 .. Len(s)
          BY <1>5, <2>1, <3>7, <4>2
        <5> HIDE DEF Mn, S
        <5>2. Append(s, k)[from + i] = s[from + i]
          BY <3>6, <5>1
        <5>3. i \in 1 .. Mn(m)
          BY <3>1, <4>2
        <5> QED
          BY <2>6, <5>2, <5>3
      <4>3. i = m + 1 \/ i \in 1 .. m
        <5>1. m \in Nat
          BY <2>1
        <5> HIDE DEF S
        <5> QED
          BY <5>1
      <4> QED
        BY <4>1, <4>2, <4>3
    <3>10. Len(Append(s, k)) = from + (m + 1)
      BY <3>6, <3>7
    <3> QED
      BY <2>5, <3>1, <3>4, <3>8, <3>9, <3>10 DEF P
  <2>8. CASE ~(m + 1 <= n)
    <3>1. Mn(m) = n /\ Mn(m + 1) = n /\ n <= m
      BY <1>6, <2>1, <2>8
    <3>2. ASSUME k \in Chars
          PROVE  Len(s) = SizeLimit
      <4> SUFFICES ASSUME Len(s) # SizeLimit PROVE FALSE
        OBVIOUS
      <4>1. from + n < SizeLimit /\ n < Len(queue)
        BY <1>2, <1>5, <1>6, <1>7, <2>1, <2>2, <2>6, <3>1
      <4>2. queue[n + 1] \notin Chars /\ n + 1 \in 1 .. Len(queue)
        BY <1>2, <1>6, <1>7, <4>1
      <4>3. queue[n + 1] = "odd"
        BY <1>2, <4>2, KeyTypes
      <4>4. n # m
        BY <3>2, <4>2 DEF k
      <4>5. n + 1 < m + 1
        BY <1>6, <2>1, <3>1, <4>4
      <4>6. queue[m + 1] \notin Chars
        BY <1>3, <2>2, <4>2, <4>3, <4>5
      <4> QED
        BY <3>2, <4>6 DEF k
    <3>3. Edit(s, k) = s
      BY <2>3, <2>4, <3>2, EditIs
    <3> QED
      BY <2>5, <2>6, <3>1, <3>3 DEF P
  <2> QED
    BY <2>7, <2>8
<1>12. \A m \in Nat : m \in S
  <2> HIDE DEF S
  <2>1. S \in SUBSET Nat
    BY DEF S
  <2> QED
    BY <1>10, <1>11, <2>1, Induction
<1>13. L - b \in Nat /\ b + (L - b) = L
  BY <1>2, <1>3
<1>14. P(L - b)
  <2>1. L - b \in S
    <3> HIDE DEF S
    <3> QED
      BY <1>12, <1>13
  <2> HIDE DEF P
  <2> QED
    BY <1>2, <1>13, <2>1
<1>15. Mn(L - b) = n
  BY <1>2, <1>3, <1>6, <1>13
<1>16. /\ Len(meant') = from + n /\ \A i \in 1 .. from : meant'[i] = text[i - 1]
       /\ \A i \in 1 .. n : meant'[from + i] = queue[i]
  <2> HIDE DEF Mn
  <2> QED
    BY <1>4, <1>13, <1>14, <1>15
<1>17. ASSUME NEW i \in 1 .. from + n
       PROVE  text'[i - 1] = meant'[i]
  <2>1. CASE i <= from
    <3>1. i \in 1 .. from
      BY <1>5, <2>1
    <3> QED
      BY <1>8, <1>16, <3>1
  <2>2. CASE ~(i <= from)
    <3>1. i - from \in 1 .. n /\ from + (i - from) = i
      BY <1>5, <1>6, <2>2
    <3>2. text'[from + (i - from) - 1] = queue[i - from] /\ meant'[from + (i - from)] = queue[i - from]
      BY <1>8, <1>16, <3>1
    <3> QED
      BY <3>1, <3>2
  <2> QED
    BY <2>1, <2>2
<1> QED
  BY <1>8, <1>16, <1>17

\* The person's keys, added up.
LEMMA EditedType ==
  ASSUME Types
  PROVE  Edited(meant, keys) \in Texts
<1>1. keys \in Seq(Keys) /\ meant \in Texts /\ Len(keys) \in 0 .. Len(keys)
  <2>1. keys \in Seq(Keys) /\ meant \in Texts
    BY DEF Types
  <2> QED
    BY <2>1
<1>2. PICK g : EditedBy(g, meant, keys, Len(keys)) /\ Edited(meant, keys) = g[Len(keys)]
  BY <1>1, EditedSteps
<1> QED
  BY <1>1, <1>2 DEF EditedBy

\* Every frame and every poll keep the invariant.
LEMMA TextKept == TextInv /\ [Next]_vars => TextInv'
<1> SUFFICES ASSUME TextInv, [Next]_vars PROVE TextInv'
  OBVIOUS
<1>1. Types /\ EndsAtCurrentChar /\ PolledInv /\ ContentInv
  BY TypesAre DEF TextInv
<1>2. SUFFICES Types' /\ EndsAtCurrentChar' /\ PolledInv' /\ ContentInv'
  <2>1. TypeOK' <=> Types'
    BY TypesAre, PTL
  <2> QED
    BY <2>1 DEF TextInv
<1>3. ASSUME NEW ks \in BoundedSeq(Keys, MaxKeys), Poll(ks)
      PROVE  Types' /\ EndsAtCurrentChar' /\ PolledInv' /\ ContentInv'
  <2>1. /\ pc' = "draw" /\ keys' = ks
        /\ queue' = SubSeq(Typed(ks), 1, Min({Len(Typed(ks)), QueueLimit}))
        /\ back' = \E i \in DOMAIN ks : ks[i] = "backspace"
        /\ UNCHANGED <<text, currentChar, selected, meant, faults>>
    BY <1>3 DEF Poll
  <2>2. ks \in Seq(Keys) /\ Len(ks) <= MaxKeys /\ Len(ks) \in 0 .. Len(ks)
    <3>1. ks \in Seq(Keys) /\ Len(ks) <= MaxKeys
      BY Bounded, Limits
    <3> QED
      BY <3>1
  <2>3. Typed(ks) \in Seq(Kept)
    <3>1. PICK g : TypedBy(g, ks, Len(ks)) /\ Typed(ks) = g[Len(ks)]
      BY <2>2, TypedSteps
    <3> QED
      BY <2>2, <3>1 DEF TypedBy
  <2>4. queue' \in Seq(Kept) /\ Len(queue') <= QueueLimit
    <3> DEFINE t == Typed(ks)
               m == Min({Len(t), QueueLimit})
    <3>1. t \in Seq(Kept) /\ Len(t) \in Nat
      BY <2>3
    <3> HIDE DEF t
    <3>2. m \in Nat /\ m <= Len(t) /\ m <= QueueLimit
      BY <3>1, MinOfTwo, Limits
    <3> HIDE DEF m
    <3>3. 1 \in Int /\ m \in Int /\ \A i \in 1 .. m : t[i] \in Kept
      BY <3>1, <3>2
    <3>4. SubSeq(t, 1, m) \in Seq(Kept) /\ Len(SubSeq(t, 1, m)) = IF 1 <= m THEN m - 1 + 1 ELSE 0
      BY <3>3, SubSeqProperties
    <3>5. (IF 1 <= m THEN m - 1 + 1 ELSE 0) = m
      BY <3>2
    <3>6. queue' = SubSeq(t, 1, m)
      BY <2>1 DEF t, m
    <3> QED
      BY <3>2, <3>4, <3>5, <3>6
  <2>5. back' \in BOOLEAN
    BY <2>1, Zenon
  <2>6. Types'
    BY <1>1, <2>1, <2>2, <2>4, <2>5 DEF Types
  <2>7. PolledInv'
    BY <2>1, Zenon DEF PolledInv
  <2>8. EndsAtCurrentChar' /\ ContentInv'
    BY <1>1, <2>1 DEF EndsAtCurrentChar, ContentInv
  <2> QED
    BY <2>6, <2>7, <2>8
<1>4. CASE DrawOther
  BY <1>1, <1>4 DEF DrawOther, Types, EndsAtCurrentChar, PolledInv, ContentInv
<1>5. ASSUME NEW mouse \in {"up", "on", "beside"}, Draw(mouse)
      PROVE  Types' /\ EndsAtCurrentChar' /\ PolledInv' /\ ContentInv'
  <2>1. /\ pc = "draw" /\ pc' = "poll" /\ UNCHANGED <<keys, queue, back>>
    BY <1>5 DEF Draw
  <2>2. selected' \in BOOLEAN
    BY <1>1, <1>5 DEF Draw, Types
  <2>3. PolledInv'
    BY <2>1 DEF PolledInv
  <2>4. CASE selected'
    <3>1. UpdateText /\ meant' = Edited(meant, keys) /\ faults' = faults \cup MixedUp
      BY <1>5, <2>4 DEF Draw
    <3>2. /\ text' \in [0 .. SizeLimit -> Chars \cup {NUL}] /\ currentChar' \in 0 .. SizeLimit
          /\ EndsAtCurrentChar'
      BY <1>1, <3>1, UpdateEnds
    <3>3. meant' \in Texts
      BY <1>1, <3>1, EditedType
    <3>4. faults' \subseteq {"order lost", "backspace lost", "stopped at odd", "queue full"}
      BY <1>1, <3>1 DEF MixedUp, Types
    <3>5. Types'
      BY <1>1, <2>1, <2>2, <3>2, <3>3, <3>4 DEF Types
    <3>6. ContentInv'
      BY <1>1, <2>1, <3>1, ContentKept DEF ContentInv
    <3> QED
      BY <2>3, <3>2, <3>5, <3>6
  <2>5. CASE ~selected'
    <3>1. UNCHANGED <<text, currentChar, meant, faults>>
      BY <1>5, <2>5 DEF Draw
    <3> QED
      BY <1>1, <2>1, <2>2, <2>3, <3>1 DEF Types, EndsAtCurrentChar, ContentInv
  <2> QED
    BY <2>2, <2>4, <2>5
<1>6. CASE UNCHANGED vars
  BY <1>1, <1>6 DEF vars, Types, EndsAtCurrentChar, PolledInv, ContentInv
<1> QED
  BY <1>3, <1>4, <1>5, <1>6 DEF Next, Frame, Input

LEMMA TextAtFirst == Init => TextInv
<1> SUFFICES ASSUME Init PROVE TextInv
  OBVIOUS
<1>1. /\ pc = "poll" /\ text = [i \in 0 .. SizeLimit |-> NUL] /\ currentChar = 0
      /\ selected = FALSE /\ keys = <<>> /\ queue = <<>> /\ back = FALSE /\ meant = <<>>
      /\ faults = {}
  BY DEF Init
<1>2. /\ <<>> \in Seq(Keys) /\ <<>> \in Seq(Kept) /\ <<>> \in Texts /\ Len(<<>>) = 0
      /\ SizeLimit \in Nat /\ QueueLimit \in Nat /\ MaxKeys \in Nat
  <2>1. <<>> \in Seq(Keys) /\ <<>> \in Seq(Kept) /\ <<>> \in Seq(Chars) /\ Len(<<>>) = 0
    OBVIOUS
  <2> QED
    BY <2>1, Limits DEF Texts
<1>3. Types
  <2>1. text \in [0 .. SizeLimit -> Chars \cup {NUL}]
    BY <1>1
  <2>2. currentChar \in 0 .. SizeLimit
    BY <1>1, <1>2
  <2>3. Len(keys) <= MaxKeys /\ Len(queue) <= QueueLimit
    BY <1>1, <1>2
  <2> QED
    BY <1>1, <1>2, <2>1, <2>2, <2>3 DEF Types
<1>4. EndsAtCurrentChar /\ PolledInv /\ ContentInv
  BY <1>1, <1>2 DEF EndsAtCurrentChar, PolledInv, ContentInv
<1> QED
  BY <1>3, <1>4, TypesAre DEF TextInv

LEMMA TextAlways == Spec => []TextInv
  BY TextAtFirst, TextKept, PTL DEF Spec

-----------------------------------------------------------------------------
(* What follows *)

\* The variables keep their types; in particular currentChar, which updateText
\* uses as an index, stays within the buffer.
THEOREM TypeCorrect == Spec => []TypeOK
<1>1. TextInv => TypeOK
  BY DEF TextInv
<1> QED
  BY <1>1, TextAlways, PTL

\* The C string in the buffer ends where the next character goes, though only
\* single characters and the byte behind them are ever written.
THEOREM StringEnds == Spec => []EndsAtCurrentChar
<1>1. TextInv => EndsAtCurrentChar
  BY DEF TextInv
<1> QED
  BY <1>1, TextAlways, PTL

\* getText returns what was typed, key by key, unless raylib or the loop over its
\* characters has mixed up or lost keys of one frame.
THEOREM TypedIsHeld == Spec => []HoldsWhatWasTyped
<1>1. TextInv => HoldsWhatWasTyped
  <2> SUFFICES ASSUME TextInv, faults = {} PROVE getText = meant
    BY DEF HoldsWhatWasTyped
  <2>1. Types /\ EndsAtCurrentChar /\ ContentInv
    BY TypesAre DEF TextInv
  <2>2. /\ meant \in Seq(Chars) /\ Len(meant) = currentChar /\ currentChar \in 0 .. SizeLimit
        /\ \A i \in 1 .. currentChar : text[i - 1] = meant[i]
    BY <2>1 DEF Types, Texts, ContentInv
  <2> DEFINE T == {i \in 0 .. SizeLimit : text[i] = NUL}
  <2>3. currentChar \in T /\ \A i \in T : currentChar =< i
    BY <2>1, <2>2, Limits DEF EndsAtCurrentChar
  <2>4. Min(T) = currentChar
    <3> HIDE DEF T
    <3>1. Min(T) \in T /\ \A i \in T : Min(T) =< i
      BY <2>3 DEF Min
    <3>2. T \subseteq Int
      BY Limits DEF T
    <3>3. Min(T) =< currentChar /\ currentChar =< Min(T)
      BY <2>3, <3>1
    <3>4. Min(T) \in Int /\ currentChar \in Int
      BY <2>3, <3>1, <3>2
    <3> DEFINE m == Min(T)
    <3> HIDE DEF m
    <3>5. m \in Int /\ m =< currentChar /\ currentChar =< m
      BY <3>3, <3>4 DEF m
    <3>6. m = currentChar
      BY <3>4, <3>5
    <3> QED
      BY <3>6 DEF m
  <2>5. getText = [i \in 1 .. currentChar |-> text[i - 1]]
    BY <2>4 DEF getText
  <2>6. meant = [i \in 1 .. currentChar |-> meant[i]]
    BY <2>2
  <2> QED
    BY <2>2, <2>5, <2>6
<1> QED
  BY <1>1, TextAlways, PTL
=============================================================================
