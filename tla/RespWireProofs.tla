---------------------------- MODULE RespWireProofs ----------------------------
(***************************************************************************)
(* Facts about the bytes of a script: what Atoi and Decimal compute, and   *)
(* where each line and each argument stands on the wire.  They hold for    *)
(* requests and arguments of any number and length.  The recursive         *)
(* functions of RespWire are unfolded by induction over a set of numbers   *)
(* (SetInduction), which follows from the well-foundedness of < on Nat.    *)
(***************************************************************************)
EXTENDS RespWire, TLAPS, WellFoundedInduction, SequenceTheorems

\* What a client sends: no byte is NUL, no argument and no request is empty.
Char    == Byte \ {NUL}
Text    == Seq(Char) \ {<<>>}
Request == Seq(Text) \ {<<>>}
Script  == Seq(Request)

\* Induction over the natural numbers, for the members of a set.
LEMMA SetInduction ==
  ASSUME NEW S, 0 \in S, \A n \in Nat : n \in S => n + 1 \in S
  PROVE  Nat \subseteq S
<1> DEFINE T == Nat \ S
           R == {p \in Nat \X Nat : p[1] < p[2]}
<1>1. R = {p \in Nat \X Nat : p[1] < p[2]}
  OBVIOUS
<1>2. IsWellFoundedOn(R, Nat)
  BY NatLessThanWellFounded DEF OpToRel
<1> SUFFICES ASSUME T # {} PROVE FALSE
  OBVIOUS
<1> HIDE DEF R
<1>3. PICK m \in T : \A y \in T : ~(<<y, m>> \in R)
  BY <1>2, WFMin
<1>4. m \in Nat /\ m # 0 /\ m \notin S
  OBVIOUS
<1>5. m - 1 \in Nat /\ m - 1 \notin S
  BY <1>4
<1>6. <<m - 1, m>> \in R
  BY <1>1, <1>4, <1>5
<1> QED BY <1>3, <1>4, <1>5, <1>6

\* The recursion of Joined: each step appends the next piece.
Joins(upto, first, pieces) ==
  /\ upto[0] = first
  /\ \A k \in 0..(Len(pieces) - 1) : upto[k + 1] = upto[k] \o pieces[k + 1]

\* Joined satisfies its recursion.
LEMMA JoinedRecursion ==
  ASSUME NEW first, NEW pieces, Len(pieces) \in Nat
  PROVE  Joins(Joined(first, pieces), first, pieces)
<1> DEFINE Is(f, n) == f = [k \in 0..n |-> IF k = 0 THEN first
                                                    ELSE f[k - 1] \o pieces[k]]
           S == {n \in Nat : \E f : Is(f, n)}
<1>1. 0 \in S
  <2> DEFINE f == [k \in 0..0 |-> first]
  <2>1. Is(f, 0)
    OBVIOUS
  <2> QED BY <2>1
<1>2. ASSUME NEW n \in Nat, n \in S
      PROVE  n + 1 \in S
  <2>1. PICK f : Is(f, n)
    BY <1>2
  <2> DEFINE g == [k \in 0..(n + 1) |-> IF k <= n THEN f[k]
                                                ELSE f[n] \o pieces[n + 1]]
  <2>2. ASSUME NEW k \in 0..(n + 1)
        PROVE  g[k] = IF k = 0 THEN first ELSE g[k - 1] \o pieces[k]
    BY <2>1
  <2>3. Is(g, n + 1)
    BY <2>2
  <2> HIDE DEF g, Is
  <2> QED BY <2>3
<1>3. Len(pieces) \in S
  <2> HIDE DEF S
  <2>1. Nat \subseteq S
    BY <1>1, <1>2, SetInduction
  <2> QED BY <2>1
<1>4. \E f : Is(f, Len(pieces))
  BY <1>3
<1>5. Joined(first, pieces) = CHOOSE f : Is(f, Len(pieces))
  BY DEF Joined
<1>6. Is(Joined(first, pieces), Len(pieces))
  <2> HIDE DEF Is
  <2> QED BY <1>4, <1>5
<1> DEFINE J == Joined(first, pieces)
<1> HIDE DEF J
<1>7. J = [k \in 0..Len(pieces) |-> IF k = 0 THEN first
                                             ELSE J[k - 1] \o pieces[k]]
  BY <1>6 DEF J
<1>8. J[0] = first
  BY <1>7
<1>9. ASSUME NEW k \in 0..(Len(pieces) - 1)
      PROVE  J[k + 1] = J[k] \o pieces[k + 1]
  <2>1. k + 1 \in 0..Len(pieces) /\ k + 1 # 0 /\ (k + 1) - 1 = k
    OBVIOUS
  <2> QED BY <1>7, <2>1
<1> QED BY <1>8, <1>9 DEF J, Joins

\* The pieces of Joined, of which each may be any sequence, give a sequence.
LEMMA JoinedSteps ==
  ASSUME NEW T, NEW first \in Seq(T), NEW pieces, Len(pieces) \in Nat,
         \A k \in 1..Len(pieces) : pieces[k] \in Seq(T),
         NEW k \in 0..Len(pieces)
  PROVE  Joined(first, pieces)[k] \in Seq(T)
<1> DEFINE J == Joined(first, pieces)
           S == {n \in Nat : n <= Len(pieces) => J[n] \in Seq(T)}
<1>1. /\ J[0] = first
      /\ \A n \in 0..(Len(pieces) - 1) : J[n + 1] = J[n] \o pieces[n + 1]
  <2>1. Joins(J, first, pieces)
    BY JoinedRecursion
  <2> QED BY <2>1 DEF Joins
<1> HIDE DEF J
<1>2. 0 \in S
  BY <1>1
<1>3. ASSUME NEW n \in Nat, n \in S
      PROVE  n + 1 \in S
  <2> SUFFICES ASSUME n + 1 <= Len(pieces)
               PROVE  J[n + 1] \in Seq(T)
    OBVIOUS
  <2>1. n \in 0..(Len(pieces) - 1) /\ n + 1 \in 1..Len(pieces)
    OBVIOUS
  <2>2. J[n] \in Seq(T) /\ pieces[n + 1] \in Seq(T)
    BY <1>3, <2>1
  <2>3. J[n + 1] = J[n] \o pieces[n + 1]
    BY <1>1, <2>1
  <2> QED BY <2>2, <2>3
<1>4. Nat \subseteq S
  <2> HIDE DEF S
  <2> QED BY <1>2, <1>3, SetInduction
<1> QED BY <1>4 DEF J

\* t continues s.
Continues(t, s) ==
  Len(s) <= Len(t) /\ \A i \in 1..Len(s) : t[i] = s[i]

\* What is appended to a continuation is one too.
LEMMA ConcatContinues ==
  ASSUME NEW T, NEW s \in Seq(T), NEW t \in Seq(T), NEW u \in Seq(T),
         Continues(t, s)
  PROVE  Continues(t \o u, s)
BY DEF Continues

\* More pieces continue fewer: a script up to a later request begins with the
\* script up to an earlier one.
LEMMA JoinedContinues ==
  ASSUME NEW T, NEW first \in Seq(T), NEW pieces, Len(pieces) \in Nat,
         \A k \in 1..Len(pieces) : pieces[k] \in Seq(T),
         NEW j \in 0..Len(pieces), NEW k \in j..Len(pieces)
  PROVE  Continues(Joined(first, pieces)[k], Joined(first, pieces)[j])
<1> DEFINE J == Joined(first, pieces)
           S == {d \in Nat : j + d <= Len(pieces) => Continues(J[j + d], J[j])}
<1>1. \A n \in 0..(Len(pieces) - 1) : J[n + 1] = J[n] \o pieces[n + 1]
  <2>1. Joins(J, first, pieces)
    BY JoinedRecursion
  <2> QED BY <2>1 DEF Joins
<1>2. \A n \in 0..Len(pieces) : J[n] \in Seq(T)
  BY JoinedSteps
<1> HIDE DEF J
<1>3. 0 \in S
  BY <1>2 DEF Continues
<1>4. ASSUME NEW d \in Nat, d \in S
      PROVE  d + 1 \in S
  <2> SUFFICES ASSUME j + (d + 1) <= Len(pieces)
               PROVE  Continues(J[j + (d + 1)], J[j])
    OBVIOUS
  <2> DEFINE n == j + d
  <2>1. n \in 0..(Len(pieces) - 1) /\ n \in 0..Len(pieces)
        /\ n + 1 = j + (d + 1) /\ n + 1 \in 1..Len(pieces)
    OBVIOUS
  <2>2. Continues(J[n], J[j])
    BY <1>4, <2>1
  <2> HIDE DEF n
  <2>3. /\ J[n] \in Seq(T) /\ pieces[n + 1] \in Seq(T) /\ J[j] \in Seq(T)
        /\ J[n + 1] = J[n] \o pieces[n + 1]
    BY <1>1, <1>2, <2>1
  <2>4. Continues(J[n + 1], J[j])
    BY <2>2, <2>3, ConcatContinues
  <2> QED BY <2>1, <2>4
<1>5. Nat \subseteq S
  <2> HIDE DEF S
  <2> QED BY <1>3, <1>4, SetInduction
<1>6. k - j \in Nat /\ j + (k - j) = k /\ k <= Len(pieces)
  OBVIOUS
<1>7. Continues(J[k], J[j])
  <2>1. k - j \in S
    BY <1>5, <1>6
  <2> QED BY <1>6, <2>1
<1> QED BY <1>7 DEF J

-----------------------------------------------------------------------------
\* The recursion of atoi: value maps k to the number the first k digits write.
IsValue(value, s) ==
  value = [k \in 0..Len(s) |->
             IF k = 0 THEN 0 ELSE 10 * value[k - 1] + (s[k] - Zero)]

\* Each string of digits has a value.
LEMMA ValueExists ==
  ASSUME NEW s \in Seq(Digit)
  PROVE  \E value : IsValue(value, s)
<1> DEFINE Is(f, n) == f = [k \in 0..n |-> IF k = 0 THEN 0
                                   ELSE 10 * f[k - 1] + (s[k] - Zero)]
           S == {n \in Nat : \E f : Is(f, n)}
<1>1. 0 \in S
  <2> DEFINE f == [k \in 0..0 |-> 0]
  <2>1. Is(f, 0)
    OBVIOUS
  <2> QED BY <2>1
<1>2. ASSUME NEW n \in Nat, n \in S
      PROVE  n + 1 \in S
  <2>1. PICK f : Is(f, n)
    BY <1>2
  <2> DEFINE g == [k \in 0..(n + 1) |-> IF k <= n THEN f[k]
                             ELSE 10 * f[n] + (s[n + 1] - Zero)]
  <2>2. ASSUME NEW k \in 0..(n + 1)
        PROVE  g[k] = IF k = 0 THEN 0 ELSE 10 * g[k - 1] + (s[k] - Zero)
    BY <2>1
  <2>3. Is(g, n + 1)
    BY <2>2
  <2> HIDE DEF g, Is
  <2> QED BY <2>3
<1>3. Len(s) \in S
  <2> HIDE DEF S
  <2>1. Nat \subseteq S
    BY <1>1, <1>2, SetInduction
  <2> QED BY <2>1
<1> QED BY <1>3 DEF IsValue

\* On digits alone, atoi takes all of them.
LEMMA AtoiValue ==
  ASSUME NEW s \in Seq(Digit)
  PROVE  \E value : IsValue(value, s) /\ Atoi(s) = value[Len(s)]
<1> DEFINE v == CHOOSE value : IsValue(value, s)
<1>1. IsValue(v, s)
  BY ValueExists
<1>2. Atoi(s) = v[Len(s)]
  <2>1. {i \in 1..Len(s) : s[i] \notin Digit} = {}
    OBVIOUS
  <2>2. SelectInSeq(s, LAMBDA b : b \notin Digit) = 0
    BY <2>1 DEF SelectInSeq
  <2> QED BY <2>2 DEF Atoi, IsValue
<1> QED BY <1>1, <1>2

\* The client writes a number in digits, at least one, and the atoi that
\* Conn::Parsing and Conn::Splice call reads it back.
LEMMA DecimalDigits ==
  ASSUME NEW n \in Nat
  PROVE  /\ Decimal(n) \in Seq(Digit)
         /\ Len(Decimal(n)) >= 1
         /\ Atoi(Decimal(n)) = n
<1> DEFINE Is(f, m) == f = [k \in 0..m |-> IF k < 10 THEN <<Zero + k>>
                                 ELSE Append(f[k \div 10], Zero + (k % 10))]
           S == {m \in Nat : \E f : Is(f, m)}
<1>1. 0 \in S
  <2> DEFINE f == [k \in 0..0 |-> <<Zero>>]
  <2>1. Is(f, 0)
    BY DEF Zero
  <2> HIDE DEF f, Is
  <2> QED BY <2>1
<1>2. ASSUME NEW m \in Nat, m \in S
      PROVE  m + 1 \in S
  <2>1. PICK f : Is(f, m)
    BY <1>2
  <2> DEFINE last == IF m + 1 < 10 THEN <<Zero + (m + 1)>>
                     ELSE Append(f[(m + 1) \div 10], Zero + ((m + 1) % 10))
             g == [k \in 0..(m + 1) |-> IF k <= m THEN f[k] ELSE last]
  <2>2. ASSUME NEW k \in 0..(m + 1)
        PROVE  g[k] = IF k < 10 THEN <<Zero + k>>
                      ELSE Append(g[k \div 10], Zero + (k % 10))
    <3>1. k >= 10 => k \div 10 \in 0..m /\ k \div 10 < k
      OBVIOUS
    <3>2. CASE k = m + 1
      BY <3>1, <3>2
    <3>3. CASE k # m + 1
      <4>1. k \in 0..m
        BY <3>3
      <4>2. f[k] = IF k < 10 THEN <<Zero + k>>
                   ELSE Append(f[k \div 10], Zero + (k % 10))
        BY <2>1, <4>1
      <4> QED BY <3>1, <4>1, <4>2
    <3> QED BY <3>2, <3>3
  <2>3. Is(g, m + 1)
    BY <2>2
  <2> HIDE DEF g, Is
  <2> QED BY <2>3
<1>3. n \in S
  <2> HIDE DEF S
  <2>1. Nat \subseteq S
    BY <1>1, <1>2, SetInduction
  <2> QED BY <2>1
<1> DEFINE numeral == CHOOSE f : Is(f, n)
<1>4. Is(numeral, n)
  BY <1>3
<1>5. Decimal(n) = numeral[n]
  BY DEF Decimal
<1> HIDE DEF numeral
<1> DEFINE Good(m) == /\ numeral[m] \in Seq(Digit) /\ Len(numeral[m]) >= 1
                      /\ \A f : IsValue(f, numeral[m])
                                  => f[Len(numeral[m])] = m
           G == {m \in Nat : \A k \in 0..m : k <= n => Good(k)}
<1>6. ASSUME NEW k \in 0..n, k < 10
      PROVE  Good(k)
  <2>1. numeral[k] = <<Zero + k>>
    BY <1>4, <1>6
  <2>2. numeral[k] \in Seq(Digit) /\ Len(numeral[k]) = 1
    BY <2>1, <1>6 DEF Digit, Zero
  <2>3. ASSUME NEW f, IsValue(f, numeral[k])
        PROVE  f[1] = k
    BY <2>1, <2>2, <2>3, <1>6 DEF IsValue, Zero
  <2> QED BY <2>2, <2>3
<1>7. ASSUME NEW k \in 0..n, k >= 10, Good(k \div 10)
      PROVE  Good(k)
  <2> DEFINE s == numeral[k \div 10]
             d == Zero + (k % 10)
  <2>1. numeral[k] = Append(s, d)
    <3>1. ~(k < 10)
      BY <1>7
    <3> QED BY <1>4, <3>1
  <2>2. s \in Seq(Digit) /\ Len(s) >= 1 /\ d \in Digit
    BY <1>7 DEF Digit, Zero
  <2>3. k = 10 * (k \div 10) + (k % 10) /\ k \div 10 \in Nat /\ k % 10 \in Nat
    OBVIOUS
  <2>4. numeral[k] \in Seq(Digit) /\ Len(numeral[k]) = Len(s) + 1
    BY <2>1, <2>2
  <2>5. ASSUME NEW f, IsValue(f, numeral[k])
        PROVE  f[Len(s) + 1] = k
    <3> DEFINE g == [i \in 0..Len(s) |-> f[i]]
    <3>1. \A i \in 0..(Len(s) + 1) :
            f[i] = IF i = 0 THEN 0
                   ELSE 10 * f[i - 1] + (numeral[k][i] - Zero)
      BY <2>4, <2>5 DEF IsValue
    <3>2. /\ \A i \in 1..Len(s) : numeral[k][i] = s[i]
          /\ numeral[k][Len(s) + 1] = d
      BY <2>1, <2>2
    <3>3. \A i \in 0..Len(s) :
            g[i] = IF i = 0 THEN 0 ELSE 10 * g[i - 1] + (s[i] - Zero)
      BY <2>2, <3>1, <3>2, SMTT(30)
    <3>4. IsValue(g, s)
      BY <3>3 DEF IsValue
    <3>5. g[Len(s)] = k \div 10
      <4> HIDE DEF g
      <4> QED BY <1>7, <3>4
    <3>6. f[Len(s)] = k \div 10
      BY <2>2, <3>5
    <3>7. f[Len(s) + 1] = 10 * f[Len(s)] + (d - Zero)
      BY <2>2, <3>1, <3>2
    <3> QED BY <2>3, <3>6, <3>7 DEF Zero
  <2> QED BY <2>4, <2>5
<1>8. 0 \in G
  BY <1>6
<1>9. ASSUME NEW m \in Nat, m \in G
      PROVE  m + 1 \in G
  <2>1. \A k \in 0..m : k <= n => Good(k)
    BY <1>9
  <2> HIDE DEF Good
  <2>2. ASSUME m + 1 <= n
        PROVE  Good(m + 1)
    <3>1. m + 1 >= 10 => (m + 1) \div 10 \in 0..m /\ (m + 1) \div 10 <= n
      BY <2>2
    <3> QED BY <1>6, <1>7, <2>1, <2>2, <3>1
  <2> QED BY <2>1, <2>2
<1>10. Nat \subseteq G
  <2> HIDE DEF G
  <2> QED BY <1>8, <1>9, SetInduction
<1>11. Good(n)
  <2>1. n \in G /\ n \in 0..n /\ n <= n
    BY <1>10
  <2> HIDE DEF Good
  <2> QED BY <2>1
<1>12. PICK value : IsValue(value, Decimal(n))
                      /\ Atoi(Decimal(n)) = value[Len(Decimal(n))]
  BY <1>5, <1>11, AtoiValue
<1> QED BY <1>5, <1>11, <1>12

-----------------------------------------------------------------------------
\* The number of digits of n.
NumLen(n) == Len(Decimal(n))

\* The bytes of a concatenation.
LEMMA ConcatParts ==
  ASSUME NEW s \in Seq(Char), NEW t \in Seq(Char)
  PROVE  /\ s \o t \in Seq(Char)
         /\ Len(s) \in Nat /\ Len(t) \in Nat
         /\ Len(s \o t) = Len(s) + Len(t)
         /\ \A i \in 1..Len(s) : (s \o t)[i] = s[i]
         /\ \A i \in 1..Len(t) : (s \o t)[Len(s) + i] = t[i]
OBVIOUS

\* The bytes of a line '*' or '$', number, CR, LF.
LEMMA HeaderLine ==
  ASSUME NEW b \in Char, NEW d \in Seq(Char)
  PROVE  /\ <<b>> \o d \o CrLf \in Seq(Char)
         /\ Len(<<b>> \o d \o CrLf) = Len(d) + 3
         /\ (<<b>> \o d \o CrLf)[1] = b
         /\ \A i \in 1..Len(d) : (<<b>> \o d \o CrLf)[i + 1] = d[i]
         /\ (<<b>> \o d \o CrLf)[Len(d) + 2] = CR
         /\ (<<b>> \o d \o CrLf)[Len(d) + 3] = LF
<1> DEFINE e == <<b>> \o d
<1>1. /\ e \in Seq(Char) /\ Len(e) = Len(d) + 1 /\ e[1] = b
      /\ \A i \in 1..Len(d) : e[i + 1] = d[i]
  OBVIOUS
<1>2. CrLf \in Seq(Char) /\ Len(CrLf) = 2 /\ CrLf[1] = CR /\ CrLf[2] = LF
  BY DEF CrLf, CR, LF, Char, Byte, NUL
<1>3. Len(d) \in Nat
  OBVIOUS
<1> HIDE DEF e
<1>4. /\ e \o CrLf \in Seq(Char) /\ Len(e \o CrLf) = Len(d) + 3
      /\ \A i \in 1..(Len(d) + 1) : (e \o CrLf)[i] = e[i]
      /\ (e \o CrLf)[Len(d) + 2] = CR /\ (e \o CrLf)[Len(d) + 3] = LF
  <2>1. /\ e \o CrLf \in Seq(Char) /\ Len(e \o CrLf) = Len(e) + Len(CrLf)
        /\ \A i \in 1..Len(e) : (e \o CrLf)[i] = e[i]
        /\ \A i \in 1..Len(CrLf) : (e \o CrLf)[Len(e) + i] = CrLf[i]
    BY <1>1, <1>2, ConcatParts, Zenon
  <2>2. /\ 1 \in 1..Len(CrLf) /\ 2 \in 1..Len(CrLf)
        /\ Len(e) + 1 = Len(d) + 2 /\ Len(e) + 2 = Len(d) + 3
        /\ Len(e) + Len(CrLf) = Len(d) + 3
    BY <1>1, <1>2, <1>3
  <2>3. /\ (e \o CrLf)[Len(e) + 1] = CR /\ (e \o CrLf)[Len(e) + 2] = LF
    BY <1>2, <2>1, <2>2
  <2> QED BY <1>1, <2>1, <2>2, <2>3
<1>5. (e \o CrLf)[1] = b /\ \A i \in 1..Len(d) : (e \o CrLf)[i + 1] = d[i]
  BY <1>1, <1>3, <1>4
<1> QED BY <1>4, <1>5 DEF e

\* The bytes of the line of an argument.
LEMMA TextLine ==
  ASSUME NEW t \in Seq(Char)
  PROVE  /\ PayloadLine(t) \in Seq(Char)
         /\ Len(PayloadLine(t)) = Len(t) + 2
         /\ \A i \in 1..Len(t) : PayloadLine(t)[i] = t[i]
         /\ PayloadLine(t)[Len(t) + 1] = CR
         /\ PayloadLine(t)[Len(t) + 2] = LF
<1>1. CrLf \in Seq(Char) /\ Len(CrLf) = 2 /\ CrLf[1] = CR /\ CrLf[2] = LF
  BY DEF CrLf, CR, LF, Char, Byte, NUL
<1>2. /\ t \o CrLf \in Seq(Char) /\ Len(t \o CrLf) = Len(t) + Len(CrLf)
      /\ \A i \in 1..Len(t) : (t \o CrLf)[i] = t[i]
      /\ \A i \in 1..Len(CrLf) : (t \o CrLf)[Len(t) + i] = CrLf[i]
  BY <1>1, ConcatParts
<1>3. 1 \in 1..Len(CrLf) /\ 2 \in 1..Len(CrLf)
  BY <1>1
<1>4. (t \o CrLf)[Len(t) + 1] = CR /\ (t \o CrLf)[Len(t) + 2] = LF
  BY <1>1, <1>2, <1>3
<1> QED BY <1>1, <1>2, <1>4 DEF PayloadLine

\* The digits of a number are bytes of the wire.
LEMMA DecimalBytes ==
  ASSUME NEW n \in Nat
  PROVE  /\ Decimal(n) \in Seq(Char)
         /\ NumLen(n) \in Nat /\ NumLen(n) >= 1
<1>1. Decimal(n) \in Seq(Digit) /\ Len(Decimal(n)) >= 1
  BY DecimalDigits
<1> QED BY <1>1 DEF Digit, Char, Byte, NUL, Zero, NumLen

\* The lines of a request, with their lengths.
LEMMA LineTypes ==
  /\ \A r \in Request : /\ ArrayLine(r) \in Seq(Char)
                        /\ Len(ArrayLine(r)) = NumLen(Len(r)) + 3
  /\ \A t \in Text : /\ LengthLine(t) \in Seq(Char)
                     /\ Len(LengthLine(t)) = NumLen(Len(t)) + 3
                     /\ PayloadLine(t) \in Seq(Char)
                     /\ Len(PayloadLine(t)) = Len(t) + 2
<1>1. Star \in Char /\ Dollar \in Char
  BY DEF Star, Dollar, Char, Byte, NUL
<1>2. ASSUME NEW r \in Request
      PROVE  /\ ArrayLine(r) \in Seq(Char)
             /\ Len(ArrayLine(r)) = NumLen(Len(r)) + 3
  <2>1. Len(r) \in Nat
    BY DEF Request
  <2>2. Decimal(Len(r)) \in Seq(Char)
    BY <2>1, DecimalBytes
  <2> QED BY <1>1, <2>2, HeaderLine DEF ArrayLine, NumLen
<1>3. ASSUME NEW t \in Text
      PROVE  /\ LengthLine(t) \in Seq(Char)
             /\ Len(LengthLine(t)) = NumLen(Len(t)) + 3
             /\ PayloadLine(t) \in Seq(Char)
             /\ Len(PayloadLine(t)) = Len(t) + 2
  <2>1. Len(t) \in Nat /\ t \in Seq(Char)
    BY DEF Text
  <2>2. Decimal(Len(t)) \in Seq(Char)
    BY <2>1, DecimalBytes
  <2> QED BY <1>1, <2>1, <2>2, HeaderLine, TextLine DEF LengthLine, NumLen
<1> QED BY <1>2, <1>3

\* An argument on the wire: the line of its length and its own.
ArgLines(t) == LengthLine(t) \o PayloadLine(t)

\* A request is its header followed by its arguments.
LEMMA RequestLines ==
  ASSUME NEW r \in Request
  PROVE  /\ RequestUpTo(r)[0] = ArrayLine(r)
         /\ \A a \in 0..Len(r) : /\ RequestUpTo(r)[a] \in Seq(Char)
                                 /\ Continues(RequestBytes(r), RequestUpTo(r)[a])
         /\ \A a \in 0..(Len(r) - 1) :
              RequestUpTo(r)[a + 1] = RequestUpTo(r)[a] \o ArgLines(r[a + 1])
<1> DEFINE pieces == [a \in DOMAIN r |-> LengthLine(r[a]) \o PayloadLine(r[a])]
           U == Joined(ArrayLine(r), pieces)
<1>1. Len(r) \in Nat /\ DOMAIN r = 1..Len(r) /\ \A a \in 1..Len(r) : r[a] \in Text
  BY DEF Request
<1>2. \A t \in Text : ArgLines(t) \in Seq(Char)
  BY LineTypes DEF ArgLines
<1>3. /\ Len(pieces) = Len(r)
      /\ \A a \in 1..Len(r) : pieces[a] = ArgLines(r[a])
  BY <1>1 DEF ArgLines
<1>4. U = RequestUpTo(r)
  BY DEF RequestUpTo
<1> HIDE DEF pieces
<1>5. /\ \A a \in 1..Len(pieces) : pieces[a] \in Seq(Char)
      /\ ArrayLine(r) \in Seq(Char) /\ Len(pieces) \in Nat
  BY <1>1, <1>2, <1>3, LineTypes
<1>6. Joins(U, ArrayLine(r), pieces)
  BY <1>5, JoinedRecursion
<1>7. \A a \in 0..Len(pieces) : U[a] \in Seq(Char)
  BY <1>5, JoinedSteps
<1>8. \A a \in 0..Len(pieces) : Continues(U[Len(pieces)], U[a])
  <2> TAKE a \in 0..Len(pieces)
  <2>1. Len(pieces) \in a..Len(pieces)
    BY <1>5
  <2> QED BY <1>5, <2>1, JoinedContinues
<1> HIDE DEF U
<1>9. ASSUME NEW a \in 0..(Len(r) - 1)
      PROVE  U[a + 1] = U[a] \o ArgLines(r[a + 1])
  <2>1. a \in 0..(Len(pieces) - 1) /\ a + 1 \in 1..Len(r)
    BY <1>1, <1>3
  <2> QED BY <1>3, <1>6, <2>1 DEF Joins
<1>10. U[0] = ArrayLine(r)
  BY <1>6 DEF Joins
<1> QED BY <1>3, <1>4, <1>7, <1>8, <1>9, <1>10 DEF RequestBytes

\* The wire is the requests of the script, one after the other.
LEMMA WireRequests ==
  ASSUME NEW s \in Script
  PROVE  /\ WireUpTo(s)[0] = <<>>
         /\ \A q \in 0..Len(s) : /\ WireUpTo(s)[q] \in Seq(Char)
                                 /\ Continues(Wire(s), WireUpTo(s)[q])
         /\ \A q \in 0..(Len(s) - 1) :
              WireUpTo(s)[q + 1] = WireUpTo(s)[q] \o RequestBytes(s[q + 1])
<1> DEFINE pieces == [k \in DOMAIN s |-> RequestBytes(s[k])]
           U == Joined(<<>>, pieces)
<1>1. /\ Len(s) \in Nat /\ DOMAIN s = 1..Len(s)
      /\ \A k \in 1..Len(s) : s[k] \in Request
  BY DEF Script
<1>2. ASSUME NEW r \in Request PROVE RequestBytes(r) \in Seq(Char)
  <2>1. Len(r) \in 0..Len(r)
    BY DEF Request
  <2> QED BY <2>1, RequestLines DEF RequestBytes
<1>3. /\ Len(pieces) = Len(s)
      /\ \A k \in 1..Len(s) : pieces[k] = RequestBytes(s[k])
  BY <1>1
<1>4. U = WireUpTo(s)
  BY DEF WireUpTo
<1> HIDE DEF pieces
<1>5. /\ \A k \in 1..Len(pieces) : pieces[k] \in Seq(Char)
      /\ Len(pieces) \in Nat
  BY <1>1, <1>2, <1>3
<1>6. <<>> \in Seq(Char)
  OBVIOUS
<1>7. Joins(U, <<>>, pieces)
  BY <1>5, JoinedRecursion
<1>8. \A k \in 0..Len(pieces) : U[k] \in Seq(Char)
  BY <1>5, <1>6, JoinedSteps
<1>9. \A k \in 0..Len(pieces) : Continues(U[Len(pieces)], U[k])
  <2> TAKE k \in 0..Len(pieces)
  <2>1. Len(pieces) \in k..Len(pieces)
    BY <1>5
  <2> QED BY <1>5, <1>6, <2>1, JoinedContinues
<1> HIDE DEF U
<1>10. ASSUME NEW q \in 0..(Len(s) - 1)
       PROVE  U[q + 1] = U[q] \o RequestBytes(s[q + 1])
  <2>1. q \in 0..(Len(pieces) - 1) /\ q + 1 \in 1..Len(s)
    BY <1>1, <1>3
  <2> QED BY <1>3, <1>7, <2>1 DEF Joins
<1>11. U[0] = <<>>
  BY <1>7 DEF Joins
<1> QED BY <1>3, <1>4, <1>8, <1>9, <1>10, <1>11 DEF Wire

\* The bytes of line stand in w after the first p.
Stands(line, w, p) ==
  /\ p + Len(line) <= Len(w)
  /\ \A i \in 1..Len(line) : w[p + i] = line[i]

\* A line that was appended stands where it was appended.
LEMMA ContinuesStands ==
  ASSUME NEW T, NEW u \in Seq(T), NEW line \in Seq(T), NEW w \in Seq(T),
         Continues(w, u \o line)
  PROVE  Stands(line, w, Len(u))
<1>1. Len(u \o line) = Len(u) + Len(line)
  OBVIOUS
<1>2. ASSUME NEW i \in 1..Len(line)
      PROVE  w[Len(u) + i] = line[i]
  <2>1. Len(u) + i \in 1..Len(u \o line)
    BY <1>1
  <2>2. (u \o line)[Len(u) + i] = line[i]
    OBVIOUS
  <2> QED BY <2>1, <2>2 DEF Continues
<1> QED BY <1>1, <1>2 DEF Continues, Stands

\* What stands in a part of the wire stands on the wire.
LEMMA StandsInside ==
  ASSUME NEW T, NEW line \in Seq(T), NEW w \in Seq(T), NEW v \in Seq(T),
         NEW p \in Nat, NEW o \in Nat, Stands(v, w, p), Stands(line, v, o)
  PROVE  Stands(line, w, p + o)
<1>1. ASSUME NEW i \in 1..Len(line)
      PROVE  w[p + o + i] = line[i]
  <2>1. o + i \in 1..Len(v) /\ p + o + i = p + (o + i)
    BY DEF Stands
  <2>2. w[p + (o + i)] = v[o + i] /\ v[o + i] = line[i]
    BY <2>1 DEF Stands
  <2> QED BY <2>1, <2>2
<1> QED BY <1>1 DEF Stands

\* The length of the k-th of the sequences u.
Size(u, k) == Len(u[k])

\* Each piece adds its length.
LEMMA SizeStep ==
  ASSUME NEW u, NEW k, NEW line \in Seq(Char), u[k] \in Seq(Char),
         u[k + 1] = u[k] \o line
  PROVE  Size(u, k) \in Nat /\ Size(u, k + 1) = Size(u, k) + Len(line)
<1> DEFINE h == u[k]
<1>1. h \in Seq(Char)
  OBVIOUS
<1> HIDE DEF h
<1>2. Len(h) \in Nat /\ Len(h \o line) = Len(h) + Len(line)
  BY <1>1
<1> QED BY <1>2 DEF Size, h

\* The number of bytes of an argument with its length line.
ArgSize(t) == NumLen(Len(t)) + Len(t) + 5

\* The lines of an argument have that many bytes.
LEMMA ArgLinesSize ==
  ASSUME NEW t \in Text
  PROVE  /\ ArgLines(t) \in Seq(Char)
         /\ Len(ArgLines(t)) = ArgSize(t)
         /\ ArgSize(t) \in Nat
<1> DEFINE h == LengthLine(t)
           g == PayloadLine(t)
<1>1. h \in Seq(Char) /\ g \in Seq(Char)
  BY LineTypes
<1>2. Len(h) = NumLen(Len(t)) + 3 /\ Len(g) = Len(t) + 2
  BY LineTypes
<1>3. Len(t) \in Nat /\ NumLen(Len(t)) \in Nat
  BY DecimalBytes DEF Text
<1> HIDE DEF h, g
<1>4. h \o g \in Seq(Char) /\ Len(h \o g) = Len(h) + Len(g)
  BY <1>1
<1> QED BY <1>2, <1>3, <1>4 DEF h, g, ArgLines, ArgSize

\* Where the header and the arguments stand in a request.
LEMMA RequestLayout ==
  ASSUME NEW r \in Request
  PROVE  /\ RequestBytes(r) \in Seq(Char)
         /\ Size(RequestUpTo(r), 0) = NumLen(Len(r)) + 3
         /\ Size(RequestUpTo(r), Len(r)) = Len(RequestBytes(r))
         /\ \A a \in 0..Len(r) : Size(RequestUpTo(r), a) \in Nat
         /\ Stands(ArrayLine(r), RequestBytes(r), 0)
         /\ \A a \in 0..(Len(r) - 1) :
              /\ Size(RequestUpTo(r), a + 1)
                   = Size(RequestUpTo(r), a) + ArgSize(r[a + 1])
              /\ Stands(ArgLines(r[a + 1]), RequestBytes(r),
                        Size(RequestUpTo(r), a))
<1> DEFINE R == RequestUpTo(r)
           N == Len(r)
           b == RequestBytes(r)
<1>1. N \in Nat /\ N >= 1 /\ \A a \in 1..N : r[a] \in Text
  BY DEF Request
<1>2. /\ R[0] = ArrayLine(r)
      /\ \A a \in 0..N : R[a] \in Seq(Char) /\ Continues(b, R[a])
      /\ \A a \in 0..(N - 1) : R[a + 1] = R[a] \o ArgLines(r[a + 1])
  BY RequestLines
<1>3. b = R[N]
  BY DEF RequestBytes
<1>4. 0 \in 0..N /\ N \in 0..N
  BY <1>1
<1>5. b \in Seq(Char)
  BY <1>2, <1>3, <1>4
<1>6. ArrayLine(r) \in Seq(Char) /\ Len(ArrayLine(r)) = NumLen(N) + 3
  BY LineTypes
<1> HIDE DEF R, b, N
<1>7. Stands(ArrayLine(r), b, 0)
  <2>1. Continues(b, ArrayLine(r))
    BY <1>2, <1>4
  <2> QED BY <1>5, <1>6, <2>1 DEF Continues, Stands
<1>8. Size(R, 0) = NumLen(N) + 3 /\ Size(R, N) = Len(b)
  BY <1>2, <1>3, <1>6 DEF Size
<1>9. ASSUME NEW a \in 0..N PROVE Size(R, a) \in Nat
  <2> DEFINE h == R[a]
  <2>1. h \in Seq(Char)
    BY <1>2
  <2> HIDE DEF h
  <2>2. Len(h) \in Nat
    BY <2>1
  <2> QED BY <2>2 DEF Size, h
<1>10. ASSUME NEW a \in 0..(N - 1)
       PROVE  /\ Size(R, a + 1) = Size(R, a) + ArgSize(r[a + 1])
              /\ Stands(ArgLines(r[a + 1]), b, Size(R, a))
  <2> DEFINE line == ArgLines(r[a + 1])
  <2>1. r[a + 1] \in Text /\ a \in 0..N /\ a + 1 \in 0..N
    BY <1>1
  <2>2. line \in Seq(Char) /\ Len(line) = ArgSize(r[a + 1])
    BY <2>1, ArgLinesSize
  <2>3. /\ R[a + 1] = R[a] \o line /\ R[a] \in Seq(Char)
        /\ Continues(b, R[a + 1])
    BY <1>2, <2>1
  <2> HIDE DEF line
  <2>4. Size(R, a + 1) = Size(R, a) + Len(line)
    BY <2>2, <2>3, SizeStep
  <2>5. Stands(line, b, Size(R, a))
    BY <1>5, <2>2, <2>3, ContinuesStands DEF Size
  <2> QED BY <2>2, <2>4, <2>5 DEF line
<1> QED BY <1>5, <1>7, <1>8, <1>9, <1>10 DEF R, b, N

\* Where the requests stand on the wire.
LEMMA WireSteps ==
  ASSUME NEW s \in Script
  PROVE  /\ Wire(s) \in Seq(Char)
         /\ EndOfRequest(s, 0) = 0
         /\ EndOfRequest(s, Len(s)) = Len(Wire(s))
         /\ \A q \in 0..Len(s) : EndOfRequest(s, q) \in Nat
         /\ \A q \in 0..(Len(s) - 1) :
              /\ EndOfRequest(s, q + 1)
                   = EndOfRequest(s, q) + Len(RequestBytes(s[q + 1]))
              /\ Stands(RequestBytes(s[q + 1]), Wire(s), EndOfRequest(s, q))
<1> DEFINE w == Wire(s)
           U == WireUpTo(s)
           n == Len(s)
<1>1. n \in Nat /\ \A k \in 1..n : s[k] \in Request
  BY DEF Script
<1>2. /\ U[0] = <<>>
      /\ \A q \in 0..n : U[q] \in Seq(Char) /\ Continues(w, U[q])
      /\ \A q \in 0..(n - 1) : U[q + 1] = U[q] \o RequestBytes(s[q + 1])
  BY WireRequests
<1>3. w = U[n]
  BY DEF Wire
<1>4. \A q \in 0..n : EndOfRequest(s, q) = Size(U, q)
  BY DEF EndOfRequest, Size
<1> HIDE DEF w, U, n
<1>5. 0 \in 0..n /\ n \in 0..n
  BY <1>1
<1>6. w \in Seq(Char)
  BY <1>2, <1>3, <1>5
<1>7. EndOfRequest(s, 0) = 0
  <2>1. Size(U, 0) = 0
    BY <1>2 DEF Size
  <2> QED BY <1>4, <1>5, <2>1
<1>8. EndOfRequest(s, n) = Len(w)
  <2>1. Size(U, n) = Len(w)
    BY <1>3 DEF Size
  <2> QED BY <1>4, <1>5, <2>1
<1>9. ASSUME NEW q \in 0..n PROVE EndOfRequest(s, q) \in Nat
  <2> DEFINE h == U[q]
  <2>1. h \in Seq(Char)
    BY <1>2
  <2> HIDE DEF h
  <2>2. Len(h) \in Nat
    BY <2>1
  <2>3. Size(U, q) \in Nat
    BY <2>2 DEF Size, h
  <2> QED BY <1>4, <2>3
<1>10. ASSUME NEW q \in 0..(n - 1)
       PROVE  /\ EndOfRequest(s, q + 1)
                   = EndOfRequest(s, q) + Len(RequestBytes(s[q + 1]))
              /\ Stands(RequestBytes(s[q + 1]), w, EndOfRequest(s, q))
  <2> DEFINE line == RequestBytes(s[q + 1])
  <2>1. s[q + 1] \in Request /\ q \in 0..n /\ q + 1 \in 0..n
    BY <1>1
  <2>2. line \in Seq(Char)
    BY <2>1, RequestLayout
  <2>3. U[q + 1] = U[q] \o line /\ U[q] \in Seq(Char) /\ Continues(w, U[q + 1])
    BY <1>2, <2>1
  <2>4. EndOfRequest(s, q) = Size(U, q) /\ EndOfRequest(s, q + 1) = Size(U, q + 1)
    BY <1>4, <2>1
  <2> HIDE DEF line
  <2>5. Size(U, q + 1) = Size(U, q) + Len(line)
    BY <2>2, <2>3, SizeStep
  <2>6. Stands(line, w, Size(U, q))
    BY <1>6, <2>2, <2>3, ContinuesStands DEF Size
  <2> QED BY <2>4, <2>5, <2>6 DEF line
<1> QED BY <1>6, <1>7, <1>8, <1>9, <1>10 DEF w, n

\* Where the header and the arguments of a request stand on the wire.
LEMMA WireLayout ==
  ASSUME NEW s \in Script, NEW q \in 0..(Len(s) - 1)
  PROVE  /\ EndOfArgument(s, q, 0)
              = EndOfRequest(s, q) + NumLen(Len(s[q + 1])) + 3
         /\ EndOfArgument(s, q, Len(s[q + 1])) = EndOfRequest(s, q + 1)
         /\ \A a \in 0..Len(s[q + 1]) : EndOfArgument(s, q, a) \in Nat
         /\ Stands(ArrayLine(s[q + 1]), Wire(s), EndOfRequest(s, q))
         /\ \A a \in 0..(Len(s[q + 1]) - 1) :
              /\ EndOfArgument(s, q, a + 1)
                   = EndOfArgument(s, q, a) + ArgSize(s[q + 1][a + 1])
              /\ Stands(ArgLines(s[q + 1][a + 1]), Wire(s),
                        EndOfArgument(s, q, a))
<1> DEFINE w == Wire(s)
           r == s[q + 1]
           R == RequestUpTo(r)
           p == EndOfRequest(s, q)
           N == Len(r)
           b == RequestBytes(r)
<1>1. r \in Request /\ q \in 0..Len(s)
  BY DEF Script
<1>2. N \in Nat /\ \A a \in 1..N : r[a] \in Text
  BY <1>1 DEF Request
<1>3. /\ w \in Seq(Char) /\ p \in Nat /\ Stands(b, w, p)
      /\ EndOfRequest(s, q + 1) = p + Len(b)
  BY <1>1, WireSteps
<1>4. \A a : EndOfArgument(s, q, a) = p + Size(R, a)
  BY DEF EndOfArgument, Size
<1> HIDE DEF r, w, p
<1>5. /\ b \in Seq(Char)
      /\ Size(R, 0) = NumLen(N) + 3 /\ Size(R, N) = Len(b)
      /\ \A a \in 0..N : Size(R, a) \in Nat
      /\ Stands(ArrayLine(r), b, 0)
      /\ \A a \in 0..(N - 1) :
           /\ Size(R, a + 1) = Size(R, a) + ArgSize(r[a + 1])
           /\ Stands(ArgLines(r[a + 1]), b, Size(R, a))
  BY <1>1, RequestLayout
<1>6. ArrayLine(r) \in Seq(Char) /\ NumLen(N) \in Nat
  BY <1>1, <1>2, LineTypes, DecimalBytes
<1> HIDE DEF R, b, N
<1>7. Stands(ArrayLine(r), w, p)
  <2>1. Stands(ArrayLine(r), w, p + 0)
    BY <1>3, <1>5, <1>6, StandsInside
  <2> QED BY <1>3, <2>1
<1>8. EndOfArgument(s, q, 0) = p + NumLen(N) + 3
  BY <1>3, <1>4, <1>5, <1>6
<1>9. EndOfArgument(s, q, N) = EndOfRequest(s, q + 1)
  BY <1>3, <1>4, <1>5
<1>10. \A a \in 0..N : EndOfArgument(s, q, a) \in Nat
  BY <1>3, <1>4, <1>5
<1>11. ASSUME NEW a \in 0..(N - 1)
       PROVE  /\ EndOfArgument(s, q, a + 1)
                   = EndOfArgument(s, q, a) + ArgSize(r[a + 1])
              /\ Stands(ArgLines(r[a + 1]), w, EndOfArgument(s, q, a))
  <2>1. r[a + 1] \in Text /\ a \in 0..N /\ a + 1 \in 0..N
    BY <1>2
  <2>2. ArgSize(r[a + 1]) \in Nat /\ ArgLines(r[a + 1]) \in Seq(Char)
    BY <2>1, ArgLinesSize
  <2>3. /\ Size(R, a + 1) = Size(R, a) + ArgSize(r[a + 1])
        /\ Size(R, a) \in Nat /\ Stands(ArgLines(r[a + 1]), b, Size(R, a))
    BY <1>5, <2>1
  <2>4. Stands(ArgLines(r[a + 1]), w, p + Size(R, a))
    BY <1>3, <1>5, <2>2, <2>3, StandsInside
  <2> QED BY <1>3, <1>4, <2>2, <2>3, <2>4
<1> QED BY <1>7, <1>8, <1>9, <1>10, <1>11 DEF w, r, p, N

-----------------------------------------------------------------------------
\* The a-th argument of the q-th request, counted from 0, and the positions of
\* the numbers after '*' and '$' and of the payload.
Arg(s, q, a)       == s[q + 1][a + 1]
ArgLen(s, q, a)    == Len(Arg(s, q, a))
ArgCount(s, q)     == Len(s[q + 1])
CountAt(s, q)      == EndOfRequest(s, q) + 1
LengthAt(s, q, a)  == EndOfArgument(s, q, a) + 1
PayloadAt(s, q, a) == LengthAt(s, q, a) + NumLen(ArgLen(s, q, a)) + 2

\* The bytes of a header line at its place.
LEMMA HeaderStands ==
  ASSUME NEW b \in Char, NEW d \in Seq(Char), NEW w, NEW p \in Nat,
         Stands(<<b>> \o d \o CrLf, w, p)
  PROVE  /\ w[p + 1] = b
         /\ \A i \in 1..Len(d) : w[p + 1 + i] = d[i]
         /\ w[p + 1 + Len(d) + 1] = CR
         /\ w[p + 1 + Len(d) + 2] = LF
<1> DEFINE line == <<b>> \o d \o CrLf
           n == Len(d)
<1>1. /\ Len(line) = n + 3
      /\ line[1] = b
      /\ \A i \in 1..n : line[i + 1] = d[i]
      /\ line[n + 2] = CR
      /\ line[n + 3] = LF
  BY HeaderLine
<1>2. n \in Nat
  OBVIOUS
<1>3. \A i \in 1..Len(line) : w[p + i] = line[i]
  BY DEF Stands
<1> HIDE DEF line, n
<1>4. /\ w[p + 1] = b /\ w[p + (n + 2)] = CR /\ w[p + (n + 3)] = LF
  BY <1>1, <1>2, <1>3
<1>5. ASSUME NEW i \in 1..n PROVE w[p + 1 + i] = d[i]
  <2>1. i + 1 \in 1..Len(line) /\ p + (i + 1) = p + 1 + i
    BY <1>1, <1>2
  <2> QED BY <1>1, <1>3, <2>1
<1>6. p + (n + 2) = p + 1 + n + 1 /\ p + (n + 3) = p + 1 + n + 2
  BY <1>2
<1> QED BY <1>4, <1>5, <1>6 DEF n

\* The bytes of a line with the number of arguments: '*' at CountAt, the
\* digits behind it, CR and LF, and then the first argument.
LEMMA CountBytes ==
  ASSUME NEW s \in Script, NEW q \in 0..(Len(s) - 1)
  PROVE  /\ ArgCount(s, q) \in Nat /\ ArgCount(s, q) >= 1
         /\ CountAt(s, q) \in Nat
         /\ Wire(s)[CountAt(s, q)] = Star
         /\ \A i \in 1..NumLen(ArgCount(s, q)) :
              Wire(s)[CountAt(s, q) + i] = Decimal(ArgCount(s, q))[i]
         /\ Wire(s)[CountAt(s, q) + NumLen(ArgCount(s, q)) + 1] = CR
         /\ Wire(s)[CountAt(s, q) + NumLen(ArgCount(s, q)) + 2] = LF
         /\ EndOfArgument(s, q, 0)
              = CountAt(s, q) + NumLen(ArgCount(s, q)) + 2
<1> DEFINE n == ArgCount(s, q)
           p == EndOfRequest(s, q)
           d == Decimal(n)
<1>1. s[q + 1] \in Request /\ q \in 0..Len(s)
  BY DEF Script
<1>2. n \in Nat /\ n >= 1
  BY <1>1 DEF Request, ArgCount
<1>3. p \in Nat
  BY <1>1, WireSteps
<1>4. Stands(ArrayLine(s[q + 1]), Wire(s), p)
      /\ EndOfArgument(s, q, 0) = p + NumLen(n) + 3
  BY WireLayout DEF ArgCount
<1>5. ArrayLine(s[q + 1]) = <<Star>> \o d \o CrLf
  BY DEF ArrayLine, ArgCount
<1>6. d \in Seq(Char) /\ NumLen(n) \in Nat /\ NumLen(n) = Len(d)
  BY <1>2, DecimalBytes DEF NumLen
<1>7. Star \in Char
  BY DEF Star, Char, Byte, NUL
<1> HIDE DEF n, p, d
<1>8. /\ Wire(s)[p + 1] = Star
      /\ \A i \in 1..NumLen(n) : Wire(s)[p + 1 + i] = d[i]
      /\ Wire(s)[p + 1 + NumLen(n) + 1] = CR
      /\ Wire(s)[p + 1 + NumLen(n) + 2] = LF
  <2>1. Stands(<<Star>> \o d \o CrLf, Wire(s), p)
    BY <1>4, <1>5
  <2> HIDE DEF Stands
  <2> QED BY <1>3, <1>6, <1>7, <2>1, HeaderStands
<1>9. p + NumLen(n) + 3 = p + 1 + NumLen(n) + 2 /\ p + 1 \in Nat
  BY <1>3, <1>6
<1> QED BY <1>2, <1>4, <1>8, <1>9 DEF n, p, d, CountAt

\* The bytes of an argument: '$' at LengthAt, the digits of its length, CR and
\* LF, its own bytes behind PayloadAt, CR and LF, and then the next argument.
LEMMA ArgumentBytes ==
  ASSUME NEW s \in Script, NEW q \in 0..(Len(s) - 1),
         NEW a \in 0..(ArgCount(s, q) - 1)
  PROVE  /\ Arg(s, q, a) \in Text
         /\ ArgLen(s, q, a) \in Nat /\ ArgLen(s, q, a) >= 1
         /\ LengthAt(s, q, a) \in Nat
         /\ PayloadAt(s, q, a) \in Nat
         /\ Wire(s)[LengthAt(s, q, a)] = Dollar
         /\ \A i \in 1..NumLen(ArgLen(s, q, a)) :
              Wire(s)[LengthAt(s, q, a) + i] = Decimal(ArgLen(s, q, a))[i]
         /\ Wire(s)[LengthAt(s, q, a) + NumLen(ArgLen(s, q, a)) + 1] = CR
         /\ Wire(s)[LengthAt(s, q, a) + NumLen(ArgLen(s, q, a)) + 2] = LF
         /\ \A i \in 1..ArgLen(s, q, a) :
              Wire(s)[PayloadAt(s, q, a) + i] = Arg(s, q, a)[i]
         /\ Wire(s)[PayloadAt(s, q, a) + ArgLen(s, q, a) + 1] = CR
         /\ Wire(s)[PayloadAt(s, q, a) + ArgLen(s, q, a) + 2] = LF
         /\ EndOfArgument(s, q, a + 1)
              = PayloadAt(s, q, a) + ArgLen(s, q, a) + 2
<1> DEFINE w == Wire(s)
           t == Arg(s, q, a)
           l == ArgLen(s, q, a)
           p == EndOfArgument(s, q, a)
           d == Decimal(l)
           h == LengthLine(t)
           g == PayloadLine(t)
<1>1. s[q + 1] \in Request /\ q \in 0..Len(s)
  BY DEF Script
<1>2. t \in Text /\ a \in 0..Len(s[q + 1])
  BY <1>1 DEF Request, ArgCount, Arg
<1>3. l \in Nat /\ l >= 1 /\ t \in Seq(Char) /\ l = Len(t)
  BY <1>2 DEF Text, ArgLen
<1>4. /\ p \in Nat
      /\ EndOfArgument(s, q, a + 1) = p + ArgSize(t)
      /\ Stands(ArgLines(t), w, p)
  <2>1. a \in 0..(Len(s[q + 1]) - 1)
    BY DEF ArgCount
  <2> QED BY <1>2, <2>1, WireLayout DEF Arg
<1>5. w \in Seq(Char)
  BY WireSteps
<1>6. h = <<Dollar>> \o d \o CrLf
  BY DEF LengthLine, ArgLen
<1>7. d \in Seq(Char) /\ NumLen(l) \in Nat /\ NumLen(l) = Len(d)
  BY <1>3, DecimalBytes DEF NumLen
<1>8. /\ h \in Seq(Char) /\ Len(h) = NumLen(l) + 3
      /\ g \in Seq(Char) /\ Len(g) = l + 2
  BY <1>2, LineTypes DEF ArgLen
<1>9. /\ \A i \in 1..l : g[i] = t[i]
      /\ g[l + 1] = CR /\ g[l + 2] = LF
  BY <1>3, TextLine DEF ArgLen
<1>10. Dollar \in Char
  BY DEF Dollar, Char, Byte, NUL
<1>11. ArgLines(t) = h \o g /\ ArgSize(t) = NumLen(l) + l + 5
  BY DEF ArgLines, ArgSize, ArgLen
<1> HIDE DEF w, t, l, p, d, h, g
<1> DEFINE v == ArgLines(t)
<1>12. v \in Seq(Char) /\ Stands(h, v, 0) /\ Stands(g, v, NumLen(l) + 3)
  <2>1. v = h \o g
    BY <1>11
  <2> HIDE DEF v
  <2>2. /\ h \o g \in Seq(Char) /\ Len(h \o g) = Len(h) + Len(g)
        /\ Len(h) \in Nat /\ Len(g) \in Nat
        /\ \A i \in 1..Len(h) : (h \o g)[i] = h[i]
        /\ \A i \in 1..Len(g) : (h \o g)[Len(h) + i] = g[i]
    BY <1>8, ConcatParts
  <2>3. Stands(h, v, 0)
    BY <2>1, <2>2 DEF Stands
  <2>4. Stands(g, v, Len(h))
    BY <2>1, <2>2 DEF Stands
  <2> QED BY <1>8, <2>1, <2>2, <2>3, <2>4
<1>13. Stands(h, w, p) /\ Stands(g, w, p + (NumLen(l) + 3))
  <2> HIDE DEF Stands
  <2>1. Stands(v, w, p)
    BY <1>4
  <2>2. Stands(h, w, p + 0)
    BY <1>4, <1>5, <1>8, <1>12, <2>1, StandsInside
  <2>3. NumLen(l) + 3 \in Nat
    BY <1>7
  <2> HIDE DEF v
  <2>4. Stands(g, w, p + (NumLen(l) + 3))
    BY <1>4, <1>5, <1>8, <1>12, <2>1, <2>3, StandsInside
  <2> QED BY <1>4, <2>2, <2>4
<1>14. /\ w[p + 1] = Dollar
       /\ \A i \in 1..NumLen(l) : w[p + 1 + i] = d[i]
       /\ w[p + 1 + NumLen(l) + 1] = CR
       /\ w[p + 1 + NumLen(l) + 2] = LF
  <2>1. Stands(<<Dollar>> \o d \o CrLf, w, p)
    BY <1>6, <1>13
  <2> HIDE DEF Stands
  <2> QED BY <1>4, <1>7, <1>10, <2>1, HeaderStands
<1> DEFINE o == p + (NumLen(l) + 3)
<1>15. o = p + 1 + NumLen(l) + 2 /\ o \in Nat /\ p + 1 \in Nat
  BY <1>4, <1>7
<1>16. p + ArgSize(t) = o + l + 2
  BY <1>3, <1>4, <1>7, <1>11
<1> HIDE DEF o
<1>17. /\ \A i \in 1..l : w[o + i] = t[i]
       /\ w[o + l + 1] = CR /\ w[o + l + 2] = LF
  <2>1. \A i \in 1..(l + 2) : w[o + i] = g[i]
    BY <1>8, <1>13 DEF o, Stands
  <2>2. /\ l + 1 \in 1..(l + 2) /\ l + 2 \in 1..(l + 2)
        /\ o + (l + 1) = o + l + 1 /\ o + (l + 2) = o + l + 2
        /\ \A i \in 1..l : i \in 1..(l + 2)
    BY <1>3, <1>15, SMTT(30)
  <2> QED BY <1>9, <2>1, <2>2
<1>18. /\ LengthAt(s, q, a) = p + 1
       /\ PayloadAt(s, q, a) = o
  BY <1>15 DEF LengthAt, PayloadAt, p, l
<1>19. ArgLen(s, q, a) = l /\ Arg(s, q, a) = t /\ Wire(s) = w
  BY DEF l, t, w
<1>20. Decimal(ArgLen(s, q, a)) = d
  BY DEF d, l
<1> QED BY <1>2, <1>3, <1>4, <1>14, <1>15, <1>16, <1>17, <1>18, <1>19, <1>20

\* The arguments of a request end within it.
LEMMA ArgumentEnds ==
  ASSUME NEW s \in Script, NEW q \in 0..(Len(s) - 1),
         NEW a \in 0..ArgCount(s, q)
  PROVE  /\ EndOfArgument(s, q, a) \in Nat
         /\ EndOfRequest(s, q) + 2 < EndOfArgument(s, q, a)
         /\ EndOfArgument(s, q, a) <= EndOfRequest(s, q + 1)
<1> DEFINE n == ArgCount(s, q)
           Up(m) == m <= n => EndOfRequest(s, q) + 2 < EndOfArgument(s, q, m)
           Down(m) == m <= n =>
                        EndOfArgument(s, q, n - m) <= EndOfRequest(s, q + 1)
           S == {m \in Nat : Up(m) /\ Down(m)}
<1>1. /\ n \in Nat
      /\ EndOfArgument(s, q, 0) = CountAt(s, q) + NumLen(n) + 2
      /\ NumLen(n) \in Nat /\ NumLen(n) >= 1
  BY CountBytes, DecimalBytes
<1>2. /\ EndOfRequest(s, q) \in Nat /\ EndOfRequest(s, q + 1) \in Nat
      /\ CountAt(s, q) = EndOfRequest(s, q) + 1
  <2>1. q \in 0..Len(s) /\ q + 1 \in 0..Len(s)
    BY DEF Script
  <2> QED BY <2>1, WireSteps DEF CountAt
<1>3. /\ \A m \in 0..n : EndOfArgument(s, q, m) \in Nat
      /\ EndOfArgument(s, q, n) = EndOfRequest(s, q + 1)
  BY WireLayout DEF ArgCount
<1>4. ASSUME NEW m \in 0..(n - 1)
      PROVE  EndOfArgument(s, q, m) < EndOfArgument(s, q, m + 1)
  <2>1. /\ EndOfArgument(s, q, m + 1) = PayloadAt(s, q, m) + ArgLen(s, q, m) + 2
        /\ ArgLen(s, q, m) \in Nat
    BY ArgumentBytes
  <2>2. /\ PayloadAt(s, q, m)
             = EndOfArgument(s, q, m) + 1 + NumLen(ArgLen(s, q, m)) + 2
        /\ NumLen(ArgLen(s, q, m)) \in Nat
    BY <2>1, DecimalBytes DEF PayloadAt, LengthAt
  <2>3. EndOfArgument(s, q, m) \in Nat
    BY <1>1, <1>3
  <2> QED BY <2>1, <2>2, <2>3
<1> HIDE DEF n
<1>5. 0 \in S
  BY <1>1, <1>2, <1>3
<1>6. ASSUME NEW m \in Nat, m \in S
      PROVE  m + 1 \in S
  <2> SUFFICES ASSUME m + 1 <= n
               PROVE  Up(m + 1) /\ Down(m + 1)
    OBVIOUS
  <2>1. m \in 0..(n - 1) /\ m \in 0..n /\ m + 1 \in 0..n
        /\ n - (m + 1) \in 0..(n - 1) /\ (n - (m + 1)) + 1 = n - m
        /\ n - (m + 1) \in 0..n /\ n - m \in 0..n
    BY <1>1
  <2>2. EndOfArgument(s, q, m) < EndOfArgument(s, q, m + 1)
    BY <1>4, <2>1
  <2>3. EndOfArgument(s, q, n - (m + 1)) < EndOfArgument(s, q, n - m)
    BY <1>4, <2>1
  <2>4. /\ EndOfRequest(s, q) + 2 < EndOfArgument(s, q, m)
        /\ EndOfArgument(s, q, n - m) <= EndOfRequest(s, q + 1)
    BY <1>6, <2>1
  <2>5. /\ EndOfArgument(s, q, m) \in Nat /\ EndOfArgument(s, q, m + 1) \in Nat
        /\ EndOfArgument(s, q, n - m) \in Nat
        /\ EndOfArgument(s, q, n - (m + 1)) \in Nat
    BY <1>3, <2>1
  <2> QED BY <1>2, <2>2, <2>3, <2>4, <2>5, SMTT(30)
<1>7. Nat \subseteq S
  <2> HIDE DEF S
  <2> QED BY <1>5, <1>6, SetInduction
<1>8. a \in Nat /\ a <= n /\ n - a \in Nat /\ n - a <= n /\ n - (n - a) = a
  BY <1>1 DEF n
<1>9. Up(a) /\ Down(n - a)
  BY <1>7, <1>8
<1> QED BY <1>1, <1>3, <1>8, <1>9 DEF n

\* A later request ends later.
LEMMA RequestEnds ==
  ASSUME NEW s \in Script, NEW j \in 0..Len(s), NEW k \in 0..Len(s), j < k
  PROVE  EndOfRequest(s, j) < EndOfRequest(s, k)
<1> DEFINE n == Len(s)
           S == {d \in Nat : j + d + 1 <= n =>
                               EndOfRequest(s, j) < EndOfRequest(s, j + d + 1)}
<1>1. n \in Nat
  BY DEF Script
<1>2. \A q \in 0..n : EndOfRequest(s, q) \in Nat
  BY WireSteps
<1>3. ASSUME NEW q \in 0..(n - 1)
      PROVE  EndOfRequest(s, q) < EndOfRequest(s, q + 1)
  <2>1. 0 \in 0..ArgCount(s, q)
    BY CountBytes
  <2>2. q \in 0..n /\ q + 1 \in 0..n
    BY <1>1
  <2>3. EndOfRequest(s, q) + 2 < EndOfArgument(s, q, 0)
        /\ EndOfArgument(s, q, 0) <= EndOfRequest(s, q + 1)
        /\ EndOfArgument(s, q, 0) \in Nat
    BY <2>1, ArgumentEnds
  <2> QED BY <1>2, <2>2, <2>3
<1> HIDE DEF n
<1>4. 0 \in S
  <2> SUFFICES ASSUME j + 0 + 1 <= n
               PROVE  EndOfRequest(s, j) < EndOfRequest(s, j + 0 + 1)
    OBVIOUS
  <2>1. j \in 0..(n - 1) /\ j + 0 + 1 = j + 1
    BY <1>1 DEF n
  <2> QED BY <1>3, <2>1
<1>5. ASSUME NEW d \in Nat, d \in S
      PROVE  d + 1 \in S
  <2> SUFFICES ASSUME j + (d + 1) + 1 <= n
               PROVE  EndOfRequest(s, j) < EndOfRequest(s, j + (d + 1) + 1)
    OBVIOUS
  <2>1. /\ j + d + 1 \in 0..(n - 1) /\ j + (d + 1) + 1 = (j + d + 1) + 1
        /\ j + d + 1 \in 0..n /\ (j + d + 1) + 1 \in 0..n /\ j \in 0..n
    BY <1>1 DEF n
  <2>2. EndOfRequest(s, j + d + 1) < EndOfRequest(s, (j + d + 1) + 1)
    BY <1>3, <2>1
  <2>3. EndOfRequest(s, j) < EndOfRequest(s, j + d + 1)
    BY <1>5, <2>1
  <2>4. /\ EndOfRequest(s, j) \in Nat /\ EndOfRequest(s, j + d + 1) \in Nat
        /\ EndOfRequest(s, (j + d + 1) + 1) \in Nat
    BY <1>2, <2>1
  <2> QED BY <2>1, <2>2, <2>3, <2>4
<1>6. Nat \subseteq S
  <2> HIDE DEF S
  <2> QED BY <1>4, <1>5, SetInduction
<1>7. k - j - 1 \in Nat /\ j + (k - j - 1) + 1 = k /\ k <= n
  BY <1>1 DEF n
<1> QED BY <1>6, <1>7

\* A line that may not be cut has no read that ends between its CR and its LF.
LEMMA Cuts ==
  ASSUME NEW s \in Script, NEW kinds, NEW q \in 0..(Len(s) - 1)
  PROVE  /\ "array" \in kinds =>
              CountAt(s, q) + NumLen(ArgCount(s, q)) + 1 \in CrLfCuts(s, kinds)
         /\ "length" \in kinds => \A a \in 0..(ArgCount(s, q) - 1) :
              LengthAt(s, q, a) + NumLen(ArgLen(s, q, a)) + 1
                \in CrLfCuts(s, kinds)
<1> DEFINE k == q + 1
<1>1. /\ k \in DOMAIN s /\ k - 1 = q /\ s[k] \in Request
  BY DEF Script
<1>2. \A l \in Lines(s) : l.kind \in kinds => l.end - 1 \in CrLfCuts(s, kinds)
  BY DEF CrLfCuts
<1>3. Line("array", EndOfArgument(s, q, 0)) \in Lines(s)
  <2>1. Line("array", EndOfArgument(s, k - 1, 0)) \in Lines(s)
    BY <1>1 DEF Lines
  <2> QED BY <1>1, <2>1
<1>4. "array" \in kinds => EndOfArgument(s, q, 0) - 1 \in CrLfCuts(s, kinds)
  BY <1>2, <1>3 DEF Line
<1>5. EndOfArgument(s, q, 0) - 1 = CountAt(s, q) + NumLen(ArgCount(s, q)) + 1
  <2>1. /\ EndOfArgument(s, q, 0) = CountAt(s, q) + NumLen(ArgCount(s, q)) + 2
        /\ CountAt(s, q) \in Nat /\ NumLen(ArgCount(s, q)) \in Nat
    BY CountBytes, DecimalBytes
  <2> QED BY <2>1
<1>6. ASSUME NEW a \in 0..(ArgCount(s, q) - 1), "length" \in kinds
      PROVE  LengthAt(s, q, a) + NumLen(ArgLen(s, q, a)) + 1
                \in CrLfCuts(s, kinds)
  <2> DEFINE e == EndOfArgument(s, q, a) + Len(LengthLine(Arg(s, q, a)))
  <2>1. a + 1 \in DOMAIN s[k] /\ (a + 1) - 1 = a
    BY <1>1 DEF Request, ArgCount
  <2>2. Line("length", EndOfArgument(s, k - 1, (a + 1) - 1)
                         + Len(LengthLine(s[k][a + 1]))) \in Lines(s)
    BY <1>1, <2>1 DEF Lines
  <2>3. Line("length", e) \in Lines(s)
    BY <1>1, <2>1, <2>2 DEF Arg
  <2> HIDE DEF e
  <2>4. e - 1 \in CrLfCuts(s, kinds)
    BY <1>2, <1>6, <2>3 DEF Line
  <2>5. /\ Len(LengthLine(Arg(s, q, a))) = NumLen(ArgLen(s, q, a)) + 3
        /\ NumLen(ArgLen(s, q, a)) \in Nat
        /\ EndOfArgument(s, q, a) \in Nat
    <3>1. Arg(s, q, a) \in Text /\ ArgLen(s, q, a) \in Nat
      BY ArgumentBytes
    <3>2. a \in 0..ArgCount(s, q)
      BY CountBytes
    <3> QED BY <3>1, <3>2, LineTypes, DecimalBytes, ArgumentEnds DEF ArgLen
  <2>6. e - 1 = LengthAt(s, q, a) + NumLen(ArgLen(s, q, a)) + 1
    BY <2>5 DEF e, LengthAt
  <2> QED BY <2>4, <2>6
<1> QED BY <1>4, <1>5, <1>6
=============================================================================
