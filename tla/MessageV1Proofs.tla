--------------------------- MODULE MessageV1Proofs --------------------------
(***************************************************************************)
(* Lemmas about MessageV1, for ExchangeProofs.                             *)
(*                                                                         *)
(* Sizes and serializations are recursive functions: that such a function  *)
(* exists is shown by PrimitiveRecursion, from its initial parts (Upto),   *)
(* and what it returns by Induction.  With ValueBound no size that is read *)
(* wraps, and the parser stays between two chunks (ParseInv).              *)
(***************************************************************************)
EXTENDS MessageV1, SequenceTheorems, WellFoundedInduction, TLAPS

-----------------------------------------------------------------------------
(* Induction, and the functions defined by it.                             *)

\* A set of numbers that is not empty has a least member.
LEMMA Least ==
    ASSUME NEW T, T \subseteq Nat, T # {}
    PROVE  \E x \in T : \A y \in T : ~(y < x)
<1>1. IsWellFoundedOn(OpToRel(<, Nat), Nat)
  BY NatLessThanWellFounded
<1>2. PICK x \in T : \A y \in T : ~(<<y, x>> \in OpToRel(<, Nat))
  BY <1>1, WFMin
<1>3. \A y \in T : y < x => <<y, x>> \in OpToRel(<, Nat)
  BY DEF OpToRel
<1> QED BY <1>2, <1>3

\* Induction: a set with 0 and every successor has all of Nat.
LEMMA Induction ==
    ASSUME NEW S, 0 \in S, \A n \in Nat : n \in S => n + 1 \in S
    PROVE  Nat \subseteq S
<1> DEFINE T == Nat \ S
<1> SUFFICES ASSUME T # {} PROVE FALSE
  OBVIOUS
<1>1. PICK x \in T : \A y \in T : ~(y < x)
  <2>1. T \subseteq Nat
    OBVIOUS
  <2> HIDE DEF T
  <2> QED BY <2>1, Least
<1>2. x \in Nat /\ x # 0
  BY <1>1
<1>3. x - 1 \in Nat /\ x - 1 < x
  BY <1>2
<1>4. x - 1 \in S
  BY <1>1, <1>3
<1> QED BY <1>2, <1>3, <1>4

\* The first n values of a function whose value at 0 is base and whose every
\* other one is made of the one before.
Upto(S, base, g, n, h) ==
    /\ h \in [0 .. n -> S] /\ h[0] = base
    /\ \A i \in 0 .. n - 1 : h[i + 1] = g[i][h[i]]

\* There are as many as one wants.
LEMMA UptoExists ==
    ASSUME NEW S, NEW base \in S, NEW g \in [Nat -> [S -> S]], NEW m \in Nat
    PROVE  \E h : Upto(S, base, g, m, h)
<1> DEFINE D == {n \in Nat : \E h : Upto(S, base, g, n, h)}
<1>1. 0 \in D
  <2>1. Upto(S, base, g, 0, [i \in 0 .. 0 |-> base])
    BY DEF Upto
  <2> QED BY <2>1
<1>2. ASSUME NEW n \in Nat, n \in D PROVE n + 1 \in D
  <2>1. PICK h : Upto(S, base, g, n, h)
    BY <1>2
  <2> DEFINE k == [i \in 0 .. n + 1 |-> IF i <= n THEN h[i] ELSE g[n][h[n]]]
  <2>2. h[n] \in S /\ g[n] \in [S -> S]
    BY <2>1 DEF Upto
  <2>3. k \in [0 .. n + 1 -> S] /\ k[0] = base
    BY <2>1, <2>2 DEF Upto
  <2>4. ASSUME NEW i \in 0 .. n PROVE k[i + 1] = g[i][k[i]]
    <3>1. CASE i < n
      BY <2>1, <3>1 DEF Upto
    <3>2. CASE i = n
      BY <3>2
    <3> QED BY <3>1, <3>2
  <2> HIDE DEF k
  <2>5. 0 .. (n + 1) - 1 = 0 .. n
    OBVIOUS
  <2>6. Upto(S, base, g, n + 1, k)
    BY <2>3, <2>4, <2>5 DEF Upto
  <2> QED BY <2>6
<1>3. Nat \subseteq D
  <2> HIDE DEF D
  <2> QED BY <1>1, <1>2, Induction
<1> QED BY <1>3

\* And they agree.
LEMMA UptoUnique ==
    ASSUME NEW S, NEW base \in S, NEW g \in [Nat -> [S -> S]],
           NEW n \in Nat, NEW m \in Nat, NEW h, NEW k,
           Upto(S, base, g, n, h), Upto(S, base, g, m, k)
    PROVE  \A i \in Nat : i <= n /\ i <= m => h[i] = k[i]
<1> DEFINE U == {i \in Nat : i <= n /\ i <= m => h[i] = k[i]}
<1>1. 0 \in U
  BY DEF Upto
<1>2. ASSUME NEW i \in Nat, i \in U PROVE i + 1 \in U
  <2> SUFFICES ASSUME i + 1 <= n, i + 1 <= m PROVE h[i + 1] = k[i + 1]
    OBVIOUS
  <2>1. h[i] = k[i]
    BY <1>2
  <2>2. i \in 0 .. n - 1 /\ i \in 0 .. m - 1
    OBVIOUS
  <2> QED BY <2>1, <2>2 DEF Upto
<1>3. Nat \subseteq U
  <2> HIDE DEF U
  <2> QED BY <1>1, <1>2, Induction
<1> QED BY <1>3

\* A function whose value at 0 is base, and at n + 1 what g[n] makes of the n-th.
Recursive(f, S, base, g) ==
    /\ f \in [Nat -> S] /\ f[0] = base
    /\ \A n \in Nat : f[n + 1] = g[n][f[n]]

\* Hence there is such a function.
LEMMA PrimitiveRecursion ==
    ASSUME NEW S, NEW base \in S, NEW g, g \in [Nat -> [S -> S]]
    PROVE  \E f : Recursive(f, S, base, g)
<1> DEFINE H == [n \in Nat |-> CHOOSE h : Upto(S, base, g, n, h)]
           f == [n \in Nat |-> H[n][n]]
<1>1. \A n \in Nat : Upto(S, base, g, n, H[n])
  BY UptoExists
<1>2. \A n \in Nat : f[n] = H[n][n]
  OBVIOUS
<1>3. DOMAIN f = Nat /\ f = [n \in Nat |-> f[n]]
  OBVIOUS
<1> HIDE DEF H, f
<1>4. \A n \in Nat : H[n][n] \in S
  <2> TAKE n \in Nat
  <2>1. Upto(S, base, g, n, H[n])
    BY <1>1
  <2>2. H[n] \in [0 .. n -> S]
    BY <2>1 DEF Upto
  <2> QED BY <2>2
<1>5. f \in [Nat -> S]
  BY <1>2, <1>3, <1>4
<1>6. f[0] = base
  BY <1>1, <1>2 DEF Upto
<1>7. ASSUME NEW n \in Nat PROVE f[n + 1] = g[n][f[n]]
  <2>1. Upto(S, base, g, n, H[n]) /\ Upto(S, base, g, n + 1, H[n + 1])
    BY <1>1
  <2>2. H[n + 1][n] = H[n][n]
    <3>1. n + 1 \in Nat /\ n <= n + 1
      OBVIOUS
    <3>2. \A i \in Nat : i <= n + 1 /\ i <= n => H[n + 1][i] = H[n][i]
      <4> DEFINE a == n + 1
                 h == H[a]
                 k == H[n]
      <4>1. Upto(S, base, g, a, h) /\ Upto(S, base, g, n, k) /\ a \in Nat
        BY <2>1, <3>1
      <4> HIDE DEF a, h, k
      <4>2. \A i \in Nat : i <= a /\ i <= n => h[i] = k[i]
        BY <4>1, UptoUnique
      <4> QED BY <4>2 DEF a, h, k
    <3> QED BY <3>1, <3>2
  <2>3. H[n + 1][n + 1] = g[n][H[n + 1][n]]
    BY <2>1 DEF Upto
  <2> QED BY <1>2, <2>2, <2>3
<1> QED BY <1>5, <1>6, <1>7 DEF Recursive

\* The powers of Base are positive numbers, each the one before times Base.
LEMMA Powers ==
    /\ Power \in [Nat -> Nat \ {0}] /\ Power[0] = 1
    /\ \A n \in Nat : Power[n + 1] = Base * Power[n]
<1> DEFINE S == Nat \ {0}
           g == [n \in Nat |-> [x \in S |-> Base * x]]
<1>1. g \in [Nat -> [S -> S]]
  BY FormatAssumption
<1>2. PICK f : Recursive(f, S, 1, g)
  <2> DEFINE one == 1
  <2>1. one \in S
    OBVIOUS
  <2> HIDE DEF S, g, one
  <2>2. \E f : Recursive(f, S, one, g)
    BY <1>1, <2>1, PrimitiveRecursion
  <2> QED BY <2>2 DEF one
<1>3. f = [n \in Nat |-> IF n = 0 THEN 1 ELSE Base * f[n - 1]]
  <2>1. \A n \in Nat : n # 0 => f[n] = Base * f[n - 1]
    <3> TAKE n \in Nat
    <3> HAVE n # 0
    <3>1. n - 1 \in Nat /\ n = (n - 1) + 1
      OBVIOUS
    <3>2. f[(n - 1) + 1] = g[n - 1][f[n - 1]]
      BY <1>2, <3>1 DEF Recursive
    <3>3. f[n - 1] \in S
      BY <1>2, <3>1 DEF Recursive
    <3> QED BY <3>1, <3>2, <3>3
  <2> QED BY <1>2, <2>1 DEF Recursive
<1>4. Power = [n \in Nat |-> IF n = 0 THEN 1 ELSE Base * Power[n - 1]]
  BY <1>3 DEF Power
<1>5. Power[0] = 1 /\ \A n \in Nat : Power[n + 1] = Base * Power[n]
  BY <1>4
<1>6. Nat \subseteq {n \in Nat : Power[n] \in S}
  <2> DEFINE P == {n \in Nat : Power[n] \in S}
  <2>1. 0 \in P
    BY <1>5
  <2>2. ASSUME NEW n \in Nat, n \in P PROVE n + 1 \in P
    BY <1>5, <2>2, FormatAssumption
  <2>3. Nat \subseteq P
    <3> HIDE DEF P
    <3> QED BY <2>1, <2>2, Induction
  <2> QED BY <2>3
<1> QED BY <1>4, <1>5, <1>6

-----------------------------------------------------------------------------
(* Sizes.                                                                  *)

\* A number that is below p takes another digit.
LEMMA Digit ==
    ASSUME NEW x \in Nat, NEW p \in Nat, NEW q \in Nat, NEW b \in Nat, x < p, b < q
    PROVE  x * q + b < q * p
<1>1. PICK d \in Nat : p = x + 1 + d
  <2>1. p - (x + 1) \in Nat
    OBVIOUS
  <2> QED BY <2>1
<1>2. q * p = q * x + q + q * d
  BY <1>1
<1>3. q * d \in Nat /\ q * x \in Nat /\ q * x = x * q
  OBVIOUS
<1> QED BY <1>2, <1>3

\* The values of the first n digits.
Steps(bytes, v) ==
    /\ v[0] = 0
    /\ \A n \in 0 .. Len(bytes) - 1 : v[n + 1] = v[n] * Base + bytes[n + 1]

\* The value of a number is the last of them.
LEMMA ValueSteps ==
    ASSUME NEW bytes \in Seq(Octets)
    PROVE  \E v : Steps(bytes, v) /\ Value(bytes) = v[Len(bytes)]
<1> DEFINE m == Len(bytes)
           g == [n \in Nat |->
                   [x \in Nat |-> IF n < m THEN x * Base + bytes[n + 1] ELSE x]]
<1>1. m \in Nat /\ \A n \in 1 .. m : bytes[n] \in Nat /\ bytes[n] < Base
  BY FormatAssumption DEF Octets
<1>2. g \in [Nat -> [Nat -> Nat]]
  <2> SUFFICES ASSUME NEW n \in Nat, NEW x \in Nat
               PROVE  (IF n < m THEN x * Base + bytes[n + 1] ELSE x) \in Nat
    OBVIOUS
  <2>1. CASE n < m
    <3>1. n + 1 \in 1 .. m
      BY <1>1, <2>1
    <3>2. bytes[n + 1] \in Nat
      BY <1>1, <3>1
    <3>3. x * Base \in Nat
      BY FormatAssumption
    <3> QED BY <2>1, <3>2, <3>3
  <2>2. CASE ~(n < m)
    BY <2>2
  <2> QED BY <2>1, <2>2
<1>3. \A n \in Nat : \A x \in Nat : n < m => g[n][x] = x * Base + bytes[n + 1]
  OBVIOUS
<1>4. PICK h : Upto(Nat, 0, g, m, h)
  <2> DEFINE zero == 0
             N == Nat
  <2>1. zero \in N /\ g \in [Nat -> [N -> N]] /\ m \in Nat
    BY <1>1, <1>2
  <2> HIDE DEF zero, N, g, m
  <2>2. \E h : Upto(N, zero, g, m, h)
    BY <2>1, UptoExists
  <2> QED BY <2>2 DEF zero, N
<1> HIDE DEF g
<1>5. h = [n \in 0 .. m |-> IF n = 0 THEN 0 ELSE h[n - 1] * Base + bytes[n]]
  <2>1. h \in [0 .. m -> Nat] /\ h[0] = 0
    BY <1>4 DEF Upto
  <2>2. ASSUME NEW n \in 0 .. m, n # 0 PROVE h[n] = h[n - 1] * Base + bytes[n]
    <3>1. n - 1 \in 0 .. m - 1 /\ n - 1 \in 0 .. m /\ n - 1 \in Nat /\ (n - 1) + 1 = n
      BY <1>1, <2>2
    <3>2. h[(n - 1) + 1] = g[n - 1][h[n - 1]]
      BY <1>4, <3>1 DEF Upto
    <3>3. h[n - 1] \in Nat /\ n - 1 < m
      BY <1>1, <2>1, <3>1
    <3> QED BY <1>3, <3>1, <3>2, <3>3
  <2> QED BY <1>1, <2>1, <2>2
<1> DEFINE v == CHOOSE v :
                  v = [n \in 0 .. m |-> IF n = 0 THEN 0 ELSE v[n - 1] * Base + bytes[n]]
<1>6. v = [n \in 0 .. m |-> IF n = 0 THEN 0 ELSE v[n - 1] * Base + bytes[n]]
  BY <1>5
<1>7. Value(bytes) = v[m]
  BY DEF Value
<1> HIDE DEF v
<1>8. v[0] = 0
  BY <1>1, <1>6
<1>9. \A n \in 0 .. m - 1 : v[n + 1] = v[n] * Base + bytes[n + 1]
  <2> TAKE n \in 0 .. m - 1
  <2>1. n + 1 \in 0 .. m /\ n + 1 # 0 /\ (n + 1) - 1 = n
    BY <1>1
  <2> QED BY <1>6, <2>1
<1> QED BY <1>7, <1>8, <1>9 DEF Steps

\* A size of n bytes is below Base to the n-th.
LEMMA ValueBound ==
    ASSUME NEW bytes \in Seq(Octets)
    PROVE  Value(bytes) \in Nat /\ Value(bytes) < Power[Len(bytes)]
<1> DEFINE m == Len(bytes)
<1>1. m \in Nat /\ \A n \in 1 .. m : bytes[n] \in Nat /\ bytes[n] < Base
  BY FormatAssumption DEF Octets
<1>2. PICK v : Steps(bytes, v) /\ Value(bytes) = v[m]
  BY ValueSteps
<1> DEFINE P == {n \in Nat : n <= m => v[n] \in Nat /\ v[n] < Power[n]}
<1>3. 0 \in P
  <2>1. v[0] = 0
    BY <1>2 DEF Steps
  <2>2. Power[0] = 1
    BY Powers
  <2> QED BY <1>1, <2>1, <2>2
<1>4. ASSUME NEW n \in Nat, n \in P PROVE n + 1 \in P
  <2> SUFFICES ASSUME n + 1 <= m PROVE v[n + 1] \in Nat /\ v[n + 1] < Power[n + 1]
    OBVIOUS
  <2>1. v[n] \in Nat /\ v[n] < Power[n] /\ Power[n] \in Nat
    <3>1. n <= m
      BY <1>1
    <3>2. Power[n] \in Nat
      BY Powers
    <3> QED BY <1>4, <3>1, <3>2
  <2>2. bytes[n + 1] \in Nat /\ bytes[n + 1] < Base /\ Base \in Nat
    BY <1>1, FormatAssumption
  <2>3. n \in 0 .. m - 1
    BY <1>1
  <2>4. v[n + 1] = v[n] * Base + bytes[n + 1]
    BY <1>2, <2>3 DEF Steps
  <2>5. v[n] * Base + bytes[n + 1] < Base * Power[n]
    BY <2>1, <2>2, Digit
  <2>6. v[n] * Base + bytes[n + 1] \in Nat
    BY <2>1, <2>2
  <2> QED BY <2>4, <2>5, <2>6, Powers
<1>5. Nat \subseteq P
  <2> HIDE DEF P
  <2> QED BY <1>3, <1>4, Induction
<1> QED BY <1>1, <1>2, <1>5

\* A size is as wide as it is declared.
LEMMA NumberWidth ==
    ASSUME NEW n \in Nat
    PROVE  Number(n) \in Seq(Octets) /\ Len(Number(n)) = SizeWidth
<1>1. SizeWidth \in Nat
  BY FormatAssumption
<1>2. \A i \in 1 .. SizeWidth : (n \div Power[SizeWidth - i]) % Base \in Octets
  <2> TAKE i \in 1 .. SizeWidth
  <2>1. SizeWidth - i \in Nat
    BY <1>1
  <2> DEFINE p == Power[SizeWidth - i]
             d == n \div p
  <2>2. p \in Nat \ {0}
    BY <2>1, Powers
  <2>3. d \in Nat
    <3> HIDE DEF p
    <3> QED BY <2>2
  <2> HIDE DEF d
  <2>4. d % Base \in Octets
    BY <2>3, FormatAssumption DEF Octets
  <2> QED BY <2>4 DEF d
<1> DEFINE f == [i \in 1 .. SizeWidth |-> (n \div Power[SizeWidth - i]) % Base]
<1>3. f \in [1 .. SizeWidth -> Octets]
  BY <1>2
<1>4. f = Number(n)
  BY DEF Number
<1> HIDE DEF f
<1>5. f \in Seq(Octets) /\ Len(f) = SizeWidth
  BY <1>1, <1>3
<1> QED BY <1>4, <1>5

\* A chunk takes MetaSize bytes more than its content.
LEMMA ChunkBytes ==
    ASSUME NEW c \in ChunkSet
    PROVE  /\ serializeOn(c) \in Seq(Octets)
           /\ Len(serializeOn(c)) = MetaSize + Len(c.content)
<1>1. c.descriptor \in Octets /\ c.size \in Nat /\ c.content \in Seq(Octets)
  BY DEF ChunkSet
<1>2. Number(c.size) \in Seq(Octets) /\ Len(Number(c.size)) = SizeWidth
  BY <1>1, NumberWidth
<1>3. <<c.descriptor>> \in Seq(Octets) /\ Len(<<c.descriptor>>) = 1
  BY <1>1
<1> DEFINE a == <<c.descriptor>>
           b == Number(c.size)
           d == c.content
<1>4. serializeOn(c) = a \o b \o d
  BY DEF serializeOn
<1>5. a \in Seq(Octets) /\ b \in Seq(Octets) /\ d \in Seq(Octets)
      /\ Len(a) = 1 /\ Len(b) = SizeWidth
  BY <1>1, <1>2, <1>3
<1> HIDE DEF a, b, d
<1>6. (a \o b) \in Seq(Octets) /\ Len(a \o b) = 1 + SizeWidth
  BY <1>5, ConcatProperties
<1>7. (a \o b) \o d \in Seq(Octets) /\ Len((a \o b) \o d) = 1 + SizeWidth + Len(d)
  <2> DEFINE e == a \o b
  <2>1. e \in Seq(Octets)
    BY <1>6
  <2> HIDE DEF e
  <2>2. e \o d \in Seq(Octets) /\ Len(e \o d) = Len(e) + Len(d)
    BY <1>5, <2>1, ConcatProperties
  <2> QED BY <1>6, <2>2 DEF e
<1> QED BY <1>4, <1>7 DEF MetaSize, d

\* The serializations of the chunks of a list up to each of them.
PrefixBytes(l, h) ==
    /\ h \in [0 .. Len(l) -> Seq(Octets)] /\ h[0] = <<>>
    /\ \A i \in 0 .. Len(l) - 1 : h[i + 1] = h[i] \o serializeOn(l[i + 1])

\* The serialization of a list is the last of them.
LEMMA SerializedPrefixes ==
    ASSUME NEW l \in Seq(ChunkSet)
    PROVE  \E h : PrefixBytes(l, h) /\ Serialized(l) = h[Len(l)]
<1> DEFINE m == Len(l)
           S == Seq(Octets)
           G(n, x) == IF n < m THEN x \o serializeOn(l[n + 1]) ELSE x
           g == [n \in Nat |-> [x \in S |-> G(n, x)]]
<1>1. m \in Nat /\ \A n \in 1 .. m : serializeOn(l[n]) \in S
  BY ChunkBytes
<1>2. ASSUME NEW n \in Nat, NEW x \in S PROVE G(n, x) \in S
  <2>1. CASE n < m
    <3>1. n + 1 \in 1 .. m
      BY <1>1, <2>1
    <3> DEFINE y == serializeOn(l[n + 1])
    <3>2. y \in S
      BY <1>1, <3>1
    <3> HIDE DEF y
    <3>3. x \o y \in S
      BY <3>2, ConcatProperties
    <3> QED BY <2>1, <3>3 DEF y
  <2>2. CASE ~(n < m)
    BY <2>2
  <2> QED BY <2>1, <2>2
<1>3. g \in [Nat -> [S -> S]]
  <2> HIDE DEF G, S
  <2> QED BY <1>2
<1>4. \A n \in Nat : \A x \in S : n < m => g[n][x] = x \o serializeOn(l[n + 1])
  <2> HIDE DEF S
  <2> QED OBVIOUS
<1>5. PICK h : Upto(S, <<>>, g, m, h)
  <2> DEFINE empty == <<>>
  <2>1. empty \in S
    OBVIOUS
  <2> HIDE DEF empty, S, g, m
  <2>2. \E h : Upto(S, empty, g, m, h)
    BY <1>1, <1>3, <2>1, UptoExists
  <2> QED BY <2>2 DEF empty
<1> HIDE DEF g, G, S
<1>6. h \in [0 .. m -> S] /\ h[0] = <<>>
  BY <1>5 DEF Upto
<1>7. ASSUME NEW i \in 0 .. m - 1 PROVE h[i + 1] = h[i] \o serializeOn(l[i + 1])
  <2>1. i \in Nat /\ i < m /\ i \in 0 .. m
    BY <1>1
  <2>2. h[i + 1] = g[i][h[i]]
    BY <1>5 DEF Upto
  <2>3. h[i] \in S
    BY <1>6, <2>1
  <2> QED BY <1>4, <2>1, <2>2, <2>3
<1>8. h = [n \in 0 .. m |-> IF n = 0 THEN <<>> ELSE h[n - 1] \o serializeOn(l[n])]
  <2>1. ASSUME NEW n \in 0 .. m, n # 0
        PROVE  h[n] = h[n - 1] \o serializeOn(l[n])
    <3>1. n - 1 \in 0 .. m - 1 /\ (n - 1) + 1 = n
      BY <1>1, <2>1
    <3> QED BY <1>7, <3>1
  <2> QED BY <1>6, <2>1
<1> DEFINE v == CHOOSE v :
              v = [n \in 0 .. m |-> IF n = 0 THEN <<>> ELSE v[n - 1] \o serializeOn(l[n])]
<1>9. v = [n \in 0 .. m |-> IF n = 0 THEN <<>> ELSE v[n - 1] \o serializeOn(l[n])]
  BY <1>8
<1>10. Serialized(l) = v[m]
  BY DEF Serialized
<1> HIDE DEF v
<1>11. v[0] = <<>>
  BY <1>1, <1>9
<1>12. ASSUME NEW n \in Nat, n < m PROVE v[n + 1] = v[n] \o serializeOn(l[n + 1])
  <2>1. n + 1 \in 0 .. m /\ n + 1 # 0 /\ (n + 1) - 1 = n
    BY <1>1, <1>12
  <2> QED BY <1>9, <2>1
<1> DEFINE P == {n \in Nat : n <= m => v[n] = h[n]}
<1>13. 0 \in P
  BY <1>6, <1>11
<1>14. ASSUME NEW n \in Nat, n \in P PROVE n + 1 \in P
  <2> SUFFICES ASSUME n + 1 <= m PROVE v[n + 1] = h[n + 1]
    OBVIOUS
  <2>1. n < m /\ n <= m /\ n \in 0 .. m - 1
    BY <1>1
  <2>2. v[n] = h[n]
    BY <1>14, <2>1
  <2> QED BY <1>7, <1>12, <2>1, <2>2
<1>15. Nat \subseteq P
  <2> HIDE DEF P
  <2> QED BY <1>13, <1>14, Induction
<1>16. v[m] = h[m]
  BY <1>1, <1>15
<1>17. PrefixBytes(l, h)
  BY <1>6, <1>7 DEF PrefixBytes, S
<1> QED BY <1>10, <1>16, <1>17

\* A chunk more is its bytes at the end.
LEMMA SerializedAppend ==
    ASSUME NEW l \in Seq(ChunkSet), NEW c \in ChunkSet
    PROVE  /\ Serialized(l) \in Seq(Octets)
           /\ Serialized(Append(l, c)) = Serialized(l) \o serializeOn(c)
<1> DEFINE m == Len(l)
           t == Append(l, c)
<1>1. m \in Nat /\ t \in Seq(ChunkSet) /\ Len(t) = m + 1 /\ t[m + 1] = c
  OBVIOUS
<1>2. \A i \in 1 .. m : t[i] = l[i]
  OBVIOUS
<1>3. PICK h : PrefixBytes(l, h) /\ Serialized(l) = h[m]
  BY SerializedPrefixes
<1>4. PICK k : PrefixBytes(t, k) /\ Serialized(t) = k[m + 1]
  <2> HIDE DEF t, m
  <2>1. \E k : PrefixBytes(t, k) /\ Serialized(t) = k[Len(t)]
    BY <1>1, SerializedPrefixes
  <2> QED BY <1>1, <2>1
<1> HIDE DEF t
<1> DEFINE P == {n \in Nat : n <= m => k[n] = h[n]}
<1>5. 0 \in P
  BY <1>3, <1>4 DEF PrefixBytes
<1>6. ASSUME NEW n \in Nat, n \in P PROVE n + 1 \in P
  <2> SUFFICES ASSUME n + 1 <= m PROVE k[n + 1] = h[n + 1]
    OBVIOUS
  <2>1. n <= m /\ n \in 0 .. m - 1 /\ n \in 0 .. (m + 1) - 1 /\ n + 1 \in 1 .. m
    BY <1>1
  <2>2. k[n] = h[n] /\ t[n + 1] = l[n + 1]
    BY <1>2, <1>6, <2>1
  <2>3. h[n + 1] = h[n] \o serializeOn(l[n + 1])
    BY <1>3, <2>1 DEF PrefixBytes
  <2>4. k[n + 1] = k[n] \o serializeOn(t[n + 1])
    BY <1>1, <1>4, <2>1 DEF PrefixBytes
  <2> QED BY <2>2, <2>3, <2>4
<1>7. Nat \subseteq P
  <2> HIDE DEF P
  <2> QED BY <1>5, <1>6, Induction
<1>8. k[m] = h[m] /\ m \in 0 .. m /\ m \in 0 .. (m + 1) - 1
  BY <1>1, <1>7
<1>9. k[m + 1] = k[m] \o serializeOn(t[m + 1])
  BY <1>1, <1>4, <1>8 DEF PrefixBytes
<1>10. h[m] \in Seq(Octets)
  BY <1>3, <1>8 DEF PrefixBytes
<1> QED BY <1>1, <1>3, <1>4, <1>8, <1>9, <1>10 DEF t

\* The list of no chunks has no bytes.
LEMMA SerializedEmpty == Serialized(<<>>) = <<>>
<1>1. PICK h : PrefixBytes(<<>>, h) /\ Serialized(<<>>) = h[0]
  <2> DEFINE e == <<>>
  <2>1. e \in Seq(ChunkSet) /\ Len(e) = 0
    OBVIOUS
  <2> HIDE DEF e
  <2>2. \E h : PrefixBytes(e, h) /\ Serialized(e) = h[Len(e)]
    BY <2>1, SerializedPrefixes
  <2> QED BY <2>1, <2>2 DEF e
<1> QED BY <1>1 DEF PrefixBytes

-----------------------------------------------------------------------------
(* The parser.                                                             *)

Messages == [version : Octets, envelope : ChunkSet, data : ChunkSet,
             debug : Seq(ChunkSet)]

\* The sizes of the format, and the chunk and the message that are not there.
LEMMA Sizes ==
    /\ SizeLimit \in Nat \ {0} /\ SizeWidth \in Nat \ {0}
    /\ MetaSize = SizeWidth + 1 /\ HeaderSize = SizeWidth + 2
    /\ NoChunk \in ChunkSet /\ Blank \in Messages
<1>1. SizeLimit \in Nat \ {0} /\ SizeWidth \in Nat \ {0}
  BY Powers, FormatAssumption DEF SizeLimit
<1>2. MetaSize = SizeWidth + 1 /\ HeaderSize = SizeWidth + 2
  BY <1>1 DEF MetaSize, HeaderSize
<1>3. NoChunk \in ChunkSet
  <2>1. 0 % SizeLimit \in Nat
    BY <1>1
  <2>2. 0 \in Octets /\ Len(<<>>) = 0 /\ <<>> \in Seq(Octets)
    BY FormatAssumption DEF Octets
  <2> QED BY <2>1, <2>2 DEF NoChunk, Chunk, ChunkSet
<1>4. Blank \in Messages
  <2>1. 0 \in Octets /\ <<>> \in Seq(ChunkSet)
    BY FormatAssumption DEF Octets
  <2> QED BY <1>3, <2>1 DEF Blank, Messages
<1> QED BY <1>1, <1>2, <1>3, <1>4

\* A chunk that is made from a text is one that the constructors accept.
LEMMA ChunkMade ==
    ASSUME NEW type \in {ENVELOPE, DATA, DEBUG}, NEW text \in Seq(Octets)
    PROVE  Chunk(type, text) \in ChunkSet
<1>1. type \in Octets
  BY FormatAssumption DEF Octets, ENVELOPE, DATA, DEBUG
<1>2. Len(text) % SizeLimit \in Nat
  BY Sizes
<1> QED BY <1>1, <1>2 DEF Chunk, ChunkSet

\* The bytes of a message are those of its chunks.
LEMMA Length ==
    ASSUME NEW m \in Messages
    PROVE  /\ Len(Serialized(m.debug)) \in Nat
           /\ Len(getSerialized(m)) =
                 1 + MetaSize + Len(m.envelope.content)
                     + (IF hasData(m) THEN MetaSize + Len(m.data.content) ELSE 0)
                     + Len(Serialized(m.debug))
           /\ getSerialized(m) \in Seq(Octets)
<1> DEFINE a == <<m.version>>
           b == serializeOn(m.envelope)
           c == IF hasData(m) THEN serializeOn(m.data) ELSE <<>>
           d == Serialized(m.debug)
           S == Seq(Octets)
<1>1. m.version \in Octets /\ m.envelope \in ChunkSet /\ m.data \in ChunkSet
      /\ m.debug \in Seq(ChunkSet)
  BY DEF Messages
<1>2. a \in S /\ Len(a) = 1
  BY <1>1
<1>3. b \in S /\ Len(b) = MetaSize + Len(m.envelope.content)
  BY <1>1, ChunkBytes
<1>4. c \in S /\ Len(c) = IF hasData(m) THEN MetaSize + Len(m.data.content) ELSE 0
  BY <1>1, ChunkBytes
<1>5. d \in S
  BY <1>1, SerializedAppend, Sizes
<1>6. getSerialized(m) = ((a \o b) \o c) \o d
  BY DEF getSerialized
<1>7. Len(m.envelope.content) \in Nat /\ MetaSize \in Nat
      /\ Len(a) \in Nat /\ Len(b) \in Nat /\ Len(c) \in Nat /\ Len(d) \in Nat
  <2>1. MetaSize \in Nat
    BY Sizes
  <2>2. Len(m.envelope.content) \in Nat
    BY <1>1 DEF ChunkSet
  <2> HIDE DEF a, b, c, d
  <2> QED BY <1>2, <1>3, <1>4, <1>5, <2>1, <2>2
<1> HIDE DEF a, b, c, d
<1>8. a \o b \in S /\ Len(a \o b) = Len(a) + Len(b)
  BY <1>2, <1>3, ConcatProperties
<1> DEFINE e == a \o b
<1>9. e \in S /\ Len(e) = Len(a) + Len(b)
  BY <1>8
<1> HIDE DEF e
<1>10. e \o c \in S /\ Len(e \o c) = Len(e) + Len(c)
  BY <1>4, <1>9, ConcatProperties
<1> DEFINE f == e \o c
<1>11. f \in S /\ Len(f) = Len(e) + Len(c)
  BY <1>10
<1> HIDE DEF f
<1>12. f \o d \in S /\ Len(f \o d) = Len(f) + Len(d)
  BY <1>5, <1>11, ConcatProperties
<1>13. getSerialized(m) = f \o d
  BY <1>6 DEF f, e
<1>14. Len(getSerialized(m)) = 1 + MetaSize + Len(m.envelope.content) + Len(c) + Len(d)
  <2>1. Len(getSerialized(m)) = Len(f) + Len(d)
    BY <1>12, <1>13
  <2> DEFINE n == Len(m.envelope.content)
  <2>2. n \in Nat /\ Len(b) = MetaSize + n
    BY <1>3, <1>7
  <2> HIDE DEF n
  <2>3. Len(f) = 1 + MetaSize + n + Len(c)
    BY <1>2, <1>7, <1>9, <1>11, <2>2
  <2> QED BY <2>1, <2>3 DEF n
<1> QED BY <1>4, <1>7, <1>12, <1>13, <1>14 DEF d

\* Bytes of the buffer.
LEMMA BytesRead ==
    ASSUME buffer \in Seq(Octets), NEW from \in Nat \ {0}, NEW n \in Nat,
           from + n <= Len(buffer) + 1
    PROVE  /\ Bytes(from, n) \in Seq(Octets) /\ Len(Bytes(from, n)) = n
           /\ \A i \in 1 .. n : Bytes(from, n)[i] = buffer[from + i - 1]
<1> DEFINE last == from + n - 1
<1>1. last \in 0 .. Len(buffer) /\ last <= Len(buffer)
      /\ from \in 1 .. Len(buffer) + 1
  OBVIOUS
<1>2. Bytes(from, n) = SubSeq(buffer, from, last)
  BY <1>1 DEF Bytes
<1>3. (IF from <= last THEN last - from + 1 ELSE 0) = n /\ last - from + 1 = n
  OBVIOUS
<1> HIDE DEF last
<1>4. /\ SubSeq(buffer, from, last) \in Seq(Octets)
      /\ Len(SubSeq(buffer, from, last)) = IF from <= last THEN last - from + 1 ELSE 0
      /\ \A i \in 1 .. last - from + 1 :
            SubSeq(buffer, from, last)[i] = buffer[from + i - 1]
  BY <1>1, SubSeqProperties
<1> QED BY <1>2, <1>3, <1>4

\* The size that a chunk declares does not wrap.
LEMMA SizeRead ==
    ASSUME buffer \in Seq(Octets), NEW from \in Nat \ {0},
           from + SizeWidth <= Len(buffer) + 1
    PROVE  /\ Value(Bytes(from, SizeWidth)) \in Nat
           /\ Value(Bytes(from, SizeWidth)) < SizeLimit
<1> DEFINE bytes == Bytes(from, SizeWidth)
<1>1. bytes \in Seq(Octets) /\ Len(bytes) = SizeWidth
  BY BytesRead, Sizes
<1> HIDE DEF bytes
<1>2. Value(bytes) \in Nat /\ Value(bytes) < Power[SizeWidth]
  BY <1>1, ValueBound
<1> QED BY <1>2 DEF SizeLimit, bytes

\* The chunk that is read there.
LEMMA ContentRead ==
    ASSUME buffer \in Seq(Octets), NEW from \in Nat \ {0}, NEW n \in Nat,
           from + n <= Len(buffer) + 1, n < SizeLimit, NEW descriptor \in Octets,
           NEW c, c = [descriptor |-> descriptor, size |-> n, content |-> Bytes(from, n)]
    PROVE  /\ c \in ChunkSet /\ Len(c.content) = n
           /\ TypeOf(descriptor) \in {ENVELOPE, DATA, DEBUG} => validateChunk(c)
<1>1. Bytes(from, n) \in Seq(Octets) /\ Len(Bytes(from, n)) = n
  BY BytesRead
<1>2. c \in ChunkSet /\ Len(c.content) = n
  BY <1>1 DEF ChunkSet
<1>3. n % SizeLimit = n
  BY Sizes
<1> QED BY <1>2, <1>3 DEF validateChunk

\* The header is read inside the buffer, and no size in it wraps.
LEMMA HeaderRead ==
    ASSUME buffer \in Seq(Octets), HeaderValid,
           NEW e, e = [descriptor |-> buffer[2], size |-> EnvelopeSize,
                       content |-> Bytes(1 + HeaderSize, EnvelopeSize)]
    PROVE  /\ EnvelopeSize \in Nat /\ buffer[1] \in Octets
           /\ Wrap(HeaderSize + EnvelopeSize) = HeaderSize + EnvelopeSize
           /\ HeaderSize + EnvelopeSize <= Len(buffer)
           /\ e \in ChunkSet /\ validateChunk(e) /\ Len(e.content) = EnvelopeSize
           /\ TypeOf(e.descriptor) = ENVELOPE
<1>1. HeaderSize <= Len(buffer) /\ HeaderSize = SizeWidth + 2 /\ SizeWidth \in Nat \ {0}
      /\ SizeLimit \in Nat \ {0} /\ Len(buffer) \in Nat
  BY Sizes DEF HeaderValid
<1>2. buffer[1] \in Octets /\ buffer[2] \in Octets
  BY <1>1
<1>3. EnvelopeSize \in Nat /\ EnvelopeSize < SizeLimit
  <2> DEFINE three == 3
  <2>1. three \in Nat \ {0} /\ three + SizeWidth <= Len(buffer) + 1
    BY <1>1
  <2> HIDE DEF three
  <2>2. Value(Bytes(three, SizeWidth)) \in Nat /\ Value(Bytes(three, SizeWidth)) < SizeLimit
    BY <2>1, SizeRead
  <2> QED BY <2>2 DEF EnvelopeSize, three
<1>4. EnvelopeSize <= SizeLimit - 1 - HeaderSize
  BY DEF HeaderValid
<1>5. Wrap(HeaderSize + EnvelopeSize) = HeaderSize + EnvelopeSize
  <2> DEFINE n == HeaderSize + EnvelopeSize
  <2>1. n \in Nat /\ n < SizeLimit
    BY <1>1, <1>3, <1>4
  <2> HIDE DEF n
  <2>2. n % SizeLimit = n
    BY <1>1, <2>1
  <2> QED BY <2>2 DEF Wrap, n
<1>6. HeaderSize + EnvelopeSize <= Len(buffer)
  BY <1>5 DEF HeaderValid
<1>7. TypeOf(buffer[2]) = ENVELOPE
  BY DEF HeaderValid
<1> DEFINE from == 1 + HeaderSize
<1>8. from \in Nat \ {0} /\ from + EnvelopeSize <= Len(buffer) + 1
  BY <1>1, <1>3, <1>6
<1>9. e = [descriptor |-> buffer[2], size |-> EnvelopeSize,
           content |-> Bytes(from, EnvelopeSize)]
  OBVIOUS
<1> HIDE DEF from
<1>10. /\ e \in ChunkSet /\ Len(e.content) = EnvelopeSize
       /\ TypeOf(buffer[2]) \in {ENVELOPE, DATA, DEBUG} => validateChunk(e)
  BY <1>2, <1>3, <1>8, <1>9, ContentRead
<1> QED BY <1>2, <1>3, <1>5, <1>6, <1>7, <1>9, <1>10

\* So is every chunk, whatever its size.
LEMMA ChunkHere ==
    ASSUME buffer \in Seq(Octets), next \in Nat \ {0}, left \in Nat,
           next + left = Len(buffer) + 1, left > MetaSize
    PROVE  /\ buffer[next] \in Octets /\ ChunkSize \in Nat
           /\ ChunkSize <= left - MetaSize =>
                 /\ ChunkRead \in ChunkSet /\ Len(ChunkRead.content) = ChunkSize
                 /\ ChunkType \in {ENVELOPE, DATA, DEBUG} => validateChunk(ChunkRead)
<1>1. MetaSize = SizeWidth + 1 /\ SizeWidth \in Nat \ {0} /\ Len(buffer) \in Nat
  BY Sizes
<1>2. buffer[next] \in Octets
  <2>1. next \in 1 .. Len(buffer)
    BY <1>1
  <2> QED BY <2>1
<1>3. ChunkSize \in Nat /\ ChunkSize < SizeLimit
  <2> DEFINE from == next + 1
  <2>1. from \in Nat \ {0} /\ from + SizeWidth <= Len(buffer) + 1
    BY <1>1
  <2> HIDE DEF from
  <2>2. Value(Bytes(from, SizeWidth)) \in Nat /\ Value(Bytes(from, SizeWidth)) < SizeLimit
    BY <2>1, SizeRead
  <2> QED BY <2>2 DEF ChunkSize, from
<1>4. ASSUME ChunkSize <= left - MetaSize
      PROVE  /\ ChunkRead \in ChunkSet /\ Len(ChunkRead.content) = ChunkSize
             /\ ChunkType \in {ENVELOPE, DATA, DEBUG} => validateChunk(ChunkRead)
  <2> DEFINE from == next + MetaSize
             d == buffer[next]
             n == ChunkSize
             c == ChunkRead
  <2>1. from \in Nat \ {0} /\ from + n <= Len(buffer) + 1
    <3> HIDE DEF n
    <3>1. n \in Nat /\ n <= left - MetaSize
      BY <1>3, <1>4 DEF n
    <3> QED BY <1>1, <3>1
  <2>2. c = [descriptor |-> d, size |-> n, content |-> Bytes(from, n)]
    BY DEF ChunkRead
  <2>3. n \in Nat /\ n < SizeLimit /\ d \in Octets
    BY <1>2, <1>3
  <2> HIDE DEF from, d, n, c
  <2>4. /\ c \in ChunkSet /\ Len(c.content) = n
        /\ TypeOf(d) \in {ENVELOPE, DATA, DEBUG} => validateChunk(c)
    BY <2>1, <2>2, <2>3, ContentRead
  <2> QED BY <2>4 DEF d, n, c, ChunkType
<1> QED BY <1>2, <1>3, <1>4

-----------------------------------------------------------------------------
(* The inductive invariant.                                                *)

\* What a message is made from.
CompleteParts(e, c) ==
    /\ Complete(e, ENVELOPE) /\ e.size <= SizeLimit - 1 - HeaderSize
    /\ c # NoChunk => Complete(c, DATA)

\* The steps of MessageV1, as Exchange composes them.
WireStep ==
    \/ \E e \in ChunkSet, c \in ChunkSet : CompleteParts(e, c) /\ Construct(e, c)
    \/ \E c \in ChunkSet : Complete(c, DATA) /\ setDataChunk(c)
    \/ \E c \in ChunkSet : Complete(c, DEBUG) /\ addDebugChunk(c)
    \/ Send \/ Damage \/ Parse \/ Forget
    \/ UNCHANGED wireVars

\* The parser starts with types and places that are right.
LEMMA WireStart == WireInit => WireTypeOK /\ ParseInv
<1> SUFFICES ASSUME WireInit PROVE WireTypeOK /\ ParseInv
  OBVIOUS
<1>1. sent \in Messages /\ msg \in Messages
  BY Sizes DEF WireInit
<1>2. buffer = <<>> /\ damaged = FALSE /\ next = 0 /\ left = 0 /\ step = "idle"
  BY DEF WireInit
<1>3. buffer \in Seq(Octets)
  BY <1>2
<1>4. ParseInv
  BY <1>2 DEF ParseInv
<1>5. {sent, msg} \subseteq Messages /\ {next, left} \subseteq Nat
  BY <1>1, <1>2
<1>6. WireTypeOK
  BY <1>2, <1>3, <1>5 DEF WireTypeOK, Messages
<1> QED BY <1>4, <1>6

\* The sender makes messages of chunks, and bytes of messages.
LEMMA SenderNext ==
    ASSUME WireTypeOK, ParseInv,
           \/ \E e \in ChunkSet, c \in ChunkSet : Construct(e, c)
           \/ \E c \in ChunkSet : setDataChunk(c) \/ addDebugChunk(c)
           \/ Send \/ Damage \/ Forget
           \/ UNCHANGED wireVars
    PROVE  WireTypeOK' /\ ParseInv'
<1>1. sent \in Messages /\ msg \in Messages /\ buffer \in Seq(Octets)
      /\ damaged \in BOOLEAN /\ next \in Nat /\ left \in Nat
  BY DEF WireTypeOK, Messages
<1>2. ASSUME NEW e \in ChunkSet, NEW c \in ChunkSet, Construct(e, c)
      PROVE  WireTypeOK' /\ ParseInv'
  <2>1. VERSION \in Octets
    BY FormatAssumption DEF VERSION, Octets
  <2>2. Blank \in Messages
    BY Sizes
  <2>3. sent' \in Messages
    BY <1>2, <2>1, <2>2 DEF Construct, Messages
  <2>4. step' = "built" /\ UNCHANGED <<buffer, damaged, next, left, msg>>
    BY <1>2 DEF Construct
  <2> QED BY <1>1, <2>3, <2>4 DEF WireTypeOK, ParseInv, Messages
<1>3. ASSUME NEW c \in ChunkSet, setDataChunk(c) \/ addDebugChunk(c)
      PROVE  WireTypeOK' /\ ParseInv'
  <2>1. sent' \in Messages
    <3>1. CASE setDataChunk(c)
      BY <1>1, <3>1 DEF setDataChunk, Messages
    <3>2. CASE addDebugChunk(c)
      <4>1. Append(sent.debug, c) \in Seq(ChunkSet)
        BY <1>1 DEF Messages
      <4> QED BY <1>1, <3>2, <4>1 DEF addDebugChunk, Messages
    <3> QED BY <1>3, <3>1, <3>2
  <2>2. step = "built" /\ UNCHANGED <<buffer, damaged, next, left, msg, step>>
    BY <1>3 DEF setDataChunk, addDebugChunk
  <2> QED BY <1>1, <2>1, <2>2 DEF WireTypeOK, ParseInv, Messages
<1>4. CASE Send
  <2>1. buffer' \in Seq(Octets)
    BY <1>1, <1>4, Length DEF Send
  <2>2. next' = 1 /\ step' = "header" /\ UNCHANGED <<sent, damaged, left, msg>>
    BY <1>4 DEF Send
  <2> QED BY <1>1, <2>1, <2>2 DEF WireTypeOK, ParseInv, Messages
<1>5. CASE Damage
  <2>1. step = "header" /\ damaged' = TRUE /\ UNCHANGED <<sent, next, left, msg, step>>
    BY <1>5 DEF Damage
  <2>2. buffer' \in Seq(Octets)
    <3>1. ASSUME NEW n \in 0 .. Len(buffer) - 1, buffer' = SubSeq(buffer, 1, n)
          PROVE  buffer' \in Seq(Octets)
      <4> DEFINE one == 1
      <4>1. \A i \in one .. n : buffer[i] \in Octets
        BY <1>1
      <4>2. one \in Int /\ n \in Int
        BY <1>1
      <4> HIDE DEF one
      <4>3. SubSeq(buffer, one, n) \in Seq(Octets)
        BY <4>1, <4>2, SubSeqProperties
      <4> QED BY <3>1, <4>3 DEF one
    <3>2. ASSUME NEW b \in Noise,
                 \/ buffer' = Append(buffer, b)
                 \/ \E i \in DOMAIN buffer : buffer' = [buffer EXCEPT ![i] = b]
          PROVE  buffer' \in Seq(Octets)
      <4>1. b \in Octets
        BY FormatAssumption DEF Octets
      <4>2. CASE buffer' = Append(buffer, b)
        BY <1>1, <4>1, <4>2
      <4>3. ASSUME NEW i \in DOMAIN buffer, buffer' = [buffer EXCEPT ![i] = b]
            PROVE  buffer' \in Seq(Octets)
        <5>1. i \in 1 .. Len(buffer)
          BY <1>1
        <5>2. [buffer EXCEPT ![i] = b] \in Seq(Octets)
          BY <1>1, <4>1, <5>1, ExceptSeq
        <5> QED BY <4>3, <5>2
      <4> QED BY <3>2, <4>2, <4>3
    <3> QED BY <1>5, <3>1, <3>2 DEF Damage
  <2> QED BY <1>1, <2>1, <2>2 DEF WireTypeOK, ParseInv, Messages
<1>6. CASE Forget
  <2>1. sent' \in Messages /\ msg' \in Messages
    BY <1>6, Sizes DEF Forget
  <2>2. buffer' = <<>> /\ damaged' = FALSE /\ next' = 0 /\ left' = 0 /\ step' = "idle"
    BY <1>6 DEF Forget
  <2>3. buffer' \in Seq(Octets)
    BY <2>2
  <2>4. ParseInv'
    BY <2>2 DEF ParseInv
  <2>5. {sent', msg'} \subseteq Messages /\ {next', left'} \subseteq Nat
    BY <2>1, <2>2
  <2>6. WireTypeOK'
    BY <2>2, <2>3, <2>5 DEF WireTypeOK, Messages
  <2> QED BY <2>4, <2>6
<1>7. CASE UNCHANGED wireVars
  BY <1>7 DEF wireVars, WireTypeOK, ParseInv
<1> QED BY <1>2, <1>3, <1>4, <1>5, <1>6, <1>7

\* Parsing keeps the parser between two chunks.
LEMMA ParserNext ==
    ASSUME WireTypeOK, ParseInv, Parse PROVE WireTypeOK' /\ ParseInv'
<1>1. sent \in Messages /\ msg \in Messages /\ buffer \in Seq(Octets)
      /\ damaged \in BOOLEAN /\ next \in Nat /\ left \in Nat /\ Len(buffer) \in Nat
  BY DEF WireTypeOK, Messages
<1>2. UNCHANGED <<sent, buffer, damaged>>
  BY DEF Parse, ParseHeader, ParseChunk, ParseEnds
<1>3. MetaSize = SizeWidth + 1 /\ HeaderSize = SizeWidth + 2 /\ SizeWidth \in Nat
  BY Sizes
<1>4. ASSUME step' = "invalid", UNCHANGED <<next, left, msg>>
      PROVE  WireTypeOK' /\ ParseInv'
  <2>1. ParseInv'
    BY <1>4 DEF ParseInv
  <2> QED BY <1>1, <1>2, <1>4, <2>1 DEF WireTypeOK, Messages
<1>5. CASE ParseHeader /\ step' # "invalid"
  <2> DEFINE e == [descriptor |-> buffer[2], size |-> EnvelopeSize,
                   content |-> Bytes(1 + HeaderSize, EnvelopeSize)]
  <2>1. step = "header" /\ HeaderValid /\ step' = "chunks"
    BY <1>5 DEF ParseHeader
  <2>2. /\ left' = Len(buffer) - Wrap(HeaderSize + EnvelopeSize)
        /\ next' = next + HeaderSize + EnvelopeSize
        /\ msg' = [Blank EXCEPT !.version = buffer[1], !.envelope = e]
    BY <1>5 DEF ParseHeader
  <2> HIDE DEF e
  <2>3. /\ EnvelopeSize \in Nat /\ buffer[1] \in Octets
        /\ Wrap(HeaderSize + EnvelopeSize) = HeaderSize + EnvelopeSize
        /\ HeaderSize + EnvelopeSize <= Len(buffer)
        /\ e \in ChunkSet /\ validateChunk(e) /\ Len(e.content) = EnvelopeSize
        /\ TypeOf(e.descriptor) = ENVELOPE
    BY <1>1, <2>1, HeaderRead DEF e
  <2>4. next = 1
    BY <2>1 DEF ParseInv
  <2>5. /\ left' = Len(buffer) - (HeaderSize + EnvelopeSize)
        /\ next' = 1 + HeaderSize + EnvelopeSize
        /\ next' \in Nat /\ left' \in Nat /\ next' + left' = Len(buffer) + 1
    <3> DEFINE k == EnvelopeSize
               m == Len(buffer)
    <3>1. k \in Nat /\ m \in Nat /\ HeaderSize \in Nat /\ HeaderSize + k <= m
      BY <1>1, <1>3, <2>3
    <3>2. left' = m - (HeaderSize + k) /\ next' = 1 + HeaderSize + k
      BY <2>2, <2>3, <2>4
    <3> HIDE DEF k, m
    <3>3. next' \in Nat /\ left' \in Nat /\ next' + left' = m + 1
      BY <3>1, <3>2
    <3> QED BY <3>2, <3>3 DEF k, m
  <2>6. msg' \in Messages /\ msg'.envelope = e /\ msg'.debug = <<>>
        /\ msg'.data = NoChunk
    <3>1. Blank \in Messages
      BY Sizes
    <3> QED BY <2>2, <2>3, <3>1 DEF Messages, Blank
  <2>7. ~hasData(msg')
    BY <2>6 DEF hasData, NoChunk, Chunk
  <2>8. Len(getSerialized(msg')) = HeaderSize + EnvelopeSize
    <3>1. Len(Serialized(msg'.debug)) = 0
      BY <2>6, SerializedEmpty
    <3>2. Len(getSerialized(msg'))
            = 1 + MetaSize + Len(msg'.envelope.content)
                + (IF hasData(msg') THEN MetaSize + Len(msg'.data.content) ELSE 0)
                + Len(Serialized(msg'.debug))
      BY <2>6, Length
    <3> QED BY <1>3, <2>3, <2>6, <2>7, <3>1, <3>2
  <2>9. WireTypeOK'
    BY <1>1, <1>2, <2>1, <2>5, <2>6 DEF WireTypeOK, Messages
  <2>10. Len(getSerialized(msg')) + left' = Len(buffer')
    BY <1>1, <1>2, <1>3, <2>3, <2>5, <2>8
  <2>11. \A i \in DOMAIN msg'.debug : validateChunk(msg'.debug[i])
    BY <2>6
  <2>12. ParseInv'
    BY <1>2, <2>1, <2>3, <2>5, <2>6, <2>7, <2>10, <2>11 DEF ParseInv
  <2> QED BY <2>9, <2>12
<1>6. CASE ParseChunk /\ step' # "invalid"
  <2>1. step = "chunks" /\ step' = "chunks" /\ left > MetaSize /\ ChunkValid
    BY <1>6 DEF ParseChunk
  <2>2. /\ left' = left - (MetaSize + ChunkSize)
        /\ next' = next + MetaSize + ChunkSize
        /\ msg' = IF ChunkType = DATA THEN [msg EXCEPT !.data = ChunkRead]
                  ELSE [msg EXCEPT !.debug = Append(@, ChunkRead)]
    BY <1>6 DEF ParseChunk
  <2>3. /\ next + left = Len(buffer) + 1
        /\ validateChunk(msg.envelope)
        /\ TypeOf(msg.envelope.descriptor) = ENVELOPE
        /\ hasData(msg) =>
              validateChunk(msg.data) /\ TypeOf(msg.data.descriptor) = DATA
        /\ \A i \in DOMAIN msg.debug : validateChunk(msg.debug[i])
        /\ Len(getSerialized(msg)) + left = Len(buffer)
    BY <2>1 DEF ParseInv
  <2> DEFINE n == Len(getSerialized(msg))
             size == ChunkSize
             c == ChunkRead
  <2>4. n \in Nat
    BY <1>1, Length
  <2>5. next # 0
    BY <1>1, <2>3, <2>4
  <2>6. /\ buffer[next] \in Octets /\ ChunkSize \in Nat
        /\ ChunkSize <= left - MetaSize =>
              /\ ChunkRead \in ChunkSet /\ Len(ChunkRead.content) = ChunkSize
              /\ ChunkType \in {ENVELOPE, DATA, DEBUG} => validateChunk(ChunkRead)
    <3>1. next \in Nat \ {0}
      BY <1>1, <2>5
    <3> QED BY <1>1, <2>1, <2>3, <3>1, ChunkHere
  <2>7. ChunkType \in {DATA, DEBUG} /\ ChunkSize <= left - MetaSize
        /\ (ChunkType = DATA => ~hasData(msg))
    BY <2>1 DEF ChunkValid
  <2>8. c \in ChunkSet /\ Len(c.content) = size /\ validateChunk(c) /\ size \in Nat
        /\ size <= left - MetaSize /\ TypeOf(c.descriptor) = ChunkType
    BY <2>6, <2>7 DEF ChunkType, ChunkRead
  <2> HIDE DEF n, size, c
  <2>9. /\ left' = left - (MetaSize + size) /\ next' = next + MetaSize + size
        /\ next' \in Nat /\ left' \in Nat /\ next' + left' = Len(buffer) + 1
    BY <1>1, <1>3, <2>2, <2>3, <2>8 DEF size
  <2>10. /\ msg' \in Messages /\ msg'.envelope = msg.envelope
         /\ hasData(msg') =>
               validateChunk(msg'.data) /\ TypeOf(msg'.data.descriptor) = DATA
         /\ \A i \in DOMAIN msg'.debug : validateChunk(msg'.debug[i])
         /\ Len(getSerialized(msg')) = n + MetaSize + size
    <3> DEFINE d == Len(Serialized(msg.debug))
               k == Len(msg.envelope.content)
    <3>1. /\ d \in Nat /\ k \in Nat
          /\ n = 1 + MetaSize + k
                  + (IF hasData(msg) THEN MetaSize + Len(msg.data.content) ELSE 0) + d
      <4>1. msg.envelope.content \in Seq(Octets)
        BY <1>1 DEF Messages, ChunkSet
      <4>2. k \in Nat
        BY <4>1
      <4> QED BY <1>1, <4>2, Length DEF n
    <3>2. CASE ChunkType = DATA
      <4>1. msg' = [msg EXCEPT !.data = c]
        BY <2>2, <3>2 DEF c
      <4>2. msg' \in Messages /\ msg'.envelope = msg.envelope /\ msg'.data = c
            /\ msg'.debug = msg.debug
        BY <1>1, <2>8, <4>1 DEF Messages
      <4>3. hasData(msg') /\ ~hasData(msg)
        <5>1. c.descriptor # 0
          BY <2>8, <3>2, FormatAssumption DEF TypeOf, DATA
        <5> QED BY <2>7, <3>2, <4>2, <5>1 DEF hasData
      <4>4. Len(getSerialized(msg')) = 1 + MetaSize + k + (MetaSize + size) + d
        <5>1. Len(getSerialized(msg')) =
                 1 + MetaSize + Len(msg'.envelope.content)
                     + (IF hasData(msg') THEN MetaSize + Len(msg'.data.content) ELSE 0)
                     + Len(Serialized(msg'.debug))
          BY <4>2, Length
        <5> QED BY <2>8, <4>2, <4>3, <5>1
      <4>5. n = 1 + MetaSize + k + d
        BY <1>3, <3>1, <4>3
      <4> HIDE DEF d, k
      <4>6. Len(getSerialized(msg')) = n + MetaSize + size
        <5>1. size \in Nat /\ MetaSize \in Nat /\ d \in Nat /\ k \in Nat
          BY <1>3, <2>8, <3>1
        <5> QED BY <4>4, <4>5, <5>1
      <4> QED BY <2>3, <2>8, <3>2, <4>2, <4>6
    <3>3. CASE ChunkType = DEBUG
      <4> DEFINE l == msg.debug
      <4>1. msg' = [msg EXCEPT !.debug = Append(l, c)]
        BY <2>2, <3>3 DEF c, DATA, DEBUG
      <4>2. l \in Seq(ChunkSet)
        BY <1>1 DEF Messages
      <4>3. msg' \in Messages /\ msg'.envelope = msg.envelope /\ msg'.data = msg.data
            /\ msg'.debug = Append(l, c)
        <5> DEFINE t == Append(l, c)
        <5>1. t \in Seq(ChunkSet)
          BY <2>8, <4>2
        <5> HIDE DEF t
        <5>2. msg' = [msg EXCEPT !.debug = t]
          BY <4>1 DEF t
        <5>3. msg' \in Messages /\ msg'.envelope = msg.envelope /\ msg'.data = msg.data
              /\ msg'.debug = t
          BY <1>1, <5>1, <5>2 DEF Messages
        <5> QED BY <5>3 DEF t
      <4>4. hasData(msg') <=> hasData(msg)
        BY <4>3 DEF hasData
      <4>5. \A i \in DOMAIN msg'.debug : validateChunk(msg'.debug[i])
        <5>1. \A i \in DOMAIN l : validateChunk(l[i])
          BY <2>3
        <5> HIDE DEF l
        <5>2. \A i \in 1 .. Len(l) + 1 : Append(l, c)[i] \in {c} \cup {l[j] : j \in DOMAIN l}
          BY <4>2
        <5>3. DOMAIN Append(l, c) = 1 .. Len(l) + 1
          BY <4>2
        <5> QED BY <2>8, <4>3, <5>1, <5>2, <5>3
      <4>6. Len(Serialized(msg'.debug)) = d + MetaSize + size
        <5>1. Serialized(l) \in Seq(Octets)
              /\ Serialized(Append(l, c)) = Serialized(l) \o serializeOn(c)
          BY <2>8, <4>2, SerializedAppend
        <5> DEFINE a == Serialized(l)
                   b == serializeOn(c)
        <5>2. a \in Seq(Octets) /\ b \in Seq(Octets) /\ Len(b) = MetaSize + size
          BY <2>8, <5>1, ChunkBytes
        <5>3. Serialized(msg'.debug) = a \o b /\ d = Len(a)
          BY <4>3, <5>1
        <5> HIDE DEF a, b, d
        <5>4. Len(a \o b) = Len(a) + Len(b)
          BY <5>2, ConcatProperties
        <5> QED BY <1>3, <2>8, <3>1, <5>2, <5>3, <5>4
      <4>7. Len(getSerialized(msg')) =
                 1 + MetaSize + k
                     + (IF hasData(msg) THEN MetaSize + Len(msg.data.content) ELSE 0)
                     + (d + MetaSize + size)
        <5>1. Len(getSerialized(msg')) =
                 1 + MetaSize + Len(msg'.envelope.content)
                     + (IF hasData(msg') THEN MetaSize + Len(msg'.data.content) ELSE 0)
                     + Len(Serialized(msg'.debug))
          BY <4>3, Length
        <5> QED BY <4>3, <4>4, <4>6, <5>1
      <4> DEFINE o == IF hasData(msg) THEN MetaSize + Len(msg.data.content) ELSE 0
      <4>8. o \in Nat
        <5>1. msg.data.content \in Seq(Octets)
          BY <1>1 DEF Messages, ChunkSet
        <5> DEFINE x == Len(msg.data.content)
        <5>2. x \in Nat /\ MetaSize \in Nat
          BY <1>3, <5>1
        <5>3. o = IF hasData(msg) THEN MetaSize + x ELSE 0
          OBVIOUS
        <5> HIDE DEF x, o
        <5>4. MetaSize + x \in Nat
          BY <5>2
        <5>5. CASE hasData(msg)
          BY <5>3, <5>4, <5>5
        <5>6. CASE ~hasData(msg)
          BY <5>3, <5>6
        <5> QED BY <5>5, <5>6
      <4>9. n = 1 + MetaSize + k + o + d
            /\ Len(getSerialized(msg')) = 1 + MetaSize + k + o + (d + MetaSize + size)
        BY <3>1, <4>7
      <4> HIDE DEF o, d, k
      <4>10. Len(getSerialized(msg')) = n + MetaSize + size
        <5>1. size \in Nat /\ MetaSize \in Nat /\ d \in Nat /\ k \in Nat
          BY <1>3, <2>8, <3>1
        <5> QED BY <4>8, <4>9, <5>1
      <4> QED BY <2>3, <4>3, <4>4, <4>5, <4>10
    <3> QED BY <2>7, <3>2, <3>3
  <2>11. Len(getSerialized(msg')) + left' = Len(buffer')
    <3> DEFINE m == Len(buffer)
    <3>1. m \in Nat /\ left \in Nat /\ n \in Nat /\ size \in Nat /\ MetaSize \in Nat
      BY <1>1, <1>3, <2>4, <2>8
    <3>2. n + left = m /\ Len(getSerialized(msg')) = n + MetaSize + size
          /\ left' = left - (MetaSize + size) /\ Len(buffer') = m
      BY <1>2, <2>3, <2>9, <2>10 DEF n
    <3> HIDE DEF m
    <3> QED BY <3>1, <3>2
  <2>12. WireTypeOK'
    BY <1>1, <1>2, <2>1, <2>9, <2>10 DEF WireTypeOK, Messages
  <2>13. ParseInv'
    BY <1>2, <2>1, <2>3, <2>9, <2>10, <2>11 DEF ParseInv
  <2> QED BY <2>12, <2>13
<1>7. CASE ParseEnds
  <2>1. step = "chunks" /\ left <= MetaSize /\ step' = "parsed"
        /\ UNCHANGED <<sent, buffer, damaged, next, left, msg>>
    BY <1>7 DEF ParseEnds
  <2>2. ParseInv'
    BY <2>1 DEF ParseInv
  <2> QED BY <1>1, <2>1, <2>2 DEF WireTypeOK, Messages
<1>8. step' = "invalid" => ParseHeader \/ ParseChunk
  BY DEF Parse, ParseEnds
<1>9. step' = "invalid" => UNCHANGED <<next, left, msg>>
  BY <1>8 DEF ParseHeader, ParseChunk
<1> QED BY <1>4, <1>5, <1>6, <1>7, <1>9 DEF Parse

\* Every step does.
LEMMA WireNext == WireTypeOK /\ ParseInv /\ WireStep => WireTypeOK' /\ ParseInv'
BY SenderNext, ParserNext DEF WireStep

\* The invariant says of a parsed message what it should.
LEMMA ParsedRight ==
    ASSUME WireTypeOK, ParseInv PROVE InBounds /\ ParsedWellFormed
<1>1. InBounds
  BY DEF ParseInv, InBounds
<1>2. ASSUME step = "parsed", NEW i \in DOMAIN Chunks(msg)
      PROVE  validateChunk(Chunks(msg)[i])
  <2>1. /\ hasData(msg) => validateChunk(msg.data)
        /\ \A j \in DOMAIN msg.debug : validateChunk(msg.debug[j])
    BY <1>2 DEF ParseInv
  <2> DEFINE l == msg.debug
             d == msg.data
  <2>2. l \in Seq(ChunkSet) /\ d \in ChunkSet
    BY DEF WireTypeOK
  <2>3. CASE hasData(msg)
    <3>1. Chunks(msg) = <<d>> \o l
      BY <2>3 DEF Chunks
    <3> HIDE DEF l, d
    <3>2. DOMAIN (<<d>> \o l) = 1 .. 1 + Len(l)
      BY <2>2
    <3>3. \A j \in 1 .. 1 + Len(l) : (<<d>> \o l)[j] \in {d} \cup {l[k] : k \in DOMAIN l}
      BY <2>2
    <3>4. Chunks(msg)[i] \in {d} \cup {l[k] : k \in DOMAIN l}
      BY <1>2, <3>1, <3>2, <3>3
    <3> QED BY <2>1, <2>3, <3>4 DEF l, d
  <2>4. CASE ~hasData(msg)
    <3>1. Chunks(msg) = <<>> \o l
      BY <2>4 DEF Chunks
    <3> HIDE DEF l
    <3>2. <<>> \o l = l
      BY <2>2, ConcatEmptySeq
    <3> QED BY <1>2, <2>1, <3>1, <3>2 DEF l
  <2> QED BY <2>3, <2>4
<1>3. ParsedWellFormed
  BY <1>2 DEF ParseInv, ParsedWellFormed
<1> QED BY <1>1, <1>3

=============================================================================
