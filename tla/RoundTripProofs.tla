--------------------------- MODULE RoundTripProofs --------------------------
(***************************************************************************)
(* Lemmas about MessageV1, for ExchangeProofs: the parser reads back what  *)
(* the sender wrote.  Deserializing a size undoes its serialization        *)
(* (ValueNumber), so does reading a chunk (ChunkReadBack), and between two *)
(* chunks the rest of the buffer starts with the chunk that comes next in  *)
(* the message that was sent (NextChunk).                                  *)
(***************************************************************************)
EXTENDS MessageV1Proofs

-----------------------------------------------------------------------------
(* Sizes.                                                                  *)

\* What division returns.
LEMMA Division ==
    ASSUME NEW n \in Nat, NEW d \in Nat \ {0}
    PROVE  n \div d \in Nat /\ n % d \in Nat /\ n = d * (n \div d) + (n % d) /\ n % d < d
<1>1. n \div d \in Nat
  OBVIOUS
<1>2. n % d \in Nat /\ n % d < d
  OBVIOUS
<1>3. n = d * (n \div d) + (n % d)
  OBVIOUS
<1> QED BY <1>1, <1>2, <1>3

\* And that it is the only one.
LEMMA Quotient ==
    ASSUME NEW n \in Nat, NEW d \in Nat \ {0}, NEW k \in Nat, NEW r \in Nat,
           n = d * k + r, r < d
    PROVE  n \div d = k
<1> DEFINE q == n \div d
           s == n % d
<1>1. q \in Nat /\ s \in Nat /\ n = d * q + s /\ s < d
  BY Division
<1> HIDE DEF q, s
<1>2. ASSUME q < k PROVE FALSE
  <2>1. PICK x \in Nat : k = q + 1 + x
    <3>1. k - (q + 1) \in Nat
      BY <1>1, <1>2
    <3> QED BY <1>1, <3>1
  <2>2. d * k = d * q + d + d * x /\ d * x \in Nat /\ d * q \in Nat
    BY <1>1, <2>1
  <2> QED BY <1>1, <2>2
<1>3. ASSUME k < q PROVE FALSE
  <2>1. PICK x \in Nat : q = k + 1 + x
    <3>1. q - (k + 1) \in Nat
      BY <1>1, <1>3
    <3> QED BY <1>1, <3>1
  <2>2. d * q = d * k + d + d * x /\ d * x \in Nat /\ d * k \in Nat
    BY <1>1, <2>1
  <2> QED BY <1>1, <2>2
<1>4. q = k
  BY <1>1, <1>2, <1>3
<1> QED BY <1>4 DEF q

\* Dividing by a power of Base and then by Base is dividing by the next power.
LEMMA Digits ==
    ASSUME NEW n \in Nat, NEW p \in Nat \ {0}, NEW b \in Nat \ {0}
    PROVE  n \div p = (n \div (b * p)) * b + ((n \div p) % b)
<1> DEFINE q == n \div p
           s == n % p
           k == q \div b
           t == q % b
           d == b * p
<1>1. q \in Nat /\ s \in Nat /\ n = p * q + s /\ s < p
  BY Division
<1> HIDE DEF q, s
<1>2. k \in Nat /\ t \in Nat /\ q = b * k + t /\ t < b
  BY <1>1, Division
<1> HIDE DEF k, t
<1>3. d \in Nat \ {0}
  OBVIOUS
<1>4. n = d * k + (p * t + s)
  <2>1. p * q = p * (b * k) + p * t
    BY <1>2
  <2>2. p * (b * k) = (b * p) * k
    BY <1>2
  <2> DEFINE x == p * (b * k)
             y == p * t
             z == p * q
  <2>3. x \in Nat /\ y \in Nat /\ z \in Nat
    BY <1>1, <1>2
  <2>4. n = z + s /\ z = x + y /\ x = d * k /\ s \in Nat
    BY <1>1, <2>1, <2>2
  <2> HIDE DEF x, y, z, d
  <2>5. n = x + (y + s)
    BY <2>3, <2>4
  <2> QED BY <2>4, <2>5 DEF y
<1>5. p * t + s \in Nat /\ p * t + s < d
  <2>1. t * p + s < p * b
    BY <1>1, <1>2, Digit
  <2>2. t * p = p * t /\ p * b = b * p /\ p * t \in Nat
    BY <1>2
  <2> QED BY <1>1, <2>1, <2>2
<1> DEFINE r == p * t + s
<1>6. r \in Nat /\ r < d /\ n = d * k + r
  BY <1>4, <1>5
<1> HIDE DEF d, r
<1>7. n \div d = k
  BY <1>2, <1>3, <1>6, Quotient
<1>8. k * b = b * k
  BY <1>2
<1>9. q = (n \div d) * b + t
  BY <1>2, <1>7, <1>8
<1> QED BY <1>9 DEF q, d, t

\* A size that is read is the one that was written.
LEMMA ValueNumber ==
    ASSUME NEW n \in Nat, n < SizeLimit
    PROVE  Value(Number(n)) = n
<1> DEFINE bytes == Number(n)
           w == SizeWidth
           q(i) == n \div Power[w - i]
<1>1. w \in Nat \ {0} /\ Base \in Nat \ {0} /\ n < Power[w]
  BY FormatAssumption DEF SizeLimit
<1>2. bytes \in Seq(Octets) /\ Len(bytes) = w
  BY NumberWidth
<1>3. \A i \in 1 .. w : bytes[i] = q(i) % Base
  BY DEF Number
<1> HIDE DEF bytes, w
<1>4. PICK v : Steps(bytes, v) /\ Value(bytes) = v[w]
  BY <1>2, ValueSteps
<1> DEFINE P == {i \in Nat : i <= w => v[i] = q(i)}
<1>5. 0 \in P
  <2>1. v[0] = 0
    BY <1>4 DEF Steps
  <2> DEFINE d == Power[w]
  <2>2. d \in Nat \ {0} /\ n < d
    BY <1>1, Powers
  <2> HIDE DEF d
  <2>3. n \div d = 0
    <3> DEFINE zero == 0
    <3>1. zero \in Nat /\ n = d * zero + n
      BY <2>2
    <3> HIDE DEF zero
    <3>2. n \div d = zero
      BY <2>2, <3>1, Quotient
    <3> QED BY <3>2 DEF zero
  <2>4. w - 0 = w
    BY <1>1
  <2> QED BY <2>1, <2>3, <2>4 DEF d
<1>6. ASSUME NEW i \in Nat, i \in P PROVE i + 1 \in P
  <2> SUFFICES ASSUME i + 1 <= w PROVE v[i + 1] = q(i + 1)
    OBVIOUS
  <2>1. i <= w /\ i \in 0 .. w - 1 /\ i + 1 \in 1 .. w
    BY <1>1
  <2>2. v[i] = q(i)
    BY <1>6, <2>1
  <2>3. v[i + 1] = v[i] * Base + bytes[i + 1]
    BY <1>2, <1>4, <2>1 DEF Steps
  <2>4. bytes[i + 1] = q(i + 1) % Base
    BY <1>3, <2>1
  <2> DEFINE j == w - (i + 1)
             p == Power[j]
  <2>5. j \in Nat /\ w - i = j + 1
    BY <1>1
  <2> HIDE DEF j
  <2>6. p \in Nat \ {0} /\ Power[w - i] = Base * p
    BY <2>5, Powers
  <2> HIDE DEF p
  <2>7. n \div p = (n \div (Base * p)) * Base + ((n \div p) % Base)
    BY <1>1, <2>6, Digits
  <2> DEFINE x == n \div (Base * p)
             y == n \div p
             z == y % Base
  <2>8. q(i) = x /\ q(i + 1) = y
    BY <2>6 DEF p, j
  <2>9. y = x * Base + z
    BY <2>7
  <2> HIDE DEF q, x
  <2>10. bytes[i + 1] = z
    BY <2>4, <2>8
  <2> HIDE DEF y, z
  <2> QED BY <2>2, <2>3, <2>8, <2>9, <2>10
<1>7. Nat \subseteq P
  <2> HIDE DEF P
  <2> QED BY <1>5, <1>6, Induction
<1>8. v[w] = n \div Power[w - w]
  BY <1>1, <1>7
<1>9. w - w = 0 /\ Power[0] = 1 /\ n \div 1 = n
  BY <1>1, Powers
<1> QED BY <1>4, <1>8, <1>9 DEF bytes

-----------------------------------------------------------------------------
(* Chunks.                                                                 *)

\* A sequence is made of three others, one after the other.
Joins(e, a, b, c) ==
    /\ Len(e) = Len(a) + Len(b) + Len(c)
    /\ \A i \in 1 .. Len(a) : e[i] = a[i]
    /\ \A i \in 1 .. Len(b) : e[Len(a) + i] = b[i]
    /\ \A i \in 1 .. Len(c) : e[Len(a) + Len(b) + i] = c[i]

\* That is what concatenation makes of them.
LEMMA Joined ==
    ASSUME NEW S, NEW a \in Seq(S), NEW b \in Seq(S), NEW c \in Seq(S)
    PROVE  (a \o b) \o c \in Seq(S) /\ Joins((a \o b) \o c, a, b, c)
<1> DEFINE d == a \o b
<1>1. d \in Seq(S) /\ Len(d) = Len(a) + Len(b)
  BY ConcatProperties
<1>2. \A i \in 1 .. Len(a) + Len(b) : d[i] = IF i <= Len(a) THEN a[i] ELSE b[i - Len(a)]
  BY ConcatProperties
<1>3. Len(a) \in Nat /\ Len(b) \in Nat /\ Len(c) \in Nat
  OBVIOUS
<1> HIDE DEF d
<1>4. d \o c \in Seq(S) /\ Len(d \o c) = Len(d) + Len(c)
  BY <1>1, ConcatProperties
<1>5. \A i \in 1 .. Len(d) + Len(c) :
         (d \o c)[i] = IF i <= Len(d) THEN d[i] ELSE c[i - Len(d)]
  BY <1>1, ConcatProperties
<1> DEFINE e == d \o c
           k == Len(a)
           m == Len(b)
           n == Len(c)
           x == Len(d)
<1>6. /\ \A i \in 1 .. k + m : d[i] = IF i <= k THEN a[i] ELSE b[i - k]
      /\ \A i \in 1 .. x + n : e[i] = IF i <= x THEN d[i] ELSE c[i - x]
      /\ k \in Nat /\ m \in Nat /\ n \in Nat /\ x = k + m
  BY <1>1, <1>2, <1>3, <1>5
<1> HIDE DEF e, k, m, n, x
<1>7. \A i \in 1 .. k : e[i] = a[i]
  <2> TAKE i \in 1 .. k
  <2>1. i \in 1 .. k + m /\ i \in 1 .. x + n /\ i <= x /\ i <= k
    BY <1>6
  <2> QED BY <1>6, <2>1
<1>8. \A i \in 1 .. m : e[k + i] = b[i]
  <2> TAKE i \in 1 .. m
  <2> DEFINE j == k + i
  <2>1. j \in 1 .. k + m /\ j \in 1 .. x + n /\ j <= x /\ ~(j <= k) /\ j - k = i
    BY <1>6
  <2> HIDE DEF j
  <2>2. e[j] = b[j - k]
    BY <1>6, <2>1
  <2> QED BY <2>1, <2>2 DEF j
<1>9. \A i \in 1 .. n : e[k + m + i] = c[i]
  <2> TAKE i \in 1 .. n
  <2> DEFINE j == k + m + i
  <2>1. j \in 1 .. x + n /\ ~(j <= x) /\ j - x = i
    BY <1>6
  <2> HIDE DEF j
  <2>2. e[j] = c[j - x]
    BY <1>6, <2>1
  <2> QED BY <2>1, <2>2 DEF j
<1>10. Len(e) = k + m + n /\ e \in Seq(S)
  BY <1>4, <1>6 DEF e, x, n
<1>11. Joins(e, a, b, c)
  BY <1>7, <1>8, <1>9, <1>10 DEF Joins, k, m, n
<1> QED BY <1>10, <1>11 DEF d, e

\* A chunk that is in the buffer is read back from there.
LEMMA ChunkReadBack ==
    ASSUME buffer \in Seq(Octets), NEW g \in Seq(Octets), NEW r \in Seq(Octets),
           NEW c \in ChunkSet, c.size = Len(c.content), c.size < SizeLimit,
           Joins(buffer, g, serializeOn(c), r), NEW p \in Nat, p = Len(g) + 1
    PROVE  /\ p + MetaSize + c.size + Len(r) = Len(buffer) + 1
           /\ buffer[p] = c.descriptor
           /\ Value(Bytes(p + 1, SizeWidth)) = c.size
           /\ Bytes(p + MetaSize, c.size) = c.content
<1> DEFINE s == serializeOn(c)
           a == <<c.descriptor>>
           b == Number(c.size)
           d == c.content
           w == SizeWidth
           n == Len(d)
           k == Len(g)
<1>1. a \in Seq(Octets) /\ b \in Seq(Octets) /\ d \in Seq(Octets) /\ n \in Nat
      /\ Len(a) = 1 /\ Len(b) = w /\ a[1] = c.descriptor /\ c.size = n /\ k \in Nat
  BY NumberWidth DEF ChunkSet
<1>2. s = (a \o b) \o d
  BY DEF serializeOn
<1>3. w \in Nat /\ MetaSize = 1 + w
  BY Sizes
<1> HIDE DEF s, a, b, d, n, w, k
<1>4. /\ s \in Seq(Octets) /\ Len(s) = 1 + w + n
      /\ s[1] = c.descriptor
      /\ \A i \in 1 .. w : s[1 + i] = b[i]
      /\ \A i \in 1 .. n : s[1 + w + i] = d[i]
  <2>1. s \in Seq(Octets) /\ Joins(s, a, b, d)
    BY <1>1, <1>2, Joined
  <2>2. 1 \in 1 .. Len(a)
    BY <1>1
  <2> QED BY <1>1, <2>1, <2>2 DEF Joins, n
<1>5. /\ Len(buffer) = k + (1 + w + n) + Len(r)
      /\ \A i \in 1 .. 1 + w + n : buffer[k + i] = s[i]
  <2>1. Joins(buffer, g, s, r)
    BY DEF s
  <2> QED BY <1>4, <2>1 DEF Joins, k
<1>6. p = k + 1 /\ k \in Nat /\ n \in Nat /\ w \in Nat /\ MetaSize = 1 + w
  BY <1>1, <1>3 DEF k
<1>7. p + MetaSize + n + Len(r) = Len(buffer) + 1
  <2> DEFINE x == Len(r)
             y == Len(buffer)
  <2>1. x \in Nat /\ y = k + (1 + w + n) + x
    BY <1>5
  <2> HIDE DEF x, y
  <2>2. p + MetaSize + n + x = y + 1
    BY <1>6, <2>1
  <2> QED BY <2>2 DEF x, y
<1>8. buffer[p] = c.descriptor
  <2>1. 1 \in 1 .. 1 + w + n
    BY <1>1, <1>3
  <2> QED BY <1>4, <1>5, <1>6, <2>1
<1>9. Bytes(p + 1, w) = b
  <2> DEFINE from == p + 1
  <2>1. from \in Nat \ {0} /\ from + w <= Len(buffer) + 1
    BY <1>1, <1>3, <1>6, <1>7
  <2> HIDE DEF from
  <2>2. /\ Bytes(from, w) \in Seq(Octets) /\ Len(Bytes(from, w)) = w
        /\ \A i \in 1 .. w : Bytes(from, w)[i] = buffer[from + i - 1]
    BY <1>3, <2>1, BytesRead
  <2>3. \A i \in 1 .. w : Bytes(from, w)[i] = b[i]
    <3> TAKE i \in 1 .. w
    <3>1. from + i - 1 = k + (1 + i) /\ 1 + i \in 1 .. 1 + w + n
      BY <1>6 DEF from
    <3>2. buffer[k + (1 + i)] = s[1 + i] /\ s[1 + i] = b[i]
      BY <1>4, <1>5, <3>1
    <3> QED BY <2>2, <3>1, <3>2
  <2> DEFINE t == Bytes(from, w)
  <2>4. t \in Seq(Octets) /\ Len(t) = Len(b) /\ \A i \in 1 .. Len(t) : t[i] = b[i]
    BY <1>1, <2>2, <2>3
  <2> HIDE DEF t
  <2>5. t = b
    BY <1>1, <2>4, SeqEqual
  <2> QED BY <2>5 DEF t, from
<1>10. Bytes(p + MetaSize, n) = d
  <2> DEFINE from == p + MetaSize
  <2>1. from \in Nat \ {0} /\ from + n <= Len(buffer) + 1
    BY <1>1, <1>3, <1>6, <1>7
  <2> HIDE DEF from
  <2>2. /\ Bytes(from, n) \in Seq(Octets) /\ Len(Bytes(from, n)) = n
        /\ \A i \in 1 .. n : Bytes(from, n)[i] = buffer[from + i - 1]
    BY <1>1, <2>1, BytesRead
  <2>3. \A i \in 1 .. n : Bytes(from, n)[i] = d[i]
    <3> TAKE i \in 1 .. n
    <3>1. from + i - 1 = k + (1 + w + i) /\ 1 + w + i \in 1 .. 1 + w + n
      BY <1>6 DEF from
    <3>2. buffer[k + (1 + w + i)] = s[1 + w + i] /\ s[1 + w + i] = d[i]
      BY <1>4, <1>5, <3>1
    <3> QED BY <2>2, <3>1, <3>2
  <2> DEFINE t == Bytes(from, n)
  <2>4. t \in Seq(Octets) /\ Len(t) = Len(d) /\ \A i \in 1 .. Len(t) : t[i] = d[i]
    BY <2>2, <2>3 DEF n
  <2> HIDE DEF t
  <2>5. t = d
    BY <1>1, <2>4, SeqEqual
  <2> QED BY <2>5 DEF t, from
<1>11. Value(b) = n
  <2>1. n < SizeLimit
    BY <1>1
  <2> QED BY <1>1, <2>1, ValueNumber DEF b
<1> QED BY <1>1, <1>7, <1>8, <1>9, <1>10, <1>11 DEF w, d

\* The first chunks of a list.
LEMMA Part ==
    ASSUME NEW l \in Seq(ChunkSet), NEW i \in 0 .. Len(l)
    PROVE  /\ SubSeq(l, 1, i) \in Seq(ChunkSet) /\ Len(SubSeq(l, 1, i)) = i
           /\ \A j \in 1 .. i : SubSeq(l, 1, i)[j] = l[j]
           /\ Serialized(SubSeq(l, 1, i)) \in Seq(Octets)
<1> DEFINE one == 1
           u == SubSeq(l, one, i)
<1>1. \A j \in one .. i : l[j] \in ChunkSet
  OBVIOUS
<1>2. one \in Int /\ i \in Int /\ (IF one <= i THEN i - one + 1 ELSE 0) = i
      /\ i - one + 1 = i /\ \A j \in 1 .. i : one + j - 1 = j
  OBVIOUS
<1> HIDE DEF one
<1>3. /\ u \in Seq(ChunkSet) /\ Len(u) = IF one <= i THEN i - one + 1 ELSE 0
      /\ \A j \in 1 .. i - one + 1 : u[j] = l[one + j - 1]
  BY <1>1, <1>2, SubSeqProperties
<1> HIDE DEF u
<1>4. Serialized(u) \in Seq(Octets)
  BY <1>3, SerializedAppend, Sizes
<1>5. \A j \in 1 .. i : u[j] = l[j]
  BY <1>2, <1>3
<1> QED BY <1>2, <1>3, <1>4, <1>5 DEF u, one

\* One more of them is its bytes more.
LEMMA PartNext ==
    ASSUME NEW l \in Seq(ChunkSet), NEW i \in 0 .. Len(l) - 1
    PROVE  /\ l[i + 1] \in ChunkSet
           /\ SubSeq(l, 1, i + 1) = Append(SubSeq(l, 1, i), l[i + 1])
           /\ Serialized(SubSeq(l, 1, i + 1))
                 = Serialized(SubSeq(l, 1, i)) \o serializeOn(l[i + 1])
<1> DEFINE t(j) == SubSeq(l, 1, j)
<1>1. i \in 0 .. Len(l) /\ i + 1 \in 1 .. Len(l) /\ l[i + 1] \in ChunkSet
  OBVIOUS
<1>2. t(i) \in Seq(ChunkSet)
  BY <1>1, Part
<1>3. t(i + 1) = t(i) \o <<l[i + 1]>>
  <2> DEFINE one == 1
             n == i + 1
  <2>1. one \in 1 .. Len(l) /\ n \in one .. Len(l) /\ n - 1 = i
    BY <1>1
  <2> HIDE DEF one, n
  <2>2. SubSeq(l, one, n) = SubSeq(l, one, n - 1) \o <<l[n]>>
    BY <2>1, SubSeqRecursiveSecond
  <2> QED BY <2>1, <2>2 DEF one, n
<1> HIDE DEF t
<1>4. Append(t(i), l[i + 1]) = t(i) \o <<l[i + 1]>>
  BY <1>1, <1>2, AppendIsConcat
<1>5. t(i + 1) = Append(t(i), l[i + 1])
  BY <1>3, <1>4
<1>6. Serialized(Append(t(i), l[i + 1])) = Serialized(t(i)) \o serializeOn(l[i + 1])
  BY <1>1, <1>2, SerializedAppend
<1> QED BY <1>1, <1>5, <1>6 DEF t

\* The serialization of a list starts with that of its first chunks.
LEMMA SerializedPart ==
    ASSUME NEW l \in Seq(ChunkSet), NEW k \in 0 .. Len(l)
    PROVE  \E r \in Seq(Octets) : Serialized(l) = Serialized(SubSeq(l, 1, k)) \o r
<1> DEFINE m == Len(l)
           t(i) == SubSeq(l, 1, i)
           Q(j) == \E r \in Seq(Octets) : Serialized(t(j)) = Serialized(t(k)) \o r
           P == {n \in Nat : k + n <= m => Q(k + n)}
<1>1. m \in Nat /\ k \in Nat /\ k <= m
  OBVIOUS
<1>2. ASSUME NEW i \in 0 .. m PROVE Serialized(t(i)) \in Seq(Octets)
  BY Part
<1>3. ASSUME NEW i \in 0 .. m - 1
      PROVE  /\ serializeOn(l[i + 1]) \in Seq(Octets)
             /\ Serialized(t(i + 1)) = Serialized(t(i)) \o serializeOn(l[i + 1])
  BY PartNext, ChunkBytes
<1> HIDE DEF t, m
<1>4. 0 \in P
  <2>1. k \in 0 .. m /\ k + 0 = k
    BY <1>1
  <2> DEFINE a == Serialized(t(k))
  <2>2. a \in Seq(Octets)
    BY <1>2, <2>1
  <2> HIDE DEF a
  <2>3. a = a \o <<>> /\ <<>> \in Seq(Octets)
    BY <2>2, ConcatEmptySeq
  <2>4. Q(k)
    BY <2>3 DEF a
  <2> QED BY <2>1, <2>4
<1>5. ASSUME NEW n \in Nat, n \in P PROVE n + 1 \in P
  <2> SUFFICES ASSUME k + (n + 1) <= m PROVE Q(k + (n + 1))
    OBVIOUS
  <2> DEFINE i == k + n
             a == Serialized(t(k))
             b == Serialized(t(i))
             c == serializeOn(l[i + 1])
  <2>1. i \in 0 .. m - 1 /\ i \in 0 .. m /\ i <= m /\ k + (n + 1) = i + 1 /\ k \in 0 .. m
    BY <1>1
  <2>2. Q(i)
    BY <1>5, <2>1
  <2> HIDE DEF i
  <2>3. a \in Seq(Octets) /\ c \in Seq(Octets) /\ Serialized(t(i + 1)) = b \o c
    BY <1>2, <1>3, <2>1
  <2>4. PICK r \in Seq(Octets) : b = a \o r
    BY <2>2
  <2> HIDE DEF a, b, c
  <2>5. (a \o r) \o c = a \o (r \o c) /\ r \o c \in Seq(Octets)
    BY <2>3, <2>4, ConcatAssociative, ConcatProperties
  <2>6. Serialized(t(i + 1)) = a \o (r \o c)
    BY <2>3, <2>4, <2>5
  <2>7. Q(i + 1)
    BY <2>5, <2>6 DEF a
  <2> QED BY <2>1, <2>7
<1>6. Nat \subseteq P
  <2> HIDE DEF P
  <2> QED BY <1>4, <1>5, Induction
<1>7. Q(m)
  <2>1. m - k \in Nat /\ k + (m - k) = m
    BY <1>1
  <2>2. m - k \in P
    BY <1>6, <2>1
  <2> HIDE DEF Q
  <2>3. k + (m - k) <= m => Q(k + (m - k))
    BY <2>2
  <2> QED BY <1>1, <2>1, <2>3
<1>8. t(m) = l
  BY SubSeqFull DEF t, m
<1> QED BY <1>7, <1>8 DEF t

\* After the first chunks of a list comes the next one, and more bytes after it just
\* if there are more chunks.
LEMMA SerializedRest ==
    ASSUME NEW l \in Seq(ChunkSet), NEW k \in 0 .. Len(l) - 1
    PROVE  \E r \in Seq(Octets) :
              /\ Serialized(l)
                    = (Serialized(SubSeq(l, 1, k)) \o serializeOn(l[k + 1])) \o r
              /\ r = <<>> <=> Len(l) = k + 1
<1> DEFINE a == Serialized(SubSeq(l, 1, k + 1))
<1>1. k + 1 \in 0 .. Len(l)
  OBVIOUS
<1>2. PICK r \in Seq(Octets) : Serialized(l) = a \o r
  BY <1>1, SerializedPart
<1>3. a = Serialized(SubSeq(l, 1, k)) \o serializeOn(l[k + 1]) /\ a \in Seq(Octets)
  BY <1>1, PartNext, Part
<1>4. ASSUME r = <<>>, Len(l) # k + 1 PROVE FALSE
  <2> DEFINE i == k + 1
             b == serializeOn(l[i + 1])
             c == Serialized(SubSeq(l, 1, i + 1))
  <2>1. i \in 0 .. Len(l) - 1 /\ i + 1 \in 0 .. Len(l) /\ l[i + 1] \in ChunkSet
    BY <1>4
  <2> HIDE DEF i
  <2>2. c = Serialized(SubSeq(l, 1, i)) \o b
    BY <2>1, PartNext
  <2>3. PICK s \in Seq(Octets) : Serialized(l) = c \o s
    BY <2>1, SerializedPart
  <2>4. b \in Seq(Octets) /\ Len(b) = MetaSize + Len(l[i + 1].content)
    BY <2>1, ChunkBytes
  <2>5. l[i + 1].content \in Seq(Octets)
    BY <2>1 DEF ChunkSet
  <2>6. Len(b) > 0
    <3> DEFINE n == Len(l[i + 1].content)
    <3>1. n \in Nat
      BY <2>5
    <3> HIDE DEF n
    <3>2. MetaSize + n > 0
      BY <3>1, Sizes
    <3> QED BY <2>4, <3>2 DEF n
  <2>7. Serialized(l) = a /\ c = a \o b
    <3>1. Serialized(l) = a
      <4> HIDE DEF a
      <4> QED BY <1>2, <1>3, <1>4, ConcatEmptySeq
    <3> QED BY <2>2, <3>1 DEF i
  <2> HIDE DEF a, b, c
  <2>8. (a \o b) \o s = a \o (b \o s) /\ b \o s \in Seq(Octets)
    <3>1. a \in Seq(Octets) /\ b \in Seq(Octets)
      BY <1>3, <2>4
    <3>2. (a \o b) \o s = a \o (b \o s)
      BY <3>1, ConcatAssociative
    <3> QED BY <3>1, <3>2, ConcatProperties
  <2>9. b \o s = <<>>
    <3>1. a \o (b \o s) = a
      BY <2>3, <2>7, <2>8
    <3> DEFINE u == b \o s
    <3>2. u \in Seq(Octets) /\ a \o u = a
      BY <2>8, <3>1
    <3> HIDE DEF u
    <3>3. u = <<>>
      BY <1>3, <3>2, ConcatEqualIffEmpty
    <3> QED BY <3>3 DEF u
  <2>10. b = <<>>
    BY <2>3, <2>4, <2>9, ConcatEqualIffEmpty
  <2> QED BY <2>6, <2>10
<1>5. ASSUME Len(l) = k + 1 PROVE r = <<>>
  <2>1. SubSeq(l, 1, Len(l)) = l
    BY SubSeqFull
  <2>2. a \o r = a
    BY <1>2, <1>5, <2>1
  <2> HIDE DEF a
  <2> QED BY <1>3, <2>2, ConcatEqualIffEmpty
<1> QED BY <1>2, <1>3, <1>4, <1>5

\* Only the list of no chunks has no bytes.
LEMMA SerializedNothing ==
    ASSUME NEW l \in Seq(ChunkSet), Serialized(l) = <<>> PROVE l = <<>>
<1> SUFFICES ASSUME l # <<>> PROVE FALSE
  OBVIOUS
<1>1. PICK t \in Seq(ChunkSet), c \in ChunkSet : l = Append(t, c)
  BY SequenceEmptyOrAppend
<1> DEFINE a == Serialized(t)
           b == serializeOn(c)
<1>2. a \in Seq(Octets) /\ Serialized(l) = a \o b
  BY <1>1, SerializedAppend
<1>3. b \in Seq(Octets) /\ Len(b) = MetaSize + Len(c.content)
  BY ChunkBytes
<1>4. Len(c.content) \in Nat
  BY DEF ChunkSet
<1> HIDE DEF a, b
<1>5. b = <<>>
  BY <1>2, <1>3, ConcatEqualIffEmpty
<1>6. MetaSize + Len(c.content) > 0
  <2> DEFINE n == Len(c.content)
  <2>1. n \in Nat
    BY <1>4
  <2> HIDE DEF n
  <2>2. MetaSize + n > 0
    BY <2>1, Sizes
  <2> QED BY <2>2 DEF n
<1>7. Len(b) = 0
  BY <1>5
<1> QED BY <1>3, <1>6, <1>7

-----------------------------------------------------------------------------
(* The sender.                                                             *)

\* A data chunk has a descriptor, and what stands for none has not.
LEMMA DataOrNone ==
    /\ NoChunk.descriptor = 0
    /\ \A c : Complete(c, DATA) => c.descriptor # 0
<1>1. NoChunk.descriptor = 0
  BY DEF NoChunk, Chunk
<1>2. 0 % TypeMask = 0
  BY FormatAssumption
<1> QED BY <1>1, <1>2 DEF Complete, TypeOf, DATA

\* The sender keeps its chunks complete.
LEMMA SentNext ==
    ASSUME WireTypeOK, SentInv, WireStep PROVE SentInv'
<1>1. sent \in Messages
  BY DEF WireTypeOK, Messages
<1>2. ASSUME NEW e \in ChunkSet, NEW c \in ChunkSet, CompleteParts(e, c), Construct(e, c)
      PROVE  SentInv'
  <2>1. sent'.version = VERSION /\ sent'.envelope = e /\ sent'.data = c
        /\ sent'.debug = <<>>
    BY <1>2 DEF Construct, Blank
  <2>2. IF c.descriptor # 0 THEN Complete(c, DATA) ELSE c = NoChunk
    BY <1>2, DataOrNone DEF CompleteParts
  <2> QED BY <1>2, <2>1, <2>2 DEF SentInv, CompleteParts, hasData
<1>3. ASSUME NEW c \in ChunkSet, Complete(c, DATA), setDataChunk(c) PROVE SentInv'
  <2>1. step = "built" /\ sent' = [sent EXCEPT !.data = c]
    BY <1>3 DEF setDataChunk
  <2>2. sent'.version = sent.version /\ sent'.envelope = sent.envelope /\ sent'.data = c
        /\ sent'.debug = sent.debug
    BY <1>1, <2>1 DEF Messages
  <2>3. c.descriptor # 0
    BY <1>3, DataOrNone
  <2> QED BY <1>3, <2>1, <2>2, <2>3 DEF SentInv, hasData
<1>4. ASSUME NEW c \in ChunkSet, Complete(c, DEBUG), addDebugChunk(c) PROVE SentInv'
  <2> DEFINE l == sent.debug
             t == Append(l, c)
  <2>1. step = "built" /\ sent' = [sent EXCEPT !.debug = t]
    BY <1>4 DEF addDebugChunk
  <2>2. l \in Seq(ChunkSet)
    BY <1>1 DEF Messages
  <2>3. Len(l) \in Nat /\ DOMAIN t = 1 .. Len(l) + 1 /\ DOMAIN l = 1 .. Len(l)
        /\ t[Len(l) + 1] = c /\ \A i \in 1 .. Len(l) : t[i] = l[i]
    BY <2>2
  <2>4. \A i \in DOMAIN l : Complete(l[i], DEBUG)
    BY <2>1 DEF SentInv
  <2> HIDE DEF l, t
  <2>5. \A i \in DOMAIN t : Complete(t[i], DEBUG)
    <3> TAKE i \in DOMAIN t
    <3>1. CASE i = Len(l) + 1
      BY <1>4, <2>3, <3>1
    <3>2. CASE i # Len(l) + 1
      <4>1. i \in 1 .. Len(l)
        BY <2>3, <3>2
      <4> QED BY <2>3, <2>4, <4>1
    <3> QED BY <3>1, <3>2
  <2>6. sent'.version = sent.version /\ sent'.envelope = sent.envelope
        /\ sent'.data = sent.data /\ sent'.debug = t
    BY <1>1, <2>1 DEF Messages
  <2> QED BY <2>1, <2>5, <2>6 DEF SentInv, hasData
<1>5. CASE Send \/ Damage \/ Parse \/ UNCHANGED wireVars
  <2>1. sent' = sent /\ (step' # "idle" => step # "idle")
    BY <1>5 DEF Send, Damage, Parse, ParseHeader, ParseChunk, ParseEnds, wireVars
  <2> QED BY <2>1 DEF SentInv, hasData
<1>6. CASE Forget
  BY <1>6 DEF Forget, SentInv
<1> QED BY <1>2, <1>3, <1>4, <1>5, <1>6 DEF WireStep

-----------------------------------------------------------------------------
(* The receiver.                                                           *)

\* The bytes of a message, to the envelope, of the data chunk and of the others.
HeaderBytes(m) == <<m.version>> \o serializeOn(m.envelope)
DataBytes(m)   == IF hasData(m) THEN serializeOn(m.data) ELSE <<>>

LEMMA MessageBytes ==
    ASSUME NEW m \in Messages
    PROVE  /\ HeaderBytes(m) \in Seq(Octets) /\ DataBytes(m) \in Seq(Octets)
           /\ Serialized(m.debug) \in Seq(Octets)
           /\ getSerialized(m) = (HeaderBytes(m) \o DataBytes(m)) \o Serialized(m.debug)
<1>1. m.version \in Octets /\ m.envelope \in ChunkSet /\ m.data \in ChunkSet
      /\ m.debug \in Seq(ChunkSet)
  BY DEF Messages
<1> DEFINE a == <<m.version>>
           b == serializeOn(m.envelope)
<1>2. a \in Seq(Octets) /\ b \in Seq(Octets)
  BY <1>1, ChunkBytes
<1> HIDE DEF a, b
<1>3. a \o b \in Seq(Octets)
  BY <1>2, ConcatProperties
<1>4. DataBytes(m) \in Seq(Octets)
  BY <1>1, ChunkBytes DEF DataBytes
<1>5. Serialized(m.debug) \in Seq(Octets)
  BY <1>1, SerializedAppend, Sizes
<1> QED BY <1>3, <1>4, <1>5 DEF a, b, HeaderBytes, DataBytes, getSerialized

\* The chunk that the parser has to read next: the data, if it has read none yet,
\* or a debug chunk.
DataNext(c) ==
    hasData(sent) /\ msg.data = NoChunk /\ msg.debug = <<>> /\ c = sent.data
DebugNext(c) ==
    /\ msg.data = sent.data /\ Len(msg.debug) < Len(sent.debug)
    /\ msg.debug = SubSeq(sent.debug, 1, Len(msg.debug))
    /\ c = sent.debug[Len(msg.debug) + 1]

\* It is the last one just if no bytes follow.
IsNext(c, r) ==
    \/ DataNext(c) /\ (r = <<>> <=> sent.debug = <<>>)
    \/ DebugNext(c) /\ (r = <<>> <=> Len(sent.debug) = Len(msg.debug) + 1)

\* As long as a chunk was not read, the next one is where the parser is.
LEMMA NextChunk ==
    ASSUME WireTypeOK, SentInv, ReadInv, ~damaged, step \in {"chunks", "parsed"},
           ~(msg.data = sent.data /\ msg.debug = sent.debug)
    PROVE  \E c \in ChunkSet, r \in Seq(Octets) :
              IsNext(c, r) /\ Joins(buffer, getSerialized(msg), serializeOn(c), r)
<1> DEFINE h == HeaderBytes(sent)
           x == DataBytes(sent)
           l == sent.debug
           k == Len(msg.debug)
<1>1. sent \in Messages /\ msg \in Messages /\ l \in Seq(ChunkSet) /\ k \in Nat
  BY DEF WireTypeOK, Messages
<1>2. h \in Seq(Octets) /\ x \in Seq(Octets) /\ Serialized(l) \in Seq(Octets)
      /\ getSerialized(sent) = (h \o x) \o Serialized(l)
  BY <1>1, MessageBytes
<1>3. HeaderBytes(msg) = h /\ buffer = (h \o x) \o Serialized(l)
  BY <1>2 DEF ReadInv, HeaderBytes
<1>4. getSerialized(msg) = (h \o DataBytes(msg)) \o Serialized(msg.debug)
  BY <1>1, <1>3, MessageBytes
<1> HIDE DEF h, x, l, k
<1>5. CASE hasData(sent) /\ msg.data = NoChunk /\ msg.debug = <<>>
  <2> DEFINE c == sent.data
             r == Serialized(l)
             b == serializeOn(c)
  <2>1. c \in ChunkSet
    BY <1>1 DEF Messages
  <2>2. b \in Seq(Octets)
    BY <2>1, ChunkBytes
  <2>3. x = b
    BY <1>5 DEF x, DataBytes
  <2>4. DataBytes(msg) = <<>> /\ Serialized(msg.debug) = <<>>
    BY <1>5, SerializedEmpty, DataOrNone DEF DataBytes, hasData
  <2>5. getSerialized(msg) = h
    BY <1>2, <1>4, <2>4, ConcatEmptySeq
  <2>6. r = <<>> <=> l = <<>>
    BY <1>1, SerializedNothing, SerializedEmpty
  <2>7. r \in Seq(Octets)
    BY <1>2
  <2> HIDE DEF r, b
  <2>8. Joins((h \o b) \o r, h, b, r)
    BY <1>2, <2>2, <2>7, Joined
  <2>9. Joins(buffer, getSerialized(msg), b, r)
    BY <1>3, <2>3, <2>5, <2>8 DEF r
  <2>10. IsNext(c, r)
    BY <1>5, <2>6 DEF IsNext, DataNext, l
  <2> QED BY <2>1, <2>7, <2>9, <2>10 DEF b
<1>6. CASE ~(hasData(sent) /\ msg.data = NoChunk /\ msg.debug = <<>>)
  <2>1. msg.data = sent.data /\ k <= Len(l) /\ msg.debug = SubSeq(l, 1, k)
    <3>1. CASE msg.data = NoChunk /\ msg.debug = <<>>
      <4>1. sent.data = NoChunk
        BY <1>6, <3>1 DEF SentInv
      <4>2. k = 0 /\ SubSeq(l, 1, 0) = <<>> /\ 0 <= Len(l)
        BY <1>1, <3>1 DEF k
      <4> QED BY <3>1, <4>1, <4>2
    <3>2. CASE ~(msg.data = NoChunk /\ msg.debug = <<>>)
      BY <3>2 DEF ReadInv, k, l
    <3> QED BY <3>1, <3>2
  <2>2. k # Len(l)
    <3>1. SubSeq(l, 1, Len(l)) = l
      BY <1>1, SubSeqFull
    <3> QED BY <2>1, <3>1 DEF l
  <2>3. k \in 0 .. Len(l) - 1 /\ k < Len(l)
    BY <1>1, <2>1, <2>2
  <2> DEFINE c == l[k + 1]
             p == Serialized(SubSeq(l, 1, k))
             b == serializeOn(c)
             y == h \o x
  <2>4. PICK r \in Seq(Octets) :
           Serialized(l) = (p \o b) \o r /\ (r = <<>> <=> Len(l) = k + 1)
    BY <1>1, <2>3, SerializedRest
  <2>5. p \in Seq(Octets) /\ c \in ChunkSet
    <3>1. k \in 0 .. Len(l)
      BY <2>3
    <3> QED BY <1>1, <2>3, <3>1, Part, PartNext
  <2>6. b \in Seq(Octets)
    BY <2>5, ChunkBytes
  <2>7. y \in Seq(Octets)
    BY <1>2, ConcatProperties
  <2>8. DataBytes(msg) = x
    BY <2>1 DEF DataBytes, hasData, x
  <2>9. getSerialized(msg) = y \o p /\ buffer = y \o ((p \o b) \o r)
    BY <1>3, <1>4, <2>1, <2>4, <2>8
  <2>10. IsNext(c, r)
    BY <2>1, <2>3, <2>4 DEF IsNext, DebugNext, l, k
  <2> HIDE DEF c, p, b, y
  <2> DEFINE g == y \o p
             q == p \o b
  <2>11. g \in Seq(Octets) /\ q \in Seq(Octets)
    BY <2>5, <2>6, <2>7, ConcatProperties
  <2>12. g \o b = y \o q
    BY <2>5, <2>6, <2>7, ConcatAssociative
  <2> HIDE DEF g, q
  <2>13. (g \o b) \o r = y \o (q \o r)
    BY <2>7, <2>11, <2>12, ConcatAssociative
  <2>14. Joins((g \o b) \o r, g, b, r)
    BY <2>6, <2>11, Joined
  <2>15. Joins(buffer, getSerialized(msg), b, r)
    BY <2>9, <2>13, <2>14 DEF g, q
  <2> QED BY <2>5, <2>10, <2>15 DEF b
<1> QED BY <1>5, <1>6

\* It is read there, and if it is the last one nothing is left after it.
LEMMA NextRead ==
    ASSUME WireTypeOK, ParseInv, SentInv, ReadInv, ~damaged,
           step \in {"chunks", "parsed"},
           ~(msg.data = sent.data /\ msg.debug = sent.debug)
    PROVE  \E c \in ChunkSet, r \in Seq(Octets) :
              /\ IsNext(c, r)
              /\ Complete(c, IF DataNext(c) THEN DATA ELSE DEBUG)
              /\ left = MetaSize + Len(c.content) + Len(r)
              /\ buffer[next] = c.descriptor /\ ChunkSize = c.size /\ ChunkRead = c
<1> DEFINE g == getSerialized(msg)
<1>1. PICK c \in ChunkSet, r \in Seq(Octets) :
         IsNext(c, r) /\ Joins(buffer, g, serializeOn(c), r)
  BY NextChunk
<1>2. sent \in Messages /\ msg \in Messages /\ buffer \in Seq(Octets) /\ next \in Nat
      /\ left \in Nat
  BY DEF WireTypeOK, Messages
<1>3. g \in Seq(Octets)
  BY <1>2, Length
<1>4. next + left = Len(buffer) + 1 /\ Len(g) + left = Len(buffer)
  BY DEF ParseInv
<1> HIDE DEF g
<1>5. next = Len(g) + 1
  <2> DEFINE x == Len(g)
             y == Len(buffer)
  <2>1. x \in Nat /\ y \in Nat /\ next + left = y + 1 /\ x + left = y
    BY <1>2, <1>3, <1>4
  <2> HIDE DEF x, y
  <2>2. next = x + 1
    BY <1>2, <2>1
  <2> QED BY <2>2 DEF x
<1>6. Complete(c, IF DataNext(c) THEN DATA ELSE DEBUG)
  <2>1. CASE DataNext(c)
    BY <2>1 DEF DataNext, SentInv
  <2>2. CASE ~DataNext(c) /\ DebugNext(c)
    <3> DEFINE i == Len(msg.debug) + 1
    <3>1. msg.debug \in Seq(ChunkSet) /\ sent.debug \in Seq(ChunkSet)
      BY <1>2 DEF Messages
    <3>2. c = sent.debug[i] /\ Len(msg.debug) < Len(sent.debug)
      BY <2>2 DEF DebugNext
    <3>3. i \in DOMAIN sent.debug
      BY <3>1, <3>2
    <3> HIDE DEF i
    <3>4. Complete(sent.debug[i], DEBUG)
      BY <3>3 DEF SentInv
    <3> QED BY <2>2, <3>2, <3>4
  <2> QED BY <1>1, <2>1, <2>2 DEF IsNext
<1>7. c.size = Len(c.content) /\ c.size < SizeLimit
  BY <1>6 DEF Complete
<1>8. /\ next + MetaSize + c.size + Len(r) = Len(buffer) + 1
      /\ buffer[next] = c.descriptor
      /\ Value(Bytes(next + 1, SizeWidth)) = c.size
      /\ Bytes(next + MetaSize, c.size) = c.content
  BY <1>1, <1>2, <1>3, <1>5, <1>7, ChunkReadBack
<1>9. ChunkSize = c.size
  BY <1>8 DEF ChunkSize
<1>10. ChunkRead = c
  BY <1>8, <1>9 DEF ChunkRead, ChunkSet
<1>11. left = MetaSize + Len(c.content) + Len(r)
  <2> DEFINE x == Len(r)
             y == Len(buffer)
             n == c.size
  <2>1. x \in Nat /\ y \in Nat /\ n \in Nat /\ MetaSize \in Nat
        /\ next + MetaSize + n + x = y + 1 /\ next + left = y + 1
    BY <1>2, <1>4, <1>8, Sizes DEF ChunkSet
  <2> HIDE DEF x, y, n
  <2>2. left = MetaSize + n + x
    BY <1>2, <2>1
  <2> QED BY <1>7, <2>2 DEF x, n
<1> QED BY <1>1, <1>6, <1>8, <1>9, <1>10, <1>11

\* An undamaged header is valid, and is read as it was sent.
LEMMA HeaderReadBack ==
    ASSUME WireTypeOK, SentInv, step = "header", buffer = getSerialized(sent)
    PROVE  /\ HeaderValid /\ buffer[1] = sent.version
           /\ sent.envelope = [descriptor |-> buffer[2], size |-> EnvelopeSize,
                               content |-> Bytes(1 + HeaderSize, EnvelopeSize)]
<1> DEFINE g == <<sent.version>>
           c == sent.envelope
           b == serializeOn(c)
           x == DataBytes(sent)
           d == Serialized(sent.debug)
           r == x \o d
           two == 2
<1>1. sent \in Messages /\ buffer \in Seq(Octets)
  BY DEF WireTypeOK, Messages
<1>2. c \in ChunkSet /\ sent.version \in Octets
  BY <1>1 DEF Messages
<1>3. g \in Seq(Octets) /\ Len(g) = 1 /\ g[1] = sent.version /\ b \in Seq(Octets)
  BY <1>2, ChunkBytes
<1>4. /\ x \in Seq(Octets) /\ d \in Seq(Octets) /\ g \o b \in Seq(Octets)
      /\ buffer = ((g \o b) \o x) \o d
  BY <1>1, MessageBytes DEF HeaderBytes
<1>5. /\ sent.version = VERSION
      /\ Complete(c, ENVELOPE) /\ c.size <= SizeLimit - 1 - HeaderSize
  BY DEF SentInv
<1> HIDE DEF g, b, x, d
<1>6. r \in Seq(Octets)
  BY <1>4, ConcatProperties
<1>7. ((g \o b) \o x) \o d = (g \o b) \o (x \o d)
  <2> DEFINE e == g \o b
  <2>1. e \in Seq(Octets)
    BY <1>4
  <2> HIDE DEF e
  <2>2. (e \o x) \o d = e \o (x \o d)
    BY <1>4, <2>1, ConcatAssociative
  <2> QED BY <2>2 DEF e
<1> HIDE DEF r
<1>8. Joins(buffer, g, b, r)
  <2>1. Joins((g \o b) \o r, g, b, r)
    BY <1>3, <1>6, Joined
  <2> QED BY <1>4, <1>7, <2>1 DEF r
<1>9. c.size = Len(c.content) /\ c.size < SizeLimit /\ c.size \in Nat
  BY <1>2, <1>5 DEF Complete, ChunkSet
<1>10. two \in Nat /\ two = Len(g) + 1
  BY <1>3
<1> HIDE DEF c, two
<1>11. /\ two + MetaSize + c.size + Len(r) = Len(buffer) + 1
       /\ buffer[two] = c.descriptor
       /\ Value(Bytes(two + 1, SizeWidth)) = c.size
       /\ Bytes(two + MetaSize, c.size) = c.content
  <2>1. Joins(buffer, g, serializeOn(c), r)
    BY <1>8 DEF b
  <2>2. buffer \in Seq(Octets) /\ g \in Seq(Octets) /\ r \in Seq(Octets) /\ c \in ChunkSet
    BY <1>1, <1>2, <1>3, <1>6
  <2>3. c.size = Len(c.content) /\ c.size < SizeLimit
    BY <1>9
  <2> QED BY <1>10, <2>1, <2>2, <2>3, ChunkReadBack
<1>12. two = 2 /\ two + 1 = 3 /\ two + MetaSize = 1 + HeaderSize
       /\ HeaderSize = MetaSize + 1 /\ MetaSize \in Nat /\ SizeLimit \in Nat \ {0}
  BY Sizes DEF two
<1>13. EnvelopeSize = c.size /\ buffer[2] = c.descriptor
  BY <1>11, <1>12 DEF EnvelopeSize
<1>14. Bytes(1 + HeaderSize, EnvelopeSize) = c.content
  BY <1>11, <1>12, <1>13
<1>15. buffer[1] = sent.version
  <2>1. 1 \in 1 .. Len(g)
    BY <1>3
  <2>2. buffer[1] = g[1]
    BY <1>8, <2>1 DEF Joins
  <2> QED BY <1>3, <2>2
<1>16. HeaderSize + c.size <= Len(buffer) /\ HeaderSize <= Len(buffer)
  <2> DEFINE n == c.size
             i == Len(r)
             j == Len(buffer)
  <2>1. n \in Nat /\ i \in Nat /\ j \in Nat /\ two + MetaSize + n + i = j + 1
    BY <1>1, <1>6, <1>9, <1>11
  <2> HIDE DEF n, i, j
  <2>2. HeaderSize + n <= j /\ HeaderSize <= j
    BY <1>12, <2>1
  <2> QED BY <2>2 DEF n, j
<1>17. Wrap(HeaderSize + EnvelopeSize) = HeaderSize + c.size
  <2> DEFINE n == HeaderSize + c.size
  <2>1. n \in Nat /\ n < SizeLimit
    <3> DEFINE i == c.size
    <3>1. i \in Nat /\ i <= SizeLimit - 1 - HeaderSize
      BY <1>5, <1>9
    <3> HIDE DEF i
    <3>2. HeaderSize + i \in Nat /\ HeaderSize + i < SizeLimit
      BY <1>12, <3>1
    <3> QED BY <3>2 DEF i
  <2> HIDE DEF n
  <2>2. n % SizeLimit = n
    BY <1>12, <2>1
  <2> QED BY <1>13, <2>2 DEF Wrap, n
<1>18. TypeOf(buffer[2]) = ENVELOPE
  BY <1>5, <1>13 DEF Complete
<1>19. HeaderValid
  BY <1>5, <1>13, <1>15, <1>16, <1>17, <1>18 DEF HeaderValid, validateVersion
<1>20. c = [descriptor |-> buffer[2], size |-> EnvelopeSize,
            content |-> Bytes(1 + HeaderSize, EnvelopeSize)]
  BY <1>2, <1>13, <1>14 DEF ChunkSet
<1> QED BY <1>15, <1>19, <1>20 DEF c

\* The last element of a list, the others, and those after the first.
LEMMA FirstAndLast ==
    ASSUME NEW S, NEW l \in Seq(S), NEW e \in S
    PROVE  /\ Last(Append(l, e)) = e /\ Front(Append(l, e)) = l
           /\ Append(l, e) # <<>>
           /\ <<e>> \o l \in Seq(S) /\ <<e>> \o l # <<>> /\ Tail(<<e>> \o l) = l
<1> DEFINE t == Append(l, e)
           n == Len(l)
           one == 1
           u == SubSeq(t, one, n)
           c == <<e>> \o l
           v == Tail(c)
<1>1. t \in Seq(S) /\ Len(t) = n + 1 /\ t[n + 1] = e /\ n \in Nat /\ t # <<>>
      /\ \A i \in 1 .. n : t[i] = l[i]
  BY AppendProperties
<1> HIDE DEF t
<1>2. Last(t) = e
  BY <1>1 DEF Last
<1>3. u = l
  <2>1. \A i \in one .. n : t[i] \in S
    BY <1>1
  <2>2. one \in Int /\ n \in Int /\ (IF one <= n THEN n - one + 1 ELSE 0) = n
        /\ n - one + 1 = n /\ \A i \in 1 .. n : one + i - 1 = i
    BY <1>1
  <2> HIDE DEF one, n
  <2>3. /\ u \in Seq(S) /\ Len(u) = IF one <= n THEN n - one + 1 ELSE 0
        /\ \A i \in 1 .. n - one + 1 : u[i] = t[one + i - 1]
    BY <2>1, <2>2, SubSeqProperties
  <2> HIDE DEF u
  <2>4. Len(u) = Len(l) /\ \A i \in 1 .. Len(u) : u[i] = l[i]
    BY <1>1, <2>2, <2>3 DEF n
  <2> QED BY <2>3, <2>4, SeqEqual
<1>4. Front(t) = l
  <2>1. Len(t) - 1 = n
    BY <1>1
  <2> QED BY <1>3, <2>1 DEF Front, u
<1>5. <<e>> \in Seq(S) /\ Len(<<e>>) = 1
  OBVIOUS
<1>6. /\ c \in Seq(S) /\ Len(c) = 1 + n
      /\ \A i \in 1 .. n : c[i + 1] = l[i]
  OBVIOUS
<1> HIDE DEF c
<1>7. c # <<>>
  <2>1. Len(c) # 0
    BY <1>1, <1>6
  <2> QED BY <2>1
<1>8. /\ v \in Seq(S) /\ Len(v) = Len(c) - 1
      /\ \A i \in 1 .. Len(v) : v[i] = c[i + 1]
  BY <1>6, <1>7, HeadTailProperties
<1> HIDE DEF v
<1>9. v = l
  <2>1. Len(v) = Len(l) /\ \A i \in 1 .. Len(v) : v[i] = l[i]
    BY <1>1, <1>6, <1>8 DEF n
  <2> QED BY <1>8, <2>1, SeqEqual
<1> QED BY <1>1, <1>2, <1>4, <1>6, <1>7, <1>9 DEF t, c, v

\* The chunks of a message, and the last of them.
LEMMA ChunksOf ==
    ASSUME NEW m \in Messages
    PROVE  /\ Chunks(m) = IF hasData(m) THEN <<m.data>> \o m.debug ELSE m.debug
           /\ m.debug # <<>> => Last(Chunks(m)) = m.debug[Len(m.debug)]
           /\ hasData(m) /\ m.debug = <<>> => Last(Chunks(m)) = m.data
<1> DEFINE l == m.debug
           d == m.data
           t == <<d>> \o l
<1>1. l \in Seq(ChunkSet) /\ d \in ChunkSet /\ Len(l) \in Nat
  BY DEF Messages
<1>2. <<>> \o l = l
  BY <1>1, ConcatEmptySeq
<1>3. Chunks(m) = IF hasData(m) THEN t ELSE l
  BY <1>2 DEF Chunks
<1> HIDE DEF l, d
<1>4. t \in Seq(ChunkSet) /\ Len(t) = 1 + Len(l)
      /\ (l # <<>> => t[1 + Len(l)] = l[Len(l)]) /\ (l = <<>> => t[1] = d)
  BY <1>1
<1> HIDE DEF t
<1>5. l # <<>> => Last(t) = l[Len(l)] /\ Last(l) = l[Len(l)]
  BY <1>4 DEF Last
<1>6. l = <<>> => Last(t) = d
  <2> HAVE l = <<>>
  <2>1. Len(l) = 0
    OBVIOUS
  <2>2. Len(t) = 1
    BY <1>4, <2>1
  <2> QED BY <1>4, <2>2 DEF Last
<1>7. /\ l # <<>> => Last(Chunks(m)) = l[Len(l)]
      /\ hasData(m) /\ l = <<>> => Last(Chunks(m)) = d
  BY <1>3, <1>5, <1>6
<1> QED BY <1>3, <1>7 DEF t, l, d

-----------------------------------------------------------------------------
(* The invariant.                                                          *)

\* A message m holds what was read of the message s that was sent.
ReadOf(m, s) ==
    /\ m.version = s.version /\ m.envelope = s.envelope
    /\ \/ m.data = NoChunk /\ m.debug = <<>>
       \/ /\ m.data = s.data /\ Len(m.debug) <= Len(s.debug)
          /\ m.debug = SubSeq(s.debug, 1, Len(m.debug))
    /\ m.data = s.data /\ m.debug = s.debug /\ Chunks(s) # <<>> =>
          Last(Chunks(s)).content # <<>>

\* When every chunk was read nothing is left.
LEMMA NothingLeft ==
    ASSUME WireTypeOK, ParseInv, ReadInv, ~damaged, step \in {"chunks", "parsed"},
           msg.data = sent.data, msg.debug = sent.debug
    PROVE  left = 0
<1>1. msg.version = sent.version /\ msg.envelope = sent.envelope
      /\ buffer = getSerialized(sent)
  BY DEF ReadInv
<1>2. getSerialized(msg) = getSerialized(sent)
  BY <1>1 DEF getSerialized, hasData
<1> DEFINE n == Len(buffer)
<1>3. n \in Nat /\ left \in Nat /\ n + left = n
  BY <1>1, <1>2 DEF ParseInv, WireTypeOK
<1> HIDE DEF n
<1> QED BY <1>3

\* The header gives the envelope, and no chunk.
LEMMA HeaderNext ==
    ASSUME WireTypeOK, ParseInv, SentInv, ReadInv, ~damaged, ParseHeader
    PROVE  step' = "chunks" /\ ReadOf(msg', sent)
<1>1. step = "header" /\ buffer = getSerialized(sent)
  BY DEF ParseHeader, ReadInv
<1>2. /\ HeaderValid /\ buffer[1] = sent.version
      /\ sent.envelope = [descriptor |-> buffer[2], size |-> EnvelopeSize,
                          content |-> Bytes(1 + HeaderSize, EnvelopeSize)]
  BY <1>1, HeaderReadBack
<1>3. /\ step' = "chunks"
      /\ msg' = [Blank EXCEPT !.version = sent.version, !.envelope = sent.envelope]
  BY <1>2 DEF ParseHeader
<1>4. /\ msg'.version = sent.version /\ msg'.envelope = sent.envelope
      /\ msg'.data = NoChunk /\ msg'.debug = <<>>
  BY <1>3 DEF Blank
<1>5. ASSUME sent.data = NoChunk, sent.debug = <<>> PROVE Chunks(sent) = <<>>
  <2>1. sent \in Messages
    BY DEF WireTypeOK, Messages
  <2>2. ~hasData(sent)
    BY <1>5, DataOrNone DEF hasData
  <2> QED BY <1>5, <2>1, <2>2, ChunksOf
<1> QED BY <1>3, <1>4, <1>5 DEF ReadOf

\* Every chunk is valid, and is the next one of the message.
LEMMA ChunkNext ==
    ASSUME WireTypeOK, ParseInv, SentInv, ReadInv, ~damaged, ParseChunk
    PROVE  step' = "chunks" /\ ReadOf(msg', sent)
<1>1. sent \in Messages /\ msg \in Messages /\ left \in Nat
  BY DEF WireTypeOK, Messages
<1>2. step = "chunks" /\ left > MetaSize /\ MetaSize \in Nat
  BY Sizes DEF ParseChunk
<1>3. ~(msg.data = sent.data /\ msg.debug = sent.debug)
  BY <1>1, <1>2, NothingLeft
<1>4. PICK c \in ChunkSet, r \in Seq(Octets) :
         /\ IsNext(c, r)
         /\ Complete(c, IF DataNext(c) THEN DATA ELSE DEBUG)
         /\ left = MetaSize + Len(c.content) + Len(r)
         /\ buffer[next] = c.descriptor /\ ChunkSize = c.size /\ ChunkRead = c
  BY <1>2, <1>3, NextRead
<1>5. c.content \in Seq(Octets)
  BY DEF ChunkSet
<1>6. ChunkType = (IF DataNext(c) THEN DATA ELSE DEBUG) /\ ChunkSize = Len(c.content)
  BY <1>4 DEF Complete, ChunkType
<1>7. ChunkSize <= left - MetaSize
  <2> DEFINE n == Len(c.content)
             k == Len(r)
  <2>1. n \in Nat /\ k \in Nat /\ left = MetaSize + n + k
    BY <1>4, <1>5
  <2> HIDE DEF n, k
  <2>2. n <= left - MetaSize
    BY <1>2, <2>1
  <2> QED BY <1>6, <2>2 DEF n
<1>8. r = <<>> => c.content # <<>>
  <2> SUFFICES ASSUME r = <<>>, c.content = <<>> PROVE FALSE
    OBVIOUS
  <2>1. Len(r) = 0 /\ Len(c.content) = 0
    OBVIOUS
  <2> QED BY <1>2, <1>4, <2>1
<1>9. ChunkType = DATA => DataNext(c) /\ ~hasData(msg)
  BY <1>6, DataOrNone DEF DATA, DEBUG, DataNext, hasData
<1>10. ChunkValid
  BY <1>6, <1>7, <1>9 DEF ChunkValid
<1>11. /\ step' = "chunks"
       /\ msg' = IF ChunkType = DATA THEN [msg EXCEPT !.data = c]
                 ELSE [msg EXCEPT !.debug = Append(@, c)]
  BY <1>2, <1>4, <1>10 DEF ParseChunk
<1>12. msg.version = sent.version /\ msg.envelope = sent.envelope
  BY <1>2 DEF ReadInv
<1>13. CASE DataNext(c)
  <2>1. msg' = [msg EXCEPT !.data = c]
    BY <1>6, <1>11, <1>13
  <2>2. /\ msg'.version = sent.version /\ msg'.envelope = sent.envelope
        /\ msg'.data = sent.data /\ msg'.debug = <<>>
    BY <1>1, <1>12, <1>13, <2>1 DEF Messages, DataNext
  <2>3. /\ Len(msg'.debug) <= Len(sent.debug)
        /\ msg'.debug = SubSeq(sent.debug, 1, Len(msg'.debug))
    <3>1. sent.debug \in Seq(ChunkSet)
      BY <1>1 DEF Messages
    <3> DEFINE l == sent.debug
    <3>2. 0 <= Len(l) /\ SubSeq(l, 1, 0) = <<>> /\ Len(<<>>) = 0
      BY <3>1
    <3> QED BY <2>2, <3>2
  <2>4. ASSUME sent.debug = <<>> PROVE Last(Chunks(sent)).content # <<>>
    <3>1. hasData(sent) /\ c = sent.data
      BY <1>13 DEF DataNext
    <3>2. Last(Chunks(sent)) = c
      BY <1>1, <2>4, <3>1, ChunksOf
    <3>3. r = <<>>
      <4>1. DebugNext(c) => Len(sent.debug) # 0
        <5>1. msg.debug \in Seq(ChunkSet) /\ sent.debug \in Seq(ChunkSet)
          BY <1>1 DEF Messages
        <5> QED BY <5>1 DEF DebugNext
      <4> QED BY <1>4, <2>4, <4>1 DEF IsNext
    <3> QED BY <1>8, <3>2, <3>3
  <2> QED BY <1>11, <2>2, <2>3, <2>4 DEF ReadOf
<1>14. CASE ~DataNext(c)
  <2> DEFINE l == sent.debug
             k == Len(msg.debug)
             t == Append(msg.debug, c)
  <2>1. DebugNext(c) /\ (r = <<>> <=> Len(l) = k + 1)
    BY <1>4, <1>14 DEF IsNext
  <2>2. l \in Seq(ChunkSet) /\ msg.debug \in Seq(ChunkSet)
    BY <1>1 DEF Messages
  <2>3. /\ msg.data = sent.data /\ k < Len(l) /\ msg.debug = SubSeq(l, 1, k)
        /\ c = l[k + 1]
    BY <2>1 DEF DebugNext
  <2>4. k \in 0 .. Len(l) - 1 /\ Len(l) \in Nat
    BY <2>2, <2>3
  <2>5. msg' = [msg EXCEPT !.debug = t]
    BY <1>6, <1>11, <1>14 DEF DATA, DEBUG
  <2>6. Len(t) = k + 1
    BY <2>2
  <2> HIDE DEF l, k, t
  <2>7. t = SubSeq(l, 1, k + 1)
    BY <2>2, <2>3, <2>4, PartNext DEF t
  <2>8. /\ msg'.version = sent.version /\ msg'.envelope = sent.envelope
        /\ msg'.data = sent.data /\ msg'.debug = t
    BY <1>1, <1>12, <2>3, <2>5 DEF Messages
  <2>9. ASSUME t = l PROVE Last(Chunks(sent)).content # <<>>
    <3>1. Len(l) = k + 1
      BY <2>6, <2>9
    <3>2. l # <<>>
      <4>1. Len(<<>>) = 0
        OBVIOUS
      <4> QED BY <2>4, <3>1, <4>1
    <3>3. Last(Chunks(sent)) = c
      BY <1>1, <2>3, <3>1, <3>2, ChunksOf DEF l
    <3> QED BY <1>8, <2>1, <3>1, <3>3 DEF l, k
  <2>10. k + 1 <= Len(l)
    BY <2>4
  <2> QED BY <1>11, <2>6, <2>7, <2>8, <2>9, <2>10 DEF ReadOf, l
<1> QED BY <1>13, <1>14

\* So every step keeps what was read right.
LEMMA ReadNext ==
    ASSUME WireTypeOK, ParseInv, SentInv, ReadInv, WireStep PROVE ReadInv'
<1>1. ASSUME step' \in {"idle", "built"} PROVE ReadInv'
  BY <1>1 DEF ReadInv
<1>2. CASE \/ \E e \in ChunkSet, c \in ChunkSet : Construct(e, c)
           \/ \E c \in ChunkSet : setDataChunk(c) \/ addDebugChunk(c)
           \/ Forget
  <2>1. step' \in {"idle", "built"}
    BY <1>2 DEF Construct, setDataChunk, addDebugChunk, Forget
  <2> QED BY <1>1, <2>1
<1>3. CASE Send
  <2>1. step' = "header" /\ sent' = sent /\ buffer' = getSerialized(sent)
    BY <1>3 DEF Send
  <2>2. getSerialized(sent)' = getSerialized(sent)
    BY <2>1 DEF getSerialized, hasData
  <2> QED BY <2>1, <2>2 DEF ReadInv
<1>4. CASE Damage
  BY <1>4 DEF Damage, ReadInv
<1>5. CASE Parse /\ damaged
  BY <1>5 DEF Parse, ParseHeader, ParseChunk, ParseEnds, ReadInv
<1>6. CASE Parse /\ ~damaged
  <2>1. sent' = sent /\ buffer' = buffer /\ damaged' = damaged
        /\ step \in {"header", "chunks"}
    BY <1>6 DEF Parse, ParseHeader, ParseChunk, ParseEnds
  <2>2. buffer = getSerialized(sent)
    BY <1>6, <2>1 DEF ReadInv
  <2>3. step' \in {"chunks", "parsed"} /\ ReadOf(msg', sent)
    <3>1. CASE ParseHeader
      BY <1>6, <3>1, HeaderNext
    <3>2. CASE ParseChunk
      BY <1>6, <3>2, ChunkNext
    <3>3. CASE ParseEnds
      <4>1. step = "chunks" /\ step' = "parsed" /\ msg' = msg
        BY <3>3 DEF ParseEnds
      <4>2. ReadOf(msg, sent)
        BY <1>6, <4>1 DEF ReadInv, ReadOf
      <4> QED BY <4>1, <4>2
    <3> QED BY <1>6, <3>1, <3>2, <3>3 DEF Parse
  <2> QED BY <2>1, <2>2, <2>3 DEF ReadInv, ReadOf
<1>7. CASE UNCHANGED wireVars
  <2>1. UNCHANGED <<sent, buffer, damaged, msg, step>>
    BY <1>7 DEF wireVars
  <2> QED BY <2>1 DEF ReadInv
<1> QED BY <1>2, <1>3, <1>4, <1>5, <1>6, <1>7 DEF WireStep

\* A message that was read to the end is what should arrive.
LEMMA ReadRight ==
    ASSUME WireTypeOK, ParseInv, SentInv, ReadInv PROVE RoundTrip
<1> SUFFICES ASSUME ~damaged, step = "parsed" PROVE msg = Survives(sent)
  BY DEF ReadInv, RoundTrip
<1>1. sent \in Messages /\ msg \in Messages /\ left \in Nat
  BY DEF WireTypeOK, Messages
<1>2. msg.version = sent.version /\ msg.envelope = sent.envelope /\ left <= MetaSize
      /\ MetaSize \in Nat
  BY Sizes DEF ReadInv, ParseInv
<1> DEFINE cs == Chunks(sent)
           d == sent.data
           l == sent.debug
           kept == IF cs # <<>> /\ Last(cs).content = <<>> THEN Front(cs) ELSE cs
           x == IF hasData(sent) /\ kept # <<>> THEN d ELSE NoChunk
           y == IF hasData(sent)
                THEN IF kept = <<>> THEN <<>> ELSE Tail(kept)
                ELSE kept
<1>3. cs = IF hasData(sent) THEN <<d>> \o l ELSE l
  BY <1>1, ChunksOf
<1>4. d \in ChunkSet /\ l \in Seq(ChunkSet) /\ msg.debug \in Seq(ChunkSet)
  BY <1>1 DEF Messages
<1>5. ~hasData(sent) => d = NoChunk
  BY DEF SentInv
<1>6. Survives(sent) = [sent EXCEPT !.data = x, !.debug = y]
  BY DEF Survives
<1> HIDE DEF cs, d, l
<1>7. /\ <<d>> \o l # <<>> /\ Tail(<<d>> \o l) = l
  BY <1>4, FirstAndLast
<1>8. CASE msg.data = d /\ msg.debug = l
  <2>1. cs # <<>> => Last(cs).content # <<>>
    BY <1>8 DEF ReadInv, cs, d, l
  <2>2. kept = cs
    BY <2>1
  <2> HIDE DEF kept
  <2>3. x = d /\ y = l
    BY <1>3, <1>5, <1>7, <2>2
  <2> HIDE DEF x, y
  <2> QED BY <1>1, <1>2, <1>6, <1>8, <2>3 DEF Messages, d, l
<1>9. CASE ~(msg.data = d /\ msg.debug = l)
  <2>1. PICK c \in ChunkSet, r \in Seq(Octets) :
           IsNext(c, r) /\ left = MetaSize + Len(c.content) + Len(r)
    BY <1>9, NextRead DEF d, l
  <2>2. c.content = <<>> /\ r = <<>>
    <3>1. c.content \in Seq(Octets)
      BY DEF ChunkSet
    <3> DEFINE n == Len(c.content)
               k == Len(r)
    <3>2. n \in Nat /\ k \in Nat /\ left = MetaSize + n + k
      BY <2>1, <3>1
    <3>3. n = 0 /\ k = 0
      <4> HIDE DEF n, k
      <4> QED BY <1>2, <3>2
    <3> QED BY <3>1, <3>3
  <2>3. CASE DataNext(c) /\ sent.debug = <<>>
    <3>1. hasData(sent) /\ msg.data = NoChunk /\ msg.debug = <<>> /\ c = d /\ l = <<>>
      BY <2>3 DEF DataNext, d, l
    <3>2. Last(cs) = d
      BY <1>1, <3>1, ChunksOf DEF cs, d, l
    <3>3. Front(cs) = <<>>
      <4>1. cs = Append(<<>>, d)
        BY <1>3, <1>4, <3>1
      <4>2. <<>> \in Seq(ChunkSet)
        OBVIOUS
      <4>3. Front(Append(<<>>, d)) = <<>>
        BY <1>4, <4>2, FirstAndLast
      <4> QED BY <4>1, <4>3
    <3>4. cs # <<>>
      BY <1>3, <1>7, <3>1
    <3>5. kept = <<>>
      BY <2>2, <3>1, <3>2, <3>3, <3>4
    <3> HIDE DEF kept
    <3>6. x = msg.data /\ y = msg.debug
      BY <3>1, <3>5
    <3> HIDE DEF x, y
    <3> QED BY <1>1, <1>2, <1>6, <3>6 DEF Messages
  <2>4. CASE DebugNext(c) /\ Len(sent.debug) = Len(msg.debug) + 1
    <3> DEFINE k == Len(msg.debug)
               t == msg.debug
    <3>1. msg.data = d /\ k < Len(l) /\ t = SubSeq(l, 1, k) /\ c = l[k + 1]
          /\ Len(l) = k + 1
      BY <2>4 DEF DebugNext, d, l
    <3>2. t \in Seq(ChunkSet) /\ k \in Nat
      BY <1>4
    <3> HIDE DEF k, t
    <3>3. l = Append(t, c)
      <4>1. k \in 0 .. Len(l) - 1
        BY <3>1, <3>2
      <4>2. SubSeq(l, 1, k + 1) = Append(SubSeq(l, 1, k), l[k + 1])
        BY <1>4, <4>1, PartNext
      <4>3. SubSeq(l, 1, Len(l)) = l
        BY <1>4, SubSeqFull
      <4> QED BY <3>1, <4>2, <4>3
    <3>4. l # <<>> /\ Last(l) = c /\ Front(l) = t
      BY <3>2, <3>3, FirstAndLast
    <3>5. CASE hasData(sent)
      <4> DEFINE u == <<d>> \o t
      <4>1. u \in Seq(ChunkSet) /\ u # <<>> /\ Tail(u) = t
        BY <1>4, <3>2, FirstAndLast
      <4>2. cs = Append(u, c)
        <5>1. <<d>> \o Append(t, c) = Append(<<d>> \o t, c)
          BY <1>4, <3>2
        <5> QED BY <1>3, <3>3, <3>5, <5>1
      <4> HIDE DEF u
      <4>3. cs # <<>> /\ Last(cs) = c /\ Front(cs) = u
        BY <4>1, <4>2, FirstAndLast
      <4>4. kept = u
        BY <2>2, <4>3
      <4> HIDE DEF kept
      <4>5. x = msg.data /\ y = msg.debug
        BY <3>1, <3>5, <4>1, <4>4 DEF t
      <4> HIDE DEF x, y
      <4> QED BY <1>1, <1>2, <1>6, <4>5 DEF Messages
    <3>6. CASE ~hasData(sent)
      <4>1. cs = l
        BY <1>3, <3>6
      <4>2. kept = t
        BY <2>2, <3>4, <4>1
      <4> HIDE DEF kept
      <4>3. x = msg.data /\ y = msg.debug
        BY <1>5, <3>1, <3>6, <4>2 DEF t
      <4> HIDE DEF x, y
      <4> QED BY <1>1, <1>2, <1>6, <4>3 DEF Messages
    <3> QED BY <3>5, <3>6
  <2> QED BY <2>1, <2>2, <2>3, <2>4 DEF IsNext
<1> QED BY <1>8, <1>9

=============================================================================
