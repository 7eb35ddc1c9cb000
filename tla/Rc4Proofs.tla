------------------------------ MODULE Rc4Proofs ------------------------------
(***************************************************************************)
(* What the recursive functions of Rc4Box compute, for any width of a      *)
(* byte: Xor undoes itself, the scheduled key is a table of bytes, and a   *)
(* step of the generator keeps the box a box.                              *)
(*                                                                         *)
(* The provers cannot use an induction theorem over a predicate.  Over a   *)
(* set they can: NatSetInduction is induction over the naturals in that    *)
(* form, Recursion says that a function given step by step exists.         *)
(***************************************************************************)
EXTENDS Rc4Box, WellFoundedInduction, TLAPS

\* A set with 0, and with n + 1 whenever it has n, has every natural number.
LEMMA NatSetInduction ==
    ASSUME NEW T, 0 \in T, \A n \in Nat : n \in T => n + 1 \in T
    PROVE  Nat \subseteq T
  <1> SUFFICES ASSUME Nat \ T # {}
               PROVE  FALSE
    OBVIOUS
  <1>1. PICK m \in Nat \ T : \A k \in Nat \ T : ~(<<k, m>> \in OpToRel(<, Nat))
    <2>1. IsWellFoundedOn(OpToRel(<, Nat), Nat)
      BY NatLessThanWellFounded
    <2>2. PICK R : R = OpToRel(<, Nat)
      OBVIOUS
    <2>3. IsWellFoundedOn(R, Nat)
      BY <2>1, <2>2
    <2>4. \E m \in Nat \ T : \A k \in Nat \ T : ~(<<k, m>> \in R)
      BY <2>3, WFMin
    <2>5. QED
      BY <2>2, <2>4
  <1>2. \A k \in Nat \ T : ~(k < m)
    BY <1>1 DEF OpToRel
  <1>3. m # 0 /\ m - 1 \in Nat
    OBVIOUS
  <1>4. QED
    BY <1>2, <1>3

\* f goes from first by step, N times, through X.
Goes(f, N, X, first, step) ==
    /\ f \in [0 .. N -> X]
    /\ f[0] = first
    /\ \A k \in 1 .. N : f[k] = step[k][f[k - 1]]

\* For a first value and a step there is such a function.
LEMMA Recursion ==
    ASSUME NEW X, NEW first \in X, NEW step \in [Nat -> [X -> X]], NEW N \in Nat
    PROVE  \E f : Goes(f, N, X, first, step)
  <1> DEFINE T == {n \in Nat : \E f : Goes(f, n, X, first, step)}
  <1> USE DEF Goes
  <1>1. 0 \in T
    <2>1. PICK f : f = [k \in 0 .. 0 |-> first]
      OBVIOUS
    <2>2. Goes(f, 0, X, first, step)
      BY <2>1
    <2>3. QED
      BY <2>2
  <1>2. ASSUME NEW n \in Nat, n \in T
        PROVE  n + 1 \in T
    <2>1. PICK f : Goes(f, n, X, first, step)
      BY <1>2
    <2>2. PICK h : h = [k \in 0 .. n + 1 |-> IF k = n + 1 THEN step[k][f[n]] ELSE f[k]]
      OBVIOUS
    <2>3. h \in [0 .. n + 1 -> X]
      BY <2>1, <2>2
    <2>4. h[0] = first
      BY <2>1, <2>2
    <2>5. ASSUME NEW k \in 1 .. n + 1
          PROVE  h[k] = step[k][h[k - 1]]
      <3>1. CASE k = n + 1
        BY <2>2, <3>1
      <3>2. CASE k \in 1 .. n
        BY <2>1, <2>2, <3>2
      <3>3. QED
        BY <3>1, <3>2
    <2>6. Goes(h, n + 1, X, first, step)
      BY <2>3, <2>4, <2>5
    <2>7. QED
      BY <2>6
  <1> HIDE DEF T
  <1>3. Nat \subseteq T
    BY <1>1, <1>2, NatSetInduction
  <1>4. N \in T
    BY <1>3
  <1>5. QED
    BY <1>4 DEF T

\* One step of it.
LEMMA GoesOn ==
    ASSUME NEW X, NEW first, NEW step, NEW N \in Nat, NEW f,
           Goes(f, N, X, first, step), NEW k \in 1 .. N
    PROVE  k \in Nat /\ f[k - 1] \in X /\ f[k] = step[k][f[k - 1]]
  BY DEF Goes

\* What holds at the start of such a function and is kept by its steps holds throughout.
LEMMA RecursionType ==
    ASSUME NEW X, NEW N \in Nat, NEW f, f = [k \in 0 .. N |-> f[k]], f[0] \in X,
           \A k \in 1 .. N : f[k - 1] \in X => f[k] \in X
    PROVE  f \in [0 .. N -> X]
  <1> DEFINE T == {n \in Nat : n <= N => f[n] \in X}
  <1>1. 0 \in T
    OBVIOUS
  <1>2. ASSUME NEW n \in Nat, n \in T
        PROVE  n + 1 \in T
    <2>1. CASE n + 1 <= N
      <3>1. n + 1 \in 1 .. N /\ (n + 1) - 1 = n /\ f[n] \in X
        BY <1>2, <2>1
      <3>2. f[n + 1] \in X
        BY <3>1
      <3>3. QED
        BY <3>2
    <2>2. QED
      BY <2>1
  <1> HIDE DEF T
  <1>3. Nat \subseteq T
    BY <1>1, <1>2, NatSetInduction
  <1>4. \A n \in 0 .. N : f[n] \in X
    BY <1>3 DEF T
  <1>5. QED
    BY <1>4

-----------------------------------------------------------------------------
\* The powers of two are what their definition says.
LEMMA Power2Def ==
    ASSUME Width \in Nat
    PROVE  Power2 = [n \in 0 .. Width |-> IF n = 0 THEN 1 ELSE 2 * Power2[n - 1]]
  <1>1. PICK step : step = [k \in Nat |-> [x \in Nat |-> 2 * x]]
    OBVIOUS
  <1>2. step \in [Nat -> [Nat -> Nat]]
    BY <1>1
  <1>3. PICK one \in Nat : one = 1
    OBVIOUS
  <1>4. PICK f : Goes(f, Width, Nat, one, step)
    BY <1>2, Recursion
  <1>5. ASSUME NEW k \in 1 .. Width
        PROVE  f[k] = 2 * f[k - 1]
    <2>1. k \in Nat /\ f[k - 1] \in Nat /\ f[k] = step[k][f[k - 1]]
      BY <1>4, GoesOn
    <2>2. QED
      BY <1>1, <2>1
  <1>6. f = [n \in 0 .. Width |-> IF n = 0 THEN 1 ELSE 2 * f[n - 1]]
    BY <1>3, <1>4, <1>5 DEF Goes
  <1>7. QED
    BY <1>6, Zenon DEF Power2

\* One bit more is twice as many values.
LEMMA Power2Step ==
    ASSUME Width \in Nat, NEW n \in Nat, n + 1 <= Width
    PROVE  Power2[n + 1] = 2 * Power2[n]
  <1>1. n + 1 \in 0 .. Width /\ n + 1 # 0 /\ (n + 1) - 1 = n
    OBVIOUS
  <1>2. \A k \in 0 .. Width : Power2[k] = IF k = 0 THEN 1 ELSE 2 * Power2[k - 1]
    BY Power2Def, Zenon
  <1>3. QED
    BY <1>1, <1>2

\* A byte has at least two values per bit.
LEMMA Power2Type ==
    ASSUME Width \in Nat
    PROVE  /\ Power2 \in [0 .. Width -> Nat \ {0}]
           /\ Width >= 3 => Power2[Width] >= 8
  <1>1. Power2[0] = 1 /\ \A k \in 1 .. Width : Power2[k] = 2 * Power2[k - 1]
    <2>1. \A k \in 0 .. Width : Power2[k] = IF k = 0 THEN 1 ELSE 2 * Power2[k - 1]
      BY Power2Def, Zenon
    <2>2. QED
      BY <2>1
  <1>2. Power2 = [k \in 0 .. Width |-> Power2[k]]
    BY Power2Def
  <1>3. \A k \in 1 .. Width : Power2[k - 1] \in Nat \ {0} => Power2[k] \in Nat \ {0}
    BY <1>1
  <1>4. Power2 \in [0 .. Width -> Nat \ {0}]
    <2>1. PICK X : X = Nat \ {0}
      OBVIOUS
    <2>2. Power2[0] \in X
      BY <1>1, <2>1
    <2>3. QED
      BY <1>2, <1>3, <2>1, <2>2, RecursionType
  <1>5. ASSUME Width >= 3
        PROVE  Power2[Width] >= 8
    <2> DEFINE Y == {x \in Nat : x >= 8}
    <2>1. Power2[3] = 8
      <3>1. Power2[1] = 2 * Power2[1 - 1] /\ Power2[2] = 2 * Power2[2 - 1]
            /\ Power2[3] = 2 * Power2[3 - 1]
        BY <1>1, <1>5
      <3>2. QED
        BY <1>1, <3>1
    <2> DEFINE T == {n \in Nat : n + 3 <= Width => Power2[n + 3] >= 8}
    <2>2. 0 \in T
      BY <2>1
    <2>3. ASSUME NEW n \in Nat, n \in T
          PROVE  n + 1 \in T
      <3>1. CASE n + 4 <= Width
        <4>1. Power2[n + 4] = 2 * Power2[n + 3]
          <5>1. n + 4 \in 1 .. Width /\ (n + 4) - 1 = n + 3
            BY <3>1
          <5>2. QED
            BY <1>1, <5>1
        <4>2. Power2[n + 3] \in Nat /\ Power2[n + 3] >= 8
          BY <1>4, <2>3, <3>1
        <4>3. Power2[n + 4] >= 8
          BY <4>1, <4>2
        <4>4. (n + 1) + 3 = n + 4
          OBVIOUS
        <4>5. QED
          BY <4>3, <4>4
      <3>2. QED
        BY <3>1
    <2> HIDE DEF T
    <2>4. Nat \subseteq T
      BY <2>2, <2>3, NatSetInduction
    <2>5. Width - 3 \in T /\ (Width - 3) + 3 = Width
      BY <1>5, <2>4
    <2>6. QED
      BY <2>5 DEF T
  <1>6. QED
    BY <1>4, <1>5

\* The powers grow.
LEMMA Power2Grows ==
    ASSUME Width \in Nat, NEW n \in 0 .. Width
    PROVE  Power2[n] <= CharsInByte
  <1> DEFINE T == {w \in Nat : w <= Width => \A m \in 0 .. w : Power2[m] <= Power2[w]}
  <1>1. 0 \in T
    <2>1. Power2[0] \in Nat
      BY Power2Type
    <2>2. QED
      BY <2>1
  <1>2. ASSUME NEW w \in Nat, w \in T
        PROVE  w + 1 \in T
    <2>1. CASE w + 1 <= Width
      <3>1. Power2[w + 1] = 2 * Power2[w]
        BY <2>1, Power2Step
      <3>2. \A m \in 0 .. w + 1 : Power2[m] \in Nat
        BY <2>1, Power2Type
      <3>3. \A m \in 0 .. w : Power2[m] <= Power2[w]
        BY <1>2, <2>1
      <3>4. \A m \in 0 .. w + 1 : Power2[m] <= Power2[w + 1]
        BY <3>1, <3>2, <3>3
      <3>5. QED
        BY <3>4
    <2>2. QED
      BY <2>1
  <1> HIDE DEF T
  <1>3. Nat \subseteq T
    BY <1>1, <1>2, NatSetInduction
  <1>4. \A m \in 0 .. Width : Power2[m] <= Power2[Width]
    BY <1>3 DEF T
  <1>5. QED
    BY <1>4 DEF CharsInByte

\* Bytes are natural numbers, and 0 is one.
LEMMA BytesType ==
    ASSUME Width \in Nat
    PROVE  CharsInByte \in Nat \ {0} /\ Bytes \subseteq Nat /\ 0 \in Bytes
  BY Power2Type DEF CharsInByte, Bytes

-----------------------------------------------------------------------------
\* Exclusive or is what its definition says.
LEMMA XorBitsDef ==
    ASSUME Width \in Nat
    PROVE  /\ \A a, b \in Bytes : XorBits[0][a][b] = 0
           /\ \A n \in 1 .. Width : \A a, b \in Bytes :
                 XorBits[n][a][b] = 2 * XorBits[n - 1][a \div 2][b \div 2] + ((a + b) % 2)
  <1> DEFINE X == [Bytes -> [Bytes -> Nat]]
  <1>1. \A a \in Bytes : a \in Nat /\ a \div 2 \in Bytes
    BY BytesType DEF Bytes
  <1>2. PICK step : step = [k \in Nat |-> [g \in X |-> [a \in Bytes |-> [b \in Bytes |->
                              2 * g[a \div 2][b \div 2] + ((a + b) % 2)]]]]
    OBVIOUS
  <1>3. step \in [Nat -> [X -> X]]
    BY <1>1, <1>2
  <1>4. PICK first : first = [a \in Bytes |-> [b \in Bytes |-> 0]]
    OBVIOUS
  <1>5. first \in X
    BY <1>4
  <1>6. PICK f : Goes(f, Width, X, first, step)
    BY <1>3, <1>5, Recursion
  <1>7. ASSUME NEW k \in 1 .. Width
        PROVE  f[k] = [a \in Bytes |-> [b \in Bytes |->
                         2 * f[k - 1][a \div 2][b \div 2] + ((a + b) % 2)]]
    <2>1. f[k] = step[k][f[k - 1]] /\ k \in Nat /\ f[k - 1] \in X
      <3>1. PICK Y : Y = X
        OBVIOUS
      <3>2. Goes(f, Width, Y, first, step)
        BY <1>6, <3>1
      <3>3. k \in Nat /\ f[k - 1] \in Y /\ f[k] = step[k][f[k - 1]]
        BY <3>2, GoesOn
      <3>4. QED
        BY <3>1, <3>3
    <2>2. QED
      BY <1>2, <2>1
  <1>8. f = [n \in 0 .. Width |->
                [a \in Bytes |-> [b \in Bytes |->
                   IF n = 0 THEN 0
                   ELSE 2 * f[n - 1][a \div 2][b \div 2] + ((a + b) % 2)]]]
    <2> DEFINE rhs == [n \in 0 .. Width |->
                [a \in Bytes |-> [b \in Bytes |->
                   IF n = 0 THEN 0
                   ELSE 2 * f[n - 1][a \div 2][b \div 2] + ((a + b) % 2)]]]
    <2>1. ASSUME NEW n \in 0 .. Width
          PROVE  f[n] = rhs[n]
      <3>1. CASE n = 0
        BY <1>4, <1>6, <3>1 DEF Goes
      <3>2. CASE n # 0
        BY <1>7, <3>2
      <3>3. QED
        BY <3>1, <3>2
    <2>2. QED
      BY <1>6, <2>1 DEF Goes
  <1>9. XorBits = [n \in 0 .. Width |->
                     [a \in Bytes |-> [b \in Bytes |->
                        IF n = 0 THEN 0
                        ELSE 2 * XorBits[n - 1][a \div 2][b \div 2] + ((a + b) % 2)]]]
    BY <1>8, Zenon DEF XorBits
  <1>10. \A n \in 0 .. Width : XorBits[n] =
            [a \in Bytes |-> [b \in Bytes |-> IF n = 0 THEN 0
                                ELSE 2 * XorBits[n - 1][a \div 2][b \div 2] + ((a + b) % 2)]]
    BY <1>9, Zenon
  <1>11. ASSUME NEW n \in 0 .. Width, NEW u \in Bytes, NEW v \in Bytes
         PROVE  XorBits[n][u][v] =
                   IF n = 0 THEN 0
                   ELSE 2 * XorBits[n - 1][u \div 2][v \div 2] + ((u + v) % 2)
    <2>1. PICK low : low = XorBits[n - 1]
      OBVIOUS
    <2>2. XorBits[n] = [a \in Bytes |-> [b \in Bytes |->
             IF n = 0 THEN 0 ELSE 2 * low[a \div 2][b \div 2] + ((a + b) % 2)]]
      BY <1>10, <2>1, Zenon
    <2>3. XorBits[n][u] = [b \in Bytes |->
             IF n = 0 THEN 0 ELSE 2 * low[u \div 2][b \div 2] + ((u + b) % 2)]
      BY <2>2
    <2>4. QED
      BY <2>1, <2>3, Zenon
  <1>12. 0 \in 0 .. Width /\ \A n \in 1 .. Width : n \in 0 .. Width /\ n # 0
    OBVIOUS
  <1>13. QED
    BY <1>11, <1>12, Zenon

\* Exclusive or of two bytes is a byte, and undoes itself.
LEMMA XorUndoes ==
    ASSUME Width \in Nat, NEW a \in Bytes, NEW b \in Bytes
    PROVE  Xor(a, b) \in Bytes /\ Xor(Xor(a, b), b) = a
  <1> DEFINE T == {n \in Nat : n <= Width =>
                      \A x, y \in Bytes :
                         /\ XorBits[n][x][y] \in Nat
                         /\ XorBits[n][x][y] < Power2[n]
                         /\ x < Power2[n] => XorBits[n][XorBits[n][x][y]][y] = x}
  <1>1. 0 \in T
    <2>1. Power2[0] = 1
      BY Power2Def
    <2>2. QED
      BY <2>1, XorBitsDef, BytesType
  <1>2. ASSUME NEW n \in Nat, n \in T
        PROVE  n + 1 \in T
    <2> SUFFICES ASSUME n + 1 <= Width, NEW x \in Bytes, NEW y \in Bytes
                 PROVE  /\ XorBits[n + 1][x][y] \in Nat
                        /\ XorBits[n + 1][x][y] < Power2[n + 1]
                        /\ x < Power2[n + 1] =>
                              XorBits[n + 1][XorBits[n + 1][x][y]][y] = x
      OBVIOUS
    <2>1. n + 1 \in 1 .. Width /\ (n + 1) - 1 = n /\ n \in 0 .. Width
      OBVIOUS
    <2>2. /\ Power2[n + 1] = 2 * Power2[n]
          /\ Power2[n] \in Nat /\ Power2[n + 1] \in Nat
      BY <2>1, Power2Step, Power2Type
    <2>3. \A u \in Bytes : u \in Nat /\ u \div 2 \in Bytes
      BY BytesType DEF Bytes
    <2>4. \A u, v \in Bytes :
             XorBits[n + 1][u][v] = 2 * XorBits[n][u \div 2][v \div 2] + ((u + v) % 2)
      BY <2>1, XorBitsDef
    <2>5. PICK h : h = XorBits[n][x \div 2][y \div 2]
      OBVIOUS
    <2>6. h \in Nat /\ h < Power2[n]
          /\ (x \div 2 < Power2[n] => XorBits[n][h][y \div 2] = x \div 2)
      BY <1>2, <2>3, <2>5
    <2>7. PICK z : z = XorBits[n + 1][x][y]
      OBVIOUS
    <2>8. z = 2 * h + ((x + y) % 2)
      BY <2>4, <2>5, <2>7
    <2>9. z \in Nat /\ z < Power2[n + 1] /\ z \div 2 = h
      <3>1. (x + y) % 2 \in 0 .. 1
        <4>1. x \in Nat /\ y \in Nat
          BY <2>3
        <4>2. QED
          BY <4>1
      <3>2. PICK r \in 0 .. 1 : r = (x + y) % 2
        BY <3>1
      <3>3. z = 2 * h + r
        BY <2>8, <3>2
      <3>4. QED
        BY <2>2, <2>6, <3>3
    <2>10. z \in Bytes
      <3>1. Power2[n + 1] <= CharsInByte
        BY <2>1, Power2Grows
      <3>2. QED
        BY <2>2, <2>9, <3>1, BytesType DEF Bytes
    <2>11. ASSUME x < Power2[n + 1]
           PROVE  XorBits[n + 1][z][y] = x
      <3>1. x \div 2 < Power2[n]
        BY <2>2, <2>3, <2>11
      <3>2. XorBits[n + 1][z][y] = 2 * (x \div 2) + ((z + y) % 2)
        BY <2>4, <2>6, <2>9, <2>10, <3>1
      <3>3. (z + y) % 2 = x % 2
        BY <2>3, <2>6, <2>8
      <3>4. QED
        BY <2>3, <3>2, <3>3
    <2>12. QED
      BY <2>7, <2>9, <2>11
  <1> HIDE DEF T
  <1>3. Nat \subseteq T
    BY <1>1, <1>2, NatSetInduction
  <1>4. /\ XorBits[Width][a][b] \in Nat
        /\ XorBits[Width][a][b] < Power2[Width]
        /\ a < Power2[Width] => XorBits[Width][XorBits[Width][a][b]][b] = a
    BY <1>3 DEF T
  <1>5. QED
    BY <1>4, BytesType DEF Xor, Bytes, CharsInByte

-----------------------------------------------------------------------------
Boxes == [S : [Bytes -> Bytes], i : Bytes, j : Bytes]

\* A remainder by the number of bytes is a byte.
LEMMA ByteOf ==
    ASSUME Width \in Nat, NEW x \in Nat
    PROVE  x % CharsInByte \in Bytes
  <1>1. PICK c \in Nat \ {0} : c = CharsInByte
    BY BytesType
  <1>2. x % c \in 0 .. c - 1
    OBVIOUS
  <1>3. QED
    BY <1>1, <1>2 DEF Bytes

\* A table with two entries exchanged is a table.
LEMMA SwapType ==
    ASSUME NEW S \in [Bytes -> Bytes], NEW i \in Bytes, NEW j \in Bytes
    PROVE  Swap(S, i, j) \in [Bytes -> Bytes]
  BY DEF Swap

\* The generator keeps a box a box, and its words are bytes.
LEMMA GeneratorType ==
    ASSUME Width \in Nat, NEW box \in Boxes
    PROVE  PRGA(box) \in Boxes /\ Word(box) \in Bytes
  <1>1. box.S \in [Bytes -> Bytes] /\ box.i \in Bytes /\ box.j \in Bytes
    BY DEF Boxes
  <1>2. \A x \in Bytes : x \in Nat /\ box.S[x] \in Bytes /\ box.S[x] \in Nat
    BY <1>1, BytesType
  <1>3. PICK i : i = (box.i + 1) % CharsInByte
    OBVIOUS
  <1>4. i \in Bytes
    <2>1. box.i + 1 \in Nat
      BY <1>1, <1>2
    <2>2. QED
      BY <1>3, <2>1, ByteOf
  <1>5. PICK j : j = (box.j + box.S[i]) % CharsInByte
    OBVIOUS
  <1>6. j \in Bytes
    <2>1. box.j + box.S[i] \in Nat
      BY <1>1, <1>2, <1>4
    <2>2. QED
      BY <1>5, <2>1, ByteOf
  <1>7. PRGA(box) = [S |-> Swap(box.S, i, j), i |-> i, j |-> j]
    BY <1>3, <1>5 DEF PRGA
  <1>8. PRGA(box) \in Boxes
    BY <1>1, <1>4, <1>6, <1>7, SwapType DEF Boxes
  <1>9. box.S[box.i] + box.S[box.j] \in Nat
    BY <1>1, <1>2
  <1>10. (box.S[box.i] + box.S[box.j]) % CharsInByte \in Bytes
    BY <1>9, ByteOf
  <1>11. Word(box) \in Bytes
    BY <1>2, <1>10 DEF Word
  <1>12. QED
    BY <1>8, <1>11

\* A salted table is a table.
LEMMA SaltedType ==
    ASSUME Width \in Nat, NEW S \in [Bytes -> Bytes], NEW salt \in Seq(Bytes)
    PROVE  UpdatePrivateKey(S, salt) \in [Bytes -> Bytes]
  <1>1. ASSUME NEW x \in Bytes
        PROVE  (IF x < Len(salt) THEN salt[x + 1] ELSE S[x]) \in Bytes
    <2>1. x \in Nat
      BY BytesType
    <2>2. QED
      BY <2>1
  <1>2. QED
    BY <1>1 DEF UpdatePrivateKey

\* The scheduled key is a table.
LEMMA SetKeyType ==
    ASSUME Width \in Nat, NEW key \in Seq(Bytes), key # <<>>
    PROVE  SetKey(key) \in [Bytes -> Bytes]
  <1> DEFINE X == [S : [Bytes -> Bytes], j : Bytes]
             J(x, k) == (x.j + x.S[k - 1] + key[((k - 1) % Len(key)) + 1]) % CharsInByte
             N == CharsInByte
  <1>1. N \in Nat
    BY BytesType
  <1>2. ASSUME NEW x \in X, NEW k \in 1 .. N
        PROVE  [S |-> Swap(x.S, k - 1, J(x, k)), j |-> J(x, k)] \in X
    <2>1. k - 1 \in Bytes /\ k - 1 \in Nat
      BY <1>1 DEF Bytes
    <2>2. x.S \in [Bytes -> Bytes] /\ x.j \in Nat /\ x.S[k - 1] \in Nat
      BY <2>1, BytesType
    <2>3. key[((k - 1) % Len(key)) + 1] \in Nat
      <3>1. PICK l \in Nat \ {0} : l = Len(key)
        OBVIOUS
      <3>2. (k - 1) % l \in 0 .. l - 1
        BY <2>1
      <3>3. ((k - 1) % l) + 1 \in 1 .. Len(key)
        BY <3>1, <3>2
      <3>4. key[((k - 1) % l) + 1] \in Bytes
        BY <3>3
      <3>5. QED
        BY <3>1, <3>4, BytesType
    <2>4. x.j + x.S[k - 1] + key[((k - 1) % Len(key)) + 1] \in Nat
      BY <2>2, <2>3
    <2>5. J(x, k) \in Bytes
      BY <2>4, ByteOf
    <2> HIDE DEF J
    <2>6. QED
      BY <2>1, <2>2, <2>5, SwapType
  <1> HIDE DEF J, X, N
  <1>3. PICK step : step = [k \in Nat |-> [x \in X |->
             IF k \in 1 .. N THEN [S |-> Swap(x.S, k - 1, J(x, k)), j |-> J(x, k)] ELSE x]]
    OBVIOUS
  <1>4. step \in [Nat -> [X -> X]]
    BY <1>2, <1>3
  <1>5. PICK first : first = [S |-> [x \in Bytes |-> x], j |-> 0]
    OBVIOUS
  <1>6. first \in X
    BY <1>5, BytesType DEF X
  <1>7. PICK f : Goes(f, N, X, first, step)
    BY <1>1, <1>4, <1>6, Recursion
  <1>8. ASSUME NEW k \in 1 .. N
        PROVE  f[k] = [S |-> Swap(f[k - 1].S, k - 1, J(f[k - 1], k)), j |-> J(f[k - 1], k)]
    <2>1. f[k] = step[k][f[k - 1]] /\ k \in Nat /\ f[k - 1] \in X
      BY <1>1, <1>7, GoesOn
    <2>2. QED
      BY <1>3, <2>1
  <1> DEFINE ksa[n \in 0 .. CharsInByte] ==
            IF n = 0 THEN [S |-> [x \in Bytes |-> x], j |-> 0]
            ELSE LET i == n - 1
                     last == ksa[i]
                     j == (last.j + last.S[i] + key[(i % Len(key)) + 1]) % CharsInByte
                 IN  [S |-> Swap(last.S, i, j), j |-> j]
  <1>9. f = [n \in 0 .. N |-> IF n = 0 THEN first
                ELSE [S |-> Swap(f[n - 1].S, n - 1, J(f[n - 1], n)), j |-> J(f[n - 1], n)]]
    <2>1. f = [n \in 0 .. N |-> f[n]] /\ f[0] = first
      BY <1>7 DEF Goes
    <2>2. \A n \in 0 .. N : n # 0 => n \in 1 .. N
      BY <1>1
    <2>3. \A n \in 0 .. N : f[n] = IF n = 0 THEN first
             ELSE [S |-> Swap(f[n - 1].S, n - 1, J(f[n - 1], n)), j |-> J(f[n - 1], n)]
      BY <1>8, <2>1, <2>2, Zenon
    <2>4. QED
      BY <2>1, <2>3, Zenon
  <1>10. ksa = [n \in 0 .. N |-> IF n = 0 THEN first
                ELSE [S |-> Swap(ksa[n - 1].S, n - 1, J(ksa[n - 1], n)),
                      j |-> J(ksa[n - 1], n)]]
    BY <1>5, <1>9, ZenonT(60) DEF J, N
  <1> HIDE DEF ksa
  <1>11. ksa \in [0 .. N -> X]
    <2>1. ksa[0] = first /\ \A k \in 1 .. N : ksa[k] =
            [S |-> Swap(ksa[k - 1].S, k - 1, J(ksa[k - 1], k)), j |-> J(ksa[k - 1], k)]
      <3>1. 0 \in 0 .. N /\ \A k \in 1 .. N : k \in 0 .. N /\ k # 0
        BY <1>1
      <3>2. QED
        BY <1>10, <3>1, Zenon
    <2>2. ksa = [k \in 0 .. N |-> ksa[k]]
      BY <1>10, Zenon
    <2>3. \A k \in 1 .. N : ksa[k - 1] \in X => ksa[k] \in X
      BY <1>2, <2>1
    <2>4. QED
      BY <1>1, <1>6, <2>1, <2>2, <2>3, RecursionType
  <1>12. ksa[N].S \in [Bytes -> Bytes]
    BY <1>1, <1>11 DEF X
  <1>13. SetKey(key) = ksa[N].S
    BY DEF SetKey, ksa, N
  <1>14. QED
    BY <1>12, <1>13
=============================================================================
