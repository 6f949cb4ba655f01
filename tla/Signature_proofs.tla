-------------------------- MODULE Signature_proofs --------------------------
(***************************************************************************)
(* Theorems about Signature for every group of prime order, every base and *)
(* width of the bytes and every precision: congruences modulo N, inverses, *)
(* the interpolation of RecoverPrivateKey, the recovery of a key from a    *)
(* signature, the bytes of a number, and the invariant they make up.       *)
(***************************************************************************)
EXTENDS Signature, FiniteSetTheorems, SequenceTheorems, TLAPS

\* a and b are the same number of the group.
Cong(a, b) == \E q \in Int : a = b + N * q

\* The order of the group is a number above 2.
LEMMA Order == N \in Nat /\ N > 2 /\ N \in Int
  BY SignatureAssumption

\* Reducing a number.
LEMMA ModOf ==
    ASSUME NEW a \in Int
    PROVE  Mod(a) \in Scalars /\ Mod(a) \in Int /\ Cong(a, Mod(a))
  <1>1. a % N \in 0..N - 1
    BY Order
  <1>2. a \div N \in Int /\ a = (a % N) + N * (a \div N)
    BY Order
  <1>3. \E q \in Int : a = (a % N) + N * q
    BY <1>2, Zenon
  <1>4. Cong(a, Mod(a))
    BY <1>3, Zenon DEF Cong, Mod
  <1>5. Mod(a) \in Scalars
    BY <1>1, Zenon DEF Mod, Scalars
  <1>6. Mod(a) \in Int
    BY <1>5, Order DEF Scalars
  <1>7. QED
    BY <1>4, <1>5, <1>6

\* To be the same number is an equivalence, and sums and products respect it.
LEMMA CongSym ==
    ASSUME NEW a \in Int, NEW b \in Int, Cong(a, b)
    PROVE  Cong(b, a)
  <1>1. PICK q \in Int : a = b + N * q
    BY DEF Cong
  <1>2. -q \in Int /\ b = a + N * (-q)
    BY <1>1, Order
  <1>3. QED
    BY <1>2 DEF Cong

\* The same number as one that is the same.
LEMMA CongTrans ==
    ASSUME NEW a \in Int, NEW b \in Int, NEW c \in Int, Cong(a, b), Cong(b, c)
    PROVE  Cong(a, c)
  <1>1. PICK q \in Int : a = b + N * q
    BY DEF Cong
  <1>2. PICK p \in Int : b = c + N * p
    BY DEF Cong
  <1>3. q + p \in Int /\ a = c + N * (q + p)
    BY <1>1, <1>2, Order
  <1>4. QED
    BY <1>3 DEF Cong

\* Sums of the same numbers.
LEMMA CongAdd ==
    ASSUME NEW a \in Int, NEW b \in Int, NEW c \in Int, NEW e \in Int,
           Cong(a, b), Cong(c, e)
    PROVE  Cong(a + c, b + e)
  <1>1. PICK q \in Int : a = b + N * q
    BY DEF Cong
  <1>2. PICK p \in Int : c = e + N * p
    BY DEF Cong
  <1>3. q + p \in Int /\ a + c = b + e + N * (q + p)
    BY <1>1, <1>2, Order
  <1>4. QED
    BY <1>3 DEF Cong

\* Products with the same numbers.
LEMMA CongTimes ==
    ASSUME NEW a \in Int, NEW b \in Int, NEW c \in Int, Cong(a, b)
    PROVE  Cong(a * c, b * c) /\ Cong(c * a, c * b)
  <1>1. PICK q \in Int : a = b + N * q
    BY DEF Cong
  <1>2. q * c \in Int /\ a * c = b * c + N * (q * c)
    BY <1>1, Order
  <1>3. c * a = a * c /\ c * b = b * c
    OBVIOUS
  <1>4. QED
    BY <1>2, <1>3 DEF Cong

\* Numbers of the group that are the same are equal.
LEMMA CongEqual ==
    ASSUME NEW a \in Scalars, NEW b \in Scalars, Cong(a, b)
    PROVE  a = b
  <1>1. PICK q \in Int : a = b + N * q
    BY DEF Cong
  <1>2. a \in Int /\ b \in Int /\ 0 <= a /\ a < N /\ 0 <= b /\ b < N
    BY Order DEF Scalars
  <1>3. CASE q = 0
    BY <1>1, <1>2, <1>3, Order
  <1>4. CASE q >= 1
    <2>1. N * q >= N
      BY <1>4, Order
    <2>2. QED
      BY <1>1, <1>2, <2>1, Order
  <1>5. CASE q <= -1
    <2>1. N * q <= -N
      BY <1>5, Order
    <2>2. QED
      BY <1>1, <1>2, <2>1, Order
  <1>6. QED
    BY <1>3, <1>4, <1>5

\* Subtraction, from the others.
LEMMA CongMinus ==
    ASSUME NEW a \in Int, NEW b \in Int, NEW c \in Int, NEW e \in Int,
           Cong(a, b), Cong(c, e)
    PROVE  Cong(a - c, b - e)
  <1>1. PICK q \in Int : a = b + N * q
    BY DEF Cong
  <1>2. PICK p \in Int : c = e + N * p
    BY DEF Cong
  <1>3. q - p \in Int /\ a - c = b - e + N * (q - p)
    BY <1>1, <1>2, Order
  <1>4. QED
    BY <1>3 DEF Cong

\* A number is the same as itself.
LEMMA CongRefl ==
    ASSUME NEW a \in Int
    PROVE  Cong(a, a)
  <1>1. 0 \in Int /\ a = a + N * 0
    BY Order
  <1>2. QED
    BY <1>1 DEF Cong

\* Products of both sides.
LEMMA CongProduct ==
    ASSUME NEW a \in Int, NEW b \in Int, NEW c \in Int, NEW e \in Int,
           Cong(a, b), Cong(c, e)
    PROVE  Cong(a * c, b * e)
  <1>1. Cong(a * c, b * c) /\ Cong(b * c, b * e)
    BY CongTimes
  <1>2. a * c \in Int /\ b * c \in Int /\ b * e \in Int
    OBVIOUS
  <1>3. QED
    BY <1>1, <1>2, CongTrans

\* Points and scalars are integers, and negation stays among the points.
LEMMA PointsAre ==
    /\ \A a \in Points : a \in Int /\ a \in Scalars /\ a # 0 /\ N - a \in Points
    /\ \A a \in Scalars : a \in Int /\ (a # 0 => a \in Points)
    /\ 1 \in Points /\ 0 \in Scalars
  BY Order DEF Points, Scalars

\* A product of numbers that are not zero is not zero.
LEMMA NoZeroDivisors ==
    ASSUME NEW a \in Points, NEW b \in Points
    PROVE  Mod(a * b) \in Points /\ ~Cong(a * b, 0)
  <1>1. a * b \in Int
    BY PointsAre
  <1>2. Mod(a * b) # 0
    BY SignatureAssumption DEF Mod
  <1>3. Mod(a * b) \in Points
    BY <1>1, <1>2, ModOf, PointsAre
  <1>4. ASSUME Cong(a * b, 0) PROVE FALSE
    <2>1. Cong(Mod(a * b), a * b)
      BY <1>1, ModOf, CongSym
    <2>2. Cong(Mod(a * b), 0)
      BY <1>1, <1>4, <2>1, ModOf, CongTrans
    <2>3. QED
      BY <1>1, <1>2, <2>2, ModOf, CongEqual, PointsAre
  <1>5. QED
    BY <1>3, <1>4

\* A factor that is not zero can be left out.
LEMMA CancelFactor ==
    ASSUME NEW a \in Points, NEW b \in Int, Cong(a * b, 0)
    PROVE  Cong(b, 0)
  <1>1. a \in Int /\ a * b \in Int /\ 0 \in Int
    BY PointsAre
  <1>2. Mod(b) \in Scalars /\ Mod(b) \in Int /\ Cong(b, Mod(b)) /\ Cong(Mod(b), b)
    BY ModOf, CongSym
  <1>3. Cong(a * Mod(b), 0)
    <2>1. Cong(a * Mod(b), a * b) /\ a * Mod(b) \in Int
      BY <1>1, <1>2, CongTimes
    <2>2. QED
      BY <1>1, <2>1, CongTrans
  <1>4. Mod(b) = 0
    BY <1>2, <1>3, NoZeroDivisors, PointsAre
  <1>5. QED
    BY <1>2, <1>4

\* Multiplying by a number that is not zero is an injection of the numbers that
\* are not zero, so one of them is mapped to 1.
LEMMA InverseExists ==
    ASSUME NEW a \in Points
    PROVE  \E b \in Points : Mod(a * b) = 1
  <1> DEFINE f == [b \in Points |-> Mod(a * b)]
  <1>1. f \in [Points -> Points]
    BY NoZeroDivisors
  <1>2. ASSUME NEW b \in Points, NEW c \in Points, f[b] = f[c] PROVE b = c
    <2>0. a \in Int /\ b \in Int /\ c \in Int /\ a * b \in Int /\ a * c \in Int
      BY PointsAre
    <2>1. Cong(a * b, a * c)
      <3>1. Cong(a * b, Mod(a * b)) /\ Cong(Mod(a * b), a * c) /\ Mod(a * b) \in Int
        BY <1>2, <2>0, ModOf, CongSym
      <3>2. QED
        BY <2>0, <3>1, CongTrans
    <2>2. Cong(a * b - a * c, 0)
      <3>1. Cong(a * b - a * c, a * c - a * c)
        BY <2>0, <2>1, CongRefl, CongMinus
      <3>2. a * c - a * c = 0
        BY <2>0
      <3>3. QED
        BY <3>1, <3>2
    <2>3. CASE b > c
      <3>1. b - c \in Points /\ a * (b - c) = a * b - a * c
        BY <2>0, <2>3, Order DEF Points
      <3>2. QED
        BY <2>2, <3>1, NoZeroDivisors
    <2>4. CASE c > b
      <3>1. c - b \in Points /\ a * (c - b) = a * c - a * b
        BY <2>0, <2>4, Order DEF Points
      <3>2. Cong(a * c - a * b, 0)
        <4>1. Cong(a * c - a * b, a * b - a * b)
          BY <2>0, <2>1, CongSym, CongRefl, CongMinus
        <4>2. a * b - a * b = 0
          BY <2>0
        <4>3. QED
          BY <4>1, <4>2
      <3>3. QED
        BY <3>1, <3>2, NoZeroDivisors
    <2>5. QED
      BY <2>0, <2>3, <2>4
  <1>3. f \in Injection(Points, Points)
    <2> HIDE DEF f
    <2>1. QED
      BY <1>1, <1>2 DEF Injection, IsInjective
  <1>4. IsFiniteSet(Points)
    BY FS_Interval, Order DEF Points
  <1>5. f \in Surjection(Points, Points)
    <2> HIDE DEF f
    <2>1. QED
      BY <1>3, <1>4, FS_Injection
  <1>6. \E b \in Points : f[b] = 1
    <2> HIDE DEF f
    <2>1. QED
      BY <1>5, PointsAre DEF Surjection
  <1>7. QED
    BY <1>6

\* ModInverse is an inverse.
LEMMA InverseOf ==
    ASSUME NEW a \in Points
    PROVE  ModInverse[a] \in Points /\ Cong(a * ModInverse[a], 1)
  <1>1. /\ ModInverse[a] \in Points
        /\ Mod(a * ModInverse[a]) = 1
    BY InverseExists DEF ModInverse
  <1>2. a * ModInverse[a] \in Int
    BY <1>1, PointsAre
  <1>3. QED
    BY <1>1, <1>2, ModOf

\* Two numbers that are the same have the same value in the group.
LEMMA ModEqual ==
    ASSUME NEW a \in Int, NEW b \in Scalars, Cong(a, b)
    PROVE  Mod(a) = b
  <1>1. b \in Int /\ Mod(a) \in Int /\ Mod(a) \in Scalars /\ Cong(Mod(a), a)
    BY PointsAre, ModOf, CongSym
  <1>2. Cong(Mod(a), b)
    BY <1>1, CongTrans
  <1>3. QED
    BY <1>1, <1>2, CongEqual

-----------------------------------------------------------------------------
(* Export: two points of a line give its value at zero.                    *)

\* The difference of the places of two peers is not zero.
LEMMA DifferenceOf ==
    ASSUME NEW x \in Points, NEW y \in Points, x # y
    PROVE  Mod(y - x) \in Points
  <1>1. x \in Int /\ y \in Int /\ y - x \in Int
    BY PointsAre
  <1>2. Mod(y - x) \in Scalars /\ Mod(y - x) \in Int /\ Cong(y - x, Mod(y - x))
    BY <1>1, ModOf
  <1>3. ASSUME Mod(y - x) = 0 PROVE FALSE
    <2>1. Cong(y - x + x, 0 + x)
      BY <1>1, <1>2, <1>3, CongAdd, CongRefl
    <2>2. y - x + x = y /\ 0 + x = x
      BY <1>1
    <2>3. y = x
      BY <2>1, <2>2, CongEqual, PointsAre
    <2>4. QED
      BY <2>3
  <1>4. QED
    BY <1>2, <1>3, PointsAre

\* What the Birkhoff coefficients of two peers are: with w the inverse of y - x
\* they are y * w and -x * w.
LEMMA CoefficientsOf ==
    ASSUME NEW x \in Points, NEW y \in Points, x # y
    PROVE  /\ Coefficient(x, y) \in Points /\ Coefficient(y, x) \in Points
           /\ \E w \in Int : /\ Cong((y - x) * w, 1)
                             /\ Cong(Coefficient(x, y), y * w)
                             /\ Cong(Coefficient(y, x), -(x * w))
  <1> DEFINE e == Mod(y - x)
             f == Mod(x - y)
             w == ModInverse[e]
             v == ModInverse[f]
  <1>1. x \in Int /\ y \in Int /\ y - x \in Int /\ x - y \in Int
    BY PointsAre
  <1>2. e \in Points /\ f \in Points /\ e \in Int /\ f \in Int
    BY DifferenceOf, PointsAre
  <1>3. Cong(y - x, e) /\ Cong(x - y, f)
    BY <1>1, ModOf
  <1>4. /\ w \in Points /\ w \in Int /\ Cong(e * w, 1)
        /\ v \in Points /\ v \in Int /\ Cong(f * v, 1)
    BY <1>2, InverseOf, PointsAre
  <1>5. Coefficient(x, y) = Mod(y * w) /\ Coefficient(y, x) = Mod(x * v)
    BY DEF Coefficient
  <1>6. Coefficient(x, y) \in Points /\ Coefficient(y, x) \in Points
    BY <1>4, <1>5, NoZeroDivisors
  <1> HIDE DEF e, f, w, v
  <1>7. Cong((y - x) * w, 1) /\ Cong((x - y) * v, 1)
    <2>1. Cong((y - x) * w, e * w) /\ Cong((x - y) * v, f * v)
      BY <1>1, <1>2, <1>3, <1>4, CongTimes
    <2>2. /\ (y - x) * w \in Int /\ e * w \in Int
          /\ (x - y) * v \in Int /\ f * v \in Int /\ 1 \in Int
      BY <1>1, <1>2, <1>4
    <2>3. QED
      BY <1>4, <2>1, <2>2, CongTrans
  <1>8. Cong(v, -w)
    <2> DEFINE u == ((y - x) * w) * v
    <2>0. /\ (y - x) * w \in Int /\ (x - y) * v \in Int /\ 1 \in Int
          /\ v \in Int /\ -w \in Int
      BY <1>1, <1>4
    <2>1. Cong(u, 1 * v)
      BY <1>7, <2>0, CongTimes, Zenon
    <2>2. Cong(((x - y) * v) * (-w), 1 * (-w))
      BY <1>7, <2>0, CongTimes, Zenon
    <2>3. ((x - y) * v) * (-w) = u /\ 1 * v = v /\ 1 * (-w) = -w /\ u \in Int
      BY <1>1, <1>4
    <2> HIDE DEF u
    <2>4. Cong(v, u) /\ Cong(u, -w) /\ -w \in Int
      BY <1>4, <2>1, <2>2, <2>3, CongSym
    <2>5. QED
      BY <1>4, <2>3, <2>4, CongTrans
  <1>9. Cong(Coefficient(x, y), y * w)
    BY <1>1, <1>4, <1>5, ModOf, CongSym
  <1>10. Cong(Coefficient(y, x), -(x * w))
    <2>1. Cong(Mod(x * v), x * v) /\ x * v \in Int /\ Mod(x * v) \in Int
      BY <1>1, <1>4, ModOf, CongSym
    <2>2. -w \in Int /\ x * (-w) \in Int /\ x * (-w) = -(x * w)
      BY <1>1, <1>4
    <2>3. Cong(x * v, x * (-w))
      BY <1>1, <1>4, <1>8, <2>2, CongTimes, Zenon
    <2>4. QED
      BY <1>5, <2>1, <2>2, <2>3, CongTrans
  <1>11. QED
    BY <1>4, <1>6, <1>7, <1>9, <1>10

\* What RecoverPrivateKey computes from a share s of the peer at x and any share t
\* of the peer at y: the key, and a multiple of what t is away from the line.
LEMMA KeyOf ==
    ASSUME NEW x \in Points, NEW y \in Points, x # y,
           NEW key \in Int, NEW slope \in Int, NEW s \in Int, NEW t \in Int,
           Cong(s, key + slope * x)
    PROVE  Cong(Coefficient(x, y) * s + Coefficient(y, x) * t,
                key + Coefficient(y, x) * (t - (key + slope * y)))
  <1> DEFINE a == Coefficient(x, y)
             b == Coefficient(y, x)
  <1>1. PICK w \in Int : Cong((y - x) * w, 1) /\ Cong(a, y * w) /\ Cong(b, -(x * w))
    BY CoefficientsOf
  <1>2. a \in Int /\ b \in Int /\ x \in Int /\ y \in Int
    BY CoefficientsOf, PointsAre
  <1> HIDE DEF a, b
  <1>3. Cong(a + b, 1)
    <2>1. Cong(a + b, y * w + -(x * w))
      BY <1>1, <1>2, CongAdd
    <2>2. y * w + -(x * w) = (y - x) * w /\ (y - x) * w \in Int /\ a + b \in Int
      BY <1>2
    <2>3. QED
      BY <1>1, <2>1, <2>2, CongTrans
  <1>4. Cong(a * x + b * y, 0)
    <2>0. /\ y * w \in Int /\ -(x * w) \in Int
          /\ a * x \in Int /\ (y * w) * x \in Int
          /\ b * y \in Int /\ (-(x * w)) * y \in Int
      BY <1>2
    <2>1. Cong(a * x, (y * w) * x) /\ Cong(b * y, (-(x * w)) * y)
      BY <1>1, <1>2, <2>0, CongTimes, Zenon
    <2>2. Cong(a * x + b * y, (y * w) * x + (-(x * w)) * y)
      BY <2>0, <2>1, CongAdd, Zenon
    <2>3. (y * w) * x + (-(x * w)) * y = 0
      BY <1>2
    <2>4. QED
      BY <2>2, <2>3
  <1>5. Cong(a * s + b * t, a * (key + slope * x) + b * t)
    <2>1. /\ key + slope * x \in Int /\ a * s \in Int /\ b * t \in Int
          /\ a * (key + slope * x) \in Int
      BY <1>2
    <2>2. Cong(a * s, a * (key + slope * x)) /\ Cong(b * t, b * t)
      BY <1>2, <2>1, CongTimes, CongRefl, Zenon
    <2>3. QED
      BY <2>1, <2>2, CongAdd, Zenon
  <1> DEFINE far == b * (t - (key + slope * y))
  <1>6. a * (key + slope * x) + b * t = (a + b) * key + (a * x + b * y) * slope + far
    BY <1>2
  <1>7. far \in Int
    BY <1>2
  <1> HIDE DEF far
  <1>8. Cong((a + b) * key + (a * x + b * y) * slope + far, key + far)
    <2> DEFINE p == (a + b) * key
               q == (a * x + b * y) * slope
    <2>1. /\ a + b \in Int /\ a * x + b * y \in Int /\ 1 \in Int /\ 0 \in Int
          /\ 1 * key = key /\ 0 * slope = 0 /\ key + 0 = key
          /\ p \in Int /\ q \in Int /\ p + q \in Int
      BY <1>2
    <2>2. Cong(p, 1 * key) /\ Cong(q, 0 * slope)
      BY <1>3, <1>4, <2>1, CongTimes, Zenon
    <2> HIDE DEF p, q
    <2>3. Cong(p + q, key + 0)
      BY <2>1, <2>2, CongAdd
    <2>4. Cong((p + q) + far, key + far)
      BY <1>7, <2>1, <2>3, CongAdd, CongRefl
    <2>5. QED
      BY <2>4 DEF p, q
  <1>9. /\ a * s + b * t \in Int /\ key + far \in Int
        /\ (a + b) * key + (a * x + b * y) * slope + far \in Int
    BY <1>2, <1>7
  <1>10. Cong(a * s + b * t, key + far)
    BY <1>5, <1>6, <1>8, <1>9, CongTrans
  <1>11. QED
    BY <1>10 DEF far, a, b

\* RecoverPrivateKey returns the key of the wallet for the share of a peer, and an
\* error for any other number in its place.
LEMMA RecoversOwn ==
    ASSUME NEW key \in Points, NEW x \in Points, NEW y \in Points, x # y,
           NEW slope \in Scalars, NEW t \in Scalars
    PROVE  RecoverPrivateKey(key, x, Mod(key + slope * x), y, t) =
              IF t = Mod(key + slope * y) THEN key ELSE NoKey
  <1> DEFINE s == Mod(key + slope * x)
             own == Mod(key + slope * y)
             a == Coefficient(x, y)
             b == Coefficient(y, x)
             far == t - (key + slope * y)
  <1>1. /\ key \in Int /\ x \in Int /\ y \in Int /\ slope \in Int /\ t \in Int
        /\ key \in Scalars /\ key # 0
    BY PointsAre
  <1>2. /\ key + slope * x \in Int /\ key + slope * y \in Int /\ far \in Int
    BY <1>1
  <1>3. /\ s \in Int /\ Cong(s, key + slope * x)
        /\ own \in Int /\ own \in Scalars /\ Cong(key + slope * y, own)
    BY <1>2, ModOf, CongSym
  <1>4. a \in Points /\ b \in Points /\ a \in Int /\ b \in Int
    BY CoefficientsOf, PointsAre
  <1>5. Cong(a * s + b * t, key + b * far)
    BY <1>1, <1>3, KeyOf
  <1>6. RecoverPrivateKey(key, x, s, y, t) =
           IF Mod(a * s + b * t) # key THEN NoKey ELSE Mod(a * s + b * t)
    BY DEF RecoverPrivateKey
  <1> HIDE DEF s, own, a, b, far
  <1>7. /\ a * s + b * t \in Int /\ b * far \in Int /\ key + b * far \in Int
    BY <1>1, <1>2, <1>3, <1>4
  <1>8. Cong(far, t - own)
    BY <1>1, <1>2, <1>3, CongMinus, CongRefl DEF far
  <1>9. CASE t = own
    <2>1. t - own = 0 /\ 0 \in Int /\ b * 0 = 0
      BY <1>3, <1>4, <1>9
    <2>2. Cong(b * far, b * 0)
      <3>1. Cong(far, 0)
        BY <1>8, <2>1
      <3>2. QED
        BY <1>2, <1>4, <2>1, <3>1, CongTimes, Zenon
    <2>3. Cong(key + b * far, key + 0) /\ key + 0 = key
      BY <1>1, <1>7, <2>1, <2>2, CongAdd, CongRefl
    <2>4. Cong(a * s + b * t, key)
      BY <1>1, <1>5, <1>7, <2>3, CongTrans
    <2>5. Mod(a * s + b * t) = key
      BY <1>1, <1>7, <2>4, ModEqual
    <2>6. QED
      BY <1>6, <1>9, <2>5 DEF s, own
  <1>10. CASE t # own
    <2>1. Mod(a * s + b * t) # key
      <3> SUFFICES ASSUME Mod(a * s + b * t) = key PROVE FALSE
        OBVIOUS
      <3>1. Cong(key, a * s + b * t)
        BY <1>7, ModOf, CongSym
      <3>2. Cong(key, key + b * far)
        BY <1>1, <1>5, <1>7, <3>1, CongTrans
      <3>3. Cong((key + b * far) - key, key - key)
        <4>1. Cong(key + b * far, key) /\ Cong(key, key)
          BY <1>1, <1>7, <3>2, CongSym, CongRefl, Zenon
        <4> DEFINE g == key + b * far
        <4>2. g \in Int /\ Cong(g, key)
          BY <1>7, <4>1
        <4> HIDE DEF g
        <4>3. Cong(g - key, key - key)
          BY <1>1, <4>1, <4>2, CongMinus
        <4>4. QED
          BY <4>3 DEF g
      <3>4. (key + b * far) - key = b * far /\ key - key = 0
        BY <1>1, <1>7
      <3>5. Cong(b * far, 0)
        BY <3>3, <3>4
      <3>6. Cong(far, 0)
        BY <1>2, <1>4, <3>5, CancelFactor
      <3>7. Cong(t - own, 0) /\ t - own \in Int /\ 0 \in Int
        <4>1. t - own \in Int /\ 0 \in Int
          BY <1>1, <1>3
        <4>2. Cong(t - own, far)
          BY <1>2, <1>8, <4>1, CongSym
        <4>3. QED
          BY <1>2, <3>6, <4>1, <4>2, CongTrans
      <3>8. Cong(t - own + own, 0 + own)
        BY <1>3, <3>7, CongAdd, CongRefl
      <3>9. t - own + own = t /\ 0 + own = own
        BY <1>1, <1>3
      <3>10. QED
        BY <1>3, <1>10, <3>8, <3>9, CongEqual
    <2>2. QED
      BY <1>6, <1>10, <2>1 DEF s, own
  <1>11. QED
    BY <1>9, <1>10

-----------------------------------------------------------------------------
(* The signature.                                                          *)

\* The x-coordinate leads back to the point with the given parity, of the two
\* points that have it.
LEMMA PointOf ==
    ASSUME NEW k \in Points
    PROVE  /\ {i \in Points : X[i] = X[k] /\ Odd[i] = Odd[k]} = {k}
           /\ X[N - k] = X[k]
           /\ Odd[k] \in {0, 1} /\ Odd[N - k] = 1 - Odd[k]
  <1>1. N - k \in Points /\ N \in Int /\ k \in Int
    BY PointsAre, Order
  <1>2. X[k] = X[N - k] /\ Odd[k] # Odd[N - k]
        /\ Odd[k] \in {0, 1} /\ Odd[N - k] \in {0, 1}
    BY <1>1, SignatureAssumption
  <1>3. \A i \in Points : X[i] = X[k] => i = k \/ i = N - k
    BY SignatureAssumption
  <1>4. QED
    BY <1>2, <1>3

\* RecoverCompact when its header and r fix the nonce's point.
LEMMA RecoverCompactAt ==
    ASSUME NEW h, NEW r \in Points, NEW s \in Points, NEW z, NEW k,
           {i \in Points : X[i] = r /\ Odd[i] = h - 27} = {k}
    PROVE  RecoverCompact(h, r, s, z) = Mod(ModInverse[r] * (s * k - z))
  <1> DEFINE R == {i \in Points : X[i] = r /\ Odd[i] = h - 27}
  <1>1. R # {} /\ (CHOOSE i \in R : TRUE) = k
    <2>1. R = {k}
      OBVIOUS
    <2> HIDE DEF R
    <2>2. QED
      BY <2>1
  <1>2. RecoverCompact(h, r, s, z) =
           IF r \notin Points \/ s \notin Points \/ R = {} THEN NoKey
           ELSE Mod(ModInverse[r] * (s * (CHOOSE i \in R : TRUE) - z))
    BY Zenon DEF RecoverCompact
  <1> HIDE DEF R
  <1>3. QED
    BY <1>1, <1>2, Zenon

\* s is a signature of z for nonce k.
SignedBy(k, s, z) == Cong(k * s, z + X[k] * d)

\* RecoverCompact leads to the key from the parity of the nonce.
LEMMA Recovers ==
    ASSUME d \in Points, NEW k \in Points, NEW z \in Scalars, NEW s \in Points,
           X[k] \in Points, SignedBy(k, s, z)
    PROVE  RecoverCompact(Odd[k] + 27, X[k], s, z) = d
  <1> DEFINE r == X[k]
             w == ModInverse[r]
  <1>1. /\ d \in Int /\ k \in Int /\ z \in Int /\ s \in Int /\ r \in Int
        /\ w \in Int /\ Cong(r * w, 1) /\ d \in Scalars
    BY PointsAre, InverseOf
  <1>2. RecoverCompact(Odd[k] + 27, r, s, z) = Mod(w * (s * k - z))
    <2>1. (Odd[k] + 27) - 27 = Odd[k]
      BY PointOf
    <2>2. {i \in Points : X[i] = r /\ Odd[i] = (Odd[k] + 27) - 27} = {k}
      BY <2>1, PointOf
    <2>3. QED
      BY <2>2, RecoverCompactAt
  <1> HIDE DEF r, w
  <1>3. Cong(s * k - z, r * d)
    <2>1. /\ k * s \in Int /\ s * k = k * s /\ z + r * d \in Int
          /\ z + r * d - z = r * d
      BY <1>1
    <2>2. Cong(k * s, z + r * d)
      BY DEF SignedBy, r
    <2>3. Cong(k * s - z, z + r * d - z)
      BY <1>1, <2>1, <2>2, CongMinus, CongRefl
    <2>4. QED
      BY <2>1, <2>3
  <1>4. Cong(w * (s * k - z), d)
    <2>1. /\ s * k - z \in Int /\ r * d \in Int /\ r * w \in Int /\ 1 \in Int
          /\ w * (s * k - z) \in Int /\ (r * w) * d \in Int
          /\ w * (r * d) = (r * w) * d /\ 1 * d = d
      BY <1>1
    <2>2. Cong(w * (s * k - z), w * (r * d))
      BY <1>1, <1>3, <2>1, CongTimes, Zenon
    <2>3. Cong((r * w) * d, 1 * d)
      BY <1>1, <2>1, CongTimes, Zenon
    <2>4. QED
      BY <1>1, <2>1, <2>2, <2>3, CongTrans
  <1>5. w * (s * k - z) \in Int
    BY <1>1
  <1>6. Mod(w * (s * k - z)) = d
    BY <1>1, <1>4, <1>5, ModEqual
  <1>7. QED
    BY <1>2, <1>6 DEF r

\* Verify accepts it.
LEMMA Verifies ==
    ASSUME d \in Points, NEW k \in Points, NEW z \in Scalars, NEW s \in Points,
           X[k] \in Points, SignedBy(k, s, z)
    PROVE  Verify(d, z, X[k], s)
  <1> DEFINE r == X[k]
             w == ModInverse[s]
  <1>1. /\ d \in Int /\ k \in Int /\ z \in Int /\ s \in Int /\ r \in Int
        /\ w \in Int /\ Cong(s * w, 1) /\ k \in Scalars /\ k # 0 /\ r \in Scalars
    BY PointsAre, InverseOf
  <1> HIDE DEF w, r
  <1>2. /\ z + r * d \in Int /\ k * s \in Int /\ s * w \in Int /\ 1 \in Int
        /\ w * (z + r * d) \in Int /\ w * (k * s) \in Int
        /\ w * (k * s) = (s * w) * k /\ 1 * k = k
    BY <1>1
  <1>3. Cong(z + r * d, k * s)
    BY <1>2, CongSym DEF SignedBy, r
  <1>4. Cong(w * (z + r * d), w * (k * s))
    BY <1>1, <1>2, <1>3, CongTimes, Zenon
  <1>5. Cong((s * w) * k, 1 * k)
    BY <1>1, <1>2, CongTimes, Zenon
  <1>6. Cong(w * (z + r * d), k)
    BY <1>1, <1>2, <1>4, <1>5, CongTrans
  <1>7. Mod(w * (z + r * d)) = k
    BY <1>1, <1>2, <1>6, ModEqual
  <1>8. Mod(X[k]) = r
    BY <1>1, CongRefl, ModEqual DEF r
  <1>9. QED
    BY <1>1, <1>7, <1>8 DEF Verify, w, r

\* What Verify accepts is signed, unless r fits two nonces.
LEMMA VerifiedSigned ==
    ASSUME d \in Points, NEW k \in Points, NEW z \in Scalars, NEW s \in Points,
           X[k] \in Points, Alone(k), Verify(d, z, X[k], s)
    PROVE  \E m \in {k, N - k} : SignedBy(m, s, z)
  <1> DEFINE r == X[k]
             w == ModInverse[s]
             t == z + r * d
             i == Mod(w * t)
  <1>1. /\ d \in Int /\ z \in Int /\ s \in Int /\ r \in Int /\ r \in Scalars
        /\ w \in Int /\ Cong(s * w, 1)
    BY PointsAre, InverseOf
  <1>2. i # 0 /\ Mod(X[i]) = r
    BY DEF Verify
  <1>3. Mod(X[k]) = r
    BY <1>1, CongRefl, ModEqual
  <1> HIDE DEF w
  <1>4. t \in Int
    BY <1>1
  <1> HIDE DEF t
  <1>5. w * t \in Int /\ s * w \in Int /\ (s * w) * t = s * (w * t) /\ 1 * t = t /\ 1 \in Int
        /\ s * (w * t) \in Int
    BY <1>1, <1>4
  <1>6. i \in Scalars /\ i \in Int /\ Cong(w * t, i)
    BY <1>5, ModOf
  <1> HIDE DEF i
  <1>7. i \in Points
    BY <1>2, <1>6, PointsAre
  <1>8. X[i] = X[k]
    BY <1>2, <1>3, <1>7 DEF Alone
  <1>9. i \in {k, N - k}
    BY <1>7, <1>8, SignatureAssumption
  <1>10. Cong(i * s, t)
    <2>1. Cong(s * i, s * (w * t))
      BY <1>1, <1>5, <1>6, CongSym, CongTimes
    <2>2. Cong((s * w) * t, 1 * t)
      BY <1>1, <1>4, <1>5, CongTimes
    <2>3. s * i = i * s /\ i * s \in Int
      BY <1>1, <1>6
    <2>4. Cong(i * s, s * (w * t)) /\ Cong(s * (w * t), t)
      BY <1>5, <2>1, <2>2, <2>3
    <2>5. QED
      BY <1>4, <1>5, <2>3, <2>4, CongTrans
  <1>11. SignedBy(i, s, z)
    BY <1>8, <1>10, Zenon DEF SignedBy, t
  <1>12. QED
    BY <1>9, <1>11

\* Where the other recovery id leads to no key.
LEMMA OtherRecovers ==
    ASSUME d \in Points, NEW k \in Points, NEW z \in Scalars, NEW s \in Points,
           X[k] \in Points, SignedBy(k, s, z),
           RecoverCompact(Odd[N - k] + 27, X[k], s, z) = NoKey
    PROVE  Mod(2 * z + X[k] * d) = 0
  <1> DEFINE r == X[k]
             w == ModInverse[r]
             m == N - k
  <1>1. /\ d \in Int /\ k \in Int /\ z \in Int /\ s \in Int /\ r \in Int
        /\ w \in Int /\ w \in Points /\ N \in Int /\ m \in Points /\ m \in Int
    BY PointsAre, InverseOf, Order
  <1>2. RecoverCompact(Odd[m] + 27, r, s, z) = Mod(w * (s * m - z))
    <2>1. (Odd[m] + 27) - 27 = Odd[m] /\ X[m] = r
      BY <1>1, PointOf
    <2>2. {i \in Points : X[i] = r /\ Odd[i] = (Odd[m] + 27) - 27} = {m}
      BY <1>1, <2>1, PointOf
    <2>3. QED
      BY <2>2, RecoverCompactAt
  <1>3. Mod(w * (s * m - z)) = 0
    BY <1>2 DEF NoKey
  <1> DEFINE sum == 2 * z + r * d
  <1>4. Cong(s * m - z, 0)
    <2>1. s * m - z \in Int /\ w * (s * m - z) \in Int /\ 0 \in Int
      BY <1>1
    <2>2. Cong(w * (s * m - z), 0)
      BY <1>3, <2>1, ModOf
    <2>3. QED
      BY <1>1, <2>1, <2>2, CancelFactor
  <1>5. Cong(k * s, z + r * d)
    BY DEF SignedBy
  <1> HIDE DEF r, w
  <1>6. PICK p \in Int : s * m - z = 0 + N * p
    BY <1>4 DEF Cong
  <1>7. PICK q \in Int : k * s = z + r * d + N * q
    BY <1>5 DEF Cong
  <1>8. sum = 0 + N * (s - p - q) /\ s - p - q \in Int /\ sum \in Int
    <2>1. s * m = s * N - k * s
      BY <1>1
    <2>2. s * N - (z + r * d + N * q) - z = N * p
      BY <1>1, <1>6, <1>7, <2>1
    <2>3. sum = s * N - N * q - N * p
      BY <1>1, <2>2
    <2>4. s * N - N * q - N * p = 0 + N * (s - p - q)
      BY <1>1
    <2>5. QED
      BY <1>1, <2>3, <2>4
  <1>9. Cong(sum, 0)
    BY <1>8 DEF Cong
  <1>10. QED
    BY <1>8, <1>9, ModEqual, PointsAre DEF r

\* Another message leads to another key.
LEMMA OtherMessage ==
    ASSUME d \in Points, NEW z \in Scalars, NEW z0 \in Scalars, z # z0,
           NEW header, NEW r, NEW s, RecoverCompact(header, r, s, z) = d
    PROVE  RecoverCompact(header, r, s, z0) # d
  <1> SUFFICES ASSUME RecoverCompact(header, r, s, z0) = d PROVE FALSE
    OBVIOUS
  <1> DEFINE R == {i \in Points : X[i] = r /\ Odd[i] = header - 27}
             i == CHOOSE j \in R : TRUE
             bad == r \notin Points \/ s \notin Points \/ R = {}
             w == ModInverse[r]
             a == s * i - z
             c == s * i - z0
  <1>1. /\ RecoverCompact(header, r, s, z) = IF bad THEN NoKey ELSE Mod(w * a)
        /\ RecoverCompact(header, r, s, z0) = IF bad THEN NoKey ELSE Mod(w * c)
    BY Zenon DEF RecoverCompact
  <1>2. d # NoKey
    BY PointsAre DEF NoKey
  <1>3. ~bad /\ Mod(w * a) = d /\ Mod(w * c) = d
    <2> HIDE DEF bad, w, a, c
    <2>1. QED
      BY <1>1, <1>2, Zenon
  <1>4. r \in Points /\ s \in Points /\ R # {}
    BY <1>3
  <1>5. i \in R
    <2> HIDE DEF R
    <2>1. QED
      BY <1>4
  <1>6. i \in Points
    BY <1>5
  <1>7. w \in Points /\ w \in Int /\ s \in Int /\ i \in Int /\ z \in Int /\ z0 \in Int
        /\ d \in Int
    BY <1>4, <1>6, PointsAre, InverseOf
  <1> HIDE DEF R, i, w
  <1>8. a \in Int /\ c \in Int /\ a - c = z0 - z
    BY <1>7
  <1> HIDE DEF a, c
  <1>9. w * a \in Int /\ w * c \in Int /\ w * a - w * c = w * (a - c) /\ d - d = 0
        /\ a - c \in Int
    BY <1>7, <1>8
  <1>10. Cong(w * a, d) /\ Cong(w * c, d)
    BY <1>3, <1>9, ModOf
  <1>11. Cong(w * a - w * c, d - d)
    BY <1>7, <1>9, <1>10, CongMinus
  <1>12. Cong(w * (a - c), 0)
    BY <1>9, <1>11
  <1>13. Cong(a - c, 0)
    BY <1>7, <1>9, <1>12, CancelFactor
  <1>14. Cong(z0 - z, 0)
    BY <1>8, <1>13
  <1>15. Cong(z0, z)
    <2>1. PICK q \in Int : z0 - z = 0 + N * q
      BY <1>14 DEF Cong
    <2>2. z0 = z + N * q
      BY <1>7, <2>1, Order
    <2>3. QED
      BY <2>2 DEF Cong
  <1>16. QED
    BY <1>15, CongEqual

\* PostProcess brings s to its lower form, with the opposite nonce if need be.
LEMMA LowS ==
    ASSUME d \in Points, NEW k \in Points, NEW z \in Scalars, NEW s \in Points,
           SignedBy(k, s, z)
    PROVE  /\ ToLowS(s) \in Points
           /\ ToLowS(s) <= N - ToLowS(s)
           /\ \E m \in {k, N - k} : SignedBy(m, ToLowS(s), z)
  <1>1. N \in Int /\ N > 2 /\ s \in Int /\ k \in Int /\ N - s \in Points
    BY PointsAre, Order
  <1>2. N \div 2 \in Int /\ 2 * (N \div 2) <= N /\ N < 2 * (N \div 2) + 2
    BY <1>1
  <1>3. CASE s <= N \div 2
    BY <1>1, <1>2, <1>3 DEF ToLowS, IsLowS
  <1>4. CASE s > N \div 2
    <2>1. ToLowS(s) = N - s
      BY <1>1, <1>2, <1>4 DEF ToLowS, IsLowS
    <2>2. N - s <= N - (N - s)
      BY <1>1, <1>2, <1>4
    <2>3. X[N - k] = X[k] /\ X[k] * d \in Int /\ z \in Int
      <3>1. X[k] \in Int /\ d \in Int
        BY SignatureAssumption, PointsAre
      <3>2. QED
        BY <3>1, PointOf, PointsAre
    <2>4. Cong((N - k) * (N - s), k * s)
      <3>1. (N - k) * (N - s) = k * s + N * (N - k - s) /\ N - k - s \in Int
        BY <1>1
      <3>2. QED
        BY <3>1 DEF Cong
    <2>5. SignedBy(N - k, N - s, z)
      <3>1. /\ (N - k) * (N - s) \in Int /\ k * s \in Int
            /\ z + X[k] * d \in Int
        BY <1>1, <2>3
      <3>2. QED
        BY <2>3, <2>4, <3>1, CongTrans DEF SignedBy
    <2>6. QED
      BY <1>1, <2>1, <2>2, <2>5
  <1>5. QED
    BY <1>1, <1>2, <1>3, <1>4

-----------------------------------------------------------------------------
(* Bytes.                                                                  *)

\* Quotient and rest are unique.
LEMMA DivUnique ==
    ASSUME NEW n \in Int, NEW m \in Nat \ {0}, NEW q \in Int, NEW r \in 0..m - 1,
           n = m * q + r
    PROVE  n \div m = q
  <1> DEFINE e == n \div m
             f == n % m
  <1>1. e \in Int /\ f \in 0..m - 1 /\ n = m * e + f
    OBVIOUS
  <1> HIDE DEF e, f
  <1>2. m * (q - e) = f - r /\ f - r < m /\ f - r > -m
    BY <1>1
  <1>3. CASE q - e >= 1
    <2>1. m * (q - e) >= m
      BY <1>1, <1>3
    <2>2. QED
      BY <1>1, <1>2, <2>1
  <1>4. CASE q - e <= -1
    <2>1. m * (q - e) <= -m
      BY <1>1, <1>4
    <2>2. QED
      BY <1>1, <1>2, <2>1
  <1>5. e = q
    BY <1>1, <1>3, <1>4
  <1>6. QED
    BY <1>5 DEF e

\* Dividing twice.
LEMMA DivTwice ==
    ASSUME NEW n \in Nat, NEW p \in Nat \ {0}, NEW b \in Nat \ {0}
    PROVE  (n \div p) \div b = n \div (b * p)
  <1> DEFINE q == n \div p
             r == n % p
             qq == q \div b
             rr == q % b
  <1>1. q \in Int /\ r \in 0..p - 1 /\ n = p * q + r
    OBVIOUS
  <1>2. qq \in Int /\ rr \in 0..b - 1 /\ q = b * qq + rr
    BY <1>1
  <1> HIDE DEF q, r, qq, rr
  <1>3. n = (b * p) * qq + (p * rr + r)
    <2>1. p * q = p * (b * qq + rr)
      BY <1>2
    <2>2. p * (b * qq + rr) = (b * p) * qq + p * rr
      BY <1>1, <1>2
    <2>3. p * rr \in Int /\ p * q \in Int /\ (b * p) * qq \in Int
      BY <1>1, <1>2
    <2>4. QED
      BY <1>1, <2>1, <2>2, <2>3
  <1>4. p * rr + r \in 0..b * p - 1 /\ b * p \in Nat \ {0}
    <2>1. p * rr >= 0 /\ p * rr \in Int /\ b * p \in Int
      BY <1>1, <1>2
    <2>2. p * rr <= p * (b - 1) /\ p * (b - 1) = b * p - p
      BY <1>1, <1>2
    <2>3. b * p > 0
      BY <1>1
    <2>4. QED
      BY <1>1, <2>1, <2>2, <2>3
  <1>5. n \div (b * p) = qq
    <2> DEFINE m == b * p
               t == p * rr + r
    <2>1. m \in Nat \ {0} /\ t \in 0..m - 1 /\ n = m * qq + t
      BY <1>3, <1>4
    <2> HIDE DEF m, t
    <2>2. n \div m = qq
      BY <1>2, <2>1, DivUnique
    <2>3. QED
      BY <2>2 DEF m
  <1>6. QED
    BY <1>5 DEF q, qq

\* The powers of a base, as far as they are used.
Radix(b, max) ==
    /\ b \in Nat /\ b > 1 /\ max \in Nat /\ b ^ 0 = 1
    /\ \A l \in 0..max : b ^ l \in Nat \ {0} /\ b ^ (l + 1) = b * b ^ l

LEMMA Radixes == Radix(Base, Width) /\ Radix(10, MaxDigits) /\ Radix(16, MaxDigits)
  <1>1. Radix(Base, Width)
    BY PowersAssumption, SignatureAssumption DEF Radix
  <1>2. ASSUME NEW b \in {10, 16} PROVE Radix(b, MaxDigits)
    <2>1. b ^ 0 = 1
      BY PowersAssumption
    <2>2. \A l \in 0..MaxDigits : b ^ l \in Nat \ {0} /\ b ^ (l + 1) = b * b ^ l
      BY PowersAssumption
    <2>3. QED
      BY <2>1, <2>2, SignatureAssumption DEF Radix
  <1>3. QED
    BY <1>1, <1>2

\* The digit at a place, and the number without it.
LEMMA DigitOf ==
    ASSUME NEW b, NEW max, Radix(b, max), NEW n \in Nat, NEW l \in 0..max
    PROVE  /\ n \div b ^ l \in Nat
           /\ (n \div b ^ l) % b \in 0..b - 1
           /\ n \div b ^ l
                 = b * (n \div b ^ (l + 1)) + ((n \div b ^ l) % b)
  <1> DEFINE p == b ^ l
             q == n \div p
  <1>1. /\ p \in Nat \ {0} /\ b ^ (l + 1) = b * p /\ b \in Nat \ {0}
        /\ b > 1
    BY DEF Radix
  <1> HIDE DEF p
  <1>2. q \in Nat
    BY <1>1
  <1>3. q \div b = n \div (b * p)
    BY <1>1, DivTwice
  <1> HIDE DEF q
  <1>4. q % b \in 0..b - 1 /\ q = b * (q \div b) + (q % b)
    <2>1. b \in Nat /\ b > 0 /\ q \in Int
      BY <1>1, <1>2
    <2>2. q % b \in 0..b - 1
      BY <2>1
    <2>3. q = b * (q \div b) + (q % b)
      BY <2>1
    <2>4. QED
      BY <2>2, <2>3
  <1>5. QED
    BY <1>1, <1>2, <1>3, <1>4 DEF p, q

\* The smallest of some numbers.
LEMMA SmallestOf ==
    ASSUME NEW T, T \subseteq Nat, T # {}
    PROVE  \E x \in T : \A y \in T : x <= y
  <1>1. PICK x \in T : \A y \in T : ~(<<y, x>> \in OpToRel(<, Nat))
    BY WFMin, NatLessThanWellFounded
  <1>2. \A y \in T : ~(y < x)
    BY <1>1 DEF OpToRel
  <1>3. QED
    BY <1>2

\* The values Number goes through.
Values(s, b, h) ==
    h = [i \in 0..Len(s) |-> IF i = 0 THEN 0 ELSE b * h[i - 1] + s[i]]

\* Number ends with the last of its values: no other function goes through them.
LEMMA NumberIs ==
    ASSUME NEW b, NEW s, Len(s) \in Nat, NEW h, Values(s, b, h)
    PROVE  Number(s, b) = h[Len(s)]
  <1> DEFINE v == CHOOSE g : Values(s, b, g)
  <1>1. Values(s, b, v)
    BY Zenon
  <1>2. Number(s, b) = v[Len(s)]
    BY Zenon DEF Number, Values
  <1> HIDE DEF v
  <1> DEFINE T == {i \in 0..Len(s) : v[i] # h[i]}
  <1>3. T = {}
    <2> SUFFICES ASSUME T # {} PROVE FALSE
      OBVIOUS
    <2>0. T \subseteq Nat
      OBVIOUS
    <2> HIDE DEF T
    <2>1. PICK i \in T : \A j \in T : i <= j
      BY <2>0, SmallestOf
    <2> USE DEF T
    <2>2. i \in 0..Len(s) /\ v[i] # h[i]
      BY <2>1
    <2>3. /\ v[i] = IF i = 0 THEN 0 ELSE b * v[i - 1] + s[i]
          /\ h[i] = IF i = 0 THEN 0 ELSE b * h[i - 1] + s[i]
      BY <1>1, <2>2 DEF Values
    <2>4. i # 0
      BY <2>2, <2>3
    <2>5. i - 1 \in 0..Len(s) /\ ~(i <= i - 1)
      BY <2>2, <2>4
    <2>6. v[i - 1] = h[i - 1]
      BY <2>1, <2>5
    <2>7. QED
      BY <2>2, <2>3, <2>6
  <1>4. v[Len(s)] = h[Len(s)]
    BY <1>3
  <1>5. QED
    BY <1>2, <1>4

\* Digits s stand for n when they are w digits of which the last l are those of n,
\* and n has no more than l.
DigitsOf(s, b, w, l, n) ==
    /\ Len(s) = w
    /\ \A i \in 1..w : s[i] = IF i <= w - l THEN 0
                                ELSE (n \div b ^ (w - i)) % b

\* Number gives back the number that the digits stand for.
LEMMA NumberOf ==
    ASSUME NEW b, NEW max, Radix(b, max), NEW n \in Nat, NEW w \in 0..max,
           NEW l \in 0..w, n < b ^ l,
           NEW s, DigitsOf(s, b, w, l, n)
    PROVE  /\ Number(s, b) = n
           /\ \E h : Values(s, b, h) /\ h[Len(s)] = n
  <1> DEFINE h == [i \in 0..w |-> IF i <= w - l THEN 0 ELSE n \div b ^ (w - i)]
  <1>0. w \in Nat /\ l \in Nat /\ max \in Nat /\ b \in Nat /\ l <= max
    BY DEF Radix
  <1>1. n \div b ^ l = 0
    <2>1. b ^ l \in Nat \ {0}
      BY <1>0 DEF Radix
    <2>2. n = b ^ l * 0 + n /\ n \in 0..b ^ l - 1
      BY <2>1
    <2>3. QED
      BY <2>1, <2>2, DivUnique
  <1>2. ASSUME NEW i \in 0..w
        PROVE  h[i] = IF i = 0 THEN 0 ELSE b * h[i - 1] + s[i]
    <2>1. CASE i <= w - l /\ i # 0
      <3>1. h[i] = 0 /\ h[i - 1] = 0 /\ s[i] = 0
        BY <1>0, <2>1 DEF DigitsOf
      <3>2. QED
        BY <1>0, <2>1, <3>1
    <2>2. CASE i = 0
      <3>1. CASE 0 <= w - l
        BY <2>2, <3>1
      <3>2. QED
        BY <1>0, <3>1
    <2>3. CASE i > w - l /\ i # 0
      <3> DEFINE k == w - i
      <3>1. k \in 0..max /\ i \in 1..w /\ k + 1 = w - (i - 1) /\ i - 1 \in 0..w
        BY <1>0, <2>3
      <3>2. n \div b ^ k = b * (n \div b ^ (k + 1)) + ((n \div b ^ k) % b)
        BY <3>1, DigitOf
      <3>3. s[i] = (n \div b ^ k) % b /\ h[i] = n \div b ^ k
        BY <1>0, <2>3, <3>1 DEF DigitsOf
      <3>4. h[i - 1] = n \div b ^ (k + 1)
        <4>1. CASE i - 1 <= w - l
          <5>1. k + 1 = l
            BY <1>0, <2>3, <3>1, <4>1
          <5>2. h[i - 1] = 0
            BY <3>1, <4>1
          <5>3. QED
            BY <1>1, <5>1, <5>2
        <4>2. CASE i - 1 > w - l
          BY <1>0, <3>1, <4>2
        <4>3. QED
          BY <1>0, <3>1, <4>1, <4>2
      <3>5. h[i] = b * h[i - 1] + s[i]
        <4> HIDE DEF h, k
        <4>1. QED
          BY <3>2, <3>3, <3>4, Zenon
      <3>6. QED
        BY <2>3, <3>5
    <2>4. QED
      BY <1>0, <2>1, <2>2, <2>3
  <1>3. Values(s, b, h)
    <2> DEFINE g == [i \in 0..Len(s) |-> IF i = 0 THEN 0 ELSE b * h[i - 1] + s[i]]
    <2>1. Len(s) = w
      BY DEF DigitsOf
    <2>2. \A i \in 0..w : h[i] = g[i]
      BY <1>2, <2>1
    <2>3. h = g
      BY <2>1, <2>2
    <2>4. QED
      BY <2>3 DEF Values
  <1>4. Number(s, b) = h[w]
    <2> HIDE DEF h
    <2>1. Len(s) = w
      BY DEF DigitsOf
    <2>2. QED
      BY <1>0, <1>3, <2>1, NumberIs
  <1>5. h[w] = n
    <2>1. CASE l = 0
      <3>1. n = 0
        BY <2>1 DEF Radix
      <3>2. QED
        BY <1>0, <2>1, <3>1
    <2>2. CASE l > 0
      <3>1. h[w] = n \div b ^ 0
        BY <1>0, <2>2
      <3>2. n \div 1 = n
        OBVIOUS
      <3>3. QED
        BY <3>1, <3>2 DEF Radix
    <2>3. QED
      BY <1>0, <2>1, <2>2
  <1>6. QED
    <2> HIDE DEF h
    <2>1. Len(s) = w
      BY DEF DigitsOf
    <2>2. QED
      BY <1>3, <1>4, <1>5, <2>1

\* The number of digits of a number.
LEMMA LengthOf ==
    ASSUME NEW b, NEW max, Radix(b, max), NEW n \in Nat, n < b ^ max
    PROVE  /\ Length(n, max, b) \in 0..max /\ n < b ^ Length(n, max, b)
           /\ n # 0 => Length(n, max, b) # 0
  <1> DEFINE T == {l \in 0..max : n < b ^ l}
             P(l) == n < b ^ l /\ (l = 0 \/ n >= b ^ (l - 1))
             len == Length(n, max, b)
  <1>0. max \in Nat /\ b ^ 0 = 1 /\ max \in 0..max
    BY DEF Radix
  <1>1. \A l \in 0..max : b ^ l \in Nat
    BY DEF Radix
  <1>2. \E l \in 0..max + 1 : P(l)
    <2>1. T \subseteq Nat /\ T # {}
      BY <1>0
    <2>2. PICK l \in T : \A j \in T : l <= j
      <3> HIDE DEF T
      <3>1. QED
        BY <2>1, SmallestOf
    <2>3. l \in 0..max /\ n < b ^ l
      BY <2>2
    <2>4. l # 0 => n >= b ^ (l - 1)
      <3> SUFFICES ASSUME l # 0 PROVE n >= b ^ (l - 1)
        OBVIOUS
      <3>1. l - 1 \in 0..max /\ ~(l <= l - 1)
        BY <1>0, <2>3
      <3>2. ~(n < b ^ (l - 1))
        BY <2>2, <3>1
      <3>3. b ^ (l - 1) \in Nat
        BY <1>1, <3>1
      <3>4. QED
        BY <3>2, <3>3
    <2>5. QED
      BY <1>0, <2>3, <2>4
  <1>3. len \in 0..max + 1 /\ P(len)
    <2>1. len = CHOOSE l \in 0..max + 1 : P(l)
      BY DEF Length
    <2> HIDE DEF P, len
    <2>2. QED
      BY <1>2, <2>1
  <1> HIDE DEF len, T
  <1>4. n # 0 => len # 0
    BY <1>0, <1>3
  <1>5. len # max + 1
    <2> SUFFICES ASSUME len = max + 1 PROVE FALSE
      OBVIOUS
    <2>1. (max + 1) - 1 = max /\ max + 1 # 0
      BY <1>0
    <2>2. n >= b ^ max /\ b ^ max \in Nat
      BY <1>0, <1>1, <1>3, <2>1
    <2>3. QED
      BY <2>2
  <1>6. QED
    BY <1>0, <1>3, <1>4, <1>5 DEF len

\* A function from 1 is a sequence.
LEMMA SequenceIs ==
    ASSUME NEW S, NEW l \in Nat, NEW f \in [1..l -> S]
    PROVE  f \in Seq(S) /\ Len(f) = l
  OBVIOUS

\* The digits of a number.
LEMMA DigitsAre ==
    ASSUME NEW b, NEW max, Radix(b, max), NEW n \in Nat, NEW l \in 0..max
    PROVE  /\ Digits(n, l, b) \in Seq(0..b - 1) /\ Len(Digits(n, l, b)) = l
           /\ DigitsOf(Digits(n, l, b), b, l, l, n)
  <1> DEFINE f == Digits(n, l, b)
  <1>1. l \in Nat /\ max \in Nat
    BY DEF Radix
  <1>2. ASSUME NEW i \in 1..l
        PROVE  f[i] = (n \div b ^ (l - i)) % b /\ f[i] \in 0..b - 1
    <2>1. l - i \in 0..max
      BY <1>1
    <2>2. QED
      BY <2>1, DigitOf DEF Digits
  <1>3. f \in Seq(0..b - 1) /\ Len(f) = l
    <2>1. f = [i \in 1..l |-> f[i]]
      BY DEF Digits
    <2> HIDE DEF f
    <2>2. \A i \in 1..l : f[i] \in 0..b - 1
      BY <1>2
    <2>3. f \in [1..l -> 0..b - 1]
      BY <2>1, <2>2, Zenon
    <2>4. QED
      BY <1>1, <2>3, SequenceIs
  <1>4. DigitsOf(f, b, l, l, n)
    <2> HIDE DEF f
    <2>1. QED
      BY <1>1, <1>2, <1>3 DEF DigitsOf
  <1>5. QED
    BY <1>3, <1>4

\* The number of bytes of a number of the group.
LEMMA Len8Of ==
    ASSUME NEW n \in Points
    PROVE  Len8(n) \in 1..Width /\ n < Base ^ Len8(n)
  <1>1. n \in Nat /\ n # 0 /\ n < N /\ N \in Nat /\ Width \in Nat /\ N <= Base ^ Width
    BY Order, SignatureAssumption DEF Points
  <1>2. Radix(Base, Width)
    BY Radixes
  <1>3. n < Base ^ Width
    BY <1>1, <1>2 DEF Radix
  <1>4. QED
    BY <1>1, <1>2, <1>3, LengthOf DEF Len8

\* The bytes of a number of the group, and the same filled up.
LEMMA BytesAre ==
    ASSUME NEW n \in Points
    PROVE  /\ DigitsOf(FillBytes(n, Len8(n)), Base, Len8(n), Len8(n), n)
           /\ FillBytes(n, Len8(n)) # <<>>
           /\ Padded(n) \in Seq(Byte) /\ Len(Padded(n)) = Width
           /\ DigitsOf(Padded(n), Base, Width, Len8(n), n)
  <1> DEFINE l == Len8(n)
             zeros == [i \in 1..Width - l |-> 0]
             f == FillBytes(n, l)
  <1>1. l \in 1..Width /\ Width \in Nat /\ n \in Nat /\ Base \in Nat /\ Base > 1
    BY Len8Of, SignatureAssumption DEF Points
  <1> HIDE DEF l
  <1>2. f \in Seq(Byte) /\ Len(f) = l /\ DigitsOf(f, Base, l, l, n)
    <2>1. l \in 0..Width /\ Radix(Base, Width)
      BY <1>1, Radixes
    <2>2. QED
      BY <1>1, <2>1, DigitsAre DEF FillBytes, Byte
  <1>3. ASSUME NEW i \in 1..l PROVE f[i] = (n \div Base ^ (l - i)) % Base
    <2> HIDE DEF f
    <2>1. ~(i <= l - l)
      BY <1>1
    <2>2. QED
      BY <1>2, <2>1 DEF DigitsOf
  <1>4. zeros \in Seq(Byte) /\ Len(zeros) = Width - l /\ \A i \in 1..Width - l : zeros[i] = 0
    <2>1. Width - l \in Nat /\ 0 \in Byte
      BY <1>1 DEF Byte
    <2>2. QED
      BY <2>1
  <1> HIDE DEF f, zeros
  <1>5. f # <<>>
    BY <1>1, <1>2
  <1>6. /\ zeros \o f \in Seq(Byte) /\ Len(zeros \o f) = Width
        /\ \A i \in 1..Width : (zeros \o f)[i] = IF i <= Width - l THEN zeros[i]
                                                 ELSE f[i - (Width - l)]
    BY <1>1, <1>2, <1>4
  <1>7. DigitsOf(zeros \o f, Base, Width, l, n)
    <2>1. ASSUME NEW i \in 1..Width
          PROVE  (zeros \o f)[i] = IF i <= Width - l THEN 0
                                   ELSE (n \div Base ^ (Width - i)) % Base
      <3>1. CASE i <= Width - l
        BY <1>1, <1>4, <1>6, <3>1
      <3>2. CASE ~(i <= Width - l)
        <4>1. i - (Width - l) \in 1..l /\ l - (i - (Width - l)) = Width - i
          BY <1>1, <3>2
        <4>2. QED
          BY <1>3, <1>6, <3>2, <4>1
      <3>3. QED
        BY <3>1, <3>2
    <2>2. QED
      BY <1>6, <2>1 DEF DigitsOf
  <1>8. Padded(n) = zeros \o f
    BY DEF Padded, zeros, f, l
  <1>9. QED
    BY <1>2, <1>5, <1>6, <1>7, <1>8 DEF f, l

\* Two sequences, one after the other.
LEMMA ConcatIs ==
    ASSUME NEW S, NEW a \in Seq(S), NEW b \in Seq(S)
    PROVE  /\ a \o b \in Seq(S) /\ Len(a \o b) = Len(a) + Len(b)
           /\ \A i \in 1..Len(a) + Len(b) :
                 (a \o b)[i] = IF i <= Len(a) THEN a[i] ELSE b[i - Len(a)]
  OBVIOUS

\* A signature of its parts, and how it is read.
Whole(r, s, v) == Padded(r) \o Padded(s) \o <<v>>

ReadAs(sig, r, s, v) ==
    /\ sig \in Seq(Byte) /\ Len(sig) = 2 * Width + 1 /\ sig # Empty
    /\ SigR(sig) = r /\ SigS(sig) = s /\ SigV(sig) = v

\* A signature is read as it was put together.
LEMMA SignatureIs ==
    ASSUME NEW r \in Points, NEW s \in Points, NEW v \in {0, 1}
    PROVE  ReadAs(Whole(r, s, v), r, s, v)
  <1> DEFINE sig == Whole(r, s, v)
             a == Padded(r)
             b == Padded(s)
             first == SubSeq(sig, 1, Width)
             second == SubSeq(sig, Width + 1, 2 * Width)
  <1>1. /\ Width \in Nat /\ Base \in Nat /\ Base > 1 /\ v \in Byte
        /\ r \in Nat /\ s \in Nat
    BY SignatureAssumption DEF Byte, Points
  <1>2. /\ a \in Seq(Byte) /\ Len(a) = Width /\ DigitsOf(a, Base, Width, Len8(r), r)
        /\ b \in Seq(Byte) /\ Len(b) = Width /\ DigitsOf(b, Base, Width, Len8(s), s)
        /\ Len8(r) \in 0..Width /\ r < Base ^ Len8(r)
        /\ Len8(s) \in 0..Width /\ s < Base ^ Len8(s)
    BY <1>1, BytesAre, Len8Of
  <1> HIDE DEF a, b
  <1>3. /\ a \o b \in Seq(Byte) /\ Len(a \o b) = 2 * Width
        /\ \A i \in 1..2 * Width : (a \o b)[i] = IF i <= Width THEN a[i] ELSE b[i - Width]
    <2>1. Len(a) + Len(b) = 2 * Width
      BY <1>1, <1>2
    <2>2. /\ a \o b \in Seq(Byte) /\ Len(a \o b) = Len(a) + Len(b)
          /\ \A i \in 1..Len(a) + Len(b) :
                (a \o b)[i] = IF i <= Len(a) THEN a[i] ELSE b[i - Len(a)]
      BY <1>2, ConcatIs, Zenon
    <2>3. QED
      BY <1>2, <2>1, <2>2, Zenon
  <1>4. sig = (a \o b) \o <<v>>
    BY DEF a, b, Whole
  <1> HIDE DEF sig
  <1>5. /\ sig \in Seq(Byte) /\ Len(sig) = 2 * Width + 1
        /\ sig[2 * Width + 1] = v
        /\ \A i \in 1..2 * Width : sig[i] = (a \o b)[i]
    <2> DEFINE c == a \o b
    <2>1. c \in Seq(Byte) /\ Len(c) = 2 * Width /\ 2 * Width \in Nat
      BY <1>1, <1>3
    <2> HIDE DEF c
    <2>2. /\ c \o <<v>> \in Seq(Byte) /\ Len(c \o <<v>>) = Len(c) + 1
          /\ (c \o <<v>>)[Len(c) + 1] = v
          /\ \A i \in 1..Len(c) : (c \o <<v>>)[i] = c[i]
      BY <1>1, <2>1
    <2>3. QED
      BY <1>4, <2>1, <2>2, Zenon DEF c
  <1>6. DigitsOf(first, Base, Width, Len8(r), r)
    <2>1. Len(first) = Width /\ \A i \in 1..Width : first[i] = sig[i]
      BY <1>1, <1>5
    <2>2. ASSUME NEW i \in 1..Width PROVE first[i] = a[i]
      <3>1. i \in 1..2 * Width /\ i <= Width
        BY <1>1
      <3>2. sig[i] = a[i]
        BY <1>3, <1>5, <3>1, Zenon
      <3>3. QED
        BY <2>1, <3>2
    <2>3. QED
      <3> HIDE DEF first
      <3>1. QED
        BY <1>2, <2>1, <2>2 DEF DigitsOf
  <1>7. DigitsOf(second, Base, Width, Len8(s), s)
    <2>1. Len(second) = Width /\ \A i \in 1..Width : second[i] = sig[Width + i]
      BY <1>1, <1>5
    <2>2. ASSUME NEW i \in 1..Width PROVE second[i] = b[i]
      <3>1. Width + i \in 1..2 * Width /\ (Width + i) - Width = i /\ ~(Width + i <= Width)
        BY <1>1
      <3>2. QED
        BY <1>3, <1>5, <2>1, <3>1
    <2>3. QED
      <3> HIDE DEF second
      <3>1. QED
        BY <1>2, <2>1, <2>2 DEF DigitsOf
  <1>8. SetBytes(first) = r /\ SetBytes(second) = s
    <2> HIDE DEF first, second
    <2>1. Width \in 0..Width
      BY <1>1
    <2>2. Radix(Base, Width)
      BY Radixes
    <2>3. Number(first, Base) = r
      <3>1. r \in Nat /\ Len8(r) \in 0..Width /\ r < Base ^ Len8(r)
        BY <1>1, <1>2
      <3>2. QED
        BY <1>6, <2>1, <2>2, <3>1, NumberOf
    <2>4. Number(second, Base) = s
      <3>1. s \in Nat /\ Len8(s) \in 0..Width /\ s < Base ^ Len8(s)
        BY <1>1, <1>2
      <3>2. QED
        BY <1>7, <2>1, <2>2, <3>1, NumberOf
    <2>5. QED
      BY <2>3, <2>4 DEF SetBytes
  <1>9. sig # Empty
    <2>1. Len(sig) # 0
      BY <1>1, <1>5
    <2>2. QED
      BY <2>1 DEF Empty
  <1>10. ReadAs(sig, r, s, v)
    BY <1>5, <1>8, <1>9, Zenon DEF ReadAs, SigR, SigS, SigV
  <1>11. QED
    BY <1>10 DEF sig

-----------------------------------------------------------------------------
(* PostProcess.                                                            *)

\* What the signing process leaves is a signature.
LEMMA SignResultIs ==
    ASSUME d \in Points, NEW k \in Points, NEW z \in Scalars,
           SignResult(k, z).r # 0, SignResult(k, z).s # 0
    PROVE  /\ SignResult(k, z) \in [r : Points, s : Points]
           /\ X[k] < N => /\ X[k] \in Points /\ SignResult(k, z).r = X[k]
                          /\ SignedBy(k, SignResult(k, z).s, z)
  <1> DEFINE w == ModInverse[k]
             r == Mod(X[k])
             t == z + r * d
             s == Mod(w * t)
  <1>1. /\ d \in Int /\ k \in Int /\ z \in Int /\ X[k] \in Nat
        /\ w \in Int /\ Cong(k * w, 1) /\ N \in Nat
    BY PointsAre, InverseOf, SignatureAssumption
  <1>2. r \in Scalars /\ r \in Int
    BY <1>1, ModOf
  <1>3. r # 0 /\ s # 0 /\ SignResult(k, z) = [r |-> r, s |-> s]
    BY DEF SignResult
  <1> HIDE DEF w, r
  <1>4. t \in Int
    BY <1>1, <1>2
  <1> HIDE DEF t
  <1>5. w * t \in Int /\ k * (w * t) \in Int /\ k * w \in Int /\ k * (w * t) = (k * w) * t
        /\ 1 * t = t /\ 1 \in Int
    BY <1>1, <1>4
  <1>6. s \in Scalars /\ s \in Int /\ Cong(w * t, s)
    BY <1>5, ModOf
  <1>7. r \in Points /\ s \in Points
    BY <1>2, <1>3, <1>6, PointsAre
  <1> HIDE DEF s
  <1>8. ASSUME X[k] < N PROVE X[k] = r
    <2>1. X[k] \in Scalars /\ X[k] \in Int
      BY <1>1, <1>8 DEF Scalars
    <2>2. Cong(X[k], X[k])
      BY <2>1, CongRefl
    <2>3. QED
      BY <2>1, <2>2, ModEqual DEF r
  <1>9. Cong(k * s, t)
    <2>1. Cong(s, w * t)
      BY <1>5, <1>6, CongSym
    <2>2. k * s \in Int
      BY <1>1, <1>6
    <2>3. Cong(k * s, k * (w * t))
      BY <1>1, <1>5, <1>6, <2>1, CongTimes
    <2>4. Cong((k * w) * t, 1 * t)
      BY <1>1, <1>4, <1>5, CongTimes
    <2>5. Cong(k * (w * t), t)
      BY <1>5, <2>4
    <2>6. QED
      BY <1>4, <1>5, <2>2, <2>3, <2>5, CongTrans
  <1>10. QED
    <2>1. ASSUME X[k] < N PROVE SignedBy(k, s, z)
      BY <1>8, <1>9, <2>1, Zenon DEF SignedBy, t
    <2>2. QED
      BY <1>3, <1>7, <1>8, <2>1

\* The lower s is a number of the group.
LEMMA LowSType ==
    ASSUME NEW s \in Points
    PROVE  ToLowS(s) \in Points /\ ToLowS(s) <= N - ToLowS(s)
  <1>1. N \in Int /\ N > 2 /\ s \in Int /\ N - s \in Points
    BY PointsAre, Order
  <1>2. N \div 2 \in Int /\ 2 * (N \div 2) <= N /\ N < 2 * (N \div 2) + 2
    BY <1>1
  <1>3. QED
    BY <1>1, <1>2 DEF ToLowS, IsLowS

\* A signature that is no error has its form, and the recovery id it has is 1 when
\* only 1 leads to the key.
LEMMA Generated ==
    ASSUME NEW r \in Points, NEW s \in Points, NEW q, NEW z, NEW sig,
           sig = GenerateSignature(r, s, q, z), NEW v,
           v = IF RecoveryIDs(r, s, z, q) = {1} THEN 1 ELSE 0
    PROVE  /\ v \in {0, 1}
           /\ sig # Empty => sig = Whole(r, s, v)
           /\ sig = Empty <=> \/ RecoverCompact(27, r, s, z) = NoKey
                              \/ /\ RecoverCompact(27, r, s, z) # q
                                 /\ RecoverCompact(28, r, s, z) = NoKey
                              \/ ~Verify(q, z, r, s)
  <1> DEFINE bad == \/ RecoverCompact(27, r, s, z) = NoKey
                    \/ /\ RecoverCompact(27, r, s, z) # q
                       /\ RecoverCompact(28, r, s, z) = NoKey
                    \/ ~Verify(q, z, r, s)
  <1>1. v \in {0, 1}
    OBVIOUS
  <1>2. ~(Len8(r) = 0 \/ Len8(r) > Width \/ Len8(s) = 0 \/ Len8(s) > Width)
    BY Len8Of, SignatureAssumption
  <1>3. ReadAs(Whole(r, s, v), r, s, v)
    BY <1>1, SignatureIs
  <1>4. Whole(r, s, v) # Empty
    BY <1>3 DEF ReadAs
  <1>5. sig = IF bad THEN Empty ELSE Whole(r, s, v)
    BY <1>2, Zenon DEF GenerateSignature, Whole
  <1>6. QED
    BY <1>1, <1>4, <1>5, Zenon

\* The nonce that the lower s stands for.
SignedLow(k, s, z) == \E m \in {k, N - k} : SignedBy(m, s, z)

\* PostProcess of a signature: low-S and its recovery id leads to the key, or an
\* error in the corner where the other id leads to none.
LEMMA PostProcessedAt ==
    ASSUME d \in Points, NEW k \in Points, NEW z \in Scalars, NEW r, r = X[k],
           r \in Points, NEW s \in Points, SignedLow(k, s, z),
           NEW sig, sig = GenerateSignature(r, s, d, z)
    PROVE  /\ sig # Empty =>
                 /\ SigS(sig) = s
                 /\ RecoverCompact(SigV(sig) + 27, SigR(sig), SigS(sig), z) = d
           /\ sig = Empty => Mod(2 * z + X[k] * d) = 0
  <1> DEFINE v == IF RecoveryIDs(r, s, z, d) = {1} THEN 1 ELSE 0
  <1>2. PICK m \in {k, N - k} : SignedBy(m, s, z)
    BY DEF SignedLow
  <1>3. /\ m \in Points /\ X[m] = r /\ Odd[m] \in {0, 1} /\ Odd[N - m] = 1 - Odd[m]
    BY <1>2, PointsAre, PointOf
  <1>5. RecoverCompact(Odd[m] + 27, r, s, z) = d /\ Verify(d, z, r, s)
    BY <1>2, <1>3, Recovers, Verifies
  <1>6. d # NoKey
    BY PointsAre DEF NoKey
  <1>7. /\ v \in {0, 1}
        /\ sig # Empty => sig = Whole(r, s, v)
        /\ sig = Empty <=> \/ RecoverCompact(27, r, s, z) = NoKey
                           \/ /\ RecoverCompact(27, r, s, z) # d
                              /\ RecoverCompact(28, r, s, z) = NoKey
    <2> HIDE DEF v
    <2>1. v = IF RecoveryIDs(r, s, z, d) = {1} THEN 1 ELSE 0
      BY DEF v
    <2>2. /\ v \in {0, 1}
          /\ sig # Empty => sig = Whole(r, s, v)
          /\ sig = Empty <=> \/ RecoverCompact(27, r, s, z) = NoKey
                             \/ /\ RecoverCompact(27, r, s, z) # d
                                /\ RecoverCompact(28, r, s, z) = NoKey
                             \/ ~Verify(d, z, r, s)
      BY <2>1, Generated
    <2>3. QED
      BY ONLY <1>5, <2>2, Zenon
  <1>8. ASSUME sig # Empty
        PROVE  /\ SigS(sig) = s
               /\ RecoverCompact(SigV(sig) + 27, SigR(sig), SigS(sig), z) = d
    <2>1. 0 \in RecoveryIDs(r, s, z, d) \/ 1 \in RecoveryIDs(r, s, z, d)
      <3>1. 0 + 27 = 27 /\ 1 + 27 = 28
        OBVIOUS
      <3>2. QED
        BY <1>3, <1>5 DEF RecoveryIDs
    <2>2. RecoverCompact(v + 27, r, s, z) = d
      <3>1. CASE 0 \in RecoveryIDs(r, s, z, d)
        BY <3>1 DEF RecoveryIDs
      <3>2. CASE 0 \notin RecoveryIDs(r, s, z, d)
        <4>1. RecoveryIDs(r, s, z, d) = {1}
          BY <2>1, <3>2 DEF RecoveryIDs
        <4>2. v = 1 /\ 1 \in RecoveryIDs(r, s, z, d)
          BY <4>1
        <4>3. QED
          BY <4>2 DEF RecoveryIDs
      <3>3. QED
        BY <3>1, <3>2
    <2> HIDE DEF v
    <2>3. ReadAs(Whole(r, s, v), r, s, v) /\ sig = Whole(r, s, v)
      BY <1>7, <1>8, SignatureIs
    <2>4. SigR(sig) = r /\ SigS(sig) = s /\ SigV(sig) = v
      BY <2>3, Zenon DEF ReadAs
    <2>5. QED
      BY <2>2, <2>4
  <1>9. ASSUME sig = Empty PROVE Mod(2 * z + X[k] * d) = 0
    <2>1. Odd[m] # 0
      <3> SUFFICES ASSUME Odd[m] = 0 PROVE FALSE
        OBVIOUS
      <3>1. 0 + 27 = 27
        OBVIOUS
      <3>2. QED
        BY <1>5, <1>6, <1>7, <1>9, <3>1
    <2>2. Odd[m] + 27 = 28 /\ Odd[N - m] + 27 = 27
      BY <1>3, <2>1
    <2>3. RecoverCompact(27, r, s, z) = NoKey
      BY <1>5, <1>6, <1>7, <1>9, <2>2
    <2>4. Mod(2 * z + X[m] * d) = 0
      BY <1>2, <1>3, <2>2, <2>3, OtherRecovers
    <2>5. QED
      BY <1>3, <2>4
  <1>10. QED
    BY <1>8, <1>9

\* PostProcess of what the signing process leaves for a message, when its readers
\* look at h: all of the message, or the start of it, in which case Verify decides.
LEMMA PostProcessed ==
    ASSUME d \in Points, NEW k \in Points, NEW h \in Scalars,
           NEW raw \in [r : Points, s : Points], raw.r = X[k],
           NEW sig, sig = PostProcess(raw, h)
    PROVE  /\ sig # Empty /\ (SignedBy(k, raw.s, h) \/ Alone(k)) =>
                 /\ SigS(sig) <= N - SigS(sig)
                 /\ RecoverCompact(SigV(sig) + 27, SigR(sig), SigS(sig), h) = d
           /\ sig = Empty /\ SignedBy(k, raw.s, h) => Mod(2 * h + X[k] * d) = 0
  <1> DEFINE r == raw.r
             s == ToLowS(raw.s)
  <1>1. /\ r \in Points /\ r = X[k] /\ s \in Points /\ s <= N - s
        /\ SignedBy(k, raw.s, h) => SignedLow(k, s, h)
    BY LowS, LowSType DEF SignedLow
  <1>2. sig = GenerateSignature(r, s, d, h)
    BY DEF PostProcess
  <1> HIDE DEF s, r
  <1>3. sig # Empty /\ Alone(k) => SignedLow(k, s, h)
    <2> SUFFICES ASSUME sig # Empty, Alone(k) PROVE SignedLow(k, s, h)
      OBVIOUS
    <2> DEFINE v == IF RecoveryIDs(r, s, h, d) = {1} THEN 1 ELSE 0
    <2>1. v = IF RecoveryIDs(r, s, h, d) = {1} THEN 1 ELSE 0
      OBVIOUS
    <2> HIDE DEF v
    <2>2. Verify(d, h, r, s)
      BY <1>1, <1>2, <2>1, Generated
    <2>3. QED
      BY <1>1, <2>2, VerifiedSigned DEF SignedLow
  <1>4. SignedLow(k, s, h) =>
           /\ sig # Empty =>
                 /\ SigS(sig) = s
                 /\ RecoverCompact(SigV(sig) + 27, SigR(sig), SigS(sig), h) = d
           /\ sig = Empty => Mod(2 * h + X[k] * d) = 0
    BY <1>1, <1>2, PostProcessedAt
  <1>5. QED
    BY <1>1, <1>3, <1>4

-----------------------------------------------------------------------------
(* Numbers of a transaction.                                               *)

\* The exponents in use.
Exponents == 0..Word + Dotted + 4 * MaxDigits

\* The powers of two, and that a larger one is a multiple of a smaller one.
LEMMA PowersOfTwo ==
    /\ \A n \in Exponents : 2 ^ n \in Nat \ {0} /\ 2 ^ (n + 1) = 2 * 2 ^ n
    /\ 2 ^ 0 = 1
    /\ \A n \in Exponents : n \in Nat
    /\ \A n \in Exponents : n # 0 => n - 1 \in Exponents /\ 2 ^ n = 2 * 2 ^ (n - 1)
    /\ {Float, Dotted, Word, Word - 1} \subseteq Exponents
    /\ 0..4 * MaxDigits \subseteq Exponents
  <1>0. Word \in Nat \ {0} /\ Dotted \in Nat \ {0} /\ Float \in Nat \ {0} /\ MaxDigits \in Nat
        /\ Float <= Word
    BY SignatureAssumption
  <1>1. /\ \A n \in Exponents : 2 ^ n \in Nat \ {0} /\ 2 ^ (n + 1) = 2 * 2 ^ n
        /\ 2 ^ 0 = 1
    BY PowersAssumption DEF Exponents
  <1>2. {Float, Dotted, Word, Word - 1} \subseteq Exponents /\ 0..4 * MaxDigits \subseteq Exponents
    BY <1>0 DEF Exponents
  <1>3. \A n \in Exponents : n \in Nat
    BY <1>0 DEF Exponents
  <1>4. ASSUME NEW n \in Exponents, n # 0
        PROVE  n - 1 \in Exponents /\ 2 ^ n = 2 * 2 ^ (n - 1)
    <2>1. n - 1 \in Exponents /\ (n - 1) + 1 = n
      BY <1>0, <1>4 DEF Exponents
    <2>2. 2 ^ ((n - 1) + 1) = 2 * 2 ^ (n - 1)
      BY <1>1, <2>1
    <2>3. QED
      BY <2>1, <2>2
  <1>5. QED
    BY <1>1, <1>2, <1>3, <1>4

LEMMA PowersDivide ==
    ASSUME NEW a \in Exponents, NEW b \in Exponents, a <= b
    PROVE  \E g \in Nat \ {0} : 2 ^ b = 2 ^ a * g
  <1> DEFINE Multiple(c) == \E g \in Nat \ {0} : 2 ^ c = 2 ^ a * g
             T == {c \in Exponents : a <= c /\ ~Multiple(c)}
  <1>0. a \in Nat /\ b \in Nat /\ 2 ^ a \in Nat \ {0}
    BY PowersOfTwo
  <1>1. T = {}
    <2> SUFFICES ASSUME T # {} PROVE FALSE
      OBVIOUS
    <2>1. T \subseteq Nat
      BY PowersOfTwo
    <2> HIDE DEF T
    <2>2. PICK c \in T : \A e \in T : c <= e
      BY <2>1, SmallestOf
    <2> USE DEF T
    <2> HIDE DEF Multiple
    <2>3. c \in Exponents /\ c \in Nat /\ a <= c /\ ~Multiple(c)
      BY <2>2, PowersOfTwo
    <2>4. c # a
      <3>1. Multiple(a)
        <4>1. 2 ^ a = 2 ^ a * 1 /\ 1 \in Nat \ {0}
          BY <1>0
        <4>2. QED
          BY <4>1 DEF Multiple
      <3>2. QED
        BY <2>3, <3>1
    <2> DEFINE p == c - 1
    <2>5. p \in Exponents /\ 2 ^ c = 2 * 2 ^ p
      BY <1>0, <2>3, <2>4, PowersOfTwo
    <2>6. ~(c <= p) /\ a <= p
      BY <1>0, <2>3, <2>4
    <2> HIDE DEF p
    <2>7. Multiple(p)
      BY <2>2, <2>5, <2>6
    <2>8. PICK g \in Nat \ {0} : 2 ^ p = 2 ^ a * g
      BY <2>7 DEF Multiple
    <2>9. 2 * g \in Nat \ {0} /\ 2 * (2 ^ a * g) = 2 ^ a * (2 * g)
      BY <1>0
    <2>10. Multiple(c)
      BY <2>5, <2>8, <2>9 DEF Multiple
    <2>11. QED
      BY <2>3, <2>10
  <1>2. b \notin T
    BY <1>1, Zenon
  <1>3. QED
    BY <1>2

\* A quotient is at least what the divisor goes into the number.
LEMMA DivAtLeast ==
    ASSUME NEW n \in Nat, NEW m \in Nat \ {0}, NEW t \in Nat, n >= m * t
    PROVE  n \div m \in Nat /\ n \div m >= t
  <1> DEFINE q == n \div m
             r == n % m
  <1>1. q \in Int /\ r \in 0..m - 1 /\ n = m * q + r
    OBVIOUS
  <1> HIDE DEF q, r
  <1>2. ASSUME q < t PROVE FALSE
    <2>1. m * t >= m * (q + 1) /\ m * (q + 1) = m * q + m
      BY <1>1, <1>2
    <2>2. m * q \in Int /\ m * t \in Int
      BY <1>1
    <2>3. QED
      BY <1>1, <2>1, <2>2
  <1>3. QED
    BY <1>1, <1>2 DEF q

\* The nearest multiple of a unit.
Nearest(a, unit) ==
    IF \/ 2 * (a % unit) > unit
       \/ 2 * (a % unit) = unit /\ (a \div unit) % 2 = 1
    THEN a \div unit + 1 ELSE a \div unit

LEMMA NearestIs ==
    ASSUME NEW a \in Nat, NEW unit \in Nat \ {0}
    PROVE  /\ Nearest(a, unit) \in Nat /\ Nearest(a, unit) >= a \div unit
           /\ 2 * (unit * Nearest(a, unit)) <= 2 * a + unit
           /\ 2 * (unit * Nearest(a, unit)) >= 2 * a - unit
  <1> DEFINE q == a \div unit
             r == a % unit
             n == Nearest(a, unit)
  <1>1. q \in Nat /\ r \in 0..unit - 1 /\ a = unit * q + r
    OBVIOUS
  <1>2. \/ n = q + 1 /\ 2 * r >= unit
        \/ n = q /\ 2 * r <= unit
    BY <1>1 DEF Nearest
  <1> HIDE DEF q, r, n
  <1>3. CASE n = q + 1 /\ 2 * r >= unit
    <2>1. unit * n = unit * q + unit
      BY <1>1, <1>3
    <2>2. unit * q \in Int
      BY <1>1
    <2> DEFINE u == unit * q
    <2> HIDE DEF u
    <2>3. a = u + r /\ unit * n = u + unit /\ u \in Int
      BY <1>1, <2>1, <2>2 DEF u
    <2>4. QED
      BY <1>1, <1>3, <2>3 DEF n, q
  <1>4. CASE n = q /\ 2 * r <= unit
    <2> DEFINE u == unit * q
    <2>1. u \in Int /\ a = u + r /\ unit * n = u
      BY <1>1, <1>4
    <2> HIDE DEF u
    <2>2. QED
      BY <1>1, <1>4, <2>1 DEF n, q
  <1>5. QED
    BY <1>2, <1>3, <1>4

\* A number and tenths, rounded, are at most what the precision adds to it: E is
\* the power of two above the number, B that of the precision.
LEMMA NotMore ==
    ASSUME NEW m \in Nat, NEW E \in Nat \ {0}, NEW B \in Nat \ {0}, NEW k \in Nat,
           NEW n \in Nat, 20 * (E * k) <= 2 * (m * B) + 10 * E, n * B <= E * k,
           (E = 1 /\ m < 10) \/ 5 * E <= m
    PROVE  10 * n * B <= m * (B + 1)
  <1> DEFINE M == m * B
             Q == n * B
             P == E * k
  <1>1. M \in Nat /\ Q \in Nat /\ P \in Nat
    OBVIOUS
  <1>2. 10 * n * B = 10 * Q /\ m * (B + 1) = M + m
    OBVIOUS
  <1>3. 20 * P <= 2 * M + 10 * E /\ Q <= P
    OBVIOUS
  <1> HIDE DEF P
  <1>4. CASE 5 * E <= m
    <2> HIDE DEF M, Q
    <2>1. QED
      BY <1>1, <1>2, <1>3, <1>4
  <1>5. CASE E = 1 /\ m >= 5
    <2> HIDE DEF M, Q
    <2>1. QED
      BY <1>1, <1>2, <1>3, <1>5
  <1>6. CASE E = 1 /\ m < 5
    <2>1. M <= 4 * B
      BY <1>6
    <2> HIDE DEF M
    <2>2. P < B
      BY <1>1, <1>3, <1>6, <2>1
    <2>3. n = 0
      <3> SUFFICES ASSUME n >= 1 PROVE FALSE
        OBVIOUS
      <3>1. Q >= B
        OBVIOUS
      <3> HIDE DEF Q
      <3>2. QED
        BY <1>1, <1>3, <2>2, <3>1
    <2>4. Q = 0
      BY <2>3
    <2> HIDE DEF Q
    <2>5. QED
      BY <1>1, <1>2, <2>4
  <1>7. QED
    BY <1>4, <1>5, <1>6

\* And at least what it takes from it.
LEMMA NotLess ==
    ASSUME NEW m \in Nat, NEW v \in Nat, 10 * v <= m, NEW E \in Nat \ {0},
           NEW B \in Nat \ {0}, NEW k \in Nat, k >= (m * B) \div (10 * E),
           NEW g \in Nat \ {0},
           \/ B = E * g
           \/ /\ E = B * g /\ 5 * E <= m
              /\ 20 * (E * k) >= 2 * (m * B) - 10 * E
    PROVE  /\ (E * k) \div B \in Nat
           /\ ((E * k) \div B) * B >= v * (B - 1)
  <1> DEFINE n == (E * k) \div B
  <1>1. CASE B = E * g
    <2>1. v * g \in Nat /\ m * B \in Nat /\ 10 * E \in Nat \ {0}
      OBVIOUS
    <2>2. m * B >= (10 * E) * (v * g)
      <3>1. m * B >= (10 * v) * B
        OBVIOUS
      <3>2. (10 * v) * B = (10 * E) * (v * g)
        BY <1>1
      <3>3. QED
        BY <3>1, <3>2
    <2>3. (m * B) \div (10 * E) >= v * g /\ (m * B) \div (10 * E) \in Nat
      <3> DEFINE a == m * B
                 u == 10 * E
                 t == v * g
      <3>1. a \in Nat /\ u \in Nat \ {0} /\ t \in Nat /\ a >= u * t
        BY <2>1, <2>2
      <3> HIDE DEF a, u, t
      <3>2. a \div u >= t /\ a \div u \in Nat
        BY <3>1, DivAtLeast
      <3>3. QED
        BY <3>2 DEF a, u, t
    <2>4. k >= v * g
      BY <2>1, <2>3
    <2>5. E * k >= B * v
      <3> DEFINE t == v * g
      <3>1. E * k >= E * t
        <4>1. t \in Nat /\ k >= t
          BY <2>1, <2>4
        <4> HIDE DEF t
        <4>2. QED
          BY <4>1
      <3>2. E * t = B * v
        BY <1>1
      <3>3. QED
        BY <3>1, <3>2
    <2>6. n \in Nat /\ n >= v
      <3>1. E * k \in Nat
        OBVIOUS
      <3> HIDE DEF n
      <3>2. QED
        BY <2>5, <3>1, DivAtLeast DEF n
    <2> HIDE DEF n
    <2>7. n * B >= v * B
      BY <2>6
    <2>8. v * (B - 1) = v * B - v /\ v * B \in Nat /\ n * B \in Nat
      BY <2>6
    <2>9. n * B >= v * (B - 1)
      BY <2>7, <2>8
    <2>10. QED
      BY <2>6, <2>9 DEF n
  <1>2. CASE /\ E = B * g /\ 5 * E <= m
             /\ 20 * (E * k) >= 2 * (m * B) - 10 * E
    <2>1. g * k \in Nat /\ E * k = B * (g * k) + 0 /\ E * k \in Nat
      BY <1>2
    <2>2. n = g * k
      <3> DEFINE a == E * k
                 t == g * k
      <3>1. a \in Int /\ t \in Int /\ a = B * t + 0 /\ 0 \in 0..B - 1
        BY <2>1
      <3> HIDE DEF a, t
      <3>2. a \div B = t
        BY <3>1, DivUnique
      <3>3. QED
        BY <3>2 DEF a, t
    <2> HIDE DEF n
    <2>3. n * B = E * k /\ n \in Nat
      BY <2>1, <2>2
    <2>4. m * (B - 1) = m * B - m /\ m * B \in Nat
      OBVIOUS
    <2>5. m * (B - 1) >= (10 * v) * (B - 1) /\ (10 * v) * (B - 1) = 10 * (v * (B - 1))
          /\ v * (B - 1) \in Int
      OBVIOUS
    <2> DEFINE P == E * k
               M == m * B
               V == v * (B - 1)
    <2>6. 20 * P >= 2 * M - 10 * E /\ P \in Nat /\ M \in Nat /\ V \in Int /\ M - m >= 10 * V
      BY <1>2, <2>1, <2>4, <2>5
    <2> HIDE DEF P, M, V
    <2>7. P >= V
      BY <1>2, <2>6
    <2>8. QED
      BY <2>3, <2>7 DEF P, V, n
  <1>3. QED
    BY <1>1, <1>2

\* The exponent of a number and tenths.
LEMMA ExponentIs ==
    ASSUME NEW m \in 0..10 * MaxValue + 9
    PROVE  LET P(e) == m < 10 * 2 ^ e /\ (e = 0 \/ m >= 10 * 2 ^ (e - 1))
               c == CHOOSE e \in 0..4 * MaxDigits : P(e)
           IN  c \in 0..4 * MaxDigits /\ P(c)
  <1> DEFINE P(e) == m < 10 * 2 ^ e /\ (e = 0 \/ m >= 10 * 2 ^ (e - 1))
             c == CHOOSE e \in 0..4 * MaxDigits : P(e)
             T == {e \in 0..4 * MaxDigits : m < 10 * 2 ^ e}
             top == 4 * MaxDigits
  <1>0. m \in Nat /\ MaxValue \in Nat /\ top \in Nat /\ MaxValue < 2 ^ top
    BY SignatureAssumption
  <1>1. top \in Exponents /\ \A e \in 0..top : e \in Exponents
    BY <1>0, PowersOfTwo
  <1>2. m < 10 * 2 ^ top
    <2>1. 2 ^ top \in Nat
      BY <1>1, PowersOfTwo
    <2> DEFINE t == 2 ^ top
    <2> HIDE DEF t, top
    <2>2. t \in Nat /\ MaxValue < t
      BY <1>0, <2>1 DEF t
    <2>3. m < 10 * t
      BY <1>0, <2>2
    <2>4. QED
      BY <2>3 DEF t
  <1>3. T \subseteq Nat /\ T # {}
    BY <1>0, <1>2
  <1>4. PICK e \in T : \A f \in T : e <= f
    <2> HIDE DEF T
    <2>1. QED
      BY <1>3, SmallestOf
  <1>5. e \in 0..top /\ m < 10 * 2 ^ e
    BY <1>4
  <1>6. e # 0 => m >= 10 * 2 ^ (e - 1)
    <2> SUFFICES ASSUME e # 0 PROVE m >= 10 * 2 ^ (e - 1)
      OBVIOUS
    <2>1. e - 1 \in 0..top /\ ~(e <= e - 1)
      BY <1>0, <1>5
    <2>2. ~(m < 10 * 2 ^ (e - 1))
      BY <1>4, <2>1
    <2>3. 2 ^ (e - 1) \in Nat
      BY <1>1, <2>1, PowersOfTwo
    <2>4. QED
      BY <1>0, <2>2, <2>3
  <1>7. P(e)
    BY <1>5, <1>6
  <1> HIDE DEF P
  <1>8. c \in 0..4 * MaxDigits /\ P(c)
    BY <1>5, <1>7
  <1>9. QED
    BY <1>8 DEF P

\* A number and tenths are read as near as the precision allows.
LEMMA TruncatedIs ==
    ASSUME NEW v \in 0..MaxValue, NEW f \in 0..9, NEW bits \in {Float, Dotted}
    PROVE  /\ Truncated(10 * v + f, 10, bits) \in Nat
           /\ Near(Truncated(10 * v + f, 10, bits), v, f, bits)
  <1> DEFINE m == 10 * v + f
             P(x) == m < 10 * 2 ^ x /\ (x = 0 \/ m >= 10 * 2 ^ (x - 1))
             e == CHOOSE x \in 0..4 * MaxDigits : P(x)
             E == 2 ^ e
             B == 2 ^ bits
             k == Nearest(m * B, 10 * E)
             n == (E * k) \div B
  <1>0. /\ v \in Nat /\ f \in Nat /\ MaxValue \in Nat /\ m \in Nat
        /\ m \in 0..10 * MaxValue + 9 /\ 10 * v <= m
    BY SignatureAssumption
  <1>1. Truncated(m, 10, bits) = n
    BY Zenon DEF Truncated, Nearest
  <1>2. e \in 0..4 * MaxDigits /\ P(e)
    <2> HIDE DEF m
    <2>1. QED
      BY <1>0, ExponentIs
  <1> HIDE DEF e, m
  <1>3. /\ e \in Exponents /\ bits \in Exponents /\ e \in Nat /\ bits \in Nat
        /\ E \in Nat \ {0} /\ B \in Nat \ {0}
    BY <1>2, PowersOfTwo
  <1>4. (E = 1 /\ m < 10) \/ 5 * E <= m
    <2>1. CASE e = 0
      BY <1>0, <1>2, <2>1, PowersOfTwo
    <2>2. CASE e # 0
      <3> DEFINE h == 2 ^ (e - 1)
      <3>1. E = 2 * h /\ h \in Nat /\ m >= 10 * h
        BY <1>2, <1>3, <2>2, PowersOfTwo
      <3> HIDE DEF h, E
      <3>2. QED
        BY <1>0, <3>1
    <2>3. QED
      BY <2>1, <2>2
  <1>5. e > bits => 5 * E <= m
    <2> SUFFICES ASSUME e > bits PROVE 5 * E <= m
      OBVIOUS
    <2>1. e # 0
      BY <1>3
    <2> DEFINE h == 2 ^ (e - 1)
    <2>2. E = 2 * h /\ h \in Nat /\ m >= 10 * h
      BY <1>2, <1>3, <2>1, PowersOfTwo
    <2> HIDE DEF h, E
    <2>3. QED
      BY <1>0, <2>2
  <1>6. \E g \in Nat \ {0} : (e <= bits /\ B = E * g) \/ (e > bits /\ E = B * g)
    <2>1. CASE e <= bits
      BY <1>3, <2>1, PowersDivide
    <2>2. CASE e > bits
      <3>1. bits <= e
        BY <1>3, <2>2
      <3>2. PICK g \in Nat \ {0} : E = B * g
        BY <1>3, <3>1, PowersDivide
      <3>3. QED
        BY <2>2, <3>2
    <2>3. QED
      BY <1>3, <2>1, <2>2
  <1> HIDE DEF E, B
  <1>7. PICK g \in Nat \ {0} : B = E * g \/ (E = B * g /\ 5 * E <= m)
    BY <1>5, <1>6
  <1> DEFINE a == m * B
             u == 10 * E
  <1>8. a \in Nat /\ u \in Nat \ {0}
    BY <1>0, <1>3
  <1>9. /\ k \in Nat /\ k >= a \div u
        /\ 2 * (u * k) <= 2 * a + u /\ 2 * (u * k) >= 2 * a - u
    <2> HIDE DEF a, u, k
    <2>1. k = Nearest(a, u)
      BY DEF a, u, k
    <2>2. QED
      BY <1>8, <2>1, NearestIs
  <1> HIDE DEF k
  <1>10. /\ 20 * (E * k) <= 2 * (m * B) + 10 * E
         /\ 20 * (E * k) >= 2 * (m * B) - 10 * E
    <2>1. u * k = 10 * (E * k) /\ E * k \in Int
      BY <1>3, <1>9
    <2> DEFINE x == E * k
    <2> HIDE DEF x, a, u
    <2>2. 2 * (10 * x) <= 2 * a + u /\ 2 * (10 * x) >= 2 * a - u /\ x \in Int
      BY <1>9, <2>1 DEF x
    <2>3. 20 * x <= 2 * a + u /\ 20 * x >= 2 * a - u
      BY <1>8, <2>2
    <2>4. QED
      BY <2>3 DEF x, a, u
  <1>11. n \in Nat /\ n * B >= v * (B - 1)
    BY <1>0, <1>3, <1>7, <1>9, <1>10, NotLess
  <1>12. n * B <= E * k
    <2> DEFINE x == E * k
               y == x \div B
               z == x % B
    <2>1. x \in Nat
      BY <1>3, <1>9
    <2> HIDE DEF x
    <2>2. y \in Int /\ z \in 0..B - 1 /\ x = B * y + z
      BY <1>3, <2>1
    <2>3. n = y
      BY DEF x
    <2> HIDE DEF y, z, n
    <2>4. y * B = B * y /\ B * y \in Int
      BY <1>3, <2>2
    <2>5. n * B <= x
      BY <1>3, <2>2, <2>3, <2>4
    <2>6. QED
      BY <2>5 DEF x
  <1> HIDE DEF n
  <1>13. 10 * n * B <= m * (B + 1)
    BY <1>0, <1>3, <1>4, <1>9, <1>10, <1>11, <1>12, NotMore
  <1>14. n \in Nat /\ Near(n, v, f, bits)
    BY <1>11, <1>13 DEF Near, m, B
  <1>15. Truncated(10 * v + f, 10, bits) = n
    BY <1>1 DEF m
  <1>16. QED
    BY <1>14, <1>15

\* Sequences with the same elements.
LEMMA SameElements ==
    ASSUME NEW S, NEW a \in Seq(S), NEW b \in Seq(S), Len(a) = Len(b),
           \A i \in 1..Len(a) : a[i] = b[i]
    PROVE  a = b
  OBVIOUS

\* One more digit.
LEMMA NumberAppend ==
    ASSUME NEW b, NEW s \in Seq(Nat), NEW h, Values(s, b, h), NEW x \in Nat
    PROVE  Number(s \o <<x>>, b) = b * h[Len(s)] + x
  <1> DEFINE l == Len(s)
             t == s \o <<x>>
             g == [i \in 0..l + 1 |-> IF i <= l THEN h[i] ELSE b * h[l] + x]
  <1>1. l \in Nat /\ Len(t) = l + 1 /\ t[l + 1] = x /\ \A i \in 1..l : t[i] = s[i]
    OBVIOUS
  <1> HIDE DEF t
  <1>2. ASSUME NEW i \in 0..l + 1
        PROVE  g[i] = IF i = 0 THEN 0 ELSE b * g[i - 1] + t[i]
    <2>1. CASE i \in 0..l
      <3>1. h[i] = IF i = 0 THEN 0 ELSE b * h[i - 1] + s[i]
        BY <2>1 DEF Values
      <3>2. g[i] = h[i] /\ (i # 0 => g[i - 1] = h[i - 1] /\ t[i] = s[i])
        BY <1>1, <2>1
      <3>3. QED
        BY <3>1, <3>2
    <2>2. CASE i = l + 1
      BY <1>1, <2>2
    <2>3. QED
      BY <1>1, <2>1, <2>2
  <1>3. Values(t, b, g)
    <2> DEFINE f == [i \in 0..Len(t) |-> IF i = 0 THEN 0 ELSE b * g[i - 1] + t[i]]
    <2>1. \A i \in 0..l + 1 : g[i] = f[i]
      BY <1>1, <1>2
    <2>2. g = f
      BY <1>1, <2>1
    <2>3. QED
      BY <2>2 DEF Values
  <1>4. g[l + 1] = b * h[l] + x
    BY <1>1
  <1> HIDE DEF g
  <1>5. Number(t, b) = g[l + 1]
    BY <1>1, <1>3, NumberIs
  <1>6. QED
    BY <1>4, <1>5 DEF t, l

\* No digit, and the digit 1.
LEMMA NumberSmall == Number(<<>>, 10) = 0 /\ Number(<<1>>, 10) = 1
  <1> DEFINE h == [i \in 0..0 |-> 0]
  <1>1. Values(<<>>, 10, h)
    <2>1. Len(<<>>) = 0
      OBVIOUS
    <2>2. h = [i \in 0..0 |-> IF i = 0 THEN 0 ELSE 10 * h[i - 1] + <<>>[i]]
      OBVIOUS
    <2>3. QED
      BY <2>1, <2>2 DEF Values
  <1>2. h[0] = 0 /\ Len(<<>>) = 0 /\ <<>> \in Seq(Nat) /\ <<>> \o <<1>> = <<1>>
    OBVIOUS
  <1> HIDE DEF h
  <1>3. Number(<<>>, 10) = h[0]
    BY <1>1, <1>2, NumberIs
  <1>4. Number(<<>> \o <<1>>, 10) = 10 * h[0] + 1
    <2> DEFINE e == <<>>
    <2>1. e \in Seq(Nat) /\ Len(e) = 0 /\ Values(e, 10, h) /\ 1 \in Nat
      BY <1>1, <1>2
    <2> HIDE DEF e
    <2>2. Number(e \o <<1>>, 10) = 10 * h[Len(e)] + 1
      BY <2>1, NumberAppend
    <2>3. QED
      BY <2>1, <2>2 DEF e
  <1>5. QED
    BY <1>2, <1>3, <1>4

LEMMA PowersTen == 10 ^ 0 = 1 /\ 10 ^ 1 = 10
  <1>1. 0 \in 0..MaxDigits /\ 0 + 1 = 1
    BY SignatureAssumption
  <1>2. 10 ^ 0 = 1 /\ 10 ^ (0 + 1) = 10 * 10 ^ 0
    BY <1>1, PowersAssumption
  <1>3. QED
    BY <1>1, <1>2

\* The text of a number.
LEMMA TextIs ==
    ASSUME NEW v \in 0..MaxValue, NEW b \in {10, 16}
    PROVE  /\ Text(v, b) \in Seq(0..b - 1) /\ Len(Text(v, b)) > 0
           /\ Number(Text(v, b), b) = v
           /\ \E h : Values(Text(v, b), b, h) /\ h[Len(Text(v, b))] = v
  <1> DEFINE l == IF v = 0 THEN 1 ELSE Length(v, MaxDigits, b)
             t == Text(v, b)
  <1>1. /\ Radix(b, MaxDigits) /\ v \in Nat /\ MaxDigits \in Nat \ {0} /\ v < b ^ MaxDigits
        /\ b \in Nat /\ b > 1
    <2>1. Radix(b, MaxDigits) /\ v \in Nat /\ v <= MaxValue /\ MaxDigits \in Nat \ {0}
          /\ MaxDigits \in 0..MaxDigits /\ MaxValue < b ^ MaxDigits /\ MaxValue \in Nat
      BY Radixes, SignatureAssumption
    <2>2. b ^ MaxDigits \in Nat
      BY <2>1 DEF Radix
    <2>3. QED
      BY <2>1, <2>2
  <1>2. l \in 0..MaxDigits /\ l > 0 /\ v < b ^ l
    <2>1. CASE v = 0
      <3>1. 1 \in 0..MaxDigits
        BY <1>1
      <3>2. b ^ 1 \in Nat \ {0}
        BY <1>1, <3>1 DEF Radix
      <3>3. QED
        BY <2>1, <3>1, <3>2
    <2>2. CASE v # 0
      <3>1. /\ Length(v, MaxDigits, b) \in 0..MaxDigits /\ v < b ^ Length(v, MaxDigits, b)
            /\ Length(v, MaxDigits, b) # 0
        BY <1>1, <2>2, LengthOf
      <3>2. QED
        BY <1>1, <2>2, <3>1
    <2>3. QED
      BY <2>1, <2>2
  <1>3. t = Digits(v, l, b)
    BY Zenon DEF Text
  <1> HIDE DEF t, l
  <1>4. t \in Seq(0..b - 1) /\ Len(t) = l /\ DigitsOf(t, b, l, l, v)
    BY <1>1, <1>2, <1>3, DigitsAre
  <1>5. l \in 0..l
    BY <1>1, <1>2
  <1>6. Number(t, b) = v /\ \E h : Values(t, b, h) /\ h[Len(t)] = v
    BY <1>1, <1>2, <1>4, <1>5, NumberOf
  <1>7. QED
    BY <1>2, <1>4, <1>6 DEF t

\* A part of a sequence.
LEMMA SubSeqIs ==
    ASSUME NEW S, NEW t \in Seq(S), NEW a \in 1..Len(t) + 1, NEW b \in 0..Len(t)
    PROVE  /\ SubSeq(t, a, b) \in Seq(S)
           /\ Len(SubSeq(t, a, b)) = IF a <= b THEN b - a + 1 ELSE 0
           /\ \A i \in 1..b - a + 1 : SubSeq(t, a, b)[i] = t[a + i - 1]
  BY SubSeqProperties

LEMMA OneElement ==
    ASSUME NEW t \in Seq(Nat), NEW j \in 1..Len(t)
    PROVE  SubSeq(t, j, j) = <<t[j]>>
  <1> DEFINE u == SubSeq(t, j, j)
             w == <<t[j]>>
  <1>1. j \in 1..Len(t) + 1 /\ j \in 0..Len(t) /\ j - j + 1 = 1 /\ j + 1 - 1 = j /\ j <= j
    OBVIOUS
  <1>2. u \in Seq(Nat) /\ Len(u) = 1 /\ u[1] = t[j]
    <2>1. /\ u \in Seq(Nat) /\ Len(u) = IF j <= j THEN j - j + 1 ELSE 0
          /\ \A i \in 1..j - j + 1 : u[i] = t[j + i - 1]
      BY <1>1, SubSeqIs
    <2> HIDE DEF u
    <2>2. QED
      BY <1>1, <2>1
  <1>3. w \in Seq(Nat) /\ Len(w) = 1 /\ w[1] = t[j]
    OBVIOUS
  <1> HIDE DEF u, w
  <1>4. \A i \in 1..Len(u) : u[i] = w[i]
    BY <1>2, <1>3
  <1>5. u = w
    BY <1>2, <1>3, <1>4, SameElements
  <1>6. QED
    BY <1>5 DEF u, w

LEMMA Beginning ==
    ASSUME NEW t \in Seq(Nat), NEW s \in Seq(0..9), Len(s) <= Len(t),
           \A i \in 1..Len(s) : t[i] = s[i]
    PROVE  SubSeq(t, 1, Len(s)) = s
  <1> DEFINE l == Len(s)
             u == SubSeq(t, 1, l)
  <1>1. l \in Nat /\ s \in Seq(Nat) /\ 1 \in 1..Len(t) + 1 /\ l \in 0..Len(t)
    OBVIOUS
  <1>2. /\ u \in Seq(Nat) /\ Len(u) = IF 1 <= l THEN l - 1 + 1 ELSE 0
        /\ \A i \in 1..l - 1 + 1 : u[i] = t[1 + i - 1]
    BY <1>1, SubSeqIs
  <1> HIDE DEF u
  <1>3. Len(u) = l /\ \A i \in 1..l : u[i] = s[i]
    BY <1>1, <1>2
  <1>4. u = s
    BY <1>1, <1>2, <1>3, SameElements
  <1>5. QED
    BY <1>4 DEF u, l

\* How a text with a point is taken apart.
DigitsBut(t, dot, end) ==
    \A i \in 1..Len(t) : i \notin {dot, end} => t[i] \in 0..9

LEMMA FloatIs ==
    ASSUME NEW t, Len(t) \in Nat, NEW dot \in 1..Len(t), NEW end \in 1..Len(t) + 1,
           t[dot] = Dot, dot < end,
           end = Len(t) + 1 \/ t[end] = Letter_e,
           DigitsBut(t, dot, end),
           NEW mantissa, mantissa = SubSeq(t, 1, dot - 1) \o SubSeq(t, dot + 1, end - 1),
           NEW exponent, exponent = SubSeq(t, end + 1, Len(t)),
           mantissa # <<>>, exponent # <<>> \/ end = Len(t) + 1
    PROVE  FloatSetString(t) = Truncated(Number(mantissa, 10) * 10 ^ Number(exponent, 10),
                                         10 ^ (end - dot - 1), Dotted)
  <1> DEFINE Last(i) == /\ i = Len(t) + 1 \/ t[i] = Letter_e
                        /\ \A j \in 1..i - 1 : t[j] # Letter_e
             D == CHOOSE i \in 1..Len(t) : t[i] = Dot
             E == CHOOSE i \in 1..Len(t) + 1 : Last(i)
  <1>1. D = dot
    <2>1. \A i \in 1..Len(t) : t[i] = Dot => i = dot
      <3> SUFFICES ASSUME NEW i \in 1..Len(t), t[i] = Dot, i # dot PROVE FALSE
        OBVIOUS
      <3>1. t[i] \notin 0..9 /\ t[i] # Letter_e
        BY DEF Dot, Letter_e
      <3>2. i = end
        BY <3>1 DEF DigitsBut
      <3>3. QED
        BY <3>1, <3>2
    <2>2. QED
      BY <2>1
  <1>2. E = end
    <2>1. Last(end)
      <3>1. ASSUME NEW j \in 1..end - 1 PROVE t[j] # Letter_e
        <4>1. j \in 1..Len(t) /\ j # end
          OBVIOUS
        <4>2. CASE j = dot
          BY <4>2 DEF Dot, Letter_e
        <4>3. CASE j # dot
          <5>1. t[j] \in 0..9
            BY <4>1, <4>3 DEF DigitsBut
          <5>2. QED
            BY <5>1 DEF Letter_e
        <4>4. QED
          BY <4>2, <4>3
      <3>2. QED
        BY <3>1
    <2>2. ASSUME NEW i \in 1..Len(t) + 1, Last(i) PROVE i = end
      <3>1. CASE i < end
        <4>1. t[i] = Letter_e /\ i \in 1..end - 1
          BY <2>2, <3>1
        <4>2. QED
          BY <2>1, <4>1
      <3>2. CASE i > end
        <4>1. t[end] = Letter_e /\ end \in 1..i - 1
          BY <2>2, <3>2
        <4>2. QED
          BY <2>2, <4>1
      <3>3. QED
        BY <3>1, <3>2
    <2> HIDE DEF Last
    <2>3. QED
      BY <2>1, <2>2
  <1>3. FloatSetString(t) =
           IF /\ D < E /\ SubSeq(t, 1, D - 1) \o SubSeq(t, D + 1, E - 1) # <<>>
              /\ SubSeq(t, E + 1, Len(t)) # <<>> \/ E = Len(t) + 1
              /\ \A i \in 1..Len(t) : i \notin {D, E} => t[i] < 10
           THEN Truncated(Number(SubSeq(t, 1, D - 1) \o SubSeq(t, D + 1, E - 1), 10)
                             * 10 ^ Number(SubSeq(t, E + 1, Len(t)), 10),
                          10 ^ (E - D - 1), Dotted)
           ELSE 0
    BY Zenon DEF FloatSetString
  <1>4. \A i \in 1..Len(t) : i \notin {dot, end} => t[i] < 10
    <2> SUFFICES ASSUME NEW i \in 1..Len(t), i \notin {dot, end} PROVE t[i] < 10
      OBVIOUS
    <2>1. t[i] \in 0..9
      BY DEF DigitsBut
    <2>2. QED
      BY ONLY <2>1
  <1> HIDE DEF D, E
  <1>5. QED
    BY <1>1, <1>2, <1>3, <1>4, Zenon

\* A text with a point and tenths.
LEMMA DottedIs ==
    ASSUME NEW s \in Seq(0..9), Len(s) > 0, NEW h, Values(s, 10, h), h[Len(s)] \in Nat,
           NEW f \in 0..9
    PROVE  FloatSetString(s \o <<Dot, f>>) = Truncated(10 * h[Len(s)] + f, 10, Dotted)
  <1> DEFINE l == Len(s)
             t == s \o <<Dot, f>>
             mantissa == SubSeq(t, 1, (l + 1) - 1) \o SubSeq(t, (l + 1) + 1, (l + 3) - 1)
             exponent == SubSeq(t, (l + 3) + 1, Len(t))
  <1>1. /\ l \in Nat /\ t \in Seq(Nat) /\ Len(t) = l + 2 /\ t[l + 1] = Dot /\ t[l + 2] = f
        /\ \A i \in 1..l : t[i] = s[i]
    BY DEF Dot
  <1> HIDE DEF t
  <1>2. DigitsBut(t, l + 1, l + 3)
    <2> SUFFICES ASSUME NEW i \in 1..Len(t), i # l + 1 PROVE t[i] \in 0..9
      BY DEF DigitsBut
    <2>1. i \in 1..l \/ i = l + 2
      BY <1>1
    <2>2. \A j \in 1..l : s[j] \in 0..9
      OBVIOUS
    <2>3. QED
      BY <1>1, <2>1, <2>2
  <1>3. SubSeq(t, 1, l) = s /\ SubSeq(t, l + 2, l + 2) = <<f>> /\ SubSeq(t, l + 4, l + 2) = <<>>
    <2>1. SubSeq(t, 1, l) = s
      BY <1>1, Beginning
    <2>2. SubSeq(t, l + 2, l + 2) = <<f>>
      <3>1. l + 2 \in 1..Len(t)
        BY <1>1
      <3>2. QED
        BY <1>1, <3>1, OneElement
    <2>3. SubSeq(t, l + 4, l + 2) = <<>>
      <3>1. l + 4 \in Int /\ l + 2 \in Int /\ l + 2 < l + 4
        BY <1>1
      <3>2. QED
        BY <3>1, SubSeqEmpty
    <2>4. QED
      BY <2>1, <2>2, <2>3
  <1>4. (l + 1) - 1 = l /\ (l + 1) + 1 = l + 2 /\ (l + 3) - 1 = l + 2 /\ (l + 3) + 1 = l + 4
        /\ (l + 3) - (l + 1) - 1 = 1
    BY <1>1
  <1>5. mantissa = s \o <<f>> /\ exponent = <<>>
    BY <1>1, <1>3, <1>4
  <1>6. s \o <<f>> # <<>>
    OBVIOUS
  <1> HIDE DEF mantissa, exponent
  <1>7. FloatSetString(t) = Truncated(Number(mantissa, 10) * 10 ^ Number(exponent, 10),
                                      10 ^ ((l + 3) - (l + 1) - 1), Dotted)
    <2> DEFINE dot == l + 1
               end == l + 3
    <2>1. /\ Len(t) \in Nat /\ dot \in 1..Len(t) /\ end \in 1..Len(t) + 1
          /\ dot < end /\ t[dot] = Dot /\ (end = Len(t) + 1 \/ t[end] = Letter_e)
      BY <1>1
    <2>2. mantissa = SubSeq(t, 1, dot - 1) \o SubSeq(t, dot + 1, end - 1)
          /\ exponent = SubSeq(t, end + 1, Len(t))
      BY DEF mantissa, exponent
    <2>3. mantissa # <<>> /\ (exponent # <<>> \/ end = Len(t) + 1)
      BY <1>1, <1>5, <1>6
    <2>4. DigitsBut(t, dot, end)
      BY <1>2
    <2> HIDE DEF dot, end
    <2>5. FloatSetString(t) = Truncated(Number(mantissa, 10) * 10 ^ Number(exponent, 10),
                                        10 ^ (end - dot - 1), Dotted)
      BY <2>1, <2>2, <2>3, <2>4, FloatIs
    <2>6. QED
      BY <2>5 DEF dot, end
  <1>8. Number(s \o <<f>>, 10) = 10 * h[l] + f
    <2>1. s \in Seq(Nat) /\ f \in Nat
      OBVIOUS
    <2>2. QED
      BY <2>1, NumberAppend
  <1>9. 10 ^ 0 = 1 /\ 10 ^ 1 = 10
    BY PowersTen
  <1>10. (10 * h[l] + f) * 1 = 10 * h[l] + f
    OBVIOUS
  <1>11. QED
    BY <1>4, <1>5, <1>7, <1>8, <1>9, <1>10, NumberSmall DEF t, l

\* A text with a point, tenths and the exponent 1.
LEMMA ScientificIs ==
    ASSUME NEW s \in Seq(0..9), Len(s) > 0, NEW h, Values(s, 10, h), h[Len(s)] \in Nat,
           NEW f \in 0..9
    PROVE  FloatSetString(s \o <<Dot, f, Letter_e, 1>>)
              = Truncated(10 * (10 * h[Len(s)] + f) + 0, 10, Dotted)
  <1> DEFINE l == Len(s)
             t == s \o <<Dot, f, Letter_e, 1>>
             mantissa == SubSeq(t, 1, (l + 1) - 1) \o SubSeq(t, (l + 1) + 1, (l + 3) - 1)
             exponent == SubSeq(t, (l + 3) + 1, Len(t))
  <1>1. /\ l \in Nat /\ t \in Seq(Nat) /\ Len(t) = l + 4 /\ t[l + 1] = Dot /\ t[l + 2] = f
        /\ t[l + 3] = Letter_e /\ t[l + 4] = 1
        /\ \A i \in 1..l : t[i] = s[i]
    BY DEF Dot, Letter_e
  <1> HIDE DEF t
  <1>2. DigitsBut(t, l + 1, l + 3)
    <2> SUFFICES ASSUME NEW i \in 1..Len(t), i # l + 1, i # l + 3 PROVE t[i] \in 0..9
      BY DEF DigitsBut
    <2>1. i \in 1..l \/ i = l + 2 \/ i = l + 4
      <3>1. i \in 1..l + 4 /\ l \in Nat
        BY <1>1
      <3> HIDE DEF l
      <3>2. QED
        BY <3>1
    <2>2. \A j \in 1..l : s[j] \in 0..9
      OBVIOUS
    <2>3. CASE i \in 1..l
      BY <1>1, <2>2, <2>3
    <2>4. CASE i = l + 2
      BY <1>1, <2>4
    <2>5. CASE i = l + 4
      <3>1. t[i] = 1
        BY <1>1, <2>5
      <3>2. QED
        BY <3>1
    <2>6. QED
      BY <2>1, <2>3, <2>4, <2>5
  <1>3. SubSeq(t, 1, l) = s /\ SubSeq(t, l + 2, l + 2) = <<f>> /\ SubSeq(t, l + 4, l + 4) = <<1>>
    <2>1. SubSeq(t, 1, l) = s
      BY <1>1, Beginning
    <2>2. ASSUME NEW j \in {l + 2, l + 4} PROVE SubSeq(t, j, j) = <<t[j]>>
      <3>1. j \in 1..Len(t)
        BY <1>1
      <3>2. QED
        BY <1>1, <3>1, OneElement
    <2>3. QED
      BY <1>1, <2>1, <2>2
  <1>4. (l + 1) - 1 = l /\ (l + 1) + 1 = l + 2 /\ (l + 3) - 1 = l + 2 /\ (l + 3) + 1 = l + 4
        /\ (l + 3) - (l + 1) - 1 = 1
    BY <1>1
  <1>5. mantissa = s \o <<f>> /\ exponent = <<1>>
    BY <1>1, <1>3, <1>4
  <1>6. s \o <<f>> # <<>> /\ <<1>> # <<>>
    OBVIOUS
  <1> HIDE DEF mantissa, exponent
  <1>7. FloatSetString(t) = Truncated(Number(mantissa, 10) * 10 ^ Number(exponent, 10),
                                      10 ^ ((l + 3) - (l + 1) - 1), Dotted)
    <2> DEFINE dot == l + 1
               end == l + 3
    <2>1. /\ Len(t) \in Nat /\ dot \in 1..Len(t) /\ end \in 1..Len(t) + 1
          /\ dot < end /\ t[dot] = Dot /\ (end = Len(t) + 1 \/ t[end] = Letter_e)
      BY <1>1
    <2>2. mantissa = SubSeq(t, 1, dot - 1) \o SubSeq(t, dot + 1, end - 1)
          /\ exponent = SubSeq(t, end + 1, Len(t))
      BY DEF mantissa, exponent
    <2>3. mantissa # <<>> /\ (exponent # <<>> \/ end = Len(t) + 1)
      BY <1>1, <1>5, <1>6
    <2>4. DigitsBut(t, dot, end)
      BY <1>2
    <2> HIDE DEF dot, end
    <2>5. FloatSetString(t) = Truncated(Number(mantissa, 10) * 10 ^ Number(exponent, 10),
                                        10 ^ (end - dot - 1), Dotted)
      BY <2>1, <2>2, <2>3, <2>4, FloatIs
    <2>6. QED
      BY <2>5 DEF dot, end
  <1>8. Number(s \o <<f>>, 10) = 10 * h[l] + f
    <2>1. s \in Seq(Nat) /\ f \in Nat
      OBVIOUS
    <2>2. QED
      BY <2>1, NumberAppend
  <1>9. 10 ^ 1 = 10
    BY PowersTen
  <1>10. (10 * h[l] + f) * 10 = 10 * (10 * h[l] + f) + 0
    OBVIOUS
  <1>11. QED
    BY <1>4, <1>5, <1>7, <1>8, <1>9, <1>10, NumberSmall DEF t, l

\* A text with two points.
LEMMA TwoPoints ==
    ASSUME NEW t, Len(t) \in Nat, NEW i \in 1..Len(t), NEW j \in 1..Len(t), i # j,
           t[i] = Dot, t[j] = Dot, \A k \in 1..Len(t) : t[k] # Letter_e
    PROVE  FloatSetString(t) = 0
  <1> DEFINE Last(e) == /\ e = Len(t) + 1 \/ t[e] = Letter_e
                        /\ \A k \in 1..e - 1 : t[k] # Letter_e
             D == CHOOSE k \in 1..Len(t) : t[k] = Dot
             E == CHOOSE e \in 1..Len(t) + 1 : Last(e)
             Fine == /\ D < E /\ SubSeq(t, 1, D - 1) \o SubSeq(t, D + 1, E - 1) # <<>>
                     /\ SubSeq(t, E + 1, Len(t)) # <<>> \/ E = Len(t) + 1
                     /\ \A k \in 1..Len(t) : k \notin {D, E} => t[k] < 10
  <1>1. FloatSetString(t) =
           IF Fine
           THEN Truncated(Number(SubSeq(t, 1, D - 1) \o SubSeq(t, D + 1, E - 1), 10)
                             * 10 ^ Number(SubSeq(t, E + 1, Len(t)), 10),
                          10 ^ (E - D - 1), Dotted)
           ELSE 0
    BY Zenon DEF FloatSetString
  <1>2. ~Fine
    <2> SUFFICES ASSUME Fine PROVE FALSE
      OBVIOUS
    <2>1. PICK k \in {i, j} : k # D
      OBVIOUS
    <2>2. k \in 1..Len(t) /\ ~(t[k] < 10) /\ t[k] # Letter_e /\ k # Len(t) + 1
      BY <2>1 DEF Dot, Letter_e
    <2>3. k = E
      BY <2>1, <2>2
    <2>4. Len(t) + 1 \in 1..Len(t) + 1 /\ Last(Len(t) + 1)
      OBVIOUS
    <2>5. Last(E)
      <3> HIDE DEF Last
      <3>1. QED
        BY <2>4
    <2>6. QED
      BY <2>2, <2>3, <2>5
  <1>3. QED
    BY <1>1, <1>2, Zenon

\* Which way ParseString reads a text.
Hexadecimal(t) == Len(t) > 2 /\ t[1] = 0 /\ t[2] = Letter_x

Pointed(t) == \E i \in 1..Len(t) : t[i] = Dot

LEMMA ParseStringIs ==
    ASSUME NEW t
    PROVE  /\ Hexadecimal(t) => ParseString(t) = SetString(SubSeq(t, 3, Len(t)), 16)
           /\ ~Hexadecimal(t) /\ Pointed(t) => ParseString(t) = FloatSetString(t)
           /\ ~Hexadecimal(t) /\ ~Pointed(t) => ParseString(t) = SetString(t, 10)
  BY Zenon DEF ParseString, Hexadecimal, Pointed

LEMMA PrefixIs ==
    ASSUME NEW c \in Nat, NEW s \in Seq(0..15)
    PROVE  LET t == <<0, c>> \o s
           IN  /\ t \in Seq(Nat) /\ Len(t) = Len(s) + 2 /\ t[1] = 0 /\ t[2] = c
               /\ \A i \in 1..Len(s) : t[i + 2] = s[i]
  <1> DEFINE x == <<0, c>>
             t == x \o s
  <1>1. x \in Seq(Nat) /\ Len(x) = 2 /\ x[1] = 0 /\ x[2] = c
    OBVIOUS
  <1>2. s \in Seq(Nat) /\ Len(s) \in Nat
    OBVIOUS
  <1> HIDE DEF x
  <1>3. /\ t \in Seq(Nat) /\ Len(t) = Len(x) + Len(s)
        /\ \A i \in 1..Len(x) + Len(s) : t[i] = IF i <= Len(x) THEN x[i] ELSE s[i - Len(x)]
    BY <1>1, <1>2, ConcatIs
  <1> HIDE DEF t
  <1>4. ASSUME NEW i \in 1..Len(s) PROVE t[i + 2] = s[i]
    <2>1. i + 2 \in 1..Len(x) + Len(s) /\ ~(i + 2 <= Len(x)) /\ (i + 2) - Len(x) = i
      BY <1>1, <1>2
    <2>2. QED
      BY <1>3, <2>1
  <1>5. t[1] = 0 /\ t[2] = c /\ Len(t) = Len(s) + 2
    BY <1>1, <1>2, <1>3
  <1>6. QED
    BY <1>3, <1>4, <1>5 DEF t, x

LEMMA ParseHex ==
    ASSUME NEW v \in 0..MaxValue
    PROVE  ParseString(<<0, Letter_x>> \o Text(v, 16)) = v
  <1> DEFINE s == Text(v, 16)
             t == <<0, Letter_x>> \o s
             u == SubSeq(t, 3, Len(t))
  <1>1. s \in Seq(0..15) /\ Len(s) > 0 /\ Number(s, 16) = v
    <2>1. 16 - 1 = 15
      OBVIOUS
    <2>2. QED
      BY <2>1, TextIs
  <1> HIDE DEF s
  <1>2. /\ t \in Seq(Nat) /\ Len(t) = Len(s) + 2 /\ t[1] = 0 /\ t[2] = Letter_x
        /\ \A i \in 1..Len(s) : t[i + 2] = s[i]
    <2>1. Letter_x \in Nat
      BY DEF Letter_x
    <2>2. QED
      BY <1>1, <2>1, PrefixIs
  <1> HIDE DEF t
  <1>3. Hexadecimal(t)
    BY <1>1, <1>2 DEF Hexadecimal
  <1>4. u = s
    <2>1. 3 \in 1..Len(t) + 1 /\ Len(t) \in 0..Len(t) /\ Len(s) \in Nat
      BY <1>1, <1>2
    <2>2. /\ u \in Seq(Nat) /\ Len(u) = IF 3 <= Len(t) THEN Len(t) - 3 + 1 ELSE 0
          /\ \A i \in 1..Len(t) - 3 + 1 : u[i] = t[3 + i - 1]
      BY <1>2, <2>1, SubSeqIs
    <2> HIDE DEF u
    <2>3. Len(u) = Len(s) /\ s \in Seq(Nat)
      <3>1. Len(t) = Len(s) + 2 /\ Len(s) > 0
        BY <1>1, <1>2
      <3>2. 3 <= Len(t) /\ Len(t) - 3 + 1 = Len(s)
        BY <2>1, <3>1
      <3>3. s \in Seq(Nat)
        BY <1>1
      <3>4. QED
        BY <2>2, <3>2, <3>3
    <2>4. ASSUME NEW i \in 1..Len(u) PROVE u[i] = s[i]
      <3>1. i \in 1..Len(t) - 3 + 1 /\ 3 + i - 1 = i + 2 /\ i \in 1..Len(s)
        BY <1>2, <2>1, <2>3
      <3>2. QED
        BY <1>2, <2>2, <3>1
    <2>5. QED
      BY <2>2, <2>3, <2>4, SameElements
  <1>5. SetString(s, 16) = Number(s, 16)
    <2>1. s # <<>> /\ \A i \in 1..Len(s) : s[i] < 16
      BY <1>1
    <2>2. QED
      BY <2>1, Zenon DEF SetString
  <1> HIDE DEF u
  <1>6. ParseString(t) = SetString(u, 16)
    BY <1>3, ParseStringIs DEF u
  <1>7. QED
    BY <1>1, <1>4, <1>5, <1>6 DEF t, s

\* Characters are numbers.
LEMMA CharactersAre ==
    ASSUME NEW t \in Seq(0..16)
    PROVE  t \in Seq(Nat)
  OBVIOUS

\* The digits of a number and what follows them.
LEMMA DigitsThen ==
    ASSUME NEW v \in 0..MaxValue, NEW tail \in Seq(0..16)
    PROVE  LET s == Text(v, 10)
               t == s \o tail
           IN  /\ s \in Seq(0..9) /\ Len(s) \in Nat /\ Len(s) > 0
               /\ t \in Seq(Nat) /\ Len(t) = Len(s) + Len(tail)
               /\ \A i \in 1..Len(s) : t[i] = s[i] /\ t[i] \in 0..9
               /\ \A i \in 1..Len(tail) : t[Len(s) + i] = tail[i]
               /\ ~Hexadecimal(t)
  <1> DEFINE s == Text(v, 10)
             t == s \o tail
  <1>1. s \in Seq(0..9) /\ Len(s) > 0
    <2>1. 10 - 1 = 9
      OBVIOUS
    <2>2. QED
      BY <2>1, TextIs
  <1> HIDE DEF s
  <1>2. s \in Seq(0..16) /\ Len(s) \in Nat /\ Len(tail) \in Nat
    BY <1>1
  <1>3. /\ t \in Seq(0..16) /\ Len(t) = Len(s) + Len(tail)
        /\ \A i \in 1..Len(s) + Len(tail) :
              t[i] = IF i <= Len(s) THEN s[i] ELSE tail[i - Len(s)]
    BY <1>2, ConcatIs
  <1> HIDE DEF t
  <1>4. ~Hexadecimal(t)
    <2> SUFFICES ASSUME Len(t) > 2, t[2] = Letter_x PROVE FALSE
      BY DEF Hexadecimal
    <2>1. t[2] \in 0..16
      BY <1>3
    <2>2. QED
      BY <2>1 DEF Letter_x
  <1>5. \A i \in 1..Len(s) : t[i] = s[i] /\ t[i] \in 0..9
    BY <1>1, <1>2, <1>3
  <1>6. ASSUME NEW i \in 1..Len(tail) PROVE t[Len(s) + i] = tail[i]
    <2>1. /\ Len(s) + i \in 1..Len(s) + Len(tail) /\ ~(Len(s) + i <= Len(s))
          /\ (Len(s) + i) - Len(s) = i
      BY <1>2
    <2>2. QED
      BY <1>3, <2>1
  <1>7. t \in Seq(Nat)
    BY <1>3, CharactersAre
  <1>8. QED
    BY <1>1, <1>2, <1>3, <1>4, <1>5, <1>6, <1>7 DEF s, t

LEMMA ParseDecimal ==
    ASSUME NEW v \in 0..MaxValue
    PROVE  ParseString(Text(v, 10)) = v
  <1> DEFINE s == Text(v, 10)
  <1>1. s \in Seq(0..9) /\ Len(s) > 0 /\ Number(s, 10) = v
    <2>1. 10 - 1 = 9
      OBVIOUS
    <2>2. QED
      BY <2>1, TextIs
  <1> HIDE DEF s
  <1>2. ~Hexadecimal(s) /\ ~Pointed(s)
    BY <1>1 DEF Hexadecimal, Pointed, Letter_x, Dot
  <1>3. s # <<>> /\ \A i \in 1..Len(s) : s[i] < 10
    BY <1>1
  <1>4. SetString(s, 10) = Number(s, 10)
    BY <1>3, Zenon DEF SetString
  <1>5. QED
    BY <1>1, <1>2, <1>4, ParseStringIs DEF s

LEMMA ParseDotted ==
    ASSUME NEW v \in 0..MaxValue, NEW f \in 0..9
    PROVE  ParseString(Text(v, 10) \o <<Dot, f>>) = Truncated(10 * v + f, 10, Dotted)
  <1> DEFINE s == Text(v, 10)
             tail == <<Dot, f>>
             t == s \o tail
  <1>1. tail \in Seq(0..16) /\ Len(tail) = 2 /\ tail[1] = Dot
    BY DEF Dot
  <1>2. PICK h : Values(s, 10, h) /\ h[Len(s)] = v
    BY TextIs
  <1>3. v \in Nat
    BY SignatureAssumption
  <1>4. /\ s \in Seq(0..9) /\ Len(s) \in Nat /\ Len(s) > 0
        /\ Len(t) = Len(s) + Len(tail) /\ ~Hexadecimal(t)
        /\ \A i \in 1..Len(tail) : t[Len(s) + i] = tail[i]
    <2> HIDE DEF tail
    <2>1. QED
      BY <1>1, DigitsThen
  <1> HIDE DEF s
  <1>5. FloatSetString(t) = Truncated(10 * v + f, 10, Dotted)
    BY <1>2, <1>3, <1>4, DottedIs
  <1> HIDE DEF tail, t
  <1>6. Pointed(t)
    <2>1. Len(s) + 1 \in 1..Len(t) /\ t[Len(s) + 1] = Dot
      BY <1>1, <1>4
    <2>2. QED
      BY <2>1 DEF Pointed
  <1>7. QED
    BY <1>4, <1>5, <1>6, ParseStringIs DEF t, tail, s

LEMMA ParseScientific ==
    ASSUME NEW v \in 0..MaxValue
    PROVE  ParseString(Text(v \div 10, 10) \o <<Dot, v % 10, Letter_e, 1>>)
              = Truncated(10 * v + 0, 10, Dotted)
  <1> DEFINE q == v \div 10
             f == v % 10
             s == Text(q, 10)
             tail == <<Dot, f, Letter_e, 1>>
             t == s \o tail
  <1>1. q \in Nat /\ q \in 0..MaxValue /\ f \in 0..9 /\ v = 10 * q + f /\ v \in Nat
    BY SignatureAssumption
  <1> HIDE DEF q, f
  <1>2. tail \in Seq(0..16) /\ Len(tail) = 4 /\ tail[1] = Dot
    BY <1>1 DEF Dot, Letter_e
  <1>3. PICK h : Values(s, 10, h) /\ h[Len(s)] = q
    BY <1>1, TextIs
  <1>4. /\ s \in Seq(0..9) /\ Len(s) \in Nat /\ Len(s) > 0
        /\ Len(t) = Len(s) + Len(tail) /\ ~Hexadecimal(t)
        /\ \A i \in 1..Len(tail) : t[Len(s) + i] = tail[i]
    <2> HIDE DEF tail
    <2>1. QED
      BY <1>1, <1>2, DigitsThen
  <1> HIDE DEF s
  <1>5. FloatSetString(t) = Truncated(10 * (10 * q + f) + 0, 10, Dotted)
    BY <1>1, <1>3, <1>4, ScientificIs
  <1> HIDE DEF tail, t
  <1>6. Pointed(t)
    <2>1. Len(s) + 1 \in 1..Len(t) /\ t[Len(s) + 1] = Dot
      BY <1>2, <1>4
    <2>2. QED
      BY <2>1 DEF Pointed
  <1>7. ParseString(t) = Truncated(10 * v + 0, 10, Dotted)
    BY <1>1, <1>4, <1>5, <1>6, ParseStringIs
  <1>8. QED
    BY <1>7 DEF t, tail, s, q, f

\* Texts that ParseString cannot read.
LEMMA ParseOther ==
    ASSUME NEW v \in 0..MaxValue, NEW f \in 0..9
    PROVE  /\ ParseString(<<0, Letter_X>> \o Text(v, 16)) = 0
           /\ ParseString(Text(v, 10) \o <<Letter_e, 0>>) = 0
           /\ ParseString(Text(v, 10) \o <<Dot, 0, Dot, f>>) = 0
  <1>1. ParseString(<<0, Letter_X>> \o Text(v, 16)) = 0
    <2> DEFINE s == Text(v, 16)
               t == <<0, Letter_X>> \o s
    <2>1. s \in Seq(0..15)
      <3>1. 16 - 1 = 15
        OBVIOUS
      <3>2. QED
        BY <3>1, TextIs
    <2> HIDE DEF s
    <2>2. /\ Len(t) \in Nat /\ Len(t) = Len(s) + 2 /\ t[1] = 0 /\ t[2] = Letter_X
          /\ \A i \in 3..Len(t) : t[i] \in 0..15
      <3>1. Letter_X \in Nat
        BY DEF Letter_X
      <3>2. /\ t \in Seq(Nat) /\ Len(t) = Len(s) + 2 /\ t[1] = 0 /\ t[2] = Letter_X
            /\ \A i \in 1..Len(s) : t[i + 2] = s[i]
        BY <2>1, <3>1, PrefixIs
      <3> HIDE DEF t
      <3>3. ASSUME NEW i \in 3..Len(t) PROVE t[i] \in 0..15
        <4>1. i - 2 \in 1..Len(s) /\ (i - 2) + 2 = i
          BY <2>1, <3>2
        <4>2. t[i] = s[i - 2]
          BY <3>2, <4>1
        <4>3. s[i - 2] \in 0..15
          BY <2>1, <4>1, ElementOfSeq
        <4>4. QED
          BY ONLY <4>2, <4>3
      <3>4. QED
        BY <3>2, <3>3
    <2> HIDE DEF t
    <2>3. ~Hexadecimal(t)
      BY <2>2 DEF Hexadecimal, Letter_x, Letter_X
    <2>4. ~Pointed(t)
      <3> SUFFICES ASSUME NEW i \in 1..Len(t), t[i] = Dot PROVE FALSE
        BY DEF Pointed
      <3>1. i = 1 \/ i = 2 \/ i \in 3..Len(t)
        BY <2>2
      <3>2. QED
        BY <2>2, <3>1 DEF Dot, Letter_X
    <2>5. ~(t[2] < 10) /\ 2 \in 1..Len(t)
      BY <2>1, <2>2 DEF Letter_X
    <2>6. SetString(t, 10) = 0
      BY <2>5, Zenon DEF SetString
    <2>7. QED
      BY <2>3, <2>4, <2>6, ParseStringIs DEF t, s
  <1>2. ParseString(Text(v, 10) \o <<Letter_e, 0>>) = 0
    <2> DEFINE s == Text(v, 10)
               tail == <<Letter_e, 0>>
               t == s \o tail
    <2>1. tail \in Seq(0..16) /\ Len(tail) = 2 /\ tail[1] = Letter_e /\ tail[2] = 0
      BY DEF Letter_e
    <2> HIDE DEF tail
    <2>2. /\ Len(s) \in Nat /\ Len(t) = Len(s) + Len(tail) /\ ~Hexadecimal(t)
          /\ \A i \in 1..Len(s) : t[i] \in 0..9
          /\ \A i \in 1..Len(tail) : t[Len(s) + i] = tail[i]
      BY <2>1, DigitsThen
    <2> HIDE DEF s, t
    <2>3. t[Len(s) + 1] = Letter_e /\ t[Len(s) + 2] = 0
      BY <2>1, <2>2
    <2>4. ~Pointed(t)
      <3> SUFFICES ASSUME NEW i \in 1..Len(t), t[i] = Dot PROVE FALSE
        BY DEF Pointed
      <3>1. i \in 1..Len(s) \/ i = Len(s) + 1 \/ i = Len(s) + 2
        BY <2>1, <2>2
      <3>2. CASE i \in 1..Len(s)
        BY <2>2, <3>2 DEF Dot
      <3>3. CASE i \notin 1..Len(s)
        BY <2>3, <3>1, <3>3 DEF Dot, Letter_e
      <3>4. QED
        BY <3>2, <3>3
    <2>5. ~(t[Len(s) + 1] < 10) /\ Len(s) + 1 \in 1..Len(t)
      BY <2>1, <2>2, <2>3 DEF Letter_e
    <2>6. SetString(t, 10) = 0
      BY <2>5, Zenon DEF SetString
    <2>7. QED
      BY <2>2, <2>4, <2>6, ParseStringIs DEF t, tail, s
  <1>3. ParseString(Text(v, 10) \o <<Dot, 0, Dot, f>>) = 0
    <2> DEFINE s == Text(v, 10)
               tail == <<Dot, 0, Dot, f>>
               t == s \o tail
    <2>1. /\ tail \in Seq(0..16) /\ Len(tail) = 4
          /\ tail[1] = Dot /\ tail[2] = 0 /\ tail[3] = Dot /\ tail[4] = f
      BY DEF Dot
    <2> HIDE DEF tail
    <2>2. /\ Len(s) \in Nat /\ Len(t) = Len(s) + Len(tail) /\ ~Hexadecimal(t)
          /\ \A i \in 1..Len(s) : t[i] \in 0..9
          /\ \A i \in 1..Len(tail) : t[Len(s) + i] = tail[i]
      BY <2>1, DigitsThen
    <2> HIDE DEF s, t
    <2>3. /\ t[Len(s) + 1] = Dot /\ t[Len(s) + 2] = 0 /\ t[Len(s) + 3] = Dot
          /\ t[Len(s) + 4] = f
      BY <2>1, <2>2
    <2>4. /\ Len(t) \in Nat /\ Len(s) + 1 \in 1..Len(t) /\ Len(s) + 3 \in 1..Len(t)
          /\ Len(s) + 1 # Len(s) + 3
      BY <2>1, <2>2
    <2>5. \A k \in 1..Len(t) : t[k] # Letter_e
      <3> SUFFICES ASSUME NEW k \in 1..Len(t), t[k] = Letter_e PROVE FALSE
        OBVIOUS
      <3>1. \/ k \in 1..Len(s) \/ k = Len(s) + 1 \/ k = Len(s) + 2
            \/ k = Len(s) + 3 \/ k = Len(s) + 4
        BY <2>1, <2>2
      <3>2. CASE k \in 1..Len(s)
        BY <2>2, <3>2 DEF Letter_e
      <3>3. CASE k \notin 1..Len(s)
        BY <2>3, <3>1, <3>3 DEF Dot, Letter_e
      <3>4. QED
        BY <3>2, <3>3
    <2>6. FloatSetString(t) = 0
      BY <2>3, <2>4, <2>5, TwoPoints
    <2>7. Pointed(t)
      BY <2>3, <2>4 DEF Pointed
    <2>8. QED
      BY <2>2, <2>6, <2>7, ParseStringIs DEF t, tail, s
  <1>4. QED
    BY <1>1, <1>2, <1>3

\* What a number of a transaction becomes, by the way in which it was written.
Meant(form, v, f, n) ==
    /\ form \in {"hex", "decimal"} => n = v
    /\ form = "dotted"     => Near(n, v, f, Dotted)
    /\ form = "scientific" => Near(n, v, 0, Dotted)
    /\ form = "number" =>
          \/ Near(n, v, f, Float)
          \/ /\ n < v
             /\ 10 * 2 ^ (Word - 1) * 2 ^ Float <= (10 * v + f) * (2 ^ Float + 1)
    /\ form \in {"Hex", "exponent", "dots", "null"} => n = 0

\* A string is read by ParseString.
LEMMA StringRead ==
    ASSUME NEW s
    PROVE  ParseBigInt([type |-> "string", text |-> s]) = {ParseString(s)}
  <1> DEFINE w == [type |-> "string", text |-> s]
  <1>1. w.type = "string" /\ w.text = s
    OBVIOUS
  <1> HIDE DEF w
  <1>2. ParseBigInt(w) = {ParseString(w.text)}
    BY <1>1, Zenon DEF ParseBigInt
  <1>3. QED
    BY <1>1, <1>2 DEF w

\* A number of JSON that int64 does not hold becomes less, or the largest one.
LEMMA Int64Is ==
    ASSUME NEW v \in 0..MaxValue, NEW f \in 0..9,
           NEW n \in Int64(Truncated(10 * v + f, 10, Float))
    PROVE  /\ n \in Int
           /\ \/ Near(n, v, f, Float)
              \/ /\ n < v
                 /\ 10 * 2 ^ (Word - 1) * 2 ^ Float <= (10 * v + f) * (2 ^ Float + 1)
  <1> DEFINE t == Truncated(10 * v + f, 10, Float)
             W == 2 ^ (Word - 1)
             B == 2 ^ Float
             M == (10 * v + f) * (B + 1)
  <1>1. t \in Nat /\ Near(t, v, f, Float)
    BY TruncatedIs
  <1>2. W \in Nat \ {0} /\ B \in Nat \ {0} /\ v \in Nat /\ f \in Nat
    BY PowersOfTwo, SignatureAssumption
  <1>3. n \in IF t < W THEN {t} ELSE {-W, W - 1}
    BY DEF Int64
  <1>4. t * B >= v * (B - 1) /\ 10 * t * B <= M
    BY <1>1 DEF Near
  <1>5. \A x : Near(x, v, f, Float) <=> x * B >= v * (B - 1) /\ 10 * x * B <= M
    BY DEF Near
  <1>6. M \in Nat
    BY <1>2
  <1> HIDE DEF t, W, B, M
  <1>7. CASE t < W
    BY <1>1, <1>3, <1>7
  <1>8. CASE ~(t < W)
    <2>1. n \in {-W, W - 1} /\ t >= W
      BY <1>1, <1>2, <1>3, <1>8
    <2>2. ASSUME NEW x \in Nat, x <= W PROVE 10 * x * B <= M
      <3>1. 10 * x * B = 10 * (x * B) /\ 10 * t * B = 10 * (t * B) /\ x * B <= t * B
            /\ x * B \in Nat /\ t * B \in Nat
        <4>1. x <= t
          BY <1>1, <1>2, <2>1, <2>2
        <4>2. QED
          BY <1>1, <1>2, <4>1
      <3>2. QED
        BY <1>4, <1>6, <3>1
    <2>3. 10 * W * B <= M
      BY <1>2, <2>2
    <2>4. CASE n < v
      <3>1. n \in Int
        BY <1>2, <2>1
      <3>2. QED
        BY <2>3, <2>4, <3>1 DEF W, B, M
    <2>5. CASE ~(n < v)
      <3>1. n = W - 1 /\ n \in Nat /\ n >= v /\ n <= W
        BY <1>2, <2>1, <2>5
      <3>2. 10 * n * B <= M
        BY <2>2, <3>1
      <3>3. n * B >= v * (B - 1)
        <4>1. n * B >= v * B /\ v * (B - 1) = v * B - v /\ v * B \in Nat /\ n * B \in Nat
          BY <1>2, <3>1
        <4>2. QED
          BY <1>2, <4>1
      <3>4. QED
        BY <1>5, <3>1, <3>2, <3>3
    <2>6. QED
      BY <2>4, <2>5
  <1>9. QED
    BY <1>7, <1>8

\* ParseBigInt reads a number as it was meant.
LEMMA ParsedIs ==
    ASSUME NEW form \in Forms, NEW v \in 0..MaxValue, NEW f \in 0..9,
           NEW n \in ParseBigInt(Written(form, v, f))
    PROVE  n \in Int /\ Meant(form, v, f, n)
  <1>0. v \in Int
    BY SignatureAssumption
  <1>1. CASE form = "hex"
    <2>1. Written(form, v, f) = [type |-> "string", text |-> <<0, Letter_x>> \o Text(v, 16)]
      BY <1>1, Zenon DEF Written
    <2>2. n = v
      BY <2>1, StringRead, ParseHex
    <2>3. QED
      BY <1>0, <1>1, <2>2 DEF Meant
  <1>2. CASE form = "decimal"
    <2>1. Written(form, v, f) = [type |-> "string", text |-> Text(v, 10)]
      BY <1>2, Zenon DEF Written
    <2>2. n = v
      BY <2>1, StringRead, ParseDecimal
    <2>3. QED
      BY <1>0, <1>2, <2>2 DEF Meant
  <1>3. CASE form = "dotted"
    <2>1. Written(form, v, f) = [type |-> "string", text |-> Text(v, 10) \o <<Dot, f>>]
      BY <1>3, Zenon DEF Written
    <2>2. n = Truncated(10 * v + f, 10, Dotted)
      BY <2>1, StringRead, ParseDotted
    <2>3. n \in Nat /\ Near(n, v, f, Dotted)
      BY <2>2, TruncatedIs
    <2>4. QED
      BY <1>3, <2>3 DEF Meant
  <1>4. CASE form = "scientific"
    <2>1. Written(form, v, f) =
             [type |-> "string", text |-> Text(v \div 10, 10) \o <<Dot, v % 10, Letter_e, 1>>]
      BY <1>4, Zenon DEF Written
    <2>2. n = Truncated(10 * v + 0, 10, Dotted)
      BY <2>1, StringRead, ParseScientific
    <2>3. n \in Nat /\ Near(n, v, 0, Dotted)
      BY <2>2, TruncatedIs
    <2>4. QED
      BY <1>4, <2>3 DEF Meant
  <1>5. CASE form = "number"
    <2> DEFINE w == [type |-> "float64", m |-> 10 * v + f, s |-> 10]
    <2>1. Written(form, v, f) = w
      BY <1>5, Zenon DEF Written
    <2>2. w.type = "float64" /\ w.m = 10 * v + f /\ w.s = 10
      OBVIOUS
    <2> HIDE DEF w
    <2>3. "float64" # "string"
      OBVIOUS
    <2>4. ParseBigInt(w) = Int64(Truncated(w.m, w.s, Float))
      BY <2>2, <2>3, Zenon DEF ParseBigInt
    <2>5. n \in Int64(Truncated(10 * v + f, 10, Float))
      BY <2>1, <2>2, <2>4
    <2>6. QED
      BY <1>5, <2>5, Int64Is DEF Meant
  <1>6. CASE form = "Hex"
    <2>1. Written(form, v, f) = [type |-> "string", text |-> <<0, Letter_X>> \o Text(v, 16)]
      BY <1>6, Zenon DEF Written
    <2>2. ParseString(<<0, Letter_X>> \o Text(v, 16)) = 0
      BY ParseOther
    <2>3. ParseBigInt(Written(form, v, f)) = {0}
      BY <2>1, <2>2, StringRead
    <2>4. n = 0
      BY <2>3
    <2>5. QED
      BY <1>6, <2>4 DEF Meant
  <1>7. CASE form = "exponent"
    <2>1. Written(form, v, f) = [type |-> "string", text |-> Text(v, 10) \o <<Letter_e, 0>>]
      BY <1>7, Zenon DEF Written
    <2>2. ParseString(Text(v, 10) \o <<Letter_e, 0>>) = 0
      BY ParseOther
    <2>3. ParseBigInt(Written(form, v, f)) = {0}
      BY <2>1, <2>2, StringRead
    <2>4. n = 0
      BY <2>3
    <2>5. QED
      BY <1>7, <2>4 DEF Meant
  <1>8. CASE form = "dots"
    <2>1. Written(form, v, f) =
             [type |-> "string", text |-> Text(v, 10) \o <<Dot, 0, Dot, f>>]
      BY <1>8, Zenon DEF Written
    <2>2. ParseString(Text(v, 10) \o <<Dot, 0, Dot, f>>) = 0
      BY ParseOther
    <2>3. ParseBigInt(Written(form, v, f)) = {0}
      BY <2>1, <2>2, StringRead
    <2>4. n = 0
      BY <2>3
    <2>5. QED
      BY <1>8, <2>4 DEF Meant
  <1>9. CASE form = "null"
    <2> DEFINE w == [type |-> "null"]
    <2>1. Written(form, v, f) = w
      BY <1>9, Zenon DEF Written
    <2>2. w.type = "null" /\ "null" # "string" /\ "null" # "float64"
      OBVIOUS
    <2> HIDE DEF w
    <2>3. ParseBigInt(w) = {0}
      BY <2>2, Zenon DEF ParseBigInt
    <2>4. n = 0
      BY <2>1, <2>3
    <2>5. QED
      BY <1>9, <2>4 DEF Meant
  <1>10. QED
    BY <1>1, <1>2, <1>3, <1>4, <1>5, <1>6, <1>7, <1>8, <1>9 DEF Forms

\* A number that a word holds is not cut.
LEMMA Uint64Is ==
    ASSUME NEW n \in 0..2 ^ Word - 1
    PROVE  Uint64(n) = n
  <1>1. 2 ^ Word \in Nat \ {0}
    BY PowersOfTwo
  <1>2. n \in Nat /\ n < 2 ^ Word /\ ~(n < 0)
    BY <1>1
  <1>3. QED
    BY <1>1, <1>2 DEF Uint64

-----------------------------------------------------------------------------
(* Export.                                                                 *)

\* Export gives the key to the peer that has its own share, and to no other.
LEMMA ExportIs ==
    ASSUME d \in Points, NEW slope \in Scalars, NEW peer \in Peers \cup {"unknown"},
           NEW share \in Scalars, NEW own \in BOOLEAN,
           own <=> peer \in Peers \ {Server} /\ share = ShareOf(peer, slope)
    PROVE  LET bytes == Export(ShareOf(Server, slope), peer, share)
           IN  IF own THEN bytes # Empty /\ SetBytes(bytes) = d ELSE bytes = Empty
  <1> DEFINE bytes == Export(ShareOf(Server, slope), peer, share)
             x == BKs[Server]
             y == BKs[peer]
             key == RecoverPrivateKey(d, x, ShareOf(Server, slope), y, share)
  <1>1. CASE peer \notin Peers
    BY <1>1 DEF Export
  <1>2. CASE peer = Server
    <2>1. key = NoKey
      BY <1>2 DEF RecoverPrivateKey
    <2>2. bytes = Empty
      BY <1>2, <2>1 DEF Export
    <2>3. QED
      BY <1>2, <2>2
  <1>3. CASE peer \in Peers \ {Server}
    <2>1. x \in Points /\ y \in Points /\ x # y
      BY <1>3, SignatureAssumption
    <2>2. key = IF own THEN d ELSE NoKey
      <3> HIDE DEF x, y
      <3>1. RecoverPrivateKey(d, x, Mod(d + slope * x), y, share) =
               IF share = Mod(d + slope * y) THEN d ELSE NoKey
        BY <2>1, RecoversOwn
      <3>2. QED
        BY <1>3, <3>1, Zenon DEF ShareOf, x, y
    <2>3. bytes = IF key = NoKey THEN Empty ELSE FillBytes(key, Len8(key))
      BY <1>3, Zenon DEF Export
    <2> HIDE DEF key, bytes
    <2>4. d # NoKey
      BY PointsAre DEF NoKey
    <2>5. CASE own
      <3>1. bytes = FillBytes(d, Len8(d))
        BY <2>2, <2>3, <2>4, <2>5
      <3>2. DigitsOf(bytes, Base, Len8(d), Len8(d), d) /\ bytes # Empty
        BY <3>1, BytesAre DEF Empty
      <3>3. /\ d \in Nat /\ Len8(d) \in 0..Width /\ Len8(d) \in 0..Len8(d)
            /\ d < Base ^ Len8(d)
        <4>1. Len8(d) \in 1..Width /\ d < Base ^ Len8(d) /\ Width \in Nat
          BY Len8Of, SignatureAssumption
        <4>2. d \in Nat
          BY Order DEF Points
        <4>3. QED
          BY <4>1, <4>2
      <3>4. SetBytes(bytes) = d
        BY <3>2, <3>3, Radixes, NumberOf DEF SetBytes
      <3>5. QED
        BY <2>5, <3>2, <3>4 DEF bytes
    <2>6. CASE ~own
      BY <2>2, <2>3, <2>6 DEF bytes
    <2>7. QED
      BY <2>5, <2>6
  <1>4. QED
    BY <1>1, <1>2, <1>3

-----------------------------------------------------------------------------
(* The operations keep what their results are.                             *)

\* A result of the signing process, not yet post-processed, is a signature of
\* its message; the later inputs keep the nonce and the message.
RawInv ==
    /\ pc \in {"raw", "signed", "failed", "tx"} => in.k \in Points /\ in.z \in Scalars
    /\ pc \in {"raw", "signed", "failed"} => in.h \in Scalars
    /\ pc = "raw" /\ X[in.k] < N => out.r = X[in.k] /\ SignedBy(in.k, out.s, in.z)

SigInv ==
    /\ TypeOK /\ RawInv
    /\ SignatureRecovers /\ TransactionFromWallet /\ ExportedIsKey /\ ParsedAsMeant

\* The invariant holds at the start, and each operation keeps it.
LEMMA InitSig == Init => SigInv
  BY DEF Init, SigInv, TypeOK, RawInv, SignatureRecovers, TransactionFromWallet,
         ExportedIsKey, ParsedAsMeant

\* The signing process leaves a signature.
LEMMA SignerDoneKeeps ==
    ASSUME SigInv, SignerDone
    PROVE  SigInv'
  <1>1. PICK k \in Points, z \in Scalars, h \in Scalars :
             /\ SignResult(k, z).r # 0 /\ SignResult(k, z).s # 0
             /\ in' = [k |-> k, z |-> z, h |-> h] /\ out' = SignResult(k, z)
    BY DEF SignerDone
  <1>2. pc' = "raw" /\ d' = d /\ d \in Points
    BY DEF SignerDone, SigInv, TypeOK
  <1>3. in'.k = k /\ in'.z = z /\ in'.h = h
    BY <1>1
  <1>4. /\ out' \in [r : Points, s : Points]
        /\ X[k] < N => out'.r = X[k] /\ SignedBy(k, out'.s, z)
    BY <1>1, <1>2, SignResultIs
  <1>5. TypeOK'
    BY <1>2, <1>4 DEF TypeOK
  <1>6. RawInv'
    BY <1>2, <1>3, <1>4 DEF RawInv, SignedBy, Cong
  <1>7. QED
    BY <1>2, <1>5, <1>6 DEF SigInv, SignatureRecovers, TransactionFromWallet,
                            ExportedIsKey, ParsedAsMeant

\* PostProcess keeps the key recoverable.
LEMMA SignReturnsKeeps ==
    ASSUME SigInv, SignReturns
    PROVE  SigInv'
  <1> DEFINE z == in.z
             h == in.h
             k == in.k
             r == out.r
             s == ToLowS(out.s)
             v == IF RecoveryIDs(r, s, h, d) = {1} THEN 1 ELSE 0
  <1>1. /\ pc = "raw" /\ d' = d /\ in' = in /\ d \in Points
        /\ k \in Points /\ z \in Scalars /\ h \in Scalars
        /\ out \in [r : Points, s : Points]
        /\ X[k] < N => out.r = X[k] /\ SignedBy(k, out.s, z)
    BY DEF SignReturns, SigInv, TypeOK, RawInv
  <1>2. /\ out' = PostProcess(out, h)
        /\ pc' = IF out' = Empty THEN "failed" ELSE "signed"
    BY DEF SignReturns
  <1>3. r \in Points /\ s \in Points /\ out' = GenerateSignature(r, s, d, h)
    BY <1>1, <1>2, LowSType DEF PostProcess
  <1> HIDE DEF r, s
  <1>4. out' # Empty => /\ out' \in Seq(Byte) /\ Len(out') = 2 * Width + 1
                        /\ SigV(out') \in {0, 1}
    <2>1. v = IF RecoveryIDs(r, s, h, d) = {1} THEN 1 ELSE 0
      OBVIOUS
    <2> HIDE DEF v
    <2>2. v \in {0, 1} /\ (out' # Empty => out' = Whole(r, s, v))
      BY <1>3, <2>1, Generated
    <2>3. ReadAs(Whole(r, s, v), r, s, v)
      BY <1>3, <2>2, SignatureIs
    <2>4. QED
      BY <2>2, <2>3, Zenon DEF ReadAs
  <1>5. X[k] < N =>
           /\ out' # Empty /\ (h = z \/ Alone(k)) =>
                 /\ SigS(out') <= N - SigS(out')
                 /\ RecoverCompact(SigV(out') + 27, SigR(out'), SigS(out'), h) = d
           /\ out' = Empty /\ h = z => Mod(2 * z + X[k] * d) = 0
    <2> SUFFICES ASSUME X[k] < N
                 PROVE  /\ out' # Empty /\ (h = z \/ Alone(k)) =>
                             /\ SigS(out') <= N - SigS(out')
                             /\ RecoverCompact(SigV(out') + 27, SigR(out'), SigS(out'), h) = d
                        /\ out' = Empty /\ h = z => Mod(2 * z + X[k] * d) = 0
      OBVIOUS
    <2>1. out.r = X[k] /\ (h = z => SignedBy(k, out.s, h))
      BY <1>1
    <2> HIDE DEF h, z, k
    <2>2. /\ out' # Empty /\ (SignedBy(k, out.s, h) \/ Alone(k)) =>
                 /\ SigS(out') <= N - SigS(out')
                 /\ RecoverCompact(SigV(out') + 27, SigR(out'), SigS(out'), h) = d
          /\ out' = Empty /\ SignedBy(k, out.s, h) => Mod(2 * h + X[k] * d) = 0
      BY <1>1, <1>2, <2>1, PostProcessed
    <2>3. QED
      BY <2>1, <2>2, Zenon
  <1>6. X[k] < N => Mod(X[k]) = X[k]
    <2> SUFFICES ASSUME X[k] < N PROVE Mod(X[k]) = X[k]
      OBVIOUS
    <2>1. X[k] \in Scalars /\ X[k] \in Int
      BY <1>1, SignatureAssumption DEF Scalars
    <2>2. QED
      BY <2>1, CongRefl, ModEqual
  <1>7. TypeOK'
    BY <1>1, <1>2, <1>4 DEF TypeOK
  <1>8. RawInv'
    BY <1>1, <1>2 DEF RawInv
  <1>9. SignatureRecovers'
    BY <1>1, <1>2, <1>5, <1>6 DEF SignatureRecovers
  <1>10. QED
    BY <1>2, <1>7, <1>8, <1>9 DEF SigInv, TransactionFromWallet, ExportedIsKey,
                                  ParsedAsMeant

\* The v of a transaction holds the recovery id and the chain id, unless that is 0.
LEMMA SenderIs ==
    ASSUME d \in Points, NEW z \in Scalars, NEW z0 \in Scalars \ {z}, NEW sig,
           SigV(sig) \in {0, 1}, NEW chainId \in Nat, NEW c \in Nat,
           RecoverCompact(SigV(sig) + 27, SigR(sig), SigS(sig), z) = d,
           NEW tx, tx = WithSignature("legacy", chainId, sig)
    PROVE  IF chainId = 0 THEN Sender(tx, c, z, z0) # d
           ELSE Sender(tx, c, z, z0) = IF c = chainId THEN d ELSE NoKey
  <1> DEFINE v == SigV(sig)
             id == tx[1] - 35 - 2 * c
  <1>1. tx = <<v + (IF chainId = 0 THEN 27 ELSE 35 + 2 * chainId), SigR(sig), SigS(sig)>>
    BY DEF WithSignature
  <1>2. /\ tx[1] = v + (IF chainId = 0 THEN 27 ELSE 35 + 2 * chainId)
        /\ tx[2] = SigR(sig) /\ tx[3] = SigS(sig)
    BY <1>1
  <1>3. Sender(tx, c, z, z0) =
           CASE tx[1] \in {27, 28} -> RecoverCompact(tx[1], tx[2], tx[3], z0)
             [] tx[1] \notin {27, 28} /\ id \in {0, 1} ->
                   RecoverCompact(id + 27, tx[2], tx[3], z)
             [] OTHER -> NoKey
    BY Zenon DEF Sender
  <1>4. RecoverCompact(v + 27, SigR(sig), SigS(sig), z) = d /\ v \in {0, 1}
    OBVIOUS
  <1> HIDE DEF v
  <1>5. CASE chainId = 0
    <2>1. tx[1] = v + 27 /\ tx[1] \in {27, 28}
      BY <1>2, <1>4, <1>5
    <2>2. Sender(tx, c, z, z0) = RecoverCompact(tx[1], tx[2], tx[3], z0)
      BY <1>3, <2>1, Zenon
    <2>3. RecoverCompact(v + 27, SigR(sig), SigS(sig), z0) # d
      BY <1>4, OtherMessage
    <2>4. QED
      BY <1>2, <1>5, <2>1, <2>2, <2>3
  <1>6. CASE chainId # 0
    <2>1. tx[1] = v + (35 + 2 * chainId)
      BY <1>2, <1>6
    <2>2. tx[1] \notin {27, 28} /\ (id \in {0, 1} <=> c = chainId)
          /\ (c = chainId => id = v)
      BY <1>4, <2>1
    <2> HIDE DEF id
    <2>3. CASE c = chainId
      <3>1. Sender(tx, c, z, z0) = RecoverCompact(id + 27, tx[2], tx[3], z)
        BY <1>3, <2>2, <2>3, Zenon
      <3>2. QED
        BY <1>2, <1>4, <1>6, <2>2, <2>3, <3>1, Zenon
    <2>4. CASE c # chainId
      <3>1. Sender(tx, c, z, z0) = NoKey
        BY <1>3, <2>2, <2>4, Zenon
      <3>2. QED
        BY <1>6, <2>4, <3>1, Zenon
    <2>5. QED
      BY <2>3, <2>4
  <1>7. QED
    BY <1>5, <1>6

LEMMA SignEthTransactionKeeps ==
    ASSUME SigInv, SignEthTransaction
    PROVE  SigInv'
  <1>1. PICK type \in {"legacy", "dynamic"}, chainId \in ChainIds,
             z0 \in Scalars \ {in.z} :
             /\ in' = [k |-> in.k, z |-> in.z, z0 |-> z0, type |-> type, chainId |-> chainId]
             /\ out' = WithSignature(type, chainId, out)
    BY DEF SignEthTransaction
  <1>2. /\ pc = "signed" /\ pc' = "tx" /\ d' = d /\ d \in Points
        /\ in.k \in Points /\ in.z \in Scalars /\ SigV(out) \in {0, 1}
        /\ X[in.k] < N =>
              RecoverCompact(SigV(out) + 27, SigR(out), SigS(out), in.z) = d
    BY DEF SignEthTransaction, SigInv, TypeOK, RawInv, SignatureRecovers
  <1>3. /\ in'.k = in.k /\ in'.z = in.z /\ in'.z0 = z0 /\ in'.type = type
        /\ in'.chainId = chainId
    BY <1>1
  <1>4. ASSUME X[in.k] < N, type = "legacy", NEW c \in ChainIds
        PROVE  IF chainId = 0 THEN Sender(out', c, in.z, z0) # d
               ELSE Sender(out', c, in.z, z0) = IF c = chainId THEN d ELSE NoKey
    <2>1. chainId \in Nat /\ c \in Nat
      BY SignatureAssumption
    <2>2. RecoverCompact(SigV(out) + 27, SigR(out), SigS(out), in.z) = d
      BY <1>2, <1>4
    <2>3. out' = WithSignature("legacy", chainId, out)
      BY <1>1, <1>4
    <2>4. QED
      BY <1>2, <2>1, <2>2, <2>3, SenderIs
  <1>5. TypeOK'
    BY <1>2 DEF TypeOK
  <1>6. RawInv'
    BY <1>2, <1>3 DEF RawInv
  <1>7. TransactionFromWallet'
    <2>1. TransactionFromWallet' =
             (pc' = "tx" /\ X[in'.k] < N /\ in'.type = "legacy" =>
                \A c \in ChainIds :
                    IF in'.chainId = 0 THEN Sender(out', c, in'.z, in'.z0) # d'
                    ELSE Sender(out', c, in'.z, in'.z0)
                            = IF c = in'.chainId THEN d' ELSE NoKey)
      BY DEF TransactionFromWallet, Sender, RecoverCompact
    <2>2. QED
      BY <1>2, <1>3, <1>4, <2>1, Zenon
  <1>8. QED
    BY <1>2, <1>5, <1>6, <1>7 DEF SigInv, SignatureRecovers, ExportedIsKey, ParsedAsMeant

\* ParseBigInt reads what was written.
LEMMA ReadNumberKeeps ==
    ASSUME SigInv, ReadNumber
    PROVE  SigInv'
  <1>1. PICK form \in Forms, v \in 0..MaxValue, f \in 0..9 :
             /\ in' = [form |-> form, v |-> v, f |-> f]
             /\ \E n \in ParseBigInt(Written(form, v, f)) :
                   out' = [n |-> n, uint64 |-> Uint64(n)]
    BY DEF ReadNumber
  <1>2. PICK n \in ParseBigInt(Written(form, v, f)) : out' = [n |-> n, uint64 |-> Uint64(n)]
    BY <1>1
  <1>3. pc' = "number" /\ d' = d /\ d \in Points
    BY DEF ReadNumber, SigInv, TypeOK
  <1>4. in'.form = form /\ in'.v = v /\ in'.f = f /\ out'.n = n /\ out'.uint64 = Uint64(n)
    BY <1>1, <1>2
  <1>5. Meant(form, v, f, n) /\ (n \in 0..2 ^ Word - 1 => Uint64(n) = n)
    BY <1>2, ParsedIs, Uint64Is
  <1>6. ParsedAsMeant'
    <2>1. ParsedAsMeant' =
             (pc' = "number" =>
                 /\ Meant(in'.form, in'.v, in'.f, out'.n)
                 /\ out'.n \in 0..2 ^ Word - 1 => out'.uint64 = out'.n)
      BY Zenon DEF ParsedAsMeant, Meant, Near
    <2>2. QED
      BY <1>3, <1>4, <1>5, <2>1
  <1>7. QED
    BY <1>3, <1>6 DEF SigInv, TypeOK, RawInv, SignatureRecovers, TransactionFromWallet,
                      ExportedIsKey

\* Export answers with the key or with nothing.
LEMMA ExportHandlerKeeps ==
    ASSUME SigInv, ExportHandler
    PROVE  SigInv'
  <1>1. PICK slope \in Scalars, peer \in Peers \cup {"unknown"}, share \in Scalars :
          /\ in' = [peer |-> peer, share |-> share,
                    own |-> peer \in Peers \ {Server} /\ share = ShareOf(peer, slope)]
          /\ out' = Export(ShareOf(Server, slope), peer, share)
    BY DEF ExportHandler
  <1>2. pc' = "exported" /\ d' = d /\ d \in Points
    BY DEF ExportHandler, SigInv, TypeOK
  <1> DEFINE own == peer \in Peers \ {Server} /\ share = ShareOf(peer, slope)
  <1>3. in'.own = own /\ own \in BOOLEAN
    BY <1>1, Zenon
  <1>4. IF own THEN out' # Empty /\ SetBytes(out') = d ELSE out' = Empty
    BY <1>1, <1>2, ExportIs, Zenon
  <1>5. ExportedIsKey'
    BY <1>2, <1>3, <1>4, Zenon DEF ExportedIsKey
  <1>6. QED
    BY <1>2, <1>5 DEF SigInv, TypeOK, RawInv, SignatureRecovers, TransactionFromWallet,
                      ParsedAsMeant

\* Every step keeps the invariant.
LEMMA NextSig == SigInv /\ [Next]_vars => SigInv'
  <1> SUFFICES ASSUME SigInv, [Next]_vars PROVE SigInv'
    OBVIOUS
  <1>1. CASE UNCHANGED vars
    BY <1>1 DEF vars, SigInv, TypeOK, RawInv, SignedBy, Cong, SignatureRecovers,
                TransactionFromWallet, ExportedIsKey, ParsedAsMeant, Sender
  <1>2. CASE Next
    BY <1>2, SignerDoneKeeps, SignReturnsKeeps, SignEthTransactionKeeps,
       ReadNumberKeeps, ExportHandlerKeeps DEF Next
  <1>3. QED
    BY <1>1, <1>2

\* The invariant holds.
LEMMA SigInvariant == Spec => []SigInv
  <1>1. QED
    BY InitSig, NextSig, PTL DEF Spec

\* The results of Sign and of the signing process have the form that their readers
\* expect.
THEOREM TypeCorrect == Spec => []TypeOK
  <1>1. SigInv => TypeOK
    BY DEF SigInv
  <1>2. QED
    BY <1>1, SigInvariant, PTL

\* A signature that PostProcess returns is low-S and leads back to the key from the
\* bytes that its readers look at, in every group and for every key, nonce and
\* message, also one that is longer; it fails only for such a message and in the
\* corner where the other recovery id leads to no key.
THEOREM SignaturesRecover == Spec => []SignatureRecovers
  <1>1. SigInv => SignatureRecovers
    BY DEF SigInv
  <1>2. QED
    BY <1>1, SigInvariant, PTL

\* A legacy transaction is from the wallet on its chain and from nobody on another;
\* one with chain id 0, which WithSignature leaves unprotected, is never from it.
THEOREM TransactionsFromWallet == Spec => []TransactionFromWallet
  <1>1. SigInv => TransactionFromWallet
    BY DEF SigInv
  <1>2. QED
    BY <1>1, SigInvariant, PTL

\* Export returns the key to the device that sent its own share, and to no other.
THEOREM ExportsTheKey == Spec => []ExportedIsKey
  <1>1. SigInv => ExportedIsKey
    BY DEF SigInv
  <1>2. QED
    BY <1>1, SigInvariant, PTL

\* A text of a number is read exactly, to the precision of its form, or as 0, and an
\* int64 that does not hold it is less: for every number of digits and precision
\* (ParseBigInt).
THEOREM NumbersAsMeant == Spec => []ParsedAsMeant
  <1>1. SigInv => ParsedAsMeant
    BY DEF SigInv
  <1>2. QED
    BY <1>1, SigInvariant, PTL
=============================================================================
