-------------------------- MODULE Poseidon2Proofs --------------------------
(***************************************************************************)
(* hash2 and hash3 are the reference's over every field, with any keys and *)
(* any number of rounds: the states that the loops go through are what the *)
(* reference has after the rounds done so far.  And, over any field of     *)
(* more than 7 elements, the rounds permute the states: each can be gone   *)
(* back from.                                                              *)
(***************************************************************************)
EXTENDS MCStoredMerkle, FiniteSetTheorems, WellFoundedInduction, TLAPS

-----------------------------------------------------------------------------
(* Arithmetic modulo Field.                                                *)

LEMMA Remainder ==
  ASSUME NEW a \in Nat
  PROVE  /\ a % Field \in Element
         /\ a \div Field \in Nat
         /\ a = (a \div Field) * Field + (a % Field)
BY FieldAssumption DEF Element

LEMMA ModShift ==
  ASSUME NEW q \in Nat, NEW a \in Nat
  PROVE  (q * Field + a) % Field = a % Field
<1> DEFINE p == a \div Field
           r == a % Field
<1>1. Field \in Nat \ {0}
  BY FieldAssumption
<1>2. /\ p \in Nat /\ r \in Nat /\ r < Field
      /\ a = p * Field + r
  BY <1>1, Remainder DEF Element
<1> HIDE DEF p, r
<1>3. q * Field + a = (q + p) * Field + r /\ q + p \in Nat
  BY <1>1, <1>2
<1>4. ((q + p) * Field + r) % Field = r
  BY <1>1, <1>2
<1> QED
  BY <1>3, <1>4 DEF r

LEMMA ModAdd ==
  ASSUME NEW a \in Nat, NEW b \in Nat
  PROVE  /\ ((a % Field) + b) % Field = (a + b) % Field
         /\ (a + (b % Field)) % Field = (a + b) % Field
<1>1. ASSUME NEW c \in Nat, NEW d \in Nat
      PROVE  ((c % Field) + d) % Field = (c + d) % Field
  <2> DEFINE q == c \div Field
             r == c % Field
  <2>1. q \in Nat /\ r \in Nat /\ c = q * Field + r /\ Field \in Nat
    BY Remainder, FieldAssumption DEF Element
  <2> HIDE DEF q, r
  <2>2. c + d = q * Field + (r + d) /\ r + d \in Nat
    BY <2>1
  <2>3. (q * Field + (r + d)) % Field = (r + d) % Field
    BY <2>1, <2>2, ModShift
  <2> QED
    BY <2>2, <2>3 DEF r
<1>2. (b % Field) + a = a + (b % Field) /\ b + a = a + b
  BY Remainder, FieldAssumption DEF Element
<1> QED
  BY <1>1, <1>2

LEMMA ModMul ==
  ASSUME NEW a \in Nat, NEW b \in Nat
  PROVE  /\ ((a % Field) * b) % Field = (a * b) % Field
         /\ (a * (b % Field)) % Field = (a * b) % Field
<1>1. ASSUME NEW c \in Nat, NEW d \in Nat
      PROVE  ((c % Field) * d) % Field = (c * d) % Field
  <2> DEFINE q == c \div Field
             r == c % Field
  <2>1. q \in Nat /\ r \in Nat /\ c = q * Field + r /\ Field \in Nat
    BY Remainder, FieldAssumption DEF Element
  <2> HIDE DEF q, r
  <2>2. c * d = (q * d) * Field + r * d /\ q * d \in Nat /\ r * d \in Nat
    BY <2>1
  <2> QED
    BY <2>2, ModShift DEF r
<1>2. (b % Field) * a = a * (b % Field) /\ b * a = a * b
  BY Remainder, FieldAssumption DEF Element
<1> QED
  BY <1>1, <1>2

LEMMA ElementFacts ==
  /\ \A a \in Element : a \in Nat
  /\ \A a, b \in Nat : Add(a, b) \in Element /\ Mul(a, b) \in Element
  /\ \A a \in Nat : SBox(a) \in Element
<1>1. \A a \in Element : a \in Nat
  BY FieldAssumption DEF Element
<1>2. ASSUME NEW a \in Nat, NEW b \in Nat PROVE Add(a, b) \in Element /\ Mul(a, b) \in Element
  <2>1. a + b \in Nat /\ a * b \in Nat
    OBVIOUS
  <2> QED
    BY <2>1, Remainder DEF Add, Mul
<1>3. ASSUME NEW a \in Nat PROVE SBox(a) \in Element
  BY <1>1, <1>2 DEF SBox
<1> QED
  BY <1>1, <1>2, <1>3

(* The S-box: squaring twice and multiplying raises to the fifth power.    *)
LEMMA SBoxIsFifth ==
  ASSUME NEW v \in Nat
  PROVE  SBox(v) = Fifth(v) % Field
<1> DEFINE w == v * v
           square == Mul(v, v)
           fourth == Mul(square, square)
<1>1. w \in Nat /\ square = w % Field /\ square \in Nat
  <2>1. w \in Nat
    OBVIOUS
  <2>2. square = w % Field
    BY DEF Mul
  <2>3. square \in Nat
    BY ElementFacts
  <2> QED
    BY <2>1, <2>2, <2>3
<1> HIDE DEF w, square
<1>2. fourth = (w * w) % Field /\ w * w \in Nat /\ fourth \in Nat
  <2>1. (square * square) % Field = (w * square) % Field
    BY <1>1, ModMul
  <2>2. (w * square) % Field = (w * w) % Field
    BY <1>1, ModMul
  <2> QED
    BY <1>1, <2>1, <2>2, ElementFacts DEF Mul
<1> HIDE DEF fourth
<1>3. (fourth * v) % Field = ((w * w) * v) % Field
  BY <1>2, ModMul
<1>4. (w * w) * v = Fifth(v)
  BY DEF w, Fifth
<1> QED
  BY <1>3, <1>4 DEF SBox, Mul, fourth, square

-----------------------------------------------------------------------------
(* The linear layers: sums taken in place are rows of the matrices.        *)

LEMMA External2 ==
  ASSUME NEW x \in Nat, NEW y \in Nat, NEW r \in Nat, IsFull(r)
  PROVE  MatMulExternal2(<<x, y>>) = Linear(<<x, y>>, r)
<1>1. Linear(<<x, y>>, r) = <<(2 * x + y) % Field, (x + 2 * y) % Field>>
  BY FieldAssumption DEF Linear, State, Entry
<1>2. /\ (((x + y) % Field) + x) % Field = (2 * x + y) % Field
      /\ (((x + y) % Field) + y) % Field = (x + 2 * y) % Field
  <2>1. /\ x + y \in Nat
        /\ (x + y) + x = 2 * x + y /\ (x + y) + y = x + 2 * y
    OBVIOUS
  <2>2. /\ (((x + y) % Field) + x) % Field = ((x + y) + x) % Field
        /\ (((x + y) % Field) + y) % Field = ((x + y) + y) % Field
    BY <2>1, ModAdd
  <2> QED
    BY <2>1, <2>2
<1> QED
  BY <1>1, <1>2 DEF MatMulExternal2, Add

LEMMA Internal2 ==
  ASSUME NEW x \in Nat, NEW y \in Nat, NEW r \in Nat, ~IsFull(r)
  PROVE  MatMulInternal2(<<x, y>>) = Linear(<<x, y>>, r)
<1>1. Linear(<<x, y>>, r) = <<(2 * x + y) % Field, (x + 3 * y) % Field>>
  BY FieldAssumption DEF Linear, State, Entry
<1>2. /\ (x + ((x + y) % Field)) % Field = (2 * x + y) % Field
      /\ (((y + y) % Field) + ((x + y) % Field)) % Field = (x + 3 * y) % Field
  <2>1. /\ x + y \in Nat /\ y + y \in Nat
        /\ x + (x + y) = 2 * x + y /\ (y + y) + (x + y) = x + 3 * y
    OBVIOUS
  <2>2. (x + ((x + y) % Field)) % Field = (x + (x + y)) % Field
    BY <2>1, ModAdd
  <2>3. (x + y) % Field \in Nat
    BY <2>1, Remainder, ElementFacts
  <2>4. (((y + y) % Field) + ((x + y) % Field)) % Field = ((y + y) + ((x + y) % Field)) % Field
    BY <2>1, <2>3, ModAdd
  <2>5. ((y + y) + ((x + y) % Field)) % Field = ((y + y) + (x + y)) % Field
    BY <2>1, ModAdd
  <2> QED
    BY <2>1, <2>2, <2>4, <2>5
<1> QED
  BY <1>1, <1>2 DEF MatMulInternal2, Add

(* The sum of three elements, added to one of them or to a sum.            *)
AddsSum(w, x, y, z) ==
  /\ Add(w, Add(Add(x, y), z)) = (w + x + y + z) % Field
  /\ Add(Add(w, w), Add(Add(x, y), z)) = (2 * w + x + y + z) % Field

LEMMA SumPlus ==
  ASSUME NEW w \in Nat, NEW x \in Nat, NEW y \in Nat, NEW z \in Nat
  PROVE  AddsSum(w, x, y, z)
<1> DEFINE sum == Add(Add(x, y), z)
<1>1. sum = (x + y + z) % Field /\ x + y + z \in Nat
  <2>1. x + y \in Nat
    OBVIOUS
  <2>2. (((x + y) % Field) + z) % Field = ((x + y) + z) % Field
    BY <2>1, ModAdd
  <2> QED
    BY <2>1, <2>2 DEF Add
<1>2. sum \in Nat
  BY <1>1, Remainder, ElementFacts
<1> HIDE DEF sum
<1>3. (w + sum) % Field = (w + (x + y + z)) % Field
  BY <1>1, ModAdd
<1>4. (((w + w) % Field) + sum) % Field = ((w + w) + (x + y + z)) % Field
  <2>1. w + w \in Nat
    OBVIOUS
  <2>2. (((w + w) % Field) + sum) % Field = ((w + w) + sum) % Field
    BY <1>2, <2>1, ModAdd
  <2>3. ((w + w) + sum) % Field = ((w + w) + (x + y + z)) % Field
    BY <1>1, <2>1, ModAdd
  <2> QED
    BY <2>2, <2>3
<1>5. w + (x + y + z) = w + x + y + z /\ (w + w) + (x + y + z) = 2 * w + x + y + z
  OBVIOUS
<1> QED
  BY <1>3, <1>4, <1>5 DEF AddsSum, Add, sum

LEMMA External3 ==
  ASSUME NEW x \in Nat, NEW y \in Nat, NEW z \in Nat, NEW r \in Nat, IsFull(r)
  PROVE  MatMulExternal3(<<x, y, z>>) = Linear(<<x, y, z>>, r)
<1>1. Linear(<<x, y, z>>, r) =
        <<(2 * x + y + z) % Field, (x + 2 * y + z) % Field, (x + y + 2 * z) % Field>>
  BY FieldAssumption DEF Linear, State, Entry
<1>2. /\ x + x + y + z = 2 * x + y + z
      /\ y + x + y + z = x + 2 * y + z
      /\ z + x + y + z = x + y + 2 * z
  OBVIOUS
<1>3. AddsSum(x, x, y, z) /\ AddsSum(y, x, y, z) /\ AddsSum(z, x, y, z)
  BY SumPlus
<1> QED
  BY <1>1, <1>2, <1>3 DEF AddsSum, MatMulExternal3

LEMMA Internal3 ==
  ASSUME NEW x \in Nat, NEW y \in Nat, NEW z \in Nat, NEW r \in Nat, ~IsFull(r)
  PROVE  MatMulInternal3(<<x, y, z>>) = Linear(<<x, y, z>>, r)
<1>1. Linear(<<x, y, z>>, r) =
        <<(2 * x + y + z) % Field, (x + 2 * y + z) % Field, (x + y + 3 * z) % Field>>
  BY FieldAssumption DEF Linear, State, Entry
<1>2. /\ x + x + y + z = 2 * x + y + z
      /\ y + x + y + z = x + 2 * y + z
      /\ 2 * z + x + y + z = x + y + 3 * z
  OBVIOUS
<1>3. AddsSum(x, x, y, z) /\ AddsSum(y, x, y, z) /\ AddsSum(z, x, y, z)
  BY SumPlus
<1> QED
  BY <1>1, <1>2, <1>3 DEF AddsSum, MatMulInternal3

-----------------------------------------------------------------------------
(* The keys: what every round begins at.                                   *)

LEMMA IntervalSize ==
  ASSUME NEW a \in Nat, NEW b \in Nat, a <= b + 1
  PROVE  IsFiniteSet(a..b) /\ Cardinality(a..b) = b + 1 - a
<1>1. a \in Int /\ b \in Int
  OBVIOUS
<1>2. IsFiniteSet(a..b) /\ Cardinality(a..b) = IF a > b THEN 0 ELSE b - a + 1
  BY <1>1, FS_Interval
<1> QED
  BY <1>2

LEMMA KeysOfRound ==
  ASSUME NEW r \in 1..Rounds, NEW width \in Nat
  PROVE  KeysBefore(r, width) =
           IF r <= RoundsFullHalf THEN (r - 1) * width
           ELSE IF r <= RoundsFullHalf + RoundsPartial
             THEN RoundsFullHalf * width + (r - 1 - RoundsFullHalf)
           ELSE (r - 1 - RoundsPartial) * width + RoundsPartial
<1> DEFINE H == RoundsFullHalf
           P == RoundsPartial
           full == { q \in 1..(r - 1) : IsFull(q) }
<1>1. H \in Nat /\ P \in Nat /\ r \in Nat /\ r >= 1 /\ r <= 2 * H + P
  BY KeysAssumption DEF Rounds
<1>2. CASE r <= H
  <2>1. full = 1..(r - 1)
    BY <1>1, <1>2 DEF IsFull
  <2>2. Cardinality(full) = r - 1
    <3>1. 1 \in Nat /\ r - 1 \in Nat /\ 1 <= (r - 1) + 1 /\ (r - 1) + 1 - 1 = r - 1
      BY <1>1
    <3> QED
      BY <2>1, <3>1, IntervalSize
  <2> HIDE DEF full
  <2>3. (r - 1) * width + (r - 1 - (r - 1)) = (r - 1) * width
    BY <1>1
  <2> QED
    BY <1>2, <2>2, <2>3 DEF KeysBefore, full
<1>3. CASE H < r /\ r <= H + P
  <2>1. full = 1..H
    BY <1>1, <1>3 DEF IsFull
  <2>2. Cardinality(full) = H
    <3>1. 1 \in Nat /\ H \in Nat /\ 1 <= H + 1 /\ H + 1 - 1 = H
      BY <1>1
    <3> QED
      BY <2>1, <3>1, IntervalSize
  <2> QED
    BY <1>1, <1>3, <2>2 DEF KeysBefore
<1>4. CASE r > H + P
  <2> DEFINE late == (H + P + 1)..(r - 1)
  <2>1. full = (1..H) \cup late /\ (1..H) \cap late = {}
    BY <1>1, <1>4 DEF IsFull
  <2>2. /\ IsFiniteSet(1..H) /\ Cardinality(1..H) = H
        /\ IsFiniteSet(late) /\ Cardinality(late) = r - 1 - H - P
    <3>1. 1 \in Nat /\ H \in Nat /\ 1 <= H + 1 /\ H + 1 - 1 = H
      BY <1>1
    <3>2. /\ H + P + 1 \in Nat /\ r - 1 \in Nat /\ H + P + 1 <= (r - 1) + 1
          /\ (r - 1) + 1 - (H + P + 1) = r - 1 - H - P
      BY <1>1, <1>4
    <3>3. IsFiniteSet(1..H) /\ Cardinality(1..H) = H
      BY <3>1, IntervalSize
    <3>4. IsFiniteSet(late) /\ Cardinality(late) = r - 1 - H - P
      BY <3>2, IntervalSize
    <3> QED
      BY <3>3, <3>4
  <2>3. Cardinality((1..H) \cup late) = H + (r - 1 - H - P)
    <3> HIDE DEF late
    <3>1. Cardinality((1..H) \cup late) =
            Cardinality(1..H) + Cardinality(late) - Cardinality((1..H) \cap late)
      BY <2>2, FS_Union
    <3>2. Cardinality((1..H) \cap late) = 0
      BY <2>1, FS_EmptySet
    <3>3. H + (r - 1 - H - P) - 0 = H + (r - 1 - H - P)
      BY <1>1
    <3> QED
      BY <2>2, <3>1, <3>2, <3>3
  <2>4. Cardinality(full) = r - 1 - P
    <3>1. H + (r - 1 - H - P) = r - 1 - P
      BY <1>1
    <3> HIDE DEF full, late
    <3> QED
      BY <2>1, <2>3, <3>1
  <2> HIDE DEF full
  <2>5. r - 1 - (r - 1 - P) = P
    BY <1>1
  <2> QED
    BY <1>1, <1>4, <2>4, <2>5 DEF KeysBefore, full
<1> QED
  BY <1>1, <1>2, <1>3, <1>4

LEMMA KeysInRange ==
  ASSUME NEW r \in 1..Rounds
  PROVE  /\ KeysBefore(r, 2) \in Nat /\ KeysBefore(r, 3) \in Nat
         /\ \A i \in 1..(IF IsFull(r) THEN 2 ELSE 1) :
              Keys2[KeysBefore(r, 2) + i] \in Element
         /\ \A i \in 1..(IF IsFull(r) THEN 3 ELSE 1) :
              Keys3[KeysBefore(r, 3) + i] \in Element
<1> DEFINE H == RoundsFullHalf
           P == RoundsPartial
<1>1. H \in Nat /\ P \in Nat /\ r \in Nat /\ r >= 1 /\ r <= 2 * H + P
  BY KeysAssumption DEF Rounds
<1>2. /\ KeysBefore(r, 2) = IF r <= H THEN (r - 1) * 2
                            ELSE IF r <= H + P THEN H * 2 + (r - 1 - H)
                            ELSE (r - 1 - P) * 2 + P
      /\ KeysBefore(r, 3) = IF r <= H THEN (r - 1) * 3
                            ELSE IF r <= H + P THEN H * 3 + (r - 1 - H)
                            ELSE (r - 1 - P) * 3 + P
  BY KeysOfRound
<1>3. KeysBefore(r, 2) \in Nat /\ KeysBefore(r, 3) \in Nat
  BY <1>1, <1>2
<1>4. ASSUME NEW i \in 1..(IF IsFull(r) THEN 2 ELSE 1)
      PROVE  KeysBefore(r, 2) + i \in 1..(4 * H + P)
  BY <1>1, <1>2 DEF IsFull
<1>5. ASSUME NEW i \in 1..(IF IsFull(r) THEN 3 ELSE 1)
      PROVE  KeysBefore(r, 3) + i \in 1..(6 * H + P)
  BY <1>1, <1>2 DEF IsFull
<1> QED
  BY <1>3, <1>4, <1>5, KeysAssumption

-----------------------------------------------------------------------------
(* The rounds: in place, with the keys from KeysBefore on, each does what  *)
(* the reference does, which is a Round.                                   *)

Round(s, keys, r) == Linear(Nonlinear(s, keys, r), r)

LEMMA KeyedSBox ==
  ASSUME NEW x \in Element, NEW k \in Element
  PROVE  /\ SBox(Add(x, k)) = Fifth((x + k) % Field) % Field
         /\ SBox(Add(x, k)) \in Element
<1>1. x \in Nat /\ k \in Nat
  BY ElementFacts
<1>2. Add(x, k) \in Nat
  BY <1>1, ElementFacts
<1>3. SBox(Add(x, k)) = Fifth(Add(x, k)) % Field
  BY <1>2, SBoxIsFifth
<1> QED
  BY <1>2, <1>3, ElementFacts DEF Add

LEMMA FullRound2Is ==
  ASSUME NEW s \in Inputs2, NEW r \in 1..Rounds, IsFull(r)
  PROVE  /\ FullRound2(s, KeysBefore(r, 2)) = Round(s, Keys2, r)
         /\ Round(s, Keys2, r) \in Inputs2
<1> DEFINE ki == KeysBefore(r, 2)
           x == SBox(Add(s[1], Keys2[ki + 1]))
           y == SBox(Add(s[2], Keys2[ki + 2]))
<1>1. s[1] \in Element /\ s[2] \in Element /\ Len(s) = 2
  BY DEF Inputs2
<1>2. Keys2[ki + 1] \in Element /\ Keys2[ki + 2] \in Element
  BY KeysInRange
<1> HIDE DEF ki
<1>3. /\ x = Fifth((s[1] + Keys2[ki + 1]) % Field) % Field /\ x \in Element
      /\ y = Fifth((s[2] + Keys2[ki + 2]) % Field) % Field /\ y \in Element
  BY <1>1, <1>2, KeyedSBox
<1> HIDE DEF x, y
<1>4. Nonlinear(s, Keys2, r) = <<x, y>>
  BY <1>1, <1>3 DEF Nonlinear, State, ki
<1>5. x \in Nat /\ y \in Nat /\ r \in Nat
  BY <1>3, ElementFacts
<1>6. MatMulExternal2(<<x, y>>) = Linear(<<x, y>>, r)
  BY <1>5, External2
<1>7. MatMulExternal2(<<x, y>>) \in Inputs2
  BY <1>5, ElementFacts DEF MatMulExternal2, Inputs2
<1>8. FullRound2(s, KeysBefore(r, 2)) = MatMulExternal2(<<x, y>>)
  BY DEF FullRound2, x, y, ki
<1> QED
  BY <1>4, <1>6, <1>7, <1>8 DEF Round

LEMMA PartialRound2Is ==
  ASSUME NEW s \in Inputs2, NEW r \in 1..Rounds, ~IsFull(r)
  PROVE  /\ PartialRound2(s, KeysBefore(r, 2)) = Round(s, Keys2, r)
         /\ Round(s, Keys2, r) \in Inputs2
<1> DEFINE ki == KeysBefore(r, 2)
           x == SBox(Add(s[1], Keys2[ki + 1]))
           y == s[2]
<1>1. s[1] \in Element /\ y \in Element /\ Len(s) = 2
  BY DEF Inputs2
<1>2. Keys2[ki + 1] \in Element
  BY KeysInRange
<1> HIDE DEF ki
<1>3. x = Fifth((s[1] + Keys2[ki + 1]) % Field) % Field /\ x \in Element
  BY <1>1, <1>2, KeyedSBox
<1> HIDE DEF x
<1>4. Nonlinear(s, Keys2, r) = <<x, y>>
  BY <1>1, <1>3 DEF Nonlinear, State, ki
<1> HIDE DEF y
<1>5. x \in Nat /\ y \in Nat /\ r \in Nat
  BY <1>1, <1>3, ElementFacts
<1>6. MatMulInternal2(<<x, y>>) = Linear(<<x, y>>, r)
  BY <1>5, Internal2
<1>7. MatMulInternal2(<<x, y>>) \in Inputs2
  <2>1. Add(x, y) \in Nat /\ Add(y, y) \in Nat
    BY <1>5, ElementFacts
  <2> QED
    BY <1>5, <2>1, ElementFacts DEF MatMulInternal2, Inputs2
<1>8. PartialRound2(s, KeysBefore(r, 2)) = MatMulInternal2(<<x, y>>)
  BY DEF PartialRound2, x, y, ki
<1> QED
  BY <1>4, <1>6, <1>7, <1>8 DEF Round

LEMMA FullRound3Is ==
  ASSUME NEW s \in Inputs3, NEW r \in 1..Rounds, IsFull(r)
  PROVE  /\ FullRound3(s, KeysBefore(r, 3)) = Round(s, Keys3, r)
         /\ Round(s, Keys3, r) \in Inputs3
<1> DEFINE ki == KeysBefore(r, 3)
           x == SBox(Add(s[1], Keys3[ki + 1]))
           y == SBox(Add(s[2], Keys3[ki + 2]))
           z == SBox(Add(s[3], Keys3[ki + 3]))
<1>1. s[1] \in Element /\ s[2] \in Element /\ s[3] \in Element /\ Len(s) = 3
  BY DEF Inputs3
<1>2. /\ Keys3[ki + 1] \in Element /\ Keys3[ki + 2] \in Element
      /\ Keys3[ki + 3] \in Element
  BY KeysInRange
<1> HIDE DEF ki
<1>3. /\ x = Fifth((s[1] + Keys3[ki + 1]) % Field) % Field /\ x \in Element
      /\ y = Fifth((s[2] + Keys3[ki + 2]) % Field) % Field /\ y \in Element
      /\ z = Fifth((s[3] + Keys3[ki + 3]) % Field) % Field /\ z \in Element
  BY <1>1, <1>2, KeyedSBox
<1> HIDE DEF x, y, z
<1>4. Nonlinear(s, Keys3, r) = <<x, y, z>>
  BY <1>1, <1>3 DEF Nonlinear, State, ki
<1>5. x \in Nat /\ y \in Nat /\ z \in Nat /\ r \in Nat
  BY <1>3, ElementFacts
<1>6. MatMulExternal3(<<x, y, z>>) = Linear(<<x, y, z>>, r)
  BY <1>5, External3
<1>7. MatMulExternal3(<<x, y, z>>) \in Inputs3
  <2>1. Add(Add(x, y), z) \in Nat
    BY <1>5, ElementFacts
  <2> QED
    BY <1>5, <2>1, ElementFacts DEF MatMulExternal3, Inputs3
<1>8. FullRound3(s, KeysBefore(r, 3)) = MatMulExternal3(<<x, y, z>>)
  BY DEF FullRound3, x, y, z, ki
<1> QED
  BY <1>4, <1>6, <1>7, <1>8 DEF Round

LEMMA PartialRound3Is ==
  ASSUME NEW s \in Inputs3, NEW r \in 1..Rounds, ~IsFull(r)
  PROVE  /\ PartialRound3(s, KeysBefore(r, 3)) = Round(s, Keys3, r)
         /\ Round(s, Keys3, r) \in Inputs3
<1> DEFINE ki == KeysBefore(r, 3)
           x == SBox(Add(s[1], Keys3[ki + 1]))
           y == s[2]
           z == s[3]
<1>1. s[1] \in Element /\ y \in Element /\ z \in Element /\ Len(s) = 3
  BY DEF Inputs3
<1>2. Keys3[ki + 1] \in Element
  BY KeysInRange
<1> HIDE DEF ki
<1>3. x = Fifth((s[1] + Keys3[ki + 1]) % Field) % Field /\ x \in Element
  BY <1>1, <1>2, KeyedSBox
<1> HIDE DEF x
<1>4. Nonlinear(s, Keys3, r) = <<x, y, z>>
  BY <1>1, <1>3 DEF Nonlinear, State, ki
<1> HIDE DEF y, z
<1>5. x \in Nat /\ y \in Nat /\ z \in Nat /\ r \in Nat
  BY <1>1, <1>3, ElementFacts
<1>6. MatMulInternal3(<<x, y, z>>) = Linear(<<x, y, z>>, r)
  BY <1>5, Internal3
<1>7. MatMulInternal3(<<x, y, z>>) \in Inputs3
  <2>1. Add(Add(x, y), z) \in Nat /\ Add(z, z) \in Nat
    BY <1>5, ElementFacts
  <2> QED
    BY <1>5, <2>1, ElementFacts DEF MatMulInternal3, Inputs3
<1>8. PartialRound3(s, KeysBefore(r, 3)) = MatMulInternal3(<<x, y, z>>)
  BY DEF PartialRound3, x, y, z, ki
<1> QED
  BY <1>4, <1>6, <1>7, <1>8 DEF Round

-----------------------------------------------------------------------------
(* Recursions on natural numbers.                                          *)

LEMMA Least ==
  ASSUME NEW T, T \subseteq Nat, T # {}
  PROVE  \E n \in T : \A m \in T : n <= m
<1>1. \E n \in T : \A m \in T : ~ (<<m, n>> \in OpToRel(<, Nat))
  BY NatLessThanWellFounded, WFMin, Zenon
<1>2. PICK n \in T : \A m \in T : ~ (<<m, n>> \in OpToRel(<, Nat))
  BY <1>1
<1>3. \A m \in T : ~ (m < n)
  BY <1>2, Zenon DEF OpToRel
<1> QED
  BY <1>3

LEMMA Induct ==
  ASSUME NEW T, 0 \in T, \A n \in Nat : n \in T => n + 1 \in T
  PROVE  \A n \in Nat : n \in T
<1> SUFFICES ASSUME Nat \ T # {} PROVE FALSE
  OBVIOUS
<1>1. PICK n \in Nat \ T : \A m \in Nat \ T : n <= m
  BY Least
<1>2. n # 0 /\ n - 1 \in Nat
  BY <1>1
<1>3. n - 1 \in T
  BY <1>1, <1>2
<1>4. (n - 1) + 1 = n
  BY <1>2
<1> QED
  BY <1>1, <1>2, <1>3, <1>4

LEMMA SameRun ==
  ASSUME NEW n \in Nat, NEW f, NEW g, f[0] = g[0],
         \A i \in 0..(n - 1) : f[i] = g[i] => f[i + 1] = g[i + 1]
  PROVE  f[n] = g[n]
<1> DEFINE T == { i \in Nat : i <= n => f[i] = g[i] }
<1>1. 0 \in T
  OBVIOUS
<1>2. ASSUME NEW i \in Nat, i \in T PROVE i + 1 \in T
  <2>1. CASE i + 1 <= n
    <3>1. i \in 0..(n - 1) /\ f[i] = g[i]
      BY <1>2, <2>1
    <3> QED
      BY <3>1
  <2>2. CASE ~(i + 1 <= n)
    BY <2>2
  <2> QED
    BY <2>1, <2>2
<1>3. \A i \in Nat : i \in T
  <2> HIDE DEF T
  <2> QED
    BY <1>1, <1>2, Induct
<1> QED
  BY <1>3

(* A run of n steps from start: step[i] leads from i - 1 to i.             *)
IsRun(f, n, V, start, step) ==
  /\ f \in [0..n -> V]
  /\ f[0] = start
  /\ \A i \in 0..(n - 1) : f[i + 1] = step[i + 1][f[i]]

LEMMA RunExists ==
  ASSUME NEW n \in Nat, NEW V, NEW start \in V, NEW step,
         \A i \in 0..(n - 1) : \A v \in V : step[i + 1][v] \in V
  PROVE  \E f : IsRun(f, n, V, start, step)
<1> DEFINE T == { m \in Nat : m <= n => \E f : IsRun(f, m, V, start, step) }
<1>1. 0 \in T
  <2>1. IsRun([i \in 0..0 |-> start], 0, V, start, step)
    BY DEF IsRun
  <2> QED
    BY <2>1
<1>2. ASSUME NEW m \in Nat, m \in T, m + 1 <= n
      PROVE  \E f : IsRun(f, m + 1, V, start, step)
  <2>1. PICK f : IsRun(f, m, V, start, step)
    BY <1>2
  <2> DEFINE h == [i \in 0..(m + 1) |-> IF i = m + 1 THEN step[m + 1][f[m]] ELSE f[i]]
  <2>2. f \in [0..m -> V] /\ f[0] = start
    BY <2>1 DEF IsRun
  <2>3. step[m + 1][f[m]] \in V
    <3>1. m \in 0..(n - 1) /\ f[m] \in V
      BY <1>2, <2>2
    <3> QED
      BY <3>1
  <2>4. h \in [0..(m + 1) -> V] /\ h[0] = start
    BY <2>2, <2>3
  <2>5. ASSUME NEW i \in 0..m PROVE h[i + 1] = step[i + 1][h[i]]
    <3>1. CASE i = m
      <4>1. h[i + 1] = step[m + 1][f[m]] /\ h[i] = f[m]
        BY <3>1
      <4> HIDE DEF h
      <4> QED
        BY <3>1, <4>1
    <3>2. CASE i # m
      <4>1. i \in 0..(m - 1) /\ h[i + 1] = f[i + 1] /\ h[i] = f[i]
        BY <3>2
      <4>2. f[i + 1] = step[i + 1][f[i]]
        BY <2>1, <4>1 DEF IsRun
      <4> HIDE DEF h
      <4> QED
        BY <4>1, <4>2
    <3> QED
      BY <3>1, <3>2
  <2> HIDE DEF h
  <2>6. (m + 1) - 1 = m
    OBVIOUS
  <2>7. IsRun(h, m + 1, V, start, step)
    BY <2>4, <2>5, <2>6 DEF IsRun
  <2> QED
    BY <2>7
<1>3. \A m \in Nat : m \in T
  <2>1. \A m \in Nat : m \in T => m + 1 \in T
    BY <1>2
  <2> HIDE DEF T
  <2> QED
    BY <1>1, <2>1, Induct
<1> QED
  BY <1>3

-----------------------------------------------------------------------------
(* The reference's states, round by round.                                 *)

IsHistory(R, V, input, keys) ==
  /\ R \in [0..Rounds -> V]
  /\ R[0] = Linear(input, 0)
  /\ \A r \in 1..Rounds : R[r] = Round(R[r - 1], keys, r)
  /\ Reference(input, keys) = R[Rounds]

LEMMA HistoryExists ==
  ASSUME NEW V, NEW keys, NEW input, Linear(input, 0) \in V,
         \A r \in 1..Rounds : \A v \in V : Round(v, keys, r) \in V
  PROVE  \E R : IsHistory(R, V, input, keys)
<1> DEFINE N == Rounds
           step == [r \in 1..N |-> [v \in V |-> Round(v, keys, r)]]
           Eq(f) == f = [round \in 0..N |->
                           IF round = 0 THEN Linear(input, 0)
                           ELSE Linear(Nonlinear(f[round - 1], keys, round), round)]
           after == CHOOSE f : Eq(f)
<1>1. N \in Nat
  BY KeysAssumption DEF Rounds
<1>2. \A i \in 0..(N - 1) : \A v \in V : step[i + 1][v] = Round(v, keys, i + 1)
  BY <1>1
<1>3. \A i \in 0..(N - 1) : \A v \in V : Round(v, keys, i + 1) \in V
  BY <1>1
<1> HIDE DEF N, step
<1>4. PICK R : IsRun(R, N, V, Linear(input, 0), step)
  <2>1. \A i \in 0..(N - 1) : \A v \in V : step[i + 1][v] \in V
    BY <1>2, <1>3
  <2> QED
    BY <1>1, <2>1, RunExists
<1>5. R \in [0..N -> V] /\ R[0] = Linear(input, 0)
  BY <1>4 DEF IsRun
<1>6. \A r \in 1..N : R[r] = Round(R[r - 1], keys, r)
  <2> SUFFICES ASSUME NEW r \in 1..N PROVE R[r] = Round(R[r - 1], keys, r)
    OBVIOUS
  <2>1. r - 1 \in 0..(N - 1) /\ (r - 1) + 1 = r /\ r - 1 \in 0..N
    BY <1>1
  <2>2. R[r] = step[r][R[r - 1]]
    BY <1>4, <2>1 DEF IsRun
  <2>3. R[r - 1] \in V
    BY <1>5, <2>1
  <2> QED
    BY <1>2, <2>1, <2>2, <2>3
<1>7. Eq(R)
  <2>1. ASSUME NEW r \in 0..N
        PROVE  R[r] = IF r = 0 THEN Linear(input, 0)
                      ELSE Linear(Nonlinear(R[r - 1], keys, r), r)
    <3>1. r # 0 => r \in 1..N
      BY <1>1
    <3> QED
      BY <1>5, <1>6, <3>1 DEF Round
  <2> QED
    BY <1>5, <2>1
<1>8. Eq(after)
  <2> HIDE DEF Eq
  <2> QED
    BY <1>7
<1> HIDE DEF after
<1>9. after[N] = R[N]
  <2>1. 0 \in 0..N
    BY <1>1
  <2>2. after[0] = R[0]
    BY <1>5, <1>8, <2>1
  <2>3. ASSUME NEW i \in 0..(N - 1), after[i] = R[i] PROVE after[i + 1] = R[i + 1]
    <3>1. i + 1 \in 0..N /\ i + 1 \in 1..N /\ i + 1 # 0 /\ (i + 1) - 1 = i
      BY <1>1
    <3>2. after[i + 1] = Linear(Nonlinear(after[i], keys, i + 1), i + 1)
      BY <1>8, <3>1
    <3>3. R[i + 1] = Round(R[i], keys, i + 1)
      BY <1>6, <3>1
    <3> QED
      BY <2>3, <3>2, <3>3 DEF Round
  <2> HIDE DEF Eq
  <2> QED
    BY <1>1, <2>2, <2>3, SameRun
<1>10. Reference(input, keys) = after[N]
  BY DEF Reference, after, N
<1> QED
  BY <1>5, <1>6, <1>9, <1>10 DEF IsHistory, N

-----------------------------------------------------------------------------
(* The loops.  LoopedX is the model's loop over rounds X, and GoesX says   *)
(* that n steps of X, with keys from `from' on, lead from R[off] through   *)
(* R[off + 1], ... to R[off + n]: the loop then ends there.                *)

LoopedFullRound2(state, from, end) == Loop(FullRound2, state, from, end, 2)

GoesFullRound2(R, off, from, n) ==
  \A i \in 0..(n - 1) : R[off + i + 1] = FullRound2(R[off + i], from + i * 2)

LEMMA FullLoop2 ==
  ASSUME NEW from \in Nat, NEW n \in Nat, NEW off \in Nat, NEW R,
         GoesFullRound2(R, off, from, n)
  PROVE  LoopedFullRound2(R[off], from, from + n * 2) = R[off + n]
<1> DEFINE state == R[off]
           end == from + n * 2
           N == (end - from) \div 2
           Eq(f) == f = [m \in 0..N |->
                           IF m = 0 THEN state
                           ELSE FullRound2(f[m - 1], from + (m - 1) * 2)]
           after == CHOOSE f : Eq(f)
           h == [m \in 0..n |-> R[off + m]]
<1>1. N = n
  OBVIOUS
<1>2. LoopedFullRound2(state, from, end) = after[N]
  BY DEF LoopedFullRound2, Loop
<1>3. h[0] = state /\ h[n] = R[off + n]
  <2>1. off + 0 = off /\ 0 \in 0..n /\ n \in 0..n
    OBVIOUS
  <2> QED
    BY <2>1
<1>4. \A i \in 0..(n - 1) : h[i + 1] = FullRound2(h[i], from + i * 2)
  <2> SUFFICES ASSUME NEW i \in 0..(n - 1)
               PROVE  h[i + 1] = FullRound2(h[i], from + i * 2)
    OBVIOUS
  <2>1. i \in 0..n /\ i + 1 \in 0..n /\ off + (i + 1) = off + i + 1
    OBVIOUS
  <2>3. R[off + i + 1] = FullRound2(R[off + i], from + i * 2)
    BY DEF GoesFullRound2
  <2>2. h[i] = R[off + i] /\ h[i + 1] = R[off + i + 1]
    BY <2>1
  <2> HIDE DEF h
  <2> QED
    BY <2>2, <2>3
<1>5. h = [m \in 0..n |-> h[m]]
  OBVIOUS
<1> HIDE DEF h, N, state, end
<1>6. Eq(h)
  <2>1. ASSUME NEW m \in 0..n
        PROVE  h[m] = IF m = 0 THEN state
                      ELSE FullRound2(h[m - 1], from + (m - 1) * 2)
    <3>1. m # 0 => m - 1 \in 0..(n - 1) /\ (m - 1) + 1 = m
      OBVIOUS
    <3> QED
      BY <1>3, <1>4, <3>1
  <2> QED
    BY <1>1, <1>5, <2>1
<1>7. Eq(after)
  <2> HIDE DEF Eq
  <2> QED
    BY <1>6
<1> HIDE DEF after
<1>8. after[0] = h[0]
  BY <1>1, <1>3, <1>7
<1>9. ASSUME NEW i \in 0..(n - 1), after[i] = h[i] PROVE after[i + 1] = h[i + 1]
  <2>1. i + 1 \in 0..N /\ i + 1 # 0 /\ (i + 1) - 1 = i
    BY <1>1
  <2>2. after[i + 1] = FullRound2(after[i], from + i * 2)
    BY <1>7, <2>1
  <2> QED
    BY <1>4, <1>9, <2>2
<1> HIDE DEF Eq
<1>10. after[n] = h[n]
  BY <1>8, <1>9, SameRun
<1> QED
  BY <1>1, <1>2, <1>3, <1>10 DEF state, end

LoopedPartialRound2(state, from, end) == Loop(PartialRound2, state, from, end, 1)

GoesPartialRound2(R, off, from, n) ==
  \A i \in 0..(n - 1) : R[off + i + 1] = PartialRound2(R[off + i], from + i * 1)

LEMMA PartialLoop2 ==
  ASSUME NEW from \in Nat, NEW n \in Nat, NEW off \in Nat, NEW R,
         GoesPartialRound2(R, off, from, n)
  PROVE  LoopedPartialRound2(R[off], from, from + n * 1) = R[off + n]
<1> DEFINE state == R[off]
           end == from + n * 1
           N == (end - from) \div 1
           Eq(f) == f = [m \in 0..N |->
                           IF m = 0 THEN state
                           ELSE PartialRound2(f[m - 1], from + (m - 1) * 1)]
           after == CHOOSE f : Eq(f)
           h == [m \in 0..n |-> R[off + m]]
<1>1. N = n
  OBVIOUS
<1>2. LoopedPartialRound2(state, from, end) = after[N]
  BY DEF LoopedPartialRound2, Loop
<1>3. h[0] = state /\ h[n] = R[off + n]
  <2>1. off + 0 = off /\ 0 \in 0..n /\ n \in 0..n
    OBVIOUS
  <2> QED
    BY <2>1
<1>4. \A i \in 0..(n - 1) : h[i + 1] = PartialRound2(h[i], from + i * 1)
  <2> SUFFICES ASSUME NEW i \in 0..(n - 1)
               PROVE  h[i + 1] = PartialRound2(h[i], from + i * 1)
    OBVIOUS
  <2>1. i \in 0..n /\ i + 1 \in 0..n /\ off + (i + 1) = off + i + 1
    OBVIOUS
  <2>3. R[off + i + 1] = PartialRound2(R[off + i], from + i * 1)
    BY DEF GoesPartialRound2
  <2>2. h[i] = R[off + i] /\ h[i + 1] = R[off + i + 1]
    BY <2>1
  <2> HIDE DEF h
  <2> QED
    BY <2>2, <2>3
<1>5. h = [m \in 0..n |-> h[m]]
  OBVIOUS
<1> HIDE DEF h, N, state, end
<1>6. Eq(h)
  <2>1. ASSUME NEW m \in 0..n
        PROVE  h[m] = IF m = 0 THEN state
                      ELSE PartialRound2(h[m - 1], from + (m - 1) * 1)
    <3>1. m # 0 => m - 1 \in 0..(n - 1) /\ (m - 1) + 1 = m
      OBVIOUS
    <3> QED
      BY <1>3, <1>4, <3>1
  <2> QED
    BY <1>1, <1>5, <2>1
<1>7. Eq(after)
  <2> HIDE DEF Eq
  <2> QED
    BY <1>6
<1> HIDE DEF after
<1>8. after[0] = h[0]
  BY <1>1, <1>3, <1>7
<1>9. ASSUME NEW i \in 0..(n - 1), after[i] = h[i] PROVE after[i + 1] = h[i + 1]
  <2>1. i + 1 \in 0..N /\ i + 1 # 0 /\ (i + 1) - 1 = i
    BY <1>1
  <2>2. after[i + 1] = PartialRound2(after[i], from + i * 1)
    BY <1>7, <2>1
  <2> QED
    BY <1>4, <1>9, <2>2
<1> HIDE DEF Eq
<1>10. after[n] = h[n]
  BY <1>8, <1>9, SameRun
<1> QED
  BY <1>1, <1>2, <1>3, <1>10 DEF state, end

LoopedFullRound3(state, from, end) == Loop(FullRound3, state, from, end, 3)

GoesFullRound3(R, off, from, n) ==
  \A i \in 0..(n - 1) : R[off + i + 1] = FullRound3(R[off + i], from + i * 3)

LEMMA FullLoop3 ==
  ASSUME NEW from \in Nat, NEW n \in Nat, NEW off \in Nat, NEW R,
         GoesFullRound3(R, off, from, n)
  PROVE  LoopedFullRound3(R[off], from, from + n * 3) = R[off + n]
<1> DEFINE state == R[off]
           end == from + n * 3
           N == (end - from) \div 3
           Eq(f) == f = [m \in 0..N |->
                           IF m = 0 THEN state
                           ELSE FullRound3(f[m - 1], from + (m - 1) * 3)]
           after == CHOOSE f : Eq(f)
           h == [m \in 0..n |-> R[off + m]]
<1>1. N = n
  OBVIOUS
<1>2. LoopedFullRound3(state, from, end) = after[N]
  BY DEF LoopedFullRound3, Loop
<1>3. h[0] = state /\ h[n] = R[off + n]
  <2>1. off + 0 = off /\ 0 \in 0..n /\ n \in 0..n
    OBVIOUS
  <2> QED
    BY <2>1
<1>4. \A i \in 0..(n - 1) : h[i + 1] = FullRound3(h[i], from + i * 3)
  <2> SUFFICES ASSUME NEW i \in 0..(n - 1)
               PROVE  h[i + 1] = FullRound3(h[i], from + i * 3)
    OBVIOUS
  <2>1. i \in 0..n /\ i + 1 \in 0..n /\ off + (i + 1) = off + i + 1
    OBVIOUS
  <2>3. R[off + i + 1] = FullRound3(R[off + i], from + i * 3)
    BY DEF GoesFullRound3
  <2>2. h[i] = R[off + i] /\ h[i + 1] = R[off + i + 1]
    BY <2>1
  <2> HIDE DEF h
  <2> QED
    BY <2>2, <2>3
<1>5. h = [m \in 0..n |-> h[m]]
  OBVIOUS
<1> HIDE DEF h, N, state, end
<1>6. Eq(h)
  <2>1. ASSUME NEW m \in 0..n
        PROVE  h[m] = IF m = 0 THEN state
                      ELSE FullRound3(h[m - 1], from + (m - 1) * 3)
    <3>1. m # 0 => m - 1 \in 0..(n - 1) /\ (m - 1) + 1 = m
      OBVIOUS
    <3> QED
      BY <1>3, <1>4, <3>1
  <2> QED
    BY <1>1, <1>5, <2>1
<1>7. Eq(after)
  <2> HIDE DEF Eq
  <2> QED
    BY <1>6
<1> HIDE DEF after
<1>8. after[0] = h[0]
  BY <1>1, <1>3, <1>7
<1>9. ASSUME NEW i \in 0..(n - 1), after[i] = h[i] PROVE after[i + 1] = h[i + 1]
  <2>1. i + 1 \in 0..N /\ i + 1 # 0 /\ (i + 1) - 1 = i
    BY <1>1
  <2>2. after[i + 1] = FullRound3(after[i], from + i * 3)
    BY <1>7, <2>1
  <2> QED
    BY <1>4, <1>9, <2>2
<1> HIDE DEF Eq
<1>10. after[n] = h[n]
  BY <1>8, <1>9, SameRun
<1> QED
  BY <1>1, <1>2, <1>3, <1>10 DEF state, end

LoopedPartialRound3(state, from, end) == Loop(PartialRound3, state, from, end, 1)

GoesPartialRound3(R, off, from, n) ==
  \A i \in 0..(n - 1) : R[off + i + 1] = PartialRound3(R[off + i], from + i * 1)

LEMMA PartialLoop3 ==
  ASSUME NEW from \in Nat, NEW n \in Nat, NEW off \in Nat, NEW R,
         GoesPartialRound3(R, off, from, n)
  PROVE  LoopedPartialRound3(R[off], from, from + n * 1) = R[off + n]
<1> DEFINE state == R[off]
           end == from + n * 1
           N == (end - from) \div 1
           Eq(f) == f = [m \in 0..N |->
                           IF m = 0 THEN state
                           ELSE PartialRound3(f[m - 1], from + (m - 1) * 1)]
           after == CHOOSE f : Eq(f)
           h == [m \in 0..n |-> R[off + m]]
<1>1. N = n
  OBVIOUS
<1>2. LoopedPartialRound3(state, from, end) = after[N]
  BY DEF LoopedPartialRound3, Loop
<1>3. h[0] = state /\ h[n] = R[off + n]
  <2>1. off + 0 = off /\ 0 \in 0..n /\ n \in 0..n
    OBVIOUS
  <2> QED
    BY <2>1
<1>4. \A i \in 0..(n - 1) : h[i + 1] = PartialRound3(h[i], from + i * 1)
  <2> SUFFICES ASSUME NEW i \in 0..(n - 1)
               PROVE  h[i + 1] = PartialRound3(h[i], from + i * 1)
    OBVIOUS
  <2>1. i \in 0..n /\ i + 1 \in 0..n /\ off + (i + 1) = off + i + 1
    OBVIOUS
  <2>3. R[off + i + 1] = PartialRound3(R[off + i], from + i * 1)
    BY DEF GoesPartialRound3
  <2>2. h[i] = R[off + i] /\ h[i + 1] = R[off + i + 1]
    BY <2>1
  <2> HIDE DEF h
  <2> QED
    BY <2>2, <2>3
<1>5. h = [m \in 0..n |-> h[m]]
  OBVIOUS
<1> HIDE DEF h, N, state, end
<1>6. Eq(h)
  <2>1. ASSUME NEW m \in 0..n
        PROVE  h[m] = IF m = 0 THEN state
                      ELSE PartialRound3(h[m - 1], from + (m - 1) * 1)
    <3>1. m # 0 => m - 1 \in 0..(n - 1) /\ (m - 1) + 1 = m
      OBVIOUS
    <3> QED
      BY <1>3, <1>4, <3>1
  <2> QED
    BY <1>1, <1>5, <2>1
<1>7. Eq(after)
  <2> HIDE DEF Eq
  <2> QED
    BY <1>6
<1> HIDE DEF after
<1>8. after[0] = h[0]
  BY <1>1, <1>3, <1>7
<1>9. ASSUME NEW i \in 0..(n - 1), after[i] = h[i] PROVE after[i + 1] = h[i + 1]
  <2>1. i + 1 \in 0..N /\ i + 1 # 0 /\ (i + 1) - 1 = i
    BY <1>1
  <2>2. after[i + 1] = PartialRound3(after[i], from + i * 1)
    BY <1>7, <2>1
  <2> QED
    BY <1>4, <1>9, <2>2
<1> HIDE DEF Eq
<1>10. after[n] = h[n]
  BY <1>8, <1>9, SameRun
<1> QED
  BY <1>1, <1>2, <1>3, <1>10 DEF state, end

-----------------------------------------------------------------------------
(* The permutations: three loops, through the first half of the full       *)
(* rounds, the partial ones, and the rest.                                 *)

LEMMA Permute2Is ==
  ASSUME NEW s \in Inputs2
  PROVE  Permute2(s) = Reference(s, Keys2)
<1> DEFINE H == RoundsFullHalf
           P == RoundsPartial
<1>1. H \in Nat /\ P \in Nat /\ Rounds = 2 * H + P /\ Len(Keys2) = 4 * H + P
  BY KeysAssumption DEF Rounds
<1>2. MatMulExternal2(s) = Linear(s, 0) /\ Linear(s, 0) \in Inputs2
  <2>1. s = <<s[1], s[2]>> /\ s[1] \in Nat /\ s[2] \in Nat
    BY ElementFacts DEF Inputs2
  <2>2. IsFull(0)
    BY <1>1 DEF IsFull
  <2>3. MatMulExternal2(<<s[1], s[2]>>) = Linear(<<s[1], s[2]>>, 0)
    BY <2>1, <2>2, External2
  <2>4. MatMulExternal2(s) \in Inputs2
    BY <2>1, ElementFacts DEF MatMulExternal2, Inputs2
  <2> QED
    BY <2>1, <2>3, <2>4
<1>3. PICK R : IsHistory(R, Inputs2, s, Keys2)
  <2>1. \A r \in 1..Rounds : \A v \in Inputs2 : Round(v, Keys2, r) \in Inputs2
    BY FullRound2Is, PartialRound2Is
  <2> QED
    BY <1>2, <2>1, HistoryExists
<1>4. ASSUME NEW r \in 1..Rounds
      PROVE  R[r] = IF IsFull(r) THEN FullRound2(R[r - 1], KeysBefore(r, 2))
                                 ELSE PartialRound2(R[r - 1], KeysBefore(r, 2))
  <2>1. R[r - 1] \in Inputs2
    <3>1. r - 1 \in 0..Rounds
      BY <1>1
    <3> QED
      BY <1>3, <3>1 DEF IsHistory
  <2>2. R[r] = Round(R[r - 1], Keys2, r)
    BY <1>3 DEF IsHistory
  <2> QED
    BY <2>1, <2>2, FullRound2Is, PartialRound2Is
<1>5. \A i \in 0..(H - 1) : R[0 + i + 1] = FullRound2(R[0 + i], 0 + i * 2)
  <2> SUFFICES ASSUME NEW i \in 0..(H - 1)
               PROVE  R[0 + i + 1] = FullRound2(R[0 + i], 0 + i * 2)
    OBVIOUS
  <2> DEFINE r == 0 + i + 1
  <2>1. r \in 1..Rounds /\ r <= H /\ r - 1 = 0 + i /\ (r - 1) * 2 = 0 + i * 2
    BY <1>1
  <2> HIDE DEF r
  <2>2. IsFull(r)
    BY <2>1 DEF IsFull
  <2>3. KeysBefore(r, 2) = (r - 1) * 2
    BY <2>1, KeysOfRound
  <2>4. R[r] = FullRound2(R[0 + i], 0 + i * 2)
    BY <1>4, <2>1, <2>2, <2>3
  <2> QED
    BY <2>4 DEF r
<1>6. \A i \in 0..(P - 1) : R[H + i + 1] = PartialRound2(R[H + i], H * 2 + i * 1)
  <2> SUFFICES ASSUME NEW i \in 0..(P - 1)
               PROVE  R[H + i + 1] = PartialRound2(R[H + i], H * 2 + i * 1)
    OBVIOUS
  <2> DEFINE r == H + i + 1
  <2>1. /\ r \in 1..Rounds /\ ~(r <= H) /\ r <= H + P /\ r - 1 = H + i
        /\ H * 2 + (r - 1 - H) = H * 2 + i * 1
    BY <1>1
  <2> HIDE DEF r
  <2>2. ~IsFull(r)
    BY <1>1, <2>1 DEF IsFull
  <2>3. KeysBefore(r, 2) = H * 2 + (r - 1 - H)
    BY <2>1, KeysOfRound
  <2>4. R[r] = PartialRound2(R[H + i], H * 2 + i * 1)
    BY <1>4, <2>1, <2>2, <2>3
  <2> QED
    BY <2>4 DEF r
<1>7. \A i \in 0..(H - 1) : R[H + P + i + 1] = FullRound2(R[H + P + i], H * 2 + P + i * 2)
  <2> SUFFICES ASSUME NEW i \in 0..(H - 1)
               PROVE  R[H + P + i + 1] = FullRound2(R[H + P + i], H * 2 + P + i * 2)
    OBVIOUS
  <2> DEFINE r == H + P + i + 1
  <2>1. /\ r \in 1..Rounds /\ ~(r <= H) /\ ~(r <= H + P) /\ r - 1 = H + P + i
        /\ (r - 1 - P) * 2 + P = H * 2 + P + i * 2
    BY <1>1
  <2> HIDE DEF r
  <2>2. IsFull(r)
    BY <1>1, <2>1 DEF IsFull
  <2>3. KeysBefore(r, 2) = (r - 1 - P) * 2 + P
    BY <2>1, KeysOfRound
  <2>4. R[r] = FullRound2(R[H + P + i], H * 2 + P + i * 2)
    BY <1>4, <2>1, <2>2, <2>3
  <2> QED
    BY <2>4 DEF r
<1>8. LoopedFullRound2(R[0], 0, 0 + H * 2) = R[0 + H]
  <2>1. GoesFullRound2(R, 0, 0, H)
    BY <1>5 DEF GoesFullRound2
  <2> QED
    BY <1>1, <2>1, FullLoop2
<1>9. LoopedPartialRound2(R[H], H * 2, H * 2 + P * 1) = R[H + P]
  <2>1. GoesPartialRound2(R, H, H * 2, P) /\ H * 2 \in Nat
    BY <1>1, <1>6 DEF GoesPartialRound2
  <2> QED
    BY <1>1, <2>1, PartialLoop2
<1>10. LoopedFullRound2(R[H + P], H * 2 + P, H * 2 + P + H * 2) = R[H + P + H]
  <2>1. /\ GoesFullRound2(R, H + P, H * 2 + P, H)
        /\ H * 2 + P \in Nat /\ H + P \in Nat
    BY <1>1, <1>7 DEF GoesFullRound2
  <2> QED
    BY <1>1, <2>1, FullLoop2
<1>11. Permute2(s) =
         LoopedFullRound2(LoopedPartialRound2(LoopedFullRound2(MatMulExternal2(s), 0, H * 2),
                                     H * 2, H * 2 + P),
                          H * 2 + P, Len(Keys2))
  BY DEF Permute2, LoopedFullRound2, LoopedPartialRound2
<1>12. H + P + H = Rounds
  BY <1>1
<1>13. Permute2(s) = R[Rounds]
  <2>1. /\ 0 + H * 2 = H * 2 /\ 0 + H = H /\ H * 2 + P * 1 = H * 2 + P
        /\ Len(Keys2) = H * 2 + P + H * 2
    BY <1>1
  <2>2. R[0] = MatMulExternal2(s)
    BY <1>2, <1>3 DEF IsHistory
  <2> QED
    BY <1>8, <1>9, <1>10, <1>11, <1>12, <2>1, <2>2
<1> QED
  BY <1>3, <1>13 DEF IsHistory

LEMMA Permute3Is ==
  ASSUME NEW s \in Inputs3
  PROVE  Permute3(s) = Reference(s, Keys3)
<1> DEFINE H == RoundsFullHalf
           P == RoundsPartial
<1>1. H \in Nat /\ P \in Nat /\ Rounds = 2 * H + P /\ Len(Keys3) = 6 * H + P
  BY KeysAssumption DEF Rounds
<1>2. MatMulExternal3(s) = Linear(s, 0) /\ Linear(s, 0) \in Inputs3
  <2>1. s = <<s[1], s[2], s[3]>> /\ s[1] \in Nat /\ s[2] \in Nat /\ s[3] \in Nat
    BY ElementFacts DEF Inputs3
  <2>2. IsFull(0)
    BY <1>1 DEF IsFull
  <2>3. MatMulExternal3(<<s[1], s[2], s[3]>>) = Linear(<<s[1], s[2], s[3]>>, 0)
    BY <2>1, <2>2, External3
  <2>4. MatMulExternal3(s) \in Inputs3
    <3>1. Add(Add(s[1], s[2]), s[3]) \in Nat
      BY <2>1, ElementFacts
    <3> QED
      BY <2>1, <3>1, ElementFacts DEF MatMulExternal3, Inputs3
  <2> QED
    BY <2>1, <2>3, <2>4
<1>3. PICK R : IsHistory(R, Inputs3, s, Keys3)
  <2>1. \A r \in 1..Rounds : \A v \in Inputs3 : Round(v, Keys3, r) \in Inputs3
    BY FullRound3Is, PartialRound3Is
  <2> QED
    BY <1>2, <2>1, HistoryExists
<1>4. ASSUME NEW r \in 1..Rounds
      PROVE  R[r] = IF IsFull(r) THEN FullRound3(R[r - 1], KeysBefore(r, 3))
                                 ELSE PartialRound3(R[r - 1], KeysBefore(r, 3))
  <2>1. R[r - 1] \in Inputs3
    <3>1. r - 1 \in 0..Rounds
      BY <1>1
    <3> QED
      BY <1>3, <3>1 DEF IsHistory
  <2>2. R[r] = Round(R[r - 1], Keys3, r)
    BY <1>3 DEF IsHistory
  <2> QED
    BY <2>1, <2>2, FullRound3Is, PartialRound3Is
<1>5. \A i \in 0..(H - 1) : R[0 + i + 1] = FullRound3(R[0 + i], 0 + i * 3)
  <2> SUFFICES ASSUME NEW i \in 0..(H - 1)
               PROVE  R[0 + i + 1] = FullRound3(R[0 + i], 0 + i * 3)
    OBVIOUS
  <2> DEFINE r == 0 + i + 1
  <2>1. r \in 1..Rounds /\ r <= H /\ r - 1 = 0 + i /\ (r - 1) * 3 = 0 + i * 3
    BY <1>1
  <2> HIDE DEF r
  <2>2. IsFull(r)
    BY <2>1 DEF IsFull
  <2>3. KeysBefore(r, 3) = (r - 1) * 3
    BY <2>1, KeysOfRound
  <2>4. R[r] = FullRound3(R[0 + i], 0 + i * 3)
    BY <1>4, <2>1, <2>2, <2>3
  <2> QED
    BY <2>4 DEF r
<1>6. \A i \in 0..(P - 1) : R[H + i + 1] = PartialRound3(R[H + i], H * 3 + i * 1)
  <2> SUFFICES ASSUME NEW i \in 0..(P - 1)
               PROVE  R[H + i + 1] = PartialRound3(R[H + i], H * 3 + i * 1)
    OBVIOUS
  <2> DEFINE r == H + i + 1
  <2>1. /\ r \in 1..Rounds /\ ~(r <= H) /\ r <= H + P /\ r - 1 = H + i
        /\ H * 3 + (r - 1 - H) = H * 3 + i * 1
    BY <1>1
  <2> HIDE DEF r
  <2>2. ~IsFull(r)
    BY <1>1, <2>1 DEF IsFull
  <2>3. KeysBefore(r, 3) = H * 3 + (r - 1 - H)
    BY <2>1, KeysOfRound
  <2>4. R[r] = PartialRound3(R[H + i], H * 3 + i * 1)
    BY <1>4, <2>1, <2>2, <2>3
  <2> QED
    BY <2>4 DEF r
<1>7. \A i \in 0..(H - 1) : R[H + P + i + 1] = FullRound3(R[H + P + i], H * 3 + P + i * 3)
  <2> SUFFICES ASSUME NEW i \in 0..(H - 1)
               PROVE  R[H + P + i + 1] = FullRound3(R[H + P + i], H * 3 + P + i * 3)
    OBVIOUS
  <2> DEFINE r == H + P + i + 1
  <2>1. /\ r \in 1..Rounds /\ ~(r <= H) /\ ~(r <= H + P) /\ r - 1 = H + P + i
        /\ (r - 1 - P) * 3 + P = H * 3 + P + i * 3
    BY <1>1
  <2> HIDE DEF r
  <2>2. IsFull(r)
    BY <1>1, <2>1 DEF IsFull
  <2>3. KeysBefore(r, 3) = (r - 1 - P) * 3 + P
    BY <2>1, KeysOfRound
  <2>4. R[r] = FullRound3(R[H + P + i], H * 3 + P + i * 3)
    BY <1>4, <2>1, <2>2, <2>3
  <2> QED
    BY <2>4 DEF r
<1>8. LoopedFullRound3(R[0], 0, 0 + H * 3) = R[0 + H]
  <2>1. GoesFullRound3(R, 0, 0, H)
    BY <1>5 DEF GoesFullRound3
  <2> QED
    BY <1>1, <2>1, FullLoop3
<1>9. LoopedPartialRound3(R[H], H * 3, H * 3 + P * 1) = R[H + P]
  <2>1. GoesPartialRound3(R, H, H * 3, P) /\ H * 3 \in Nat
    BY <1>1, <1>6 DEF GoesPartialRound3
  <2> QED
    BY <1>1, <2>1, PartialLoop3
<1>10. LoopedFullRound3(R[H + P], H * 3 + P, H * 3 + P + H * 3) = R[H + P + H]
  <2>1. /\ GoesFullRound3(R, H + P, H * 3 + P, H)
        /\ H * 3 + P \in Nat /\ H + P \in Nat
    BY <1>1, <1>7 DEF GoesFullRound3
  <2> QED
    BY <1>1, <2>1, FullLoop3
<1>11. Permute3(s) =
         LoopedFullRound3(LoopedPartialRound3(LoopedFullRound3(MatMulExternal3(s), 0, H * 3),
                                     H * 3, H * 3 + P),
                          H * 3 + P, Len(Keys3))
  BY DEF Permute3, LoopedFullRound3, LoopedPartialRound3
<1>12. H + P + H = Rounds
  BY <1>1
<1>13. Permute3(s) = R[Rounds]
  <2>1. /\ 0 + H * 3 = H * 3 /\ 0 + H = H /\ H * 3 + P * 1 = H * 3 + P
        /\ Len(Keys3) = H * 3 + P + H * 3
    BY <1>1
  <2>2. R[0] = MatMulExternal3(s)
    BY <1>2, <1>3 DEF IsHistory
  <2> QED
    BY <1>8, <1>9, <1>10, <1>11, <1>12, <2>1, <2>2
<1> QED
  BY <1>3, <1>13 DEF IsHistory

(* hash2 and hash3 are the reference's, over every field and whatever the  *)
(* keys and the numbers of rounds are.                                     *)
THEOREM HashesCorrect == HashesAreReference
<1>1. ASSUME NEW s \in Inputs2
      PROVE  hash2(s[1], s[2]) = (Reference(s, Keys2)[2] + s[2]) % Field
  <2>1. s = <<s[1], s[2]>>
    BY DEF Inputs2
  <2>2. Permute2(s) = Reference(s, Keys2)
    BY Permute2Is
  <2> QED
    BY <2>1, <2>2 DEF hash2, Add
<1>2. ASSUME NEW s \in Inputs3
      PROVE  hash3(s[1], s[2], s[3]) = (Reference(s, Keys3)[1] + s[1]) % Field
  <2>1. s = <<s[1], s[2], s[3]>>
    BY DEF Inputs3
  <2>2. Permute3(s) = Reference(s, Keys3)
    BY Permute3Is
  <2> QED
    BY <2>1, <2>2 DEF hash3, Add
<1> QED
  BY <1>1, <1>2 DEF HashesAreReference

(* So the tree's nodes are made with the reference's hash, in every state  *)
(* of the tree: what the runs check for some keys.                         *)
THEOREM NodesAreHashed == Spec => []NodesHashAsReference
<1>1. NodesHashAsReference
  BY HashesCorrect DEF NodesHashAsReference
<1> QED
  BY <1>1, PTL

-----------------------------------------------------------------------------
(* Multiples of Field, as a difference of two numbers is when they are     *)
(* equal modulo Field.                                                     *)

Multiple == { k * Field : k \in Int }

LEMMA MultipleFacts ==
  /\ Multiple \subseteq Int
  /\ 0 \in Multiple /\ Field \in Multiple
  /\ \A a, b \in Multiple : a + b \in Multiple /\ a - b \in Multiple
  /\ \A a \in Multiple, n \in Int : n * a \in Multiple
<1> Field \in Int
  BY FieldAssumption
<1>1. Multiple \subseteq Int
  BY DEF Multiple
<1>2. 0 \in Multiple /\ Field \in Multiple
  <2>1. 0 = 0 * Field /\ Field = 1 * Field
    OBVIOUS
  <2> QED
    BY <2>1 DEF Multiple
<1>3. ASSUME NEW a \in Multiple, NEW b \in Multiple
      PROVE  a + b \in Multiple /\ a - b \in Multiple
  <2>1. PICK k \in Int : a = k * Field
    BY DEF Multiple
  <2>2. PICK l \in Int : b = l * Field
    BY DEF Multiple
  <2>3. a + b = (k + l) * Field /\ a - b = (k - l) * Field
    BY <2>1, <2>2
  <2>4. k + l \in Int /\ k - l \in Int
    OBVIOUS
  <2> QED
    BY <2>3, <2>4 DEF Multiple
<1>4. ASSUME NEW a \in Multiple, NEW n \in Int PROVE n * a \in Multiple
  <2>1. PICK k \in Int : a = k * Field
    BY DEF Multiple
  <2>2. n * a = (n * k) * Field /\ n * k \in Int
    BY <2>1
  <2> QED
    BY <2>2 DEF Multiple
<1> QED
  BY <1>1, <1>2, <1>3, <1>4

LEMMA SameRemainder ==
  ASSUME NEW a \in Nat, NEW b \in Nat, a % Field = b % Field
  PROVE  a - b \in Multiple
<1> DEFINE q == a \div Field
           t == b \div Field
           r == a % Field
<1>1. /\ q \in Nat /\ t \in Nat /\ r \in Nat /\ Field \in Nat
      /\ a = q * Field + r /\ b = t * Field + r
  <2>1. q \in Nat /\ r \in Nat /\ a = q * Field + r
    BY Remainder, ElementFacts
  <2>2. t \in Nat /\ b = t * Field + (b % Field)
    BY Remainder
  <2>3. b % Field = r
    OBVIOUS
  <2> HIDE DEF q, t, r
  <2> QED
    BY <2>1, <2>2, <2>3, FieldAssumption
<1> HIDE DEF q, t, r
<1>2. a - b = (q - t) * Field /\ q - t \in Int
  BY <1>1
<1> QED
  BY <1>2 DEF Multiple

LEMMA MultipleRemainder ==
  ASSUME NEW a \in Nat
  PROVE  /\ a - (a % Field) \in Multiple
         /\ a % Field = 0 <=> a \in Multiple
<1> DEFINE q == a \div Field
           r == a % Field
<1>1. /\ q \in Nat /\ r \in Nat /\ r < Field /\ Field \in Nat
      /\ a = q * Field + r
  BY Remainder, FieldAssumption DEF Element
<1> HIDE DEF q, r
<1>2. a - r = q * Field /\ q \in Int
  BY <1>1
<1>3. a - r \in Multiple
  BY <1>2 DEF Multiple
<1>4. ASSUME r = 0 PROVE a \in Multiple
  <2>1. a - r = a
    BY <1>1, <1>4
  <2> QED
    BY <1>3, <2>1
<1>5. ASSUME a \in Multiple PROVE r = 0
  <2>1. r = a - (a - r)
    BY <1>1
  <2>2. r \in Multiple
    BY <1>3, <1>5, <2>1, MultipleFacts
  <2>3. PICK k \in Int : r = k * Field
    BY <2>2 DEF Multiple
  <2>4. k >= 1 => k * Field >= Field
    BY <1>1
  <2>5. k <= -1 => k * Field < 0
    BY <1>1, FieldAssumption
  <2>6. k = 0
    BY <1>1, <2>3, <2>4, <2>5
  <2> QED
    BY <1>1, <2>3, <2>6
<1> QED
  BY <1>3, <1>4, <1>5 DEF r

LEMMA SameElement ==
  ASSUME NEW a \in Element, NEW b \in Element, a - b \in Multiple
  PROVE  a = b
<1>1. a \in Nat /\ b \in Nat /\ a < Field /\ b < Field /\ Field \in Nat
  BY FieldAssumption DEF Element
<1>2. PICK k \in Int : a - b = k * Field
  BY DEF Multiple
<1>3. k >= 1 => k * Field >= Field
  BY <1>1
<1>4. k <= -1 => k * Field <= -Field
  BY <1>1
<1>5. k = 0
  BY <1>1, <1>2, <1>3, <1>4
<1> QED
  BY <1>1, <1>2, <1>5

-----------------------------------------------------------------------------
(* Field is a prime: what is no multiple of it can be divided by.          *)

LEMMA InverseExists ==
  ASSUME NEW y \in Nat, y \notin Multiple
  PROVE  \E k \in Int : 1 - k * y \in Multiple
<1> DEFINE D == { n \in Nat \ {0} : \E k \in Int : n - k * y \in Multiple }
           r0 == y % Field
<1>1. Field \in Nat /\ Field > 1
  BY FieldAssumption
<1>2. r0 \in D /\ r0 < Field
  <2>1. r0 \in Nat /\ r0 < Field /\ r0 # 0 /\ y - r0 \in Multiple
    BY <1>1, Remainder, MultipleRemainder DEF Element
  <2> HIDE DEF r0
  <2>2. r0 - 1 * y = 0 - (y - r0)
    BY <2>1
  <2>3. r0 - 1 * y \in Multiple
    BY <2>1, <2>2, MultipleFacts
  <2> QED
    BY <2>1, <2>3
<1> HIDE DEF r0
<1>3. PICK n \in D : \A m \in D : n <= m
  <2> D \subseteq Nat /\ D # {}
    BY <1>2
  <2> HIDE DEF D
  <2> QED
    BY Least
<1>4. PICK k \in Int : n - k * y \in Multiple
  OBVIOUS
<1>5. n \in Nat /\ n > 0 /\ n < Field
  <2>1. n \in Nat \ {0} /\ r0 \in Nat \ {0}
    BY <1>2
  <2> HIDE DEF D
  <2>2. n <= r0
    BY <1>2, <1>3
  <2> QED
    BY <1>1, <1>2, <2>1, <2>2
<1> DEFINE q == Field \div n
           r == Field % n
<1>6. q \in Nat /\ r \in Nat /\ r < n /\ Field = q * n + r
  BY <1>1, <1>5
<1>7. r = 0
  <2> SUFFICES ASSUME r # 0 PROVE FALSE
    OBVIOUS
  <2> HIDE DEF q, r
  <2>1. r - ((-q) * k) * y = Field - q * (n - k * y)
    <3>1. q * (n - k * y) = q * n - (q * k) * y
      BY <1>5, <1>6
    <3>2. ((-q) * k) * y = -((q * k) * y)
      BY <1>6
    <3> QED
      BY <1>1, <1>5, <1>6, <3>1, <3>2
  <2>2. r - ((-q) * k) * y \in Multiple
    <3>1. q * (n - k * y) \in Multiple
      BY <1>4, <1>6, MultipleFacts
    <3> QED
      BY <2>1, <3>1, MultipleFacts
  <2>3. (-q) * k \in Int
    BY <1>6
  <2>4. r \in D
    BY <1>6, <2>2, <2>3
  <2> HIDE DEF D
  <2> QED
    BY <1>3, <1>5, <1>6, <2>4
<1>8. n = 1
  <2>1. n \in 2..(Field - 1) => Field % n # 0
    BY FieldAssumption
  <2> HIDE DEF D
  <2> QED
    BY <1>1, <1>5, <1>7, <2>1
<1> QED
  BY <1>4, <1>8

LEMMA Euclid ==
  ASSUME NEW a \in Nat, NEW b \in Int, a * b \in Multiple, a \notin Multiple
  PROVE  b \in Multiple
<1>1. PICK k \in Int : 1 - k * a \in Multiple
  BY InverseExists
<1>2. b = b * (1 - k * a) + k * (a * b)
  <2>1. b * (1 - k * a) = b - (k * a) * b
    OBVIOUS
  <2>2. (k * a) * b = k * (a * b)
    OBVIOUS
  <2> QED
    BY <2>1, <2>2
<1>3. b * (1 - k * a) \in Multiple /\ k * (a * b) \in Multiple
  BY <1>1, MultipleFacts
<1> QED
  BY <1>2, <1>3, MultipleFacts

-----------------------------------------------------------------------------
(* The fifth power is injective modulo Field: a number other than 1 whose  *)
(* fifth power is 1 would group the field's other elements in fives, and   *)
(* then Field % 5 would be 1.                                              *)

LEMMA BlocksOfFive ==
  ASSUME NEW S, IsFiniteSet(S), NEW f \in [S -> S],
         \A z \in S : f[z] # z /\ f[f[f[f[f[z]]]]] = z
  PROVE  Cardinality(S) % 5 = 0
<1> DEFINE Closed(T) == T \subseteq S /\ \A z \in T : f[z] \in T
           D == { T \in SUBSET S : Closed(T) /\ Cardinality(T) % 5 # 0 }
           N == { Cardinality(T) : T \in D }
<1> SUFFICES ASSUME Cardinality(S) % 5 # 0 PROVE FALSE
  OBVIOUS
<1>1. \A T \in SUBSET S : IsFiniteSet(T) /\ Cardinality(T) \in Nat
  BY FS_Subset, FS_CardinalityType
<1>2. S \in D
  OBVIOUS
<1>3. PICK T \in D : \A U \in D : Cardinality(T) <= Cardinality(U)
  <2>1. N \subseteq Nat /\ N # {}
    BY <1>1, <1>2
  <2>2. PICK n \in N : \A m \in N : n <= m
    <3> HIDE DEF N
    <3> QED
      BY <2>1, Least
  <2> QED
    BY <2>2
<1>4. T \subseteq S /\ (\A z \in T : f[z] \in T) /\ Cardinality(T) % 5 # 0
  OBVIOUS
<1>5. T # {}
  BY <1>4, FS_EmptySet
<1>6. PICK a \in T : TRUE
  BY <1>5
<1> DEFINE b == f[a]
           c == f[b]
           d == f[c]
           e == f[d]
<1>7. b \in T /\ c \in T /\ d \in T /\ e \in T /\ f[e] = a
  BY <1>4, <1>6
<1>8. /\ a # b /\ a # c /\ a # d /\ a # e /\ b # c /\ b # d /\ b # e
      /\ c # d /\ c # e /\ d # e
  <2>1. /\ f[a] = b /\ f[b] = c /\ f[c] = d /\ f[d] = e /\ f[e] = a
        /\ a # b /\ b # c /\ c # d /\ d # e /\ e # a
    BY <1>4, <1>6, <1>7
  <2> HIDE DEF b, c, d, e
  <2> QED
    BY <2>1
<1>9. /\ f[a] = b /\ f[b] = c /\ f[c] = d /\ f[d] = e /\ f[e] = a
  BY <1>7
<1> HIDE DEF b, c, d, e
<1> DEFINE O == {a, b, c, d, e}
           U == T \ O
<1>10. Cardinality(U) = Cardinality(T) - 5 /\ Cardinality(T) \in Nat
  <2>1. IsFiniteSet(T) /\ Cardinality(T) \in Nat
    BY <1>1, <1>4
  <2> DEFINE T1 == T \ {a}
             T2 == T1 \ {b}
             T3 == T2 \ {c}
             T4 == T3 \ {d}
             T5 == T4 \ {e}
  <2>2. b \in T1 /\ c \in T2 /\ d \in T3 /\ e \in T4 /\ U = T5
    BY <1>7, <1>8
  <2>3. IsFiniteSet(T1) /\ Cardinality(T1) = Cardinality(T) - 1
    BY <1>6, <2>1, FS_RemoveElement
  <2> HIDE DEF T1
  <2>4. IsFiniteSet(T2) /\ Cardinality(T2) = Cardinality(T1) - 1
    BY <2>2, <2>3, FS_RemoveElement
  <2> HIDE DEF T2
  <2>5. IsFiniteSet(T3) /\ Cardinality(T3) = Cardinality(T2) - 1
    BY <2>2, <2>4, FS_RemoveElement
  <2> HIDE DEF T3
  <2>6. IsFiniteSet(T4) /\ Cardinality(T4) = Cardinality(T3) - 1
    BY <2>2, <2>5, FS_RemoveElement
  <2> HIDE DEF T4
  <2>7. IsFiniteSet(T5) /\ Cardinality(T5) = Cardinality(T4) - 1
    BY <2>2, <2>6, FS_RemoveElement
  <2> HIDE DEF T5, U
  <2> QED
    BY <2>1, <2>2, <2>3, <2>4, <2>5, <2>6, <2>7
<1>11. Closed(U)
  <2> SUFFICES ASSUME NEW z \in U PROVE f[z] \notin O
    BY <1>4
  <2>1. z \in T /\ z \in S /\ z \notin O
    BY <1>4
  <2>2. f[f[f[f[f[z]]]]] = z
    BY <2>1
  <2> QED
    BY <1>9, <2>1, <2>2
<1>12. Cardinality(U) % 5 # 0 /\ ~(Cardinality(T) <= Cardinality(U))
  BY <1>4, <1>10
<1>13. U \in D
  BY <1>4, <1>11, <1>12
<1> QED
  BY <1>3, <1>12, <1>13

LEMMA RootsOfUnity ==
  ASSUME NEW g \in Nat, Fifth(g) - 1 \in Multiple
  PROVE  g - 1 \in Multiple
<1> SUFFICES ASSUME g - 1 \notin Multiple PROVE FALSE
  OBVIOUS
<1> DEFINE S == 1..(Field - 1)
           f == [z \in S |-> (z * g) % Field]
<1>1. Field \in Nat /\ Field > 1 /\ S \subseteq Nat /\ S \subseteq Element
  BY FieldAssumption DEF Element
<1>2. \A z \in S : z \notin Multiple
  <2> SUFFICES ASSUME NEW z \in S, z \in Multiple PROVE FALSE
    OBVIOUS
  <2>1. z \in Element /\ 0 \in Element /\ z - 0 = z
    BY <1>1 DEF Element
  <2>2. z = 0
    BY <2>1, SameElement
  <2> QED
    BY <2>2
<1>3. g \notin Multiple
  <2> SUFFICES ASSUME g \in Multiple PROVE FALSE
    OBVIOUS
  <2>1. Fifth(g) = (g * g * g * g) * g /\ g * g * g * g \in Int
    BY DEF Fifth
  <2>2. Fifth(g) \in Multiple
    BY <2>1, MultipleFacts
  <2>3. 1 = Fifth(g) - (Fifth(g) - 1)
    BY DEF Fifth
  <2>4. 1 \in Multiple
    BY <2>2, <2>3, MultipleFacts
  <2> QED
    BY <1>1, <1>2, <2>4
<1>4. ASSUME NEW z \in Nat, NEW w \in Nat, z * w \in Multiple, z \notin Multiple
      PROVE  w \in Multiple
  BY <1>4, Euclid
<1>5. ASSUME NEW z \in S PROVE (z * g) % Field \in S
  <2>1. z * g \in Nat /\ z \in Nat
    BY <1>1
  <2>2. z * g \notin Multiple
    BY <1>2, <1>3, <1>4, <2>1
  <2>3. (z * g) % Field # 0 /\ (z * g) % Field \in Element
    BY <2>1, <2>2, MultipleRemainder, Remainder
  <2> QED
    BY <1>1, <2>3 DEF Element
<1>6. f \in [S -> S]
  BY <1>5
<1>7. ASSUME NEW z \in S PROVE f[z] # z
  <2> SUFFICES ASSUME f[z] = z PROVE FALSE
    OBVIOUS
  <2>1. z \in Nat /\ z * g \in Nat /\ (z * g) % Field = z
    BY <1>1
  <2>2. z * g - z \in Multiple
    BY <2>1, MultipleRemainder
  <2>3. z * (g - 1) = z * g - z /\ g - 1 \in Int
    BY <2>1
  <2> QED
    BY <1>2, <2>1, <2>2, <2>3, Euclid
<1>8. ASSUME NEW z \in S PROVE f[f[f[f[f[z]]]]] = z
  <2> DEFINE a == f[z]
             b == f[a]
             c == f[b]
             d == f[c]
             e == f[d]
  <2>1. a \in S /\ b \in S /\ c \in S /\ d \in S /\ e \in S
    BY <1>6
  <2>2. ASSUME NEW x \in S
        PROVE  x \in Nat /\ x * g - f[x] \in Multiple
    <3>1. x \in Nat /\ x * g \in Nat /\ f[x] = (x * g) % Field
      BY <1>1
    <3> QED
      BY <3>1, MultipleRemainder
  <2>3. /\ z * g - a \in Multiple /\ a * g - b \in Multiple /\ b * g - c \in Multiple
        /\ c * g - d \in Multiple /\ d * g - e \in Multiple
        /\ z \in Nat /\ a \in Nat /\ b \in Nat /\ c \in Nat /\ d \in Nat /\ e \in Nat
    BY <2>1, <2>2
  <2> HIDE DEF f, a, b, c, d, e
  <2>4. z \in Int /\ g \in Int
    BY <2>3
  <2>5. z * (g * g) - b \in Multiple
    <3>1. g * (z * g - a) \in Multiple
      BY <2>3, MultipleFacts
    <3>2. z * (g * g) - b = g * (z * g - a) + (a * g - b)
      BY <2>3
    <3> QED
      BY <2>3, <3>1, <3>2, MultipleFacts
  <2>6. z * (g * g * g) - c \in Multiple
    <3>1. g * (z * (g * g) - b) \in Multiple
      BY <2>4, <2>5, MultipleFacts, Zenon
    <3>2. z * (g * g * g) - c = g * (z * (g * g) - b) + (b * g - c)
      BY <2>3
    <3> QED
      BY <2>3, <3>1, <3>2, MultipleFacts
  <2>7. z * (g * g * g * g) - d \in Multiple
    <3>1. g * (z * (g * g * g) - c) \in Multiple
      BY <2>4, <2>6, MultipleFacts, Zenon
    <3>2. z * (g * g * g * g) - d = g * (z * (g * g * g) - c) + (c * g - d)
      BY <2>3
    <3> QED
      BY <2>3, <3>1, <3>2, MultipleFacts
  <2>8. z * Fifth(g) - e \in Multiple
    <3>1. g * (z * (g * g * g * g) - d) \in Multiple
      BY <2>4, <2>7, MultipleFacts, Zenon
    <3>2. z * Fifth(g) - e = g * (z * (g * g * g * g) - d) + (d * g - e)
      BY <2>3 DEF Fifth
    <3> QED
      BY <2>3, <3>1, <3>2, MultipleFacts
  <2>9. z - e = (z * Fifth(g) - e) - z * (Fifth(g) - 1)
    <3>1. Fifth(g) \in Int
      BY DEF Fifth
    <3> QED
      BY <2>3, <3>1
  <2>10. z - e \in Multiple
    <3>1. z * (Fifth(g) - 1) \in Multiple
      BY <2>4, MultipleFacts, Zenon
    <3> QED
      BY <2>8, <2>9, <3>1, MultipleFacts
  <2>11. z = e
    BY <1>1, <2>1, <2>10, SameElement
  <2> QED
    BY <2>11 DEF a, b, c, d, e
<1>9. IsFiniteSet(S) /\ Cardinality(S) = Field - 1
  <2>1. 1 \in Nat /\ Field - 1 \in Nat /\ 1 <= (Field - 1) + 1 /\ (Field - 1) + 1 - 1 = Field - 1
    BY <1>1
  <2> QED
    BY <2>1, IntervalSize
<1>10. Cardinality(S) % 5 = 0
  <2> HIDE DEF S, f
  <2> QED
    BY <1>6, <1>7, <1>8, <1>9, BlocksOfFive
<1>11. Field % 5 = 1
  <2>1. (Field - 1) % 5 = 0
    BY <1>9, <1>10
  <2> QED
    BY <1>1, <2>1
<1> QED
  BY <1>11, FieldAssumption

LEMMA FifthInjective ==
  ASSUME NEW x \in Nat, NEW y \in Nat, Fifth(x) - Fifth(y) \in Multiple
  PROVE  x - y \in Multiple
<1>1. Fifth(x) \in Int /\ Fifth(y) \in Int
  BY DEF Fifth
<1>2. ASSUME NEW v \in Nat, Fifth(v) \in Multiple PROVE v \in Multiple
  <2> SUFFICES ASSUME v \notin Multiple PROVE FALSE
    OBVIOUS
  <2>1. /\ v * (v * v * v * v) \in Multiple
        /\ v * v * v * v = v * (v * v * v)
        /\ v * v * v = v * (v * v)
        /\ v * v * v * v \in Int /\ v * v * v \in Int /\ v * v \in Int
    BY <1>2 DEF Fifth
  <2>2. v * v * v * v \in Multiple
    BY <2>1, Euclid
  <2>3. v * v * v \in Multiple
    BY <2>1, <2>2, Euclid
  <2>4. v * v \in Multiple
    BY <2>1, <2>3, Euclid
  <2> QED
    BY <2>4, Euclid
<1>3. CASE y \in Multiple
  <2>1. Fifth(y) = (y * y * y * y) * y /\ y * y * y * y \in Int
    BY DEF Fifth
  <2>2. Fifth(y) \in Multiple
    BY <1>3, <2>1, MultipleFacts
  <2>3. Fifth(x) = (Fifth(x) - Fifth(y)) + Fifth(y)
    BY <1>1
  <2>4. Fifth(x) \in Multiple
    BY <2>2, <2>3, MultipleFacts
  <2> QED
    BY <1>2, <1>3, <2>4, MultipleFacts
<1>4. CASE y \notin Multiple
  <2>1. PICK k \in Int : 1 - k * y \in Multiple
    BY <1>4, InverseExists
  <2>2. PICK m \in Nat : k - m \in Multiple
    <3>1. Field \in Nat /\ Field > 1
      BY FieldAssumption
    <3>2. CASE k >= 0
      <4>1. k - k = 0 /\ k \in Nat
        BY <3>2
      <4> QED
        BY <4>1, MultipleFacts
    <3>3. CASE k < 0
      <4>1. k - (k - k * Field) = k * Field
        BY <3>1
      <4>2. k - k * Field \in Nat
        <5>1. k - k * Field = (-k) * (Field - 1)
          BY <3>1
        <5>2. -k \in Nat /\ Field - 1 \in Nat
          BY <3>1, <3>3
        <5> QED
          BY <5>1, <5>2
      <4>3. k * Field \in Multiple
        BY DEF Multiple
      <4> QED
        BY <4>1, <4>2, <4>3
    <3> QED
      BY <3>2, <3>3
  <2> DEFINE g == m * x
  <2>3. g \in Nat
    OBVIOUS
  <2>4. 1 - m * y \in Multiple
    <3>1. y * (k - m) \in Multiple
      BY <2>2, MultipleFacts
    <3>2. 1 - m * y = (1 - k * y) + y * (k - m)
      OBVIOUS
    <3> QED
      BY <2>1, <3>1, <3>2, MultipleFacts
  <2>5. x - g * y \in Multiple
    <3>1. x * (1 - m * y) \in Multiple
      BY <2>4, MultipleFacts
    <3>2. x - g * y = x * (1 - m * y)
      OBVIOUS
    <3> QED
      BY <3>1, <3>2
  <2> HIDE DEF g
  <2>6. Fifth(x) - Fifth(g * y) \in Multiple
    <3> DEFINE w == g * y
               q == x * x * x * x + x * x * x * w + x * x * w * w + x * w * w * w + w * w * w * w
    <3>1. w \in Nat
      BY <2>3
    <3> HIDE DEF w
    <3>2. q \in Int
      BY <3>1
    <3>3. Fifth(x) - Fifth(w) = q * (x - w)
      BY <3>1 DEF Fifth
    <3> HIDE DEF q
    <3>4. x - w \in Multiple
      BY <2>5 DEF w
    <3>5. q * (x - w) \in Multiple
      BY <3>2, <3>4, MultipleFacts
    <3> QED
      BY <3>3, <3>5 DEF w
  <2>7. Fifth(g * y) = Fifth(y) * Fifth(g)
    BY <2>3 DEF Fifth
  <2>8. Fifth(y) * (Fifth(g) - 1) \in Multiple
    <3>1. Fifth(g) \in Int
      BY <2>3 DEF Fifth
    <3>2. Fifth(y) * (Fifth(g) - 1) = (Fifth(x) - Fifth(y)) - (Fifth(x) - Fifth(g * y))
      BY <1>1, <2>7, <3>1
    <3> QED
      BY <2>6, <3>2, MultipleFacts
  <2>9. Fifth(g) - 1 \in Multiple
    <3>1. Fifth(y) \in Nat /\ Fifth(g) - 1 \in Int
      BY <2>3 DEF Fifth
    <3>2. Fifth(y) \notin Multiple
      BY <1>2, <1>4
    <3> QED
      BY <2>8, <3>1, <3>2, Euclid
  <2>10. g - 1 \in Multiple
    BY <2>3, <2>9, RootsOfUnity
  <2>11. x - y = (x - g * y) + y * (g - 1) /\ y \in Int
    BY <2>3
  <2>12. y * (g - 1) \in Multiple
    BY <2>10, <2>11, MultipleFacts, Zenon
  <2> QED
    BY <2>5, <2>11, <2>12, MultipleFacts
<1> QED
  BY <1>3, <1>4

-----------------------------------------------------------------------------
(* The rounds lose nothing: an S-box does not, and a linear layer does not *)
(* over a field of more than 7 elements, which its matrices can be solved  *)
(* in.  (The determinants are 3, 4, 5 and 7.)                              *)

LEMMA SBoxInjective ==
  ASSUME NEW x \in Element, NEW y \in Element, NEW k \in Element,
         Fifth((x + k) % Field) % Field = Fifth((y + k) % Field) % Field
  PROVE  x = y
<1> DEFINE a == (x + k) % Field
           b == (y + k) % Field
<1>1. x \in Nat /\ y \in Nat /\ x + k \in Nat /\ y + k \in Nat /\ k \in Nat
  <2>1. x \in Nat /\ y \in Nat /\ k \in Nat
    BY ElementFacts
  <2> QED
    BY <2>1
<1>2. a \in Element /\ b \in Element /\ a \in Nat /\ b \in Nat
  BY <1>1, Remainder, ElementFacts
<1>3. a = b
  <2> HIDE DEF a, b
  <2>1. Fifth(a) \in Nat /\ Fifth(b) \in Nat
    BY <1>2 DEF Fifth
  <2>2. Fifth(a) % Field = Fifth(b) % Field
    BY DEF a, b
  <2>3. Fifth(a) - Fifth(b) \in Multiple
    BY <2>1, <2>2, SameRemainder
  <2>4. a - b \in Multiple
    BY <1>2, <2>3, FifthInjective
  <2> QED
    BY <1>2, <2>4, SameElement
<1>4. (x + k) - (y + k) \in Multiple
  BY <1>1, <1>3, SameRemainder
<1>5. (x + k) - (y + k) = x - y
  BY <1>1
<1>6. x - y \in Multiple
  BY <1>4, <1>5
<1> QED
  BY <1>6, SameElement

LEMMA Divided ==
  ASSUME Field > 7, NEW n \in 1..7, NEW a \in Element, NEW b \in Element,
         n * (a - b) \in Multiple
  PROVE  a = b
<1>1. n \in Nat /\ n \in Element /\ 0 \in Element /\ n # 0 /\ n - 0 = n
  BY FieldAssumption DEF Element
<1>2. n \notin Multiple
  BY <1>1, SameElement
<1>3. a - b \in Int
  BY ElementFacts
<1>4. a - b \in Multiple
  BY <1>1, <1>2, <1>3, Euclid
<1> QED
  BY <1>4, SameElement

(* The rows of a layer's matrix.                                           *)
Corner(r) == IF IsFull(r) THEN 2 ELSE 3

LEMMA Linear2Rows ==
  ASSUME NEW x \in Nat, NEW y \in Nat, NEW r \in Nat
  PROVE  Linear(<<x, y>>, r) = <<(2 * x + y) % Field, (x + Corner(r) * y) % Field>>
BY FieldAssumption DEF Linear, State, Entry, Corner

LEMMA Linear3Rows ==
  ASSUME NEW x \in Nat, NEW y \in Nat, NEW z \in Nat, NEW r \in Nat
  PROVE  Linear(<<x, y, z>>, r) =
           <<(2 * x + y + z) % Field, (x + 2 * y + z) % Field,
             (x + y + Corner(r) * z) % Field>>
BY FieldAssumption DEF Linear, State, Entry, Corner

LEMMA Linear2Injective ==
  ASSUME Field > 7, NEW s \in Inputs2, NEW t \in Inputs2, NEW r \in Nat,
         Linear(s, r) = Linear(t, r)
  PROVE  s = t
<1> DEFINE k == Corner(r)
<1> PICK x \in Element, y \in Element : s = <<x, y>>
  BY DEF Inputs2
<1> PICK v \in Element, w \in Element : t = <<v, w>>
  BY DEF Inputs2
<1>1. x \in Nat /\ y \in Nat /\ v \in Nat /\ w \in Nat /\ k \in {2, 3}
  BY ElementFacts DEF Corner
<1>2. /\ (2 * x + y) % Field = (2 * v + w) % Field
      /\ (x + k * y) % Field = (v + k * w) % Field
  <2>1. /\ Linear(<<x, y>>, r) = <<(2 * x + y) % Field, (x + k * y) % Field>>
        /\ Linear(<<v, w>>, r) = <<(2 * v + w) % Field, (v + k * w) % Field>>
    BY <1>1, Linear2Rows
  <2> QED
    BY <2>1
<1> HIDE DEF k
<1> DEFINE A == (2 * x + y) - (2 * v + w)
           B == (x + k * y) - (v + k * w)
<1>3. A \in Multiple /\ B \in Multiple
  <2>1. /\ 2 * x + y \in Nat /\ 2 * v + w \in Nat
        /\ x + k * y \in Nat /\ v + k * w \in Nat
    BY <1>1
  <2> QED
    BY <1>2, <2>1, SameRemainder
<1>4. /\ (2 * k - 1) * (x - v) = k * A - B
      /\ (2 * k - 1) * (y - w) = 2 * B - A
      /\ 2 * k - 1 \in 1..7
  BY <1>1
<1>5. k * A - B \in Multiple /\ 2 * B - A \in Multiple
  <2> HIDE DEF A, B
  <2>1. k \in Int /\ 2 \in Int
    BY <1>1
  <2>2. k * A \in Multiple /\ 2 * B \in Multiple
    BY <1>3, <2>1, MultipleFacts
  <2> QED
    BY <1>3, <2>2, MultipleFacts
<1>6. (2 * k - 1) * (x - v) \in Multiple /\ (2 * k - 1) * (y - w) \in Multiple
  BY <1>4, <1>5, Zenon
<1>7. x = v /\ y = w
  <2> DEFINE n == 2 * k - 1
  <2>1. n \in 1..7 /\ n * (x - v) \in Multiple /\ n * (y - w) \in Multiple
    BY <1>4, <1>6
  <2> HIDE DEF n
  <2> QED
    BY <2>1, Divided
<1> QED
  BY <1>7

LEMMA Linear3Injective ==
  ASSUME Field > 7, NEW s \in Inputs3, NEW t \in Inputs3, NEW r \in Nat,
         Linear(s, r) = Linear(t, r)
  PROVE  s = t
<1> DEFINE k == Corner(r)
<1> PICK x \in Element, y \in Element, z \in Element : s = <<x, y, z>>
  BY DEF Inputs3
<1> PICK u \in Element, v \in Element, w \in Element : t = <<u, v, w>>
  BY DEF Inputs3
<1>1. /\ x \in Nat /\ y \in Nat /\ z \in Nat /\ u \in Nat /\ v \in Nat /\ w \in Nat
      /\ k \in {2, 3}
  BY ElementFacts DEF Corner
<1>2. /\ (2 * x + y + z) % Field = (2 * u + v + w) % Field
      /\ (x + 2 * y + z) % Field = (u + 2 * v + w) % Field
      /\ (x + y + k * z) % Field = (u + v + k * w) % Field
  <2>1. Linear(<<x, y, z>>, r) =
          <<(2 * x + y + z) % Field, (x + 2 * y + z) % Field, (x + y + k * z) % Field>>
    BY <1>1, Linear3Rows
  <2>2. Linear(<<u, v, w>>, r) =
          <<(2 * u + v + w) % Field, (u + 2 * v + w) % Field, (u + v + k * w) % Field>>
    BY <1>1, Linear3Rows
  <2> QED
    BY <2>1, <2>2
<1> HIDE DEF k
<1> DEFINE A == (2 * x + y + z) - (2 * u + v + w)
           B == (x + 2 * y + z) - (u + 2 * v + w)
           C == (x + y + k * z) - (u + v + k * w)
           n == 3 * k - 2
<1>3. A \in Multiple /\ B \in Multiple /\ C \in Multiple
  <2>1. /\ 2 * x + y + z \in Nat /\ 2 * u + v + w \in Nat
        /\ x + 2 * y + z \in Nat /\ u + 2 * v + w \in Nat
        /\ x + y + k * z \in Nat /\ u + v + k * w \in Nat
    BY <1>1
  <2> QED
    BY <1>2, <2>1, SameRemainder
<1>4. /\ n * (x - u) = ((2 * k - 1) * A - (k - 1) * B) - C
      /\ n * (y - v) = ((2 * k - 1) * B - (k - 1) * A) - C
      /\ n * (z - w) = (3 * C - A) - B
      /\ n \in 1..7 /\ 2 * k - 1 \in Int /\ k - 1 \in Int
  BY <1>1
<1> HIDE DEF A, B, C, n
<1>5. /\ ((2 * k - 1) * A - (k - 1) * B) - C \in Multiple
      /\ ((2 * k - 1) * B - (k - 1) * A) - C \in Multiple
      /\ (3 * C - A) - B \in Multiple
  <2> DEFINE i == 2 * k - 1
             j == k - 1
  <2>1. i \in Int /\ j \in Int /\ 3 \in Int
    BY <1>4
  <2> HIDE DEF i, j
  <2>2. /\ i * A \in Multiple /\ j * B \in Multiple /\ i * B \in Multiple
        /\ j * A \in Multiple /\ 3 * C \in Multiple
    BY <1>3, <2>1, MultipleFacts
  <2>3. (i * A - j * B) \in Multiple /\ (i * B - j * A) \in Multiple /\ 3 * C - A \in Multiple
    BY <1>3, <2>2, MultipleFacts
  <2>4. /\ (i * A - j * B) - C \in Multiple /\ (i * B - j * A) - C \in Multiple
        /\ (3 * C - A) - B \in Multiple
    BY <1>3, <2>3, MultipleFacts
  <2> QED
    BY <2>4 DEF i, j
<1>6. x = u /\ y = v /\ z = w
  <2>1. /\ n * (x - u) \in Multiple /\ n * (y - v) \in Multiple
        /\ n * (z - w) \in Multiple
    BY <1>4, <1>5, Zenon
  <2> QED
    BY <1>4, <2>1, Divided
<1> QED
  BY <1>6

LEMMA Nonlinear2InInputs ==
  ASSUME NEW r \in 1..Rounds, NEW s \in Inputs2
  PROVE  Nonlinear(s, Keys2, r) \in Inputs2
<1> DEFINE ki == KeysBefore(r, 2)
           Box(v, i) == Fifth((v + Keys2[ki + i]) % Field) % Field
<1>1. s[1] \in Element /\ s[2] \in Element /\ Len(s) = 2
  BY DEF Inputs2
<1>2. \A i \in 1..(IF IsFull(r) THEN 2 ELSE 1) : Keys2[ki + i] \in Element
  BY KeysInRange
<1>3. Nonlinear(s, Keys2, r) =
        IF IsFull(r) THEN <<Box(s[1], 1), Box(s[2], 2)>> ELSE <<Box(s[1], 1), s[2]>>
  BY <1>1 DEF Nonlinear, State
<1> HIDE DEF ki
<1>4. \A i \in 1..(IF IsFull(r) THEN 2 ELSE 1) : Box(s[i], i) \in Element
  <2> SUFFICES ASSUME NEW i \in 1..(IF IsFull(r) THEN 2 ELSE 1)
               PROVE  Box(s[i], i) \in Element
    OBVIOUS
  <2>1. s[i] \in Element /\ Keys2[ki + i] \in Element
    BY <1>1, <1>2
  <2> QED
    BY <2>1, KeyedSBox
<1> HIDE DEF Box
<1> QED
  BY <1>1, <1>3, <1>4 DEF Inputs2

LEMMA Nonlinear2Injective ==
  ASSUME NEW r \in 1..Rounds, NEW s \in Inputs2, NEW t \in Inputs2,
         Nonlinear(s, Keys2, r) = Nonlinear(t, Keys2, r)
  PROVE  s = t
<1> DEFINE ki == KeysBefore(r, 2)
           Box(v, i) == Fifth((v + Keys2[ki + i]) % Field) % Field
<1>1. /\ s = <<s[1], s[2]>> /\ Len(s) = 2 /\ s[1] \in Element /\ s[2] \in Element
      /\ t = <<t[1], t[2]>> /\ Len(t) = 2 /\ t[1] \in Element /\ t[2] \in Element
  BY DEF Inputs2
<1>2. \A i \in 1..(IF IsFull(r) THEN 2 ELSE 1) : Keys2[ki + i] \in Element
  BY KeysInRange
<1>3. /\ Box(s[1], 1) = Box(t[1], 1)
      /\ IF IsFull(r) THEN Box(s[2], 2) = Box(t[2], 2) ELSE s[2] = t[2]
  BY <1>1 DEF Nonlinear, State
<1> HIDE DEF ki
<1>4. s[1] = t[1]
  <2>1. Keys2[ki + 1] \in Element
    BY <1>2
  <2> QED
    BY <1>1, <1>3, <2>1, SBoxInjective
<1>5. s[2] = t[2]
  <2>1. IsFull(r) => Keys2[ki + 2] \in Element
    BY <1>2
  <2> QED
    BY <1>1, <1>3, <2>1, SBoxInjective
<1> QED
  BY <1>1, <1>4, <1>5

LEMMA Nonlinear3InInputs ==
  ASSUME NEW r \in 1..Rounds, NEW s \in Inputs3
  PROVE  Nonlinear(s, Keys3, r) \in Inputs3
<1> DEFINE ki == KeysBefore(r, 3)
           Box(v, i) == Fifth((v + Keys3[ki + i]) % Field) % Field
<1>1. s[1] \in Element /\ s[2] \in Element /\ s[3] \in Element /\ Len(s) = 3
  BY DEF Inputs3
<1>2. \A i \in 1..(IF IsFull(r) THEN 3 ELSE 1) : Keys3[ki + i] \in Element
  BY KeysInRange
<1>3. Nonlinear(s, Keys3, r) =
        IF IsFull(r) THEN <<Box(s[1], 1), Box(s[2], 2), Box(s[3], 3)>> ELSE <<Box(s[1], 1), s[2], s[3]>>
  BY <1>1 DEF Nonlinear, State
<1> HIDE DEF ki
<1>4. \A i \in 1..(IF IsFull(r) THEN 3 ELSE 1) : Box(s[i], i) \in Element
  <2> SUFFICES ASSUME NEW i \in 1..(IF IsFull(r) THEN 3 ELSE 1)
               PROVE  Box(s[i], i) \in Element
    OBVIOUS
  <2>1. s[i] \in Element /\ Keys3[ki + i] \in Element
    BY <1>1, <1>2
  <2> QED
    BY <2>1, KeyedSBox
<1> HIDE DEF Box
<1> QED
  BY <1>1, <1>3, <1>4 DEF Inputs3

LEMMA Nonlinear3Injective ==
  ASSUME NEW r \in 1..Rounds, NEW s \in Inputs3, NEW t \in Inputs3,
         Nonlinear(s, Keys3, r) = Nonlinear(t, Keys3, r)
  PROVE  s = t
<1> DEFINE ki == KeysBefore(r, 3)
           Box(v, i) == Fifth((v + Keys3[ki + i]) % Field) % Field
<1>1. /\ s = <<s[1], s[2], s[3]>> /\ Len(s) = 3
      /\ s[1] \in Element /\ s[2] \in Element /\ s[3] \in Element
      /\ t = <<t[1], t[2], t[3]>> /\ Len(t) = 3
      /\ t[1] \in Element /\ t[2] \in Element /\ t[3] \in Element
  BY DEF Inputs3
<1>2. \A i \in 1..(IF IsFull(r) THEN 3 ELSE 1) : Keys3[ki + i] \in Element
  BY KeysInRange
<1>3. /\ Box(s[1], 1) = Box(t[1], 1)
      /\ IF IsFull(r) THEN Box(s[2], 2) = Box(t[2], 2) /\ Box(s[3], 3) = Box(t[3], 3)
                      ELSE s[2] = t[2] /\ s[3] = t[3]
  BY <1>1 DEF Nonlinear, State
<1> HIDE DEF ki
<1>4. s[1] = t[1]
  <2>1. Keys3[ki + 1] \in Element
    BY <1>2
  <2> QED
    BY <1>1, <1>3, <2>1, SBoxInjective
<1>5. s[2] = t[2] /\ s[3] = t[3]
  <2>1. IsFull(r) => Keys3[ki + 2] \in Element /\ Keys3[ki + 3] \in Element
    BY <1>2
  <2> QED
    BY <1>1, <1>3, <2>1, SBoxInjective
<1> QED
  BY <1>1, <1>4, <1>5

-----------------------------------------------------------------------------
(* Going back through the rounds, from equal results to equal inputs.      *)

LEMMA ReferenceInjective ==
  ASSUME NEW V, NEW keys, NEW s \in V, NEW t \in V,
         \A v \in V : Linear(v, 0) \in V,
         \A v, w \in V : Linear(v, 0) = Linear(w, 0) => v = w,
         \A r \in 1..Rounds : \A v \in V : Round(v, keys, r) \in V,
         \A r \in 1..Rounds : \A v, w \in V :
           Round(v, keys, r) = Round(w, keys, r) => v = w,
         Reference(s, keys) = Reference(t, keys)
  PROVE  s = t
<1>1. PICK R : IsHistory(R, V, s, keys)
  <2>1. Linear(s, 0) \in V
    OBVIOUS
  <2> QED
    BY <2>1, HistoryExists
<1>2. PICK Q : IsHistory(Q, V, t, keys)
  <2>1. Linear(t, 0) \in V
    OBVIOUS
  <2> QED
    BY <2>1, HistoryExists
<1>3. /\ R \in [0..Rounds -> V] /\ Q \in [0..Rounds -> V]
      /\ R[Rounds] = Q[Rounds]
      /\ R[0] = Linear(s, 0) /\ Q[0] = Linear(t, 0)
      /\ \A r \in 1..Rounds : R[r] = Round(R[r - 1], keys, r)
      /\ \A r \in 1..Rounds : Q[r] = Round(Q[r - 1], keys, r)
  BY <1>1, <1>2 DEF IsHistory
<1>4. Rounds \in Nat
  BY KeysAssumption DEF Rounds
<1> DEFINE T == { i \in Nat : i <= Rounds => R[Rounds - i] = Q[Rounds - i] }
<1>5. 0 \in T
  BY <1>3, <1>4
<1>6. ASSUME NEW i \in Nat, i \in T PROVE i + 1 \in T
  <2> SUFFICES ASSUME i + 1 <= Rounds
               PROVE  R[Rounds - (i + 1)] = Q[Rounds - (i + 1)]
    OBVIOUS
  <2> DEFINE r == Rounds - i
  <2>1. /\ r \in 1..Rounds /\ r - 1 \in 0..Rounds /\ Rounds - (i + 1) = r - 1
        /\ i <= Rounds
    BY <1>4
  <2>2. R[r] = Q[r]
    BY <1>6, <2>1
  <2> HIDE DEF r
  <2>3. Round(R[r - 1], keys, r) = Round(Q[r - 1], keys, r)
    BY <1>3, <2>1, <2>2
  <2>4. R[r - 1] \in V /\ Q[r - 1] \in V
    BY <1>3, <2>1
  <2>5. R[r - 1] = Q[r - 1]
    BY <2>1, <2>3, <2>4
  <2> QED
    BY <2>1, <2>5
<1>7. Rounds \in T
  <2> HIDE DEF T
  <2> QED
    BY <1>4, <1>5, <1>6, Induct
<1>8. R[0] = Q[0]
  BY <1>4, <1>7
<1> QED
  BY <1>3, <1>8

LEMMA Permute2Injective ==
  ASSUME Field > 7, NEW s \in Inputs2, NEW t \in Inputs2, Permute2(s) = Permute2(t)
  PROVE  s = t
<1>1. \A v \in Inputs2 : Linear(v, 0) \in Inputs2
  <2> SUFFICES ASSUME NEW x \in Element, NEW y \in Element
               PROVE  Linear(<<x, y>>, 0) \in Inputs2
    BY DEF Inputs2
  <2>1. x \in Nat /\ y \in Nat
    BY ElementFacts
  <2>2. 2 * x + y \in Nat /\ x + Corner(0) * y \in Nat
    BY <2>1 DEF Corner
  <2>3. (2 * x + y) % Field \in Element /\ (x + Corner(0) * y) % Field \in Element
    BY <2>2, Remainder
  <2> QED
    BY <2>1, <2>3, Linear2Rows DEF Inputs2
<1>2. \A v, w \in Inputs2 : Linear(v, 0) = Linear(w, 0) => v = w
  BY Linear2Injective
<1>3. \A r \in 1..Rounds : \A v \in Inputs2 : Round(v, Keys2, r) \in Inputs2
  BY FullRound2Is, PartialRound2Is
<1>4. ASSUME NEW r \in 1..Rounds, NEW v \in Inputs2, NEW w \in Inputs2,
             Round(v, Keys2, r) = Round(w, Keys2, r)
      PROVE  v = w
  <2>1. r \in Nat
    OBVIOUS
  <2>2. Nonlinear(v, Keys2, r) \in Inputs2 /\ Nonlinear(w, Keys2, r) \in Inputs2
    BY Nonlinear2InInputs
  <2>3. Nonlinear(v, Keys2, r) = Nonlinear(w, Keys2, r)
    BY <1>4, <2>1, <2>2, Linear2Injective DEF Round
  <2> QED
    BY <2>3, Nonlinear2Injective
<1>5. Reference(s, Keys2) = Reference(t, Keys2)
  BY Permute2Is
<1> QED
  BY <1>1, <1>2, <1>3, <1>4, <1>5, ReferenceInjective

LEMMA Permute3Injective ==
  ASSUME Field > 7, NEW s \in Inputs3, NEW t \in Inputs3, Permute3(s) = Permute3(t)
  PROVE  s = t
<1>1. \A v \in Inputs3 : Linear(v, 0) \in Inputs3
  <2> SUFFICES ASSUME NEW x \in Element, NEW y \in Element, NEW z \in Element
               PROVE  Linear(<<x, y, z>>, 0) \in Inputs3
    BY DEF Inputs3
  <2>1. x \in Nat /\ y \in Nat /\ z \in Nat
    BY ElementFacts
  <2>2. /\ 2 * x + y + z \in Nat /\ x + 2 * y + z \in Nat
        /\ x + y + Corner(0) * z \in Nat
    BY <2>1 DEF Corner
  <2>3. /\ (2 * x + y + z) % Field \in Element /\ (x + 2 * y + z) % Field \in Element
        /\ (x + y + Corner(0) * z) % Field \in Element
    BY <2>2, Remainder
  <2> QED
    BY <2>1, <2>3, Linear3Rows DEF Inputs3
<1>2. \A v, w \in Inputs3 : Linear(v, 0) = Linear(w, 0) => v = w
  BY Linear3Injective
<1>3. \A r \in 1..Rounds : \A v \in Inputs3 : Round(v, Keys3, r) \in Inputs3
  BY FullRound3Is, PartialRound3Is
<1>4. ASSUME NEW r \in 1..Rounds, NEW v \in Inputs3, NEW w \in Inputs3,
             Round(v, Keys3, r) = Round(w, Keys3, r)
      PROVE  v = w
  <2>1. r \in Nat
    OBVIOUS
  <2>2. Nonlinear(v, Keys3, r) \in Inputs3 /\ Nonlinear(w, Keys3, r) \in Inputs3
    BY Nonlinear3InInputs
  <2>3. Nonlinear(v, Keys3, r) = Nonlinear(w, Keys3, r)
    BY <1>4, <2>1, <2>2, Linear3Injective DEF Round
  <2> QED
    BY <2>3, Nonlinear3Injective
<1>5. Reference(s, Keys3) = Reference(t, Keys3)
  BY Permute3Is
<1> QED
  BY <1>1, <1>2, <1>3, <1>4, <1>5, ReferenceInjective

-----------------------------------------------------------------------------
(* So there are as many results as inputs.                                 *)

LEMMA SameSize ==
  ASSUME NEW S, IsFiniteSet(S), NEW T, NEW f, f \in [S -> T],
         \A x, y \in S : f[x] = f[y] => x = y
  PROVE  Cardinality({ f[x] : x \in S }) = Cardinality(S)
<1> DEFINE U == { f[x] : x \in S }
<1>1. f \in [S -> U] /\ (\A u \in U : \E x \in S : f[x] = u)
  OBVIOUS
<1> HIDE DEF U
<1>2. f \in Surjection(S, U)
  BY <1>1 DEF Surjection
<1>3. f \in Injection(S, U)
  BY <1>1 DEF Injection, IsInjective
<1> QED
  BY <1>2, <1>3, FS_Surjection DEF U

LEMMA InputsFinite == IsFiniteSet(Inputs2) /\ IsFiniteSet(Inputs3)
<1>1. IsFiniteSet(Element)
  <2>1. 0 \in Int /\ Field - 1 \in Int
    BY FieldAssumption
  <2> QED
    BY <2>1, FS_Interval DEF Element
<1>2. IsFiniteSet(Inputs2) /\ IsFiniteSet(Inputs2 \X Element)
  <2>1. IsFiniteSet(Inputs2)
    BY <1>1, FS_Product DEF Inputs2
  <2> QED
    BY <1>1, <2>1, FS_Product
<1>3. IsFiniteSet(Inputs3)
  <2> DEFINE f == [p \in Inputs2 \X Element |-> <<p[1][1], p[1][2], p[2]>>]
  <2>1. f \in [Inputs2 \X Element -> Inputs3]
    BY DEF Inputs2, Inputs3
  <2>2. ASSUME NEW s \in Inputs3 PROVE \E p \in Inputs2 \X Element : f[p] = s
    <3> DEFINE p == <<<<s[1], s[2]>>, s[3]>>
    <3>1. p \in Inputs2 \X Element /\ s = <<s[1], s[2], s[3]>>
      BY DEF Inputs2, Inputs3
    <3>2. f[p] = s
      BY <3>1
    <3> QED
      BY <3>1, <3>2
  <2> HIDE DEF f
  <2>3. f \in Surjection(Inputs2 \X Element, Inputs3)
    BY <2>1, <2>2 DEF Surjection
  <2> QED
    BY <1>2, <2>3, FS_Surjection
<1> QED
  BY <1>2, <1>3

(* No two states become one, over any field of more than 7 elements and    *)
(* whatever the keys and the numbers of rounds are.                        *)
THEOREM StatesPermuted ==
  ASSUME Field > 7
  PROVE  PermutesStates
<1>1. Cardinality({ Permute2(s) : s \in Inputs2 }) = Cardinality(Inputs2)
  <2> DEFINE T == { Permute2(s) : s \in Inputs2 }
             f == [s \in Inputs2 |-> Permute2(s)]
  <2>1. f \in [Inputs2 -> T] /\ { f[s] : s \in Inputs2 } = T
    OBVIOUS
  <2>2. \A s, t \in Inputs2 : f[s] = f[t] => s = t
    BY Permute2Injective
  <2> HIDE DEF f, T
  <2>3. Cardinality({ f[s] : s \in Inputs2 }) = Cardinality(Inputs2)
    BY <2>1, <2>2, InputsFinite, SameSize
  <2> QED
    BY <2>1, <2>3 DEF T
<1>2. Cardinality({ Permute3(s) : s \in Inputs3 }) = Cardinality(Inputs3)
  <2> DEFINE T == { Permute3(s) : s \in Inputs3 }
             f == [s \in Inputs3 |-> Permute3(s)]
  <2>1. f \in [Inputs3 -> T] /\ { f[s] : s \in Inputs3 } = T
    OBVIOUS
  <2>2. \A s, t \in Inputs3 : f[s] = f[t] => s = t
    BY Permute3Injective
  <2> HIDE DEF f, T
  <2>3. Cardinality({ f[s] : s \in Inputs3 }) = Cardinality(Inputs3)
    BY <2>1, <2>2, InputsFinite, SameSize
  <2> QED
    BY <2>1, <2>3 DEF T
<1> QED
  BY <1>1, <1>2 DEF PermutesStates

(* The same as the run states it, in every state of the tree.              *)
THEOREM NodesPermute ==
  ASSUME Field > 7
  PROVE  Spec => []NodeHashesPermute
<1>1. NodeHashesPermute
  BY StatesPermuted DEF NodeHashesPermute
<1> QED
  BY <1>1, PTL
=============================================================================
