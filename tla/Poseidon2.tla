------------------------------ MODULE Poseidon2 ------------------------------
(***************************************************************************)
(* The hash of Chamber, of the circuit and of the frontend: Poseidon2 over *)
(* a prime field, as contracts/src/Poseidon.sol and its port to the        *)
(* frontend compute it, in place on a state of two or three elements, and  *)
(* as a reference over matrices that numbers the rounds.                   *)
(*                                                                         *)
(* The field is a parameter, and so are the keys.  All the other modules   *)
(* assume that hashes collide only when their inputs are equal; of that    *)
(* there is here that what a hash is made from is a permutation.           *)
(***************************************************************************)
EXTENDS Naturals, Sequences, FiniteSets

CONSTANTS
  Field,             \* the prime FIELD
  RoundsFullHalf,    \* 3 in the code
  RoundsPartial,     \* 50 in the code
  Keys2, Keys3       \* KEYS_WIDTH_2 and KEYS_WIDTH_3

Element == 0..(Field - 1)

(* Raising to the fifth power is injective.                                *)
ASSUME FieldAssumption ==
  Field \in Nat \ {0, 1} /\ (\A n \in 2..(Field - 1) : Field % n # 0) /\ Field % 5 # 1

ASSUME KeysAssumption ==
  /\ RoundsFullHalf \in Nat /\ RoundsPartial \in Nat
  /\ Keys2 \in [1..(4 * RoundsFullHalf + RoundsPartial) -> Element]
  /\ Keys3 \in [1..(6 * RoundsFullHalf + RoundsPartial) -> Element]

-----------------------------------------------------------------------------
(* The code.                                                               *)

Add(a, b) == (a + b) % Field
Mul(a, b) == (a * b) % Field

(* Mutant: the fourth power. *)
SquareTwice(value) == Mul(Mul(value, value), Mul(value, value))

SBox(value) ==
  LET square == Mul(value, value)
      fourth == Mul(square, square)
  IN  Mul(fourth, value)

MatMulExternal2(s) ==
  LET sum == Add(s[1], s[2])
  IN  <<Add(sum, s[1]), Add(sum, s[2])>>

MatMulInternal2(s) ==
  LET sum == Add(s[1], s[2])
  IN  <<Add(s[1], sum), Add(Add(s[2], s[2]), sum)>>

MatMulExternal3(s) ==
  LET sum == Add(Add(s[1], s[2]), s[3])
  IN  <<Add(s[1], sum), Add(s[2], sum), Add(s[3], sum)>>

(* Mutant: the sum is taken again, of what has changed by then. *)
SumAgain(s) ==
  LET first == Add(s[1], Add(Add(s[1], s[2]), s[3]))
      sum   == Add(Add(first, s[2]), s[3])
  IN  <<first, Add(s[2], sum), Add(Add(s[3], s[3]), sum)>>

MatMulInternal3(s) ==
  LET sum == Add(Add(s[1], s[2]), s[3])
  IN  <<Add(s[1], sum), Add(s[2], sum), Add(Add(s[3], s[3]), sum)>>

FullRound2(s, ki) ==
  MatMulExternal2(<<SBox(Add(s[1], Keys2[ki + 1])), SBox(Add(s[2], Keys2[ki + 2]))>>)

PartialRound2(s, ki) == MatMulInternal2(<<SBox(Add(s[1], Keys2[ki + 1])), s[2]>>)

FullRound3(s, ki) ==
  MatMulExternal3(<<SBox(Add(s[1], Keys3[ki + 1])), SBox(Add(s[2], Keys3[ki + 2])),
                    SBox(Add(s[3], Keys3[ki + 3]))>>)

PartialRound3(s, ki) == MatMulInternal3(<<SBox(Add(s[1], Keys3[ki + 1])), s[2], s[3]>>)

(* The state after a loop over from, from + by, ..., as long as below end. *)
Loop(Body(_, _), state, from, end, by) ==
  LET after[n \in 0..((end - from) \div by)] ==
        IF n = 0 THEN state ELSE Body(after[n - 1], from + (n - 1) * by)
  IN  after[(end - from) \div by]

Permute2(s) ==
  LET fullEnd == RoundsFullHalf * 2
      partEnd == fullEnd + RoundsPartial
      first   == Loop(FullRound2, MatMulExternal2(s), 0, fullEnd, 2)
      middle  == Loop(PartialRound2, first, fullEnd, partEnd, 1)
  IN  Loop(FullRound2, middle, partEnd, Len(Keys2), 2)

Permute3(s) ==
  LET fullEnd == RoundsFullHalf * 3
      partEnd == fullEnd + RoundsPartial
      first   == Loop(FullRound3, MatMulExternal3(s), 0, fullEnd, 3)
      middle  == Loop(PartialRound3, first, fullEnd, partEnd, 1)
  IN  Loop(FullRound3, middle, partEnd, Len(Keys3), 3)

hash2(a, b)    == Add(Permute2(<<a, b>>)[2], b)
hash3(a, b, c) == Add(Permute3(<<a, b, c>>)[1], a)

-----------------------------------------------------------------------------
(* The reference: rounds are numbered, all are partial but the first and   *)
(* the last half of the full ones, and a linear layer is a matrix with 1   *)
(* beside its diagonal, and on it 2, or 3 at the end of a partial round's. *)

Rounds == 2 * RoundsFullHalf + RoundsPartial

IsFull(round) == round <= RoundsFullHalf \/ round > RoundsFullHalf + RoundsPartial

Entry(round, width, i, j) ==
  IF i # j THEN 1 ELSE IF i = width /\ ~IsFull(round) THEN 3 ELSE 2

(* A state of some width, element by element. *)
State(width, Elem(_)) ==
  IF width = 2 THEN <<Elem(1), Elem(2)>> ELSE <<Elem(1), Elem(2), Elem(3)>>

Linear(s, round) ==
  LET Term(i, j) == IF j <= Len(s) THEN Entry(round, Len(s), i, j) * s[j] ELSE 0
      Row(i) == (Term(i, 1) + Term(i, 2) + Term(i, 3)) % Field
  IN  State(Len(s), Row)

KeysBefore(round, width) ==
  LET full == Cardinality({ r \in 1..(round - 1) : IsFull(r) })
  IN  full * width + (round - 1 - full)

Fifth(value) == value * value * value * value * value

(* The elements that take a key, all but for a partial round, are raised   *)
(* to the fifth power.                                                     *)
Nonlinear(s, keys, round) ==
  LET At(i) == KeysBefore(round, Len(s)) + i
      Elem(i) == IF i = 1 \/ IsFull(round) THEN Fifth((s[i] + keys[At(i)]) % Field) % Field
                                           ELSE s[i]
  IN  State(Len(s), Elem)

(* The state after all rounds; before the first, as for a full round 0,    *)
(* there is a linear layer.                                                *)
Reference(input, keys) ==
  LET after[round \in 0..Rounds] ==
        IF round = 0 THEN Linear(input, 0)
                     ELSE Linear(Nonlinear(after[round - 1], keys, round), round)
  IN  after[Rounds]

-----------------------------------------------------------------------------
(* Properties.                                                             *)

Inputs2 == Element \X Element
Inputs3 == Element \X Element \X Element

(* The three loops give every round its own keys, and computing in place,  *)
(* with one sum for all elements, multiplies by the rounds' matrices:      *)
(* hash2 and hash3 are the reference's.                                    *)
HashesAreReference ==
  /\ \A s \in Inputs2 : hash2(s[1], s[2]) = (Reference(s, Keys2)[2] + s[2]) % Field
  /\ \A s \in Inputs3 : hash3(s[1], s[2], s[3]) = (Reference(s, Keys3)[1] + s[1]) % Field

(* Nothing is lost on the way: two states stay two states through all      *)
(* rounds, for either width.                                               *)
PermutesStates ==
  /\ Cardinality({ Permute2(s) : s \in Inputs2 }) = Cardinality(Inputs2)
  /\ Cardinality({ Permute3(s) : s \in Inputs3 }) = Cardinality(Inputs3)
=============================================================================
