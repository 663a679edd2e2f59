------------------------------- MODULE Cipher ---------------------------------
(***************************************************************************)
(* DES_main of src/encrypt/encrypt.c: a block is enciphered and then       *)
(* deciphered with the same key, one round per step.  What a round makes   *)
(* of the right half and of a subkey (the expansion, the boxes and the     *)
(* permutation behind them), and the subkeys of a key, are parameters: the *)
(* inverse must not depend on them.                                        *)
(*                                                                         *)
(* A block is a function from places, counted from 1, to bits.             *)
(***************************************************************************)
EXTENDS Naturals, Sequences

CONSTANTS
  Half,            \* bits of half a block: 32
  Rounds,          \* 16
  Initial, Final,  \* the tables at both ends: DES_Initial and DES_Final
  Texts,           \* the blocks looked at
  Keys, Subkeys,
  Schedule,        \* Schedule[k][i]: the subkey of round i
  Mix(_, _, _)     \* whether a round sets a bit, given the right half, the subkey and the place

DES_Initial == <<
  58, 50, 42, 34, 26, 18, 10, 2, 60, 52, 44, 36, 28, 20, 12, 4,
  62, 54, 46, 38, 30, 22, 14, 6, 64, 56, 48, 40, 32, 24, 16, 8,
  57, 49, 41, 33, 25, 17,  9, 1, 59, 51, 43, 35, 27, 19, 11, 3,
  61, 53, 45, 37, 29, 21, 13, 5, 63, 55, 47, 39, 31, 23, 15, 7>>

DES_Final == <<
  40, 8, 48, 16, 56, 24, 64, 32, 39, 7, 47, 15, 55, 23, 63, 31,
  38, 6, 46, 14, 54, 22, 62, 30, 37, 5, 45, 13, 53, 21, 61, 29,
  36, 4, 44, 12, 52, 20, 60, 28, 35, 3, 43, 11, 51, 19, 59, 27,
  34, 2, 42, 10, 50, 18, 58, 26, 33, 1, 41,  9, 49, 17, 57, 25>>

-----------------------------------------------------------------------------
(***************************************************************************)
(* The key schedule and the round function of DES_main, for Schedule and   *)
(* Mix.                                                                    *)
(***************************************************************************)
DES_Transform == <<
  57, 49, 41, 33, 25, 17,  9,  1, 58, 50, 42, 34, 26, 18,
  10,  2, 59, 51, 43, 35, 27, 19, 11,  3, 60, 52, 44, 36,
  63, 55, 47, 39, 31, 23, 15,  7, 62, 54, 46, 38, 30, 22,
  14,  6, 61, 53, 45, 37, 29, 21, 13,  5, 28, 20, 12,  4>>

DES_Rotations == <<1, 1, 2, 2, 2, 2, 2, 2, 1, 2, 2, 2, 2, 2, 2, 1>>

DES_Permuted == <<
  14, 17, 11, 24,  1,  5,  3, 28, 15,  6, 21, 10,
  23, 19, 12,  4, 26,  8, 16,  7, 27, 20, 13,  2,
  41, 52, 31, 37, 47, 55, 30, 40, 51, 45, 33, 48,
  44, 49, 39, 56, 34, 53, 46, 42, 50, 36, 29, 32>>

DES_Expansion == <<
  32,  1,  2,  3,  4,  5,  4,  5,  6,  7,  8,  9,
   8,  9, 10, 11, 12, 13, 12, 13, 14, 15, 16, 17,
  16, 17, 18, 19, 20, 21, 20, 21, 22, 23, 24, 25,
  24, 25, 26, 27, 28, 29, 28, 29, 30, 31, 32,  1>>

DES_Sbox == <<
  <<<<14,  4, 13,  1,  2, 15, 11,  8,  3, 10,  6, 12,  5,  9,  0,  7>>,
    << 0, 15,  7,  4, 14,  2, 13,  1, 10,  6, 12, 11,  9,  5,  3,  8>>,
    << 4,  1, 14,  8, 13,  6,  2, 11, 15, 12,  9,  7,  3, 10,  5,  0>>,
    <<15, 12,  8,  2,  4,  9,  1,  7,  5, 11,  3, 14, 10,  0,  6, 13>>>>,
  <<<<15,  1,  8, 14,  6, 11,  3,  4,  9,  7,  2, 13, 12,  0,  5, 10>>,
    << 3, 13,  4,  7, 15,  2,  8, 14, 12,  0,  1, 10,  6,  9, 11,  5>>,
    << 0, 14,  7, 11, 10,  4, 13,  1,  5,  8, 12,  6,  9,  3,  2, 15>>,
    <<13,  8, 10,  1,  3, 15,  4,  2, 11,  6,  7, 12,  0,  5, 14,  9>>>>,
  <<<<10,  0,  9, 14,  6,  3, 15,  5,  1, 13, 12,  7, 11,  4,  2,  8>>,
    <<13,  7,  0,  9,  3,  4,  6, 10,  2,  8,  5, 14, 12, 11, 15,  1>>,
    <<13,  6,  4,  9,  8, 15,  3,  0, 11,  1,  2, 12,  5, 10, 14,  7>>,
    << 1, 10, 13,  0,  6,  9,  8,  7,  4, 15, 14,  3, 11,  5,  2, 12>>>>,
  <<<< 7, 13, 14,  3,  0,  6,  9, 10,  1,  2,  8,  5, 11, 12,  4, 15>>,
    <<13,  8, 11,  5,  6, 15,  0,  3,  4,  7,  2, 12,  1, 10, 14,  9>>,
    <<10,  6,  9,  0, 12, 11,  7, 13, 15,  1,  3, 14,  5,  2,  8,  4>>,
    << 3, 15,  0,  6, 10,  1, 13,  8,  9,  4,  5, 11, 12,  7,  2, 14>>>>,
  <<<< 2, 12,  4,  1,  7, 10, 11,  6,  8,  5,  3, 15, 13,  0, 14,  9>>,
    <<14, 11,  2, 12,  4,  7, 13,  1,  5,  0, 15, 10,  3,  9,  8,  6>>,
    << 4,  2,  1, 11, 10, 13,  7,  8, 15,  9, 12,  5,  6,  3,  0, 14>>,
    <<11,  8, 12,  7,  1, 14,  2, 13,  6, 15,  0,  9, 10,  4,  5,  3>>>>,
  <<<<12,  1, 10, 15,  9,  2,  6,  8,  0, 13,  3,  4, 14,  7,  5, 11>>,
    <<10, 15,  4,  2,  7, 12,  9,  5,  6,  1, 13, 14,  0, 11,  3,  8>>,
    << 9, 14, 15,  5,  2,  8, 12,  3,  7,  0,  4, 10,  1, 13, 11,  6>>,
    << 4,  3,  2, 12,  9,  5, 15, 10, 11, 14,  1,  7,  6,  0,  8, 13>>>>,
  <<<< 4, 11,  2, 14, 15,  0,  8, 13,  3, 12,  9,  7,  5, 10,  6,  1>>,
    <<13,  0, 11,  7,  4,  9,  1, 10, 14,  3,  5, 12,  2, 15,  8,  6>>,
    << 1,  4, 11, 13, 12,  3,  7, 14, 10, 15,  6,  8,  0,  5,  9,  2>>,
    << 6, 11, 13,  8,  1,  4, 10,  7,  9,  5,  0, 15, 14,  2,  3, 12>>>>,
  <<<<13,  2,  8,  4,  6, 15, 11,  1, 10,  9,  3, 14,  5,  0, 12,  7>>,
    << 1, 15, 13,  8, 10,  3,  7,  4, 12,  5,  6, 11,  0, 14,  9,  2>>,
    << 7, 11,  4,  1,  9, 12, 14,  2,  0,  6, 10, 13, 15,  3,  5,  8>>,
    << 2,  1, 14,  7,  4, 10,  8, 13, 15, 12,  9,  0,  3,  5,  6, 11>>>>>>

DES_Pbox == <<
  16,  7, 20, 21, 29, 12, 28, 17,  1, 15, 23, 26,  5, 18, 31, 10,
   2,  8, 24, 14, 32, 27,  3,  9, 19, 13, 30,  6, 22, 11,  4, 25>>

\* bit_rot_left, as often as the rounds up to i ask for, of 28 bits.
Rotated[n \in 0..16] == IF n = 0 THEN 0 ELSE Rotated[n - 1] + DES_Rotations[n]
bit_rot_left(p, count) == ((p - 1 + count) % 28) + 1

\* subkeys[i]: the 56 bits the key has without its parities, each half of them rotated, and
\* of these 48.
DES_Subkey(key_bits, round) ==
  LET temp == [p \in 1..56 |-> key_bits[DES_Transform[p]]]
      lkey == [p \in 1..28 |-> temp[bit_rot_left(p, Rotated[round])]]
      rkey == [p \in 1..28 |-> temp[bit_rot_left(p, Rotated[round]) + 28]]
  IN  [p \in 1..48 |-> IF DES_Permuted[p] <= 28 THEN lkey[DES_Permuted[p]] ELSE rkey[DES_Permuted[p] - 28]]

\* Bit p of fblk behind the boxes and the permutation.  Bit q before the permutation is one
\* of the four that a box gives for six bits of the expanded half and the subkey: the outer
\* two choose its row, the others the column.
DES_Mix(r, subkey, p) ==
  LET q == DES_Pbox[p] - 1
      fblk(n) == (r[DES_Expansion[6 * (q \div 4) + n]] + subkey[6 * (q \div 4) + n]) % 2
      row == 2 * fblk(1) + fblk(6)
      col == 8 * fblk(2) + 4 * fblk(3) + 2 * fblk(4) + fblk(5)
      sblk == DES_Sbox[(q \div 4) + 1][row + 1][col + 1]
  IN  (sblk \div 2^(3 - (q % 4))) % 2 = 1

-----------------------------------------------------------------------------
Bits == {0, 1}
Places == 1..(2 * Half)
HalfPlaces == 1..Half
Halves == [HalfPlaces -> Bits]
Blocks == [Places -> Bits]

ASSUME CipherAssumption ==
  /\ Half \in Nat \ {0} /\ Rounds \in Nat
  /\ Initial \in [Places -> Places] /\ Final \in [Places -> Places]
  /\ Texts \subseteq Blocks
  /\ Schedule \in [Keys -> [1..Rounds -> Subkeys]]

\* The two tables are inverse to each other.
ASSUME TablesAssumption ==
  \A p \in Places : Initial[Final[p]] = p /\ Final[Initial[p]] = p

VARIABLES
  pc,           \* "idle", "enc" or "dec" in the loop of rounds, "cipher" or "plain" after it
  text, key,
  left, right,  \* lblk and rblk
  i,            \* rounds done
  target,
  trail         \* for the proof: the halves before and after each round of the first pass

cipherVars == <<pc, text, key, left, right, i, target, trail>>

permute(bits, mapping) == [p \in Places |-> bits[mapping[p]]]
Lower(b) == [p \in HalfPlaces |-> b[p]]
Upper(b) == [p \in HalfPlaces |-> b[p + Half]]
Joined(a, b) == [p \in Places |-> IF p <= Half THEN a[p] ELSE b[p - Half]]
bit_xor(a, b) == [p \in HalfPlaces |-> IF a[p] = b[p] THEN 0 ELSE 1]

\* fblk: it is filled bit by bit.
Mixed(r, k) == [p \in HalfPlaces |-> IF Mix(r, k, p) THEN 1 ELSE 0]

Zero == [p \in HalfPlaces |-> 0]

CipherInit ==
  /\ pc = "idle"
  /\ text \in Texts /\ key \in Keys
  /\ left = Zero /\ right = Zero /\ i = 0
  /\ target = text
  /\ trail = <<>>

\* des_encipher and des_decipher up to the loop.
Start(source) ==
  /\ left' = Lower(permute(source, Initial))
  /\ right' = Upper(permute(source, Initial))
  /\ i' = 0
  /\ UNCHANGED <<text, key, target>>

Encipher ==
  /\ pc = "idle" /\ pc' = "enc"
  /\ Start(text)
  /\ trail' = <<[l |-> left', r |-> right']>>

Decipher ==
  /\ pc = "cipher" /\ pc' = "dec"
  /\ Start(target)
  /\ UNCHANGED trail

\* subkeys[i], or subkeys[15 - i] on the way back.
SameOrder == Schedule[key][i + 1]
Subkey == IF pc = "enc" THEN Schedule[key][i + 1] ELSE Schedule[key][Rounds - i]

Round ==
  /\ pc \in {"enc", "dec"} /\ i < Rounds
  /\ left' = right
  /\ right' = bit_xor(left, Mixed(right, Subkey))
  /\ i' = i + 1
  /\ trail' = IF pc = "enc" THEN Append(trail, [l |-> left', r |-> right']) ELSE trail
  /\ UNCHANGED <<pc, text, key, target>>

\* The halves change places once more.
Finish ==
  /\ pc \in {"enc", "dec"} /\ i = Rounds
  /\ pc' = IF pc = "enc" THEN "cipher" ELSE "plain"
  /\ target' = permute(Joined(right, left), Final)
  /\ UNCHANGED <<text, key, left, right, i, trail>>

CipherNext ==
  \/ Encipher \/ Decipher
  \/ Round \/ Finish

CipherSpec == CipherInit /\ [][CipherNext]_cipherVars

-----------------------------------------------------------------------------
(***************************************************************************)
(* Properties.                                                             *)
(***************************************************************************)
\* Every variable stays in its range.
CipherTypeOK ==
  /\ pc \in {"idle", "enc", "dec", "cipher", "plain"}
  /\ text \in Texts /\ key \in Keys
  /\ left \in Halves /\ right \in Halves
  /\ i \in 0..Rounds
  /\ target \in Blocks
  /\ trail \in Seq([l : Halves, r : Halves])

\* The trail begins with the halves of the permuted text, and each step of it is a round.
TrailRight ==
  pc # "idle" =>
    /\ Len(trail) = (IF pc = "enc" THEN i ELSE Rounds) + 1
    /\ trail[1].l = Lower(permute(text, Initial)) /\ trail[1].r = Upper(permute(text, Initial))
    /\ \A j \in 1..(Len(trail)-1) :
         /\ trail[j+1].l = trail[j].r
         /\ trail[j+1].r = bit_xor(trail[j].l, Mixed(trail[j].r, Schedule[key][j]))

\* The first pass is at the end of the trail; the second goes back along it, with the
\* halves the other way round.
OnTrail ==
  /\ pc = "enc" => left = trail[i+1].l /\ right = trail[i+1].r
  /\ pc = "cipher" => target = permute(Joined(trail[Rounds+1].r, trail[Rounds+1].l), Final)
  /\ pc = "dec" => left = trail[Rounds+1-i].r /\ right = trail[Rounds+1-i].l

\* Deciphering what was enciphered gives the text back, whatever the round function is.
Restored == pc = "plain" => target = text

\* The inductive invariant.
CipherInv == CipherTypeOK /\ TrailRight /\ OnTrail /\ Restored
=============================================================================
