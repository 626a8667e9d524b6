------------------------------ MODULE Noekeon ------------------------------
(***************************************************************************)
(* The cipher of the PIN and the credentials (noekeon.S).  A word is the   *)
(* set of the positions of its one bits, bit 0 of its first byte being     *)
(* position 0; a state is four words, as is a key.  The registers and      *)
(* pointers of the assembler are left out: a step here is a subroutine     *)
(* there, and a byte loop is one operation on words.                       *)
(***************************************************************************)
EXTENDS Integers, FiniteSetsExt

Bits(byte) == {i \in 0 .. 7 : (byte \div 2 ^ i) % 2 = 1}
Byte(bits) == SumSet({2 ^ i : i \in bits})

(* Sixteen bytes, as they lie in cipher.plain and cipher.key, and back.    *)
Word(block, w) ==
  UNION {{8 * j + i : i \in Bits(block[4 * w + j + 1])} : j \in 0 .. 3}
Words(block) == <<Word(block, 0), Word(block, 1), Word(block, 2), Word(block, 3)>>

Block(s) ==
  [n \in 1 .. 16 |->
     LET low == 8 * ((n - 1) % 4)
     IN Byte({i - low : i \in s[((n - 1) \div 4) + 1] \intersect low .. low + 7})]

Xor(a, b) == (a \ b) \union (b \ a)
Not(a) == (0 .. 31) \ a
Left(a, n) == {(i + n) % 32 : i \in a}
Right(a, n) == Left(a, 32 - n)

(* What is mixed of two words.                                             *)
Mix(a, b) ==
  LET t == Xor(a, b) IN Xor(t, Xor(Right(t, 8), Left(t, 8)))

(* noekeon_theta_apply_xor_and_shift: words 0 and 2 into 1 and 3, and back. *)
MixEven(s) ==
  LET temp == Mix(s[1], s[3])
  IN <<s[1], Xor(s[2], temp), s[3], Xor(s[4], temp)>>
MixOdd(s) ==
  LET temp == Mix(s[2], s[4])
  IN <<Xor(s[1], temp), s[2], Xor(s[3], temp), s[4]>>

AddKey(s, key) ==
  <<Xor(s[1], key[1]), Xor(s[2], key[2]), Xor(s[3], key[3]), Xor(s[4], key[4])>>

noekeon_theta_encrypt(s, key) == MixOdd(AddKey(MixEven(s), key))
noekeon_theta_decrypt(s, key) == MixEven(AddKey(MixOdd(s), key))

noekeon_round_const_add(s, round_const) ==
  <<Xor(s[1], round_const), s[2], s[3], s[4]>>

noekeon_shift_pi1(s) == <<s[1], Left(s[2], 1), Left(s[3], 5), Left(s[4], 2)>>
noekeon_shift_pi2(s) == <<s[1], Right(s[2], 1), Right(s[3], 5), Right(s[4], 2)>>

NonLinear(s) ==
  LET one == Xor(s[2], Not(s[4] \union s[3]))
  IN <<Xor(s[1], s[3] \intersect one), one, s[3], s[4]>>

noekeon_gamma(s) ==
  LET n == NonLinear(s)
      two == Xor(n[3], Xor(n[1], Xor(n[2], n[4])))
  IN NonLinear(<<n[4], n[2], two, n[1]>>)

Scramble(s) == noekeon_shift_pi2(noekeon_gamma(noekeon_shift_pi1(s)))

(* The round constant is shifted; what falls out comes back as 1B or 8D.   *)
NextConstant(c) ==
  LET shifted == {i + 1 : i \in c} \ {8}
  IN IF 7 \in c THEN Xor(shifted, Bits(27)) ELSE shifted
PreviousConstant(c) ==
  LET shifted == {i - 1 : i \in c \ {0}}
  IN IF 0 \in c THEN Xor(shifted, Bits(141)) ELSE shifted

Rounds == 16

noekeon_encrypt(plain, key) ==
  LET k == Words(key)
      after[n \in 0 .. Rounds] ==
        IF n = 0 THEN [c |-> Bits(128), s |-> Words(plain)]
        ELSE LET b == after[n - 1]
             IN [c |-> NextConstant(b.c),
                 s |-> Scramble(noekeon_theta_encrypt(noekeon_round_const_add(b.s, b.c), k))]
      last == after[Rounds]
  IN Block(noekeon_theta_encrypt(noekeon_round_const_add(last.s, last.c), k))

noekeon_decrypt(plain, key) ==
  LET k == Words(key)
      after[n \in 0 .. Rounds] ==
        IF n = 0 THEN [c |-> Bits(212), s |-> Words(plain)]
        ELSE LET b == after[n - 1]
             IN [c |-> PreviousConstant(b.c),
                 s |-> Scramble(noekeon_round_const_add(noekeon_theta_decrypt(b.s, k), b.c))]
      last == after[Rounds]
  IN Block(noekeon_round_const_add(noekeon_theta_decrypt(last.s, k), last.c))
=============================================================================
