------------------------------ MODULE Keyboard ------------------------------
(***************************************************************************)
(* The Spanish keyboard table (hid_defines.c) and the key report that      *)
(* print_pressKey makes of a character (print.c), with what a host with    *)
(* that layout reads from a report.  Characters are their ASCII codes.     *)
(***************************************************************************)
EXTENDS Integers, Sequences

SHIFT_MASK == 128
ALTGR_MASK == 64

KEY_NONE == 0
KEY_A == 4
KEY_1 == 30
KEY_0 == 39
KEY_RETURN == 40
KEY_BACKSPACE == 42
KEY_TAB == 43
KEY_SPACE == 44
KEY_MINUS == 45
KEY_BRACKET_LEFT == 47
KEY_BRACKET_RIGHT == 48
KEY_BACKSLASH == 49
KEY_APOSTROPHE == 52
KEY_GRAVE == 53
KEY_COMMA == 54
KEY_PERIOD == 55
KEY_SLASH == 56
KEY_EUROPE_2 == 58       \* the place of KEY_F1, below 64
KEY_EUROPE_2_ORG == 100

Shift(key) == SHIFT_MASK + key
AltGr(key) == ALTGR_MASK + key
Digit(n) == IF n = 0 THEN KEY_0 ELSE KEY_1 + n - 1
Letter(c, first) == KEY_A + c - first

(* The signs in the order of their codes.                                  *)
Signs32 == \* space ! " # $ % & ' ( ) * + , - . /
  <<KEY_SPACE, Shift(Digit(1)), Shift(Digit(2)), AltGr(Digit(3)),
    Shift(Digit(4)), Shift(Digit(5)), Shift(Digit(6)), KEY_MINUS,
    Shift(Digit(8)), Shift(Digit(9)), Shift(KEY_BRACKET_RIGHT),
    KEY_BRACKET_RIGHT, KEY_COMMA, KEY_SLASH, KEY_PERIOD, Shift(Digit(7))>>
Signs58 == \* : ; < = > ? @
  <<Shift(KEY_PERIOD), Shift(KEY_COMMA), KEY_EUROPE_2, Shift(Digit(0)),
    Shift(KEY_EUROPE_2), Shift(KEY_MINUS), AltGr(Digit(2))>>
Signs91 == \* [ \ ] ^ _ `
  <<AltGr(KEY_BRACKET_LEFT), AltGr(KEY_GRAVE), AltGr(KEY_BRACKET_RIGHT),
    Shift(KEY_BRACKET_LEFT), Shift(KEY_SLASH), KEY_BRACKET_LEFT>>
Signs123 == \* { | } ~
  <<AltGr(KEY_APOSTROPHE), AltGr(Digit(1)), AltGr(KEY_BACKSLASH), AltGr(Digit(4))>>

keyboardLUT_ES ==
  [c \in 0 .. 127 |->
     CASE c = 8 -> KEY_BACKSPACE
       [] c = 9 -> KEY_TAB
       [] c \in {10, 13} -> KEY_RETURN
       [] c \in 32 .. 47 -> Signs32[c - 31]
       [] c \in 48 .. 57 -> Digit(c - 48)
       [] c \in 58 .. 64 -> Signs58[c - 57]
       [] c \in 65 .. 90 -> Shift(Letter(c, 65))
       [] c \in 91 .. 96 -> Signs91[c - 90]
       [] c \in 97 .. 122 -> Letter(c, 97)
       [] c \in 123 .. 126 -> Signs123[c - 122]
       [] OTHER -> KEY_NONE]

(* Definitions whose names end in _fault are faulty variants of the        *)
(* definition that follows them.  No action uses one; each shows that some *)
(* property would notice the fault.                                        *)

print_pressKey_fault(ascii) ==
  LET key == keyboardLUT_ES[ascii]
  IN [modifier |-> 2 * (key \div SHIFT_MASK), keycode |-> key % ALTGR_MASK]

(* Shift is the left shift key, bit 1 of the modifiers; AltGr is bit 6, as *)
(* it is in the table.                                                     *)
print_pressKey(ascii) ==
  LET key == keyboardLUT_ES[ascii]
      bare == key % ALTGR_MASK
  IN [modifier |-> 2 * (key \div SHIFT_MASK)
                   + ALTGR_MASK * ((key \div ALTGR_MASK) % 2),
      keycode |-> IF bare = KEY_EUROPE_2 THEN KEY_EUROPE_2_ORG ELSE bare]

------------------------------------------------------------------------------
(* What a key gives at a host with the Spanish layout: alone, with shift   *)
(* and with AltGr.  0 is nothing; the dead keys count as their signs.      *)
Layout(keycode) ==
  CASE keycode \in 4 .. 29 -> <<keycode + 93, keycode + 61, 0>>
    [] keycode = 30 -> <<49, 33, 124>>    \* 1 ! |
    [] keycode = 31 -> <<50, 34, 64>>     \* 2 " @
    [] keycode = 32 -> <<51, 183, 35>>    \* 3   #
    [] keycode = 33 -> <<52, 36, 126>>    \* 4 $ ~
    [] keycode = 34 -> <<53, 37, 0>>      \* 5 %
    [] keycode = 35 -> <<54, 38, 172>>    \* 6 &
    [] keycode = 36 -> <<55, 47, 0>>      \* 7 /
    [] keycode = 37 -> <<56, 40, 0>>      \* 8 (
    [] keycode = 38 -> <<57, 41, 0>>      \* 9 )
    [] keycode = 39 -> <<48, 61, 0>>      \* 0 =
    [] keycode = 40 -> <<10, 10, 10>>
    [] keycode = 42 -> <<8, 8, 8>>
    [] keycode = 43 -> <<9, 9, 9>>
    [] keycode = 44 -> <<32, 32, 32>>
    [] keycode = 45 -> <<39, 63, 0>>      \* ' ?
    [] keycode = 47 -> <<96, 94, 91>>     \* ` ^ [
    [] keycode = 48 -> <<43, 42, 93>>     \* + * ]
    [] keycode = 49 -> <<231, 199, 125>>  \*     }
    [] keycode = 52 -> <<180, 168, 123>>  \*     {
    [] keycode = 53 -> <<186, 170, 92>>   \*     \
    [] keycode = 54 -> <<44, 59, 0>>      \* , ;
    [] keycode = 55 -> <<46, 58, 0>>      \* . :
    [] keycode = 56 -> <<45, 95, 0>>      \* - _
    [] keycode = 100 -> <<60, 62, 0>>     \* < >
    [] OTHER -> <<0, 0, 0>>

HostReads(report) ==
  LET level == CASE report.modifier = 0 -> 1
                 [] report.modifier = 2 -> 2
                 [] OTHER -> 3
      char == Layout(report.keycode)[level]
  IN IF char = 0 THEN <<>> ELSE <<char>>
=============================================================================
