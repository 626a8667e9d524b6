-------------------------------- MODULE Storage --------------------------------
(***************************************************************************)
(* What FLS_write promises: a buffer is stored in one step, as the USB     *)
(* protocol assumes, unless the supply fails on the way.  Then the pages   *)
(* before one are written, the pages after it are not, and any byte of     *)
(* that page, written or not, may be what it was, erased or new.           *)
(***************************************************************************)
EXTENDS Integers

CONSTANTS
  PageSize,       \* SPM_PAGESIZE: 64
  AddrSpace,      \* bytes of flash
  Writes,         \* the calls: start address, size and bytes
  Flash0

Byte == 0 .. 255
Addr == 0 .. AddrSpace - 1
Erased == 255

VARIABLES
  flash,
  lost            \* the last write failed

Page(p) == p * PageSize .. (p + 1) * PageSize - 1
Covers(w, a) == w.start <= a /\ a < w.start + w.size
Put(mem, w, a) == IF Covers(w, a) THEN w.bytes[a - w.start] ELSE mem[a]

Init == flash = Flash0 /\ lost = FALSE

Write(w) ==
  /\ flash' = [a \in Addr |-> Put(flash, w, a)]
  /\ lost' = FALSE

Touched(w) == {p \in 0 .. AddrSpace \div PageSize - 1 :
                 \E a \in Page(p) : Covers(w, a)}

Half(w, p) ==
  [a \in Addr |-> IF a < p * PageSize THEN Put(flash, w, a) ELSE flash[a]]

Fail(w) ==
  /\ lost' = TRUE
  /\ \/ flash' = Half(w, AddrSpace)
     \/ \E p \in Touched(w) :
          /\ \A a \in Addr \ Page(p) : flash'[a] = Half(w, p)[a]
          /\ \A a \in Page(p) : flash'[a] \in {flash[a], Erased, Put(flash, w, a)}
          /\ flash' \in [Addr -> Byte]

Next == \E w \in Writes : Write(w) \/ Fail(w)

Spec == Init /\ [][Next]_<<flash, lost>>
==============================================================================
