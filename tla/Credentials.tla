---------------------------- MODULE Credentials ----------------------------
(***************************************************************************)
(* The list of credentials in flash (crd.c), the moves through it, the     *)
(* decryption of one credential piece by piece and the keys that type it.  *)
(* The host replaces the list page by page meanwhile.                      *)
(*                                                                         *)
(* A record is the name, a zero, the offset of the next record and four    *)
(* encrypted fields: user, hop, pass and submit.  Offsets are relative to  *)
(* credentials[].  The queue a piece waits in before it is typed is        *)
(* modelled in Typing; here a piece is typed when CRD_apply asks for it.   *)
(***************************************************************************)
EXTENDS Integers, Sequences, FiniteSets, SequencesExt, Keyboard

CONSTANTS
  Lists,         \* contents of credentials[]: bytes, and the plain fields of
                 \* the record at each offset
  Size,          \* size of credentials[]
  PageSize,      \* SPM_PAGESIZE
  CipherKey,     \* the sixteen bytes of cipher.key
  PositionSize,  \* 256: position is a uint8_t
  MaxSearch      \* records crd_previous looks at before the watchdog bites

CRD_USER == 0
CRD_HOP == 1
CRD_PASS == 2
CRD_SUBMIT == 3
CRD_END == 4

(* The characters that have a key of their own, and fields of them: what   *)
(* the clients write.  position can count the bytes of all four fields.    *)
Characters == {9, 10} \cup 32 .. 126
Fields == {f \in Seq(Seq(Characters)) :
             Len(f) = CRD_END /\ Len(FlattenSeq(f)) + CRD_END <= PositionSize}

ASSUME SizesAssumption ==
  /\ PageSize \in Nat \ {0} /\ Size \in Nat \ {0} /\ Size % PageSize = 0
  /\ PositionSize \in Nat \ {0} /\ PositionSize % 16 = 0
  /\ MaxSearch \in Nat \ {0}
ASSUME ListsAssumption ==
  \A l \in 1 .. Len(Lists) :
    /\ Len(Lists[l].bytes) = Size
    /\ \A o \in DOMAIN Lists[l].plain : Lists[l].plain[o] \in Fields

VARIABLES
  flash,         \* the list that each page was written from last
  writing,       \* the list the host writes, 0 if none, and the next page
  credential, plain, position, counter, crdStart, crdStop,
  pc,            \* "menu", "typing", or "previous" inside crd_previous
  search,        \* currentcred, lastcred of crd_previous; steps done
  typed,         \* what the host has read of the credential being typed
  history        \* the record to go back to; whether the list stood still

vars == <<flash, writing, credential, plain, position, counter, crdStart,
          crdStop, pc, search, typed, history>>

N == INSTANCE Noekeon

(* Definitions whose names end in _fault are faulty variants of the        *)
(* definition that follows them.  No action uses one; each shows that some *)
(* property would notice the fault.                                        *)

Pages == 0 .. Size \div PageSize - 1
Copy(l) == [p \in Pages |-> l]

(* Past the array pgm_read finds the code that follows; the model reads    *)
(* zeros there.                                                            *)
Read(f, o) ==
  IF o < Size THEN Lists[f[o \div PageSize]].bytes[o + 1] ELSE 0

crd_findEOS(f, o) ==
  1 + CHOOSE i \in o .. o + Size :
        Read(f, i) = 0 /\ \A j \in o .. i - 1 : Read(f, j) # 0

Loaded(f, cred) ==
  LET o == crd_findEOS(f, cred)
  IN [name |-> cred, next |-> Read(f, o) + 256 * Read(f, o + 1), encrypt |-> o + 2]

(* The 16 bytes from p on of what is encrypted at e.                       *)
Block(f, e, p) ==
  N!noekeon_decrypt([i \in 1 .. 16 |-> Read(f, e + p + i - 1)], CipherKey)

(* A byte of the decrypted text of a record.                               *)
TextByte(l, o, p) ==
  Block(Copy(l), Loaded(Copy(l), o).encrypt, p - (p % 16))[(p % 16) + 1]

(* Where the field of number c begins: behind those before it, with zeros. *)
Begin(fields, c) == Len(FlattenSeq(SubSeq(fields, 1, c))) + c

Records(l) == DOMAIN Lists[l].plain
NextRecord(l, o) == Loaded(Copy(l), o).next

(* The records of a list lead to records, and no two of them to the same:  *)
(* crd_previous asks for it, crd.c:24 is one.                              *)
ASSUME RingAssumption ==
  \A l \in 1 .. Len(Lists) :
    /\ 0 \in Records(l) /\ Records(l) \subseteq 0 .. Size - 1
    /\ \A o \in Records(l) : NextRecord(l, o) \in Records(l)
    /\ \A o, u \in Records(l) : NextRecord(l, o) = NextRecord(l, u) => o = u

(* What is encrypted in a record are its fields, each with a zero after it. *)
ASSUME CipherAssumption ==
  \A l \in 1 .. Len(Lists) : \A o \in Records(l) :
    \A c \in CRD_USER .. CRD_SUBMIT :
      LET fields == Lists[l].plain[o]
          field == fields[c + 1]
      IN \A i \in 0 .. Len(field) :
           TextByte(l, o, Begin(fields, c) + i)
             = IF i < Len(field) THEN field[i + 1] ELSE 0

crd_loadCredential(cred) == credential' = Loaded(flash, cred)

NoWrite == [list |-> 0, page |-> 0]
NoSearch == [current |-> 0, lastcred |-> 0, steps |-> 0]

Init ==
  /\ flash \in {Copy(l) : l \in 1 .. Len(Lists)}
  /\ writing = NoWrite
  /\ credential = Loaded(flash, 0)
  /\ plain = [i \in 1 .. 16 |-> 0]
  /\ position = 0 /\ counter = 0 /\ crdStart = CRD_USER /\ crdStop = CRD_USER
  /\ pc = "menu" /\ search = NoSearch /\ typed = <<>>
  /\ history = [back |-> -1, exact |-> FALSE]

Whole == writing = NoWrite /\ \A p \in DOMAIN flash : flash[p] = flash[0]

------------------------------------------------------------------------------
(* Moves                                                                   *)

(* Nothing is typed any more: print_deleteStr cut it, or it is complete.   *)
(* What is left in the variables is never read, and set to zero.           *)
Still ==
  /\ plain' = [i \in 1 .. 16 |-> 0]
  /\ position' = 0 /\ counter' = 0 /\ crdStart' = CRD_USER /\ crdStop' = CRD_USER
  /\ typed' = <<>>

crd_next ==
  /\ pc # "previous"
  /\ crd_loadCredential(credential.next)
  /\ pc' = "menu"
  /\ history' = [history EXCEPT !.back = IF Whole THEN credential.name ELSE -1]
  /\ Still
  /\ UNCHANGED <<flash, writing, search>>

crd_previous_fault ==
  /\ pc # "previous"
  /\ pc' = "previous"
  /\ search' = [current |-> credential.name + Size, lastcred |-> 0, steps |-> 0]
  /\ Still
  /\ UNCHANGED <<flash, writing, credential, history>>

crd_previous ==
  /\ pc # "previous"
  /\ pc' = "previous"
  /\ search' = [current |-> credential.name, lastcred |-> 0, steps |-> 0]
  /\ Still
  /\ UNCHANGED <<flash, writing, credential, history>>

SearchStep_fault ==
  /\ pc = "previous" /\ credential.next # search.current
  /\ search.steps < MaxSearch
  /\ crd_loadCredential(credential.next)
  /\ search' = [search EXCEPT !.lastcred = credential'.next, !.steps = @ + 1]
  /\ UNCHANGED <<flash, writing, plain, position, counter, crdStart, crdStop,
                 pc, typed, history>>

SearchStep ==
  /\ pc = "previous" /\ credential.next # search.current
  /\ search.steps < MaxSearch
  /\ search' = [search EXCEPT !.lastcred = credential.next, !.steps = @ + 1]
  /\ crd_loadCredential(credential.next)
  /\ UNCHANGED <<flash, writing, plain, position, counter, crdStart, crdStop,
                 pc, typed, history>>

SearchEnds ==
  /\ pc = "previous" /\ credential.next = search.current
  /\ crd_loadCredential(search.lastcred)
  /\ pc' = "menu" /\ search' = NoSearch
  /\ history' = [history EXCEPT !.back = -1]
  /\ UNCHANGED <<flash, writing, plain, position, counter, crdStart, crdStop, typed>>

------------------------------------------------------------------------------
(* Typing                                                                  *)

crd_find(s) ==
  LET zeros == {i \in 1 .. Len(s) : s[i] = 0}
  IN IF zeros = {} THEN Len(s)
     ELSE (CHOOSE i \in zeros : \A j \in zeros : i <= j) - 1

(* What a host reads of the keys of some characters.                       *)
Keys(s) == FlattenSeq([i \in 1 .. Len(s) |-> HostReads(print_pressKey(s[i]))])

Advance(p, n) == (p + n) % PositionSize

(* A block is decrypted when position comes to it.                         *)
Decrypted(p) ==
  IF p % 16 # 0 THEN plain ELSE Block(flash, credential.encrypt, p)

(* One call of CRD_apply with position p, counter c and start s.  A field  *)
(* that is skipped or empty is typed as the character 0, which has no key. *)
CRD_apply_fault(p, c, s, text) ==
  \E block \in {Decrypted(p)} :
    LET rest == SubSeq(block, (p % 16) + 1, 16)
        size == crd_find(rest)
        shown == IF c >= s /\ size # 0 THEN SubSeq(rest, 1, size) ELSE <<0>>
        fields == IF size <= Len(rest) THEN 1 ELSE 0
    IN /\ plain' = block
       /\ typed' = IF history'.exact THEN text \o Keys(shown) ELSE <<>>
       /\ counter' = c + fields
       /\ position' = Advance(p, size + fields)

CRD_apply(p, c, s, text) ==
  \E block \in {Decrypted(p)} :
    LET rest == SubSeq(block, (p % 16) + 1, 16)
        size == crd_find(rest)
        shown == IF c >= s /\ size # 0 THEN SubSeq(rest, 1, size) ELSE <<0>>
        fields == IF size < Len(rest) THEN 1 ELSE 0
    IN /\ plain' = block
       /\ typed' = IF history'.exact THEN text \o Keys(shown) ELSE <<>>
       /\ counter' = c + fields
       /\ position' = Advance(p, size + fields)

CRD_printDetail(start, stop) ==
  /\ pc # "previous"
  /\ pc' = "typing"
  /\ crdStart' = start /\ crdStop' = stop
  /\ history' = [history EXCEPT !.exact = Whole]
  /\ CRD_apply(0, 0, start, <<>>)
  /\ UNCHANGED <<flash, writing, credential, search>>

(* RIGHT in the list, and the two details of the options menu.             *)
PrintAll == CRD_printDetail(CRD_USER, CRD_END)
PrintUser == CRD_printDetail(CRD_USER, CRD_USER + 1)
PrintPass == CRD_printDetail(CRD_PASS, CRD_PASS + 1)

(* printUpdate has typed a piece and asks for the next one.                *)
Continue ==
  /\ pc = "typing" /\ counter < crdStop
  /\ UNCHANGED history
  /\ CRD_apply(position, counter, crdStart, typed)
  /\ UNCHANGED <<flash, writing, credential, crdStart, crdStop, pc, search>>

Finish ==
  /\ pc = "typing" /\ counter >= crdStop
  /\ pc' = "menu" /\ Still
  /\ UNCHANGED <<flash, writing, credential, search, history>>

------------------------------------------------------------------------------
(* The host and the supply                                                 *)

StartWrite(l) ==
  /\ pc # "previous" /\ writing = NoWrite
  /\ writing' = [list |-> l, page |-> 0]
  /\ history' = [back |-> -1, exact |-> FALSE]
  /\ typed' = <<>>
  /\ UNCHANGED <<flash, credential, plain, position, counter, crdStart, crdStop,
                 pc, search>>

(* UCP_WriteTask stores a page; after the last the list is loaded anew.    *)
WritePage ==
  /\ pc # "previous" /\ writing # NoWrite
  /\ flash' = [flash EXCEPT ![writing.page] = writing.list]
  /\ IF writing.page + 1 = Size \div PageSize
     THEN writing' = NoWrite /\ credential' = Loaded(flash', 0)
     ELSE /\ writing' = [writing EXCEPT !.page = @ + 1]
          /\ UNCHANGED credential
  /\ UNCHANGED <<plain, position, counter, crdStart, crdStop, pc, search, typed,
                 history>>

(* The plug, or the watchdog when crd_previous does not end: CRD_Init.     *)
Restart ==
  /\ pc' = "menu" /\ writing' = NoWrite
  /\ crd_loadCredential(0)
  /\ search' = NoSearch /\ Still
  /\ history' = [back |-> -1, exact |-> FALSE]
  /\ UNCHANGED flash

Next ==
  \/ crd_next \/ crd_previous \/ SearchStep \/ SearchEnds
  \/ PrintAll \/ PrintUser \/ PrintPass \/ Continue \/ Finish
  \/ \E l \in 1 .. Len(Lists) : StartWrite(l)
  \/ WritePage \/ Restart

Spec == Init /\ [][Next]_vars
------------------------------------------------------------------------------
(* Properties                                                              *)

TypeOK ==
  /\ \A p \in DOMAIN flash : flash[p] \in 1 .. Len(Lists)
  /\ writing.list \in 0 .. Len(Lists) /\ writing.page \in DOMAIN flash
  /\ credential.name \in 0 .. 65535 /\ credential.next \in 0 .. 65535
  /\ credential.encrypt \in credential.name + 3 .. credential.name + Size + 3
  /\ plain \in [1 .. 16 -> 0 .. 255]
  /\ position \in 0 .. PositionSize - 1 /\ counter \in 0 .. CRD_END
  /\ pc \in {"menu", "typing", "previous"}

(* When a credential has been typed and the list was not written           *)
(* meanwhile, a Spanish host has read the fields that were asked for, and  *)
(* nothing else: whatever blocks they span, and with fields that are empty *)
(* or end with their block, up to the 256 bytes position can count.        *)
SpellsCredential ==
  pc = "typing" /\ counter >= crdStop /\ history.exact
  => typed = FlattenSeq(SubSeq(Lists[flash[0]].plain[credential.name],
                               crdStart + 1, crdStop))

(* In a list that is not being written UP after DOWN returns.              *)
UpUndoesDown ==
  [][SearchEnds /\ history.back # -1 => credential'.name = history.back]_vars

(* In a list that is not being written crd_previous meets every record at  *)
(* most once: the watchdog has nothing to end.                             *)
SearchIsShort ==
  pc = "previous" /\ Whole
  => search.steps < Cardinality(DOMAIN Lists[flash[0]].plain)
=============================================================================
