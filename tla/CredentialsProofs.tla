------------------------- MODULE CredentialsProofs -------------------------
(***************************************************************************)
(* Proofs about the moves through the list and about what is typed of a    *)
(* credential, for all lists whose records lead to each other one to one   *)
(* and whose fields are encrypted as the clients do it, however the host   *)
(* replaces one list by another meanwhile.                                 *)
(***************************************************************************)
EXTENDS Credentials, FiniteSetTheorems, SequenceTheorems, WellFoundedInduction,
        TLAPS

R == Records(flash[0])
After(o) == NextRecord(flash[0], o)

(* A record that leads back to itself is not on the way to any other.      *)
Apart(o) == o = 0 \/ After(o) # o

WriteInv ==
  /\ flash \in [Pages -> 1 .. Len(Lists)]
  /\ writing \in [list : 0 .. Len(Lists), page : Nat]
  /\ writing # NoWrite => writing.list # 0

(* The record the menus show is one of the list.                           *)
RecordIsListed ==
  Whole => /\ credential.name \in R /\ Apart(credential.name)
           /\ credential = Loaded(flash, credential.name)

(* A search that came from one record to another met those in V, and each  *)
(* of them but the first by way of one that it met before.                 *)
Met(V, from, to) ==
  /\ V \subseteq R /\ IsFiniteSet(V) /\ from \in V /\ to \in V
  /\ \A v \in V \ {from} : \E u \in V \ {to} : After(u) = v

SearchInv ==
  /\ search = [current |-> search.current, lastcred |-> search.lastcred,
               steps |-> search.steps]
  /\ search.steps \in Nat
  /\ Whole /\ pc = "previous" =>
       /\ search.lastcred = IF search.steps = 0 THEN 0 ELSE credential.name
       /\ search.steps = 0 => credential.name = search.current
       /\ \E V \in SUBSET R :
            /\ Met(V, search.current, credential.name)
            /\ Cardinality(V) = search.steps + 1

(* The record DOWN was pressed at is before the one it led to.             *)
HistoryInv ==
  /\ history = [back |-> history.back, exact |-> history.exact]
  /\ history.back # -1 =>
       /\ Whole /\ history.back \in R
       /\ After(history.back) = IF pc = "previous" THEN search.current
                                ELSE credential.name

CredInv == WriteInv /\ RecordIsListed /\ SearchInv /\ HistoryInv

------------------------------------------------------------------------------
(* The list.                                                               *)

(* The array has a page.                                                   *)
LEMMA FirstPage == 0 \in Pages
<1>1. PageSize \in Nat \ {0} /\ Size \in Nat \ {0} /\ Size % PageSize = 0
  BY SizesAssumption
<1>2. Size = PageSize * (Size \div PageSize)
  BY <1>1
<1>3. Size \div PageSize \in Nat /\ Size \div PageSize # 0
  BY <1>1, <1>2
<1> QED BY <1>3 DEF Pages

(* The records of a list lead to each other, one to one.                   *)
LEMMA Ring ==
  ASSUME NEW l \in 1 .. Len(Lists)
  PROVE  /\ 0 \in Records(l) /\ Records(l) \subseteq 0 .. Size - 1
         /\ \A o \in Records(l) : NextRecord(l, o) \in Records(l)
         /\ \A o, u \in Records(l) :
              NextRecord(l, o) = NextRecord(l, u) => o = u
BY RingAssumption

(* crd_loadCredential keeps the offset it was given.                       *)
LEMMA LoadedName ==
  ASSUME NEW f, NEW o PROVE Loaded(f, o).name = o
BY DEF Loaded

(* All pages of one list: what is read there is the list.                  *)
LEMMA WholeList ==
  ASSUME WriteInv, Whole
  PROVE  /\ flash[0] \in 1 .. Len(Lists)
         /\ \A o : Loaded(flash, o).next = After(o)
<1>1. flash[0] \in 1 .. Len(Lists)
  BY FirstPage DEF WriteInv
<1>2. flash = Copy(flash[0])
  BY DEF WriteInv, Whole, Copy
<1>3. ASSUME NEW o
      PROVE  Loaded(flash, o).next = After(o)
  BY <1>2 DEF After, NextRecord
<1> QED BY <1>1, <1>3

(* So do those of the list that is stored.                                 *)
LEMMA ListIsRing ==
  ASSUME WriteInv
  PROVE  /\ 0 \in R /\ IsFiniteSet(R) /\ R \subseteq 0 .. Size - 1
         /\ \A o \in R : After(o) \in R
         /\ \A o, u \in R : After(o) = After(u) => o = u
<1>1. flash[0] \in 1 .. Len(Lists)
  BY FirstPage DEF WriteInv
<1>2. R \subseteq 0 .. Size - 1
  BY <1>1, Ring DEF R
<1>3. IsFiniteSet(0 .. Size - 1)
  BY SizesAssumption, FS_Interval
<1>4. IsFiniteSet(R)
  BY <1>2, <1>3, FS_Subset
<1> QED BY <1>1, <1>2, <1>4, Ring DEF R, After

(* What follows a record of the list is a record, and apart when the       *)
(* record is.                                                              *)
LEMMA FollowsApart ==
  ASSUME WriteInv, NEW o \in R, Apart(o)
  PROVE  After(o) \in R /\ Apart(After(o))
<1>1. After(o) \in R
  BY ListIsRing
<1>2. After(After(o)) = After(o) => After(o) = o
  BY <1>1, ListIsRing
<1> QED BY <1>1, <1>2 DEF Apart

------------------------------------------------------------------------------
(* The steps.                                                              *)

(* What a step that does not write leaves alone.                           *)
LEMMA SameList ==
  ASSUME WriteInv, flash' = flash, writing' = writing
  PROVE  WriteInv' /\ Whole' = Whole /\ R' = R
BY DEF WriteInv, Whole, R

(* Moves load a record; the list and the write stay.                       *)
Moves == crd_next \/ SearchStep \/ SearchEnds

(* The record a move loads.                                                *)
Target == IF pc = "previous" /\ credential.next = search.current
          THEN search.lastcred ELSE credential.next

(* A move in a list that is not half written comes from one of its records *)
(* to another.                                                             *)
LEMMA MovesStep ==
  ASSUME CredInv, Moves
  PROVE  /\ WriteInv' /\ RecordIsListed' /\ Whole' = Whole /\ R' = R
         /\ Whole => credential.next = After(credential.name)
         /\ Whole => credential'.name = Target
         /\ Whole => credential'.next = After(credential'.name)
<1>1. flash' = flash /\ writing' = writing
  BY DEF Moves, crd_next, SearchStep, SearchEnds
<1>2. WriteInv' /\ Whole' = Whole /\ R' = R
  BY <1>1, SameList DEF CredInv
<1>3. credential' = Loaded(flash, Target)
  BY DEF Moves, crd_next, SearchStep, SearchEnds, Target, crd_loadCredential
<1>4. credential'.name = Target
  BY <1>3, LoadedName
<1>5. ASSUME Whole
      PROVE  /\ credential.next = After(credential.name)
             /\ credential'.next = After(credential'.name)
  BY <1>3, <1>4, <1>5, WholeList DEF CredInv, RecordIsListed
<1>6. ASSUME Whole
      PROVE  Target \in R /\ Apart(Target)
  <2>1. credential.name \in R /\ Apart(credential.name)
    BY <1>6 DEF CredInv, RecordIsListed
  <2>2. CASE Target = credential.next
    BY <1>5, <1>6, <2>1, <2>2, FollowsApart DEF CredInv
  <2>3. CASE Target # credential.next
    <3>1. pc = "previous" /\ Target = search.lastcred
      BY <2>3 DEF Target
    <3>2. Target = 0 \/ Target = credential.name
      BY <1>6, <3>1 DEF CredInv, SearchInv
    <3>3. 0 \in R /\ Apart(0)
      BY ListIsRing DEF CredInv, Apart
    <3> QED BY <2>1, <3>2, <3>3
  <2> QED BY <2>2, <2>3
<1>7. RecordIsListed'
  <2>1. ASSUME Whole'
        PROVE  /\ credential'.name \in R'
               /\ credential' = Loaded(flash', credential'.name)
    BY <1>1, <1>2, <1>3, <1>4, <1>6, <2>1
  <2>2. ASSUME Whole'
        PROVE  Apart(credential.name)'
    BY <1>1, <1>2, <1>4, <1>6, <2>2 DEF Apart, After
  <2> QED BY <2>1, <2>2 DEF RecordIsListed
<1> QED BY <1>2, <1>4, <1>5, <1>7

(* crd_next notes the record to go back to.                                *)
LEMMA NextStep ==
  ASSUME CredInv, crd_next PROVE CredInv'
<1>1. /\ Moves /\ flash' = flash /\ search' = search
      /\ pc' = "menu" /\ pc # "previous"
  BY DEF Moves, crd_next
<1>2. history' = [back |-> IF Whole THEN credential.name ELSE -1,
                  exact |-> history.exact]
  BY DEF crd_next, CredInv, HistoryInv
<1>3. SearchInv'
  BY <1>1 DEF CredInv, SearchInv
<1>4. ASSUME history'.back # -1
      PROVE  Whole /\ history'.back = credential.name
  BY <1>2, <1>4
<1>5. ASSUME Whole
      PROVE  Target = After(credential.name) /\ credential.name \in R
  BY <1>1, <1>5, MovesStep DEF Target, CredInv, RecordIsListed
<1>6. HistoryInv'
  <2>1. ASSUME history'.back # -1
        PROVE  /\ Whole' /\ history'.back \in R'
               /\ After(history.back)' = credential'.name
    BY <1>1, <1>4, <1>5, <2>1, MovesStep DEF After
  <2>2. history' = [back |-> history'.back, exact |-> history'.exact]
    BY <1>2
  <2> QED BY <1>1, <2>1, <2>2 DEF HistoryInv
<1> QED BY <1>1, <1>3, <1>6, MovesStep DEF CredInv

(* A search begins with the record it starts at.                           *)
LEMMA PreviousStep ==
  ASSUME CredInv, crd_previous PROVE CredInv'
<1>1. /\ flash' = flash /\ writing' = writing /\ credential' = credential
      /\ history' = history /\ pc' = "previous" /\ pc # "previous"
      /\ search' = [current |-> credential.name, lastcred |-> 0, steps |-> 0]
  BY DEF crd_previous
<1>2. WriteInv' /\ Whole' = Whole /\ R' = R
  BY <1>1, SameList DEF CredInv
<1>3. RecordIsListed'
  BY <1>1, <1>2 DEF CredInv, RecordIsListed, Apart, After
<1>4. HistoryInv'
  BY <1>1, <1>2 DEF CredInv, HistoryInv, After
<1>5. ASSUME Whole
      PROVE  \E V \in SUBSET R' : Met(V, search.current, credential.name)'
                                  /\ Cardinality(V) = 0 + 1
  <2> PICK V : V = {credential.name}
    OBVIOUS
  <2>1. V \in SUBSET R'
    BY <1>2, <1>5 DEF CredInv, RecordIsListed
  <2>2. IsFiniteSet(V) /\ Cardinality(V) = 1
    BY FS_Singleton
  <2>3. Met(V, search.current, credential.name)'
    BY <1>1, <1>2, <2>1, <2>2 DEF Met
  <2> QED BY <2>1, <2>2, <2>3
<1>6. SearchInv'
  BY <1>1, <1>2, <1>5 DEF SearchInv
<1> QED BY <1>2, <1>3, <1>4, <1>6 DEF CredInv

(* A step of a search meets a record that it has not met.                  *)
LEMMA SearchStepStep ==
  ASSUME CredInv, SearchStep PROVE CredInv'
<1>1. /\ Moves /\ history' = history /\ pc = "previous" /\ pc' = "previous"
      /\ credential.next # search.current
  BY DEF Moves, SearchStep
<1>2. search' = [current |-> search.current, lastcred |-> credential.next,
                 steps |-> search.steps + 1]
  BY DEF SearchStep, CredInv, SearchInv
<1>3. /\ WriteInv' /\ RecordIsListed' /\ Whole' = Whole /\ R' = R
      /\ \A o : (After(o))' = After(o)
  BY <1>1, MovesStep DEF After, SearchStep
<1>4. HistoryInv'
  BY <1>1, <1>2, <1>3 DEF CredInv, HistoryInv, SearchStep, After
<1>5. ASSUME Whole
      PROVE  /\ credential'.name = credential.next
             /\ credential.next = After(credential.name)
             /\ credential.name \in R
  BY <1>1, <1>5, MovesStep DEF Target, CredInv, RecordIsListed
<1>6. ASSUME Whole
      PROVE  \E V \in SUBSET R' : Met(V, search.current, credential.name)'
                                  /\ Cardinality(V) = search.steps + 1 + 1
  <2>1. PICK V \in SUBSET R : /\ Met(V, search.current, credential.name)
                             /\ Cardinality(V) = search.steps + 1
    BY <1>1, <1>6 DEF CredInv, SearchInv
  <2>2. PICK name : name = credential.name
    OBVIOUS
  <2>3. PICK current : current = search.current
    OBVIOUS
  <2>4. PICK n : /\ n = After(name) /\ n = credential'.name
                 /\ n # current /\ n \in R
    BY <1>1, <1>5, <1>6, <2>2, <2>3, ListIsRing DEF CredInv
  <2>5. n \notin V
    <3>1. SUFFICES ASSUME n \in V PROVE FALSE
      OBVIOUS
    <3>2. PICK u \in V \ {name} : After(u) = n
      BY <2>1, <2>2, <2>3, <2>4, <3>1 DEF Met
    <3>3. u = name
      BY <1>5, <1>6, <2>2, <2>4, <3>2, ListIsRing DEF CredInv
    <3> QED BY <3>2, <3>3
  <2>6. PICK W : W = V \cup {n}
    OBVIOUS
  <2>7. IsFiniteSet(W) /\ Cardinality(W) = search.steps + 1 + 1
    BY <2>1, <2>5, <2>6, FS_AddElement DEF Met
  <2>8. W \in SUBSET R
    BY <2>4, <2>6
  <2>9. /\ current \in W /\ n \in W
        /\ \A v \in W \ {current} : \E u \in W \ {n} : After(u) = v
    <3>1. current \in V /\ name \in V
      BY <2>1, <2>2, <2>3 DEF Met
    <3>2. ASSUME NEW v \in W \ {current}
          PROVE  \E u \in W \ {n} : After(u) = v
      <4>1. CASE v = n
        BY <2>4, <2>5, <2>6, <3>1, <4>1
      <4>2. CASE v \in V
        <5>1. PICK u \in V \ {name} : After(u) = v
          BY <2>1, <2>2, <2>3, <3>2, <4>2 DEF Met
        <5> QED BY <2>5, <2>6, <5>1
      <4> QED BY <2>6, <3>2, <4>1, <4>2
    <3> QED BY <2>6, <3>1, <3>2
  <2>10. (Met(W, current, n))'
    BY <1>3, <2>7, <2>8, <2>9 DEF Met
  <2>11. Met(W, search.current, credential.name)'
    BY <1>2, <2>3, <2>4, <2>10 DEF Met
  <2> QED BY <1>3, <2>7, <2>8, <2>11
<1>7. SearchInv'
  BY <1>1, <1>2, <1>3, <1>5, <1>6 DEF CredInv, SearchInv
<1> QED BY <1>3, <1>4, <1>7 DEF CredInv

(* The end of a search forgets what it met.                                *)
LEMMA SearchEndsStep ==
  ASSUME CredInv, SearchEnds PROVE CredInv'
<1>1. Moves /\ search' = NoSearch /\ pc' = "menu"
  BY DEF Moves, SearchEnds
<1>2. history' = [back |-> -1, exact |-> history.exact]
  BY DEF SearchEnds, CredInv, HistoryInv
<1>3. SearchInv' /\ HistoryInv'
  BY <1>1, <1>2 DEF SearchInv, HistoryInv, NoSearch
<1> QED BY <1>1, <1>3, MovesStep DEF CredInv

(* Typing leaves the list, the record and the search alone.                *)
LEMMA TypingStep ==
  ASSUME CredInv, PrintAll \/ PrintUser \/ PrintPass \/ Continue \/ Finish
  PROVE  CredInv'
<1>1. /\ flash' = flash /\ writing' = writing /\ credential' = credential
      /\ search' = search /\ pc # "previous" /\ pc' # "previous"
  BY DEF PrintAll, PrintUser, PrintPass, CRD_printDetail, Continue, Finish
<1>2. \/ history' = history
      \/ history' = [history EXCEPT !.exact = Whole]
  BY DEF PrintAll, PrintUser, PrintPass, CRD_printDetail, Continue, Finish
<1>3. history' = [back |-> history.back, exact |-> history'.exact]
  BY <1>2 DEF CredInv, HistoryInv
<1>4. WriteInv' /\ Whole' = Whole /\ R' = R
  BY <1>1, SameList DEF CredInv
<1>5. RecordIsListed'
  BY <1>1, <1>4 DEF CredInv, RecordIsListed, Apart, After
<1>6. SearchInv'
  BY <1>1, <1>4 DEF CredInv, SearchInv
<1>7. HistoryInv'
  BY <1>1, <1>3, <1>4 DEF CredInv, HistoryInv, After
<1> QED BY <1>4, <1>5, <1>6, <1>7 DEF CredInv

(* While the host writes nothing is said of the records.                   *)
LEMMA StartWriteStep ==
  ASSUME CredInv, NEW l \in 1 .. Len(Lists), StartWrite(l) PROVE CredInv'
<1>1. /\ flash' = flash /\ search' = search /\ pc' = pc /\ pc # "previous"
      /\ writing' = [list |-> l, page |-> 0]
      /\ history' = [back |-> -1, exact |-> FALSE]
  BY DEF StartWrite
<1>2. l \in 0 .. Len(Lists) /\ l # 0
  OBVIOUS
<1>3. WriteInv' /\ ~ Whole'
  BY <1>1, <1>2 DEF CredInv, WriteInv, Whole, NoWrite
<1>4. SearchInv' /\ HistoryInv'
  BY <1>1, <1>3 DEF CredInv, SearchInv, HistoryInv
<1> QED BY <1>3, <1>4 DEF CredInv, RecordIsListed

(* The last page of a write makes the list whole.                          *)
LEMMA WritePageStep ==
  ASSUME CredInv, WritePage PROVE CredInv'
<1>1. /\ search' = search /\ history' = history /\ pc' = pc /\ pc # "previous"
      /\ writing # NoWrite
      /\ flash' = [flash EXCEPT ![writing.page] = writing.list]
  BY DEF WritePage
<1>2. history.back = -1
  BY <1>1 DEF CredInv, HistoryInv, Whole
<1>3. SearchInv' /\ HistoryInv'
  BY <1>1, <1>2 DEF CredInv, SearchInv, HistoryInv
<1>4. writing.list \in 1 .. Len(Lists) /\ writing.page \in Nat
  BY <1>1 DEF CredInv, WriteInv
<1>5. flash' \in [Pages -> 1 .. Len(Lists)]
  BY <1>1, <1>4 DEF CredInv, WriteInv
<1>6. \/ writing' = NoWrite /\ credential' = Loaded(flash', 0)
      \/ writing' = [writing EXCEPT !.page = @ + 1]
  BY DEF WritePage
<1>7. CASE writing' = NoWrite /\ credential' = Loaded(flash', 0)
  <2>1. WriteInv'
    BY <1>5, <1>7 DEF WriteInv, NoWrite
  <2>2. 0 \in R' /\ credential'.name = 0
    BY <1>5, <1>7, FirstPage, Ring, LoadedName DEF R
  <2>3. RecordIsListed'
    BY <1>7, <2>2 DEF RecordIsListed, Apart
  <2> QED BY <1>3, <2>1, <2>3 DEF CredInv
<1>8. CASE writing' = [writing EXCEPT !.page = @ + 1]
  <2>1. writing' = [list |-> writing.list, page |-> writing.page + 1]
    BY <1>8 DEF CredInv, WriteInv
  <2>2. WriteInv' /\ writing' # NoWrite
    BY <1>4, <1>5, <2>1 DEF WriteInv, NoWrite
  <2>3. RecordIsListed'
    BY <2>2 DEF RecordIsListed, Whole
  <2> QED BY <1>3, <2>2, <2>3 DEF CredInv
<1> QED BY <1>6, <1>7, <1>8

(* A restart forgets a write that was not finished.                        *)
LEMMA RestartStep ==
  ASSUME CredInv, Restart PROVE CredInv'
<1>1. /\ flash' = flash /\ pc' = "menu" /\ writing' = NoWrite
      /\ credential' = Loaded(flash, 0) /\ search' = NoSearch
      /\ history' = [back |-> -1, exact |-> FALSE]
  BY DEF Restart, crd_loadCredential
<1>2. WriteInv'
  BY <1>1 DEF CredInv, WriteInv, NoWrite
<1>3. SearchInv' /\ HistoryInv'
  BY <1>1 DEF SearchInv, HistoryInv, NoSearch
<1>4. 0 \in R' /\ credential'.name = 0
  BY <1>1, ListIsRing, LoadedName DEF CredInv, R
<1>5. RecordIsListed'
  BY <1>1, <1>4 DEF RecordIsListed, Apart
<1> QED BY <1>2, <1>3, <1>5 DEF CredInv

(* Every step keeps the invariant, and it holds in the beginning.          *)
LEMMA CredStep ==
  ASSUME CredInv, [Next]_vars PROVE CredInv'
<1>1. CASE UNCHANGED vars
  BY <1>1 DEF vars, CredInv, WriteInv, RecordIsListed, SearchInv, HistoryInv,
              Whole, R, Apart, After, Met
<1>2. CASE Next
  BY <1>2, NextStep, PreviousStep, SearchStepStep, SearchEndsStep, TypingStep,
     StartWriteStep, WritePageStep, RestartStep DEF Next
<1> QED BY <1>1, <1>2

LEMMA CredStart ==
  ASSUME Init PROVE CredInv
<1>1. PICK l \in 1 .. Len(Lists) : flash = Copy(l)
  BY DEF Init
<1>2. /\ writing = NoWrite /\ credential = Loaded(flash, 0) /\ pc = "menu"
      /\ search = NoSearch /\ history = [back |-> -1, exact |-> FALSE]
  BY DEF Init
<1>3. WriteInv
  BY <1>1, <1>2 DEF WriteInv, Copy, NoWrite
<1>4. RecordIsListed
  BY <1>2, <1>3, ListIsRing, LoadedName DEF RecordIsListed, Apart
<1>5. SearchInv /\ HistoryInv
  BY <1>2 DEF SearchInv, HistoryInv, NoSearch
<1> QED BY <1>3, <1>4, <1>5 DEF CredInv

------------------------------------------------------------------------------
(* Sequences of sequences.                                                 *)

(* A set of numbers has a least one.                                       *)
LEMMA Least ==
  ASSUME NEW T, T \subseteq Nat, T # {}
  PROVE  \E x \in T : \A y \in T : x <= y
<1>1. PICK x \in T : \A y \in T : ~ (<<y, x>> \in OpToRel(<, Nat))
  BY NatLessThanWellFounded, WFMin
<1>2. ASSUME NEW y \in T PROVE ~ (y < x)
  <2>1. x \in Nat /\ y \in Nat
    OBVIOUS
  <2>2. y < x => <<y, x>> \in OpToRel(<, Nat)
    BY <2>1 DEF OpToRel
  <2> QED BY <1>1, <2>2
<1>3. ASSUME NEW y \in T PROVE x <= y
  <2>1. x \in Nat /\ y \in Nat /\ ~ (y < x)
    BY <1>2
  <2> QED BY <2>1
<1> QED BY <1>3

(* f[i] is the first i sequences of parts in one.                          *)
Texts == Seq(Nat)
Chain(f, parts, n) ==
  f[1] = parts[1] /\ \A i \in 2 .. n : f[i] = f[i - 1] \o parts[i]
Joins(f, parts, n) == f \in [1 .. n -> Texts] /\ Chain(f, parts, n)

(* The joins of the first sequences extend to one more, so all are joined. *)
LEMMA JoinsExtends ==
  ASSUME NEW parts \in Seq(Texts), NEW n \in 1 .. Len(parts), n > 1,
         NEW f, Joins(f, parts, n - 1)
  PROVE  \E g : Joins(g, parts, n)
<1> PICK g : g = [i \in 1 .. n |-> IF i = n THEN f[n - 1] \o parts[n] ELSE f[i]]
  OBVIOUS
<1>1. n - 1 \in 1 .. n - 1 /\ parts[n] \in Texts /\ f[n - 1] \in Texts
  BY DEF Joins, Chain
<1>2. f[n - 1] \o parts[n] \in Texts
  BY <1>1 DEF Texts
<1>3. ASSUME NEW i \in 1 .. n - 1
      PROVE  g[i] = f[i] /\ g[i] \in Texts
  <2>1. i \in 1 .. n /\ i # n
    BY <1>3
  <2>2. f[i] \in Texts
    BY <1>3 DEF Joins
  <2> QED BY <2>1, <2>2
<1>4. g[n] = f[n - 1] \o parts[n] /\ g[n] \in Texts /\ g[n - 1] = f[n - 1]
  <2>1. n \in 1 .. n
    OBVIOUS
  <2>2. g[n] = f[n - 1] \o parts[n]
    BY <2>1
  <2> QED BY <1>1, <1>2, <1>3, <2>2
<1>5. g \in [1 .. n -> Texts]
  <2>1. ASSUME NEW i \in 1 .. n PROVE g[i] \in Texts
    <3>1. i = n \/ i \in 1 .. n - 1
      OBVIOUS
    <3> QED BY <1>3, <1>4, <3>1
  <2> QED BY <2>1
<1>6. ASSUME NEW i \in 2 .. n
      PROVE  g[i] = g[i - 1] \o parts[i]
  <2>1. CASE i = n
    BY <1>4, <2>1
  <2>2. CASE i # n
    <3>1. i \in 2 .. n - 1 /\ i \in 1 .. n - 1 /\ i - 1 \in 1 .. n - 1
      BY <2>2
    <3>2. f[i] = f[i - 1] \o parts[i]
      BY <3>1 DEF Joins, Chain
    <3>3. g[i] = f[i] /\ g[i - 1] = f[i - 1]
      BY <1>3, <3>1
    <3> QED BY <3>2, <3>3
  <2> QED BY <2>1, <2>2
<1>7. g[1] = parts[1]
  BY <1>3 DEF Joins, Chain
<1> QED BY <1>5, <1>6, <1>7 DEF Joins, Chain

LEMMA JoinsExists ==
  ASSUME NEW parts \in Seq(Texts), NEW n \in 1 .. Len(parts)
  PROVE  \E f : Joins(f, parts, n)
<1> DEFINE T == {m \in 1 .. Len(parts) : ~ \E f : Joins(f, parts, m)}
<1>1. SUFFICES ASSUME T # {} PROVE FALSE
  OBVIOUS
<1>2. T \subseteq Nat
  OBVIOUS
<1>3. PICK m \in T : \A y \in T : m <= y
  BY <1>1, <1>2, Least
<1>4. CASE m = 1
  <2> PICK f : f = [i \in 1 .. 1 |-> parts[1]]
    OBVIOUS
  <2>1. Joins(f, parts, 1)
    BY <1>4 DEF Joins, Chain
  <2> QED BY <1>3, <1>4, <2>1
<1>5. CASE m > 1
  <2>1. m - 1 \in 1 .. Len(parts) /\ ~ (m - 1 >= m)
    BY <1>5
  <2>2. m - 1 \notin T
    BY <1>3, <2>1
  <2>3. \E f : Joins(f, parts, m - 1)
    BY <2>1, <2>2
  <2>4. \E f : Joins(f, parts, m)
    BY <1>5, <2>3, JoinsExtends
  <2> QED BY <1>3, <2>4
<1> QED BY <1>3, <1>4, <1>5

Alike(s, t, n) == \A i \in 1 .. n : s[i] = t[i]

(* Joins depend on nothing but the sequences that are joined.              *)
LEMMA JoinsSame ==
  ASSUME NEW parts, NEW others, NEW n \in Nat \ {0}, Alike(parts, others, n),
         NEW f, NEW g, Chain(f, parts, n), Chain(g, others, n)
  PROVE  f[n] = g[n]
<1> SUFFICES ASSUME NEW k \in 1 .. n PROVE f[k] = g[k]
  OBVIOUS
<1> DEFINE T == {m \in 1 .. n : f[m] # g[m]}
<1>1. SUFFICES ASSUME T # {} PROVE FALSE
  OBVIOUS
<1>2. T \subseteq Nat
  OBVIOUS
<1>3. PICK m \in T : \A y \in T : m <= y
  BY <1>1, <1>2, Least
<1>4. CASE m = 1
  <2>1. parts[1] = others[1]
    BY DEF Alike
  <2> QED BY <1>3, <1>4, <2>1 DEF Joins, Chain
<1>5. CASE m > 1
  <2>1. m - 1 \in 1 .. n /\ ~ (m - 1 >= m) /\ m \in 2 .. n
    BY <1>5
  <2>2. f[m - 1] = g[m - 1]
    BY <1>3, <2>1
  <2>3. f[m] = f[m - 1] \o parts[m] /\ g[m] = g[m - 1] \o others[m]
    BY <2>1 DEF Joins, Chain
  <2>4. parts[m] = others[m]
    BY DEF Alike
  <2> QED BY <1>3, <2>2, <2>3, <2>4
<1> QED BY <1>3, <1>4, <1>5

(* What FlattenSeq does.                                                   *)
LEMMA FlattenJoins ==
  ASSUME NEW parts \in Seq(Texts), Len(parts) # 0,
         NEW f, Joins(f, parts, Len(parts))
  PROVE  FlattenSeq(parts) = f[Len(parts)]
<1> PICK n : n = Len(parts)
  OBVIOUS
<1>1. n \in Nat \ {0} /\ n \in 1 .. n /\ 1 \in 1 .. n
  OBVIOUS
<1> DEFINE Fix(g) == g = [i \in 1 .. n |-> IF i = 1 THEN parts[i]
                                           ELSE g[i - 1] \o parts[i]]
<1> DEFINE flatten == CHOOSE g : Fix(g)
<1>2. Fix(f)
  <2>1. ASSUME NEW i \in 1 .. n
        PROVE  f[i] = IF i = 1 THEN parts[i] ELSE f[i - 1] \o parts[i]
    <3>1. i = 1 \/ i \in 2 .. n
      OBVIOUS
    <3> QED BY <3>1 DEF Joins, Chain
  <2>2. f = [i \in 1 .. n |-> f[i]]
    BY DEF Joins, Chain
  <2> QED BY <2>1, <2>2
<1>3. Fix(flatten)
  BY <1>2
<1>4. FlattenSeq(parts) = flatten[n]
  BY <1>1 DEF FlattenSeq
<1>5. Chain(flatten, parts, n) /\ Chain(f, parts, n)
  <2>1. ASSUME NEW i \in 2 .. n
        PROVE  flatten[i] = flatten[i - 1] \o parts[i]
    <3>1. i \in 1 .. n /\ i # 1
      OBVIOUS
    <3> QED BY <1>3, <3>1
  <2>2. flatten[1] = parts[1]
    BY <1>1, <1>3
  <2> QED BY <2>1, <2>2 DEF Joins, Chain
<1> HIDE DEF flatten
<1>6. flatten[n] = f[n]
  BY <1>1, <1>5, JoinsSame DEF Alike
<1> QED BY <1>4, <1>6

(* The elements from a to b.                                               *)
LEMMA SubSeqFacts ==
  ASSUME NEW S, NEW s \in Seq(S), NEW a \in 1 .. Len(s) + 1,
         NEW b \in a - 1 .. Len(s)
  PROVE  /\ SubSeq(s, a, b) \in Seq(S) /\ Len(SubSeq(s, a, b)) = b - a + 1
         /\ \A i \in 1 .. b - a + 1 : SubSeq(s, a, b)[i] = s[a + i - 1]
OBVIOUS

(* No sequence.                                                            *)
LEMMA FlattenNone ==
  ASSUME NEW s \in Seq(Texts), NEW a \in 1 .. Len(s) + 1, NEW b \in Int, b < a
  PROVE  FlattenSeq(SubSeq(s, a, b)) = <<>>
<1>1. SubSeq(s, a, b) = <<>>
  OBVIOUS
<1> QED BY <1>1 DEF FlattenSeq

(* One more sequence.                                                      *)
LEMMA FlattenMore ==
  ASSUME NEW s \in Seq(Texts), NEW a \in 1 .. Len(s), NEW b \in a .. Len(s)
  PROVE  /\ FlattenSeq(SubSeq(s, a, b))
              = FlattenSeq(SubSeq(s, a, b - 1)) \o s[b]
         /\ FlattenSeq(SubSeq(s, a, b)) \in Texts
         /\ FlattenSeq(SubSeq(s, a, b - 1)) \in Texts
<1> PICK n : n = b - a + 1
  OBVIOUS
<1> PICK whole : whole = SubSeq(s, a, b)
  OBVIOUS
<1> PICK part : part = SubSeq(s, a, b - 1)
  OBVIOUS
<1>1. n \in Nat \ {0} /\ n \in 1 .. n
  OBVIOUS
<1>2. /\ whole \in Seq(Texts) /\ Len(whole) = n
      /\ \A i \in 1 .. n : whole[i] = s[a + i - 1]
  BY SubSeqFacts
<1>3. /\ part \in Seq(Texts) /\ Len(part) = n - 1
      /\ \A i \in 1 .. n - 1 : part[i] = s[a + i - 1]
  BY SubSeqFacts
<1>4. whole[n] = s[b]
  BY <1>1, <1>2
<1>5. PICK f : Joins(f, whole, n)
  BY <1>1, <1>2, JoinsExists
<1>6. FlattenSeq(whole) = f[n] /\ f[n] \in Texts
  <2>1. f[n] \in Texts
    BY <1>1, <1>5 DEF Joins
  <2> QED BY <1>1, <1>2, <1>5, <2>1, FlattenJoins
<1>7. CASE n = 1
  <2>1. f[n] = s[b] /\ s[b] \in Texts
    BY <1>4, <1>5, <1>7 DEF Joins, Chain
  <2>2. FlattenSeq(part) = <<>>
    <3>1. part = <<>>
      BY <1>3, <1>7
    <3> QED BY <3>1 DEF FlattenSeq
  <2>3. <<>> \o s[b] = s[b] /\ <<>> \in Texts
    BY <2>1 DEF Texts
  <2> QED BY <1>6, <2>1, <2>2, <2>3
<1>8. CASE n > 1
  <2>1. /\ n - 1 \in Nat \ {0} /\ n \in 2 .. n
        /\ n - 1 \in 1 .. n - 1 /\ n - 1 \in 1 .. Len(part)
    BY <1>1, <1>3, <1>8
  <2>2. PICK g : Joins(g, part, n - 1)
    BY <1>3, <2>1, JoinsExists
  <2>3. FlattenSeq(part) = g[n - 1] /\ g[n - 1] \in Texts
    <3>1. g[n - 1] \in Texts
      BY <2>1, <2>2 DEF Joins
    <3> QED BY <1>3, <2>1, <2>2, <3>1, FlattenJoins
  <2>4. Chain(f, whole, n - 1) /\ Chain(g, part, n - 1)
    <3>1. ASSUME NEW i \in 2 .. n - 1
          PROVE  f[i] = f[i - 1] \o whole[i]
      <4>1. i \in 2 .. n
        BY <1>1
      <4> QED BY <1>5, <4>1 DEF Joins, Chain
    <3>2. f[1] = whole[1]
      BY <1>5 DEF Joins, Chain
    <3> QED BY <2>2, <3>1, <3>2 DEF Joins, Chain
  <2>5. \A i \in 1 .. n - 1 : whole[i] = part[i]
    BY <1>1, <1>2, <1>3
  <2>6. f[n - 1] = g[n - 1]
    <3> PICK m : m = n - 1
      OBVIOUS
    <3>1. /\ m \in Nat \ {0} /\ m \in 1 .. m
          /\ Chain(f, whole, m) /\ Chain(g, part, m)
          /\ Alike(whole, part, m)
      BY <2>1, <2>4, <2>5 DEF Alike
    <3>2. f[m] = g[m]
      BY <3>1, JoinsSame
    <3> QED BY <3>2
  <2>7. f[n] = f[n - 1] \o whole[n]
    BY <1>5, <2>1 DEF Joins, Chain
  <2>8. FlattenSeq(whole) = FlattenSeq(part) \o s[b]
    BY <1>4, <1>6, <2>3, <2>6, <2>7
  <2> QED BY <1>6, <2>3, <2>8
<1>9. n = 1 \/ n > 1
  BY <1>1
<1> QED BY <1>7, <1>8, <1>9, Zenon

(* The characters of a text, one by one.                                   *)
LEMMA FlattenSingle ==
  ASSUME NEW s \in Texts
  PROVE  FlattenSeq([i \in 1 .. Len(s) |-> <<s[i]>>]) = s
<1> PICK n : n = Len(s)
  OBVIOUS
<1> PICK parts : parts = [i \in 1 .. n |-> <<s[i]>>]
  OBVIOUS
<1>1. n \in Nat /\ parts \in Seq(Texts) /\ Len(parts) = n
  BY DEF Texts
<1>2. CASE n = 0
  <2>1. parts = <<>> /\ s = <<>>
    BY <1>1, <1>2, EmptySeq DEF Texts
  <2> QED BY <1>1, <1>2, <2>1 DEF FlattenSeq
<1>3. CASE n # 0
  <2> PICK f : f = [i \in 1 .. n |-> SubSeq(s, 1, i)]
    OBVIOUS
  <2>1. ASSUME NEW i \in 1 .. n
        PROVE  f[i] \in Texts /\ f[i] = SubSeq(s, 1, i) /\ parts[i] = <<s[i]>>
    BY SubSeqFacts DEF Texts
  <2>2. ASSUME NEW i \in 2 .. n
        PROVE  f[i] = f[i - 1] \o parts[i]
    <3>1. i \in 1 .. n /\ i - 1 \in 1 .. n /\ i \in 1 .. Len(s)
      BY <1>1
    <3>2. SubSeq(s, 1, i) = SubSeq(s, 1, i - 1) \o <<s[i]>>
      BY <3>1, SubSeqRecursiveSecond DEF Texts
    <3> QED BY <2>1, <3>1, <3>2
  <2>3. f[1] = parts[1]
    <3>1. 1 \in 1 .. n /\ 1 \in 1 .. Len(s)
      BY <1>1, <1>3
    <3>2. SubSeq(s, 1, 1) = SubSeq(s, 1, 0) \o <<s[1]>>
      BY <3>1, SubSeqRecursiveSecond DEF Texts
    <3>3. SubSeq(s, 1, 0) = <<>> /\ <<>> \o <<s[1]>> = <<s[1]>>
      OBVIOUS
    <3> QED BY <2>1, <3>1, <3>2, <3>3
  <2>4. Joins(f, parts, n)
    BY <2>1, <2>2, <2>3 DEF Joins, Chain
  <2>5. FlattenSeq(parts) = f[n]
    BY <1>1, <1>3, <2>4, FlattenJoins
  <2>6. SubSeq(s, 1, n) = s
    BY DEF Texts
  <2> QED BY <1>1, <1>3, <2>1, <2>5, <2>6
<1> QED BY <1>2, <1>3

------------------------------------------------------------------------------
(* Keys.                                                                   *)

(* Key b gives c alone, with AltGr or with shift: modifier 0, 1 or 2.      *)
Types(c, modifier, b) ==
  /\ keyboardLUT_ES[c] = 64 * modifier + b
  /\ Layout(IF b = 58 THEN 100 ELSE b)
      [IF modifier = 0 THEN 1 ELSE IF modifier = 1 THEN 3 ELSE 2] = c

(* The key of a character gives the character.                             *)
LEMMA KeyRead ==
  ASSUME NEW c \in 1 .. 127, NEW m \in 0 .. 2, NEW b \in 0 .. 63, Types(c, m, b)
  PROVE  HostReads(print_pressKey(c)) = <<c>>
<1> PICK key : key = 64 * m + b
  OBVIOUS
<1>1. /\ keyboardLUT_ES[c] = key /\ key % 64 = b
      /\ key \div 128 = IF m = 2 THEN 1 ELSE 0
      /\ (key \div 64) % 2 = IF m = 1 THEN 1 ELSE 0
  BY DEF Types
<1>2. print_pressKey(c)
        = [modifier |-> IF m = 0 THEN 0 ELSE IF m = 1 THEN 64 ELSE 2,
           keycode |-> IF b = 58 THEN 100 ELSE b]
  BY <1>1 DEF print_pressKey, SHIFT_MASK, ALTGR_MASK, KEY_EUROPE_2,
              KEY_EUROPE_2_ORG
<1> PICK keycode : keycode = IF b = 58 THEN 100 ELSE b
  OBVIOUS
<1> PICK modifier : modifier = IF m = 0 THEN 0 ELSE IF m = 1 THEN 64 ELSE 2
  OBVIOUS
<1> PICK level : level = CASE modifier = 0 -> 1
                           [] modifier = 2 -> 2
                           [] OTHER -> 3
  OBVIOUS
<1>3. Layout(keycode)[level] = c
  <2>1. level = IF m = 0 THEN 1 ELSE IF m = 1 THEN 3 ELSE 2
    OBVIOUS
  <2> QED BY <2>1 DEF Types
<1>4. /\ print_pressKey(c).modifier = modifier
      /\ print_pressKey(c).keycode = keycode
  BY <1>2
<1>5. HostReads(print_pressKey(c))
        = LET char == Layout(keycode)[level]
          IN IF char = 0 THEN <<>> ELSE <<char>>
  BY <1>4 DEF HostReads
<1>6. c # 0
  OBVIOUS
<1> QED BY <1>3, <1>5, <1>6, Zenon

(* The keys of the letters and digits, and of the signs in their order.    *)
LEMMA LetterKeys ==
  /\ \A c \in 97 .. 122 : Types(c, 0, c - 93)
  /\ \A c \in 65 .. 90 : Types(c, 2, c - 61)
  /\ \A c \in 49 .. 57 : Types(c, 0, c - 19)
  /\ Types(48, 0, 39) /\ Types(9, 0, 43) /\ Types(10, 0, 40)
BY DEF Types, keyboardLUT_ES, Layout, Letter, Digit, Shift, SHIFT_MASK, KEY_A,
       KEY_1, KEY_0, KEY_TAB, KEY_RETURN

LEMMA Keys32 ==
  /\ Types(32, 0, 44) /\ Types(33, 2, 30) /\ Types(34, 2, 31)
  /\ Types(35, 1, 32) /\ Types(36, 2, 33) /\ Types(37, 2, 34)
  /\ Types(38, 2, 35) /\ Types(39, 0, 45) /\ Types(40, 2, 37)
  /\ Types(41, 2, 38) /\ Types(42, 2, 48) /\ Types(43, 0, 48)
  /\ Types(44, 0, 54) /\ Types(45, 0, 56) /\ Types(46, 0, 55)
  /\ Types(47, 2, 36)
BY DEF Types, keyboardLUT_ES, Layout, Signs32, Digit, Shift, AltGr, SHIFT_MASK,
       ALTGR_MASK, KEY_1, KEY_0, KEY_SPACE, KEY_MINUS, KEY_BRACKET_RIGHT,
       KEY_COMMA, KEY_SLASH, KEY_PERIOD

LEMMA Keys58 ==
  /\ Types(58, 2, 55) /\ Types(59, 2, 54) /\ Types(60, 0, 58)
  /\ Types(61, 2, 39) /\ Types(62, 2, 58) /\ Types(63, 2, 45)
  /\ Types(64, 1, 31)
BY DEF Types, keyboardLUT_ES, Layout, Signs58, Digit, Shift, AltGr, SHIFT_MASK,
       ALTGR_MASK, KEY_1, KEY_0, KEY_MINUS, KEY_COMMA, KEY_PERIOD, KEY_EUROPE_2

LEMMA Keys91 ==
  /\ Types(91, 1, 47) /\ Types(92, 1, 53) /\ Types(93, 1, 48)
  /\ Types(94, 2, 47) /\ Types(95, 2, 56) /\ Types(96, 0, 47)
BY DEF Types, keyboardLUT_ES, Layout, Signs91, Shift, AltGr, SHIFT_MASK,
       ALTGR_MASK,
       KEY_BRACKET_LEFT, KEY_BRACKET_RIGHT, KEY_GRAVE, KEY_SLASH

LEMMA Keys123 ==
  /\ Types(123, 1, 52) /\ Types(124, 1, 30) /\ Types(125, 1, 49)
  /\ Types(126, 1, 33)
BY DEF Types, keyboardLUT_ES, Layout, Signs123, Digit, AltGr, ALTGR_MASK, KEY_1,
       KEY_APOSTROPHE, KEY_BACKSLASH

(* They are all of the characters.                                         *)
LEMMA EachHasKey ==
  ASSUME NEW c \in Characters
  PROVE  \E m \in 0 .. 2, b \in 0 .. 63 : Types(c, m, b)
<1>1. CASE c \in 97 .. 122
  BY <1>1, LetterKeys
<1>2. CASE c \in 65 .. 90
  BY <1>2, LetterKeys
<1>3. CASE c \in 48 .. 57 \/ c \in {9, 10}
  BY <1>3, LetterKeys
<1>4. CASE c \in 32 .. 39
  BY <1>4, Keys32
<1>5. CASE c \in 40 .. 47
  BY <1>5, Keys32
<1>6. CASE c \in 58 .. 64
  BY <1>6, Keys58
<1>7. CASE c \in 91 .. 96
  BY <1>7, Keys91
<1>8. CASE c \in 123 .. 126
  BY <1>8, Keys123
<1> QED BY <1>1, <1>2, <1>3, <1>4, <1>5, <1>6, <1>7, <1>8 DEF Characters

(* A host with the Spanish layout reads every character that has a key as  *)
(* itself, and nothing of 0 (print_pressKey and keyboardLUT_ES).           *)
THEOREM EachIsRead ==
  /\ \A c \in Characters : HostReads(print_pressKey(c)) = <<c>>
  /\ HostReads(print_pressKey(0)) = <<>>
<1>1. ASSUME NEW c \in Characters
      PROVE  HostReads(print_pressKey(c)) = <<c>>
  <2>1. PICK m \in 0 .. 2, b \in 0 .. 63 : Types(c, m, b)
    BY <1>1, EachHasKey
  <2>2. c \in 1 .. 127
    BY DEF Characters
  <2> QED BY <2>1, <2>2, KeyRead
<1>2. keyboardLUT_ES[0] = 0
  BY DEF keyboardLUT_ES, KEY_NONE
<1>3. print_pressKey(0) = [modifier |-> 0, keycode |-> 0]
  BY <1>2 DEF print_pressKey, SHIFT_MASK, ALTGR_MASK, KEY_EUROPE_2
<1>4. Layout(0)[1] = 0
  BY DEF Layout
<1> QED BY <1>1, <1>3, <1>4 DEF HostReads

------------------------------------------------------------------------------
(* The text of a record.                                                   *)

FieldsOf(l, o) == Lists[l].plain[o]

(* What the fields of a record are.                                        *)
LEMMA SeqSub ==
  ASSUME NEW S, NEW T, S \subseteq T
  PROVE  Seq(S) \subseteq Seq(T)
OBVIOUS

LEMMA FieldsType ==
  ASSUME NEW l \in 1 .. Len(Lists), NEW o \in Records(l),
         NEW F, F = FieldsOf(l, o)
  PROVE  /\ F \in Seq(Texts) /\ Len(F) = 4
         /\ \A c \in 0 .. 3 : F[c + 1] \in Seq(Characters) /\ F[c + 1] \in Texts
         /\ Len(FlattenSeq(F)) + 4 <= PositionSize
<1>1. F \in Fields
  BY ListsAssumption DEF FieldsOf, Records
<1>2. Characters \subseteq Nat
  BY DEF Characters
<1>3. Seq(Characters) \subseteq Texts
  BY <1>2, SeqSub DEF Texts
<1>4. F \in Seq(Seq(Characters)) /\ Len(F) = 4
  BY <1>1 DEF Fields, CRD_END
<1>5. F \in Seq(Texts)
  BY <1>3, <1>4
<1>6. ASSUME NEW c \in 0 .. 3
      PROVE  F[c + 1] \in Seq(Characters)
  <2>1. c + 1 \in 1 .. Len(F)
    BY <1>4
  <2> QED BY <1>4, <2>1, ElementOfSeq
<1> QED BY <1>1, <1>3, <1>4, <1>5, <1>6 DEF Fields, CRD_END

(* The length of two texts in one.                                         *)
LEMMA ConcatLength ==
  ASSUME NEW s \in Texts, NEW t \in Texts
  PROVE  /\ Len(s) \in Nat /\ Len(t) \in Nat /\ s \o t \in Texts
         /\ Len(s \o t) = Len(s) + Len(t)
BY DEF Texts

(* The fields stand in the text one after another, with a zero between.    *)
LEMMA BeginFacts ==
  ASSUME NEW F \in Seq(Texts), Len(F) = 4
  PROVE  /\ Begin(F, 0) = 0
         /\ \A c \in 0 .. 4 : Begin(F, c) \in Nat
         /\ \A c \in 0 .. 3 : Begin(F, c + 1) = Begin(F, c) + Len(F[c + 1]) + 1
         /\ Begin(F, 4) = Len(FlattenSeq(F)) + 4
<1>1. Begin(F, 0) = 0
  BY FlattenNone DEF Begin
<1>2. ASSUME NEW c \in 0 .. 3
      PROVE  /\ Begin(F, c + 1) = Begin(F, c) + Len(F[c + 1]) + 1
             /\ Begin(F, c) \in Nat /\ Begin(F, c + 1) \in Nat
  <2>1. PICK k : k = c + 1
    OBVIOUS
  <2>2. PICK t : t = FlattenSeq(SubSeq(F, 1, k))
    OBVIOUS
  <2>3. PICK u : u = FlattenSeq(SubSeq(F, 1, k - 1))
    OBVIOUS
  <2>4. PICK field : field = F[k]
    OBVIOUS
  <2>5. 1 \in 1 .. Len(F) /\ k \in 1 .. Len(F) /\ k - 1 = c
    BY <2>1
  <2>6. field \in Texts
    BY <2>4, <2>5, ElementOfSeq
  <2>7. t = u \o field /\ t \in Texts /\ u \in Texts
    BY <2>2, <2>3, <2>4, <2>5, FlattenMore
  <2>8. Len(t) = Len(u) + Len(field) /\ Len(t) \in Nat /\ Len(u) \in Nat
        /\ Len(field) \in Nat
    BY <2>6, <2>7, ConcatLength
  <2>9. Begin(F, c + 1) = Len(t) + k /\ Begin(F, c) = Len(u) + c
    BY <2>1, <2>2, <2>3, <2>5 DEF Begin
  <2>10. Begin(F, c + 1) = Begin(F, c) + Len(field) + 1
    BY <2>1, <2>8, <2>9
  <2>11. Begin(F, c) \in Nat /\ Begin(F, c + 1) \in Nat
    BY <2>1, <2>8, <2>9
  <2>12. field = F[c + 1]
    BY <2>1, <2>4
  <2> QED BY <2>10, <2>11, <2>12, Zenon
<1>3. Begin(F, 4) = Len(FlattenSeq(F)) + 4
  <2>1. SubSeq(F, 1, 4) = F
    BY SubSeqFull
  <2> QED BY <2>1 DEF Begin
<1>4. ASSUME NEW c \in 0 .. 4
      PROVE  Begin(F, c) \in Nat
  <2>1. CASE c \in 0 .. 3
    BY <1>2, <2>1
  <2>2. CASE c = 4
    <3>1. Begin(F, 3 + 1) \in Nat
      BY <1>2
    <3> QED BY <2>2, <3>1
  <2> QED BY <2>1, <2>2
<1> QED BY <1>1, <1>2, <1>3, <1>4

(* The places of a block after p have the same block.                      *)
LEMMA SameBlock ==
  ASSUME NEW p \in Nat, NEW i \in 1 .. 16 - (p % 16)
  PROVE  /\ p % 16 \in 0 .. 15
         /\ (p + i - 1) % 16 = (p % 16) + i - 1
         /\ (p + i - 1) - ((p + i - 1) % 16) = p - (p % 16)
OBVIOUS

(* What crd_find finds: the first zero, or the end.                        *)
LEMMA FindFacts ==
  ASSUME NEW S, NEW s \in Seq(S), NEW n \in 0 .. Len(s),
         \A i \in 1 .. n : s[i] # 0, n < Len(s) => s[n + 1] = 0
  PROVE  crd_find(s) = n
<1> DEFINE zeros == {i \in 1 .. Len(s) : s[i] = 0}
<1>1. CASE n = Len(s)
  BY <1>1 DEF crd_find
<1>2. CASE n < Len(s)
  <2>1. n + 1 \in zeros /\ \A j \in zeros : n + 1 <= j
    BY <1>2
  <2>2. \A i \in zeros : (\A j \in zeros : i <= j) => i = n + 1
    BY <2>1
  <2> DEFINE first == CHOOSE i \in zeros : \A j \in zeros : i <= j
  <2>3. first \in zeros /\ \A j \in zeros : first <= j
    BY <2>1
  <2>4. crd_find(s) = first - 1
    BY <2>1 DEF crd_find
  <2> HIDE DEF first, zeros
  <2>5. first = n + 1
    BY <2>2, <2>3
  <2> QED BY <2>4, <2>5
<1> QED BY <1>1, <1>2

(* What CRD_apply finds of a block at place p of the text.                  *)
Rest(l, o, p) ==
  SubSeq(Block(Copy(l), Loaded(Copy(l), o).encrypt, p - (p % 16)),
         (p % 16) + 1, 16)

(* The text of a record is what ListsAssumption and CipherAssumption say.  *)
LEMMA TextField ==
  ASSUME NEW l \in 1 .. Len(Lists), NEW o \in Records(l),
         NEW F, F = FieldsOf(l, o),
         NEW c \in 0 .. 3, NEW field, field = F[c + 1],
         NEW k \in 0 .. Len(field)
  PROVE  TextByte(l, o, Begin(F, c) + k)
           = IF k < Len(field) THEN field[k + 1] ELSE 0
BY CipherAssumption DEF FieldsOf, CRD_USER, CRD_SUBMIT

(* Zero ends a field, so it is none of its characters.                     *)
LEMMA NoCharacter == 0 \notin Characters /\ Characters \subseteq Nat
BY DEF Characters

(* What is left of a block from place r on.                                *)
LEMMA RestFacts ==
  ASSUME NEW block, NEW r \in 0 .. 15
  PROVE  \E S : /\ SubSeq(block, r + 1, 16) \in Seq(S)
                /\ Len(SubSeq(block, r + 1, 16)) = 16 - r
                /\ \A i \in 1 .. 16 - r :
                     SubSeq(block, r + 1, 16)[i] = block[r + i]
<1> PICK rest : rest = SubSeq(block, r + 1, 16)
  OBVIOUS
<1> PICK room : room = 16 - r
  OBVIOUS
<1>1. PICK S : S = {block[i] : i \in r + 1 .. 16}
  OBVIOUS
<1>2. r + 1 \in Int /\ 16 \in Int /\ \A i \in r + 1 .. 16 : block[i] \in S
  BY <1>1
<1>3. PICK a : a = r + 1
  OBVIOUS
<1>4. /\ rest \in Seq(S)
      /\ Len(rest) = IF a <= 16 THEN 16 - a + 1 ELSE 0
      /\ \A i \in 1 .. 16 - a + 1 : rest[i] = block[a + i - 1]
  BY <1>2, <1>3, SubSeqProperties
<1>5. a <= 16 /\ 16 - a + 1 = room /\ \A i \in 1 .. room : a + i - 1 = r + i
  BY <1>3
<1> QED BY <1>4, <1>5


(* What is left of a block is the text from p on.                          *)
LEMMA RestText ==
  ASSUME NEW l, NEW o, NEW p \in Nat
  PROVE  \E S, room : /\ room = 16 - (p % 16) /\ room \in 1 .. 16
                      /\ Rest(l, o, p) \in Seq(S) /\ Len(Rest(l, o, p)) = room
                      /\ \A i \in 1 .. room :
                           Rest(l, o, p)[i] = TextByte(l, o, p + i - 1)
<1>1. PICK r : r = p % 16
  OBVIOUS
<1>2. PICK block : block = Block(Copy(l), Loaded(Copy(l), o).encrypt, p - r)
  OBVIOUS
<1>3. PICK rest : rest = Rest(l, o, p)
  OBVIOUS
<1>4. PICK room : room = 16 - r
  OBVIOUS
<1>5. r \in 0 .. 15 /\ room \in 1 .. 16
  BY <1>1, <1>4
<1>6. rest = SubSeq(block, r + 1, 16)
  BY <1>1, <1>2, <1>3 DEF Rest
<1>7. PICK S : /\ rest \in Seq(S) /\ Len(rest) = room
               /\ \A i \in 1 .. room : rest[i] = block[r + i]
  <2>1. PICK S : /\ SubSeq(block, r + 1, 16) \in Seq(S)
                 /\ Len(SubSeq(block, r + 1, 16)) = 16 - r
                 /\ \A i \in 1 .. 16 - r :
                      SubSeq(block, r + 1, 16)[i] = block[r + i]
    BY <1>5, RestFacts, Zenon
  <2> QED BY <1>4, <1>6, <2>1, Zenon
<1>8. ASSUME NEW i \in 1 .. room
      PROVE  rest[i] = TextByte(l, o, p + i - 1)
  <2>1. PICK q : q = p + i - 1
    OBVIOUS
  <2>2. q % 16 = r + i - 1 /\ q - (q % 16) = p - r
    BY <1>1, <1>4, <2>1, SameBlock
  <2>3. (q % 16) + 1 = r + i
    BY <1>5, <2>2
  <2>4. TextByte(l, o, q) = block[r + i]
    BY <1>2, <2>2, <2>3 DEF TextByte
  <2>5. rest[i] = block[r + i]
    BY <1>7
  <2> QED BY <2>1, <2>4, <2>5
<1> QED BY <1>1, <1>3, <1>4, <1>5, <1>7, <1>8

(* rest is what follows the first d characters of a field, with its zero.  *)
Shows(rest, field, d) ==
  \A i \in 1 .. Len(rest) :
    d + i - 1 <= Len(field)
    => rest[i] = IF d + i - 1 < Len(field) THEN field[d + i] ELSE 0

(* And the text is that of the fields.                                     *)
LEMMA RestShows ==
  ASSUME NEW l \in 1 .. Len(Lists), NEW o \in Records(l),
         NEW F, F = FieldsOf(l, o),
         NEW c \in 0 .. 3, NEW d \in 0 .. Len(F[c + 1])
  PROVE  Shows(Rest(l, o, Begin(F, c) + d), F[c + 1], d)
<1>1. PICK b : b = Begin(F, c)
  OBVIOUS
<1>2. PICK field : field = F[c + 1]
  OBVIOUS
<1>3. /\ F \in Seq(Texts) /\ Len(F) = 4 /\ field \in Seq(Characters)
  BY <1>2, FieldsType
<1>4. PICK n : n = Len(field)
  OBVIOUS
<1>5. n \in Nat /\ b \in Nat
  <2>1. c \in 0 .. 4
    OBVIOUS
  <2>2. Begin(F, c) \in Nat
    BY <1>3, <2>1, BeginFacts, Zenon
  <2>3. Len(field) \in Nat
    BY <1>3, LenProperties, Zenon
  <2> QED BY <1>1, <1>4, <2>2, <2>3, Zenon
<1>6. PICK p : p = b + d
  OBVIOUS
<1>7. d \in 0 .. n
  BY <1>2, <1>4
<1>8. p \in Nat
  BY <1>5, <1>6, <1>7
<1>9. PICK rest : rest = Rest(l, o, p)
  OBVIOUS
<1>10. PICK room : /\ Len(rest) = room /\ room \in 1 .. 16
                   /\ \A i \in 1 .. room : rest[i] = TextByte(l, o, p + i - 1)
  <2>1. PICK S, e : /\ e = 16 - (p % 16) /\ e \in 1 .. 16
                    /\ Rest(l, o, p) \in Seq(S) /\ Len(Rest(l, o, p)) = e
                    /\ \A i \in 1 .. e :
                         Rest(l, o, p)[i] = TextByte(l, o, p + i - 1)
    BY <1>8, RestText, Zenon
  <2> QED BY <1>9, <2>1, Zenon
<1>11. ASSUME NEW i \in 1 .. Len(rest), d + i - 1 <= n
       PROVE  rest[i] = IF d + i - 1 < n THEN field[d + i] ELSE 0
  <2>1. PICK k : k = d + i - 1
    OBVIOUS
  <2>2. k \in 0 .. n /\ p + i - 1 = b + k /\ k + 1 = d + i
    <3>1. i \in Nat \ {0}
      <4>1. Len(rest) \in 1 .. 16 /\ i \in 1 .. Len(rest)
        BY <1>10, <1>11, Zenon
      <4>2. PICK e : e = Len(rest)
        OBVIOUS
      <4> QED BY <4>1, <4>2
    <3> QED BY <1>5, <1>6, <1>7, <1>11, <2>1, <3>1
  <2>3. TextByte(l, o, b + k) = IF k < n THEN field[k + 1] ELSE 0
    BY <1>1, <1>2, <1>4, <2>2, TextField
  <2>4. rest[i] = TextByte(l, o, b + k)
    BY <1>10, <2>2
  <2> QED BY <2>1, <2>2, <2>3, <2>4
<1>12. Shows(rest, field, d)
  BY <1>4, <1>11 DEF Shows
<1> QED BY <1>1, <1>2, <1>6, <1>9, <1>12

Cut(rest, field, d) ==
  IF Len(field) - d < Len(rest) THEN Len(field) - d ELSE Len(rest)

(* The piece of a field that crd_find cuts off, from d on.                 *)
LEMMA CutFacts ==
  ASSUME NEW S, NEW rest \in Seq(S), NEW field \in Seq(Characters),
         NEW d \in 0 .. Len(field), Shows(rest, field, d)
  PROVE  /\ crd_find(rest) = Cut(rest, field, d)
         /\ SubSeq(rest, 1, Cut(rest, field, d))
              = SubSeq(field, d + 1, d + Cut(rest, field, d))
<1> PICK room : room = Len(rest)
  OBVIOUS
<1> PICK n : n = Len(field)
  OBVIOUS
<1> PICK m : m = Cut(rest, field, d)
  OBVIOUS
<1>0. room \in Nat /\ n \in Nat /\ d \in 0 .. n
      /\ m = IF n - d < room THEN n - d ELSE room
  BY DEF Cut
<1>1. m \in 0 .. room /\ d + m \in 0 .. n
  BY <1>0
<1>7. ASSUME NEW i \in 1 .. room, d + i - 1 <= n
      PROVE  rest[i] = IF d + i - 1 < n THEN field[d + i] ELSE 0
  BY <1>7 DEF Shows
<1>2. ASSUME NEW i \in 1 .. n
      PROVE  field[i] # 0 /\ field[i] \in Characters
  <2>1. field[i] \in Characters
    BY <1>2, ElementOfSeq
  <2> QED BY <2>1, NoCharacter
<1>3. ASSUME NEW i \in 1 .. m
      PROVE  rest[i] = field[d + i] /\ rest[i] # 0 /\ rest[i] \in Characters
  <2>1. i \in 1 .. room /\ d + i - 1 <= n /\ d + i - 1 < n /\ d + i \in 1 .. n
    BY <1>0, <1>1
  <2>2. rest[i] = field[d + i]
    BY <1>7, <2>1
  <2> QED BY <1>2, <2>1, <2>2
<1>4. m < room => rest[m + 1] = 0
  <2>1. SUFFICES ASSUME m < room PROVE rest[m + 1] = 0
    OBVIOUS
  <2>2. PICK k : k = m + 1
    OBVIOUS
  <2>3. k \in 1 .. room /\ d + k - 1 = n /\ d + k - 1 <= n /\ ~ (d + k - 1 < n)
    BY <1>0, <2>1, <2>2
  <2>4. rest[k] = IF d + k - 1 < n THEN field[d + k] ELSE 0
    BY <1>7, <2>3, Zenon
  <2> QED BY <2>2, <2>3, <2>4, Zenon
<1>5. crd_find(rest) = m
  <2>2. m < Len(rest) => rest[m + 1] = 0
    BY <1>4
  <2>3. m \in 0 .. Len(rest)
    BY <1>1
  <2>4. \A i \in 1 .. m : rest[i] # 0
    BY <1>3
  <2> QED BY <2>2, <2>3, <2>4, FindFacts
<1>6. SubSeq(rest, 1, m) = SubSeq(field, d + 1, d + m)
  <2>1. /\ SubSeq(rest, 1, m) \in Seq(Characters)
        /\ Len(SubSeq(rest, 1, m)) = m
        /\ \A i \in 1 .. m : SubSeq(rest, 1, m)[i] = rest[i]
    <3>1. m \in Int /\ 1 \in Int /\ \A i \in 1 .. m : rest[i] \in Characters
      BY <1>1, <1>3
    <3>2. /\ SubSeq(rest, 1, m) \in Seq(Characters)
          /\ Len(SubSeq(rest, 1, m)) = IF 1 <= m THEN m - 1 + 1 ELSE 0
          /\ \A i \in 1 .. m - 1 + 1 : SubSeq(rest, 1, m)[i] = rest[1 + i - 1]
      BY <3>1, SubSeqProperties
    <3> QED BY <1>1, <3>2
  <2>2. /\ SubSeq(field, d + 1, d + m) \in Seq(Characters)
        /\ Len(SubSeq(field, d + 1, d + m)) = m
        /\ \A i \in 1 .. m : SubSeq(field, d + 1, d + m)[i] = field[d + i]
    <3> PICK a : a = d + 1
      OBVIOUS
    <3> PICK b : b = d + m
      OBVIOUS
    <3>1. a \in Int /\ b \in Int /\ \A i \in a .. b : field[i] \in Characters
      BY <1>1, <1>2
    <3>2. /\ SubSeq(field, a, b) \in Seq(Characters)
          /\ Len(SubSeq(field, a, b)) = IF a <= b THEN b - a + 1 ELSE 0
          /\ \A i \in 1 .. b - a + 1 : SubSeq(field, a, b)[i] = field[a + i - 1]
      BY <3>1, SubSeqProperties
    <3>3. b - a + 1 = m /\ \A i \in 1 .. m : a + i - 1 = d + i
      BY <1>1
    <3>4. m >= 0 /\ (a <= b <=> m > 0) /\ 1 .. b - a + 1 = 1 .. m
      BY <1>1, <3>3
    <3>5. Len(SubSeq(field, a, b)) = m
      <4>1. (IF a <= b THEN b - a + 1 ELSE 0) = m
        BY <1>1
      <4> QED BY <3>2, <4>1, Zenon
    <3>6. \A i \in 1 .. m : SubSeq(field, a, b)[i] = field[d + i]
      <4>1. \A i \in 1 .. m : SubSeq(field, a, b)[i] = field[a + i - 1]
        BY <3>2, <3>4, Zenon
      <4> QED BY <3>3, <4>1, Zenon
    <3> QED BY <3>2, <3>5, <3>6, Zenon
  <2> QED BY <1>3, <2>1, <2>2, SeqEqual
<1> QED BY <1>5, <1>6

(* CRD_apply finds, of a field d characters of which were typed, the rest, *)
(* or as much of it as the block has room for.                             *)
IsPiece(rest, l, o, c, d, field, p) ==
  /\ l \in 1 .. Len(Lists) /\ o \in Records(l) /\ c \in 0 .. 3
  /\ field = FieldsOf(l, o)[c + 1] /\ d \in 0 .. Len(field)
  /\ p = Begin(FieldsOf(l, o), c) + d /\ rest = Rest(l, o, p)

LEMMA PieceFacts ==
  ASSUME NEW rest, NEW l, NEW o, NEW c, NEW d, NEW field, NEW p,
         IsPiece(rest, l, o, c, d, field, p)
  PROVE  /\ Len(rest) \in 1 .. 16 /\ Len(field) \in Nat
         /\ Len(rest) = 16 - (p % 16)
         /\ crd_find(rest) = Cut(rest, field, d)
         /\ SubSeq(rest, 1, crd_find(rest))
              = SubSeq(field, d + 1, d + crd_find(rest))
<1>0. PICK F : F = FieldsOf(l, o)
  OBVIOUS
<1>1. /\ l \in 1 .. Len(Lists) /\ o \in Records(l) /\ c \in 0 .. 3
      /\ field = F[c + 1] /\ d \in 0 .. Len(field)
      /\ p = Begin(F, c) + d /\ rest = Rest(l, o, p)
  BY <1>0 DEF IsPiece
<1>2. field \in Seq(Characters) /\ F \in Seq(Texts) /\ Len(F) = 4
  BY <1>0, <1>1, FieldsType
<1>3. PICK n : n = Len(field)
  OBVIOUS
<1>4. n \in Nat /\ Begin(F, c) \in Nat /\ d \in 0 .. n
  <2>1. c \in 0 .. 4
    BY <1>1
  <2>2. Begin(F, c) \in Nat
    BY <1>2, <2>1, BeginFacts, Zenon
  <2>3. Len(field) \in Nat
    BY <1>2, LenProperties, Zenon
  <2> QED BY <1>1, <1>3, <2>2, <2>3, Zenon
<1>5. p \in Nat
  BY <1>1, <1>4
<1>6. rest = Rest(l, o, p)
  BY <1>1
<1>7. PICK S, room : /\ room = 16 - (p % 16) /\ room \in 1 .. 16
                     /\ rest \in Seq(S) /\ Len(rest) = room
  BY <1>5, <1>6, RestText
<1>8. Shows(rest, field, d)
  BY <1>0, <1>1, RestShows
<1>9. PICK m : m = Cut(rest, field, d)
  OBVIOUS
<1>10. crd_find(rest) = m /\ SubSeq(rest, 1, m) = SubSeq(field, d + 1, d + m)
  BY <1>1, <1>2, <1>7, <1>8, <1>9, CutFacts
<1> QED BY <1>1, <1>3, <1>4, <1>7, <1>9, <1>10

(* position wraps only at its limit.                                       *)
LEMMA SmallRemainder ==
  ASSUME NEW M \in Nat \ {0}, NEW x \in 0 .. M - 1
  PROVE  x % M = x
OBVIOUS

(* A host reads the characters that are typed, and nothing for a zero.     *)
LEMMA KeysRead ==
  ASSUME NEW s \in Seq(Characters)
  PROVE  Keys(s) = s
<1>1. s \in Texts
  <2>1. Characters \subseteq Nat
    BY NoCharacter
  <2>2. Seq(Characters) \subseteq Seq(Nat)
    BY <2>1, SeqSub
  <2> QED BY <2>2 DEF Texts
<1>2. PICK n : n = Len(s)
  OBVIOUS
<1>3. ASSUME NEW i \in 1 .. n
      PROVE  HostReads(print_pressKey(s[i])) = <<s[i]>>
  <2>1. s[i] \in Characters
    BY <1>2, ElementOfSeq
  <2> QED BY <2>1, EachIsRead
<1>4. [i \in 1 .. n |-> HostReads(print_pressKey(s[i]))]
        = [i \in 1 .. n |-> <<s[i]>>]
  BY <1>3, Zenon
<1> QED BY <1>1, <1>2, <1>4, FlattenSingle DEF Keys

LEMMA NoKey == Keys(<<0>>) = <<>>
<1>1. PICK s : s = <<<<>>>>
  OBVIOUS
<1>2. s \in Seq(Texts) /\ Len(s) = 1 /\ s[1] = <<>>
  BY <1>1 DEF Texts
<1>3. [i \in 1 .. Len(<<0>>) |-> HostReads(print_pressKey(<<0>>[i]))] = s
  <2>1. PICK none : none = HostReads(print_pressKey(0))
    OBVIOUS
  <2>2. none = <<>>
    BY <2>1, EachIsRead
  <2>3. \A i \in 1 .. 1 : HostReads(print_pressKey(<<0>>[i])) = none
    <3>1. ASSUME NEW i \in 1 .. 1 PROVE <<0>>[i] = 0
      OBVIOUS
    <3> QED BY <2>1, <3>1, Zenon
  <2>4. Len(<<0>>) = 1
    OBVIOUS
  <2>5. [i \in 1 .. 1 |-> HostReads(print_pressKey(<<0>>[i]))]
          = [i \in 1 .. 1 |-> none]
    BY <2>3, Zenon
  <2>6. [i \in 1 .. 1 |-> none] = <<none>>
    OBVIOUS
  <2> QED BY <1>1, <2>2, <2>4, <2>5, <2>6, Zenon
<1>4. FlattenSeq(SubSeq(s, 1, 1)) = FlattenSeq(SubSeq(s, 1, 0)) \o s[1]
  <2>1. 1 \in 1 .. Len(s) /\ 1 - 1 = 0
    BY <1>2
  <2>2. FlattenSeq(SubSeq(s, 1, 1)) = FlattenSeq(SubSeq(s, 1, 1 - 1)) \o s[1]
    BY <1>2, <2>1, FlattenMore
  <2> QED BY <2>1, <2>2
<1>5. FlattenSeq(SubSeq(s, 1, 0)) = <<>>
  BY <1>2, FlattenNone
<1>6. SubSeq(s, 1, 1) = s
  BY <1>2
<1>7. <<>> \o <<>> = <<>>
  OBVIOUS
<1>8. Keys(<<0>>) = FlattenSeq(s)
  BY <1>3, Zenon DEF Keys
<1> QED BY <1>2, <1>4, <1>5, <1>6, <1>7, <1>8, Zenon

(* What has been typed when d characters of field c were looked at.        *)
Typed(F, c, start, d) ==
  FlattenSeq(SubSeq(F, start + 1, c))
    \o (IF c >= start THEN SubSeq(F[c + 1], 1, d) ELSE <<>>)

(* What the fields before the one that is typed add up to.                 *)
LEMMA TypedTypes ==
  ASSUME NEW F \in Seq(Texts), Len(F) = 4,
         NEW c \in 0 .. 4, NEW start \in 0 .. 3
  PROVE  FlattenSeq(SubSeq(F, start + 1, c)) \in Texts
<1>1. PICK a : a = start + 1
  OBVIOUS
<1>2. CASE c < a
  <2>1. a \in 1 .. Len(F) + 1 /\ c \in Int
    BY <1>1
  <2>2. FlattenSeq(SubSeq(F, a, c)) = <<>>
    BY <1>2, <2>1, FlattenNone
  <2>3. <<>> \in Texts
    BY DEF Texts
  <2> QED BY <1>1, <2>2, <2>3
<1>3. CASE ~ (c < a)
  <2>1. a \in 1 .. Len(F) /\ c \in a .. Len(F)
    BY <1>1, <1>3
  <2> QED BY <1>1, <2>1, FlattenMore
<1> QED BY <1>2, <1>3

LEMMA TypedNone ==
  ASSUME NEW F \in Seq(Texts), Len(F) = 4,
         NEW c \in 0 .. 3, NEW start \in 0 .. 3
  PROVE  Typed(F, c, start, 0) = FlattenSeq(SubSeq(F, start + 1, c))
<1>1. PICK t : t = FlattenSeq(SubSeq(F, start + 1, c))
  OBVIOUS
<1>2. t \in Texts
  BY <1>1, TypedTypes
<1>3. SubSeq(F[c + 1], 1, 0) = <<>>
  <2>1. c + 1 \in 1 .. Len(F)
    OBVIOUS
  <2>2. F[c + 1] \in Texts
    BY <2>1, ElementOfSeq
  <2> QED BY <2>2 DEF Texts
<1>4. t \o <<>> = t
  BY <1>2, ConcatEmptySeq DEF Texts
<1>5. Typed(F, c, start, 0) = t \o <<>>
  BY <1>1, <1>3 DEF Typed
<1> QED BY <1>1, <1>4, <1>5

(* Nothing is typed before the first piece.                                *)
LEMMA TypedStart ==
  ASSUME NEW F \in Seq(Texts), Len(F) = 4, NEW start \in 0 .. 3
  PROVE  Typed(F, 0, start, 0) = <<>>
<1>1. PICK a : a = start + 1
  OBVIOUS
<1>2. a \in 1 .. Len(F) + 1 /\ 0 \in Int /\ 0 < a
  BY <1>1
<1>3. FlattenSeq(SubSeq(F, a, 0)) = <<>>
  BY <1>2, FlattenNone
<1> QED BY <1>1, <1>3, TypedNone

(* Three texts in one.                                                     *)
LEMMA Regroup ==
  ASSUME NEW s \in Texts, NEW t \in Texts, NEW u \in Texts
  PROVE  (s \o t) \o u = s \o (t \o u)
BY ConcatAssociative DEF Texts

(* m more characters of the field.                                         *)
More(F, c, start, d, m) ==
  IF c >= start THEN SubSeq(F[c + 1], d + 1, d + m) ELSE <<>>

LEMMA TypedMore ==
  ASSUME NEW F \in Seq(Texts), Len(F) = 4,
         NEW c \in 0 .. 3, NEW start \in 0 .. 3,
         NEW d \in Nat, NEW m \in Nat, d + m <= Len(F[c + 1])
  PROVE  Typed(F, c, start, d) \o More(F, c, start, d, m)
           = Typed(F, c, start, d + m)
<1> PICK more : more = More(F, c, start, d, m)
  OBVIOUS
<1>1. PICK t : t = FlattenSeq(SubSeq(F, start + 1, c))
  OBVIOUS
<1>2. t \in Texts
  BY <1>1, TypedTypes
<1>3. PICK field : field = F[c + 1]
  OBVIOUS
<1>4. field \in Texts
  <2>1. c + 1 \in 1 .. Len(F)
    OBVIOUS
  <2> QED BY <1>3, <2>1, ElementOfSeq
<1>5. CASE c >= start
  <2>1. PICK e : e = d + m
    OBVIOUS
  <2>2. /\ 1 \in 1 .. Len(field) + 1
        /\ d \in 1 - 1 .. Len(field) /\ e \in d .. Len(field)
    BY <1>3, <1>4, <2>1 DEF Texts
  <2>3. SubSeq(field, 1, d) \o SubSeq(field, d + 1, e) = SubSeq(field, 1, e)
    BY <1>4, <2>2, ConcatAdjacentSubSeq DEF Texts
  <2>4. SubSeq(field, 1, d) \in Seq(Nat) /\ SubSeq(field, d + 1, e) \in Seq(Nat)
    <3>1. d + 1 \in 1 .. Len(field) + 1 /\ e \in (d + 1) - 1 .. Len(field)
      BY <2>2
    <3> QED BY <1>4, <2>2, <3>1, SubSeqFacts DEF Texts
  <2>5. (t \o SubSeq(field, 1, d)) \o SubSeq(field, d + 1, e)
          = t \o SubSeq(field, 1, e)
    <3>1. PICK u : u = SubSeq(field, 1, d)
      OBVIOUS
    <3>2. PICK v : v = SubSeq(field, d + 1, e)
      OBVIOUS
    <3>3. t \in Texts /\ u \in Texts /\ v \in Texts
      BY <1>2, <2>4, <3>1, <3>2 DEF Texts
    <3>4. (t \o u) \o v = t \o (u \o v)
      BY <3>3, Regroup
    <3> QED BY <2>3, <3>1, <3>2, <3>4, Zenon
  <2>6. more = SubSeq(field, d + 1, e)
    BY <1>3, <1>5, <2>1 DEF More
  <2>7. Typed(F, c, start, d) = t \o SubSeq(field, 1, d)
        /\ Typed(F, c, start, d + m) = t \o SubSeq(field, 1, e)
    BY <1>1, <1>3, <1>5, <2>1 DEF Typed
  <2> QED BY <2>5, <2>6, <2>7
<1>6. CASE ~ (c >= start)
  <2>1. more = <<>> /\ Typed(F, c, start, d) = t \o <<>>
        /\ Typed(F, c, start, d + m) = t \o <<>>
    BY <1>1, <1>6 DEF Typed, More
  <2>2. t \o <<>> = t
    BY <1>2, ConcatEmptySeq DEF Texts
  <2> QED BY <2>1, <2>2
<1> QED BY <1>5, <1>6

(* All characters of the field.                                            *)
LEMMA TypedField ==
  ASSUME NEW F \in Seq(Texts), Len(F) = 4,
         NEW c \in 0 .. 3, NEW start \in 0 .. 3
  PROVE  Typed(F, c, start, Len(F[c + 1]))
           = FlattenSeq(SubSeq(F, start + 1, c + 1))
<1>1. PICK k : k = c + 1
  OBVIOUS
<1>2. k \in 1 .. Len(F) /\ k - 1 = c
  BY <1>1
<1>3. PICK field : field = F[k]
  OBVIOUS
<1>4. field \in Texts
  BY <1>2, <1>3, ElementOfSeq
<1>5. PICK a : a = start + 1
  OBVIOUS
<1>6. SubSeq(field, 1, Len(field)) = field
  BY <1>4, SubSeqFull DEF Texts
<1>7. CASE c >= start
  <2>1. a \in 1 .. Len(F) /\ k \in a .. Len(F)
    BY <1>1, <1>5, <1>7
  <2>2. FlattenSeq(SubSeq(F, a, k)) = FlattenSeq(SubSeq(F, a, k - 1)) \o F[k]
    BY <2>1, FlattenMore
  <2> QED BY <1>1, <1>2, <1>3, <1>5, <1>6, <1>7, <2>2 DEF Typed
<1>8. CASE ~ (c >= start)
  <2>1. a \in 1 .. Len(F) + 1
    BY <1>5
  <2>2. CASE k < a
    <3>1. k \in Int /\ c \in Int /\ c < a
      BY <1>1, <1>5, <2>2
    <3>2. /\ FlattenSeq(SubSeq(F, a, k)) = <<>>
          /\ FlattenSeq(SubSeq(F, a, c)) = <<>>
      BY <2>1, <2>2, <3>1, FlattenNone
    <3>3. Typed(F, c, start, Len(F[c + 1])) = <<>> \o <<>>
      BY <1>5, <1>8, <3>2 DEF Typed
    <3> QED BY <1>1, <1>5, <3>2, <3>3
  <2>3. ~ (k < a) => FALSE
    BY <1>1, <1>5, <1>8
  <2> QED BY <2>2, <2>3
<1> QED BY <1>7, <1>8

------------------------------------------------------------------------------
(* A call of CRD_apply.                                                    *)

(* d characters of field counter were looked at, and what they type was    *)
(* read; the block that position is in is decrypted.                       *)
Reached(F, d) ==
  /\ d \in 0 .. Len(F[counter + 1])
  /\ position = Begin(F, counter) + d
  /\ position % 16 # 0
     => plain = Block(flash, credential.encrypt, position - (position % 16))
  /\ typed = Typed(F, counter, crdStart, d)

TextInv ==
  pc = "typing" /\ history.exact =>
    LET F == FieldsOf(flash[0], credential.name)
    IN /\ Whole
       /\ crdStart \in 0 .. 3 /\ crdStop \in 1 .. 4 /\ crdStart < crdStop
       /\ \/ counter \in 0 .. crdStop - 1 /\ \E d : Reached(F, d)
          \/ /\ counter = crdStop
             /\ typed = FlattenSeq(SubSeq(F, crdStart + 1, crdStop))

(* All the text of a record can be counted.                                *)
LEMMA BeginBound ==
  ASSUME NEW l \in 1 .. Len(Lists), NEW o \in Records(l),
         NEW F, F = FieldsOf(l, o),
         NEW c \in 0 .. 3
  PROVE  /\ Begin(F, c) \in Nat /\ Len(F[c + 1]) \in Nat
         /\ Begin(F, c) + Len(F[c + 1]) < PositionSize
         /\ Begin(F, c + 1) = Begin(F, c) + Len(F[c + 1]) + 1
         /\ c + 1 <= 3 => Begin(F, c + 1) < PositionSize
<1>1. F \in Seq(Texts) /\ Len(F) = 4 /\ Len(FlattenSeq(F)) + 4 <= PositionSize
  BY FieldsType
<1>2. PICK b0 : b0 = Begin(F, 0)
  OBVIOUS
<1>3. PICK b1 : b1 = Begin(F, 1)
  OBVIOUS
<1>4. PICK b2 : b2 = Begin(F, 2)
  OBVIOUS
<1>5. PICK b3 : b3 = Begin(F, 3)
  OBVIOUS
<1>6. PICK b4 : b4 = Begin(F, 4)
  OBVIOUS
<1>7. \A i \in 0 .. 3 : Len(F[i + 1]) \in Nat
  <2>1. ASSUME NEW i \in 0 .. 3 PROVE Len(F[i + 1]) \in Nat
    <3>1. F[i + 1] \in Seq(Characters)
      BY FieldsType, Zenon
    <3> QED BY <3>1, LenProperties
  <2> QED BY <2>1
<1>8. /\ b0 = 0 /\ b1 = b0 + Len(F[1]) + 1 /\ b2 = b1 + Len(F[2]) + 1
      /\ b3 = b2 + Len(F[3]) + 1 /\ b4 = b3 + Len(F[4]) + 1
  <2>1. \A i \in 0 .. 3 : Begin(F, i + 1) = Begin(F, i) + Len(F[i + 1]) + 1
    BY <1>1, BeginFacts, Zenon
  <2>2. /\ Begin(F, 0 + 1) = Begin(F, 0) + Len(F[0 + 1]) + 1
        /\ Begin(F, 1 + 1) = Begin(F, 1) + Len(F[1 + 1]) + 1
        /\ Begin(F, 2 + 1) = Begin(F, 2) + Len(F[2 + 1]) + 1
        /\ Begin(F, 3 + 1) = Begin(F, 3) + Len(F[3 + 1]) + 1
    <3>1. 0 \in 0 .. 3 /\ 1 \in 0 .. 3 /\ 2 \in 0 .. 3 /\ 3 \in 0 .. 3
      OBVIOUS
    <3> QED BY <2>1, <3>1, Zenon
  <2>3. Begin(F, 0) = 0
    BY <1>1, BeginFacts, Zenon
  <2>4. 0 + 1 = 1 /\ 1 + 1 = 2 /\ 2 + 1 = 3 /\ 3 + 1 = 4
    OBVIOUS
  <2> QED BY <1>2, <1>3, <1>4, <1>5, <1>6, <2>2, <2>3, <2>4, Zenon
<1>9. b4 <= PositionSize
  <2>1. b4 = Len(FlattenSeq(F)) + 4
    BY <1>1, <1>6, BeginFacts, Zenon
  <2> QED BY <1>1, <2>1, Zenon
<1>10. PICK n1, n2, n3, n4 : /\ n1 = Len(F[1]) /\ n2 = Len(F[2])
                             /\ n3 = Len(F[3]) /\ n4 = Len(F[4])
  OBVIOUS
<1>11. n1 \in Nat /\ n2 \in Nat /\ n3 \in Nat /\ n4 \in Nat
  <2>1. 0 \in 0 .. 3 /\ 1 \in 0 .. 3 /\ 2 \in 0 .. 3 /\ 3 \in 0 .. 3
        /\ 0 + 1 = 1 /\ 1 + 1 = 2 /\ 2 + 1 = 3 /\ 3 + 1 = 4
    OBVIOUS
  <2>2. Len(F[0 + 1]) \in Nat /\ Len(F[1 + 1]) \in Nat /\ Len(F[2 + 1]) \in Nat
        /\ Len(F[3 + 1]) \in Nat
    BY <1>7, <2>1, Zenon
  <2> QED BY <1>10, <2>1, <2>2, Zenon
<1>12. /\ b0 = 0 /\ b1 = b0 + n1 + 1 /\ b2 = b1 + n2 + 1
       /\ b3 = b2 + n3 + 1 /\ b4 = b3 + n4 + 1
  BY <1>8, <1>10, Zenon
<1>13. /\ b0 \in Nat /\ b1 \in Nat /\ b2 \in Nat /\ b3 \in Nat
       /\ b0 + n1 < b4 /\ b1 + n2 < b4 /\ b2 + n3 < b4 /\ b3 + n4 < b4
       /\ b1 < b4 /\ b2 < b4 /\ b3 < b4
  BY <1>11, <1>12
<1>14. PositionSize \in Nat
  BY SizesAssumption
<1>15. /\ b0 + n1 < PositionSize /\ b1 + n2 < PositionSize
       /\ b2 + n3 < PositionSize /\ b3 + n4 < PositionSize
       /\ b1 < PositionSize /\ b2 < PositionSize /\ b3 < PositionSize
  BY <1>9, <1>11, <1>12, <1>13, <1>14
<1>16. c = 0 \/ c = 1 \/ c = 2 \/ c = 3
  OBVIOUS
<1>17. 0 + 1 = 1 /\ 1 + 1 = 2 /\ 2 + 1 = 3 /\ 3 + 1 = 4 /\ ~ (4 <= 3)
  OBVIOUS
<1> QED
  BY <1>2, <1>3, <1>4, <1>5, <1>6, <1>10, <1>11, <1>12, <1>13, <1>15, <1>16,
     <1>17, Zenon

(* Where the next piece begins, seen from the block of this one.           *)
LEMMA NextPlace ==
  ASSUME NEW p \in Nat, NEW room, room = 16 - (p % 16), NEW size \in 0 .. room
  PROVE  /\ \A q : /\ q = p + size + 1 /\ size < room /\ q % 16 # 0
                   => q - (q % 16) = p - (p % 16)
         /\ size = room => (p + size) % 16 = 0
OBVIOUS

(* What a call of CRD_apply does with a piece of this size.                *)
Calls(p, c, s, text, rest, size) ==
  /\ CRD_apply(p, c, s, text) /\ history'.exact
  /\ rest = SubSeq(Decrypted(p), (p % 16) + 1, 16) /\ size = crd_find(rest)

Results(block, text, shown, p, size, c, room) ==
  /\ plain' = block /\ typed' = text \o Keys(shown)
  /\ counter' = c + (IF size < room THEN 1 ELSE 0)
  /\ position' = Advance(p, size + (IF size < room THEN 1 ELSE 0))

LEMMA ApplyForm ==
  ASSUME NEW p, NEW c, NEW s, NEW text, NEW rest, NEW size,
         Calls(p, c, s, text, rest, size)
  PROVE  Results(Decrypted(p), text,
                 IF c >= s /\ size # 0 THEN SubSeq(rest, 1, size) ELSE <<0>>,
                 p, size, c, Len(rest))
BY DEF CRD_apply, Calls, Results

(* What the keys of a piece are read as.                                   *)
LEMMA PieceKeys ==
  ASSUME NEW field \in Seq(Characters), NEW d \in Nat, NEW size \in Nat,
         d + size <= Len(field), NEW rest,
         SubSeq(rest, 1, size) = SubSeq(field, d + 1, d + size), NEW c, NEW s
  PROVE  Keys(IF c >= s /\ size # 0 THEN SubSeq(rest, 1, size) ELSE <<0>>)
           = IF c >= s THEN SubSeq(field, d + 1, d + size) ELSE <<>>
<1>1. PICK piece : piece = SubSeq(field, d + 1, d + size)
  OBVIOUS
<1>2. piece \in Seq(Characters)
  <2>1. PICK a : a = d + 1
    OBVIOUS
  <2>2. PICK b : b = d + size
    OBVIOUS
  <2>3. a \in 1 .. Len(field) + 1 /\ b \in a - 1 .. Len(field)
    BY <2>1, <2>2
  <2> QED BY <1>1, <2>1, <2>2, <2>3, SubSeqFacts
<1>3. size = 0 => piece = <<>>
  BY <1>1
<1>4. Keys(piece) = piece /\ Keys(<<0>>) = <<>>
  BY <1>2, KeysRead, NoKey
<1>5. CASE c >= s /\ size # 0
  BY <1>1, <1>4, <1>5, Zenon
<1>6. CASE c >= s /\ size = 0
  BY <1>1, <1>3, <1>4, <1>6, Zenon
<1>7. CASE ~ (c >= s)
  BY <1>4, <1>7, Zenon
<1> QED BY <1>5, <1>6, <1>7

(* A call of CRD_apply with the record at o of list l, of whose field c    *)
(* d characters were looked at.                                            *)
Applies(l, o, c, s, d, p) ==
  LET F == FieldsOf(l, o)
  IN /\ flash = Copy(l) /\ credential = Loaded(flash, o)
     /\ d \in 0 .. Len(F[c + 1]) /\ p = Begin(F, c) + d
     /\ p % 16 # 0 => plain = Block(flash, credential.encrypt, p - (p % 16))
     /\ CRD_apply(p, c, s, Typed(F, c, s, d)) /\ history'.exact

Piece(F, c, s, d, p, size, room) ==
  /\ room = 16 - (p % 16)
  /\ size = IF Len(F[c + 1]) - d < room THEN Len(F[c + 1]) - d ELSE room
  /\ plain' = Block(flash, credential.encrypt, p - (p % 16))
  /\ typed' = Typed(F, c, s, d + size)
  /\ counter' = c + (IF size < room THEN 1 ELSE 0)
  /\ position' = Advance(p, size + (IF size < room THEN 1 ELSE 0))

(* Such a call types the rest of the field, or of the block.               *)
LEMMA ApplyTypes ==
  ASSUME NEW l \in 1 .. Len(Lists), NEW o \in Records(l),
         NEW F, F = FieldsOf(l, o),
         NEW c \in 0 .. 3, NEW s \in 0 .. 3, NEW d, NEW p,
         Applies(l, o, c, s, d, p)
  PROVE  \E size, room : Piece(F, c, s, d, p, size, room)
<1>1. PICK field : field = F[c + 1]
  OBVIOUS
<1>2. F \in Seq(Texts) /\ Len(F) = 4 /\ field \in Seq(Characters)
  BY <1>1, FieldsType
<1>3. Begin(F, c) \in Nat /\ Len(field) \in Nat
  BY <1>1, BeginBound, Zenon
<1>4. d \in 0 .. Len(field) /\ p = Begin(F, c) + d
  BY <1>1 DEF Applies
<1>5. p \in Nat
  BY <1>3, <1>4
<1>6. PICK block : block = Decrypted(p)
  OBVIOUS
<1>7. block = Block(flash, credential.encrypt, p - (p % 16))
  <2>1. CASE p % 16 # 0
    BY <1>6, <2>1 DEF Decrypted, Applies
  <2>2. CASE ~ (p % 16 # 0)
    <3>1. p - (p % 16) = p
      BY <1>5, <2>2
    <3>2. block = Block(flash, credential.encrypt, p)
      BY <1>6, <2>2 DEF Decrypted
    <3> QED BY <3>1, <3>2, Zenon
  <2> QED BY <2>1, <2>2
<1>8. PICK rest : rest = SubSeq(block, (p % 16) + 1, 16)
  OBVIOUS
<1>9. rest = Rest(l, o, p)
  <2>1. flash = Copy(l) /\ credential = Loaded(Copy(l), o)
    BY DEF Applies
  <2> QED BY <1>7, <1>8, <2>1, Zenon DEF Rest
<1>10. PICK size : size = crd_find(rest)
  OBVIOUS
<1>11. PICK room : room = Len(rest)
  OBVIOUS
<1>12. /\ room = 16 - (p % 16) /\ room \in 1 .. 16
       /\ size = Cut(rest, field, d)
       /\ SubSeq(rest, 1, size) = SubSeq(field, d + 1, d + size)
  <2>1. IsPiece(rest, l, o, c, d, field, p)
    BY <1>1, <1>4, <1>9 DEF IsPiece
  <2>2. /\ Len(rest) \in 1 .. 16
        /\ Len(rest) = 16 - (p % 16)
        /\ crd_find(rest) = Cut(rest, field, d)
        /\ SubSeq(rest, 1, crd_find(rest))
             = SubSeq(field, d + 1, d + crd_find(rest))
    BY <2>1, PieceFacts, Zenon
  <2> QED BY <1>10, <1>11, <2>2, Zenon
<1>13. size = IF Len(field) - d < room THEN Len(field) - d ELSE room
  BY <1>11, <1>12, Zenon DEF Cut
<1>14. size \in Nat /\ d \in Nat /\ d + size <= Len(field)
  <2>1. PICK n : n = Len(field)
    OBVIOUS
  <2>2. n \in Nat /\ d \in 0 .. n /\ size = IF n - d < room THEN n - d ELSE room
    BY <1>3, <1>4, <1>13, <2>1, Zenon
  <2>3. room \in 1 .. 16
    BY <1>12, Zenon
  <2>4. size \in Nat /\ d \in Nat /\ d + size <= n
    BY <2>2, <2>3
  <2> QED BY <2>1, <2>4, Zenon
<1>15. PICK more : more = More(F, c, s, d, size)
  OBVIOUS
<1>16. PICK shown : shown = IF c >= s /\ size # 0 THEN SubSeq(rest, 1, size)
                            ELSE <<0>>
  OBVIOUS
<1>17. Keys(shown) = more
  <2>1. more = IF c >= s THEN SubSeq(field, d + 1, d + size) ELSE <<>>
    BY <1>1, <1>15, Zenon DEF More
  <2> QED BY <1>2, <1>12, <1>14, <1>16, <2>1, PieceKeys
<1>18. PICK text : text = Typed(F, c, s, d)
  OBVIOUS
<1>19. Results(block, text, shown, p, size, c, room)
  <2>1. CRD_apply(p, c, s, text) /\ history'.exact
    BY <1>18 DEF Applies
  <2>2. Calls(p, c, s, text, rest, size)
    BY <1>6, <1>8, <1>10, <2>1, Zenon DEF Calls
  <2>3. Results(Decrypted(p), text,
                IF c >= s /\ size # 0 THEN SubSeq(rest, 1, size) ELSE <<0>>,
                p, size, c, Len(rest))
    BY <2>2, ApplyForm, Zenon
  <2> QED BY <1>6, <1>11, <1>16, <2>3, Zenon
<1>20. text \o more = Typed(F, c, s, d + size)
  <2>1. d + size <= Len(F[c + 1])
    BY <1>1, <1>14, Zenon
  <2>2. Typed(F, c, s, d) \o More(F, c, s, d, size) = Typed(F, c, s, d + size)
    BY <1>2, <1>14, <2>1, TypedMore, Zenon
  <2> QED BY <1>15, <1>18, <2>2, Zenon
<1> QED BY <1>1, <1>7, <1>12, <1>13, <1>17, <1>19, <1>20, Zenon
        DEF Piece, Results

(* So it comes to the next field, or to the next block.                    *)
LEMMA ApplyReaches ==
  ASSUME NEW l \in 1 .. Len(Lists), NEW o \in Records(l),
         NEW F, F = FieldsOf(l, o),
         NEW c \in 0 .. 3, NEW s \in 0 .. 3, NEW d, NEW p,
         Applies(l, o, c, s, d, p),
         flash' = flash, credential' = credential, crdStart' = s
  PROVE  \/ counter' = c /\ \E e : Reached(F, e)'
         \/ /\ counter' = c + 1 /\ (c + 1 <= 3 => Reached(F, 0)')
            /\ typed' = FlattenSeq(SubSeq(F, s + 1, c + 1))
<1>1. PICK n : n = Len(F[c + 1])
  OBVIOUS
<1>2. PICK size, room :
           /\ room = 16 - (p % 16)
           /\ size = IF n - d < room THEN n - d ELSE room
           /\ plain' = Block(flash, credential.encrypt, p - (p % 16))
           /\ typed' = Typed(F, c, s, d + size)
           /\ counter' = c + (IF size < room THEN 1 ELSE 0)
           /\ position' = Advance(p, size + (IF size < room THEN 1 ELSE 0))
  <2>1. PICK size, room : Piece(F, c, s, d, p, size, room)
    BY ApplyTypes, Zenon
  <2> QED BY <1>1, <2>1, Zenon DEF Piece
<1>3. F \in Seq(Texts) /\ Len(F) = 4
  BY FieldsType
<1>4. PICK b : b = Begin(F, c)
  OBVIOUS
<1>5. /\ b \in Nat /\ n \in Nat /\ b + n < PositionSize
      /\ Begin(F, c + 1) = b + n + 1
      /\ c + 1 <= 3 => Begin(F, c + 1) < PositionSize
  BY <1>1, <1>4, BeginBound, Zenon
<1>6. d \in 0 .. n /\ p = b + d /\ PositionSize \in Nat \ {0}
  BY <1>1, <1>4, SizesAssumption DEF Applies
<1>7. p \in Nat /\ p % 16 \in 0 .. 15 /\ room \in 1 .. 16
  <2>1. p \in Nat
    BY <1>5, <1>6
  <2>2. room = 16 - (p % 16)
    BY <1>2, Zenon
  <2> QED BY <2>1, <2>2
<1>8. /\ size \in 0 .. room /\ d + size \in 0 .. n /\ size \in Nat /\ d \in Nat
      /\ size < room => d + size = n
      /\ size = room \/ size < room
  <2>1. size = IF n - d < room THEN n - d ELSE room
    BY <1>2, Zenon
  <2>2. n \in Nat /\ d \in 0 .. n /\ room \in 1 .. 16
    BY <1>5, <1>6, <1>7, Zenon
  <2> QED BY <2>1, <2>2
<1>9. /\ room = 16 - (p % 16)
      /\ \A q : /\ q = p + size + 1 /\ size < room /\ q % 16 # 0
                => q - (q % 16) = p - (p % 16)
      /\ size = room => (p + size) % 16 = 0
  <2>1. room = 16 - (p % 16)
    BY <1>2, Zenon
  <2> QED BY <1>7, <1>8, <2>1, NextPlace, Zenon
<1>10. CASE size = room
  <2>1. counter' = c /\ position' = Advance(p, size)
    <3>1. counter' = c + 0 /\ position' = Advance(p, size + 0)
      <4>1. ~ (size < room)
        BY <1>7, <1>10
      <4> QED BY <1>2, <4>1, Zenon
    <3>2. c + 0 = c /\ size + 0 = size
      BY <1>8
    <3> QED BY <3>1, <3>2, Zenon
  <2>2. PICK q : q = p + size
    OBVIOUS
  <2>3. q \in 0 .. PositionSize - 1 /\ q = b + (d + size)
    BY <1>5, <1>6, <1>7, <1>8, <2>2
  <2>4. position' = q
    BY <1>6, <2>1, <2>2, <2>3, SmallRemainder DEF Advance
  <2>5. ~ (q % 16 # 0)
    BY <1>9, <1>10, <2>2, Zenon
  <2>6. PICK e : e = d + size
    OBVIOUS
  <2>7. Reached(F, e)'
    <3>1. e \in 0 .. n /\ typed' = Typed(F, c, s, e)
      BY <1>2, <1>8, <2>6, Zenon
    <3> QED BY <1>1, <1>4, <2>1, <2>3, <2>4, <2>5, <2>6, <3>1, Zenon DEF Reached
  <2> QED BY <2>1, <2>7
<1>11. CASE size < room
  <2>1. counter' = c + 1 /\ position' = Advance(p, size + 1)
    BY <1>2, <1>11, Zenon
  <2>2. d + size = n
    BY <1>8, <1>11
  <2>3. typed' = FlattenSeq(SubSeq(F, s + 1, c + 1))
    <3>1. typed' = Typed(F, c, s, n)
      BY <1>2, <2>2, Zenon
    <3> QED BY <1>1, <1>3, <3>1, TypedField
  <2>4. ASSUME c + 1 <= 3
        PROVE  Reached(F, 0)'
    <3>1. PICK k : k = c + 1
      OBVIOUS
    <3>2. k \in 0 .. 3
      BY <2>4, <3>1
    <3>3. PICK q : q = p + size + 1
      OBVIOUS
    <3>4. q = Begin(F, k) /\ q \in 0 .. PositionSize - 1
      <4>1. PICK g : g = Begin(F, k)
        OBVIOUS
      <4>2. g = b + n + 1 /\ g < PositionSize
        BY <1>5, <2>4, <3>1, <4>1, Zenon
      <4>3. q = g /\ q \in 0 .. PositionSize - 1
        BY <1>5, <1>6, <1>7, <1>8, <2>2, <3>3, <4>2
      <4> QED BY <4>1, <4>3
    <3>5. position' = q
      <4>1. p + (size + 1) = q
        BY <1>7, <1>8, <3>3
      <4> QED BY <1>6, <2>1, <3>4, <4>1, SmallRemainder DEF Advance
    <3>6. q % 16 # 0 => q - (q % 16) = p - (p % 16)
      BY <1>9, <1>11, <3>3, Zenon
    <3>7. (position' % 16 # 0)
          => plain' = Block(flash', credential'.encrypt,
                            position' - (position' % 16))
      BY <1>2, <3>5, <3>6, Zenon
    <3>8. typed' = Typed(F, k, s, 0)
      BY <1>3, <2>3, <3>1, <3>2, TypedNone
    <3>9. Len(F[k + 1]) \in Nat /\ Begin(F, k) \in Nat
      BY <3>2, BeginBound, Zenon
    <3>10. 0 \in 0 .. Len(F[k + 1]) /\ position' = Begin(F, k) + 0
      BY <3>4, <3>5, <3>9
    <3> QED BY <2>1, <3>1, <3>7, <3>8, <3>10, Zenon DEF Reached
  <2> QED BY <2>1, <2>3, <2>4, Zenon
<1> QED BY <1>8, <1>10, <1>11

------------------------------------------------------------------------------
(* Typing.                                                                 *)

(* The record that is typed, in a list that is not half written.           *)
LEMMA WholeRecord ==
  ASSUME CredInv, Whole, NEW l, l = flash[0], NEW o, o = credential.name
  PROVE  /\ l \in 1 .. Len(Lists) /\ o \in Records(l)
         /\ flash = Copy(l) /\ credential = Loaded(flash, o)
<1>1. l \in 1 .. Len(Lists)
  BY WholeList DEF CredInv
<1>2. flash = Copy(l)
  BY DEF CredInv, WriteInv, Whole, Copy
<1>3. o \in Records(l) /\ credential = Loaded(flash, o)
  BY DEF CredInv, RecordIsListed, R
<1> QED BY <1>1, <1>2, <1>3

(* The call keeps TextInv, from wherever it was made.                      *)
LEMMA ApplyStep ==
  ASSUME CredInv, Whole,
         NEW c \in 0 .. 3, NEW s \in 0 .. 3, NEW stop \in 1 .. 4,
         s < stop, c < stop, NEW d, NEW p,
         Applies(flash[0], credential.name, c, s, d, p),
         flash' = flash, credential' = credential, writing' = writing,
         crdStart' = s, crdStop' = stop
  PROVE  TextInv'
<1>1. PICK l : l = flash[0]
  OBVIOUS
<1>2. PICK o : o = credential.name
  OBVIOUS
<1>3. PICK F : F = FieldsOf(l, o)
  OBVIOUS
<1>4. l \in 1 .. Len(Lists) /\ o \in Records(l)
  BY <1>1, <1>2, WholeRecord
<1>5. \/ counter' = c /\ \E e : Reached(F, e)'
      \/ /\ counter' = c + 1 /\ (c + 1 <= 3 => Reached(F, 0)')
         /\ typed' = FlattenSeq(SubSeq(F, s + 1, c + 1))
  <2>1. Applies(l, o, c, s, d, p)
    BY <1>1, <1>2
  <2> QED BY <1>3, <1>4, <2>1, ApplyReaches
<1>6. Whole' /\ (FieldsOf(flash[0], credential.name))' = F
  BY <1>1, <1>2, <1>3 DEF Whole
<1>7. \/ counter' \in 0 .. stop - 1 /\ \E e : Reached(F, e)'
      \/ counter' = stop /\ typed' = FlattenSeq(SubSeq(F, s + 1, stop))
  <2>1. CASE counter' = c /\ \E e : Reached(F, e)'
    <3>1. c \in 0 .. stop - 1
      OBVIOUS
    <3> QED BY <2>1, <3>1, Zenon
  <2>2. CASE /\ counter' = c + 1 /\ (c + 1 <= 3 => Reached(F, 0)')
             /\ typed' = FlattenSeq(SubSeq(F, s + 1, c + 1))
    <3>1. c + 1 = stop \/ (c + 1 <= 3 /\ c + 1 \in 0 .. stop - 1)
      OBVIOUS
    <3> QED BY <2>2, <3>1, Zenon
  <2> QED BY <1>5, <2>1, <2>2, Zenon
<1>8. crdStart' \in 0 .. 3 /\ crdStop' \in 1 .. 4 /\ crdStart' < crdStop'
  OBVIOUS
<1> QED BY <1>6, <1>7, <1>8, Zenon DEF TextInv

(* The call that begins, and those that follow.                            *)
LEMMA PrintStep ==
  ASSUME CredInv, NEW s \in 0 .. 3, NEW stop \in 1 .. 4, s < stop,
         CRD_printDetail(s, stop)
  PROVE  TextInv'
<1>1. /\ flash' = flash /\ writing' = writing /\ credential' = credential
      /\ crdStart' = s /\ crdStop' = stop
      /\ history' = [history EXCEPT !.exact = Whole]
      /\ CRD_apply(0, 0, s, <<>>)
  BY DEF CRD_printDetail
<1>2. history'.exact = Whole
  BY <1>1 DEF CredInv, HistoryInv
<1>3. CASE ~ history'.exact
  BY <1>3 DEF TextInv
<1>4. CASE history'.exact
  <2>1. Whole
    BY <1>2, <1>4
  <2>2. PICK l : l = flash[0]
    OBVIOUS
  <2>3. PICK o : o = credential.name
    OBVIOUS
  <2>4. PICK F : F = FieldsOf(l, o)
    OBVIOUS
  <2>5. /\ l \in 1 .. Len(Lists) /\ o \in Records(l)
        /\ flash = Copy(l) /\ credential = Loaded(flash, o)
    BY <2>1, <2>2, <2>3, WholeRecord
  <2>6. F \in Seq(Texts) /\ Len(F) = 4
    BY <2>4, <2>5, FieldsType
  <2>7. Typed(F, 0, s, 0) = <<>>
    BY <2>6, TypedStart
  <2>8. 0 \in 0 .. Len(F[0 + 1]) /\ 0 = Begin(F, 0) + 0 /\ ~ (0 % 16 # 0)
    <3>1. Len(F[0 + 1]) \in Nat
      <4>1. 0 \in 0 .. 3
        OBVIOUS
      <4> QED BY <2>4, <2>5, <4>1, BeginBound, Zenon
    <3>2. Begin(F, 0) = 0
      BY <2>6, BeginFacts, Zenon
    <3> QED BY <3>1, <3>2
  <2>9. Applies(l, o, 0, s, 0, 0)
    BY <1>1, <1>4, <2>4, <2>5, <2>7, <2>8, Zenon DEF Applies
  <2>10. 0 \in 0 .. 3 /\ 0 < stop
    OBVIOUS
  <2> QED BY <1>1, <2>1, <2>2, <2>3, <2>9, <2>10, ApplyStep
<1> QED BY <1>3, <1>4

LEMMA ContinueStep ==
  ASSUME CredInv, TextInv, Continue PROVE TextInv'
<1>1. /\ flash' = flash /\ writing' = writing /\ credential' = credential
      /\ crdStart' = crdStart /\ crdStop' = crdStop /\ history' = history
      /\ pc = "typing" /\ counter < crdStop
      /\ CRD_apply(position, counter, crdStart, typed)
  BY DEF Continue
<1>2. CASE ~ history'.exact
  BY <1>2 DEF TextInv
<1>3. CASE history'.exact
  <2>1. PICK l : l = flash[0]
    OBVIOUS
  <2>2. PICK o : o = credential.name
    OBVIOUS
  <2>3. PICK F : F = FieldsOf(l, o)
    OBVIOUS
  <2>4. /\ Whole
        /\ crdStart \in 0 .. 3 /\ crdStop \in 1 .. 4 /\ crdStart < crdStop
        /\ \/ counter \in 0 .. crdStop - 1 /\ \E d : Reached(F, d)
           \/ counter = crdStop
    BY <1>1, <1>3, <2>1, <2>2, <2>3 DEF TextInv
  <2>5. counter \in 0 .. 3
    BY <1>1, <2>4
  <2>6. PICK d : Reached(F, d)
    <3>1. counter # crdStop
      BY <1>1, <2>4
    <3> QED BY <2>4, <3>1
  <2>7. flash = Copy(l) /\ credential = Loaded(flash, o)
    BY <2>1, <2>2, <2>4, WholeRecord
  <2>8. PICK c : c = counter
    OBVIOUS
  <2>9. PICK s : s = crdStart
    OBVIOUS
  <2>10. PICK p : p = position
    OBVIOUS
  <2>11. PICK stop : stop = crdStop
    OBVIOUS
  <2>12. Applies(l, o, c, s, d, p)
    BY <1>1, <1>3, <2>3, <2>6, <2>7, <2>8, <2>9, <2>10, Zenon
    DEF Applies, Reached
  <2>13. /\ c \in 0 .. 3 /\ s \in 0 .. 3 /\ stop \in 1 .. 4
         /\ s < stop /\ c < stop
         /\ crdStart' = s /\ crdStop' = stop
    BY <1>1, <2>4, <2>5, <2>8, <2>9, <2>11
  <2> QED BY <1>1, <2>1, <2>2, <2>4, <2>12, <2>13, ApplyStep
<1> QED BY <1>2, <1>3

(* Every step keeps the invariant.                                         *)
LEMMA TextStep ==
  ASSUME CredInv, TextInv, [Next]_vars PROVE TextInv'
<1>1. CASE UNCHANGED vars
  BY <1>1 DEF vars, TextInv, Reached, Whole
<1>2. CASE \/ crd_next \/ crd_previous \/ SearchStep \/ SearchEnds
           \/ Finish \/ Restart
  <2>1. pc' # "typing"
    BY <1>2 DEF crd_next, crd_previous, SearchStep, SearchEnds, Finish, Restart
  <2> QED BY <2>1 DEF TextInv
<1>3. CASE PrintAll \/ PrintUser \/ PrintPass
  <2>1. \/ CRD_printDetail(0, 4) \/ CRD_printDetail(0, 1)
        \/ CRD_printDetail(2, 3)
    BY <1>3 DEF PrintAll, PrintUser, PrintPass, CRD_USER, CRD_PASS, CRD_END
  <2> QED BY <2>1, PrintStep
<1>4. CASE Continue
  BY <1>4, ContinueStep
<1>5. CASE \E l \in 1 .. Len(Lists) : StartWrite(l)
  <2>1. history' = [back |-> -1, exact |-> FALSE]
    BY <1>5 DEF StartWrite
  <2> QED BY <2>1 DEF TextInv
<1>6. CASE WritePage
  <2>1. ~ Whole /\ pc' = pc /\ history' = history
    BY <1>6 DEF WritePage, Whole
  <2> QED BY <2>1 DEF TextInv
<1> QED BY <1>1, <1>2, <1>3, <1>4, <1>5, <1>6 DEF Next

------------------------------------------------------------------------------
(* The theorems.                                                           *)

(* What the menus show, and where a search and the way back lead, is right *)
(* in every list that is not half written, for all lists (crd_next,        *)
(* crd_previous, CRD_Init).                                                *)
THEOREM MovesInvariant == Spec => []CredInv
BY CredStart, CredStep, PTL DEF Spec

(* Outside of a write the menus show a record of the list that is stored,  *)
(* also after the list was replaced (crd_loadCredential).                  *)
THEOREM ShowsListed == Spec => []RecordIsListed
BY MovesInvariant, PTL DEF CredInv

(* crd_previous ends before it has met all records, whatever record it     *)
(* starts at: the watchdog has nothing to end.                             *)
THEOREM SearchShort == Spec => []SearchIsShort
<1>1. CredInv => SearchIsShort
  <2>1. SUFFICES ASSUME CredInv, pc = "previous", Whole
                 PROVE  search.steps < Cardinality(R)
    BY DEF SearchIsShort, R, Records
  <2>2. PICK V \in SUBSET R : Cardinality(V) = search.steps + 1
    BY <2>1 DEF CredInv, SearchInv
  <2>3. Cardinality(V) <= Cardinality(R) /\ Cardinality(R) \in Nat
    BY <2>1, ListIsRing, FS_Subset, FS_CardinalityType DEF CredInv
  <2> QED BY <2>1, <2>2, <2>3 DEF CredInv, SearchInv
<1> QED BY <1>1, MovesInvariant, PTL

(* A search ends before the record it started at.                          *)
LEMMA SearchEndsBefore ==
  ASSUME CredInv, SearchEnds, Whole
  PROVE  credential'.next = search.current
<1>1. /\ pc = "previous" /\ credential.next = search.current
      /\ Target = search.lastcred
  BY DEF SearchEnds, Target
<1>2. /\ credential.next = After(credential.name)
      /\ credential'.name = Target /\ credential'.next = After(Target)
  BY MovesStep DEF Moves
<1>3. Apart(credential.name)
  BY DEF CredInv, RecordIsListed
<1>4. CASE search.steps = 0
  <2>1. After(credential.name) = credential.name /\ Target = 0
    BY <1>1, <1>2, <1>4 DEF CredInv, SearchInv
  <2>2. credential.name = Target
    BY <1>3, <2>1 DEF Apart
  <2> QED BY <1>1, <1>2, <2>2
<1>5. CASE search.steps # 0
  <2>1. Target = credential.name
    BY <1>1, <1>5 DEF CredInv, SearchInv
  <2> QED BY <1>1, <1>2, <2>1
<1> QED BY <1>4, <1>5

(* crd_previous ends with the record whose next one is the record it       *)
(* started at, in every list that is not half written.                     *)
PreviousLeadsHere ==
  [][SearchEnds /\ Whole => credential'.next = search.current]_vars
(* That holds of every behaviour.                                          *)
THEOREM PreviousFound == Spec => PreviousLeadsHere
<1>1. CredInv =>
        [SearchEnds /\ Whole => credential'.next = search.current]_vars
  BY SearchEndsBefore
<1> QED BY <1>1, MovesInvariant, PTL DEF PreviousLeadsHere

(* UP after DOWN is back at the record DOWN was pressed at (crd_next,      *)
(* crd_previous).                                                          *)
THEOREM UpAfterDown == Spec => UpUndoesDown
<1>1. CredInv =>
        [SearchEnds /\ history.back # -1
         => credential'.name = history.back]_vars
  <2>1. SUFFICES ASSUME CredInv, SearchEnds, history.back # -1
                 PROVE  credential'.name = history.back
    OBVIOUS
  <2>2. /\ Whole /\ history.back \in R
        /\ After(history.back) = search.current
    BY <2>1 DEF CredInv, HistoryInv, SearchEnds
  <2>3. credential'.name \in R /\ After(credential'.name) = search.current
    BY <2>1, <2>2, SearchEndsBefore, MovesStep DEF Moves, RecordIsListed
  <2> QED BY <2>1, <2>2, <2>3, ListIsRing DEF CredInv
<1> QED BY <1>1, MovesInvariant, PTL DEF UpUndoesDown

(* What CRD_apply, crd_find and print_pressKey type of a credential is what*)
(* was asked for, for all lists, however long the fields and wherever their*)
(* blocks end (CRD_printDetail and printUpdate, with the list not written  *)
(* meanwhile).                                                             *)
THEOREM CredentialSpelled == Spec => []SpellsCredential
<1>1. Init => TextInv
  BY DEF Init, TextInv
<1>2. CredInv /\ TextInv /\ [Next]_vars => TextInv'
  BY TextStep
<1>3. TextInv => SpellsCredential
  <2>1. SUFFICES ASSUME TextInv, pc = "typing", counter >= crdStop,
                        history.exact
                 PROVE  typed = FlattenSeq(
                                   SubSeq(FieldsOf(flash[0], credential.name),
                                          crdStart + 1, crdStop))
    BY DEF SpellsCredential, FieldsOf
  <2>2. ~ (counter \in 0 .. crdStop - 1)
    <3>1. crdStop \in 1 .. 4
      BY <2>1 DEF TextInv
    <3> QED BY <2>1, <3>1
  <2> QED BY <2>1, <2>2 DEF TextInv
<1> QED BY <1>1, <1>2, <1>3, MovesInvariant, PTL DEF Spec
=============================================================================
