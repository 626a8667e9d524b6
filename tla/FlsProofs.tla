------------------------------ MODULE FlsProofs ------------------------------
(***************************************************************************)
(* Proofs about FLS_write: for all pages, memories and calls it implements *)
(* Storage, and what it erases is in the RAM until the page is written.    *)
(***************************************************************************)
EXTENDS Fls, TLAPS

Byte == S!Byte
Addr == S!Addr

LEMMA Sizes ==
  /\ PageSize \in Nat \ {0} /\ AddrSpace \in Nat \ {0} /\ ByteSize \in Nat
  /\ ByteSize > 2 * PageSize
  /\ Flash0 \in [Addr -> Byte]
  /\ \E pages \in Nat : AddrSpace = PageSize * pages
<1>1. PICK pages \in 1 .. AddrSpace : AddrSpace = pages * PageSize
  BY WritesAssumption
<1>2. pages \in Nat /\ pages * PageSize = PageSize * pages /\ AddrSpace \in Nat
  BY <1>1, WritesAssumption
<1>3. AddrSpace # 0
  BY <1>1, <1>2
<1> QED BY <1>1, <1>2, <1>3, WritesAssumption DEF Addr, Byte

LEMMA WriteType ==
  ASSUME NEW w \in Writes
  PROVE  /\ w.start \in Nat /\ w.start < AddrSpace
         /\ w.size \in Nat /\ w.size <= PageSize
         /\ w.start + w.size <= AddrSpace
         /\ \A j \in 0 .. w.size - 1 : w.bytes[j] \in Byte
<1>1. /\ w.start \in Addr /\ w.size \in 0 .. PageSize
      /\ w.start + w.size <= AddrSpace
      /\ w.bytes \in [0 .. w.size - 1 -> Byte]
  BY WritesAssumption DEF Addr, Byte
<1>2. w.start \in Nat /\ w.start < AddrSpace
  BY <1>1, Sizes DEF Addr, S!Addr
<1>3. w.size \in Nat /\ w.size <= PageSize
  BY <1>1, Sizes
<1> QED BY <1>1, <1>2, <1>3

LEMMA Division ==
  ASSUME NEW t \in Nat, NEW p \in Nat \ {0}
  PROVE  \E q \in Nat, r \in 0 .. p - 1 : t % p = r /\ t = p * q + r
<1>1. PICK d \in Int : d = t \div p
  OBVIOUS
<1>2. PICK r \in 0 .. p - 1 : r = t % p
  OBVIOUS
<1>3. t = p * d + r
  BY <1>1, <1>2
<1>4. d \in Nat
  BY <1>1
<1>5. t % p = r /\ t = p * d + r
  BY <1>2, <1>3
<1> WITNESS d \in Nat, r \in 0 .. p - 1
<1> QED BY <1>5

LEMMA Multiple ==
  ASSUME NEW p \in Nat \ {0}, NEW q \in Nat PROVE (p * q) % p = 0
OBVIOUS

(* A page that begins inside the memory ends inside it.                    *)
LEMMA PageFits ==
  ASSUME NEW q \in Nat, PageSize * q < AddrSpace
  PROVE  PageSize * q + PageSize <= AddrSpace
<1>1. PICK k \in Nat : AddrSpace = PageSize * k
  BY Sizes
<1>2. PageSize \in Nat \ {0}
  BY Sizes
<1>3. q < k
  BY <1>1, <1>2
<1>4. PICK d \in Nat : k = q + 1 + d
  <2>1. k - q - 1 \in Nat
    BY <1>3
  <2> QED BY <2>1
<1>5. PageSize * k = PageSize * q + PageSize + PageSize * d
  BY <1>2, <1>4
<1>6. PageSize * d \in Nat /\ PageSize * q \in Nat
  BY <1>2
<1> QED BY <1>1, <1>2, <1>5, <1>6

(* A byte is in one page only.                                             *)
LEMMA SamePage ==
  ASSUME NEW p \in Nat \ {0}, NEW q \in Nat, NEW k \in Nat,
         NEW r \in 0 .. p - 1, NEW s \in 0 .. p - 1, p * q + r = p * k + s
  PROVE  k = q
<1>1. ASSUME NEW u \in Nat, NEW v \in Nat, u < v PROVE p * u + p <= p * v
  <2>1. PICK d \in Nat : v = u + 1 + d
    <3>1. v - u - 1 \in Nat
      BY <1>1
    <3> QED BY <3>1
  <2>2. p * v = p * u + p + p * d
    BY <2>1
  <2>3. p * d \in Nat /\ p * u \in Nat
    OBVIOUS
  <2> QED BY <2>2, <2>3
<1>2. p * q \in Nat /\ p * k \in Nat
  OBVIOUS
<1>3. ~ (q < k)
  BY <1>1, <1>2
<1>4. ~ (k < q)
  BY <1>1, <1>2
<1> QED BY <1>3, <1>4

LEMMA PageNumber ==
  ASSUME NEW q \in Nat, PageSize * q + PageSize <= AddrSpace
  PROVE  q \in 0 .. AddrSpace \div PageSize - 1
<1>1. PICK d \in Int : d = AddrSpace \div PageSize
  BY Sizes
<1>2. PICK r \in 0 .. PageSize - 1 : r = AddrSpace % PageSize
  BY Sizes
<1>3. AddrSpace = PageSize * d + r /\ PageSize \in Nat \ {0}
  BY <1>1, <1>2, Sizes
<1>4. PageSize * q < PageSize * d
  BY <1>2, <1>3
<1>5. q < d
  BY <1>3, <1>4
<1> QED BY <1>1, <1>5

LEMMA UpToValue ==
  ASSUME NEW from \in PageIndex, NEW pending \in 0 .. PageSize
  PROVE  UpTo(from, pending) = IF from + pending > PageSize THEN PageSize
                               ELSE from + pending
<1>1. \A v \in 0 .. ByteSize - 1 : v % ByteSize = v
  BY Sizes
<1>2. pending \in 0 .. ByteSize - 1 /\ from + pending \in 0 .. ByteSize - 1
  BY Sizes DEF PageIndex
<1> QED BY <1>1, <1>2 DEF UpTo

------------------------------------------------------------------------------
(* The byte at a when n bytes of the call are written.                     *)
Written(n, a) ==
  IF call.start <= a /\ a < call.start + n THEN call.bytes[a - call.start]
  ELSE before[a]

Types ==
  /\ flash \in [Addr -> Byte] /\ before \in [Addr -> Byte]
  /\ lost \in BOOLEAN
  /\ pc \in {"idle", "loop", "erase", "fill", "write"}
  /\ call \in Writes \cup {NoCall} /\ (pc # "idle" => call \in Writes)
  /\ i \in 0 .. PageSize
  /\ tempBuff \in [PageIndex -> Byte]
  /\ alignedStartAddr \in Addr
  /\ \E q \in Nat : alignedStartAddr = PageSize * q
  /\ eraseBuffStart \in PageIndex /\ eraseBuffEnd \in 0 .. PageSize

(* Between two pages: i bytes are written, up to the end of a page or all  *)
(* of them.                                                                *)
LoopInv ==
  pc = "loop" =>
    /\ i <= call.size
    /\ i = 0 \/ i = call.size \/ \E q \in Nat : call.start + i = PageSize * q
    /\ \A a \in Addr : flash[a] = Written(i, a)

InWrite == pc \in {"erase", "fill", "write"}

(* Within a page: it is the one of the next byte, and the bytes of the     *)
(* call in it are those from eraseBuffStart to eraseBuffEnd.               *)
PageInv ==
  InWrite =>
    /\ i < call.size
    /\ alignedStartAddr + eraseBuffStart = call.start + i
    /\ i = 0 \/ eraseBuffStart = 0
    /\ eraseBuffEnd = IF eraseBuffStart + (call.size - i) > PageSize THEN PageSize
                      ELSE eraseBuffStart + (call.size - i)
    /\ \A a \in Addr :
         flash[a] = IF pc # "erase" /\ InPage(a) THEN S!Erased ELSE Written(i, a)

(* tempBuff holds the page as it was, then as it will be.                  *)
CopyInv ==
  InWrite =>
    \A j \in PageIndex :
      tempBuff[j] = IF pc = "write" /\ S!Covers(call, alignedStartAddr + j)
                    THEN call.bytes[(alignedStartAddr + j) - call.start]
                    ELSE before[alignedStartAddr + j]

FlsInv == Types /\ LoopInv /\ PageInv /\ CopyInv

LEMMA PageType ==
  ASSUME Types
  PROVE  /\ alignedStartAddr \in Nat
         /\ \A j \in PageIndex : alignedStartAddr + j \in Addr
<1>1. alignedStartAddr \in Nat /\ alignedStartAddr < AddrSpace
  BY Sizes DEF Types, Addr, S!Addr
<1>2. alignedStartAddr + PageSize <= AddrSpace
  BY <1>1, PageFits DEF Types
<1> QED BY <1>1, <1>2, Sizes DEF PageIndex, Addr, S!Addr

LEMMA WrittenType ==
  ASSUME Types, call \in Writes, NEW n \in 0 .. call.size, NEW a \in Addr
  PROVE  Written(n, a) \in Byte
<1>1. a \in Nat
  BY Sizes DEF Addr, S!Addr
<1>2. call.start \in Nat /\ call.size \in Nat
  BY WriteType
<1>3. CASE call.start <= a /\ a < call.start + n
  <2>1. a - call.start \in 0 .. call.size - 1
    BY <1>1, <1>2, <1>3
  <2> QED BY <1>3, <2>1, WriteType DEF Written
<1>4. CASE ~ (call.start <= a /\ a < call.start + n)
  BY <1>4 DEF Written, Types
<1> QED BY <1>3, <1>4

------------------------------------------------------------------------------
(* The steps preserve the invariant.                                       *)

LEMMA InitStep ==
  ASSUME Init PROVE FlsInv
<1>1. Addr # {} /\ 0 \in Addr /\ 0 \in PageIndex /\ 0 \in 0 .. PageSize
  BY Sizes DEF Addr, S!Addr, PageIndex
<1>2. 0 = PageSize * 0 /\ 0 \in Nat
  BY Sizes
<1>3. tempBuff \in [PageIndex -> Byte]
  BY DEF Init, Byte, S!Byte
<1> QED BY <1>1, <1>2, <1>3, Sizes
        DEF Init, FlsInv, Types, LoopInv, PageInv, CopyInv, InWrite

LEMMA CallStep ==
  ASSUME FlsInv, Call PROVE FlsInv'
<1>1. Types'
  <2>1. call' \in Writes /\ i' = 0 /\ before' = flash /\ pc' = "loop"
    BY DEF Call
  <2>2. 0 \in 0 .. PageSize
    BY Sizes
  <2> QED BY <2>1, <2>2 DEF Call, page, FlsInv, Types, Addr
<1>2. i' <= call'.size
  BY WriteType DEF Call
<1>3. \A a \in Addr : flash'[a] = Written(i, a)'
  <2> TAKE a \in Addr
  <2>1. call'.start \in Nat /\ a \in Nat
    BY WriteType, Sizes DEF Call, Addr, S!Addr
  <2>2. ~ (call'.start <= a /\ a < call'.start + 0)
    BY <2>1
  <2> QED BY <2>2 DEF Call, Written
<1> QED BY <1>1, <1>2, <1>3
        DEF Call, FlsInv, LoopInv, PageInv, CopyInv, InWrite, Addr

LEMMA CopyStep ==
  ASSUME FlsInv, CopyPage PROVE FlsInv'
<1> DEFINE addr == call.start + i
<1>1. /\ call \in Writes /\ call.start \in Nat /\ call.size \in Nat
      /\ call.size <= PageSize /\ call.start + call.size <= AddrSpace
      /\ i \in Nat /\ i < call.size /\ PageSize \in Nat \ {0}
      /\ AddrSpace \in Nat
  BY WriteType, Sizes DEF CopyPage, FlsInv, Types
<1>2. addr \in Nat /\ addr < AddrSpace
  BY <1>1
<1>3. PICK q \in Nat, r \in 0 .. PageSize - 1 :
        addr % PageSize = r /\ addr = PageSize * q + r
  BY <1>1, <1>2, Division
<1>4. PageSize * q \in Nat /\ addr - r = PageSize * q /\ PageSize * q < AddrSpace
  BY <1>1, <1>2, <1>3
<1>5. /\ alignedStartAddr' = PageSize * q /\ eraseBuffStart' = r
      /\ eraseBuffEnd' = UpTo(r, call.size - i)
      /\ tempBuff' = [j \in PageIndex |-> flash[alignedStartAddr' + j]]
  BY <1>3, <1>4 DEF CopyPage
<1>6. /\ r \in PageIndex /\ call.size - i \in 0 .. PageSize
      /\ alignedStartAddr' \in Addr
  <2>1. alignedStartAddr' \in Nat /\ alignedStartAddr' < AddrSpace
    BY <1>4, <1>5
  <2>2. alignedStartAddr' \in Addr
    BY <1>1, <2>1 DEF Addr, S!Addr
  <2>3. call.size - i \in 0 .. PageSize
    BY <1>1
  <2> QED BY <1>3, <2>2, <2>3 DEF PageIndex
<1>7. eraseBuffEnd' = IF r + (call.size - i) > PageSize THEN PageSize
                      ELSE r + (call.size - i)
  BY <1>5, <1>6, UpToValue
<1>8. eraseBuffEnd' \in 0 .. PageSize
  BY <1>1, <1>6, <1>7 DEF PageIndex
<1>9. \A j \in PageIndex : alignedStartAddr' + j \in Addr
  <2>1. PageSize * q + PageSize <= AddrSpace
    BY <1>4, PageFits
  <2> QED BY <1>1, <1>4, <1>5, <2>1 DEF PageIndex, Addr, S!Addr
<1>10. Types'
  <2>1. tempBuff' \in [PageIndex -> Byte]
    BY <1>5, <1>9 DEF FlsInv, Types
  <2> QED BY <1>5, <1>6, <1>8, <2>1 DEF CopyPage, history, FlsInv, Types, Addr
<1>11. i = 0 \/ r = 0
  <2>1. ASSUME NEW k \in Nat, addr = PageSize * k PROVE r = 0
    <3>1. (PageSize * k) % PageSize = 0
      BY <1>1, Multiple
    <3> QED BY <1>3, <2>1, <3>1
  <2>2. i = 0 \/ i = call.size \/ \E k \in Nat : addr = PageSize * k
    BY DEF FlsInv, LoopInv, CopyPage
  <2>3. i # call.size
    BY <1>1
  <2> QED BY <2>1, <2>2, <2>3
<1>12. PageInv'
  <2>1. alignedStartAddr' + eraseBuffStart' = call.start + i
    BY <1>1, <1>3, <1>4, <1>5
  <2>2. \A a \in Addr : flash'[a] = Written(i, a)'
    BY DEF CopyPage, history, FlsInv, LoopInv, Written
  <2> QED BY <1>1, <1>5, <1>7, <1>11, <2>1, <2>2
          DEF CopyPage, history, PageInv, Addr
<1>13. CopyInv'
  <2> SUFFICES ASSUME NEW j \in PageIndex
               PROVE  tempBuff'[j] = before[alignedStartAddr' + j]
    BY DEF CopyPage, history, CopyInv
  <2> DEFINE a == alignedStartAddr' + j
  <2>1. a \in Addr /\ a \in Nat /\ j \in Nat
    BY <1>9, Sizes DEF Addr, S!Addr, PageIndex
  <2>2. tempBuff'[j] = Written(i, a)
    BY <1>5, <2>1 DEF CopyPage, FlsInv, LoopInv
  <2>3. ~ (call.start <= a /\ a < call.start + i)
    BY <1>1, <1>3, <1>4, <1>5, <1>11, <2>1
  <2> QED BY <2>2, <2>3 DEF Written
<1> QED BY <1>10, <1>12, <1>13 DEF CopyPage, FlsInv, LoopInv

LEMMA EraseStep ==
  ASSUME FlsInv, fls_erasePage PROVE FlsInv'
<1>1. Types'
  <2>1. S!Erased \in Byte
    BY DEF S!Erased, S!Byte, Byte
  <2> QED BY <2>1 DEF fls_erasePage, page, history, FlsInv, Types, Addr
<1>2. PageInv'
  BY DEF fls_erasePage, page, history, FlsInv, PageInv, InWrite, InPage,
         Written, Addr
<1>3. CopyInv'
  BY DEF fls_erasePage, page, history, FlsInv, CopyInv, InWrite
<1> QED BY <1>1, <1>2, <1>3 DEF fls_erasePage, FlsInv, LoopInv

(* Of the page, the call covers what Fill replaces.                        *)
LEMMA CoveredPart ==
  ASSUME Types, PageInv, InWrite, NEW j \in PageIndex
  PROVE  /\ S!Covers(call, alignedStartAddr + j) <=>
              eraseBuffStart <= j /\ j < eraseBuffEnd
         /\ (alignedStartAddr + j) - call.start = i + j - eraseBuffStart
         /\ S!Covers(call, alignedStartAddr + j) =>
              i + j - eraseBuffStart \in 0 .. call.size - 1
<1>1. /\ call \in Writes /\ call.start \in Nat /\ call.size \in Nat
      /\ i \in Nat /\ i < call.size /\ alignedStartAddr \in Nat
      /\ eraseBuffStart \in Nat /\ j \in Nat /\ j < PageSize
      /\ PageSize \in Nat
  BY WriteType, PageType, Sizes DEF Types, PageInv, InWrite, PageIndex
<1>2. /\ alignedStartAddr + eraseBuffStart = call.start + i
      /\ i = 0 \/ eraseBuffStart = 0
      /\ eraseBuffEnd = IF eraseBuffStart + (call.size - i) > PageSize THEN PageSize
                        ELSE eraseBuffStart + (call.size - i)
  BY DEF PageInv
<1>3. (alignedStartAddr + j) - call.start = i + j - eraseBuffStart
  BY <1>1, <1>2
<1>4. call.start <= alignedStartAddr + j <=> eraseBuffStart <= j
  BY <1>1, <1>2
<1>5. alignedStartAddr + j < call.start + call.size <=> j < eraseBuffEnd
  BY <1>1, <1>2
<1> QED BY <1>1, <1>3, <1>4, <1>5 DEF S!Covers

LEMMA FillStep ==
  ASSUME FlsInv, Fill PROVE FlsInv'
<1>1. Types /\ PageInv /\ InWrite /\ pc = "fill" /\ call \in Writes
  BY DEF Fill, FlsInv, InWrite, Types
<1>2. \A j \in PageIndex :
        tempBuff'[j] = IF S!Covers(call, alignedStartAddr + j)
                       THEN call.bytes[(alignedStartAddr + j) - call.start]
                       ELSE before[alignedStartAddr + j]
  BY <1>1, CoveredPart DEF Fill, FlsInv, CopyInv
<1>3. tempBuff' \in [PageIndex -> Byte]
  <2>1. \A j \in PageIndex :
          S!Covers(call, alignedStartAddr + j) =>
            call.bytes[i + j - eraseBuffStart] \in Byte
    BY <1>1, CoveredPart, WriteType
  <2> QED BY <1>1, <2>1, CoveredPart DEF Fill, Types
<1>4. Types'
  BY <1>3 DEF Fill, page, history, FlsInv, Types, Addr
<1>5. PageInv'
  BY <1>1 DEF Fill, page, history, PageInv, InWrite, InPage, Written, Addr
<1>6. CopyInv'
  BY <1>2 DEF Fill, page, history, CopyInv, S!Covers
<1> QED BY <1>4, <1>5, <1>6 DEF Fill, FlsInv, LoopInv

LEMMA WriteStep ==
  ASSUME FlsInv, fls_writePage PROVE FlsInv'
<1>1. Types /\ PageInv /\ CopyInv /\ InWrite /\ pc = "write" /\ call \in Writes
  BY DEF fls_writePage, FlsInv, InWrite, Types
<1>2. /\ call.start \in Nat /\ call.size \in Nat /\ call.size <= PageSize
      /\ i \in Nat /\ i < call.size /\ alignedStartAddr \in Nat
      /\ PageSize \in Nat \ {0} /\ eraseBuffStart \in Nat
      /\ eraseBuffStart < PageSize
      /\ alignedStartAddr + eraseBuffStart = call.start + i
  BY <1>1, WriteType, PageType, Sizes DEF Types, PageInv, PageIndex
<1>3. /\ i' = i + eraseBuffEnd - eraseBuffStart
      /\ eraseBuffEnd = IF eraseBuffStart + (call.size - i) > PageSize
                        THEN PageSize ELSE eraseBuffStart + (call.size - i)
  BY <1>1 DEF fls_writePage, PageInv
<1>4. i' \in 0 .. PageSize /\ i' <= call.size /\ i' > i /\ i' \in Nat
  BY <1>2, <1>3
<1>5. Types'
  <2>1. flash' \in [Addr -> Byte]
    BY <1>1 DEF fls_writePage, InPage, Types, Addr
  <2> QED BY <1>1, <1>4, <2>1
          DEF fls_writePage, page, history, Types, Addr
<1>6. i' = call.size \/ \E q \in Nat : call.start + i' = PageSize * q
  <2>1. PICK q \in Nat : alignedStartAddr = PageSize * q
    BY <1>1 DEF Types
  <2>2. CASE eraseBuffEnd = PageSize
    <3>1. call.start + i' = alignedStartAddr + PageSize
      BY <1>2, <1>3, <2>2
    <3>2. PageSize * (q + 1) = PageSize * q + PageSize /\ q + 1 \in Nat
      BY <1>2
    <3> QED BY <2>1, <3>1, <3>2
  <2>3. CASE eraseBuffEnd # PageSize
    BY <1>2, <1>3, <2>3
  <2> QED BY <2>2, <2>3
<1>7. \A a \in Addr : flash'[a] = Written(i', a)
  <2> TAKE a \in Addr
  <2>1. a \in Nat
    BY Sizes DEF Addr, S!Addr
  <2>2. CASE InPage(a)
    <3>1. PICK j \in PageIndex : j = a - alignedStartAddr /\ alignedStartAddr + j = a
      BY <1>2, <2>1, <2>2 DEF InPage
    <3>2. flash'[a] = tempBuff[j]
      BY <2>2, <3>1 DEF fls_writePage, Addr
    <3>3. tempBuff[j] = IF S!Covers(call, a) THEN call.bytes[a - call.start]
                        ELSE before[a]
      <4>1. tempBuff[j] = IF S!Covers(call, alignedStartAddr + j)
                          THEN call.bytes[(alignedStartAddr + j) - call.start]
                          ELSE before[alignedStartAddr + j]
        BY <1>1, <3>1 DEF CopyInv
      <4> QED BY <3>1, <4>1
    <3>4. S!Covers(call, a) <=> call.start <= a /\ a < call.start + i'
      <4>1. j \in Nat /\ j < PageSize
        BY <1>2, <3>1 DEF PageIndex
      <4>2. a < call.start + call.size <=> a < call.start + i'
        BY <1>2, <1>3, <1>4, <2>1, <3>1, <4>1
      <4> QED BY <4>2 DEF S!Covers
    <3> QED BY <3>2, <3>3, <3>4 DEF Written
  <2>3. CASE ~ InPage(a)
    <3>1. flash'[a] = flash[a]
      BY <2>3 DEF fls_writePage, Addr
    <3>2. flash[a] = Written(i, a)
      BY <1>1, <2>3 DEF PageInv
    <3>3. a < call.start + i <=> a < call.start + i'
      <4>1. a < alignedStartAddr \/ a >= alignedStartAddr + PageSize
        BY <1>2, <2>1, <2>3 DEF InPage, PageIndex
      <4>2. call.start + i' <= alignedStartAddr + PageSize
        BY <1>2, <1>3, <1>4
      <4> QED BY <1>2, <1>4, <2>1, <4>1, <4>2
    <3> QED BY <3>1, <3>2, <3>3 DEF Written
  <2> QED BY <2>2, <2>3
<1>8. LoopInv'
  BY <1>4, <1>6, <1>7 DEF fls_writePage, history, LoopInv, Written, Addr
<1> QED BY <1>5, <1>8 DEF fls_writePage, FlsInv, PageInv, CopyInv, InWrite

LEMMA EndStep ==
  ASSUME FlsInv, Return \/ PowerLoss PROVE FlsInv'
<1>1. flash' \in [Addr -> Byte]
  <2>1. CASE Return
    BY <2>1 DEF Return, FlsInv, Types
  <2>2. CASE PowerLoss
    <3>1. PICK done \in SUBSET {a \in S!Addr : InPage(a)} :
            flash' = [a \in S!Addr |->
                        IF a \notin done THEN flash[a]
                        ELSE CASE pc = "erase" -> S!Erased
                               [] pc = "write" -> tempBuff[a - alignedStartAddr]
                               [] OTHER        -> flash[a]]
      BY <2>2 DEF PowerLoss
    <3>2. \A a \in done : tempBuff[a - alignedStartAddr] \in Byte
      BY <3>1 DEF FlsInv, Types, InPage
    <3>3. S!Erased \in Byte
      BY DEF S!Erased, S!Byte, Byte
    <3> QED BY <3>1, <3>2, <3>3 DEF FlsInv, Types, Addr
  <2> QED BY <2>1, <2>2
<1>2. pc' = "idle" /\ lost' \in BOOLEAN
  BY DEF Return, PowerLoss
<1>3. UNCHANGED <<call, i, tempBuff, page, before>>
  BY DEF Return, PowerLoss
<1> QED BY <1>1, <1>2, <1>3
        DEF page, FlsInv, Types, LoopInv, PageInv, CopyInv, InWrite, Addr

(* What is written, erased and copied at every step of FLS_write.          *)
THEOREM FlsInvariant == Spec => []FlsInv
<1>1. Init => FlsInv
  BY InitStep
<1>2. FlsInv /\ UNCHANGED vars => FlsInv'
  BY DEF vars, page, history, FlsInv, Types, LoopInv, PageInv, CopyInv,
         InWrite, InPage, Written, Addr, S!Covers
<1>3. FlsInv /\ [Next]_vars => FlsInv'
  BY <1>2, CallStep, CopyStep, EraseStep, FillStep, WriteStep, EndStep
     DEF Next, FLS_write
<1> QED BY <1>1, <1>3, PTL DEF Spec

(* The variables of FLS_write keep their types: no byte is fetched or      *)
(* stored outside the page, its buffer or the memory.                      *)
THEOREM TypeCorrect == Spec => []TypeOK
<1>1. ASSUME FlsInv PROVE TypeOK
  <2>1. PICK q \in Nat : alignedStartAddr = PageSize * q
    BY <1>1 DEF FlsInv, Types
  <2>2. (PageSize * q) % PageSize = 0
    BY Sizes, Multiple
  <2>3. alignedStartAddr % PageSize = 0
    BY <2>1, <2>2
  <2> QED BY <1>1, <2>3 DEF FlsInv, Types, TypeOK, Addr, Byte
<1> QED BY <1>1, FlsInvariant, PTL

(* While a page is erased its other bytes are in tempBuff, for all pages   *)
(* and calls (fls.c:62-74).                                                *)
THEOREM ErasedCopied == Spec => []ErasedIsCopied
<1>1. FlsInv => ErasedIsCopied
  <2> SUFFICES ASSUME FlsInv, pc \in {"fill", "write"}, NEW j \in PageIndex
               PROVE  LET a == alignedStartAddr + j IN
                      IF pc = "write" /\ S!Covers(call, a)
                      THEN tempBuff[j] = call.bytes[a - call.start]
                      ELSE tempBuff[j] = before[a]
    BY DEF ErasedIsCopied
  <2>1. tempBuff[j] = IF pc = "write" /\ S!Covers(call, alignedStartAddr + j)
                      THEN call.bytes[(alignedStartAddr + j) - call.start]
                      ELSE before[alignedStartAddr + j]
    BY DEF FlsInv, CopyInv, InWrite
  <2> QED BY <2>1
<1> QED BY <1>1, FlsInvariant, PTL

------------------------------------------------------------------------------
(* Every step is one of Storage, or none that the caller can see.          *)

Shown == IF pc = "idle" THEN flash ELSE before

LEMMA ReturnWrites ==
  ASSUME FlsInv, Return PROVE Seen!Next
<1>1. /\ pc = "loop" /\ call \in Writes /\ i \in Nat /\ i >= call.size
      /\ call.size \in Nat /\ i <= call.size
  BY WriteType, Sizes DEF Return, FlsInv, Types, LoopInv
<1>2. i = call.size
  BY <1>1
<1>3. \A a \in Addr : flash[a] = Written(call.size, a)
  BY <1>1, <1>2 DEF FlsInv, LoopInv
<1>4. flash \in [Addr -> Byte] /\ flash' = flash /\ pc' = "idle" /\ lost' = FALSE
  BY DEF Return, FlsInv, Types
<1>5. flash = [a \in Addr |-> Seen!Put(Shown, call, a)]
  BY <1>1, <1>3, <1>4 DEF Seen!Put, Seen!Covers, Written, Shown
<1> QED BY <1>1, <1>4, <1>5 DEF Seen!Next, Seen!Write, Shown, Addr, Seen!Addr, S!Addr

(* A failing supply leaves the page of the next byte in doubt; after the   *)
(* last page nothing is.                                                   *)
LEMMA PowerLossFails ==
  ASSUME FlsInv, PowerLoss PROVE Seen!Next
<1>1. /\ call \in Writes /\ call.start \in Nat /\ call.size \in Nat
      /\ i \in Nat /\ i <= call.size /\ call.start + call.size <= AddrSpace
      /\ PageSize \in Nat \ {0} /\ AddrSpace \in Nat \ {0}
      /\ pc # "idle" /\ pc' = "idle" /\ lost' = TRUE
  BY WriteType, Sizes DEF PowerLoss, FlsInv, Types, LoopInv, PageInv, InWrite
<1>2. \A a \in Addr : a \in Nat /\ a < AddrSpace
  BY <1>1 DEF Addr, S!Addr
<1>3. flash' \in [Addr -> Byte]
  BY EndStep DEF FlsInv, Types
<1>4. CASE i = call.size
  <2>1. pc = "loop"
    BY <1>1, <1>4 DEF FlsInv, Types, PageInv, InWrite
  <2>2. \A a \in Addr : flash'[a] = Written(i, a)
    BY <2>1 DEF PowerLoss, FlsInv, LoopInv, Addr
  <2>3. \A a \in Addr : a < AddrSpace * PageSize
    <3>1. AddrSpace * PageSize >= AddrSpace
      BY <1>1
    <3>2. AddrSpace * PageSize \in Nat
      BY <1>1
    <3> QED BY <1>1, <1>2, <3>1, <3>2
  <2>4. \A a \in Addr : flash'[a] = Seen!Put(Shown, call, a)
    BY <1>1, <1>4, <2>2 DEF Written, Seen!Put, Seen!Covers, Shown
  <2>5. flash' = [a \in Addr |-> IF a < AddrSpace * PageSize
                                 THEN Seen!Put(Shown, call, a) ELSE Shown[a]]
    BY <1>3, <2>3, <2>4
  <2>6. Seen!Fail(call)
    BY <1>1, <2>5 DEF Seen!Fail, Seen!Half, Shown, Addr, S!Addr, Seen!Addr
  <2> QED BY <1>1, <2>6 DEF Seen!Next
<1>5. CASE i # call.size
  <2>1. i < call.size /\ call.start + i \in Nat /\ call.start + i < AddrSpace
    BY <1>1, <1>5
  <2>2. PICK q \in Nat, r \in 0 .. PageSize - 1 : call.start + i = PageSize * q + r
    BY <1>1, <2>1, Division
  <2>3. PICK m \in Nat : m = PageSize * q
    BY <1>1
  <2>4. /\ m <= call.start + i /\ call.start + i < m + PageSize
        /\ m + PageSize <= AddrSpace
    BY <1>1, <2>1, <2>2, <2>3, PageFits
  <2>5. InWrite => alignedStartAddr = m
    <3> SUFFICES ASSUME InWrite PROVE alignedStartAddr = m
      OBVIOUS
    <3>1. PICK k \in Nat : alignedStartAddr = PageSize * k
      BY DEF FlsInv, Types
    <3>2. eraseBuffStart \in 0 .. PageSize - 1
      BY DEF FlsInv, Types, PageIndex
    <3>3. call.start + i = PageSize * k + eraseBuffStart
      BY <3>1 DEF FlsInv, PageInv
    <3>4. k = q
      BY <1>1, <2>2, <3>2, <3>3, SamePage
    <3> QED BY <2>3, <3>1, <3>4
  <2>6. /\ q * PageSize = m /\ (q + 1) * PageSize - 1 = m + PageSize - 1
        /\ \A p \in Nat : p = q => p * PageSize = m
    BY <1>1, <2>3
  <2>7. \A a \in Addr : a \notin m .. m + PageSize - 1 =>
          flash'[a] = IF a < m THEN Seen!Put(Shown, call, a) ELSE Shown[a]
    <3> SUFFICES ASSUME NEW a \in Addr, a \notin m .. m + PageSize - 1
                 PROVE  flash'[a] = IF a < m THEN Seen!Put(Shown, call, a)
                                    ELSE Shown[a]
      OBVIOUS
    <3>1. a < m \/ a >= m + PageSize
      BY <1>1, <1>2
    <3>2. InWrite => ~ InPage(a)
      BY <1>1, <1>2, <2>5, <3>1 DEF InPage, PageIndex
    <3>3. flash'[a] = flash[a]
      BY <3>2 DEF PowerLoss, InWrite, Addr
    <3>4. flash[a] = Written(i, a)
      BY <1>1, <3>2 DEF FlsInv, Types, LoopInv, PageInv, InWrite
    <3>5. a < m => (a < call.start + i /\ a < call.start + call.size)
      BY <1>1, <1>2, <2>1, <2>4
    <3>6. a >= m + PageSize => ~ (a < call.start + i)
      BY <1>1, <1>2, <2>1, <2>4
    <3> QED BY <1>1, <3>1, <3>3, <3>4, <3>5, <3>6
            DEF Written, Seen!Put, Seen!Covers, Shown
  <2>8. \A a \in m .. m + PageSize - 1 :
          flash'[a] \in {Shown[a], Seen!Erased, Seen!Put(Shown, call, a)}
    <3> SUFFICES ASSUME NEW a \in m .. m + PageSize - 1
                 PROVE  flash'[a] \in {Shown[a], Seen!Erased,
                                       Seen!Put(Shown, call, a)}
      OBVIOUS
    <3>1. a \in Addr /\ a \in Nat
      BY <1>1, <2>4 DEF Addr, S!Addr
    <3>2. Written(i, a) \in {Shown[a], Seen!Put(Shown, call, a)}
      BY <1>1, <2>1, <3>1 DEF Written, Seen!Put, Seen!Covers, Shown
    <3>3. flash[a] \in {Written(i, a), Seen!Erased}
      BY <1>1, <3>1
         DEF FlsInv, Types, LoopInv, PageInv, InWrite, S!Erased, Seen!Erased
    <3>4. pc = "write" /\ InPage(a) =>
            tempBuff[a - alignedStartAddr] \in {Shown[a], Seen!Put(Shown, call, a)}
      <4> SUFFICES ASSUME pc = "write", InPage(a)
                   PROVE  tempBuff[a - alignedStartAddr]
                            \in {Shown[a], Seen!Put(Shown, call, a)}
        OBVIOUS
      <4>1. PICK j \in PageIndex :
              j = a - alignedStartAddr /\ alignedStartAddr + j = a
        BY <3>1, PageType DEF InPage, FlsInv
      <4>2. tempBuff[j] = IF S!Covers(call, alignedStartAddr + j)
                          THEN call.bytes[(alignedStartAddr + j) - call.start]
                          ELSE before[alignedStartAddr + j]
        BY DEF FlsInv, CopyInv, InWrite
      <4> QED BY <1>1, <4>1, <4>2 DEF S!Covers, Seen!Covers, Seen!Put, Shown
    <3>5. \/ flash'[a] = flash[a]
          \/ flash'[a] = Seen!Erased
          \/ /\ pc = "write" /\ InPage(a)
             /\ flash'[a] = tempBuff[a - alignedStartAddr]
      <4>1. PICK done \in SUBSET {b \in S!Addr : InPage(b)} :
              flash' = [b \in S!Addr |->
                          IF b \notin done THEN flash[b]
                          ELSE CASE pc = "erase" -> S!Erased
                                 [] pc = "write" -> tempBuff[b - alignedStartAddr]
                                 [] OTHER        -> flash[b]]
        BY DEF PowerLoss
      <4>2. flash'[a] = IF a \notin done THEN flash[a]
                        ELSE CASE pc = "erase" -> S!Erased
                               [] pc = "write" -> tempBuff[a - alignedStartAddr]
                               [] OTHER        -> flash[a]
        BY <3>1, <4>1 DEF Addr
      <4>3. S!Erased = Seen!Erased
        BY DEF S!Erased, Seen!Erased
      <4>4. CASE a \in done
        <5>1. InPage(a)
          BY <4>1, <4>4
        <5> QED BY <4>2, <4>3, <4>4, <5>1
      <4>5. CASE a \notin done
        BY <4>2, <4>5
      <4> QED BY <4>4, <4>5
    <3> QED BY <3>2, <3>3, <3>4, <3>5
  <2>9. q \in Seen!Touched(call)
    <3>1. call.start + i \in Seen!Page(q) /\ Seen!Covers(call, call.start + i)
      BY <1>1, <2>1, <2>4, <2>6 DEF Seen!Page, Seen!Covers
    <3>2. q \in 0 .. AddrSpace \div PageSize - 1
      BY <1>1, <2>2, <2>3, <2>4, PageNumber
    <3> QED BY <3>1, <3>2 DEF Seen!Touched
  <2>10. Seen!Fail(call)
    <3>1. Seen!Page(q) = m .. m + PageSize - 1
      BY <2>6 DEF Seen!Page
    <3>2. \A a \in Addr : Seen!Half(call, q)[a] =
            IF a < m THEN Seen!Put(Shown, call, a) ELSE Shown[a]
      BY <2>6 DEF Seen!Half, Shown, Addr, S!Addr, Seen!Addr
    <3>3. \A a \in Addr \ Seen!Page(q) : flash'[a] = Seen!Half(call, q)[a]
      BY <2>7, <3>1, <3>2
    <3> QED BY <1>1, <1>3, <2>8, <2>9, <3>1, <3>3
            DEF Seen!Fail, Shown, Addr, S!Addr, Seen!Addr, Byte, S!Byte, Seen!Byte
  <2> QED BY <1>1, <2>10 DEF Seen!Next
<1> QED BY <1>4, <1>5

(* FLS_write implements Storage: its caller sees the whole buffer stored,  *)
(* or one page in doubt, for all pages, memories and calls.                *)
THEOREM StorageImplemented == Spec => ImplementsStorage
<1>1. ASSUME Init PROVE Seen!Init
  BY <1>1 DEF Init, Seen!Init
<1>2. ASSUME FlsInv, [Next]_vars
      PROVE  Seen!Next \/ UNCHANGED <<Shown, lost>>
  <2>1. CASE Call
    BY <2>1 DEF Call, Shown
  <2>2. CASE CopyPage \/ fls_erasePage \/ Fill \/ fls_writePage
    BY <2>2 DEF CopyPage, fls_erasePage, Fill, fls_writePage, history, Shown
  <2>3. CASE UNCHANGED vars
    BY <2>3 DEF vars, history, Shown
  <2> QED BY <1>2, <2>1, <2>2, <2>3, ReturnWrites, PowerLossFails
          DEF Next, FLS_write
<1> QED BY <1>1, <1>2, FlsInvariant, PTL
        DEF Spec, ImplementsStorage, Seen!Spec, Shown
==============================================================================
