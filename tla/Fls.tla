--------------------------------- MODULE Fls ---------------------------------
(***************************************************************************)
(* The flash writer of the MemType firmware (fls.c): FLS_write copies,     *)
(* erases, fills and writes back each page its buffer touches.  The main   *)
(* loop waits for it; only the supply can fail in between.                 *)
(***************************************************************************)
EXTENDS Integers

CONSTANTS
  PageSize,       \* SPM_PAGESIZE: 64
  AddrSpace,      \* bytes of flash
  ByteSize,       \* values of a uint8_t: 256
  Writes,         \* the calls: start address, size and bytes
  Flash0

VARIABLES
  flash,
  pc,             \* where FLS_write is
  call,           \* buff, startaddr and size
  i,
  tempBuff,
  alignedStartAddr, eraseBuffStart, eraseBuffEnd,
  before,         \* history: the flash when FLS_write was called
  lost            \* history: whether the supply failed in the last call

page == <<alignedStartAddr, eraseBuffStart, eraseBuffEnd>>
history == <<before, lost>>
vars == <<flash, pc, call, i, tempBuff, page, history>>

S == INSTANCE Storage

ASSUME WritesAssumption ==
  /\ PageSize \in Nat \ {0} /\ AddrSpace \in Nat
  /\ ByteSize \in Nat /\ ByteSize > 2 * PageSize
  /\ \E pages \in 1 .. AddrSpace : AddrSpace = pages * PageSize
  /\ Flash0 \in [S!Addr -> S!Byte]
  /\ \A w \in Writes :
       /\ w.start \in S!Addr /\ w.size \in 0 .. PageSize
       /\ w.start + w.size <= AddrSpace
       /\ w.bytes \in [0 .. w.size - 1 -> S!Byte]

NoCall == [start |-> 0, size |-> 0, bytes |-> [j \in 0 .. -1 |-> 0]]
PageIndex == 0 .. PageSize - 1

Init ==
  /\ flash = Flash0 /\ before = Flash0 /\ lost = FALSE
  /\ pc = "idle" /\ call = NoCall /\ i = 0
  /\ tempBuff = [j \in PageIndex |-> 0]
  /\ alignedStartAddr = 0 /\ eraseBuffStart = 0 /\ eraseBuffEnd = 0

Call ==
  /\ pc = "idle"
  /\ call' \in Writes
  /\ i' = 0 /\ before' = flash
  /\ pc' = "loop"
  /\ UNCHANGED <<flash, tempBuff, page, lost>>

(* Definitions whose names end in _fault are faulty variants of the        *)
(* definition that follows them.  No action uses one; each shows that some *)
(* property would notice the fault.                                        *)

UpTo_fault(from, pending) == from + pending

(* eraseBuffEnd: at most the end of the page.                              *)
UpTo(from, pending) ==
  LET end == (from + (pending % ByteSize)) % ByteSize
  IN IF end > PageSize THEN PageSize ELSE end

(* The fault: the page is not read.                                        *)
CopyPage_fault ==
  /\ pc = "loop" /\ i < call.size
  /\ LET addr == call.start + i IN
       /\ alignedStartAddr' = addr - (addr % PageSize)
       /\ eraseBuffStart' = addr % PageSize
       /\ eraseBuffEnd' = UpTo(eraseBuffStart', call.size - i)
  /\ pc' = "erase"
  /\ UNCHANGED <<flash, call, i, tempBuff, history>>

CopyPage ==
  /\ pc = "loop" /\ i < call.size
  /\ LET addr == call.start + i IN
       /\ alignedStartAddr' = addr - (addr % PageSize)
       /\ eraseBuffStart' = addr % PageSize
       /\ eraseBuffEnd' = UpTo(eraseBuffStart', call.size - i)
       /\ tempBuff' = [j \in PageIndex |-> flash[alignedStartAddr' + j]]
  /\ pc' = "erase"
  /\ UNCHANGED <<flash, call, i, history>>

InPage(a) == a - alignedStartAddr \in PageIndex

fls_erasePage ==
  /\ pc = "erase"
  /\ flash' = [a \in S!Addr |-> IF InPage(a) THEN S!Erased ELSE flash[a]]
  /\ pc' = "fill"
  /\ UNCHANGED <<call, i, tempBuff, page, history>>

Fill ==
  /\ pc = "fill"
  /\ tempBuff' = [j \in PageIndex |->
                    IF eraseBuffStart <= j /\ j < eraseBuffEnd
                    THEN call.bytes[i + j - eraseBuffStart] ELSE tempBuff[j]]
  /\ pc' = "write"
  /\ UNCHANGED <<flash, call, i, page, history>>

fls_writePage_fault ==
  /\ pc = "write"
  /\ flash' = [a \in S!Addr |->
                 IF InPage(a) THEN tempBuff[a - alignedStartAddr] ELSE flash[a]]
  /\ pc' = "loop"
  /\ UNCHANGED <<call, i, tempBuff, page, history>>

fls_writePage ==
  /\ pc = "write"
  /\ flash' = [a \in S!Addr |->
                 IF InPage(a) THEN tempBuff[a - alignedStartAddr] ELSE flash[a]]
  /\ i' = i + eraseBuffEnd - eraseBuffStart
  /\ pc' = "loop"
  /\ UNCHANGED <<call, tempBuff, page, history>>

Return ==
  /\ pc = "loop" /\ i >= call.size
  /\ pc' = "idle" /\ lost' = FALSE
  /\ UNCHANGED <<flash, call, i, tempBuff, page, before>>

FLS_write == CopyPage \/ fls_erasePage \/ Fill \/ fls_writePage \/ Return

(* The supply fails: a page that is being erased or written may be left    *)
(* half done, byte by byte.                                                *)
PowerLoss ==
  /\ pc # "idle" /\ pc' = "idle" /\ lost' = TRUE
  /\ \E done \in SUBSET {a \in S!Addr : InPage(a)} :
       flash' = [a \in S!Addr |->
                   IF a \notin done THEN flash[a]
                   ELSE CASE pc = "erase" -> S!Erased
                          [] pc = "write" -> tempBuff[a - alignedStartAddr]
                          [] OTHER        -> flash[a]]
  /\ UNCHANGED <<call, i, tempBuff, page, before>>

Next == Call \/ FLS_write \/ PowerLoss

Spec == Init /\ [][Next]_vars /\ WF_vars(FLS_write)

------------------------------------------------------------------------------
(* Properties.                                                             *)

TypeOK ==
  /\ flash \in [S!Addr -> S!Byte] /\ before \in [S!Addr -> S!Byte]
  /\ lost \in BOOLEAN
  /\ pc \in {"idle", "loop", "erase", "fill", "write"}
  /\ call \in Writes \cup {NoCall}
  /\ i \in 0 .. PageSize
  /\ tempBuff \in [PageIndex -> S!Byte]
  /\ alignedStartAddr \in S!Addr /\ alignedStartAddr % PageSize = 0
  /\ eraseBuffStart \in PageIndex /\ eraseBuffEnd \in 0 .. PageSize

(* Seen from its caller, which waits for it, FLS_write stores its buffer   *)
(* in one step, and after a power loss only one page is in doubt.          *)
Seen == INSTANCE Storage WITH flash <- IF pc = "idle" THEN flash ELSE before
ImplementsStorage == Seen!Spec

(* While a page is erased its bytes outside the buffer are in tempBuff,    *)
(* and nowhere else: until the page is written a power loss costs them.    *)
ErasedIsCopied ==
  pc \in {"fill", "write"} =>
    \A j \in PageIndex :
      LET a == alignedStartAddr + j IN
      IF pc = "write" /\ S!Covers(call, a)
      THEN tempBuff[j] = call.bytes[a - call.start]
      ELSE tempBuff[j] = before[a]

(* FLS_write returns: every page brings it forward, also when the buffer   *)
(* ends with the page (fls.c:56-61, 74).                                   *)
WriteReturns == pc # "idle" ~> pc = "idle"

==============================================================================
