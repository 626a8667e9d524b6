------------------------------ MODULE UsbProofs ------------------------------
(***************************************************************************)
(* Proofs about the USB driver: for all requests, and any number of lost   *)
(* packets and resets, a transfer that the host completes was served with  *)
(* the reply to its own request, device and host agree on the address, and *)
(* every report of the keyboard goes out in its turn.                      *)
(***************************************************************************)
EXTENDS Usb, SequenceTheorems, TLAPS

------------------------------------------------------------------------------
(* The parts of the inductive invariant                                    *)

Active == host.stage \notin {"detached", "idle"}

(* A packet of the transfer is Pending until usbProcessRx has seen it.     *)
Pending(token) == rx.own /\ pc # "release" /\ rx.token = token
Count(token) == IF Pending(token) THEN 1 ELSE 0

(* What the host's request is about.                                       *)
Reads(r) == r.toHost /\ r.wLength # 0
ToUcp(r) == Class(r, "SET_REPORT") /\ r.lo = 2
SetsAddress(r) == Standard(r, "SET_ADDRESS")

Packet == [len : {BlockSize + 3}, token : {"SETUP", "OUT"}, request : Requests,
           own : BOOLEAN]

(* Sets with a name of their own are left to the provers as they are.      *)
MsgLen == {n \in Nat : n <= NoMsg}
Data == Seq(Int)
Block == {d \in Data : Len(d) <= BlockSize}

HostType ==
  [stage : Stages, request : Requests \union {NoRequest}, expect : {0, 1},
   got : Data, addr : Address, configured : BOOLEAN]
CallType ==
  [served : Nat, decoded : Nat, answer : Data, lost : Nat, damaged : BOOLEAN]
MsgType == [len : MsgLen, ptr : Nat, flags : {0, ROM, UserRW}]
HidType ==
  [idle_rate : Byte, protocol_version : Byte,
   custom : 0 .. Customs - 1, report : 0 .. Reports - 1]
Ep1Type ==
  [len : {NAK, KeyReportSize + Overhead}, pid : {0, 1}, data : 0 .. Reports - 1]
TxType == [len : Lengths, pid : {0, 1}, data : Block]

TypeInv ==
  /\ rx \in Packet \union {NoPacket}
  /\ tx \in TxType
  /\ msg \in MsgType
  /\ addr \in [dev : Address, new : Address]
  /\ usbConfiguration \in Byte
  /\ ep1 \in Ep1Type
  /\ hid \in HidType
  /\ pc \in {"poll", "release", "transmit", "send", "line", "ready"}
  /\ line \in {"J", "SE0", "polled", "noticed"}
  /\ host \in HostType
  /\ call \in CallType
  /\ sent \in 0 .. Reports - 1
  /\ bound \in [lost : Nat, resets : Nat]

(* The packet that waits is of the transfer, or of one that was given up;  *)
(* then nothing of the transfer has been seen.                             *)
PacketInv ==
  /\ pc = "release" => rx # NoPacket
  /\ rx.own => Active /\ rx.request = host.request
  /\ rx # NoPacket /\ ~rx.own => call = Fresh /\ host.stage \in {"detached", "idle", "setup"}
  /\ host.stage = "statusOut" => rx = NoPacket
  /\ rx.own /\ rx.token = "OUT" =>
       /\ host.stage \in {"out", "statusIn"}
       /\ ~host.request.toHost /\ host.request.wLength # 0
  /\ call.damaged => rx = NoPacket /\ host.stage \in {"in", "statusIn", "statusOut"}

HostInv ==
  /\ Active => host.request \in Requests
  /\ ~Active => host.request = NoRequest /\ call = Fresh
  /\ host.stage \in {"in", "statusOut"} => Reads(host.request)
  /\ host.stage = "out" => ~host.request.toHost /\ host.request.wLength # 0
  /\ host.stage = "statusIn" => ~Reads(host.request)
  /\ host.stage \notin {"in", "statusOut"} => host.got = <<>>
  /\ host.stage \in {"out", "statusIn"} => host.expect = 1
  /\ host.stage = "in" /\ Pending("SETUP") => host.expect = 1 /\ host.got = <<>>

(* How often the SETUP and the data of the transfer were seen.             *)
CountInv ==
  /\ host.stage = "setup" =>
       call.served + Count("SETUP") = call.lost /\ call.decoded = 0
  /\ host.stage \in {"in", "statusOut"} => call.decoded = 0
  /\ host.stage \in {"in", "out", "statusIn", "statusOut"} =>
       /\ call.served + Count("SETUP") >= 1
       /\ call.served + Count("SETUP") <= 1 + call.lost
       /\ call.served + call.decoded + Count("SETUP") + Count("OUT")
            <= call.lost + IF host.stage = "statusIn" THEN 2 ELSE 1
  /\ call.decoded > 0 => ToUcp(host.request)
  /\ host.stage = "statusIn" /\ ToUcp(host.request) =>
       call.decoded + Count("OUT") > 0

(* A block is complete from "send" on.  A reply that is read from RAM is   *)
(* read whole, in the pass of the main loop that made it.                  *)
Full == ~Idle(tx.len) \/ pc = "send"

BlockInv ==
  /\ pc = "send" => Idle(tx.len)
  /\ ~Full => tx.data = <<>>
  /\ msg.flags # ROM => msg.len <= BlockSize \/ msg.len = NoMsg
  /\ msg.flags # ROM /\ msg.len \notin {0, NoMsg} =>
       pc \in {"release", "transmit"} /\ Idle(tx.len)

(* The request was served and nothing was lost since: what the host has    *)
(* got, the block to send and the rest of the reply are the answer, and    *)
(* the block bears the toggle that the host expects.                       *)
Served == Active /\ call.served > 0 /\ ~Pending("SETUP")
Expected == IF host.stage = "setup" THEN 1 ELSE host.expect
Rest == IF msg.len = NoMsg THEN <<>> ELSE usbDeviceRead(msg.len)

ReplyInv ==
  Served /\ ~call.damaged =>
    /\ msg.flags = UserRW <=> ToUcp(host.request)
    /\ Reads(host.request) /\ host.stage # "statusOut" =>
         /\ host.got \o (tx.data \o Rest) = call.answer
         /\ Len(call.answer) <= host.request.wLength
         /\ tx.pid = IF Full THEN Expected ELSE 1 - Expected
         /\ Full /\ Len(tx.data) < BlockSize => msg.len = NoMsg
    /\ host.stage = "statusOut" => host.got = call.answer
    /\ ~Reads(host.request) => tx.data = <<>> /\ msg.len \in {0, NoMsg}
    /\ host.request.wLength = 0 =>
         /\ tx.pid = IF Full THEN 1 ELSE 0
         /\ ~Full => msg.len = 0

(* A reset of the bus lasts until the device has noticed it.               *)
LineInv ==
  /\ line # "J" => host = HostInit
  /\ line = "polled" => \/ pc = "release"
                        \/ pc \in {"transmit", "send", "line"} /\ rx = NoPacket
  /\ line = "noticed" => rx = NoPacket /\ addr = [dev |-> 0, new |-> 0]

(* Only a SET_ADDRESS of the transfer waits or has set usbNewDeviceAddr.   *)
AddrInv ==
  /\ host.configured => host.addr # 0
  /\ SetsAddress(host.request) => host.addr = 0
  /\ Standard(host.request, "SET_CONFIGURATION") => host.addr # 0
  /\ line = "J" /\ host.stage # "detached" =>
       /\ SetsAddress(rx.request) /\ pc # "release" => rx.own
       /\ \/ addr.dev = host.addr
          \/ SetsAddress(host.request) /\ call.damaged
       /\ SetsAddress(host.request) /\ Served => addr.new = host.request.lo
       /\ ~SetsAddress(host.request) => addr.new = addr.dev

(* The report in endpoint 1 is the next one, until it is sent.             *)
KeyInv ==
  IF Idle(ep1.len) THEN hid.report = sent
  ELSE ep1.data = hid.report /\ hid.report = (sent + 1) % Reports

(* The inductive invariant.                                                *)
Inv ==
  /\ TypeInv /\ PacketInv /\ HostInv /\ CountInv /\ BlockInv /\ ReplyInv
  /\ LineInv /\ AddrInv /\ KeyInv

------------------------------------------------------------------------------
(* Replies                                                                 *)

USE DEF BlockSize, NoMsg, NAK, ROM, UserRW, Idle, Least, Toggled
USE DEF HostType, CallType, MsgType, HidType, Ep1Type, TxType

LEMMA IsSequence ==
  ASSUME NEW n \in Nat, NEW f \in [1 .. n -> Int]
  PROVE  f \in Seq(Int) /\ Len(f) = n
<1>1. f \in Seq(Int)
  BY SeqDef
<1>2. Len(f) \in Nat /\ DOMAIN f = 1 .. Len(f)
  BY <1>1, LenProperties
<1> QED BY <1>1, <1>2

LEMMA Cut ==
  ASSUME NEW n \in Nat, NEW k \in 0 .. n, NEW f \in [1 .. n -> Int]
  PROVE  SubSeq(f, 1, k) = [i \in 1 .. k |-> f[i]]
<1>1. \A i \in 1 .. k : f[i] \in Int
  OBVIOUS
<1>2. /\ SubSeq(f, 1, k) \in Seq(Int)
      /\ Len(SubSeq(f, 1, k)) = IF 1 <= k THEN k - 1 + 1 ELSE 0
      /\ \A i \in 1 .. k - 1 + 1 : SubSeq(f, 1, k)[i] = f[1 + i - 1]
  BY <1>1, SubSeqProperties
<1>3. [i \in 1 .. k |-> f[i]] \in [1 .. k -> Int] /\ k \in Nat
  BY <1>1
<1>4. /\ [i \in 1 .. k |-> f[i]] \in Seq(Int)
      /\ Len([i \in 1 .. k |-> f[i]]) = k
  BY <1>3, IsSequence
<1>5. Len(SubSeq(f, 1, k)) = k
  BY <1>2
<1>6. \A i \in 1 .. k : SubSeq(f, 1, k)[i] = [j \in 1 .. k |-> f[j]][i]
  BY <1>2
<1> QED BY <1>2, <1>4, <1>5, <1>6, SeqEqual

LEMMA RamType == ASSUME TypeInv, NEW p PROVE Ram(p) \in Int
<1>1. /\ usbConfiguration \in Int /\ hid.idle_rate \in Int
      /\ hid.protocol_version \in Int /\ hid.custom \in Int /\ hid.report \in Int
  BY BoundsAssumption DEF TypeInv, Byte
<1> QED BY <1>1 DEF Ram, Zero, Configuration, IdleRate, Protocol, KeyReport,
       CustomReport

LEMMA ReadType ==
  ASSUME TypeInv, NEW n \in Nat
  PROVE  usbDeviceRead(n) \in Seq(Int) /\ Len(usbDeviceRead(n)) = n
<1>1. msg.ptr \in Nat
  BY DEF TypeInv
<1>2. \A i \in 1 .. n : msg.ptr + i - 1 \in Int /\ Ram(msg.ptr + i - 1) \in Int
  BY <1>1, RamType
<1>3. usbDeviceRead(n) \in [1 .. n -> Int]
  BY <1>2 DEF usbDeviceRead
<1> QED BY <1>3, IsSequence

LEMMA RestType == ASSUME TypeInv PROVE Rest \in Seq(Int)
<1>1. msg.len # NoMsg => msg.len \in Nat
  BY DEF TypeInv, MsgLen
<1>2. msg.len # NoMsg => usbDeviceRead(msg.len) \in Seq(Int)
  BY <1>1, ReadType
<1> QED BY <1>2 DEF Rest

LEMMA Concat ==
  ASSUME NEW n \in Nat, NEW m \in Nat,
         NEW u \in [1 .. n -> Int], NEW v \in [1 .. m -> Int]
  PROVE  /\ u \o v \in Seq(Int) /\ Len(u \o v) = n + m
         /\ \A i \in 1 .. n + m : (u \o v)[i] = IF i <= n THEN u[i] ELSE v[i - n]
<1>1. u \in Seq(Int) /\ Len(u) = n
  BY IsSequence
<1>2. v \in Seq(Int) /\ Len(v) = m
  BY IsSequence
<1>3. /\ u \o v \in Seq(Int) /\ Len(u \o v) = Len(u) + Len(v)
      /\ \A i \in 1 .. Len(u) + Len(v) :
           (u \o v)[i] = IF i <= Len(u) THEN u[i] ELSE v[i - Len(u)]
  BY <1>1, <1>2, ConcatProperties
<1> QED BY <1>1, <1>2, <1>3

LEMMA Adjacent ==
  ASSUME NEW n \in Nat, NEW m \in Nat, NEW k, k = n + m,
         NEW w \in [1 .. k -> Int],
         NEW u \in [1 .. n -> Int], NEW v \in [1 .. m -> Int],
         \A i \in 1 .. n : u[i] = w[i], \A i \in 1 .. m : v[i] = w[n + i]
  PROVE  u \o v = w
<1>3. w \in Seq(Int) /\ Len(w) = k
  <2>1. k \in Nat /\ k = n + m
    OBVIOUS
  <2> QED BY <2>1, IsSequence
<1>4. /\ u \o v \in Seq(Int) /\ Len(u \o v) = k
      /\ \A i \in 1 .. n + m : (u \o v)[i] = IF i <= n THEN u[i] ELSE v[i - n]
  BY Concat
<1>5. ASSUME NEW i \in 1 .. n + m PROVE (u \o v)[i] = w[i]
  <2>1. CASE i <= n
    BY <2>1, <1>4
  <2>2. CASE ~(i <= n)
    <3>1. i - n \in 1 .. m /\ n + (i - n) = i
      BY <2>2
    <3>2. v[i - n] = w[i]
      BY <3>1
    <3> QED BY <2>2, <3>2, <1>4
  <2> QED BY <2>1, <2>2
<1> QED BY <1>3, <1>4, <1>5, SeqEqual

(* A block and what is left of the reply make up what was left before.     *)
LEMMA BlockSplits ==
  ASSUME TypeInv, TypeInv', usbBuildTxBlock
  PROVE  tx'.data \o Rest' = Rest
<1> PICK n \in 0 .. BlockSize : n = Least(msg.len, BlockSize)
  BY DEF TypeInv, MsgLen
<1>1. /\ msg.len \in Nat /\ msg.len < NoMsg /\ n <= msg.len /\ tx'.data = usbDeviceRead(n)
      /\ msg' = Message(IF n < BlockSize THEN NoMsg ELSE msg.len - n,
                        msg.ptr + n, msg.flags)
      /\ msg.ptr \in Nat /\ UNCHANGED <<hid, usbConfiguration>>
  BY DEF usbBuildTxBlock, TypeInv, MsgLen
<1> PICK m \in Nat : msg.len = n + m
  <2>1. msg.len - n \in Nat /\ msg.len = n + (msg.len - n)
    BY <1>1
  <2> QED BY <2>1
<1>a. msg.ptr \in Nat /\ msg.len - n = m
  BY <1>1
<1>2. Rest = usbDeviceRead(n + m)
  <2>1. msg.len # NoMsg
    BY <1>1
  <2>2. Rest = usbDeviceRead(msg.len)
    BY <2>1 DEF Rest
  <2> QED BY <2>2
<1>3. n \in Nat /\ n + m \in Nat
  OBVIOUS
<1>4. \A i \in 1 .. n + m : msg.ptr + i - 1 \in Int /\ Ram(msg.ptr + i - 1) \in Int
  <2> PICK q \in Nat : q = msg.ptr
    BY <1>a
  <2>1. \A i \in 1 .. n + m : msg.ptr + i - 1 \in Int
    OBVIOUS
  <2> QED BY <2>1, RamType
<1>5. usbDeviceRead(n) \in [1 .. n -> Int]
  BY <1>4 DEF usbDeviceRead
<1>6. usbDeviceRead(n + m) \in [1 .. n + m -> Int]
  BY <1>4 DEF usbDeviceRead
<1>7. \A i \in 1 .. n : usbDeviceRead(n)[i] = usbDeviceRead(n + m)[i]
  BY DEF usbDeviceRead
<1>8. CASE m = 0
  <2>1. n + m = n
    BY <1>8
  <2>2. Rest' = <<>>
    <3>1. msg'.len = NoMsg \/ msg'.len = 0
      BY <1>1, <1>a, <1>8 DEF Message
    <3>2. (usbDeviceRead(0))' = <<>>
      BY DEF usbDeviceRead
    <3> QED BY <3>1, <3>2 DEF Rest
  <2>3. usbDeviceRead(n) \in Seq(Int)
    BY <1>3, <1>5, IsSequence
  <2> QED BY <2>1, <2>2, <2>3, <1>1, <1>2, ConcatEmptySeq
<1>9. CASE m # 0
  <2>1. msg'.len = m /\ msg'.flags = msg.flags /\ msg'.ptr = msg.ptr + n
    <3>1. n = BlockSize /\ msg.len - n = m
      BY <1>1, <1>9
    <3> QED BY <3>1, <1>1, <1>9 DEF Message
  <2>2. Rest' = (usbDeviceRead(m))'
    <3>1. m # NoMsg
      BY <1>1
    <3> QED BY <2>1, <3>1 DEF Rest
  <2>3. \A i \in 1 .. m :
          /\ n + i \in 1 .. n + m
          /\ msg'.ptr + i - 1 = msg.ptr + (n + i) - 1
          /\ (Ram(msg.ptr + i - 1))' = Ram(msg.ptr + (n + i) - 1)
    BY <1>1, <2>1 DEF Ram
  <2>4. \A i \in 1 .. m :
          (IF msg.flags = ROM THEN msg.ptr + i - 1 ELSE Ram(msg.ptr + i - 1))'
            = usbDeviceRead(n + m)[n + i]
    BY <2>1, <2>3 DEF usbDeviceRead
  <2>5. \A i \in 1 .. m : usbDeviceRead(n + m)[n + i] \in Int
    BY <1>6, <2>3
  <2>6. /\ (usbDeviceRead(m))' \in [1 .. m -> Int]
        /\ \A i \in 1 .. m : (usbDeviceRead(m))'[i] = usbDeviceRead(n + m)[n + i]
    <3> DEFINE part == [i \in 1 .. m |-> usbDeviceRead(n + m)[n + i]]
    <3>1. (usbDeviceRead(m))' = part
      BY <2>4 DEF usbDeviceRead
    <3>2. part \in [1 .. m -> Int] /\ \A i \in 1 .. m : part[i] = usbDeviceRead(n + m)[n + i]
      BY <2>5
    <3> HIDE DEF part
    <3> QED BY <3>1, <3>2
  <2> PICK w \in [1 .. n + m -> Int] : w = usbDeviceRead(n + m)
    BY <1>6
  <2> PICK u \in [1 .. n -> Int] : u = usbDeviceRead(n)
    BY <1>5
  <2> PICK v \in [1 .. m -> Int] : v = (usbDeviceRead(m))'
    BY <2>6
  <2>7. (\A i \in 1 .. n : u[i] = w[i]) /\ (\A i \in 1 .. m : v[i] = w[n + i])
    BY <1>7, <2>6
  <2>8. u \o v = w
    <3> PICK k : k = n + m
      OBVIOUS
    <3> QED BY <2>7, <1>3, Adjacent
  <2>9. tx'.data = u /\ Rest' = v /\ Rest = w
    BY <1>1, <1>2, <2>2
  <2> QED BY <2>8, <2>9
<1> QED BY <1>8, <1>9

LEMMA RequestType ==
  ASSUME NEW r \in Requests
  PROVE  /\ r.type \in {"standard", "class", "vendor"}
         /\ r.bRequest \in GetRequests \union SetRequests
         /\ r.lo \in Byte /\ r.hi \in Byte /\ r.wLength \in Nat
         /\ r.toHost \in BOOLEAN /\ r.packet \in 0 .. Customs - 1
         /\ r.toHost <=> r.bRequest \in GetRequests
         /\ r.bRequest = "SET_ADDRESS" => r.lo \in Address /\ r.wLength = 0
         /\ r.bRequest = "SET_REPORT" => r.wLength # 0
<1>1. r \in Request
  BY RequestsAssumption
<1>2. /\ r.type \in {"standard", "class", "vendor"}
      /\ r.bRequest \in GetRequests \union SetRequests
      /\ r.lo \in Byte /\ r.hi \in Byte /\ r.wLength \in Word
      /\ r.packet \in Content /\ r.toHost \in BOOLEAN
  BY <1>1 DEF Request
<1>3. /\ r.toHost <=> r.bRequest \in GetRequests
      /\ r.bRequest = "SET_ADDRESS" => r.lo \in Address /\ r.wLength = 0
      /\ r.bRequest = "SET_REPORT" => r.wLength > 0
  BY RequestsAssumption, Zenon
<1>4. r.wLength \in Nat /\ (r.bRequest = "SET_REPORT" => r.wLength # 0)
  BY <1>2, <1>3 DEF Word
<1> QED BY <1>2, <1>3, <1>4, Zenon DEF Content

(* The bytes at p are those of whole.                                      *)
Holds(whole, n, p, flags) ==
  \A i \in 1 .. n : whole[i] = IF flags = ROM THEN p + i - 1 ELSE Ram(p + i - 1)

(* The bytes a reply is read from, cut to what the host asked for.         *)
LEMMA ReplyIs ==
  ASSUME NEW r \in Requests, NEW n \in Nat, n < NoMsg, NEW p \in Nat,
         NEW flags \in {0, ROM}, Reply(r, n, p, flags),
         NEW whole \in [1 .. n -> Int], Holds(whole, n, p, flags)'
  PROVE  /\ msg' \in MsgType
         /\ msg'.flags = flags /\ msg'.len \in 0 .. n
         /\ r.wLength = 0 => msg'.len = 0
         /\ Rest' = SubSeq(whole, 1, Least(Len(whole), r.wLength))
         /\ Rest' \in Seq(Int) /\ Len(Rest') <= r.wLength
<1> PICK k \in 0 .. n : k = Least(n, r.wLength) /\ k <= r.wLength
  BY RequestType
<1>1. /\ msg'.len = k /\ msg'.flags = flags
      /\ msg'.ptr = IF k = 0 THEN 0 ELSE p
      /\ msg' = [len |-> k, ptr |-> IF k = 0 THEN 0 ELSE p, flags |-> flags]
  BY DEF Reply, Message
<1>2. Len(whole) = n
  BY IsSequence
<1>3. SubSeq(whole, 1, Least(Len(whole), r.wLength)) = [i \in 1 .. k |-> whole[i]]
  BY <1>2, Cut
<1>4. Rest' = (usbDeviceRead(k))'
  BY <1>1 DEF Rest
<1>5. \A i \in 1 .. k :
        whole[i] = (IF msg.flags = ROM THEN msg.ptr + i - 1 ELSE Ram(msg.ptr + i - 1))'
  BY <1>1 DEF Holds
<1>6. Rest' = [i \in 1 .. k |-> whole[i]]
  BY <1>4, <1>5 DEF usbDeviceRead
<1>7. [i \in 1 .. k |-> whole[i]] \in [1 .. k -> Int] /\ k \in Nat
  OBVIOUS
<1>8. Rest' \in Seq(Int) /\ Len(Rest') = k
  BY <1>6, <1>7, IsSequence
<1>9. Len(Rest') <= r.wLength
  BY <1>8
<1>10. r.wLength = 0 => k = 0
  OBVIOUS
<1>11. /\ Rest' = SubSeq(whole, 1, Least(Len(whole), r.wLength))
       /\ Rest' \in Seq(Int)
  BY <1>3, <1>6, <1>8
<1>12. msg' \in MsgType
  <2>1. k \in MsgLen /\ (IF k = 0 THEN 0 ELSE p) \in Nat
        /\ flags \in {0, ROM, UserRW}
    BY DEF MsgLen
  <2> QED BY <2>1, <1>1
<1> QED BY <1>1, <1>9, <1>10, <1>11, <1>12

(* The answer is what there is, cut to what the host asked for.            *)
LEMMA MeantType ==
  ASSUME NEW r \in Requests, NEW n \in Nat, Asked(r) \in [1 .. n -> Int]
  PROVE  Meant(r) \in Seq(Int) /\ Len(Meant(r)) <= r.wLength
<1> PICK k \in 0 .. n : k = Least(n, r.wLength) /\ k <= r.wLength
  BY RequestType
<1> PICK whole \in [1 .. n -> Int] : whole = Asked(r)
  OBVIOUS
<1>1. Len(whole) = n
  BY IsSequence
<1>2. Meant(r) = [i \in 1 .. k |-> whole[i]]
  BY <1>1, Cut DEF Meant
<1>3. [i \in 1 .. k |-> whole[i]] \in [1 .. k -> Int] /\ k \in Nat
  OBVIOUS
<1>4. Meant(r) \in Seq(Int) /\ Len(Meant(r)) = k
  BY <1>2, <1>3, IsSequence
<1> QED BY <1>4

LEMMA DescriptorType ==
  ASSUME NEW r
  PROVE  /\ usbDriverDescriptor(r).at \in Nat
         /\ usbDriverDescriptor(r).len \in Nat
         /\ usbDriverDescriptor(r).len < NoMsg
BY DEF usbDriverDescriptor, DeviceDescriptor, ConfigurationDescriptor,
       StringDescriptor, HidDescriptor, HidReportDescriptor, NoDescriptor

LEMMA AskedIs ==
  ASSUME NEW r
  PROVE  /\ Standard(r, "GET_DESCRIPTOR") =>
              Asked(r) = Descriptor(usbDriverDescriptor(r))
         /\ Standard(r, "GET_STATUS") => Asked(r) = Bytes(2, 0)
         /\ Standard(r, "GET_CONFIGURATION") => Asked(r) = Bytes(1, usbConfiguration)
         /\ Standard(r, "GET_INTERFACE") => Asked(r) = Bytes(1, 0)
         /\ Class(r, "GET_IDLE") => Asked(r) = Bytes(1, hid.idle_rate)
         /\ Class(r, "GET_PROTOCOL") => Asked(r) = Bytes(1, hid.protocol_version)
         /\ Class(r, "GET_REPORT") /\ r.lo = 1 => Asked(r) = Bytes(3, hid.report)
         /\ Class(r, "GET_REPORT") /\ r.lo = 2 =>
              Asked(r) = Bytes(8, (hid.custom + 1) % Customs)
         /\ r.type = "vendor" => Asked(r) = <<>>
         /\ Class(r, "GET_REPORT") /\ r.lo \notin {1, 2} => Asked(r) = <<>>
BY DEF Asked, Standard, Class

LEMMA AskedType ==
  ASSUME TypeInv, NEW r
  PROVE  \E n \in Nat : Asked(r) \in [1 .. n -> Int]
<1>1. ASSUME NEW n \in Nat, NEW b \in Int PROVE Bytes(n, b) \in [1 .. n -> Int]
  BY DEF Bytes
<1>2. /\ usbConfiguration \in Int /\ hid.idle_rate \in Int
      /\ hid.protocol_version \in Int /\ hid.report \in Int
      /\ (hid.custom + 1) % Customs \in Int
  BY BoundsAssumption DEF TypeInv, Byte
<1>3. Descriptor(usbDriverDescriptor(r)) \in [1 .. usbDriverDescriptor(r).len -> Int]
  BY DescriptorType DEF Descriptor
<1>4. <<>> \in [1 .. 0 -> Int]
  OBVIOUS
<1>5. \/ Asked(r) = Descriptor(usbDriverDescriptor(r))
      \/ Asked(r) = <<>>
      \/ Asked(r) \in {Bytes(2, 0), Bytes(1, usbConfiguration), Bytes(1, 0),
                       Bytes(1, hid.idle_rate), Bytes(1, hid.protocol_version),
                       Bytes(3, hid.report),
                       Bytes(8, (hid.custom + 1) % Customs)}
  BY DEF Asked
<1>6. CASE Asked(r) = Descriptor(usbDriverDescriptor(r))
  BY <1>3, <1>6, DescriptorType
<1>7. CASE Asked(r) = <<>>
  BY <1>4, <1>7
<1>8. CASE Asked(r) \in {Bytes(2, 0), Bytes(1, usbConfiguration), Bytes(1, 0),
                        Bytes(1, hid.idle_rate), Bytes(1, hid.protocol_version),
                        Bytes(3, hid.report),
                        Bytes(8, (hid.custom + 1) % Customs)}
  <2>1. \E n \in {1, 2, 3, 8}, b \in Int : Asked(r) = Bytes(n, b)
    BY <1>2, <1>8
  <2> QED BY <1>1, <2>1
<1> QED BY <1>5, <1>6, <1>7, <1>8

(* What a handler leaves in usbMsgLen, usbMsgPtr and usbMsgFlags.          *)
Prepared(r) ==
  /\ msg' \in MsgType
  /\ msg'.flags = UserRW <=> ToUcp(r)
  /\ msg'.flags # ROM => msg'.len <= BlockSize \/ msg'.len = NoMsg
  /\ Reads(r) => msg'.len # NoMsg /\ Rest' = Meant(r)
  /\ ~Reads(r) => msg'.len \in {0, NoMsg}
  /\ r.wLength = 0 => msg'.len = 0

LEMMA Answered ==
  ASSUME NEW r \in Requests, NEW n \in Nat, n < NoMsg, NEW p \in Nat,
         NEW flags \in {0, ROM}, Reply(r, n, p, flags),
         r.toHost, ~ToUcp(r), flags = 0 => n <= BlockSize,
         NEW whole \in [1 .. n -> Int], whole = Asked(r),
         Holds(whole, n, p, flags)'
  PROVE  Prepared(r)
<1>2. /\ msg' \in MsgType
      /\ msg'.flags = flags /\ msg'.len \in 0 .. n
      /\ r.wLength = 0 => msg'.len = 0
      /\ Rest' = SubSeq(whole, 1, Least(Len(whole), r.wLength))
  BY ReplyIs
<1>3. Rest' = Meant(r)
  BY <1>2 DEF Meant
<1>4. msg'.len # NoMsg /\ (msg'.flags # ROM => msg'.len <= BlockSize)
  BY <1>2
<1>5. ~Reads(r) => msg'.len = 0
  BY <1>2 DEF Reads
<1>6. msg'.flags # UserRW
  BY <1>2
<1> QED BY <1>2, <1>3, <1>4, <1>5, <1>6, Zenon DEF Prepared

LEMMA AnsweredNothing ==
  ASSUME NEW r \in Requests, ReplyNothing(r), ~ToUcp(r),
         Reads(r) => Asked(r) = <<>>
  PROVE  Prepared(r)
<1>1. r.wLength \in Nat /\ Least(0, r.wLength) = 0
  BY RequestType
<1>2. msg' = [len |-> 0, ptr |-> 0, flags |-> 0]
  BY <1>1 DEF ReplyNothing, Reply, Message
<1>3. Rest' = <<>>
  BY <1>2 DEF Rest, usbDeviceRead
<1>4. Asked(r) = <<>> => Meant(r) = <<>>
  <2>1. Least(Len(<<>>), r.wLength) = 0
    BY <1>1
  <2>2. SubSeq(<<>>, 1, 0) = <<>>
    BY SubSeqEmpty
  <2> QED BY <2>1, <2>2 DEF Meant
<1> QED BY <1>2, <1>3, <1>4 DEF Prepared, MsgLen

USE DEF Zero, Configuration, IdleRate, Protocol, KeyReport, CustomReport,
        KeyReportSize, CustomReportSize

LEMMA RequestKinds ==
  ASSUME NEW r \in Requests
  PROVE  /\ r.bRequest \in GetRequests <=> r.toHost
         /\ r.bRequest \in SetRequests <=> ~r.toHost
<1>1. GetRequests \cap SetRequests = {}
  BY DEF GetRequests, SetRequests
<1> QED BY <1>1, RequestType, Zenon

(* A reply of n bytes from p in RAM, all b when the handler returns.       *)
LEMMA VariableAnswered ==
  ASSUME NEW r \in Requests, r.toHost, ~ToUcp(r),
         NEW n \in Nat, n <= BlockSize, NEW p \in Nat, Reply(r, n, p, 0),
         NEW b \in Int, Asked(r) = Bytes(n, b),
         \A i \in 1 .. n : (Ram(p + i - 1))' = b
  PROVE  Prepared(r)
<1> PICK flags \in {0, ROM} : flags = 0
  OBVIOUS
<1> PICK whole : whole = Bytes(n, b)
  OBVIOUS
<1>1. whole \in [1 .. n -> Int] /\ whole = Asked(r)
  BY DEF Bytes
<1>2. Holds(whole, n, p, flags)'
  <2>1. \A i \in 1 .. n : whole[i] = b
    BY DEF Bytes
  <2>2. flags # ROM
    OBVIOUS
  <2>3. \A i \in 1 .. n : whole[i] = (Ram(p + i - 1))'
    BY <2>1
  <2> QED BY <2>2, <2>3 DEF Holds
<1>3. n < NoMsg /\ (flags = 0 => n <= BlockSize)
  OBVIOUS
<1>4. Reply(r, n, p, flags)
  OBVIOUS
<1> QED BY <1>1, <1>2, <1>3, <1>4, Answered

LEMMA StandardPrepares ==
  ASSUME TypeInv, NEW r \in Requests, r.type = "standard", usbDriverSetup(r)
  PROVE  Prepared(r)
<1>1. CASE GetStandard(r)
  <2>1. r.bRequest \in GetRequests /\ r.toHost /\ ~ToUcp(r)
    BY <1>1, RequestKinds DEF GetStandard, StandardVariable, GetRequests, ToUcp, Class
  <2>2. UNCHANGED <<usbConfiguration, hid>> /\ usbConfiguration \in Int
    BY <1>1 DEF GetStandard, TypeInv, Byte
  <2>3. CASE r.bRequest = "GET_STATUS"
    <3>1. Reply(r, 2, Zero, 0)
      BY <1>1, <2>3 DEF GetStandard, StandardVariable
    <3>2. Asked(r) = Bytes(2, 0)
      BY <2>3, AskedIs DEF Standard
    <3>3. \A i \in 1 .. 2 : (Ram(Zero + i - 1))' = 0
      BY DEF Ram
    <3>4. 2 \in Nat /\ 2 <= BlockSize /\ Zero \in Nat /\ 0 \in Int
      OBVIOUS
    <3> QED BY <2>1, <3>1, <3>2, <3>3, <3>4, VariableAnswered
  <2>4. CASE r.bRequest = "GET_INTERFACE"
    <3>1. Reply(r, 1, Zero, 0)
      BY <1>1, <2>4 DEF GetStandard, StandardVariable
    <3>2. Asked(r) = Bytes(1, 0)
      BY <1>1, <2>4, AskedIs DEF Standard
    <3>3. \A i \in 1 .. 1 : (Ram(Zero + i - 1))' = 0
      BY DEF Ram
    <3>4. 1 \in Nat /\ 1 <= BlockSize /\ Zero \in Nat /\ 0 \in Int
      OBVIOUS
    <3> QED BY <2>1, <3>1, <3>2, <3>3, <3>4, VariableAnswered
  <2>5. CASE r.bRequest = "GET_CONFIGURATION"
    <3> PICK b \in Int : b = usbConfiguration
      BY <2>2
    <3>1. Reply(r, 1, Configuration, 0)
      BY <1>1, <2>5 DEF GetStandard, StandardVariable
    <3>2. Asked(r) = Bytes(1, b)
      BY <1>1, <2>5, AskedIs DEF Standard
    <3>3. \A i \in 1 .. 1 : (Ram(Configuration + i - 1))' = b
      BY <2>2 DEF Ram
    <3>4. 1 \in Nat /\ 1 <= BlockSize /\ Configuration \in Nat
      OBVIOUS
    <3> QED BY <2>1, <3>1, <3>2, <3>3, <3>4, VariableAnswered
  <2> QED BY <2>3, <2>4, <2>5, <1>1 DEF GetStandard, StandardVariable
<1>2. CASE GetDescriptor(r)
  <2> DEFINE d == usbDriverDescriptor(r)
  <2>1. Standard(r, "GET_DESCRIPTOR") /\ Reply(r, d.len, d.at, ROM)
    BY <1>2 DEF GetDescriptor
  <2>2. r.toHost /\ ~ToUcp(r)
    BY <2>1, RequestKinds DEF Standard, GetRequests, ToUcp, Class
  <2>3. d.at \in Nat /\ d.len \in Nat /\ d.len < NoMsg
    BY DescriptorType
  <2>4. Asked(r) = Descriptor(d)
    BY <2>1, AskedIs
  <2>5. Descriptor(d) \in [1 .. d.len -> Int] /\ Holds(Descriptor(d), d.len, d.at, ROM)'
    BY <2>3 DEF Descriptor, Holds
  <2> HIDE DEF d
  <2> QED BY <2>1, <2>2, <2>3, <2>4, <2>5, Answered
<1>3. CASE \/ SetAddress(r) \/ SetConfiguration(r) \/ SetInterface(r)
           \/ OtherStandard(r)
  <2>1. ReplyNothing(r) /\ r.bRequest \in SetRequests /\ ~ToUcp(r)
    BY <1>3 DEF SetAddress, SetConfiguration, SetInterface, OtherStandard,
                Standard, SetRequests, ToUcp, Class
  <2>2. ~Reads(r)
    BY <2>1, RequestKinds DEF Reads
  <2> QED BY <2>1, <2>2, AnsweredNothing
<1> QED BY <1>1, <1>2, <1>3 DEF usbDriverSetup

LEMMA ClassPrepares ==
  ASSUME TypeInv, NEW r \in Requests, r.type # "standard", usbFunctionSetup(r)
  PROVE  Prepared(r)
<1>t. /\ hid.idle_rate \in Int /\ hid.protocol_version \in Int
      /\ hid.report \in Int /\ (hid.custom + 1) % Customs \in Int
  BY BoundsAssumption DEF TypeInv, Byte
<1>1. CASE GetClass(r)
  <2>1. UNCHANGED hid
    BY <1>1 DEF GetClass
  <2>2. \/ Class(r, "GET_IDLE") /\ Reply(r, 1, IdleRate, 0)
        \/ Class(r, "GET_PROTOCOL") /\ Reply(r, 1, Protocol, 0)
        \/ Class(r, "GET_REPORT") /\ r.lo = 1 /\ Reply(r, 3, KeyReport, 0)
    BY <1>1 DEF GetClass, ClassVariable, Class, NoDescriptor
  <2>3. r.toHost /\ ~ToUcp(r)
    BY <2>2, RequestKinds DEF Class, GetRequests, ToUcp
  <2>4. 1 \in Nat /\ 1 <= BlockSize /\ IdleRate \in Nat /\ Protocol \in Nat
    OBVIOUS
  <2>5. CASE Class(r, "GET_IDLE") /\ Reply(r, 1, IdleRate, 0)
    <3> PICK b \in Int : b = hid.idle_rate
      BY <1>t
    <3>1. Asked(r) = Bytes(1, b)
      BY <2>5, AskedIs
    <3>2. \A i \in 1 .. 1 : (Ram(IdleRate + i - 1))' = b
      BY <2>1 DEF Ram
    <3> QED BY <2>3, <2>4, <2>5, <3>1, <3>2, VariableAnswered
  <2>6. CASE Class(r, "GET_PROTOCOL") /\ Reply(r, 1, Protocol, 0)
    <3> PICK b \in Int : b = hid.protocol_version
      BY <1>t
    <3>1. Asked(r) = Bytes(1, b)
      BY <2>6, AskedIs
    <3>2. \A i \in 1 .. 1 : (Ram(Protocol + i - 1))' = b
      BY <2>1 DEF Ram
    <3> QED BY <2>3, <2>4, <2>6, <3>1, <3>2, VariableAnswered
  <2>7. CASE Class(r, "GET_REPORT") /\ r.lo = 1 /\ Reply(r, 3, KeyReport, 0)
    <3> PICK b \in Int : b = hid.report
      BY <1>t
    <3>1. Asked(r) = Bytes(3, b)
      BY <2>7, AskedIs
    <3>2. \A i \in 1 .. 3 : (Ram(KeyReport + i - 1))' = b
      BY <2>1 DEF Ram
    <3>3. 3 \in Nat /\ 3 <= BlockSize /\ KeyReport \in Nat
      OBVIOUS
    <3> QED BY <2>3, <2>7, <3>1, <3>2, <3>3, VariableAnswered
  <2> QED BY <2>2, <2>5, <2>6, <2>7
<1>2. CASE GetCustomReport(r)
  <2>1. /\ Class(r, "GET_REPORT") /\ r.lo = 2 /\ Reply(r, 8, CustomReport, 0)
        /\ hid'.custom = (hid.custom + 1) % Customs
    BY <1>2 DEF GetCustomReport, TypeInv
  <2>2. r.toHost /\ ~ToUcp(r)
    BY <2>1, RequestKinds DEF Class, GetRequests, ToUcp
  <2> PICK b \in Int : b = (hid.custom + 1) % Customs
    BY <1>t
  <2>3. Asked(r) = Bytes(8, b)
    BY <2>1, AskedIs
  <2>4. \A i \in 1 .. 8 : (Ram(CustomReport + i - 1))' = b
    BY <2>1 DEF Ram
  <2>5. 8 \in Nat /\ 8 <= BlockSize /\ CustomReport \in Nat
    OBVIOUS
  <2> QED BY <2>1, <2>2, <2>3, <2>4, <2>5, VariableAnswered
<1>3. CASE SetCustomReport(r)
  <2>1. /\ Class(r, "SET_REPORT") /\ r.lo = 2
        /\ msg' = [len |-> NoMsg, ptr |-> 0, flags |-> UserRW]
    BY <1>3 DEF SetCustomReport, Message
  <2>2. ToUcp(r) /\ r.wLength # 0 /\ r.bRequest \in SetRequests
    BY <2>1, RequestType DEF ToUcp, Class, SetRequests
  <2>3. ~Reads(r)
    BY <2>2, RequestKinds DEF Reads
  <2> QED BY <2>1, <2>2, <2>3 DEF Prepared, MsgLen
<1>4. CASE SetIdleOrProtocol(r)
  <2>1. ReplyNothing(r) /\ r.bRequest \in SetRequests /\ ~ToUcp(r)
    BY <1>4 DEF SetIdleOrProtocol, Class, SetRequests, ToUcp
  <2>2. ~Reads(r)
    BY <2>1, RequestKinds DEF Reads
  <2> QED BY <2>1, <2>2, AnsweredNothing
<1>5. CASE IgnoreRequest(r)
  <2>1. ReplyNothing(r) /\ ~ToUcp(r)
    BY <1>5 DEF IgnoreRequest, Class, ToUcp
  <2>2. Reads(r) => Asked(r) = <<>>
    <3>1. CASE r.type = "vendor" \/ (Class(r, "GET_REPORT") /\ r.lo \notin {1, 2})
      BY <3>1, AskedIs
    <3>2. CASE Class(r, "SET_REPORT")
      BY <3>2, RequestKinds DEF Class, SetRequests, Reads
    <3> QED BY <1>5, <3>1, <3>2 DEF IgnoreRequest
  <2> QED BY <2>1, <2>2, AnsweredNothing
<1> QED BY <1>1, <1>2, <1>3, <1>4, <1>5 DEF usbFunctionSetup

LEMMA PacketFacts ==
  ASSUME TypeInv, rx # NoPacket
  PROVE  /\ rx \in Packet /\ rx.request \in Requests /\ rx.own \in BOOLEAN
         /\ rx.token \in {"SETUP", "OUT"} /\ rx.len = 11
BY DEF TypeInv, Packet

LEMMA NoPacketFacts ==
  /\ NoPacket.len = 0 /\ NoPacket.own = FALSE /\ NoPacket.token = "NONE"
  /\ NoPacket.request = NoRequest
BY DEF NoPacket

(* What the handlers change besides the reply.                             *)
LEMMA SetupEffect ==
  ASSUME TypeInv, pc = "poll", rx # NoPacket, ProcessSetup
  PROVE  /\ rx.token = "SETUP" /\ rx.request \in Requests
         /\ Prepared(rx.request)
         /\ tx' = [len |-> NAK, pid |-> 0, data |-> <<>>]
         /\ call' = IF rx.own
                     THEN [call EXCEPT !.served = @ + 1, !.answer = Meant(rx.request)]
                     ELSE call
         /\ addr' = IF SetsAddress(rx.request)
                     THEN [addr EXCEPT !.new = rx.request.lo] ELSE addr
         /\ usbConfiguration' \in Byte
         /\ ep1' = [ep1 EXCEPT !.pid = ep1'.pid] /\ ep1'.pid \in {0, 1}
         /\ hid' \in HidType
         /\ hid'.report = hid.report
         /\ sent' = sent
<1> PICK r \in Requests : r = rx.request
  BY PacketFacts
<1>1. r.lo \in Byte /\ r.hi \in Byte
  BY RequestType
<1>2. /\ rx.token = "SETUP" /\ tx' = [len |-> NAK, pid |-> 0, data |-> <<>>]
      /\ call' = IF rx.own
                  THEN [call EXCEPT !.served = @ + 1, !.answer = Meant(rx.request)]
                  ELSE call
      /\ sent' = sent
  BY DEF ProcessSetup, TxReset
<1>3. CASE r.type = "standard"
  <2>1. usbDriverSetup(r)
    BY <1>3 DEF ProcessSetup
  <2>2. Prepared(r)
    BY <1>3, <2>1, StandardPrepares
  <2>3. hid' = hid
    BY <2>1 DEF usbDriverSetup, GetStandard, GetDescriptor, SetAddress,
                SetConfiguration, SetInterface, OtherStandard
  <2>4. addr' = IF SetsAddress(r) THEN [addr EXCEPT !.new = r.lo] ELSE addr
    BY <2>1 DEF usbDriverSetup, GetStandard, GetDescriptor, SetAddress, SetsAddress,
                SetConfiguration, SetInterface, OtherStandard, Standard, StandardVariable
  <2>5. usbConfiguration' \in Byte
    BY <1>1, <2>1 DEF usbDriverSetup, GetStandard, GetDescriptor, SetAddress,
                SetConfiguration, SetInterface, OtherStandard, TypeInv
  <2>6. ep1' = [ep1 EXCEPT !.pid = ep1'.pid] /\ ep1'.pid \in {0, 1}
    BY <2>1 DEF usbDriverSetup, GetStandard, GetDescriptor, SetAddress,
                SetConfiguration, SetInterface, OtherStandard, TypeInv
  <2> QED BY <1>2, <2>2, <2>3, <2>4, <2>5, <2>6 DEF TypeInv
<1>4. CASE r.type # "standard"
  <2>1. usbFunctionSetup(r)
    BY <1>4 DEF ProcessSetup
  <2>2. Prepared(r)
    BY <1>4, <2>1, ClassPrepares
  <2>3. UNCHANGED <<addr, usbConfiguration, ep1>> /\ ~SetsAddress(r)
    BY <1>4, <2>1 DEF usbFunctionSetup, SetsAddress, Standard
  <2>4. /\ hid' \in HidType
        /\ hid'.report = hid.report
    <3>1. (hid.custom + 1) % Customs \in 0 .. Customs - 1
      BY BoundsAssumption DEF TypeInv
    <3> QED BY <1>1, <2>1, <3>1
      DEF usbFunctionSetup, GetClass, SetIdleOrProtocol, GetCustomReport,
          SetCustomReport, IgnoreRequest, TypeInv
  <2>5. ep1' = [ep1 EXCEPT !.pid = ep1'.pid] /\ ep1'.pid \in {0, 1}
    BY <2>3 DEF TypeInv
  <2> QED BY <1>2, <2>2, <2>3, <2>4, <2>5 DEF TypeInv
<1> QED BY <1>3, <1>4

------------------------------------------------------------------------------
(* Types                                                                   *)

LEMMA BlockIs ==
  ASSUME NEW d \in Seq(Int), Len(d) <= BlockSize PROVE d \in Block
BY DEF Block, Data

LEMMA EmptyTypes == <<>> \in Block /\ <<>> \in Data /\ Len(<<>>) = 0
BY EmptySeq DEF Block, Data

LEMMA InitTypes ==
  /\ DeviceInit.rx = NoPacket /\ DeviceInit.tx \in TxType
  /\ DeviceInit.tx = [len |-> NAK, pid |-> 0, data |-> <<>>]
  /\ DeviceInit.msg = [len |-> NoMsg, ptr |-> 0, flags |-> 0]
  /\ DeviceInit.msg \in MsgType
  /\ DeviceInit.addr = [dev |-> 0, new |-> 0]
  /\ DeviceInit.addr \in [dev : Address, new : Address]
  /\ DeviceInit.ep1 \in Ep1Type
  /\ DeviceInit.ep1.len = NAK
  /\ DeviceInit.hid \in HidType
  /\ DeviceInit.hid.report = 0
<1>1. <<>> \in Block /\ Len(<<>>) = 0
  BY EmptyTypes
<1>2. 0 \in 0 .. Customs - 1 /\ 0 \in 0 .. Reports - 1 /\ 0 \in Address /\ 125 \in Byte /\ 0 \in Byte
  BY BoundsAssumption DEF Address, Byte
<1> QED BY <1>1, <1>2 DEF DeviceInit, Lengths, Message, MsgLen

LEMMA HistoryTypes ==
  /\ Fresh \in CallType
  /\ HostInit \in HostType
<1>1. <<>> \in Data /\ 0 \in Address
  BY EmptySeq DEF Data, Address
<1> QED BY <1>1 DEF Fresh, HostInit, Stages

LEMMA TypeInit == Init => TypeInv
<1>1. 0 \in Byte /\ 0 \in 0 .. Reports - 1
  BY BoundsAssumption DEF Byte
<1> QED BY <1>1, InitTypes, HistoryTypes DEF Init, TypeInv

LEMMA TypeRx ==
  ASSUME TypeInv, usbProcessRx PROVE TypeInv'
<1>1. rx # NoPacket /\ pc = "poll" /\ pc' = "release" /\ UNCHANGED <<rx, host, bound>>
      /\ (line' = "polled" \/ line' = line)
  BY NoPacketFacts DEF usbProcessRx, Passes
<1>2. CASE ProcessSetup
  <2>1. Meant(rx.request) \in Data
    <3> PICK r \in Requests : r = rx.request
      BY <1>1, PacketFacts
    <3> PICK n \in Nat : Asked(r) \in [1 .. n -> Int]
      BY AskedType
    <3> QED BY MeantType DEF Data
  <2>2. call' \in CallType
    <3>1. \/ call' = [call EXCEPT !.served = @ + 1, !.answer = Meant(rx.request)]
          \/ call' = call
      <4>1. call' = IF rx.own
                    THEN [call EXCEPT !.served = @ + 1, !.answer = Meant(rx.request)]
                    ELSE call
        BY <1>2 DEF ProcessSetup
      <4> QED BY <4>1, Zenon
    <3> PICK answer \in Data : answer = Meant(rx.request)
      BY <2>1
    <3> PICK served \in Nat : served = call.served + 1
      BY DEF TypeInv
    <3>2. \/ call' = [call EXCEPT !.served = served, !.answer = answer]
          \/ call' = call
      BY <3>1
    <3>3. call \in CallType
      BY DEF TypeInv
    <3> QED BY <3>2, <3>3
  <2>3. tx' \in TxType
    <3>1. <<>> \in Block
      BY EmptySeq DEF Block, Data
    <3> QED BY <1>1, <1>2, <3>1, SetupEffect DEF Lengths
  <2>4. addr' \in [dev : Address, new : Address]
    BY <1>1, <1>2, SetupEffect, RequestType DEF TypeInv, SetsAddress, Standard
  <2>5. ep1' \in Ep1Type
    BY <1>1, <1>2, SetupEffect DEF TypeInv
  <2>6. msg' \in MsgType
    BY <1>1, <1>2, SetupEffect DEF Prepared
  <2> QED BY <1>1, <1>2, <2>2, <2>3, <2>4, <2>5, <2>6, SetupEffect DEF TypeInv
<1>3. CASE ProcessData
  <2>1. rx.request.packet \in 0 .. Customs - 1
    BY <1>1, PacketFacts, RequestType
  <2>2. 0 \in MsgLen
    BY DEF MsgLen
  <2> QED BY <1>1, <1>3, <2>1, <2>2 DEF ProcessData, TypeInv
<1> QED BY <1>2, <1>3 DEF usbProcessRx

LEMMA TypeMain ==
  ASSUME TypeInv, MainLoop PROVE TypeInv'
<1>1. CASE usbProcessRx
  BY <1>1, TypeRx
<1>2. CASE NothingReceived
  BY <1>2 DEF NothingReceived, Passes, TypeInv
<1>3. CASE ReleaseRx
  BY <1>3 DEF ReleaseRx, others, TypeInv
<1>4. CASE usbBuildTxBlock
  <2> PICK n \in 0 .. BlockSize : n = Least(msg.len, BlockSize) /\ n <= msg.len
    BY DEF TypeInv, MsgLen
  <2>1. tx' = [tx EXCEPT !.pid = Toggled(@), !.data = usbDeviceRead(n)]
    BY <1>4, Zenon DEF usbBuildTxBlock
  <2>2. usbDeviceRead(n) \in Block
    <3>1. n \in Nat /\ n <= BlockSize
      OBVIOUS
    <3>2. usbDeviceRead(n) \in Seq(Int) /\ Len(usbDeviceRead(n)) = n
      BY <3>1, ReadType
    <3> PICK d : d = usbDeviceRead(n)
      OBVIOUS
    <3>3. d \in Seq(Int) /\ Len(d) <= BlockSize
      BY <3>2
    <3>4. d \in Block
      BY <3>3, BlockIs
    <3> QED BY <3>4
  <2>3. tx' \in TxType
    <3> PICK d \in Block : d = usbDeviceRead(n)
      BY <2>2
    <3> PICK pid \in {0, 1} : pid = Toggled(tx.pid)
      BY DEF TypeInv
    <3>1. tx' = [tx EXCEPT !.pid = pid, !.data = d]
      BY <2>1
    <3> QED BY <3>1 DEF TypeInv
  <2>4. msg' \in MsgType
    BY <1>4 DEF usbBuildTxBlock, TypeInv, MsgLen, Message
  <2> QED BY <1>4, <2>3, <2>4 DEF usbBuildTxBlock, others, TypeInv
<1>5. CASE NothingToSend
  BY <1>5 DEF NothingToSend, others, TypeInv
<1>6. CASE Send
  <2>1. Len(tx.data) + Overhead \in Lengths
    <3>1. Len(tx.data) \in Nat /\ Len(tx.data) <= BlockSize
      BY LenProperties DEF TypeInv, Block, Data
    <3> QED BY <3>1 DEF Lengths, Overhead
  <2> QED BY <1>6, <2>1 DEF Send, others, TypeInv
<1>7. CASE CheckLine
  <2>1. 0 \in Address
    BY DEF Address
  <2> QED BY <1>7, <2>1 DEF CheckLine, Passes, TypeInv
<1>8. CASE usbSetInterrupt
  <2>1. (hid.report + 1) % Reports \in 0 .. Reports - 1
    BY BoundsAssumption DEF TypeInv
  <2> QED BY <1>8, <2>1 DEF usbSetInterrupt, others, TypeInv
<1>9. CASE NotReady
  BY <1>9 DEF NotReady, others, TypeInv
<1> QED BY <1>1, <1>2, <1>3, <1>4, <1>5, <1>6, <1>7, <1>8, <1>9 DEF MainLoop

LEMMA HostFacts ==
  ASSUME TypeInv, HostInv, Active
  PROVE  host.request \in Requests
BY DEF HostInv

(* The end of a transfer, and what the host does with a block.             *)
LEMMA EndedType ==
  ASSUME TypeInv, HostInv, Active
  PROVE  /\ Ended(host) \in HostType
         /\ Ended(host).stage = "idle" /\ Ended(host).request = NoRequest
         /\ Ended(host).got = <<>>
         /\ Ended(host).addr = IF SetsAddress(host.request) THEN host.request.lo
                              ELSE host.addr
         /\ Ended(host).configured =
              (host.configured \/ Standard(host.request, "SET_CONFIGURATION"))
<1> PICK r \in Requests : r = host.request
  BY HostFacts
<1> PICK a \in Address : a = IF Standard(r, "SET_ADDRESS") THEN r.lo ELSE host.addr
  BY RequestType DEF TypeInv, Standard
<1> PICK c \in BOOLEAN : c = (host.configured \/ Standard(r, "SET_CONFIGURATION"))
  OBVIOUS
<1> PICK none \in Data : none = <<>>
  BY EmptySeq DEF Data
<1>1. Ended(host) = [host EXCEPT !.stage = "idle", !.request = NoRequest,
                       !.got = none, !.expect = 0, !.addr = a, !.configured = c]
  BY DEF Ended
<1>2. host \in HostType
  BY DEF TypeInv
<1>3. Ended(host) \in HostType
  BY <1>1, <1>2 DEF Stages
<1>4. /\ Ended(host).stage = "idle" /\ Ended(host).request = NoRequest
      /\ Ended(host).got = none /\ Ended(host).addr = a
  BY <1>1, <1>2
<1>5. Ended(host).configured = c
  BY <1>1, <1>2
<1> QED BY <1>3, <1>4, <1>5 DEF SetsAddress

LEMMA AcceptType ==
  ASSUME TypeInv, HostInv, host.stage = "in", Accept(tx.data)
  PROVE  /\ host'.got = host.got \o tx.data
         /\ host'.stage = IF Len(tx.data) < BlockSize
                             \/ Len(host'.got) >= host.request.wLength
                          THEN "statusOut" ELSE "in"
         /\ host'.expect = IF host'.stage = "statusOut" THEN 1 ELSE Toggled(host.expect)
         /\ host'.request = host.request /\ host'.addr = host.addr
         /\ host'.configured = host.configured
         /\ host' \in HostType
         /\ call' = call
<1> PICK got \in Data : got = host.got \o tx.data
  <2>1. host.got \in Seq(Int) /\ tx.data \in Seq(Int)
    BY DEF TypeInv, Data, Block
  <2> QED BY <2>1, ConcatProperties DEF Data
<1> PICK stage \in {"statusOut", "in"} :
      stage = IF Len(tx.data) < BlockSize \/ Len(got) >= host.request.wLength
              THEN "statusOut" ELSE "in"
  OBVIOUS
<1> PICK expect \in {0, 1} :
      expect = IF stage = "statusOut" THEN 1 ELSE Toggled(host.expect)
  BY DEF TypeInv
<1>1. /\ host' = [host EXCEPT !.got = got, !.stage = stage, !.expect = expect]
      /\ call' = call
  BY DEF Accept
<1> QED BY <1>1 DEF TypeInv, Stages

LEMMA SendInEffect ==
  ASSUME TypeInv, HostInv, PacketInv, BlockInv, SendIn
  PROVE  /\ host.stage \in {"in", "statusIn"} /\ Active
         /\ line = "J" /\ addr.dev = host.addr
         /\ rx = NoPacket /\ ~Idle(tx.len) /\ pc # "send" /\ pc # "release"
         /\ tx'.len = NAK /\ tx'.pid = tx.pid /\ tx'.data = <<>>
         /\ tx' \in TxType
         /\ addr' = [addr EXCEPT !.dev = addr.new]
         /\ UNCHANGED <<rx, msg, usbConfiguration, ep1, hid, pc, line, sent>>
<1> PICK none \in Block : none = <<>>
  BY EmptyTypes
<1>2. /\ host.stage \in {"in", "statusIn"} /\ Heard /\ rx.len < 1 /\ ~Idle(tx.len)
      /\ tx' = [tx EXCEPT !.len = NAK, !.data = none] /\ TakeAddress
      /\ UNCHANGED <<rx, msg, usbConfiguration, ep1, hid, pc, line, sent>>
  BY DEF SendIn, MaySend
<1>3. rx = NoPacket
  BY <1>2, PacketFacts
<1>4. /\ tx' \in TxType
      /\ tx'.len = NAK /\ tx'.pid = tx.pid /\ tx'.data = none
  BY <1>2 DEF TypeInv, Lengths
<1>5. pc # "send" /\ pc # "release"
  BY <1>2, <1>3 DEF PacketInv, BlockInv
<1> QED BY <1>2, <1>3, <1>4, <1>5 DEF Heard, TakeAddress, Active

LEMMA ReceiveEffect ==
  ASSUME TypeInv, HostInv, Active, NEW token \in {"SETUP", "OUT"}, Receive(token)
  PROVE  /\ rx = NoPacket /\ line = "J" /\ addr.dev = host.addr
         /\ rx' = [len |-> BlockSize + 3, token |-> token, request |-> host.request,
                   own |-> TRUE]
         /\ rx' \in Packet /\ rx' # NoPacket
<1>1. rx = NoPacket
  BY PacketFacts DEF Receive
<1>2. rx' \in Packet
  BY HostFacts DEF Receive, Packet
<1>3. rx' # NoPacket
  BY NoPacketFacts DEF Receive
<1> QED BY <1>1, <1>2, <1>3 DEF Receive, Heard

(* The host has been told, or an acknowledgement was lost.                 *)
LEMMA AckEffect ==
  ASSUME TypeInv, NEW stage \in Stages, Acknowledged(stage) \/ AckLost
  PROVE  /\ host' \in HostType
         /\ call' \in CallType
         /\ bound' \in [lost : Nat, resets : Nat]
<1>1. CASE Acknowledged(stage)
  BY <1>1 DEF Acknowledged, TypeInv
<1>2. CASE AckLost
  BY <1>2 DEF AckLost, CountLost, TypeInv
<1> QED BY <1>1, <1>2

LEMMA ForgetEffect ==
  ASSUME TypeInv, Forget
  PROVE  /\ rx' \in Packet \union {NoPacket} /\ ~rx'.own
         /\ rx'.token = rx.token /\ rx'.request = rx.request
         /\ rx' = NoPacket <=> rx = NoPacket
         /\ call' = Fresh
         /\ call' \in CallType
<1>1. rx' = [rx EXCEPT !.own = FALSE] /\ call' = Fresh
  BY DEF Forget
<1>2. CASE rx = NoPacket
  <2>1. rx' = NoPacket
    BY <1>1, <1>2 DEF NoPacket
  <2> QED BY <1>1, <1>2, <2>1, NoPacketFacts, HistoryTypes
<1>3. CASE rx # NoPacket
  <2>1. rx \in Packet
    BY <1>3, PacketFacts
  <2>2. rx' \in Packet
    BY <1>1, <2>1 DEF Packet
  <2>3. ~rx'.own
    BY <1>1, <2>1 DEF Packet
  <2>4. rx'.token = rx.token /\ rx'.request = rx.request
    BY <1>1, <2>1 DEF Packet
  <2>5. rx' # NoPacket
    BY <2>2, NoPacketFacts DEF Packet
  <2> QED BY <1>1, <1>3, <2>2, <2>3, <2>4, <2>5, HistoryTypes
<1> QED BY <1>2, <1>3

LEMMA TypeHost ==
  ASSUME TypeInv, HostInv, PacketInv, BlockInv, Host PROVE TypeInv'
<1>1. ASSUME NEW r \in Requests, Start(r) PROVE TypeInv'
  BY <1>1 DEF Start, device, TypeInv, Stages
<1>2. CASE Setup
  <2>1. Active
    BY <1>2 DEF Setup, Active
  <2>2. DataStage(host.request) \in Stages
    BY DEF DataStage, Stages
  <2> PICK stage \in Stages : stage = DataStage(host.request)
    BY <2>2
  <2>3. Acknowledged(stage) \/ AckLost
    BY <1>2 DEF Setup
  <2>4. rx' \in Packet
    BY <1>2, <2>1, ReceiveEffect DEF Setup
  <2> QED BY <1>2, <2>3, <2>4, AckEffect DEF Setup, TypeInv
<1>3. CASE Out
  <2>1. Active
    BY <1>3 DEF Out, Active
  <2> PICK stage \in Stages : stage = "statusIn"
    BY DEF Stages
  <2>2. Acknowledged(stage) \/ AckLost
    BY <1>3 DEF Out
  <2>3. rx' \in Packet
    BY <1>3, <2>1, ReceiveEffect DEF Out
  <2> QED BY <1>3, <2>2, <2>3, AckEffect DEF Out, TypeInv
<1>4. CASE In
  <2>1. SendIn /\ bound' = bound
        /\ IF tx.pid = host.expect THEN Accept(tx.data) ELSE UNCHANGED <<host, call>>
    BY <1>4 DEF In
  <2>2. addr' \in [dev : Address, new : Address]
    BY <2>1, SendInEffect DEF TypeInv
  <2>3. /\ host' \in HostType
        /\ call' \in CallType
    <3>1. CASE tx.pid = host.expect /\ host.stage = "in"
      BY <2>1, <3>1, AcceptType DEF TypeInv
    <3>2. CASE tx.pid = host.expect /\ host.stage # "in"
      <4>1. host' = Ended(host) /\ call' = Fresh
        BY <2>1, <3>2 DEF Accept
      <4> QED BY <2>1, <4>1, SendInEffect, EndedType, HistoryTypes
    <3>3. CASE tx.pid # host.expect
      BY <2>1, <3>3 DEF TypeInv
    <3> QED BY <3>1, <3>2, <3>3
  <2> QED BY <2>1, <2>2, <2>3, SendInEffect DEF TypeInv
<1>5. CASE InLost
  <2>1. /\ SendIn /\ bound' = [bound EXCEPT !.lost = @ + 1]
        /\ call' = [call EXCEPT !.damaged = TRUE] /\ host' = host
    BY <1>5 DEF InLost, CountLost
  <2>2. addr' \in [dev : Address, new : Address]
    BY <2>1, SendInEffect DEF TypeInv
  <2>3. bound' \in [lost : Nat, resets : Nat]
    BY <2>1 DEF TypeInv
  <2>4. call' \in CallType
    BY <2>1 DEF TypeInv
  <2> QED BY <2>1, <2>2, <2>3, <2>4, SendInEffect DEF TypeInv
<1>6. CASE StatusOut
  <2>1. Active
    BY <1>6 DEF StatusOut, Active
  <2> QED BY <1>6, <2>1, EndedType, HistoryTypes DEF StatusOut, device, TypeInv
<1>7. CASE In1
  BY <1>7 DEF In1, TakeAddress, TypeInv
<1>8. CASE GiveUp
  <2> PICK none \in Data : none = <<>>
    BY EmptySeq DEF Data
  <2> PICK stage \in Stages : stage = IF Standard(host.request, "SET_ADDRESS")
                                   THEN "detached" ELSE "idle"
    BY DEF Stages
  <2>1. host' = [host EXCEPT !.stage = stage, !.request = NoRequest,
                   !.got = none, !.expect = 0]
    BY <1>8 DEF GiveUp
  <2>2. host' \in HostType
    BY <2>1 DEF TypeInv
  <2>3. Forget /\ UNCHANGED <<tx, msg, addr, usbConfiguration, ep1, hid, pc, line,
                             sent, bound>>
    BY <1>8 DEF GiveUp
  <2>4. /\ rx' \in Packet \union {NoPacket}
        /\ call' \in CallType
    BY <2>3, ForgetEffect
  <2> QED BY <2>2, <2>3, <2>4 DEF TypeInv
<1>9. CASE BusReset
  <2>1. Forget /\ UNCHANGED <<tx, msg, addr, usbConfiguration, ep1, hid, pc, sent>>
        /\ line' = "SE0" /\ host' = HostInit
        /\ bound' = [bound EXCEPT !.resets = @ + 1]
    BY <1>9 DEF BusReset
  <2>2. /\ rx' \in Packet \union {NoPacket}
        /\ call' \in CallType
    BY <2>1, ForgetEffect
  <2>3. bound' \in [lost : Nat, resets : Nat]
    BY <2>1 DEF TypeInv
  <2> QED BY <2>1, <2>2, <2>3, HistoryTypes DEF TypeInv
<1>10. CASE ResetEnds
  BY <1>10 DEF ResetEnds, device, TypeInv, Stages
<1> QED BY <1>1, <1>2, <1>3, <1>4, <1>5, <1>6, <1>7, <1>8, <1>9, <1>10 DEF Host

LEMMA TypeRestart ==
  ASSUME TypeInv, Restart PROVE TypeInv'
<1>1. 0 \in Byte /\ 0 \in 0 .. Reports - 1
  BY BoundsAssumption DEF Byte
<1>2. bound' \in [lost : Nat, resets : Nat]
  BY DEF TypeInv, Restart
<1>3. /\ rx' = DeviceInit.rx /\ tx' = DeviceInit.tx /\ msg' = DeviceInit.msg
      /\ addr' = DeviceInit.addr /\ usbConfiguration' = 0
      /\ ep1' = DeviceInit.ep1 /\ hid' = DeviceInit.hid /\ pc' = "poll"
      /\ line' = "J" /\ host' = HostInit /\ call' = Fresh /\ sent' = 0
  BY DEF Restart
<1> QED BY <1>1, <1>2, <1>3, InitTypes, HistoryTypes DEF TypeInv

LEMMA TypeStep ==
  ASSUME TypeInv, HostInv, PacketInv, BlockInv, [Next]_vars PROVE TypeInv'
<1>1. CASE UNCHANGED vars
  BY <1>1 DEF vars, device, others, TypeInv
<1> QED BY <1>1, TypeMain, TypeHost, TypeRestart DEF Next

------------------------------------------------------------------------------
(* The report in endpoint 1                                                *)

LEMMA KeyStep ==
  ASSUME TypeInv, KeyInv, [Next]_vars PROVE KeyInv'
<1>1. CASE UNCHANGED <<ep1, hid, sent>>
  BY <1>1 DEF KeyInv
<1>2. CASE usbProcessRx
  <2>1. pc = "poll" /\ rx # NoPacket
    BY <1>2, NoPacketFacts DEF usbProcessRx
  <2>2. CASE ProcessSetup
    <3>1. ep1'.len = ep1.len /\ ep1'.data = ep1.data /\ hid'.report = hid.report
          /\ sent' = sent
      BY <2>1, <2>2, SetupEffect DEF TypeInv
    <3> QED BY <3>1 DEF KeyInv
  <2>3. CASE ProcessData
    <3>1. ep1' = ep1 /\ hid'.report = hid.report /\ sent' = sent
      BY <2>3 DEF ProcessData, TypeInv
    <3> QED BY <3>1 DEF KeyInv
  <2> QED BY <1>2, <2>2, <2>3 DEF usbProcessRx
<1>3. CASE usbSetInterrupt
  <2>1. /\ Idle(ep1.len) /\ hid'.report = (hid.report + 1) % Reports
        /\ ep1'.len = 7 /\ ep1'.data = hid'.report /\ sent' = sent
    BY <1>3 DEF usbSetInterrupt, usbInterruptIsReady, others, TypeInv, Overhead
  <2> QED BY <2>1 DEF KeyInv
<1>4. CASE In1
  <2>1. ~Idle(ep1.len) /\ ep1'.len = NAK /\ sent' = ep1.data /\ hid' = hid
    BY <1>4 DEF In1, MaySend, TypeInv
  <2> QED BY <2>1 DEF KeyInv
<1>5. CASE Restart
  BY <1>5, InitTypes DEF Restart, KeyInv
<1>6. CASE /\ [Next]_vars /\ ~UNCHANGED <<ep1, hid, sent>>
           /\ ~usbProcessRx /\ ~usbSetInterrupt /\ ~In1 /\ ~Restart
  <2>1. CASE MainLoop
    BY <1>6, <2>1 DEF MainLoop, NothingReceived, ReleaseRx, usbBuildTxBlock, NothingToSend,
         Send, CheckLine, NotReady, others
  <2>2. CASE Host
    BY <1>6, <2>2 DEF Host, Start, Setup, Out, In, InLost, SendIn, StatusOut,
         GiveUp, BusReset, ResetEnds, device
  <2>3. CASE UNCHANGED vars
    BY <1>6, <2>3 DEF vars, device, others
  <2> QED BY <1>6, <2>1, <2>2, <2>3 DEF Next
<1> QED BY <1>1, <1>2, <1>3, <1>4, <1>5, <1>6

------------------------------------------------------------------------------
(* Packets                                                                 *)

LEMMA PacketStart ==
  ASSUME TypeInv, HostInv, PacketInv, NEW r \in Requests, Start(r) PROVE PacketInv'
<1>1. /\ host' = [host EXCEPT !.stage = "setup", !.request = r]
      /\ host.stage = "idle" /\ UNCHANGED <<rx, pc, call>>
  BY DEF Start, device
<1>2. host'.stage = "setup" /\ host'.request = r
  BY <1>1 DEF TypeInv
<1>3. ~rx.own /\ call = Fresh
  BY <1>1 DEF PacketInv, HostInv, Active
<1> QED BY <1>1, <1>2, <1>3 DEF PacketInv, Fresh

LEMMA AckCases ==
  ASSUME TypeInv, NEW stage, Acknowledged(stage) \/ AckLost
  PROVE  /\ host'.request = host.request /\ host'.got = host.got
         /\ host'.addr = host.addr /\ host'.configured = host.configured
         /\ call'.served = call.served /\ call'.decoded = call.decoded
         /\ call'.answer = call.answer /\ call'.damaged = call.damaged
         /\ \/ host'.stage = stage /\ host'.expect = 1 /\ call' = call
            \/ host' = host /\ call'.lost = call.lost + 1
<1>1. CASE Acknowledged(stage)
  <2>1. host' = [host EXCEPT !.stage = stage, !.expect = 1] /\ call' = call
    BY <1>1 DEF Acknowledged
  <2> QED BY <2>1 DEF TypeInv
<1>2. CASE AckLost
  <2>1. call' = [call EXCEPT !.lost = @ + 1] /\ host' = host
    BY <1>2 DEF AckLost
  <2> QED BY <2>1 DEF TypeInv
<1> QED BY <1>1, <1>2

LEMMA SetupSent ==
  ASSUME TypeInv, HostInv, Setup
  PROVE  /\ host.stage = "setup" /\ Active /\ Receive("SETUP")
         /\ UNCHANGED <<tx, msg, addr, usbConfiguration, ep1, hid, pc, line, sent>>
         /\ Acknowledged(DataStage(host.request)) \/ AckLost
         /\ rx = NoPacket /\ rx' # NoPacket /\ rx'.own /\ rx'.token = "SETUP"
         /\ rx'.request = host.request
<1>1. Active /\ Receive("SETUP")
  BY DEF Setup, Active
<1> QED BY <1>1, ReceiveEffect DEF Setup

LEMMA OutSent ==
  ASSUME TypeInv, HostInv, Out
  PROVE  /\ host.stage = "out" /\ Active /\ Receive("OUT")
         /\ UNCHANGED <<tx, msg, addr, usbConfiguration, ep1, hid, pc, line, sent>>
         /\ Acknowledged("statusIn") \/ AckLost
         /\ rx = NoPacket /\ rx' # NoPacket /\ rx'.own /\ rx'.token = "OUT"
         /\ rx'.request = host.request
<1>1. Active /\ Receive("OUT")
  BY DEF Out, Active
<1> QED BY <1>1, ReceiveEffect DEF Out

LEMMA PacketReceive ==
  ASSUME TypeInv, HostInv, PacketInv, Setup \/ Out PROVE PacketInv'
<1>1. CASE Setup
  <2>1. host'.stage \in {"setup", "in", "out", "statusIn"}
        /\ host'.request = host.request /\ call'.damaged = call.damaged
    BY <1>1, SetupSent, AckCases DEF DataStage
  <2>2. ~call.damaged
    BY <1>1, SetupSent DEF PacketInv
  <2>3. pc' # "release"
    BY <1>1, SetupSent DEF PacketInv
  <2> QED BY <1>1, <2>1, <2>2, <2>3, SetupSent DEF PacketInv, Active
<1>2. CASE Out
  <2>1. host'.stage \in {"out", "statusIn"}
        /\ host'.request = host.request /\ call'.damaged = call.damaged
    BY <1>2, OutSent, AckCases
  <2>2. ~call.damaged
    BY <1>2, OutSent DEF PacketInv
  <2>3. pc' # "release"
    BY <1>2, OutSent DEF PacketInv
  <2>4. ~host.request.toHost /\ host.request.wLength # 0
    BY <1>2, OutSent DEF HostInv
  <2> QED BY <1>2, <2>1, <2>2, <2>3, <2>4, OutSent DEF PacketInv, Active
<1> QED BY <1>1, <1>2

LEMMA InCases ==
  ASSUME TypeInv, HostInv, PacketInv, BlockInv, In
  PROVE  /\ SendIn /\ bound' = bound
         /\ \/ tx.pid # host.expect /\ host' = host /\ call' = call
            \/ tx.pid = host.expect /\ host.stage = "in" /\ Accept(tx.data)
            \/ /\ tx.pid = host.expect /\ host.stage = "statusIn"
               /\ host' = Ended(host) /\ call' = Fresh
<1>1. SendIn /\ bound' = bound
      /\ IF tx.pid = host.expect THEN Accept(tx.data) ELSE UNCHANGED <<host, call>>
  BY DEF In
<1>2. host.stage \in {"in", "statusIn"}
  BY <1>1 DEF SendIn
<1>3. Accept(tx.data) /\ host.stage # "in" => host' = Ended(host) /\ call' = Fresh
  BY DEF Accept
<1> QED BY <1>1, <1>2, <1>3

LEMMA RxEffect ==
  ASSUME TypeInv, usbProcessRx
  PROVE  /\ pc = "poll" /\ rx # NoPacket /\ pc' = "release"
         /\ UNCHANGED <<rx, host, bound>> /\ Passes("SE0", "polled")
         /\ \/ rx.token = "SETUP" /\ ProcessSetup
            \/ rx.token = "OUT" /\ ProcessData
         /\ call'.damaged = call.damaged /\ call'.lost = call.lost
         /\ ~rx.own => call' = call
<1>1. pc = "poll" /\ rx # NoPacket /\ pc' = "release" /\ UNCHANGED <<rx, host, bound>>
      /\ Passes("SE0", "polled")
  BY NoPacketFacts DEF usbProcessRx
<1>2. \/ rx.token = "SETUP" /\ ProcessSetup
      \/ rx.token = "OUT" /\ ProcessData
  BY DEF usbProcessRx, ProcessSetup, ProcessData
<1>3. CASE ProcessSetup
  <2>1. call' = IF rx.own
                THEN [call EXCEPT !.served = @ + 1, !.answer = Meant(rx.request)]
                ELSE call
    BY <1>3 DEF ProcessSetup
  <2> PICK answer : answer = Meant(rx.request)
    OBVIOUS
  <2> PICK served \in Nat : served = call.served + 1
    BY DEF TypeInv
  <2>2. \/ rx.own /\ call' = [call EXCEPT !.served = served, !.answer = answer]
        \/ call' = call
    BY <2>1
  <2> QED BY <1>1, <1>2, <2>2 DEF TypeInv
<1>4. CASE ProcessData
  <2>1. \/ rx.own /\ call' = [call EXCEPT !.decoded = @ + 1]
        \/ call' = call
    BY <1>4 DEF ProcessData
  <2> QED BY <1>1, <1>2, <2>1 DEF TypeInv
<1> QED BY <1>2, <1>3, <1>4

LEMMA GiveUpEffect ==
  ASSUME TypeInv, GiveUp
  PROVE  /\ Active /\ Forget
         /\ UNCHANGED <<tx, msg, addr, usbConfiguration, ep1, hid, pc, line, sent, bound>>
         /\ host'.stage = IF SetsAddress(host.request) THEN "detached" ELSE "idle"
         /\ host'.request = NoRequest /\ host'.got = <<>>
         /\ host'.addr = host.addr /\ host'.configured = host.configured
<1> PICK none \in Data : none = <<>>
  BY EmptyTypes
<1> PICK stage : stage = IF SetsAddress(host.request) THEN "detached" ELSE "idle"
  OBVIOUS
<1>1. host' = [host EXCEPT !.stage = stage, !.request = NoRequest,
                 !.got = none, !.expect = 0]
  BY DEF GiveUp, SetsAddress
<1>2. /\ host'.stage = stage /\ host'.request = NoRequest /\ host'.got = none
      /\ host'.addr = host.addr /\ host'.configured = host.configured
  BY <1>1 DEF TypeInv
<1> QED BY <1>2 DEF GiveUp, Active

LEMMA PacketStep ==
  ASSUME TypeInv, HostInv, PacketInv, BlockInv, LineInv, [Next]_vars PROVE PacketInv'
<1>1. CASE usbProcessRx
  <2>1. rx.own => host.stage \notin {"detached", "idle"}
    BY DEF PacketInv, Active
  <2> QED BY <1>1, <2>1, RxEffect DEF PacketInv, Active
<1>2. CASE ReleaseRx
  BY <1>2, NoPacketFacts DEF ReleaseRx, others, PacketInv
<1>3. CASE \/ NothingReceived \/ usbBuildTxBlock \/ NothingToSend \/ Send
           \/ CheckLine \/ usbSetInterrupt \/ NotReady \/ In1
  <2>1. UNCHANGED <<rx, host, call>> /\ (pc' # "release" \/ pc' = pc)
    BY <1>3 DEF NothingReceived, usbBuildTxBlock, NothingToSend, Send, CheckLine,
                usbSetInterrupt, NotReady, In1, others
  <2> QED BY <2>1 DEF PacketInv, Active
<1>4. ASSUME NEW r \in Requests, Start(r) PROVE PacketInv'
  BY <1>4, PacketStart
<1>5. CASE Setup \/ Out
  BY <1>5, PacketReceive
<1>6. CASE In
  <2>1. rx = NoPacket /\ UNCHANGED <<rx, pc>>
    BY <1>6, InCases, SendInEffect
  <2>2. \/ host' = host /\ call' = call
        \/ host.stage = "in" /\ host'.stage \in {"in", "statusOut"} /\ call' = call
        \/ ~call'.damaged
    <3>1. ~Fresh.damaged
      BY DEF Fresh
    <3>2. CASE host.stage = "in" /\ Accept(tx.data)
      <4>1. host'.stage \in {"in", "statusOut"} /\ call' = call
        BY <3>2, AcceptType
      <4> QED BY <3>2, <4>1
    <3> QED BY <1>6, InCases, <3>1, <3>2
  <2>3. call'.damaged => host'.stage \in {"in", "statusIn", "statusOut"}
    BY <2>2 DEF PacketInv
  <2> QED BY <2>1, <2>3, NoPacketFacts DEF PacketInv
<1>7. CASE InLost
  <2>1. rx = NoPacket /\ UNCHANGED <<rx, pc, host>> /\ host.stage \in {"in", "statusIn"}
    BY <1>7, SendInEffect DEF InLost
  <2> QED BY <2>1, NoPacketFacts DEF PacketInv
<1>8. CASE StatusOut
  <2>1. rx = NoPacket /\ UNCHANGED <<rx, pc>> /\ ~call'.damaged
    BY <1>8 DEF StatusOut, PacketInv, device, Fresh
  <2> QED BY <2>1, NoPacketFacts DEF PacketInv
<1>9. CASE GiveUp \/ BusReset
  <2>1. Forget /\ pc' = pc
    BY <1>9 DEF GiveUp, BusReset
  <2>2. host'.stage \in {"detached", "idle"}
    BY <1>9, GiveUpEffect DEF BusReset, HostInit
  <2>3. /\ ~rx'.own /\ call' = Fresh /\ ~Fresh.damaged
        /\ rx' = NoPacket <=> rx = NoPacket
    BY <2>1, ForgetEffect DEF Fresh
  <2> QED BY <2>1, <2>2, <2>3 DEF PacketInv
<1>10. CASE ResetEnds
  <2>1. host.stage = "detached"
    BY <1>10 DEF ResetEnds, LineInv, HostInit
  <2>2. host'.stage = "idle" /\ UNCHANGED <<rx, pc, call>>
    BY <1>10 DEF ResetEnds, device, TypeInv
  <2> QED BY <2>1, <2>2 DEF PacketInv, Active
<1>11. CASE Restart
  <2>1. rx' = NoPacket /\ pc' = "poll" /\ host' = HostInit /\ ~call'.damaged
    BY <1>11, InitTypes DEF Restart, Fresh
  <2> QED BY <2>1, NoPacketFacts DEF PacketInv, HostInit
<1>12. CASE UNCHANGED vars
  BY <1>12 DEF vars, device, others, PacketInv, Active
<1> QED BY <1>1, <1>2, <1>3, <1>4, <1>5, <1>6, <1>7, <1>8, <1>9, <1>10, <1>11, <1>12
    DEF Next, MainLoop, Host

------------------------------------------------------------------------------
(* The transfer                                                            *)

LEMMA HostFrame ==
  ASSUME HostInv, host' = host, ~Active => call' = call,
         Pending("SETUP")' => Pending("SETUP")
  PROVE  HostInv'
BY DEF HostInv, Active

(* Steps of the main loop: they leave the transfer to the host.            *)
LEMMA MainFrame ==
  ASSUME TypeInv, PacketInv, MainLoop, NEW token
  PROVE  /\ host' = host
         /\ ~usbProcessRx => call' = call
         /\ ~rx.own => call' = call
         /\ Pending(token)' <=> Pending(token) /\ ~usbProcessRx
<1>1. CASE usbProcessRx
  <2>1. ~Pending(token)'
    BY <1>1, RxEffect DEF Pending
  <2> QED BY <1>1, <2>1, RxEffect
<1>2. CASE ReleaseRx
  <2>1. ~Pending(token)' /\ ~Pending(token)
    BY <1>2, NoPacketFacts DEF ReleaseRx, Pending
  <2> QED BY <1>2, <2>1 DEF ReleaseRx, others, usbProcessRx
<1>3. CASE \/ NothingReceived \/ usbBuildTxBlock \/ NothingToSend \/ Send
           \/ CheckLine \/ usbSetInterrupt \/ NotReady
  <2>1. UNCHANGED <<rx, host, call>> /\ pc' # "release" /\ pc # "release"
        /\ ~usbProcessRx
    BY <1>3 DEF NothingReceived, usbBuildTxBlock, NothingToSend, Send, CheckLine,
                usbSetInterrupt, NotReady, others, usbProcessRx
  <2>2. Pending(token)' <=> Pending(token)
    BY <2>1 DEF Pending
  <2> QED BY <2>1, <2>2
<1> QED BY <1>1, <1>2, <1>3 DEF MainLoop

LEMMA HostStep ==
  ASSUME TypeInv, HostInv, PacketInv, BlockInv, LineInv, [Next]_vars PROVE HostInv'
<1>1. CASE MainLoop
  <2>1. ~Active => ~rx.own
    BY DEF PacketInv
  <2> QED BY <1>1, <2>1, MainFrame, HostFrame
<1>2. ASSUME NEW r \in Requests, Start(r) PROVE HostInv'
  <2>1. /\ host' = [host EXCEPT !.stage = "setup", !.request = r]
        /\ host.stage = "idle" /\ UNCHANGED <<rx, pc, call>>
    BY <1>2 DEF Start, device
  <2>2. host'.stage = "setup" /\ host'.request = r /\ host'.got = host.got
    BY <2>1 DEF TypeInv
  <2> QED BY <2>1, <2>2 DEF HostInv, Active
<1>3. CASE Setup
  <2>1. host.stage = "setup" /\ host.got = <<>> /\ Active
    BY <1>3, SetupSent DEF HostInv
  <2>2. host'.request = host.request /\ host'.got = <<>>
    BY <1>3, <2>1, SetupSent, AckCases
  <2>3. \/ host'.stage = DataStage(host.request) /\ host'.expect = 1
        \/ host'.stage = "setup"
    BY <1>3, <2>1, SetupSent, AckCases
  <2>4. host.request \in Requests
    BY <2>1 DEF HostInv
  <2>5. host.request.toHost \in BOOLEAN
    BY <2>4, RequestType
  <2> QED BY <2>2, <2>3, <2>4, <2>5 DEF HostInv, Active, DataStage, Reads
<1>4. CASE Out
  <2>1. /\ host.stage = "out" /\ host.got = <<>> /\ Active /\ host.expect = 1
        /\ ~host.request.toHost /\ host.request.wLength # 0
        /\ host.request \in Requests
    BY <1>4, OutSent DEF HostInv
  <2>2. host'.request = host.request /\ host'.got = <<>>
    BY <1>4, <2>1, OutSent, AckCases
  <2>3. host'.stage \in {"out", "statusIn"} /\ host'.expect = 1
    BY <1>4, <2>1, OutSent, AckCases
  <2> QED BY <2>1, <2>2, <2>3 DEF HostInv, Active, Reads
<1>5. CASE In
  <2>1. rx = NoPacket /\ rx' = rx /\ Active
    BY <1>5, InCases, SendInEffect
  <2>2. ~Pending("SETUP")'
    BY <2>1, NoPacketFacts DEF Pending
  <2>3. CASE host' = host /\ call' = call
    BY <2>2, <2>3, HostFrame
  <2>4. CASE host.stage = "in" /\ Accept(tx.data)
    <3>1. host'.stage \in {"in", "statusOut"} /\ host'.request = host.request
      BY <2>4, AcceptType
    <3>2. Reads(host.request) /\ host.request \in Requests
      BY <2>1, <2>4 DEF HostInv
    <3> QED BY <2>2, <3>1, <3>2 DEF HostInv, Active
  <2>5. CASE host' = Ended(host) /\ call' = Fresh
    <3>1. host'.stage = "idle" /\ host'.request = NoRequest /\ host'.got = <<>>
      BY <2>1, <2>5, EndedType
    <3> QED BY <2>5, <3>1 DEF HostInv, Active
  <2> QED BY <1>5, <2>3, <2>4, <2>5, InCases
<1>6. CASE InLost
  <2>1. rx = NoPacket /\ rx' = rx /\ Active /\ host' = host
    BY <1>6, SendInEffect DEF InLost
  <2>2. ~Pending("SETUP")'
    BY <2>1, NoPacketFacts DEF Pending
  <2> QED BY <2>1, <2>2, HostFrame
<1>7. CASE StatusOut
  <2>1. Active /\ host' = Ended(host) /\ call' = Fresh
    BY <1>7 DEF StatusOut, Active
  <2>2. host'.stage = "idle" /\ host'.request = NoRequest /\ host'.got = <<>>
    BY <2>1, EndedType
  <2> QED BY <2>1, <2>2 DEF HostInv, Active
<1>8. CASE In1
  <2>1. UNCHANGED <<host, call, rx, pc>>
    BY <1>8 DEF In1
  <2> QED BY <2>1, HostFrame DEF Pending
<1>9. CASE GiveUp
  <2>1. /\ host'.stage \in {"detached", "idle"} /\ host'.request = NoRequest
        /\ host'.got = <<>> /\ call' = Fresh
    BY <1>9, GiveUpEffect, ForgetEffect
  <2> QED BY <2>1 DEF HostInv, Active
<1>10. CASE BusReset \/ Restart
  <2>1. host' = HostInit /\ call' = Fresh
    BY <1>10 DEF BusReset, Forget, Restart
  <2> QED BY <2>1 DEF HostInv, Active, HostInit
<1>11. CASE ResetEnds
  <2>1. host = HostInit /\ host' = [host EXCEPT !.stage = "idle"] /\ call' = call
    BY <1>11 DEF ResetEnds, LineInv
  <2>2. /\ host.stage = "detached" /\ host'.stage = "idle"
        /\ host'.request = host.request /\ host'.got = host.got
    BY <2>1 DEF TypeInv, HostInit
  <2> QED BY <2>1, <2>2 DEF HostInv, Active
<1>12. CASE UNCHANGED vars
  <2>1. UNCHANGED <<host, call, rx, pc>>
    BY <1>12 DEF vars, device, others
  <2> QED BY <2>1, HostFrame DEF Pending
<1> QED BY <1>1, <1>2, <1>3, <1>4, <1>5, <1>6, <1>7, <1>8, <1>9, <1>10, <1>11, <1>12
    DEF Next, Host

------------------------------------------------------------------------------
(* The block in usbTxBuf                                                   *)

LEMMA BuildEffect ==
  ASSUME TypeInv, usbBuildTxBlock
  PROVE  /\ pc = "transmit" /\ pc' = "send" /\ Idle(tx.len) /\ tx'.len = tx.len
         /\ tx'.pid = Toggled(tx.pid)
         /\ msg.len # NoMsg /\ msg'.flags = msg.flags
         /\ tx'.data \in Block
         /\ msg.len < BlockSize => msg'.len = NoMsg /\ Len(tx'.data) = msg.len
         /\ msg.len >= BlockSize =>
              msg'.len = msg.len - BlockSize /\ Len(tx'.data) = BlockSize
<1>1. pc = "transmit" /\ pc' = "send" /\ Idle(tx.len) /\ msg.len # NoMsg
  BY DEF usbBuildTxBlock
<1>2. msg.len \in Nat /\ msg.len < NoMsg
  BY <1>1 DEF TypeInv, MsgLen
<1> PICK n \in 0 .. BlockSize : n = Least(msg.len, BlockSize)
  BY <1>2
<1>3. msg' = Message(IF n < BlockSize THEN NoMsg ELSE msg.len - n,
                     msg.ptr + n, msg.flags)
  BY DEF usbBuildTxBlock
<1>4. /\ msg'.flags = msg.flags
      /\ msg.len < BlockSize => msg'.len = NoMsg
      /\ msg.len >= BlockSize => msg'.len = msg.len - BlockSize
  BY <1>2, <1>3 DEF Message
<1> PICK d : d = usbDeviceRead(n)
  OBVIOUS
<1>5. d \in Seq(Int) /\ Len(d) = n
  <2>1. n \in Nat
    OBVIOUS
  <2> QED BY <2>1, ReadType
<1>6. d \in Block /\ Len(d) = Least(msg.len, BlockSize)
  BY <1>5, BlockIs
<1> PICK pid : pid = Toggled(tx.pid)
  OBVIOUS
<1>7. tx' = [tx EXCEPT !.pid = pid, !.data = d]
  <2>1. tx' = [tx EXCEPT !.pid = Toggled(@), !.data = usbDeviceRead(n)]
    BY Zenon DEF usbBuildTxBlock
  <2> QED BY <2>1
<1>8. tx'.len = tx.len /\ tx'.pid = pid /\ tx'.data = d
  BY <1>7 DEF TypeInv
<1>9. /\ msg.len < BlockSize => Len(d) = msg.len
      /\ msg.len >= BlockSize => Len(d) = BlockSize
  <2>1. /\ msg.len < BlockSize => n = msg.len
        /\ msg.len >= BlockSize => n = BlockSize
    BY <1>2
  <2> QED BY <1>5, <2>1, Zenon
<1>10. /\ tx'.data \in Block
       /\ msg.len < BlockSize => Len(tx'.data) = msg.len
       /\ msg.len >= BlockSize => Len(tx'.data) = BlockSize
  BY <1>6, <1>8, <1>9, Zenon
<1>11. tx'.len = tx.len /\ tx'.pid = Toggled(tx.pid)
  BY <1>8
<1> QED BY <1>1, <1>4, <1>10, <1>11, Zenon

LEMMA SendEffect ==
  ASSUME TypeInv, Send
  PROVE  /\ pc = "send" /\ pc' = "line" /\ ~Idle(tx'.len)
         /\ tx'.pid = tx.pid /\ tx'.data = tx.data /\ msg' = msg
<1>1. Len(tx.data) \in Nat /\ Len(tx.data) <= BlockSize
  BY LenProperties DEF TypeInv, Block, Data
<1> PICK len \in Nat : len = Len(tx.data) + Overhead /\ len <= 12
  BY <1>1 DEF Overhead
<1>2. tx' = [tx EXCEPT !.len = len] /\ pc = "send" /\ pc' = "line" /\ msg' = msg
  BY DEF Send
<1>3. tx'.len = len /\ tx'.pid = tx.pid /\ tx'.data = tx.data
  BY <1>2 DEF TypeInv
<1> QED BY <1>2, <1>3

LEMMA BlockStep ==
  ASSUME TypeInv, HostInv, PacketInv, BlockInv, [Next]_vars PROVE BlockInv'
<1>1. CASE UNCHANGED <<tx, msg, pc>>
  BY <1>1 DEF BlockInv, Full
<1>2. CASE usbProcessRx
  <2>1. CASE ProcessSetup
    <3>1. pc' = "release" /\ tx' = [len |-> NAK, pid |-> 0, data |-> <<>>]
          /\ (msg'.flags # ROM => msg'.len <= BlockSize \/ msg'.len = NoMsg)
      BY <1>2, <2>1, RxEffect, SetupEffect DEF Prepared
    <3> QED BY <3>1 DEF BlockInv, Full
  <2>2. CASE ProcessData
    <3>1. tx' = tx /\ pc = "poll" /\ pc' = "release" /\ (msg' = msg \/ msg'.len = 0)
          /\ msg'.flags = msg.flags
      BY <1>2, <2>2, RxEffect DEF ProcessData, TypeInv
    <3> QED BY <3>1 DEF BlockInv, Full
  <2> QED BY <1>2, <2>1, <2>2, RxEffect
<1>3. CASE \/ NothingReceived \/ ReleaseRx
  <2>1. /\ UNCHANGED <<tx, msg>> /\ pc' = "transmit" /\ pc # "send"
        /\ pc \in {"poll", "release"}
    BY <1>3 DEF NothingReceived, ReleaseRx, others
  <2> QED BY <2>1 DEF BlockInv, Full
<1>4. CASE usbBuildTxBlock
  <2>1. msg.len \in Nat
    BY DEF TypeInv, MsgLen
  <2>2. msg'.flags # ROM => msg'.len \in {0, NoMsg}
    BY <1>4, <2>1, BuildEffect DEF BlockInv
  <2> QED BY <1>4, <2>2, BuildEffect DEF BlockInv, Full
<1>5. CASE NothingToSend
  <2>1. UNCHANGED <<tx, msg>> /\ pc = "transmit" /\ pc' = "line"
        /\ (~Idle(tx.len) \/ msg.len = NoMsg)
    BY <1>5 DEF NothingToSend, others
  <2> QED BY <2>1 DEF BlockInv, Full
<1>6. CASE Send
  BY <1>6, SendEffect DEF BlockInv, Full
<1>7. CASE CheckLine \/ usbSetInterrupt \/ NotReady
  <2>1. UNCHANGED <<tx, msg>> /\ pc \in {"line", "ready"} /\ pc' \in {"ready", "poll"}
    BY <1>7 DEF CheckLine, usbSetInterrupt, NotReady, others
  <2> QED BY <2>1 DEF BlockInv, Full
<1>8. CASE In \/ InLost
  <2>1. SendIn
    BY <1>8 DEF In, InLost
  <2>2. UNCHANGED <<msg, pc>> /\ ~Idle(tx.len) /\ tx'.len = NAK /\ tx'.data = <<>>
        /\ pc # "send"
    BY <2>1, SendInEffect
  <2> QED BY <2>2 DEF BlockInv, Full
<1>9. CASE Restart
  <2>1. tx'.len = NAK /\ tx'.data = <<>> /\ msg'.len = NoMsg /\ pc' = "poll"
    BY <1>9, InitTypes DEF Restart
  <2> QED BY <2>1 DEF BlockInv, Full
<1>10. CASE Host /\ ~In /\ ~InLost
  <2>1. UNCHANGED <<tx, msg, pc>>
    BY <1>10 DEF Host, Start, Setup, Out, StatusOut, In1, GiveUp, BusReset, ResetEnds, device
  <2> QED BY <1>1, <2>1
<1>11. CASE UNCHANGED vars
  BY <1>1, <1>11 DEF vars, device
<1> QED BY <1>2, <1>3, <1>4, <1>5, <1>6, <1>7, <1>8, <1>9, <1>10, <1>11
    DEF Next, MainLoop
------------------------------------------------------------------------------
(* How often the packets of a transfer were seen                           *)

LEMMA CountType == ASSUME NEW token PROVE Count(token) \in {0, 1}
BY DEF Count

LEMMA CountFrame ==
  ASSUME CountInv, host' = host, call'.served = call.served,
         call'.decoded = call.decoded, call'.lost = call.lost,
         Count("SETUP")' = Count("SETUP"), Count("OUT")' = Count("OUT")
  PROVE  CountInv'
BY DEF CountInv

LEMMA CountIdle == ASSUME ~Active', call' = Fresh PROVE CountInv'
BY DEF CountInv, Active, Fresh

LEMMA NoCount == ASSUME ~rx.own, NEW token PROVE Count(token) = 0
BY DEF Count, Pending

(* What usbProcessRx has seen is no longer waiting.                        *)
LEMMA CountRx ==
  ASSUME TypeInv, HostInv, PacketInv, CountInv, ReplyInv, usbProcessRx
  PROVE  CountInv'
<1>1. /\ rx # NoPacket /\ host' = host /\ rx' = rx /\ call'.lost = call.lost
      /\ Count("SETUP")' = 0 /\ Count("OUT")' = 0 /\ pc = "poll"
  BY RxEffect DEF Count, Pending
<1>2. CASE ~rx.own
  <2>1. call' = call /\ Count("SETUP") = 0 /\ Count("OUT") = 0
    BY <1>2, RxEffect, NoCount
  <2> QED BY <1>1, <2>1, CountFrame
<1>3. CASE rx.own /\ ProcessSetup
  <2>1. rx.token = "SETUP"
    BY <1>3 DEF ProcessSetup
  <2>2. Count("SETUP") = 1 /\ Count("OUT") = 0
    BY <1>1, <1>3, <2>1 DEF Count, Pending
  <2>3. call'.served = call.served + 1 /\ call'.decoded = call.decoded
    <3> PICK served : served = call.served + 1
      OBVIOUS
    <3> PICK answer : answer = Meant(rx.request)
      OBVIOUS
    <3>1. call' = [call EXCEPT !.served = served, !.answer = answer]
      <4>1. call' = IF rx.own
                    THEN [call EXCEPT !.served = @ + 1, !.answer = Meant(rx.request)]
                    ELSE call
        BY <1>3 DEF ProcessSetup
      <4> QED BY <1>3, <4>1
    <3> QED BY <3>1 DEF TypeInv
  <2>4. call.served \in Nat /\ call.decoded \in Nat /\ call.lost \in Nat
    BY DEF TypeInv
  <2> QED BY <1>1, <2>2, <2>3, <2>4 DEF CountInv
<1>4. CASE rx.own /\ ProcessData
  <2>1. rx.token = "OUT"
    BY <1>4 DEF ProcessData
  <2>2. Count("SETUP") = 0 /\ Count("OUT") = 1 /\ ~Pending("SETUP")
    BY <1>1, <1>4, <2>1 DEF Count, Pending
  <2>3. host.stage \in {"out", "statusIn"} /\ ~call.damaged /\ Active
    BY <1>1, <1>4, <2>1 DEF PacketInv
  <2>4. call.served \in Nat /\ call.decoded \in Nat /\ call.lost \in Nat
    BY DEF TypeInv
  <2>5. call.served > 0
    BY <2>2, <2>3, <2>4 DEF CountInv
  <2>6. msg.flags = UserRW <=> ToUcp(host.request)
    BY <2>2, <2>3, <2>5 DEF ReplyInv, Served
  <2>7. CASE msg.flags = UserRW
    <3>1. call' = [call EXCEPT !.decoded = @ + 1]
      BY <1>4, <2>7 DEF ProcessData
    <3>2. call'.served = call.served /\ call'.decoded = call.decoded + 1
      BY <3>1 DEF TypeInv
    <3> QED BY <1>1, <2>2, <2>3, <2>4, <2>6, <2>7, <3>2 DEF CountInv
  <2>8. CASE msg.flags # UserRW
    <3>1. call' = call
      BY <1>4, <2>8 DEF ProcessData
    <3> QED BY <1>1, <2>2, <2>3, <2>4, <2>6, <2>8, <3>1 DEF CountInv
  <2> QED BY <2>7, <2>8
<1> QED BY <1>2, <1>3, <1>4, RxEffect

LEMMA CountReceive ==
  ASSUME TypeInv, HostInv, PacketInv, CountInv, Setup \/ Out
  PROVE  CountInv'
<1>1. call.served \in Nat /\ call.decoded \in Nat /\ call.lost \in Nat
  BY DEF TypeInv
<1>2. CASE Setup
  <2>1. /\ rx = NoPacket /\ pc' = pc /\ pc # "release"
        /\ rx'.own /\ rx'.token = "SETUP" /\ host.stage = "setup" /\ Active
    BY <1>2, SetupSent DEF PacketInv
  <2>2. /\ Count("SETUP") = 0 /\ Count("OUT") = 0
        /\ Count("SETUP")' = 1 /\ Count("OUT")' = 0
    BY <2>1, NoPacketFacts DEF Count, Pending
  <2>3. /\ host'.request = host.request
        /\ call'.served = call.served /\ call'.decoded = call.decoded
        /\ \/ host'.stage = DataStage(host.request) /\ call' = call
           \/ host' = host /\ call'.lost = call.lost + 1
    BY <1>2, SetupSent, AckCases
  <2>4. ToUcp(host.request) => host.request.wLength # 0
    BY <2>1, HostFacts, RequestType DEF ToUcp, Class
  <2>5. /\ DataStage(host.request) \in {"in", "out", "statusIn"}
        /\ DataStage(host.request) = "statusIn" => host.request.wLength = 0
    BY DEF DataStage
  <2>6. call.served = call.lost /\ call.decoded = 0
    BY <1>1, <2>1, <2>2 DEF CountInv
  <2>7. CASE host'.stage = DataStage(host.request) /\ call' = call
    BY <1>1, <2>2, <2>3, <2>4, <2>5, <2>6, <2>7 DEF CountInv
  <2>8. CASE host' = host /\ call'.lost = call.lost + 1
    BY <1>1, <2>1, <2>2, <2>3, <2>6, <2>8 DEF CountInv
  <2> QED BY <2>3, <2>7, <2>8
<1>3. CASE Out
  <2>1. /\ rx = NoPacket /\ pc' = pc /\ pc # "release"
        /\ rx'.own /\ rx'.token = "OUT" /\ host.stage = "out"
    BY <1>3, OutSent DEF PacketInv
  <2>2. /\ Count("SETUP") = 0 /\ Count("OUT") = 0
        /\ Count("SETUP")' = 0 /\ Count("OUT")' = 1
    BY <2>1, NoPacketFacts DEF Count, Pending
  <2>3. /\ host'.request = host.request
        /\ call'.served = call.served /\ call'.decoded = call.decoded
        /\ \/ host'.stage = "statusIn" /\ call' = call
           \/ host' = host /\ call'.lost = call.lost + 1
    BY <1>3, OutSent, AckCases
  <2>4. CASE host'.stage = "statusIn" /\ call' = call
    BY <1>1, <2>1, <2>2, <2>3, <2>4 DEF CountInv
  <2>5. CASE host' = host /\ call'.lost = call.lost + 1
    BY <1>1, <2>1, <2>2, <2>3, <2>5 DEF CountInv
  <2> QED BY <2>3, <2>4, <2>5
<1> QED BY <1>2, <1>3

LEMMA CountStep ==
  ASSUME TypeInv, HostInv, PacketInv, CountInv, BlockInv, ReplyInv, LineInv,
         [Next]_vars
  PROVE  CountInv'
<1>1. CASE usbProcessRx
  BY <1>1, CountRx
<1>2. CASE MainLoop /\ ~usbProcessRx
  <2>1. host' = host /\ call' = call
    BY <1>2, MainFrame
  <2>2. /\ Pending("SETUP")' <=> Pending("SETUP")
        /\ Pending("OUT")' <=> Pending("OUT")
    BY <1>2, MainFrame
  <2>3. Count("SETUP")' = Count("SETUP") /\ Count("OUT")' = Count("OUT")
    BY <2>2 DEF Count
  <2> QED BY <2>1, <2>3, CountFrame
<1>3. ASSUME NEW r \in Requests, Start(r) PROVE CountInv'
  <2>1. host'.stage = "setup" /\ host.stage = "idle" /\ UNCHANGED <<rx, pc, call>>
    BY <1>3 DEF Start, device, TypeInv
  <2>2. call = Fresh /\ ~rx.own
    BY <2>1 DEF HostInv, PacketInv, Active
  <2>3. Count("SETUP")' = 0 /\ Count("OUT")' = 0
    BY <2>1, <2>2 DEF Count, Pending
  <2> QED BY <2>1, <2>2, <2>3 DEF CountInv, Fresh
<1>4. CASE Setup \/ Out
  BY <1>4, CountReceive
<1>5. CASE In
  <2>1. UNCHANGED <<rx, pc>> /\ rx = NoPacket /\ Active
    BY <1>5, InCases, SendInEffect
  <2>2. /\ Count("SETUP")' = 0 /\ Count("SETUP") = 0
        /\ Count("OUT")' = 0 /\ Count("OUT") = 0
    BY <2>1, NoPacketFacts DEF Count, Pending
  <2>3. CASE host' = host /\ call' = call
    BY <2>2, <2>3, CountFrame
  <2>4. CASE host.stage = "in" /\ Accept(tx.data)
    <3>1. host'.stage \in {"in", "statusOut"} /\ call' = call
          /\ host'.request = host.request
      BY <2>4, AcceptType
    <3> QED BY <2>2, <2>4, <3>1 DEF CountInv
  <2>5. CASE host' = Ended(host) /\ call' = Fresh
    <3>1. ~Active'
      BY <2>1, <2>5, EndedType DEF Active
    <3> QED BY <2>5, <3>1, CountIdle
  <2> QED BY <1>5, <2>3, <2>4, <2>5, InCases
<1>6. CASE InLost
  <2>1. UNCHANGED <<rx, pc, host>> /\ call' = [call EXCEPT !.damaged = TRUE]
    BY <1>6, SendInEffect DEF InLost
  <2>2. call'.served = call.served /\ call'.decoded = call.decoded
        /\ call'.lost = call.lost
    BY <2>1 DEF TypeInv
  <2> QED BY <2>1, <2>2, CountFrame DEF Count, Pending
<1>7. CASE StatusOut
  <2>1. Active /\ host' = Ended(host) /\ call' = Fresh
    BY <1>7 DEF StatusOut, Active
  <2>2. ~Active'
    BY <2>1, EndedType DEF Active
  <2> QED BY <2>1, <2>2, CountIdle
<1>8. CASE In1 \/ UNCHANGED vars
  <2>1. UNCHANGED <<host, call, rx, pc>>
    BY <1>8 DEF In1, vars, device, others
  <2> QED BY <2>1, CountFrame DEF Count, Pending
<1>9. CASE GiveUp
  <2>1. ~Active' /\ call' = Fresh
    BY <1>9, GiveUpEffect, ForgetEffect DEF Active
  <2> QED BY <2>1, CountIdle
<1>10. CASE BusReset \/ Restart
  <2>1. host' = HostInit /\ call' = Fresh
    BY <1>10 DEF BusReset, Forget, Restart
  <2> QED BY <2>1, CountIdle DEF Active, HostInit
<1>11. CASE ResetEnds
  <2>1. host.stage = "detached" /\ host'.stage = "idle" /\ call' = call
    BY <1>11 DEF ResetEnds, LineInv, HostInit, TypeInv
  <2>2. call = Fresh
    BY <2>1 DEF HostInv, Active
  <2> QED BY <2>1, <2>2, CountIdle DEF Active
<1> QED BY <1>1, <1>2, <1>3, <1>4, <1>5, <1>6, <1>7, <1>8, <1>9, <1>10, <1>11
    DEF Next, Host
------------------------------------------------------------------------------
(* The state of the bus                                                    *)

LEMMA LineStep ==
  ASSUME TypeInv, PacketInv, HostInv, LineInv, [Next]_vars PROVE LineInv'
<1>1. CASE usbProcessRx
  BY <1>1, RxEffect DEF LineInv, Passes
<1>2. CASE NothingReceived
  <2>1. rx = NoPacket
    BY <1>2, PacketFacts DEF NothingReceived
  <2> QED BY <1>2, <2>1 DEF NothingReceived, LineInv, Passes
<1>3. CASE CheckLine
  BY <1>3 DEF CheckLine, LineInv, Passes, TypeInv
<1>4. CASE \/ ReleaseRx \/ usbBuildTxBlock \/ NothingToSend \/ Send
           \/ usbSetInterrupt \/ NotReady
  BY <1>4 DEF ReleaseRx, usbBuildTxBlock, NothingToSend, Send, usbSetInterrupt,
       NotReady, others, LineInv
<1>5. CASE GiveUp
  <2>1. Active
    BY <1>5, GiveUpEffect
  <2>2. line = "J"
    BY <2>1 DEF LineInv, Active, HostInit, TypeInv
  <2> QED BY <1>5, <2>2 DEF GiveUp, LineInv
<1>6. CASE BusReset
  BY <1>6 DEF BusReset, LineInv
<1>7. CASE ResetEnds \/ Restart
  BY <1>7 DEF ResetEnds, Restart, LineInv
<1>8. CASE (\E r \in Requests : Start(r)) \/ Setup \/ Out \/ In \/ InLost
           \/ StatusOut \/ In1
  <2>1. line = "J" /\ line' = line
    BY <1>8 DEF Start, Setup, Out, Receive, In, InLost, SendIn, StatusOut, In1,
         MaySend, Heard
  <2> QED BY <2>1 DEF LineInv
<1>9. CASE UNCHANGED vars
  BY <1>9 DEF vars, device, others, LineInv
<1> QED BY <1>1, <1>2, <1>3, <1>4, <1>5, <1>6, <1>7, <1>8, <1>9
    DEF Next, MainLoop, Host

------------------------------------------------------------------------------
(* Addresses                                                               *)

LEMMA NoRequestFacts ==
  /\ ~SetsAddress(NoRequest) /\ ~Standard(NoRequest, "SET_CONFIGURATION")
  /\ ~ToUcp(NoRequest) /\ ~Reads(NoRequest)
BY DEF SetsAddress, Standard, ToUcp, Class, Reads, NoRequest

LEMMA SetsAddressFacts ==
  ASSUME NEW r \in Requests, SetsAddress(r)
  PROVE  /\ ~Reads(r) /\ r.wLength = 0 /\ r.lo \in Address
         /\ ~Standard(r, "SET_CONFIGURATION")
BY RequestType DEF SetsAddress, Standard, Reads

LEMMA AddrFrame ==
  ASSUME AddrInv, UNCHANGED <<addr, host>>, line' = "J" => line = "J",
         SetsAddress(rx'.request) /\ pc' # "release" => rx'.own,
         Served' => Served, call'.damaged = call.damaged
  PROVE  AddrInv'
BY DEF AddrInv

(* Nothing of a transfer is seen but what the host has sent.               *)
LEMMA AddrRx ==
  ASSUME TypeInv, PacketInv, HostInv, AddrInv, usbProcessRx PROVE AddrInv'
<1>1. /\ rx # NoPacket /\ UNCHANGED <<rx, host>> /\ pc = "poll" /\ pc' = "release"
      /\ call'.damaged = call.damaged /\ (line' = "J" => line = "J")
  BY RxEffect DEF Passes
<1>2. CASE ProcessData
  <2>1. addr' = addr /\ rx.token = "OUT" /\ call'.served = call.served
    BY <1>2 DEF ProcessData, TypeInv
  <2>2. Served' => Served
    BY <1>1, <2>1 DEF Served, Pending, Active
  <2> QED BY <1>1, <2>1, <2>2, AddrFrame
<1>3. CASE ProcessSetup
  <2>1. addr' = IF SetsAddress(rx.request)
                THEN [addr EXCEPT !.new = rx.request.lo] ELSE addr
    BY <1>1, <1>3, SetupEffect
  <2>2. CASE line = "J" /\ host.stage # "detached" /\ SetsAddress(rx.request)
    <3>1. rx.own /\ rx.request = host.request
      BY <1>1, <2>2 DEF AddrInv, PacketInv
    <3>2. addr'.dev = addr.dev /\ addr'.new = host.request.lo
      BY <2>1, <2>2, <3>1 DEF TypeInv
    <3> QED BY <1>1, <2>2, <3>1, <3>2 DEF AddrInv
  <2>3. CASE line = "J" /\ host.stage # "detached" /\ ~SetsAddress(rx.request)
    <3>1. addr' = addr
      BY <2>1, <2>3
    <3>2. SetsAddress(host.request) => ~Served'
      <4>1. SUFFICES ASSUME SetsAddress(host.request) PROVE ~Served'
        OBVIOUS
      <4>2. ~rx.own
        BY <2>3, <4>1 DEF PacketInv
      <4>3. call' = call /\ call = Fresh
        BY <1>1, <4>2, RxEffect DEF PacketInv
      <4> QED BY <4>3 DEF Served, Fresh
    <3> QED BY <1>1, <2>3, <3>1, <3>2 DEF AddrInv
  <2>4. CASE ~(line = "J" /\ host.stage # "detached")
    BY <1>1, <2>4 DEF AddrInv
  <2> QED BY <2>2, <2>3, <2>4
<1> QED BY <1>2, <1>3, RxEffect

(* An IN token that is answered puts the right address into force.         *)
LEMMA AddrIn ==
  ASSUME TypeInv, PacketInv, HostInv, CountInv, BlockInv, ReplyInv, AddrInv,
         In \/ InLost
  PROVE  AddrInv'
<1>1. /\ SendIn /\ host.stage \in {"in", "statusIn"} /\ Active
      /\ line = "J" /\ line' = line /\ addr.dev = host.addr
      /\ rx = NoPacket /\ UNCHANGED <<rx, pc>> /\ ~Idle(tx.len)
      /\ addr' = [addr EXCEPT !.dev = addr.new]
  BY SendInEffect DEF In, InLost
<1>2. addr'.dev = addr.new /\ addr'.new = addr.new
  BY <1>1 DEF TypeInv
<1>3. /\ ~Pending("SETUP") /\ Count("SETUP") = 0 /\ ~Pending("SETUP")'
      /\ ~SetsAddress(rx.request)
  BY <1>1, NoPacketFacts, NoRequestFacts DEF Pending, Count
<1>4. call.served \in Nat /\ call.served >= 1
  BY <1>1, <1>3 DEF CountInv, TypeInv
<1>5. Served
  BY <1>1, <1>3, <1>4 DEF Served
<1>6. host.request \in Requests
  BY <1>1, HostFacts
<1>7. SetsAddress(host.request) => addr.new = host.request.lo
  BY <1>1, <1>5 DEF AddrInv
<1>8. ~SetsAddress(host.request) => addr.new = host.addr
  BY <1>1 DEF AddrInv
<1>9. CASE InLost
  <2>1. call' = [call EXCEPT !.damaged = TRUE] /\ host' = host
    BY <1>9 DEF InLost
  <2>2. call'.damaged
    BY <2>1 DEF TypeInv
  <2> QED BY <1>1, <1>2, <1>3, <1>7, <1>8, <2>1, <2>2 DEF AddrInv
<1>10. CASE host' = host /\ call' = call /\ tx.pid # host.expect
  <2>1. SetsAddress(host.request) => call.damaged
    <3>1. SUFFICES ASSUME SetsAddress(host.request), ~call.damaged PROVE FALSE
      OBVIOUS
    <3>2. host.request.wLength = 0 /\ ~Reads(host.request)
      BY <1>6, <3>1, SetsAddressFacts
    <3>3. host.stage = "statusIn" /\ host.expect = 1
      BY <1>1, <3>2 DEF HostInv
    <3>4. tx.pid = 1
      BY <1>1, <1>5, <3>1, <3>2 DEF ReplyInv, Full
    <3> QED BY <1>10, <3>3, <3>4
  <2> QED BY <1>1, <1>2, <1>3, <1>7, <1>8, <1>10, <2>1 DEF AddrInv
<1>11. CASE host.stage = "in" /\ Accept(tx.data)
  <2>1. /\ host'.request = host.request /\ host'.addr = host.addr
        /\ host'.configured = host.configured /\ call' = call
        /\ host'.stage \in {"in", "statusOut"}
    BY <1>11, AcceptType
  <2>2. ~SetsAddress(host.request)
    BY <1>6, <1>11, SetsAddressFacts DEF HostInv
  <2> QED BY <1>1, <1>2, <1>3, <1>8, <2>1, <2>2 DEF AddrInv
<1>12. CASE host' = Ended(host) /\ call' = Fresh
  <2>1. /\ host'.stage = "idle" /\ host'.request = NoRequest
        /\ host'.addr = IF SetsAddress(host.request) THEN host.request.lo ELSE host.addr
        /\ host'.configured =
             (host.configured \/ Standard(host.request, "SET_CONFIGURATION"))
    BY <1>1, <1>12, EndedType
  <2>2. addr'.dev = host'.addr /\ addr'.new = addr'.dev
    BY <1>2, <1>7, <1>8, <2>1
  <2>3. host'.configured => host'.addr # 0
    <3>1. CASE SetsAddress(host.request)
      <4>1. ~Standard(host.request, "SET_CONFIGURATION") /\ host.addr = 0
        BY <1>6, <3>1, SetsAddressFacts DEF AddrInv
      <4> QED BY <2>1, <4>1 DEF AddrInv
    <3>2. CASE ~SetsAddress(host.request)
      BY <2>1, <3>2 DEF AddrInv
    <3> QED BY <3>1, <3>2
  <2> QED BY <1>1, <1>3, <2>1, <2>2, <2>3, NoRequestFacts DEF AddrInv
<1> QED BY <1>9, <1>10, <1>11, <1>12, InCases

LEMMA AddrStep ==
  ASSUME TypeInv, PacketInv, HostInv, CountInv, BlockInv, ReplyInv, LineInv, AddrInv,
         [Next]_vars
  PROVE  AddrInv'
<1>1. CASE usbProcessRx
  BY <1>1, AddrRx
<1>2. CASE ReleaseRx
  <2>1. /\ UNCHANGED <<addr, host, call, line>> /\ rx' = NoPacket
        /\ ~Pending("SETUP")
    BY <1>2 DEF ReleaseRx, others, Pending
  <2>2. Served' => Served
    BY <2>1 DEF Served, Active
  <2> QED BY <2>1, <2>2, NoPacketFacts, NoRequestFacts, AddrFrame
<1>3. CASE CheckLine
  <2>1. /\ UNCHANGED <<rx, host, call>> /\ pc = "line" /\ pc' = "ready"
        /\ addr' = IF line = "J" THEN addr ELSE [dev |-> 0, new |-> 0]
        /\ line' = "J" <=> line = "J"
    BY <1>3 DEF CheckLine, Passes
  <2>2. Served' <=> Served
    BY <2>1 DEF Served, Active, Pending
  <2> QED BY <2>1, <2>2 DEF AddrInv
<1>4. CASE \/ NothingReceived \/ usbBuildTxBlock \/ NothingToSend \/ Send
           \/ usbSetInterrupt \/ NotReady
  <2>1. /\ UNCHANGED <<addr, host, call, rx>> /\ pc # "release" /\ pc' # "release"
        /\ (line' = "J" => line = "J")
    BY <1>4 DEF NothingReceived, usbBuildTxBlock, NothingToSend, Send, usbSetInterrupt,
         NotReady, others, Passes
  <2>2. Served' => Served
    BY <2>1 DEF Served, Active, Pending
  <2> QED BY <2>1, <2>2 DEF AddrInv
<1>5. ASSUME NEW r \in Requests, Start(r) PROVE AddrInv'
  <2>1. /\ host.stage = "idle" /\ line = "J" /\ MayAsk(r)
        /\ host' = [host EXCEPT !.stage = "setup", !.request = r]
        /\ UNCHANGED <<rx, pc, addr, line, call>>
    BY <1>5 DEF Start, device
  <2>2. /\ host'.stage = "setup" /\ host'.request = r /\ host'.addr = host.addr
        /\ host'.configured = host.configured
    BY <2>1 DEF TypeInv
  <2>3. /\ SetsAddress(r) => host.addr = 0
        /\ Standard(r, "SET_CONFIGURATION") => host.addr # 0
    BY <2>1 DEF MayAsk, SetsAddress, Standard
  <2>4. host.request = NoRequest /\ call = Fresh
    BY <2>1 DEF HostInv, Active
  <2>5. ~Served'
    BY <2>1, <2>4 DEF Served, Fresh
  <2>6. addr.dev = host.addr /\ addr.new = addr.dev
    BY <2>1, <2>4, NoRequestFacts DEF AddrInv
  <2> QED BY <2>1, <2>2, <2>3, <2>5, <2>6 DEF AddrInv
<1>6. CASE Setup
  <2>1. /\ UNCHANGED <<addr, pc, line>> /\ rx'.own /\ rx'.token = "SETUP" /\ pc # "release"
        /\ host.stage = "setup" /\ Active
    BY <1>6, SetupSent DEF PacketInv
  <2>2. /\ host'.request = host.request /\ host'.addr = host.addr
        /\ host'.configured = host.configured /\ call'.damaged = call.damaged
    BY <1>6, SetupSent, AckCases
  <2>3. ~Served'
    BY <2>1 DEF Served, Pending
  <2> QED BY <2>1, <2>2, <2>3 DEF AddrInv
<1>7. CASE Out
  <2>1. /\ UNCHANGED <<addr, pc, line>> /\ rx'.own /\ rx'.token = "OUT" /\ rx = NoPacket
        /\ host.stage = "out" /\ Active
    BY <1>7, OutSent
  <2>2. /\ host'.request = host.request /\ host'.addr = host.addr
        /\ host'.configured = host.configured /\ call'.damaged = call.damaged
        /\ call'.served = call.served
    BY <1>7, OutSent, AckCases
  <2>3. Served' => Served
    BY <2>1, <2>2, NoPacketFacts DEF Served, Pending
  <2> QED BY <2>1, <2>2, <2>3 DEF AddrInv
<1>8. CASE In \/ InLost
  BY <1>8, AddrIn
<1>9. CASE StatusOut
  <2>1. /\ Active /\ host' = Ended(host) /\ host.stage = "statusOut"
        /\ UNCHANGED <<rx, addr, line, pc>>
    BY <1>9 DEF StatusOut, Active, device
  <2>2. host.request \in Requests /\ Reads(host.request)
    BY <2>1 DEF HostInv
  <2>3. ~SetsAddress(host.request)
    BY <2>2, SetsAddressFacts
  <2>4. /\ host'.stage = "idle" /\ host'.request = NoRequest /\ host'.addr = host.addr
        /\ host'.configured =
             (host.configured \/ Standard(host.request, "SET_CONFIGURATION"))
    BY <2>1, <2>3, EndedType
  <2> QED BY <2>1, <2>3, <2>4, NoRequestFacts DEF AddrInv
<1>10. CASE In1
  <2>1. /\ host.configured /\ line = "J" /\ addr' = [addr EXCEPT !.dev = addr.new]
        /\ UNCHANGED <<rx, pc, host, call, line>>
    BY <1>10 DEF In1, MaySend, Heard, TakeAddress
  <2>2. ~SetsAddress(host.request)
    BY <2>1 DEF AddrInv
  <2>3. addr'.dev = addr.new /\ addr'.new = addr.new
    BY <2>1 DEF TypeInv
  <2> QED BY <2>1, <2>2, <2>3 DEF AddrInv
<1>11. CASE GiveUp
  <2>1. /\ Active /\ Forget /\ UNCHANGED <<addr, line, pc>>
        /\ host'.stage = IF SetsAddress(host.request) THEN "detached" ELSE "idle"
        /\ host'.request = NoRequest /\ host'.addr = host.addr
        /\ host'.configured = host.configured
    BY <1>11, GiveUpEffect
  <2>2. ~rx'.own /\ rx'.request = rx.request
    BY <2>1, ForgetEffect
  <2>3. CASE SetsAddress(host.request)
    BY <2>1, <2>3, NoRequestFacts DEF AddrInv
  <2>4. CASE ~SetsAddress(host.request) /\ line = "J"
    <3>1. SetsAddress(rx.request) => pc = "release"
      BY <2>1, <2>4 DEF AddrInv, PacketInv, Active
    <3> QED BY <2>1, <2>2, <2>4, <3>1, NoRequestFacts DEF AddrInv, Active
  <2>5. CASE line # "J"
    BY <2>1, <2>5, NoRequestFacts DEF AddrInv
  <2> QED BY <2>3, <2>4, <2>5
<1>12. CASE BusReset \/ Restart
  <2>1. host' = HostInit
    BY <1>12 DEF BusReset, Restart
  <2> QED BY <2>1, NoRequestFacts DEF AddrInv, HostInit
<1>13. CASE ResetEnds
  <2>1. /\ host = HostInit /\ host' = [host EXCEPT !.stage = "idle"]
        /\ UNCHANGED <<rx, addr, pc>> /\ rx = NoPacket
        /\ addr = [dev |-> 0, new |-> 0]
    BY <1>13 DEF ResetEnds, LineInv, device
  <2>2. /\ host'.stage = "idle" /\ host'.request = NoRequest /\ host'.addr = 0
        /\ ~host'.configured
    BY <2>1 DEF HostInit
  <2> QED BY <2>1, <2>2, NoPacketFacts, NoRequestFacts DEF AddrInv
<1>14. CASE UNCHANGED vars
  <2>1. UNCHANGED <<rx, addr, pc, line, host, call>>
    BY <1>14 DEF vars, device, others
  <2> QED BY <2>1 DEF AddrInv, Served, Active, Pending
<1> QED BY <1>1, <1>2, <1>3, <1>4, <1>5, <1>6, <1>7, <1>8, <1>9, <1>10, <1>11, <1>12,
           <1>13, <1>14 DEF Next, MainLoop, Host
------------------------------------------------------------------------------
(* The reply                                                               *)

LEMMA RestFrame ==
  ASSUME TypeInv, BlockInv, msg' = msg,
         \/ UNCHANGED <<hid, usbConfiguration>>
         \/ pc \notin {"release", "transmit"}
  PROVE  Rest' = Rest
<1>1. CASE msg.len = NoMsg
  BY <1>1 DEF Rest
<1>2. CASE msg.len # NoMsg
  <2> PICK n \in Nat : n = msg.len
    BY DEF TypeInv, MsgLen
  <2>1. Rest = usbDeviceRead(n) /\ Rest' = (usbDeviceRead(n))'
    BY <1>2 DEF Rest
  <2>2. CASE n = 0
    BY <2>1, <2>2 DEF usbDeviceRead
  <2>3. CASE UNCHANGED <<hid, usbConfiguration>>
    BY <2>1, <2>3 DEF usbDeviceRead, Ram
  <2>4. CASE n # 0 /\ pc \notin {"release", "transmit"}
    <3>1. msg.flags = ROM
      BY <1>2, <2>4 DEF BlockInv
    <3> QED BY <2>1, <3>1 DEF usbDeviceRead
  <2> QED BY <2>2, <2>3, <2>4
<1> QED BY <1>1, <1>2

LEMMA ReplyFrame ==
  ASSUME ReplyInv, host' = host, Served' => Served,
         call'.damaged = call.damaged, call'.answer = call.answer,
         tx'.pid = tx.pid, tx'.data = tx.data, Full' <=> Full,
         msg' = msg, Rest' = Rest
  PROVE  ReplyInv'
BY DEF ReplyInv, Expected

LEMMA NotServed == ASSUME ~Active' PROVE ReplyInv'
BY DEF ReplyInv, Served

(* The answer to a SETUP is prepared afresh each time.                     *)
LEMMA ReplyRx ==
  ASSUME TypeInv, PacketInv, HostInv, ReplyInv, usbProcessRx PROVE ReplyInv'
<1>1. /\ rx # NoPacket /\ UNCHANGED <<rx, host>> /\ pc = "poll" /\ pc' = "release"
      /\ call'.damaged = call.damaged
  BY RxEffect
<1>2. CASE ~rx.own
  <2>1. call' = call /\ call = Fresh
    BY <1>1, <1>2, RxEffect DEF PacketInv
  <2> QED BY <2>1 DEF ReplyInv, Served, Fresh
<1>3. CASE rx.own /\ ProcessData
  <2>1. /\ rx.token = "OUT" /\ tx' = tx /\ msg'.flags = msg.flags
        /\ msg' = msg \/ msg'.len = 0
        /\ call'.served = call.served
    BY <1>3 DEF ProcessData, TypeInv
  <2>2. /\ host.stage \in {"out", "statusIn"} /\ ~Reads(host.request)
        /\ host.request.wLength # 0
    BY <1>3, <2>1 DEF PacketInv, Reads
  <2>3. Served' => Served
    BY <1>1, <2>1 DEF Served, Pending, Active
  <2> QED BY <1>1, <2>1, <2>2, <2>3 DEF ReplyInv
<1>4. CASE rx.own /\ ProcessSetup
  <2> PICK r \in Requests : r = host.request /\ r = rx.request
    BY <1>1, <1>4, PacketFacts DEF PacketInv
  <2>1. /\ rx.token = "SETUP" /\ Prepared(r)
        /\ tx' = [len |-> NAK, pid |-> 0, data |-> <<>>]
    BY <1>1, <1>4, SetupEffect
  <2>2. tx'.data = <<>> /\ tx'.pid = 0 /\ ~Full'
    BY <1>1, <2>1 DEF Full
  <2>3. call'.answer = Meant(r)
    <3> PICK served : served = call.served + 1
      OBVIOUS
    <3> PICK answer : answer = Meant(r)
      OBVIOUS
    <3>1. call' = IF rx.own
                  THEN [call EXCEPT !.served = @ + 1, !.answer = Meant(rx.request)]
                  ELSE call
      BY <1>4 DEF ProcessSetup
    <3>2. call' = [call EXCEPT !.served = served, !.answer = answer]
      BY <1>4, <3>1
    <3> QED BY <3>2 DEF TypeInv
  <2>4. Meant(r) \in Seq(Int) /\ Len(Meant(r)) <= r.wLength
    <3> PICK n \in Nat : Asked(r) \in [1 .. n -> Int]
      BY AskedType
    <3> QED BY MeantType
  <2>5. host.stage # "statusOut"
    BY <1>1 DEF PacketInv
  <2>6. Reads(r) => host.got = <<>> /\ Expected = 1
    <3>1. Pending("SETUP")
      BY <1>1, <1>4, <2>1 DEF Pending
    <3>2. Active
      BY <1>4 DEF PacketInv
    <3> QED BY <2>5, <3>1, <3>2 DEF HostInv, Expected, Active, TypeInv, Stages, Reads
  <2>7. Reads(r) => host.got \o (tx'.data \o Rest') = call'.answer
    <3>1. SUFFICES ASSUME Reads(r) PROVE host.got \o (tx'.data \o Rest') = call'.answer
      OBVIOUS
    <3> PICK meant \in Seq(Int) : meant = Meant(r)
      BY <2>4
    <3>2. Rest' = meant /\ host.got = <<>>
      BY <2>1, <2>6, <3>1 DEF Prepared
    <3>3. <<>> \o (<<>> \o meant) = meant
      BY ConcatEmptySeq
    <3> QED BY <2>2, <2>3, <3>2, <3>3
  <2>8. Expected' = Expected
    BY <1>1 DEF Expected
  <2>9. Len(call'.answer) <= host.request.wLength
    BY <2>3, <2>4
  <2>10. Reads(r) => tx'.pid = 1 - Expected'
    BY <2>2, <2>6, <2>8
  <2>11. /\ msg'.flags = UserRW <=> ToUcp(r)
         /\ ~Reads(r) => msg'.len \in {0, NoMsg}
         /\ r.wLength = 0 => msg'.len = 0
    BY <2>1 DEF Prepared
  <2>12. Reads(r) => /\ host'.got \o (tx'.data \o Rest') = call'.answer
                     /\ Len(call'.answer) <= r.wLength
    BY <1>1, <2>7, <2>9, Zenon
  <2>13. host'.request = r /\ host'.stage # "statusOut"
    BY <1>1, <2>5
  <2>14. ToUcp(host'.request) <=> ToUcp(r)
    BY <2>13
  <2>15. Reads(host'.request) <=> Reads(r)
    BY <2>13
  <2>16. host'.request.wLength = r.wLength
    BY <2>13
  <2> QED BY <2>2, <2>10, <2>11, <2>12, <2>13, <2>14, <2>15, <2>16 DEF ReplyInv
<1> QED BY <1>2, <1>3, <1>4, RxEffect

LEMMA ReplyBuild ==
  ASSUME TypeInv, TypeInv', BlockInv, ReplyInv, usbBuildTxBlock PROVE ReplyInv'
<1>1. UNCHANGED <<rx, host, call>> /\ pc = "transmit" /\ pc' = "send"
  BY DEF usbBuildTxBlock, others
<1>2. ~Full /\ tx.data = <<>> /\ Full'
  BY <1>1, BuildEffect DEF Full, BlockInv
<1>3. Served' <=> Served
  BY <1>1 DEF Served, Active, Pending
<1>4. tx'.data \o Rest' = tx.data \o Rest
  <2>1. tx'.data \o Rest' = Rest
    BY BlockSplits
  <2>2. <<>> \o Rest = Rest
    BY RestType, ConcatEmptySeq
  <2> QED BY <1>2, <2>1, <2>2
<1>5. Expected' = Expected /\ Expected \in {0, 1}
  BY <1>1 DEF Expected, TypeInv
<1>6. /\ tx'.pid = Toggled(tx.pid) /\ msg'.flags = msg.flags /\ msg.len \in Nat
      /\ tx'.data \in Seq(Int) /\ msg.len # NoMsg
      /\ msg.len < BlockSize => msg'.len = NoMsg /\ Len(tx'.data) = msg.len
      /\ msg.len >= BlockSize => Len(tx'.data) = BlockSize
  BY BuildEffect DEF TypeInv, MsgLen, Block, Data
<1>7. Len(tx'.data) < BlockSize => msg'.len = NoMsg
  <2>1. CASE msg.len < BlockSize
    BY <1>6, <2>1
  <2>2. CASE msg.len >= BlockSize
    <3>1. Len(tx'.data) = BlockSize
      BY <1>6, <2>2
    <3>2. ~(BlockSize < BlockSize)
      OBVIOUS
    <3> QED BY <3>1, <3>2, Zenon
  <2>3. msg.len < BlockSize \/ msg.len >= BlockSize
    BY <1>6
  <2> QED BY <2>1, <2>2, <2>3
<1>8. msg.len = 0 => tx'.data = <<>> /\ msg'.len = NoMsg
  <2>1. msg.len = 0 => Len(tx'.data) = 0 /\ msg'.len = NoMsg
    BY <1>6
  <2> QED BY <1>6, <2>1, EmptySeq
<1>9. /\ tx.pid = 1 - Expected => tx'.pid = Expected
      /\ tx.pid = 0 => tx'.pid = 1
  BY <1>5, <1>6
<1>10. CASE Served /\ ~call.damaged
  <2>1. /\ msg.flags = UserRW <=> ToUcp(host.request)
        /\ Reads(host.request) /\ host.stage # "statusOut" =>
             /\ host.got \o (tx.data \o Rest) = call.answer
             /\ Len(call.answer) <= host.request.wLength
             /\ tx.pid = 1 - Expected
        /\ host.stage = "statusOut" => host.got = call.answer
        /\ ~Reads(host.request) => msg.len = 0
        /\ host.request.wLength = 0 => tx.pid = 0
    BY <1>2, <1>6, <1>10 DEF ReplyInv
  <2>2. Reads(host.request) /\ host.stage # "statusOut" =>
          /\ host.got \o (tx'.data \o Rest') = call.answer
          /\ tx'.pid = Expected'
    BY <1>4, <1>5, <1>9, <2>1
  <2> QED BY <1>1, <1>2, <1>6, <1>7, <1>8, <1>9, <2>1, <2>2 DEF ReplyInv
<1>11. CASE ~(Served /\ ~call.damaged)
  BY <1>1, <1>3, <1>11 DEF ReplyInv
<1> QED BY <1>10, <1>11

LEMMA NoneLeft ==
  ASSUME NEW a \in Nat, NEW b \in Nat, NEW c \in Nat, a >= c, a + b <= c PROVE b = 0
OBVIOUS

LEMMA Regrouped ==
  ASSUME NEW s \in Seq(Int), NEW t \in Seq(Int), NEW u \in Seq(Int)
  PROVE  (s \o t) \o u = s \o (t \o u)
BY ConcatAssociative

(* The host takes a block: it moves from the device to what the host has.  *)
LEMMA ReplyIn ==
  ASSUME TypeInv, PacketInv, HostInv, CountInv, BlockInv, ReplyInv, In
  PROVE  ReplyInv'
<1>1. /\ SendIn /\ host.stage \in {"in", "statusIn"} /\ Active
      /\ rx = NoPacket /\ ~Idle(tx.len) /\ pc # "send"
      /\ tx'.len = NAK /\ tx'.pid = tx.pid /\ tx'.data = <<>>
      /\ UNCHANGED <<rx, msg, hid, usbConfiguration, pc>>
  BY InCases, SendInEffect
<1>2. Full /\ ~Full'
  BY <1>1 DEF Full
<1>3. Rest' = Rest
  BY <1>1, RestFrame
<1>4. Served
  <2>1. ~Pending("SETUP") /\ Count("SETUP") = 0
    BY <1>1, NoPacketFacts DEF Pending, Count
  <2>2. call.served \in Nat /\ call.served >= 1
    BY <1>1, <2>1 DEF CountInv, TypeInv
  <2> QED BY <1>1, <2>1, <2>2 DEF Served
<1>5. CASE call' = call /\ call.damaged
  BY <1>5 DEF ReplyInv
<1>6. CASE tx.pid # host.expect /\ host' = host /\ call' = call /\ ~call.damaged
  <2>1. ~Reads(host.request)
    BY <1>1, <1>2, <1>4, <1>6 DEF ReplyInv, Expected, HostInv
  <2>2. host.request.wLength # 0
    BY <1>1, <1>2, <1>4, <1>6, <2>1 DEF ReplyInv, HostInv
  <2>3. host.stage # "statusOut"
    BY <1>1
  <2> QED BY <1>1, <1>4, <1>6, <2>1, <2>2, <2>3 DEF ReplyInv
<1>7. CASE host.stage = "in" /\ tx.pid = host.expect /\ Accept(tx.data) /\ ~call.damaged
  <2>1. /\ host'.got = host.got \o tx.data /\ host'.request = host.request
        /\ host'.stage = IF Len(tx.data) < BlockSize
                            \/ Len(host'.got) >= host.request.wLength
                         THEN "statusOut" ELSE "in"
        /\ host'.expect = IF host'.stage = "statusOut" THEN 1 ELSE Toggled(host.expect)
        /\ call' = call
    BY <1>7, AcceptType
  <2>2. Reads(host.request) /\ host.request \in Requests
    BY <1>1, <1>7 DEF HostInv
  <2>3. host.request.wLength \in Nat /\ host.request.wLength # 0
    BY <2>2, RequestType DEF Reads
  <2>4. /\ host.got \o (tx.data \o Rest) = call.answer
        /\ Len(call.answer) <= host.request.wLength
        /\ Len(tx.data) < BlockSize => msg.len = NoMsg
        /\ msg.flags = UserRW <=> ToUcp(host.request)
    BY <1>2, <1>4, <1>7, <2>2 DEF ReplyInv
  <2> PICK got \in Seq(Int) : got = host.got
    BY DEF TypeInv, Data
  <2> PICK data \in Seq(Int) : data = tx.data
    BY DEF TypeInv, Block, Data
  <2> PICK rest \in Seq(Int) : rest = Rest
    BY RestType
  <2>5. (got \o data) \o rest = call.answer
    <3>1. host.got \o (tx.data \o Rest) = call.answer
      BY <2>4
    <3>3. got \o (data \o rest) = call.answer
      <4>1. host.got = got /\ tx.data = data /\ Rest = rest
        OBVIOUS
      <4>2. tx.data \o Rest = data \o rest
        BY <4>1, Zenon
      <4> QED BY <3>1, <4>1, <4>2, Zenon
    <3>2. (got \o data) \o rest = got \o (data \o rest)
      BY Regrouped, Zenon
    <3> QED BY <3>2, <3>3, Zenon
  <2>6. got \o data \in Seq(Int)
    BY ConcatProperties
  <2>7. CASE host'.stage = "in"
    <3>1. <<>> \o rest = rest
      BY ConcatEmptySeq
    <3>2. host'.got \o (tx'.data \o Rest') = call'.answer
      BY <1>1, <1>3, <2>1, <2>5, <3>1
    <3>3. tx'.pid = 1 - Expected'
      <4> PICK e \in {0, 1} : e = host.expect
        BY DEF TypeInv
      <4>1. host'.expect = 1 - e
        BY <2>1, <2>7
      <4>2. Expected' = 1 - e
        BY <2>7, <4>1 DEF Expected
      <4>3. tx'.pid = e
        BY <1>1, <1>7
      <4> QED BY <4>2, <4>3
    <3> QED BY <1>1, <1>2, <2>1, <2>2, <2>3, <2>4, <2>7, <3>2, <3>3 DEF ReplyInv
  <2>8. CASE host'.stage = "statusOut"
    <3>1. rest = <<>>
      <4>1. CASE Len(tx.data) < BlockSize
        BY <2>4, <4>1 DEF Rest
      <4>2. CASE Len(host'.got) >= host.request.wLength
        <5>1. Len(call.answer) = Len(got \o data) + Len(rest)
          BY <2>5, <2>6, ConcatProperties
        <5>2. Len(got \o data) \in Nat /\ Len(rest) \in Nat
          BY <2>6, LenProperties
        <5>3. Len(got \o data) >= host.request.wLength
          BY <2>1, <4>2
        <5> PICK had \in Nat : had = Len(got \o data)
          BY <5>2
        <5> PICK left \in Nat : left = Len(rest)
          BY <5>2
        <5> PICK wanted \in Nat : wanted = host.request.wLength
          BY <2>3
        <5>4. left = 0
          <6>1. had >= wanted
            BY <5>3, Zenon
          <6>2. Len(call.answer) = had + left
            BY <5>1, Zenon
          <6>3. Len(call.answer) <= wanted
            BY <2>4, Zenon
          <6>4. had + left <= wanted
            BY <6>2, <6>3, Zenon
          <6> QED BY <6>1, <6>4, NoneLeft
        <5> QED BY <5>4, EmptySeq
      <4> QED BY <2>1, <2>8, <4>1, <4>2
    <3>2. host'.got = call'.answer
      <4>1. (got \o data) \o <<>> = got \o data
        BY <2>6, ConcatEmptySeq
      <4> QED BY <2>1, <2>5, <3>1, <4>1
    <3> QED BY <1>1, <2>1, <2>2, <2>3, <2>4, <2>8, <3>2 DEF ReplyInv
  <2> QED BY <2>1, <2>7, <2>8
<1>8. CASE host' = Ended(host) /\ call' = Fresh
  <2>1. ~Active'
    BY <1>1, <1>8, EndedType DEF Active
  <2> QED BY <2>1, NotServed
<1>9. CASE Accept(tx.data) /\ host.stage = "in" /\ call.damaged
  <2>1. call' = call
    BY <1>9, AcceptType
  <2> QED BY <1>5, <1>9, <2>1
<1> QED BY <1>5, <1>6, <1>7, <1>8, <1>9, InCases

LEMMA ReplyStep ==
  ASSUME TypeInv, TypeInv', PacketInv, HostInv, CountInv, BlockInv, ReplyInv, LineInv,
         [Next]_vars
  PROVE  ReplyInv'
<1>1. CASE usbProcessRx
  BY <1>1, ReplyRx
<1>2. CASE usbBuildTxBlock
  BY <1>2, ReplyBuild
<1>3. CASE Send
  <2>1. /\ tx'.pid = tx.pid /\ tx'.data = tx.data /\ Full /\ Full'
        /\ UNCHANGED <<msg, hid, usbConfiguration, rx, host, call>>
        /\ pc = "send" /\ pc' = "line"
    BY <1>3, SendEffect DEF Full, Send, others
  <2>2. Served' => Served
    BY <2>1 DEF Served, Active, Pending
  <2> QED BY <2>1, <2>2, RestFrame, ReplyFrame
<1>4. CASE \/ NothingReceived \/ ReleaseRx \/ NothingToSend \/ CheckLine
           \/ usbSetInterrupt \/ NotReady
  <2>1. /\ UNCHANGED <<tx, msg, host, call>> /\ pc # "send" /\ pc' # "send"
        /\ \/ UNCHANGED <<hid, usbConfiguration>>
           \/ pc = "ready"
    BY <1>4 DEF NothingReceived, ReleaseRx, NothingToSend, CheckLine, usbSetInterrupt,
         NotReady, others
  <2>2. ~usbProcessRx
    BY <1>4 DEF NothingReceived, ReleaseRx, NothingToSend, CheckLine, usbSetInterrupt,
         NotReady, usbProcessRx
  <2>3. Pending("SETUP")' <=> Pending("SETUP")
    BY <1>4, <2>2, MainFrame DEF MainLoop
  <2>4. (Served' => Served) /\ (Full' <=> Full)
    BY <2>1, <2>3 DEF Served, Active, Full
  <2>5. Rest' = Rest
    BY <2>1, RestFrame
  <2> QED BY <2>1, <2>4, <2>5, ReplyFrame
<1>5. ASSUME NEW r \in Requests, Start(r) PROVE ReplyInv'
  <2>1. call' = Fresh
    BY <1>5 DEF Start, HostInv, Active
  <2> QED BY <2>1 DEF ReplyInv, Served, Fresh
<1>6. CASE Setup
  <2>1. rx'.own /\ rx'.token = "SETUP" /\ pc' # "release"
    BY <1>6, SetupSent DEF PacketInv
  <2> QED BY <2>1 DEF ReplyInv, Served, Pending
<1>7. CASE Out
  <2>1. /\ UNCHANGED <<tx, msg, pc>> /\ rx'.token = "OUT" /\ rx = NoPacket
        /\ host.stage = "out" /\ Active
    BY <1>7, OutSent
  <2>2. /\ host'.request = host.request /\ host'.stage \in {"out", "statusIn"}
        /\ call'.damaged = call.damaged /\ call'.served = call.served
    BY <1>7, <2>1, OutSent, AckCases
  <2>3. ~Reads(host.request) /\ host.request.wLength # 0
    BY <2>1 DEF HostInv, Reads
  <2>4. Served' => Served
    BY <2>1, <2>2, NoPacketFacts DEF Served, Pending
  <2> QED BY <2>1, <2>2, <2>3, <2>4 DEF ReplyInv
<1>8. CASE In
  BY <1>8, ReplyIn
<1>9. CASE InLost
  <2>1. call' = [call EXCEPT !.damaged = TRUE]
    BY <1>9 DEF InLost
  <2>2. call'.damaged
    BY <2>1 DEF TypeInv
  <2> QED BY <2>2 DEF ReplyInv
<1>10. CASE In1 \/ UNCHANGED vars
  <2>1. UNCHANGED <<tx, msg, host, call, pc, rx, hid, usbConfiguration>>
    BY <1>10 DEF In1, vars, device, others
  <2>2. (Served' => Served) /\ (Full' <=> Full)
    BY <2>1 DEF Served, Active, Pending, Full
  <2>3. Rest' = Rest
    BY <2>1, RestFrame
  <2> QED BY <2>1, <2>2, <2>3, ReplyFrame
<1>11. CASE StatusOut
  <2>1. Active /\ host' = Ended(host)
    BY <1>11 DEF StatusOut, Active
  <2>2. ~Active'
    BY <2>1, EndedType DEF Active
  <2> QED BY <2>2, NotServed
<1>12. CASE GiveUp
  <2>1. ~Active'
    BY <1>12, GiveUpEffect DEF Active
  <2> QED BY <2>1, NotServed
<1>13. CASE BusReset \/ Restart
  <2>1. ~Active'
    BY <1>13 DEF BusReset, Restart, HostInit, Active
  <2> QED BY <2>1, NotServed
<1>14. CASE ResetEnds
  <2>1. ~Active'
    BY <1>14 DEF ResetEnds, Active, TypeInv
  <2> QED BY <2>1, NotServed
<1> QED BY <1>1, <1>2, <1>3, <1>4, <1>5, <1>6, <1>7, <1>8, <1>9, <1>10, <1>11, <1>12,
           <1>13, <1>14 DEF Next, MainLoop, Host
------------------------------------------------------------------------------
(* The theorems                                                            *)

(* The parts of the invariant hold together: what the interrupt and the    *)
(* main loop leave each other in usbRxLen, usbTxLen and usbMsgLen.         *)
LEMMA InvInit == Init => Inv
<1> SUFFICES ASSUME Init PROVE Inv
  OBVIOUS
<1>1. TypeInv
  BY TypeInit
<1>2. /\ rx = NoPacket /\ host = HostInit /\ call = Fresh /\ pc = "poll" /\ line = "J"
      /\ tx = [len |-> NAK, pid |-> 0, data |-> <<>>]
      /\ msg = [len |-> NoMsg, ptr |-> 0, flags |-> 0]
      /\ ep1.len = NAK /\ hid.report = 0 /\ sent = 0
  BY InitTypes DEF Init
<1>3. host.stage = "detached" /\ ~Active
  BY <1>2 DEF HostInit, Active
<1>4. PacketInv
  BY <1>2, <1>3, NoPacketFacts DEF PacketInv, Fresh
<1>5. HostInv
  BY <1>2, <1>3 DEF HostInv, HostInit
<1>6. CountInv
  BY <1>2, <1>3, NoRequestFacts DEF CountInv, Fresh
<1>7. BlockInv
  BY <1>2 DEF BlockInv, Full
<1>8. ReplyInv
  BY <1>3 DEF ReplyInv, Served
<1>9. LineInv
  BY <1>2 DEF LineInv
<1>10. AddrInv
  BY <1>2, NoRequestFacts DEF AddrInv, HostInit
<1>11. KeyInv
  BY <1>2 DEF KeyInv
<1> QED BY <1>1, <1>4, <1>5, <1>6, <1>7, <1>8, <1>9, <1>10, <1>11 DEF Inv

LEMMA InvStep == Inv /\ [Next]_vars => Inv'
<1> SUFFICES ASSUME Inv, [Next]_vars PROVE Inv'
  OBVIOUS
<1>1. /\ TypeInv /\ PacketInv /\ HostInv /\ CountInv /\ BlockInv /\ ReplyInv
      /\ LineInv /\ AddrInv /\ KeyInv
  BY DEF Inv
<1>2. TypeInv'
  BY <1>1, TypeStep
<1>3. PacketInv' /\ HostInv' /\ CountInv'
  BY <1>1, PacketStep, HostStep, CountStep
<1>4. BlockInv' /\ ReplyInv'
  BY <1>1, <1>2, BlockStep, ReplyStep
<1>5. LineInv' /\ AddrInv' /\ KeyInv'
  BY <1>1, LineStep, AddrStep, KeyStep
<1> QED BY <1>2, <1>3, <1>4, <1>5 DEF Inv

(* The invariant holds however the packets of the interrupt come between   *)
(* the steps of usbPoll (usbdrv.c:556-606, asmcommon.inc:66-175).          *)
THEOREM UsbInvariant == Spec => []Inv
BY InvInit, InvStep, PTL DEF Spec

LEMMA InvTypeOK == Inv => TypeOK
<1> SUFFICES ASSUME TypeInv PROVE TypeOK
  BY DEF Inv
<1>1. rx \in [len : {0, BlockSize + 3}, token : {"NONE", "SETUP", "OUT"},
              request : Requests \union {NoRequest}, own : BOOLEAN]
  <2>1. CASE rx = NoPacket
    BY <2>1 DEF NoPacket
  <2>2. CASE rx # NoPacket
    <3>1. rx \in Packet
      BY <2>2, PacketFacts
    <3> QED BY <3>1 DEF Packet
  <2> QED BY <2>1, <2>2
<1>2. tx.len \in Lengths /\ tx.pid \in {0, 1} /\ Len(tx.data) <= BlockSize
  BY DEF TypeInv, Block
<1>3. msg.len \in 0 .. NoMsg /\ msg.ptr \in Nat /\ msg.flags \in {0, ROM, UserRW}
  BY DEF TypeInv, MsgLen
<1>4. addr.dev \in 0 .. 127 /\ addr.new \in 0 .. 127
  BY DEF TypeInv, Address
<1>5. host.stage \in Stages /\ host.expect \in {0, 1}
  BY DEF TypeInv
<1> QED BY <1>1, <1>2, <1>3, <1>4, <1>5 DEF TypeOK, TypeInv

(* No block outgrows usbTxBuf, no length usbMsgLen, no address its seven   *)
(* bits (usbdrv.c:22-51).                                                  *)
THEOREM TypeCorrect == Spec => []TypeOK
BY UsbInvariant, InvTypeOK, PTL

LEMMA InvAddress == Inv => AddressAgrees
BY DEF Inv, AddrInv, AddressAgrees, SetsAddress

(* usbNewDeviceAddr comes into force when the host takes the end of its    *)
(* SET_ADDRESS, not before and not after (usbdrv.c:388, handleIn).         *)
THEOREM AddressesAgree == Spec => []AddressAgrees
BY UsbInvariant, InvAddress, PTL

(* What In and StatusOut find when they end a transfer.                    *)
LEMMA EndOfTransfer ==
  ASSUME Inv, Completes, ~call.damaged
  PROVE  /\ call.served \in 1 .. 1 + call.lost
         /\ host.request.toHost /\ host.request.wLength # 0 => host.got = call.answer
         /\ host.stage = "statusIn" => tx.data = <<>>
         /\ call.decoded > 0 <=> Class(host.request, "SET_REPORT") /\ host.request.lo = 2
         /\ call.served + call.decoded <= 2 + call.lost
<1>1. TypeInv /\ HostInv /\ PacketInv /\ CountInv /\ BlockInv /\ ReplyInv
  BY DEF Inv
<1>2. rx = NoPacket /\ host.stage \in {"statusIn", "statusOut"}
  <2>1. CASE StatusOut
    BY <1>1, <2>1 DEF StatusOut, PacketInv
  <2>2. CASE In
    <3>1. rx = NoPacket /\ host.stage \in {"in", "statusIn"}
      BY <1>1, <2>2, InCases, SendInEffect
    <3>2. host.stage # "in"
      <4>1. SUFFICES ASSUME host.stage = "in" PROVE FALSE
        OBVIOUS
      <4>2. CASE host' = host
        BY <4>1, <4>2 DEF Completes
      <4>3. CASE Accept(tx.data)
        BY <1>1, <4>1, <4>3, AcceptType DEF Completes
      <4> QED BY <1>1, <2>2, <4>1, <4>2, <4>3, InCases
    <3> QED BY <3>1, <3>2
  <2> QED BY <2>1, <2>2 DEF Completes
<1>3. ~Pending("SETUP") /\ Count("SETUP") = 0 /\ Count("OUT") = 0 /\ Active
  BY <1>2, NoPacketFacts DEF Pending, Count, Active
<1>4. call.served \in Nat /\ call.decoded \in Nat /\ call.lost \in Nat
  BY <1>1 DEF TypeInv
<1>5. /\ call.served >= 1 /\ call.served <= 1 + call.lost
      /\ call.served + call.decoded <= call.lost + 2
      /\ call.decoded > 0 => ToUcp(host.request)
      /\ host.stage = "statusOut" => call.decoded = 0
      /\ host.stage = "statusIn" /\ ToUcp(host.request) => call.decoded > 0
  BY <1>1, <1>2, <1>3, <1>4 DEF CountInv
<1>6. Served
  BY <1>3, <1>4, <1>5 DEF Served
<1>7. host.request \in Requests
  BY <1>1, <1>3 DEF HostInv
<1>8. ToUcp(host.request) => ~Reads(host.request)
  BY <1>7, RequestKinds DEF ToUcp, Class, SetRequests, Reads
<1>9. CASE host.stage = "statusOut"
  <2>1. Reads(host.request) /\ host.got = call.answer
    BY <1>1, <1>6, <1>9 DEF ReplyInv, HostInv
  <2> QED BY <1>4, <1>5, <1>8, <1>9, <2>1 DEF ToUcp
<1>10. CASE host.stage = "statusIn"
  <2>1. ~Reads(host.request) /\ tx.data = <<>>
    BY <1>1, <1>6, <1>10 DEF ReplyInv, HostInv
  <2> QED BY <1>4, <1>5, <1>10, <2>1 DEF ToUcp, Reads
<1> QED BY <1>2, <1>9, <1>10

(* A transfer that the host completes without loss of data was processed,  *)
(* and what the host got is the whole reply to it, whatever transfers were *)
(* given up or repeated before (usbdrv.c:421-545).                         *)
THEOREM TransfersServed == Spec => TransferServed
<1>1. Inv => (Completes /\ ~call.damaged =>
       /\ call.served \in 1 .. 1 + call.lost
       /\ host.request.toHost /\ host.request.wLength # 0 => host.got = call.answer
       /\ host.stage = "statusIn" => tx.data = <<>>
       /\ call.decoded > 0 <=> Class(host.request, "SET_REPORT") /\ host.request.lo = 2
       /\ call.served + call.decoded <= 2 + call.lost)
  BY EndOfTransfer
<1> QED BY <1>1, UsbInvariant, PTL DEF TransferServed

LEMMA InvReports == Inv => (In1 => ep1.data = (sent + 1) % Reports)
BY DEF Inv, KeyInv, In1, MaySend

(* usbSetInterrupt overwrites no report that was not sent                  *)
(* (main.c:152-156, usbdrv.c:219-246).                                     *)
THEOREM ReportsAreInOrder == Spec => ReportsInOrder
BY UsbInvariant, InvReports, PTL DEF ReportsInOrder
==============================================================================
