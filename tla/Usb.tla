--------------------------------- MODULE Usb ---------------------------------
(***************************************************************************)
(* The USB driver (V-USB, usbdrv.c and the packet handling of              *)
(* asmcommon.inc) as the firmware configures it (usbconfig.h), with the    *)
(* requests main.c answers and the host at the other end of the wire.      *)
(*                                                                         *)
(* The interrupt takes a packet from the host, or sends one to it, at any  *)
(* point of the main loop: Setup, Out, In and In1 below are one            *)
(* transaction each, token to handshake, and may come between any two      *)
(* steps of usbPoll.  A transaction that is answered NAK changes nothing   *)
(* and is left out.  The handshake the device sends, or the data it sends, *)
(* may be lost; the driver knows of neither.  Bytes that arrive are as     *)
(* they were sent: there is no CRC check to model.                         *)
(*                                                                         *)
(* A flash address stands for the byte at it, so that a reply shows where  *)
(* it was read.  UCP_Task and UCP_Decode are modelled in Ucp; here each    *)
(* call leaves another report behind.                                      *)
(***************************************************************************)
EXTENDS Integers, Sequences

CONSTANTS
  Requests,    \* what the host may ask
  Customs,     \* number of contents of customReport that are told apart
  Reports,     \* number of keyboard reports that are told apart
  MaxLost,     \* packets that may be lost
  MaxResets    \* resets of the bus, restarts included

ASSUME BoundsAssumption ==
  /\ Customs \in Nat \ {0} /\ Reports \in Nat /\ Reports > 1
  /\ MaxLost \in Nat /\ MaxResets \in Nat

(* A request: bmRequestType as type and direction, bRequest, the two bytes *)
(* of wValue, wLength, and the packet of its data stage.                   *)
GetRequests ==
  {"GET_STATUS", "GET_DESCRIPTOR", "GET_CONFIGURATION", "GET_INTERFACE",
   "GET_REPORT", "GET_IDLE", "GET_PROTOCOL"}
SetRequests ==
  {"SET_ADDRESS", "SET_CONFIGURATION", "SET_INTERFACE", "CLEAR_FEATURE",
   "SET_FEATURE", "SET_REPORT", "SET_IDLE", "SET_PROTOCOL"}
Byte == 0 .. 2^8 - 1
Word == 0 .. 2^16 - 1
Address == 0 .. 2^7 - 1
Content == 0 .. Customs - 1
Request ==
  [type : {"standard", "class", "vendor"}, bRequest : GetRequests \union SetRequests,
   lo : Byte, hi : Byte, wLength : Word, toHost : BOOLEAN, packet : Content]

(* Requests as the USB and HID specifications define them: what they ask   *)
(* for says in which direction data go; an address has seven bits; a       *)
(* report is not empty.  What the host sends fits one packet.              *)
ASSUME RequestsAssumption ==
  /\ Requests \subseteq Request
  /\ \A r \in Requests :
       /\ r.toHost <=> r.bRequest \in GetRequests
       /\ r.toHost \/ r.wLength <= 8
       /\ r.bRequest = "SET_ADDRESS" => r.lo \in Address /\ r.wLength = 0
       /\ r.bRequest = "SET_REPORT" => r.wLength > 0

VARIABLES
  rx,          \* usbRxLen, usbRxToken and the packet in usbRxBuf
  tx,          \* usbTxLen and usbTxBuf
  msg,         \* usbMsgLen, usbMsgPtr and usbMsgFlags
  addr,        \* usbDeviceAddr and usbNewDeviceAddr
  usbConfiguration,
  ep1,         \* usbTxStatus1: len and buffer
  hid,         \* idle_rate, protocol_version, customReport and reportBuffer
  pc,          \* where the main loop is
  line,        \* the state of the bus
  host,        \* the host and its transfer
  call,        \* history of the transfer
  sent,        \* history of endpoint 1: the last report sent
  bound        \* packets lost and resets so far

device == <<rx, tx, msg, addr, usbConfiguration, ep1, hid, pc>>
others == <<line, host, call, sent, bound>>
vars == <<device, others>>

NAK == 90            \* USBPID_NAK: bit 4 is set, as in every handshake
NoMsg == 255         \* USB_NO_MSG
BlockSize == 8       \* payload of a packet
Overhead == 4        \* sync, PID and CRC
ROM == 64            \* USB_FLG_MSGPTR_IS_ROM
UserRW == 128        \* USB_FLG_USE_USER_RW

(* Definitions whose names end in _fault are faulty variants of the        *)
(* definition that follows them.  No action uses one; each shows that some *)
(* property would notice the fault.                                        *)

Idle(len) == len = NAK
Toggled(pid) == 1 - pid       \* DATA0 and DATA1 are 0 and 1
Least_fault(a, b) == a
Least(a, b) == IF a <= b THEN a ELSE b

------------------------------------------------------------------------------
(* Memory                                                                  *)

NoDescriptor == [at |-> 0, len |-> 0]

(* The descriptors: where they start in flash, and their lengths.  The HID *)
(* descriptor is part of the configuration descriptor; there is no serial  *)
(* number.                                                                 *)
DeviceDescriptor == [at |-> 100, len |-> 18]
ConfigurationDescriptor == [at |-> 200, len |-> 18 + 7 + 9]
HidDescriptor == [at |-> ConfigurationDescriptor.at + 18, len |-> 9]
HidReportDescriptor == [at |-> 300, len |-> 39 + 24]
StringDescriptor(index) ==
  CASE index = 0 -> [at |-> 400, len |-> 4]
    [] index \in {1, 2} -> [at |-> 400 + 100 * index, len |-> 2 + 2 * 8]
    [] OTHER -> NoDescriptor

(* The descriptor that wValue names.                                       *)
usbDriverDescriptor(r) ==
  CASE r.hi = 1 -> DeviceDescriptor
    [] r.hi = 2 -> ConfigurationDescriptor
    [] r.hi = 3 -> StringDescriptor(r.lo)
    [] r.hi = 33 -> HidDescriptor
    [] r.hi = 34 -> HidReportDescriptor
    [] OTHER -> NoDescriptor

(* Where the variables are that a reply may point to, and what they hold.  *)
Zero == 10
Configuration == 20
IdleRate == 21
Protocol == 22
KeyReport == 30
CustomReport == 40

KeyReportSize == 3
CustomReportSize == 8

Ram(p) ==
  CASE p \in Zero .. Zero + 1 -> 0
    [] p = Configuration -> usbConfiguration
    [] p = IdleRate -> hid.idle_rate
    [] p = Protocol -> hid.protocol_version
    [] p \in KeyReport .. KeyReport + KeyReportSize - 1 -> hid.report
    [] p \in CustomReport .. CustomReport + CustomReportSize - 1 -> hid.custom
    [] OTHER -> -1

usbDeviceRead(n) ==
  [i \in 1 .. n |->
     IF msg.flags = ROM THEN msg.ptr + i - 1 ELSE Ram(msg.ptr + i - 1)]

(* usbMsgPtr means something only while there is something to send.        *)
Message(n, p, flags) ==
  [len |-> n, ptr |-> IF n \in {0, NoMsg} THEN 0 ELSE p, flags |-> flags]

------------------------------------------------------------------------------
(* The device between its transactions                                     *)

NoRequest == [type |-> "none", bRequest |-> "NONE", lo |-> 0, hi |-> 0,
              wLength |-> 0, toHost |-> FALSE, packet |-> 0]
NoPacket == [len |-> 0, token |-> "NONE", request |-> NoRequest, own |-> FALSE]
Fresh == [served |-> 0, decoded |-> 0, answer |-> <<>>, lost |-> 0,
          damaged |-> FALSE]

(* usbInit, and the values variables have when the program starts.         *)
DeviceInit ==
  [rx |-> NoPacket,
   tx |-> [len |-> NAK, pid |-> 0, data |-> <<>>],
   msg |-> Message(NoMsg, 0, 0),
   addr |-> [dev |-> 0, new |-> 0],
   ep1 |-> [len |-> NAK, pid |-> 1, data |-> 0],
   hid |-> [idle_rate |-> 125, protocol_version |-> 0, custom |-> 0, report |-> 0]]

HostInit == [stage |-> "detached", request |-> NoRequest, expect |-> 0,
             got |-> <<>>, addr |-> 0, configured |-> FALSE]

Init ==
  /\ rx = DeviceInit.rx /\ tx = DeviceInit.tx /\ msg = DeviceInit.msg
  /\ addr = DeviceInit.addr /\ usbConfiguration = 0
  /\ ep1 = DeviceInit.ep1 /\ hid = DeviceInit.hid
  /\ pc = "poll"
  /\ line = "J" /\ host = HostInit /\ call = Fresh
  /\ sent = 0
  /\ bound = [lost |-> 0, resets |-> 0]

------------------------------------------------------------------------------
(* Requests: what each handler returns and changes                         *)

(* The reply is cut to what the host asked for.  A handler that returns    *)
(* USB_NO_MSG waits for data.                                              *)
Reply(r, n, p, flags) == msg' = Message(Least(n, r.wLength), p, flags)
ReplyNothing(r) == Reply(r, 0, 0, 0)

Standard(r, name) == r.type = "standard" /\ r.bRequest = name
Class(r, name) == r.type = "class" /\ r.bRequest = name

(* GET_STATUS and GET_INTERFACE answer with zeros.                         *)
StandardVariable ==
  [GET_STATUS |-> [at |-> Zero, len |-> 2],
   GET_INTERFACE |-> [at |-> Zero, len |-> 1],
   GET_CONFIGURATION |-> [at |-> Configuration, len |-> 1]]

GetStandard(r) ==
  /\ r.type = "standard" /\ r.bRequest \in DOMAIN StandardVariable
  /\ LET v == StandardVariable[r.bRequest] IN Reply(r, v.len, v.at, 0)
  /\ UNCHANGED <<addr, usbConfiguration, ep1, hid>>

SetAddress_fault(r) ==
  /\ Standard(r, "SET_ADDRESS")
  /\ addr' = [dev |-> r.lo, new |-> r.lo]
  /\ ReplyNothing(r)
  /\ UNCHANGED <<usbConfiguration, ep1, hid>>

SetAddress(r) ==
  /\ Standard(r, "SET_ADDRESS")
  /\ addr' = [addr EXCEPT !.new = r.lo]
  /\ ReplyNothing(r)
  /\ UNCHANGED <<usbConfiguration, ep1, hid>>

GetDescriptor(r) ==
  /\ Standard(r, "GET_DESCRIPTOR")
  /\ Reply(r, usbDriverDescriptor(r).len, usbDriverDescriptor(r).at, ROM)
  /\ UNCHANGED <<addr, usbConfiguration, ep1, hid>>

SetConfiguration(r) ==
  /\ Standard(r, "SET_CONFIGURATION")
  /\ usbConfiguration' = r.lo
  /\ ReplyNothing(r)
  /\ UNCHANGED <<addr, ep1, hid>>

(* usbResetDataToggling                                                    *)
SetInterface(r) ==
  /\ Standard(r, "SET_INTERFACE")
  /\ ep1' = [ep1 EXCEPT !.pid = 1]
  /\ ReplyNothing(r)
  /\ UNCHANGED <<addr, usbConfiguration, hid>>

OtherStandard(r) ==
  /\ r.type = "standard" /\ r.bRequest \in {"CLEAR_FEATURE", "SET_FEATURE"}
  /\ ReplyNothing(r)
  /\ UNCHANGED <<addr, usbConfiguration, ep1, hid>>

usbDriverSetup(r) ==
  \/ GetStandard(r) \/ GetDescriptor(r) \/ SetAddress(r)
  \/ SetConfiguration(r) \/ SetInterface(r) \/ OtherStandard(r)

ClassVariable(r) ==
  CASE r.bRequest = "GET_IDLE" -> [at |-> IdleRate, len |-> 1]
    [] r.bRequest = "GET_PROTOCOL" -> [at |-> Protocol, len |-> 1]
    [] r.bRequest = "GET_REPORT" /\ r.lo = 1 ->
         [at |-> KeyReport, len |-> KeyReportSize]
    [] OTHER -> NoDescriptor

GetClass(r) ==
  /\ r.type = "class" /\ ClassVariable(r) # NoDescriptor
  /\ Reply(r, ClassVariable(r).len, ClassVariable(r).at, 0)
  /\ UNCHANGED hid

SetIdleOrProtocol(r) ==
  /\ \/ Class(r, "SET_IDLE") /\ hid' = [hid EXCEPT !.idle_rate = r.hi]
     \/ Class(r, "SET_PROTOCOL") /\ hid' = [hid EXCEPT !.protocol_version = r.hi]
  /\ ReplyNothing(r)

(* UCP_Task prepares the report that is sent.                              *)
GetCustomReport(r) ==
  /\ Class(r, "GET_REPORT") /\ r.lo = 2
  /\ hid' = [hid EXCEPT !.custom = (@ + 1) % Customs]
  /\ Reply(r, CustomReportSize, CustomReport, 0)

(* Report 2 is read by usbFunctionWrite when its data come.                *)
SetCustomReport(r) ==
  /\ Class(r, "SET_REPORT") /\ r.lo = 2
  /\ msg' = Message(NoMsg, 0, UserRW)
  /\ UNCHANGED hid

(* Requests of another type, and reports there are not.                    *)
IgnoreRequest(r) ==
  /\ \/ r.type = "vendor"
     \/ Class(r, "GET_REPORT") /\ r.lo \notin {1, 2}
     \/ Class(r, "SET_REPORT") /\ r.lo # 2
  /\ ReplyNothing(r)
  /\ UNCHANGED hid

usbFunctionSetup(r) ==
  /\ \/ GetClass(r) \/ SetIdleOrProtocol(r)
     \/ GetCustomReport(r) \/ SetCustomReport(r) \/ IgnoreRequest(r)
  /\ UNCHANGED <<addr, usbConfiguration, ep1>>

------------------------------------------------------------------------------
(* The main loop: usbPoll, then the report of the keyboard                 *)

(* A reset of the bus, "SE0" on the line, lasts 10 ms at least; the model  *)
(* takes that for one whole pass of the main loop, from here to CheckLine. *)
Passes(from, to) == line' = IF line = from THEN to ELSE line

(* What the host should read for request r, by what r asks for.            *)
Descriptor(d) == [i \in 1 .. d.len |-> d.at + i - 1]
Bytes(n, b) == [i \in 1 .. n |-> b]

Asked(r) ==
  CASE Standard(r, "GET_DESCRIPTOR") -> Descriptor(usbDriverDescriptor(r))
    [] Standard(r, "GET_STATUS") -> Bytes(2, 0)
    [] Standard(r, "GET_CONFIGURATION") -> Bytes(1, usbConfiguration)
    [] Standard(r, "GET_INTERFACE") -> Bytes(1, 0)
    [] Class(r, "GET_IDLE") -> Bytes(1, hid.idle_rate)
    [] Class(r, "GET_PROTOCOL") -> Bytes(1, hid.protocol_version)
    [] Class(r, "GET_REPORT") /\ r.lo = 1 -> Bytes(3, hid.report)
    [] Class(r, "GET_REPORT") /\ r.lo = 2 -> Bytes(8, (hid.custom + 1) % Customs)
    [] OTHER -> <<>>

Meant(r) == SubSeq(Asked(r), 1, Least(Len(Asked(r)), r.wLength))

(* What a SETUP leaves of a reply: the first block to come is DATA1.       *)
TxReset_fault == [tx EXCEPT !.len = NAK, !.data = <<>>]
TxReset == [len |-> NAK, pid |-> 0, data |-> <<>>]

ProcessSetup ==
  LET r == rx.request
  IN /\ rx.token = "SETUP"
     /\ tx' = TxReset
     /\ IF r.type = "standard" THEN usbDriverSetup(r) ELSE usbFunctionSetup(r)
     /\ call' = IF rx.own
                THEN [call EXCEPT !.served = @ + 1, !.answer = Meant(r)]
                ELSE call
     /\ UNCHANGED sent

(* usbFunctionWrite hands the data to UCP_Decode and asks for no more.     *)
ProcessData ==
  /\ rx.token = "OUT"
  /\ IF msg.flags = UserRW
     THEN /\ hid' = [hid EXCEPT !.custom = rx.request.packet]
          /\ msg' = [msg EXCEPT !.len = 0]
          /\ call' = IF rx.own THEN [call EXCEPT !.decoded = @ + 1] ELSE call
     ELSE UNCHANGED <<hid, msg, call>>
  /\ UNCHANGED <<tx, addr, usbConfiguration, ep1, sent>>

usbProcessRx ==
  /\ pc = "poll" /\ rx.len >= 3
  /\ ProcessSetup \/ ProcessData
  /\ pc' = "release"
  /\ Passes("SE0", "polled")
  /\ UNCHANGED <<rx, host, bound>>

NothingReceived ==
  /\ pc = "poll" /\ rx.len < 3
  /\ pc' = "transmit"
  /\ Passes("SE0", "polled")
  /\ UNCHANGED <<rx, tx, msg, addr, usbConfiguration, ep1, hid, host,
                 call, sent, bound>>

ReleaseRx ==
  /\ pc = "release"
  /\ rx' = NoPacket
  /\ pc' = "transmit"
  /\ UNCHANGED <<tx, msg, addr, usbConfiguration, ep1, hid, others>>

(* The block is built while usbTxLen still holds the interrupt off.        *)
usbBuildTxBlock ==
  LET n == Least(msg.len, BlockSize)
  IN /\ pc = "transmit" /\ Idle(tx.len) /\ msg.len # NoMsg
     /\ tx' = [tx EXCEPT !.pid = Toggled(@), !.data = usbDeviceRead(n)]
     /\ msg' = Message(IF n < BlockSize THEN NoMsg ELSE msg.len - n,
                       msg.ptr + n, msg.flags)
     /\ pc' = "send"
     /\ UNCHANGED <<rx, addr, usbConfiguration, ep1, hid, others>>

NothingToSend ==
  /\ pc = "transmit" /\ (~Idle(tx.len) \/ msg.len = NoMsg)
  /\ pc' = "line"
  /\ UNCHANGED <<rx, tx, msg, addr, usbConfiguration, ep1, hid, others>>

Send ==
  /\ pc = "send"
  /\ tx' = [tx EXCEPT !.len = Len(tx.data) + Overhead]
  /\ pc' = "line"
  /\ UNCHANGED <<rx, msg, addr, usbConfiguration, ep1, hid, others>>

(* usbHandleResetHook calibrates the oscillator when a reset ends: Osccal.  *)
CheckLine ==
  /\ pc = "line"
  /\ addr' = IF line = "J" THEN addr ELSE [dev |-> 0, new |-> 0]
  /\ pc' = "ready"
  /\ Passes("polled", "noticed")
  /\ UNCHANGED <<rx, tx, msg, usbConfiguration, ep1, hid, host, call, sent, bound>>

usbInterruptIsReady_fault == TRUE
usbInterruptIsReady == Idle(ep1.len)

(* printUpdate makes the next report and usbSetInterrupt copies it.        *)
usbSetInterrupt ==
  /\ pc = "ready" /\ usbInterruptIsReady
  /\ hid' = [hid EXCEPT !.report = (@ + 1) % Reports]
  /\ ep1' = [len |-> KeyReportSize + Overhead, pid |-> Toggled(ep1.pid),
             data |-> hid'.report]
  /\ pc' = "poll"
  /\ UNCHANGED <<rx, tx, msg, addr, usbConfiguration, others>>

NotReady ==
  /\ pc = "ready" /\ ~usbInterruptIsReady
  /\ pc' = "poll"
  /\ UNCHANGED <<rx, tx, msg, addr, usbConfiguration, ep1, hid, others>>

MainLoop ==
  \/ usbProcessRx \/ NothingReceived \/ ReleaseRx
  \/ usbBuildTxBlock \/ NothingToSend \/ Send
  \/ CheckLine \/ usbSetInterrupt \/ NotReady

------------------------------------------------------------------------------
(* The interrupt and the host                                              *)

Loses == bound.lost < MaxLost
CountLost == bound' = [bound EXCEPT !.lost = @ + 1]

(* The device hears a transaction when it bears its address.               *)
Heard == line = "J" /\ addr.dev = host.addr

(* A packet is taken when usbProcessRx has released the one before.        *)
Receive(token) ==
  /\ Heard /\ rx.len = 0
  /\ rx' = [len |-> BlockSize + 3, token |-> token, request |-> host.request,
            own |-> TRUE]

(* After a SETUP that was acknowledged.                                    *)
DataStage(r) ==
  IF r.wLength = 0 THEN "statusIn" ELSE IF r.toHost THEN "in" ELSE "out"

Acknowledged(stage) ==
  /\ host' = [host EXCEPT !.stage = stage, !.expect = 1]
  /\ UNCHANGED <<call, bound>>

(* The host hears no handshake and will repeat the transaction.            *)
AckLost ==
  /\ Loses /\ CountLost
  /\ call' = [call EXCEPT !.lost = @ + 1]
  /\ UNCHANGED host

Setup ==
  /\ host.stage = "setup" /\ Receive("SETUP")
  /\ Acknowledged(DataStage(host.request)) \/ AckLost
  /\ UNCHANGED <<tx, msg, addr, usbConfiguration, ep1, hid, pc, line, sent>>

Out ==
  /\ host.stage = "out" /\ Receive("OUT")
  /\ Acknowledged("statusIn") \/ AckLost
  /\ UNCHANGED <<tx, msg, addr, usbConfiguration, ep1, hid, pc, line, sent>>

(* What the host does with the end of a transfer.                          *)
Ended(h) ==
  LET r == h.request
  IN [h EXCEPT !.stage = "idle", !.request = NoRequest, !.got = <<>>, !.expect = 0,
        !.addr = IF Standard(r, "SET_ADDRESS") THEN r.lo ELSE @,
        !.configured = @ \/ Standard(r, "SET_CONFIGURATION")]

(* A packet of the wrong toggle is one the host has already: it is         *)
(* acknowledged and dropped.                                               *)
Accept(data) ==
  LET got == host.got \o data
      last == Len(data) < BlockSize \/ Len(got) >= host.request.wLength
  IN IF host.stage = "in"
     THEN /\ host' = [host EXCEPT !.got = got,
                        !.stage = IF last THEN "statusOut" ELSE "in",
                        !.expect = IF last THEN 1 ELSE Toggled(@)]
          /\ UNCHANGED call
     ELSE /\ host' = Ended(host)
          /\ call' = Fresh

(* Sending data, on either endpoint, puts the new address into force.      *)
TakeAddress == addr' = [addr EXCEPT !.dev = addr.new]

(* handleIn: nothing is sent while a packet waits for usbProcessRx.        *)
MaySend_fault(len) == Heard /\ ~Idle(len)
MaySend(len) == Heard /\ rx.len < 1 /\ ~Idle(len)

SendIn ==
  /\ host.stage \in {"in", "statusIn"} /\ MaySend(tx.len)
  /\ tx' = [tx EXCEPT !.len = NAK, !.data = <<>>]
  /\ TakeAddress
  /\ UNCHANGED <<rx, msg, usbConfiguration, ep1, hid, pc, line, sent>>

In ==
  /\ SendIn
  /\ UNCHANGED bound
  /\ IF tx.pid = host.expect THEN Accept(tx.data) ELSE UNCHANGED <<host, call>>

InLost ==
  /\ SendIn
  /\ Loses /\ CountLost
  /\ call' = [call EXCEPT !.damaged = TRUE]
  /\ UNCHANGED host

StatusOut ==
  /\ host.stage = "statusOut" /\ Heard /\ rx.len = 0
  /\ host' = Ended(host)
  /\ call' = Fresh
  /\ UNCHANGED <<device, line, sent, bound>>

(* The host polls endpoint 1 once it has configured the device.  To the    *)
(* device a report that is lost is one that was sent.                      *)
In1 ==
  /\ host.configured /\ MaySend(ep1.len)
  /\ ep1' = [ep1 EXCEPT !.len = NAK]
  /\ sent' = ep1.data
  /\ TakeAddress
  /\ UNCHANGED <<rx, tx, msg, usbConfiguration, hid, pc, line, host, call, bound>>

------------------------------------------------------------------------------
(* The host's requests                                                     *)

(* Addresses are given first; classes are spoken to when configured.       *)
MayAsk(r) ==
  /\ Standard(r, "SET_ADDRESS") => host.addr = 0
  /\ r.bRequest \notin {"SET_ADDRESS", "GET_DESCRIPTOR"} => host.addr # 0
  /\ (r.type # "standard" \/ r.bRequest = "SET_INTERFACE") => host.configured

Start(r) ==
  /\ host.stage = "idle" /\ line = "J" /\ MayAsk(r)
  /\ host' = [host EXCEPT !.stage = "setup", !.request = r]
  /\ UNCHANGED <<device, line, call, sent, bound>>

Forget ==
  /\ rx' = [rx EXCEPT !.own = FALSE]
  /\ call' = Fresh

(* A transfer may be cancelled or time out at any time.  When that was     *)
(* SET_ADDRESS the host does not know the address and resets the bus.      *)
GiveUp ==
  /\ host.stage \notin {"detached", "idle"}
  /\ host' = [host EXCEPT
                !.stage = IF Standard(host.request, "SET_ADDRESS")
                          THEN "detached" ELSE "idle",
                !.request = NoRequest, !.got = <<>>, !.expect = 0]
  /\ Forget
  /\ UNCHANGED <<tx, msg, addr, usbConfiguration, ep1, hid, pc, line, sent, bound>>

BusReset ==
  /\ line = "J" /\ bound.resets < MaxResets
  /\ bound' = [bound EXCEPT !.resets = @ + 1]
  /\ line' = "SE0"
  /\ host' = HostInit
  /\ Forget
  /\ UNCHANGED <<tx, msg, addr, usbConfiguration, ep1, hid, pc, sent>>

ResetEnds ==
  /\ line = "noticed"
  /\ line' = "J"
  /\ host' = [host EXCEPT !.stage = "idle"]
  /\ UNCHANGED <<device, call, sent, bound>>

(* The watchdog, or the plug.                                              *)
Restart ==
  /\ bound.resets < MaxResets
  /\ bound' = [bound EXCEPT !.resets = @ + 1]
  /\ rx' = DeviceInit.rx /\ tx' = DeviceInit.tx /\ msg' = DeviceInit.msg
  /\ addr' = DeviceInit.addr /\ usbConfiguration' = 0
  /\ ep1' = DeviceInit.ep1 /\ hid' = DeviceInit.hid
  /\ pc' = "poll"
  /\ line' = "J" /\ host' = HostInit /\ call' = Fresh
  /\ sent' = 0

Host ==
  \/ \E r \in Requests : Start(r)
  \/ Setup \/ Out \/ In \/ InLost \/ StatusOut
  \/ In1
  \/ GiveUp \/ BusReset \/ ResetEnds

Next == MainLoop \/ Host \/ Restart

(* The main loop runs on, and the host repeats what was not acknowledged:  *)
(* the loss of a packet is never the only thing that can happen.           *)
Fairness ==
  /\ WF_vars(MainLoop) /\ WF_vars(ResetEnds) /\ WF_vars(StatusOut) /\ WF_vars(In)
  /\ WF_vars(Setup /\ UNCHANGED bound) /\ WF_vars(Out /\ UNCHANGED bound)

Spec == Init /\ [][Next]_vars /\ Fairness

------------------------------------------------------------------------------
(* Properties                                                              *)

Stages == {"detached", "idle", "setup", "in", "out", "statusIn", "statusOut"}
Lengths == {NAK} \union Overhead .. Overhead + BlockSize

TypeOK ==
  /\ rx \in [len : {0, BlockSize + 3}, token : {"NONE", "SETUP", "OUT"},
             request : Requests \union {NoRequest}, own : BOOLEAN]
  /\ tx.len \in Lengths /\ tx.pid \in {0, 1} /\ Len(tx.data) <= BlockSize
  /\ msg.len \in 0 .. NoMsg /\ msg.ptr \in Nat /\ msg.flags \in {0, ROM, UserRW}
  /\ addr.dev \in 0 .. 127 /\ addr.new \in 0 .. 127
  /\ ep1 \in [len : {NAK, KeyReportSize + Overhead}, pid : {0, 1},
              data : 0 .. Reports - 1]
  /\ host.stage \in Stages /\ host.expect \in {0, 1}

(* A transfer the host completes, none of whose data were lost, was        *)
(* served: its SETUP was processed, and processed again only for each      *)
(* acknowledgement that was lost; the reply is what the request asked for  *)
(* when it was last processed, whole, and nothing of an earlier reply;     *)
(* the data of a SET_REPORT of report 2 went to UCP_Decode.                *)
Completes == (In \/ StatusOut) /\ host.stage # "idle" /\ host'.stage = "idle"

TransferServed ==
  [][Completes /\ ~call.damaged =>
       /\ call.served \in 1 .. 1 + call.lost
       /\ host.request.toHost /\ host.request.wLength # 0 => host.got = call.answer
       /\ host.stage = "statusIn" => tx.data = <<>>
       /\ call.decoded > 0 <=> Class(host.request, "SET_REPORT") /\ host.request.lo = 2
       /\ call.served + call.decoded <= 2 + call.lost]_vars

(* Device and host agree on the address whenever the host may ask.         *)
AddressAgrees ==
  /\ host.stage \notin {"detached"} /\ line = "J"
  => \/ addr.dev = host.addr
     \/ Standard(host.request, "SET_ADDRESS") /\ call.damaged

(* Every report goes out, once and in order.                               *)
ReportsInOrder == [][In1 => ep1.data = (sent + 1) % Reports]_vars

(* A transfer ends.  It may not when data of it were lost; then it is up   *)
(* to the host to give up.                                                 *)
Busy == host.stage \notin {"detached", "idle"} /\ ~call.damaged
TransferEnds == Busy ~> ~Busy
==============================================================================
