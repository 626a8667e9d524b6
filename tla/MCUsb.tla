-------------------------------- MODULE MCUsb --------------------------------
(***************************************************************************)
(* The requests a host makes when it enumerates the device and uses it.    *)
(***************************************************************************)
EXTENDS Usb

Ask(type, bRequest, hi, lo, wLength) ==
  [type |-> type, bRequest |-> bRequest, hi |-> hi, lo |-> lo,
   wLength |-> wLength, toHost |-> TRUE, packet |-> 0]
Tell(type, bRequest, hi, lo) ==
  [type |-> type, bRequest |-> bRequest, hi |-> hi, lo |-> lo,
   wLength |-> 0, toHost |-> FALSE, packet |-> 0]
SetReport(id, packet) ==
  [Tell("class", "SET_REPORT", 3, id) EXCEPT !.wLength = 8, !.packet = packet]

mcRequests ==
  {Ask("standard", "GET_DESCRIPTOR", 1, 0, 64), \* three blocks, cut short
   Tell("standard", "SET_ADDRESS", 0, 5),
   Tell("standard", "SET_CONFIGURATION", 0, 1),
   Ask("standard", "GET_CONFIGURATION", 0, 0, 1),
   Tell("standard", "SET_INTERFACE", 0, 0),
   Tell("standard", "CLEAR_FEATURE", 0, 0),
   Tell("class", "SET_IDLE", 125, 0),
   Ask("class", "GET_REPORT", 1, 1, 8),
   Ask("class", "GET_REPORT", 3, 2, 8), \* one block, filled
   SetReport(2, 1), SetReport(1, 1)}
==============================================================================
