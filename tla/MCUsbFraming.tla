---------------------------- MODULE MCUsbFraming -----------------------------
(* The instance of UsbFraming checked by TLC: a header of two units in a       *)
(* three-unit request, payloads of zero to three units read two at a time.     *)
(* One unit of payload is shorter than a header, three take two reads, and a   *)
(* header with payload in one transfer fits the request or overflows it.       *)
EXTENDS UsbFraming
==============================================================================
