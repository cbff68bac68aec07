--------------------------- MODULE MCUsbDispatcher ---------------------------
(* The instance of UsbDispatcher checked by TLC: two streams on one            *)
(* connection.  Two data messages and a write on the first show the order of   *)
(* read_buf and channel; the second stream shows routing and the shared lock.  *)
EXTENDS UsbDispatcher

CONSTANTS s1, s2

MCStreams == {s1, s2}
MCMaxData == [s \in MCStreams |-> IF s = s1 THEN 2 ELSE 1]
MCOneDatum == [s \in MCStreams |-> IF s = s1 THEN 1 ELSE 0]
MCMaxWrites == [s \in MCStreams |-> IF s = s1 THEN 1 ELSE 0]
==============================================================================
