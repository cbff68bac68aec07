--------------------------- MODULE MCUsbConnCache ----------------------------
(* The instance of UsbConnCache checked by TLC: two threads, three             *)
(* connections one after the other, a device that goes away and comes back.    *)
EXTENDS UsbConnCache

CONSTANTS t1, t2, c1, c2, c3

MCThreads == {t1, t2}
MCConns == {c1, c2, c3}
==============================================================================
