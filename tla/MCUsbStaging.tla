---------------------------- MODULE MCUsbStaging ----------------------------
(* UsbStaging for TLC: two interchangeable frame contents. *)
EXTENDS UsbStaging

CONSTANTS m1, m2

BodiesTwo == {m1, m2}
=============================================================================
