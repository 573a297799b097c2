-------------------------------- MODULE MCUsb --------------------------------
(* Usb needs no definitions for TLC: all constants are numbers. *)
EXTENDS Usb
=============================================================================
