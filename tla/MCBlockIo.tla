------------------------------ MODULE MCBlockIo ------------------------------
(* A small instance of BlockIo for TLC: three requests for two slots, rings  *)
(* of two entries and indices that wrap after two turns.                     *)
EXTENDS BlockIo, TLC

CONSTANTS r1, r2, r3

MCReq == {r1, r2, r3}
=============================================================================
