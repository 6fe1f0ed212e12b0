------------------------------ MODULE MCSdInit ------------------------------
(***************************************************************************)
(* SdInit for TLC: registers of cards with blocks of 512 and 1024 bytes.   *)
(***************************************************************************)
EXTENDS SdInit

MCCsds == {[size |-> 1, mul |-> 0, len |-> 9], [size |-> 2, mul |-> 1, len |-> 10]}
=============================================================================
