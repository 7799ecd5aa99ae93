-------------------------- MODULE MC_ZeroEmulation --------------------------
(* Model-checking instance of ZeroEmulation: a 4-byte buffer stands for   *)
(* 128 KiB; requests up to 13 bytes cover bodies shorter than, equal to   *)
(* and up to three times the buffer, multiples of it included.            *)
EXTENDS ZeroEmulation, TLC
=============================================================================
