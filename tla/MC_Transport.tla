---------------------------- MODULE MC_Transport ----------------------------
(* Model-checking instance of Transport: the code's cap of 4, and limits  *)
(* from an imageio server that include 0, the default 1, 2 and more than  *)
(* the cap.                                                               *)
EXTENDS Transport, TLC

MCAdvertised == {0, 1, 2, 5}

MCSchemes == {"https", "http", "ftp"}
=============================================================================
