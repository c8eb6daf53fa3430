--------------------------- MODULE MCClientSession ---------------------------
(* An instance of ClientSession: the sets are given by the cfg file.         *)
EXTENDS ClientSession
=============================================================================
