---------------------------- MODULE MCPtyService ----------------------------
(* An instance of PtyService: the bounds are given by the cfg file.          *)
EXTENDS PtyService
=============================================================================
