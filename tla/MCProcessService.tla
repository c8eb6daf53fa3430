-------------------------- MODULE MCProcessService --------------------------
(* Instances of ProcessService: the bounds are given by the cfg files.       *)
EXTENDS ProcessService
=============================================================================
