---------------------------- MODULE MCCoarsening ----------------------------
(***************************************************************************)
(* Kernels for checking Coarsening.                                        *)
(***************************************************************************)
EXTENDS Coarsening, MCKernels, TLC

MCKernelSet == {MakeFunction(Programs[i]) : i \in DOMAIN Programs}
=============================================================================
