------------------------------ MODULE MCReboot ------------------------------
(***************************************************************************)
(* Reboot for TLC: the kernels are those of MCLinuxReboot.                 *)
(***************************************************************************)
EXTENDS MCLinuxReboot, Reboot
=============================================================================
