--------------------------- MODULE MCLinuxReboot ---------------------------
(***************************************************************************)
(* LinuxReboot for TLC.                                                    *)
(***************************************************************************)
EXTENDS LinuxReboot

Number(n) == [number |-> TRUE, val |-> n]
Word(rank) == [number |-> FALSE, val |-> rank]

\* Kernels of one distribution, from 5.14.0-503 on: 503.el9, 503.11.el9 and 570.el9.
MCKernels ==
  { <<Number(503), Word(1), Number(9)>>,
    <<Number(503), Number(11), Word(1), Number(9)>>,
    <<Number(570), Word(1), Number(9)>> }
=============================================================================
