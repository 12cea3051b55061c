------------------------------- MODULE Reboot -------------------------------
(***************************************************************************)
(* The needs-reboot checks of both systems: a host runs one of them, so    *)
(* that the states of the two add up and do not multiply.                  *)
(***************************************************************************)
EXTENDS LinuxReboot

VARIABLES
  os,  \* the system of the host, and with it the check
  winStanding, winPc, winReasons, winAnswer, winHeard, winGuessed, winSeen, winSteady

Windows == INSTANCE WindowsReboot WITH
  standing <- winStanding, pc <- winPc, reasons <- winReasons, answer <- winAnswer,
  heard <- winHeard, guessed <- winGuessed, seen <- winSeen, steady <- winSteady

winVars ==
  <<winStanding, winPc, winReasons, winAnswer, winHeard, winGuessed, winSeen, winSteady>>

NoLinux ==
  /\ flagged = FALSE /\ advised = {} /\ installed = {}
  /\ running = CHOOSE kernel \in Kernels : TRUE

HostInit ==
  /\ Init /\ Windows!Init
  /\ \/ os = "linux" /\ winStanding = {}
     \/ os = "windows" /\ NoLinux

HostNext ==
  \/ os = "linux" /\ Next /\ UNCHANGED <<os, winVars>>
  \/ os = "windows" /\ Windows!Next /\ UNCHANGED <<os, vars>>

HostSpec == HostInit /\ [][HostNext]_<<os, vars, winVars>>

\* The Windows check asks for a reboot only for a reason (WindowsReboot).
WindowsAlarmHasCause == Windows!WindowsInvariant /\ Windows!AlarmHasCause

\* The Windows check says "0" only if it could read its sources (WindowsReboot).
WindowsZeroIsInformed == Windows!ZeroIsInformed
=============================================================================
