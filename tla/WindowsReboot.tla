--------------------------- MODULE WindowsReboot ---------------------------
(***************************************************************************)
(* The Windows needs-reboot check: isRebootPendingDetailed reads four      *)
(* places of the registry, any of which may not be readable, and asks the  *)
(* SCCM client if they say nothing, while updates come in.  Lines are      *)
(* those of windows_needs_reboot_check/main.go.                            *)
(***************************************************************************)

VARIABLES
  standing,  \* the signals that stand on the host
  pc,        \* the source that is asked next, "idle" or "result"
  reasons,   \* reasons: the sources that said a reboot is pending
  answer,    \* "none" while the check goes on, else "1", "0" or "error"
  heard,     \* history: the sources that gave a verdict
  guessed,   \* history: a value could not be decoded and was taken for pending
  seen,      \* history: the signals that stood at some time of the check
  steady     \* history: the signals that stood all the time of the check

past == <<heard, guessed, seen, steady>>
vars == <<standing, pc, reasons, answer, past>>

Keys == {"cbs", "update"}             \* pending if the key exists
Values == {"renames", "renames2"}     \* pending if the value is not empty
Registry == Keys \cup Values
Signals == Registry \cup {"sccm"}

\* The order in which they are asked.
Following == [cbs |-> "update", update |-> "renames", renames |-> "renames2", renames2 |-> "sccm"]

Init ==
  /\ standing \in SUBSET Signals
  /\ pc = "idle" /\ reasons = {} /\ answer = "none"
  /\ heard = {} /\ guessed = FALSE /\ seen = {} /\ steady = {}

-----------------------------------------------------------------------------
\* The host.

\* Updates leave signals, and withdraw some.
Update ==
  /\ \E signal \in Signals : standing' = standing \cup {signal} \/ standing' = standing \ {signal}
  /\ IF pc = "idle" THEN UNCHANGED <<seen, steady>>
     ELSE seen' = seen \cup standing' /\ steady' = steady \cap standing'
  /\ UNCHANGED <<pc, reasons, answer, heard, guessed>>

\* Servicing may need several reboots: any signal may be there again after one.
Reboot ==
  /\ standing' \in SUBSET Signals
  /\ pc' = "idle" /\ answer' = "none"
  /\ UNCHANGED <<reasons, past>>

-----------------------------------------------------------------------------
\* The check.

Begin ==
  /\ pc = "idle"
  /\ pc' = "cbs" /\ reasons' = {} /\ answer' = "none"
  /\ heard' = {} /\ guessed' = FALSE /\ seen' = standing /\ steady' = standing
  /\ UNCHANGED standing

\* Mutated form of Says: that the value is there is enough.
SaysIfThere(source) == reasons' = reasons \cup {source}

\* What is there and not empty is a reason.
Says(source) == reasons' = reasons \cup ({source} \cap standing)

\* A key of the registry is there, or is not (registryKeyExists).
ReadKey ==
  /\ pc \in Keys
  /\ Says(pc)
  /\ heard' = heard \cup {pc}
  /\ pc' = Following[pc]
  /\ UNCHANGED <<standing, answer, guessed, seen, steady>>

\* The second value is looked at only if the first is empty.
AfterValue == IF reasons' \cap Values # {} THEN "sccm" ELSE Following[pc]

\* A value has content, or none (registryValueNonEmptyOrUnreadable).
ReadValue ==
  /\ pc \in Values
  /\ Says(pc)
  /\ heard' = heard \cup {pc}
  /\ pc' = AfterValue
  /\ UNCHANGED <<standing, answer, guessed, seen, steady>>

\* The value is there and no type fits it: pending, to be on the safe side.
Undecoded ==
  /\ pc \in Values
  /\ reasons' = reasons \cup {pc}
  /\ guessed' = TRUE
  /\ pc' = AfterValue
  /\ UNCHANGED <<standing, answer, heard, seen, steady>>

\* Mutated form of CannotRead: what cannot be read counts as not there.
CannotReadIsAbsent ==
  /\ pc \in Registry
  /\ pc' = Following[pc]
  /\ UNCHANGED <<standing, reasons, answer, past>>

\* The registry cannot be read: an error, whatever was found before.
CannotRead ==
  /\ pc \in Registry
  /\ answer' = "error"
  /\ pc' = "idle"
  /\ UNCHANGED <<standing, reasons, past>>

\* The registry said enough, or the SCCM client is not there or fails: no error either way.
NoSCCM ==
  /\ pc = "sccm"
  /\ pc' = "result"
  /\ UNCHANGED <<standing, reasons, answer, past>>

\* DetermineIfRebootPending answers.
AskSCCM ==
  /\ pc = "sccm" /\ reasons = {}
  /\ Says("sccm")
  /\ heard' = heard \cup {"sccm"}
  /\ pc' = "result"
  /\ UNCHANGED <<standing, answer, guessed, seen, steady>>

Result ==
  /\ pc = "result"
  /\ answer' = IF reasons # {} THEN "1" ELSE "0"
  /\ pc' = "idle"
  /\ UNCHANGED <<standing, reasons, past>>

Next ==
  \/ Update \/ Reboot
  \/ Begin \/ ReadKey \/ ReadValue \/ Undecoded \/ CannotRead
  \/ NoSCCM \/ AskSCCM \/ Result

Spec == Init /\ [][Next]_vars

-----------------------------------------------------------------------------
\* The shapes of the state.
TypeOK ==
  /\ standing \subseteq Signals /\ reasons \subseteq Signals
  /\ pc \in Signals \cup {"idle", "result"}
  /\ answer \in {"none", "0", "1", "error"}
  /\ heard \subseteq Signals /\ guessed \in BOOLEAN
  /\ seen \subseteq Signals /\ steady \subseteq Signals

\* The sources asked before a place of the check is reached.
Before == [cbs |-> {}, update |-> {"cbs"}, renames |-> Keys, renames2 |-> Keys \cup {"renames"},
           sccm |-> Registry, result |-> Registry]

\* The inductive invariant: the histories enclose what stands, the reasons are what the sources
\* that were heard said, and with no reason so far all of those asked were heard (161-213).
WindowsInvariant ==
  /\ TypeOK
  /\ pc # "idle" =>
       /\ answer = "none"
       /\ steady \subseteq standing /\ standing \subseteq seen
       /\ reasons # {} => seen # {} \/ guessed
       /\ steady \cap heard \subseteq reasons
       /\ reasons = {} => Before[pc] \subseteq heard

\* "1" has a reason that stood while the check went on, or a value nobody could decode
\* (162-213, 272-327).
AlarmHasCause == answer = "1" => seen # {} \/ guessed

\* "0" is answered only if the whole registry was read, and none of its signals stood all
\* the time; nor that of the SCCM client, if it answered (139-145, 162-213).
ZeroIsInformed ==
  answer = "0" =>
    /\ Registry \subseteq heard
    /\ steady \cap heard = {}
=============================================================================
