---------------------------- MODULE LinuxReboot ----------------------------
(***************************************************************************)
(* The Linux needs-reboot check: isRebootPendingDetailed asks its sources  *)
(* one after the other, each of which may be absent, undecided or broken,  *)
(* while packages are installed on the host.  Checks share nothing, so one *)
(* is modelled at a time.  Lines are those of                              *)
(* linux_needs_reboot_check/main.go.                                       *)
(***************************************************************************)
EXTENDS KernelVersions

CONSTANT Kernels   \* versions of kernels that may be installed

ASSUME KernelsAssumption == Kernels \subseteq Version

VARIABLES
  flagged,    \* the reboot-required file exists
  advised,    \* the tools that would, if asked, advise a reboot
  installed,  \* the kernel-core packages
  running,    \* the kernel that runs
  pc,         \* where the check is
  pending,    \* pending
  failed,     \* errsList: the sources whose command failed
  answer,     \* "none" while the check goes on, else "1", "0" or "error"
  heard,      \* history: the sources that gave a verdict
  seen,       \* history: the signals that stood at some time of the check
  steady,     \* history: the signals that stood all the time of the check
  chosenBy    \* history: how the latest kernel was chosen

host == <<flagged, advised, installed, running>>
check == <<pending, failed, heard>>
past == <<seen, steady>>
vars == <<host, pc, check, answer, past, chosenBy>>

Tools == {"restarting", "zypper"}
Signals == Tools \cup {"file", "kernel"}

\* The signals that stand: what a working source would report now.
Standing ==
  advised \cup {"file" : f \in {f \in {flagged} : f}}
          \cup {"kernel" : k \in {k \in installed : Newer(k, running)}}

Init ==
  /\ flagged \in BOOLEAN /\ advised \in SUBSET Tools
  /\ installed \in SUBSET Kernels /\ running \in Kernels
  /\ pc = "idle" /\ pending = FALSE /\ failed = {} /\ answer = "none"
  /\ heard = {} /\ seen = {} /\ steady = {} /\ chosenBy = "nothing"

-----------------------------------------------------------------------------
\* The host.

Watch ==
  IF pc = "idle" THEN UNCHANGED past
  ELSE seen' = seen \cup Standing' /\ steady' = steady \cap Standing'

\* An update leaves a flag, or something that a tool will remark.
Update ==
  /\ \/ flagged' = TRUE /\ UNCHANGED advised
     \/ \E tool \in Tools : advised' = advised \cup {tool} /\ UNCHANGED flagged
  /\ UNCHANGED <<installed, running>>
  /\ Watch
  /\ UNCHANGED <<pc, check, answer, chosenBy>>

\* Kernels are installed, and old ones removed.
KernelPackages ==
  /\ \E kernel \in Kernels :
       installed' = installed \cup {kernel} \/ installed' = installed \ {kernel}
  /\ UNCHANGED <<flagged, advised, running>>
  /\ Watch
  /\ UNCHANGED <<pc, check, answer, chosenBy>>

Reboot ==
  /\ running' \in installed \cup {running}   \* not from a package, perhaps
  /\ flagged' = FALSE /\ advised' = {} /\ UNCHANGED installed
  /\ pc' = "idle" /\ answer' = "none"
  /\ UNCHANGED <<check, past, chosenBy>>

-----------------------------------------------------------------------------
\* The check.

Begin ==
  /\ pc = "idle"
  /\ pc' = "file"
  /\ pending' = FALSE /\ failed' = {} /\ answer' = "none"
  /\ heard' = {} /\ seen' = Standing /\ steady' = Standing /\ chosenBy' = "nothing"
  /\ UNCHANGED host

\* Mutated form of Verdict: the last verdict counts.
VerdictReplaces(source) ==
  /\ pending' = (source \in Standing)
  /\ heard' = heard \cup {source}
  /\ UNCHANGED failed

\* A source that works says what stands: a reboot is confirmed for good.
Verdict(source) ==
  /\ pending' = (pending \/ source \in Standing)
  /\ heard' = heard \cup {source}
  /\ UNCHANGED failed

\* The tool is absent, or ends with a code that says neither.
NoVerdict == UNCHANGED check

\* Mutated form of Fails: a failure settles it.
FailsAndForgets(source) ==
  /\ failed' = failed \cup {source}
  /\ pending' = FALSE
  /\ UNCHANGED heard

\* The command cannot be run, or runs out of its time (runExitCode).
Fails(source) ==
  /\ failed' = failed \cup {source}
  /\ UNCHANGED <<pending, heard>>

GoTo(place) == pc' = place /\ UNCHANGED <<host, answer, past>>

File ==
  /\ pc = "file"
  /\ Verdict("file")
  /\ GoTo("restarting") /\ UNCHANGED chosenBy

\* needs-restarting -r
NeedsRestarting ==
  /\ pc = "restarting"
  /\ Verdict("restarting") \/ NoVerdict \/ Fails("restarting")
  /\ GoTo("zypper") /\ UNCHANGED chosenBy

\* zypper needs-rebooting; needs-restarting again if zypper is there and does not know.
Zypper ==
  /\ pc = "zypper"
  /\ \/ Verdict("zypper") /\ GoTo("kernel")
     \/ NoVerdict /\ (GoTo("kernel") \/ GoTo("fallback"))
     \/ Fails("zypper") /\ GoTo("fallback")
  /\ UNCHANGED chosenBy

Fallback ==
  /\ pc = "fallback"
  /\ Verdict("restarting") \/ NoVerdict \/ Fails("restarting")
  /\ GoTo("kernel") /\ UNCHANGED chosenBy

\* A reboot is confirmed already, or uname or rpm tells nothing: no error either way.
NoKernelCheck ==
  /\ pc = "kernel"
  /\ NoVerdict
  /\ GoTo("result") /\ UNCHANGED chosenBy

\* Mutated form of KernelNewer: the names of the kernels are compared.
KernelOther(latest) == latest # running

KernelNewer(latest) == Newer(latest, running)

\* latestKernelCoreRPM picks one of the installed kernels with sort(1), or itself.
KernelCheck ==
  /\ pc = "kernel" /\ ~pending
  /\ \E latest \in installed :
       /\ \/ chosenBy' = "sort" /\ IsSortedLast(latest, installed)
          \/ chosenBy' = "loop" /\ IsHighest(latest, installed)
       /\ pending' = KernelNewer(latest)
  /\ heard' = heard \cup {"kernel"}
  /\ UNCHANGED failed
  /\ GoTo("result")

\* rebootMetricValue
Result ==
  /\ pc = "result"
  /\ answer' = IF pending THEN "1" ELSE IF failed # {} THEN "error" ELSE "0"
  /\ pc' = "idle"
  /\ UNCHANGED <<host, check, past, chosenBy>>

Next ==
  \/ Update \/ KernelPackages \/ Reboot
  \/ Begin \/ File \/ NeedsRestarting \/ Zypper \/ Fallback
  \/ NoKernelCheck \/ KernelCheck \/ Result

Spec == Init /\ [][Next]_vars

-----------------------------------------------------------------------------
\* The shapes of the state.
TypeOK ==
  /\ flagged \in BOOLEAN /\ advised \subseteq Tools
  /\ installed \subseteq Kernels /\ running \in Kernels
  /\ pc \in {"idle", "file", "restarting", "zypper", "fallback", "kernel", "result"}
  /\ pending \in BOOLEAN /\ failed \subseteq Tools
  /\ answer \in {"none", "0", "1", "error"}
  /\ heard \subseteq Signals /\ seen \subseteq Signals /\ steady \subseteq Signals
  /\ chosenBy \in {"nothing", "sort", "loop"}

\* What sort(1) takes for the last need not be the newest.
Trusted == IF chosenBy = "sort" THEN heard \ {"kernel"} ELSE heard

\* The inductive invariant: the histories enclose what stands, and pending is what the
\* sources that were heard said (isRebootPendingDetailed, 183-264).
RebootInvariant ==
  /\ TypeOK
  /\ pc # "idle" => answer = "none" /\ steady \subseteq Standing /\ Standing \subseteq seen
  /\ pc # "idle" /\ pending => seen # {}
  /\ pc # "idle" /\ ~pending => steady \cap Trusted = {}
  /\ pc \notin {"idle", "result"} => "kernel" \notin heard

\* A reboot is asked for only if there was a reason for it while the check went on.
AlarmHasCause == answer = "1" => seen # {}

\* Whatever fails, and in whatever order updates come in: a signal that stood all the time
\* and whose source gave a verdict is not answered with "0", nor lost in an error (178-182);
\* and "0" is not answered after a failed tool (161-172).
NoSignalMissed ==
  /\ answer \in {"0", "error"} => steady \cap Trusted = {}
  /\ answer = "0" => failed = {}

\* The newest of the installed kernels is found and compared with the running one
\* (242-245, 486).
NewestKernelCounts ==
  answer = "0" => "kernel" \notin steady \cap heard
=============================================================================
