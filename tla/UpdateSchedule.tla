--------------------------- MODULE UpdateSchedule ---------------------------
(***************************************************************************)
(* When the data files are updated: DownloadFileAbility (Query, Update and *)
(* the work-scheduler tasks it handles) and the timer functions of         *)
(* DownloadFile.  The handlers run on IPC threads without a common lock;   *)
(* each step below is one call to the database or to the work scheduler.   *)
(*                                                                         *)
(* The repeating work COMMON_WORK_ID is the timer.  The scheduler service  *)
(* keeps it across crashes and reboots.  The property                      *)
(* time_worker_start_time_second is what the application remembers of it:  *)
(* empty, or the time of a start.  CheckNetwork() and DownloadFiles() are  *)
(* one step each (the module DownloadFile is about the second).            *)
(***************************************************************************)
EXTENDS Integers, FiniteSets

CONSTANTS
    Handlers,  \* IPC threads
    Faults     \* may calls to the work scheduler fail

ASSUME ScheduleAssumption == Faults \in BOOLEAN

NetworkType == {"close_update", "wlan_only", "all_network"}
Cadence == {"7d", "6h"}

VARIABLES
    networkType,   \* property network_type, "unset" while it has no row
    oobeOff,       \* the setting number_identity_switch_oobe is "0"
    stamped,       \* time_worker_start_time_second is not empty
    forceUpdated,  \* property force_updated is "1"
    timer,         \* the repeating work: "none" or its cadence
    bootDue,       \* the scheduler has still to run BOOT_WORK_ID after this boot
    op,            \* op[h]: what handler h executes; a network type is Update to it
    pc,            \* where it is
    saw,           \* the network type that it read first
    cadence,       \* the cadence it is about to give the timer
    armSound,      \* history: nothing has disturbed the timer since a boot task
    faulted,       \* history: has a call to the scheduler failed
    crashed,       \* history: has the process died while a handler ran
    overlapped     \* history: have two handlers ever overlapped

properties == <<networkType, oobeOff, stamped, forceUpdated>>
scheduler == <<timer, bootDue>>
locals == <<op, pc, saw, cadence>>
history == <<armSound, faulted, crashed, overlapped>>
vars == <<properties, scheduler, locals, history>>

TypeOK ==
    /\ networkType \in NetworkType \cup {"unset"}
    /\ timer \in Cadence \cup {"none"}
    /\ {oobeOff, stamped, forceUpdated, bootDue, armSound, faulted, crashed, overlapped}
         \subseteq BOOLEAN
    /\ op \in [Handlers -> NetworkType \cup {"none", "query", "boot", "common"}]
    /\ pc \in [Handlers -> {"idle", "begin", "readType", "write", "check", "download", "cancel",
                            "start", "stamp", "clear", "startTimer", "stampTimer", "force",
                            "stopTimer", "clearTimer"}]
    /\ saw \in [Handlers -> NetworkType]
    /\ cadence \in [Handlers -> Cadence]

LocalsInit ==
    /\ op = [h \in Handlers |-> "none"]
    /\ pc = [h \in Handlers |-> "idle"]
    /\ saw = [h \in Handlers |-> "wlan_only"]
    /\ cadence = [h \in Handlers |-> "7d"]

\* A device that boots for the first time with this application.
Init ==
    /\ networkType = "unset"
    /\ oobeOff \in BOOLEAN
    /\ stamped = FALSE
    /\ forceUpdated = FALSE
    /\ timer = "none"
    /\ bootDue = TRUE
    /\ LocalsInit
    /\ armSound = FALSE
    /\ faulted = FALSE
    /\ crashed = FALSE
    /\ overlapped = FALSE

-----------------------------------------------------------------------------
GoTo(h, label) ==
    /\ pc' = [pc EXCEPT ![h] = label]
    /\ UNCHANGED <<op, saw, cadence>>

End(h) ==
    /\ op' = [op EXCEPT ![h] = "none"]
    /\ pc' = [pc EXCEPT ![h] = "idle"]
    /\ saw' = [saw EXCEPT ![h] = "wlan_only"]
    /\ cadence' = [cadence EXCEPT ![h] = "7d"]

\* Mutant: a missing row has no default.
PolicyRow == networkType

\* QueryNetworkType()
Policy ==
    IF networkType # "unset" THEN networkType
    ELSE IF oobeOff THEN "close_update" ELSE "wlan_only"

Active(ops) == \E h \in Handlers : op[h] \in ops
Quiet == ~bootDue /\ \A h \in Handlers : op[h] = "none"

Calls == NetworkType \cup {"query", "boot", "common"}

\* A call to the ability arrives, or the scheduler has run a work and calls it.
Begin(h, call) ==
    /\ op[h] = "none"
    /\ op' = [op EXCEPT ![h] = call]
    /\ pc' = [pc EXCEPT ![h] = "begin"]
    /\ overlapped' = (overlapped \/ Active(Calls))
    /\ armSound' = \/ call = "boot" /\ ~Active(NetworkType)
                   \/ armSound /\ call # "boot" /\ ~(call \in NetworkType /\ Active({"boot"}))
    /\ UNCHANGED <<properties, timer, saw, cadence, faulted, crashed>>

\* The settings application queries and updates; it has one update under way at a time.
BeginQuery(h) == Begin(h, "query") /\ UNCHANGED bootDue
BeginUpdate(h) ==
    /\ ~Active(NetworkType)
    /\ \E type \in NetworkType : Begin(h, type)
    /\ UNCHANGED bootDue
BeginBoot(h) == bootDue /\ Begin(h, "boot") /\ bootDue' = FALSE
BeginCommon(h) ==
    /\ timer # "none" /\ ~Active({"common"})
    /\ Begin(h, "common")
    /\ UNCHANGED bootDue

-----------------------------------------------------------------------------
(* DownloadFileAbility::Query *)

Query(h) ==
    /\ op[h] = "query" /\ pc[h] = "begin"
    /\ IF stamped THEN End(h) ELSE GoTo(h, "readType")
    /\ UNCHANGED <<properties, scheduler, history>>

QueryType(h) ==
    /\ pc[h] = "readType"
    /\ IF Policy = "wlan_only" THEN GoTo(h, "startTimer") ELSE End(h)
    /\ UNCHANGED <<properties, scheduler, history>>

(* DealTaskTypeOfWorkSheduler *)

Boot(h) ==
    /\ op[h] = "boot" /\ pc[h] = "begin"
    /\ saw' = [saw EXCEPT ![h] = Policy]
    /\ \/ /\ ~forceUpdated
          /\ pc' = [pc EXCEPT ![h] = "check"]
          /\ UNCHANGED <<op, cadence>>
       \/ /\ forceUpdated /\ Policy # "close_update"
          /\ pc' = [pc EXCEPT ![h] = "startTimer"]
          /\ UNCHANGED <<op, cadence>>
    /\ UNCHANGED <<properties, scheduler, history>>

BootClosed(h) ==
    /\ op[h] = "boot" /\ pc[h] = "begin"
    /\ forceUpdated /\ Policy = "close_update"
    /\ End(h)
    /\ UNCHANGED <<properties, scheduler, history>>

Common(h) ==
    /\ op[h] = "common" /\ pc[h] = "begin"
    /\ GoTo(h, "check")
    /\ UNCHANGED <<properties, scheduler, history>>

(* DownloadFileAbility::Update to a network type *)

Update(h) ==
    /\ op[h] \in NetworkType /\ pc[h] = "begin"
    /\ \/ Policy = op[h] /\ End(h)
       \/ /\ Policy # op[h]
          /\ saw' = [saw EXCEPT ![h] = Policy]
          /\ pc' = [pc EXCEPT ![h] = "write"]
          /\ UNCHANGED <<op, cadence>>
    /\ UNCHANGED <<properties, scheduler, history>>

WriteNetworkType(h) ==
    /\ pc[h] = "write"
    /\ networkType' = op[h]
    /\ \/ op[h] = "close_update" /\ GoTo(h, "stopTimer")
       \/ op[h] # "close_update" /\ saw[h] = "close_update" /\ GoTo(h, "check")
       \/ op[h] # "close_update" /\ saw[h] # "close_update" /\ End(h)
    /\ UNCHANGED <<oobeOff, stamped, forceUpdated, scheduler, history>>

-----------------------------------------------------------------------------
(* CheckNetworkAndDownloadFiles() and UpdateTimer(). *)

\* Mutant: on the wrong network nothing is scheduled.
CheckNetworkOnly(h) ==
    /\ pc[h] = "check"
    /\ \/ Policy # "close_update" /\ GoTo(h, "download")
       \/ End(h)
    /\ UNCHANGED <<properties, scheduler, history>>

\* CheckNetwork() compares the network with the policy; the next try is in 6 hours.
CheckNetwork(h) ==
    /\ pc[h] = "check"
    /\ \/ Policy # "close_update" /\ GoTo(h, "download")
       \/ /\ pc' = [pc EXCEPT ![h] = "cancel"]
          /\ cadence' = [cadence EXCEPT ![h] = "6h"]
          /\ UNCHANGED <<op, saw>>
    /\ UNCHANGED <<properties, scheduler, history>>

DownloadFiles(h) ==
    /\ pc[h] = "download"
    /\ \E next \in Cadence : cadence' = [cadence EXCEPT ![h] = next]
    /\ pc' = [pc EXCEPT ![h] = "cancel"]
    /\ UNCHANGED <<properties, scheduler, history, op, saw>>

\* Mutant: the boot task does not stop the timer.
CheckedOnly(h, success) ==
    \/ op[h] = "boot" /\ success /\ GoTo(h, "force")
    \/ (op[h] = "boot" => ~success) /\ End(h)

\* CheckNetworkAndDownloadFiles() returns; the first boot task goes on.
Checked(h, success) ==
    \/ op[h] = "boot" /\ success /\ GoTo(h, "force")
    \/ op[h] = "boot" /\ ~success /\ saw[h] = "close_update" /\ GoTo(h, "stopTimer")
    \/ (op[h] = "boot" => ~success /\ saw[h] # "close_update") /\ End(h)

\* The result of StopAndCancelWork is only logged.
CancelWork(h) ==
    /\ pc[h] = "cancel"
    /\ GoTo(h, "start")
    /\ \/ timer' = "none" /\ UNCHANGED history
       \/ /\ Faults
          /\ faulted' = TRUE
          /\ UNCHANGED <<timer, armSound, crashed, overlapped>>
    /\ UNCHANGED <<properties, bootDue>>

\* Mutant: after a failure the start time is kept.
StartWorkKeepsStamp(h) ==
    /\ pc[h] = "start"
    /\ \/ timer = "none" /\ timer' = cadence[h] /\ GoTo(h, "stamp") /\ UNCHANGED history
       \/ timer # "none" /\ Checked(h, cadence[h] = "7d") /\ UNCHANGED <<timer, history>>
       \/ /\ Faults
          /\ Checked(h, FALSE)
          /\ faulted' = TRUE
          /\ armSound' = FALSE
          /\ UNCHANGED <<timer, crashed, overlapped>>
    /\ UNCHANGED <<properties, bootDue>>

\* StartWork, for which a work that exists is no error.
StartWork(h) ==
    /\ pc[h] = "start"
    /\ \/ /\ timer = "none"
          /\ timer' = cadence[h]
          /\ GoTo(h, "stamp")
          /\ UNCHANGED history
       \/ /\ timer # "none"
          /\ Checked(h, cadence[h] = "7d")
          /\ UNCHANGED <<timer, history>>
       \/ /\ Faults
          /\ GoTo(h, "clear")
          /\ faulted' = TRUE
          /\ armSound' = FALSE
          /\ UNCHANGED <<timer, crashed, overlapped>>
    /\ UNCHANGED <<properties, bootDue>>

StampStart(h) ==
    /\ pc[h] = "stamp"
    /\ stamped' = TRUE
    /\ Checked(h, cadence[h] = "7d")
    /\ UNCHANGED <<networkType, oobeOff, forceUpdated, scheduler, history>>

ClearStamp(h) ==
    /\ pc[h] = "clear"
    /\ stamped' = FALSE
    /\ Checked(h, FALSE)
    /\ UNCHANGED <<networkType, oobeOff, forceUpdated, scheduler, history>>

ForceUpdated(h) ==
    /\ pc[h] = "force"
    /\ forceUpdated' = TRUE
    /\ IF saw[h] = "close_update" THEN GoTo(h, "stopTimer") ELSE End(h)
    /\ UNCHANGED <<networkType, oobeOff, stamped, scheduler, history>>

-----------------------------------------------------------------------------
(* StartTimer() and StopTimer(). *)

StartTimer(h) ==
    /\ pc[h] = "startTimer"
    /\ \/ timer = "none" /\ timer' = "7d" /\ GoTo(h, "stampTimer") /\ UNCHANGED history
       \/ timer # "none" /\ End(h) /\ UNCHANGED <<timer, history>>
       \/ /\ Faults
          /\ End(h)
          /\ faulted' = TRUE
          /\ armSound' = FALSE
          /\ UNCHANGED <<timer, crashed, overlapped>>
    /\ UNCHANGED <<properties, bootDue>>

StampTimer(h) ==
    /\ pc[h] = "stampTimer"
    /\ stamped' = TRUE
    /\ End(h)
    /\ UNCHANGED <<networkType, oobeOff, forceUpdated, scheduler, history>>

StopTimer(h) ==
    /\ pc[h] = "stopTimer"
    /\ \/ timer' = "none" /\ GoTo(h, "clearTimer") /\ UNCHANGED history
       \/ /\ Faults
          /\ End(h)
          /\ faulted' = TRUE
          /\ UNCHANGED <<timer, armSound, crashed, overlapped>>
    /\ UNCHANGED <<properties, bootDue>>

ClearTimer(h) ==
    /\ pc[h] = "clearTimer"
    /\ stamped' = FALSE
    /\ End(h)
    /\ UNCHANGED <<networkType, oobeOff, forceUpdated, scheduler, history>>

-----------------------------------------------------------------------------
\* The process dies, or the device reboots: the work of the scheduler survives.
Crash ==
    /\ \E reboot \in BOOLEAN : bootDue' = (bootDue \/ reboot)
    /\ op' = [h \in Handlers |-> "none"]
    /\ pc' = [h \in Handlers |-> "idle"]
    /\ saw' = [h \in Handlers |-> "wlan_only"]
    /\ cadence' = [h \in Handlers |-> "7d"]
    /\ armSound' = (armSound /\ ~Active(Calls))
    /\ crashed' = (crashed \/ Active(Calls))
    /\ UNCHANGED <<properties, timer, faulted, overlapped>>

Handler(h) ==
    \/ Query(h) \/ QueryType(h) \/ Boot(h) \/ BootClosed(h) \/ Common(h)
    \/ Update(h) \/ WriteNetworkType(h)
    \/ CheckNetwork(h) \/ DownloadFiles(h)
    \/ CancelWork(h) \/ StartWork(h) \/ StampStart(h) \/ ClearStamp(h) \/ ForceUpdated(h)
    \/ StartTimer(h) \/ StampTimer(h) \/ StopTimer(h) \/ ClearTimer(h)

Next ==
    \/ \E h \in Handlers :
         BeginQuery(h) \/ BeginUpdate(h) \/ BeginBoot(h) \/ BeginCommon(h) \/ Handler(h)
    \/ Crash

Spec == Init /\ [][Next]_vars

-----------------------------------------------------------------------------
(* Properties. *)

\* A boot task that no change of the setting overlaps arms the timer unless updates are
\* closed, whatever was lost before it; and the timer then stays armed while handlers
\* cancel and start it, until a call to the scheduler or the process fails.
ArmedUnlessClosed ==
    armSound /\ Quiet /\ Policy # "close_update" => timer # "none"

\* Once updates are closed no update is scheduled, when one handler runs at a time: the
\* 6 hour retry that the first boot task starts is stopped again.  (A timer task or a
\* query that overlaps the closing starts the timer again, and nothing stops it then; a
\* failed StopAndCancelWork leaves it, too.)
ClosedMeansDisarmed ==
    /\ Quiet /\ Policy = "close_update"
    /\ ~overlapped /\ ~faulted /\ ~crashed
    => timer = "none"

\* When one handler runs at a time and the scheduler refuses to start the timer, the empty
\* start time shows it, and the next Query() can start it again.  (A crash between
\* StopAndCancelWork and StartWork leaves the old start time; the next boot repairs it.)
LossIsVisible ==
    /\ Quiet /\ Policy # "close_update" /\ timer = "none"
    /\ ~overlapped /\ ~crashed
    => ~stamped
=============================================================================
