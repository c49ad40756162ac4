------------------------ MODULE UpdateScheduleProofs ------------------------
(***************************************************************************)
(* Theorems about UpdateSchedule, for any number of handlers.              *)
(***************************************************************************)
EXTENDS UpdateSchedule, TLAPS

USE DEF NetworkType, Cadence

Timing == {"check", "download", "cancel", "start", "stamp", "clear"}

\* Where the handler of each call can be.
Placed ==
    \A h \in Handlers :
        /\ op[h] = "none" <=> pc[h] = "idle"
        /\ op[h] = "query" => pc[h] \in {"begin", "readType", "startTimer", "stampTimer"}
        /\ op[h] = "common" => pc[h] \in {"begin"} \cup Timing
        /\ op[h] = "boot" => pc[h] \in {"begin", "force", "startTimer", "stampTimer",
                                        "stopTimer", "clearTimer"} \cup Timing
        /\ op[h] \in NetworkType =>
             pc[h] \in {"begin", "write", "stopTimer", "clearTimer"} \cup Timing

Data ==
    /\ networkType \in NetworkType \cup {"unset"}
    /\ timer \in Cadence \cup {"none"}
    /\ op \in [Handlers -> NetworkType \cup {"none", "query", "boot", "common"}]
    /\ pc \in [Handlers -> {"idle", "begin", "readType", "write", "check", "download", "cancel",
                            "start", "stamp", "clear", "startTimer", "stampTimer", "force",
                            "stopTimer", "clearTimer"}]
    /\ saw \in [Handlers -> NetworkType]
    /\ cadence \in [Handlers -> Cadence]

FlagsOK ==
    /\ oobeOff \in BOOLEAN /\ stamped \in BOOLEAN /\ forceUpdated \in BOOLEAN /\ bootDue \in BOOLEAN
    /\ armSound \in BOOLEAN /\ faulted \in BOOLEAN /\ crashed \in BOOLEAN /\ overlapped \in BOOLEAN

TypeInv == FlagsOK /\ Data /\ Placed

LEMMA TypeParts == TypeOK <=> FlagsOK /\ Data
BY DEF TypeOK, FlagsOK, Data

LEMMA TypeInit == Init => TypeInv
<1> SUFFICES ASSUME Init PROVE TypeInv  OBVIOUS
<1>1. FlagsOK  BY DEF Init, FlagsOK
<1>2. Data /\ Placed  BY DEF Init, LocalsInit, Data, Placed, Timing
<1>q. QED BY <1>1, <1>2 DEF TypeInv

LEMMA FlagsBegin ==
    ASSUME FlagsOK, NEW h \in Handlers,
           BeginQuery(h) \/ BeginUpdate(h) \/ BeginBoot(h) \/ BeginCommon(h)
    PROVE  FlagsOK'
<1>1. PICK call \in Calls : Begin(h, call) /\ bootDue' \in BOOLEAN
  BY DEF BeginQuery, BeginUpdate, BeginBoot, BeginCommon, Calls, FlagsOK
<1>q. QED BY <1>1 DEF Begin, properties, FlagsOK

LEMMA FlagsHandler ==
    ASSUME FlagsOK, NEW h \in Handlers, Handler(h)
    PROVE  FlagsOK'
<1>u. USE DEF FlagsOK, properties, scheduler, history
<1>1. CASE Query(h) BY <1>1 DEF Query
<1>2. CASE QueryType(h) BY <1>2 DEF QueryType
<1>3. CASE Boot(h) BY <1>3 DEF Boot
<1>4. CASE BootClosed(h) BY <1>4 DEF BootClosed
<1>5. CASE Common(h) BY <1>5 DEF Common
<1>6. CASE Update(h) BY <1>6 DEF Update
<1>7. CASE WriteNetworkType(h) BY <1>7 DEF WriteNetworkType
<1>8. CASE CheckNetwork(h) BY <1>8 DEF CheckNetwork
<1>9. CASE DownloadFiles(h) BY <1>9 DEF DownloadFiles
<1>10. CASE CancelWork(h) BY <1>10 DEF CancelWork
<1>11. CASE StartWork(h) BY <1>11 DEF StartWork
<1>12. CASE StampStart(h) BY <1>12 DEF StampStart
<1>13. CASE ClearStamp(h) BY <1>13 DEF ClearStamp
<1>14. CASE ForceUpdated(h) BY <1>14 DEF ForceUpdated
<1>15. CASE StartTimer(h) BY <1>15 DEF StartTimer
<1>16. CASE StampTimer(h) BY <1>16 DEF StampTimer
<1>17. CASE StopTimer(h) BY <1>17 DEF StopTimer
<1>18. CASE ClearTimer(h) BY <1>18 DEF ClearTimer
<1>q. QED BY <1>1, <1>2, <1>3, <1>4, <1>5, <1>6, <1>7, <1>8, <1>9,
             <1>10, <1>11, <1>12, <1>13, <1>14, <1>15, <1>16, <1>17, <1>18 DEF Handler

LEMMA DataBegin ==
    ASSUME Data, Placed, NEW h \in Handlers,
           BeginQuery(h) \/ BeginUpdate(h) \/ BeginBoot(h) \/ BeginCommon(h)
    PROVE  (Data /\ Placed)'
<1>1. PICK call \in Calls : Begin(h, call)
  BY DEF BeginQuery, BeginUpdate, BeginBoot, BeginCommon, Calls
<1>q. QED BY <1>1 DEF Data, Placed, Begin, Calls, properties, Timing

LEMMA DataHandler ==
    ASSUME Data, Placed, NEW h \in Handlers, Handler(h)
    PROVE  (Data /\ Placed)'
<1>u. USE DEF Data, Placed, Timing, GoTo, End, Checked, Policy, properties, scheduler, history
<1>1. CASE Query(h) BY <1>1 DEF Query
<1>2. CASE QueryType(h) BY <1>2 DEF QueryType
<1>3. CASE Boot(h) BY <1>3 DEF Boot
<1>4. CASE BootClosed(h) BY <1>4 DEF BootClosed
<1>5. CASE Common(h) BY <1>5 DEF Common
<1>6. CASE Update(h) BY <1>6 DEF Update
<1>7. CASE WriteNetworkType(h) BY <1>7 DEF WriteNetworkType
<1>8. CASE CheckNetwork(h) BY <1>8 DEF CheckNetwork
<1>9. CASE DownloadFiles(h) BY <1>9 DEF DownloadFiles
<1>10. CASE CancelWork(h) BY <1>10 DEF CancelWork
<1>11. CASE StartWork(h) BY <1>11 DEF StartWork
<1>12. CASE StampStart(h) BY <1>12 DEF StampStart
<1>13. CASE ClearStamp(h) BY <1>13 DEF ClearStamp
<1>14. CASE ForceUpdated(h) BY <1>14 DEF ForceUpdated
<1>15. CASE StartTimer(h) BY <1>15 DEF StartTimer
<1>16. CASE StampTimer(h) BY <1>16 DEF StampTimer
<1>17. CASE StopTimer(h) BY <1>17 DEF StopTimer
<1>18. CASE ClearTimer(h) BY <1>18 DEF ClearTimer
<1>q. QED BY <1>1, <1>2, <1>3, <1>4, <1>5, <1>6, <1>7, <1>8, <1>9,
             <1>10, <1>11, <1>12, <1>13, <1>14, <1>15, <1>16, <1>17, <1>18 DEF Handler

LEMMA TypeCrash == TypeInv /\ Crash => TypeInv'
<1> SUFFICES ASSUME TypeInv, Crash PROVE TypeInv'  OBVIOUS
<1>1. FlagsOK'  BY DEF TypeInv, FlagsOK, Crash, properties
<1>2. (Data /\ Placed)'  BY DEF TypeInv, Data, Placed, Crash, properties
<1>q. QED BY <1>1, <1>2 DEF TypeInv

LEMMA TypeNext == TypeInv /\ [Next]_vars => TypeInv'
<1> SUFFICES ASSUME TypeInv, [Next]_vars PROVE TypeInv'  OBVIOUS
<1>1. ASSUME NEW h \in Handlers, BeginQuery(h) \/ BeginUpdate(h) \/ BeginBoot(h) \/ BeginCommon(h)
      PROVE  TypeInv'
  BY <1>1, FlagsBegin, DataBegin DEF TypeInv
<1>2. ASSUME NEW h \in Handlers, Handler(h) PROVE TypeInv'
  BY <1>2, FlagsHandler, DataHandler DEF TypeInv
<1>3. CASE UNCHANGED vars
  BY <1>3 DEF vars, properties, scheduler, locals, history, TypeInv, FlagsOK, Data, Placed
<1>q. QED BY <1>1, <1>2, <1>3, TypeCrash DEF Next

\* The properties table, the timer and all that the handlers keep always have their types, for
\* any number of handlers, and every handler is at a step that the code of its call has.
THEOREM TypeCorrect == Spec => []TypeOK
<1>1. TypeInv => TypeOK  BY TypeParts DEF TypeInv
<1>q. QED BY TypeInit, TypeNext, <1>1, PTL DEF Spec

-----------------------------------------------------------------------------
(* One update of the network type, and one boot task, at a time. *)

\* The settings application makes one update at a time and nobody else writes the network
\* type; there is one boot task until the next reboot.
OneWriter ==
    /\ \A g, h \in Handlers : op[g] \in NetworkType /\ op[h] \in NetworkType => g = h
    /\ \A g, h \in Handlers : op[g] = "boot" /\ op[h] = "boot" => g = h
    /\ bootDue => \A h \in Handlers : op[h] # "boot"

\* What an update has read stays true until it writes, and what it has written until it ends.
Writing ==
    \A h \in Handlers :
        /\ pc[h] = "write" => saw[h] = Policy /\ op[h] # Policy
        /\ op[h] \in NetworkType /\ pc[h] \in Timing \cup {"stopTimer", "clearTimer"} =>
             networkType = op[h]
        /\ op[h] \in NetworkType /\ pc[h] \in Timing => op[h] # "close_update"
        /\ op[h] \in NetworkType /\ pc[h] \in {"stopTimer", "clearTimer"} => op[h] = "close_update"

\* A boot task stops the timer only if it has found updates closed.
Stopping ==
    \A h \in Handlers :
        op[h] = "boot" /\ pc[h] \in {"stopTimer", "clearTimer"} => saw[h] = "close_update"

WriterInv == OneWriter /\ Writing /\ Stopping

LEMMA WriterInit == Init => WriterInv
BY DEF Init, LocalsInit, WriterInv, OneWriter, Writing, Stopping

LEMMA WriterBegin ==
    ASSUME TypeInv, WriterInv, NEW h \in Handlers,
           BeginQuery(h) \/ BeginUpdate(h) \/ BeginBoot(h) \/ BeginCommon(h)
    PROVE  WriterInv'
<1>u. USE DEF Begin, Active, TypeInv, Data, Placed, WriterInv, OneWriter, Writing, Stopping,
              Policy, properties, Timing
<1>1. CASE BeginQuery(h)  BY <1>1 DEF BeginQuery
<1>2. CASE BeginUpdate(h)  BY <1>2 DEF BeginUpdate
<1>3. CASE BeginBoot(h)  BY <1>3 DEF BeginBoot
<1>4. CASE BeginCommon(h)  BY <1>4 DEF BeginCommon
<1>q. QED BY <1>1, <1>2, <1>3, <1>4

LEMMA WriterHandler ==
    ASSUME TypeInv, WriterInv, NEW h \in Handlers, Handler(h)
    PROVE  WriterInv'
<1>u. USE DEF TypeInv, Data, Placed, Timing, WriterInv, OneWriter, Writing, Stopping,
              GoTo, End, Checked, Policy, properties, scheduler, history
<1>1. CASE Query(h) BY <1>1 DEF Query
<1>2. CASE QueryType(h) BY <1>2 DEF QueryType
<1>3. CASE Boot(h) BY <1>3 DEF Boot
<1>4. CASE BootClosed(h) BY <1>4 DEF BootClosed
<1>5. CASE Common(h) BY <1>5 DEF Common
<1>6. CASE Update(h) BY <1>6 DEF Update
<1>7. CASE WriteNetworkType(h) BY <1>7 DEF WriteNetworkType
<1>8. CASE CheckNetwork(h) BY <1>8 DEF CheckNetwork
<1>9. CASE DownloadFiles(h) BY <1>9 DEF DownloadFiles
<1>10. CASE CancelWork(h) BY <1>10 DEF CancelWork
<1>11. CASE StartWork(h) BY <1>11 DEF StartWork
<1>12. CASE StampStart(h) BY <1>12 DEF StampStart
<1>13. CASE ClearStamp(h) BY <1>13 DEF ClearStamp
<1>14. CASE ForceUpdated(h) BY <1>14 DEF ForceUpdated
<1>15. CASE StartTimer(h) BY <1>15 DEF StartTimer
<1>16. CASE StampTimer(h) BY <1>16 DEF StampTimer
<1>17. CASE StopTimer(h) BY <1>17 DEF StopTimer
<1>18. CASE ClearTimer(h) BY <1>18 DEF ClearTimer
<1>q. QED BY <1>1, <1>2, <1>3, <1>4, <1>5, <1>6, <1>7, <1>8, <1>9,
             <1>10, <1>11, <1>12, <1>13, <1>14, <1>15, <1>16, <1>17, <1>18 DEF Handler

LEMMA WriterNext == TypeInv /\ WriterInv /\ [Next]_vars => WriterInv'
<1> SUFFICES ASSUME TypeInv, WriterInv, [Next]_vars PROVE WriterInv'  OBVIOUS
<1>1. CASE Crash
  BY <1>1 DEF Crash, WriterInv, OneWriter, Writing, Stopping
<1>2. CASE UNCHANGED vars
  BY <1>2 DEF vars, properties, scheduler, locals, history, WriterInv, OneWriter, Writing, Stopping, Policy
<1>q. QED BY <1>1, <1>2, WriterBegin, WriterHandler DEF Next

-----------------------------------------------------------------------------
(* The timer is armed, or will be. *)

\* The handlers that will arm the timer, unless they fail or updates are closed.
Arms(h) ==
    \/ pc[h] \in {"check", "download", "cancel", "start", "startTimer"}
    \/ op[h] = "boot" /\ pc[h] = "begin"

\* After a boot task that no update overlaps, what it has read of the network type is true.
SoundBoot ==
    \A h \in Handlers :
        armSound /\ op[h] = "boot" =>
            /\ \A g \in Handlers : op[g] \notin NetworkType
            /\ pc[h] # "begin" => saw[h] = Policy

Armed == armSound /\ Policy # "close_update" /\ timer = "none" => \E h \in Handlers : Arms(h)

ArmInv == SoundBoot /\ Armed

LEMMA ArmBegin ==
    ASSUME TypeInv, WriterInv, ArmInv, NEW h \in Handlers,
           BeginQuery(h) \/ BeginUpdate(h) \/ BeginBoot(h) \/ BeginCommon(h)
    PROVE  ArmInv'
<1>u. USE DEF Begin, Active, Calls, TypeInv, Data, Placed, WriterInv, OneWriter, Writing, ArmInv, SoundBoot, Armed, Arms,
              Policy, properties
<1>1. CASE BeginQuery(h)  BY <1>1 DEF BeginQuery
<1>2. CASE BeginUpdate(h)  BY <1>2 DEF BeginUpdate
<1>3. CASE BeginBoot(h)  BY <1>3 DEF BeginBoot
<1>4. CASE BeginCommon(h)  BY <1>4 DEF BeginCommon
<1>q. QED BY <1>1, <1>2, <1>3, <1>4

LEMMA ArmHandler ==
    ASSUME TypeInv, WriterInv, ArmInv, NEW h \in Handlers, Handler(h)
    PROVE  ArmInv'
<1>u. USE DEF TypeInv, Data, Placed, Timing, WriterInv, OneWriter, Writing, Stopping, ArmInv, SoundBoot, Armed, Arms,
              GoTo, End, Checked, Policy, properties, scheduler, history
<1>1. CASE Query(h) BY <1>1 DEF Query
<1>2. CASE QueryType(h) BY <1>2 DEF QueryType
<1>3. CASE Boot(h) BY <1>3 DEF Boot
<1>4. CASE BootClosed(h) BY <1>4 DEF BootClosed
<1>5. CASE Common(h) BY <1>5 DEF Common
<1>6. CASE Update(h) BY <1>6 DEF Update
<1>7. CASE WriteNetworkType(h) BY <1>7 DEF WriteNetworkType
<1>8. CASE CheckNetwork(h) BY <1>8 DEF CheckNetwork
<1>9. CASE DownloadFiles(h) BY <1>9 DEF DownloadFiles
<1>10. CASE CancelWork(h) BY <1>10 DEF CancelWork
<1>11. CASE StartWork(h) BY <1>11 DEF StartWork
<1>12. CASE StampStart(h) BY <1>12 DEF StampStart
<1>13. CASE ClearStamp(h) BY <1>13 DEF ClearStamp
<1>14. CASE ForceUpdated(h) BY <1>14 DEF ForceUpdated
<1>15. CASE StartTimer(h) BY <1>15 DEF StartTimer
<1>16. CASE StampTimer(h) BY <1>16 DEF StampTimer
<1>17. CASE StopTimer(h) BY <1>17 DEF StopTimer
<1>18. CASE ClearTimer(h) BY <1>18 DEF ClearTimer
<1>q. QED BY <1>1, <1>2, <1>3, <1>4, <1>5, <1>6, <1>7, <1>8, <1>9,
             <1>10, <1>11, <1>12, <1>13, <1>14, <1>15, <1>16, <1>17, <1>18 DEF Handler

LEMMA ArmNext == TypeInv /\ WriterInv /\ ArmInv /\ [Next]_vars => ArmInv'
<1> SUFFICES ASSUME TypeInv, WriterInv, ArmInv, [Next]_vars PROVE ArmInv'  OBVIOUS
<1>1. CASE Crash
  BY <1>1 DEF Crash, TypeInv, Data, Placed, ArmInv, SoundBoot, Armed, Arms, Active, Calls, Policy, properties
<1>2. CASE UNCHANGED vars
  BY <1>2 DEF vars, properties, scheduler, locals, history, ArmInv, SoundBoot, Armed, Arms, Policy
<1>q. QED BY <1>1, <1>2, ArmBegin, ArmHandler DEF Next

\* Once a boot task that no UpdateDownloadNetworkType() overlapped has armed the timer, and as
\* long as no call of the scheduler and no process fails, it is armed whenever nothing runs,
\* unless updates are closed.
THEOREM TimerArmed == Spec => []ArmedUnlessClosed
<1>1. Init => ArmInv
  BY DEF Init, LocalsInit, ArmInv, SoundBoot, Armed, Arms
<1>2. TypeInv /\ ArmInv => ArmedUnlessClosed
  BY DEF TypeInv, Data, Placed, ArmInv, SoundBoot, Armed, Arms, ArmedUnlessClosed, Quiet
<1>q. QED BY TypeInit, TypeNext, WriterInit, WriterNext, <1>1, ArmNext, <1>2, PTL DEF Spec

-----------------------------------------------------------------------------
(* One handler at a time. *)

\* A handler that begins while no two have overlapped is the only one.
LEMMA First ==
    ASSUME TypeInv, NEW h \in Handlers,
           BeginQuery(h) \/ BeginUpdate(h) \/ BeginBoot(h) \/ BeginCommon(h)
    PROVE  /\ ~overlapped' => ~overlapped /\ \A g \in Handlers : op[g] = "none"
           /\ \A g \in Handlers \ {h} : op'[g] = op[g] /\ pc'[g] = pc[g]
           /\ op'[h] \in Calls /\ pc'[h] = "begin"
           /\ timer' = timer /\ stamped' = stamped /\ crashed' = crashed /\ faulted' = faulted
           /\ Policy' = Policy
           /\ op'[h] = "common" => timer # "none"
<1>1. PICK call \in Calls : Begin(h, call) /\ (call = "common" => timer # "none")
  BY DEF BeginQuery, BeginUpdate, BeginBoot, BeginCommon, Calls
<1>2. ~overlapped' => ~overlapped /\ ~Active(Calls)
  BY <1>1 DEF Begin
<1>3. ~Active(Calls) => \A g \in Handlers : op[g] = "none"
  BY DEF Active, Calls, TypeInv, Data
<1>q. QED BY <1>1, <1>2, <1>3 DEF Begin, TypeInv, Data, properties, Policy

Alone == \A g, h \in Handlers : ~overlapped /\ op[g] # "none" /\ op[h] # "none" => g = h

\* A handler that runs alone has read the network type that still holds, and starts no timer
\* while updates are closed, but for a boot task that will stop it.
Faithful ==
    \A h \in Handlers : ~overlapped /\ ~crashed /\ ~faulted =>
        /\ op[h] = "boot" /\ pc[h] # "begin" => saw[h] = Policy
        /\ op[h] = "common" \/ pc[h] \in {"startTimer", "stampTimer"} => Policy # "close_update"

Disarmed ==
    ~overlapped /\ ~crashed /\ ~faulted /\ Policy = "close_update" /\ timer # "none" =>
        \E h \in Handlers :
            \/ pc[h] = "stopTimer"
            \/ op[h] = "boot" /\ pc[h] \in {"force"} \cup Timing

CloseInv == Alone /\ Faithful /\ Disarmed

LEMMA CloseBegin ==
    ASSUME TypeInv, WriterInv, CloseInv, NEW h \in Handlers,
           BeginQuery(h) \/ BeginUpdate(h) \/ BeginBoot(h) \/ BeginCommon(h)
    PROVE  CloseInv'
BY First DEF CloseInv, Alone, Faithful, Disarmed, Timing, Calls, TypeInv, Data, Placed

LEMMA CloseHandler ==
    ASSUME TypeInv, WriterInv, CloseInv, NEW h \in Handlers, Handler(h)
    PROVE  CloseInv'
<1>u. USE DEF TypeInv, Data, Placed, Timing, WriterInv, OneWriter, Writing, Stopping, CloseInv, Alone, Faithful, Disarmed, Timing,
              GoTo, End, Checked, Policy, properties, scheduler, history
<1>1. CASE Query(h) BY <1>1 DEF Query
<1>2. CASE QueryType(h) BY <1>2 DEF QueryType
<1>3. CASE Boot(h) BY <1>3 DEF Boot
<1>4. CASE BootClosed(h) BY <1>4 DEF BootClosed
<1>5. CASE Common(h) BY <1>5 DEF Common
<1>6. CASE Update(h) BY <1>6 DEF Update
<1>7. CASE WriteNetworkType(h) BY <1>7 DEF WriteNetworkType
<1>8. CASE CheckNetwork(h) BY <1>8 DEF CheckNetwork
<1>9. CASE DownloadFiles(h) BY <1>9 DEF DownloadFiles
<1>10. CASE CancelWork(h) BY <1>10 DEF CancelWork
<1>11. CASE StartWork(h) BY <1>11 DEF StartWork
<1>12. CASE StampStart(h) BY <1>12 DEF StampStart
<1>13. CASE ClearStamp(h) BY <1>13 DEF ClearStamp
<1>14. CASE ForceUpdated(h) BY <1>14 DEF ForceUpdated
<1>15. CASE StartTimer(h) BY <1>15 DEF StartTimer
<1>16. CASE StampTimer(h) BY <1>16 DEF StampTimer
<1>17. CASE StopTimer(h) BY <1>17 DEF StopTimer
<1>18. CASE ClearTimer(h) BY <1>18 DEF ClearTimer
<1>q. QED BY <1>1, <1>2, <1>3, <1>4, <1>5, <1>6, <1>7, <1>8, <1>9,
             <1>10, <1>11, <1>12, <1>13, <1>14, <1>15, <1>16, <1>17, <1>18 DEF Handler

LEMMA CloseNext == TypeInv /\ WriterInv /\ CloseInv /\ [Next]_vars => CloseInv'
<1> SUFFICES ASSUME TypeInv, WriterInv, CloseInv, [Next]_vars PROVE CloseInv'  OBVIOUS
<1>1. CASE Crash
  BY <1>1 DEF Crash, TypeInv, Data, Placed, CloseInv, Alone, Faithful, Disarmed, Timing, Active, Calls, Policy, properties
<1>2. CASE UNCHANGED vars
  BY <1>2 DEF vars, properties, scheduler, locals, history, CloseInv, Alone, Faithful, Disarmed, Timing, Policy
<1>q. QED BY <1>1, <1>2, CloseBegin, CloseHandler DEF Next

\* When one handler runs at a time and neither the scheduler nor the process fails, no update
\* is scheduled once updates are closed: UpdateDownloadNetworkType() and the boot task stop
\* the timer that other handlers start.
THEOREM TimerDisarmed == Spec => []ClosedMeansDisarmed
<1>1. Init => CloseInv
  BY DEF Init, LocalsInit, CloseInv, Alone, Faithful, Disarmed, Timing
<1>2. TypeInv /\ CloseInv => ClosedMeansDisarmed
  BY DEF TypeInv, Data, Placed, CloseInv, Alone, Faithful, Disarmed, Timing, ClosedMeansDisarmed, Quiet
<1>q. QED BY TypeInit, TypeNext, WriterInit, WriterNext, <1>1, CloseNext, <1>2, PTL DEF Spec

-----------------------------------------------------------------------------
(* The start time. *)

\* A handler that runs alone sets the start time of a timer that is there.
Stamped ==
    \A h \in Handlers : ~overlapped /\ ~crashed =>
        (pc[h] \in {"stamp", "stampTimer"} => timer # "none")

\* A start time with no timer is about to be cleared, or to become true.
Visible ==
    ~overlapped /\ ~crashed /\ stamped /\ timer = "none" =>
        \E h \in Handlers : pc[h] \in {"start", "clear", "clearTimer"}

StampInv == Alone /\ Stamped /\ Visible

LEMMA StampBegin ==
    ASSUME TypeInv, WriterInv, StampInv, NEW h \in Handlers,
           BeginQuery(h) \/ BeginUpdate(h) \/ BeginBoot(h) \/ BeginCommon(h)
    PROVE  StampInv'
BY First DEF StampInv, Alone, Stamped, Visible, Calls, TypeInv, Data, Placed

LEMMA StampHandler ==
    ASSUME TypeInv, WriterInv, StampInv, NEW h \in Handlers, Handler(h)
    PROVE  StampInv'
<1>u. USE DEF TypeInv, Data, Placed, Timing, WriterInv, OneWriter, Writing, Stopping, StampInv, Alone, Stamped, Visible,
              GoTo, End, Checked, Policy, properties, scheduler, history
<1>1. CASE Query(h) BY <1>1 DEF Query
<1>2. CASE QueryType(h) BY <1>2 DEF QueryType
<1>3. CASE Boot(h) BY <1>3 DEF Boot
<1>4. CASE BootClosed(h) BY <1>4 DEF BootClosed
<1>5. CASE Common(h) BY <1>5 DEF Common
<1>6. CASE Update(h) BY <1>6 DEF Update
<1>7. CASE WriteNetworkType(h) BY <1>7 DEF WriteNetworkType
<1>8. CASE CheckNetwork(h) BY <1>8 DEF CheckNetwork
<1>9. CASE DownloadFiles(h) BY <1>9 DEF DownloadFiles
<1>10. CASE CancelWork(h) BY <1>10 DEF CancelWork
<1>11. CASE StartWork(h) BY <1>11 DEF StartWork
<1>12. CASE StampStart(h) BY <1>12 DEF StampStart
<1>13. CASE ClearStamp(h) BY <1>13 DEF ClearStamp
<1>14. CASE ForceUpdated(h) BY <1>14 DEF ForceUpdated
<1>15. CASE StartTimer(h) BY <1>15 DEF StartTimer
<1>16. CASE StampTimer(h) BY <1>16 DEF StampTimer
<1>17. CASE StopTimer(h) BY <1>17 DEF StopTimer
<1>18. CASE ClearTimer(h) BY <1>18 DEF ClearTimer
<1>q. QED BY <1>1, <1>2, <1>3, <1>4, <1>5, <1>6, <1>7, <1>8, <1>9,
             <1>10, <1>11, <1>12, <1>13, <1>14, <1>15, <1>16, <1>17, <1>18 DEF Handler

LEMMA StampNext == TypeInv /\ WriterInv /\ StampInv /\ [Next]_vars => StampInv'
<1> SUFFICES ASSUME TypeInv, WriterInv, StampInv, [Next]_vars PROVE StampInv'  OBVIOUS
<1>1. CASE Crash
  BY <1>1 DEF Crash, TypeInv, Data, Placed, StampInv, Alone, Stamped, Visible, Active, Calls, Policy, properties
<1>2. CASE UNCHANGED vars
  BY <1>2 DEF vars, properties, scheduler, locals, history, StampInv, Alone, Stamped, Visible, Policy
<1>q. QED BY <1>1, <1>2, StampBegin, StampHandler DEF Next

\* When one handler runs at a time and the process does not die, a timer that the scheduler
\* refused to start shows as an empty start time, which the next Query() repairs.
THEOREM LossVisible == Spec => []LossIsVisible
<1>1. Init => StampInv
  BY DEF Init, LocalsInit, StampInv, Alone, Stamped, Visible
<1>2. TypeInv /\ StampInv => LossIsVisible
  BY DEF TypeInv, Data, Placed, StampInv, Alone, Stamped, Visible, LossIsVisible, Quiet
<1>q. QED BY TypeInit, TypeNext, WriterInit, WriterNext, <1>1, StampNext, <1>2, PTL DEF Spec
=============================================================================
