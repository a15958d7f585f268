-------------------------- MODULE ReportLoopProofs --------------------------
(***************************************************************************)
(* What holds of the report loop for every settle count, every kind of     *)
(* build, every silence and any number of resets.  Type correctness is     *)
(* shown component by component, and the safety invariants rest on it.     *)
(***************************************************************************)
EXTENDS ReportLoop, TLAPS

(* Main thread, workqueue, settle count, silence: a step keeps their types *)
(* and the settle count saturates at its threshold (main.c:309-336).       *)
LEMMA LoopStep ==
  ASSUME LoopTypeOK, WakeTypeOK, [Next]_vars
  PROVE  LoopTypeOK'
<1> USE LoopAssumption DEF LoopTypeOK, Label, Signalling, WakeReason, Goto,
        loop_vars, silence_vars
<1>1. CASE Startup
  BY <1>1 DEF Startup, ModemInitFails, GnssInitFails, BootDone,
     WatchdogReset, Restart
<1>2. CASE WakeTop \/ RecoverIdle
  BY <1>2 DEF WakeTop, RecoverIdle
<1>3. CASE RecoverReboot
  BY <1>3 DEF RecoverReboot, Restart
<1>4. CASE RecoverWait
  BY <1>4 DEF RecoverWait
<1>5. CASE RecoverBounce
  BY <1>5 DEF RecoverBounce
<1>6. CASE \/ LteConnected \/ LteFails \/ CloudResume \/ StatusLedReport
           \/ GnssStarted \/ GnssStartFails \/ Acquire
  BY <1>6 DEF LteConnected, LteFails, CloudResume, StatusLedReport,
     GnssStarted, GnssStartFails, Acquire, AfterFix
<1>7. CASE SendOk \/ SendStale \/ SendFails \/ Retry
  BY <1>7 DEF SendOk, SendStale, SendFails, Retry
<1>8. CASE CheckFrequent \/ IntervalEnds
  BY <1>8 DEF CheckFrequent, IntervalEnds, AfterFix
<1>9. CASE FrequentTop
  <2>1. /\ battery_sleeps' \in {0, battery_sleeps}
        /\ pc' = "interval"
        /\ UNCHANGED <<wq, wake_reason, silence_vars, resets>>
    BY <1>9, Zenon DEF FrequentTop
  <2> QED BY <2>1
<1>10. CASE StopAndPause \/ BatterySleep \/ WaitStarts
  BY <1>10 DEF StopAndPause, BatterySleep, WaitStarts
<1>11. CASE WakeOnTimer \/ WakeEarly
  BY <1>11 DEF WakeOnTimer, WakeEarly, WakeTypeOK
<1>12. CASE Workqueue
  BY <1>12 DEF Workqueue, VbusDetected, VbusRemoved, Jolt, Give,
     RemovedAsWell
<1>13. CASE Surroundings
  BY <1>13 DEF Surroundings, Cable, CarSettles, Silence, SessionLost, Reset,
     Restart
<1>14. CASE UNCHANGED vars
  BY <1>14 DEF vars
<1> QED
  BY <1>1, <1>2, <1>3, <1>4, <1>5, <1>6, <1>7, <1>8, <1>9, <1>10, <1>11,
     <1>12, <1>13, <1>14 DEF Next, Cycle

(* The wake semaphore and its reason keep their types (wake.c:15-38). *)
LEMMA WakeStep ==
  ASSUME WakeTypeOK, [Next]_vars
  PROVE  WakeTypeOK'
<1> USE DEF WakeTypeOK, WakeReason, wake_vars, devices
<1>1. CASE Startup
  BY <1>1 DEF Startup, ModemInitFails, GnssInitFails, BootDone,
     WatchdogReset, Restart, WakeRestart
<1>2. CASE Cycle
  BY <1>2 DEF Cycle, WakeTop, RecoverIdle, RecoverReboot, RecoverWait,
     RecoverBounce, LteConnected, LteFails, CloudResume, StatusLedReport,
     GnssStarted, GnssStartFails, Acquire, SendOk, SendStale, SendFails,
     Retry, CheckFrequent, FrequentTop, IntervalEnds, StopAndPause,
     BatterySleep, WaitStarts, WakeOnTimer, WakeEarly, Restart,
     WakeRestart, WaitBegin, WaitTimesOut, WaitTaken
<1>3. CASE Workqueue
  BY <1>3 DEF Workqueue, VbusDetected, VbusRemoved, Jolt, Give,
     RemovedAsWell, SignalStore, SignalGive
<1>4. CASE Surroundings
  BY <1>4 DEF Surroundings, Cable, CarSettles, Silence, SessionLost, Reset,
     Restart, WakeRestart
<1>5. CASE UNCHANGED vars
  BY <1>5 DEF vars
<1> QED BY <1>1, <1>2, <1>3, <1>4, <1>5 DEF Next

(* The sensor's state keeps its types: arming and disarming, jolts and     *)
(* lapses of the surge window (motion.c:63-180).                           *)
LEMMA MotionStep ==
  ASSUME MotionTypeOK, [Next]_vars
  PROVE  MotionTypeOK'
<1> USE DEF MotionTypeOK, motion_vars, devices
<1>1. ASSUME NEW arm \in BOOLEAN, SetArmed(arm) PROVE MotionTypeOK'
  BY <1>1, Zenon DEF SetArmed
<1>2. ASSUME MotionStart PROVE MotionTypeOK'
  BY <1>2, MotionAssumption, Zenon DEF MotionStart
<1>3. CASE Startup
  <2>1. CASE ModemInitFails
    BY <2>1 DEF ModemInitFails
  <2>2. CASE GnssInitFails \/ BootDone
    BY <2>2, <1>2 DEF GnssInitFails, BootDone
  <2>3. CASE WatchdogReset
    BY <2>3 DEF WatchdogReset, Restart, MotionRestart
  <2> QED BY <1>3, <2>1, <2>2, <2>3 DEF Startup
<1>4. CASE Cycle /\ ~FrequentTop /\ ~BatterySleep
  BY <1>4 DEF Cycle, WakeTop, RecoverIdle, RecoverReboot, RecoverWait,
     RecoverBounce, LteConnected, LteFails, CloudResume, StatusLedReport,
     GnssStarted, GnssStartFails, Acquire, SendOk, SendStale, SendFails,
     Retry, CheckFrequent, IntervalEnds, StopAndPause,
     WaitStarts, WakeOnTimer, WakeEarly, Restart, MotionRestart
<1>5. CASE FrequentTop
  <2>1. SetArmed(FALSE) \/ UNCHANGED motion_vars
    BY <1>5, Zenon DEF FrequentTop
  <2> QED BY <2>1, <1>1
<1>6. CASE BatterySleep
  <2> DEFINE arm == battery_sleeps >= SETTLE_CYCLES
  <2>1. arm \in BOOLEAN OBVIOUS
  <2>2. SetArmed(arm) BY <1>6 DEF BatterySleep
  <2> QED BY <2>1, <2>2, <1>1
<1>7. CASE Workqueue
  BY <1>7 DEF Workqueue, VbusDetected, VbusRemoved, Jolt, Give,
     RemovedAsWell, NoteJolt
<1>8. CASE Surroundings
  BY <1>8 DEF Surroundings, Cable, CarSettles, SurgeLapses, Silence,
     SessionLost, Reset, Restart, MotionRestart
<1>9. CASE UNCHANGED vars
  BY <1>9 DEF vars
<1> QED
  BY <1>3, <1>4, <1>5, <1>6, <1>7, <1>8, <1>9 DEF Next

(* The power cache and the events that wait for it keep their types        *)
(* (power.c:39-110).                                                       *)
LEMMA PowerStep ==
  ASSUME PowerTypeOK, [Next]_vars
  PROVE  PowerTypeOK'
<1> USE DEF PowerTypeOK, power_vars, Edge, devices
<1>1. ASSUME NEW present, Sample(present) PROVE PowerTypeOK'
  BY <1>1, Zenon DEF Sample, Readings
<1>2. ASSUME Restart PROVE PowerTypeOK'
  BY <1>2 DEF Restart, PowerRestart
<1>3. CASE Startup
  BY <1>3, <1>1, <1>2 DEF Startup, ModemInitFails, GnssInitFails, BootDone,
     WatchdogReset
<1>4. CASE StatusLedReport \/ CheckFrequent \/ FrequentTop
  BY <1>4, <1>1, Zenon DEF StatusLedReport, CheckFrequent, FrequentTop
<1>5. CASE Cycle /\ ~(StatusLedReport \/ CheckFrequent \/ FrequentTop)
  BY <1>5, <1>2 DEF Cycle, WakeTop, RecoverIdle, RecoverReboot, RecoverWait,
     RecoverBounce, LteConnected, LteFails, CloudResume,
     GnssStarted, GnssStartFails, Acquire, SendOk, SendStale, SendFails,
     Retry, IntervalEnds, StopAndPause, BatterySleep, WaitStarts,
     WakeOnTimer, WakeEarly
<1>6. CASE Workqueue
  <2>1. ASSUME TakeEdges PROVE PowerTypeOK'
    <3> DEFINE came == "detected" \in events
    <3>1. came \in BOOLEAN OBVIOUS
    <3>2. vbus_connected' = came /\ vbus' = vbus /\ events' = {}
      BY <2>1 DEF TakeEdges
    <3> HIDE DEF came
    <3> QED BY <3>1, <3>2
  <2> QED
    BY <1>6, <2>1 DEF Workqueue, VbusDetected, VbusRemoved, Jolt, Give,
       RemovedAsWell, ClearConnected
<1>7. CASE Surroundings
  BY <1>7, <1>2 DEF Surroundings, Cable, Plug, Unplug, CarSettles, Silence,
     SessionLost, Reset
<1>8. CASE UNCHANGED vars
  BY <1>8 DEF vars
<1> QED BY <1>3, <1>4, <1>5, <1>6, <1>7, <1>8 DEF Next

(* The session state keeps its types, on the device and at the server      *)
(* (cloud_nrf.c:40-224).                                                   *)
LEMMA CloudStep ==
  ASSUME CloudTypeOK, [Next]_vars
  PROVE  CloudTypeOK'
<1> USE DEF CloudTypeOK, cloud_vars, devices
<1>1. ASSUME NEW ok \in BOOLEAN, Resume(ok) PROVE CloudTypeOK'
  BY <1>1, Zenon DEF Resume, ResumeSaved, Handshake
<1>2. CASE Startup
  BY <1>2 DEF Startup, ModemInitFails, GnssInitFails, BootDone, CloudStart,
     WatchdogReset, Restart, CloudRestart
<1>3. CASE CloudResume \/ Retry
  BY <1>3, <1>1, Zenon DEF CloudResume, Retry
<1>4. CASE Cycle /\ ~CloudResume /\ ~Retry
  BY <1>4 DEF Cycle, WakeTop, RecoverIdle, RecoverReboot, RecoverWait,
     RecoverBounce, LteConnected, LteFails, StatusLedReport,
     GnssStarted, GnssStartFails, Acquire, SendOk, SendStale, SendFails,
     CheckFrequent, FrequentTop, IntervalEnds, StopAndPause, BatterySleep,
     WaitStarts, WakeOnTimer, WakeEarly, Restart, CloudRestart, Pause
<1>5. CASE Workqueue
  BY <1>5 DEF Workqueue, VbusDetected, VbusRemoved, Jolt, Give,
     RemovedAsWell
<1>6. CASE Surroundings
  BY <1>6 DEF Surroundings, Cable, CarSettles, Silence, SessionLost,
     SessionDies, Reset, Restart, CloudRestart
<1>7. CASE UNCHANGED vars
  BY <1>7 DEF vars
<1> QED BY <1>2, <1>3, <1>4, <1>5, <1>6, <1>7 DEF Next

(* modem_bounced stays a Boolean; apart from the others, because the       *)
(* numbers and the Booleans are for different provers (main.c:45).         *)
LEMMA BouncedStep ==
  ASSUME modem_bounced \in BOOLEAN, [Next]_vars
  PROVE  modem_bounced' \in BOOLEAN
<1> USE DEF silence_vars
<1>1. CASE Startup
  BY <1>1 DEF Startup, ModemInitFails, GnssInitFails, BootDone,
     WatchdogReset, Restart
<1>2. CASE Cycle
  BY <1>2 DEF Cycle, WakeTop, RecoverIdle, RecoverReboot, RecoverWait,
     RecoverBounce, LteConnected, LteFails, CloudResume, StatusLedReport,
     GnssStarted, GnssStartFails, Acquire, SendOk, SendStale, SendFails,
     Retry, CheckFrequent, FrequentTop, IntervalEnds, StopAndPause,
     BatterySleep, WaitStarts, WakeOnTimer, WakeEarly, Restart
<1>3. CASE Workqueue
  BY <1>3 DEF Workqueue, VbusDetected, VbusRemoved, Jolt, Give,
     RemovedAsWell
<1>4. CASE Surroundings
  BY <1>4 DEF Surroundings, Cable, CarSettles, Silence, SessionLost, Reset,
     Restart
<1>5. CASE UNCHANGED vars
  BY <1>5 DEF vars
<1> QED BY <1>1, <1>2, <1>3, <1>4, <1>5 DEF Next

(* Every variable keeps its type. *)
THEOREM TypeCorrect == Spec => []TypeOK
<1>1. Init => TypeOK
  <2> SUFFICES ASSUME Init PROVE TypeOK
    OBVIOUS
  <2>1. LoopTypeOK
    BY LoopAssumption DEF Init, LoopTypeOK, Label, Signalling, WakeReason
  <2>2. WakeTypeOK /\ MotionTypeOK /\ CloudTypeOK
    BY DEF Init, WakeInit, WakeTypeOK, WakeReason, MotionInit, MotionTypeOK,
       CloudInit, CloudTypeOK
  <2>3. PowerTypeOK /\ modem_bounced \in BOOLEAN
    BY DEF Init, PowerInit, PowerTypeOK
  <2> QED BY <2>1, <2>2, <2>3 DEF TypeOK
<1>2. TypeOK /\ [Next]_vars => TypeOK'
  BY LoopStep, WakeStep, MotionStep, PowerStep, CloudStep, BouncedStep
     DEF TypeOK
<1> QED BY <1>1, <1>2, PTL DEF Spec

-----------------------------------------------------------------------------
(* No wake is lost: a reason stored while the tracker sleeps has been      *)
(* given, or is about to be (wake.c:18-37).  The invariant is inductive as *)
(* it stands: only SignalStore makes its premise true while asleep, and it *)
(* leaves the callback about to give.                                      *)
THEOREM WakesArrive == Spec => []NoLostWake
<1>1. Init => NoLostWake
  BY DEF Init, NoLostWake
<1>2. TypeOK /\ NoLostWake /\ [Next]_vars => NoLostWake'
  <2> SUFFICES ASSUME TypeOK, NoLostWake, [Next]_vars PROVE NoLostWake'
    OBVIOUS
  <2> USE DEF NoLostWake, Signalling, Goto, wake_vars, devices
  <2>1. CASE Startup
    BY <2>1 DEF Startup, ModemInitFails, GnssInitFails, BootDone,
       WatchdogReset, Restart
  <2>2. CASE WaitStarts
    BY <2>2 DEF WaitStarts, WaitBegin
  <2>3. CASE Cycle /\ ~WaitStarts
    <3>1. pc' # "asleep"
      BY <2>3 DEF Cycle, WakeTop, RecoverIdle, RecoverReboot, RecoverWait,
         RecoverBounce, LteConnected, LteFails, CloudResume,
         StatusLedReport, GnssStarted, GnssStartFails, Acquire, AfterFix,
         SendOk, SendStale, SendFails, Retry, CheckFrequent, FrequentTop,
         IntervalEnds, StopAndPause, BatterySleep, WakeOnTimer, WakeEarly,
         Restart
    <3> QED BY <3>1
  <2>4. CASE VbusDetected \/ Jolt
    BY <2>4 DEF VbusDetected, Jolt
  <2>5. CASE VbusRemoved \/ Give \/ RemovedAsWell
    BY <2>5 DEF VbusRemoved, Give, RemovedAsWell, SignalGive
  <2>6. CASE Surroundings
    BY <2>6 DEF Surroundings, Cable, CarSettles, Silence, SessionLost, Reset,
       Restart
  <2>7. CASE UNCHANGED vars
    BY <2>7 DEF vars
  <2> QED
    BY <2>1, <2>2, <2>3, <2>4, <2>5, <2>6, <2>7 DEF Next, Workqueue
<1> QED BY <1>1, <1>2, TypeCorrect, PTL DEF Spec

-----------------------------------------------------------------------------
(* A silence is met with at most one modem restart.  What makes it         *)
(* inductive: a restart happened only in a silence that has not ended, and *)
(* as long as it has not, the flag stands (main.c:274-307, 247).           *)
BounceInv ==
  /\ bounces \in {0, 1}
  /\ quiet = 0 => bounces = 0
  /\ ~modem_bounced => bounces = 0

(* One silence, one modem restart, over any number of failed cycles        *)
(* (main.c:274-307).                                                       *)
THEOREM OneBouncePerSilence == Spec => []BounceOncePerSilence
<1>1. Init => BounceInv
  BY DEF Init, BounceInv
<1>2. TypeOK /\ BounceInv /\ [Next]_vars => BounceInv'
  <2> SUFFICES ASSUME TypeOK, BounceInv, [Next]_vars PROVE BounceInv'
    OBVIOUS
  <2> USE DEF BounceInv, silence_vars, TypeOK, LoopTypeOK
  <2>1. CASE Startup
    BY <2>1 DEF Startup, ModemInitFails, GnssInitFails, BootDone,
       WatchdogReset, Restart
  <2>2. CASE RecoverBounce
    BY <2>2 DEF RecoverBounce
  <2>3. CASE RecoverIdle \/ SendOk
    BY <2>3 DEF RecoverIdle, SendOk
  <2>4. CASE RecoverReboot
    BY <2>4 DEF RecoverReboot, Restart
  <2>5. CASE Cycle /\ ~(RecoverBounce \/ RecoverIdle \/ RecoverReboot
                         \/ SendOk)
    <3>1. UNCHANGED silence_vars
      BY <2>5 DEF Cycle, WakeTop, RecoverWait, LteConnected, LteFails,
         CloudResume, StatusLedReport, GnssStarted, GnssStartFails, Acquire,
         SendStale, SendFails, Retry, CheckFrequent, FrequentTop,
         IntervalEnds, StopAndPause, BatterySleep, WaitStarts, WakeOnTimer,
         WakeEarly
    <3> QED BY <3>1
  <2>6. CASE Workqueue
    BY <2>6 DEF Workqueue, VbusDetected, VbusRemoved, Jolt, Give,
       RemovedAsWell
  <2>7. CASE Silence
    BY <2>7 DEF Silence
  <2>8. CASE Cable \/ CarSettles \/ SessionLost \/ Reset
    BY <2>8 DEF Cable, CarSettles, SessionLost, Reset, Restart
  <2>9. CASE UNCHANGED vars
    BY <2>9 DEF vars
  <2> QED
    BY <2>1, <2>2, <2>3, <2>4, <2>5, <2>6, <2>7, <2>8, <2>9
       DEF Next, Surroundings
<1>3. BounceInv => BounceOncePerSilence
  BY DEF BounceInv, BounceOncePerSilence
<1> QED BY <1>1, <1>2, <1>3, TypeCorrect, PTL DEF Spec

-----------------------------------------------------------------------------
(* No report is sent into a session that is put away.  Inductive with: a   *)
(* device without credentials never opened one, and a boot starts without  *)
(* (cloud_nrf.c:131-199).                                                  *)
SessionInv ==
  NRF_CLOUD =>
    /\ pc \in InSession => link_state # "paused"
    /\ ~creds_ok => link_state = "disconnected"
    /\ pc \in {"boot", "dead", "halted"} => link_state = "disconnected"

(* No path of the cycle, a failed resume or retry included, leaves it put  *)
(* away (main.c:435-593).                                                  *)
LEMMA SessionInvariant == Spec => []SessionInv
<1>1. Init => SessionInv
  BY DEF Init, SessionInv, InSession, CloudInit
<1>2. TypeOK /\ SessionInv /\ [Next]_vars => SessionInv'
  <2> SUFFICES ASSUME TypeOK, SessionInv, [Next]_vars, NRF_CLOUD
               PROVE  SessionInv'
    BY DEF SessionInv
  <2> USE DEF SessionInv, InSession, Goto, cloud_vars, devices
  <2>1. ASSUME Restart PROVE SessionInv'
    BY <2>1 DEF Restart, CloudRestart
  <2>2. CASE Startup
    BY <2>1, <2>2 DEF Startup, ModemInitFails, GnssInitFails, BootDone,
       WatchdogReset, CloudStart
  <2>3. CASE CloudResume \/ Retry
    <3>1. /\ link_state' # "paused"
          /\ ~creds_ok => link_state' = "disconnected"
          /\ creds_ok' = creds_ok
      <4>1. PICK ok \in BOOLEAN : Resume(ok)
        BY <2>3 DEF CloudResume, Retry
      <4> QED
        BY <4>1, CloudAssumption DEF Resume, ResumeSaved, Handshake, TypeOK,
           CloudTypeOK
    <3>2. pc' \notin {"boot", "dead", "halted"}
      BY <2>3 DEF CloudResume, Retry
    <3> QED BY <3>1, <3>2
  <2>4. CASE GnssStartFails \/ StopAndPause
    BY <2>4 DEF GnssStartFails, StopAndPause, Pause
  <2>5. CASE WakeTop \/ RecoverIdle \/ RecoverReboot \/ RecoverWait
             \/ RecoverBounce \/ LteConnected \/ LteFails
    BY <2>5, <2>1 DEF WakeTop, RecoverIdle, RecoverReboot, RecoverWait,
       RecoverBounce, LteConnected, LteFails
  <2>6. CASE StatusLedReport \/ GnssStarted \/ Acquire \/ SendOk
             \/ SendStale \/ SendFails
    BY <2>6 DEF StatusLedReport, GnssStarted, Acquire, AfterFix, SendOk,
       SendStale, SendFails
  <2>7. CASE CheckFrequent \/ FrequentTop \/ IntervalEnds
    BY <2>7 DEF CheckFrequent, FrequentTop, IntervalEnds, AfterFix
  <2>8. CASE BatterySleep \/ WaitStarts \/ WakeOnTimer \/ WakeEarly
    BY <2>8 DEF BatterySleep, WaitStarts, WakeOnTimer, WakeEarly
  <2>9. CASE Workqueue
    BY <2>9 DEF Workqueue, VbusDetected, VbusRemoved, Jolt, Give,
       RemovedAsWell
  <2>10. CASE Surroundings
    BY <2>10, <2>1 DEF Surroundings, Cable, CarSettles, Silence,
       SessionLost, SessionDies, Reset
  <2>11. CASE UNCHANGED vars
    BY <2>11 DEF vars
  <2> QED
    BY <2>2, <2>3, <2>4, <2>5, <2>6, <2>7, <2>8, <2>9, <2>10, <2>11
       DEF Next, Cycle
<1> QED BY <1>1, <1>2, TypeCorrect, PTL DEF Spec

(* Every send of a cycle has a session that was resumed or opened in it    *)
(* (main.c:442-455, cloud_nrf.c:150-224).                                  *)
THEOREM SessionsResumed == Spec => []NeverSendPaused
<1>1. SessionInv => NeverSendPaused
  BY DEF SessionInv, NeverSendPaused
<1> QED BY <1>1, SessionInvariant, PTL

-----------------------------------------------------------------------------
(* The flag tells the truth about the sensor, whatever calls are rejected: *)
(* main sets it only after the driver has obeyed (motion.c:164-180).       *)
FlagInv == armed = watching

(* The two change together, or not at all.                                 *)
LEMMA FlagTells == Spec => []FlagInv
<1>1. Init => FlagInv
  BY DEF Init, MotionInit, FlagInv
<1>2. FlagInv /\ [Next]_vars => FlagInv'
  <2> SUFFICES ASSUME FlagInv, [Next]_vars PROVE FlagInv'
    OBVIOUS
  <2> USE DEF FlagInv, motion_vars, devices
  <2>1. ASSUME Restart PROVE FlagInv'
    BY <2>1 DEF Restart, MotionRestart
  <2>2. CASE Startup
    BY <2>1, <2>2 DEF Startup, ModemInitFails, GnssInitFails, BootDone,
       WatchdogReset, MotionStart
  <2>3. ASSUME NEW arm, SetArmed(arm) PROVE FlagInv'
    BY <2>3, Zenon DEF SetArmed
  <2>4. CASE FrequentTop
    <3>1. SetArmed(FALSE) \/ UNCHANGED motion_vars
      BY <2>4, Zenon DEF FrequentTop
    <3> QED BY <3>1, <2>3
  <2>5. CASE BatterySleep
    <3>1. SetArmed(battery_sleeps >= SETTLE_CYCLES)
      BY <2>5 DEF BatterySleep
    <3> QED BY <3>1, <2>3
  <2>6. CASE RecoverReboot
    BY <2>6, <2>1 DEF RecoverReboot
  <2>7. CASE Cycle /\ ~(FrequentTop \/ BatterySleep \/ RecoverReboot)
    <3>1. UNCHANGED motion_vars
      BY <2>7 DEF Cycle, WakeTop, RecoverIdle, RecoverWait, RecoverBounce,
         LteConnected, LteFails, CloudResume, StatusLedReport, GnssStarted,
         GnssStartFails, Acquire, SendOk, SendStale, SendFails, Retry,
         CheckFrequent, IntervalEnds, StopAndPause, WaitStarts, WakeOnTimer,
         WakeEarly
    <3> QED BY <3>1
  <2>8. CASE Workqueue
    BY <2>8 DEF Workqueue, VbusDetected, VbusRemoved, Jolt, NoteJolt, Give,
       RemovedAsWell
  <2>9. CASE Surroundings
    BY <2>9, <2>1 DEF Surroundings, Cable, CarSettles, SurgeLapses, Silence,
       SessionLost, Reset
  <2>10. CASE UNCHANGED vars
    BY <2>10 DEF vars
  <2> QED
    BY <2>2, <2>4, <2>5, <2>6, <2>7, <2>8, <2>9, <2>10 DEF Next
<1> QED BY <1>1, <1>2, PTL DEF Spec

-----------------------------------------------------------------------------
(* Getting out of the car starts no motion cycle (main.c:309-336).  It     *)
(* takes a sensor that obeys: motion_set_armed(false) that fails leaves    *)
(* the interrupt on.  Inductive with: only a usable sensor is ever armed,  *)
(* and a sleep with an armed sensor has the settle count full.             *)
GraceInv ==
  /\ armed => usable
  /\ pc \in {"boot", "dead"} => ~armed
  /\ pc \in {"wait", "asleep"} /\ armed => battery_sleeps = SETTLE_CYCLES
  /\ pc = "asleep" /\ pending = "motion" => armed

(* With a sensor that obeys, no motion wakes the tracker during the        *)
(* settle sleeps (main.c:309-336).                                         *)
THEOREM NoMotionWakeInGrace ==
  ASSUME ~SensorFaults
  PROVE  Spec => []MotionWakeAfterGrace
<1>1. Init => GraceInv
  BY DEF Init, GraceInv, MotionInit
<1>2. TypeOK /\ FlagInv /\ GraceInv /\ [Next]_vars => GraceInv'
  <2> SUFFICES ASSUME TypeOK, FlagInv, GraceInv, [Next]_vars
               PROVE  GraceInv'
    OBVIOUS
  <2> USE DEF GraceInv, Goto, loop_vars, wake_vars, motion_vars, devices
  <2>1. ASSUME Restart PROVE GraceInv'
    BY <2>1 DEF Restart, MotionRestart
  <2>2. CASE Startup
    BY <2>1, <2>2 DEF Startup, ModemInitFails, GnssInitFails, BootDone,
       WatchdogReset, MotionStart
  <2>3. CASE BatterySleep
    <3>1. CASE battery_sleeps >= SETTLE_CYCLES
      BY <2>3, <3>1, LoopAssumption
         DEF BatterySleep, SetArmed, TypeOK, LoopTypeOK
    <3>2. CASE ~(battery_sleeps >= SETTLE_CYCLES)
      <4> DEFINE arm == battery_sleeps >= SETTLE_CYCLES
      <4>1. arm = FALSE
        BY <3>2
      <4>2. SetArmed(arm) /\ pc' = "wait"
        BY <2>3 DEF BatterySleep
      <4> HIDE DEF arm
      <4>3. SetArmed(FALSE)
        BY <4>1, <4>2
      <4>4. ~armed' /\ usable' = usable
        BY <4>3 DEF SetArmed
      <4> QED BY <4>2, <4>4
    <3> QED BY <3>1, <3>2
  <2>4. CASE FrequentTop
    <3>1. pc' = "interval" /\ usable' = usable
      BY <2>4 DEF FrequentTop, SetArmed
    <3>2. armed' => armed
      BY <2>4 DEF FrequentTop, SetArmed
    <3> QED BY <3>1, <3>2
  <2>5. CASE WaitStarts \/ WakeOnTimer \/ WakeEarly
    BY <2>5 DEF WaitStarts, WaitBegin, WakeOnTimer, WakeEarly
  <2>6. CASE RecoverReboot
    BY <2>6, <2>1 DEF RecoverReboot
  <2>7. CASE Cycle /\ ~(BatterySleep \/ FrequentTop \/ WaitStarts
                         \/ WakeOnTimer \/ WakeEarly \/ RecoverReboot)
    <3>1. /\ UNCHANGED motion_vars
          /\ pc' \notin {"boot", "dead", "wait", "asleep"}
      BY <2>7 DEF Cycle, WakeTop, RecoverIdle, RecoverWait, RecoverBounce,
         LteConnected, LteFails, CloudResume, StatusLedReport, GnssStarted,
         GnssStartFails, Acquire, AfterFix, SendOk, SendStale, SendFails,
         Retry, CheckFrequent, IntervalEnds, StopAndPause
    <3> QED BY <3>1
  <2>8. CASE Workqueue
    BY <2>8 DEF Workqueue, VbusDetected, VbusRemoved, Jolt, NoteJolt, Give,
       RemovedAsWell, SignalStore, SignalGive, FlagInv
  <2>9. CASE Surroundings
    BY <2>9, <2>1 DEF Surroundings, Cable, CarSettles, SurgeLapses, Silence,
       SessionLost, Reset
  <2>10. CASE UNCHANGED vars
    BY <2>10 DEF vars
  <2> QED
    BY <2>2, <2>3, <2>4, <2>5, <2>6, <2>7, <2>8, <2>9, <2>10 DEF Next
<1>3. FlagInv /\ GraceInv => MotionWakeAfterGrace
  BY DEF FlagInv, GraceInv, MotionWakeAfterGrace
<1> QED BY <1>1, <1>2, <1>3, TypeCorrect, FlagTells, PTL DEF Spec

-----------------------------------------------------------------------------
(* The report loop parks a car as ParkingGuard promises, whatever fails.   *)
(* Every step is a step of the promise or leaves it alone.  It takes that  *)
(* a build with a sensor that never fails has it usable after boot, or a   *)
(* watched sleep would not be watched.                                     *)
UsableInv ==
  pc \notin {"boot", "dead"} /\ MOTION_WAKE /\ ~SensorFaults => usable

(* A build with a faultless sensor has it usable once main has started it  *)
(* (motion.c:90-162).                                                      *)
LEMMA UsableAfterBoot == Spec => []UsableInv
<1>1. Init => UsableInv
  BY DEF Init, UsableInv
<1>2. UsableInv /\ [Next]_vars => UsableInv'
  <2> SUFFICES ASSUME UsableInv, [Next]_vars PROVE UsableInv'
    OBVIOUS
  <2> USE DEF UsableInv, Goto, motion_vars, devices
  <2>1. CASE Startup
    BY <2>1 DEF Startup, ModemInitFails, GnssInitFails, BootDone,
       WatchdogReset, Restart, MotionStart
  <2>2. CASE Cycle
    <3>1. pc' = "boot" \/ usable' = usable
      BY <2>2 DEF Cycle, WakeTop, RecoverIdle, RecoverReboot, Restart,
         RecoverWait, RecoverBounce, LteConnected, LteFails, CloudResume,
         StatusLedReport, GnssStarted, GnssStartFails, Acquire, SendOk,
         SendStale, SendFails, Retry, CheckFrequent, FrequentTop, SetArmed,
         IntervalEnds, StopAndPause, BatterySleep, WaitStarts, WakeOnTimer,
         WakeEarly
    <3>2. pc \notin {"boot", "dead"}
      BY <2>2 DEF Cycle, WakeTop, RecoverIdle, RecoverReboot,
         RecoverWait, RecoverBounce, LteConnected, LteFails, CloudResume,
         StatusLedReport, GnssStarted, GnssStartFails, Acquire, SendOk,
         SendStale, SendFails, Retry, CheckFrequent, FrequentTop,
         IntervalEnds, StopAndPause, BatterySleep, WaitStarts, WakeOnTimer,
         WakeEarly
    <3> QED BY <3>1, <3>2
  <2>3. CASE Workqueue
    BY <2>3 DEF Workqueue, VbusDetected, VbusRemoved, Jolt, NoteJolt, Give,
       RemovedAsWell
  <2>4. CASE Surroundings
    BY <2>4 DEF Surroundings, Cable, CarSettles, SurgeLapses, Silence,
       SessionLost, Reset, Restart
  <2>5. CASE UNCHANGED vars
    BY <2>5 DEF vars
  <2> QED BY <2>1, <2>2, <2>3, <2>4, <2>5 DEF Next
<1> QED BY <1>1, <1>2, PTL DEF Spec

(* The report loop implements ParkingGuard (main.c:309-347, 404-413,       *)
(* 546-558).                                                               *)
THEOREM Implements == Spec => ParksAsPromised
<1>1. Init => Guard!Init
  BY LoopAssumption DEF Init, MotionInit, Guard!Init
<1>2. TypeOK /\ UsableInv /\ FlagInv /\ [Next]_vars
        => [Guard!Next]_(Guard!guard_vars)
  <2> SUFFICES ASSUME TypeOK, UsableInv, FlagInv, [Next]_vars
               PROVE  Guard!Next \/ UNCHANGED Guard!guard_vars
    OBVIOUS
  <2> USE LoopAssumption
      DEF TypeOK, LoopTypeOK, Goto, loop_vars, motion_vars,
          Guard!guard_vars, devices
  <2>1. ASSUME Restart PROVE Guard!Next
    BY <2>1 DEF Restart, MotionRestart, Guard!Next, Guard!Restart
  <2>2. CASE Startup
    BY <2>1, <2>2 DEF Startup, ModemInitFails, GnssInitFails, BootDone,
       WatchdogReset, MotionStart
  <2>3. CASE WakeTop
    BY <2>3 DEF WakeTop, Guard!Next, Guard!SeePower
  <2>4. CASE FrequentTop
    <3>1. /\ pc = "frequent" /\ pc' = "interval"
          /\ \/ SetArmed(FALSE) /\ battery_sleeps' = 0
             \/ UNCHANGED <<watching, battery_sleeps>>
      BY <2>4, Zenon DEF FrequentTop
    <3>2. /\ ~(pc \in {"wait", "asleep"})
          /\ UNCHANGED (pc \in {"wait", "asleep"})
      BY <3>1
    <3>3. CASE SetArmed(FALSE) /\ battery_sleeps' = 0
      <4>1. (SETTLE_CYCLES - battery_sleeps)' = SETTLE_CYCLES
        BY <3>3
      <4>2. watching' \in {watching, FALSE}
        BY <3>3, Zenon DEF SetArmed, FlagInv
      <4> QED BY <3>2, <4>1, <4>2, Zenon DEF Guard!Next, Guard!SeePower
    <3>4. CASE UNCHANGED <<watching, battery_sleeps>>
      BY <3>2, <3>4
    <3> QED BY <3>1, <3>3, <3>4
  <2>5. CASE BatterySleep
    <3> DEFINE arm == battery_sleeps >= SETTLE_CYCLES
    <3>1. SetArmed(arm) /\ pc = "arm" /\ pc' = "wait"
      BY <2>5 DEF BatterySleep
    <3>2. arm \in BOOLEAN
      OBVIOUS
    <3>3. Guard!Watch(arm)
      <4> HIDE DEF arm
      <4>1. usable \/ SensorFaults \/ ~MOTION_WAKE
        BY <3>1 DEF UsableInv
      <4> QED BY <3>1, <3>2, <4>1 DEF SetArmed, FlagInv, Guard!Watch
    <3>4. ~(pc \in {"wait", "asleep"}) /\ (pc \in {"wait", "asleep"})'
      BY <3>1
    <3>5. CASE arm
      <4>1. /\ SETTLE_CYCLES - battery_sleeps = 0
            /\ (SETTLE_CYCLES - battery_sleeps)'
                 = SETTLE_CYCLES - battery_sleeps
        BY <2>5, <3>5 DEF BatterySleep
      <4>2. Guard!Watch(TRUE)
        BY <3>2, <3>3, <3>5, Zenon DEF Guard!Watch
      <4>3. (pc \in {"wait", "asleep"})' = TRUE
        BY <3>4
      <4> QED
        BY <3>4, <4>1, <4>2, <4>3, Zenon DEF Guard!Next, Guard!WatchedSleep
    <3>6. CASE ~arm
      <4>1. /\ SETTLE_CYCLES - battery_sleeps > 0
            /\ (SETTLE_CYCLES - battery_sleeps)'
                 = SETTLE_CYCLES - battery_sleeps - 1
        BY <2>5, <3>6 DEF BatterySleep
      <4>2. Guard!Watch(FALSE)
        BY <3>2, <3>3, <3>6, Zenon DEF Guard!Watch
      <4>3. (pc \in {"wait", "asleep"})' = TRUE
        BY <3>4
      <4> QED
        BY <3>4, <4>1, <4>2, <4>3, Zenon DEF Guard!Next, Guard!SettleSleep
    <3> QED BY <3>5, <3>6
  <2>6. CASE WakeOnTimer \/ WakeEarly
    BY <2>6 DEF WakeOnTimer, WakeEarly, Guard!Next, Guard!Wake
  <2>7. CASE WaitStarts
    BY <2>7 DEF WaitStarts
  <2>8. CASE RecoverReboot
    BY <2>8, <2>1 DEF RecoverReboot
  <2>9. CASE Cycle /\ ~(WakeTop \/ FrequentTop \/ BatterySleep
                         \/ WaitStarts \/ WakeOnTimer \/ WakeEarly
                         \/ RecoverReboot)
    <3>1. /\ UNCHANGED <<watching, battery_sleeps>>
          /\ pc \notin {"wait", "asleep"} /\ pc' \notin {"wait", "asleep"}
      BY <2>9 DEF Cycle, RecoverIdle, RecoverWait, RecoverBounce,
         LteConnected, LteFails, CloudResume, StatusLedReport, GnssStarted,
         GnssStartFails, Acquire, AfterFix, SendOk, SendStale, SendFails,
         Retry, CheckFrequent, IntervalEnds, StopAndPause
    <3> QED BY <3>1
  <2>10. CASE Workqueue
    BY <2>10 DEF Workqueue, VbusDetected, VbusRemoved, Jolt, NoteJolt, Give,
       RemovedAsWell
  <2>11. CASE Surroundings
    BY <2>11, <2>1 DEF Surroundings, Cable, CarSettles, SurgeLapses,
       Silence, SessionLost, Reset
  <2>12. CASE UNCHANGED vars
    BY <2>12 DEF vars
  <2> QED
    BY <2>2, <2>3, <2>4, <2>5, <2>6, <2>7, <2>8, <2>9, <2>10, <2>11, <2>12
       DEF Next, Cycle
<1> QED
  BY <1>1, <1>2, TypeCorrect, UsableAfterBoot, FlagTells, PTL
     DEF Spec, ParksAsPromised, Guard!Spec

-----------------------------------------------------------------------------
(* Only a sensor that was found at boot is ever armed (motion.c:90-180).   *)
ArmedInv ==
  /\ armed => usable
  /\ pc \in {"boot", "dead"} => ~armed

(* Arming goes through motion_set_armed(), which asks for it first.        *)
LEMMA OnlyUsableArmed == Spec => []ArmedInv
<1>1. Init => ArmedInv
  BY DEF Init, MotionInit, ArmedInv
<1>2. TypeOK /\ ArmedInv /\ [Next]_vars => ArmedInv'
  <2> SUFFICES ASSUME TypeOK, ArmedInv, [Next]_vars PROVE ArmedInv'
    OBVIOUS
  <2> USE DEF ArmedInv, Goto, motion_vars, devices
  <2>1. ASSUME Restart PROVE ArmedInv'
    BY <2>1 DEF Restart, MotionRestart
  <2>2. CASE Startup
    BY <2>1, <2>2 DEF Startup, ModemInitFails, GnssInitFails, BootDone,
       WatchdogReset, MotionStart
  <2>3. ASSUME NEW arm \in BOOLEAN, SetArmed(arm), pc' \notin {"boot", "dead"}
        PROVE  ArmedInv'
    BY <2>3, Zenon DEF SetArmed
  <2>4. CASE FrequentTop
    <3>1. pc' = "interval" /\ usable' = usable /\ (armed' => armed)
      BY <2>4 DEF FrequentTop, SetArmed, TypeOK, MotionTypeOK
    <3> QED BY <3>1
  <2>5. CASE BatterySleep
    <3> DEFINE arm == battery_sleeps >= SETTLE_CYCLES
    <3>1. SetArmed(arm) /\ pc' = "wait"
      BY <2>5 DEF BatterySleep
    <3>2. arm \in BOOLEAN
      OBVIOUS
    <3> HIDE DEF arm
    <3> QED BY <3>1, <3>2, <2>3
  <2>6. CASE RecoverReboot
    BY <2>6, <2>1 DEF RecoverReboot
  <2>7. CASE Cycle /\ ~(FrequentTop \/ BatterySleep \/ RecoverReboot)
    <3>1. UNCHANGED <<usable, armed>> /\ pc' \notin {"boot", "dead"}
      BY <2>7 DEF Cycle, WakeTop, RecoverIdle, RecoverWait, RecoverBounce,
         LteConnected, LteFails, CloudResume, StatusLedReport, GnssStarted,
         GnssStartFails, Acquire, AfterFix, SendOk, SendStale, SendFails,
         Retry, CheckFrequent, IntervalEnds, StopAndPause, WaitStarts,
         WakeOnTimer, WakeEarly
    <3> QED BY <3>1
  <2>8. CASE Workqueue
    BY <2>8 DEF Workqueue, VbusDetected, VbusRemoved, Jolt, NoteJolt, Give,
       RemovedAsWell
  <2>9. CASE Surroundings
    BY <2>9, <2>1 DEF Surroundings, Cable, CarSettles, SurgeLapses, Silence,
       SessionLost, Reset
  <2>10. CASE UNCHANGED vars
    BY <2>10 DEF vars
  <2> QED
    BY <2>2, <2>4, <2>5, <2>6, <2>7, <2>8, <2>9, <2>10 DEF Next
<1> QED BY <1>1, <1>2, TypeCorrect, PTL DEF Spec

(* The sleep after a wake by power is the first of the count.  Inductive   *)
(* with: the count stands at zero from the top of that cycle to its sleep. *)
GracedInv ==
  wake_reason = "vbus" /\ pc \notin {"boot", "dead", "halted", "wake"} =>
    IF pc \in {"wait", "asleep"}
      THEN /\ battery_sleeps <= 1
           /\ SETTLE_CYCLES > 0 /\ ~SensorFaults => ~armed
      ELSE battery_sleeps = 0

(* Whatever becomes of the cycle in between, a failed attach, a receiver   *)
(* that does not start or a drive, the sleep after a wake by power begins  *)
(* the count (main.c:411-413, 326-336).                                    *)
THEOREM PowerWakesGraced == Spec => []PowerWakeIsGraced
<1>1. Init => GracedInv
  BY DEF Init, GracedInv
<1>2. TypeOK /\ ArmedInv /\ GracedInv /\ [Next]_vars => GracedInv'
  <2> SUFFICES ASSUME TypeOK, ArmedInv, GracedInv, [Next]_vars
               PROVE  GracedInv'
    OBVIOUS
  <2> USE DEF GracedInv, Goto, loop_vars, motion_vars, devices
  <2>1. ASSUME Restart PROVE GracedInv'
    BY <2>1 DEF Restart
  <2>2. CASE Startup
    BY <2>1, <2>2 DEF Startup, ModemInitFails, GnssInitFails, BootDone,
       WatchdogReset
  <2>3. CASE WakeTop
    BY <2>3 DEF WakeTop
  <2>4. CASE FrequentTop
    <3>1. /\ pc = "frequent" /\ pc' = "interval"
          /\ battery_sleeps' \in {0, battery_sleeps}
          /\ wake_reason' = wake_reason
      BY <2>4, Zenon DEF FrequentTop
    <3> QED BY <3>1
  <2>5. CASE BatterySleep
    <3> SUFFICES ASSUME wake_reason = "vbus"
                 PROVE  /\ battery_sleeps' <= 1
                        /\ SETTLE_CYCLES > 0 /\ ~SensorFaults => ~armed'
      BY <2>5 DEF BatterySleep
    <3>1. battery_sleeps = 0
      BY <2>5 DEF BatterySleep
    <3>2. battery_sleeps' <= 1
      BY <2>5, <3>1, LoopAssumption DEF BatterySleep
    <3>3. ASSUME SETTLE_CYCLES > 0, ~SensorFaults PROVE ~armed'
      <4> DEFINE arm == battery_sleeps >= SETTLE_CYCLES
      <4>1. arm = FALSE
        BY <3>1, <3>3, LoopAssumption
      <4>2. SetArmed(arm)
        BY <2>5 DEF BatterySleep
      <4> HIDE DEF arm
      <4>3. SetArmed(FALSE)
        BY <4>1, <4>2
      <4>4. armed => usable
        BY DEF ArmedInv
      <4> QED BY <3>3, <4>3, <4>4 DEF SetArmed
    <3> QED BY <3>2, <3>3
  <2>6. CASE WaitStarts \/ WakeOnTimer \/ WakeEarly
    BY <2>6 DEF WaitStarts, WakeOnTimer, WakeEarly
  <2>7. CASE RecoverReboot
    BY <2>7, <2>1 DEF RecoverReboot
  <2>8. CASE Cycle /\ ~(WakeTop \/ FrequentTop \/ BatterySleep
                         \/ WaitStarts \/ WakeOnTimer \/ WakeEarly
                         \/ RecoverReboot)
    <3>1. /\ UNCHANGED loop_vars
          /\ pc \notin {"boot", "dead", "halted", "wake", "wait", "asleep"}
          /\ pc' \notin {"boot", "dead", "halted", "wake", "wait", "asleep"}
      BY <2>8 DEF Cycle, RecoverIdle, RecoverWait, RecoverBounce,
         LteConnected, LteFails, CloudResume, StatusLedReport, GnssStarted,
         GnssStartFails, Acquire, AfterFix, SendOk, SendStale, SendFails,
         Retry, CheckFrequent, IntervalEnds, StopAndPause
    <3> QED BY <3>1
  <2>9. CASE Workqueue
    BY <2>9 DEF Workqueue, VbusDetected, VbusRemoved, Jolt, NoteJolt, Give,
       RemovedAsWell
  <2>10. CASE Surroundings
    BY <2>10, <2>1 DEF Surroundings, Cable, CarSettles, SurgeLapses, Silence,
       SessionLost, Reset
  <2>11. CASE UNCHANGED vars
    BY <2>11 DEF vars
  <2> QED
    BY <2>2, <2>3, <2>4, <2>5, <2>6, <2>7, <2>8, <2>9, <2>10, <2>11
       DEF Next, Cycle
<1>3. FlagInv /\ GracedInv => PowerWakeIsGraced
  BY DEF FlagInv, GracedInv, PowerWakeIsGraced
<1> QED
  BY <1>1, <1>2, <1>3, TypeCorrect, OnlyUsableArmed, FlagTells, PTL DEF Spec

-----------------------------------------------------------------------------
(* A sleep takes no reason away: a wake loses its reason only to a wait    *)
(* that begins between the callback's two statements (wake.c:18-37).       *)
THEOREM SignalsStayWhole == Spec => WholeSignals
<1>1. [Next]_vars
        => (HalfSignal' => HalfSignal \/ (pc = "wait" /\ wq \in Signalling))
  <2> SUFFICES ASSUME [Next]_vars, HalfSignal'
               PROVE  HalfSignal \/ (pc = "wait" /\ wq \in Signalling)
    OBVIOUS
  <2> USE DEF HalfSignal, Signalling, Goto, wake_vars, devices
  <2>1. ~Restart
    BY DEF Restart
  <2>2. ~Startup
    BY <2>1 DEF Startup, ModemInitFails, GnssInitFails, BootDone,
       WatchdogReset
  <2>3. CASE Cycle
    <3>1. WaitStarts
      BY <2>1, <2>3 DEF Cycle, WakeTop, RecoverIdle, RecoverReboot,
         RecoverWait, RecoverBounce, LteConnected, LteFails, CloudResume,
         StatusLedReport, GnssStarted, GnssStartFails, Acquire, AfterFix,
         SendOk, SendStale, SendFails, Retry, CheckFrequent, FrequentTop,
         IntervalEnds, StopAndPause, BatterySleep, WakeOnTimer, WakeEarly
    <3> QED BY <3>1 DEF WaitStarts, WaitBegin
  <2>4. CASE Workqueue
    BY <2>4 DEF Workqueue, VbusDetected, VbusRemoved, Jolt, Give,
       RemovedAsWell, SignalStore, SignalGive
  <2>5. CASE Surroundings
    BY <2>1, <2>5 DEF Surroundings, Cable, CarSettles, Silence, SessionLost,
       Reset
  <2>6. CASE UNCHANGED vars
    BY <2>6 DEF vars
  <2> QED BY <2>2, <2>3, <2>4, <2>5, <2>6 DEF Next
<1> QED BY <1>1, PTL DEF Spec, WholeSignals
=============================================================================
