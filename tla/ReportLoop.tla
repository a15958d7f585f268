----------------------------- MODULE ReportLoop -----------------------------
(***************************************************************************)
(* The tracker as a whole: the report loop of main.c on the main thread,   *)
(* the PMIC and accelerometer callbacks on the system workqueue, and the   *)
(* car, the network and the server around them.                            *)
(*                                                                         *)
(* "pc" is where the main thread stands; each label precedes a call that   *)
(* may block, and there the workqueue runs.  "wq" is where a callback      *)
(* stands: main outranks the workqueue, so a callback can be held up       *)
(* between any two of its statements that matter to main.                  *)
(***************************************************************************)
EXTENDS Wake, Motion, Power, CloudLink

CONSTANTS
  SETTLE_CYCLES,   (* CONFIG_TRACKER_MOTION_SETTLE_CYCLES              *)
  FORCE_PUBLISH,   (* CONFIG_TRACKER_FORCE_PUBLISH_WITHOUT_FIX         *)
  ModemFaults,     (* whether nrf_modem_lib_init() may fail            *)
  MaxQuiet,        (* bound: the deepest level of silence reached      *)
  MaxResets        (* bound: resets that may interrupt a running loop  *)

ASSUME LoopAssumption ==
  /\ SETTLE_CYCLES \in Nat
  /\ FORCE_PUBLISH \in BOOLEAN
  /\ ModemFaults \in BOOLEAN
  /\ MaxQuiet \in 0..2
  /\ MaxResets \in Nat

VARIABLES
  pc,               (* main thread                                         *)
  wq,               (* system workqueue                                    *)
  wake_reason,      (* what ended the last sleep                           *)
  battery_sleeps,   (* battery sleeps since power was last seen            *)
  quiet,            (* silence: 0 below MODEM_RECOVERY_MINUTES, 1 from     *)
                    (* there on, 2 from REBOOT_MINUTES on                  *)
  modem_bounced,    (* the modem was restarted for this silence            *)
  bounces,          (* history: modem restarts since the last report sent  *)
  resets            (* resets so far, for the bound                        *)

loop_vars == <<wake_reason, battery_sleeps>>
silence_vars == <<quiet, modem_bounced, bounces>>
devices == <<wake_vars, motion_vars, power_vars, cloud_vars>>
vars == <<pc, wq, loop_vars, silence_vars, resets, devices>>

Label ==
  {"boot", "dead", "halted", "wake", "recover", "lte", "resume", "led0",
   "start", "acquire", "send", "retry", "resend", "led", "check", "frequent",
   "interval", "stop", "arm", "wait", "asleep"}

(* The callback has stored a reason and not yet given the semaphore. *)
Signalling == {"give", "give_removed"}

LoopTypeOK ==
  /\ pc \in Label
  /\ wq \in {"idle", "removed"} \cup Signalling
  /\ wake_reason \in WakeReason
  /\ battery_sleeps \in 0..SETTLE_CYCLES
  /\ quiet \in 0..2
  /\ bounces \in Nat
  /\ resets \in Nat

(* Every variable holds a value of its C type, and battery_sleeps, a       *)
(* uint32_t that main.c:335 increments, saturates at the settle threshold. *)
TypeOK ==
  /\ LoopTypeOK /\ WakeTypeOK /\ MotionTypeOK /\ PowerTypeOK /\ CloudTypeOK
  /\ modem_bounced \in BOOLEAN

Init ==
  /\ pc = "boot"
  /\ wq = "idle"
  /\ wake_reason = "boot"
  /\ battery_sleeps = SETTLE_CYCLES
  /\ quiet = 0
  /\ modem_bounced = FALSE
  /\ bounces = 0
  /\ resets = 0
  /\ WakeInit /\ MotionInit /\ PowerInit /\ CloudInit

(* The chip restarts: everything in RAM starts over. *)
Restart ==
  /\ pc' = "boot"
  /\ wq' = "idle"
  /\ wake_reason' = "boot"
  /\ battery_sleeps' = SETTLE_CYCLES
  /\ quiet' = 0
  /\ modem_bounced' = FALSE
  /\ bounces' = 0
  /\ WakeRestart /\ MotionRestart /\ PowerRestart /\ CloudRestart

Goto(from, to) ==
  /\ pc = from
  /\ pc' = to

-----------------------------------------------------------------------------
(* Start-up: main() before its loop.                                       *)

(* main() returns before watchdog_init(): nothing restarts the tracker. *)
ModemInitFails ==
  /\ ModemFaults
  /\ Goto("boot", "dead")
  /\ UNCHANGED <<wq, loop_vars, silence_vars, resets, devices>>

(* main() returns with the callbacks installed and the watchdog running. *)
GnssInitFails ==
  /\ Goto("boot", "halted")
  /\ MotionStart
  /\ \E present \in Readings : Sample(present)
  /\ UNCHANGED <<wq, loop_vars, silence_vars, resets, wake_vars, cloud_vars>>

BootDone ==
  /\ Goto("boot", "wake")
  /\ MotionStart
  /\ \E present \in Readings : Sample(present)
  /\ CloudStart
  /\ UNCHANGED <<wq, loop_vars, silence_vars, resets, wake_vars>>

WatchdogReset ==
  /\ pc = "halted"
  /\ Restart
  /\ UNCHANGED resets

-----------------------------------------------------------------------------
(* One cycle of the loop.                                                  *)

(* Mutant: power that has gone away again does not count. *)
WakeTopStillPowered ==
  /\ Goto("wake", "recover")
  /\ battery_sleeps' = IF wake_reason = "vbus" /\ vbus
                         THEN 0 ELSE battery_sleeps
  /\ UNCHANGED <<wq, wake_reason, silence_vars, resets, devices>>

(* Power was applied at some point: restart the settle count. *)
WakeTop ==
  /\ Goto("wake", "recover")
  /\ battery_sleeps' = IF wake_reason = "vbus" THEN 0 ELSE battery_sleeps
  /\ UNCHANGED <<wq, wake_reason, silence_vars, resets, devices>>

(* recover_if_silent() *)
RecoverIdle ==
  /\ Goto("recover", "lte")
  /\ quiet = 0
  /\ modem_bounced' = FALSE
  /\ UNCHANGED <<wq, loop_vars, quiet, bounces, resets, devices>>

RecoverReboot ==
  /\ pc = "recover"
  /\ quiet = 2
  /\ Restart
  /\ UNCHANGED resets

(* Mutant: the flag is tested before the reboot threshold. *)
RecoverWaitFirst ==
  /\ Goto("recover", "lte")
  /\ quiet >= 1
  /\ modem_bounced
  /\ UNCHANGED <<wq, loop_vars, silence_vars, resets, devices>>

(* The modem was restarted for this silence already. *)
RecoverWait ==
  /\ Goto("recover", "lte")
  /\ quiet = 1
  /\ modem_bounced
  /\ UNCHANGED <<wq, loop_vars, silence_vars, resets, devices>>

(* Mutant: the flag is not set. *)
RecoverBounceForgets ==
  /\ Goto("recover", "lte")
  /\ quiet = 1
  /\ ~modem_bounced
  /\ bounces' = bounces + 1
  /\ live' \in {live, FALSE}
  /\ UNCHANGED <<wq, loop_vars, quiet, modem_bounced, resets, wake_vars,
                 motion_vars, power_vars, creds_ok, link_state>>

(* Offline and back: the server's session may not outlive it, and          *)
(* link_state is not told.                                                 *)
RecoverBounce ==
  /\ Goto("recover", "lte")
  /\ quiet = 1
  /\ ~modem_bounced
  /\ modem_bounced' = TRUE
  /\ bounces' = bounces + 1
  /\ live' \in {live, FALSE}
  /\ UNCHANGED <<wq, loop_vars, quiet, resets, wake_vars, motion_vars,
                 power_vars, creds_ok, link_state>>

(* lte_ensure_connected() *)
LteConnected ==
  /\ Goto("lte", "resume")
  /\ UNCHANGED <<wq, loop_vars, silence_vars, resets, devices>>

LteFails ==
  /\ Goto("lte", "arm")
  /\ UNCHANGED <<wq, loop_vars, silence_vars, resets, devices>>

(* The result is ignored: a fix is tried for all the same. *)
CloudResume ==
  /\ Goto("resume", "led0")
  /\ \E ok \in BOOLEAN : Resume(ok)
  /\ UNCHANGED <<wq, loop_vars, silence_vars, resets,
                 wake_vars, motion_vars, power_vars>>

(* status_led_report() samples the power, before and after acquiring. *)
StatusLedReport ==
  /\ Goto("led0", "start") \/ Goto("led", "check")
  /\ \E present \in Readings : Sample(present)
  /\ UNCHANGED <<wq, loop_vars, silence_vars, resets,
                 wake_vars, motion_vars, cloud_vars>>

GnssStarted ==
  /\ Goto("start", "acquire")
  /\ UNCHANGED <<wq, loop_vars, silence_vars, resets, devices>>

(* The cycle is over before it has looked at power or surge. *)
GnssStartFails ==
  /\ Goto("start", "arm")
  /\ Pause
  /\ UNCHANGED <<wq, loop_vars, silence_vars, resets,
                 wake_vars, motion_vars, power_vars>>

(* A report goes out with a fix, or without one in a FORCE_PUBLISH build. *)
AfterFix(have_fix) == IF have_fix \/ FORCE_PUBLISH THEN "send" ELSE "led"

(* From gnss_start() to have_fix, both receivers and all assistance. *)
Acquire ==
  /\ \E have_fix \in BOOLEAN : Goto("acquire", AfterFix(have_fix))
  /\ UNCHANGED <<wq, loop_vars, silence_vars, resets, devices>>

-----------------------------------------------------------------------------
(* report_fix()                                                            *)

(* The report reached the cloud. *)
SendOk ==
  /\ pc \in {"send", "resend"}
  /\ "ok" \in SendResults
  /\ pc' = "led"
  /\ quiet' = 0
  /\ bounces' = 0
  /\ UNCHANGED <<wq, loop_vars, modem_bounced, resets, devices>>

(* The first attempt says the session is gone. *)
SendStale ==
  /\ "stale" \in SendResults
  /\ Goto("send", "retry")
  /\ UNCHANGED <<wq, loop_vars, silence_vars, resets, devices>>

(* Any other failure, and any failure of the second attempt. *)
SendFails ==
  /\ \/ "error" \in SendResults /\ Goto("send", "led")
     \/ SendResults \ {"ok"} # {} /\ Goto("resend", "led")
  /\ UNCHANGED <<wq, loop_vars, silence_vars, resets, devices>>

(* "Re-establish once and retry" *)
Retry ==
  /\ \E ok \in BOOLEAN :
       Resume(ok) /\ Goto("retry", IF ok THEN "resend" ELSE "led")
  /\ UNCHANGED <<wq, loop_vars, silence_vars, resets,
                 wake_vars, motion_vars, power_vars>>

-----------------------------------------------------------------------------
(* Frequent reporting, and the battery sleep.                              *)

(* Mutant: a motion cycle goes on for good. *)
surge_endless ==
  /\ wake_reason = "motion"
  /\ MOTION_WAKE

(* surge_active(motion_cycle) *)
surge_active ==
  /\ wake_reason = "motion"
  /\ MOTION_WAKE
  /\ surge

(* The condition of the frequent loop, on entry and after every turn. *)
CheckFrequent ==
  /\ \E present \in Readings :
       /\ Sample(present)
       /\ Goto("check", IF present \/ surge_active THEN "frequent" ELSE "stop")
  /\ UNCHANGED <<wq, loop_vars, silence_vars, resets,
                 wake_vars, motion_vars, cloud_vars>>

(* The second look at the power, inside the loop, disarms. *)
FrequentTop ==
  /\ Goto("frequent", "interval")
  /\ \E present \in Readings :
       /\ Sample(present)
       /\ IF present
            THEN SetArmed(FALSE) /\ battery_sleeps' = 0
            ELSE UNCHANGED <<motion_vars, battery_sleeps>>
  /\ UNCHANGED <<wq, wake_reason, silence_vars, resets, wake_vars, cloud_vars>>

(* CHARGING_INTERVAL_SECONDS, then a short wait for the next fix. *)
IntervalEnds ==
  /\ \E have_fix \in BOOLEAN : Goto("interval", AfterFix(have_fix))
  /\ UNCHANGED <<wq, loop_vars, silence_vars, resets, devices>>

StopAndPause ==
  /\ Goto("stop", "arm")
  /\ Pause
  /\ UNCHANGED <<wq, loop_vars, silence_vars, resets,
                 wake_vars, motion_vars, power_vars>>

(* Mutants: the count is off by one, does not saturate. *)
BatterySleepEarly ==
  /\ Goto("arm", "wait")
  /\ SetArmed(battery_sleeps + 1 >= SETTLE_CYCLES)
  /\ battery_sleeps' = IF battery_sleeps >= SETTLE_CYCLES
                         THEN battery_sleeps
                         ELSE battery_sleeps + 1
  /\ UNCHANGED <<wq, wake_reason, silence_vars, resets,
                 wake_vars, power_vars, cloud_vars>>

BatterySleepUncapped ==
  /\ Goto("arm", "wait")
  /\ SetArmed(battery_sleeps >= SETTLE_CYCLES)
  /\ battery_sleeps' = battery_sleeps + 1
  /\ UNCHANGED <<wq, wake_reason, silence_vars, resets,
                 wake_vars, power_vars, cloud_vars>>

(* battery_sleep() up to its wait: armed once the settle count is full. *)
BatterySleep ==
  /\ Goto("arm", "wait")
  /\ SetArmed(battery_sleeps >= SETTLE_CYCLES)
  /\ battery_sleeps' = IF battery_sleeps >= SETTLE_CYCLES
                         THEN battery_sleeps
                         ELSE battery_sleeps + 1
  /\ UNCHANGED <<wq, wake_reason, silence_vars, resets,
                 wake_vars, power_vars, cloud_vars>>

WaitStarts ==
  /\ Goto("wait", "asleep")
  /\ WaitBegin
  /\ UNCHANGED <<wq, loop_vars, silence_vars, resets,
                 motion_vars, power_vars, cloud_vars>>

WakeOnTimer ==
  /\ Goto("asleep", "wake")
  /\ WaitTimesOut
  /\ wake_reason' = "timer"
  /\ UNCHANGED <<wq, battery_sleeps, silence_vars, resets,
                 motion_vars, power_vars, cloud_vars>>

WakeEarly ==
  /\ Goto("asleep", "wake")
  /\ WaitTaken
  /\ wake_reason' = pending
  /\ UNCHANGED <<wq, battery_sleeps, silence_vars, resets,
                 motion_vars, power_vars, cloud_vars>>

-----------------------------------------------------------------------------
(* The system workqueue.                                                   *)

(* power_init() has not run yet: no callback is registered. *)
CallbacksInstalled == pc \notin {"boot", "dead"}

(* event_callback(): store the cache and the reason... *)
VbusDetected ==
  /\ wq = "idle" /\ CallbacksInstalled
  /\ "detected" \in events
  /\ TakeEdges
  /\ SignalStore("vbus")
  /\ wq' = IF "removed" \in events THEN "give_removed" ELSE "give"
  /\ UNCHANGED <<pc, loop_vars, silence_vars, resets, motion_vars, cloud_vars>>

(* ...or only the cache, power going away being no reason to wake. *)
VbusRemoved ==
  /\ wq = "idle" /\ CallbacksInstalled
  /\ "detected" \notin events
  /\ TakeEdges
  /\ UNCHANGED <<pc, wq, loop_vars, silence_vars, resets,
                 wake_vars, motion_vars, cloud_vars>>

(* motion_handler() up to the wake signal *)
Jolt ==
  /\ wq = "idle"
  /\ NoteJolt
  /\ SignalStore("motion")
  /\ wq' = "give"
  /\ UNCHANGED <<pc, loop_vars, silence_vars, resets, power_vars, cloud_vars>>

Give ==
  /\ wq \in Signalling
  /\ SignalGive
  /\ wq' = IF wq = "give" THEN "idle" ELSE "removed"
  /\ UNCHANGED <<pc, loop_vars, silence_vars, resets,
                 motion_vars, power_vars, cloud_vars>>

RemovedAsWell ==
  /\ wq = "removed"
  /\ ClearConnected
  /\ wq' = "idle"
  /\ UNCHANGED <<pc, loop_vars, silence_vars, resets,
                 wake_vars, motion_vars, cloud_vars>>

-----------------------------------------------------------------------------
(* The surroundings.                                                       *)

Cable ==
  /\ Plug \/ Unplug
  /\ UNCHANGED <<pc, wq, loop_vars, silence_vars, resets,
                 wake_vars, motion_vars, cloud_vars>>

CarSettles ==
  /\ SurgeLapses
  /\ UNCHANGED <<pc, wq, loop_vars, silence_vars, resets,
                 wake_vars, power_vars, cloud_vars>>

(* Time passes without a report getting through. *)
Silence ==
  /\ CallbacksInstalled
  /\ quiet < MaxQuiet
  /\ quiet' = quiet + 1
  /\ UNCHANGED <<pc, wq, loop_vars, modem_bounced, bounces, resets, devices>>

SessionLost ==
  /\ SessionDies
  /\ UNCHANGED <<pc, wq, loop_vars, silence_vars, resets,
                 wake_vars, motion_vars, power_vars>>

(* The reset button, a crash, a watchdog reset: anywhere in a cycle. *)
Reset ==
  /\ pc \notin {"boot", "halted"}
  /\ resets < MaxResets
  /\ resets' = resets + 1
  /\ Restart

-----------------------------------------------------------------------------
Startup == ModemInitFails \/ GnssInitFails \/ BootDone \/ WatchdogReset

Cycle ==
  \/ WakeTop \/ RecoverIdle \/ RecoverReboot \/ RecoverWait \/ RecoverBounce
  \/ LteConnected \/ LteFails \/ CloudResume \/ StatusLedReport
  \/ GnssStarted \/ GnssStartFails \/ Acquire
  \/ SendOk \/ SendStale \/ SendFails \/ Retry
  \/ CheckFrequent \/ FrequentTop \/ IntervalEnds
  \/ StopAndPause \/ BatterySleep \/ WaitStarts \/ WakeOnTimer \/ WakeEarly

Workqueue == VbusDetected \/ VbusRemoved \/ Jolt \/ Give \/ RemovedAsWell

Surroundings == Cable \/ CarSettles \/ Silence \/ SessionLost \/ Reset

Next == Startup \/ Cycle \/ Workqueue \/ Surroundings

Spec == Init /\ [][Next]_vars

-----------------------------------------------------------------------------
(* Properties                                                              *)

(* A reason stored while the tracker sleeps is going to wake it: the       *)
(* semaphore has been given, or the callback that stored the reason is     *)
(* about to give it.  wake_wait() must clear both halves in one go, or a   *)
(* plug-in or a jolt waits for the timer (wake.c:29-30).                   *)
NoLostWake ==
  pc = "asleep" /\ pending # "timer" => wake_sem = 1 \/ wq \in Signalling

(* A jolt is noticed in a sleep only once the settle count is full,        *)
(* whatever was jolted or armed before (main.c:309-336).  That the count   *)
(* starts over is PowerWakeIsGraced, and, where it does not,               *)
(* PowerRestartsGrace.                                                     *)
MotionWakeAfterGrace ==
  pc = "asleep" /\ pending = "motion" =>
    watching /\ battery_sleeps = SETTLE_CYCLES

(* From the resume of the cycle to its pause. *)
InSession ==
  {"led0", "start", "acquire", "send", "retry", "resend", "led", "check",
   "frequent", "interval", "stop"}

(* Every report goes out on a session that is not put away: no path to a   *)
(* send, a failed resume or a retry included, leaves it paused             *)
(* (cloud_nrf.c:150-224, main.c:442-455, 593).                             *)
NeverSendPaused ==
  NRF_CLOUD /\ pc \in InSession => link_state # "paused"

(* One silence, one modem restart: however many cycles fail, the modem is  *)
(* not power-cycled again before a report has got through                  *)
(* (main.c:278-306).                                                       *)
BounceOncePerSilence == bounces <= 1

(* What is kept of it: a sleep that follows a wake by power is the first   *)
(* of the count and not watched, through a failed attach, a receiver that  *)
(* does not start, or a drive (main.c:411-413, 326-336).                   *)
PowerWakeIsGraced ==
  wake_reason = "vbus" /\ pc \in {"wait", "asleep"} =>
    /\ battery_sleeps <= 1
    /\ SETTLE_CYCLES > 0 /\ ~SensorFaults => ~watching

(* A wake that is on its way without its reason.                           *)
HalfSignal ==
  pc = "asleep" /\ pending = "timer" /\ (wake_sem = 1 \/ wq \in Signalling)

(* A wake loses its reason in one way only: main goes to sleep while the   *)
(* callback stands between its two statements.  Nothing that happens in    *)
(* the sleep itself takes a reason away (wake.c:18-37).                    *)
WholeSignals ==
  [][HalfSignal' => HalfSignal \/ (pc = "wait" /\ wq \in Signalling)]_vars

(* main.c:408-409: "Power was applied at some point, so someone was there: *)
(* restart the settle count even if it has gone away again by now."  When  *)
(* power was the last thing signalled since the last sleep began, the      *)
(* sleep that begins is the first of the count.                            *)
PowerRestartsGrace ==
  [][pc = "wait" /\ pc' = "asleep" /\ pending = "vbus" =>
       battery_sleeps <= 1]_vars

(* main.c:231-232: "The session can age out server-side while we sleep.    *)
(* Re-establish once and retry": the second attempt has a session that the *)
(* server knows.                                                           *)
RetryReestablishes ==
  [][NRF_CLOUD /\ pc = "retry" /\ pc' = "resend" => live']_vars

(* wake.h:38: "TRACKER_WAKE_TIMER if the full time elapsed, otherwise the  *)
(* reason passed to wake_signal()."  A sleep that is cut short has a       *)
(* reason.                                                                 *)
WakesWithReason ==
  [][pc = "asleep" /\ pc' = "wake" /\ wake_sem = 1 =>
       wake_reason' # "timer"]_vars

(* Kconfig:442: "How long nothing may reach the cloud before the tracker   *)
(* drops the modem to offline and back".  A cycle that begins in a silence *)
(* of that length goes on with a modem that was restarted in it.           *)
EverySilenceIsMet ==
  [][pc = "recover" /\ pc' = "lte" /\ quiet = 1 => bounces' = 1]_vars

(* The tracker parks a car as ParkingGuard promises (main.c:309-347,       *)
(* 411-413, 548-558): the settle count is kept over failed cycles, wakes   *)
(* by power, surges and resets.                                            *)
Guard == INSTANCE ParkingGuard WITH
  Settle <- SETTLE_CYCLES,
  Faulty <- SensorFaults \/ ~MOTION_WAKE,
  left <- SETTLE_CYCLES - battery_sleeps,
  watching <- watching,
  parked <- pc \in {"wait", "asleep"}

ParksAsPromised == Guard!Spec
=============================================================================
