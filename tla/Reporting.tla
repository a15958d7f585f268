----------------------------- MODULE Reporting -----------------------------
(***************************************************************************)
(* Reports of a Hologram build: what report_fix() puts into one, the send  *)
(* with its retry, and surge_active(), which decides whether another       *)
(* follows or the tracker sleeps.                                          *)
(***************************************************************************)
EXTENDS Hologram, MotionClock, Telemetry

CONSTANT Voltages   (* bound: battery voltages that are read               *)

Millivolts == 0..65535     (* a uint16_t *)

ASSUME VoltageAssumption == Voltages \subseteq Millivolts

VARIABLES
  pc,               (* main                                                *)
  wake_uptime_ms,   (* the low word of the uptime at the wake              *)
  woken_at,         (* history: the uptime at the wake                     *)
  batt_mv, awake_s, (* of the report, 0 outside report_fix()               *)
  retried,          (* the report is sent for the second time              *)
  success           (* history: reports whose send returned 0              *)

report_vars == <<batt_mv, awake_s, retried>>
wake_vars == <<wake_uptime_ms, woken_at>>
vars == <<pc, wake_vars, report_vars, success, hologram_vars, clock_vars>>

TypeOK ==
  /\ HologramTypeOK /\ ClockTypeOK
  /\ pc \in {"asleep", "fix", "sending", "check"}
  /\ wake_uptime_ms \in 0..(Word - 1)
  /\ woken_at \in 1..MaxUptime
  /\ batt_mv \in Millivolts
  /\ awake_s \in 0..MaxUptime
  /\ retried \in BOOLEAN
  /\ success \in SUBSET Reports

(* The first cycle follows the boot. *)
Init ==
  /\ pc = "fix"
  /\ wake_uptime_ms = 1 % Word /\ woken_at = 1
  /\ batt_mv = 0 /\ awake_s = 0 /\ retried = FALSE
  /\ success = {}
  /\ HologramInit /\ ClockInit

(* Time passes in the sleep and while main waits for a fix; what a send    *)
(* takes is counted to the wait after it.                                  *)
TimePasses ==
  /\ pc \in {"asleep", "fix"}
  /\ Tick
  /\ UNCHANGED <<pc, wake_vars, report_vars, success, hologram_vars>>

Jolt ==
  /\ JoltStoresHigh \/ JoltStoresLow
  /\ UNCHANGED <<pc, wake_vars, report_vars, success, hologram_vars>>

(* Mutant: the time of the wake is taken once. *)
WakesUntimed ==
  /\ pc = "asleep"
  /\ pc' = "fix"
  /\ woken_at' = uptime
  /\ UNCHANGED <<wake_uptime_ms, report_vars, success, hologram_vars,
                 clock_vars>>

Wakes ==
  /\ pc = "asleep"
  /\ pc' = "fix"
  /\ wake_uptime_ms' = uptime % Word
  /\ woken_at' = uptime
  /\ UNCHANGED <<report_vars, success, hologram_vars, clock_vars>>

(* No fix in time. *)
Skips ==
  /\ pc = "fix"
  /\ pc' = "check"
  /\ UNCHANGED <<wake_vars, report_vars, success, hologram_vars, clock_vars>>

(* Mutant: the difference the wrong way round. *)
AwakeSwapped == wake_uptime_ms - uptime

(* The milliseconds awake; a second is as long as a millisecond here. *)
AwakeFor == uptime - wake_uptime_ms

(* power_read(), or the 0 that report_fix() puts for a PMIC that fails. *)
power_read == Voltages \cup {0}

(* report_fix(), up to the send *)
ReportBegins ==
  /\ pc = "fix" /\ current < MaxReports
  /\ pc' = "sending"
  /\ current' = current + 1
  /\ retried' = FALSE
  /\ batt_mv' \in power_read
  /\ awake_s' = AwakeFor
  /\ HologramSend
  /\ UNCHANGED <<wake_vars, success, handles, timed, net_vars, clock_vars>>

(* telemetry_build_json() finds its buffer too small. *)
TooLarge ==
  /\ pc = "fix" /\ current < MaxReports
  /\ pc' = "check"
  /\ UNCHANGED <<wake_vars, report_vars, success, hologram_vars, clock_vars>>

Sends ==
  /\ SocketSendEnvelope
  /\ UNCHANGED <<pc, wake_vars, report_vars, success, clock_vars>>

(* Mutant: whatever went wrong is tried again. *)
RetriesAll ==
  /\ pc = "sending" /\ at = "out" /\ err # "none" /\ ~retried
  /\ retried' = TRUE
  /\ HologramSend
  /\ UNCHANGED <<pc, wake_vars, batt_mv, awake_s, success, handles, timed,
                 current, net_vars, clock_vars>>

(* cloud_resume() of a Hologram build returns 0. *)
Retries ==
  /\ pc = "sending" /\ at = "out" /\ err = "stale" /\ ~retried
  /\ retried' = TRUE
  /\ HologramSend
  /\ UNCHANGED <<pc, wake_vars, batt_mv, awake_s, success, handles, timed,
                 current, net_vars, clock_vars>>

ReportEnds ==
  /\ pc = "sending" /\ at = "out"
  /\ err = "stale" => retried
  /\ pc' = "check"
  /\ success' = IF err = "none" THEN success \cup {current} ELSE success
  /\ batt_mv' = 0 /\ awake_s' = 0 /\ retried' = FALSE
  /\ UNCHANGED <<wake_vars, hologram_vars, clock_vars>>

(* surge_active(): main reads both words at once, the handler cannot run.  *)
surge_active == SurgeFrom(motion_last_event_uptime)

(* while (power_vbus_present() || surge_active(motion_cycle)) *)
Goes ==
  /\ pc = "check"
  /\ \E vbus, motion_cycle \in BOOLEAN :
       pc' = IF vbus \/ (motion_cycle /\ surge_active) THEN "fix" ELSE "asleep"
  /\ UNCHANGED <<wake_vars, report_vars, success, hologram_vars, clock_vars>>

Server ==
  /\ \E r \in Reports : ServerAnswers(r) \/ EnvelopeLost(r)
  /\ UNCHANGED <<pc, wake_vars, report_vars, success, clock_vars>>

Next ==
  \/ TimePasses \/ Jolt \/ Wakes \/ Skips \/ ReportBegins \/ TooLarge
  \/ Sends \/ Retries \/ ReportEnds \/ Goes \/ Server

Spec == Init /\ [][Next]_vars

-----------------------------------------------------------------------------
(* A report is accepted at most once: no error that is retried can follow  *)
(* an envelope that went out whole (main.c:230-242, hologram.c:120-146).   *)
AtMostOnce == \A r \in Reports : wire[r] + taken[r] <= 1

D == INSTANCE Delivery WITH
       begun <- 1..current,
       arrived <- {r \in Reports : taken[r] > 0}

(* A send that returns 0 has been accepted: what Delivery promises         *)
(* (hologram.c:132-146), for a build that sends.                           *)
DeliversAsPromised == D!Spec

(* Between sends nothing is left of a connection, whichever call failed:   *)
(* a socket lost per report would exhaust the modem's few                  *)
(* (hologram.c:148-153).                                                   *)
NothingLeftOpen == at = "out" => ~fd /\ ~res

(* A torn read is harmless: the answer is that of the stamp before or of   *)
(* the stamp being written (motion.c:76-83, main.c:115-118).               *)
TornReadHarmless ==
  surge_active \in {SurgeFrom(last_jolt),
                    SurgeFrom(IF now = 0 THEN last_jolt ELSE now)}

(* The awake time counts the words that had passed before the wake: it is  *)
(* right for the first word's length and off by whole words afterwards     *)
(* (main.c:202, 405).                                                      *)
AwakeCountsWords ==
  pc = "sending" =>
    awake_s = uptime - woken_at + (woken_at \div Word) * Word

(* The charge is the line of the discharge curve rounded down, full above  *)
(* it and empty below (telemetry.c:24-62).  The line is stated without its *)
(* division.                                                               *)
OnCurve(mv) ==
  LET x == telemetry_battery_percent(mv) IN
  /\ mv >= 4200 => x = 100
  /\ mv <= 3200 => x = 0
  /\ \A i \in 2..7 :
       LET b == lipo_curve[i]
           a == lipo_curve[i - 1]
           rise == (a.lvl_pptt - b.lvl_pptt) * (mv - b.lvl_mV)
           run == a.lvl_mV - b.lvl_mV
       IN  b.lvl_mV <= mv /\ mv <= a.lvl_mV =>
             /\ (100 * x - b.lvl_pptt) * run <= rise
             /\ rise < (100 * (x + 1) - b.lvl_pptt) * run

BatteryOnCurve == OnCurve(batt_mv)

(* "awake" is the seconds awake (telemetry.h:7): violated for a wake after *)
(* the low word has wrapped, 49.7 days after the boot.                     *)
AwakeIsSinceWake ==
  pc = "sending" => awake_s = uptime - woken_at
=============================================================================
