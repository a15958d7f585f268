------------------------------ MODULE Watchdog ------------------------------
(***************************************************************************)
(* The hardware watchdog and what watchdog.c puts around it: the guard     *)
(* timer that feeds it on behalf of a blocked main thread, and the phase   *)
(* marker kept in retained RAM.  Time is counted in units that the guard   *)
(* period is a whole number of.                                            *)
(***************************************************************************)
EXTENDS Integers

CONSTANTS
  WDT_TIMEOUT,          (* WDT_TIMEOUT_MS                                  *)
  WDT_GUARD_PERIOD      (* WDT_GUARD_PERIOD_S                              *)

ASSUME WatchdogAssumption ==
  /\ WDT_TIMEOUT \in Nat \ {0}
  /\ WDT_GUARD_PERIOD \in Nat \ {0}

VARIABLES
  watched,            (* wdt_channel >= 0: the watchdog runs               *)
  age,                (* time since the watchdog was last fed              *)
  guard_feeds_left,   (* feeds the guard may still give                    *)
  guard_in,           (* time to the guard's next expiry, 0: stopped       *)
  phase_current,      (* the marker, retained over a reset                 *)
  phase_at_reset      (* what the previous run left behind                 *)

guard_vars == <<guard_feeds_left, guard_in>>
phase_vars == <<phase_current, phase_at_reset>>
watchdog_vars == <<watched, age, guard_vars, phase_vars>>

Phase ==
  {"none", "wake", "lte", "cloud-resume", "gnss-start", "agnss", "fix",
   "report", "frequent-loop", "gnss-stop", "cloud-pause", "led-sleep",
   "motion-arm", "sleep", "no-network"}

WatchdogInit ==
  /\ watched = FALSE
  /\ age = 0
  /\ guard_feeds_left = 0
  /\ guard_in = 0
  /\ phase_current = "none"
  /\ phase_at_reset = "none"

(* The chip restarts; .noinit stays as it is. *)
WatchdogRestart ==
  /\ watched' = FALSE
  /\ age' = 0
  /\ guard_feeds_left' = 0
  /\ guard_in' = 0
  /\ UNCHANGED phase_vars

(* Mutant: the trail of the previous run is not wiped. *)
watchdog_init_keeps(retained) ==
  /\ phase_at_reset' = IF retained THEN phase_current ELSE "none"
  /\ UNCHANGED phase_current
  /\ watched' \in BOOLEAN
  /\ age' = 0
  /\ UNCHANGED guard_vars

(* watchdog_init(): "retained" says whether the marker survived. *)
watchdog_init(retained) ==
  /\ phase_at_reset' = IF retained THEN phase_current ELSE "none"
  /\ phase_current' = "none"
  /\ watched' \in BOOLEAN
  /\ age' = 0
  /\ UNCHANGED guard_vars

watchdog_phase(p) ==
  /\ phase_current' = p
  /\ UNCHANGED phase_at_reset

watchdog_feed == age' = 0

DivRoundUp(n, d) == (n + d - 1) \div d

watchdog_guard_start(budget) ==
  /\ guard_feeds_left' = DivRoundUp(budget, WDT_GUARD_PERIOD)
  /\ guard_in' = WDT_GUARD_PERIOD
  /\ watchdog_feed

(* Mutant: the timer is left running. *)
guard_stop_runs_on ==
  /\ UNCHANGED guard_vars
  /\ watchdog_feed

watchdog_guard_stop ==
  /\ guard_in' = 0
  /\ UNCHANGED guard_feeds_left
  /\ watchdog_feed

-----------------------------------------------------------------------------
(* A unit of time passes.  The watchdog resets the chip at the timeout, so *)
(* no time passes beyond it.                                               *)

Ages == age' = IF watched THEN age + 1 ELSE 0

(* Mutant: the budget is not looked at. *)
guard_expiry_unchecked ==
  /\ guard_in = 1
  /\ guard_feeds_left' = guard_feeds_left - 1
  /\ guard_in' = WDT_GUARD_PERIOD
  /\ watchdog_feed

(* guard_expiry(): feed while the budget lasts, then stop the timer. *)
guard_expiry ==
  /\ guard_in = 1
  /\ IF guard_feeds_left = 0
       THEN guard_in' = 0 /\ Ages /\ UNCHANGED guard_feeds_left
       ELSE /\ guard_feeds_left' = guard_feeds_left - 1
            /\ guard_in' = WDT_GUARD_PERIOD
            /\ watchdog_feed

NoExpiry ==
  /\ guard_in # 1
  /\ guard_in' = IF guard_in = 0 THEN 0 ELSE guard_in - 1
  /\ Ages
  /\ UNCHANGED guard_feeds_left

Elapse ==
  /\ age < WDT_TIMEOUT
  /\ guard_expiry \/ NoExpiry
  /\ UNCHANGED <<watched, phase_vars>>

(* The watchdog fires. *)
Fires == watched /\ age = WDT_TIMEOUT
=============================================================================
