----------------------------- MODULE StatusLed -----------------------------
(***************************************************************************)
(* Connectivity: the attach of a cycle, and the status LED that shows how  *)
(* it went.  Main's calls of status_led.c and the blink work on the system *)
(* workqueue write the channels with transfers on the PMIC's bus that      *)
(* block, so either may be overtaken by the other between any two steps.   *)
(*                                                                         *)
(* A transfer that fails is only logged by the code; here they succeed.    *)
(*                                                                         *)
(* "pc" is where main stands and "ret" where it returns from status_led.c; *)
(* "wq" is where the handler stands.                                       *)
(***************************************************************************)
EXTENDS LteAttach

CONSTANTS
  ON_BATTERY,        (* CONFIG_TRACKER_STATUS_LED_ON_BATTERY               *)
  RESUBMIT_SURVIVES  (* whether the kernel keeps a delay that a work item  *)
                     (* asks for while it is being cancelled               *)

ASSUME LedAssumption ==
  /\ ON_BATTERY \in BOOLEAN
  /\ RESUBMIT_SURVIVES \in BOOLEAN

VARIABLES
  pc, ret, wq,
  site,              (* where status_led_report() returns to               *)
  available, current_status, current_pattern, blinking, lit,
  work,              (* blink_work: "idle", or "scheduled" in finite time  *)
  painted,           (* the channels the handler is about to light         *)
  finite,            (* the handler's delay is not K_FOREVER               *)
  channels           (* the channels of the PMIC that are on               *)

led_vars == <<current_status, current_pattern, blinking>>
handler_vars == <<painted, finite>>
main_vars == <<pc, ret, site>>
paint_vars == <<wq, handler_vars, channels>>
vars == <<main_vars, available, led_vars, lit, work, paint_vars, lte_vars>>

Status == {"off", "no_lte", "lte_no_fix", "lte_fix"}
Pattern == {"solid", "charging", "battery"}
Channel == {"red", "green"}

(* Where main may be outside status_led.c. *)
Outside ==
  {"boot", "first", "sample", "recover", "query", "reset", "connect", "take",
   "refused", "timed_out", "resumed", "start", "fix", "check", "sleep",
   "asleep"}
Inside == {"cancel", "red", "green", "restart"}

TypeOK ==
  /\ pc \in Outside \cup Inside
  /\ ret \in Outside
  /\ wq \in {"idle", "toggle", "red", "green", "delay", "reschedule"}
  /\ site \in Outside
  /\ available \in BOOLEAN
  /\ current_status \in Status
  /\ current_pattern \in Pattern
  /\ blinking \in BOOLEAN
  /\ lit \in BOOLEAN
  /\ work \in {"idle", "scheduled"}
  /\ painted \in SUBSET Channel
  /\ finite \in BOOLEAN
  /\ channels \in SUBSET Channel
  /\ LteTypeOK

Init ==
  /\ pc = "boot" /\ ret = "boot" /\ site = "boot" /\ wq = "idle"
  /\ available = FALSE
  /\ current_status = "off"
  /\ current_pattern = "solid"
  /\ blinking = FALSE /\ lit = FALSE
  /\ work = "idle"
  /\ painted = {} /\ finite = FALSE
  /\ channels \in SUBSET Channel
  /\ LteInit

(* Yellow is red and green together. *)
Colours(status, on) ==
  {c \in Channel :
     /\ on
     /\ status \in IF c = "red" THEN {"no_lte", "lte_no_fix"}
                                ELSE {"lte_fix", "lte_no_fix"}}

(* Mutant: a colour is sent to the blue channel. *)
SetWrongChannel(c, lights) ==
  channels' = (channels \ {c}) \cup (IF c \in lights THEN {"blue"} ELSE {})

(* One channel as it is to be, the other as it is. *)
SetChannel(c, lights) == channels' = (channels \ {c}) \cup (lights \cap {c})

-----------------------------------------------------------------------------
(* The blink work.                                                         *)

WorkFires ==
  /\ work = "scheduled" /\ wq = "idle"
  /\ work' = "idle"
  /\ wq' = "toggle"
  /\ UNCHANGED <<main_vars, available, led_vars, lit, handler_vars, channels,
                 lte_vars>>

(* apply(!lit), up to the first transfer *)
HandlerToggles ==
  /\ wq = "toggle"
  /\ wq' = "red"
  /\ lit' = ~lit
  /\ painted' = Colours(current_status, ~lit)
  /\ UNCHANGED <<main_vars, available, led_vars, work, finite,
                 channels, lte_vars>>

HandlerRed ==
  /\ wq = "red"
  /\ wq' = "green"
  /\ SetChannel("red", painted)
  /\ UNCHANGED <<main_vars, available, led_vars, lit, work,
                 handler_vars, lte_vars>>

HandlerGreen ==
  /\ wq = "green"
  /\ wq' = "delay"
  /\ SetChannel("green", painted)
  /\ UNCHANGED <<main_vars, available, led_vars, lit, work,
                 handler_vars, lte_vars>>

(* phase_delay(lit) *)
HandlerDelay ==
  /\ wq = "delay"
  /\ wq' = "reschedule"
  /\ finite' = (current_pattern # "solid")
  /\ UNCHANGED <<main_vars, available, led_vars, lit, work,
                 painted, channels, lte_vars>>

(* What becomes of a delay that is asked for now. *)
Kept(asked) ==
  IF pc # "cancel" THEN {asked}
  ELSE {"idle"} \cup (IF RESUBMIT_SURVIVES THEN {asked} ELSE {})

(* k_work_reschedule() replaces the delay that the work has. *)
HandlerReschedules ==
  /\ wq = "reschedule"
  /\ wq' = "idle"
  /\ work' \in Kept(IF finite THEN "scheduled" ELSE "idle")
  /\ UNCHANGED <<main_vars, available, led_vars, lit, handler_vars, channels,
                 lte_vars>>

Handler ==
  \/ WorkFires \/ HandlerToggles \/ HandlerRed \/ HandlerGreen
  \/ HandlerDelay \/ HandlerReschedules

-----------------------------------------------------------------------------
(* status_led.c as main calls it.                                          *)

(* stop_blink(), up to the wait for a handler that is running *)
StopBlink ==
  /\ blinking' = FALSE
  /\ work' = "idle"
  /\ pc' = "cancel"
  /\ UNCHANGED lit

(* apply(true), up to the first transfer *)
ApplyLit ==
  /\ lit' = TRUE
  /\ pc' = "red"

(* status_led_set(), called with "to" next *)
LedSet(status, to) ==
  /\ ret' = to
  /\ current_status' = status
  /\ IF status = "off" THEN StopBlink
                       ELSE ApplyLit /\ UNCHANGED <<blinking, work>>
  /\ UNCHANGED current_pattern

(* Mutant: the pattern is compared with the last one asked for only. *)
PatternIsShownAlready(pattern) == pattern = current_pattern

PatternIsShown(pattern) ==
  /\ pattern = current_pattern
  /\ (pattern # "solid") = blinking

(* Mutant: the LED is lit before the blinking is stopped. *)
PatternLitFirst(pattern, to) ==
  /\ ret' = to
  /\ current_pattern' = pattern
  /\ blinking' = (pattern # "solid")
  /\ work' = IF pattern = "solid" THEN "idle" ELSE work
  /\ ApplyLit
  /\ UNCHANGED current_status

(* status_led_pattern(), for a pattern that is not shown *)
LedPattern(pattern, to) ==
  /\ ret' = to
  /\ current_pattern' = pattern
  /\ IF pattern = "solid" THEN StopBlink
                          ELSE blinking' = TRUE /\ ApplyLit /\ UNCHANGED work
  /\ UNCHANGED current_status

(* A call that returns at once. *)
Skip(to) ==
  /\ pc' = to
  /\ UNCHANGED <<ret, led_vars, lit, work>>

(* Mutant: the cancellation does not wait for the handler. *)
CancelReturnsEarly ==
  /\ pc = "cancel"
  /\ ApplyLit
  /\ UNCHANGED <<ret, site, wq, available, led_vars, work,
                 handler_vars, channels, lte_vars>>

(* k_work_cancel_delayable_sync() returns. *)
Cancelled ==
  /\ pc = "cancel" /\ wq = "idle"
  /\ ApplyLit
  /\ UNCHANGED <<ret, site, wq, available, led_vars, work,
                 handler_vars, channels, lte_vars>>

MainRed ==
  /\ pc = "red"
  /\ pc' = "green"
  /\ SetChannel("red", Colours(current_status, TRUE))
  /\ UNCHANGED <<ret, site, wq, available, led_vars, lit, work,
                 handler_vars, lte_vars>>

MainGreen ==
  /\ pc = "green"
  /\ pc' = "restart"
  /\ SetChannel("green", Colours(current_status, TRUE))
  /\ UNCHANGED <<ret, site, wq, available, led_vars, lit, work,
                 handler_vars, lte_vars>>

(* Mutant: nothing schedules the first dark phase. *)
BlinkNotRestarted ==
  /\ pc = "restart"
  /\ pc' = ret
  /\ UNCHANGED <<ret, site, wq, available, led_vars, lit, work,
                 handler_vars, channels, lte_vars>>

(* The blink starts over with a whole lit phase. *)
BlinkRestarts ==
  /\ pc = "restart"
  /\ pc' = ret
  /\ work' = IF blinking THEN "scheduled" ELSE work
  /\ UNCHANGED <<ret, site, wq, available, led_vars, lit,
                 handler_vars, channels, lte_vars>>

InLed == Cancelled \/ MainRed \/ MainGreen \/ BlinkRestarts

-----------------------------------------------------------------------------
(* main(): the calls around those.                                         *)

StatusLedInit ==
  /\ pc = "boot"
  /\ available' \in BOOLEAN
  /\ IF available' THEN LedSet("off", "first") ELSE Skip("first")
  /\ UNCHANGED <<site, paint_vars, lte_vars>>

(* status_led_report(), up to the reading of the power *)
Report(from, fixes, to) ==
  /\ pc = from
  /\ site' = to
  /\ \E registered \in LteIsRegistered, have_fix \in fixes :
       IF available
         THEN LedSet(IF ~registered THEN "no_lte"
                     ELSE IF have_fix THEN "lte_fix" ELSE "lte_no_fix", "sample")
         ELSE Skip("sample")
  /\ UNCHANGED <<available, paint_vars, lte_vars>>

(* led_pattern(): "full" is a state of charge or the charger's own flag *)
PatternFor(vbus, readable, full) ==
  IF ~vbus THEN "battery" ELSE IF readable /\ full THEN "solid" ELSE "charging"

ShowPower ==
  /\ pc = "sample"
  /\ \E vbus, readable, full \in BOOLEAN :
       LET pattern == PatternFor(vbus, readable, full)
       IN  IF available /\ ~PatternIsShown(pattern)
             THEN LedPattern(pattern, site)
             ELSE Skip(site)
  /\ UNCHANGED <<site, available, paint_vars, lte_vars>>

At(from, to) ==
  /\ pc = from
  /\ pc' = to
  /\ UNCHANGED <<ret, site, available, led_vars, lit, work, paint_vars>>

(* recover_if_silent() may restart the modem. *)
Recover ==
  /\ At("recover", "query")
  /\ RadioRestarts \/ UNCHANGED lte_vars

(* lte_ensure_connected(), call by call *)
QueryRegistered ==
  /\ TRUE \in LteIsRegistered
  /\ At("query", "resumed")
  /\ UNCHANGED lte_vars

QueryNot ==
  /\ FALSE \in LteIsRegistered
  /\ At("query", "reset")
  /\ UNCHANGED lte_vars

Forget == At("reset", "connect") /\ SemReset

Connects == At("connect", "take") /\ ConnectAsync

ConnectFails == At("connect", "refused") /\ UNCHANGED lte_vars

Told == At("take", "resumed") /\ SemTaken

TimesOut ==
  /\ lte_connected_sem = 0
  /\ At("take", "timed_out")
  /\ UNCHANGED lte_vars

AttachFails ==
  /\ pc \in {"refused", "timed_out"}
  /\ IF available THEN LedSet("no_lte", "sleep") ELSE Skip("sleep")
  /\ UNCHANGED <<site, available, paint_vars, lte_vars>>

Attach ==
  \/ QueryRegistered \/ QueryNot \/ Forget \/ Connects \/ ConnectFails
  \/ Told \/ TimesOut \/ AttachFails

GnssStarts == At("start", "fix") /\ UNCHANGED lte_vars

GnssStartFails == At("start", "sleep") /\ UNCHANGED lte_vars

(* The condition of the frequent loop; a surge keeps it going on battery. *)
FrequentGoesOn == At("check", "fix") /\ UNCHANGED lte_vars

FrequentIsOver == At("check", "sleep") /\ UNCHANGED lte_vars

(* battery_sleep(), status_led_sleep() *)
LedSleep ==
  /\ pc = "sleep"
  /\ IF available /\ ~ON_BATTERY THEN LedSet("off", "asleep") ELSE Skip("asleep")
  /\ UNCHANGED <<site, available, paint_vars, lte_vars>>

Wakes == At("asleep", "recover") /\ UNCHANGED lte_vars

(* A reset of the chip leaves the PMIC as it is. *)
Reset ==
  /\ pc' = "boot" /\ ret' = "boot" /\ site' = "boot" /\ wq' = "idle"
  /\ available' = FALSE
  /\ current_status' = "off"
  /\ current_pattern' = "solid"
  /\ blinking' = FALSE /\ lit' = FALSE
  /\ work' = "idle"
  /\ painted' = {} /\ finite' = FALSE
  /\ LteRestart
  /\ UNCHANGED channels

Main ==
  \/ StatusLedInit
  \/ Report("first", {FALSE}, "recover")
  \/ Report("resumed", {FALSE}, "start")
  \/ Report("fix", BOOLEAN, "check")
  \/ ShowPower
  \/ Recover \/ Attach \/ GnssStarts \/ GnssStartFails
  \/ FrequentGoesOn \/ FrequentIsOver \/ LedSleep \/ Wakes

Modem ==
  /\ RadioRegisters \/ RadioLoses \/ lte_handler
  /\ UNCHANGED <<main_vars, available, led_vars, lit, work, paint_vars>>

Next == InLed \/ Main \/ Handler \/ Modem \/ Reset

Spec == Init /\ [][Next]_vars

(* Transfers on the bus end, and the workqueue runs whenever main blocks.  *)
FairSpec == Spec /\ WF_vars(InLed) /\ WF_vars(Handler)

-----------------------------------------------------------------------------
(* Nothing of status_led.c is in progress, and main is not between the two *)
(* calls of a report or about to darken the LED.                           *)
Settled == pc \in Outside \ {"sample", "sleep"} /\ wq = "idle"

(* On battery the LED stays dark for the whole sleep, whatever the blink   *)
(* work was doing when main went to sleep (status_led.c:176-180): a sink   *)
(* left on would drain the battery for nine minutes.                       *)
SleepsUnlit ==
  available /\ ~ON_BATTERY /\ pc = "asleep" => channels = {}

(* The pattern last asked for is the one shown: solid is lit for good, the *)
(* others have the next phase on the way.  A battery sleep stops the blink *)
(* without changing the pattern, and status_led_pattern() has to notice    *)
(* (status_led.c:149-158).                                                 *)
PatternHonoured ==
  Settled /\ available /\ current_status # "off" /\ ~RESUBMIT_SURVIVES =>
    IF current_pattern = "solid" THEN lit /\ work = "idle"
                                 ELSE blinking /\ work = "scheduled"

(* Main and the handler may overtake each other in the middle of a         *)
(* painting; colours that are wrong for it are painted over within a phase,*)
(* so an LED that nothing will touch again shows the status                *)
(* (status_led.c:74-93, 135-140).                                          *)
SteadyIsTrue ==
  Settled /\ available /\ work = "idle" /\ ~RESUBMIT_SURVIVES =>
    channels = Colours(current_status, lit)

(* A blink goes dark again until something stops it: the handler asks for  *)
(* its next run and is not lost between two calls (status_led.c:87-93).   *)
Blinks == (blinking /\ lit) ~> (~lit \/ ~blinking)

(* The registration that ends the wait is one that was notified since the  *)
(* wait was prepared, and not one of a cycle before (main.c:82, 93-99).    *)
AttachIsNews ==
  pc = "take" /\ lte_connected_sem = 1 => told

(* An attach that times out over a registered modem whose notification has *)
(* been handled is one that registered before the semaphore was reset,     *)
(* after the query: the window of main.c:78-82, and no wider.              *)
OnlyEarlyIsMissed ==
  [][pc = "take" /\ pc' = "timed_out" /\ radio = "registered" /\ notices = 0
       => held]_vars
=============================================================================
