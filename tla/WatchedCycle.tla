---------------------------- MODULE WatchedCycle ----------------------------
(***************************************************************************)
(* The report loop against the clock of the watchdog: every call of main.c *)
(* that takes time, the feeds, guards and phase markers around it, and a   *)
(* call that may never return.  "pc" is the call the main thread is in.    *)
(* A short call next to a longer one is counted with it, and the network   *)
(* calls take as long as the configuration says they may.                  *)
(***************************************************************************)
EXTENDS Watchdog

CONSTANTS
  EXTERNAL,             (* CONFIG_TRACKER_GNSS_EXTERNAL                    *)
  MODEM_FALLBACK,       (* CONFIG_TRACKER_GNSS_EXT_MODEM_FALLBACK          *)
  AGNSS,                (* CONFIG_TRACKER_AGNSS, with a cloud that has it  *)
  FORCE_PUBLISH,        (* CONFIG_TRACKER_FORCE_PUBLISH_WITHOUT_FIX        *)
  SLEEP,                (* CONFIG_TRACKER_SLEEP_SECONDS                    *)
  LTE_TIMEOUT,          (* CONFIG_TRACKER_LTE_CONNECT_TIMEOUT_SECONDS      *)
  CONNECT_BUDGET,       (* CONFIG_TRACKER_CLOUD_CONNECT_BUDGET_SECONDS     *)
  AGNSS_BUDGET,         (* CONFIG_TRACKER_AGNSS_BUDGET_SECONDS             *)
  PROACTIVE_WAIT,       (* CONFIG_TRACKER_AGNSS_PROACTIVE_WAIT_SECONDS     *)
  FIX_TIMEOUT,          (* the longest of the fix timeouts                 *)
  EXTRA_FIX,            (* CONFIG_TRACKER_GNSS_EXTRA_FIX_SECONDS and 5 s   *)
  CHARGING_INTERVAL,    (* CONFIG_TRACKER_CHARGING_INTERVAL_SECONDS        *)
  GLANCE,               (* the 10 s wait of the frequent loop              *)
  SEND,                 (* the longest a working send takes                *)
  CALL                  (* the longest a working device access takes       *)

ASSUME CycleAssumption ==
  /\ {EXTERNAL, MODEM_FALLBACK, AGNSS, FORCE_PUBLISH} \subseteq BOOLEAN
  /\ {SLEEP, LTE_TIMEOUT, CONNECT_BUDGET, AGNSS_BUDGET, PROACTIVE_WAIT,
      FIX_TIMEOUT, EXTRA_FIX, CHARGING_INTERVAL, GLANCE, SEND, CALL}
       \subseteq Nat

(* What the watchdog's timeout has to cover, from one feed to the next.    *)
ASSUME TimingAssumption ==
  /\ SLEEP + LTE_TIMEOUT + GLANCE + 5 * CALL < WDT_TIMEOUT
  /\ 2 * FIX_TIMEOUT + 2 * PROACTIVE_WAIT + 4 * CALL < WDT_TIMEOUT
  /\ EXTRA_FIX + 2 * SEND < WDT_TIMEOUT
  /\ GLANCE + 2 * SEND < WDT_TIMEOUT
  /\ CHARGING_INTERVAL + GLANCE + CALL < WDT_TIMEOUT
  /\ CONNECT_BUDGET < WDT_TIMEOUT
  /\ AGNSS_BUDGET < WDT_TIMEOUT

VARIABLES
  pc,         (* the call that the main thread is in                       *)
  stage,      (* which fix window it is, or the frequent loop              *)
  active,     (* the receiver that has the cycle                           *)
  assisted,   (* assistance was injected in this cycle                     *)
  spent,      (* time spent in the call                                    *)
  hung        (* the call is not going to return                           *)

place == <<pc, stage, spent, hung>>
cycle_vars == <<place, active, assisted>>
vars == <<cycle_vars, watchdog_vars>>

Guarded == {"resume", "retry", "fetch"}

Wait == {"request", "fix", "settle", "interval", "glance", "sleep"}

Device ==
  {"boot", "init", "recover", "led_before", "start", "led_after", "stop",
   "pause", "led_sleep", "arm"}

Label == Guarded \cup Wait \cup Device
           \cup {"lte", "send", "resend", "location", "returned"}

Stage == {"first", "fallback", "last", "frequent"}

(* How long a call takes that returns. *)
Limit(call) ==
  CASE call = "lte" -> LTE_TIMEOUT + CALL
    [] call \in {"resume", "retry"} -> CONNECT_BUDGET
    [] call = "fetch" -> AGNSS_BUDGET
    [] call = "request" -> PROACTIVE_WAIT
    [] call = "fix" -> FIX_TIMEOUT + CALL
    [] call = "settle" -> EXTRA_FIX
    [] call = "interval" -> CHARGING_INTERVAL
    [] call = "glance" -> GLANCE
    [] call = "sleep" -> SLEEP
    [] call \in {"send", "resend", "location"} -> SEND
    [] OTHER -> CALL

Init ==
  /\ pc = "boot"
  /\ stage = "first"
  /\ active = "modem"
  /\ assisted = FALSE
  /\ spent = 0
  /\ hung = FALSE
  /\ WatchdogInit

(* The call that main is in returns, and main goes on to the next one. *)
Returns(from, to) ==
  /\ pc = from /\ ~hung
  /\ pc' = to
  /\ spent' = 0
  /\ UNCHANGED hung

Then(from, to) == Returns(from, to) /\ UNCHANGED <<stage, active, assisted>>

Unfed == UNCHANGED <<age, guard_vars>>
Feed == watchdog_feed /\ UNCHANGED guard_vars
Mark(p) == watchdog_phase(p) /\ UNCHANGED watched
Unmarked == UNCHANGED <<phase_vars, watched>>

-----------------------------------------------------------------------------
(* Start-up.  nrf_modem_lib_init() runs unwatched.                         *)

ModemInitFails ==
  /\ pc = "boot" /\ ~hung
  /\ pc' = "returned" /\ hung' = TRUE /\ spent' = 0
  /\ UNCHANGED <<stage, active, assisted, watchdog_vars>>

(* A marker may survive a reset, and nothing guarantees that it does. *)
StartsWatchdog ==
  /\ Then("boot", "init")
  /\ \E retained \in BOOLEAN : watchdog_init(retained)

(* main() returns, and the watchdog runs. *)
GnssInitFails ==
  /\ pc = "init" /\ ~hung
  /\ pc' = "returned" /\ hung' = TRUE /\ spent' = 0
  /\ UNCHANGED <<stage, active, assisted, watchdog_vars>>

(* Mutant: the top of the loop does not feed. *)
LoopTopUnfed ==
  /\ \E from \in {"init", "sleep"} : Returns(from, "recover")
  /\ stage' = "first" /\ assisted' = FALSE
  /\ Unfed /\ Mark("wake")
  /\ UNCHANGED active

LoopTop ==
  /\ \E from \in {"init", "sleep"} : Returns(from, "recover")
  /\ stage' = "first" /\ assisted' = FALSE
  /\ Feed /\ Mark("wake")
  /\ UNCHANGED active

-----------------------------------------------------------------------------
(* The network and the cloud link.                                         *)

(* recover_if_silent(), with or without restarting the modem. *)
Recovers == Then("recover", "lte") /\ Unfed /\ Mark("lte")

Restart ==
  /\ pc' = "boot" /\ stage' = "first" /\ active' = "modem"
  /\ assisted' = FALSE /\ spent' = 0 /\ hung' = FALSE

(* "Nothing sent for %lld min, rebooting" *)
Reboots ==
  /\ pc = "recover" /\ ~hung
  /\ Restart
  /\ watched' = FALSE /\ age' = 0 /\ guard_feeds_left' = 0 /\ guard_in' = 0
  /\ watchdog_phase("no-network")

LteConnected ==
  /\ Then("lte", "resume")
  /\ watchdog_guard_start(CONNECT_BUDGET) /\ Mark("cloud-resume")

LteFails == Then("lte", "led_sleep") /\ Unfed /\ Mark("led-sleep")

(* modem_time_wait() feeds after every poll. *)
PollsModemTime ==
  /\ pc \in {"resume", "retry"} /\ ~hung
  /\ Feed /\ Unmarked
  /\ UNCHANGED cycle_vars

Resumed ==
  /\ Then("resume", "led_before")
  /\ watchdog_guard_stop /\ Unmarked

LedBefore == Then("led_before", "start") /\ Unfed /\ Mark("gnss-start")

-----------------------------------------------------------------------------
(* Acquisition: first the preferred receiver, then the modem, then once    *)
(* more with assistance.                                                   *)

(* agnss_wanted(): the rest of its condition is the cloud's. *)
Wanted(source) == AGNSS /\ source = "modem"

(* A started receiver is asked whether it wants assistance, or listened to *)
(* right away.                                                             *)
Listens(source) ==
  /\ pc' \in IF Wanted(source) THEN {"request", "fix"} ELSE {"fix"}
  /\ spent' = 0
  /\ active' = source
  /\ UNCHANGED <<hung, assisted>>

(* The phase marker becomes "fix" after the wait; no feed in between. *)
Started ==
  /\ pc = "start" /\ ~hung
  /\ \E source \in IF EXTERNAL THEN {"external", "modem"} ELSE {"modem"} :
       Listens(source)
  /\ Unfed
  /\ Mark(IF pc' = "fix" THEN "fix" ELSE "gnss-start")
  /\ UNCHANGED stage

(* cloud_pause() under the marker of gnss_start() *)
StartFails ==
  /\ Returns("start", "pause")
  /\ active' = "modem"
  /\ Unfed /\ Unmarked
  /\ UNCHANGED <<stage, assisted>>

(* agnss_fetch_and_inject() with its guard; main marks only the first. *)
Fetches ==
  /\ Then("request", "fetch")
  /\ watchdog_guard_start(AGNSS_BUDGET)
  /\ IF stage = "first" THEN Mark("agnss") ELSE Unmarked

(* No request came, or the last download was not long ago. *)
NoFetch == Then("request", "fix") /\ Unfed /\ Mark("fix")

Fetched ==
  /\ stage # "last"
  /\ Returns("fetch", "fix")
  /\ assisted' \in BOOLEAN
  /\ watchdog_guard_stop /\ Mark("fix")
  /\ UNCHANGED <<stage, active>>

CanFallBack == stage = "first" /\ active = "external" /\ MODEM_FALLBACK

(* "falling back to the onboard receiver" *)
FallsBack ==
  /\ pc = "fix" /\ ~hung
  /\ CanFallBack
  /\ stage' = "fallback"
  /\ Listens("modem")
  /\ Unfed /\ Unmarked

(* A failed fallback leaves the modem as the active receiver. *)
LeftWith == IF CanFallBack THEN "modem" ELSE active

(* "falling back to A-GNSS assistance" *)
LastResort ==
  /\ stage # "last" /\ ~assisted /\ Wanted(LeftWith)
  /\ Returns("fix", "fetch")
  /\ stage' = "last" /\ active' = LeftWith
  /\ watchdog_guard_start(AGNSS_BUDGET) /\ Unmarked
  /\ UNCHANGED assisted

LastFetched ==
  /\ stage = "last"
  /\ Then("fetch", "fix")
  /\ watchdog_guard_stop /\ Unmarked

HaveFix ==
  /\ Then("fix", "settle")
  /\ Feed /\ Unmarked

(* Reports or skips the report when there is no position. *)
WithoutFix(from) ==
  /\ Returns(from, IF FORCE_PUBLISH THEN "send" ELSE "led_after")
  /\ IF FORCE_PUBLISH THEN Mark("report") ELSE Unmarked

(* The windows are over, or the last download failed. *)
NoFix ==
  /\ \/ WithoutFix("fix") /\ active' = LeftWith /\ Feed
     \/ /\ stage = "last" /\ WithoutFix("fetch")
        /\ watchdog_guard_stop /\ UNCHANGED active
  /\ UNCHANGED <<stage, assisted>>

-----------------------------------------------------------------------------
(* report_fix()                                                            *)

(* Mutant: the report is sent under the marker of the fix. *)
SettledUnmarked == Then("settle", "send") /\ Unfed /\ Unmarked

Settled == Then("settle", "send") /\ Unfed /\ Mark("report")

SendStale ==
  /\ Then("send", "retry")
  /\ watchdog_guard_start(CONNECT_BUDGET) /\ Unmarked

Retried ==
  /\ Then("retry", "resend")
  /\ watchdog_guard_stop /\ Unmarked

(* The portal's location message follows a report with a fix. *)
SendsLocation ==
  /\ \E from \in {"send", "resend"} : Then(from, "location")
  /\ Unfed /\ Unmarked

(* Sent, failed or given up: the last line feeds. *)
Reported ==
  /\ \/ Then("retry", "led_after") /\ watchdog_guard_stop
     \/ \E from \in {"send", "resend", "location"} :
          Then(from, "led_after") /\ Feed
  /\ Unmarked

-----------------------------------------------------------------------------
(* Frequent reporting, and the way to the battery sleep.                   *)

(* The first report of a cycle is followed by one more feed. *)
FedOnce == IF stage = "frequent" THEN Unfed ELSE Feed

StaysOn ==
  /\ Returns("led_after", "interval")
  /\ stage' = "frequent"
  /\ FedOnce /\ Mark("frequent-loop")
  /\ UNCHANGED <<active, assisted>>

IntervalOver == Then("interval", "glance") /\ Feed /\ Unmarked

Glanced ==
  /\ \/ Then("glance", "send") /\ Mark("report")
     \/ ~FORCE_PUBLISH /\ Then("glance", "led_after") /\ Unmarked
  /\ Unfed

Stops == Then("led_after", "stop") /\ FedOnce /\ Mark("gnss-stop")
Stopped == Then("stop", "pause") /\ Unfed /\ Mark("cloud-pause")
Paused == Then("pause", "led_sleep") /\ Unfed /\ Mark("led-sleep")
LedOff == Then("led_sleep", "arm") /\ Unfed /\ Mark("motion-arm")
Armed == Then("arm", "sleep") /\ Unfed /\ Mark("sleep")

-----------------------------------------------------------------------------
(* Time, calls that never return, and resets.                              *)

(* A kernel wait with a timeout ends; everything else may not. *)
Hangs ==
  /\ pc \notin Wait \cup {"returned"} /\ ~hung
  /\ hung' = TRUE
  /\ UNCHANGED <<pc, stage, active, assisted, spent, watchdog_vars>>

Tick ==
  /\ hung \/ spent < Limit(pc)
  /\ Elapse
  /\ spent' = IF hung /\ ~watched THEN spent ELSE spent + 1
  /\ UNCHANGED <<pc, stage, active, assisted, hung>>

WatchdogResets ==
  /\ Fires
  /\ Restart /\ WatchdogRestart

(* The button or the power switch. *)
Reset == Restart /\ WatchdogRestart

-----------------------------------------------------------------------------
Startup == ModemInitFails \/ StartsWatchdog \/ GnssInitFails \/ LoopTop

Network ==
  Recovers \/ Reboots \/ LteConnected \/ LteFails \/ PollsModemTime
    \/ Resumed \/ LedBefore

Acquisition ==
  Started \/ StartFails \/ Fetches \/ NoFetch \/ Fetched \/ FallsBack
    \/ LastResort \/ LastFetched \/ HaveFix \/ NoFix

Report == Settled \/ SendStale \/ Retried \/ SendsLocation \/ Reported

Park ==
  StaysOn \/ IntervalOver \/ Glanced \/ Stops \/ Stopped \/ Paused \/ LedOff
    \/ Armed

Clock == Hangs \/ Tick \/ WatchdogResets \/ Reset

Next == Startup \/ Network \/ Acquisition \/ Report \/ Park \/ Clock

Spec == Init /\ [][Next]_vars

-----------------------------------------------------------------------------
(* Properties                                                              *)

TypeOK ==
  /\ pc \in Label
  /\ stage \in Stage
  /\ active \in {"external", "modem"}
  /\ assisted \in BOOLEAN
  /\ spent \in Nat
  /\ hung \in BOOLEAN
  /\ watched \in BOOLEAN
  /\ age \in 0..WDT_TIMEOUT
  /\ guard_feeds_left \in Nat
  /\ guard_in \in 0..WDT_GUARD_PERIOD
  /\ phase_current \in Phase
  /\ phase_at_reset \in Phase

(* The watchdog never resets a tracker that works: on every path from one  *)
(* feed to the next, failed attaches, fallbacks, retries and the full      *)
(* battery sleep included, the time it may legally take stays below the    *)
(* timeout (watchdog.c:16-18 and the feeds of main.c).                     *)
NoSpuriousReset == Fires => hung

(* What the guard may add to the timeout. *)
Grace(call) ==
  LET Rounded(budget) ==
        DivRoundUp(budget, WDT_GUARD_PERIOD) * WDT_GUARD_PERIOD
  IN CASE call \in {"resume", "retry"} -> Rounded(CONNECT_BUDGET)
       [] call = "fetch" -> Rounded(AGNSS_BUDGET)
       [] OTHER -> 0

(* "a call that never returns still resets the device" (watchdog.h:63-65): *)
(* no call outlasts its guard and the timeout together, whatever fed       *)
(* before it or feeds during it.                                           *)
HangBounded == watched => spent <= Grace(pc) + WDT_TIMEOUT

(* A reset by the watchdog is not taken for the deliberate reboot of a     *)
(* silent tracker, whose marker is retained in the same place              *)
(* (main.c:285-289, watchdog.c:67-87).                                     *)
ResetIsNotReboot == Fires => phase_current # "no-network"

(* The marker that watchdog.h:20-47 has for a call.  A device call or a    *)
(* request that it has none for keeps that of the call before.             *)
Marks(call, window) ==
  CASE call = "init" -> {"none"}
    [] call = "recover" -> {"wake"}
    [] call = "lte" -> {"lte"}
    [] call \in {"resume", "led_before"} -> {"cloud-resume"}
    [] call = "start" -> {"gnss-start"}
    [] call = "request" -> {IF window = "first" THEN "gnss-start" ELSE "fix"}
    [] call = "fetch" -> {"agnss"}
    [] call \in {"fix", "settle"} -> {"fix"}
    [] call \in {"send", "retry", "resend", "location"} -> {"report"}
    [] call = "led_after" ->
         {"report", IF window = "frequent" THEN "frequent-loop" ELSE "fix"}
    [] call \in {"interval", "glance"} -> {"frequent-loop"}
    [] call = "stop" -> {"gnss-stop"}
    [] call = "pause" -> {"cloud-pause"}
    [] call = "led_sleep" -> {"led-sleep"}
    [] call = "arm" -> {"motion-arm"}
    [] call = "sleep" -> {"sleep"}
    [] OTHER -> Phase

Named == phase_current \in Marks(pc, stage)

(* main.c:491 and 506: fetches under the marker of the wait for a fix *)
FetchUnmarked == pc = "fetch" /\ stage # "first" /\ phase_current = "fix"

(* main.c:456: cloud_pause() under the marker of the failed gnss_start() *)
PauseUnmarked == pc = "pause" /\ phase_current = "gnss-start"

(* "a breadcrumb saying where the report loop was when it last fired"      *)
(* (watchdog.h:2-3).  main.c breaks that in two calls, which leave another *)
(* one's marker: a download for a later window ("assistance fetch and      *)
(* inject" has its own, watchdog.h:29) and the pause after a failed start. *)
(* These two, with that one marker each, are all that is wrong: over every *)
(* retry, fallback, skipped report and turn of the frequent loop any other *)
(* call that hangs is told by its own.                                     *)
MarkerTells == Named \/ FetchUnmarked \/ PauseUnmarked
=============================================================================
