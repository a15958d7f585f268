---------------------------- MODULE Acquisition ----------------------------
(***************************************************************************)
(* From gnss_start() to gnss_stop(): the arbiter between the two receivers *)
(* (gnss.c), the assistance fetch (agnss.c) and the part of main.c that    *)
(* drives them, with the events of both receivers in between.              *)
(*                                                                         *)
(* Time is told in units of the rate limit: MinInterval of them make       *)
(* CONFIG_TRACKER_AGNSS_MIN_INTERVAL_SECONDS.  A sleep, a report and a     *)
(* window without a fix take up to one, shorter calls none.  A reset is    *)
(* Init: all of this lives in RAM.                                         *)
(***************************************************************************)
EXTENDS GnssModem, GnssExt

CONSTANTS
  EXTERNAL,           (* CONFIG_TRACKER_GNSS_EXTERNAL                      *)
  MODEM_FALLBACK,     (* CONFIG_TRACKER_GNSS_EXT_MODEM_FALLBACK            *)
  POWER_CYCLE,        (* CONFIG_TRACKER_GNSS_EXT_POWER_CYCLE               *)
  AGNSS,              (* CONFIG_TRACKER_AGNSS, on a provider that serves it *)
  STOP_DURING_FETCH,  (* CONFIG_TRACKER_AGNSS_STOP_GNSS_DURING_FETCH       *)
  FULL_REQUEST,       (* CONFIG_TRACKER_AGNSS_FULL_REQUEST_FALLBACK        *)
  EXTRA_FIX,          (* CONFIG_TRACKER_GNSS_EXTRA_FIX_SECONDS > 0         *)
  MinInterval,        (* the rate limit                                    *)
  MaxAge              (* bound: an age is not followed beyond it           *)

ASSUME AcquisitionAssumption ==
  /\ EXTERNAL \in BOOLEAN /\ MODEM_FALLBACK \in BOOLEAN
  /\ POWER_CYCLE \in BOOLEAN /\ AGNSS \in BOOLEAN
  /\ STOP_DURING_FETCH \in BOOLEAN /\ FULL_REQUEST \in BOOLEAN
  /\ EXTRA_FIX \in BOOLEAN
  /\ MODEM_FALLBACK => EXTERNAL
  /\ MinInterval \in Nat
  /\ MaxAge \in Nat /\ MaxAge >= MinInterval

VARIABLES
  pc,               (* main thread                                         *)
  stage,            (* which of the waits for a fix this is                *)
  active,           (* gnss.c: the receiver of this cycle                  *)
  external_usable,
  assisted,         (* main.c: assistance was injected in this cycle       *)
  have_fix,
  fix_age,          (* when the fix that main holds came                   *)
  fetch_age,        (* time since the last fetch, MaxAge without one       *)
  start_failed      (* history: the onboard receiver's last start in this  *)
                    (* cycle failed                                        *)

gnss_vars == <<active, external_usable>>
fix_vars == <<have_fix, fix_age>>
vars == <<pc, stage, gnss_vars, assisted, fix_vars, fetch_age, start_failed,
          modem_vars, ext_vars>>

Label == {"boot", "halted", "top", "ask", "request", "fetch", "download",
          "begin", "wait", "fallback", "last", "settle", "report", "check",
          "interval", "asleep"}

Stage == {"first", "fallback", "last", "settle", "frequent"}

Source == {"modem", "external"}

MainTypeOK ==
  /\ pc \in Label
  /\ stage \in Stage
  /\ active \in Source
  /\ external_usable \in BOOLEAN
  /\ assisted \in BOOLEAN
  /\ have_fix \in BOOLEAN
  /\ fix_age \in FixAge
  /\ start_failed \in BOOLEAN

ClockTypeOK == fetch_age \in Nat

(* Every variable holds a value of its C type, and no semaphore counts     *)
(* beyond its limit (gnss_modem.c:27-28, gnss_ext.c:47).                   *)
TypeOK == MainTypeOK /\ ClockTypeOK /\ ModemTypeOK /\ ExtTypeOK

Init ==
  /\ pc = "boot"
  /\ stage = "first"
  /\ active = "modem"
  /\ external_usable = FALSE
  /\ assisted = FALSE
  /\ have_fix = FALSE
  /\ fix_age = "none"
  /\ fetch_age = MaxAge
  /\ start_failed = FALSE
  /\ ModemInit /\ ExtInit

Goto(from, to) ==
  /\ pc = from
  /\ pc' = to

Older(age, d) == IF age + d <= MaxAge THEN age + d ELSE age

TimePasses == \E d \in {0, 1} : fetch_age' = Older(fetch_age, d)

-----------------------------------------------------------------------------
(* gnss_init(): one receiver is enough. *)
gnss_init ==
  /\ \E modem_ok \in BOOLEAN, ext_ok \in {FALSE, EXTERNAL} :
       /\ Goto("boot", IF modem_ok \/ ext_ok THEN "top" ELSE "halted")
       /\ gnss_modem_init(modem_ok)
       /\ external_usable' = ext_ok
       /\ active' = IF ext_ok THEN "external" ELSE "modem"
  /\ UNCHANGED <<stage, assisted, fix_vars, fetch_age, start_failed, ext_vars>>

(* lte_ensure_connected() failed: the receivers are not touched. *)
CycleSkipped ==
  /\ Goto("top", "asleep")
  /\ UNCHANGED <<stage, gnss_vars, assisted, fix_vars, fetch_age, start_failed,
                 modem_vars, ext_vars>>

(* gnss_start() on the external module: assistance is not for it. *)
StartExternal ==
  /\ external_usable
  /\ Goto("top", "begin")
  /\ stage' = "first"
  /\ active' = "external"
  /\ assisted' = FALSE
  /\ start_failed' = FALSE
  /\ ext_starts
  /\ UNCHANGED <<external_usable, fix_vars, fetch_age, modem_vars>>

(* gnss_start() on the onboard receiver, without or after the module. *)
StartModem ==
  /\ IF external_usable THEN ext_start_fails ELSE UNCHANGED ext_vars
  /\ active' = "modem"
  /\ \E ok \in BOOLEAN :
       /\ Goto("top", IF ok THEN "ask" ELSE "asleep")
       /\ gnss_modem_start(ok)
       /\ start_failed' = ~ok
  /\ stage' = "first"
  /\ assisted' = FALSE
  /\ UNCHANGED <<external_usable, fix_vars, fetch_age>>

-----------------------------------------------------------------------------
(* Assistance.                                                             *)

(* agnss_wanted(), where the cloud session is ready *)
agnss_wanted == AGNSS /\ active = "modem"

(* gnss_agnss_request_wait() begins... *)
Ask ==
  /\ agnss_wanted
  /\ Goto("ask", "request")
  /\ UNCHANGED <<stage, gnss_vars, assisted, fix_vars, fetch_age, start_failed,
                 modem_vars, ext_vars>>

(* ...or is not reached, or times out. *)
AskNot ==
  /\ Goto("ask", "begin") \/ (Goto("request", "begin") /\ agnss_req_sem = 0)
  /\ UNCHANGED <<stage, gnss_vars, assisted, fix_vars, fetch_age, start_failed,
                 modem_vars, ext_vars>>

Asked ==
  /\ Goto("request", "fetch")
  /\ modem_request_taken
  /\ UNCHANGED <<stage, gnss_vars, assisted, fix_vars, fetch_age, start_failed,
                 ext_vars>>

(* A fetch that fails for the last resort leaves no wait to make. *)
AfterFetch(ok) == IF stage = "last" /\ ~ok THEN "report" ELSE "begin"

(* The last resort has no use for the flag. *)
Note(ok) == assisted' = IF stage = "last" THEN assisted ELSE ok

(* Mutant: one fetch a cycle, however long ago the last one was. *)
rate_limited_by_cycle == assisted

rate_limited == fetch_age < MinInterval

FetchDeclined ==
  /\ rate_limited
  /\ Goto("fetch", AfterFetch(FALSE))
  /\ Note(FALSE)
  /\ UNCHANGED <<stage, gnss_vars, fix_vars, fetch_age, start_failed,
                 modem_vars, ext_vars>>

(* agnss_fetch_and_inject() up to the exchange with the cloud *)
FetchBegins ==
  /\ ~rate_limited
  /\ Goto("fetch", "download")
  /\ IF STOP_DURING_FETCH THEN gnss_modem_stop ELSE UNCHANGED modem_vars
  /\ UNCHANGED <<stage, gnss_vars, assisted, fix_vars, fetch_age, start_failed,
                 ext_vars>>

(* Mutant: an early return on failure skips the restart. *)
RestartIfInjected(injected, restarted) ==
  IF STOP_DURING_FETCH /\ injected
    THEN gnss_modem_start(restarted) /\ start_failed' = ~restarted
    ELSE restarted /\ UNCHANGED <<modem_vars, start_failed>>

(* The receiver is started again, whatever came of the fetch. *)
RestartAfter(injected, restarted) ==
  IF STOP_DURING_FETCH
    THEN gnss_modem_start(restarted) /\ start_failed' = ~restarted
    ELSE restarted /\ UNCHANGED <<modem_vars, start_failed>>

(* ...and from its end on. *)
FetchEnds ==
  /\ \E got, injected, restarted \in BOOLEAN :
       LET done == injected /\ restarted IN
       /\ got => agnss_req_valid \/ FULL_REQUEST
       /\ injected => got
       /\ Goto("download", AfterFetch(done))
       /\ RestartAfter(injected, restarted)
       /\ Note(done)
       /\ fetch_age' = IF injected THEN 0 ELSE fetch_age
  /\ UNCHANGED <<stage, gnss_vars, fix_vars, ext_vars>>

-----------------------------------------------------------------------------
(* Waiting for a fix.                                                      *)

(* gnss_wait_fix() up to its wait *)
WaitBegins ==
  /\ Goto("begin", "wait")
  /\ IF active = "external"
       THEN ext_wait_begins /\ UNCHANGED modem_vars
       ELSE modem_wait_begins /\ UNCHANGED ext_vars
  /\ UNCHANGED <<stage, gnss_vars, assisted, fix_vars, fetch_age, start_failed>>

(* The first fix settles; what comes after is reported as it is. *)
AfterFix == IF stage \in {"first", "fallback", "last"} THEN "settle"
                                                       ELSE "report"

WaitGetsFix ==
  /\ Goto("wait", AfterFix)
  /\ IF active = "external"
       THEN ext_wait_takes /\ fix_age' = last_fix /\ UNCHANGED modem_vars
       ELSE modem_wait_takes /\ fix_age' = last_pvt /\ UNCHANGED ext_vars
  /\ have_fix' = TRUE
  /\ UNCHANGED <<stage, gnss_vars, assisted, fetch_age, start_failed>>

gnss_fallback_available == active = "external" /\ MODEM_FALLBACK

AfterTimeout ==
  IF stage = "first" /\ gnss_fallback_available THEN "fallback"
  ELSE IF stage \in {"first", "fallback"} THEN "last" ELSE "report"

(* A wait for a better fix leaves the first one as it is. *)
WaitTimesOut ==
  /\ Goto("wait", AfterTimeout)
  /\ IF active = "external" THEN ext_fix_sem = 0 ELSE modem_fix_sem = 0
  /\ have_fix' = (have_fix /\ stage = "settle")
  /\ TimePasses
  /\ UNCHANGED <<stage, gnss_vars, assisted, fix_age, start_failed,
                 modem_vars, ext_vars>>

(* Mutants: the module is not stopped; the arbiter stays on the module. *)
fallback_leaves_module ==
  /\ \E ok \in BOOLEAN :
       /\ Goto("fallback", IF ok THEN "ask" ELSE "last")
       /\ gnss_modem_start(ok)
       /\ start_failed' = ~ok
  /\ active' = "modem"
  /\ stage' = "fallback"
  /\ UNCHANGED <<external_usable, assisted, fix_vars, fetch_age, ext_vars>>

fallback_stays_external ==
  /\ \E ok \in BOOLEAN :
       /\ Goto("fallback", IF ok THEN "ask" ELSE "last")
       /\ gnss_modem_start(ok)
       /\ start_failed' = ~ok
  /\ gnss_ext_stop(TRUE)
  /\ stage' = "fallback"
  /\ UNCHANGED <<gnss_vars, assisted, fix_vars, fetch_age>>

gnss_fallback ==
  /\ \E ok \in BOOLEAN :
       /\ Goto("fallback", IF ok THEN "ask" ELSE "last")
       /\ gnss_modem_start(ok)
       /\ start_failed' = ~ok
  /\ gnss_ext_stop(TRUE)
  /\ active' = "modem"
  /\ stage' = "fallback"
  /\ UNCHANGED <<external_usable, assisted, fix_vars, fetch_age>>

(* Assistance as the last resort, once a cycle... *)
LastResort ==
  /\ ~assisted /\ agnss_wanted
  /\ Goto("last", "fetch")
  /\ stage' = "last"
  /\ UNCHANGED <<gnss_vars, assisted, fix_vars, fetch_age, start_failed,
                 modem_vars, ext_vars>>

(* ...or not: tried before, not for this receiver, or no session. *)
GiveUp ==
  /\ Goto("last", "report")
  /\ UNCHANGED <<stage, gnss_vars, assisted, fix_vars, fetch_age, start_failed,
                 modem_vars, ext_vars>>

(* The sleep before the better fix *)
Settle ==
  /\ Goto("settle", IF EXTRA_FIX THEN "begin" ELSE "report")
  /\ stage' = "settle"
  /\ UNCHANGED <<gnss_vars, assisted, fix_vars, fetch_age, start_failed,
                 modem_vars, ext_vars>>

-----------------------------------------------------------------------------
(* The report, and what follows it.                                        *)

Report ==
  /\ Goto("report", "check")
  /\ TimePasses
  /\ UNCHANGED <<stage, gnss_vars, assisted, fix_vars, start_failed,
                 modem_vars, ext_vars>>

(* Powered, or in a surge: the receiver is left on... *)
Frequent ==
  /\ Goto("check", "interval")
  /\ stage' = "frequent"
  /\ UNCHANGED <<gnss_vars, assisted, fix_vars, fetch_age, start_failed,
                 modem_vars, ext_vars>>

Interval ==
  /\ Goto("interval", "begin")
  /\ TimePasses
  /\ UNCHANGED <<stage, gnss_vars, assisted, fix_vars, start_failed,
                 modem_vars, ext_vars>>

(* ...or on battery: gnss_stop(). *)
gnss_stop ==
  /\ Goto("check", "asleep")
  /\ IF active = "external"
       THEN gnss_ext_stop(POWER_CYCLE) /\ UNCHANGED modem_vars
       ELSE gnss_modem_stop /\ UNCHANGED ext_vars
  /\ UNCHANGED <<stage, gnss_vars, assisted, fix_vars, fetch_age, start_failed>>

(* The workqueue is one thread, and what wakes the tracker early comes     *)
(* from it: the parser's work is done by then.                             *)
WakeUp ==
  /\ nmea = "idle"
  /\ Goto("asleep", "top")
  /\ TimePasses
  /\ UNCHANGED <<stage, gnss_vars, assisted, fix_vars, start_failed,
                 modem_vars, ext_vars>>

-----------------------------------------------------------------------------
ModemEvent ==
  /\ PvtEvent \/ AgnssReqEvent
  /\ UNCHANGED <<pc, stage, gnss_vars, assisted, fix_vars, fetch_age,
                 start_failed, ext_vars>>

NmeaEvent ==
  /\ NmeaStore \/ NmeaGive
  /\ UNCHANGED <<pc, stage, gnss_vars, assisted, fix_vars, fetch_age,
                 start_failed, modem_vars>>

Fetching == Ask \/ AskNot \/ Asked \/ FetchDeclined \/ FetchBegins \/ FetchEnds

Next ==
  \/ gnss_init \/ CycleSkipped \/ StartExternal \/ StartModem
  \/ Fetching
  \/ WaitBegins \/ WaitGetsFix \/ WaitTimesOut \/ gnss_fallback
  \/ LastResort \/ GiveUp \/ Settle
  \/ Report \/ Frequent \/ Interval \/ gnss_stop \/ WakeUp
  \/ ModemEvent \/ NmeaEvent

Spec == Init /\ [][Next]_vars

-----------------------------------------------------------------------------
(* Properties                                                              *)

(* The receiver whose fix main would wait for is on. *)
Receiving == IF active = "external" THEN listening ELSE running

(* The two receivers are never on together: a cycle that is handed over,   *)
(* at its start or after the module's window, has the module's UART shut   *)
(* and its power cut, whatever failed on the way (gnss.c:66-86, 133-157).  *)
OneReceiver ==
  running => ~listening /\ (PinFaults \/ ~powered)

(* The tracker never sleeps on a running receiver, from whichever branch   *)
(* it went to sleep: a failed attach, a failed start, a fallback, a fetch  *)
(* that restarted the receiver behind gnss.c's back (main.c:427-459, 588). *)
SleepsDark ==
  pc = "asleep" =>
    ~running /\ ~listening /\ (POWER_CYCLE /\ ~PinFaults => ~powered)

(* No report carries a fix from before the wait it came from: not over a   *)
(* pause of the receiver, a hand-over or the frequent loop's sleep.  One   *)
(* that the parser was about to signal is the exception                    *)
(* (gnss_modem.c:169-172, gnss_ext.c:199-203).                             *)
NeverOldFix == pc = "report" /\ have_fix => fix_age # "old"

(* A window is spent on a receiver that is off only when that receiver     *)
(* refused to start: no other failure, of the download or of the           *)
(* injection, leaves it off (agnss.c:223-237).                             *)
DarkWaitHasReason == pc = "wait" /\ ~Receiving => start_failed

(* gnss.h:111-113: "Only requests raised since the most recent start are   *)
(* counted", so a warm receiver never fetches up front.                    *)
RequestOfThisRun == pc = "request" /\ agnss_req_sem = 1 => asked

(* README.md:271: "Downloads are rate-limited to one per                   *)
(* TRACKER_AGNSS_MIN_INTERVAL_SECONDS".  What holds of it: between two     *)
(* sets of assistance that were injected lies the interval, over windows,  *)
(* hand-overs and cycles (agnss.c:109-125, 191-197).                       *)
InjectionsSpaced ==
  [][fetch_age' < fetch_age => fetch_age >= MinInterval]_vars

(* The receiver that is on. *)
Heard ==
  IF running THEN IF listening THEN "both" ELSE "modem"
             ELSE IF listening THEN "external" ELSE "none"

(* The receivers take turns as ReceiverTurns promises (gnss.c:8-13,        *)
(* 66-98, 133-157): whatever fails to start, to answer or to be injected,  *)
(* the module has one turn in a cycle, uninterrupted, and the modem alone  *)
(* is ever silent before the stop.                                         *)
Turns == INSTANCE ReceiverTurns WITH
  HandsOver <- MODEM_FALLBACK,
  Pauses <- STOP_DURING_FETCH,
  fitted <- external_usable,
  searching <- pc \notin {"boot", "halted", "top", "asleep"},
  owner <- active,
  on <- Heard

TakesTurns == Turns!Spec
=============================================================================
