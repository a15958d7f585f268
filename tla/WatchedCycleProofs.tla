------------------------- MODULE WatchedCycleProofs -------------------------
(***************************************************************************)
(* What holds of WatchedCycle for every timeout and every configuration    *)
(* that TimingAssumption admits.                                           *)
(*                                                                         *)
(* The age of the last feed is bounded by what main may have spent since,  *)
(* call by call ("Entry"), as long as no call hangs; a call that hangs is  *)
(* bounded by the feeds its guard has left.                                *)
(***************************************************************************)
EXTENDS WatchedCycle, TLAPS

(* The age of the last feed when main enters a call. *)
Entry(call, s) ==
  CASE call = "lte" -> CALL
    [] call = "start" -> CALL
    [] call = "request" ->
         IF s = "first" THEN 2 * CALL
                        ELSE 3 * CALL + PROACTIVE_WAIT + FIX_TIMEOUT
    [] call = "fix" ->
         IF s = "first" THEN 2 * CALL + PROACTIVE_WAIT
         ELSE IF s = "fallback"
                THEN 3 * CALL + 2 * PROACTIVE_WAIT + FIX_TIMEOUT
                ELSE 0
    [] call = "send" -> IF s = "frequent" THEN GLANCE ELSE EXTRA_FIX
    [] call = "location" ->
         (IF s = "frequent" THEN GLANCE ELSE EXTRA_FIX) + SEND
    [] call = "led_after" -> IF s = "frequent" THEN GLANCE ELSE 0
    [] call \in {"interval", "stop"} -> GLANCE + CALL
    [] call = "pause" -> GLANCE + 2 * CALL
    [] call = "led_sleep" -> LTE_TIMEOUT + GLANCE + 3 * CALL
    [] call = "arm" -> LTE_TIMEOUT + GLANCE + 4 * CALL
    [] call = "sleep" -> LTE_TIMEOUT + GLANCE + 5 * CALL
    [] OTHER -> 0

(* The loop has not come to its fix windows, or is in one of them. *)
StageInv ==
  /\ pc \in {"boot", "init", "recover", "lte", "resume", "led_before",
             "start"} => stage = "first"
  /\ pc = "request" => stage \in {"first", "fallback"}
  /\ pc \in {"fix", "fetch", "settle"} =>
       stage \in {"first", "fallback", "last"}
  /\ pc \in {"interval", "glance"} => stage = "frequent"

(* A call that is going to return is within its limit, and fed in time. *)
WorkingInv ==
  ~hung => spent <= Limit(pc) /\ age <= Entry(pc, stage) + spent

(* The guard runs only around a guarded call, and what it has left and     *)
(* what the call has used make up the budget.                              *)
GuardInv ==
  guard_in > 0 =>
    /\ pc \in Guarded
    /\ watched => spent + guard_in + guard_feeds_left * WDT_GUARD_PERIOD
                    = Grace(pc) + WDT_GUARD_PERIOD

(* Since the last feed of a call its guard has not helped it. *)
HungInv == watched => spent <= Grace(pc) + age

(* The marker of a reboot is there until the watchdog is started.          *)
RebootInv ==
  phase_current = "no-network" => ~watched /\ pc \in {"boot", "returned"}

IInv ==
  TypeOK /\ StageInv /\ WorkingInv /\ GuardInv /\ HungInv /\ RebootInv

-----------------------------------------------------------------------------
USE WatchdogAssumption, CycleAssumption, TimingAssumption

(* Rounding a budget up to whole guard periods does not shorten it. *)
LEMMA RoundUp ==
  ASSUME NEW n \in Nat, NEW d \in Nat \ {0}
  PROVE  DivRoundUp(n, d) \in Nat /\ DivRoundUp(n, d) * d >= n
<1> DEFINE q == (n + d - 1) \div d
           r == (n + d - 1) % d
<1>1. q \in Int /\ r \in 0..(d - 1) /\ n + d - 1 = d * q + r
  BY SMTT(30)
<1>2. q \in Nat /\ q * d >= n
  <2> HIDE DEF q, r
  <2> QED BY <1>1, SMTT(30)
<1> QED BY <1>2 DEF DivRoundUp

(* What the guards are given covers the budgets they are asked for         *)
(* (watchdog.c:132-137).                                                   *)
LEMMA Budgets ==
  /\ DivRoundUp(CONNECT_BUDGET, WDT_GUARD_PERIOD) \in Nat
  /\ DivRoundUp(AGNSS_BUDGET, WDT_GUARD_PERIOD) \in Nat
  /\ DivRoundUp(CONNECT_BUDGET, WDT_GUARD_PERIOD) * WDT_GUARD_PERIOD
       \in Nat
  /\ DivRoundUp(AGNSS_BUDGET, WDT_GUARD_PERIOD) * WDT_GUARD_PERIOD \in Nat
  /\ DivRoundUp(CONNECT_BUDGET, WDT_GUARD_PERIOD) * WDT_GUARD_PERIOD
       >= CONNECT_BUDGET
  /\ DivRoundUp(AGNSS_BUDGET, WDT_GUARD_PERIOD) * WDT_GUARD_PERIOD
       >= AGNSS_BUDGET
<1>1. CONNECT_BUDGET \in Nat /\ AGNSS_BUDGET \in Nat
  BY Zenon
<1>2. WDT_GUARD_PERIOD \in Nat \ {0}
  OBVIOUS
<1>3. \A q, d \in Nat : q * d \in Nat
  OBVIOUS
<1> QED BY <1>1, <1>2, <1>3, RoundUp, Zenon

(* The configured times, one by one. *)
LEMMA Times ==
  /\ SLEEP \in Nat /\ LTE_TIMEOUT \in Nat /\ CONNECT_BUDGET \in Nat
  /\ AGNSS_BUDGET \in Nat /\ PROACTIVE_WAIT \in Nat /\ FIX_TIMEOUT \in Nat
  /\ EXTRA_FIX \in Nat /\ CHARGING_INTERVAL \in Nat /\ GLANCE \in Nat
  /\ SEND \in Nat /\ CALL \in Nat
OBVIOUS

MarkerOK == phase_current \in Phase /\ phase_at_reset \in Phase
PlaceOK ==
  /\ pc \in Label /\ stage \in Stage /\ active \in {"external", "modem"}
FlagsOK == assisted \in BOOLEAN /\ hung \in BOOLEAN /\ watched \in BOOLEAN
ClockOK ==
  /\ spent \in Nat /\ age \in 0..WDT_TIMEOUT
  /\ guard_feeds_left \in Nat /\ guard_in \in 0..WDT_GUARD_PERIOD

(* The type invariant in the parts that the provers take one by one. *)
LEMMA Split == TypeOK <=> MarkerOK /\ PlaceOK /\ FlagsOK /\ ClockOK
BY DEF TypeOK, MarkerOK, PlaceOK, FlagsOK, ClockOK

(* The fix windows come in the order of main.c:450-511, and the loop's     *)
(* first window is left only by its end.                                   *)
LEMMA StageStep == TypeOK /\ StageInv /\ [Next]_vars => StageInv'
<1> SUFFICES ASSUME TypeOK, StageInv, [Next]_vars PROVE StageInv'
  OBVIOUS
<1> USE DEF StageInv, Returns, Then, Restart, Listens, WithoutFix, vars,
    cycle_vars, place
<1>1. CASE Startup
  BY <1>1
  DEF Startup, ModemInitFails, StartsWatchdog, GnssInitFails, LoopTop
<1>2. CASE Network
  BY <1>2
  DEF Network, Recovers, Reboots, LteConnected, LteFails, PollsModemTime,
        Resumed, LedBefore
<1>3. CASE Acquisition
  BY <1>3
  DEF Acquisition, Started, StartFails, Fetches, NoFetch, Fetched,
        FallsBack, LastResort, LastFetched, HaveFix, NoFix
<1>4. CASE Report
  BY <1>4
  DEF Report, Settled, SendStale, Retried, SendsLocation, Reported
<1>5. CASE Park
  BY <1>5
  DEF Park, StaysOn, IntervalOver, Glanced, Stops, Stopped, Paused, LedOff,
        Armed
<1>6. CASE Clock
  BY <1>6
  DEF Clock, Hangs, Tick, WatchdogResets, Reset
<1>7. CASE UNCHANGED vars
  BY <1>7
<1> QED
  BY <1>1, <1>2, <1>3, <1>4, <1>5, <1>6, <1>7 DEF Next

(* The marker and what was latched from it are phases (watchdog.c:67-87). *)
LEMMA MarkerStep ==
  ASSUME MarkerOK, [Next]_vars
  PROVE  MarkerOK'
<1> USE DEF MarkerOK, Phase, vars, cycle_vars, place, watchdog_vars,
    guard_vars, phase_vars, Returns, Then, Restart, Listens, WithoutFix,
    Unfed, Feed, FedOnce, Mark, Unmarked, watchdog_feed, watchdog_phase,
    watchdog_init, watchdog_guard_start, watchdog_guard_stop,
    WatchdogRestart, Elapse
<1>1. CASE Startup
  BY <1>1
  DEF Startup, ModemInitFails, StartsWatchdog, GnssInitFails, LoopTop
<1>2. CASE Network
  BY <1>2
  DEF Network, Recovers, Reboots, LteConnected, LteFails, PollsModemTime,
        Resumed, LedBefore
<1>3. CASE Acquisition
  BY <1>3
  DEF Acquisition, Started, StartFails, Fetches, NoFetch, Fetched,
        FallsBack, LastResort, LastFetched, HaveFix, NoFix
<1>4. CASE Report
  BY <1>4
  DEF Report, Settled, SendStale, Retried, SendsLocation, Reported
<1>5. CASE Park
  BY <1>5
  DEF Park, StaysOn, IntervalOver, Glanced, Stops, Stopped, Paused, LedOff,
        Armed
<1>6. CASE Clock
  BY <1>6
  DEF Clock, Hangs, Tick, WatchdogResets, Reset, Elapse
<1>7. CASE UNCHANGED vars
  BY <1>7
<1> QED
  BY <1>1, <1>2, <1>3, <1>4, <1>5, <1>6, <1>7 DEF Next

(* Main stands in one of the calls, with one of the receivers. *)
LEMMA PlaceStep ==
  ASSUME PlaceOK, [Next]_vars
  PROVE  PlaceOK'
<1> USE DEF PlaceOK, Label, Stage, Guarded, Wait, Device, LeftWith, vars,
    cycle_vars, place, watchdog_vars, guard_vars, phase_vars, Returns, Then,
    Restart, Listens, WithoutFix, Unfed, Feed, FedOnce, Mark, Unmarked,
    watchdog_feed, watchdog_phase, watchdog_init, watchdog_guard_start,
    watchdog_guard_stop, WatchdogRestart
<1>1. CASE Startup
  BY <1>1
  DEF Startup, ModemInitFails, StartsWatchdog, GnssInitFails, LoopTop
<1>2. CASE Network
  BY <1>2
  DEF Network, Recovers, Reboots, LteConnected, LteFails, PollsModemTime,
        Resumed, LedBefore
<1>3. CASE Acquisition
  BY <1>3
  DEF Acquisition, Started, StartFails, Fetches, NoFetch, Fetched,
        FallsBack, LastResort, LastFetched, HaveFix, NoFix
<1>4. CASE Report
  BY <1>4
  DEF Report, Settled, SendStale, Retried, SendsLocation, Reported
<1>5. CASE Park
  BY <1>5
  DEF Park, StaysOn, IntervalOver, Glanced, Stops, Stopped, Paused, LedOff,
        Armed
<1>6. CASE Clock
  BY <1>6
  DEF Clock, Hangs, Tick, WatchdogResets, Reset
<1>7. CASE UNCHANGED vars
  BY <1>7
<1> QED
  BY <1>1, <1>2, <1>3, <1>4, <1>5, <1>6, <1>7 DEF Next

(* The flags stay Booleans. *)
LEMMA FlagsStep ==
  ASSUME FlagsOK, [Next]_vars
  PROVE  FlagsOK'
<1> USE DEF FlagsOK, vars, cycle_vars, place, watchdog_vars, guard_vars,
    phase_vars, Returns, Then, Restart, Listens, WithoutFix, Unfed, Feed,
    FedOnce, Mark, Unmarked, watchdog_feed, watchdog_phase, watchdog_init,
    watchdog_guard_start, watchdog_guard_stop, WatchdogRestart, Elapse
<1>1. CASE Startup
  BY <1>1
  DEF Startup, ModemInitFails, StartsWatchdog, GnssInitFails, LoopTop
<1>2. CASE Network
  BY <1>2
  DEF Network, Recovers, Reboots, LteConnected, LteFails, PollsModemTime,
        Resumed, LedBefore
<1>3. CASE Acquisition
  BY <1>3
  DEF Acquisition, Started, StartFails, Fetches, NoFetch, Fetched,
        FallsBack, LastResort, LastFetched, HaveFix, NoFix
<1>4. CASE Report
  BY <1>4
  DEF Report, Settled, SendStale, Retried, SendsLocation, Reported
<1>5. CASE Park
  BY <1>5
  DEF Park, StaysOn, IntervalOver, Glanced, Stops, Stopped, Paused, LedOff,
        Armed
<1>6. CASE Clock
  BY <1>6
  DEF Clock, Hangs, Tick, WatchdogResets, Reset, Elapse
<1>7. CASE UNCHANGED vars
  BY <1>7
<1> QED
  BY <1>1, <1>2, <1>3, <1>4, <1>5, <1>6, <1>7 DEF Next

(* No timer leaves its range, and the watchdog's age stops at its timeout  *)
(* (watchdog.c:51-60, 132-143).                                            *)
LEMMA ClockStep ==
  ASSUME ClockOK, [Next]_vars
  PROVE  ClockOK'
<1> USE Budgets DEF ClockOK, vars, cycle_vars, place, watchdog_vars,
    guard_vars, phase_vars, Returns, Then, Restart, Listens, WithoutFix,
    Unfed, Feed, FedOnce, Mark, Unmarked, watchdog_feed, watchdog_phase,
    watchdog_init, watchdog_guard_start, watchdog_guard_stop, WatchdogRestart
<1>1. CASE Startup
  BY <1>1
  DEF Startup, ModemInitFails, StartsWatchdog, GnssInitFails, LoopTop
<1>2. CASE Network
  BY <1>2
  DEF Network, Recovers, Reboots, LteConnected, LteFails, PollsModemTime,
        Resumed, LedBefore
<1>3. CASE Acquisition
  BY <1>3
  DEF Acquisition, Started, StartFails, Fetches, NoFetch, Fetched,
        FallsBack, LastResort, LastFetched, HaveFix, NoFix
<1>4. CASE Report
  BY <1>4
  DEF Report, Settled, SendStale, Retried, SendsLocation, Reported
<1>5. CASE Park
  BY <1>5
  DEF Park, StaysOn, IntervalOver, Glanced, Stops, Stopped, Paused, LedOff,
        Armed
<1>6. CASE Clock
  <2>1. CASE Tick
    BY <2>1 DEF Tick, Elapse, guard_expiry, NoExpiry, Ages
  <2>2. CASE Hangs \/ WatchdogResets \/ Reset
    BY <2>2 DEF Hangs, WatchdogResets, Reset
  <2> QED
    BY <1>6, <2>1, <2>2 DEF Clock
<1>7. CASE UNCHANGED vars
  BY <1>7
<1> QED
  BY <1>1, <1>2, <1>3, <1>4, <1>5, <1>6, <1>7 DEF Next

(* Every call begins within the age that Entry gives it, and ages as time  *)
(* passes: the feeds of main.c:257, 416, 443-445, 511, 531 and 561.       *)
LEMMA WorkingStep ==
  ASSUME TypeOK, StageInv, WorkingInv, [Next]_vars
  PROVE  WorkingInv'
<1> USE Times DEF TypeOK, StageInv, WorkingInv, Limit, Entry, Label, Stage,
    Guarded, Wait, Device, LeftWith, vars, cycle_vars, place, watchdog_vars,
    guard_vars, phase_vars, Returns, Then, Restart, Listens, WithoutFix,
    Unfed, Feed, FedOnce, Mark, Unmarked, watchdog_feed, watchdog_phase,
    watchdog_init, watchdog_guard_start, watchdog_guard_stop, WatchdogRestart
<1>1. CASE ModemInitFails
  BY <1>1 DEF ModemInitFails
<1>2. CASE StartsWatchdog
  BY <1>2 DEF StartsWatchdog
<1>3. CASE GnssInitFails
  BY <1>3 DEF GnssInitFails
<1>4. CASE LoopTop
  BY <1>4 DEF LoopTop
<1>5. CASE Recovers
  BY <1>5 DEF Recovers
<1>6. CASE Reboots
  BY <1>6 DEF Reboots
<1>7. CASE LteConnected
  BY <1>7 DEF LteConnected
<1>8. CASE LteFails
  BY <1>8 DEF LteFails
<1>9. CASE PollsModemTime
  BY <1>9 DEF PollsModemTime
<1>10. CASE Resumed
  BY <1>10 DEF Resumed
<1>11. CASE LedBefore
  BY <1>11 DEF LedBefore
<1>12. CASE Started
  BY <1>12 DEF Started
<1>13. CASE StartFails
  BY <1>13 DEF StartFails
<1>14. CASE Fetches
  BY <1>14 DEF Fetches
<1>15. CASE NoFetch
  BY <1>15 DEF NoFetch
<1>16. CASE Fetched
  BY <1>16 DEF Fetched
<1>17. CASE FallsBack
  <2>1. age <= 3 * CALL + PROACTIVE_WAIT + FIX_TIMEOUT
    BY <1>17 DEF FallsBack, CanFallBack
  <2>2. age' = age /\ spent' = 0 /\ stage' = "fallback"
    BY <1>17 DEF FallsBack
  <2>3. pc' \in {"request", "fix"}
    BY <1>17 DEF FallsBack
  <2> QED
    BY <2>1, <2>2, <2>3
<1>18. CASE LastResort
  BY <1>18 DEF LastResort
<1>19. CASE LastFetched
  BY <1>19 DEF LastFetched
<1>20. CASE HaveFix
  BY <1>20 DEF HaveFix
<1>21. CASE NoFix
  BY <1>21 DEF NoFix
<1>22. CASE Settled
  BY <1>22 DEF Settled
<1>23. CASE SendStale
  BY <1>23 DEF SendStale
<1>24. CASE Retried
  BY <1>24 DEF Retried
<1>25. CASE SendsLocation
  BY <1>25 DEF SendsLocation
<1>26. CASE Reported
  BY <1>26 DEF Reported
<1>27. CASE StaysOn
  BY <1>27 DEF StaysOn
<1>28. CASE IntervalOver
  BY <1>28 DEF IntervalOver
<1>29. CASE Glanced
  BY <1>29 DEF Glanced
<1>30. CASE Stops
  BY <1>30 DEF Stops
<1>31. CASE Stopped
  BY <1>31 DEF Stopped
<1>32. CASE Paused
  BY <1>32 DEF Paused
<1>33. CASE LedOff
  BY <1>33 DEF LedOff
<1>34. CASE Armed
  BY <1>34 DEF Armed
<1>35. CASE Hangs
  BY <1>35 DEF Hangs
<1>36. CASE Tick
  BY <1>36 DEF Tick, Elapse, guard_expiry, NoExpiry, Ages
<1>37. CASE WatchdogResets
  BY <1>37 DEF WatchdogResets
<1>38. CASE Reset
  BY <1>38 DEF Reset
<1>39. CASE UNCHANGED vars
  BY <1>39
<1> QED
  BY <1>1, <1>2, <1>3, <1>4, <1>5, <1>6, <1>7, <1>8, <1>9, <1>10, <1>11,
     <1>12, <1>13, <1>14, <1>15, <1>16, <1>17, <1>18, <1>19, <1>20, <1>21,
     <1>22, <1>23, <1>24, <1>25, <1>26, <1>27, <1>28, <1>29, <1>30, <1>31,
     <1>32, <1>33, <1>34, <1>35, <1>36, <1>37, <1>38, <1>39
  DEF Next, Startup, Network, Acquisition, Report, Park, Clock

(* One expiry of the guard is one period of the budget. *)
LEMMA OneFeed ==
  ASSUME NEW n \in Nat, n # 0
  PROVE  /\ (n - 1) * WDT_GUARD_PERIOD \in Nat
         /\ n * WDT_GUARD_PERIOD
              = (n - 1) * WDT_GUARD_PERIOD + WDT_GUARD_PERIOD
OBVIOUS

(* The grace of every call, as a number of the guard's periods. *)
LEMMA Graces ==
  /\ \A call \in Label : Grace(call) \in Nat
  /\ \A call \in Label \ Guarded : Grace(call) = 0
  /\ \A call \in {"resume", "retry"} :
       Grace(call)
         = DivRoundUp(CONNECT_BUDGET, WDT_GUARD_PERIOD) * WDT_GUARD_PERIOD
  /\ Grace("fetch")
       = DivRoundUp(AGNSS_BUDGET, WDT_GUARD_PERIOD) * WDT_GUARD_PERIOD
BY Budgets DEF Grace, Label, Guarded, Wait, Device

(* Starting, expiring and stopping, the guard accounts for its budget      *)
(* (watchdog.c:51-60, 132-143).                                            *)
LEMMA GuardStep ==
  ASSUME TypeOK, GuardInv, [Next]_vars
  PROVE  GuardInv'
<1> USE DEF TypeOK, GuardInv, Label, Guarded, Wait, Device, vars, cycle_vars,
    place, watchdog_vars, guard_vars, phase_vars, Returns, Then, Restart,
    Listens, WithoutFix, Unfed, Feed, FedOnce, Mark, Unmarked, watchdog_feed,
    watchdog_phase, watchdog_init, watchdog_guard_start, watchdog_guard_stop,
    WatchdogRestart
<1>1. CASE ModemInitFails
  BY <1>1 DEF ModemInitFails
<1>2. CASE StartsWatchdog
  BY <1>2 DEF StartsWatchdog
<1>3. CASE GnssInitFails
  BY <1>3 DEF GnssInitFails
<1>4. CASE LoopTop
  BY <1>4 DEF LoopTop
<1>5. CASE Recovers
  BY <1>5 DEF Recovers
<1>6. CASE Reboots
  BY <1>6 DEF Reboots
<1>7. CASE LteConnected
  <2> DEFINE n == DivRoundUp(CONNECT_BUDGET, WDT_GUARD_PERIOD)
  <2>1. pc' = "resume" /\ spent' = 0
    BY <1>7 DEF LteConnected
  <2>2. guard_feeds_left' = n /\ guard_in' = WDT_GUARD_PERIOD
    BY <1>7 DEF LteConnected
  <2>3. Grace(pc') = n * WDT_GUARD_PERIOD /\ n * WDT_GUARD_PERIOD \in Nat
    BY <2>1, Budgets, Graces
  <2> QED
    <3> HIDE DEF n
    <3> QED BY <2>1, <2>2, <2>3
<1>8. CASE LteFails
  BY <1>8 DEF LteFails
<1>9. CASE PollsModemTime
  BY <1>9 DEF PollsModemTime
<1>10. CASE Resumed
  BY <1>10 DEF Resumed
<1>11. CASE LedBefore
  BY <1>11 DEF LedBefore
<1>12. CASE Started
  BY <1>12 DEF Started
<1>13. CASE StartFails
  BY <1>13 DEF StartFails
<1>14. CASE Fetches
  <2> DEFINE n == DivRoundUp(AGNSS_BUDGET, WDT_GUARD_PERIOD)
  <2>1. pc' = "fetch" /\ spent' = 0
    BY <1>14 DEF Fetches
  <2>2. guard_feeds_left' = n /\ guard_in' = WDT_GUARD_PERIOD
    BY <1>14 DEF Fetches
  <2>3. Grace(pc') = n * WDT_GUARD_PERIOD /\ n * WDT_GUARD_PERIOD \in Nat
    BY <2>1, Budgets, Graces
  <2> QED
    <3> HIDE DEF n
    <3> QED BY <2>1, <2>2, <2>3
<1>15. CASE NoFetch
  BY <1>15 DEF NoFetch
<1>16. CASE Fetched
  BY <1>16 DEF Fetched
<1>17. CASE FallsBack
  BY <1>17 DEF FallsBack
<1>18. CASE LastResort
  <2> DEFINE n == DivRoundUp(AGNSS_BUDGET, WDT_GUARD_PERIOD)
  <2>1. pc' = "fetch" /\ spent' = 0
    BY <1>18 DEF LastResort
  <2>2. guard_feeds_left' = n /\ guard_in' = WDT_GUARD_PERIOD
    BY <1>18 DEF LastResort
  <2>3. Grace(pc') = n * WDT_GUARD_PERIOD /\ n * WDT_GUARD_PERIOD \in Nat
    BY <2>1, Budgets, Graces
  <2> QED
    <3> HIDE DEF n
    <3> QED BY <2>1, <2>2, <2>3
<1>19. CASE LastFetched
  BY <1>19 DEF LastFetched
<1>20. CASE HaveFix
  BY <1>20 DEF HaveFix
<1>21. CASE NoFix
  BY <1>21 DEF NoFix
<1>22. CASE Settled
  BY <1>22 DEF Settled
<1>23. CASE SendStale
  <2> DEFINE n == DivRoundUp(CONNECT_BUDGET, WDT_GUARD_PERIOD)
  <2>1. pc' = "retry" /\ spent' = 0
    BY <1>23 DEF SendStale
  <2>2. guard_feeds_left' = n /\ guard_in' = WDT_GUARD_PERIOD
    BY <1>23 DEF SendStale
  <2>3. Grace(pc') = n * WDT_GUARD_PERIOD /\ n * WDT_GUARD_PERIOD \in Nat
    BY <2>1, Budgets, Graces
  <2> QED
    <3> HIDE DEF n
    <3> QED BY <2>1, <2>2, <2>3
<1>24. CASE Retried
  BY <1>24 DEF Retried
<1>25. CASE SendsLocation
  BY <1>25 DEF SendsLocation
<1>26. CASE Reported
  BY <1>26 DEF Reported
<1>27. CASE StaysOn
  BY <1>27 DEF StaysOn
<1>28. CASE IntervalOver
  BY <1>28 DEF IntervalOver
<1>29. CASE Glanced
  BY <1>29 DEF Glanced
<1>30. CASE Stops
  BY <1>30 DEF Stops
<1>31. CASE Stopped
  BY <1>31 DEF Stopped
<1>32. CASE Paused
  BY <1>32 DEF Paused
<1>33. CASE LedOff
  BY <1>33 DEF LedOff
<1>34. CASE Armed
  BY <1>34 DEF Armed
<1>35. CASE Hangs
  BY <1>35 DEF Hangs
<1>36. CASE Tick
  <2>1. CASE guard_expiry
    <3>1. CASE guard_feeds_left = 0
      BY <1>36, <2>1, <3>1 DEF Tick, Elapse, guard_expiry
    <3>2. CASE guard_feeds_left # 0
      <4>1. /\ pc' = pc /\ watched' = watched
            /\ guard_in = 1 /\ guard_in' = WDT_GUARD_PERIOD
            /\ guard_feeds_left' = guard_feeds_left - 1
            /\ watched => spent' = spent + 1
        BY <1>36, <2>1, <3>2 DEF Tick, Elapse, guard_expiry
      <4>2. pc \in Guarded /\ Grace(pc) \in Nat
        BY <4>1, Graces
      <4>3. ASSUME watched
            PROVE  spent' + guard_in' + guard_feeds_left' * WDT_GUARD_PERIOD
                     = Grace(pc') + WDT_GUARD_PERIOD
        <5>1. spent + 1 + guard_feeds_left * WDT_GUARD_PERIOD
                = Grace(pc) + WDT_GUARD_PERIOD
          BY <4>1, <4>3
        <5>2. /\ (guard_feeds_left - 1) * WDT_GUARD_PERIOD \in Nat
              /\ guard_feeds_left * WDT_GUARD_PERIOD
                   = (guard_feeds_left - 1) * WDT_GUARD_PERIOD
                       + WDT_GUARD_PERIOD
          BY <3>2, OneFeed
        <5> QED
          BY <4>1, <4>2, <4>3, <5>1, <5>2
      <4> QED
        BY <4>1, <4>2, <4>3
    <3> QED
      BY <3>1, <3>2
  <2>2. CASE NoExpiry
    BY <1>36, <2>2, Graces DEF Tick, Elapse, NoExpiry
  <2> QED
    BY <1>36, <2>1, <2>2 DEF Tick, Elapse
<1>37. CASE WatchdogResets
  BY <1>37 DEF WatchdogResets
<1>38. CASE Reset
  BY <1>38 DEF Reset
<1>39. CASE UNCHANGED vars
  BY <1>39
<1> QED
  BY <1>1, <1>2, <1>3, <1>4, <1>5, <1>6, <1>7, <1>8, <1>9, <1>10, <1>11,
     <1>12, <1>13, <1>14, <1>15, <1>16, <1>17, <1>18, <1>19, <1>20, <1>21,
     <1>22, <1>23, <1>24, <1>25, <1>26, <1>27, <1>28, <1>29, <1>30, <1>31,
     <1>32, <1>33, <1>34, <1>35, <1>36, <1>37, <1>38, <1>39
  DEF Next, Startup, Network, Acquisition, Report, Park, Clock

(* What a call has used is covered by its guard's budget and the time      *)
(* since the last feed.                                                    *)
LEMMA HungStep ==
  ASSUME TypeOK, TypeOK', WorkingInv, GuardInv, HungInv, [Next]_vars
  PROVE  HungInv'
<1> USE Graces DEF TypeOK, HungInv, Label, Stage, Guarded, Wait, Device,
    vars, cycle_vars, place, watchdog_vars, guard_vars, phase_vars, Returns,
    Then, Restart, Listens, WithoutFix, Unfed, Feed, FedOnce, Mark, Unmarked,
    watchdog_feed, watchdog_phase, watchdog_init, watchdog_guard_start,
    watchdog_guard_stop, WatchdogRestart
<1>1. CASE ModemInitFails
  BY <1>1 DEF ModemInitFails
<1>2. CASE StartsWatchdog
  BY <1>2 DEF StartsWatchdog
<1>3. CASE GnssInitFails
  BY <1>3 DEF GnssInitFails
<1>4. CASE LoopTop
  BY <1>4 DEF LoopTop
<1>5. CASE Recovers
  BY <1>5 DEF Recovers
<1>6. CASE Reboots
  BY <1>6 DEF Reboots
<1>7. CASE LteConnected
  BY <1>7 DEF LteConnected
<1>8. CASE LteFails
  BY <1>8 DEF LteFails
<1>9. CASE PollsModemTime
  BY <1>9, Budgets DEF PollsModemTime, WorkingInv, Limit
<1>10. CASE Resumed
  BY <1>10 DEF Resumed
<1>11. CASE LedBefore
  BY <1>11 DEF LedBefore
<1>12. CASE Started
  BY <1>12 DEF Started
<1>13. CASE StartFails
  BY <1>13 DEF StartFails
<1>14. CASE Fetches
  BY <1>14 DEF Fetches
<1>15. CASE NoFetch
  BY <1>15 DEF NoFetch
<1>16. CASE Fetched
  BY <1>16 DEF Fetched
<1>17. CASE FallsBack
  BY <1>17 DEF FallsBack
<1>18. CASE LastResort
  BY <1>18 DEF LastResort
<1>19. CASE LastFetched
  BY <1>19 DEF LastFetched
<1>20. CASE HaveFix
  BY <1>20 DEF HaveFix
<1>21. CASE NoFix
  <2>1. spent' = 0 /\ age' \in Nat /\ Grace(pc') \in Nat
    BY <1>21, Graces DEF NoFix
  <2> QED
    BY <2>1
<1>22. CASE Settled
  BY <1>22 DEF Settled
<1>23. CASE SendStale
  BY <1>23 DEF SendStale
<1>24. CASE Retried
  BY <1>24 DEF Retried
<1>25. CASE SendsLocation
  BY <1>25 DEF SendsLocation
<1>26. CASE Reported
  BY <1>26 DEF Reported
<1>27. CASE StaysOn
  BY <1>27 DEF StaysOn
<1>28. CASE IntervalOver
  BY <1>28 DEF IntervalOver
<1>29. CASE Glanced
  <2>1. spent' = 0 /\ age' \in Nat /\ Grace(pc') \in Nat
    BY <1>29, Graces DEF Glanced
  <2> QED
    BY <2>1
<1>30. CASE Stops
  BY <1>30 DEF Stops
<1>31. CASE Stopped
  BY <1>31 DEF Stopped
<1>32. CASE Paused
  BY <1>32 DEF Paused
<1>33. CASE LedOff
  BY <1>33 DEF LedOff
<1>34. CASE Armed
  BY <1>34 DEF Armed
<1>35. CASE Hangs
  BY <1>35 DEF Hangs
<1>36. CASE Tick
  <2>1. CASE guard_expiry
    BY <1>36, <2>1, OneFeed , Graces
    DEF Tick, Elapse, guard_expiry, Ages, GuardInv
  <2>2. CASE NoExpiry
    BY <1>36, <2>2, Graces DEF Tick, Elapse, NoExpiry, Ages
  <2> QED
    BY <1>36, <2>1, <2>2 DEF Tick, Elapse
<1>37. CASE WatchdogResets
  BY <1>37 DEF WatchdogResets
<1>38. CASE Reset
  BY <1>38 DEF Reset
<1>39. CASE UNCHANGED vars
  BY <1>39
<1> QED
  BY <1>1, <1>2, <1>3, <1>4, <1>5, <1>6, <1>7, <1>8, <1>9, <1>10, <1>11,
     <1>12, <1>13, <1>14, <1>15, <1>16, <1>17, <1>18, <1>19, <1>20, <1>21,
     <1>22, <1>23, <1>24, <1>25, <1>26, <1>27, <1>28, <1>29, <1>30, <1>31,
     <1>32, <1>33, <1>34, <1>35, <1>36, <1>37, <1>38, <1>39
  DEF Next, Startup, Network, Acquisition, Report, Park, Clock

(* The marker of a reboot is wiped when the watchdog starts                *)
(* (watchdog.c:67-87, main.c:289).                                         *)
LEMMA RebootStep ==
  ASSUME RebootInv, [Next]_vars
  PROVE  RebootInv'
<1> USE DEF RebootInv, vars, cycle_vars, place, watchdog_vars, guard_vars,
    phase_vars, Returns, Then, Restart, Listens, WithoutFix, Mark, Unmarked,
    watchdog_phase, watchdog_init, WatchdogRestart
<1>1. CASE Startup
  BY <1>1
  DEF Startup, ModemInitFails, StartsWatchdog, GnssInitFails, LoopTop
<1>2. CASE Network
  BY <1>2
  DEF Network, Recovers, Reboots, LteConnected, LteFails, PollsModemTime,
        Resumed, LedBefore
<1>3. CASE Acquisition
  BY <1>3
  DEF Acquisition, Started, StartFails, Fetches, NoFetch, Fetched,
        FallsBack, LastResort, LastFetched, HaveFix, NoFix
<1>4. CASE Report
  BY <1>4
  DEF Report, Settled, SendStale, Retried, SendsLocation, Reported
<1>5. CASE Park
  BY <1>5
  DEF Park, StaysOn, IntervalOver, Glanced, Stops, Stopped, Paused, LedOff,
        Armed
<1>6. CASE Clock
  BY <1>6
  DEF Clock, Hangs, Tick, WatchdogResets, Reset, Elapse
<1>7. CASE UNCHANGED vars
  BY <1>7
<1> QED
  BY <1>1, <1>2, <1>3, <1>4, <1>5, <1>6, <1>7 DEF Next

-----------------------------------------------------------------------------
(* The invariant holds when the tracker is switched on. *)
LEMMA InitHolds == Init => IInv
<1> SUFFICES ASSUME Init PROVE IInv
  OBVIOUS
<1> USE DEF Init, WatchdogInit
<1>1. TypeOK
  <2>1. MarkerOK /\ PlaceOK /\ FlagsOK
    BY DEF MarkerOK, PlaceOK, FlagsOK, Label, Device, Stage, Phase
  <2>2. ClockOK
    BY DEF ClockOK
  <2> QED
    BY <2>1, <2>2, Split
<1>2. StageInv /\ GuardInv /\ RebootInv
  BY DEF StageInv, GuardInv, RebootInv
<1>3. WorkingInv
  BY Times DEF WorkingInv, Limit, Entry
<1>4. HungInv
  BY DEF HungInv
<1> QED
  BY <1>1, <1>2, <1>3, <1>4 DEF IInv

(* Every step of main, of the clock and of the watchdog preserves it. *)
LEMMA StepHolds == IInv /\ [Next]_vars => IInv'
<1> SUFFICES ASSUME IInv, [Next]_vars PROVE IInv'
  OBVIOUS
<1> USE DEF IInv
<1>1. TypeOK'
  <2>1. MarkerOK /\ PlaceOK /\ FlagsOK /\ ClockOK
    BY Split
  <2>2. MarkerOK' /\ PlaceOK' /\ FlagsOK' /\ ClockOK'
    BY <2>1, MarkerStep, PlaceStep, FlagsStep, ClockStep
  <2> QED
    BY <2>2 DEF TypeOK, MarkerOK, PlaceOK, FlagsOK, ClockOK
<1>2. StageInv' /\ WorkingInv' /\ GuardInv' /\ HungInv' /\ RebootInv'
  BY <1>1, StageStep, WorkingStep, GuardStep, HungStep, RebootStep
<1> QED
  BY <1>1, <1>2

(* The invariant holds of every behaviour. *)
THEOREM Invariance == Spec => []IInv
BY InitHolds, StepHolds, PTL DEF Spec

(* Every variable keeps to the values its C type and its use allow.        *)
THEOREM TypeCorrect == Spec => []TypeOK
<1>1. IInv => TypeOK
  BY DEF IInv
<1> QED
  BY <1>1, Invariance, PTL

(* A tracker that works is not reset, whatever the timeouts, as long as    *)
(* they fit in the watchdog's: the feeds of main.c are close enough.       *)
THEOREM NeverSpurious == Spec => []NoSpuriousReset
<1>1. IInv => NoSpuriousReset
  <2> SUFFICES ASSUME IInv, Fires, ~hung PROVE FALSE
    BY DEF NoSpuriousReset
  <2>1. age = WDT_TIMEOUT
    BY DEF Fires
  <2>2. /\ spent <= Limit(pc) /\ age <= Entry(pc, stage) + spent
        /\ spent \in Nat /\ pc \in Label /\ stage \in Stage /\ StageInv
    BY DEF IInv, WorkingInv, TypeOK
  <2> QED
    BY <2>1, <2>2, Times
    DEF Limit, Entry, StageInv, Label, Stage, Guarded, Wait, Device
<1> QED
  BY <1>1, Invariance, PTL

(* A call that never returns is cut off after its guard's budget, rounded  *)
(* up to whole periods, and one timeout.                                   *)
THEOREM HangsEnd == Spec => []HangBounded
<1>1. IInv => HangBounded
  <2> SUFFICES ASSUME IInv, watched
               PROVE  spent <= Grace(pc) + WDT_TIMEOUT
    BY DEF HangBounded
  <2>1. spent <= Grace(pc) + age /\ spent \in Nat /\ age \in 0..WDT_TIMEOUT
    BY DEF IInv, HungInv, TypeOK
  <2>2. Grace(pc) \in Nat
    BY Graces DEF IInv, TypeOK
  <2> QED
    BY <2>1, <2>2
<1> QED
  BY <1>1, Invariance, PTL

(* The marker of a deliberate reboot never survives into a watched run.    *)
THEOREM RebootsAreTold == Spec => []ResetIsNotReboot
<1>1. IInv => ResetIsNotReboot
  BY DEF IInv, RebootInv, ResetIsNotReboot, Fires
<1> QED
  BY <1>1, Invariance, PTL

-----------------------------------------------------------------------------
(* A late fetch always has the wrong marker, which is the right one for    *)
(* the wait that follows it.                                               *)
MarkerInv ==
  /\ MarkerTells
  /\ pc = "fetch" /\ stage # "first" => FetchUnmarked

(* The marker belongs to the call that main is in.                         *)
LEMMA TellsStep ==
  ASSUME TypeOK, StageInv, MarkerInv, [Next]_vars
  PROVE  MarkerInv'
<1> USE DEF MarkerInv, MarkerTells, Named, FetchUnmarked, PauseUnmarked,
    Marks, StageInv, vars, cycle_vars, place, watchdog_vars, guard_vars,
    phase_vars, Returns, Then, Mark, Unmarked, watchdog_phase
<1>1. CASE Startup
  BY <1>1
  DEF Startup, ModemInitFails, StartsWatchdog, GnssInitFails, LoopTop,
      watchdog_init, Phase
<1>2. CASE Network
  BY <1>2
  DEF Network, Recovers, Reboots, Restart, LteConnected, LteFails,
      PollsModemTime, Resumed, LedBefore, Phase
<1>3. CASE Acquisition
  <2>1. CASE Started \/ StartFails
    BY <1>3, <2>1 DEF Started, StartFails, Listens
  <2>2. CASE Fetches
    BY <2>2 DEF Fetches
  <2>3. CASE NoFetch \/ HaveFix
    BY <2>3 DEF NoFetch, HaveFix
  <2>4. CASE Fetched
    BY <2>4 DEF Fetched
  <2>5. CASE LastFetched
    BY <2>5 DEF LastFetched
  <2>6. CASE FallsBack
    BY <2>6 DEF FallsBack, Listens
  <2>7. CASE LastResort
    BY <2>7 DEF LastResort
  <2>8. CASE NoFix
    BY <2>8 DEF NoFix, WithoutFix
  <2> QED
    BY <1>3, <2>1, <2>2, <2>3, <2>4, <2>5, <2>6, <2>7, <2>8 DEF Acquisition
<1>4. CASE Report
  BY <1>4 DEF Report, Settled, SendStale, Retried, SendsLocation, Reported
<1>5. CASE Park
  BY <1>5 DEF Park, StaysOn, IntervalOver, Glanced, Stops, Stopped, Paused,
     LedOff, Armed
<1>6. CASE Clock
  BY <1>6 DEF Clock, Hangs, Tick, Elapse, WatchdogResets, Reset, Restart,
     WatchdogRestart, TypeOK
<1>7. CASE UNCHANGED vars
  BY <1>7
<1> QED
  BY <1>1, <1>2, <1>3, <1>4, <1>5, <1>6, <1>7 DEF Next

(* The marker of a reset is the one of the call that hung, or one of the   *)
(* two wrong ones (watchdog.h:20-47; main.c:456, 491, 506).                *)
THEOREM MarkersTell == Spec => []MarkerTells
<1>1. Init => MarkerInv
  BY DEF Init, WatchdogInit, MarkerInv, MarkerTells, Named, Marks, Phase
<1>2. IInv /\ MarkerInv /\ [Next]_vars => MarkerInv'
  BY TellsStep DEF IInv
<1>3. MarkerInv => MarkerTells
  BY DEF MarkerInv
<1> QED
  BY <1>1, <1>2, <1>3, Invariance, PTL DEF Spec

=============================================================================
