# A verification model of the GPS tracker

TLA+ modules for the firmware in `src/app`, the TLC configurations that check
them, and TLAPS proofs of what matters most. Line numbers refer to
`src/app/src/` unless a path is given.

## The system

The firmware is one endless report loop on the main thread (`main.c`), helped
by callbacks on the system workqueue, by modem events in interrupt context and
by one kernel timer. A cycle wakes up, attaches to LTE, resumes the cloud
session, acquires a position, reports, keeps reporting while the car is powered
or has just been moved, and sleeps for nine minutes.

| part | state it keeps | operations | talks to |
|---|---|---|---|
| report loop, `main.c` | `wake_reason`, `battery_sleeps`, `last_send_uptime`, `modem_bounced`, locals of a cycle | `recover_if_silent`, `lte_ensure_connected`, `report_fix`, `surge_active`, `battery_sleep` | everything, by calls |
| wake signal, `wake.c` | `wake_sem`, `pending` | `wake_signal` (workqueue), `wake_wait` (main) | main, motion, power |
| motion, `motion.c` | `usable`, `armed`, `last_event_ms_hi` and `_lo` | `motion_init`, `motion_set_armed`, `motion_handler` (workqueue) | wake, main |
| power, `power.c` | `vbus_connected`, the PMIC's latched events | `power_vbus_present`, `event_callback` (workqueue) | wake, main |
| cloud, `cloud_nrf.c`, `cloud_hologram.c` | `creds_ok`, `link_state`, the server's session | `cloud_init`, `cloud_resume`, `cloud_pause`, `cloud_send_telemetry` | main, server |
| watchdog, `watchdog.c` | the hardware counter, `guard_feeds_left`, the guard timer, the retained `phase_current` | `watchdog_feed`, `watchdog_guard_start/stop`, `guard_expiry` (interrupt), `watchdog_phase` | main, agnss, cloud |
| GNSS, `gnss.c`, `gnss_modem.c`, `gnss_ext.c` | active receiver, fix semaphores and snapshots, power | start, stop, fallback, wait for a fix | main, modem events |
| assistance, `agnss.c` | time of the last fetch | `agnss_fetch_and_inject` | cloud, modem receiver, watchdog |
| Hologram, `hologram.c` | a socket and an address for the time of a send | `hologram_send` | server |
| status LED, `status_led.c` | status, pattern, `lit`, blink work | set, pattern, sleep, blink handler (workqueue) | main, PMIC |
| telemetry, `telemetry.c` | none | battery curve, JSON | main |
| startup, `startup.c` | none | one modem command at boot | modem |

What is hard here, and hard to test:

* **Wakes race with the loop.** `wake_signal` is two statements that the
  higher-priority main thread may preempt, and `wake_wait` throws away whatever
  came before it.
* **The settle count outlives cycles.** It must survive failed cycles, wakes,
  surges and resets, and still start again whenever power was there.
* **Sessions are kept over sleeps** and the server forgets them silently.
* **Doing nothing forever** is invisible to the watchdog; `recover_if_silent`
  is the only thing that notices.
* **One watchdog timeout covers sleep and work**, and a timer feeds it on behalf
  of a blocked main thread.
* **Main and the workqueue share hardware and words without a lock**: the LED's
  channels, and the two halves of the time of the last jolt.
* **An acknowledgement can be lost after the report has arrived**, and there is a
  retry.
* **A registration is an event**, which may come before anyone waits for it.

## Modules

| module | what it is |
|---|---|
| `Wake`, `Motion`, `Power`, `CloudLink` | one component each: its VARIABLES, its operations as operators, its type invariant |
| `ReportLoop` | composes the four with main, the workqueue and the surroundings; the properties |
| `ParkingGuard` | abstract: when a parked car is watched |
| `MCReportLoop` | fairness and liveness of `ReportLoop` |
| `ReportLoopProofs` | theorems about `ReportLoop` |
| `Watchdog` | feeding, guard timer, phase marker, the passing of time |
| `WatchedCycle` | every call of main that takes time, with its feeds, guards and markers |
| `WatchedCycleProofs` | theorems about `WatchedCycle` |
| `GnssModem`, `GnssExt` | the two receivers: power, start and stop, semaphores, snapshots, events |
| `Acquisition` | composes them with the arbiter, the assistance fetch and main's fix windows |
| `ReceiverTurns` | abstract: how the two receivers take turns |
| `AcquisitionProofs` | theorems about `Acquisition` |
| `LteAttach` | the modem's registration, its notifications and the semaphore of `lte_ensure_connected` |
| `StatusLed` | composes it with `status_led.c`, the blink work and main's calls of both |
| `StatusLedProofs` | theorems about `StatusLed` |
| `Hologram` | the exchange of `hologram.c` call by call, and its server |
| `MotionClock` | the uptime and the two-word time of the last jolt |
| `Telemetry` | the battery curve |
| `Reporting` | composes the three with `report_fix`, its retry and `surge_active` |
| `Delivery` | abstract: what the result of a send promises |
| `ReportingProofs` | theorems about `Reporting` |

### How `ReportLoop` corresponds to the code

`pc` is where the main thread stands. Each label comes before a call that may
block; between two labels main runs without the workqueue getting a turn,
because main has priority 0 and the workqueue 10 (`prj.conf.example`). `wq` is
where a callback stands. A callback may be held up between its statements for
as long as main runs, so `wake_signal` is the two steps `VbusDetected`/`Jolt`
and `Give`. Letting callbacks be delayed at will is more than the scheduler
does, which is on the safe side for invariants.

| code | model |
|---|---|
| `wake_wait` 24-38 | `WaitStarts`, `WakeOnTimer`, `WakeEarly` |
| `event_callback` 64-78, `motion_handler` 70-88 | `VbusDetected`, `VbusRemoved`, `Jolt`, `Give`, `RemovedAsWell` |
| `recover_if_silent` 274-307 | `RecoverIdle`, `RecoverReboot`, `RecoverWait`, `RecoverBounce` |
| `report_fix` 195-259 | `SendOk`, `SendStale`, `SendFails`, `Retry` |
| frequent loop 540-573 | `CheckFrequent`, `FrequentTop`, `IntervalEnds` |
| `battery_sleep` 322-347 | `BatterySleep`, `WaitStarts`, `WakeOnTimer`, `WakeEarly` |

What is abstracted:

* The time since the last accepted report is `quiet`: 0 below
  `MODEM_RECOVERY_MINUTES`, 1 below `REBOOT_MINUTES`, 2 from there on. `Silence`
  is time passing and only a report that is accepted sets it back. A reboot
  starts `last_send_uptime` and the uptime over together.
* The time of the last jolt is `surge`: whether it is within
  `MOTION_SURGE_SECONDS`. Its two words are in `MotionClock`.
* The attach has an outcome here and its calls in `LteAttach`. A Hologram send is
  one step here and an exchange in `Hologram`.
* The `if` of 540 and the `while` of 545 evaluate the same condition one after the
  other; they are one `CheckFrequent`. Both of its readings of the power, and the
  one that chooses the log line, are one reading.
* Acquisition is one step with either outcome. Its calls are in `WatchedCycle`,
  its receivers in `Acquisition`.
* A read of the PMIC and the store of its result are one step
  (`power_vbus_present`); a PMIC or a `power_init` that fails is a reading of the
  cache (`PmicFaults`), and a callback that was never installed is one that is
  delayed for good.
* What the server knows of a session is `live`. It may drop it at any time; a
  device finds out when it sends, or loses its own end of it (`SendResults`).
* `armed` is the flag of `motion.c`, `watching` whether the sensor has the trigger.
  A call that the sensor rejects is taken to leave both as they were
  (`SensorFaults`).
* The two mode switches of a modem restart may fail, one or both: the attach is
  then an attempt like any other. `LteAttach` has the radio they leave.

### How `WatchedCycle` corresponds to the code

`pc` is the call that main is in, `spent` the time it has been in it and `Limit`
the time it takes if it returns. `Tick` lets one unit pass for main, the guard
timer and the watchdog; main may leave a call at any time up to its limit, and
`Hangs` makes a call one that never returns. Kernel waits with a timeout do not
hang. A short device call next to a longer one is counted with it.
`stage` says which of the three fix windows of 450-511 main is in, or that it is
in the frequent loop.

### How `Acquisition` corresponds to the code

`pc` is main between `gnss_start` (455) and `gnss_stop` (588), `stage` which wait
for a fix it makes. Whether the attach worked, the session is ready and the car
is powered are choices here; `ReportLoop` has what they depend on.

| code | model |
|---|---|
| `gnss_init` 39-64, `gnss_start` 66-86 | `gnss_init`, `StartExternal`, `StartModem` |
| `gnss_wait_fix` with its backends | `WaitBegins`, `WaitGetsFix`, `WaitTimesOut` |
| `gnss_fallback` 133-157, `gnss_stop` 88-98 | the same names |
| `agnss_fetch_and_inject` 203-238 | `FetchDeclined`, `FetchBegins`, `FetchEnds` |
| modem events, NMEA callback | `PvtEvent`, `AgnssReqEvent`; `NmeaStore`, `NmeaGive` |

* A snapshot is its age, told from the wait that main is in: `old`, `fresh`, or
  `late` for one that the parser had stored and not signalled when the wait began.
  The parser runs on the workqueue, so its two statements are two steps; a modem
  event runs in interrupt context and is one.
* The next PVT of the modem comes a second later, and main has copied the snapshot
  by then. `gnss_modem.c` would report the position of an invalid PVT otherwise.
* `listening` is the UART resumed under the open driver, `powered` the flag of
  `power_set`. Suspending the UART is taken to work; the pin may fail (`PinFaults`).
* Time is told in fractions of the rate limit, up to one per window, report or
  sleep. The age of the last fetch is followed up to `MaxAge`, at or beyond the
  limit; no fetch at all counts as one that long ago. `start_failed` and `asked` are history.
* A reset is `Init`, as nothing here outlives it, and is no action of its own.

### How `StatusLed` corresponds to the code

`pc` is main: a label of `main.c` that it has reached (`Outside`), or a point inside
`status_led.c` (`cancel`, `red`, `green`, `restart`), from where it goes on to
`ret`. `wq` is the blink work. Every `led_on` or `led_off` is a transfer on the
PMIC's bus that blocks, so between any two of them the other side may run.

| code | model |
|---|---|
| `status_led_set` 122-141, `status_led_sleep` 176-181 | `LedSet`, then `InLed`; `LedSleep` |
| `status_led_pattern` 143-174 | `PatternIsShown`, `LedPattern`, then `InLed` |
| `stop_blink` 98-104 | `StopBlink`, `Cancelled`, which waits for a handler that runs |
| `apply` 74-85 | `ApplyLit`, `MainRed`, `MainGreen`; `HandlerToggles`, `HandlerRed`, `HandlerGreen` |
| `blink_work_handler` 87-93 | `WorkFires` to `HandlerReschedules` |
| `status_led_report` 180-188 | `Report`, `ShowPower` |
| `lte_ensure_connected` 76-101 | `QueryRegistered` to `TimesOut`, over the operators of `LteAttach` |

* A phase is a delay that is finite or forever, without a length. A call that does
  nothing at `restart` is a step there all the same.
* The colours that main paints are read from `current_status` at each channel,
  which is what they were when `apply` read it: only main writes it.
* A handler may ask for its next run while main is cancelling it. Whether the
  kernel keeps that run is outside this repository (`RESUBMIT_SURVIVES`).
  `status_led.c:95-96` relies on its being dropped, and what the LED shows is
  claimed for that case only: a run that is kept darkens a solid LED, and its delay
  may be forever. That the LED is dark in a sleep is proved for both.
* Transfers that fail are only logged by the code; here they succeed. The blue
  channel is switched off once and not modelled.
* `told` and `held` are history: a notification has been handled since the reset
  of the semaphore; the modem has been registered ever since before it.
* A query of the registration that fails counts as a no (`LteIsRegistered`).

### How `Reporting` corresponds to the code

`pc` is main, `at` the call that `socket_send_envelope` is in. `wire` and `taken`
count the envelopes of each report on their way and at the server, which answers
at any time or not at all. An error is `stale` if `report_fix` retries it (230) and
`error` if not.

| code | model |
|---|---|
| `report_fix` 195-259 | `ReportBegins`, `TooLarge`, `Sends`, `Retries`, `ReportEnds` |
| `hologram_send` 156-185 | `HologramSend`, then `GetAddrInfo` to `Cleanup` |
| `motion_handler` 70-88 | `JoltStoresHigh`, `JoltStoresLow` |
| `surge_active` 109-119 | `surge_active`, with `motion_last_event_uptime` and `SurgeFrom` |
| `telemetry_battery_percent` 34-62 | the same names, and `Interpolate` |

* A word has `Word` values; the proofs hold for 2^32. Main outranks the
  workqueue, so it may read between the handler's two stores but the handler not
  between main's two loads, and no time to speak of passes before the handler goes
  on.
* A send whose short count is not looked at (120) is an envelope of which the
  server makes nothing. An answer that comes in pieces may be read in part (130).
* `socket`, `connect` and `send` may fail with any error, the others with one that is
  not retried; the answer is what tells whether the report was taken.
* A second is as long as a millisecond: the division by 1000 of line 202 is left
  out.

## What TLC checks

| run | question | bounds |
|---|---|---|
| `park` | Is any wake lost, or its reason; does any jolt wake the tracker too early, does a wake by power restart the settle count, is parking what `ParkingGuard` promises? Is a session ever used while put away, is the modem restarted more than once per silence? | settle count 2, so that there is a first, a second and a saturated sleep; all three levels of silence; one reset inside the loop, besides those of the watchdog; PMIC reads and the modem may fail; an nRF Cloud build |
| `park_live` | Is power that stays served, is a parked car watched in the end, does a cycle on battery end, does a hopeless silence end in a reboot? | settle count 1, all three levels of silence, a Hologram build, no resets inside the loop; the sensor may reject any call and be missing at boot |
| `watch` | Is a working tracker ever reset by the watchdog, how long can a hang last, does the marker tell where but for two calls, can that of a reboot be mistaken? | timeout 19, guard period 2, budgets 5 and 3 (rounded up to 3 and 2 periods), all three fix windows |
| `acquire` | Do the receivers take turns, are they ever on together, or in the sleep, or off in a wait without a reason; are injections spaced; is a fix or a request ever left over from before? | both receivers, every option on except the full request, a rate limit of two windows, and ages up to three; any start, fetch or injection may fail |
| `led` | Is the LED dark in a sleep, does it show the pattern and the status, does a blink go on? Does an attach end by old news, or miss any but an early one? | nothing is counted but notifications, one at a time; resets at any point |
| `report` | Is a report sent twice, a socket left, a loss told as a success? Is a torn time stamp ever harmful, what is the awake time, is the charge wrong? | two reports, so that one may be answered during the next; words of 4 and an uptime up to 9, which wrap twice; voltages below, at and beside points of the curve |

The bounds are enough because the counters saturate (`battery_sleeps`, `quiet`)
or because the theorems below hold for all of them. `MaxResets` bounds only the
resets that interrupt a running loop: after one, every state of a fresh boot has
been seen next to every state of the surroundings.

`report` has the torn time stamp, the wrapped word and the exchange in one state
space, as main's cycle is what brings them together.

In `watch` a unit stands for about half a minute of the default configuration,
with the sleep shortened from 18 units to 9. The timeout is a little above what
`TimingAssumption` asks for, so that dropping one feed is seen.

Fairness (`MCReportLoop`), and why the code justifies it:

* WF of main's steps: every call has a timeout or is cut off by the watchdog,
  which `WatchedCycle` shows.
* WF of the workqueue's steps: main blocks again and again, and then it runs.
* SF of boot, of the attach and of a receiver's start: a device that is repaired
  by neither resets nor time can promise nothing. Nothing is assumed of a send.
* SF of the arming of the sensor at the way to a sleep (`BatterySleep` with
  `watching'`): a sensor that rejects every call watches nothing. It may reject any
  number in between, and what is checked is that the loop asks again.
* WF of `CarSettles` while no jolt can be noticed: time passes.

The liveness properties say of the surroundings what they need: that power stays
(`<>[]vbus`), stays away, that the car stands still, that the sensor is there in the
end (`<>[]usable`). `BackstopWhenParked` is
about a silence that is already long enough; that it lasts is its premise.

In `StatusLed` WF of main inside `status_led.c` and of the blink work: transfers
end, and the workqueue runs when main blocks. Nothing is assumed of main elsewhere.

Six runs end in a violation. Each states what the documentation says:

* `power_grace`: power that came and went in a failing cycle is forgotten
  (`main.c:408-409` against `wake.c:29-30`).
* `stale_retry`: the retry of a stale session does not re-establish it
  (`main.c:231-232` against `cloud_nrf.c:168`).
* `silence`: a powered tracker that reaches nobody never restarts its modem
  (`Kconfig:442` against `main.c:545-573`, where nothing looks at the silence).
* `half_signal`: main that enters its wait between the two statements of
  `wake_signal` clears the reason and keeps the semaphore that follows: the sleep
  ends at once, and is reported as a full one (`wake.h:38-39` against
  `wake.c:18-37`). `WholeSignals` shows that no other overlap does it.
* `second_silence`: after a modem restart, a report that gets through and a new
  silence in the same cycle leave `modem_bounced` set, and the new silence is not
  met (`Kconfig:442-443` against `main.c:278-294`).
* `awake`: a cycle that begins after the low word of the uptime has wrapped
  reports an awake time that counts from the wrong moment
  (`src/app/README.md:391` against `main.c:405`, 202).

Differences that were read and have no run of their own:

* A download that hangs in the second or third window leaves the marker of the wait
  for a fix (`watchdog.h:2-3`, 29 against `main.c:491`, 506), and a pause that hangs
  after a failed start that of the start (`main.c:456`). `Marks` is the table of
  `watchdog.h`, which both break; `MarkerTells` names them as its two exceptions and
  shows that there is no other.
* A receiver that fails to start in the fallback or after a fetch stays off while
  the tracker is powered, which keeps it in a loop that only waits
  (`gnss_modem.c:5-6` against `main.c:545-573`). `DarkWaitHasReason` is what holds.
* A download that fails to be injected does not count for the rate limit
  (`src/app/README.md:271` against `agnss.c:191-197`). `InjectionsSpaced` is what
  holds.
* `status_led.c:32` has one writer at a time; a change of status paints without
  stopping the blink. `SteadyIsTrue` is what holds all the same.
* The LED is dark from a wake to the end of its attach, and in a sleep with power
  applied after a failed cycle (`src/app/README.md:44` against `main.c:430`, 448).
* A torn time stamp may look later as well as earlier (`motion.c:79-80`); it
  decides as one of the two jolts would, which `TornReadHarmless` states.
* "Full" is above the configured percentage (`main.c:161`), not at it
  (`Kconfig:522`).
* A registration between the query and the reset of the semaphore is waited for
  until the timeout (`main.c:78-82`), with the modem registered.
  `OnlyEarlyIsMissed` shows that no other is.

## What is proved

All theorems hold for every value of the constants that satisfies the named
assumptions of the modules.

`ReportLoopProofs`:

* `TypeCorrect`. Component by component; the settle count saturates.
* `WakesArrive`: no wake is lost. Invariant: outside a sleep nothing is claimed;
  in one, a reason and its semaphore are set in that order by one callback.
* `NoMotionWakeInGrace`: no jolt wakes the tracker before its settle sleeps are
  over. Assumes a sensor whose driver obeys (`~SensorFaults`); without it the
  interrupt stays on after a rejected `motion_set_armed(false)`. The invariant
  adds that only a usable sensor is armed, that an armed sleep has the count full,
  and that the flag tells what the sensor does (`FlagTells`).
* `PowerWakesGraced`: a sleep after a wake by power is the first of the count and
  not watched. The invariant follows the count from the top of the loop, where it
  is set back, to the wait (`GracedInv`).
* `SignalsStayWhole`: a reason is cleared only where main enters its wait, so a
  half signal in the sleep was one then, or was made by that overlap.
* `OneBouncePerSilence`: the flag stands as long as the silence does.
* `SessionsResumed`: the invariant adds that a device without credentials never
  leaves `LINK_DISCONNECTED`.
* `Implements`: `ReportLoop` implements `ParkingGuard` under
  `left <- SETTLE_CYCLES - battery_sleeps`, `watching <- watching`,
  `parked <- pc \in {"wait", "asleep"}`.

`WatchedCycleProofs`:

* `NeverSpurious`: no working tracker is reset. `TimingAssumption` lists what the
  timeout has to exceed: sleep, attach and the calls around them; two fix windows;
  a report with its location message; one turn of the frequent loop; the budgets.
  The invariant bounds the age of the last feed call by call (`Entry`).
* `HangsEnd`: no call outlasts its guard's rounded budget and one timeout. The
  invariant is the guard's account: time used, time to the next expiry and the
  feeds left add up to the budget.
* `RebootsAreTold`: the marker of a self-reboot is gone once the watchdog runs.
* `MarkersTell`: each marker of main is set in the step that enters its calls. The
  invariant adds that a late fetch always has the marker of the fix wait, which is
  why the wait after it has its own again.

`AcquisitionProofs`, for every build:

* `NeverBoth`, `AlwaysDark`: the receivers exclude each other and are off in the
  sleep. The invariant ties them to the arbiter: the one that does not have the
  cycle is off, and without the module the arbiter never names it.
* `Implements`: `Acquisition` implements `ReceiverTurns`. A fetch stops only the
  modem's receiver, as `agnss_wanted` is false for the module; the invariant
  carries that from the decision to the fetch.
* `FetchesSpaced`: for every rate limit and every bound on the ages. The limit is
  looked at before a download and the time noted after it; nothing in between sets
  the age back (`FetchDueInv`).
* `DarkOnlyIfRefused`: a window without a receiver is a refused start.
* `FixesAreNew`, `RequestsAreNew`: a semaphore that is given vouches for the age
  of what it announces.
* `TypeCorrect`.

`StatusLedProofs`, for every build and any number of pending notifications:

* `DarkInSleep`: dark in a battery sleep. From `stop_blink` on, the status is off
  and every painting that begins is dark; one that had begun before is over when the
  cancellation returns, and main's two transfers come after it. The invariant says
  so channel by channel. A run that the kernel keeps paints nothing either.
* `ShowsPattern`: the invariants follow a solid and a blinking pattern through
  main's places and the handler's, and say where the next run is to come from.
* `ShowsStatus`: with nothing scheduled there is no blink, so main painted last and
  alone. If main overtakes the handler in the middle, another phase is on its way.
* `NewsOnly`, `MissesOnlyEarly`: a registered modem whose notification has been
  handled has given the semaphore, or has held since before its reset.
* `TypeCorrect`.

`ReportingProofs`, for every number of reports and every width of a word:

* `NeverTwice`: an envelope is out only from the send on, and no error from there
  on is one that is retried.
* `AllClosed`: the address is held from its lookup, the socket from its opening, and
  both are gone when the exchange is.
* `Implements`: `Reporting` implements `Delivery` for a build that sends
  (`~OFFLINE_DEBUG`). The invariant: an accepting answer was given for the report
  that is being sent, and only that one makes a success.
* `TornReadsDecide`: the high word of a new jolt with the low word of an old one is
  no earlier than the old one. If it decides otherwise than the old one would, it
  decides for a surge, as the new one does. It rests on the division of a time into
  its words.
* `AwakeOffByWords`: the awake time is the time since the wake and the words that
  had passed before it. Right for 49.7 days, and never right again.
* `ChargeOnCurve`, `TypeCorrect`. The curve is proved segment by
  segment, for every voltage of 16 bits.

With the defaults (840 s timeout, 540 s sleep, 120 s attach, 120 s fix window,
240 s connect) `TimingAssumption` leaves room for device calls of up to 33 s and
sends of up to 400 s. That a send is over by then is an assumption about the
network stack: `cloud_send_telemetry` is not guarded (`main.c:228`).

Every invariant and action property that a passing run checks is a theorem, and so
are the three refinements. Model-checked only: the liveness properties
(`PowerServed`, `WatchedWhenParked`, `SleepsAgain`, `BackstopWhenParked`,
`Blinks`), as fairness and ENABLED are beyond the prover, and the violations
above.

## Not modelled

* The bench build `TRACKER_SKIP_LTE`, which leaves the network out altogether.
* The text of reports and messages: JSON, envelope, NMEA and the assistance data.
  What can go wrong with it (a buffer too small, no memory, a rejection) is a
  failure of the step that builds or sends it.
* The charge state and the conversion of a sensor value to millivolts (`power.c`):
  they are values of a report that nothing depends on but the LED, which has every
  combination of them.
* `startup.c` (one command, no state), the build and the board files.
* A PVT that overwrites the snapshot in the second before main copies it
  (`gnss_modem.c:180`), as said above.

## Plan

What would add most from here:

1. Refinement: `Acquisition` as an implementation of the acquisition step of
   `ReportLoop`, and `StatusLed`'s attach as one of its attach step, so that what is
   shown of the one can be used in the other.
2. nRF Cloud's exchange call by call, as `Hologram` has it: the confirmation of a
   message and its retransmission, with `Delivery` as the specification of both.
3. The budgets of `WatchedCycle` with the send of `Hologram` in them: address
   lookup, connection and answer have a timeout each, and `main.c:228` no guard.
