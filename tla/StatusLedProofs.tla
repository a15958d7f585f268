-------------------------- MODULE StatusLedProofs --------------------------
(***************************************************************************)
(* What holds of the attach and of the LED for both ways of sleeping, for  *)
(* any number of notifications that wait, and, where it is said, only for  *)
(* a kernel that drops a delay asked for while its work is cancelled.      *)
(***************************************************************************)
EXTENDS StatusLed, TLAPS

Reports ==
  \/ Report("first", {FALSE}, "recover")
  \/ Report("resumed", {FALSE}, "start")
  \/ Report("fix", BOOLEAN, "check")

(* Steps of main from one call to the next, none of them in status_led.c. *)
Walks ==
  \/ Recover \/ QueryRegistered \/ QueryNot \/ Forget \/ Connects
  \/ ConnectFails \/ Told \/ TimesOut \/ GnssStarts \/ GnssStartFails
  \/ FrequentGoesOn \/ FrequentIsOver \/ Wakes

LEMMA Steps ==
  ASSUME [Next]_vars
  PROVE  \/ Cancelled \/ MainRed \/ MainGreen \/ BlinkRestarts
         \/ StatusLedInit \/ Reports \/ ShowPower \/ Walks \/ AttachFails
         \/ LedSleep \/ Handler \/ Modem \/ Reset \/ UNCHANGED vars
BY Zenon DEF Next, InLed, Main, Attach, Reports, Walks

-----------------------------------------------------------------------------
(* What the longer steps of main do to the LED.                            *)

LEMMA WalkFrame ==
  ASSUME Walks
  PROVE  /\ pc \in Outside \ {"boot", "first", "sample", "sleep"}
         /\ pc' \in Outside \ {"boot", "first", "sample", "asleep"}
         /\ UNCHANGED <<ret, site, available, led_vars, lit, work, paint_vars>>
<1> USE DEF At, Outside
<1>1. CASE Recover \/ QueryRegistered \/ QueryNot \/ Forget
  BY <1>1 DEF Recover, QueryRegistered, QueryNot, Forget
<1>2. CASE Connects \/ ConnectFails \/ Told \/ TimesOut
  BY <1>2 DEF Connects, ConnectFails, Told, TimesOut
<1>3. CASE GnssStarts \/ GnssStartFails \/ FrequentGoesOn \/ FrequentIsOver
  BY <1>3 DEF GnssStarts, GnssStartFails, FrequentGoesOn, FrequentIsOver
<1>4. CASE Wakes
  BY <1>4 DEF Wakes
<1> QED BY <1>1, <1>2, <1>3, <1>4 DEF Walks

(* status_led_report() shows a status, if there is an LED. *)
ReportSkips ==
  ~available /\ pc' = "sample" /\ UNCHANGED <<ret, led_vars, lit>>

ReportShows ==
  /\ available /\ pc' = "red" /\ ret' = "sample" /\ lit' = TRUE
  /\ current_status' \in Status \ {"off"}
  /\ UNCHANGED <<current_pattern, blinking>>

LEMMA ReportFrame ==
  ASSUME Reports
  PROVE  /\ pc \in {"first", "resumed", "fix"}
         /\ site' \in {"recover", "start", "check"}
         /\ UNCHANGED <<available, work, paint_vars>>
         /\ ReportSkips \/ ReportShows
<1> USE DEF Report, LedSet, ApplyLit, Skip, Status, led_vars, ReportSkips,
        ReportShows
<1>1. CASE Report("first", {FALSE}, "recover")
  BY <1>1
<1>2. CASE Report("resumed", {FALSE}, "start")
  BY <1>2
<1>3. CASE Report("fix", BOOLEAN, "check")
  BY <1>3
<1> QED BY <1>1, <1>2, <1>3 DEF Reports

(* The pattern is shown already, or shown now. *)
PatternKept ==
  /\ available => blinking = (current_pattern # "solid")
  /\ pc' = site
  /\ UNCHANGED <<ret, led_vars, lit, work>>

PatternSolid ==
  /\ available /\ pc' = "cancel" /\ ret' = site
  /\ current_pattern' = "solid" /\ blinking' = FALSE
  /\ work' = "idle" /\ lit' = lit

PatternBlinks ==
  /\ available /\ pc' = "red" /\ ret' = site
  /\ current_pattern' \in {"charging", "battery"}
  /\ blinking' = TRUE /\ lit' = TRUE /\ work' = work

LEMMA PowerFrame ==
  ASSUME ShowPower
  PROVE  /\ pc = "sample"
         /\ UNCHANGED <<site, available, paint_vars>>
         /\ \/ PatternKept
            \/ (PatternSolid \/ PatternBlinks) /\ UNCHANGED current_status
<1>1. PICK vbus \in BOOLEAN, readable \in BOOLEAN, full \in BOOLEAN :
        LET pattern == PatternFor(vbus, readable, full)
        IN  IF available /\ ~PatternIsShown(pattern)
              THEN LedPattern(pattern, site)
              ELSE Skip(site)
  BY DEF ShowPower
<1> DEFINE pattern == PatternFor(vbus, readable, full)
<1>2. pattern \in {"solid", "charging", "battery"}
  BY DEF PatternFor
<1>3. /\ pc = "sample"
      /\ UNCHANGED <<site, available, paint_vars>>
  BY DEF ShowPower
<1>4. \/ available /\ LedPattern(pattern, site)
      \/ (available => PatternIsShown(pattern)) /\ Skip(site)
  BY <1>1
<1> HIDE DEF pattern
<1>5. CASE available /\ LedPattern(pattern, site)
  BY <1>2, <1>3, <1>5 DEF LedPattern, StopBlink, ApplyLit,
     PatternSolid, PatternBlinks
<1>6. CASE (available => PatternIsShown(pattern)) /\ Skip(site)
  BY <1>2, <1>3, <1>6 DEF PatternIsShown, Skip, led_vars,
     PatternKept
<1> QED BY <1>4, <1>5, <1>6

-----------------------------------------------------------------------------
(* The invariants.                                                         *)

(* Main is in status_led.c on behalf of the call that returns to "to". *)
InCall(to) == pc \in Inside /\ ret = to

(* Where main may stand, and the one that paints is available. *)
WhereInv ==
  /\ site \in {"boot", "recover", "start", "check"}
  /\ pc = "sample" \/ InCall("sample") => site # "boot"
  /\ pc \in Inside => available /\ ret # "boot"
  /\ ret \in {"boot", "first", "sample", "sleep", "asleep", "recover", "start",
             "check"}
  /\ pc = "boot" => ~available
  /\ pc = "cancel" => ~blinking
  /\ blinking => current_pattern # "solid"

(* The handler has a run to come. *)
Alive ==
  \/ work = "scheduled"
  \/ wq \in {"toggle", "red", "green", "delay"}
  \/ wq = "reschedule" /\ finite

(* While nothing blinks main is alone, and a blink goes on. *)
BlinkInv ==
  /\ ~blinking => work = "idle" /\ (pc = "cancel" \/ wq = "idle")
  /\ blinking /\ wq = "reschedule" => finite
  /\ blinking /\ pc \in Outside => Alive

(* Without a blink the LED is lit in the colours of the status. *)
SolidInv ==
  ~blinking /\ available =>
    /\ pc # "cancel" => lit
    /\ pc \in {"green", "restart"} \cup Outside =>
         ("red" \in channels <=> "red" \in Colours(current_status, TRUE))
    /\ pc \in {"restart"} \cup Outside =>
         ("green" \in channels <=> "green" \in Colours(current_status, TRUE))

(* The blink is that of the pattern from one report of the power to the    *)
(* next sleep that darkens the LED.                                        *)
PatternInv ==
  /\ ON_BATTERY /\ available /\ current_status = "off" =>
       pc = "first" \/ InCall("first")
  /\ available /\ current_status # "off" =>
       \/ blinking = (current_pattern # "solid")
       \/ pc = "sample" \/ InCall("sample")
       \/ ~ON_BATTERY /\ (pc = "sleep" \/ InCall("sleep"))

(* Once the status is off, whatever is painted is dark. *)
DarkInv ==
  /\ available /\ ~ON_BATTERY /\ (pc = "asleep" \/ InCall("asleep")) =>
       current_status = "off"
  /\ current_status = "off" /\ pc # "cancel" /\ wq \in {"red", "green"} =>
       painted = {}
  /\ current_status = "off" /\ available =>
       /\ pc \in {"green", "restart"} \cup Outside => "red" \notin channels
       /\ pc \in {"restart"} \cup Outside => "green" \notin channels

AttachInv ==
  pc \in {"connect", "take"} =>
    /\ lte_connected_sem = 1 => told
    /\ radio = "registered" /\ notices = 0 /\ lte_connected_sem = 0 => held

-----------------------------------------------------------------------------
(* Every step keeps them.                                                  *)

(* Where main stands. *)
LEMMA WhereStep ==
  ASSUME WhereInv, [Next]_vars
  PROVE  WhereInv'
<1> USE DEF WhereInv, InCall, Inside, Outside, led_vars, handler_vars,
        main_vars, paint_vars
<1>1. CASE Cancelled
  BY <1>1 DEF Cancelled, ApplyLit
<1>2. CASE MainRed
  BY <1>2 DEF MainRed
<1>3. CASE MainGreen
  BY <1>3 DEF MainGreen
<1>4. CASE BlinkRestarts
  BY <1>4 DEF BlinkRestarts
<1>5. CASE StatusLedInit
  BY <1>5 DEF StatusLedInit, LedSet, StopBlink, Skip
<1>6. CASE Reports
  <2>1. /\ pc \in {"first", "resumed", "fix"}
        /\ site' \in {"recover", "start", "check"}
        /\ UNCHANGED <<available, work, paint_vars>>
    BY <1>6, ReportFrame
  <2>2. CASE ReportSkips
    BY <2>1, <2>2 DEF ReportSkips
  <2>3. CASE ReportShows
    BY <2>1, <2>3 DEF ReportShows
  <2> QED BY <1>6, <2>2, <2>3, ReportFrame
<1>7. CASE ShowPower
  <2>1. pc = "sample" /\ UNCHANGED <<site, available, paint_vars>>
    BY <1>7, PowerFrame
  <2>2. CASE PatternKept
    BY <2>1, <2>2 DEF PatternKept
  <2>3. CASE PatternSolid /\ UNCHANGED current_status
    BY <2>1, <2>3 DEF PatternSolid
  <2>4. CASE PatternBlinks /\ UNCHANGED current_status
    BY <2>1, <2>4 DEF PatternBlinks
  <2> QED BY <1>7, <2>2, <2>3, <2>4, PowerFrame
<1>8. CASE Walks
  BY <1>8, WalkFrame
<1>9. CASE AttachFails
  BY <1>9 DEF AttachFails, LedSet, ApplyLit, Skip
<1>10. CASE LedSleep
  BY <1>10 DEF LedSleep, LedSet, StopBlink, Skip
<1>11. CASE Handler
  BY <1>11 DEF Handler, WorkFires, HandlerToggles, HandlerRed, HandlerGreen,
     HandlerDelay, HandlerReschedules, Kept
<1>12. CASE Modem
  BY <1>12 DEF Modem
<1>13. CASE Reset
  BY <1>13 DEF Reset
<1>14. CASE UNCHANGED vars
  BY <1>14 DEF vars
<1> QED
  BY <1>1, <1>2, <1>3, <1>4, <1>5, <1>6, <1>7, <1>8, <1>9, <1>10, <1>11,
     <1>12, <1>13, <1>14, Steps

(* A blink goes on, and nothing else does. *)
LEMMA BlinkStep ==
  ASSUME ~RESUBMIT_SURVIVES, WhereInv, BlinkInv, [Next]_vars
  PROVE  BlinkInv'
<1> USE DEF WhereInv, BlinkInv, Alive, Inside, Outside, led_vars,
        handler_vars, main_vars, paint_vars
<1>1. CASE Cancelled
  BY <1>1 DEF Cancelled, ApplyLit
<1>2. CASE MainRed
  BY <1>2 DEF MainRed
<1>3. CASE MainGreen
  BY <1>3 DEF MainGreen
<1>4. CASE BlinkRestarts
  BY <1>4 DEF BlinkRestarts
<1>5. CASE StatusLedInit
  BY <1>5 DEF StatusLedInit, LedSet, StopBlink, Skip
<1>6. CASE Reports
  <2>1. /\ pc \in {"first", "resumed", "fix"}
        /\ site' \in {"recover", "start", "check"}
        /\ UNCHANGED <<available, work, paint_vars>>
    BY <1>6, ReportFrame
  <2>2. CASE ReportSkips
    BY <2>1, <2>2 DEF ReportSkips
  <2>3. CASE ReportShows
    BY <2>1, <2>3 DEF ReportShows
  <2> QED BY <1>6, <2>2, <2>3, ReportFrame
<1>7. CASE ShowPower
  <2>1. pc = "sample" /\ UNCHANGED <<site, available, paint_vars>>
    BY <1>7, PowerFrame
  <2>2. CASE PatternKept
    BY <2>1, <2>2 DEF PatternKept
  <2>3. CASE PatternSolid /\ UNCHANGED current_status
    BY <2>1, <2>3 DEF PatternSolid
  <2>4. CASE PatternBlinks /\ UNCHANGED current_status
    BY <2>1, <2>4 DEF PatternBlinks
  <2> QED BY <1>7, <2>2, <2>3, <2>4, PowerFrame
<1>8. CASE Walks
  BY <1>8, WalkFrame
<1>9. CASE AttachFails
  BY <1>9 DEF AttachFails, LedSet, ApplyLit, Skip
<1>10. CASE LedSleep
  BY <1>10 DEF LedSleep, LedSet, StopBlink, Skip
<1>11. CASE Handler
  <2>1. CASE WorkFires
    BY <2>1 DEF WorkFires
  <2>2. CASE HandlerToggles
    BY <2>2 DEF HandlerToggles
  <2>3. CASE HandlerRed \/ HandlerGreen
    BY <2>3 DEF HandlerRed, HandlerGreen
  <2>4. CASE HandlerDelay
    BY <2>4 DEF HandlerDelay
  <2>5. CASE HandlerReschedules
    BY <2>5 DEF HandlerReschedules, Kept
  <2> QED BY <1>11, <2>1, <2>2, <2>3, <2>4, <2>5 DEF Handler
<1>12. CASE Modem
  BY <1>12 DEF Modem
<1>13. CASE Reset
  BY <1>13 DEF Reset
<1>14. CASE UNCHANGED vars
  BY <1>14 DEF vars
<1> QED
  BY <1>1, <1>2, <1>3, <1>4, <1>5, <1>6, <1>7, <1>8, <1>9, <1>10, <1>11,
     <1>12, <1>13, <1>14, Steps

(* A channel takes its part of a painting and leaves the other alone. *)
LEMMA Paint ==
  ASSUME NEW lights
  PROVE  /\ SetChannel("red", lights) =>
              /\ "red" \in channels' <=> "red" \in lights
              /\ "green" \in channels' <=> "green" \in channels
         /\ SetChannel("green", lights) =>
              /\ "green" \in channels' <=> "green" \in lights
              /\ "red" \in channels' <=> "red" \in channels
BY DEF SetChannel

(* A solid LED shows the status. *)
LEMMA SolidStep ==
  ASSUME ~RESUBMIT_SURVIVES, WhereInv, BlinkInv, SolidInv, [Next]_vars
  PROVE  SolidInv'
<1> USE DEF WhereInv, BlinkInv, SolidInv, Inside, Outside, led_vars,
        handler_vars, main_vars, paint_vars
<1>1. CASE Cancelled
  BY <1>1 DEF Cancelled, ApplyLit
<1>2. CASE MainRed
  BY <1>2, Paint DEF MainRed
<1>3. CASE MainGreen
  BY <1>3, Paint DEF MainGreen
<1>4. CASE BlinkRestarts
  BY <1>4 DEF BlinkRestarts
<1>5. CASE StatusLedInit
  BY <1>5 DEF StatusLedInit, LedSet, StopBlink, Skip
<1>6. CASE Reports
  <2>1. /\ pc \in {"first", "resumed", "fix"}
        /\ site' \in {"recover", "start", "check"}
        /\ UNCHANGED <<available, work, paint_vars>>
    BY <1>6, ReportFrame
  <2>2. CASE ReportSkips
    BY <2>1, <2>2 DEF ReportSkips
  <2>3. CASE ReportShows
    BY <2>1, <2>3 DEF ReportShows
  <2> QED BY <1>6, <2>2, <2>3, ReportFrame
<1>7. CASE ShowPower
  <2>1. pc = "sample" /\ UNCHANGED <<site, available, paint_vars>>
    BY <1>7, PowerFrame
  <2>2. CASE PatternKept
    BY <2>1, <2>2 DEF PatternKept
  <2>3. CASE PatternSolid /\ UNCHANGED current_status
    BY <2>1, <2>3 DEF PatternSolid
  <2>4. CASE PatternBlinks /\ UNCHANGED current_status
    BY <2>1, <2>4 DEF PatternBlinks
  <2> QED BY <1>7, <2>2, <2>3, <2>4, PowerFrame
<1>8. CASE Walks
  BY <1>8, WalkFrame
<1>9. CASE AttachFails
  BY <1>9 DEF AttachFails, LedSet, ApplyLit, Skip
<1>10. CASE LedSleep
  BY <1>10 DEF LedSleep, LedSet, StopBlink, Skip
<1>11. CASE Handler
  <2>1. blinking \/ pc = "cancel" \/ wq = "idle"
    BY DEF BlinkInv
  <2>2. UNCHANGED <<main_vars, available, led_vars>>
    BY <1>11 DEF Handler, WorkFires, HandlerToggles, HandlerRed, HandlerGreen,
       HandlerDelay, HandlerReschedules
  <2>3. ~blinking => pc = "cancel"
    BY <1>11, <2>1 DEF Handler, WorkFires, HandlerToggles, HandlerRed,
       HandlerGreen, HandlerDelay, HandlerReschedules, BlinkInv
  <2> QED BY <2>2, <2>3
<1>12. CASE Modem
  BY <1>12 DEF Modem
<1>13. CASE Reset
  BY <1>13 DEF Reset
<1>14. CASE UNCHANGED vars
  BY <1>14 DEF vars
<1> QED
  BY <1>1, <1>2, <1>3, <1>4, <1>5, <1>6, <1>7, <1>8, <1>9, <1>10, <1>11,
     <1>12, <1>13, <1>14, Steps

(* The blink is that of the pattern. *)
LEMMA PatternStep ==
  ASSUME WhereInv, PatternInv, [Next]_vars
  PROVE  PatternInv'
<1> USE DEF WhereInv, PatternInv, InCall, Inside, Outside, Status, led_vars,
        handler_vars, main_vars, paint_vars
<1>1. CASE Cancelled
  BY <1>1 DEF Cancelled, ApplyLit
<1>2. CASE MainRed
  BY <1>2 DEF MainRed
<1>3. CASE MainGreen
  BY <1>3 DEF MainGreen
<1>4. CASE BlinkRestarts
  BY <1>4 DEF BlinkRestarts
<1>5. CASE StatusLedInit
  BY <1>5 DEF StatusLedInit, LedSet, StopBlink, Skip
<1>6. CASE Reports
  <2>1. /\ pc \in {"first", "resumed", "fix"}
        /\ site' \in {"recover", "start", "check"}
        /\ UNCHANGED <<available, work, paint_vars>>
    BY <1>6, ReportFrame
  <2>2. CASE ReportSkips
    BY <2>1, <2>2 DEF ReportSkips
  <2>3. CASE ReportShows
    BY <2>1, <2>3 DEF ReportShows
  <2> QED BY <1>6, <2>2, <2>3, ReportFrame
<1>7. CASE ShowPower
  <2>1. pc = "sample" /\ UNCHANGED <<site, available, paint_vars>>
    BY <1>7, PowerFrame
  <2>2. CASE PatternKept
    BY <2>1, <2>2 DEF PatternKept
  <2>3. CASE PatternSolid /\ UNCHANGED current_status
    BY <2>1, <2>3 DEF PatternSolid
  <2>4. CASE PatternBlinks /\ UNCHANGED current_status
    BY <2>1, <2>4 DEF PatternBlinks
  <2> QED BY <1>7, <2>2, <2>3, <2>4, PowerFrame
<1>8. CASE Walks
  BY <1>8, WalkFrame
<1>9. CASE AttachFails
  BY <1>9 DEF AttachFails, LedSet, ApplyLit, Skip
<1>10. CASE LedSleep
  BY <1>10 DEF LedSleep, LedSet, StopBlink, Skip
<1>11. CASE Handler
  <2>1. UNCHANGED <<main_vars, available, led_vars>>
    BY <1>11 DEF Handler, WorkFires, HandlerToggles, HandlerRed, HandlerGreen,
       HandlerDelay, HandlerReschedules
  <2> QED BY <2>1
<1>12. CASE Modem
  BY <1>12 DEF Modem
<1>13. CASE Reset
  BY <1>13 DEF Reset
<1>14. CASE UNCHANGED vars
  BY <1>14 DEF vars
<1> QED
  BY <1>1, <1>2, <1>3, <1>4, <1>5, <1>6, <1>7, <1>8, <1>9, <1>10, <1>11,
     <1>12, <1>13, <1>14, Steps

LEMMA NoColours == ASSUME NEW on PROVE Colours("off", on) = {}
BY DEF Colours

(* A status that is off stays dark. *)
LEMMA DarkStep ==
  ASSUME WhereInv, DarkInv, [Next]_vars
  PROVE  DarkInv'
<1> USE DEF WhereInv, DarkInv, InCall, Inside, Outside, Status, led_vars,
        handler_vars, main_vars, paint_vars
<1>1. CASE Cancelled
  BY <1>1 DEF Cancelled, ApplyLit
<1>2. CASE MainRed
  BY <1>2, Paint, NoColours DEF MainRed
<1>3. CASE MainGreen
  BY <1>3, Paint, NoColours DEF MainGreen
<1>4. CASE BlinkRestarts
  BY <1>4 DEF BlinkRestarts
<1>5. CASE StatusLedInit
  BY <1>5 DEF StatusLedInit, LedSet, StopBlink, Skip
<1>6. CASE Reports
  <2>1. /\ pc \in {"first", "resumed", "fix"}
        /\ site' \in {"recover", "start", "check"}
        /\ UNCHANGED <<available, work, paint_vars>>
    BY <1>6, ReportFrame
  <2>2. CASE ReportSkips
    BY <2>1, <2>2 DEF ReportSkips
  <2>3. CASE ReportShows
    BY <2>1, <2>3 DEF ReportShows
  <2> QED BY <1>6, <2>2, <2>3, ReportFrame
<1>7. CASE ShowPower
  <2>1. pc = "sample" /\ UNCHANGED <<site, available, paint_vars>>
    BY <1>7, PowerFrame
  <2>2. CASE PatternKept
    BY <2>1, <2>2 DEF PatternKept
  <2>3. CASE PatternSolid /\ UNCHANGED current_status
    BY <2>1, <2>3 DEF PatternSolid
  <2>4. CASE PatternBlinks /\ UNCHANGED current_status
    BY <2>1, <2>4 DEF PatternBlinks
  <2> QED BY <1>7, <2>2, <2>3, <2>4, PowerFrame
<1>8. CASE Walks
  BY <1>8, WalkFrame
<1>9. CASE AttachFails
  BY <1>9 DEF AttachFails, LedSet, ApplyLit, Skip
<1>10. CASE LedSleep
  BY <1>10 DEF LedSleep, LedSet, StopBlink, Skip
<1>11. CASE Handler
  <2>0. UNCHANGED <<main_vars, available, led_vars>>
    BY <1>11 DEF Handler, WorkFires, HandlerToggles, HandlerRed, HandlerGreen,
       HandlerDelay, HandlerReschedules
  <2>1. CASE WorkFires \/ HandlerDelay \/ HandlerReschedules
    BY <2>0, <2>1 DEF WorkFires, HandlerDelay, HandlerReschedules
  <2>2. CASE HandlerToggles
    BY <2>0, <2>2, NoColours DEF HandlerToggles
  <2>3. CASE HandlerRed
    BY <2>0, <2>3, Paint DEF HandlerRed
  <2>4. CASE HandlerGreen
    BY <2>0, <2>4, Paint DEF HandlerGreen
  <2> QED BY <1>11, <2>1, <2>2, <2>3, <2>4 DEF Handler
<1>12. CASE Modem
  BY <1>12 DEF Modem
<1>13. CASE Reset
  BY <1>13 DEF Reset
<1>14. CASE UNCHANGED vars
  BY <1>14 DEF vars
<1> QED
  BY <1>1, <1>2, <1>3, <1>4, <1>5, <1>6, <1>7, <1>8, <1>9, <1>10, <1>11,
     <1>12, <1>13, <1>14, Steps

-----------------------------------------------------------------------------
(* Types, of the radio and of the LED.                                     *)

Counts == 0..MaxNotices

LteCounts ==
  /\ radio \in {"off", "searching", "registered"}
  /\ notices \in Counts
  /\ lte_connected_sem \in {0, 1}

LteHistory == told \in BOOLEAN /\ held \in BOOLEAN

LEMMA CountsEnds ==
  /\ 0 \in Counts
  /\ \A n \in Counts : n < MaxNotices => n + 1 \in Counts
  /\ \A n \in Counts : n > 0 => n - 1 \in Counts
  /\ 0..1 = {0, 1}
BY NoticesAssumption DEF Counts

LEMMA LteTypes ==
  ASSUME LteCounts, LteHistory, [Next]_vars
  PROVE  LteCounts' /\ LteHistory'
<1>1. ASSUME UNCHANGED lte_vars PROVE LteCounts' /\ LteHistory'
  BY <1>1 DEF lte_vars, sem_vars, LteCounts, LteHistory
<1>2. CASE Recover
  <2>1. CASE RadioRestarts
    <3>1. LteCounts'
      BY <2>1 DEF RadioRestarts, LteCounts, sem_vars
    <3>2. LteHistory'
      BY <2>1 DEF RadioRestarts, LteHistory, sem_vars
    <3> QED BY <3>1, <3>2
  <2> QED BY <1>1, <1>2, <2>1 DEF Recover
<1>3. CASE Forget \/ Connects \/ Told
  <2>1. LteCounts'
    BY <1>3 DEF Forget, Connects, Told, SemReset, ConnectAsync, SemTaken,
       LteCounts, sem_vars
  <2>2. LteHistory'
    BY <1>3 DEF Forget, Connects, Told, SemReset, ConnectAsync, SemTaken,
       LteHistory, sem_vars
  <2> QED BY <2>1, <2>2
<1>4. CASE Modem
  <2>1. LteCounts'
    BY <1>4, CountsEnds DEF Modem, RadioRegisters, RadioLoses, lte_handler,
       LteCounts, sem_vars
  <2>2. LteHistory'
    BY <1>4 DEF Modem, RadioRegisters, RadioLoses, lte_handler, LteHistory,
       sem_vars
  <2> QED BY <2>1, <2>2
<1>5. CASE Reset
  <2>1. LteCounts'
    BY <1>5, CountsEnds DEF Reset, LteRestart, LteCounts
  <2>2. LteHistory'
    BY <1>5 DEF Reset, LteRestart, LteHistory
  <2> QED BY <2>1, <2>2
<1>6. CASE Cancelled \/ MainRed \/ MainGreen \/ BlinkRestarts \/ Handler
  <2>1. UNCHANGED lte_vars
    BY <1>6, Zenon DEF Cancelled, MainRed, MainGreen, BlinkRestarts, Handler,
       WorkFires, HandlerToggles, HandlerRed, HandlerGreen, HandlerDelay,
       HandlerReschedules
  <2> QED BY <1>1, <2>1
<1>7. CASE StatusLedInit \/ Reports \/ ShowPower \/ AttachFails \/ LedSleep
  <2>1. UNCHANGED lte_vars
    BY <1>7, Zenon DEF StatusLedInit, Reports, Report, ShowPower, AttachFails,
       LedSleep
  <2> QED BY <1>1, <2>1
<1>8. CASE \/ QueryRegistered \/ QueryNot \/ ConnectFails \/ TimesOut
           \/ GnssStarts \/ GnssStartFails \/ FrequentGoesOn
           \/ FrequentIsOver \/ Wakes
  <2>1. UNCHANGED lte_vars
    BY <1>8, Zenon DEF QueryRegistered, QueryNot, ConnectFails, TimesOut,
       GnssStarts, GnssStartFails, FrequentGoesOn, FrequentIsOver, Wakes
  <2> QED BY <1>1, <2>1
<1>9. CASE UNCHANGED vars
  BY <1>1, <1>9 DEF vars
<1> QED
  BY <1>2, <1>3, <1>4, <1>5, <1>6, <1>7, <1>8, <1>9, Steps DEF Walks

LedTypeOK ==
  /\ pc \in Outside \cup Inside
  /\ ret \in Outside
  /\ wq \in {"idle", "toggle", "red", "green", "delay", "reschedule"}
  /\ site \in Outside
  /\ available \in BOOLEAN
  /\ current_status \in Status
  /\ current_pattern \in Pattern
  /\ blinking \in BOOLEAN
  /\ lit \in BOOLEAN
  /\ work \in {"idle", "scheduled"}
  /\ painted \in SUBSET Channel
  /\ finite \in BOOLEAN
  /\ channels \in SUBSET Channel

LEMMA ColoursType ==
  ASSUME NEW status, NEW on PROVE Colours(status, on) \in SUBSET Channel
BY DEF Colours

LEMMA PaintType ==
  ASSUME channels \in SUBSET Channel, NEW lights \in SUBSET Channel,
         NEW c, SetChannel(c, lights)
  PROVE  channels' \in SUBSET Channel
BY DEF SetChannel

(* A step that paints nothing. *)
LEMMA Typed ==
  ASSUME LedTypeOK, UNCHANGED paint_vars,
         pc' \in Outside \cup Inside, ret' \in Outside, site' \in Outside,
         available' \in BOOLEAN, current_status' \in Status,
         current_pattern' \in Pattern, blinking' \in BOOLEAN,
         lit' \in BOOLEAN, work' \in {"idle", "scheduled"}
  PROVE  LedTypeOK'
BY DEF LedTypeOK, paint_vars, handler_vars

LEMMA SetTypes ==
  ASSUME LedTypeOK, UNCHANGED <<site, paint_vars>>, available' \in BOOLEAN,
         NEW status \in Status, NEW to \in Outside, LedSet(status, to)
  PROVE  LedTypeOK'
<1>1. /\ pc' \in Inside
      /\ ret' = to /\ current_status' = status
      /\ UNCHANGED current_pattern
  BY DEF LedSet, StopBlink, ApplyLit, Inside
<1>2. /\ blinking' \in {FALSE, blinking} /\ work' \in {"idle", work}
      /\ lit' \in {TRUE, lit}
  BY Zenon DEF LedSet, StopBlink, ApplyLit
<1> QED
  BY <1>1, <1>2, Typed DEF LedTypeOK

LEMMA SkipTypes ==
  ASSUME LedTypeOK, UNCHANGED <<site, paint_vars>>, available' \in BOOLEAN,
         NEW to \in Outside, Skip(to)
  PROVE  LedTypeOK'
BY Typed DEF LedTypeOK, Skip, led_vars

(* The LED's own. *)
LEMMA LedTypes ==
  ASSUME LedTypeOK, [Next]_vars
  PROVE  LedTypeOK'
<1> USE DEF LedTypeOK, Inside, Outside, Status, Pattern, led_vars,
        handler_vars, main_vars, paint_vars
<1>1. CASE Cancelled
  BY <1>1 DEF Cancelled, ApplyLit
<1>2. CASE MainRed
  <2>1. channels' \in SUBSET Channel
    BY <1>2, PaintType, ColoursType, Zenon DEF MainRed
  <2> QED BY <1>2, <2>1 DEF MainRed
<1>3. CASE MainGreen
  <2>1. channels' \in SUBSET Channel
    BY <1>3, PaintType, ColoursType, Zenon DEF MainGreen
  <2> QED BY <1>3, <2>1 DEF MainGreen
<1>4. CASE BlinkRestarts
  BY <1>4 DEF BlinkRestarts
<1>5. CASE StatusLedInit
  <2>1. /\ available' \in BOOLEAN
        /\ IF available' THEN LedSet("off", "first") ELSE Skip("first")
        /\ UNCHANGED <<site, paint_vars>>
    BY <1>5 DEF StatusLedInit
  <2> HIDE DEF LedTypeOK
  <2>2. CASE LedSet("off", "first")
    BY <2>1, <2>2, SetTypes
  <2>3. CASE Skip("first")
    BY <2>1, <2>3, SkipTypes
  <2> QED BY <2>1, <2>2, <2>3
<1>6. CASE Reports
  <2>1. /\ pc \in {"first", "resumed", "fix"}
        /\ site' \in {"recover", "start", "check"}
        /\ UNCHANGED <<available, work, paint_vars>>
    BY <1>6, ReportFrame
  <2>0. /\ {"sample", "recover", "start", "check"} \subseteq Outside
        /\ "red" \in Inside
        /\ ret \in Outside /\ site \in Outside /\ lit \in BOOLEAN
        /\ current_status \in Status /\ current_pattern \in Pattern
        /\ blinking \in BOOLEAN /\ work \in {"idle", "scheduled"}
        /\ available \in BOOLEAN
    OBVIOUS
  <2> HIDE DEF LedTypeOK, Inside, Outside, Status, Pattern
  <2>2. CASE ReportSkips
    BY <2>0, <2>1, <2>2, Typed DEF ReportSkips
  <2>3. CASE ReportShows
    BY <2>0, <2>1, <2>3, Typed DEF ReportShows
  <2> QED BY <1>6, <2>2, <2>3, ReportFrame
<1>7. CASE ShowPower
  <2>1. pc = "sample" /\ UNCHANGED <<site, available, paint_vars>>
    BY <1>7, PowerFrame
  <2>0. /\ {"cancel", "red"} \subseteq Inside
        /\ {"solid", "charging", "battery"} \subseteq Pattern
        /\ ret \in Outside /\ site \in Outside /\ lit \in BOOLEAN
        /\ current_status \in Status /\ current_pattern \in Pattern
        /\ blinking \in BOOLEAN /\ work \in {"idle", "scheduled"}
        /\ available \in BOOLEAN
    OBVIOUS
  <2> HIDE DEF LedTypeOK, Inside, Outside, Status, Pattern
  <2>2. CASE PatternKept
    BY <2>0, <2>1, <2>2, Typed DEF PatternKept
  <2>3. CASE PatternSolid /\ UNCHANGED current_status
    BY <2>0, <2>1, <2>3, Typed DEF PatternSolid
  <2>4. CASE PatternBlinks /\ UNCHANGED current_status
    BY <2>0, <2>1, <2>4, Typed DEF PatternBlinks
  <2> QED BY <1>7, <2>2, <2>3, <2>4, PowerFrame
<1>8. CASE Walks
  BY <1>8, WalkFrame
<1>9. CASE AttachFails
  <2>1. /\ LedSet("no_lte", "sleep") \/ Skip("sleep")
        /\ UNCHANGED <<site, available, paint_vars>>
    BY <1>9 DEF AttachFails
  <2>0. "sleep" \in Outside /\ "no_lte" \in Status /\ available \in BOOLEAN
    OBVIOUS
  <2> HIDE DEF LedTypeOK, Outside, Status
  <2>2. CASE LedSet("no_lte", "sleep")
    BY <2>0, <2>1, <2>2, SetTypes
  <2>3. CASE Skip("sleep")
    BY <2>0, <2>1, <2>3, SkipTypes
  <2> QED BY <2>1, <2>2, <2>3
<1>10. CASE LedSleep
  <2>1. /\ LedSet("off", "asleep") \/ Skip("asleep")
        /\ UNCHANGED <<site, available, paint_vars>>
    BY <1>10 DEF LedSleep
  <2>0. "asleep" \in Outside /\ "off" \in Status /\ available \in BOOLEAN
    OBVIOUS
  <2> HIDE DEF LedTypeOK, Outside, Status
  <2>2. CASE LedSet("off", "asleep")
    BY <2>0, <2>1, <2>2, SetTypes
  <2>3. CASE Skip("asleep")
    BY <2>0, <2>1, <2>3, SkipTypes
  <2> QED BY <2>1, <2>2, <2>3
<1>11. CASE Handler
  <2>0. UNCHANGED <<main_vars, available, led_vars>>
    BY <1>11 DEF Handler, WorkFires, HandlerToggles, HandlerRed, HandlerGreen,
       HandlerDelay, HandlerReschedules
  <2>1. CASE WorkFires \/ HandlerDelay
    <3>1. CASE WorkFires
      BY <2>0, <3>1 DEF WorkFires
    <3>2. CASE HandlerDelay
      <4>1. finite' \in BOOLEAN
        BY <3>2 DEF HandlerDelay
      <4>2. /\ wq' = "reschedule"
            /\ UNCHANGED <<main_vars, available, led_vars, lit, work, painted,
                           channels>>
        BY <3>2 DEF HandlerDelay
      <4> QED BY <4>1, <4>2
    <3> QED BY <2>1, <3>1, <3>2
  <2>2. CASE HandlerToggles
    BY <2>0, <2>2, ColoursType DEF HandlerToggles
  <2>3. CASE HandlerRed \/ HandlerGreen
    BY <2>0, <2>3, PaintType DEF HandlerRed, HandlerGreen
  <2>4. CASE HandlerReschedules
    BY <2>0, <2>4 DEF HandlerReschedules, Kept
  <2> QED BY <1>11, <2>1, <2>2, <2>3, <2>4 DEF Handler
<1>12. CASE Modem
  BY <1>12 DEF Modem
<1>13. CASE Reset
  BY <1>13 DEF Reset
<1>14. CASE UNCHANGED vars
  BY <1>14 DEF vars
<1> QED
  BY <1>1, <1>2, <1>3, <1>4, <1>5, <1>6, <1>7, <1>8, <1>9, <1>10, <1>11,
     <1>12, <1>13, <1>14, Steps

-----------------------------------------------------------------------------
(* The attach.                                                             *)

LEMMA AttachStep ==
  ASSUME AttachInv, LteCounts, LteHistory, WhereInv, [Next]_vars
  PROVE  AttachInv'
<1> USE DEF AttachInv, lte_vars, sem_vars, main_vars
<1>1. CASE Forget
  <2>1. /\ lte_connected_sem' = 0 /\ radio' = radio
        /\ held' = (radio = "registered")
    BY <1>1 DEF Forget, SemReset
  <2>2. CASE radio = "registered"
    <3>1. held'
      BY <2>1, <2>2, Zenon
    <3> QED BY <2>1, <3>1
  <2>3. CASE radio # "registered"
    BY <2>1, <2>3
  <2> QED BY <2>2, <2>3
<1>2. CASE Connects
  BY <1>2 DEF Connects, ConnectAsync, At
<1>3. CASE Modem
  <2>1. CASE RadioRegisters
    <3>1. notices' # 0
      BY <2>1, NoticesAssumption DEF RadioRegisters, LteCounts, Counts
    <3> QED BY <1>3, <2>1, <3>1 DEF Modem, RadioRegisters
  <2>2. CASE RadioLoses
    BY <1>3, <2>2 DEF Modem, RadioLoses
  <2>3. CASE lte_handler
    BY <1>3, <2>3 DEF Modem, lte_handler
  <2> QED BY <1>3, <2>1, <2>2, <2>3 DEF Modem
<1>4. ASSUME UNCHANGED <<pc, lte_vars>> PROVE AttachInv'
  BY <1>4
<1>5. ASSUME pc' \notin {"connect", "take"} PROVE AttachInv'
  BY <1>5
<1>6. CASE Cancelled \/ MainRed \/ MainGreen \/ BlinkRestarts
  <2>1. pc' \in {"red", "green", "restart", ret}
    BY <1>6 DEF Cancelled, ApplyLit, MainRed, MainGreen, BlinkRestarts
  <2>2. ret \notin {"connect", "take"}
    BY DEF WhereInv
  <2> QED BY <1>5, <2>1, <2>2
<1>7. CASE StatusLedInit
  BY <1>5, <1>7 DEF StatusLedInit, LedSet, StopBlink, ApplyLit, Skip
<1>8. CASE Reports
  BY <1>5, <1>8, ReportFrame DEF ReportSkips, ReportShows
<1>9. CASE ShowPower
  <2>1. pc' \in {site, "cancel", "red"}
    BY <1>9, PowerFrame DEF PatternKept, PatternSolid, PatternBlinks
  <2>2. site \notin {"connect", "take"}
    BY DEF WhereInv
  <2> QED BY <1>5, <2>1, <2>2
<1>10. CASE AttachFails \/ LedSleep
  BY <1>5, <1>10
  DEF AttachFails, LedSleep, LedSet, StopBlink, ApplyLit, Skip
<1>11. CASE \/ Recover \/ QueryRegistered \/ QueryNot \/ ConnectFails \/ Told
            \/ TimesOut
  BY <1>5, <1>11 DEF Recover, QueryRegistered, QueryNot, ConnectFails, Told,
     TimesOut, At
<1>12. CASE \/ GnssStarts \/ GnssStartFails \/ FrequentGoesOn
            \/ FrequentIsOver \/ Wakes
  BY <1>5, <1>12 DEF GnssStarts, GnssStartFails, FrequentGoesOn,
     FrequentIsOver, Wakes, At
<1>13. CASE Handler
  <2>1. UNCHANGED <<pc, lte_vars>>
    BY <1>13 DEF Handler, WorkFires, HandlerToggles, HandlerRed,
       HandlerGreen, HandlerDelay, HandlerReschedules
  <2> QED BY <1>4, <2>1
<1>14. CASE Reset
  BY <1>5, <1>14 DEF Reset
<1>15. CASE UNCHANGED vars
  BY <1>4, <1>15 DEF vars
<1> QED
  BY <1>1, <1>2, <1>3, <1>6, <1>7, <1>8, <1>9, <1>10, <1>11, <1>12, <1>13,
     <1>14, <1>15, Steps DEF Walks

-----------------------------------------------------------------------------
(* The theorems.                                                           *)

Base == LteCounts /\ LteHistory /\ LedTypeOK /\ WhereInv

LEMMA BaseHolds == Spec => []Base
<1>1. Init => Base
  <2> SUFFICES ASSUME Init PROVE Base
    OBVIOUS
  <2>1. LteCounts /\ LteHistory
    BY CountsEnds DEF Init, LteInit, LteCounts, LteHistory
  <2>2. LedTypeOK
    BY DEF Init, LedTypeOK, Outside, Inside, Status, Pattern
  <2>3. WhereInv
    BY DEF Init, WhereInv, InCall, Inside
  <2> QED BY <2>1, <2>2, <2>3 DEF Base
<1>2. Base /\ [Next]_vars => Base'
  BY LteTypes, LedTypes, WhereStep DEF Base
<1> QED BY <1>1, <1>2, PTL DEF Spec

(* Types of the attach and of the LED; no channel but red and green is     *)
(* ever driven (status_led.c:58-85).                                       *)
THEOREM TypeCorrect == Spec => []TypeOK
<1>1. Base => TypeOK
  <2> SUFFICES ASSUME Base PROVE TypeOK
    OBVIOUS
  <2>1. LteTypeOK
    BY CountsEnds DEF Base, LteCounts, LteHistory, LteTypeOK, Counts
  <2> QED BY <2>1 DEF Base, LedTypeOK, TypeOK
<1> QED BY <1>1, BaseHolds, PTL

LEMMA AttachHolds == Spec => []AttachInv
<1>1. Init => AttachInv
  BY DEF Init, AttachInv
<1>2. AttachInv /\ Base /\ [Next]_vars => AttachInv'
  BY AttachStep DEF Base
<1> QED BY <1>1, <1>2, BaseHolds, PTL DEF Spec

(* AttachIsNews: the wait is never ended by a registration of a cycle      *)
(* before, over any number of cycles and late notices (main.c:82, 92-93).  *)
THEOREM NewsOnly == Spec => []AttachIsNews
<1>1. AttachInv => AttachIsNews
  BY DEF AttachInv, AttachIsNews
<1> QED BY <1>1, AttachHolds, PTL

(* OnlyEarlyIsMissed: of a registration, an attach misses none but one     *)
(* that came between its query and its reset (main.c:78-82).               *)
THEOREM MissesOnlyEarly == Spec => OnlyEarlyIsMissed
<1>1. AttachInv /\ Base /\ [Next]_vars =>
        [pc = "take" /\ pc' = "timed_out" /\ radio = "registered" /\ notices = 0
           => held]_vars
  <2> SUFFICES ASSUME AttachInv, Base, [Next]_vars,
                      pc = "take", pc' = "timed_out", radio = "registered",
                      notices = 0, ~UNCHANGED vars
               PROVE  held
    OBVIOUS
  <2>1. CASE lte_connected_sem = 0
    BY <2>1 DEF AttachInv
  <2>2. CASE lte_connected_sem = 1
    <3>1. CASE Told \/ TimesOut
      BY <2>2, <3>1 DEF Told, TimesOut, At
    <3>2. CASE Recover \/ QueryRegistered \/ QueryNot \/ ConnectFails
      BY <3>2 DEF Recover, QueryRegistered, QueryNot, ConnectFails, At
    <3>3. CASE \/ Forget \/ Connects \/ GnssStarts \/ GnssStartFails
               \/ FrequentGoesOn \/ FrequentIsOver \/ Wakes
      BY <3>3 DEF Forget, Connects, GnssStarts, GnssStartFails,
         FrequentGoesOn, FrequentIsOver, Wakes, At
    <3>4. CASE Cancelled \/ MainRed \/ MainGreen \/ BlinkRestarts
      BY <3>4 DEF Cancelled, MainRed, MainGreen, BlinkRestarts
    <3>5. CASE Reports \/ ShowPower
      BY <3>5, ReportFrame, PowerFrame
    <3>6. CASE StatusLedInit \/ AttachFails \/ LedSleep
      BY <3>6 DEF StatusLedInit, AttachFails, LedSleep
    <3>7. CASE Modem
      BY <3>7 DEF Modem, main_vars
    <3>8. CASE Handler
      BY <3>8 DEF Handler, WorkFires, HandlerToggles, HandlerRed,
         HandlerGreen, HandlerDelay, HandlerReschedules, main_vars
    <3>9. CASE Reset
      BY <3>9 DEF Reset
    <3> QED
      BY <3>1, <3>2, <3>3, <3>4, <3>5, <3>6, <3>7, <3>8, <3>9, Steps
      DEF Walks
  <2> QED BY <2>1, <2>2 DEF Base, LteCounts
<1> QED BY <1>1, AttachHolds, BaseHolds, PTL DEF Spec, OnlyEarlyIsMissed

(* SleepsUnlit: in a battery sleep both channels are off, whatever the     *)
(* handler was doing, and whether or not the kernel drops a delay that is  *)
(* asked for during the cancellation (status_led.c:98-104, 176-181).       *)
THEOREM DarkInSleep == Spec => []SleepsUnlit
<1>1. Init => DarkInv
  BY DEF Init, DarkInv, InCall
<1>2. DarkInv /\ Base /\ [Next]_vars => DarkInv'
  BY DarkStep DEF Base
<1>3. DarkInv /\ Base => SleepsUnlit
  BY DEF DarkInv, Base, LedTypeOK, SleepsUnlit, Channel, Outside
<1> QED BY <1>1, <1>2, <1>3, BaseHolds, PTL DEF Spec

LEMMA BlinkHolds ==
  ASSUME ~RESUBMIT_SURVIVES PROVE Spec => [](BlinkInv /\ SolidInv)
<1>1. Init => BlinkInv /\ SolidInv
  BY DEF Init, BlinkInv, SolidInv
<1>2. BlinkInv /\ SolidInv /\ Base /\ [Next]_vars => (BlinkInv /\ SolidInv)'
  BY BlinkStep, SolidStep DEF Base
<1> QED BY <1>1, <1>2, BaseHolds, PTL DEF Spec

(* PatternHonoured: the pattern that was asked for last is shown, over any *)
(* number of sleeps that stopped it (status_led.c:149-173).                *)
THEOREM ShowsPattern == Spec => []PatternHonoured
<1>1. ASSUME ~RESUBMIT_SURVIVES PROVE Spec => []PatternHonoured
  <2>1. Init => PatternInv
    BY DEF Init, PatternInv, InCall
  <2>2. PatternInv /\ Base /\ [Next]_vars => PatternInv'
    BY PatternStep DEF Base
  <2>3. BlinkInv /\ SolidInv /\ PatternInv /\ Base => PatternHonoured
    <3> SUFFICES ASSUME BlinkInv, SolidInv, PatternInv, WhereInv, Settled,
                        available, current_status # "off"
                 PROVE  IF current_pattern = "solid"
                          THEN lit /\ work = "idle"
                          ELSE blinking /\ work = "scheduled"
      BY DEF Base, PatternHonoured
    <3>1. /\ pc \in Outside /\ pc \notin Inside /\ wq = "idle"
          /\ pc # "sample" /\ pc # "sleep" /\ pc # "cancel"
      BY DEF Settled, Outside, Inside
    <3>2. blinking = (current_pattern # "solid")
      BY <3>1 DEF PatternInv, InCall
    <3>3. ~blinking => lit /\ work = "idle"
      BY <3>1 DEF BlinkInv, SolidInv
    <3>4. blinking => work = "scheduled"
      BY <3>1 DEF BlinkInv, Alive
    <3> QED BY <3>2, <3>3, <3>4
  <2> QED BY <1>1, <2>1, <2>2, <2>3, BaseHolds, BlinkHolds, PTL DEF Spec
<1>2. ASSUME RESUBMIT_SURVIVES PROVE Spec => []PatternHonoured
  <2>1. PatternHonoured
    BY <1>2 DEF PatternHonoured
  <2> QED BY <2>1, PTL
<1> QED BY <1>1, <1>2

(* SteadyIsTrue: an LED that nothing will touch shows the status           *)
(* (status_led.c:74-93, 135-140).                                          *)
THEOREM ShowsStatus == Spec => []SteadyIsTrue
<1>1. ASSUME ~RESUBMIT_SURVIVES PROVE Spec => []SteadyIsTrue
  <2>1. BlinkInv /\ SolidInv /\ Base => SteadyIsTrue
    <3> SUFFICES ASSUME BlinkInv, SolidInv, LedTypeOK, Settled, available,
                        work = "idle"
                 PROVE  channels = Colours(current_status, lit)
      BY DEF Base, SteadyIsTrue
    <3>1. pc \in Outside /\ pc # "cancel" /\ wq = "idle"
      BY DEF Settled, Outside
    <3>2. ~blinking
      BY <3>1 DEF BlinkInv, Alive
    <3>3. lit = TRUE
      BY <3>1, <3>2 DEF SolidInv, LedTypeOK
    <3>4. \A c \in Channel : c \in channels <=> c \in Colours(current_status, TRUE)
      BY <3>1, <3>2 DEF SolidInv, Channel
    <3>5. channels \in SUBSET Channel
      BY DEF LedTypeOK
    <3> QED BY <3>3, <3>4, <3>5, ColoursType
  <2> QED BY <1>1, <2>1, BaseHolds, BlinkHolds, PTL
<1>2. ASSUME RESUBMIT_SURVIVES PROVE Spec => []SteadyIsTrue
  <2>1. SteadyIsTrue
    BY <1>2 DEF SteadyIsTrue
  <2> QED BY <2>1, PTL
<1> QED BY <1>1, <1>2
=============================================================================
