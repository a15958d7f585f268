------------------------- MODULE AcquisitionProofs -------------------------
(***************************************************************************)
(* What holds of Acquisition for every build: with and without the         *)
(* external module, its fallback, its power cycling and the assistance,    *)
(* and for every rate limit.                                               *)
(*                                                                         *)
(* The arbiter's "active" says which receiver may be on, and the other one *)
(* is off; a fix semaphore that is given vouches for the snapshot's age.   *)
(***************************************************************************)
EXTENDS Acquisition, TLAPS

(* The receiver that does not have the cycle is off. *)
ArbiterInv ==
  /\ active = "external" => ~running /\ external_usable
  /\ active = "modem" => ~listening /\ (PinFaults \/ ~powered)

(* Assistance and the hand-over are for one of the two. *)
PlaceInv ==
  /\ pc \in {"boot", "ask", "request", "fetch", "download"} =>
       active = "modem"
  /\ pc = "fallback" => active = "external"

(* Before a start and after a stop, both receivers are off. *)
Off == ~running /\ ~listening /\ (POWER_CYCLE /\ ~PinFaults => ~powered)

OffInv == pc \in {"boot", "halted", "top", "asleep"} => Off

(* Between a start and a stop, one is on unless it refused to start, or is *)
(* stopped for a fetch.                                                    *)
OnInv ==
  pc \notin {"boot", "halted", "top", "asleep", "download"}
    \/ (pc = "download" /\ ~STOP_DURING_FETCH)
  => Receiving \/ start_failed

(* What a semaphore that is given says. *)
GivenInv ==
  /\ agnss_req_sem = 1 => asked
  /\ modem_fix_sem = 1 => last_pvt = "fresh"
  /\ ext_fix_sem = 1 => last_fix \in {"fresh", "late"}
  /\ nmea = "give" => last_fix \in {"fresh", "late"}
  /\ have_fix => fix_age \in {"fresh", "late"}

Inv ==
  TypeOK /\ ArbiterInv /\ PlaceInv /\ OffInv /\ OnInv /\ GivenInv

(* The only arithmetic: an age stays one, and does not fall, however time  *)
(* passes (agnss.c:117).                                                   *)
LEMMA TimeType ==
  ASSUME ClockTypeOK, TimePasses
  PROVE  fetch_age' \in Nat /\ fetch_age' >= fetch_age
<1>1. PICK d \in {0, 1} : fetch_age' = Older(fetch_age, d)
  BY DEF TimePasses
<1> QED
  BY <1>1 DEF Older, ClockTypeOK

(* A start of the onboard receiver keeps its types, and so do its stop and *)
(* the module's failing start and stop (gnss_modem.c:99-149,               *)
(* gnss_ext.c:140-197).                                                    *)
LEMMA ModemStartType ==
  ASSUME ModemTypeOK, NEW ok \in BOOLEAN, gnss_modem_start(ok)
  PROVE  ModemTypeOK'
BY DEF ModemTypeOK, gnss_modem_start, FixAge, Binary

(* The stop of the onboard receiver. *)
LEMMA ModemStopType ==
  ASSUME ModemTypeOK, gnss_modem_stop
  PROVE  ModemTypeOK'
BY DEF ModemTypeOK, gnss_modem_stop, FixAge, Binary

(* The failing start of the module. *)
LEMMA ExtFailType ==
  ASSUME ExtTypeOK, ext_start_fails
  PROVE  ExtTypeOK'
BY PinAssumption DEF ExtTypeOK, ext_start_fails

(* The stop of the module. *)
LEMMA ExtStopType ==
  ASSUME ExtTypeOK, NEW cut \in BOOLEAN, gnss_ext_stop(cut)
  PROVE  ExtTypeOK'
BY PinAssumption DEF ExtTypeOK, gnss_ext_stop, power_off

(* What is not touched keeps its type. *)
LEMMA UntouchedType ==
  /\ ModemTypeOK /\ UNCHANGED modem_vars => ModemTypeOK'
  /\ ExtTypeOK /\ UNCHANGED ext_vars => ExtTypeOK'
  /\ ClockTypeOK /\ UNCHANGED fetch_age => ClockTypeOK'
BY DEF ModemTypeOK, ExtTypeOK, ClockTypeOK, modem_vars, ext_vars

(* The program starts with both receivers off and nothing signalled. *)
LEMMA InitInv == Init => Inv
<1> SUFFICES ASSUME Init PROVE Inv
  OBVIOUS
<1>1. MainTypeOK /\ ModemTypeOK /\ ExtTypeOK
  BY DEF Init, ModemInit, ExtInit, MainTypeOK, ModemTypeOK, ExtTypeOK, Label,
         Stage, Source, FixAge, Binary
<1>2. ClockTypeOK
  BY AcquisitionAssumption DEF Init, ClockTypeOK
<1>3. ArbiterInv /\ PlaceInv /\ OffInv /\ OnInv /\ GivenInv
  BY DEF Init, ModemInit, ExtInit, ArbiterInv, PlaceInv, Off, OffInv, OnInv,
         GivenInv
<1> QED
  BY <1>1, <1>2, <1>3 DEF Inv, TypeOK

(* The start of the program and of a cycle (gnss.c:39-86).                 *)
LEMMA StartKeeps ==
  ASSUME Inv,
         gnss_init \/ CycleSkipped \/ StartExternal \/ StartModem
  PROVE  Inv'
<1> USE DEF Inv, TypeOK, Goto, gnss_vars, fix_vars, modem_vars,
            ext_vars
<1>1. CASE gnss_init
  <2>0. external_usable' \in BOOLEAN
    BY <1>1, AcquisitionAssumption DEF gnss_init
  <2>1. MainTypeOK'
    BY <1>1, <2>0
       DEF gnss_init, gnss_modem_init, MainTypeOK, Label, Stage, Source,
           FixAge
  <2>2. ClockTypeOK'
    BY <1>1
       DEF gnss_init, ClockTypeOK
  <2>3. ModemTypeOK' /\ ExtTypeOK'
    BY <1>1
       DEF gnss_init, gnss_modem_init, ModemTypeOK, ExtTypeOK
  <2>4. ArbiterInv' /\ PlaceInv' /\ OffInv'
    BY <1>1, PinAssumption, AcquisitionAssumption
       DEF gnss_init, gnss_modem_init, MainTypeOK, ModemTypeOK, ExtTypeOK,
           Source, ArbiterInv, PlaceInv, Off, OffInv
  <2>5. OnInv'
    BY <1>1, AcquisitionAssumption
       DEF gnss_init, gnss_modem_init, MainTypeOK, ModemTypeOK, ExtTypeOK,
           OnInv, Receiving, Source, PlaceInv
  <2>6. GivenInv'
    BY <1>1
       DEF gnss_init, gnss_modem_init, MainTypeOK, ModemTypeOK, ExtTypeOK,
           GivenInv
  <2> QED
    BY <2>1, <2>2, <2>3, <2>4, <2>5, <2>6
<1>2. CASE CycleSkipped
  BY <1>2
     DEF CycleSkipped, MainTypeOK, ClockTypeOK, ModemTypeOK, ExtTypeOK, Label,
         Stage, Source, FixAge, Binary, ArbiterInv, PlaceInv, Off, OffInv,
         OnInv, GivenInv, Receiving
<1>3. CASE StartExternal
  <2>1. MainTypeOK'
    BY <1>3
       DEF StartExternal, ext_starts, MainTypeOK, Label, Stage, Source,
           FixAge
  <2>2. ClockTypeOK'
    BY <1>3
       DEF StartExternal, ClockTypeOK
  <2>3. ModemTypeOK' /\ ExtTypeOK'
    BY <1>3
       DEF StartExternal, ext_starts, ModemTypeOK, ExtTypeOK
  <2>4. ArbiterInv' /\ PlaceInv' /\ OffInv'
    BY <1>3, PinAssumption, AcquisitionAssumption
       DEF StartExternal, ext_starts, MainTypeOK, ModemTypeOK, ExtTypeOK,
           Source, ArbiterInv, PlaceInv, Off, OffInv
  <2>5. OnInv'
    BY <1>3, AcquisitionAssumption
       DEF StartExternal, ext_starts, MainTypeOK, ModemTypeOK, ExtTypeOK,
           OnInv, Receiving, Source, PlaceInv
  <2>6. GivenInv'
    BY <1>3
       DEF StartExternal, ext_starts, MainTypeOK, ModemTypeOK, ExtTypeOK,
           GivenInv
  <2> QED
    BY <2>1, <2>2, <2>3, <2>4, <2>5, <2>6
<1>4. CASE StartModem
  <2>0. PICK ok \in BOOLEAN :
          /\ IF external_usable THEN ext_start_fails ELSE UNCHANGED ext_vars
          /\ active' = "modem"
          /\ Goto("top", IF ok THEN "ask" ELSE "asleep")
          /\ gnss_modem_start(ok)
          /\ start_failed' = ~ok
          /\ stage' = "first"
          /\ assisted' = FALSE
          /\ UNCHANGED <<external_usable, fix_vars, fetch_age>>
    BY <1>4 DEF StartModem
  <2>1. MainTypeOK'
    BY <2>0
       DEF ext_start_fails, gnss_modem_start, MainTypeOK, Label, Stage,
           Source, FixAge
  <2>2. ClockTypeOK'
    BY <2>0
       DEF ClockTypeOK
  <2>3. ModemTypeOK' /\ ExtTypeOK'
    BY <2>0, ModemStartType, ExtFailType, UntouchedType
  <2>4. ArbiterInv' /\ PlaceInv' /\ OffInv'
    BY <2>0, PinAssumption, AcquisitionAssumption
       DEF ext_start_fails, gnss_modem_start, MainTypeOK, ModemTypeOK,
           ExtTypeOK, Source, ArbiterInv, PlaceInv, Off, OffInv
  <2>5. OnInv'
    BY <2>0, AcquisitionAssumption
       DEF ext_start_fails, gnss_modem_start, MainTypeOK, ModemTypeOK,
           ExtTypeOK, OnInv, Receiving, Source, PlaceInv
  <2>6. UNCHANGED <<ext_fix_sem, last_fix, nmea>>
    BY <2>0 DEF ext_start_fails
  <2>7. GivenInv'
    BY <2>0, <2>6
       DEF gnss_modem_start, MainTypeOK, ModemTypeOK, ExtTypeOK, GivenInv
  <2> QED
    BY <2>1, <2>2, <2>3, <2>4, <2>5, <2>6, <2>7
<1> QED
  BY <1>1, <1>2, <1>3, <1>4

(* Assistance: the receiver is stopped and started behind the arbiter      *)
(* (agnss.c:203-238, main.c:469-474, 487-492).                             *)
LEMMA FetchKeeps ==
  ASSUME Inv,
         Fetching
  PROVE  Inv'
<1> USE DEF Inv, TypeOK, Goto, gnss_vars, fix_vars, modem_vars,
            ext_vars
<1>1. CASE Ask
  BY <1>1
     DEF Ask, MainTypeOK, ClockTypeOK, ModemTypeOK, ExtTypeOK, Label, Stage,
         Source, FixAge, Binary, ArbiterInv, PlaceInv, Off, OffInv, OnInv,
         GivenInv, Receiving
<1>2. CASE AskNot
  BY <1>2
     DEF AskNot, MainTypeOK, ClockTypeOK, ModemTypeOK, ExtTypeOK, Label,
         Stage, Source, FixAge, Binary, ArbiterInv, PlaceInv, Off, OffInv,
         OnInv, GivenInv, Receiving
<1>3. CASE Asked
  BY <1>3
     DEF Asked, modem_request_taken, MainTypeOK, ClockTypeOK, ModemTypeOK,
         ExtTypeOK, Label, Stage, Source, FixAge, Binary, ArbiterInv,
         PlaceInv, Off, OffInv, OnInv, GivenInv, Receiving
<1>4. CASE FetchDeclined
  <2>1. MainTypeOK'
    BY <1>4
       DEF FetchDeclined, AfterFetch, Note, MainTypeOK, Label, Stage, Source,
           FixAge
  <2>2. ClockTypeOK'
    BY <1>4
       DEF FetchDeclined, ClockTypeOK
  <2>3. ModemTypeOK' /\ ExtTypeOK'
    BY <1>4
       DEF FetchDeclined, ModemTypeOK, ExtTypeOK
  <2>4. ArbiterInv' /\ PlaceInv' /\ OffInv'
    BY <1>4, PinAssumption, AcquisitionAssumption
       DEF FetchDeclined, AfterFetch, Note, MainTypeOK, ModemTypeOK,
           ExtTypeOK, Source, ArbiterInv, PlaceInv, Off, OffInv
  <2>5. OnInv'
    BY <1>4, AcquisitionAssumption
       DEF FetchDeclined, AfterFetch, Note, MainTypeOK, ModemTypeOK,
           ExtTypeOK, OnInv, Receiving, Source, PlaceInv
  <2>6. GivenInv'
    BY <1>4
       DEF FetchDeclined, AfterFetch, Note, MainTypeOK, ModemTypeOK,
           ExtTypeOK, GivenInv
  <2> QED
    BY <2>1, <2>2, <2>3, <2>4, <2>5, <2>6
<1>5. CASE FetchBegins
  <2>1. MainTypeOK'
    BY <1>5
       DEF FetchBegins, gnss_modem_stop, MainTypeOK, Label, Stage, Source,
           FixAge
  <2>2. ClockTypeOK'
    BY <1>5
       DEF FetchBegins, ClockTypeOK
  <2>3. ModemTypeOK' /\ ExtTypeOK'
    BY <1>5, ModemStopType, UntouchedType DEF FetchBegins
  <2>4. ArbiterInv' /\ PlaceInv' /\ OffInv'
    BY <1>5, PinAssumption, AcquisitionAssumption
       DEF FetchBegins, gnss_modem_stop, MainTypeOK, ModemTypeOK, ExtTypeOK,
           Source, ArbiterInv, PlaceInv, Off, OffInv
  <2>5. OnInv'
    BY <1>5, AcquisitionAssumption
       DEF FetchBegins, gnss_modem_stop, MainTypeOK, ModemTypeOK, ExtTypeOK,
           OnInv, Receiving, Source, PlaceInv
  <2>6. GivenInv'
    BY <1>5
       DEF FetchBegins, gnss_modem_stop, MainTypeOK, ModemTypeOK, ExtTypeOK,
           GivenInv
  <2> QED
    BY <2>1, <2>2, <2>3, <2>4, <2>5, <2>6
<1>6. CASE FetchEnds
  <2>0. PICK injected \in BOOLEAN, restarted \in BOOLEAN :
          /\ Goto("download", AfterFetch(injected /\ restarted))
          /\ RestartAfter(injected, restarted)
          /\ Note(injected /\ restarted)
          /\ fetch_age' = IF injected THEN 0 ELSE fetch_age
          /\ UNCHANGED <<stage, gnss_vars, fix_vars, ext_vars>>
    BY <1>6 DEF FetchEnds
  <2>1. MainTypeOK'
    BY <2>0
       DEF AfterFetch, Note, RestartAfter, gnss_modem_start, MainTypeOK,
           Label, Stage, Source, FixAge
  <2>2. ClockTypeOK'
    BY <2>0
       DEF ClockTypeOK
  <2>3. ModemTypeOK' /\ ExtTypeOK'
    BY <2>0, ModemStartType, UntouchedType DEF RestartAfter
  <2>4. ArbiterInv' /\ PlaceInv' /\ OffInv'
    BY <2>0, PinAssumption, AcquisitionAssumption
       DEF AfterFetch, Note, RestartAfter, gnss_modem_start, MainTypeOK,
           ModemTypeOK, ExtTypeOK, Source, ArbiterInv, PlaceInv, Off, OffInv
  <2>5. OnInv'
    BY <2>0, AcquisitionAssumption
       DEF AfterFetch, Note, RestartAfter, gnss_modem_start, MainTypeOK,
           ModemTypeOK, ExtTypeOK, OnInv, Receiving, Source, PlaceInv
  <2>6. GivenInv'
    BY <2>0
       DEF AfterFetch, Note, RestartAfter, gnss_modem_start, MainTypeOK,
           ModemTypeOK, ExtTypeOK, GivenInv
  <2> QED
    BY <2>1, <2>2, <2>3, <2>4, <2>5, <2>6
<1> QED
  BY <1>1, <1>2, <1>3, <1>4, <1>5, <1>6 DEF Fetching

(* The waits, the hand-over and the last resort (gnss.c:100-157,           *)
(* main.c:477-520).                                                        *)
LEMMA WaitKeeps ==
  ASSUME Inv,
         \/ WaitBegins \/ WaitGetsFix \/ WaitTimesOut \/ gnss_fallback
         \/ LastResort \/ GiveUp \/ Settle
  PROVE  Inv'
<1> USE DEF Inv, TypeOK, Goto, gnss_vars, fix_vars, modem_vars,
            ext_vars
<1>1. CASE WaitBegins
  BY <1>1
     DEF WaitBegins, ext_wait_begins, modem_wait_begins, MainTypeOK,
         ClockTypeOK, ModemTypeOK, ExtTypeOK, Label, Stage, Source, FixAge,
         Binary, ArbiterInv, PlaceInv, Off, OffInv, OnInv, GivenInv,
         Receiving
<1>2. CASE WaitGetsFix
  BY <1>2
     DEF WaitGetsFix, AfterFix, ext_wait_takes, modem_wait_takes, MainTypeOK,
         ClockTypeOK, ModemTypeOK, ExtTypeOK, Label, Stage, Source, FixAge,
         Binary, ArbiterInv, PlaceInv, Off, OffInv, OnInv, GivenInv,
         Receiving
<1>3. CASE WaitTimesOut
  <2>1. ClockTypeOK'
    BY <1>3, TimeType DEF WaitTimesOut, ClockTypeOK
  <2>2. MainTypeOK' /\ ModemTypeOK' /\ ExtTypeOK'
    BY <1>3
       DEF WaitTimesOut, AfterTimeout, gnss_fallback_available, MainTypeOK,
           ModemTypeOK, ExtTypeOK, Label, Stage, Source, FixAge, Binary
  <2>3. ArbiterInv' /\ PlaceInv' /\ OffInv' /\ OnInv' /\ GivenInv'
    BY <1>3
       DEF WaitTimesOut, AfterTimeout, gnss_fallback_available, MainTypeOK,
           ModemTypeOK, ExtTypeOK, Source, ArbiterInv, PlaceInv, Off, OffInv,
           OnInv, GivenInv, Receiving
  <2> QED
    BY <2>1, <2>2, <2>3
<1>4. CASE gnss_fallback
  <2>0. PICK ok \in BOOLEAN :
          /\ Goto("fallback", IF ok THEN "ask" ELSE "last")
          /\ gnss_modem_start(ok)
          /\ start_failed' = ~ok
          /\ gnss_ext_stop(TRUE)
          /\ active' = "modem"
          /\ stage' = "fallback"
          /\ UNCHANGED <<external_usable, assisted, fix_vars, fetch_age>>
    BY <1>4 DEF gnss_fallback
  <2>1. MainTypeOK'
    BY <2>0
       DEF gnss_modem_start, gnss_ext_stop, power_off, MainTypeOK, Label,
           Stage, Source, FixAge
  <2>2. ClockTypeOK'
    BY <2>0
       DEF ClockTypeOK
  <2>3. ModemTypeOK' /\ ExtTypeOK'
    BY <2>0, ModemStartType, ExtStopType
  <2>4. ArbiterInv' /\ PlaceInv' /\ OffInv'
    BY <2>0, PinAssumption, AcquisitionAssumption
       DEF gnss_modem_start, gnss_ext_stop, power_off, MainTypeOK,
           ModemTypeOK, ExtTypeOK, Source, ArbiterInv, PlaceInv, Off, OffInv
  <2>5. OnInv'
    BY <2>0, AcquisitionAssumption
       DEF gnss_modem_start, gnss_ext_stop, power_off, MainTypeOK,
           ModemTypeOK, ExtTypeOK, OnInv, Receiving, Source, PlaceInv
  <2>6. GivenInv'
    BY <2>0
       DEF gnss_modem_start, gnss_ext_stop, power_off, MainTypeOK,
           ModemTypeOK, ExtTypeOK, GivenInv
  <2> QED
    BY <2>1, <2>2, <2>3, <2>4, <2>5, <2>6
<1>5. CASE LastResort
  BY <1>5
     DEF LastResort, agnss_wanted, MainTypeOK, ClockTypeOK, ModemTypeOK,
         ExtTypeOK, Label, Stage, Source, FixAge, Binary, ArbiterInv,
         PlaceInv, Off, OffInv, OnInv, GivenInv, Receiving
<1>6. CASE GiveUp
  BY <1>6
     DEF GiveUp, MainTypeOK, ClockTypeOK, ModemTypeOK, ExtTypeOK, Label,
         Stage, Source, FixAge, Binary, ArbiterInv, PlaceInv, Off, OffInv,
         OnInv, GivenInv, Receiving
<1>7. CASE Settle
  BY <1>7
     DEF Settle, MainTypeOK, ClockTypeOK, ModemTypeOK, ExtTypeOK, Label,
         Stage, Source, FixAge, Binary, ArbiterInv, PlaceInv, Off, OffInv,
         OnInv, GivenInv, Receiving
<1> QED
  BY <1>1, <1>2, <1>3, <1>4, <1>5, <1>6, <1>7

(* From the report to the next cycle (main.c:520-595).                     *)
LEMMA ReportKeeps ==
  ASSUME Inv,
         Report \/ Frequent \/ Interval \/ gnss_stop \/ WakeUp
  PROVE  Inv'
<1> USE DEF Inv, TypeOK, Goto, gnss_vars, fix_vars, modem_vars,
            ext_vars
<1>1. CASE Report \/ Interval \/ WakeUp
  <2>1. ClockTypeOK'
    BY <1>1, TimeType DEF Report, Interval, WakeUp, ClockTypeOK
  <2>2. MainTypeOK' /\ ModemTypeOK' /\ ExtTypeOK'
    BY <1>1
       DEF Report, Interval, WakeUp, MainTypeOK, ModemTypeOK, ExtTypeOK,
           Label, Stage, Source, FixAge, Binary
  <2>3. ArbiterInv' /\ PlaceInv' /\ OffInv' /\ OnInv' /\ GivenInv'
    BY <1>1
       DEF Report, Interval, WakeUp, MainTypeOK, ModemTypeOK, ExtTypeOK,
           Source, ArbiterInv, PlaceInv, Off, OffInv, OnInv, GivenInv,
           Receiving
  <2> QED
    BY <2>1, <2>2, <2>3
<1>2. CASE Frequent
  BY <1>2
     DEF Frequent, MainTypeOK, ClockTypeOK, ModemTypeOK, ExtTypeOK, Label,
         Stage, Source, FixAge, Binary, ArbiterInv, PlaceInv, Off, OffInv,
         OnInv, GivenInv, Receiving
<1>3. CASE gnss_stop
  <2>1. MainTypeOK'
    BY <1>3
       DEF gnss_stop, gnss_ext_stop, power_off, gnss_modem_stop, MainTypeOK,
           Label, Stage, Source, FixAge
  <2>2. ClockTypeOK'
    BY <1>3
       DEF gnss_stop, ClockTypeOK
  <2>3. ModemTypeOK' /\ ExtTypeOK'
    BY <1>3, AcquisitionAssumption, ExtStopType, ModemStopType, UntouchedType DEF gnss_stop
  <2>4. ArbiterInv' /\ PlaceInv' /\ OffInv'
    BY <1>3, PinAssumption, AcquisitionAssumption
       DEF gnss_stop, gnss_ext_stop, power_off, gnss_modem_stop, MainTypeOK,
           ModemTypeOK, ExtTypeOK, Source, ArbiterInv, PlaceInv, Off, OffInv
  <2>5. OnInv'
    BY <1>3, AcquisitionAssumption
       DEF gnss_stop, gnss_ext_stop, power_off, gnss_modem_stop, MainTypeOK,
           ModemTypeOK, ExtTypeOK, OnInv, Receiving, Source, PlaceInv
  <2>6. GivenInv'
    BY <1>3
       DEF gnss_stop, gnss_ext_stop, power_off, gnss_modem_stop, MainTypeOK,
           ModemTypeOK, ExtTypeOK, GivenInv
  <2> QED
    BY <2>1, <2>2, <2>3, <2>4, <2>5, <2>6
<1> QED
  BY <1>1, <1>2, <1>3

(* The events of both receivers (gnss_modem.c:30-81, gnss_ext.c:51-84).    *)
LEMMA EventKeeps ==
  ASSUME Inv,
         ModemEvent \/ NmeaEvent
  PROVE  Inv'
<1> USE DEF Inv, TypeOK, Goto, gnss_vars, fix_vars, modem_vars,
            ext_vars
<1>1. CASE ModemEvent
  <2>1. MainTypeOK'
    BY <1>1
       DEF ModemEvent, PvtEvent, AgnssReqEvent, MainTypeOK, Label, Stage,
           Source, FixAge
  <2>2. ClockTypeOK'
    BY <1>1
       DEF ModemEvent, ClockTypeOK
  <2>3. ModemTypeOK' /\ ExtTypeOK'
    BY <1>1
       DEF ModemEvent, PvtEvent, AgnssReqEvent, ModemTypeOK, ExtTypeOK,
           FixAge, Binary
  <2>4. ArbiterInv' /\ PlaceInv' /\ OffInv'
    BY <1>1, PinAssumption, AcquisitionAssumption
       DEF ModemEvent, PvtEvent, AgnssReqEvent, MainTypeOK, ModemTypeOK,
           ExtTypeOK, Source, ArbiterInv, PlaceInv, Off, OffInv
  <2>5. OnInv'
    BY <1>1, AcquisitionAssumption
       DEF ModemEvent, PvtEvent, AgnssReqEvent, MainTypeOK, ModemTypeOK,
           ExtTypeOK, OnInv, Receiving, Source, PlaceInv
  <2>6. GivenInv'
    BY <1>1
       DEF ModemEvent, PvtEvent, AgnssReqEvent, MainTypeOK, ModemTypeOK,
           ExtTypeOK, GivenInv
  <2> QED
    BY <2>1, <2>2, <2>3, <2>4, <2>5, <2>6
<1>2. CASE NmeaEvent
  BY <1>2
     DEF NmeaEvent, NmeaStore, NmeaGive, MainTypeOK, ClockTypeOK, ModemTypeOK,
         ExtTypeOK, Label, Stage, Source, FixAge, Binary, ArbiterInv,
         PlaceInv, Off, OffInv, OnInv, GivenInv, Receiving
<1> QED
  BY <1>1, <1>2

(* A step that changes nothing keeps it. *)
LEMMA StutterKeeps == ASSUME Inv, UNCHANGED vars PROVE Inv'
BY DEF vars, gnss_vars, fix_vars, modem_vars, ext_vars, Inv, TypeOK,
       MainTypeOK, ClockTypeOK, ModemTypeOK, ExtTypeOK, ArbiterInv, PlaceInv, Off, OffInv, OnInv,
       GivenInv, Receiving

(* The arbiter, the main thread and the receivers keep the invariant.      *)
THEOREM Invariance == Spec => []Inv
<1>1. Inv /\ [Next]_vars => Inv'
  BY StartKeeps, FetchKeeps, WaitKeeps, ReportKeeps, EventKeeps, StutterKeeps
     DEF Next
<1> QED
  BY <1>1, InitInv, PTL DEF Spec

(* Every variable keeps its type, and the clocks their limit.              *)
THEOREM TypeCorrect == Spec => []TypeOK
<1>1. Inv => TypeOK
  BY DEF Inv
<1> QED
  BY <1>1, Invariance, PTL

(* The two receivers are never on together (gnss.c:66-86, 133-157).        *)
THEOREM NeverBoth == Spec => []OneReceiver
<1>1. Inv => OneReceiver
  BY DEF Inv, TypeOK, MainTypeOK, Source, ArbiterInv, OneReceiver
<1> QED
  BY <1>1, Invariance, PTL

(* The tracker never sleeps on a running receiver (main.c:427-459, 588).   *)
THEOREM AlwaysDark == Spec => []SleepsDark
<1>1. Inv => SleepsDark
  BY DEF Inv, OffInv, Off, SleepsDark
<1> QED
  BY <1>1, Invariance, PTL

(* A report's fix came after its wait began, or was being signalled then   *)
(* (gnss_modem.c:169-172, gnss_ext.c:199-203).                             *)
THEOREM FixesAreNew == Spec => []NeverOldFix
<1>1. Inv => NeverOldFix
  BY DEF Inv, GivenInv, NeverOldFix
<1> QED
  BY <1>1, Invariance, PTL

(* Only a refused start leaves a window without a receiver                 *)
(* (agnss.c:223-237).                                                      *)
THEOREM DarkOnlyIfRefused == Spec => []DarkWaitHasReason
<1>1. Inv => DarkWaitHasReason
  BY DEF Inv, OnInv, DarkWaitHasReason
<1> QED
  BY <1>1, Invariance, PTL

(* A request for assistance is one of this run (gnss.h:111-113).           *)
THEOREM RequestsAreNew == Spec => []RequestOfThisRun
<1>1. Inv => RequestOfThisRun
  BY DEF Inv, GivenInv, RequestOfThisRun
<1> QED
  BY <1>1, Invariance, PTL

(* A fetch is on its way only once the interval is over, and nothing but   *)
(* its end makes the age of the last one fall.                             *)
FetchDueInv == pc = "download" => fetch_age >= MinInterval

(* Between two injections lies the interval, for every interval and build  *)
(* (agnss.c:109-125, 191-197).                                             *)
THEOREM FetchesSpaced == Spec => InjectionsSpaced
<1> DEFINE Spaced == fetch_age' < fetch_age => fetch_age >= MinInterval
<1>1. Init => FetchDueInv
  BY DEF Init, FetchDueInv
<1>2. TypeOK /\ FetchDueInv /\ [Next]_vars => FetchDueInv' /\ Spaced
  <2> SUFFICES ASSUME TypeOK, FetchDueInv, [Next]_vars
               PROVE  FetchDueInv' /\ Spaced
    OBVIOUS
  <2> USE AcquisitionAssumption
      DEF TypeOK, ClockTypeOK, FetchDueInv, Goto
  <2>1. CASE FetchEnds
    <3>1. PICK got \in BOOLEAN, injected \in BOOLEAN :
            fetch_age' = IF injected THEN 0 ELSE fetch_age
      BY <2>1 DEF FetchEnds
    <3>2. pc = "download" /\ pc' # "download"
      BY <2>1 DEF FetchEnds, AfterFetch
    <3> QED BY <3>1, <3>2
  <2>2. CASE FetchBegins
    BY <2>2 DEF FetchBegins, rate_limited
  <2>3. CASE WaitTimesOut \/ Report \/ Interval \/ WakeUp
    <3>1. fetch_age' \in Nat /\ fetch_age' >= fetch_age
      BY <2>3, TimeType DEF WaitTimesOut, Report, Interval, WakeUp
    <3>2. pc' # "download"
      BY <2>3 DEF WaitTimesOut, AfterTimeout, Report, Interval, WakeUp
    <3> QED BY <3>1, <3>2
  <2>4. CASE \/ gnss_init \/ CycleSkipped \/ StartExternal \/ StartModem
             \/ Ask \/ AskNot \/ Asked \/ FetchDeclined
    <3>1. fetch_age' = fetch_age
      BY <2>4 DEF gnss_init, CycleSkipped, StartExternal, StartModem, Ask,
         AskNot, Asked, FetchDeclined
    <3>2. pc' # "download"
      BY <2>4 DEF gnss_init, CycleSkipped, StartExternal, StartModem, Ask,
         AskNot, Asked, FetchDeclined, AfterFetch
    <3> QED BY <3>1, <3>2
  <2>5. CASE \/ WaitBegins \/ WaitGetsFix \/ gnss_fallback \/ LastResort
             \/ GiveUp \/ Settle \/ Frequent \/ gnss_stop
    <3>1. fetch_age' = fetch_age
      BY <2>5 DEF WaitBegins, WaitGetsFix, gnss_fallback, LastResort,
         GiveUp, Settle, Frequent, gnss_stop
    <3>2. pc' # "download"
      BY <2>5 DEF WaitBegins, WaitGetsFix, AfterFix, gnss_fallback,
         LastResort, GiveUp, Settle, Frequent, gnss_stop
    <3> QED BY <3>1, <3>2
  <2>6. CASE ModemEvent \/ NmeaEvent
    BY <2>6 DEF ModemEvent, NmeaEvent
  <2>7. CASE UNCHANGED vars
    BY <2>7 DEF vars
  <2> QED
    BY <2>1, <2>2, <2>3, <2>4, <2>5, <2>6, <2>7 DEF Next, Fetching
<1> QED
  BY <1>1, <1>2, TypeCorrect, PTL DEF Spec, InjectionsSpaced

-----------------------------------------------------------------------------
(* Acquisition implements ReceiverTurns.  It takes Inv and, for the step   *)
(* of the boot and of the hand-over, where those two can be.               *)
TurnInv ==
  /\ pc = "boot" => ~external_usable
  /\ pc = "fallback" => MODEM_FALLBACK

(* The module is found once, at boot, and the hand-over is reached only in *)
(* a build that has it (gnss.c:39-64, 127-131).                            *)
LEMMA TurnStep ==
  ASSUME TurnInv, [Next]_vars
  PROVE  TurnInv'
<1> USE DEF TurnInv, Goto, gnss_vars
<1>1. CASE gnss_init \/ CycleSkipped \/ StartExternal
  BY <1>1 DEF gnss_init, CycleSkipped, StartExternal
<1>2. CASE StartModem
  BY <1>2 DEF StartModem
<1>3. CASE Fetching
  <2>1. external_usable' = external_usable
    BY <1>3 DEF Fetching, Ask, AskNot, Asked, FetchDeclined, FetchBegins,
       FetchEnds
  <2>2. pc' \notin {"boot", "fallback"}
    BY <1>3 DEF Fetching, Ask, AskNot, Asked, FetchDeclined, FetchBegins,
       FetchEnds, AfterFetch
  <2> QED BY <2>1, <2>2
<1>4. CASE WaitTimesOut
  BY <1>4 DEF WaitTimesOut, AfterTimeout, gnss_fallback_available
<1>5. CASE gnss_fallback
  BY <1>5 DEF gnss_fallback
<1>6. CASE WaitBegins \/ WaitGetsFix \/ LastResort \/ GiveUp \/ Settle
  BY <1>6 DEF WaitBegins, WaitGetsFix, AfterFix, LastResort, GiveUp, Settle
<1>7. CASE Report \/ Frequent \/ Interval \/ gnss_stop \/ WakeUp
  BY <1>7 DEF Report, Frequent, Interval, gnss_stop, WakeUp
<1>8. CASE ModemEvent \/ NmeaEvent
  BY <1>8 DEF ModemEvent, NmeaEvent
<1>9. CASE UNCHANGED vars
  BY <1>9 DEF vars
<1> QED
  BY <1>1, <1>2, <1>3, <1>4, <1>5, <1>6, <1>7, <1>8, <1>9 DEF Next

(* The start of a cycle is a beginning, and its stop an end                *)
(* (gnss.c:66-98).                                                         *)
LEMMA SearchStep ==
  ASSUME Inv, TurnInv,
         \/ gnss_init \/ StartExternal \/ StartModem \/ gnss_fallback
         \/ gnss_stop
  PROVE  Turns!Next \/ UNCHANGED Turns!turn_vars
<1> USE DEF Inv, TypeOK, Goto, Heard
<1>1. CASE gnss_init
  <2>1. /\ pc = "boot" /\ pc' \in {"top", "halted"}
        /\ UNCHANGED <<running, listening>>
    BY <1>1 DEF gnss_init, gnss_modem_init, ext_vars
  <2>2. active = "modem" /\ ~external_usable
    BY <2>1 DEF PlaceInv, TurnInv
  <2>3. \/ external_usable' = TRUE /\ active' = "external"
        \/ external_usable' = FALSE /\ active' = "modem"
    BY <1>1, AcquisitionAssumption DEF gnss_init
  <2> QED
    BY <2>1, <2>2, <2>3
       DEF Turns!Next, Turns!Fit, Turns!turn_vars, MainTypeOK
<1>2. CASE StartExternal
  <2>1. ~running /\ ~listening
    BY <1>2 DEF StartExternal, OffInv, Off
  <2> QED
    BY <1>2, <2>1
       DEF StartExternal, ext_starts, modem_vars, Turns!Next, Turns!Begin
<1>3. CASE StartModem
  <2>1. ~running /\ ~listening
    BY <1>3 DEF StartModem, OffInv, Off
  <2>2. PICK ok \in BOOLEAN :
          /\ pc = "top" /\ pc' = IF ok THEN "ask" ELSE "asleep"
          /\ gnss_modem_start(ok)
    BY <1>3 DEF StartModem
  <2>3. /\ ~listening' /\ active' = "modem"
        /\ external_usable' = external_usable
    BY <1>3, <2>1 DEF StartModem, ext_start_fails, ext_vars
  <2>4. running' = ok
    BY <2>1, <2>2 DEF gnss_modem_start, ModemTypeOK
  <2>5. CASE ok
    BY <2>1, <2>2, <2>3, <2>4, <2>5 DEF Turns!Next, Turns!Begin
  <2>6. CASE ~ok
    BY <2>1, <2>2, <2>3, <2>4, <2>6 DEF Turns!Next, Turns!BeginFails
  <2> QED BY <2>5, <2>6
<1>4. CASE gnss_fallback
  <2>1. active = "external" /\ ~running /\ MODEM_FALLBACK
    BY <1>4 DEF gnss_fallback, PlaceInv, ArbiterInv, TurnInv
  <2>2. /\ pc = "fallback" /\ pc' \in {"ask", "last"}
        /\ ~listening' /\ active' = "modem"
        /\ external_usable' = external_usable
    BY <1>4 DEF gnss_fallback, gnss_ext_stop
  <2> QED BY <2>1, <2>2 DEF Turns!Next, Turns!HandOver
<1>5. CASE gnss_stop
  <2>1. ~running' /\ ~listening'
    BY <1>5
       DEF gnss_stop, gnss_ext_stop, gnss_modem_stop, modem_vars, ext_vars,
           ArbiterInv, MainTypeOK, Source
  <2>2. /\ pc = "check" /\ pc' = "asleep"
        /\ UNCHANGED <<active, external_usable>>
    BY <1>5 DEF gnss_stop, gnss_vars
  <2> QED BY <2>1, <2>2 DEF Turns!Next, Turns!End
<1> QED BY <1>1, <1>2, <1>3, <1>4, <1>5

(* A download silences the modem and starts it again (agnss.c:216-237).    *)
LEMMA DownloadStep ==
  ASSUME Inv, FetchBegins \/ FetchEnds
  PROVE  Turns!Next \/ UNCHANGED Turns!turn_vars
<1> USE DEF Inv, TypeOK, Goto, Heard, gnss_vars
<1>1. /\ active = "modem" /\ ~listening
      /\ UNCHANGED <<active, external_usable, listening>>
  BY DEF FetchBegins, FetchEnds, PlaceInv, ArbiterInv, ext_vars
<1>2. /\ pc \in {"fetch", "download"}
      /\ pc' \in {"download", "report", "begin"}
  BY DEF FetchBegins, FetchEnds, AfterFetch
<1>3. CASE ~STOP_DURING_FETCH
  <2>1. running' = running
    BY <1>3 DEF FetchBegins, FetchEnds, RestartAfter, modem_vars
  <2> QED BY <1>1, <1>2, <2>1 DEF Turns!turn_vars
<1>4. CASE STOP_DURING_FETCH /\ FetchBegins
  <2>1. ~running'
    BY <1>4 DEF FetchBegins, gnss_modem_stop
  <2> QED BY <1>1, <1>2, <1>4, <2>1 DEF Turns!Next, Turns!Silence
<1>5. CASE STOP_DURING_FETCH /\ FetchEnds
  <2>1. PICK restarted \in BOOLEAN : gnss_modem_start(restarted)
    BY <1>5 DEF FetchEnds, RestartAfter
  <2>2. running' = running \/ (~running /\ running')
    BY <2>1 DEF gnss_modem_start, ModemTypeOK
  <2>3. CASE ~running /\ running'
    BY <1>1, <1>2, <1>5, <2>3 DEF Turns!Next, Turns!Resume
  <2> QED BY <1>1, <1>2, <2>2, <2>3 DEF Turns!turn_vars
<1> QED BY <1>3, <1>4, <1>5

(* The other steps take no turn. *)
LEMMA OtherStep ==
  ASSUME \/ CycleSkipped \/ Ask \/ AskNot \/ Asked \/ FetchDeclined
         \/ WaitBegins \/ WaitGetsFix \/ WaitTimesOut
         \/ LastResort \/ GiveUp \/ Settle
         \/ Report \/ Frequent \/ Interval \/ WakeUp
         \/ ModemEvent \/ NmeaEvent \/ UNCHANGED vars
  PROVE  UNCHANGED Turns!turn_vars
<1> USE DEF Goto, Heard, gnss_vars, modem_vars, ext_vars
<1>1. UNCHANGED <<active, external_usable>>
  BY DEF CycleSkipped, Ask, AskNot, Asked, FetchDeclined, WaitBegins,
     WaitGetsFix, WaitTimesOut, LastResort, GiveUp, Settle, Report, Frequent,
     Interval, WakeUp, ModemEvent, NmeaEvent, vars
<1>2. UNCHANGED <<running, listening>>
  BY DEF CycleSkipped, Ask, AskNot, Asked, modem_request_taken,
     FetchDeclined, WaitBegins, modem_wait_begins, ext_wait_begins,
     WaitGetsFix, modem_wait_takes, ext_wait_takes, WaitTimesOut, LastResort,
     GiveUp, Settle, Report, Frequent, Interval, WakeUp, ModemEvent,
     PvtEvent, AgnssReqEvent, NmeaEvent, NmeaStore, NmeaGive, vars
<1>3. UNCHANGED (pc \notin {"boot", "halted", "top", "asleep"})
  BY DEF CycleSkipped, Ask, AskNot, Asked, FetchDeclined, AfterFetch,
     WaitBegins, WaitGetsFix, AfterFix, WaitTimesOut, AfterTimeout,
     LastResort, GiveUp, Settle, Report, Frequent, Interval, WakeUp,
     ModemEvent, NmeaEvent, vars
<1> QED BY <1>1, <1>2, <1>3 DEF Turns!turn_vars

(* The receivers take turns as ReceiverTurns promises, in every build      *)
(* (gnss.c:8-13, 66-98, 133-157, agnss.c:216-237).                         *)
THEOREM Implements == Spec => TakesTurns
<1>1. Init => TurnInv /\ Turns!Init
  BY DEF Init, ModemInit, ExtInit, TurnInv, Heard, Turns!Init
<1>2. TurnInv /\ [Next]_vars => TurnInv'
  BY TurnStep
<1>3. Inv /\ TurnInv /\ [Next]_vars => [Turns!Next]_(Turns!turn_vars)
  BY SearchStep, DownloadStep, OtherStep DEF Next, Fetching
<1> QED
  BY <1>1, <1>2, <1>3, Invariance, PTL DEF Spec, TakesTurns, Turns!Spec
=============================================================================
