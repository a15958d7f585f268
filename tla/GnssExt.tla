------------------------------ MODULE GnssExt ------------------------------
(***************************************************************************)
(* gnss_ext.c: the external module, its power and its UART.  The NMEA      *)
(* parser calls gnss_data_handler() on the system workqueue, which the     *)
(* main thread preempts: a fix can be stored and not yet signalled.        *)
(***************************************************************************)
CONSTANT PinFaults   (* whether driving the power pin may fail *)

ASSUME PinAssumption == PinFaults \in BOOLEAN

VARIABLES
  powered,
  listening,     (* the UART is resumed under the open driver              *)
  ext_fix_sem,
  last_fix,      (* when the last fix came, as seen from the wait          *)
  nmea           (* gnss_data_handler(): "idle", or "give" when it has     *)
                 (* stored a fix and not signalled it                      *)

ext_vars == <<powered, listening, ext_fix_sem, last_fix, nmea>>

ExtTypeOK ==
  /\ powered \in BOOLEAN
  /\ listening \in BOOLEAN
  /\ ext_fix_sem \in {0, 1}
  /\ last_fix \in {"none", "old", "late", "fresh"}
  /\ nmea \in {"idle", "give"}

ExtInit ==
  /\ powered = FALSE
  /\ listening = FALSE
  /\ ext_fix_sem = 0
  /\ last_fix = "none"
  /\ nmea = "idle"

(* power_set(FALSE) *)
power_off == powered' \in {FALSE, powered /\ PinFaults}

(* gnss_ext_start() that succeeds *)
ext_starts ==
  /\ powered' = TRUE
  /\ listening' = TRUE
  /\ ext_fix_sem' = 0
  /\ UNCHANGED <<last_fix, nmea>>

(* gnss_ext_start() that fails: the pin, or else the UART or the driver,   *)
(* after which the module is switched off again.                           *)
ext_start_fails ==
  /\ powered' \in {FALSE, PinFaults}
  /\ listening' = FALSE
  /\ UNCHANGED <<ext_fix_sem, last_fix, nmea>>

gnss_ext_stop(cut) ==
  /\ listening' = FALSE
  /\ IF cut THEN power_off ELSE UNCHANGED powered
  /\ UNCHANGED <<ext_fix_sem, last_fix, nmea>>

(* gnss_ext_wait_fix() up to its wait *)
ext_wait_begins ==
  /\ ext_fix_sem' = 0
  /\ last_fix' = IF last_fix = "none" THEN "none"
                 ELSE IF nmea = "give" THEN "late" ELSE "old"
  /\ UNCHANGED <<powered, listening, nmea>>

(* ...and from the end of its wait. *)
ext_wait_takes ==
  /\ ext_fix_sem = 1
  /\ ext_fix_sem' = 0
  /\ UNCHANGED <<powered, listening, last_fix, nmea>>

(* gnss_data_handler() with a fix: the snapshot... *)
NmeaStore ==
  /\ powered /\ listening
  /\ nmea = "idle"
  /\ last_fix' = "fresh"
  /\ nmea' = "give"
  /\ UNCHANGED <<powered, listening, ext_fix_sem>>

(* ...and the semaphore. *)
NmeaGive ==
  /\ nmea = "give"
  /\ ext_fix_sem' = 1
  /\ nmea' = "idle"
  /\ UNCHANGED <<powered, listening, last_fix>>
=============================================================================
