------------------------------- MODULE Motion -------------------------------
(***************************************************************************)
(* motion.c: the accelerometer's jolt interrupt and the time of the last   *)
(* jolt.  The 64-bit time of the last event is abstracted to the one thing *)
(* the report loop asks of it: whether it lies within                      *)
(* TRACKER_MOTION_SURGE_SECONDS of now.                                    *)
(***************************************************************************)
CONSTANTS
  MOTION_WAKE,    (* CONFIG_TRACKER_MOTION_WAKE                          *)
  SensorFaults    (* whether calls to the accelerometer's driver may fail *)

ASSUME MotionAssumption ==
  /\ MOTION_WAKE \in BOOLEAN
  /\ SensorFaults \in BOOLEAN

VARIABLES
  usable,   (* motion_init() went through                     *)
  armed,    (* the flag: what main believes of the trigger    *)
  watching, (* the sensor's: its trigger is set               *)
  surge     (* the last jolt is less than SURGE_SECONDS old   *)

motion_vars == <<usable, armed, watching, surge>>

MotionTypeOK ==
  /\ usable \in BOOLEAN
  /\ armed \in BOOLEAN
  /\ watching \in BOOLEAN
  /\ surge \in BOOLEAN

(* The statics at reset: no event since boot, nothing armed. *)
MotionInit ==
  /\ usable = FALSE
  /\ armed = FALSE
  /\ watching = FALSE
  /\ surge = FALSE

MotionRestart ==
  /\ usable' = FALSE
  /\ armed' = FALSE
  /\ watching' = FALSE
  /\ surge' = FALSE

-----------------------------------------------------------------------------
(* motion_init(): any of its driver calls failing leaves the sensor        *)
(* unusable, and a build without motion wake has only the inline stubs.    *)
MotionStart ==
  /\ usable' \in {MOTION_WAKE, MOTION_WAKE /\ ~SensorFaults}
  /\ UNCHANGED <<armed, watching, surge>>

(* Mutants: an armed trigger is taken for settled; the flag is set though  *)
(* the driver has rejected the call.                                       *)
SetArmedOnce(arm) ==
  /\ armed' = (armed \/ (usable /\ arm))
  /\ watching' = armed'
  /\ UNCHANGED <<usable, surge>>

SetArmedUnchecked(arm) ==
  /\ IF ~usable \/ arm = armed
       THEN UNCHANGED <<armed, watching>>
       ELSE /\ armed' = arm
            /\ watching' \in {arm} \cup (IF SensorFaults THEN {watching} ELSE {})
  /\ UNCHANGED <<usable, surge>>

(* motion_set_armed(arm).  A driver that rejects the call is taken to      *)
(* leave the trigger as it was, as motion.c takes it; main is not told.    *)
SetArmed(arm) ==
  /\ IF ~usable \/ arm = armed
       THEN UNCHANGED <<armed, watching>>
       ELSE \/ armed' = arm /\ watching' = arm
            \/ SensorFaults /\ UNCHANGED <<armed, watching>>
  /\ UNCHANGED <<usable, surge>>

(* The part of motion_handler() that stores the time of the jolt. *)
NoteJolt ==
  /\ watching
  /\ surge' = TRUE
  /\ UNCHANGED <<usable, armed, watching>>

(* SURGE_SECONDS have gone by without another jolt. *)
SurgeLapses ==
  /\ surge
  /\ surge' = FALSE
  /\ UNCHANGED <<usable, armed, watching>>
=============================================================================
