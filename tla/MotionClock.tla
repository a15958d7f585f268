---------------------------- MODULE MotionClock ----------------------------
(***************************************************************************)
(* The uptime, and the time of the last jolt kept as two words: the        *)
(* handler stores them one after the other on the workqueue, and main,     *)
(* which outranks it, reads them in between.  A word has "Word" values,    *)
(* 2^32 in the code, and a jolt at time 0 cannot be: 0 stands for none.    *)
(***************************************************************************)
EXTENDS Integers

CONSTANTS
  Word,             (* values of an atomic_t                               *)
  SURGE,            (* CONFIG_TRACKER_MOTION_SURGE_SECONDS                 *)
  MaxUptime         (* bound: when time stops                              *)

ASSUME ClockAssumption ==
  /\ Word \in Nat \ {0}
  /\ SURGE \in Nat \ {0}
  /\ MaxUptime \in Nat \ {0}

VARIABLES
  uptime,           (* k_uptime_get()                                      *)
  last_event_hi,    (* last_event_ms_hi                                    *)
  last_event_lo,    (* last_event_ms_lo                                    *)
  now,              (* the handler's jolt, 0 while it does not run         *)
  last_jolt         (* history: the last jolt whose handler is done        *)

jolt_vars == <<last_event_hi, last_event_lo, now, last_jolt>>
clock_vars == <<uptime, jolt_vars>>

ClockTypeOK ==
  /\ uptime \in 1..MaxUptime
  /\ last_event_hi \in Nat
  /\ last_event_lo \in 0..(Word - 1)
  /\ now \in 0..MaxUptime
  /\ last_jolt \in 0..MaxUptime

ClockInit ==
  /\ uptime = 1
  /\ last_event_hi = 0 /\ last_event_lo = 0
  /\ now = 0
  /\ last_jolt = 0

(* No time to speak of passes while main has preempted the handler: the    *)
(* handler goes on as soon as main blocks.                                 *)
Tick ==
  /\ uptime < MaxUptime /\ now = 0
  /\ uptime' = uptime + 1
  /\ UNCHANGED jolt_vars

(* Mutant: the low word first. *)
JoltStoresLowFirst ==
  /\ now = 0
  /\ now' = uptime
  /\ last_event_lo' = uptime % Word
  /\ UNCHANGED <<uptime, last_event_hi, last_jolt>>

(* motion_handler() *)
JoltStoresHigh ==
  /\ now = 0
  /\ now' = uptime
  /\ last_event_hi' = uptime \div Word
  /\ UNCHANGED <<uptime, last_event_lo, last_jolt>>

(* The low word completes the pair. *)
JoltStoresLow ==
  /\ now # 0
  /\ last_event_lo' = now % Word
  /\ last_jolt' = now
  /\ now' = 0
  /\ UNCHANGED <<uptime, last_event_hi>>

motion_last_event_uptime == last_event_hi * Word + last_event_lo

(* surge_active() for a jolt at "last" *)
SurgeFrom(last) == last # 0 /\ uptime - last < SURGE
=============================================================================
