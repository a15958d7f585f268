-------------------------------- MODULE Wake --------------------------------
(***************************************************************************)
(* wake.c: what ends a battery sleep.  A binary semaphore says that        *)
(* something happened and the atomic "pending" says what.                  *)
(*                                                                         *)
(* wake_signal() runs on the system workqueue, which the report loop       *)
(* preempts (main has priority 0, the workqueue 10 in prj.conf.example),   *)
(* so its two statements are two operators: SignalStore, SignalGive.       *)
(* wake_wait() runs on the main thread and does not block before its take. *)
(***************************************************************************)
EXTENDS Naturals

VARIABLES
  wake_sem,   (* the count of wake_sem, a semaphore of limit 1 *)
  pending     (* the reason stored last, "timer" when none     *)

wake_vars == <<wake_sem, pending>>

(* enum tracker_wake_reason *)
WakeReason == {"boot", "timer", "vbus", "motion"}

WakeTypeOK ==
  /\ wake_sem \in {0, 1}
  /\ pending \in WakeReason \ {"boot"}

WakeInit ==
  /\ wake_sem = 0
  /\ pending = "timer"

(* A reset of the chip initialises the two statics again. *)
WakeRestart ==
  /\ wake_sem' = 0
  /\ pending' = "timer"

-----------------------------------------------------------------------------
(* wake_signal(reason): atomic_set(&pending), then k_sem_give().           *)
SignalStore(reason) ==
  /\ pending' = reason
  /\ UNCHANGED wake_sem

SignalGive ==
  /\ wake_sem' = 1
  /\ UNCHANGED pending

(* Mutant: only the semaphore is cleared. *)
WaitBeginKeepsReason ==
  /\ wake_sem' = 0
  /\ UNCHANGED pending

(* Mutant: only the reason is cleared. *)
WaitBeginKeepsSem ==
  /\ pending' = "timer"
  /\ UNCHANGED wake_sem

(* wake_wait(): drop what was raised before the wait... *)
WaitBegin ==
  /\ pending' = "timer"
  /\ wake_sem' = 0

(* ...then take the semaphore with a timeout.  It times out only while     *)
(* nobody has given it, and then returns "timer" without reading pending.  *)
WaitTimesOut ==
  /\ wake_sem = 0
  /\ UNCHANGED wake_vars

(* A wait that was signalled returns whatever pending holds by then. *)
WaitTaken ==
  /\ wake_sem = 1
  /\ wake_sem' = 0
  /\ UNCHANGED pending
=============================================================================
