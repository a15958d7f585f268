---------------------------- MODULE ParkingGuard ----------------------------
(***************************************************************************)
(* What the tracker promises about watching a parked car, with everything  *)
(* but that promise left out.  After external power was last seen, Settle  *)
(* battery sleeps pass unwatched - somebody is still getting out of the    *)
(* car - and from then on every sleep is watched, until power is seen      *)
(* again.  A restart watches from its first sleep on.                      *)
(***************************************************************************)
EXTENDS Naturals

CONSTANTS
  Settle,    (* unwatched sleeps after power, a natural number    *)
  Faulty     (* the accelerometer may be missing, or not obey    *)

VARIABLES
  left,       (* unwatched sleeps still owed *)
  watching,   (* a jolt would be noticed     *)
  parked      (* the tracker sleeps          *)

guard_vars == <<left, watching, parked>>

Init ==
  /\ left = 0
  /\ watching = FALSE
  /\ parked = FALSE

(* The accelerometer is asked to watch, or to stop watching. *)
Watch(on) == watching' \in {on} \cup (IF Faulty THEN {watching} ELSE {})

(* A sleep that is owed passes unwatched. *)
SettleSleep ==
  /\ ~parked /\ left > 0
  /\ Watch(FALSE)
  /\ left' = left - 1
  /\ parked' = TRUE

WatchedSleep ==
  /\ ~parked /\ left = 0
  /\ Watch(TRUE)
  /\ parked' = TRUE
  /\ UNCHANGED left

Wake ==
  /\ parked
  /\ parked' = FALSE
  /\ UNCHANGED <<left, watching>>

(* Power is seen while awake: what is owed is owed again in full. *)
SeePower ==
  /\ ~parked
  /\ left' = Settle
  /\ watching' \in {watching, FALSE}
  /\ UNCHANGED parked

Restart ==
  /\ left' = 0
  /\ watching' = FALSE
  /\ parked' = FALSE

Next == SettleSleep \/ WatchedSleep \/ Wake \/ SeePower \/ Restart

Spec == Init /\ [][Next]_guard_vars
=============================================================================
