---------------------------- MODULE MCReportLoop ----------------------------
(***************************************************************************)
(* The report loop under the fairness its scheduling gives, and what must  *)
(* happen in the end.                                                      *)
(*                                                                         *)
(*  - The main thread goes on: every call it makes returns or times out,   *)
(*    which is what the watchdog enforces (WF of its steps).               *)
(*  - The system workqueue runs whenever main blocks (WF).                 *)
(*  - A network, a receiver, a boot and the arming of the sensor do not    *)
(*    fail every time they are tried (SF); nothing is assumed of a send.   *)
(*  - A car whose sensor is off notices no jolts, so the surge lapses (WF).*)
(***************************************************************************)
EXTENDS ReportLoop

FairSpec ==
  /\ Spec
  /\ WF_vars(Cycle)
  /\ WF_vars(WatchdogReset)
  /\ WF_vars(VbusDetected) /\ WF_vars(VbusRemoved)
  /\ WF_vars(Give) /\ WF_vars(RemovedAsWell)
  /\ WF_vars(~watching /\ CarSettles)
  /\ SF_vars(BootDone) /\ SF_vars(LteConnected) /\ SF_vars(GnssStarted)
  /\ SF_vars(BatterySleep /\ watching')

(* A tracker left on external power ends up reporting frequently and never *)
(* sleeps again, whatever edge was missed on the way (main.c:540-582).     *)
PowerServed == <>[]vbus => <>[](pc # "asleep")

(* A parked car comes to be watched, after every settle period, every      *)
(* reset and every call that the sensor rejected (main.c:309-330,          *)
(* motion.c:164-180), if the sensor was found at boot, and unless silence  *)
(* makes it reboot again and again.                                        *)
WatchedWhenParked ==
  <>[]~vbus /\ <>[]usable /\ <>[](quiet < 2) => []<>watching

(* A parked car that is not being moved does not keep the tracker awake    *)
(* (main.c:545, 584-595), unless it reboots without end: every boot is a   *)
(* cycle of its own.                                                       *)
SleepsAgain ==
  <>[]~vbus /\ <>[]~surge /\ <>[](quiet < 2) => []<>(pc = "asleep")

(* On battery and at rest, a silence of REBOOT_MINUTES ends, by a report   *)
(* that gets through or by the reboot (main.c:271-307).                    *)
BackstopWhenParked ==
  <>[]~vbus /\ <>[]~surge => (quiet = 2 ~> quiet # 2)

(* Kconfig:442: "How long nothing may reach the cloud before the tracker   *)
(* drops the modem to offline and back": past that time, and past the      *)
(* REBOOT_MINUTES after it, something is done.                             *)
SilenceIsNoticed == quiet = 2 ~> quiet # 2
=============================================================================
