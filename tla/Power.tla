-------------------------------- MODULE Power --------------------------------
(***************************************************************************)
(* power.c: external power as the PMIC reports it, by an edge (the GPIO    *)
(* event callback, on the system workqueue) and by a read of its status    *)
(* register (from the report loop).                                        *)
(***************************************************************************)
CONSTANT PmicFaults   (* whether a read of the PMIC may fail *)

ASSUME PowerAssumption == PmicFaults \in BOOLEAN

VARIABLES
  vbus,            (* external power, as it is                          *)
  events,          (* edges latched by the PMIC, not yet in a callback  *)
  vbus_connected   (* the cached answer                                 *)

power_vars == <<vbus, events, vbus_connected>>

Edge == {"detected", "removed"}

PowerTypeOK ==
  /\ vbus \in BOOLEAN
  /\ events \subseteq Edge
  /\ vbus_connected \in BOOLEAN

PowerInit ==
  /\ vbus \in BOOLEAN
  /\ events = {}
  /\ vbus_connected = FALSE

(* A reset of the chip: the cache is lost, a latched edge may be. *)
PowerRestart ==
  /\ vbus_connected' = FALSE
  /\ events' \in {{}, events}
  /\ UNCHANGED vbus

-----------------------------------------------------------------------------
(* Mutant: the cache is trusted, the register never read. *)
ReadingsCached == {vbus_connected}

(* read_vbus_present(): the register, or the cache if the read fails. *)
Readings == {vbus} \cup (IF PmicFaults THEN {vbus_connected} ELSE {})

(* power_vbus_present(), and the read at the end of power_init(). *)
Sample(present) ==
  /\ present \in Readings
  /\ vbus_connected' = present
  /\ UNCHANGED <<vbus, events>>

(* event_callback() up to the wake signal: the edges latched so far come   *)
(* in one call, and "detected" is looked at before "removed".              *)
TakeEdges ==
  /\ events # {}
  /\ events' = {}
  /\ vbus_connected' = ("detected" \in events)
  /\ UNCHANGED vbus

(* The rest of event_callback() when "removed" came along with "detected". *)
ClearConnected ==
  /\ vbus_connected' = FALSE
  /\ UNCHANGED <<vbus, events>>

(* The cable. *)
Plug ==
  /\ ~vbus
  /\ vbus' = TRUE
  /\ events' = events \cup {"detected"}
  /\ UNCHANGED vbus_connected

Unplug ==
  /\ vbus
  /\ vbus' = FALSE
  /\ events' = events \cup {"removed"}
  /\ UNCHANGED vbus_connected
=============================================================================
