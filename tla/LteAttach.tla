----------------------------- MODULE LteAttach -----------------------------
(***************************************************************************)
(* The registration of the modem with the network: what the modem does,    *)
(* the notifications it raises, and the semaphore by which lte_handler()   *)
(* ends the wait of lte_ensure_connected().                                *)
(***************************************************************************)
EXTENDS Naturals

CONSTANT MaxNotices     (* bound: notifications that wait to be handled    *)

ASSUME NoticesAssumption == MaxNotices \in Nat \ {0}

VARIABLES
  radio,                (* "off", "searching" or "registered"              *)
  notices,              (* notifications of a registration not handled yet *)
  lte_connected_sem,    (* its count                                       *)
  told,                 (* history: handled since the semaphore was reset  *)
  held                  (* history: registered ever since before the reset *)

sem_vars == <<lte_connected_sem, told>>
lte_vars == <<radio, notices, sem_vars, held>>

LteTypeOK ==
  /\ radio \in {"off", "searching", "registered"}
  /\ notices \in 0..MaxNotices
  /\ lte_connected_sem \in 0..1
  /\ told \in BOOLEAN
  /\ held \in BOOLEAN

LteInit ==
  /\ radio = "off" /\ notices = 0 /\ lte_connected_sem = 0
  /\ told = FALSE /\ held = FALSE

LteRestart ==
  /\ radio' = "off" /\ notices' = 0 /\ lte_connected_sem' = 0
  /\ told' = FALSE /\ held' = FALSE

-----------------------------------------------------------------------------
(* The modem, and the handler of its notifications.                        *)

RadioRegisters ==
  /\ radio = "searching" /\ notices < MaxNotices
  /\ radio' = "registered"
  /\ notices' = notices + 1
  /\ UNCHANGED <<sem_vars, held>>

RadioLoses ==
  /\ radio = "registered"
  /\ radio' = "searching"
  /\ held' = FALSE
  /\ UNCHANGED <<notices, sem_vars>>

(* lte_handler(): the count of the semaphore does not exceed one. *)
lte_handler ==
  /\ notices > 0
  /\ notices' = notices - 1
  /\ lte_connected_sem' = 1
  /\ told' = TRUE
  /\ UNCHANGED <<radio, held>>

-----------------------------------------------------------------------------
(* What main does.                                                         *)

(* lte_is_registered(): a query that fails counts as a no. *)
LteIsRegistered == {radio = "registered", FALSE}

(* lte_lc_func_mode_set() to offline and back, whatever they return: both  *)
(* may fail, the way back alone, or neither.                               *)
RadioRestarts ==
  /\ radio' \in {radio, "off", "searching"}
  /\ held' = (held /\ radio' = "registered")
  /\ UNCHANGED <<notices, sem_vars>>

(* Mutant: a registration that nobody waited for is kept. *)
SemKept ==
  /\ told' = FALSE
  /\ held' = (radio = "registered")
  /\ UNCHANGED <<radio, notices, lte_connected_sem>>

SemReset ==
  /\ lte_connected_sem' = 0
  /\ told' = FALSE
  /\ held' = (radio = "registered")
  /\ UNCHANGED <<radio, notices>>

(* Mutant: the semaphore is reset once the search is on. *)
ConnectThenReset ==
  /\ radio' = IF radio = "off" THEN "searching" ELSE radio
  /\ lte_connected_sem' = 0
  /\ UNCHANGED <<notices, told, held>>

(* lte_lc_connect_async() starts a search; a modem that is registered or   *)
(* searching already is left alone.                                        *)
ConnectAsync ==
  /\ radio' = IF radio = "off" THEN "searching" ELSE radio
  /\ UNCHANGED <<notices, sem_vars, held>>

SemTaken ==
  /\ lte_connected_sem = 1
  /\ lte_connected_sem' = 0
  /\ UNCHANGED <<radio, notices, told, held>>
=============================================================================
