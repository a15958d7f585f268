----------------------------- MODULE GnssModem -----------------------------
(***************************************************************************)
(* gnss_modem.c: the onboard receiver.  Its events come in interrupt       *)
(* context, so a handler runs to its end before the main thread goes on.   *)
(*                                                                         *)
(* A PVT comes once a second, and a main thread that was given a fix takes *)
(* it well before the next: last_pvt is then still the PVT that gave it,   *)
(* and an invalid one in between changes nothing that main looks at.       *)
(***************************************************************************)
EXTENDS Naturals

VARIABLES
  running,           (* the modem's GNSS is started                          *)
  handler_set,       (* gnss_event_handler() is registered                   *)
  agnss_req_valid,   (* a request for assistance came since boot             *)
  agnss_req_sem,     (* the same, of this run, until it is taken             *)
  asked,             (* history: a request came since the receiver started   *)
  modem_fix_sem,
  last_pvt           (* when the last valid PVT came, as seen from the wait  *)

modem_vars == <<running, handler_set, agnss_req_valid, agnss_req_sem, asked,
                modem_fix_sem, last_pvt>>

(* "old" came before the current wait for a fix began, "fresh" after it.   *)
(* "late" was stored before it by a callback that had yet to signal it.    *)
FixAge == {"none", "old", "late", "fresh"}

Binary == {0, 1}

ModemTypeOK ==
  /\ running \in BOOLEAN
  /\ handler_set \in BOOLEAN
  /\ agnss_req_valid \in BOOLEAN
  /\ agnss_req_sem \in Binary
  /\ asked \in BOOLEAN
  /\ modem_fix_sem \in Binary
  /\ last_pvt \in FixAge

ModemInit ==
  /\ running = FALSE
  /\ handler_set = FALSE
  /\ agnss_req_valid = FALSE
  /\ agnss_req_sem = 0
  /\ asked = FALSE
  /\ modem_fix_sem = 0
  /\ last_pvt = "none"

gnss_modem_init(ok) ==
  /\ handler_set' = ok
  /\ UNCHANGED <<running, agnss_req_valid, agnss_req_sem, asked,
                 modem_fix_sem, last_pvt>>

(* Mutant: a request left over from an earlier run is counted. *)
modem_start_keeps_request(ok) ==
  /\ ok => ~running
  /\ running' = (running \/ ok)
  /\ modem_fix_sem' = 0
  /\ asked' = FALSE
  /\ UNCHANGED <<handler_set, agnss_req_valid, agnss_req_sem, last_pvt>>

(* The modem refuses to start a receiver that is running. *)
gnss_modem_start(ok) ==
  /\ ok => ~running
  /\ running' = (running \/ ok)
  /\ modem_fix_sem' = 0
  /\ agnss_req_sem' = 0
  /\ asked' = FALSE
  /\ UNCHANGED <<handler_set, agnss_req_valid, last_pvt>>

gnss_modem_stop ==
  /\ running' = FALSE
  /\ UNCHANGED <<handler_set, agnss_req_valid, agnss_req_sem, asked,
                 modem_fix_sem, last_pvt>>

(* Mutant: a fix signalled before the wait is taken for a new one. *)
modem_wait_keeps_fix ==
  /\ last_pvt' = IF last_pvt = "none" THEN "none" ELSE "old"
  /\ UNCHANGED <<running, handler_set, agnss_req_valid, agnss_req_sem, asked,
                 modem_fix_sem>>

(* gnss_modem_wait_fix() up to its wait *)
modem_wait_begins ==
  /\ modem_fix_sem' = 0
  /\ last_pvt' = IF last_pvt = "none" THEN "none" ELSE "old"
  /\ UNCHANGED <<running, handler_set, agnss_req_valid, agnss_req_sem, asked>>

(* ...and from the end of its wait. *)
modem_wait_takes ==
  /\ modem_fix_sem = 1
  /\ modem_fix_sem' = 0
  /\ UNCHANGED <<running, handler_set, agnss_req_valid, agnss_req_sem, asked,
                 last_pvt>>

(* gnss_modem_agnss_request_wait() that does not time out *)
modem_request_taken ==
  /\ agnss_req_sem = 1
  /\ agnss_req_sem' = 0
  /\ UNCHANGED <<running, handler_set, agnss_req_valid, asked, modem_fix_sem,
                 last_pvt>>

(* Mutant: the semaphore is given without its limit. *)
PvtCounts ==
  /\ running /\ handler_set
  /\ modem_fix_sem' = modem_fix_sem + 1
  /\ last_pvt' = "fresh"
  /\ UNCHANGED <<running, handler_set, agnss_req_valid, agnss_req_sem, asked>>

(* NRF_MODEM_GNSS_EVT_PVT, with a valid fix *)
PvtEvent ==
  /\ running /\ handler_set
  /\ modem_fix_sem' = 1
  /\ last_pvt' = "fresh"
  /\ UNCHANGED <<running, handler_set, agnss_req_valid, agnss_req_sem, asked>>

(* NRF_MODEM_GNSS_EVT_AGNSS_REQ: the receiver lacks valid assistance. *)
AgnssReqEvent ==
  /\ running /\ handler_set
  /\ agnss_req_valid' = TRUE
  /\ agnss_req_sem' = 1
  /\ asked' = TRUE
  /\ UNCHANGED <<running, handler_set, modem_fix_sem, last_pvt>>
=============================================================================
