------------------------------ MODULE CloudLink ------------------------------
(***************************************************************************)
(* The cloud transport as the report loop uses it: cloud_nrf.c, which      *)
(* keeps a DTLS session across sleeps, or cloud_hologram.c, which opens a  *)
(* socket for every report and keeps nothing.                              *)
(*                                                                         *)
(* "live" is the server's side of the session, which the device cannot see *)
(* until it sends.                                                         *)
(***************************************************************************)
CONSTANT NRF_CLOUD   (* TRUE: cloud_nrf.c, FALSE: cloud_hologram.c *)

ASSUME CloudAssumption == NRF_CLOUD \in BOOLEAN

VARIABLES
  creds_ok,     (* the credentials check at init, latched       *)
  link_state,   (* enum link_state                              *)
  live          (* the server still holds the session           *)

cloud_vars == <<creds_ok, link_state, live>>

CloudTypeOK ==
  /\ creds_ok \in BOOLEAN
  /\ link_state \in {"disconnected", "connected", "paused"}
  /\ live \in BOOLEAN

CloudInit ==
  /\ creds_ok = FALSE
  /\ link_state = "disconnected"
  /\ live = FALSE

CloudRestart ==
  /\ creds_ok' = FALSE
  /\ link_state' = "disconnected"
  /\ live' = FALSE

-----------------------------------------------------------------------------
(* cloud_init() *)
CloudStart ==
  /\ creds_ok' \in IF NRF_CLOUD THEN BOOLEAN ELSE {FALSE}
  /\ UNCHANGED <<link_state, live>>

(* nrf_cloud_coap_connect(), and the clean-up after it failed. *)
Handshake(ok) ==
  /\ link_state' = IF ok THEN "connected" ELSE "disconnected"
  /\ live' = ok
  /\ UNCHANGED creds_ok

(* A paused session is picked up from its saved connection ID, without a   *)
(* word to the server.                                                     *)
ResumeSaved ==
  /\ link_state = "paused"
  /\ link_state' = "connected"
  /\ UNCHANGED <<creds_ok, live>>

(* Mutant: a paused session is taken for a connected one. *)
ResumeTrustsPaused(ok) ==
  \/ /\ NRF_CLOUD => creds_ok /\ link_state # "disconnected"
     /\ ok
     /\ UNCHANGED cloud_vars
  \/ /\ NRF_CLOUD /\ ~creds_ok
     /\ ~ok
     /\ UNCHANGED cloud_vars
  \/ /\ NRF_CLOUD /\ creds_ok
     /\ link_state = "disconnected"
     /\ Handshake(ok)

(* cloud_resume(), ok when it returns 0 *)
Resume(ok) ==
  \/ /\ NRF_CLOUD => creds_ok /\ link_state = "connected"
     /\ ok
     /\ UNCHANGED cloud_vars
  \/ /\ NRF_CLOUD /\ ~creds_ok
     /\ ~ok
     /\ UNCHANGED cloud_vars
  \/ /\ NRF_CLOUD /\ creds_ok
     /\ ok /\ ResumeSaved
  \/ /\ NRF_CLOUD /\ creds_ok
     /\ link_state # "connected"
     /\ Handshake(ok)

(* cloud_pause(): the session stays open when its connection ID cannot be  *)
(* saved.                                                                  *)
Pause ==
  /\ link_state' \in IF NRF_CLOUD /\ link_state = "connected"
                       THEN {"connected", "paused"}
                       ELSE {link_state}
  /\ UNCHANGED <<creds_ok, live>>

(* cloud_send_telemetry(): "stale" is -EACCES or -ENOTCONN, "error" any    *)
(* other failure.  A local socket may be dead under a session that lives.  *)
SendResults ==
  {"stale", "error"} \cup
    IF NRF_CLOUD => link_state = "connected" /\ live THEN {"ok"} ELSE {}

(* The server discards the session. *)
SessionDies ==
  /\ live
  /\ live' = FALSE
  /\ UNCHANGED <<creds_ok, link_state>>
=============================================================================
