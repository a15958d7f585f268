------------------------------ MODULE Hologram ------------------------------
(***************************************************************************)
(* hologram.c: one TCP connection per report, and the server at its other  *)
(* end.  Every call on the way may fail; what was sent may be answered     *)
(* after the device has stopped waiting.                                   *)
(*                                                                         *)
(* An error is told as report_fix() tells it: "stale" for -EACCES and      *)
(* -ENOTCONN, "error" for the rest.                                        *)
(***************************************************************************)
EXTENDS Naturals

CONSTANTS
  OFFLINE_DEBUG,    (* CONFIG_TRACKER_OFFLINE_DEBUG                        *)
  KEY_IS_SET,       (* CONFIG_HOLOGRAM_DEVICE_KEY is not the default       *)
  MaxReports        (* bound: reports that are sent                        *)

ASSUME HologramAssumption ==
  /\ OFFLINE_DEBUG \in BOOLEAN
  /\ KEY_IS_SET \in BOOLEAN
  /\ MaxReports \in Nat

Reports == 1..MaxReports

VARIABLES
  at,               (* the call that socket_send_envelope() is in          *)
  err,              (* what it is about to return                          *)
  fd, res,          (* the socket is open, the address is allocated        *)
  timed,            (* SO_RCVTIMEO was applied                             *)
  answer,           (* what the server wrote on the connection             *)
  current,          (* the report it sends                                 *)
  wire,             (* envelopes on their way, per report                  *)
  taken             (* envelopes that the server accepted, per report      *)

call_vars == <<at, err>>
handles == <<fd, res>>
net_vars == <<answer, wire, taken>>
hologram_vars == <<call_vars, handles, timed, current, net_vars>>

Error == {"stale", "error"}

HologramTypeOK ==
  /\ at \in {"out", "getaddrinfo", "socket", "connect", "setsockopt", "send",
             "recv", "cleanup"}
  /\ err \in {"none"} \cup Error
  /\ fd \in BOOLEAN
  /\ res \in BOOLEAN
  /\ timed \in BOOLEAN
  /\ answer \in {"none", "accepted", "rejected"}
  /\ current \in 0..MaxReports
  /\ wire \in [Reports -> Nat]
  /\ taken \in [Reports -> Nat]

HologramInit ==
  /\ at = "out" /\ err = "none"
  /\ fd = FALSE /\ res = FALSE
  /\ timed = FALSE
  /\ answer = "none"
  /\ current = 0
  /\ wire = [r \in Reports |-> 0]
  /\ taken = [r \in Reports |-> 0]

(* build_envelope() finds no memory, or its buffer too small. *)
EnvelopeFails == at' = "out" /\ err' = "error"

(* hologram_send(), up to socket_send_envelope() *)
HologramSend ==
  \/ EnvelopeFails
  \/ IF OFFLINE_DEBUG THEN at' = "out" /\ err' = "none"
     ELSE IF ~KEY_IS_SET THEN at' = "out" /\ err' = "stale"
     ELSE at' = "getaddrinfo" /\ err' = "none"

Fails(to) ==
  /\ at' = to
  /\ err' \in Error

GetAddrInfo ==
  /\ at = "getaddrinfo"
  /\ \/ at' = "socket" /\ res' = TRUE /\ UNCHANGED err
     \/ at' = "out" /\ err' = "error" /\ UNCHANGED res
  /\ UNCHANGED <<fd, timed, current, net_vars>>

OpenSocket ==
  /\ at = "socket"
  /\ \/ at' = "connect" /\ fd' = TRUE /\ UNCHANGED err
     \/ Fails("cleanup") /\ UNCHANGED fd
  /\ UNCHANGED <<res, timed, current, net_vars>>

Connect ==
  /\ at = "connect"
  /\ \/ at' = "setsockopt" /\ answer' = "none" /\ UNCHANGED err
     \/ Fails("cleanup") /\ UNCHANGED answer
  /\ UNCHANGED <<handles, timed, current, wire, taken>>

(* A timeout that is not applied is only logged. *)
SetSockOpt ==
  /\ at = "setsockopt"
  /\ at' = "send"
  /\ timed' \in BOOLEAN
  /\ UNCHANGED <<err, handles, current, net_vars>>

(* Mutant: a send that fails returns on the spot. *)
SendReturns ==
  /\ at = "send"
  /\ \/ /\ at' = "recv"
        /\ wire' \in {wire, [wire EXCEPT ![current] = @ + 1]}
        /\ UNCHANGED err
     \/ Fails("out") /\ UNCHANGED wire
  /\ UNCHANGED <<handles, timed, current, answer, taken>>

(* A short count is not looked at: the envelope may lack its end, and then *)
(* the server makes nothing of it.                                         *)
Send ==
  /\ at = "send"
  /\ \/ /\ at' = "recv"
        /\ wire' \in {wire, [wire EXCEPT ![current] = @ + 1]}
        /\ UNCHANGED err
     \/ Fails("cleanup") /\ UNCHANGED wire
  /\ UNCHANGED <<handles, timed, current, answer, taken>>

(* Mutant: any answer is good news. *)
RecvTrusts ==
  /\ at = "recv" /\ answer # "none"
  /\ at' = "cleanup"
  /\ err' = "none"
  /\ UNCHANGED <<handles, timed, current, net_vars>>

(* An answer that comes in pieces may be cut before its end. *)
Recv ==
  /\ at = "recv" /\ answer # "none"
  /\ at' = "cleanup"
  /\ err' \in IF answer = "accepted" THEN {"none", "error"} ELSE {"error"}
  /\ UNCHANGED <<handles, timed, current, net_vars>>

(* The timeout, or the connection is gone. *)
RecvFails ==
  /\ at = "recv"
  /\ at' = "cleanup"
  /\ err' = "error"
  /\ UNCHANGED <<handles, timed, current, net_vars>>

Cleanup ==
  /\ at = "cleanup"
  /\ at' = "out"
  /\ fd' = FALSE /\ res' = FALSE
  /\ answer' = "none"
  /\ UNCHANGED <<err, timed, current, wire, taken>>

SocketSendEnvelope ==
  \/ GetAddrInfo \/ OpenSocket \/ Connect \/ SetSockOpt \/ Send \/ Recv
  \/ RecvFails \/ Cleanup

(* The server has an envelope and answers it, if the device still listens. *)
ServerAnswers(r) ==
  /\ wire[r] > 0
  /\ wire' = [wire EXCEPT ![r] = @ - 1]
  /\ \E ok \in BOOLEAN :
       /\ taken' = IF ok THEN [taken EXCEPT ![r] = @ + 1] ELSE taken
       /\ answer' = IF r = current /\ at = "recv" /\ answer = "none"
                      THEN IF ok THEN "accepted" ELSE "rejected"
                      ELSE answer
  /\ UNCHANGED <<call_vars, handles, timed, current>>

(* An envelope is lost with its connection. *)
EnvelopeLost(r) ==
  /\ wire[r] > 0
  /\ wire' = [wire EXCEPT ![r] = @ - 1]
  /\ UNCHANGED <<call_vars, handles, timed, current, answer, taken>>
=============================================================================
