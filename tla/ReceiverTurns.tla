--------------------------- MODULE ReceiverTurns ---------------------------
(***************************************************************************)
(* What the arbiter promises of the two receivers, with the fixes, the     *)
(* assistance and the power left out.  A search begins on the module where *)
(* there is one, or on the modem if the module refuses.  The module is     *)
(* never interrupted, and once it is given up it has no second turn in the *)
(* search.  The modem may be silenced for a download.                      *)
(***************************************************************************)
CONSTANTS
  HandsOver,   (* a search may go on with the modem     *)
  Pauses       (* a download silences the modem         *)

VARIABLES
  fitted,      (* a module answered at boot             *)
  searching,   (* between the start and the stop        *)
  owner,       (* the receiver whose turn it is         *)
  on           (* the receiver that is on, or "none"    *)

turn_vars == <<fitted, searching, owner, on>>

Init ==
  /\ fitted = FALSE
  /\ searching = FALSE
  /\ owner = "modem"
  /\ on = "none"

Fit ==
  /\ ~searching /\ ~fitted
  /\ fitted' = TRUE /\ owner' = "external"
  /\ UNCHANGED <<searching, on>>

Begin ==
  /\ ~searching /\ searching' = TRUE
  /\ owner' \in {"modem"} \cup (IF fitted THEN {"external"} ELSE {})
  /\ on' = owner'
  /\ UNCHANGED fitted

(* Neither starts. *)
BeginFails ==
  /\ ~searching
  /\ owner' = "modem"
  /\ UNCHANGED <<fitted, searching, on>>

(* The modem may refuse, and is then silent for the turn. *)
HandOver ==
  /\ searching /\ HandsOver
  /\ owner = "external" /\ owner' = "modem"
  /\ on' \in {"modem", "none"}
  /\ UNCHANGED <<fitted, searching>>

Silence ==
  /\ searching /\ Pauses
  /\ owner = "modem" /\ on' = "none"
  /\ UNCHANGED <<fitted, searching, owner>>

Resume ==
  /\ searching /\ Pauses
  /\ owner = "modem" /\ on = "none" /\ on' = "modem"
  /\ UNCHANGED <<fitted, searching, owner>>

End ==
  /\ searching /\ searching' = FALSE
  /\ on' = "none"
  /\ UNCHANGED <<fitted, owner>>

Next == Fit \/ Begin \/ BeginFails \/ HandOver \/ Silence \/ Resume \/ End

Spec == Init /\ [][Next]_turn_vars
=============================================================================
