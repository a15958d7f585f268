------------------------------ MODULE Delivery ------------------------------
(***************************************************************************)
(* What a send promises.  A report that is told to have arrived has        *)
(* arrived.  One that is told to have failed may arrive all the same, even *)
(* later: the acknowledgement was lost and not the report.                 *)
(***************************************************************************)
CONSTANT Reports

VARIABLES
  begun,     (* reports that were sent off                                 *)
  arrived,   (* reports that the server took                               *)
  success    (* reports whose send returned 0                              *)

vars == <<begun, arrived, success>>

Init == begun = {} /\ arrived = {} /\ success = {}

Begin(r) ==
  /\ r \notin begun
  /\ begun' = begun \cup {r}
  /\ UNCHANGED <<arrived, success>>

Arrive(r) ==
  /\ r \in begun
  /\ arrived' = arrived \cup {r}
  /\ UNCHANGED <<begun, success>>

Succeed(r) ==
  /\ r \in arrived
  /\ success' = success \cup {r}
  /\ UNCHANGED <<begun, arrived>>

Next == \E r \in Reports : Begin(r) \/ Arrive(r) \/ Succeed(r)

Spec == Init /\ [][Next]_vars
=============================================================================
