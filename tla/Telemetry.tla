----------------------------- MODULE Telemetry -----------------------------
(***************************************************************************)
(* What a report says that is computed: the charge of the battery from its *)
(* voltage, and how long the tracker has been awake.                       *)
(***************************************************************************)
EXTENDS Integers

(* Points of the discharge curve, the highest first. *)
lipo_curve ==
  <<[lvl_pptt |-> 10000, lvl_mV |-> 4200], [lvl_pptt |-> 9000, lvl_mV |-> 4050],
    [lvl_pptt |-> 7500, lvl_mV |-> 3900], [lvl_pptt |-> 5000, lvl_mV |-> 3750],
    [lvl_pptt |-> 2500, lvl_mV |-> 3600], [lvl_pptt |-> 1000, lvl_mV |-> 3450],
    [lvl_pptt |-> 0, lvl_mV |-> 3200]>>

(* Mutant: the share of the segment is added to its upper end. *)
InterpolateFromAbove(i, batt_mV) ==
  LET pb == lipo_curve[i]
      pa == lipo_curve[i - 1]
  IN  pa.lvl_pptt + ((pa.lvl_pptt - pb.lvl_pptt) * (batt_mV - pb.lvl_mV))
                      \div (pa.lvl_mV - pb.lvl_mV)

(* The line through point i and the one above it. *)
Interpolate(i, batt_mV) ==
  LET pb == lipo_curve[i]
      pa == lipo_curve[i - 1]
  IN  pb.lvl_pptt + ((pa.lvl_pptt - pb.lvl_pptt) * (batt_mV - pb.lvl_mV))
                      \div (pa.lvl_mV - pb.lvl_mV)

(* The first point that is not above the voltage ends the walk. *)
battery_level_pptt(batt_mV) ==
  IF batt_mV >= lipo_curve[1].lvl_mV THEN lipo_curve[1].lvl_pptt
  ELSE IF batt_mV < lipo_curve[7].lvl_mV THEN lipo_curve[7].lvl_pptt
  ELSE LET pb == CHOOSE i \in 2..7 :
                   /\ lipo_curve[i].lvl_mV <= batt_mV
                   /\ batt_mV < lipo_curve[i - 1].lvl_mV
       IN  Interpolate(pb, batt_mV)

telemetry_battery_percent(batt_mv) == battery_level_pptt(batt_mv) \div 100
=============================================================================
