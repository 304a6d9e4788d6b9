--------------------------- MODULE MCAnomalyDetector ---------------------------
(***************************************************************************)
(* A bearing temperature with its twin and the rotor speed, for checking   *)
(* AnomalyDetector.                                                        *)
(***************************************************************************)
EXTENDS AnomalyDetector, TLC

CONSTANTS tt109, tt110, rotor

MCOrder == <<tt109, tt110, rotor>>
MCChoices == (tt109 :> {0, 9}) @@ (tt110 :> {0, 2}) @@ (rotor :> {0, 12000})
MCRules == (tt109 :> {"out_of_range", "rapid_rise", "drift"})
        @@ (tt110 :> {"stuck_value", "rapid_increase"})
        @@ (rotor :> {})
HotAbove(limit) == {[min |-> -5, max |-> limit]}
MCLimits == [s \in Sensors |-> [state \in OperatingStates |->
  IF s # tt109 THEN {} ELSE IF state = "IDLE" THEN HotAbove(5) ELSE HotAbove(8)]]
MCTrackPair == {tt109, tt110}
MCConditions == {[sensor |-> tt109, operator |-> ">", threshold |-> 8],
                 [sensor |-> tt110, operator |-> ">=", threshold |-> 2]}
===============================================================================
