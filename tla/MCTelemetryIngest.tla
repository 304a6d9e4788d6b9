--------------------------- MODULE MCTelemetryIngest ---------------------------
(***************************************************************************)
(* Topics for checking TelemetryIngest.                                    *)
(***************************************************************************)
EXTENDS TelemetryIngest, TLC

CONSTANTS p1, p2, d1, d2

Rec(k, d) == [kind |-> k, dev |-> d]

\* Malformed records behind and in front of good ones, an unwritable record next to
\* a good one, and at the end of a partition a tombstone, which ends the process
\* whenever it is polled.
MixedLog == (p1 :> <<Rec("valid", d1), Rec("invalid", d1), Rec("valid", d2)>>)
         @@ (p2 :> <<Rec("unwritable", d2), Rec("poison", d2)>>)

\* One partition; a good record and a malformed one behind it.
InvalidLog == (p1 :> <<Rec("valid", d1), Rec("invalid", d1)>>)

\* One partition; a good record, a tombstone, a good record.
PoisonLog == (p1 :> <<Rec("valid", d1), Rec("poison", d1), Rec("valid", d1)>>)
===============================================================================
