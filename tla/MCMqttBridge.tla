----------------------------- MODULE MCMqttBridge -----------------------------
(***************************************************************************)
(* A topic for checking MqttBridge: telemetry of one turbine, enough of it *)
(* to fill the queue of its session, and a record the bridge drops.        *)
(***************************************************************************)
EXTENDS MqttBridge

CONSTANTS d1, d2

Telemetry(d) == [dev |-> d, kind |-> "bound"]
Stray(k) == [dev |-> d2, kind |-> k]

MixedTelemetry == <<Telemetry(d1), Stray("unknown"), Telemetry(d1), Telemetry(d1)>>
===============================================================================
