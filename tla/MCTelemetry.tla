------------------------------ MODULE MCTelemetry ------------------------------
(* Three handlers, a channel for one event, a pool of two and two sinks. *)
EXTENDS TelemetryPromises
CONSTANTS e1, e2, e3, w1, w2
MCEvent == {e1, e2, e3}
MCWorker == {w1, w2}
=============================================================================
