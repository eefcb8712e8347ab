------------------------- MODULE MCReadinessStream -------------------------
(* ReadinessStream with two handlers, reports that connect and disconnect  *)
(* the plugin with and without project facts, and one consumer.            *)
EXTENDS ReadinessStream

Report(runtime, preview, bake) ==
  [runtime |-> runtime, project |-> [preview |-> preview, bake |-> bake], differs |-> FALSE]

MCReports ==
  { Report("connected", "settled", "success"),
    Report("disconnected", "settled", "absent") }
=============================================================================
