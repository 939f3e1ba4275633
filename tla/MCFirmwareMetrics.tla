------------------------- MODULE MCFirmwareMetrics -------------------------
(***************************************************************************)
(* Instances of FirmwareMetrics for TLC.                                   *)
(***************************************************************************)
EXTENDS FirmwareMetrics, MCFirmwarePolicy

MetricsView == <<ControlView, metricVars>>
=============================================================================
