------------------------ MODULE MCMonitoredConsumer ------------------------
(* A small instance of MonitoredConsumer for TLC.                          *)
EXTENDS MonitoredConsumer

CONSTANTS w1, w2

=============================================================================
