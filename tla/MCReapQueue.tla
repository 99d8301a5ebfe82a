------------------------------ MODULE MCReapQueue ------------------------------
(* The reaper queue for TLC: its configurations give the constants values.  *)
EXTENDS ReapQueue

=============================================================================
