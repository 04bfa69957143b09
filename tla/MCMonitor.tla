----------------------------- MODULE MCMonitor -----------------------------
(* Monitor for TLC.                                                        *)
EXTENDS Monitor
=============================================================================
