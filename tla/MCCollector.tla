---------------------------- MODULE MCCollector ----------------------------
(* An instance of Collector for TLC, with one registry channel.               *)
EXTENDS Collector
=============================================================================
