---------------------------- MODULE MCMonitorTick ----------------------------
(* A small instance of MonitorTick: a grid of prices with the planned stop   *)
(* at the bottom, the entry in the middle and one target at the top.         *)
EXTENDS MonitorTick

CONSTANT t1

OneTarget == <<5>>
OneShare  == <<5>>
=============================================================================
