---------------------------- MODULE MCConnection ----------------------------
(* A small instance of Connection for TLC: every method of the dispatcher   *)
(* is called, and one table is watched.                                     *)
EXTENDS Connection

MCRole == {"ReadOnly", "Operator", "Admin"}
MCTable == {"subvolume"}
MCCalls == Method
=============================================================================
