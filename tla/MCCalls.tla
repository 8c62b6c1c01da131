------------------------------- MODULE MCCalls -------------------------------
(* A small instance of Calls for TLC: a window with one SQL tab.             *)
EXTENDS Calls
CONSTANT sql

OneTab == {sql}
===============================================================================
