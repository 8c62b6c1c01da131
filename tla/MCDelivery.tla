------------------------------ MODULE MCDelivery ------------------------------
(* Small instances of Delivery for TLC: one request is a copy, one is not.    *)
EXTENDS Delivery
===============================================================================
