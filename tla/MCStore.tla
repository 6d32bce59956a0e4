------------------------------ MODULE MCStore ------------------------------
(* An instance of Store for TLC: two workers, whose fits can be posted in      *)
(* another order than their updates, main, and the panel's engine.            *)
EXTENDS Store
=============================================================================
