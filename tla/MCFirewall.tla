------------------------------ MODULE MCFirewall ------------------------------
(* Firewall for TLC: two calls are enough for every interleaving.          *)
EXTENDS Firewall
=============================================================================
