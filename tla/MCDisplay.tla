------------------------------ MODULE MCDisplay ------------------------------
(* Two layers with two slots each, and two nvmap objects of one buffer.      *)
EXTENDS Display
=============================================================================
