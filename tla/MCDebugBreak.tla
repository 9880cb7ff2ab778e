---------------------------- MODULE MCDebugBreak ----------------------------
(* Three cores: a core that breaks again can meet two that still resume.     *)
EXTENDS DebugBreak
=============================================================================
