-------------------------- MODULE MCCpuInterrupts --------------------------
(* Two cores with the clock, graphics and main threads.                    *)
EXTENDS CpuInterrupts

============================================================================
