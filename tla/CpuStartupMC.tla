----------------------------- MODULE CpuStartupMC -----------------------------
(* CpuStartup for TLC: two processors besides the boot CPU. *)
EXTENDS CpuStartup

TwoOthers == <<1, 2>>
==============================================================================
