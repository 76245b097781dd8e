------------------------------- MODULE MCCpu -------------------------------
(* Small instances of Cpu: handlers of all causes at the last address.     *)
EXTENDS Cpu

MCVector(e, c) == IF e = 0 THEN Size - 1 ELSE c % Size
TimerOnly      == {{}, {"timer"}}
AllSources     == {{}, Sources}
AnySources     == SUBSET Sources
TimerRegisters == {"period", "timer control", "mask", "acknowledge"}
OtherRegisters == {"mask", "acknowledge",
                   "uart control", "tx", "rx", "blk control", "command"}
=============================================================================
