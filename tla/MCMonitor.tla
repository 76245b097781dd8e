----------------------------- MODULE MCMonitor -----------------------------
(***************************************************************************)
(* Programs for the monitor: a loop with a conditional branch over flags   *)
(* that may be any; a call and its return, an indirect jump and calls      *)
(* through registers, jumps the monitor does not follow, a system call and *)
(* a fault.                                                                *)
(***************************************************************************)
EXTENDS Monitor

I(kind, rd, rs, to, cond) ==
  [kind |-> kind, rd |-> rd, rs |-> rs, to |-> to, cond |-> cond]
P == Coded("plain")
B(cond, to) == I("branch", "pc", "pc", to, cond)
J(rd, to) == I("jump", rd, "pc", to, "BA")
C(rd, rs) == I("callr", rd, rs, 1, "BA")
S(rd, to) == I("set", rd, "pc", to, "BA")

MCPrograms ==
  { <<P, B("BLE", 1), J("other", 1)>>,
    <<J("lr", 3), J("other", 2), C("pc", "lr")>>,
    <<S("other", 3), C("lr", "other"), C("other", "lr")>>,
    <<C("lr", "pc"), Syscall, S("pc", 1)>>,
    <<B("BGTU", 3), Fault, S("lr", 2)>> }

MCLeftovers == { [flags |-> [NoFlags EXCEPT !.z = TRUE], other |-> 1] }
=============================================================================
