----------------------------- MODULE Conditions -----------------------------
(***************************************************************************)
(* The flags and what the conditional branches make of them                *)
(* (src/emulator.c, the branch case of cpu_run).                           *)
(***************************************************************************)

Flags == [n : BOOLEAN, z : BOOLEAN, c : BOOLEAN, v : BOOLEAN]

Conditions ==
  {"BEQ", "BNE", "BLT", "BGE", "BLTU", "BGEU", "BA", "BGT", "BLE", "BGTU", "BLEU"}

Taken(cond, f) ==
  LET less == f.n # f.v
  IN CASE cond = "BEQ"  -> f.z
       [] cond = "BNE"  -> ~f.z
       [] cond = "BLT"  -> less
       [] cond = "BGE"  -> ~less
       [] cond = "BLTU" -> f.c
       [] cond = "BGEU" -> ~f.c
       [] cond = "BA"   -> TRUE
       [] cond = "BGT"  -> ~f.z /\ ~less
       [] cond = "BLE"  -> f.z \/ less
       [] cond = "BGTU" -> ~f.c /\ ~f.z
       [] cond = "BLEU" -> f.c \/ f.z
=============================================================================
