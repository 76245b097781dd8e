------------------------------- MODULE MCMmu -------------------------------
(***************************************************************************)
(* Small instances of Mmu: two-entry tables, three RAM pages, a TLB of two *)
(* entries (pages 0 and 2 share slot 0).  Page 0 is the root table, page 1 *)
(* a second-level table, page 2 another root.                              *)
(***************************************************************************)
EXTENDS Mmu, Bitwise, TLC

MCOr(a, b) == a | b

Pte(v, g, r, w, x, u, ppn) ==
  [v |-> v, g |-> g, ppn |-> ppn,
   bits |-> [d |-> FALSE, r |-> r, w |-> w, x |-> x, u |-> u]]

Nothing   == Pte(FALSE, FALSE, FALSE, FALSE, FALSE, FALSE, 0)
Table(p)  == Pte(TRUE, FALSE, FALSE, FALSE, FALSE, FALSE, p)
Kernel(p) == Pte(TRUE, FALSE, TRUE, TRUE, TRUE, FALSE, p)
UserRO(p) == Pte(TRUE, FALSE, TRUE, FALSE, TRUE, TRUE, p)
UserRW(p) == Pte(TRUE, FALSE, TRUE, TRUE, FALSE, TRUE, p)
Global(p) == Pte(TRUE, TRUE, TRUE, TRUE, TRUE, FALSE, p)

\* Both halves of the address space under one second-level table; the other
\* root maps only the lower half.
Tables(leaf0, leaf1) ==
  <<0, 0>> :> Table(1) @@ <<0, 1>> :> Table(1) @@ <<1, 0>> :> leaf0 @@
  <<1, 1>> :> leaf1 @@ <<2, 0>> :> Table(1) @@ <<2, 1>> :> Nothing

MCBoot   == {Tables(Kernel(0), UserRW(1))}
MCStored == {UserRW(0), Global(2)}
=============================================================================
