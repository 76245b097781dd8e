-------------------------------- MODULE Mmu --------------------------------
(***************************************************************************)
(* The address translation of the CPUTwo emulator: two-level page tables   *)
(* that live in guest memory, a direct-mapped TLB in front of them, the    *)
(* hardware-maintained D bit, SFENCE and SATP writes (src/emulator.c,      *)
(* mmu_translate, cpu_read32, cpu_write32, cpu_fetch, the CAS and SFENCE   *)
(* opcodes).  The guest may write any word of memory at any time, page     *)
(* table entries included; nothing tells the TLB about it.                 *)
(*                                                                         *)
(* Memory is a function from word addresses <<page, offset>> to words, and *)
(* every word is read as a page table entry.  A page holds N words, so a   *)
(* table has N entries and an address space N * N pages.  The alignment of *)
(* an access is not modelled: every access is to a whole word.             *)
(***************************************************************************)
EXTENDS Integers, FiniteSets

CONSTANTS
  N,          \* entries of a page table = words of a page (1024 in the code)
  TlbSize,    \* TLB_SIZE
  RamPages,   \* MMIO_BASE / 4096: the pages below it are RAM
  MemPages,   \* MEM_SIZE / 4096: accesses at or above it are bus errors
  BitOr(_, _),   \* the bitwise or of two page numbers or two offsets
  Stored,     \* the words that guest software stores
  Roots,      \* the root table pages that guest software installs in SATP
  Boot,       \* the contents of memory from which the system may start
  MaxEdits    \* bound on the stores that change memory (model checking only)

Page   == 0 .. (N * N - 1)
Offset == 0 .. (N - 1)
Frame  == 0 .. (RamPages - 1)
Addr   == Frame \X Offset
Index  == 0 .. (TlbSize - 1)
Bits   == [d : BOOLEAN, r : BOOLEAN, w : BOOLEAN, x : BOOLEAN, u : BOOLEAN]
Word   == [v : BOOLEAN, g : BOOLEAN, bits : Bits, ppn : Page]
Kind   == {"fetch", "load", "store"}

ASSUME SizeAssumption ==
  /\ N \in Nat \ {0} /\ TlbSize \in Nat \ {0}
  /\ RamPages \in Nat /\ MemPages \in Nat
  /\ 0 < RamPages /\ RamPages <= MemPages /\ MemPages <= N * N
ASSUME OrAssumption ==
  /\ \A a, b \in Page : BitOr(a, b) \in Page
  /\ \A a, b \in Offset : BitOr(a, b) \in Offset
ASSUME WordAssumption ==
  Stored \subseteq Word /\ Roots \subseteq Page /\ Boot \subseteq [Addr -> Word]
ASSUME BoundAssumption == MaxEdits \in Nat

VARIABLES
  mem,    \* RAM, page tables included
  satp,   \* SATP: [en, root]
  user,   \* ~STATUS.priv
  tlb,    \* the TLB entries
  stale,  \* history: entries whose page table words software has overwritten,
          \* or whose page table root it has replaced, since they were filled
  edits   \* how many stores have changed memory

vars == <<mem, satp, user, tlb, stale, edits>>

-----------------------------------------------------------------------------
(* The page table walk.                                                    *)

Leaf(pte) == pte.bits.r \/ pte.bits.w \/ pte.bits.x

Entry1(root, v) == <<root, v \div N>>
Entry2(l1, v)   == <<l1.ppn, v % N>>

\* Where the walk of page v under a root ends: the address of the entry that
\* maps v and whether it is a first-level (superpage) leaf, or no entry.
NoWalk == [found |-> FALSE, at |-> <<0, 0>>, super |-> FALSE]

WalkFrom2(m, l1, v) ==
  IF l1.ppn \notin Frame \/ ~m[Entry2(l1, v)].v
  THEN NoWalk
  ELSE [found |-> TRUE, at |-> Entry2(l1, v), super |-> FALSE]

Walk(m, root, v) ==
  IF root \notin Frame \/ ~m[Entry1(root, v)].v
  THEN NoWalk
  ELSE IF Leaf(m[Entry1(root, v)])
       THEN [found |-> TRUE, at |-> Entry1(root, v), super |-> TRUE]
       ELSE WalkFrom2(m, m[Entry1(root, v)], v)

Permits(bits, kind) ==
  /\ user => bits.u
  /\ kind = "fetch" => bits.x
  /\ kind = "load"  => bits.r
  /\ kind = "store" => bits.w

\* The physical word of virtual word <<v, o>> under a leaf entry.
LeafTarget(pte, super, v, o) ==
  IF super THEN <<(pte.ppn \div N) * N + (v % N), o>> ELSE <<pte.ppn, o>>

MarkDirty(m, at) == [m EXCEPT ![at].bits.d = TRUE]

-----------------------------------------------------------------------------
(* The TLB.                                                                *)

Empty == [valid |-> FALSE, tag |-> 0, page |-> 0, bits |-> [d |-> FALSE,
          r |-> FALSE, w |-> FALSE, x |-> FALSE, u |-> FALSE],
          global |-> FALSE, super |-> FALSE, pte |-> <<0, 0>>]

Slot(v) == v % TlbSize
\* Faulty variant: the tag is not compared.
HitAnyTag(v) == tlb[Slot(v)].valid
Hit(v) == tlb[Slot(v)].valid /\ tlb[Slot(v)].tag = v

\* A failed translation changes nothing here and traps.
Fault == [ok |-> FALSE, pa |-> <<0, 0>>, mem |-> mem, tlb |-> tlb]

\* A superpage hit combines the page offset with sp_pa_base, which both fill
\* paths set to the address of the page table entry.
HitTarget(te, v, o) ==
  IF te.super THEN <<BitOr(te.pte[1], v % N), BitOr(te.pte[2], o)>> ELSE <<te.page, o>>

\* Faulty variant: the D bit reaches the TLB only.
NoWriteBack(v, o, kind) ==
  LET te == tlb[Slot(v)]
  IN IF ~Permits(te.bits, kind) THEN Fault
     ELSE [ok |-> TRUE, pa |-> HitTarget(te, v, o), mem |-> mem,
           tlb |-> IF kind = "store"
                   THEN [tlb EXCEPT ![Slot(v)].bits.d = TRUE] ELSE tlb]

ByHit(v, o, kind) ==
  LET te == tlb[Slot(v)]
  IN IF ~Permits(te.bits, kind) THEN Fault
     ELSE [ok  |-> TRUE,
           pa  |-> HitTarget(te, v, o),
           mem |-> IF kind = "store" /\ ~te.bits.d
                   THEN MarkDirty(mem, te.pte) ELSE mem,
           tlb |-> IF kind = "store" /\ ~te.bits.d
                   THEN [tlb EXCEPT ![Slot(v)].bits.d = TRUE] ELSE tlb]

\* Faulty variant: the entry holds an address where a page number belongs.
FilledWithAddress(v, at, super, pte) ==
  [valid |-> TRUE, tag |-> v, page |-> IF super THEN 0 ELSE pte.ppn * N,
   bits |-> pte.bits, global |-> pte.g, super |-> super, pte |-> at]

Filled(v, at, super, pte) ==
  [valid |-> TRUE, tag |-> v, page |-> IF super THEN 0 ELSE pte.ppn,
   bits |-> pte.bits, global |-> pte.g, super |-> super, pte |-> at]

ByWalk(v, o, kind) ==
  LET wk == Walk(mem, satp.root, v)
      m  == IF kind = "store" THEN MarkDirty(mem, wk.at) ELSE mem
  IN IF ~wk.found THEN Fault
     ELSE IF ~Permits(mem[wk.at].bits, kind) THEN Fault
     ELSE [ok  |-> TRUE,
           pa  |-> LeafTarget(mem[wk.at], wk.super, v, o),
           mem |-> m,
           tlb |-> [tlb EXCEPT ![Slot(v)] = Filled(v, wk.at, wk.super, m[wk.at])]]

Translated(v) == satp.en /\ v < RamPages

Translate(v, o, kind) ==
  IF ~Translated(v) THEN [ok |-> TRUE, pa |-> <<v, o>>, mem |-> mem, tlb |-> tlb]
  ELSE IF Hit(v) THEN ByHit(v, o, kind) ELSE ByWalk(v, o, kind)

-----------------------------------------------------------------------------
(* The steps.                                                              *)

\* The two page table words a fill of entry te read.
ReadBy(te) == {te.pte, Entry1(satp.root, te.tag)}

\* History kept by a step that leaves the TLB as t and writes word w at pa.
StaleAfterWrite(m, t, st, pa, w) ==
  IF m[pa] = w THEN st ELSE st \cup {i \in Index : t[i].valid /\ pa \in ReadBy(t[i])}

\* Entries that a translation has refilled are fresh again.
StaleAfterFill(t, v) == IF Hit(v) \/ t = tlb THEN stale ELSE stale \ {Slot(v)}

Init ==
  /\ mem \in Boot
  /\ satp = [en |-> FALSE, root |-> 0]
  /\ user = FALSE
  /\ tlb = [i \in Index |-> Empty]
  /\ stale = {}
  /\ edits = 0

\* A fetch or a load; a translation fault and a bus error both trap to
\* supervisor mode.
Read(v, o, kind) ==
  LET t == Translate(v, o, kind)
  IN /\ user' = (user /\ t.ok /\ t.pa[1] < MemPages)
     /\ mem' = t.mem
     /\ tlb' = t.tlb
     /\ stale' = StaleAfterFill(t.tlb, v)
     /\ UNCHANGED <<satp, edits>>

\* A store: D bit first, then the bounds check, then the word itself.
Store(v, o, w) ==
  LET t == Translate(v, o, "store")
      st == StaleAfterFill(t.tlb, v)
      toRam == t.ok /\ t.pa[1] < RamPages
      changes == toRam /\ t.mem[t.pa] # w
  IN /\ changes => edits < MaxEdits
     /\ user' = (user /\ t.ok /\ t.pa[1] < MemPages)
     /\ mem' = IF toRam THEN [t.mem EXCEPT ![t.pa] = w] ELSE t.mem
     /\ tlb' = t.tlb
     /\ stale' = IF toRam THEN StaleAfterWrite(t.mem, t.tlb, st, t.pa, w) ELSE st
     /\ edits' = IF changes THEN edits + 1 ELSE edits
     /\ UNCHANGED satp

\* CAS uses its operand as a physical address.
CasTarget(v, o) == <<v, o>>

\* CAS when it finds the value it expects.  Nothing of the access is
\* translated or checked but the memory bound.
CasStores(v, o, w) ==
  LET pa == CasTarget(v, o)
  IN /\ pa[1] \in Frame /\ mem[pa] # w /\ edits < MaxEdits
     /\ mem' = [mem EXCEPT ![pa] = w]
     /\ stale' = StaleAfterWrite(mem, tlb, stale, pa, w)
     /\ edits' = edits + 1
     /\ UNCHANGED <<satp, user, tlb>>

CasOutOfMemory(v, o) ==
  /\ CasTarget(v, o)[1] >= MemPages
  /\ user' = FALSE
  /\ UNCHANGED <<mem, satp, tlb, stale, edits>>

\* Faulty variants: the loop starts at 1; the flush is forgotten.
FlushAllButFirst(t) ==
  [i \in Index |-> IF t[i].global \/ i = 0 THEN t[i] ELSE [t[i] EXCEPT !.valid = FALSE]]
FlushNothing(t) == t

FlushNonGlobal(t) ==
  [i \in Index |-> IF t[i].global THEN t[i] ELSE [t[i] EXCEPT !.valid = FALSE]]

Sfence ==
  /\ ~user
  /\ tlb' = FlushNonGlobal(tlb)
  /\ stale' = {i \in stale : tlb[i].global}
  /\ UNCHANGED <<mem, satp, user, edits>>

\* Global entries outlive the address space they were filled from.
WriteSatp(en, root) ==
  /\ ~user
  /\ satp' = [en |-> en, root |-> root]
  /\ tlb' = FlushNonGlobal(tlb)
  /\ stale' = {i \in (IF root = satp.root THEN stale ELSE Index) : tlb[i].global}
  /\ UNCHANGED <<mem, user, edits>>

\* SYSRET; SYSCALL or an interrupt.
ReturnToUser == ~user /\ user' = TRUE  /\ UNCHANGED <<mem, satp, tlb, stale, edits>>
TrapToKernel == user  /\ user' = FALSE /\ UNCHANGED <<mem, satp, tlb, stale, edits>>

Next ==
  \/ \E v \in Page, o \in Offset, kind \in {"fetch", "load"} : Read(v, o, kind)
  \/ \E v \in Page, o \in Offset, w \in Stored : Store(v, o, w)
  \/ \E v \in Page, o \in Offset, w \in Stored : CasStores(v, o, w)
  \/ \E v \in Page, o \in Offset : CasOutOfMemory(v, o)
  \/ Sfence
  \/ \E en \in BOOLEAN, root \in Roots : WriteSatp(en, root)
  \/ ReturnToUser
  \/ TrapToKernel

Spec == Init /\ [][Next]_vars

-----------------------------------------------------------------------------
(* Properties.                                                             *)

TlbEntry == [valid : BOOLEAN, tag : Page, page : Page, bits : Bits,
             global : BOOLEAN, super : BOOLEAN, pte : Addr]

\* Type invariant of the translation state (mmu_translate's TLB and memory).
TypeOK ==
  /\ mem \in [Addr -> Word]
  /\ satp \in [en : BOOLEAN, root : Page]
  /\ user \in BOOLEAN
  /\ tlb \in [Index -> TlbEntry]
  /\ stale \subseteq Index
  /\ edits \in Nat

SameRights(a, b) == a.r = b.r /\ a.w = b.w /\ a.x = b.x /\ a.u = b.u

\* An entry copies what its page table entry says now; its D bit may lag
\* behind, because another entry may have set the bit in memory.
Copies(te, pte) ==
  /\ pte.v
  /\ te.global = pte.g
  /\ te.page = IF te.super THEN 0 ELSE pte.ppn
  /\ te.bits.d => pte.bits.d
  /\ SameRights(te.bits, pte.bits)

\* Under root table page root, memory m maps the entry's page as it says.
Coherent(m, root, te) ==
  LET wk == Walk(m, root, te.tag)
  IN wk.found /\ wk.at = te.pte /\ wk.super = te.super /\ Copies(te, m[te.pte])

\* As long as software overwrites no page table word on the path of a cached
\* page, the entry says what the tables say - although loads, fetches and
\* stores of other pages keep replacing entries and setting D bits.
TlbCoherent ==
  \A i \in Index : tlb[i].valid /\ i \notin stale => Coherent(mem, satp.root, tlb[i])

StaleFor(v) == Hit(v) /\ Slot(v) \in stale

\* What an MMU without a TLB does with an access.
WalkOnly(v, o, kind) ==
  LET wk == Walk(mem, satp.root, v)
  IN IF ~Translated(v) THEN [ok |-> TRUE, pa |-> <<v, o>>]
     ELSE IF ~wk.found THEN [ok |-> FALSE, pa |-> <<0, 0>>]
     ELSE IF ~Permits(mem[wk.at].bits, kind) THEN [ok |-> FALSE, pa |-> <<0, 0>>]
     ELSE [ok |-> TRUE, pa |-> LeafTarget(mem[wk.at], wk.super, v, o)]

\* An access to page v faults exactly when, and (4 KB pages) reaches exactly
\* the word that, a walk of the present tables says.
Exact(v) ==
  \A o \in Offset, kind \in Kind :
    LET t == Translate(v, o, kind)  ref == WalkOnly(v, o, kind)
    IN /\ t.ok = ref.ok
       /\ ~Translated(v) \/ ~Walk(mem, satp.root, v).super => t.pa = ref.pa

\* The TLB is invisible to software that fences its table edits, whatever
\* is cached and whatever the D bits were when it was.
TlbInvisible == \A v \in Page : ~StaleFor(v) => Exact(v)

\* The dirty bit that page reclaim relies on: a store that translation lets
\* through leaves D set in the entry in memory, hit or miss.
DirtyRecorded ==
  \A v \in Page :
    LET t == Translate(v, 0, "store")
    IN Translated(v) /\ ~StaleFor(v) /\ t.ok
         => t.mem[Walk(mem, satp.root, v).at].bits.d

\* After SFENCE or a write of SATP every page is translated by the present
\* tables again, however they were edited before, but for the pages of global
\* entries, which nothing flushes.
FenceResynchronises ==
  [][Sfence \/ (\E en \in BOOLEAN, root \in Roots : WriteSatp(en, root))
       => (\A v \in Page : (Hit(v) /\ tlb[Slot(v)].global) \/ Exact(v))']_vars

\* Translation of a superpage does not depend on the TLB: a page that the
\* walk maps is reached at { L1_PTE.PPN[19:10], VA[21:0] } when cached, too.
SuperpageExact ==
  \A v \in Page, o \in Offset :
    LET t == Translate(v, o, "load")  ref == WalkOnly(v, o, "load")
    IN Translated(v) /\ ~StaleFor(v) /\ t.ok => t.pa = ref.pa
=============================================================================
