----------------------------- MODULE MmuProofs -----------------------------
(***************************************************************************)
(* Proofs about Mmu.  The walk depends on two words and not on their D     *)
(* bits (WalkIgnoresDirty, WalkIsLocal); with that, each kind of step      *)
(* keeps TypeOK and TlbCoherent, which are inductive together (IInv), and  *)
(* the properties that software sees follow from them.                     *)
(***************************************************************************)
EXTENDS Mmu, TLAPS

LEMMA SplitPage ==
  ASSUME NEW v \in Page
  PROVE  v \div N \in Offset /\ v % N \in Offset
<1>1. N \in Nat /\ N > 0
  BY SizeAssumption
<1>2. v \in Nat /\ v < N * N
  BY <1>1 DEF Page
<1>3. v % N \in 0 .. (N - 1)
  BY <1>1, <1>2
<1>4. v = N * (v \div N) + (v % N) /\ v \div N \in Nat
  BY <1>1, <1>2
<1>5. ASSUME v \div N >= N PROVE FALSE
  <2>1. \A q \in Nat : q >= N => N * q >= N * N
    BY <1>1
  <2> QED BY <2>1, <1>2, <1>3, <1>4, <1>5, <1>1
<1> QED BY <1>1, <1>3, <1>4, <1>5 DEF Offset

LEMMA JoinPage ==
  ASSUME NEW q \in Offset, NEW r \in Offset
  PROVE  q * N + r \in Page
<1>1. N \in Nat /\ N > 0
  BY SizeAssumption
<1>2. q \in Nat /\ q <= N - 1 /\ r \in Nat /\ r <= N - 1
  BY <1>1 DEF Offset
<1>3. q * N <= (N - 1) * N
  BY <1>1, <1>2
<1>4. (N - 1) * N = N * N - N
  BY <1>1
<1> QED BY <1>1, <1>2, <1>3, <1>4 DEF Page

-----------------------------------------------------------------------------
(* The walk.                                                               *)

WalkResult == [found : BOOLEAN, at : Addr, super : BOOLEAN]

\* m2 differs from m in nothing but D bits, and those are only set.
OnlyDirtier(m, m2) ==
  \A a \in Addr :
    /\ m2[a].v = m[a].v /\ m2[a].g = m[a].g /\ m2[a].ppn = m[a].ppn
    /\ m[a].bits.d => m2[a].bits.d
    /\ SameRights(m2[a].bits, m[a].bits)

LEMMA FramesArePages == Frame \subseteq Page /\ 0 \in Frame /\ 0 \in Offset /\ 0 \in Page
BY SizeAssumption DEF Frame, Page, Offset

LEMMA WalkType ==
  ASSUME NEW m \in [Addr -> Word], NEW root \in Page, NEW v \in Page
  PROVE  /\ Walk(m, root, v) \in WalkResult
         /\ Walk(m, root, v).found => m[Walk(m, root, v).at].v
<1>1. root \in Frame => Entry1(root, v) \in Addr
  BY SplitPage DEF Entry1, Addr
<1>2. \A l1 \in Word : l1.ppn \in Frame => Entry2(l1, v) \in Addr
  BY SplitPage DEF Entry2, Addr
<1>3. NoWalk \in WalkResult /\ NoWalk.found = FALSE
  BY FramesArePages DEF NoWalk, WalkResult, Addr
<1>4. \A l1 \in Word : /\ WalkFrom2(m, l1, v) \in WalkResult
                       /\ WalkFrom2(m, l1, v).found => m[WalkFrom2(m, l1, v).at].v
  BY <1>2, <1>3 DEF WalkFrom2, WalkResult
<1> QED BY <1>1, <1>3, <1>4 DEF Walk, WalkResult

\* Setting D bits changes no walk: they are not in a table entry's path.
LEMMA WalkIgnoresDirty ==
  ASSUME NEW m \in [Addr -> Word], NEW m2 \in [Addr -> Word], OnlyDirtier(m, m2),
         NEW root \in Page, NEW v \in Page
  PROVE  Walk(m2, root, v) = Walk(m, root, v)
<1>1. \A a \in Addr : /\ m2[a].v = m[a].v /\ m2[a].ppn = m[a].ppn
                      /\ Leaf(m2[a]) = Leaf(m[a])
  BY DEF OnlyDirtier, SameRights, Leaf, Word, Bits
<1>2. root \in Frame => Entry1(root, v) \in Addr
  BY SplitPage DEF Entry1, Addr
<1>3. \A l1 \in Word : l1.ppn \in Frame => Entry2(l1, v) \in Addr
  BY SplitPage DEF Entry2, Addr
<1>4. \A l1, k1 \in Word : l1.ppn = k1.ppn => WalkFrom2(m2, l1, v) = WalkFrom2(m, k1, v)
  BY <1>1, <1>3 DEF WalkFrom2, Entry2
<1> QED BY <1>1, <1>2, <1>4 DEF Walk

\* A walk depends only on the two words it reads.
LEMMA WalkIsLocal ==
  ASSUME NEW m \in [Addr -> Word], NEW m2 \in [Addr -> Word],
         NEW root \in Page, NEW v \in Page, Walk(m, root, v).found,
         m2[Entry1(root, v)] = m[Entry1(root, v)],
         m2[Walk(m, root, v).at] = m[Walk(m, root, v).at]
  PROVE  Walk(m2, root, v) = Walk(m, root, v)
BY DEF Walk, WalkFrom2, NoWalk

LEMMA MarkDirtyType ==
  ASSUME NEW m \in [Addr -> Word], NEW at \in Addr
  PROVE  /\ MarkDirty(m, at) \in [Addr -> Word]
         /\ OnlyDirtier(m, MarkDirty(m, at))
         /\ MarkDirty(m, at)[at].bits.d
<1>1. [m[at] EXCEPT !.bits.d = TRUE] \in Word
  BY DEF Word, Bits
<1>2. MarkDirty(m, at) \in [Addr -> Word]
  BY <1>1 DEF MarkDirty
<1>3. \A a \in Addr : a # at => MarkDirty(m, at)[a] = m[a]
  BY DEF MarkDirty
<1>4. MarkDirty(m, at)[at] = [m[at] EXCEPT !.bits.d = TRUE]
  BY DEF MarkDirty
<1> QED BY <1>2, <1>3, <1>4 DEF OnlyDirtier, SameRights, Word, Bits

LEMMA SameIsOnlyDirtier ==
  ASSUME NEW m \in [Addr -> Word]
  PROVE  OnlyDirtier(m, m)
BY DEF OnlyDirtier, SameRights

-----------------------------------------------------------------------------
(* Coherence of one entry.                                                 *)

LEMMA DirtyKeepsCoherent ==
  ASSUME NEW m \in [Addr -> Word], NEW m2 \in [Addr -> Word], OnlyDirtier(m, m2),
         NEW root \in Page, NEW te \in TlbEntry, Coherent(m, root, te)
  PROVE  Coherent(m2, root, te)
<1>1. te.tag \in Page /\ te.pte \in Addr
  BY DEF TlbEntry
<1>2. Walk(m2, root, te.tag) = Walk(m, root, te.tag)
  BY <1>1, WalkIgnoresDirty
<1>3. Copies(te, m2[te.pte])
  BY <1>1 DEF Coherent, Copies, OnlyDirtier, SameRights
<1> QED BY <1>2, <1>3 DEF Coherent

LEMMA UntouchedKeepsCoherent ==
  ASSUME NEW m \in [Addr -> Word], NEW m2 \in [Addr -> Word],
         NEW root \in Page, NEW te \in TlbEntry, Coherent(m, root, te),
         m2[te.pte] = m[te.pte], m2[Entry1(root, te.tag)] = m[Entry1(root, te.tag)]
  PROVE  Coherent(m2, root, te)
<1>1. te.tag \in Page
  BY DEF TlbEntry
<1>2. Walk(m2, root, te.tag) = Walk(m, root, te.tag)
  BY <1>1, WalkIsLocal DEF Coherent
<1> QED BY <1>2 DEF Coherent

-----------------------------------------------------------------------------
(* A translation.                                                          *)

Translation ==
  [ok : BOOLEAN, pa : Page \X Offset, mem : [Addr -> Word], tlb : [Index -> TlbEntry]]

LEMMA LeafTargetType ==
  ASSUME NEW pte \in Word, NEW super \in BOOLEAN, NEW v \in Page, NEW o \in Offset
  PROVE  LeafTarget(pte, super, v, o) \in Page \X Offset
<1>1. pte.ppn \div N \in Offset /\ v % N \in Offset /\ pte.ppn \in Page
  BY SplitPage DEF Word
<1>2. (pte.ppn \div N) * N + (v % N) \in Page
  BY <1>1, JoinPage
<1> QED BY <1>1, <1>2 DEF LeafTarget

LEMMA HitTargetType ==
  ASSUME NEW te \in TlbEntry, NEW v \in Page, NEW o \in Offset
  PROVE  HitTarget(te, v, o) \in Page \X Offset
<1>1. te.pte[1] \in Page /\ te.pte[2] \in Offset /\ te.page \in Page
  BY FramesArePages DEF TlbEntry, Addr
<1>2. v % N \in Page
  BY SplitPage, SizeAssumption, FramesArePages DEF Page, Offset
<1> QED BY <1>1, <1>2, OrAssumption DEF HitTarget

LEMMA SlotType == ASSUME NEW v \in Page PROVE Slot(v) \in Index
BY SizeAssumption DEF Slot, Index, Page

LEMMA FaultType ==
  ASSUME TypeOK
  PROVE  Fault \in Translation
BY FramesArePages DEF Fault, Translation, TypeOK

LEMMA FilledType ==
  ASSUME NEW v \in Page, NEW at \in Addr, NEW super \in BOOLEAN, NEW pte \in Word
  PROVE  Filled(v, at, super, pte) \in TlbEntry
BY FramesArePages DEF Filled, TlbEntry, Word


\* What a translation that returns t preserves, when it refills the entries R.
Preserves(t, R) ==
  /\ t \in Translation
  /\ OnlyDirtier(mem, t.mem)
  /\ \A i \in Index \ R :
       tlb[i].valid /\ i \notin stale => Coherent(t.mem, satp.root, t.tlb[i])
  /\ \A i \in Index \ R : t.tlb[i].valid = tlb[i].valid
  /\ \A i \in R : Coherent(t.mem, satp.root, t.tlb[i])

LEMMA FaultPreserves ==
  ASSUME TypeOK, TlbCoherent
  PROVE  Preserves(Fault, {})
<1>1. Fault.mem = mem /\ Fault.tlb = tlb
  BY DEF Fault
<1> QED BY <1>1, FaultType, SameIsOnlyDirtier DEF Preserves, TypeOK, TlbCoherent

\* A hit changes D bits only, in memory and in the entry it used.
LEMMA HitPreserves ==
  ASSUME TypeOK, TlbCoherent, NEW v \in Page, NEW o \in Offset, NEW kind \in Kind
  PROVE  Preserves(ByHit(v, o, kind), {})
<1> DEFINE s   == Slot(v)
           te  == tlb[s]
           t   == ByHit(v, o, kind)
           te2 == [te EXCEPT !.bits.d = TRUE]
<1>1. s \in Index /\ te \in TlbEntry /\ te.pte \in Addr /\ mem \in [Addr -> Word]
      /\ tlb \in [Index -> TlbEntry] /\ satp.root \in Page
  BY SlotType DEF TypeOK, TlbEntry
<1>2. HitTarget(te, v, o) \in Page \X Offset
  BY <1>1, HitTargetType
<1>3. CASE ~Permits(te.bits, kind)
  <2>1. t = Fault
    BY <1>3 DEF ByHit
  <2> QED BY <2>1, FaultPreserves
<1>4. CASE Permits(te.bits, kind) /\ ~(kind = "store" /\ ~te.bits.d)
  <2>1. t = [ok |-> TRUE, pa |-> HitTarget(te, v, o), mem |-> mem, tlb |-> tlb]
    BY <1>4 DEF ByHit
  <2> HIDE DEF t
  <2>2. t \in Translation /\ t.mem = mem /\ t.tlb = tlb
    BY <2>1, <1>1, <1>2 DEF Translation
  <2> QED BY <2>2, <1>1, SameIsOnlyDirtier DEF Preserves, TlbCoherent, t
<1>5. CASE Permits(te.bits, kind) /\ kind = "store" /\ ~te.bits.d
  <2> DEFINE m2 == MarkDirty(mem, te.pte)
  <2>1. t = [ok |-> TRUE, pa |-> HitTarget(te, v, o), mem |-> m2,
             tlb |-> [tlb EXCEPT ![s] = te2]]
    BY <1>5 DEF ByHit
  <2>2. m2 \in [Addr -> Word] /\ OnlyDirtier(mem, m2) /\ m2[te.pte].bits.d
    BY <1>1, MarkDirtyType
  <2>3. te2 \in TlbEntry
    BY <1>1 DEF TlbEntry, Bits
  <2> HIDE DEF t, m2, te2
  <2>4. t \in Translation /\ t.mem = m2 /\ t.tlb = [tlb EXCEPT ![s] = te2]
    BY <2>1, <2>2, <2>3, <1>1, <1>2 DEF Translation
  <2>5. \A i \in Index : tlb[i].valid /\ i \notin stale => Coherent(m2, satp.root, tlb[i])
    BY <2>2, <1>1, DirtyKeepsCoherent DEF TlbCoherent
  <2>6. te2.valid = te.valid /\ te2.tag = te.tag /\ te2.pte = te.pte /\ te2.super = te.super
        /\ te2.page = te.page /\ te2.global = te.global /\ SameRights(te2.bits, te.bits)
    BY <1>1 DEF te2, TlbEntry, Bits, SameRights
  <2>7. Coherent(m2, satp.root, te) => Coherent(m2, satp.root, te2)
    BY <2>6, <2>2 DEF Coherent, Copies, SameRights
  <2>8. \A i \in Index : /\ t.tlb[i] = IF i = s THEN te2 ELSE tlb[i]
                         /\ t.tlb[i].valid = tlb[i].valid
    BY <2>4, <2>6, <1>1
  <2> QED BY <2>2, <2>4, <2>5, <2>7, <2>8, <1>1 DEF Preserves, t
<1> QED BY <1>3, <1>4, <1>5

\* A miss fills its slot with what the walk found; a failed one fills nothing.
LEMMA WalkPreserves ==
  ASSUME TypeOK, TlbCoherent, NEW v \in Page, NEW o \in Offset, NEW kind \in Kind
  PROVE  LET t == ByWalk(v, o, kind)
         IN  \/ t = Fault
             \/ t.tlb[Slot(v)].valid /\ t.tlb[Slot(v)].tag = v /\ Preserves(t, {Slot(v)})
<1> DEFINE s   == Slot(v)
           wk  == Walk(mem, satp.root, v)
           t   == ByWalk(v, o, kind)
           m2  == IF kind = "store" THEN MarkDirty(mem, wk.at) ELSE mem
           te  == Filled(v, wk.at, wk.super, m2[wk.at])
<1> SUFFICES ASSUME wk.found, Permits(mem[wk.at].bits, kind)
             PROVE  /\ t.tlb[s].valid /\ t.tlb[s].tag = v
                    /\ Preserves(t, {s})
  BY DEF ByWalk
<1>1. s \in Index /\ mem \in [Addr -> Word] /\ tlb \in [Index -> TlbEntry]
      /\ satp.root \in Page
  BY SlotType DEF TypeOK
<1>2. wk \in WalkResult /\ wk.at \in Addr /\ wk.super \in BOOLEAN /\ mem[wk.at].v
  BY <1>1, WalkType DEF WalkResult
<1>3. m2 \in [Addr -> Word] /\ OnlyDirtier(mem, m2)
  BY <1>1, <1>2, MarkDirtyType, SameIsOnlyDirtier
<1>4. te \in TlbEntry
  BY <1>2, <1>3, FilledType
<1>5. t = [ok |-> TRUE, pa |-> LeafTarget(mem[wk.at], wk.super, v, o), mem |-> m2,
           tlb |-> [tlb EXCEPT ![s] = te]]
  BY DEF ByWalk
<1>6. LeafTarget(mem[wk.at], wk.super, v, o) \in Page \X Offset
  BY <1>1, <1>2, LeafTargetType
<1>7. Walk(m2, satp.root, v) = wk
  BY <1>1, <1>3, WalkIgnoresDirty
<1>8. te.valid /\ te.tag = v /\ Coherent(m2, satp.root, te)
  <2>1. m2[wk.at].v
    BY <1>2, <1>3 DEF OnlyDirtier
  <2>2. te.valid /\ te.tag = v /\ te.pte = wk.at /\ te.super = wk.super
        /\ te.global = m2[wk.at].g /\ te.bits = m2[wk.at].bits
        /\ te.page = IF te.super THEN 0 ELSE m2[wk.at].ppn
    BY DEF Filled
  <2> HIDE DEF te, m2, wk
  <2>3. Copies(te, m2[te.pte])
    BY <2>1, <2>2 DEF Copies, SameRights
  <2> QED BY <2>2, <2>3, <1>7 DEF Coherent, wk
<1> HIDE DEF te, m2, t, wk
<1>9. t \in Translation /\ t.mem = m2 /\ t.tlb = [tlb EXCEPT ![s] = te]
  BY <1>1, <1>3, <1>4, <1>5, <1>6 DEF Translation
<1>10. \A i \in Index \ {s} : t.tlb[i] = tlb[i]
  BY <1>9, <1>1
<1>11. t.tlb[s] = te
  BY <1>9, <1>1
<1>12. \A i \in Index : tlb[i].valid /\ i \notin stale => Coherent(m2, satp.root, tlb[i])
  BY <1>1, <1>3, DirtyKeepsCoherent DEF TlbCoherent
<1> QED BY <1>3, <1>8, <1>9, <1>10, <1>11, <1>12 DEF Preserves

\* What is fresh after a translation is coherent with memory after it.
FreshCoherent(m, root, t, st) ==
  \A i \in Index : t[i].valid /\ i \notin st => Coherent(m, root, t[i])

LEMMA TranslatePreserves ==
  ASSUME TypeOK, TlbCoherent, NEW v \in Page, NEW o \in Offset, NEW kind \in Kind
  PROVE  LET t == Translate(v, o, kind)  st == StaleAfterFill(t.tlb, v)
         IN  /\ t \in Translation /\ OnlyDirtier(mem, t.mem) /\ st \subseteq Index
             /\ FreshCoherent(t.mem, satp.root, t.tlb, st)
<1> DEFINE t == Translate(v, o, kind)  st == StaleAfterFill(t.tlb, v)
<1>1. st \subseteq Index
  BY DEF TypeOK, StaleAfterFill
<1>2. CASE ~Translated(v)
  <2>1. t = [ok |-> TRUE, pa |-> <<v, o>>, mem |-> mem, tlb |-> tlb]
    BY <1>2 DEF Translate
  <2>2. t \in Translation /\ t.mem = mem /\ t.tlb = tlb
    BY <2>1 DEF Translation, TypeOK
  <2>3. st = stale
    BY <2>2 DEF StaleAfterFill
  <2> QED BY <1>1, <2>2, <2>3, SameIsOnlyDirtier DEF TypeOK, TlbCoherent, FreshCoherent
<1>3. CASE Translated(v) /\ Hit(v)
  <2>1. t = ByHit(v, o, kind) /\ st = stale
    BY <1>3 DEF Translate, StaleAfterFill
  <2> HIDE DEF t, st
  <2>2. Preserves(t, {})
    BY <2>1, HitPreserves
  <2> QED BY <1>1, <2>1, <2>2 DEF Preserves, FreshCoherent, t, st
<1>4. CASE Translated(v) /\ ~Hit(v)
  <2>1. t = ByWalk(v, o, kind)
    BY <1>4 DEF Translate
  <2>2. CASE t = Fault
    <3>1. Preserves(t, {})
      BY <2>2, FaultPreserves
    <3>2. st = stale
      BY <2>2 DEF StaleAfterFill, Fault
    <3> HIDE DEF t, st
    <3> QED BY <1>1, <3>1, <3>2 DEF Preserves, FreshCoherent, t, st
  <2>3. CASE t.tlb[Slot(v)].valid /\ t.tlb[Slot(v)].tag = v /\ Preserves(t, {Slot(v)})
    <3>1. t.tlb # tlb
      BY <1>4, <2>3 DEF Hit
    <3>2. st = stale \ {Slot(v)}
      BY <1>4, <3>1 DEF StaleAfterFill
    <3> HIDE DEF t, st
    <3> QED BY <1>1, <2>3, <3>2, SlotType DEF Preserves, FreshCoherent, t, st
  <2> QED BY <2>1, <2>2, <2>3, WalkPreserves
<1> QED BY <1>2, <1>3, <1>4

\* Writing a word makes exactly the entries that were read from it suspect.
LEMMA WriteKeepsFresh ==
  ASSUME NEW m \in [Addr -> Word], NEW t \in [Index -> TlbEntry], NEW st \in SUBSET Index,
         NEW pa \in Addr, NEW w \in Word, satp.root \in Page,
         FreshCoherent(m, satp.root, t, st)
  PROVE  LET m2 == [m EXCEPT ![pa] = w]  st2 == StaleAfterWrite(m, t, st, pa, w)
         IN  /\ m2 \in [Addr -> Word] /\ st2 \subseteq Index
             /\ FreshCoherent(m2, satp.root, t, st2)
<1> DEFINE m2 == [m EXCEPT ![pa] = w]  st2 == StaleAfterWrite(m, t, st, pa, w)
<1>1. m2 \in [Addr -> Word] /\ st2 \subseteq Index /\ st \subseteq st2
  BY DEF StaleAfterWrite
<1>2. ASSUME NEW i \in Index, t[i].valid, i \notin st2
      PROVE  Coherent(m2, satp.root, t[i])
  <2>1. t[i] \in TlbEntry /\ Coherent(m, satp.root, t[i])
    BY <1>1, <1>2 DEF FreshCoherent
  <2>2. m[pa] = w => m2 = m
    OBVIOUS
  <2>3. m[pa] # w => pa # t[i].pte /\ pa # Entry1(satp.root, t[i].tag)
    BY <1>2 DEF StaleAfterWrite, ReadBy
  <2>4. m2[t[i].pte] = m[t[i].pte]
        /\ m2[Entry1(satp.root, t[i].tag)] = m[Entry1(satp.root, t[i].tag)]
    <3>1. CASE m[pa] = w
      BY <3>1, <2>2
    <3>2. CASE m[pa] # w
      <4>1. t[i].tag \in Page /\ satp.root \in Frame /\ t[i].pte \in Addr
        BY <2>1 DEF TlbEntry, Coherent, Walk, NoWalk
      <4>2. Entry1(satp.root, t[i].tag) \in Addr
        BY <4>1, SplitPage DEF Entry1, Addr
      <4> QED BY <3>2, <2>3, <4>1, <4>2
    <3> QED BY <3>1, <3>2
  <2> HIDE DEF m2
  <2> QED BY <1>1, <2>1, <2>4, UntouchedKeepsCoherent
<1> QED BY <1>1, <1>2 DEF FreshCoherent

LEMMA FlushKeepsFresh ==
  ASSUME TypeOK
  PROVE  /\ FlushNonGlobal(tlb) \in [Index -> TlbEntry]
         /\ \A i \in Index : FlushNonGlobal(tlb)[i].valid
              => tlb[i].valid /\ tlb[i].global /\ FlushNonGlobal(tlb)[i] = tlb[i]
<1>1. \A i \in Index : [tlb[i] EXCEPT !.valid = FALSE] \in TlbEntry
                       /\ ~[tlb[i] EXCEPT !.valid = FALSE].valid
  BY DEF TypeOK, TlbEntry
<1> QED BY <1>1 DEF FlushNonGlobal, TypeOK

-----------------------------------------------------------------------------
(* The inductive invariant.                                                *)

IInv == TypeOK /\ TlbCoherent

LEMMA InitIInv == Init => IInv
<1> SUFFICES ASSUME Init PROVE IInv
  OBVIOUS
<1>1. Empty \in TlbEntry /\ ~Empty.valid
  BY FramesArePages DEF Empty, TlbEntry, Bits, Addr
<1>2. TypeOK
  BY <1>1, WordAssumption, FramesArePages DEF Init, TypeOK
<1>3. TlbCoherent
  BY <1>1 DEF Init, TlbCoherent
<1> QED BY <1>2, <1>3 DEF IInv

LEMMA ReadIInv ==
  ASSUME IInv, NEW v \in Page, NEW o \in Offset, NEW kind \in {"fetch", "load"},
         Read(v, o, kind)
  PROVE  IInv'
<1> DEFINE t == Translate(v, o, kind)  st == StaleAfterFill(t.tlb, v)
<1>1. t \in Translation /\ st \subseteq Index /\ FreshCoherent(t.mem, satp.root, t.tlb, st)
  BY TranslatePreserves DEF IInv, Kind
<1>2. /\ user' = (user /\ t.ok /\ t.pa[1] < MemPages)
      /\ mem' = t.mem /\ tlb' = t.tlb /\ stale' = st /\ satp' = satp /\ edits' = edits
  BY DEF Read
<1> HIDE DEF t, st
<1>3. TypeOK'
  <2>1. user' \in BOOLEAN
    BY <1>2
  <2>2. mem' \in [Addr -> Word] /\ tlb' \in [Index -> TlbEntry] /\ stale' \subseteq Index
    BY <1>1, <1>2 DEF Translation
  <2> QED BY <1>2, <2>1, <2>2 DEF TypeOK, IInv
<1>4. TlbCoherent'
  BY <1>1, <1>2 DEF TlbCoherent, FreshCoherent
<1> QED BY <1>3, <1>4 DEF IInv

LEMMA StoreIInv ==
  ASSUME IInv, NEW v \in Page, NEW o \in Offset, NEW w \in Stored, Store(v, o, w)
  PROVE  IInv'
<1> DEFINE t  == Translate(v, o, "store")  st == StaleAfterFill(t.tlb, v)
           toRam == t.ok /\ t.pa[1] < RamPages
<1>1. t \in Translation /\ st \subseteq Index /\ FreshCoherent(t.mem, satp.root, t.tlb, st)
  BY TranslatePreserves DEF IInv, Kind
<1>2. /\ user' = (user /\ t.ok /\ t.pa[1] < MemPages)
      /\ mem' = IF toRam THEN [t.mem EXCEPT ![t.pa] = w] ELSE t.mem
      /\ tlb' = t.tlb
      /\ stale' = IF toRam THEN StaleAfterWrite(t.mem, t.tlb, st, t.pa, w) ELSE st
      /\ edits' = edits \/ edits' = edits + 1
      /\ satp' = satp
  BY DEF Store
<1>3. toRam => t.pa \in Addr
  BY <1>1, SizeAssumption DEF Translation, Addr, Frame, Page
<1>4. w \in Word /\ satp.root \in Page
  BY WordAssumption DEF IInv, TypeOK
<1> HIDE DEF t, st
<1>5. mem' \in [Addr -> Word] /\ stale' \subseteq Index
      /\ FreshCoherent(mem', satp.root, t.tlb, stale')
  <2>1. t.mem \in [Addr -> Word] /\ t.tlb \in [Index -> TlbEntry]
    BY <1>1 DEF Translation
  <2>2. CASE toRam
    BY <1>1, <1>2, <1>3, <1>4, <2>1, <2>2, WriteKeepsFresh
  <2>3. CASE ~toRam
    BY <1>1, <1>2, <2>1, <2>3
  <2> QED BY <2>2, <2>3
<1>6. TypeOK'
  <2>1. user' \in BOOLEAN
    BY <1>2
  <2>2. tlb' \in [Index -> TlbEntry]
    BY <1>1, <1>2 DEF Translation
  <2> QED BY <1>2, <1>5, <2>1, <2>2 DEF TypeOK, IInv
<1>7. TlbCoherent'
  BY <1>2, <1>5 DEF TlbCoherent, FreshCoherent
<1> QED BY <1>6, <1>7 DEF IInv

LEMMA NextIInv == IInv /\ [Next]_vars => IInv'
<1> SUFFICES ASSUME IInv, [Next]_vars PROVE IInv'
  OBVIOUS
<1>1. ASSUME NEW v \in Page, NEW o \in Offset, NEW w \in Stored, CasStores(v, o, w)
      PROVE  IInv'
  <2> DEFINE pa == CasTarget(v, o)
  <2>1. pa \in Addr /\ w \in Word
    BY <1>1, WordAssumption DEF CasStores, CasTarget, Addr
  <2>2. FreshCoherent(mem, satp.root, tlb, stale) /\ TypeOK
    BY DEF IInv, TlbCoherent, FreshCoherent
  <2>3. mem' \in [Addr -> Word] /\ stale' \subseteq Index
        /\ FreshCoherent(mem', satp.root, tlb, stale')
    BY <1>1, <2>1, <2>2, WriteKeepsFresh DEF CasStores, TypeOK
  <2>4. satp' = satp /\ user' = user /\ tlb' = tlb /\ edits' = edits + 1
    BY <1>1 DEF CasStores
  <2>5. TypeOK'
    BY <2>2, <2>3, <2>4 DEF TypeOK
  <2>6. TlbCoherent'
    BY <2>3, <2>4 DEF TlbCoherent, FreshCoherent
  <2> QED BY <2>5, <2>6 DEF IInv
<1>2. ASSUME Sfence PROVE IInv'
  <2>1. TypeOK'
    BY <1>2, FlushKeepsFresh DEF IInv, TypeOK, Sfence
  <2>2. TlbCoherent'
    BY <1>2, FlushKeepsFresh DEF IInv, TlbCoherent, Sfence
  <2> QED BY <2>1, <2>2 DEF IInv
<1>3. ASSUME NEW en \in BOOLEAN, NEW root \in Roots, WriteSatp(en, root) PROVE IInv'
  <2>1. TypeOK'
    BY <1>3, FlushKeepsFresh, WordAssumption DEF IInv, TypeOK, WriteSatp
  <2>2. satp'.root = root /\ mem' = mem /\ tlb' = FlushNonGlobal(tlb)
        /\ stale' = {i \in (IF root = satp.root THEN stale ELSE Index) : tlb[i].global}
    BY <1>3 DEF WriteSatp
  <2>3. TlbCoherent'
    BY <2>2, FlushKeepsFresh DEF IInv, TlbCoherent
  <2> QED BY <2>1, <2>3 DEF IInv
<1>4. ASSUME NEW v \in Page, NEW o \in Offset, CasOutOfMemory(v, o) PROVE IInv'
  <2>1. user' \in BOOLEAN /\ UNCHANGED <<mem, satp, tlb, stale, edits>>
    BY <1>4 DEF CasOutOfMemory
  <2> QED BY <2>1 DEF IInv, TypeOK, TlbCoherent
<1>5. ASSUME ReturnToUser \/ TrapToKernel PROVE IInv'
  <2>1. user' \in BOOLEAN /\ UNCHANGED <<mem, satp, tlb, stale, edits>>
    BY <1>5 DEF ReturnToUser, TrapToKernel
  <2> QED BY <2>1 DEF IInv, TypeOK, TlbCoherent
<1>6. ASSUME UNCHANGED vars PROVE IInv'
  BY <1>6 DEF vars, IInv, TypeOK, TlbCoherent
<1> QED BY <1>1, <1>2, <1>3, <1>4, <1>5, <1>6, ReadIInv, StoreIInv DEF Next

\* The TLB, memory and SATP keep their types under every interleaving of
\* accesses, table edits, fences and mode changes (src/emulator.c, mmu_translate).
THEOREM Typing == Spec => []TypeOK
<1>1. IInv => TypeOK
  BY DEF IInv
<1> QED BY <1>1, InitIInv, NextIInv, PTL DEF Spec

\* For tables, TLBs and memories of every size: a cached translation whose
\* table words software has left alone agrees with them.
THEOREM Coherence == Spec => []TlbCoherent
<1>1. IInv => TlbCoherent
  BY DEF IInv
<1> QED BY <1>1, InitIInv, NextIInv, PTL DEF Spec

-----------------------------------------------------------------------------
(* What coherence is worth to the guest.                                   *)

\* A page that misses is translated by the tables themselves.
LEMMA MissIsExact ==
  ASSUME NEW v \in Page, ~Hit(v)
  PROVE  Exact(v)
<1> SUFFICES ASSUME NEW o \in Offset, NEW kind \in Kind, Translated(v)
             PROVE  LET t == Translate(v, o, kind)  ref == WalkOnly(v, o, kind)
                    IN t.ok = ref.ok /\ t.pa = ref.pa
  BY DEF Exact, Translate, WalkOnly
<1> QED BY DEF Translate, WalkOnly, ByWalk, Fault

\* A page that hits a coherent entry is granted what the tables grant.
LEMMA HitIsExact ==
  ASSUME TypeOK, TlbCoherent, NEW v \in Page, Hit(v), ~StaleFor(v)
  PROVE  Exact(v)
<1> DEFINE te == tlb[Slot(v)]
           wk == Walk(mem, satp.root, v)
<1>1. te \in TlbEntry /\ te.tag = v /\ te.pte \in Addr /\ mem[te.pte] \in Word
  BY SlotType DEF TypeOK, Hit, TlbEntry
<1>2. wk.found /\ wk.at = te.pte /\ wk.super = te.super /\ Copies(te, mem[te.pte])
  BY <1>1, SlotType DEF TlbCoherent, Coherent, StaleFor, Hit
<1>3. \A kind \in Kind : Permits(te.bits, kind) = Permits(mem[te.pte].bits, kind)
  BY <1>1, <1>2 DEF Permits, Copies, SameRights, TlbEntry, Word, Bits
<1>4. ASSUME NEW o \in Offset, NEW kind \in Kind, Translated(v)
      PROVE  LET t == Translate(v, o, kind)  ref == WalkOnly(v, o, kind)
             IN t.ok = ref.ok /\ (~wk.super => t.pa = ref.pa)
  <2>1. Translate(v, o, kind) = ByHit(v, o, kind)
    BY <1>4 DEF Translate
  <2>2. ByHit(v, o, kind).ok = Permits(te.bits, kind)
        /\ ByHit(v, o, kind).pa = IF Permits(te.bits, kind)
                                  THEN HitTarget(te, v, o) ELSE <<0, 0>>
    BY DEF ByHit, Fault, Permits
  <2>3. WalkOnly(v, o, kind).ok = Permits(mem[te.pte].bits, kind)
        /\ WalkOnly(v, o, kind).pa = IF Permits(mem[te.pte].bits, kind)
                                     THEN LeafTarget(mem[te.pte], te.super, v, o)
                                     ELSE <<0, 0>>
    BY <1>2, <1>4 DEF WalkOnly, Permits
  <2>4. ~te.super => HitTarget(te, v, o) = LeafTarget(mem[te.pte], te.super, v, o)
    BY <1>2 DEF HitTarget, LeafTarget, Copies
  <2> QED BY <1>2, <1>3, <2>1, <2>2, <2>3, <2>4
<1>5. ~Translated(v) => \A o \in Offset, kind \in Kind :
        Translate(v, o, kind).ok = WalkOnly(v, o, kind).ok
        /\ Translate(v, o, kind).pa = WalkOnly(v, o, kind).pa
  BY DEF Translate, WalkOnly
<1> QED BY <1>4, <1>5 DEF Exact

\* For every access to every page whose table words are unedited since the
\* last fence, the outcome is that of an MMU without a TLB.
THEOREM Invisibility == Spec => []TlbInvisible
<1>1. IInv => TlbInvisible
  BY HitIsExact, MissIsExact DEF IInv, TlbInvisible
<1> QED BY <1>1, InitIInv, NextIInv, PTL DEF Spec

\* A store always leaves the D bit of its page table entry set in memory.
LEMMA StoreMarksDirty ==
  ASSUME TypeOK, TlbCoherent, NEW v \in Page, Translated(v), ~StaleFor(v),
         Translate(v, 0, "store").ok
  PROVE  Translate(v, 0, "store").mem[Walk(mem, satp.root, v).at].bits.d
<1> DEFINE te == tlb[Slot(v)]
           wk == Walk(mem, satp.root, v)
<1>1. CASE Hit(v)
  <2>1. te.pte \in Addr /\ wk.at = te.pte /\ te.bits.d => mem[te.pte].bits.d
    BY <1>1, SlotType DEF TlbCoherent, Coherent, Copies, StaleFor, Hit, TypeOK, TlbEntry
  <2>2. te.pte \in Addr /\ wk.at = te.pte
    BY <1>1, SlotType DEF TlbCoherent, Coherent, StaleFor, Hit, TypeOK, TlbEntry
  <2>3. MarkDirty(mem, te.pte)[te.pte].bits.d
    BY <2>2, MarkDirtyType DEF TypeOK
  <2>4. Permits(te.bits, "store") /\ Translate(v, 0, "store") = ByHit(v, 0, "store")
    BY <1>1 DEF Translate, ByHit, Fault
  <2>5. Translate(v, 0, "store").mem
          = IF ~te.bits.d THEN MarkDirty(mem, te.pte) ELSE mem
    BY <2>4 DEF ByHit
  <2> QED BY <2>1, <2>2, <2>3, <2>5
<1>2. CASE ~Hit(v)
  <2>1. Translate(v, 0, "store") = ByWalk(v, 0, "store") /\ wk.found
        /\ Permits(mem[wk.at].bits, "store")
    BY <1>2 DEF Translate, ByWalk, Fault
  <2>2. wk.at \in Addr
    BY WalkType DEF TypeOK, WalkResult
  <2>3. MarkDirty(mem, wk.at)[wk.at].bits.d
    BY <2>2, MarkDirtyType DEF TypeOK
  <2> QED BY <2>1, <2>3 DEF ByWalk
<1> QED BY <1>1, <1>2

\* D-bit maintenance is exact for every memory and TLB: page reclaim that
\* trusts the D bit misses no store through an unedited mapping.
THEOREM DirtyBit == Spec => []DirtyRecorded
<1>1. IInv => DirtyRecorded
  BY StoreMarksDirty DEF IInv, DirtyRecorded
<1> QED BY <1>1, InitIInv, NextIInv, PTL DEF Spec

\* Whatever was edited before, a fence or a SATP write leaves only global
\* entries out of step with the tables.
THEOREM Fencing == Spec => FenceResynchronises
<1> DEFINE Misses == \A v \in Page : ~Hit(v) => Exact(v)
           Fences == Sfence \/ \E en \in BOOLEAN, root \in Roots : WriteSatp(en, root)
           Synced == \A v \in Page : (Hit(v) /\ tlb[Slot(v)].global) \/ Exact(v)
           OnlyGlobal == \A i \in Index : tlb[i].valid => tlb[i].global
<1>1. Misses
  BY MissIsExact
<1>2. IInv /\ Fences => OnlyGlobal'
  BY FlushKeepsFresh DEF Sfence, WriteSatp, IInv
<1>3. Misses /\ OnlyGlobal => Synced
  BY SlotType DEF Hit
<1>4. IInv /\ [Next]_vars /\ Misses' /\ (Misses' /\ OnlyGlobal' => Synced')
        => [Fences => Synced']_vars
  BY <1>2
<1> QED BY <1>1, <1>3, <1>4, InitIInv, NextIInv, PTL DEF Spec, FenceResynchronises
=============================================================================
