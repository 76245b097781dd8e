------------------------------- MODULE Linker -------------------------------
(***************************************************************************)
(* The CPUTwo linker (src/linker.c): load the objects, give each section a *)
(* base, collect the global symbols, patch the relocations, copy the       *)
(* sections into one image.  An object has one section, as those of the    *)
(* assembler do; the linker's tables are not limited.                      *)
(***************************************************************************)
EXTENDS Dobj

CONSTANT TextBase       \* -T

ASSUME TextBaseAssumption == TextBase \in Word

VARIABLES
  phase,        \* "load", "place", "collect", "resolve", "emit", "done",
                \* "error" (exit status 1), "crash" or "overrun"
  objs,         \* the loaded objects; their data is patched in place
  oi, ri,       \* the object and the relocation that the phase is at
  next,         \* the next free address
  base,         \* the section bases given so far
  globals,      \* glob_syms, as a function from short names to addresses
  linkErrors,   \* link_errors > 0
  image         \* the output: items by address

linkVars == <<phase, objs, oi, ri, next, base, globals, linkErrors, image>>

LinkTypeOK ==
  /\ phase \in {"load", "place", "collect", "resolve", "emit", "done", "error",
                "crash", "overrun"}
  /\ oi \in 1 .. Len(objs) + 1 /\ ri \in Nat /\ next \in Word
  /\ base \in Seq(Word) /\ Len(base) <= Len(objs)
  /\ DOMAIN globals \subseteq Names /\ \A s \in DOMAIN globals : globals[s] \in Word
  /\ linkErrors \in BOOLEAN
  /\ \A i \in DOMAIN objs :
       /\ objs[i].hint \in Word /\ objs[i].size \in Word
       /\ objs[i].rels \in Seq(Reloc)
       /\ \A s \in DOMAIN objs[i].syms : objs[i].syms[s] \in ObjSymbol
       /\ \A p \in DOMAIN objs[i].data : objs[i].data[p].field \in Word
  /\ \A a \in DOMAIN image : image[a].field \in Word

LinkInit ==
  /\ phase = "load" /\ objs = <<>> /\ oi = 1 /\ ri = 1
  /\ next = TextBase /\ base = <<>> /\ globals = <<>>
  /\ linkErrors = FALSE /\ image = <<>>

-----------------------------------------------------------------------------
Obj == objs[oi]
More == oi <= Len(objs)

Load(object) ==
  /\ phase = "load"
  /\ objs' = Append(objs, object)
  /\ UNCHANGED <<phase, oi, ri, next, base, globals, linkErrors, image>>

\* From one phase to the next; errors stop the linker between phases.
Enter(new) == phase' = new /\ oi' = 1 /\ ri' = 1

StartLink ==
  /\ phase = "load" /\ objs # <<>>
  /\ Enter("place")
  /\ UNCHANGED <<objs, next, base, globals, linkErrors, image>>

\* assign_addresses: a hint is taken as it is, everything else goes to the
\* next free aligned address.
BaseOf(object) == IF object.hint # 0 THEN object.hint ELSE AlignUp(next, 4)
\* Faulty variant of the next: the free space starts after the last section.
NextAfterLast(end) == AlignUp(end, 4)
NextAfter(end) == IF end > next THEN AlignUp(end, 4) ELSE next

Place ==
  /\ phase = "place" /\ More
  /\ base' = Append(base, BaseOf(Obj))
  /\ next' = NextAfter(Wrap(BaseOf(Obj) + Obj.size))
  /\ oi' = oi + 1
  /\ UNCHANGED <<phase, objs, ri, globals, linkErrors, image>>

EndPlace ==
  /\ phase = "place" /\ ~More
  /\ Enter("collect")
  /\ UNCHANGED <<objs, next, base, globals, linkErrors, image>>

\* build_globals: a name is what the object file keeps of it.  The first
\* definition counts, others are errors, those of the same object as well.
AddressIn(i, symbol) == Wrap(base[i] + symbol.value)
Exported(object) ==
  {s \in DOMAIN object.syms : object.syms[s].global /\ ~object.syms[s].undef}
ExportedAs(object, n) == {s \in Exported(object) : object.syms[s].name = n}

Merged(object) ==
  LET new == {n \in Names : ExportedAs(object, n) # {}}
  IN [n \in DOMAIN globals \cup new |->
        IF n \in DOMAIN globals THEN globals[n]
        ELSE AddressIn(oi, object.syms[CHOOSE s \in ExportedAs(object, n) : TRUE])]
Twice(object) ==
  \E n \in Names : \E s \in ExportedAs(object, n) :
    n \in DOMAIN globals \/ \E t \in ExportedAs(object, n) : t # s

\* Faulty variant: a second definition goes unnoticed.
CollectFirst ==
  /\ phase = "collect" /\ More
  /\ globals' = Merged(Obj)
  /\ oi' = oi + 1
  /\ UNCHANGED <<phase, objs, ri, next, base, linkErrors, image>>
Collect ==
  /\ phase = "collect" /\ More
  /\ globals' = Merged(Obj)
  /\ linkErrors' = (linkErrors \/ Twice(Obj))
  /\ oi' = oi + 1
  /\ UNCHANGED <<phase, objs, ri, next, base, image>>

EndCollect ==
  /\ phase = "collect" /\ ~More
  /\ Enter(IF linkErrors THEN "error" ELSE "resolve")
  /\ UNCHANGED <<objs, next, base, globals, linkErrors, image>>

-----------------------------------------------------------------------------
(* resolve_relocs, one relocation at a time.                               *)

Rel == Obj.rels[ri]
RelSymbol == Obj.syms[Rel.sym]
RelReady == phase = "resolve" /\ More /\ ri <= Len(Obj.rels)

\* The symbol's address with the addend; only with a definition.
Resolved == ~RelSymbol.undef \/ RelSymbol.name \in DOMAIN globals
Target ==
  Wrap((IF RelSymbol.undef THEN globals[RelSymbol.name] ELSE AddressIn(oi, RelSymbol))
       + Rel.addend)
Site == Wrap(base[oi] + Rel.offset)

\* The bounds check is made in 32 bits: the four addresses below a section
\* pass it, and the write then goes outside the linker's memory.
InSection == Wrap(Rel.offset + 4) <= Obj.size
OffTheMap == InSection /\ Rel.offset + 4 > Obj.size

Relative == Rel.type \in {"BRANCH20", "JUMP20"}
Linkable == Resolved /\ InSection /\ (Relative => InReach(Target - Site))

Patched(item, type, target, site) ==
  CASE type = "ABS32"     -> Item(item.op, target)
    [] type = "MOVI32_LO" -> Item(item.op, Lo(target))
    [] type = "MOVI32_HI" -> Item(item.op, Hi(target))
    [] type \in {"BRANCH20", "JUMP20"} -> Item(item.op, Offset20(target - site))

Relocate ==
  /\ RelReady /\ Linkable /\ ~OffTheMap
  /\ objs' = [objs EXCEPT ![oi].data[Rel.offset] =
                Patched(@, Rel.type, Target, Site)]
  /\ ri' = ri + 1
  /\ UNCHANGED <<phase, oi, next, base, globals, linkErrors, image>>

RelocError ==
  /\ RelReady /\ ~Linkable
  /\ linkErrors' = TRUE
  /\ ri' = ri + 1
  /\ UNCHANGED <<phase, objs, oi, next, base, globals, image>>

RelocCrash ==
  /\ RelReady /\ Linkable /\ OffTheMap
  /\ phase' = "crash"
  /\ UNCHANGED <<objs, oi, ri, next, base, globals, linkErrors, image>>

NextObject ==
  /\ phase = "resolve" /\ More /\ ri > Len(Obj.rels)
  /\ oi' = oi + 1 /\ ri' = 1
  /\ UNCHANGED <<phase, objs, next, base, globals, linkErrors, image>>

EndResolve ==
  /\ phase = "resolve" /\ ~More
  /\ Enter(IF linkErrors THEN "error" ELSE "emit")
  /\ UNCHANGED <<objs, next, base, globals, linkErrors, image>>

-----------------------------------------------------------------------------
(* emit_output copies the sections in order: a later one replaces what it  *)
(* meets, zeros included, and an item that is hit is gone.                 *)

Span(i) == base[i] .. base[i] + objs[i].size - 1
ItemSpan(a, item) == a .. a + ItemSize(item) - 1

Emitted(i) ==
  LET kept == {a \in DOMAIN image : ItemSpan(a, image[a]) \cap Span(i) = {}}
      new  == {base[i] + p : p \in DOMAIN objs[i].data}
  IN [a \in kept \cup new |->
        IF a \in new THEN objs[i].data[a - base[i]] ELSE image[a]]

\* The buffer ends where the farthest section does, in 32 bits: one that goes
\* over the end of the address space is copied past it.
Limit(j) == Wrap(base[j] + objs[j].size)
\* Faulty variant: the buffer ends where the last section does.
OverrunsLast(i) ==
  objs[i].size > 0 /\ Limit(Len(objs)) < base[i] + objs[i].size
Overruns(i) ==
  objs[i].size > 0 /\ \A j \in DOMAIN objs : Limit(j) < base[i] + objs[i].size

EmitOverrun ==
  /\ phase = "emit" /\ More /\ Overruns(oi)
  /\ phase' = "overrun"
  /\ UNCHANGED <<objs, oi, ri, next, base, globals, linkErrors, image>>

EmitSection ==
  /\ phase = "emit" /\ More /\ ~Overruns(oi)
  /\ image' = Emitted(oi)
  /\ oi' = oi + 1
  /\ UNCHANGED <<phase, objs, ri, next, base, globals, linkErrors>>

EndEmit ==
  /\ phase = "emit" /\ ~More
  /\ Enter("done")
  /\ UNCHANGED <<objs, next, base, globals, linkErrors, image>>

LinkNext ==
  \/ Place \/ EndPlace \/ Collect \/ EndCollect
  \/ Relocate \/ RelocError \/ RelocCrash \/ NextObject \/ EndResolve
  \/ EmitSection \/ EmitOverrun \/ EndEmit
=============================================================================
