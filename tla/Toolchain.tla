----------------------------- MODULE Toolchain -----------------------------
(***************************************************************************)
(* A build: either one source assembled to a flat binary, or several       *)
(* assembled with -c, one after the other, and linked in that order.  What *)
(* the build should produce is defined here from the sources alone, but    *)
(* for the addresses at which pass 1 saw the lines.                        *)
(***************************************************************************)
EXTENDS Assembler, Linker, FiniteSets

CONSTANTS FlatSources, ObjectSources    \* single sources; sequences of sources

ASSUME SourceAssumption ==
  /\ FlatSources \subseteq Source
  /\ ObjectSources \subseteq Seq(Source) \ {<<>>}

VARIABLES
  sources,    \* the sources of this build
  places      \* history: place of each source assembled to an object

vars == <<asmVars, linkVars, sources, places>>

Init ==
  /\ \/ objectMode = FALSE /\ \E s \in FlatSources : sources = <<s>>
     \/ objectMode = TRUE  /\ sources \in ObjectSources
  /\ lines = sources[1] /\ Cleared
  /\ LinkInit
  /\ places = <<>>

Assemble == AsmNext /\ UNCHANGED <<linkVars, sources, places>>

\* An assembler without errors writes its object, which the linker will load
\* in this order, and the next source is assembled by a new process.
NextSource ==
  IF Len(places) + 1 < Len(sources)
  THEN lines' = sources[Len(places) + 2] /\ Restart
  ELSE UNCHANGED <<lines, pass, line, orgAddr, writePos, maxWritePos, outbuf,
                   symtab, relocTab, sectionBase, failed, place>>

WriteObject ==
  /\ pass = 3 /\ objectMode /\ ~failed /\ Len(places) < Len(sources)
  /\ Load(ObjectFile)
  /\ places' = Append(places, place)
  /\ NextSource
  /\ UNCHANGED <<objectMode, sources>>

Link ==
  /\ Len(places) = Len(sources)
  /\ StartLink \/ LinkNext
  /\ UNCHANGED <<asmVars, sources, places>>

Next == Assemble \/ WriteObject \/ Link

Spec == Init /\ [][Next]_vars

-----------------------------------------------------------------------------
(* What a build means.                                                     *)

Files == 1 .. Len(sources)
Lines(f) == DOMAIN sources[f]
Line(f, k) == sources[f][k]
Defining(f, op, s) == {k \in Lines(f) : Line(f, k).op = op /\ Line(f, k).name = s}
Labelled(f)  == {s \in Names : Defining(f, "label", s) # {}}
Constants(f) == {s \in Names : Defining(f, "equ", s) # {}}
Externs(f)   == {s \in Names : Defining(f, "extern", s) # {}}
Globals(f)   == {s \in Names : Defining(f, "global", s) # {}}
First(K) == CHOOSE k \in K : \A j \in K : k <= j

Linked == objectMode /\ phase = "done"
Flat   == ~objectMode /\ pass = 3 /\ ~failed
Output == IF objectMode THEN image ELSE outbuf

\* The address that file f asks for, and where its line k ended up.
OrgOf(f) ==
  LET K == {k \in Lines(f) : Line(f, k).op = "org" /\ Line(f, k).n # 0}
  IN IF K = {} THEN 0 ELSE Line(f, First(K)).n
AddressOf(f, k) ==
  IF objectMode THEN base[f] + places[f][k] - OrgOf(f) ELSE place[k]

Exporters(s) == {g \in Files : s \in Labelled(g) \cap Globals(g)}

LabelValue(f, s) ==
  IF s \in Labelled(f) THEN AddressOf(f, First(Defining(f, "label", s)))
  ELSE IF s \in Externs(f) /\ Exporters(s) # {}
       THEN LET g == CHOOSE g \in Exporters(s) : TRUE
            IN AddressOf(g, First(Defining(g, "label", s)))
       ELSE 0

\* The values of all symbols: constants settle after as many rounds of
\* evaluation as there are of them.
Values(f) ==
  LET round[r \in 0 .. Cardinality(Constants(f))] ==
        IF r = 0 THEN [s \in Names |-> LabelValue(f, s)]
        ELSE [s \in Names |->
                IF s \in Constants(f)
                THEN Wrap(ValueOf(Line(f, First(Defining(f, "equ", s))).e,
                                  round[r - 1]))
                ELSE round[r - 1][s]]
  IN round[Cardinality(Constants(f))]

\* The items that line k of file f stands for, at consecutive addresses.  An
\* operand reads from left to right, and a minus belongs to the term behind it.
Flipped(e) == [e EXCEPT !.neg = ~@]
Meaning(f, k) ==
  LET e == Line(f, k).e
      v == ValueOf(IF Line(f, k).op = "memsub" THEN Flipped(e) ELSE e, Values(f))
      op == Line(f, k).op
  IN CASE op = "word" -> <<Item("word", Wrap(v))>>
       [] op = "byte" -> <<Item("byte", LoByte(v))>>
       [] op = "plain" -> <<Item("plain", 0)>>
       [] op = "pair" -> <<Item("plain", 0), Item("plain", 0)>>
       [] op \in ImmediateOps \cup MemOps -> <<Item(op, Lo(v))>>
       [] op \in TargetOps -> <<Item(op, Offset20(v - AddressOf(f, k)))>>
       [] op = "movi32" -> <<Item("movi", Lo(v)), Item("movhi", Hi(v))>>
       [] OTHER -> <<>>

Faithful(f, k) ==
  \A i \in DOMAIN Meaning(f, k) :
    LET a == AddressOf(f, k) + 4 * (i - 1)
    IN a \in DOMAIN Output /\ Output[a] = Meaning(f, k)[i]

-----------------------------------------------------------------------------
(* The sources for which the assembler keeps its word.  Each conjunct is a *)
(* restriction that the code has and its documentation does not mention.   *)

Uses(f, k) == NamesIn(Line(f, k).e)

\* Pass 1 sees every directive.
Visible(f) == \A k \in Lines(f) : ~Unseen(Line(f, k))

\* A name is defined once; what comes from elsewhere has no definition here,
\* and what is exported is a label.
Defined(f) ==
  \A s \in Names :
    /\ Cardinality(Defining(f, "label", s) \cup Defining(f, "equ", s)) <= 1
    /\ IF objectMode
       THEN /\ s \in Externs(f) => s \notin Labelled(f) \cup Constants(f)
            /\ s \in Globals(f) \ Externs(f) => s \in Labelled(f)
       ELSE s \in Externs(f) \cup Globals(f) => s \in Labelled(f) \cup Constants(f)

\* A constant is used below its line only.
InOrder(f) ==
  \A k, d \in Lines(f) :
    Line(f, d).op = "equ" /\ Line(f, d).name \in Uses(f, k) => d < k

\* Loads and stores do not check the range of their offset, and one that is
\* subtracted is a single term.
OffsetsFit(f) ==
  \A k \in Lines(f) :
    Line(f, k).op \in MemOps =>
      LET v == ValueOf(Line(f, k).e, Values(f))
      IN /\ -(Half \div 2) <= v /\ v < Half \div 2
         /\ Line(f, k).op = "memsub" => Line(f, k).e.tail = <<>>

\* In an object file, addresses go into .word, MOVI32, branches and jumps,
\* alone or with one more number.
Moves(f, k) == Uses(f, k) \cap (Labelled(f) \cup Externs(f))
OneReference(f, e) ==
  /\ ~e.neg /\ e.head.name \in (Labelled(f) \cup Externs(f)) \ Registers
  /\ \/ e.tail = <<>>
     \/ /\ Len(e.tail) = 1 /\ e.tail[1].arg.name = ""
        /\ e.tail[1].op # ">>"
Relocatable(f) ==
  \A k \in Lines(f) :
    IF Line(f, k).op \in TargetOps THEN OneReference(f, Line(f, k).e)
    ELSE Moves(f, k) # {} =>
           /\ Line(f, k).op \in {"word", "movi32"}
           /\ OneReference(f, Line(f, k).e)

\* Nothing comes before the .org that gives an object its address.
StartsAtOrg(f) ==
  \A k \in Lines(f) : Meaning(f, k) # <<>> => OrgOf(f) <= places[f][k]

\* What one file takes from elsewhere and another exports are told apart by
\* what the object files keep of their names.
ShortApart ==
  \A f, g \in Files : \A t \in Externs(f), s \in Labelled(g) \cap Globals(g) :
    Short[s] = Short[t] => s = t

Supported(f) == Visible(f) /\ Defined(f) /\ InOrder(f) /\ OffsetsFit(f)

-----------------------------------------------------------------------------
(* Properties.                                                             *)

\* The state of both programs has its type; relocations and symbols of an
\* object stay in 32 bits, and the output within its buffer.
TypeOK ==
  /\ AsmTypeOK /\ LinkTypeOK
  /\ sources \in Seq(Seq(Statement)) /\ Len(places) <= Len(sources)

\* The two passes agree: as long as there is no error, pass 2 emits each line at
\* its address as offset of the output, and up to the first directive that pass 1
\* does not see, that is the address that pass 1 saw, though sizes are computed
\* by other code than what emits.
PassesAgree ==
  pass = 2 /\ ~failed /\ line <= Len(lines) =>
    /\ writePos = orgAddr
    /\ (\A k \in 1 .. line - 1 : ~Unseen(lines[k])) => orgAddr = place[line]

\* What a comment says of directive_size, of every source: pass 1 counts for a
\* line the bytes that pass 2 emits.
SizesAgree ==
  pass = 2 /\ ~failed /\ line <= Len(lines) => orgAddr = place[line]

\* A flat binary holds at every line's address what the line means.
FlatExact ==
  Flat /\ Supported(1) => \A k \in Lines(1) : Faithful(1, k)

\* The linker adds sizes to addresses without looking for a carry: this is room
\* enough for n objects, whatever they ask for.  In the code 256 objects of 8 MB
\* have it, unless -T is far up.
Bound(n) == TextBase + n * (MaxOutput + 6)
Roomy == Bound(Len(sources)) < Size

\* Of two sections that share an address, the later one has asked for its own.
PlacedApart ==
  Roomy => \A f, g \in DOMAIN base :
             f < g /\ Span(f) \cap Span(g) # {} => objs[g].hint # 0

\* The linker copies no section past the end of its buffer where there is room.
OverrunExplained == phase = "overrun" => ~Roomy

\* When the linker is content, every name, as the objects have it, has one
\* definition at most, and one that some relocation takes from elsewhere has one.
OneDefinition ==
  Linked =>
    \A n \in Names :
      LET definitions == {d \in Files \X Names : d[2] \in ExportedAs(objs[d[1]], n)}
      IN /\ \A c, d \in definitions : c = d
         /\ \A f \in Files : \A r \in DOMAIN objs[f].rels :
              LET symbol == objs[f].syms[objs[f].rels[r].sym]
              IN symbol.undef /\ symbol.name = n => definitions # {}

\* The linked image holds what every line of every source means, references to
\* other files included, unless sections that asked for their address overlap or
\* names lose what tells them apart.
Apart == \A f, g \in Files : f # g => Span(f) \cap Span(g) = {}
Regular(f) == Supported(f) /\ StartsAtOrg(f)

LinkedExact ==
  Linked /\ Apart /\ ShortApart /\ (\A f \in Files : Regular(f) /\ Relocatable(f)) =>
    \A f \in Files : \A k \in Lines(f) : Faithful(f, k)

\* The linker's bounds check fails it only for relocations that the assembler
\* placed before the start of the section.
CrashExplained ==
  phase = "crash" => \E f \in Files : ~StartsAtOrg(f)
=============================================================================
