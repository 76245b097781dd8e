---------------------------- MODULE MCToolchain ----------------------------
(***************************************************************************)
(* Sources for the toolchain: every sequence of three lines over a set of  *)
(* statements, with two labels, a constant and a name that is defined      *)
(* nowhere, or that an object file cannot tell from b.  The constant's     *)
(* name is a register.  Words have 8 bits, immediates 4 and branch offsets *)
(* 5.                                                                      *)
(***************************************************************************)
EXTENDS Toolchain

SequencesOf(S, n) == [1 .. n -> S]

MCShort == [s \in Names |-> IF s = "x" THEN "b" ELSE s]

FlatStatements ==
  {Named("label", "a"), Named("label", "b"), Counted("org", 6),
   Counted("align", 4), Counted("space", 3),
   Equ("k", Then(Just(Symbol("a")), "+", Literal(1))), Equ("k", Just(Literal(20))),
   Equ("b", Just(Symbol("k"))),
   Valued("word", Then(Just(Symbol("k")), ">>", Literal(1))),
   Valued("word", [Then(Just(Symbol("b")), "-", Symbol("a")) EXCEPT !.neg = TRUE]),
   Valued("word", Just(Symbol("x"))),
   Valued("byte", Just(Symbol("a"))), Valued("byte", Just(Symbol("x"))),
   Plain("plain"), Plain("pair"), Plain("unknown"),
   Valued("signed", Just(Symbol("k"))), Valued("unsigned", Just(Symbol("a"))),
   Valued("shift", Just(Symbol("a"))), Valued("mem", Just(Symbol("a"))),
   Valued("memsub", Then(Just(Symbol("a")), "+", Literal(1))),
   Valued("branch", Just(Symbol("a"))),
   Valued("jump", Then(Just(Symbol("b")), "+", Literal(9))),
   Valued("movi32", Just(Symbol("k"))), Valued("movi32", Just(Symbol("x"))),
   Named("global", "a"), Named("extern", "b")}

\* Longer sources: one that uses everything, one that meets the end of the
\* buffer in the middle of a pair, and gaps and fillers that meet it.
FlatExamples ==
  {<<Named("label", "a"), Plain("pair"), Valued("byte", Just(Symbol("b"))),
     Counted("align", 4), Named("label", "b"), Valued("branch", Just(Symbol("a"))),
     Equ("k", Then(Just(Symbol("b")), "-", Symbol("a"))),
     Valued("movi32", Just(Symbol("k")))>>}
  \cup {<<Counted("org", n), s, Plain("plain")>> :
          n \in {36, 40, 41, 44},
          s \in {Plain("pair"), Counted("space", 5), Counted("align", 8),
                 Counted("org", 42), Valued("byte", Just(Literal(1)))}}

\* Two labels before a statement, and one to resume from a known address.
Crowded(s) == <<Named("label", "a"), Named("label", "b"), Crowd(s)>>
CrowdedExamples ==
  {Crowded(s) \o t :
     s \in FlatStatements,
     t \in {<<Valued("branch", Just(Symbol("a")))>>,
            <<Named("label", "k"), Counted("org", 12), Valued("jump", Just(Symbol("k")))>>}}

ObjectStatements ==
  {Named("label", "a"), Named("global", "a"), Named("extern", "b"),
   Counted("org", 20), Counted("space", 2), Equ("k", Just(Literal(3))),
   Valued("word", Just(Symbol("a"))),
   Valued("word", Then(Just(Symbol("b")), "-", Literal(1))),
   Valued("word", Then(Just(Symbol("a")), "+", Symbol("k"))),
   Valued("movi32", Then(Just(Symbol("b")), "+", Literal(2))),
   Valued("branch", Just(Symbol("a"))), Valued("branch", Just(Symbol("b"))),
   Valued("jump", Then(Just(Symbol("b")), "+", Literal(4))),
   Valued("byte", Just(Symbol("k")))}

\* A library that exports b and may use a; one at an address of its own, which
\* a larger first file may overlap; one far away; one that exports both names.
Export(s) == <<Named("global", s), Named("label", s)>>
Libraries ==
  {Export("b") \o <<Plain("plain")>>,
   <<Named("extern", "a"), Valued("byte", Just(Literal(1)))>> \o Export("b")
     \o <<Valued("jump", Just(Symbol("a"))), Valued("word", Just(Symbol("a")))>>,
   <<Counted("org", 10)>> \o Export("b") \o <<Plain("pair")>>,
   <<Counted("org", 36)>> \o Export("b") \o <<Plain("plain")>>,
   <<Plain("plain")>> \o Export("a") \o Export("b")}

ThreeFiles ==
  {<<Export("a") \o <<Plain("plain"), Valued("byte", Just(Literal(1)))>>,
     middle \o Export("b") \o <<Plain("plain")>>,
     <<Named("extern", "a"), Named("extern", "b"),
       Valued("word", Just(Symbol("a"))), Valued("movi32", Just(Symbol("b")))>>>> :
     middle \in {<<>>, <<Counted("org", 4)>>, <<Counted("org", 24)>>,
                 <<Valued("word", Just(Symbol("b")))>>}}

\* Names that the object files cannot tell apart, on either side of a link; a
\* label with the name of a register, known and unknown to the file.
Namesakes ==
  {<<<<Named("extern", s), Valued("word", Just(Symbol(s))), Valued("jump", Just(Symbol(s)))>>,
     l \o Export(t) \o <<Plain("plain")>>>> :
     s \in {"b", "x", "k"}, t \in {"b", "x", "k"}, l \in {<<>>, Export("b")}}

\* Six files that reach the end of the address space, and one more.
ManyFiles ==
  {[i \in 1 .. n |-> IF i = n THEN <<Valued("word", Just(Literal(i)))>>
                               ELSE <<Counted("space", 42)>>] : n \in 5 .. 8}
CrowdedObjects ==
  {<<Crowded(s) \o <<Named("global", "b"), Valued("word", Just(Symbol("b")))>> \o t,
     <<Named("extern", "b"), Valued("branch", Just(Symbol("b")))>>>> :
     s \in ObjectStatements, t \in {<<>>, <<Counted("org", 20), Plain("plain")>>}}

\* Code before the .org that gives an object its address, and after it.
AroundOrg ==
  {<<<<Named("extern", "b")>> \o s, Export("b")>> :
     s \in {<<Valued("word", Just(Symbol("b"))), Counted("org", 4), Plain("plain")>>,
            <<Counted("org", 16), Valued("word", Just(Symbol("b"))),
              Counted("org", 20), Plain("plain")>>}}

MCFlatSources == SequencesOf(FlatStatements, 3) \cup FlatExamples \cup CrowdedExamples
MCObjectSources ==
  {<<p \o s, l>> : p \in {<<>>, <<Named("extern", "b")>>},
                  s \in SequencesOf(ObjectStatements, 3), l \in Libraries}
  \cup {<<l, s>> : s \in SequencesOf(ObjectStatements, 2), l \in Libraries}
  \cup ThreeFiles \cup AroundOrg \cup Namesakes \cup ManyFiles \cup CrowdedObjects
=============================================================================
