------------------------------- MODULE MCFormat -------------------------------
(***************************************************************************)
(* Instances of Format for TLC: words of 8 bits, so that every argument of *)
(* a number is tried, and all pairs of pieces from a smaller set.          *)
(***************************************************************************)
EXTENDS Format

MCStrings == <<<<>>, <<"h", "\n">>>>
MCChars   == <<"A", "\n">>
MCAlphabet == Own \cup {"a", "h", "A", "\n"}

Numbers == {Directive(d, w) : d \in {"d", "u", "x"}, w \in 0 .. WordMod - 1}

Some == {Text("a"), Text("\n"), Directive("%", 0), Directive("q", 0)}
  \cup {Directive("c", w) : w \in {1, 2}} \cup {Directive("s", w) : w \in {0, 1, 2}}
  \cup {Directive(d, w) : d \in {"i", "u", "x"}, w \in {0, 10, 128}}

MCCalls ==
  {<<>>} \cup {<<p>> : p \in Numbers} \cup {<<p, q>> : p \in Some, q \in Some \cup {LonePercent}}
==============================================================================
