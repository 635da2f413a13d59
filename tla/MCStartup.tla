----------------------------- MODULE MCStartup -----------------------------
(* Instances of Startup for TLC. *)
EXTENDS Startup

Strings(S, n) == UNION {[1 .. k -> S] : k \in 0 .. n}

\* Programs cannot have a quote in their names.
Programs == Strings({Letter, Space, Slash}, 2) \ {<<>>}

Vectors ==
  {<<p>> : p \in Programs}
  \cup {<<p, a>> : p \in Programs, a \in Strings(Chars, 1)}
  \cup {<<<<Letter>>, a>> : a \in Strings(Chars, 4)}
  \cup {<<<<Letter>>, a, b>> : a \in Strings(Chars, 3), b \in Strings(Chars, 2)}
  \cup {<<<<Letter>>, a, b, <<Letter>>>> : a, b \in Strings(Chars, 1)}

WithOne == {<<Self, <<Letter>>>>}

Typed == Strings(Chars, 5)
=============================================================================
