----------------------------- MODULE MCServices -----------------------------
(* Instances of Services for TLC. *)
EXTENDS Services

Strings(S, n) == UNION {[1 .. k -> S] : k \in 0 .. n}

\* Long enough for three levels of splits with a CUTOFF of 2.
SmallArrays == UNION {[0 .. n - 1 -> 0 .. 2] : n \in 0 .. 5} \cup [0 .. 4 -> 0 .. 3] \cup [0 .. 6 -> 0 .. 2] \cup [0 .. 7 -> 0 .. 1]

\* "/", "a", ":", and characters of two and of four bytes.
Pieces == {<<>>, <<47>>, <<97>>, <<58>>, <<195, 169>>, <<240, 144, 128, 128>>}
Paths  == {<<47>> \o x \o y \o z : x, y, z \in Pieces}

\* Characters of one, two and three bytes, and both halves of pairs, first and last.
Wide == Strings({97, 233, 2048, 55296, 56319, 56320, 57343}, 3) \cup {<<97, 55296, 56320, 97>>, <<55296, 56320, 56319, 57343>>}

\* Lead and continuation bytes, well and badly put together.
Bytes == Strings({97, 92, 195, 169, 237, 160, 240, 144, 255}, 3) \cup {<<240, 144, 128, 128>>, <<240, 128, 144, 169>>}
\* The sources are alike: one mover may be taken to move the first.
MoveTasks ==
  LET s1 == CHOOSE s \in Sources : TRUE
      m1 == CHOOSE m \in Movers : TRUE
  IN  {j \in [Movers -> [src : Sources, replace : BOOLEAN, copy : BOOLEAN]] : j[m1].src = s1}
=============================================================================
