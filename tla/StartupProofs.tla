--------------------------- MODULE StartupProofs ----------------------------
(***************************************************************************)
(* Proofs about Startup, for every capacity, every environment and every   *)
(* list of arguments: the argument block fits the memory reserved for it,  *)
(* main gets the beginning of the arguments, the environment blocks are    *)
(* sound, and the C runtime of the program finds on the command line the   *)
(* very arguments that the process was started with, also under the loader *)
(* of --so files.                                                          *)
(*                                                                         *)
(* The last is about two programs that run one after the other: what       *)
(* rebuild_cmdline writes, CommandLineToArgvW reads.  The proof reads the  *)
(* line alongside its being written: behind every character written, the   *)
(* scan has kept the beginning of the argument, with the backslashes that  *)
(* it has not yet decided about (Reading), and behind every argument it    *)
(* has found all so far (Found).                                           *)
(***************************************************************************)
EXTENDS Startup, SequenceTheorems, FiniteSetTheorems, WellFoundedInduction, TLAPS

(* Every set of naturals has a least element. *)
LEMMA LeastNumber ==
  ASSUME NEW T \in SUBSET Nat, T # {}
  PROVE  \E x \in T : \A y \in T : x <= y
  <1> DEFINE R == {ss \in Nat \X Nat : ss[1] < ss[2]}
  <1>1. IsWellFoundedOn(R, Nat)
    BY NatLessThanWellFounded DEF OpToRel
  <1>2. PICK x \in T : \A y \in T : ~(<<y, x>> \in R)
    <2> HIDE DEF R
    <2> QED BY <1>1, WFMin
  <1>3. \A y \in T : ~(y < x)
    BY <1>2
  <1> QED BY <1>3

(* What holds of 0, and of every number after one it holds of, holds of    *)
(* all: induction is by this lemma, over the set of the numbers of which   *)
(* something holds.                                                        *)
LEMMA CountUp ==
  ASSUME NEW S, 0 \in S, \A n \in Nat : n \in S => n + 1 \in S
  PROVE  \A n \in Nat : n \in S
  <1> DEFINE T == Nat \ S
  <1> SUFFICES ASSUME T # {} PROVE FALSE
    OBVIOUS
  <1>1. PICK x \in T : \A y \in T : x <= y
    <2>1. T \in SUBSET Nat
      OBVIOUS
    <2> HIDE DEF T
    <2> QED BY <2>1, LeastNumber
  <1>2. x \in Nat /\ x \notin S /\ x # 0
    OBVIOUS
  <1>3. x - 1 \in Nat /\ ~(x <= x - 1) /\ (x - 1) + 1 = x
    BY <1>2
  <1> QED BY <1>1, <1>2, <1>3

-----------------------------------------------------------------------------
(* Splitting a command line: CommandLineToArgvW. *)

Texts == Seq(Chars)

\* The states of the scan.
Scans == [out : Seq(Texts), tok : Texts, open : BOOLEAN, inq : BOOLEAN, bs : Nat, pair : BOOLEAN]

\* What is being scanned, with its last backslashes, all or one of two.
Kept(st) == st.tok \o Repeat(Slash, st.bs)
Half(st) == st.tok \o Repeat(Slash, st.bs \div 2)

(* The steps of the scan, one by one.  The second quote of a pair: *)
LEMMA StepPair ==
  ASSUME NEW s, NEW i, NEW st \in Scans, st.pair
  PROVE  LaterStep(s, i, st) =
           [out |-> st.out, tok |-> st.tok, open |-> st.open, inq |-> st.inq, bs |-> st.bs, pair |-> FALSE]
  BY DEF LaterStep, Scans, Slash, Quote, Space

(* A backslash. *)
LEMMA StepSlash ==
  ASSUME NEW s, NEW i, NEW st \in Scans, ~st.pair, s[i] = Slash
  PROVE  LaterStep(s, i, st) =
           [out |-> st.out, tok |-> st.tok, open |-> TRUE, inq |-> st.inq, bs |-> st.bs + 1, pair |-> FALSE]
  BY DEF LaterStep, Scans, Slash, Quote, Space

(* A quote that is escaped. *)
LEMMA StepEscaped ==
  ASSUME NEW s, NEW i, NEW st \in Scans, ~st.pair, s[i] = Quote, st.bs % 2 = 1
  PROVE  LaterStep(s, i, st) =
           [out |-> st.out, tok |-> Append(Half(st), Quote), open |-> TRUE, inq |-> st.inq, bs |-> 0, pair |-> FALSE]
  BY DEF LaterStep, Scans, Slash, Quote, Space, Half

(* The first quote of a pair. *)
LEMMA StepPaired ==
  ASSUME NEW s, NEW i, NEW st \in Scans, ~st.pair, s[i] = Quote, st.bs % 2 # 1, st.inq, i < Len(s), s[i + 1] = Quote
  PROVE  LaterStep(s, i, st) =
           [out |-> st.out, tok |-> Append(Half(st), Quote), open |-> TRUE, inq |-> st.inq, bs |-> 0, pair |-> TRUE]
  BY DEF LaterStep, Scans, Slash, Quote, Space, Half

(* A quote that closes. *)
LEMMA StepClose ==
  ASSUME NEW s, NEW i, NEW st \in Scans, ~st.pair, s[i] = Quote, st.bs % 2 # 1, st.inq, ~(i < Len(s) /\ s[i + 1] = Quote)
  PROVE  LaterStep(s, i, st) =
           [out |-> st.out, tok |-> Half(st), open |-> TRUE, inq |-> FALSE, bs |-> 0, pair |-> FALSE]
  BY DEF LaterStep, Scans, Slash, Quote, Space, Half

(* A quote that opens. *)
LEMMA StepOpen ==
  ASSUME NEW s, NEW i, NEW st \in Scans, ~st.pair, s[i] = Quote, st.bs % 2 # 1, ~st.inq
  PROVE  LaterStep(s, i, st) =
           [out |-> st.out, tok |-> Half(st), open |-> TRUE, inq |-> TRUE, bs |-> 0, pair |-> FALSE]
  BY DEF LaterStep, Scans, Slash, Quote, Space, Half

(* A separator. *)
LEMMA StepSpace ==
  ASSUME NEW s, NEW i, NEW st \in Scans, ~st.pair, s[i] = Space, ~st.inq
  PROVE  LaterStep(s, i, st) =
           [out |-> IF st.open THEN Append(st.out, Kept(st)) ELSE st.out, tok |-> <<>>, open |-> FALSE,
            inq |-> st.inq, bs |-> 0, pair |-> FALSE]
  BY DEF LaterStep, Scans, Slash, Quote, Space, Kept

(* Any other character. *)
LEMMA StepOther ==
  ASSUME NEW s, NEW i, NEW st \in Scans, ~st.pair, s[i] # Slash, s[i] # Quote, s[i] # Space \/ st.inq
  PROVE  LaterStep(s, i, st) =
           [out |-> st.out, tok |-> Append(Kept(st), s[i]), open |-> TRUE, inq |-> st.inq, bs |-> 0, pair |-> FALSE]
  BY DEF LaterStep, Scans, Slash, Quote, Space, Kept

(* Texts that are put together. *)
LEMMA TextLen ==
  ASSUME NEW t \in Texts
  PROVE  Len(t) \in Nat /\ t \in Seq(Chars)
  BY DEF Texts

(* The empty text. *)
LEMMA TextNone == <<>> \in Texts /\ Len(<<>>) = 0
  BY DEF Texts

(* Backslashes. *)
LEMMA TextRepeat ==
  ASSUME NEW n \in Nat
  PROVE  Repeat(Slash, n) \in Texts /\ Len(Repeat(Slash, n)) = n
  <1>1. Repeat(Slash, n) \in [1 .. n -> Chars]
    BY DEF Repeat, Chars
  <1> QED BY <1>1 DEF Texts

(* One text after another. *)
LEMMA TextConcat ==
  ASSUME NEW t \in Texts, NEW u \in Texts
  PROVE  t \o u \in Texts /\ Len(t \o u) = Len(t) + Len(u)
  BY DEF Texts

(* One more character. *)
LEMMA TextAppend ==
  ASSUME NEW t \in Texts, NEW c \in Chars
  PROVE  Append(t, c) \in Texts /\ Len(Append(t, c)) = Len(t) + 1
  BY DEF Texts

(* What is kept of the backslashes. *)
LEMMA KeptIs ==
  ASSUME NEW st \in Scans
  PROVE  /\ Kept(st) \in Texts /\ Len(Kept(st)) = Len(st.tok) + st.bs
         /\ Half(st) \in Texts /\ Len(Half(st)) <= Len(st.tok) + st.bs /\ Len(Half(st)) \in Nat
  <1>1. st.tok \in Texts /\ st.bs \in Nat /\ st.bs \div 2 \in Nat /\ st.bs \div 2 <= st.bs
    BY DEF Scans
  <1>2. Repeat(Slash, st.bs) \in Texts /\ Len(Repeat(Slash, st.bs)) = st.bs
    BY <1>1, TextRepeat
  <1>3. Repeat(Slash, st.bs \div 2) \in Texts /\ Len(Repeat(Slash, st.bs \div 2)) = st.bs \div 2
    BY <1>1, TextRepeat
  <1>6. Len(st.tok) \in Nat
    BY <1>1, TextLen
  <1>4. Kept(st) \in Texts /\ Len(Kept(st)) = Len(st.tok) + st.bs
    BY <1>1, <1>2, TextConcat DEF Kept
  <1>5. Half(st) \in Texts /\ Len(Half(st)) \in Nat /\ Len(Half(st)) <= Len(st.tok) + st.bs
    <2>1. PICK h \in Nat : h = st.bs \div 2 /\ h <= st.bs
      BY <1>1
    <2>2. Half(st) \in Texts /\ Len(Half(st)) = Len(st.tok) + h
      BY <1>1, <1>3, <2>1, TextConcat DEF Half
    <2> QED BY <1>1, <1>6, <2>1, <2>2
  <1> QED BY <1>1, <1>4, <1>5, <1>6

-----------------------------------------------------------------------------
\* The texts and their ends take x code units.
Totals(args, x) ==
  \E u \in [0 .. Len(args) -> Nat] :
     /\ u[0] = 0 /\ u[Len(args)] = x
     /\ \A k \in 1 .. Len(args) : u[k] = u[k - 1] + Len(args[k]) + 1

(* None takes nothing. *)
LEMMA TotalNone == Totals(<<>>, 0)
  <1> DEFINE u == [k \in 0 .. 0 |-> 0]
  <1>1. u \in [0 .. 0 -> Nat] /\ u[0] = 0 /\ \A k \in 1 .. 0 : u[k] = u[k - 1] + Len(<<>>[k]) + 1
    OBVIOUS
  <1>2. Len(<<>>) = 0
    OBVIOUS
  <1> HIDE DEF u
  <1> QED BY <1>1, <1>2 DEF Totals

(* One more, at the end. *)
LEMMA TotalAppend ==
  ASSUME NEW args \in Seq(Texts), NEW x, Totals(args, x), NEW t \in Texts
  PROVE  Totals(Append(args, t), x + Len(t) + 1)
  <1>1. PICK n \in Nat : n = Len(args)
    OBVIOUS
  <1>2. PICK u \in [0 .. n -> Nat] :
          u[0] = 0 /\ u[n] = x /\ \A k \in 1 .. n : u[k] = u[k - 1] + Len(args[k]) + 1
    BY <1>1 DEF Totals
  <1>3. PICK l \in Nat : l = Len(t)
    BY TextLen
  <1> DEFINE b == Append(args, t)
             w == [k \in 0 .. n + 1 |-> IF k = n + 1 THEN u[n] + l + 1 ELSE u[k]]
  <1>4. Len(b) = n + 1 /\ b[n + 1] = t /\ \A k \in 1 .. n : b[k] = args[k]
    BY <1>1
  <1> HIDE DEF b
  <1>5. w \in [0 .. n + 1 -> Nat] /\ w[0] = 0 /\ w[n + 1] = x + l + 1
    BY <1>2
  <1>6. ASSUME NEW k \in 1 .. n + 1 PROVE w[k] = w[k - 1] + Len(b[k]) + 1
    <2>1. CASE k = n + 1
      BY <1>2, <1>3, <1>4, <2>1
    <2>2. CASE k # n + 1
      <3>1. k \in 1 .. n /\ k - 1 \in 0 .. n /\ k - 1 # n + 1
        BY <2>2
      <3>2. w[k] = u[k] /\ w[k - 1] = u[k - 1]
        BY <3>1
      <3>3. u[k] = u[k - 1] + Len(args[k]) + 1 /\ b[k] = args[k]
        BY <1>2, <1>4, <3>1
      <3> QED BY <3>2, <3>3
    <2> QED BY <2>1, <2>2
  <1> HIDE DEF w
  <1>7. Totals(b, x + l + 1)
    BY <1>4, <1>5, <1>6 DEF Totals
  <1> QED BY <1>3, <1>7 DEF b

(* One more, at the start. *)
LEMMA TotalFirst ==
  ASSUME NEW args \in Seq(Texts), NEW x \in Nat, Totals(args, x), NEW t \in Texts
  PROVE  Totals(<<t>> \o args, x + Len(t) + 1)
  <1>1. PICK n \in Nat : n = Len(args)
    OBVIOUS
  <1>2. PICK u \in [0 .. n -> Nat] :
          u[0] = 0 /\ u[n] = x /\ \A k \in 1 .. n : u[k] = u[k - 1] + Len(args[k]) + 1
    BY <1>1 DEF Totals
  <1>3. PICK l \in Nat : l = Len(t)
    BY TextLen
  <1> DEFINE b == <<t>> \o args
             w == [k \in 0 .. n + 1 |-> IF k = 0 THEN 0 ELSE l + 1 + u[k - 1]]
  <1>4. Len(b) = n + 1 /\ b[1] = t /\ \A k \in 1 .. n : b[k + 1] = args[k]
    <2>1. <<t>> \in Seq(Texts) /\ Len(<<t>>) = 1 /\ <<t>>[1] = t
      OBVIOUS
    <2> QED BY <1>1, <2>1
  <1> HIDE DEF b
  <1>5. w \in [0 .. n + 1 -> Nat] /\ w[0] = 0 /\ w[n + 1] = x + l + 1
    BY <1>2
  <1>6. ASSUME NEW k \in 1 .. n + 1 PROVE w[k] = w[k - 1] + Len(b[k]) + 1
    <2>1. CASE k = 1
      BY <1>2, <1>3, <1>4, <2>1
    <2>2. CASE k # 1
      <3>1. k - 1 \in 1 .. n /\ k - 1 # 0 /\ k - 1 \in 0 .. n + 1 /\ k - 2 \in 0 .. n /\ (k - 1) - 1 = k - 2 /\ k # 0
        BY <2>2
      <3>2. w[k] = l + 1 + u[k - 1] /\ w[k - 1] = l + 1 + u[k - 2]
        BY <3>1
      <3>3. u[k - 1] = u[k - 2] + Len(args[k - 1]) + 1
        BY <1>2, <3>1
      <3>4. b[k] = args[k - 1]
        <4>1. (k - 1) + 1 = k
          OBVIOUS
        <4> QED BY <1>4, <3>1, <4>1
      <3>5. PICK y \in Nat : y = u[k - 2]
        BY <1>2, <3>1
      <3>6. PICK z \in Nat : z = Len(args[k - 1])
        <4>1. args[k - 1] \in Texts
          BY <1>1, <3>1
        <4> QED BY <4>1, TextLen
      <3> HIDE DEF w
      <3>7. w[k] = l + 1 + (y + z + 1) /\ w[k - 1] = l + 1 + y /\ Len(b[k]) = z
        BY <3>2, <3>3, <3>4, <3>5, <3>6
      <3> QED BY <3>7
    <2> QED BY <2>1, <2>2
  <1> HIDE DEF w
  <1>7. Totals(b, x + l + 1)
    BY <1>4, <1>5, <1>6 DEF Totals
  <1> QED BY <1>3, <1>7 DEF b

\* The recursion of the property.
Tallied(args, u, n) == u = [k \in 0 .. n |-> IF k = 0 THEN 0 ELSE u[k - 1] + Len(args[k]) + 1]

(* It has one solution, and that is the total. *)
LEMMA TotalIs ==
  ASSUME NEW args \in Seq(Texts), NEW x, Totals(args, x)
  PROVE  (CHOOSE u : Tallied(args, u, Len(args)))[Len(args)] = x
  <1>1. PICK n \in Nat : n = Len(args)
    OBVIOUS
  <1>2. PICK u \in [0 .. n -> Nat] :
          u[0] = 0 /\ u[n] = x /\ \A k \in 1 .. n : u[k] = u[k - 1] + Len(args[k]) + 1
    BY <1>1 DEF Totals
  <1>3. Tallied(args, u, n)
    <2>1. \A k \in 0 .. n : u[k] = IF k = 0 THEN 0 ELSE u[k - 1] + Len(args[k]) + 1
      BY <1>2
    <2> QED BY <1>2, <2>1 DEF Tallied
  <1>4. PICK w : w = (CHOOSE v : Tallied(args, v, n)) /\ Tallied(args, w, n)
    BY <1>3
  <1>a. w[0] = 0 /\ \A k \in 1 .. n : w[k] = w[k - 1] + Len(args[k]) + 1
    <2>1. 0 \in 0 .. n /\ \A k \in 1 .. n : k \in 0 .. n /\ k # 0
      OBVIOUS
    <2> QED BY <1>4, <2>1, Zenon DEF Tallied
  <1> DEFINE S == {k \in Nat : k <= n => w[k] = u[k]}
  <1>5. 0 \in S
    BY <1>2, <1>a
  <1>6. ASSUME NEW k \in Nat, k \in S PROVE k + 1 \in S
    <2> SUFFICES ASSUME k + 1 <= n PROVE w[k + 1] = u[k + 1]
      OBVIOUS
    <2>1. k <= n /\ k + 1 \in 1 .. n /\ k + 1 \in 0 .. n /\ k + 1 # 0 /\ k + 1 - 1 = k
      OBVIOUS
    <2>2. w[k] = u[k]
      BY <1>6, <2>1
    <2>3. w[k + 1] = w[k] + Len(args[k + 1]) + 1
      BY <1>a, <2>1
    <2>4. u[k + 1] = u[k] + Len(args[k + 1]) + 1
      BY <1>2, <2>1
    <2> QED BY <2>2, <2>3, <2>4
  <1> HIDE DEF S
  <1>7. n \in S
    BY <1>5, <1>6, CountUp
  <1>8. w[n] = u[n]
    BY <1>7 DEF S
  <1> QED BY <1>1, <1>2, <1>4, <1>8

-----------------------------------------------------------------------------
\* The recursion of LaterArgs, as far as n.
Scanned(s, g, n) == g = [i \in 0 .. n |-> IF i = 0 THEN LaterStart ELSE LaterStep(s, i, g[i - 1])]

(* Some function satisfies it. *)
LEMMA ScannedExist ==
  ASSUME NEW s
  PROVE  \A n \in Nat : \E g : Scanned(s, g, n)
  <1> DEFINE S == {n \in Nat : \E g : Scanned(s, g, n)}
  <1>1. 0 \in S
    <2> DEFINE g == [k \in 0 .. 0 |-> LaterStart]
    <2>1. Scanned(s, g, 0)
      BY DEF Scanned
    <2> QED BY <2>1
  <1>2. ASSUME NEW n \in Nat, n \in S PROVE n + 1 \in S
    <2>1. PICK f : Scanned(s, f, n)
      BY <1>2
    <2> DEFINE g == [k \in 0 .. n + 1 |-> IF k = 0 THEN LaterStart ELSE LaterStep(s, k, f[k - 1])]
    <2>2. \A k \in 0 .. n : g[k] = f[k]
      BY <2>1 DEF Scanned
    <2>3. ASSUME NEW k \in 0 .. n + 1 PROVE g[k] = IF k = 0 THEN LaterStart ELSE LaterStep(s, k, g[k - 1])
      <3>1. CASE k = 0
        BY <3>1
      <3>2. CASE k # 0
        <4>1. k - 1 \in 0 .. n
          BY <3>2
        <4> QED BY <4>1, <2>2, <3>2
      <3> QED BY <3>1, <3>2
    <2>4. Scanned(s, g, n + 1)
      BY <2>3 DEF Scanned
    <2> QED BY <2>4
  <1> HIDE DEF S
  <1>3. \A n \in Nat : n \in S
    BY <1>1, <1>2, CountUp
  <1> QED BY <1>3 DEF S

(* Its values, one from the other, and what LaterArgs makes of the last. *)
LEMMA LaterArgsScan ==
  ASSUME NEW s \in Texts
  PROVE  \E g :
           /\ g[0] = LaterStart
           /\ \A i \in Nat : i + 1 <= Len(s) => g[i + 1] = LaterStep(s, i + 1, g[i])
           /\ LaterArgs(s) = IF g[Len(s)].open THEN Append(g[Len(s)].out, Kept(g[Len(s)])) ELSE g[Len(s)].out
  <1>1. PICK n \in Nat : n = Len(s)
    BY TextLen
  <1>2. PICK g : g = (CHOOSE x : Scanned(s, x, n)) /\ Scanned(s, g, n)
    <2>1. \E x : Scanned(s, x, n)
      BY ScannedExist
    <2> QED BY <2>1
  <1>3. g[0] = LaterStart /\ \A i \in 1 .. n : g[i] = LaterStep(s, i, g[i - 1])
    <2>1. 0 \in 0 .. n /\ \A i \in 1 .. n : i \in 0 .. n /\ i # 0
      OBVIOUS
    <2> QED BY <1>2, <2>1, Zenon DEF Scanned
  <1>4. ASSUME NEW i \in Nat, i + 1 <= n PROVE g[i + 1] = LaterStep(s, i + 1, g[i])
    <2>1. i + 1 \in 1 .. n /\ i + 1 - 1 = i
      BY <1>4
    <2> QED BY <1>3, <2>1
  <1>5. LaterArgs(s) = LET f == CHOOSE x : Scanned(s, x, Len(s))
                           e == f[Len(s)]
                       IN  IF e.open THEN Append(e.out, Kept(e)) ELSE e.out
    BY DEF LaterArgs, Scanned, Kept
  <1>6. LaterArgs(s) = IF g[n].open THEN Append(g[n].out, Kept(g[n])) ELSE g[n].out
    BY <1>1, <1>2, <1>5, Zenon
  <1> QED BY <1>1, <1>3, <1>4, <1>6

\* What i characters can have become: so many arguments, and so many code units.
ScanFits(i, st) ==
  /\ st \in Scans
  /\ 2 * Len(st.out) + (IF st.open THEN 1 ELSE 0) <= i
  /\ \E x \in Nat : Totals(st.out, x) /\ x + Len(st.tok) + st.bs <= i

(* The parts of a state that fits. *)
LEMMA FitsAs ==
  ASSUME NEW i, NEW out \in Seq(Texts), NEW tok \in Texts, NEW open \in BOOLEAN, NEW inq \in BOOLEAN,
         NEW bs \in Nat, NEW pair \in BOOLEAN,
         2 * Len(out) + (IF open THEN 1 ELSE 0) <= i,
         NEW y \in Nat, Totals(out, y), y + Len(tok) + bs <= i
  PROVE  ScanFits(i, [out |-> out, tok |-> tok, open |-> open, inq |-> inq, bs |-> bs, pair |-> pair])
  <1>1. [out |-> out, tok |-> tok, open |-> open, inq |-> inq, bs |-> bs, pair |-> pair] \in Scans
    BY DEF Scans
  <1> QED BY <1>1 DEF ScanFits

(* One character more. *)
LEMMA StepFits ==
  ASSUME NEW s \in Texts, NEW i \in Nat, i + 1 <= Len(s), NEW st, ScanFits(i, st)
  PROVE  ScanFits(i + 1, LaterStep(s, i + 1, st))
  <1>1. /\ st \in Scans /\ st.out \in Seq(Texts) /\ st.tok \in Texts /\ st.bs \in Nat
        /\ st.open \in BOOLEAN /\ st.inq \in BOOLEAN /\ st.pair \in BOOLEAN
    BY DEF ScanFits, Scans
  <1>2. s[i + 1] \in Chars
    BY TextLen
  <1>3. PICK x \in Nat : Totals(st.out, x) /\ x + Len(st.tok) + st.bs <= i
    BY DEF ScanFits
  <1>4. /\ Kept(st) \in Texts /\ Len(Kept(st)) = Len(st.tok) + st.bs
        /\ Half(st) \in Texts /\ Len(Half(st)) <= Len(st.tok) + st.bs /\ Len(Half(st)) \in Nat
    BY <1>1, KeptIs
  <1>5. PICK a \in Nat : a = Len(st.out)
    BY <1>1
  <1>6. PICK b \in Nat : b = Len(st.tok)
    BY <1>1, TextLen
  <1>7. 2 * a + (IF st.open THEN 1 ELSE 0) <= i
    BY <1>5 DEF ScanFits
  <1>9. 2 * Len(st.out) + 1 <= i + 1 /\ 2 * Len(st.out) + (IF st.open THEN 1 ELSE 0) <= i + 1
    <2>1. CASE st.open
      BY <1>5, <1>7, <2>1
    <2>2. CASE ~st.open
      BY <1>5, <1>7, <2>2
    <2> QED BY <2>1, <2>2
  <1>10. CASE st.pair
    <2>1. 2 * Len(st.out) + (IF st.open THEN 1 ELSE 0) <= i + 1
      BY <1>9
    <2>2. x + Len(st.tok) + st.bs <= i + 1
      BY <1>1, <1>3, <1>6
    <2>3. FALSE \in BOOLEAN
      OBVIOUS
    <2>a. LaterStep(s, i + 1, st) = [out |-> st.out, tok |-> st.tok, open |-> st.open, inq |-> st.inq, bs |-> st.bs, pair |-> FALSE]
      BY <1>1, <1>10, StepPair
    <2>b. ScanFits(i + 1, [out |-> st.out, tok |-> st.tok, open |-> st.open, inq |-> st.inq, bs |-> st.bs, pair |-> FALSE])
      BY <1>1, <1>3, <2>1, <2>2, <2>3, FitsAs
    <2> QED BY <2>a, <2>b
  <1>11. CASE ~st.pair
    <2>0. TRUE \in BOOLEAN /\ FALSE \in BOOLEAN /\ 0 \in Nat /\ Quote \in Chars
      BY DEF Chars
    <2>1. 2 * Len(st.out) + (IF TRUE THEN 1 ELSE 0) <= i + 1
      BY <1>9
    <2>2. CASE s[i + 1] = Slash
      <3>1. x + Len(st.tok) + (st.bs + 1) <= i + 1 /\ st.bs + 1 \in Nat
        BY <1>1, <1>3, <1>6
      <3>a. LaterStep(s, i + 1, st) = [out |-> st.out, tok |-> st.tok, open |-> TRUE, inq |-> st.inq, bs |-> st.bs + 1, pair |-> FALSE]
        BY <1>1, <1>11, <2>2, StepSlash
      <3>b. ScanFits(i + 1, [out |-> st.out, tok |-> st.tok, open |-> TRUE, inq |-> st.inq, bs |-> st.bs + 1, pair |-> FALSE])
        BY <1>1, <1>3, <2>0, <2>1, <3>1, FitsAs
      <3> QED BY <3>a, <3>b
    <2>3. Append(Half(st), Quote) \in Texts /\ x + Len(Append(Half(st), Quote)) + 0 <= i + 1
      <3>1. Append(Half(st), Quote) \in Texts /\ Len(Append(Half(st), Quote)) = Len(Half(st)) + 1
        BY <1>4, <2>0, TextAppend
      <3> QED BY <1>1, <1>3, <1>4, <1>6, <3>1
    <2>4. x + Len(Half(st)) + 0 <= i + 1
      BY <1>1, <1>3, <1>4, <1>6
    <2>5. CASE s[i + 1] = Quote
      <3>1. CASE st.bs % 2 = 1
        <4>a. LaterStep(s, i + 1, st) = [out |-> st.out, tok |-> Append(Half(st), Quote), open |-> TRUE, inq |-> st.inq, bs |-> 0, pair |-> FALSE]
          BY <1>1, <1>11, <2>5, <3>1, StepEscaped
        <4>b. ScanFits(i + 1, [out |-> st.out, tok |-> Append(Half(st), Quote), open |-> TRUE, inq |-> st.inq, bs |-> 0, pair |-> FALSE])
          BY <1>1, <1>3, <2>0, <2>1, <2>3, FitsAs
        <4> QED BY <4>a, <4>b
      <3>2. CASE st.bs % 2 # 1 /\ st.inq /\ (i + 1 < Len(s) /\ s[i + 1 + 1] = Quote)
        <4>a. LaterStep(s, i + 1, st) = [out |-> st.out, tok |-> Append(Half(st), Quote), open |-> TRUE, inq |-> st.inq, bs |-> 0, pair |-> TRUE]
          BY <1>1, <1>11, <2>5, <3>2, StepPaired
        <4>b. ScanFits(i + 1, [out |-> st.out, tok |-> Append(Half(st), Quote), open |-> TRUE, inq |-> st.inq, bs |-> 0, pair |-> TRUE])
          BY <1>1, <1>3, <2>0, <2>1, <2>3, FitsAs
        <4> QED BY <4>a, <4>b
      <3>3. CASE st.bs % 2 # 1 /\ st.inq /\ ~(i + 1 < Len(s) /\ s[i + 1 + 1] = Quote)
        <4>a. LaterStep(s, i + 1, st) = [out |-> st.out, tok |-> Half(st), open |-> TRUE, inq |-> FALSE, bs |-> 0, pair |-> FALSE]
          BY <1>1, <1>11, <2>5, <3>3, StepClose
        <4>b. ScanFits(i + 1, [out |-> st.out, tok |-> Half(st), open |-> TRUE, inq |-> FALSE, bs |-> 0, pair |-> FALSE])
          BY <1>1, <1>3, <1>4, <2>0, <2>1, <2>4, FitsAs
        <4> QED BY <4>a, <4>b
      <3>4. CASE st.bs % 2 # 1 /\ ~st.inq
        <4>a. LaterStep(s, i + 1, st) = [out |-> st.out, tok |-> Half(st), open |-> TRUE, inq |-> TRUE, bs |-> 0, pair |-> FALSE]
          BY <1>1, <1>11, <2>5, <3>4, StepOpen
        <4>b. ScanFits(i + 1, [out |-> st.out, tok |-> Half(st), open |-> TRUE, inq |-> TRUE, bs |-> 0, pair |-> FALSE])
          BY <1>1, <1>3, <1>4, <2>0, <2>1, <2>4, FitsAs
        <4> QED BY <4>a, <4>b
      <3> QED BY <3>1, <3>2, <3>3, <3>4
    <2>6. CASE s[i + 1] = Space /\ ~st.inq
      <3> DEFINE out == IF st.open THEN Append(st.out, Kept(st)) ELSE st.out
      <3>1. out \in Seq(Texts) /\ 2 * Len(out) + 0 <= i + 1
        <4>1. CASE st.open
          <5>1. out \in Seq(Texts) /\ Len(out) = a + 1
            BY <1>1, <1>4, <1>5, <4>1
          <5>2. 2 * (a + 1) <= i + 1
            BY <1>7, <4>1
          <5> QED BY <5>1, <5>2
        <4>2. CASE ~st.open
          <5>1. out \in Seq(Texts) /\ Len(out) = a
            BY <1>1, <1>5, <4>2
          <5> QED BY <1>7, <4>2, <5>1
        <4> QED BY <4>1, <4>2
      <3>2. PICK y \in Nat : Totals(out, y) /\ y <= i + 1
        <4>1. CASE st.open
          <5>1. Totals(out, x + Len(Kept(st)) + 1)
            BY <1>1, <1>3, <1>4, <4>1, TotalAppend
          <5>2. x + Len(Kept(st)) + 1 \in Nat /\ x + Len(Kept(st)) + 1 <= i + 1
            <6>1. Len(Kept(st)) \in Nat /\ x + Len(Kept(st)) <= i
              BY <1>1, <1>3, <1>4, <1>6
            <6> QED BY <6>1
          <5> QED BY <5>1, <5>2
        <4>2. CASE ~st.open
          BY <1>1, <1>3, <1>6, <4>2
        <4> QED BY <4>1, <4>2
      <3>3. LaterStep(s, i + 1, st) =
              [out |-> out, tok |-> <<>>, open |-> FALSE, inq |-> st.inq, bs |-> 0, pair |-> FALSE]
        BY <1>1, <1>11, <2>6, StepSpace
      <3> HIDE DEF out
      <3>4. 2 * Len(out) + (IF FALSE THEN 1 ELSE 0) <= i + 1 /\ <<>> \in Texts /\ y + Len(<<>>) + 0 <= i + 1
        BY <3>1, <3>2, TextNone
      <3>5. ScanFits(i + 1, [out |-> out, tok |-> <<>>, open |-> FALSE, inq |-> st.inq, bs |-> 0, pair |-> FALSE])
        BY <1>1, <2>0, <3>1, <3>2, <3>4, FitsAs
      <3> QED BY <3>3, <3>5
    <2>7. CASE s[i + 1] # Slash /\ s[i + 1] # Quote /\ (s[i + 1] # Space \/ st.inq)
      <3>1. Append(Kept(st), s[i + 1]) \in Texts /\ Len(Append(Kept(st), s[i + 1])) = Len(Kept(st)) + 1
        BY <1>2, <1>4, TextAppend
      <3>2. x + Len(Append(Kept(st), s[i + 1])) + 0 <= i + 1
        BY <1>1, <1>3, <1>4, <1>6, <3>1, SMTT(30)
      <3>a. LaterStep(s, i + 1, st) = [out |-> st.out, tok |-> Append(Kept(st), s[i + 1]), open |-> TRUE, inq |-> st.inq, bs |-> 0, pair |-> FALSE]
        BY <1>1, <1>11, <2>7, StepOther
      <3>b. ScanFits(i + 1, [out |-> st.out, tok |-> Append(Kept(st), s[i + 1]), open |-> TRUE, inq |-> st.inq, bs |-> 0, pair |-> FALSE])
        BY <1>1, <1>3, <2>0, <2>1, <3>1, <3>2, FitsAs
      <3> QED BY <3>a, <3>b
    <2> QED BY <1>1, <2>2, <2>5, <2>6, <2>7
  <1> QED BY <1>1, <1>10, <1>11

(* However a line is split after the first argument: every argument is a   *)
(* character and a separator at least, and no character counts twice.      *)
LEMMA LaterArgsFit ==
  ASSUME NEW s \in Texts
  PROVE  /\ LaterArgs(s) \in Seq(Texts) /\ 2 * Len(LaterArgs(s)) <= Len(s) + 1
         /\ \E x \in Nat : Totals(LaterArgs(s), x) /\ x <= Len(s) + 1
  <1>1. PICK n \in Nat : n = Len(s)
    BY TextLen
  <1>2. PICK g :
           /\ g[0] = LaterStart
           /\ \A i \in Nat : i + 1 <= n => g[i + 1] = LaterStep(s, i + 1, g[i])
           /\ LaterArgs(s) = IF g[n].open THEN Append(g[n].out, Kept(g[n])) ELSE g[n].out
    BY <1>1, LaterArgsScan
  <1> DEFINE S == {i \in Nat : i <= n => ScanFits(i, g[i])}
  <1>3. 0 \in S
    <2>1. ScanFits(0, [out |-> <<>>, tok |-> <<>>, open |-> FALSE, inq |-> FALSE, bs |-> 0, pair |-> FALSE])
      <3>1. /\ <<>> \in Seq(Texts) /\ <<>> \in Texts /\ FALSE \in BOOLEAN /\ 0 \in Nat /\ Totals(<<>>, 0)
            /\ 2 * Len(<<>>) + (IF FALSE THEN 1 ELSE 0) <= 0 /\ 0 + Len(<<>>) + 0 <= 0
        BY TextNone, TotalNone
      <3> QED BY <3>1, FitsAs
    <2> QED BY <1>2, <2>1 DEF LaterStart
  <1>4. ASSUME NEW i \in Nat, i \in S PROVE i + 1 \in S
    <2> SUFFICES ASSUME i + 1 <= n PROVE ScanFits(i + 1, g[i + 1])
      OBVIOUS
    <2>1. i <= n
      OBVIOUS
    <2>2. ScanFits(i, g[i])
      BY <1>4, <2>1
    <2> QED BY <1>1, <1>2, <2>2, StepFits
  <1> HIDE DEF S
  <1>5. n \in S
    BY <1>3, <1>4, CountUp
  <1>6. ScanFits(n, g[n])
    BY <1>5 DEF S
  <1>7. PICK st : st = g[n]
    OBVIOUS
  <1>8. /\ st \in Scans /\ st.out \in Seq(Texts) /\ st.tok \in Texts /\ st.bs \in Nat /\ st.open \in BOOLEAN
        /\ 2 * Len(st.out) + (IF st.open THEN 1 ELSE 0) <= n
    BY <1>6, <1>7 DEF ScanFits, Scans
  <1>9. PICK x \in Nat : Totals(st.out, x) /\ x + Len(st.tok) + st.bs <= n
    BY <1>6, <1>7 DEF ScanFits
  <1>10. Kept(st) \in Texts /\ Len(Kept(st)) = Len(st.tok) + st.bs
    BY <1>8, KeptIs
  <1>11. PICK a \in Nat : a = Len(st.out)
    BY <1>8
  <1>12. PICK b \in Nat : b = Len(st.tok)
    BY <1>8, TextLen
  <1>13. CASE st.open
    <2>1. LaterArgs(s) = Append(st.out, Kept(st))
      BY <1>2, <1>7, <1>13
    <2>2. LaterArgs(s) \in Seq(Texts) /\ Len(LaterArgs(s)) = a + 1
      BY <1>8, <1>10, <1>11, <2>1
    <2>3. 2 * (a + 1) <= n + 1
      BY <1>8, <1>11, <1>13
    <2>4. Totals(LaterArgs(s), x + Len(Kept(st)) + 1)
      BY <1>8, <1>9, <1>10, <2>1, TotalAppend
    <2>5. x + Len(Kept(st)) + 1 \in Nat /\ x + Len(Kept(st)) + 1 <= n + 1
      BY <1>8, <1>9, <1>10, <1>12, SMTT(30)
    <2> QED BY <1>1, <2>2, <2>3, <2>4, <2>5
  <1>14. CASE ~st.open
    <2>1. LaterArgs(s) = st.out
      BY <1>2, <1>7, <1>14
    <2>2. 2 * a <= n + 1
      BY <1>8, <1>11, <1>14
    <2>3. x <= n + 1
      BY <1>8, <1>9, <1>12
    <2> QED BY <1>1, <1>8, <1>9, <1>11, <2>1, <2>2, <2>3
  <1> QED BY <1>8, <1>13, <1>14

(* The whole line, with its first argument. *)
LEMMA ArgvFits ==
  ASSUME NEW s \in Texts, s # <<>>
  PROVE  /\ CommandLineToArgvW(s) \in Seq(Texts)
         /\ Len(CommandLineToArgvW(s)) + 1 <= ArgvSlots(Len(s))
         /\ \E x \in Nat : Totals(CommandLineToArgvW(s), x) /\ x <= ArgvUnits(Len(s))
  <1> DEFINE quoted == s # <<>> /\ s[1] = Quote
             from == IF quoted THEN 2 ELSE 1
             ends == {i \in from .. Len(s) : s[i] = IF quoted THEN Quote ELSE Space}
             end == IF ends = {} THEN Len(s) + 1 ELSE CHOOSE i \in ends : \A j \in ends : i <= j
             first == SubSeq(s, from, end - 1)
             rest == SubSeq(s, IF quoted THEN end + 1 ELSE end, Len(s))
  <1>1. PICK n \in Nat : n = Len(s) /\ n > 0
    BY TextLen
  <1>2. from \in 1 .. 2
    OBVIOUS
  <1>3. end \in from .. n + 1
    <2>1. CASE ends = {}
      BY <1>1, <1>2, <2>1
    <2>2. CASE ends # {}
      <3>1. ends \in SUBSET Nat
        BY <1>1, <1>2
      <3>2. \E i \in ends : \A j \in ends : i <= j
        <4> HIDE DEF ends
        <4> QED BY <2>2, <3>1, LeastNumber
      <3>3. end \in ends
        <4> HIDE DEF ends
        <4> QED BY <2>2, <3>2
      <3> QED BY <1>1, <1>2, <3>3
    <2> QED BY <2>1, <2>2
  <1>4. CommandLineToArgvW(s) = <<first>> \o LaterArgs(rest)
    BY Zenon DEF CommandLineToArgvW
  <1> HIDE DEF end, ends
  <1>5. s \in Seq(Chars) /\ (quoted => from = 2) /\ (~quoted => from = 1)
    BY TextLen
  <1>6. first \in Texts /\ Len(first) = end - from
    <2>1. from \in 1 .. n + 1 /\ end - 1 \in from - 1 .. n
      BY <1>1, <1>2, <1>3
    <2>2. ASSUME NEW f \in 1 .. n + 1, NEW e \in f - 1 .. n
          PROVE  SubSeq(s, f, e) \in Seq(Chars) /\ Len(SubSeq(s, f, e)) = e - f + 1
      <3>1. CASE e = f - 1
        BY <1>5, <3>1
      <3>2. CASE e # f - 1
        BY <1>1, <1>5, <3>2
      <3> QED BY <3>1, <3>2
    <2>3. (end - 1) - from + 1 = end - from
      BY <1>2, <1>3
    <2> HIDE DEF from
    <2> QED BY <2>1, <2>2, <2>3 DEF Texts
  <1>7. rest \in Texts /\ Len(rest) \in Nat /\ Len(rest) <= n + 1 - end /\ (quoted => Len(rest) <= n - end \/ Len(rest) = 0)
    <2>1. CASE quoted
      <3>1. end + 1 \in 1 .. n + 2 /\ rest = SubSeq(s, end + 1, n)
        BY <1>1, <1>2, <1>3, <2>1
      <3> HIDE DEF rest, quoted, from
      <3>2. CASE end = n + 1
        BY <1>1, <1>5, <3>1, <3>2 DEF Texts
      <3>3. CASE end # n + 1
        BY <1>1, <1>2, <1>3, <1>5, <3>1, <3>3 DEF Texts
      <3> QED BY <3>2, <3>3
    <2>2. CASE ~quoted
      <3>1. end \in 1 .. n + 1 /\ rest = SubSeq(s, end, n)
        BY <1>1, <1>2, <1>3, <2>2
      <3> HIDE DEF rest, quoted, from
      <3> QED BY <1>1, <1>5, <2>2, <3>1 DEF Texts
    <2> QED BY <2>1, <2>2
  <1> HIDE DEF first, rest, from, quoted
  <1>8. PICK later : later = LaterArgs(rest)
    OBVIOUS
  <1>9. later \in Seq(Texts) /\ 2 * Len(later) <= Len(rest) + 1
    BY <1>7, <1>8, LaterArgsFit
  <1>10. PICK x \in Nat : Totals(later, x) /\ x <= Len(rest) + 1
    BY <1>7, <1>8, LaterArgsFit
  <1>11. PICK args : args = <<first>> \o later
    OBVIOUS
  <1>12. args \in Seq(Texts) /\ Len(args) = Len(later) + 1
    <2>1. <<first>> \in Seq(Texts) /\ Len(<<first>>) = 1
      BY <1>6
    <2> QED BY <1>9, <1>11, <2>1
  <1>13. Len(args) + 1 <= n \div 2 + 3
    <2>1. PICK m \in Nat : m = Len(later)
      BY <1>9
    <2>2. 2 * m <= n + 1
      BY <1>2, <1>3, <1>7, <1>9, <2>1
    <2> QED BY <1>12, <2>1, <2>2
  <1>14. Totals(args, x + Len(first) + 1)
    BY <1>6, <1>9, <1>10, <1>11, TotalFirst
  <1>15. x + Len(first) + 1 \in Nat /\ x + Len(first) + 1 <= 2 * n + 2
    BY <1>1, <1>2, <1>3, <1>6, <1>7, <1>10
  <1> QED BY <1>1, <1>4, <1>8, <1>11, <1>12, <1>13, <1>14, <1>15 DEF ArgvSlots, ArgvUnits

(* CommandLineToArgvW never writes past the block it allocates before it   *)
(* splits the line, however long the line and whatever is in it.           *)
THEOREM ArgvBlockFitsHolds == StartupSpec => []ArgvBlockFits
  <1> DEFINE Inv == phase = "split" => parsed \in Texts
  <1>1. StartupInit => Inv
    BY DEF StartupInit, Init
  <1>2. Inv /\ [StartupNext]_startupVars => Inv'
    BY ArgvAssumption DEF StartupNext, startupVars, vars, Next, ShimInit, LoadMain, ShimReloadCmdline, SplitLine, Texts
  <1>3. Inv => ArgvBlockFits
    <2> SUFFICES ASSUME parsed \in Texts, parsed # <<>>
                 PROVE  LET args == CommandLineToArgvW(parsed)
                            units == CHOOSE u : Tallied(args, u, Len(args))
                        IN  Len(args) + 1 <= ArgvSlots(Len(parsed)) /\ units[Len(args)] <= ArgvUnits(Len(parsed))
      BY DEF ArgvBlockFits, Tallied
    <2>1. PICK args : args = CommandLineToArgvW(parsed)
      OBVIOUS
    <2>2. args \in Seq(Texts) /\ Len(args) + 1 <= ArgvSlots(Len(parsed))
      BY <2>1, ArgvFits
    <2>3. PICK x \in Nat : Totals(args, x) /\ x <= ArgvUnits(Len(parsed))
      BY <2>1, ArgvFits
    <2>4. (CHOOSE u : Tallied(args, u, Len(args)))[Len(args)] = x
      BY <2>2, <2>3, TotalIs
    <2> QED BY <2>1, <2>2, <2>3, <2>4, Zenon
  <1> QED BY <1>1, <1>2, <1>3, PTL DEF StartupSpec

-----------------------------------------------------------------------------
(* The argument vector of __getmainargs: how many arguments build_argv     *)
(* counts in /proc/self/cmdline.                                           *)

Bytes == Chars \cup {Nul}

AddRaw(raw, w) == raw \o w \o <<Nul>>

\* The recursion of Raw, as far as n.
Raws(v, g, n) == g = [k \in 0 .. n |-> IF k = 0 THEN <<>> ELSE AddRaw(g[k - 1], v[k])]

(* Some function satisfies it. *)
LEMMA RawsExist ==
  ASSUME NEW v
  PROVE  \A n \in Nat : \E g : Raws(v, g, n)
  <1> DEFINE S == {n \in Nat : \E g : Raws(v, g, n)}
  <1>1. 0 \in S
    <2> DEFINE g == [k \in 0 .. 0 |-> <<>>]
    <2>1. Raws(v, g, 0)
      BY DEF Raws
    <2> QED BY <2>1
  <1>2. ASSUME NEW n \in Nat, n \in S PROVE n + 1 \in S
    <2>1. PICK f : Raws(v, f, n)
      BY <1>2
    <2> DEFINE g == [k \in 0 .. n + 1 |-> IF k = 0 THEN <<>> ELSE AddRaw(f[k - 1], v[k])]
    <2>2. \A k \in 0 .. n : g[k] = f[k]
      BY <2>1 DEF Raws
    <2>3. ASSUME NEW k \in 0 .. n + 1 PROVE g[k] = IF k = 0 THEN <<>> ELSE AddRaw(g[k - 1], v[k])
      <3>1. CASE k = 0
        BY <3>1
      <3>2. CASE k # 0
        <4>1. k - 1 \in 0 .. n
          BY <3>2
        <4> QED BY <4>1, <2>2, <3>2
      <3> QED BY <3>1, <3>2
    <2>4. Raws(v, g, n + 1)
      BY <2>3 DEF Raws
    <2> QED BY <2>4
  <1> HIDE DEF S
  <1>3. \A n \in Nat : n \in S
    BY <1>1, <1>2, CountUp
  <1> QED BY <1>3 DEF S

(* Its values, one from the other. *)
LEMMA RawsAre ==
  ASSUME NEW v, NEW n \in Nat, NEW g, Raws(v, g, n)
  PROVE  g[0] = <<>> /\ \A k \in Nat : k + 1 <= n => g[k + 1] = AddRaw(g[k], v[k + 1])
  <1>1. g[0] = <<>>
    BY DEF Raws
  <1>2. ASSUME NEW k \in Nat, k + 1 <= n PROVE g[k + 1] = AddRaw(g[k], v[k + 1])
    <2>1. k + 1 \in 0 .. n /\ k + 1 # 0 /\ k + 1 - 1 = k
      BY <1>2
    <2> QED BY <2>1 DEF Raws
  <1> QED BY <1>1, <1>2

\* Whole arguments, each with its Nul.
Whole(raw) == raw \in Seq(Bytes) /\ (raw = <<>> \/ raw[Len(raw)] = Nul)

(* One more argument is counted where it starts, if there is anything of   *)
(* it or it is the first.                                                  *)
LEMMA StartsGrow ==
  ASSUME NEW raw, Whole(raw), NEW w \in Texts
  PROVE  /\ Whole(AddRaw(raw, w)) /\ AddRaw(raw, w) # <<>>
         /\ Starts(AddRaw(raw, w)) =
              Starts(raw) \cup (IF raw = <<>> \/ w # <<>> THEN {Len(raw) + 1} ELSE {})
  <1> DEFINE t == raw \o w \o <<Nul>>
             n == Len(raw)
             m == Len(w)
  <1>1. raw \in Seq(Bytes) /\ w \in Seq(Bytes) /\ n \in Nat /\ m \in Nat /\ Nul \notin Chars
    <2>1. Nul \notin Chars
      BY DEF Chars, Nul, Letter, Space, Quote, Slash
    <2>2. w \in Seq(Bytes)
      BY DEF Bytes, Texts
    <2> QED BY <2>1, <2>2 DEF Whole
  <1>2. <<Nul>> \in Seq(Bytes) /\ Len(<<Nul>>) = 1 /\ <<Nul>>[1] = Nul
    BY DEF Bytes
  <1>3. raw \o w \in Seq(Bytes) /\ Len(raw \o w) = n + m
    BY <1>1
  <1>4. t \in Seq(Bytes) /\ Len(t) = n + m + 1
    BY <1>1, <1>2, <1>3
  <1>5. \A i \in 1 .. n : t[i] = raw[i]
    BY <1>1, <1>2, <1>3
  <1>6. \A i \in 1 .. m : t[n + i] = w[i] /\ w[i] \in Chars
    BY <1>1, <1>2, <1>3 DEF Texts
  <1>7. t[n + m + 1] = Nul
    BY <1>1, <1>2, <1>3
  <1>8. \A i \in n + 1 .. n + m : t[i] \in Chars
    <2> TAKE i \in n + 1 .. n + m
    <2>1. i - n \in 1 .. m /\ n + (i - n) = i
      BY <1>1
    <2> QED BY <1>6, <2>1
  <1>9. n # 0 => t[n] = Nul
    <2>1. n # 0 => raw # <<>> /\ n \in 1 .. n
      BY <1>1
    <2> QED BY <1>5, <2>1 DEF Whole
  <1>10. (raw = <<>> <=> n = 0) /\ (w = <<>> <=> m = 0)
    BY <1>1
  <1> HIDE DEF t
  <1>11. Whole(t) /\ t # <<>>
    BY <1>1, <1>4, <1>7 DEF Whole
  <1>12. ASSUME NEW i \in Nat
         PROVE  i \in Starts(t) <=> i \in Starts(raw) \/ (i = n + 1 /\ (n = 0 \/ m # 0))
    <2>1. CASE i \in 1 .. n
      <3>1. i # 1 => i - 1 \in 1 .. n
        BY <1>1, <2>1
      <3> QED BY <1>1, <1>4, <1>5, <2>1, <3>1 DEF Starts
    <2>2. CASE i = n + 1
      <3>1. i \in 1 .. Len(t) /\ i - 1 = n /\ (i = 1 <=> n = 0) /\ i \notin Starts(raw)
        BY <1>1, <1>4, <2>2 DEF Starts
      <3>2. m # 0 => t[i] # Nul
        BY <1>1, <1>8, <2>2
      <3>3. m = 0 => t[i] = Nul
        BY <1>1, <1>7, <2>2
      <3> QED BY <1>9, <2>2, <3>1, <3>2, <3>3 DEF Starts
    <2>3. CASE i \in n + 2 .. n + m + 1
      <3>1. i # 1 /\ i - 1 \in n + 1 .. n + m
        BY <1>1, <2>3
      <3>2. t[i - 1] # Nul
        BY <1>1, <1>8, <3>1
      <3> QED BY <1>1, <2>3, <3>1, <3>2 DEF Starts
    <2>4. CASE i = 0 \/ i > n + m + 1
      BY <1>1, <1>4, <2>4 DEF Starts
    <2> QED BY <1>1, <2>1, <2>2, <2>3, <2>4
  <1>13. Starts(t) \subseteq Nat /\ Starts(raw) \subseteq Nat
    BY <1>1, <1>4 DEF Starts
  <1>14. Starts(t) = Starts(raw) \cup (IF raw = <<>> \/ w # <<>> THEN {n + 1} ELSE {})
    BY <1>1, <1>10, <1>12, <1>13
  <1> QED BY <1>11, <1>14 DEF t, AddRaw

\* What the count of k arguments is.
Counted(v, raw, k) ==
  /\ Whole(raw) /\ (raw = <<>> <=> k = 0) /\ IsFiniteSet(Starts(raw))
  /\ Cardinality(Starts(raw)) \in 0 .. k
  /\ (\A j \in 2 .. k : v[j] # <<>>) => Cardinality(Starts(raw)) = k

(* One argument more. *)
LEMMA CountedGrow ==
  ASSUME NEW v \in Seq(Texts), NEW k \in Nat, k + 1 <= Len(v), NEW raw, Counted(v, raw, k)
  PROVE  Counted(v, AddRaw(raw, v[k + 1]), k + 1)
  <1> DEFINE t == AddRaw(raw, v[k + 1])
             new == IF raw = <<>> \/ v[k + 1] # <<>> THEN {Len(raw) + 1} ELSE {}
  <1>1. v[k + 1] \in Texts
    OBVIOUS
  <1>2. Whole(t) /\ t # <<>> /\ Starts(t) = Starts(raw) \cup new
    BY <1>1, StartsGrow DEF Counted
  <1> HIDE DEF t
  <1>3. /\ Whole(raw) /\ (raw = <<>> <=> k = 0) /\ IsFiniteSet(Starts(raw))
        /\ Cardinality(Starts(raw)) \in 0 .. k
        /\ (\A j \in 2 .. k : v[j] # <<>>) => Cardinality(Starts(raw)) = k
    BY DEF Counted
  <1>4. Len(raw) + 1 \notin Starts(raw)
    <2>1. Len(raw) \in Nat
      BY <1>3 DEF Whole
    <2> QED BY <2>1 DEF Starts
  <1>5. CASE raw = <<>> \/ v[k + 1] # <<>>
    <2>1. Starts(t) = Starts(raw) \cup {Len(raw) + 1}
      BY <1>2, <1>5
    <2>2. IsFiniteSet(Starts(t)) /\ Cardinality(Starts(t)) = Cardinality(Starts(raw)) + 1
      <3>1. ASSUME NEW X, NEW x, IsFiniteSet(X), x \notin X
            PROVE  IsFiniteSet(X \cup {x}) /\ Cardinality(X \cup {x}) = Cardinality(X) + 1
        BY <3>1, FS_AddElement
      <3> QED BY <1>3, <1>4, <2>1, <3>1
    <2>3. (\A j \in 2 .. k + 1 : v[j] # <<>>) => \A j \in 2 .. k : v[j] # <<>>
      OBVIOUS
    <2>4. Counted(v, t, k + 1)
      BY <1>2, <1>3, <2>2, <2>3 DEF Counted
    <2> QED BY <2>4 DEF t
  <1>6. CASE ~(raw = <<>> \/ v[k + 1] # <<>>)
    <2>1. Starts(t) = Starts(raw)
      BY <1>2, <1>6
    <2>2. k # 0 /\ k + 1 \in 2 .. k + 1 /\ v[k + 1] = <<>>
      BY <1>3, <1>6
    <2>3. ~(\A j \in 2 .. k + 1 : v[j] # <<>>) /\ Cardinality(Starts(raw)) \in 0 .. k + 1
      BY <1>3, <2>2
    <2>4. t = <<>> <=> k + 1 = 0
      BY <1>2
    <2>5. Counted(v, t, k + 1)
      BY <1>2, <1>3, <2>1, <2>3, <2>4, Zenon DEF Counted
    <2> QED BY <2>5 DEF t
  <1> QED BY <1>5, <1>6

(* build_argv counts no more arguments than there are, and all of them     *)
(* unless one is empty.                                                    *)
LEMMA RawCount ==
  ASSUME NEW v \in Seq(Texts)
  PROVE  /\ Cardinality(Starts(Raw(v))) \in 0 .. Len(v)
         /\ (\A k \in 2 .. Len(v) : v[k] # <<>>) => Cardinality(Starts(Raw(v))) = Len(v)
  <1>1. Raw(v) = (CHOOSE g : Raws(v, g, Len(v)))[Len(v)]
    BY DEF Raw, Raws, AddRaw
  <1>2. PICK g : g = (CHOOSE x : Raws(v, x, Len(v))) /\ Raws(v, g, Len(v))
    <2>1. Len(v) \in Nat
      BY LenProperties
    <2>2. \E x : Raws(v, x, Len(v))
      BY <2>1, RawsExist
    <2> QED BY <2>2
  <1>3. g[0] = <<>> /\ \A k \in Nat : k + 1 <= Len(v) => g[k + 1] = AddRaw(g[k], v[k + 1])
    BY <1>2, LenProperties, RawsAre
  <1> DEFINE S == {k \in Nat : k <= Len(v) => Counted(v, g[k], k)}
  <1>4. 0 \in S
    <2>1. Starts(<<>>) = {} /\ Whole(<<>>)
      BY DEF Starts, Whole
    <2>2. IsFiniteSet(Starts(<<>>)) /\ Cardinality(Starts(<<>>)) = 0
      BY <2>1, FS_EmptySet
    <2>3. Counted(v, <<>>, 0)
      BY <2>1, <2>2 DEF Counted
    <2> QED BY <1>3, <2>3
  <1>5. ASSUME NEW k \in Nat, k \in S PROVE k + 1 \in S
    <2> SUFFICES ASSUME k + 1 <= Len(v) PROVE Counted(v, g[k + 1], k + 1)
      OBVIOUS
    <2>1. k <= Len(v)
      OBVIOUS
    <2>2. Counted(v, g[k], k)
      BY <1>5, <2>1
    <2>3. Counted(v, AddRaw(g[k], v[k + 1]), k + 1)
      BY <2>2, CountedGrow
    <2> QED BY <1>3, <2>3
  <1> HIDE DEF S
  <1>6. Len(v) \in S
    BY <1>4, <1>5, CountUp
  <1>7. Counted(v, g[Len(v)], Len(v))
    BY <1>6 DEF S
  <1>8. Raw(v) = g[Len(v)]
    BY <1>1, <1>2
  <1> QED BY <1>7, <1>8 DEF Counted

\* The vector is counted, and in a converted program it is the first arguments.
ArgsInv ==
  /\ argv \in Seq(Texts)
  /\ mainArgc = Len(mainArgv)
  /\ mode = "direct" => env = <<>>
  /\ phase \in {"main", "reload"} => mode = "load"
  /\ phase = "ready" /\ mode = "direct" =>
       /\ mainArgc \in 0 .. Len(argv) /\ mainArgv = SubSeq(argv, 1, mainArgc)
       /\ mainArgc # 0 /\ (\A k \in 2 .. Len(argv) : argv[k] # <<>>) => mainArgc = Len(argv)

(* What build_argv leaves. *)
LEMMA BuildArgvIs ==
  ASSUME ArgsInv, NEW override, BuildArgv(override)
  PROVE  /\ mainArgc' = Len(mainArgv')
         /\ override = <<>> =>
              /\ mainArgc' \in 0 .. Len(argv) /\ mainArgv' = SubSeq(argv, 1, mainArgc')
              /\ mainArgc' # 0 /\ (\A k \in 2 .. Len(argv) : argv[k] # <<>>) => mainArgc' = Len(argv)
  <1>1. argv \in Seq(Texts) /\ Len(argv) \in Nat
    BY LenProperties DEF ArgsInv
  <1>2. CASE mainArgv' = <<>> /\ mainArgc' = 0
    <2>1. SubSeq(argv, 1, 0) = <<>>
      BY <1>1
    <2> QED BY <1>1, <1>2, <2>1
  <1>3. CASE ~(mainArgv' = <<>> /\ mainArgc' = 0) /\ override # <<>>
    BY <1>3 DEF BuildArgv
  <1>4. CASE ~(mainArgv' = <<>> /\ mainArgc' = 0) /\ override = <<>>
    <2>1. PICK n : n = Cardinality(Starts(Raw(argv)))
      OBVIOUS
    <2>2. n \in 0 .. Len(argv) /\ ((\A k \in 2 .. Len(argv) : argv[k] # <<>>) => n = Len(argv))
      BY <1>1, <2>1, RawCount
    <2>3. mainArgv' = SubSeq(argv, 1, IF n < Len(argv) THEN n ELSE Len(argv)) /\ mainArgc' = n
      BY <1>4, <2>1 DEF BuildArgv
    <2>4. (IF n < Len(argv) THEN n ELSE Len(argv)) = n
      BY <1>1, <2>2
    <2>5. Len(SubSeq(argv, 1, n)) = n
      BY <1>1, <2>2
    <2> QED BY <2>2, <2>3, <2>4, <2>5
  <1> QED BY <1>2, <1>3, <1>4

(* The vector __getmainargs hands out has g_main_argc entries.  In a       *)
(* converted program they are the first arguments of the process, and all  *)
(* of them unless one is empty.                                            *)
THEOREM MainArgsPrefixHolds == StartupSpec => []MainArgsPrefix
  <1>1. StartupInit => ArgsInv
    BY ArgvAssumption DEF StartupInit, Init, ArgsInv, Texts
  <1>2. ArgsInv /\ [StartupNext]_startupVars => ArgsInv'
    <2> SUFFICES ASSUME ArgsInv, [StartupNext]_startupVars PROVE ArgsInv'
      OBVIOUS
    <2>1. CASE ShimInit \/ ShimReloadCmdline
      <3>1. UNCHANGED <<argv, mode, env>> /\ BuildArgv(env) /\ phase' \in {"main", "ready"}
        BY <2>1 DEF ShimInit, ShimReloadCmdline
      <3>2. phase' = "main" => mode = "load"
        BY <2>1 DEF ShimInit, ShimReloadCmdline
      <3>3. mainArgc' = Len(mainArgv')
        BY <3>1, BuildArgvIs
      <3>4. mode = "direct" => env = <<>>
        BY DEF ArgsInv
      <3>5. mode = "direct" =>
              /\ mainArgc' \in 0 .. Len(argv) /\ mainArgv' = SubSeq(argv, 1, mainArgc')
              /\ mainArgc' # 0 /\ (\A k \in 2 .. Len(argv) : argv[k] # <<>>) => mainArgc' = Len(argv)
        BY <3>1, <3>4, BuildArgvIs
      <3> QED BY <3>1, <3>2, <3>3, <3>5 DEF ArgsInv
    <2>2. CASE LoadMain
      BY <2>2 DEF LoadMain, ArgsInv
    <2>3. CASE \E line \in Lines : SplitLine(line)
      BY <2>3 DEF SplitLine, ArgsInv
    <2>4. CASE UNCHANGED vars
      BY <2>4 DEF vars, ArgsInv
    <2> QED BY <2>1, <2>2, <2>3, <2>4 DEF StartupNext, startupVars, Next
  <1>3. ArgsInv => MainArgsPrefix
    <2> SUFFICES ASSUME ArgsInv PROVE MainArgsPrefix
      OBVIOUS
    <2>1. Len(argv) \in Nat
      BY LenProperties DEF ArgsInv
    <2> QED BY <2>1 DEF ArgsInv, MainArgsPrefix
  <1> QED BY <1>1, <1>2, <1>3, PTL DEF StartupSpec

-----------------------------------------------------------------------------
(* The environment.  What is lent is one of the two blocks there are, and  *)
(* those are as old as the last change of environ.                         *)

Environs == UNION {[1 .. n -> Variables] : n \in 0 .. MaxEnviron}

EnvType ==
  /\ environ \in Environs
  /\ blockA \in BlocksA \cup {Null} /\ blockW \in BlocksW \cup {Null}
  /\ held \in [Blocks -> Nat] /\ DOMAIN heap = Blocks

EnvInv ==
  /\ EnvType
  /\ ~doubled
  /\ blockA = Null <=> blockW = Null
  /\ \A b \in Blocks : held[b] > 0 => b \in {blockA, blockW}
  /\ \A b \in {blockA, blockW} \ {Null} : heap[b] = environ

(* An environment is a sequence, and not Null. *)
LEMMA EnvironFacts ==
  /\ \A e \in Environs : e # Null /\ e \in Seq(Variables) /\ Len(e) <= MaxEnviron
  /\ \A e \in Seq(Variables) : Len(e) <= MaxEnviron => e \in Environs
  <1>1. ASSUME NEW e \in Environs PROVE e # Null /\ e \in Seq(Variables) /\ Len(e) <= MaxEnviron
    <2>1. PICK n \in 0 .. MaxEnviron : e \in [1 .. n -> Variables]
      BY DEF Environs
    <2>2. e # Null
      BY <2>1, EnvAssumption
    <2>3. n \in Nat /\ n <= MaxEnviron
      BY EnvAssumption
    <2> QED BY <2>1, <2>2, <2>3
  <1>2. ASSUME NEW e \in Seq(Variables), Len(e) <= MaxEnviron PROVE e \in Environs
    <2>1. Len(e) \in 0 .. MaxEnviron /\ e \in [1 .. Len(e) -> Variables]
      BY <1>2, EnvAssumption
    <2> QED BY <2>1 DEF Environs
  <1> QED BY <1>1, <1>2

(* The initial state satisfies the invariant. *)
LEMMA EnvInvInit == StartupInit => EnvInv
  <1> SUFFICES ASSUME EnvInit PROVE EnvInv
    BY DEF StartupInit
  <1>1. environ \in Environs
    <2>1. environ \in Seq(Variables) /\ Len(environ) <= 1
      <3>1. environ = <<>> \/ \E e \in Variables : environ = <<e>>
        BY DEF EnvInit, Variables
      <3>2. <<>> \in Seq(Variables) /\ Len(<<>>) <= 1
        OBVIOUS
      <3>3. ASSUME NEW e \in Variables PROVE <<e>> \in Seq(Variables) /\ Len(<<e>>) <= 1
        OBVIOUS
      <3> QED BY <3>1, <3>2, <3>3
    <2> QED BY <2>1, EnvironFacts, EnvAssumption
  <1> QED BY <1>1 DEF EnvInit, EnvInv, EnvType

(* setenv and unsetenv leave sequences of variables. *)
LEMMA SetenvIs ==
  ASSUME EnvType, NEW n \in Names
  PROVE  Unsetenv(n) \in Seq(Variables) /\ \A v \in Values : Setenv(n, v) \in Seq(Variables)
  <1>1. environ \in Seq(Variables)
    BY EnvironFacts DEF EnvType
  <1>2. Unsetenv(n) \in Seq(Variables)
    <2> DEFINE at == {i \in 1 .. Len(environ) : environ[i].name = n}
    <2>1. CASE at = {}
      BY <1>1, <2>1 DEF Unsetenv
    <2>2. CASE at # {}
      <3>1. PICK i \in at : Unsetenv(n) = RemoveAt(environ, i)
        BY <2>2 DEF Unsetenv
      <3>2. i \in 1 .. Len(environ)
        OBVIOUS
      <3>3. SubSeq(environ, 1, i - 1) \in Seq(Variables) /\ SubSeq(environ, i + 1, Len(environ)) \in Seq(Variables)
        BY <1>1, <3>2
      <3> QED BY <3>1, <3>3 DEF RemoveAt
    <2> QED BY <2>1, <2>2
  <1>3. ASSUME NEW v \in Values PROVE Setenv(n, v) \in Seq(Variables)
    <2>1. [name |-> n, value |-> v] \in Variables
      BY DEF Variables
    <2>2. CASE \E i \in 1 .. Len(environ) : environ[i].name = n
      <3>1. Setenv(n, v) = [i \in 1 .. Len(environ) |-> IF environ[i].name = n THEN [name |-> n, value |-> v] ELSE environ[i]]
        BY <2>2 DEF Setenv
      <3>2. Setenv(n, v) \in [1 .. Len(environ) -> Variables] /\ Len(environ) \in Nat
        BY <1>1, <2>1, <3>1
      <3> QED BY <3>2
    <2>3. CASE ~ \E i \in 1 .. Len(environ) : environ[i].name = n
      BY <1>1, <2>1, <2>3 DEF Setenv
    <2> QED BY <2>2, <2>3
  <1> QED BY <1>2, <1>3

(* A change of environ: by SetEnvironmentVariableW while nothing is lent,  *)
(* by SetEnvironmentVariableA while there is nothing to lend.              *)
LEMMA EnvInvSet ==
  ASSUME EnvInv, ~HeldOver, ~AnsiLate, NEW new \in Seq(Variables),
         SetEnvironmentVariableW(new) \/ SetEnvironmentVariableA(new)
  PROVE  EnvInv'
  <1>1. environ' \in Environs
    BY EnvironFacts DEF EnvInv, EnvType, SetEnvironmentVariableW, SetEnvironmentVariableA, MaySetenv
  <1>2. CASE SetEnvironmentVariableW(new)
    <2>1. \A b \in Blocks : held[b] = 0
      BY <1>2 DEF SetEnvironmentVariableW, MaySetenv
    <2>2. doubled' = FALSE
      <3>1. \A b \in Freed : heap[b] # Null
        BY EnvironFacts DEF Freed, EnvInv, EnvType
      <3> QED BY <1>2, <3>1 DEF SetEnvironmentVariableW, EnvInv
    <2>3. held' = held /\ blockA' = Null /\ blockW' = Null /\ DOMAIN heap' = Blocks
      BY <1>2 DEF SetEnvironmentVariableW
    <2> QED BY <1>1, <2>1, <2>2, <2>3 DEF EnvInv, EnvType
  <1>3. CASE SetEnvironmentVariableA(new)
    <2>1. blockW = Null /\ blockA = Null /\ UNCHANGED <<blockA, blockW, heap, held, doubled>>
      BY <1>3 DEF SetEnvironmentVariableA, MaySetenv, EnvInv
    <2> QED BY <1>1, <2>1 DEF EnvInv, EnvType
  <1> QED BY <1>2, <1>3

(* What is lent is what is there, or was made for it. *)
LEMMA EnvInvGet ==
  ASSUME EnvInv, NEW wide \in BOOLEAN, GetEnvironmentStrings(wide)
  PROVE  EnvInv'
  <1>1. UNCHANGED <<environ, doubled>>
    BY DEF GetEnvironmentStrings
  <1>2. /\ blockA' \in BlocksA \cup {Null} /\ blockW' \in BlocksW \cup {Null} /\ DOMAIN heap' = Blocks
        /\ blockA' = Null <=> blockW' = Null
        /\ \A b \in {blockA', blockW'} \ {Null} : heap'[b] = environ
        /\ blockA # Null => UNCHANGED <<heap, blockA, blockW>>
    <2>1. CASE UNCHANGED <<heap, blockA, blockW>>
      BY <2>1 DEF EnvInv, EnvType
    <2>2. CASE ~UNCHANGED <<heap, blockA, blockW>>
      <3>1. blockA = Null /\ blockW = Null
        BY <2>2 DEF GetEnvironmentStrings, EnvInv
      <3>2. PICK x \in BlocksA, w \in BlocksW :
              heap' = [heap EXCEPT ![x] = environ, ![w] = environ] /\ blockA' = x /\ blockW' = w
        BY <2>2 DEF GetEnvironmentStrings, BuildEnvBlock
      <3>3. x \in DOMAIN heap /\ w \in DOMAIN heap /\ x # w /\ x # Null /\ w # Null
        BY EnvAssumption DEF Blocks, EnvInv, EnvType
      <3>4. heap'[x] = environ /\ heap'[w] = environ
        BY <3>2, <3>3
      <3> QED BY <3>1, <3>2, <3>3, <3>4 DEF EnvInv, EnvType
    <2> QED BY <2>1, <2>2
  <1>3. held' \in [Blocks -> Nat] /\ \A b \in Blocks : held'[b] > 0 => b \in {blockA', blockW'}
    <2>1. \A b \in Blocks : held[b] > 0 => b \in {blockA', blockW'}
      BY <1>2, EnvAssumption DEF EnvInv, EnvType
    <2>2. held' = held \/ \E p \in {blockA', blockW'} : p # Null /\ held' = [held EXCEPT ![p] = @ + 1]
      BY DEF GetEnvironmentStrings
    <2>3. held \in [Blocks -> Nat]
      BY DEF EnvInv, EnvType
    <2>4. CASE held' = held
      BY <2>1, <2>3, <2>4
    <2>5. CASE \E p \in {blockA', blockW'} : p # Null /\ held' = [held EXCEPT ![p] = @ + 1]
      <3>1. PICK p \in {blockA', blockW'} : p # Null /\ held' = [held EXCEPT ![p] = @ + 1]
        BY <2>5
      <3>2. p \in Blocks
        BY <1>2, <3>1 DEF Blocks
      <3> QED BY <2>1, <2>3, <3>1, <3>2
    <2> QED BY <2>2, <2>4, <2>5
  <1> QED BY <1>1, <1>2, <1>3 DEF EnvInv, EnvType

(* What is given back is one of the two blocks, and stays. *)
LEMMA EnvInvFree ==
  ASSUME EnvInv, NEW p \in Blocks, FreeEnvironmentStrings(p)
  PROVE  EnvInv'
  <1>1. Lent(p) /\ held[p] > 0 /\ held' = [held EXCEPT ![p] = @ - 1]
    BY DEF FreeEnvironmentStrings, Lent, EnvInv
  <1>2. UNCHANGED <<environ, blockA, blockW, heap>>
    BY <1>1 DEF FreeEnvironmentStrings
  <1>4. ~doubled'
    BY <1>1, Zenon DEF FreeEnvironmentStrings, EnvInv
  <1>3. held' \in [Blocks -> Nat] /\ \A b \in Blocks : held'[b] > 0 => held[b] > 0
    BY <1>1 DEF EnvInv, EnvType
  <1> QED BY <1>2, <1>3, <1>4 DEF EnvInv, EnvType

(* A block that the program has been lent and has not given back is        *)
(* allocated, the two blocks are both there or neither, with the           *)
(* environment of now, and none is freed twice, if the program sets no     *)
(* variable while it holds a block, and none with the ANSI function while  *)
(* there is one.                                                           *)
THEOREM EnvBlocksSoundHolds == ~HeldOver /\ ~AnsiLate /\ StartupSpec => []EnvBlocksSound
  <1> SUFFICES ASSUME ~HeldOver, ~AnsiLate PROVE StartupSpec => []EnvBlocksSound
    OBVIOUS
  <1>1. EnvInv /\ [StartupNext]_startupVars => EnvInv'
    <2> SUFFICES ASSUME EnvInv, [StartupNext]_startupVars PROVE EnvInv'
      OBVIOUS
    <2>1. CASE EnvNext
      <3>1. EnvType
        BY DEF EnvInv
      <3> QED BY <2>1, <3>1, SetenvIs, EnvInvSet, EnvInvGet, EnvInvFree DEF EnvNext
    <2>2. CASE UNCHANGED envVars
      BY <2>2 DEF envVars, EnvInv, EnvType
    <2> QED BY <2>1, <2>2 DEF StartupNext, startupVars
  <1>2. EnvInv => EnvBlocksSound
    <2> SUFFICES ASSUME EnvInv PROVE EnvBlocksSound
      OBVIOUS
    <2>1. environ # Null /\ \A b \in Blocks : b # Null
      BY EnvironFacts, EnvAssumption DEF EnvInv, EnvType
    <2>2. \A b \in Blocks : held[b] > 0 => heap[b] # Null
      BY <2>1 DEF EnvInv
    <2> QED BY <2>2 DEF EnvInv, EnvBlocksSound
  <1> QED BY <1>1, <1>2, EnvInvInit, PTL DEF StartupSpec

-----------------------------------------------------------------------------
(* The command line that rebuild_cmdline writes.  Lines grow: *)

\* x is the beginning of y.
Begins(x, y) ==
  x \in Texts /\ y \in Texts /\ Len(x) <= Len(y) /\ \A i \in 1 .. Len(x) : y[i] = x[i]

(* Beginnings of beginnings. *)
LEMMA BeginsOn ==
  ASSUME NEW x, NEW y, NEW z, Begins(x, y), Begins(y, z)
  PROVE  Begins(x, z)
  <1>1. Len(x) \in Nat /\ Len(y) \in Nat /\ Len(z) \in Nat /\ Len(x) <= Len(y) /\ Len(y) <= Len(z)
    BY TextLen DEF Begins
  <1>2. \A i \in 1 .. Len(x) : i \in 1 .. Len(y)
    BY <1>1
  <1> QED BY <1>1, <1>2 DEF Begins

(* A text begins with itself. *)
LEMMA BeginsSelf == ASSUME NEW x \in Texts PROVE Begins(x, x)
  <1>1. Len(x) \in Nat
    BY TextLen
  <1> QED BY <1>1 DEF Begins

(* The characters of two texts, one after the other. *)
LEMMA TextAt ==
  ASSUME NEW t \in Texts, NEW u \in Texts
  PROVE  /\ \A i \in 1 .. Len(t) : (t \o u)[i] = t[i]
         /\ \A i \in 1 .. Len(u) : (t \o u)[Len(t) + i] = u[i]
  BY DEF Texts

(* A text of one character. *)
LEMMA TextOne ==
  ASSUME NEW c \in Chars
  PROVE  <<c>> \in Texts /\ Len(<<c>>) = 1 /\ <<c>>[1] = c
  BY DEF Texts

(* Texts are equal by their characters. *)
LEMMA TextEqual ==
  ASSUME NEW t \in Texts, NEW u \in Texts, Len(t) = Len(u), \A i \in 1 .. Len(t) : t[i] = u[i]
  PROVE  t = u
  BY SeqEqual DEF Texts

(* The room that is left bounds the line; a line below it has everything. *)
LEMMA PutIs ==
  ASSUME NEW out \in Texts, Len(out) <= Cap, NEW w \in Texts
  PROVE  /\ Begins(out, Put(out, w)) /\ Len(Put(out, w)) <= Cap
         /\ Len(Put(out, w)) < Cap => Put(out, w) = out \o w
  <1>1. Cap \in Nat /\ Len(out) \in Nat /\ Len(w) \in Nat
    BY ArgvAssumption, TextLen
  <1>2. out \o w \in Texts /\ Len(out \o w) = Len(out) + Len(w)
    BY TextConcat
  <1>3. \A i \in 1 .. Len(out) : (out \o w)[i] = out[i]
    BY TextAt
  <1>4. PICK m \in Nat : m = IF Len(out) + Len(w) < Cap THEN Len(out) + Len(w) ELSE Cap
    BY <1>1
  <1>5. PICK t : t = out \o w
    OBVIOUS
  <1>6. Put(out, w) = SubSeq(t, 1, m)
    BY <1>4, <1>5 DEF Put
  <1>7. m <= Len(t) /\ Len(out) <= m /\ m <= Cap
    BY <1>1, <1>2, <1>4, <1>5
  <1>8. SubSeq(t, 1, m) \in Texts /\ Len(SubSeq(t, 1, m)) = m /\ \A i \in 1 .. m : SubSeq(t, 1, m)[i] = t[i]
    <2>1. t \in Seq(Chars) /\ Len(t) \in Nat
      BY <1>2, <1>5, TextLen
    <2>2. CASE m = 0
      BY <2>1, <2>2 DEF Texts
    <2>3. CASE m # 0
      BY <1>7, <2>1, <2>3 DEF Texts
    <2> QED BY <2>2, <2>3
  <1>9. Begins(out, Put(out, w)) /\ Len(Put(out, w)) <= Cap
    <2>1. \A i \in 1 .. Len(out) : i \in 1 .. m
      BY <1>1, <1>7
    <2> QED BY <1>1, <1>3, <1>5, <1>6, <1>7, <1>8, <2>1 DEF Begins
  <1>10. ASSUME Len(Put(out, w)) < Cap PROVE Put(out, w) = out \o w
    <2>1. m = Len(t)
      BY <1>1, <1>2, <1>4, <1>5, <1>6, <1>8, <1>10
    <2>2. t \in Texts
      BY <1>2, <1>5
    <2>3. SubSeq(t, 1, m) = t
      BY <1>8, <2>1, <2>2, TextEqual
    <2> QED BY <1>5, <1>6, <2>3
  <1> QED BY <1>9, <1>10

(* The same, of a line that is the beginning of one that had room. *)
LEMMA PutInto ==
  ASSUME NEW out \in Texts, Len(out) <= Cap, NEW w \in Texts, NEW all, Begins(Put(out, w), all), Len(all) < Cap
  PROVE  Put(out, w) = out \o w
  <1>1. Cap \in Nat /\ Len(all) \in Nat /\ Len(Put(out, w)) <= Len(all) /\ Len(Put(out, w)) \in Nat
    BY ArgvAssumption, TextLen DEF Begins
  <1> QED BY <1>1, PutIs

\* The recursion of AddArg, as far as n.
Adds(first, a, start, g, n) ==
  g = [i \in 0 .. n |-> IF i = 0 THEN [out |-> start, bs |-> 0] ELSE AddChar(first, a[i], g[i - 1])]

(* Some function satisfies it. *)
LEMMA AddsExist ==
  ASSUME NEW first, NEW a, NEW start
  PROVE  \A n \in Nat : \E g : Adds(first, a, start, g, n)
  <1> DEFINE S == {n \in Nat : \E g : Adds(first, a, start, g, n)}
  <1>1. 0 \in S
    <2> DEFINE g == [k \in 0 .. 0 |-> [out |-> start, bs |-> 0]]
    <2>1. Adds(first, a, start, g, 0)
      BY DEF Adds
    <2> QED BY <2>1
  <1>2. ASSUME NEW n \in Nat, n \in S PROVE n + 1 \in S
    <2>1. PICK f : Adds(first, a, start, f, n)
      BY <1>2
    <2> DEFINE g == [k \in 0 .. n + 1 |-> IF k = 0 THEN [out |-> start, bs |-> 0] ELSE AddChar(first, a[k], f[k - 1])]
    <2>2. \A k \in 0 .. n : g[k] = f[k]
      BY <2>1 DEF Adds
    <2>3. ASSUME NEW k \in 0 .. n + 1
          PROVE  g[k] = IF k = 0 THEN [out |-> start, bs |-> 0] ELSE AddChar(first, a[k], g[k - 1])
      <3>1. CASE k = 0
        BY <3>1
      <3>2. CASE k # 0
        <4>1. k - 1 \in 0 .. n
          BY <3>2
        <4> QED BY <4>1, <2>2, <3>2
      <3> QED BY <3>1, <3>2
    <2>4. Adds(first, a, start, g, n + 1)
      BY <2>3 DEF Adds
    <2> QED BY <2>4
  <1> HIDE DEF S
  <1>3. \A n \in Nat : n \in S
    BY <1>1, <1>2, CountUp
  <1> QED BY <1>3 DEF S

\* The line before the characters of an argument.
AddStart(line, first, a) ==
  Put(Put(line, IF first THEN <<>> ELSE <<Space>>), IF Quoted(first, a) THEN <<Quote>> ELSE <<>>)

\* Its values, one from the other, and what AddArg makes of the last.
AddScan(line, first, a, g) ==
  /\ g[0] = [out |-> AddStart(line, first, a), bs |-> 0]
  /\ \A i \in Nat : i + 1 <= Len(a) => g[i + 1] = AddChar(first, a[i + 1], g[i])
  /\ AddArg(line, first, a) =
       IF Quoted(first, a) THEN Put(g[Len(a)].out, Closing(first, g[Len(a)].bs)) ELSE g[Len(a)].out

(* There are such values. *)
LEMMA AddArgScan ==
  ASSUME NEW line, NEW first, NEW a \in Texts
  PROVE  \E g : AddScan(line, first, a, g)
  <1>1. PICK n \in Nat : n = Len(a)
    BY TextLen
  <1>0. PICK start : start = AddStart(line, first, a)
    OBVIOUS
  <1>2. PICK g : g = (CHOOSE x : Adds(first, a, start, x, n)) /\ Adds(first, a, start, g, n)
    <2>1. \E x : Adds(first, a, start, x, n)
      BY AddsExist
    <2> QED BY <2>1
  <1>3. g[0] = [out |-> start, bs |-> 0] /\ \A i \in 1 .. n : g[i] = AddChar(first, a[i], g[i - 1])
    <2>1. 0 \in 0 .. n /\ \A i \in 1 .. n : i \in 0 .. n /\ i # 0
      OBVIOUS
    <2> QED BY <1>2, <2>1, Zenon DEF Adds
  <1>4. ASSUME NEW i \in Nat, i + 1 <= n PROVE g[i + 1] = AddChar(first, a[i + 1], g[i])
    <2>1. i + 1 \in 1 .. n /\ i + 1 - 1 = i
      BY <1>4
    <2> QED BY <1>3, <2>1
  <1>5. AddArg(line, first, a) =
          LET f == CHOOSE x : Adds(first, a, AddStart(line, first, a), x, Len(a))
              e == f[Len(a)]
          IN  IF Quoted(first, a) THEN Put(e.out, Closing(first, e.bs)) ELSE e.out
    BY DEF AddArg, Adds, AddStart
  <1>6. AddArg(line, first, a) =
          IF Quoted(first, a) THEN Put(g[n].out, Closing(first, g[n].bs)) ELSE g[n].out
    BY <1>0, <1>1, <1>2, <1>5, Zenon
  <1>7. AddScan(line, first, a, g)
    BY <1>0, <1>1, <1>3, <1>4, <1>6, Zenon DEF AddScan
  <1> QED BY <1>7

\* A state of the scan of an argument.
Adding(s) == s.out \in Texts /\ Len(s.out) <= Cap /\ s.bs \in Nat

(* The backslashes that go before quotes. *)
LEMMA EscapedIs ==
  ASSUME NEW n \in Nat
  PROVE  Escaped(n) = Repeat(Slash, n + 1) /\ Escaped(n) \in Texts /\ Len(Escaped(n)) = n + 1
  <1>1. n + 1 \in Nat
    OBVIOUS
  <1> QED BY <1>1, TextRepeat DEF Escaped

(* The end of a quoted argument. *)
LEMMA ClosingIs ==
  ASSUME NEW first, NEW n \in Nat
  PROVE  /\ Closing(first, n) \in Texts
         /\ first => Closing(first, n) = <<Quote>>
         /\ ~first => Closing(first, n) = Repeat(Slash, n) \o <<Quote>>
  <1>1. <<Quote>> \in Texts /\ <<>> \in Texts /\ Repeat(Slash, n) \in Texts
    BY TextOne, TextNone, TextRepeat DEF Chars
  <1>2. <<>> \o <<Quote>> = <<Quote>>
    BY <1>1, ConcatEmptySeq DEF Texts
  <1> QED BY <1>1, <1>2, TextConcat DEF Closing

(* A character makes the line longer. *)
LEMMA AddCharGrows ==
  ASSUME NEW first, NEW c \in Chars, NEW s, Adding(s)
  PROVE  Adding(AddChar(first, c, s)) /\ Begins(s.out, AddChar(first, c, s).out)
  <1>1. s.out \in Texts /\ Len(s.out) <= Cap /\ s.bs \in Nat
    BY DEF Adding
  <1>2. <<c>> \in Texts /\ <<Quote>> \in Texts
    BY TextOne DEF Chars
  <1>3. CASE ~first /\ c = Quote
    <2>1. PICK x : x = Put(s.out, Escaped(s.bs))
      OBVIOUS
    <2>2. Begins(s.out, x) /\ Len(x) <= Cap /\ x \in Texts
      BY <1>1, <2>1, EscapedIs, PutIs DEF Begins
    <2>3. PICK y : y = Put(x, <<Quote>>)
      OBVIOUS
    <2>4. Begins(x, y) /\ Len(y) <= Cap /\ y \in Texts
      BY <1>2, <2>2, <2>3, PutIs DEF Begins
    <2>5. Begins(s.out, y)
      BY <2>2, <2>4, BeginsOn
    <2>6. AddChar(first, c, s) = [out |-> y, bs |-> 0]
      BY <1>3, <2>1, <2>3 DEF AddChar
    <2> QED BY <2>4, <2>5, <2>6 DEF Adding
  <1>4. CASE ~(~first /\ c = Quote)
    <2>1. PICK y : y = Put(s.out, <<c>>)
      OBVIOUS
    <2>2. Begins(s.out, y) /\ Len(y) <= Cap /\ y \in Texts
      BY <1>1, <1>2, <2>1, PutIs DEF Begins
    <2>3. PICK n \in Nat : n = IF c = Slash THEN s.bs + 1 ELSE 0
      BY <1>1
    <2>4. AddChar(first, c, s) = [out |-> y, bs |-> n]
      BY <1>4, <2>1, <2>3 DEF AddChar
    <2> QED BY <2>2, <2>4 DEF Adding
  <1> QED BY <1>3, <1>4

\* What a character adds to a line that has room.
Added(first, c, s, t) ==
  IF ~first /\ c = Quote
  THEN t.out = (s.out \o Repeat(Slash, s.bs + 1)) \o <<Quote>> /\ t.bs = 0
  ELSE t.out = s.out \o <<c>> /\ t.bs = IF c = Slash THEN s.bs + 1 ELSE 0

(* That is what it adds. *)
LEMMA AddCharIs ==
  ASSUME NEW first, NEW c \in Chars, NEW s, Adding(s), NEW all, Begins(AddChar(first, c, s).out, all), Len(all) < Cap
  PROVE  Added(first, c, s, AddChar(first, c, s))
  <1>1. s.out \in Texts /\ Len(s.out) <= Cap /\ s.bs \in Nat
    BY DEF Adding
  <1>2. <<c>> \in Texts /\ <<Quote>> \in Texts
    BY TextOne DEF Chars
  <1>3. CASE ~first /\ c = Quote
    <2>1. PICK x : x = Put(s.out, Escaped(s.bs))
      OBVIOUS
    <2>2. Len(x) <= Cap /\ x \in Texts
      BY <1>1, <2>1, EscapedIs, PutIs DEF Begins
    <2>3. PICK y : y = Put(x, <<Quote>>)
      OBVIOUS
    <2>4. AddChar(first, c, s) = [out |-> y, bs |-> 0]
      BY <1>3, <2>1, <2>3 DEF AddChar
    <2>5. Begins(x, y)
      BY <1>2, <2>2, <2>3, PutIs
    <2>6. Begins(y, all)
      BY <2>4
    <2>7. y = x \o <<Quote>>
      BY <1>2, <2>2, <2>3, <2>6, PutInto
    <2>8. Begins(x, all)
      BY <2>5, <2>6, BeginsOn
    <2>9. x = s.out \o Repeat(Slash, s.bs + 1)
      BY <1>1, <2>1, <2>8, EscapedIs, PutInto
    <2>10. AddChar(first, c, s).out = y /\ AddChar(first, c, s).bs = 0
      BY <2>4
    <2> QED BY <1>3, <2>7, <2>9, <2>10, Zenon DEF Added
  <1>4. CASE ~(~first /\ c = Quote)
    <2>1. PICK y : y = Put(s.out, <<c>>)
      OBVIOUS
    <2>2. PICK n \in Nat : n = IF c = Slash THEN s.bs + 1 ELSE 0
      BY <1>1
    <2>3. AddChar(first, c, s) = [out |-> y, bs |-> n]
      BY <1>4, <2>1, <2>2 DEF AddChar
    <2>4. AddChar(first, c, s).out = y /\ AddChar(first, c, s).bs = n
      BY <2>3
    <2>5. Begins(y, all)
      BY <2>4
    <2>6. y = s.out \o <<c>>
      BY <1>1, <1>2, <2>1, <2>5, PutInto
    <2> QED BY <1>4, <2>2, <2>4, <2>6, Zenon DEF Added
  <1> QED BY <1>3, <1>4

(* What goes before the characters of an argument. *)
LEMMA AddStartGrows ==
  ASSUME NEW line \in Texts, Len(line) <= Cap, NEW first, NEW a
  PROVE  Begins(line, AddStart(line, first, a)) /\ Len(AddStart(line, first, a)) <= Cap
  <1>1. PICK u \in Texts : u = IF first THEN <<>> ELSE <<Space>>
    BY TextNone, TextOne DEF Chars
  <1>2. PICK w \in Texts : w = IF Quoted(first, a) THEN <<Quote>> ELSE <<>>
    BY TextNone, TextOne DEF Chars
  <1>3. PICK x : x = Put(line, u)
    OBVIOUS
  <1>4. PICK y : y = Put(x, w)
    OBVIOUS
  <1>5. AddStart(line, first, a) = y
    BY <1>1, <1>2, <1>3, <1>4 DEF AddStart
  <1>6. Begins(line, x) /\ Len(x) <= Cap /\ x \in Texts
    BY <1>3, PutIs DEF Begins
  <1>7. Begins(x, y) /\ Len(y) <= Cap /\ y \in Texts
    BY <1>4, <1>6, PutIs DEF Begins
  <1> QED BY <1>5, <1>6, <1>7, BeginsOn

\* The same, where there is room.
Opening(first, a) == (IF first THEN <<>> ELSE <<Space>>) \o (IF Quoted(first, a) THEN <<Quote>> ELSE <<>>)

(* It is a separator and an opening quote. *)
LEMMA AddStartIs ==
  ASSUME NEW line \in Texts, Len(line) <= Cap, NEW first, NEW a,
         NEW all, Begins(AddStart(line, first, a), all), Len(all) < Cap
  PROVE  AddStart(line, first, a) = line \o Opening(first, a)
  <1>1. PICK u \in Texts : u = IF first THEN <<>> ELSE <<Space>>
    BY TextNone, TextOne DEF Chars
  <1>2. PICK w \in Texts : w = IF Quoted(first, a) THEN <<Quote>> ELSE <<>>
    BY TextNone, TextOne DEF Chars
  <1>3. PICK x : x = Put(line, u)
    OBVIOUS
  <1>4. PICK y : y = Put(x, w)
    OBVIOUS
  <1>5. AddStart(line, first, a) = y
    BY <1>1, <1>2, <1>3, <1>4 DEF AddStart
  <1>6. Len(x) <= Cap /\ x \in Texts
    BY <1>3, PutIs DEF Begins
  <1>7. Begins(x, y) /\ Begins(y, all)
    BY <1>4, <1>5, <1>6, PutIs
  <1>8. y = x \o w
    BY <1>4, <1>6, <1>7, PutInto
  <1>9. Begins(x, all)
    BY <1>7, BeginsOn
  <1>10. x = line \o u
    BY <1>3, <1>9, PutInto
  <1>11. (line \o u) \o w = line \o (u \o w)
    BY ConcatAssociative DEF Texts
  <1>12. u \o w = Opening(first, a)
    BY <1>1, <1>2 DEF Opening
  <1> QED BY <1>5, <1>8, <1>10, <1>11, <1>12

(* The line of every step begins that of the later ones. *)
LEMMA AddsGrow ==
  ASSUME NEW first, NEW a \in Texts, NEW g, Adding(g[0]),
         \A i \in Nat : i + 1 <= Len(a) => g[i + 1] = AddChar(first, a[i + 1], g[i])
  PROVE  \A m \in Nat : m <= Len(a) => Adding(g[m]) /\ \A i \in 0 .. m : Begins(g[i].out, g[m].out)
  <1>1. PICK n \in Nat : n = Len(a)
    BY TextLen
  <1> DEFINE S == {m \in Nat : m <= n => Adding(g[m]) /\ \A i \in 0 .. m : Begins(g[i].out, g[m].out)}
  <1>2. 0 \in S
    <2>1. g[0].out \in Texts
      BY DEF Adding
    <2>2. Begins(g[0].out, g[0].out)
      BY <2>1, BeginsSelf
    <2> QED BY <2>2
  <1>3. ASSUME NEW m \in Nat, m \in S PROVE m + 1 \in S
    <2> SUFFICES ASSUME m + 1 <= n
                 PROVE  Adding(g[m + 1]) /\ \A i \in 0 .. m + 1 : Begins(g[i].out, g[m + 1].out)
      OBVIOUS
    <2>1. m <= n
      OBVIOUS
    <2>2. Adding(g[m]) /\ \A i \in 0 .. m : Begins(g[i].out, g[m].out)
      BY <1>3, <2>1
    <2>3. a[m + 1] \in Chars
      <3>1. a \in Seq(Chars) /\ m + 1 \in 1 .. Len(a)
        BY <1>1, TextLen
      <3> QED BY <3>1
    <2>4. g[m + 1] = AddChar(first, a[m + 1], g[m])
      BY <1>1
    <2>5. Adding(g[m + 1]) /\ Begins(g[m].out, g[m + 1].out)
      BY <2>2, <2>3, <2>4, AddCharGrows
    <2>6. ASSUME NEW i \in 0 .. m + 1 PROVE Begins(g[i].out, g[m + 1].out)
      <3>1. CASE i = m + 1
        <4>1. g[m + 1].out \in Texts
          BY <2>5 DEF Adding
        <4> QED BY <3>1, <4>1, BeginsSelf
      <3>2. CASE i # m + 1
        <4>1. i \in 0 .. m
          BY <3>2
        <4> QED BY <2>2, <2>5, <4>1, BeginsOn
      <3> QED BY <3>1, <3>2
    <2> QED BY <2>5, <2>6
  <1> HIDE DEF S
  <1>4. \A m \in Nat : m \in S
    BY <1>2, <1>3, CountUp
  <1> QED BY <1>1, <1>4 DEF S

(* An argument makes the line longer. *)
LEMMA AddArgGrows ==
  ASSUME NEW line \in Texts, Len(line) <= Cap, NEW first, NEW a \in Texts
  PROVE  Begins(line, AddArg(line, first, a)) /\ Len(AddArg(line, first, a)) <= Cap
  <1>1. PICK n \in Nat : n = Len(a)
    BY TextLen
  <1>g. PICK g : AddScan(line, first, a, g)
    BY AddArgScan, Zenon
  <1>2. /\ g[0] = [out |-> AddStart(line, first, a), bs |-> 0]
        /\ \A i \in Nat : i + 1 <= Len(a) => g[i + 1] = AddChar(first, a[i + 1], g[i])
        /\ AddArg(line, first, a) = IF Quoted(first, a) THEN Put(g[n].out, Closing(first, g[n].bs)) ELSE g[n].out
    BY <1>1, <1>g, Zenon DEF AddScan
  <1>3. Begins(line, g[0].out) /\ Adding(g[0])
    <2>1. g[0].out = AddStart(line, first, a) /\ g[0].bs = 0
      BY <1>2
    <2>2. Begins(line, AddStart(line, first, a)) /\ Len(AddStart(line, first, a)) <= Cap
      BY AddStartGrows
    <2> QED BY <2>1, <2>2 DEF Adding, Begins
  <1>4. Adding(g[n]) /\ Begins(g[0].out, g[n].out)
    <2>1. \A m \in Nat : m <= n => Adding(g[m]) /\ \A i \in 0 .. m : Begins(g[i].out, g[m].out)
      BY <1>1, <1>2, <1>3, AddsGrow
    <2>2. n <= n /\ 0 \in 0 .. n
      OBVIOUS
    <2> QED BY <2>1, <2>2
  <1>5. Begins(line, g[n].out)
    BY <1>3, <1>4, BeginsOn
  <1>6. CASE Quoted(first, a)
    <2>1. PICK w \in Texts : w = Closing(first, g[n].bs)
      BY <1>4, ClosingIs DEF Adding
    <2>2. Begins(g[n].out, Put(g[n].out, w)) /\ Len(Put(g[n].out, w)) <= Cap
      BY <1>4, PutIs DEF Adding
    <2> QED BY <1>2, <1>5, <1>6, <2>1, <2>2, BeginsOn
  <1>7. CASE ~Quoted(first, a)
    BY <1>2, <1>4, <1>5, <1>7 DEF Adding
  <1> QED BY <1>6, <1>7

\* How an argument is written into a line that has room for it, character by character.
Writes(line, first, a, all, g, res) ==
  /\ g[0].bs = 0
  /\ g[0].out = line \o Opening(first, a)
  /\ \A i \in Nat : i <= Len(a) => Adding(g[i]) /\ Begins(g[i].out, all)
  /\ \A i \in Nat : i + 1 <= Len(a) => Added(first, a[i + 1], g[i], g[i + 1])
  /\ res = IF Quoted(first, a) THEN g[Len(a)].out \o Closing(first, g[Len(a)].bs) ELSE g[Len(a)].out

(* It is written so. *)
LEMMA AddArgIs ==
  ASSUME NEW line \in Texts, Len(line) <= Cap, NEW first, NEW a \in Texts,
         NEW all, Begins(AddArg(line, first, a), all), Len(all) < Cap
  PROVE  \E g : Writes(line, first, a, all, g, AddArg(line, first, a))
  <1>1. PICK n \in Nat : n = Len(a)
    BY TextLen
  <1>g. PICK g : AddScan(line, first, a, g)
    BY AddArgScan, Zenon
  <1>2. /\ g[0] = [out |-> AddStart(line, first, a), bs |-> 0]
        /\ \A i \in Nat : i + 1 <= Len(a) => g[i + 1] = AddChar(first, a[i + 1], g[i])
        /\ AddArg(line, first, a) = IF Quoted(first, a) THEN Put(g[n].out, Closing(first, g[n].bs)) ELSE g[n].out
    BY <1>1, <1>g, Zenon DEF AddScan
  <1>3. Adding(g[0])
    <2>1. g[0].out = AddStart(line, first, a) /\ g[0].bs = 0
      BY <1>2
    <2>2. Begins(line, AddStart(line, first, a)) /\ Len(AddStart(line, first, a)) <= Cap
      BY AddStartGrows
    <2> QED BY <2>1, <2>2 DEF Adding, Begins
  <1>4. \A m \in Nat : m <= n => Adding(g[m]) /\ \A i \in 0 .. m : Begins(g[i].out, g[m].out)
    BY <1>1, <1>2, <1>3, AddsGrow
  <1>5. Adding(g[n]) /\ \A i \in 0 .. n : Begins(g[i].out, g[n].out)
    BY <1>4
  <1>6. Begins(g[n].out, all) /\ AddArg(line, first, a) = IF Quoted(first, a) THEN g[n].out \o Closing(first, g[n].bs) ELSE g[n].out
    <2>1. CASE Quoted(first, a)
      <3>1. PICK w \in Texts : w = Closing(first, g[n].bs)
        BY <1>5, ClosingIs DEF Adding
      <3>2. AddArg(line, first, a) = Put(g[n].out, w)
        BY <1>2, <2>1, <3>1
      <3>3. Put(g[n].out, w) = g[n].out \o w
        BY <1>5, <3>2, PutInto DEF Adding
      <3>4. Begins(g[n].out, Put(g[n].out, w))
        BY <1>5, PutIs DEF Adding
      <3>5. Begins(g[n].out, all)
        BY <3>2, <3>4, BeginsOn
      <3> QED BY <2>1, <3>1, <3>2, <3>3, <3>5
    <2>2. CASE ~Quoted(first, a)
      BY <1>2, <2>2
    <2> QED BY <2>1, <2>2
  <1>7. \A i \in Nat : i <= n => Adding(g[i]) /\ Begins(g[i].out, all)
    <2> SUFFICES ASSUME NEW i \in Nat, i <= n PROVE Adding(g[i]) /\ Begins(g[i].out, all)
      OBVIOUS
    <2>1. i \in 0 .. n
      OBVIOUS
    <2> QED BY <1>4, <1>5, <1>6, <2>1, BeginsOn
  <1>8. ASSUME NEW i \in Nat, i + 1 <= n PROVE Added(first, a[i + 1], g[i], g[i + 1])
    <2>1. a[i + 1] \in Chars
      <3>1. a \in Seq(Chars) /\ i + 1 \in 1 .. Len(a)
        BY <1>1, <1>8, TextLen
      <3> QED BY <3>1
    <2>2. Adding(g[i]) /\ Begins(g[i + 1].out, all) /\ g[i + 1] = AddChar(first, a[i + 1], g[i])
      BY <1>1, <1>2, <1>7, <1>8
    <2> QED BY <2>1, <2>2, AddCharIs
  <1>9. g[0].bs = 0 /\ g[0].out = line \o Opening(first, a)
    <2>1. g[0].bs = 0 /\ g[0].out = AddStart(line, first, a) /\ Begins(g[0].out, all)
      BY <1>2, <1>7
    <2>2. Begins(AddStart(line, first, a), all)
      BY <2>1
    <2> QED BY <2>1, <2>2, AddStartIs
  <1>10. Writes(line, first, a, all, g, AddArg(line, first, a))
    BY <1>1, <1>6, <1>7, <1>8, <1>9, Zenon DEF Writes
  <1> QED BY <1>10

-----------------------------------------------------------------------------
(* Reading a line: the states between two characters of it. *)

\* Whether an argument has begun, and whether a quote is open in it.
Kinds == {"blank", "plain", "quoted"}

\* The kind behind a character of the argument.
On(k) == IF k = "quoted" THEN "quoted" ELSE "plain"

\* So many arguments, and what there is of the next.
Word(o, t, k, b) == [out |-> o, tok |-> t, open |-> k # "blank", inq |-> k = "quoted", bs |-> b, pair |-> FALSE]

(* A backslash. *)
LEMMA ReadSlash ==
  ASSUME NEW o \in Seq(Texts), NEW t \in Texts, NEW k \in Kinds, NEW b \in Nat, NEW s, NEW i, s[i] = Slash
  PROVE  LaterStep(s, i, Word(o, t, k, b)) = Word(o, t, On(k), b + 1)
  <1>1. PICK st : st = Word(o, t, k, b)
    OBVIOUS
  <1>2. st \in Scans /\ st.out = o /\ st.tok = t /\ (st.inq <=> k = "quoted") /\ st.bs = b /\ ~st.pair
    <2>1. CASE k = "blank"
      BY <1>1, <2>1 DEF Word, Scans, Kept, Half
    <2>2. CASE k = "plain"
      BY <1>1, <2>2 DEF Word, Scans, Kept, Half
    <2>3. CASE k = "quoted"
      BY <1>1, <2>3 DEF Word, Scans, Kept, Half
    <2> QED BY <2>1, <2>2, <2>3 DEF Kinds
  <1>3. LaterStep(s, i, st) =
           [out |-> st.out, tok |-> st.tok, open |-> TRUE, inq |-> st.inq, bs |-> st.bs + 1, pair |-> FALSE]
    BY <1>2, StepSlash
  <1>4. CASE k = "quoted"
    BY <1>1, <1>2, <1>3, <1>4 DEF Word, On, Scans
  <1>5. CASE k # "quoted"
    BY <1>1, <1>2, <1>3, <1>5 DEF Word, On, Scans
  <1> QED BY <1>4, <1>5

(* An ordinary character. *)
LEMMA ReadOther ==
  ASSUME NEW o \in Seq(Texts), NEW t \in Texts, NEW k \in Kinds, NEW b \in Nat,
         NEW s, NEW i, s[i] # Slash, s[i] # Quote, s[i] # Space \/ k = "quoted"
  PROVE  LaterStep(s, i, Word(o, t, k, b)) = Word(o, Append(t \o Repeat(Slash, b), s[i]), On(k), 0)
  <1>1. PICK st : st = Word(o, t, k, b)
    OBVIOUS
  <1>2. st \in Scans /\ st.out = o /\ (st.inq <=> k = "quoted") /\ ~st.pair /\ Kept(st) = t \o Repeat(Slash, b)
    <2>1. CASE k = "blank"
      BY <1>1, <2>1 DEF Word, Scans, Kept, Half
    <2>2. CASE k = "plain"
      BY <1>1, <2>2 DEF Word, Scans, Kept, Half
    <2>3. CASE k = "quoted"
      BY <1>1, <2>3 DEF Word, Scans, Kept, Half
    <2> QED BY <2>1, <2>2, <2>3 DEF Kinds
  <1>3. LaterStep(s, i, st) =
           [out |-> st.out, tok |-> Append(Kept(st), s[i]), open |-> TRUE, inq |-> st.inq, bs |-> 0, pair |-> FALSE]
    <2>1. s[i] # Space \/ st.inq
      BY <1>2
    <2> QED BY <1>2, <2>1, StepOther
  <1>4. CASE k = "quoted"
    BY <1>1, <1>2, <1>3, <1>4 DEF Word, On, Scans
  <1>5. CASE k # "quoted"
    BY <1>1, <1>2, <1>3, <1>5 DEF Word, On, Scans
  <1> QED BY <1>4, <1>5

(* A quote after an odd number of backslashes. *)
LEMMA ReadEscaped ==
  ASSUME NEW o \in Seq(Texts), NEW t \in Texts, NEW k \in Kinds, NEW b \in Nat,
         NEW s, NEW i, s[i] = Quote
  PROVE  LaterStep(s, i, Word(o, t, k, b + (b + 1))) = Word(o, Append(t \o Repeat(Slash, b), Quote), On(k), 0)
  <1>0. PICK n \in Nat : n = b + (b + 1) /\ n % 2 = 1 /\ n \div 2 = b
    OBVIOUS
  <1>1. PICK st : st = Word(o, t, k, n)
    OBVIOUS
  <1>2. st \in Scans /\ st.out = o /\ (st.inq <=> k = "quoted") /\ ~st.pair /\ Half(st) = t \o Repeat(Slash, b) /\ st.bs = n
    <2>1. CASE k = "blank"
      BY <1>0, <1>1, <2>1 DEF Word, Scans, Kept, Half
    <2>2. CASE k = "plain"
      BY <1>0, <1>1, <2>2 DEF Word, Scans, Kept, Half
    <2>3. CASE k = "quoted"
      BY <1>0, <1>1, <2>3 DEF Word, Scans, Kept, Half
    <2> QED BY <2>1, <2>2, <2>3 DEF Kinds
  <1>3. LaterStep(s, i, st) =
           [out |-> st.out, tok |-> Append(Half(st), Quote), open |-> TRUE, inq |-> st.inq, bs |-> 0, pair |-> FALSE]
    BY <1>0, <1>2, StepEscaped
  <1>4. CASE k = "quoted"
    BY <1>0, <1>1, <1>2, <1>3, <1>4 DEF Word, On, Scans
  <1>5. CASE k # "quoted"
    BY <1>0, <1>1, <1>2, <1>3, <1>5 DEF Word, On, Scans
  <1> QED BY <1>4, <1>5

(* The closing quote. *)
LEMMA ReadClose ==
  ASSUME NEW o \in Seq(Texts), NEW t \in Texts, NEW b \in Nat, NEW n \in Nat, n = b + b,
         NEW s, NEW i, s[i] = Quote, ~(i < Len(s) /\ s[i + 1] = Quote)
  PROVE  LaterStep(s, i, Word(o, t, "quoted", n)) = Word(o, t \o Repeat(Slash, b), "plain", 0)
  <1>0. n % 2 # 1 /\ n \div 2 = b
    OBVIOUS
  <1>1. PICK st : st = Word(o, t, "quoted", n)
    OBVIOUS
  <1>2. st \in Scans /\ st.out = o /\ st.inq /\ ~st.pair /\ Half(st) = t \o Repeat(Slash, b) /\ st.bs = n
    BY <1>0, <1>1 DEF Word, Scans, Half
  <1>3. LaterStep(s, i, st) =
           [out |-> st.out, tok |-> Half(st), open |-> TRUE, inq |-> FALSE, bs |-> 0, pair |-> FALSE]
    BY <1>0, <1>2, StepClose
  <1> QED BY <1>0, <1>1, <1>2, <1>3 DEF Word

(* The separator. *)
LEMMA ReadSpace ==
  ASSUME NEW o \in Seq(Texts), NEW t \in Texts, NEW b \in Nat,
         NEW s, NEW i, s[i] = Space
  PROVE  LaterStep(s, i, Word(o, t, "plain", b)) = Word(Append(o, t \o Repeat(Slash, b)), <<>>, "blank", 0)
  <1>1. PICK st : st = Word(o, t, "plain", b)
    OBVIOUS
  <1>2. st \in Scans /\ st.out = o /\ ~st.inq /\ ~st.pair /\ st.open /\ Kept(st) = t \o Repeat(Slash, b)
    BY <1>1 DEF Word, Scans, Kept
  <1>3. LaterStep(s, i, st) = [out |-> IF st.open THEN Append(st.out, Kept(st)) ELSE st.out, tok |-> <<>>, open |-> FALSE,
            inq |-> st.inq, bs |-> 0, pair |-> FALSE]
    BY <1>2, StepSpace
  <1> QED BY <1>1, <1>2, <1>3 DEF Word, Scans

(* The separator behind the first argument. *)
LEMMA ReadFirstSpace ==
  ASSUME NEW o \in Seq(Texts), NEW s, NEW i, s[i] = Space
  PROVE  LaterStep(s, i, Word(o, <<>>, "blank", 0)) = Word(o, <<>>, "blank", 0)
  <1>1. PICK st : st = Word(o, <<>>, "blank", 0)
    OBVIOUS
  <1>2. st \in Scans /\ st.out = o /\ ~st.inq /\ ~st.pair /\ ~st.open
    BY <1>1, TextNone DEF Word, Scans
  <1>3. LaterStep(s, i, st) = [out |-> IF st.open THEN Append(st.out, Kept(st)) ELSE st.out, tok |-> <<>>, open |-> FALSE,
            inq |-> st.inq, bs |-> 0, pair |-> FALSE]
    BY <1>2, StepSpace
  <1> QED BY <1>1, <1>2, <1>3 DEF Word, Scans

(* The opening quote. *)
LEMMA ReadOpen ==
  ASSUME NEW o \in Seq(Texts), NEW s, NEW i, s[i] = Quote
  PROVE  LaterStep(s, i, Word(o, <<>>, "blank", 0)) = Word(o, <<>>, "quoted", 0)
  <1>1. 0 \in Nat /\ 0 % 2 # 1 /\ 0 \div 2 = 0
    OBVIOUS
  <1>2. <<>> \o Repeat(Slash, 0) = <<>>
    <2>1. Repeat(Slash, 0) \in Seq(Chars) /\ Len(Repeat(Slash, 0)) = 0
      BY <1>1, TextRepeat, TextLen
    <2>2. Repeat(Slash, 0) = <<>>
      BY <2>1, EmptySeq
    <2> QED BY <2>2
  <1>3. PICK st : st = Word(o, <<>>, "blank", 0)
    OBVIOUS
  <1>4. st \in Scans /\ st.out = o /\ ~st.inq /\ ~st.pair /\ st.bs = 0 /\ Half(st) = <<>>
    BY <1>1, <1>2, <1>3, TextNone DEF Word, Scans, Half
  <1>5. LaterStep(s, i, st) =
           [out |-> st.out, tok |-> Half(st), open |-> TRUE, inq |-> TRUE, bs |-> 0, pair |-> FALSE]
    BY <1>1, <1>4, StepOpen
  <1> QED BY <1>3, <1>4, <1>5 DEF Word

-----------------------------------------------------------------------------
\* The states of the scan of a line behind its first p characters.
Follows(F, p, f) ==
  f[p] = LaterStart /\ \A q \in Nat : p <= q /\ q + 1 <= Len(F) => f[q + 1] = LaterStep(F, q + 1, f[q])

\* All it has found.
All(st) == IF st.open THEN Append(st.out, Kept(st)) ELSE st.out

(* A step depends on the character and the one behind it. *)
LEMMA StepElsewhere ==
  ASSUME NEW F, NEW i, NEW s, NEW j, NEW st, s[j] = F[i], j < Len(s) <=> i < Len(F), i < Len(F) => s[j + 1] = F[i + 1]
  PROVE  LaterStep(s, j, st) = LaterStep(F, i, st)
  <1>1. (j < Len(s) /\ s[j + 1] = Quote) <=> (i < Len(F) /\ F[i + 1] = Quote)
    OBVIOUS
  <1> QED BY <1>1 DEF LaterStep

(* LaterArgs on the rest of a line. *)
LEMMA LaterArgsFollows ==
  ASSUME NEW F \in Texts, NEW p \in Nat, p <= Len(F)
  PROVE  \E f : Follows(F, p, f) /\ LaterArgs(SubSeq(F, p + 1, Len(F))) = All(f[Len(F)])
  <1>1. PICK n \in Nat : n = Len(F) /\ p <= n
    BY TextLen
  <1>2. PICK s : s = SubSeq(F, p + 1, n)
    OBVIOUS
  <1>3. s \in Texts /\ Len(s) = n - p /\ \A j \in 1 .. n - p : s[j] = F[p + j]
    <2>1. F \in Seq(Chars)
      BY TextLen
    <2>2. CASE p = n
      <3>1. s = <<>>
        BY <1>1, <1>2, <2>1, <2>2
      <3> QED BY <2>2, <3>1, TextNone
    <2>3. CASE p # n
      BY <1>1, <1>2, <2>1, <2>3 DEF Texts
    <2> QED BY <2>2, <2>3
  <1>4. PICK g :
           /\ g[0] = LaterStart
           /\ \A i \in Nat : i + 1 <= Len(s) => g[i + 1] = LaterStep(s, i + 1, g[i])
           /\ LaterArgs(s) = IF g[Len(s)].open THEN Append(g[Len(s)].out, Kept(g[Len(s)])) ELSE g[Len(s)].out
    BY <1>3, LaterArgsScan
  <1> DEFINE f == [q \in p .. n |-> g[q - p]]
  <1>5. f[p] = LaterStart /\ f[n] = g[Len(s)]
    BY <1>1, <1>3, <1>4
  <1>6. ASSUME NEW q \in Nat, p <= q, q + 1 <= n PROVE f[q + 1] = LaterStep(F, q + 1, f[q])
    <2>1. PICK j \in Nat : j = q - p /\ j + 1 <= n - p /\ j + 1 \in 1 .. n - p /\ p + (j + 1) = q + 1
      BY <1>6
    <2>2. f[q] = g[j] /\ f[q + 1] = g[j + 1]
      <3>1. q \in p .. n /\ q + 1 \in p .. n /\ (q + 1) - p = j + 1
        BY <1>6, <2>1
      <3> QED BY <2>1, <3>1
    <2> HIDE DEF f
    <2>3. g[j + 1] = LaterStep(s, j + 1, g[j])
      BY <1>3, <1>4, <2>1
    <2>4. s[j + 1] = F[q + 1]
      BY <1>3, <2>1
    <2>5. j + 1 < Len(s) <=> q + 1 < Len(F)
      BY <1>1, <1>3, <2>1
    <2>6. q + 1 < Len(F) => s[(j + 1) + 1] = F[(q + 1) + 1]
      <3> SUFFICES ASSUME q + 1 < Len(F) PROVE s[(j + 1) + 1] = F[(q + 1) + 1]
        OBVIOUS
      <3>1. (j + 1) + 1 \in 1 .. n - p /\ p + ((j + 1) + 1) = (q + 1) + 1
        BY <1>1, <2>1
      <3> QED BY <1>3, <3>1
    <2>7. LaterStep(s, j + 1, g[j]) = LaterStep(F, q + 1, g[j])
      BY <2>4, <2>5, <2>6, StepElsewhere
    <2> QED BY <2>2, <2>3, <2>7
  <1> HIDE DEF f
  <1>7. Follows(F, p, f)
    BY <1>1, <1>5, <1>6 DEF Follows
  <1>8. LaterArgs(s) = All(f[n])
    BY <1>4, <1>5 DEF All
  <1> QED BY <1>1, <1>2, <1>7, <1>8

(* What a line has behind its beginning. *)
LEMMA BeginsTail ==
  ASSUME NEW x \in Texts, NEW u \in Texts, NEW F, Begins(x \o u, F)
  PROVE  Len(x) + Len(u) <= Len(F) /\ \A j \in 1 .. Len(u) : F[Len(x) + j] = u[j]
  <1>1. PICK l \in Nat : l = Len(x)
    BY TextLen
  <1>2. PICK m \in Nat : m = Len(u)
    BY TextLen
  <1>3. Len(x \o u) = l + m
    BY <1>1, <1>2, TextConcat
  <1>4. ASSUME NEW j \in 1 .. m PROVE F[l + j] = u[j]
    <2>1. l + j \in 1 .. l + m
      OBVIOUS
    <2>2. F[l + j] = (x \o u)[l + j]
      BY <1>3, <2>1 DEF Begins
    <2> QED BY <1>1, <1>2, <2>2, TextAt
  <1> QED BY <1>1, <1>2, <1>3, <1>4 DEF Begins

(* And the beginning itself. *)
LEMMA BeginsHead ==
  ASSUME NEW x \in Texts, NEW u \in Texts, NEW F, Begins(x \o u, F)
  PROVE  Begins(x, F)
  <1>1. PICK l \in Nat : l = Len(x)
    BY TextLen
  <1>2. PICK m \in Nat : m = Len(u)
    BY TextLen
  <1>3. x \o u \in Texts /\ Len(x \o u) = l + m
    BY <1>1, <1>2, TextConcat
  <1>4. \A i \in 1 .. l : (x \o u)[i] = x[i]
    BY <1>1, TextAt
  <1>5. Begins(x, x \o u)
    BY <1>1, <1>3, <1>4 DEF Begins
  <1> QED BY <1>5, BeginsOn

(* A line that goes on behind its beginning with one character. *)
LEMMA BeginsChar ==
  ASSUME NEW x \in Texts, NEW c \in Chars, NEW y, y = x \o <<c>>, NEW F, Begins(y, F)
  PROVE  Len(y) = Len(x) + 1 /\ Len(x) + 1 <= Len(F) /\ F[Len(x) + 1] = c /\ Begins(x, F)
  <1>1. PICK w \in Texts : w = <<c>> /\ Len(w) = 1 /\ w[1] = c
    BY TextOne
  <1>2. y = x \o w
    BY <1>1
  <1>3. Begins(x, F) /\ Len(y) = Len(x) + 1
    BY <1>1, <1>2, BeginsHead, TextConcat
  <1>4. Len(x) + Len(w) <= Len(F) /\ \A j \in 1 .. Len(w) : F[Len(x) + j] = w[j]
    <2>1. Begins(x \o w, F)
      BY <1>2
    <2>2. Len(x) + Len(w) <= Len(F)
      BY <2>1, BeginsTail
    <2>3. \A j \in 1 .. Len(w) : F[Len(x) + j] = w[j]
      BY <2>1, BeginsTail
    <2> QED BY <2>2, <2>3
  <1> QED BY <1>1, <1>3, <1>4

\* A line has n backslashes behind its first l characters.
SlashesAt(F, l, n) == l + n <= Len(F) /\ \A j \in 1 .. n : F[l + j] = Slash

\* And then a quote.
QuoteAt(F, l) == l + 1 <= Len(F) /\ F[l + 1] = Quote

(* Or with backslashes. *)
LEMMA BeginsSlashes ==
  ASSUME NEW x \in Texts, NEW n \in Nat, NEW y, y = x \o Repeat(Slash, n), NEW F, Begins(y, F)
  PROVE  Len(y) = Len(x) + n /\ SlashesAt(F, Len(x), n)
  <1>1. PICK w : w = Repeat(Slash, n)
    OBVIOUS
  <1>2. w \in Texts /\ Len(w) = n /\ \A i \in 1 .. n : w[i] = Slash
    BY <1>1, TextRepeat DEF Repeat
  <1>3. Len(y) = Len(x) + n
    BY <1>1, <1>2, TextConcat
  <1>4. Len(x) + Len(w) <= Len(F) /\ \A j \in 1 .. Len(w) : F[Len(x) + j] = w[j]
    <2>1. y = x \o w /\ w \in Texts
      BY <1>1, <1>2
    <2>2. Begins(x \o w, F)
      BY <2>1
    <2> QED BY <2>1, <2>2, BeginsTail
  <1>5. Len(x) + n <= Len(F) /\ \A j \in 1 .. n : F[Len(x) + j] = Slash
    BY <1>2, <1>4
  <1> QED BY <1>3, <1>5 DEF SlashesAt

(* The backslashes of a text that has one more. *)
LEMMA RepeatMore ==
  ASSUME NEW t \in Texts, NEW b \in Nat
  PROVE  t \o Repeat(Slash, b + 1) = Append(t \o Repeat(Slash, b), Slash)
  <1>1. PICK l \in Nat : l = Len(t)
    BY TextLen
  <1>2. PICK r : r = Repeat(Slash, b)
    OBVIOUS
  <1>3. PICK r1 : r1 = Repeat(Slash, b + 1)
    OBVIOUS
  <1>4. r \in Texts /\ Len(r) = b /\ \A i \in 1 .. b : r[i] = Slash
    BY <1>2, TextRepeat DEF Repeat
  <1>5. r1 \in Texts /\ Len(r1) = b + 1 /\ \A i \in 1 .. b + 1 : r1[i] = Slash
    <2>1. b + 1 \in Nat
      OBVIOUS
    <2> QED BY <1>3, <2>1, TextRepeat DEF Repeat
  <1>6. PICK y : y = t \o r
    OBVIOUS
  <1>7. y \in Texts /\ Len(y) = l + b /\ (\A i \in 1 .. l : y[i] = t[i]) /\ \A i \in 1 .. b : y[l + i] = r[i]
    BY <1>1, <1>4, <1>6, TextConcat, TextAt
  <1>8. PICK x : x = t \o r1
    OBVIOUS
  <1>9. x \in Texts /\ Len(x) = l + (b + 1) /\ (\A i \in 1 .. l : x[i] = t[i]) /\ \A i \in 1 .. b + 1 : x[l + i] = r1[i]
    <2>1. PICK c \in Nat : c = b + 1 /\ Len(r1) = c
      BY <1>5
    <2>2. x \in Texts /\ Len(x) = l + c /\ (\A i \in 1 .. l : x[i] = t[i]) /\ \A i \in 1 .. c : x[l + i] = r1[i]
      BY <1>1, <1>5, <1>8, <2>1, TextConcat, TextAt
    <2> QED BY <2>1, <2>2
  <1>10. PICK z : z = Append(y, Slash)
    OBVIOUS
  <1>11. z \in Texts /\ Len(z) = l + b + 1 /\ z[l + b + 1] = Slash /\ \A i \in 1 .. l + b : z[i] = y[i]
    <2>1. y \in Seq(Chars) /\ Slash \in Chars
      BY <1>7, TextLen DEF Chars
    <2> QED BY <1>7, <1>10, <2>1 DEF Texts
  <1>12. ASSUME NEW i \in 1 .. l + (b + 1) PROVE x[i] = z[i]
    <2>1. CASE i <= l
      <3>1. i \in 1 .. l /\ i \in 1 .. l + b
        BY <2>1
      <3> QED BY <1>7, <1>9, <1>11, <3>1
    <2>2. CASE i > l
      <3>1. PICK j \in Nat : j = i - l /\ j \in 1 .. b + 1 /\ l + j = i
        BY <2>2
      <3>2. x[i] = Slash
        BY <1>5, <1>9, <3>1
      <3>3. CASE j = b + 1
        <4>1. i = l + b + 1
          BY <3>1, <3>3
        <4> QED BY <1>11, <3>2, <4>1
      <3>4. CASE j # b + 1
        <4>1. j \in 1 .. b /\ i \in 1 .. l + b
          BY <3>1, <3>4
        <4>2. y[l + j] = Slash
          BY <1>4, <1>7, <4>1
        <4> QED BY <1>11, <3>1, <3>2, <4>1, <4>2
      <3> QED BY <3>3, <3>4
    <2> QED BY <2>1, <2>2
  <1>13. Len(x) = Len(z) /\ \A i \in 1 .. Len(x) : x[i] = z[i]
    BY <1>9, <1>11, <1>12
  <1>14. x = z
    BY <1>9, <1>11, <1>13, TextEqual
  <1> QED BY <1>2, <1>3, <1>6, <1>8, <1>10, <1>14

(* None. *)
LEMMA RepeatNone ==
  ASSUME NEW t \in Texts
  PROVE  t \o Repeat(Slash, 0) = t
  <1>1. 0 \in Nat
    OBVIOUS
  <1>2. Repeat(Slash, 0) \in Seq(Chars) /\ Len(Repeat(Slash, 0)) = 0
    BY <1>1, TextRepeat, TextLen
  <1>3. Repeat(Slash, 0) = <<>>
    BY <1>2, EmptySeq
  <1> QED BY <1>3, ConcatEmptySeq, TextLen

(* The kind behind a character is a kind, and stays. *)
LEMMA OnIs ==
  ASSUME NEW k \in Kinds
  PROVE  On(k) \in Kinds /\ On(On(k)) = On(k) /\ (On(k) = "quoted" <=> k = "quoted") /\ On(k) # "blank"
  BY DEF On, Kinds

(* A run of backslashes. *)
LEMMA ReadSlashes ==
  ASSUME NEW F \in Texts, NEW p \in Nat, NEW f, Follows(F, p, f),
         NEW l \in Nat, p <= l, NEW n \in Nat, SlashesAt(F, l, n),
         NEW o \in Seq(Texts), NEW t \in Texts, NEW k \in Kinds, NEW b \in Nat,
         f[l] = Word(o, t, k, b), NEW e \in Nat, e = l + n, NEW d \in Nat, d = b + n
  PROVE  \E h \in Kinds : On(h) = On(k) /\ f[e] = Word(o, t, h, d)
  <1> DEFINE S == {m \in Nat : m <= n => \E h \in Kinds : On(h) = On(k) /\ f[l + m] = Word(o, t, h, b + m)}
  <1>1. 0 \in S
    <2>1. l + 0 = l /\ b + 0 = b
      OBVIOUS
    <2> QED BY <2>1
  <1>2. ASSUME NEW m \in Nat, m \in S PROVE m + 1 \in S
    <2> SUFFICES ASSUME m + 1 <= n PROVE \E h \in Kinds : On(h) = On(k) /\ f[l + (m + 1)] = Word(o, t, h, b + (m + 1))
      OBVIOUS
    <2>1. PICK h \in Kinds : On(h) = On(k) /\ f[l + m] = Word(o, t, h, b + m)
      BY <1>2
    <2>2. PICK q \in Nat : q = l + m /\ p <= q /\ q + 1 = l + (m + 1)
      OBVIOUS
    <2>3. q + 1 <= Len(F)
      BY <2>2, TextLen DEF SlashesAt
    <2>4. F[q + 1] = Slash
      <3>1. m + 1 \in 1 .. n
        OBVIOUS
      <3> QED BY <2>2, <3>1 DEF SlashesAt
    <2>5. f[q + 1] = LaterStep(F, q + 1, f[q])
      BY <2>2, <2>3 DEF Follows
    <2>6. PICK c \in Nat : c = b + m /\ c + 1 = b + (m + 1)
      OBVIOUS
    <2>7. f[q] = Word(o, t, h, c)
      BY <2>1, <2>2, <2>6
    <2>8. On(k) \in Kinds /\ On(On(k)) = On(k)
      BY OnIs
    <2>9. f[q + 1] = Word(o, t, On(k), c + 1)
      BY <2>1, <2>4, <2>5, <2>7, ReadSlash
    <2> QED BY <2>2, <2>6, <2>8, <2>9
  <1> HIDE DEF S
  <1>3. n \in S
    BY <1>1, <1>2, CountUp
  <1>4. \E h \in Kinds : On(h) = On(k) /\ f[l + n] = Word(o, t, h, b + n)
    BY <1>3 DEF S
  <1> QED BY <1>4

-----------------------------------------------------------------------------
\* The scan has read a of an argument, and before it the arguments o.
Reading(st, o, a, k, b) == \E t \in Texts : st = Word(o, t, k, b) /\ t \o Repeat(Slash, b) = a

\* What a character of an argument behind the first adds.
Later(c, s, r) ==
  IF c = Quote
  THEN r.out = (s.out \o Repeat(Slash, s.bs + 1)) \o <<Quote>> /\ r.bs = 0
  ELSE r.out = s.out \o <<c>> /\ r.bs = IF c = Slash THEN s.bs + 1 ELSE 0

(* A character that rebuild_cmdline wrote, and put nothing before. *)
LEMMA ReadPlain ==
  ASSUME NEW F \in Texts, NEW p \in Nat, NEW f, Follows(F, p, f), NEW c \in Chars, c # Quote,
         NEW s, Adding(s), NEW r, Later(c, s, r), Begins(r.out, F), p <= Len(s.out),
         NEW o \in Seq(Texts), NEW a \in Texts, NEW k \in Kinds, c = Space => k = "quoted",
         Reading(f[Len(s.out)], o, a, k, s.bs)
  PROVE  Reading(f[Len(r.out)], o, Append(a, c), On(k), r.bs) /\ p <= Len(r.out)
  <1>1. s.out \in Texts /\ s.bs \in Nat /\ r.out = s.out \o <<c>>
    BY DEF Adding, Later
  <1>2. PICK l \in Nat : l = Len(s.out)
    BY <1>1, TextLen
  <1>3. PICK b \in Nat : b = s.bs
    BY <1>1
  <1>5. Len(r.out) = l + 1 /\ l + 1 <= Len(F) /\ F[l + 1] = c
    BY <1>1, <1>2, BeginsChar
  <1>6. f[l + 1] = LaterStep(F, l + 1, f[l])
    BY <1>2, <1>5 DEF Follows
  <1>7. PICK t \in Texts : f[l] = Word(o, t, k, b) /\ t \o Repeat(Slash, b) = a
    BY <1>2, <1>3 DEF Reading
  <1>8. p <= Len(r.out)
    BY <1>2, <1>5
  <1>9. CASE c = Slash
    <2>1. r.bs = b + 1
      BY <1>3, <1>9 DEF Later, Slash, Quote
    <2>2. f[l + 1] = Word(o, t, On(k), b + 1)
      BY <1>5, <1>6, <1>7, <1>9, ReadSlash
    <2>3. t \o Repeat(Slash, b + 1) = Append(a, c)
      BY <1>7, <1>9, RepeatMore
    <2> QED BY <1>5, <1>8, <2>1, <2>2, <2>3 DEF Reading
  <1>10. CASE c # Slash
    <2>1. r.bs = 0
      BY <1>10 DEF Later
    <2>2. f[l + 1] = Word(o, Append(a, c), On(k), 0)
      <3>1. F[l + 1] # Slash /\ F[l + 1] # Quote /\ (F[l + 1] # Space \/ k = "quoted")
        BY <1>5, <1>10
      <3>2. LaterStep(F, l + 1, Word(o, t, k, b)) = Word(o, Append(t \o Repeat(Slash, b), F[l + 1]), On(k), 0)
        BY <3>1, ReadOther
      <3> QED BY <1>5, <1>6, <1>7, <3>2, Zenon
    <2>3. Append(a, c) \in Texts
      BY TextAppend
    <2>4. Append(a, c) \o Repeat(Slash, 0) = Append(a, c)
      BY <2>3, RepeatNone
    <2> QED BY <1>5, <1>8, <2>1, <2>2, <2>3, <2>4 DEF Reading
  <1> QED BY <1>9, <1>10

(* A quote, behind twice its backslashes and one. *)
LEMMA ReadEscape ==
  ASSUME NEW F \in Texts, NEW p \in Nat, NEW f, Follows(F, p, f), NEW l \in Nat, p <= l,
         NEW b \in Nat, NEW n \in Nat, n = b + 1, SlashesAt(F, l, n),
         NEW m \in Nat, m = l + n, QuoteAt(F, m),
         NEW o \in Seq(Texts), NEW t \in Texts, NEW k \in Kinds, f[l] = Word(o, t, k, b)
  PROVE  f[m + 1] = Word(o, Append(t \o Repeat(Slash, b), Quote), On(k), 0)
  <1>0. PICK d \in Nat : d = b + n
    OBVIOUS
  <1>1. PICK h \in Kinds : On(h) = On(k) /\ f[m] = Word(o, t, h, d)
    BY <1>0, ReadSlashes
  <1>2. f[m + 1] = LaterStep(F, m + 1, f[m])
    BY DEF Follows, QuoteAt
  <1>3. LaterStep(F, m + 1, Word(o, t, h, b + (b + 1))) = Word(o, Append(t \o Repeat(Slash, b), Quote), On(h), 0)
    BY <1>1, ReadEscaped DEF QuoteAt
  <1> QED BY <1>0, <1>1, <1>2, <1>3, Zenon

(* A quote, with its backslashes. *)
LEMMA ReadQuote ==
  ASSUME NEW F \in Texts, NEW p \in Nat, NEW f, Follows(F, p, f),
         NEW s, Adding(s), NEW r, Later(Quote, s, r), Begins(r.out, F), p <= Len(s.out),
         NEW o \in Seq(Texts), NEW a \in Texts, NEW k \in Kinds,
         Reading(f[Len(s.out)], o, a, k, s.bs)
  PROVE  Reading(f[Len(r.out)], o, Append(a, Quote), On(k), r.bs) /\ p <= Len(r.out)
  <1>1. s.out \in Texts /\ s.bs \in Nat /\ r.out = (s.out \o Repeat(Slash, s.bs + 1)) \o <<Quote>> /\ r.bs = 0
    BY DEF Adding, Later
  <1>2. PICK l \in Nat : l = Len(s.out)
    BY <1>1, TextLen
  <1>p. p <= l
    BY <1>2
  <1>3. PICK b \in Nat : b = s.bs
    BY <1>1
  <1>4. PICK n \in Nat : n = b + 1
    OBVIOUS
  <1>5. Quote \in Chars
    BY DEF Chars
  <1>6. PICK x : x = s.out \o Repeat(Slash, n)
    OBVIOUS
  <1>7. x \in Texts /\ r.out = x \o <<Quote>>
    <2>1. r.out = x \o <<Quote>>
      BY <1>1, <1>3, <1>4, <1>6, Zenon
    <2>2. x \in Texts
      BY <1>1, <1>6, TextRepeat, TextConcat
    <2> QED BY <2>1, <2>2
  <1>8. Len(r.out) = Len(x) + 1 /\ Len(x) + 1 <= Len(F) /\ F[Len(x) + 1] = Quote /\ Begins(x, F)
    BY <1>5, <1>7, BeginsChar
  <1>9. Len(x) = l + n /\ SlashesAt(F, l, n)
    <2>1. PICK y \in Texts : y = s.out
      BY <1>1
    <2>2. x = y \o Repeat(Slash, n)
      BY <1>6, <2>1
    <2>3. Len(x) = Len(y) + n /\ SlashesAt(F, Len(y), n)
      BY <1>8, <2>2, BeginsSlashes
    <2> QED BY <1>2, <2>1, <2>3
  <1>10. PICK m \in Nat : m = l + n
    OBVIOUS
  <1>11. Len(r.out) = m + 1 /\ m + 1 <= Len(F) /\ F[m + 1] = Quote
    BY <1>8, <1>9, <1>10
  <1>12. PICK t \in Texts : f[l] = Word(o, t, k, b) /\ t \o Repeat(Slash, b) = a
    BY <1>2, <1>3 DEF Reading
  <1>15. f[m + 1] = Word(o, Append(a, Quote), On(k), 0)
    <2>1. f[m + 1] = Word(o, Append(t \o Repeat(Slash, b), Quote), On(k), 0)
      <3>1. QuoteAt(F, m)
        BY <1>11 DEF QuoteAt
      <3>2. n = b + 1 /\ m = l + n /\ SlashesAt(F, l, n) /\ f[l] = Word(o, t, k, b) /\ p <= l
        BY <1>p, <1>4, <1>9, <1>10, <1>12
      <3> QED BY <3>1, <3>2, ReadEscape
    <2> QED BY <1>12, <2>1
  <1>16. Append(a, Quote) \in Texts
    BY <1>5, TextAppend
  <1>17. Append(a, Quote) \o Repeat(Slash, 0) = Append(a, Quote)
    BY <1>16, RepeatNone
  <1>18. p <= Len(r.out)
    BY <1>p, <1>10, <1>11
  <1> QED BY <1>1, <1>11, <1>15, <1>16, <1>17, <1>18 DEF Reading

\* The lines in which the characters of an argument behind the first are added, one by one.
Wrote(a, g, F) ==
  /\ \A i \in Nat : i <= Len(a) => Adding(g[i]) /\ Begins(g[i].out, F)
  /\ \A i \in Nat : i + 1 <= Len(a) => Later(a[i + 1], g[i], g[i + 1])

\* The argument is put in quotes.
LaterQuoted(a) == a = <<>> \/ Has(a, Space) \/ Has(a, Quote)

\* How an argument behind the first is written.
WritesLater(line, a, F, g, res) ==
  /\ Wrote(a, g, F) /\ g[0].bs = 0 /\ Begins(res, F)
  /\ LaterQuoted(a) => g[0].out = (line \o <<Space>>) \o <<Quote>>
  /\ ~LaterQuoted(a) => g[0].out = line \o <<Space>>
  /\ LaterQuoted(a) => res = (g[Len(a)].out \o Repeat(Slash, g[Len(a)].bs)) \o <<Quote>>
  /\ ~LaterQuoted(a) => res = g[Len(a)].out

(* The beginnings of a text, one from the other. *)
LEMMA PrefixMore ==
  ASSUME NEW a \in Texts, NEW i \in Nat, i + 1 <= Len(a)
  PROVE  /\ SubSeq(a, 1, i) \in Texts /\ a[i + 1] \in Chars
         /\ SubSeq(a, 1, i + 1) = Append(SubSeq(a, 1, i), a[i + 1])
  <1>1. a \in Seq(Chars) /\ Len(a) \in Nat
    BY TextLen
  <1>2. a[i + 1] \in Chars
    BY <1>1
  <1>3. PICK x : x = SubSeq(a, 1, i)
    OBVIOUS
  <1>4. x \in Texts /\ Len(x) = i /\ \A j \in 1 .. i : x[j] = a[j]
    <2>1. CASE i = 0
      BY <1>1, <1>3, <2>1 DEF Texts
    <2>2. CASE i # 0
      BY <1>1, <1>3, <2>2 DEF Texts
    <2> QED BY <2>1, <2>2
  <1>5. PICK y : y = SubSeq(a, 1, i + 1)
    OBVIOUS
  <1>6. y \in Texts /\ Len(y) = i + 1 /\ \A j \in 1 .. i + 1 : y[j] = a[j]
    BY <1>1, <1>5 DEF Texts
  <1>7. PICK z : z = Append(x, a[i + 1])
    OBVIOUS
  <1>8. z \in Texts /\ Len(z) = i + 1 /\ z[i + 1] = a[i + 1] /\ \A j \in 1 .. i : z[j] = x[j]
    BY <1>2, <1>4, <1>7 DEF Texts
  <1>9. \A j \in 1 .. Len(y) : y[j] = z[j]
    <2> SUFFICES ASSUME NEW j \in 1 .. i + 1 PROVE y[j] = z[j]
      BY <1>6
    <2>1. CASE j = i + 1
      BY <1>6, <1>8, <2>1
    <2>2. CASE j # i + 1
      <3>1. j \in 1 .. i
        BY <2>2
      <3> QED BY <1>4, <1>6, <1>8, <3>1
    <2> QED BY <2>1, <2>2
  <1>10. y = z
    BY <1>6, <1>8, <1>9, TextEqual
  <1> QED BY <1>2, <1>3, <1>4, <1>5, <1>7, <1>10

(* A character of an argument, one that is quoted as it must be. *)
LEMMA ReadChar ==
  ASSUME NEW F \in Texts, NEW p \in Nat, NEW f, Follows(F, p, f), NEW c \in Chars,
         NEW s, Adding(s), NEW r, Later(c, s, r), Begins(r.out, F), p <= Len(s.out),
         NEW o \in Seq(Texts), NEW a \in Texts, NEW k \in Kinds, c = Space => k = "quoted",
         Reading(f[Len(s.out)], o, a, k, s.bs)
  PROVE  Reading(f[Len(r.out)], o, Append(a, c), On(k), r.bs) /\ p <= Len(r.out)
  <1>1. CASE c = Quote
    BY <1>1, ReadQuote
  <1>2. CASE c # Quote
    BY <1>2, ReadPlain
  <1> QED BY <1>1, <1>2

\* How far the scan is behind i characters of an argument.
ReadTo(F, p, f, a, g, o, k, i) ==
  \E h \in Kinds : /\ On(h) = On(k) /\ (i > 0 => h = On(k)) /\ p <= Len(g[i].out)
                   /\ Reading(f[Len(g[i].out)], o, SubSeq(a, 1, i), h, g[i].bs)

(* One character more. *)
LEMMA ReadOn ==
  ASSUME NEW F \in Texts, NEW p \in Nat, NEW f, Follows(F, p, f), NEW a \in Texts, NEW g, Wrote(a, g, F),
         NEW o \in Seq(Texts), NEW k \in Kinds, Has(a, Space) => k = "quoted",
         NEW i \in Nat, i + 1 <= Len(a), ReadTo(F, p, f, a, g, o, k, i)
  PROVE  ReadTo(F, p, f, a, g, o, k, i + 1)
  <1>0. Len(a) \in Nat
    BY TextLen
  <1>1. PICK h \in Kinds : /\ On(h) = On(k) /\ p <= Len(g[i].out)
                           /\ Reading(f[Len(g[i].out)], o, SubSeq(a, 1, i), h, g[i].bs)
    BY DEF ReadTo
  <1>2. Adding(g[i]) /\ Begins(g[i + 1].out, F) /\ Later(a[i + 1], g[i], g[i + 1])
    BY <1>0 DEF Wrote
  <1>3. PICK c \in Chars : c = a[i + 1]
    BY PrefixMore
  <1>4. PICK x \in Texts : x = SubSeq(a, 1, i)
    BY PrefixMore
  <1>5. c = Space => h = "quoted"
    <2> SUFFICES ASSUME c = Space PROVE h = "quoted"
      OBVIOUS
    <2>1. Has(a, Space)
      <3>1. i + 1 \in 1 .. Len(a)
        BY <1>0
      <3> QED BY <1>3, <3>1 DEF Has
    <2>2. On(h) = "quoted"
      BY <1>1, <2>1 DEF On
    <2> QED BY <2>2, OnIs
  <1>6. PICK s : s = g[i]
    OBVIOUS
  <1>7. PICK r : r = g[i + 1]
    OBVIOUS
  <1>8. Reading(f[Len(r.out)], o, Append(x, c), On(h), r.bs) /\ p <= Len(r.out)
    <2>1. Adding(s) /\ Later(c, s, r) /\ Begins(r.out, F) /\ p <= Len(s.out) /\ Reading(f[Len(s.out)], o, x, h, s.bs)
      BY <1>1, <1>2, <1>3, <1>4, <1>6, <1>7
    <2> QED BY <1>5, <2>1, ReadChar
  <1>9. SubSeq(a, 1, i + 1) = Append(x, c)
    BY <1>3, <1>4, PrefixMore
  <1>10. On(h) \in Kinds /\ On(On(h)) = On(k) /\ On(h) = On(k)
    BY <1>1, OnIs
  <1> QED BY <1>7, <1>8, <1>9, <1>10 DEF ReadTo

(* All of it. *)
LEMMA ReadAll ==
  ASSUME NEW F \in Texts, NEW p \in Nat, NEW f, Follows(F, p, f), NEW a \in Texts, NEW g, Wrote(a, g, F),
         NEW o \in Seq(Texts), NEW k \in Kinds, Has(a, Space) => k = "quoted",
         ReadTo(F, p, f, a, g, o, k, 0)
  PROVE  ReadTo(F, p, f, a, g, o, k, Len(a))
  <1>1. PICK n \in Nat : n = Len(a)
    BY TextLen
  <1> DEFINE S == {i \in Nat : i <= n => ReadTo(F, p, f, a, g, o, k, i)}
  <1>2. 0 \in S
    OBVIOUS
  <1>3. ASSUME NEW i \in Nat, i \in S PROVE i + 1 \in S
    <2> SUFFICES ASSUME i + 1 <= n PROVE ReadTo(F, p, f, a, g, o, k, i + 1)
      OBVIOUS
    <2>1. ReadTo(F, p, f, a, g, o, k, i)
      BY <1>3
    <2> QED BY <1>1, <2>1, ReadOn
  <1> HIDE DEF S
  <1>4. n \in S
    BY <1>2, <1>3, CountUp
  <1> QED BY <1>1, <1>4 DEF S

\* The scan has found the arguments os, the last one perhaps up to here.
Found(st, os) ==
  \/ st = Word(os, <<>>, "blank", 0)
  \/ \E o \in Seq(Texts), t \in Texts, b \in Nat :
        st = Word(o, t, "plain", b) /\ Append(o, t \o Repeat(Slash, b)) = os

(* Behind a separator the next argument begins. *)
LEMMA ReadSeparator ==
  ASSUME NEW F \in Texts, NEW p \in Nat, NEW f, Follows(F, p, f), NEW m \in Nat, p <= m, m + 1 <= Len(F),
         F[m + 1] = Space, NEW os \in Seq(Texts), Found(f[m], os)
  PROVE  f[m + 1] = Word(os, <<>>, "blank", 0)
  <1>1. f[m + 1] = LaterStep(F, m + 1, f[m])
    BY DEF Follows
  <1>2. CASE f[m] = Word(os, <<>>, "blank", 0)
    BY <1>1, <1>2, ReadFirstSpace
  <1>3. CASE ~(f[m] = Word(os, <<>>, "blank", 0))
    <2>1. PICK o \in Seq(Texts), t \in Texts, b \in Nat :
             f[m] = Word(o, t, "plain", b) /\ Append(o, t \o Repeat(Slash, b)) = os
      BY <1>3 DEF Found
    <2>2. LaterStep(F, m + 1, Word(o, t, "plain", b)) = Word(Append(o, t \o Repeat(Slash, b)), <<>>, "blank", 0)
      BY ReadSpace
    <2> QED BY <1>1, <2>1, <2>2, Zenon
  <1> QED BY <1>2, <1>3

(* No character of an argument. *)
LEMMA ReadNone ==
  ASSUME NEW F \in Texts, NEW p \in Nat, NEW f, NEW a \in Texts, NEW g, NEW o \in Seq(Texts), NEW k \in Kinds,
         p <= Len(g[0].out), g[0].bs = 0, f[Len(g[0].out)] = Word(o, <<>>, k, 0)
  PROVE  ReadTo(F, p, f, a, g, o, k, 0)
  <1>1. SubSeq(a, 1, 0) = <<>>
    BY TextLen
  <1>2. <<>> \in Texts
    BY TextNone
  <1>3. <<>> \o Repeat(Slash, 0) = <<>>
    BY <1>2, RepeatNone
  <1>4. Reading(f[Len(g[0].out)], o, SubSeq(a, 1, 0), k, g[0].bs)
    BY <1>1, <1>2, <1>3 DEF Reading
  <1>5. ~(0 > 0)
    OBVIOUS
  <1> QED BY <1>4, <1>5 DEF ReadTo

(* All its characters. *)
LEMMA PrefixAll == ASSUME NEW a \in Texts PROVE SubSeq(a, 1, Len(a)) = a
  <1>1. a \in Seq(Chars) /\ Len(a) \in Nat
    BY TextLen
  <1>2. PICK x : x = SubSeq(a, 1, Len(a))
    OBVIOUS
  <1>3. x \in Texts /\ Len(x) = Len(a) /\ \A i \in 1 .. Len(a) : x[i] = a[i]
    <2>1. CASE Len(a) = 0
      BY <1>1, <1>2, <2>1 DEF Texts
    <2>2. CASE Len(a) # 0
      BY <1>1, <1>2, <2>2 DEF Texts
    <2> QED BY <2>1, <2>2
  <1>4. x = a
    BY <1>3, TextEqual
  <1> QED BY <1>2, <1>4

(* The end of an argument in quotes. *)
LEMMA ReadClosing ==
  ASSUME NEW F \in Texts, NEW p \in Nat, NEW f, Follows(F, p, f), NEW l \in Nat, p <= l,
         NEW b \in Nat, SlashesAt(F, l, b), NEW m \in Nat, m = l + b, QuoteAt(F, m), ~QuoteAt(F, m + 1),
         NEW o \in Seq(Texts), NEW a \in Texts, Reading(f[l], o, a, "quoted", b)
  PROVE  Found(f[m + 1], Append(o, a))
  <1>1. PICK t \in Texts : f[l] = Word(o, t, "quoted", b) /\ t \o Repeat(Slash, b) = a
    BY DEF Reading
  <1>2. PICK d \in Nat : d = b + b
    OBVIOUS
  <1>3. "quoted" \in Kinds
    BY DEF Kinds
  <1>4. PICK h \in Kinds : On(h) = On("quoted") /\ f[m] = Word(o, t, h, d)
    BY <1>1, <1>2, <1>3, ReadSlashes
  <1>5. h = "quoted"
    BY <1>4 DEF On
  <1>6. f[m + 1] = LaterStep(F, m + 1, f[m])
    BY DEF Follows, QuoteAt
  <1>7. ~(m + 1 < Len(F) /\ F[(m + 1) + 1] = Quote)
    <2>1. Len(F) \in Nat
      BY TextLen
    <2> QED BY <2>1 DEF QuoteAt
  <1>8. LaterStep(F, m + 1, Word(o, t, "quoted", d)) = Word(o, t \o Repeat(Slash, b), "plain", 0)
    <2>1. F[m + 1] = Quote
      BY DEF QuoteAt
    <2> QED BY <1>2, <1>7, <2>1, ReadClose
  <1>9. f[m + 1] = Word(o, a, "plain", 0)
    BY <1>1, <1>4, <1>5, <1>6, <1>8
  <1>10. a \o Repeat(Slash, 0) = a
    BY RepeatNone
  <1> QED BY <1>9, <1>10 DEF Found

(* An argument in quotes. *)
LEMMA ReadQuoted ==
  ASSUME NEW F \in Texts, NEW p \in Nat, NEW f, Follows(F, p, f), NEW line \in Texts, p <= Len(line),
         NEW a \in Texts, NEW g, NEW res, WritesLater(line, a, F, g, res), ~QuoteAt(F, Len(res)),
         NEW os \in Seq(Texts), Found(f[Len(line)], os), LaterQuoted(a)
  PROVE  Found(f[Len(res)], Append(os, a))
  <1>0. PICK n \in Nat : n = Len(a)
    BY TextLen
  <1>1. /\ Wrote(a, g, F) /\ g[0].bs = 0 /\ Begins(res, F) /\ g[0].out = (line \o <<Space>>) \o <<Quote>>
        /\ res = (g[n].out \o Repeat(Slash, g[n].bs)) \o <<Quote>>
    BY <1>0 DEF WritesLater
  <1>2. Adding(g[0]) /\ Begins(g[0].out, F) /\ Adding(g[n])
    <2>1. Wrote(a, g, F) /\ 0 <= Len(a) /\ n <= Len(a) /\ 0 \in Nat
      BY <1>0, <1>1
    <2> QED BY <2>1 DEF Wrote
  <1>3. Space \in Chars /\ Quote \in Chars
    BY DEF Chars
  <1>4. PICK m \in Nat : m = Len(line)
    BY TextLen
  <1>5. PICK x \in Texts : x = line \o <<Space>>
    BY <1>3, TextOne, TextConcat
  <1>6. Len(g[0].out) = Len(x) + 1 /\ Len(x) + 1 <= Len(F) /\ F[Len(x) + 1] = Quote /\ Begins(x, F)
    <2>1. PICK y : y = g[0].out
      OBVIOUS
    <2>2. y = x \o <<Quote>> /\ Begins(y, F)
      BY <1>1, <1>2, <1>5, <2>1
    <2> QED BY <1>3, <2>1, <2>2, BeginsChar
  <1>7. Len(x) = m + 1 /\ m + 1 <= Len(F) /\ F[m + 1] = Space
    BY <1>3, <1>4, <1>5, <1>6, BeginsChar
  <1>8. f[m + 1] = Word(os, <<>>, "blank", 0)
    BY <1>4, <1>7, ReadSeparator
  <1>9. PICK e \in Nat : e = m + 1 /\ Len(x) = e /\ p <= e
    BY <1>4, <1>7
  <1>10. f[e + 1] = Word(os, <<>>, "quoted", 0)
    <2>1. f[e + 1] = LaterStep(F, e + 1, f[e])
      BY <1>6, <1>9 DEF Follows
    <2>2. LaterStep(F, e + 1, Word(os, <<>>, "blank", 0)) = Word(os, <<>>, "quoted", 0)
      BY <1>6, <1>9, ReadOpen
    <2> QED BY <1>8, <1>9, <2>1, <2>2
  <1>11. "quoted" \in Kinds /\ p <= Len(g[0].out) /\ f[Len(g[0].out)] = Word(os, <<>>, "quoted", 0)
    BY <1>6, <1>9, <1>10 DEF Kinds
  <1>12. ReadTo(F, p, f, a, g, os, "quoted", 0)
    BY <1>1, <1>11, ReadNone
  <1>13. ReadTo(F, p, f, a, g, os, "quoted", n)
    BY <1>0, <1>1, <1>11, <1>12, ReadAll
  <1>14. PICK h \in Kinds : /\ On(h) = On("quoted") /\ p <= Len(g[n].out)
                            /\ Reading(f[Len(g[n].out)], os, SubSeq(a, 1, n), h, g[n].bs)
    BY <1>13 DEF ReadTo
  <1>15. h = "quoted" /\ SubSeq(a, 1, n) = a
    BY <1>0, <1>14, PrefixAll DEF On
  <1>16. PICK y \in Texts : y = g[n].out
    BY <1>2 DEF Adding
  <1>17. PICK b \in Nat : b = g[n].bs
    BY <1>2 DEF Adding
  <1>18. PICK l \in Nat : l = Len(y)
    BY TextLen
  <1>19. PICK z : z = y \o Repeat(Slash, b)
    OBVIOUS
  <1>20. z \in Texts /\ res = z \o <<Quote>>
    <2>1. z \in Texts
      BY <1>19, TextRepeat, TextConcat
    <2>2. res = z \o <<Quote>>
      BY <1>1, <1>16, <1>17, <1>19
    <2> QED BY <2>1, <2>2
  <1>21. Len(res) = Len(z) + 1 /\ Len(z) + 1 <= Len(F) /\ F[Len(z) + 1] = Quote /\ Begins(z, F)
    BY <1>1, <1>3, <1>20, BeginsChar
  <1>22. Len(z) = Len(y) + b /\ SlashesAt(F, Len(y), b)
    BY <1>19, <1>21, BeginsSlashes
  <1>23. PICK w \in Nat : w = l + b
    OBVIOUS
  <1>24. Len(res) = w + 1 /\ QuoteAt(F, w) /\ ~QuoteAt(F, w + 1) /\ SlashesAt(F, l, b)
    BY <1>18, <1>21, <1>22, <1>23 DEF QuoteAt
  <1>25. Reading(f[l], os, a, "quoted", b) /\ p <= l
    BY <1>14, <1>15, <1>16, <1>17, <1>18
  <1>26. Found(f[w + 1], Append(os, a))
    BY <1>23, <1>24, <1>25, ReadClosing
  <1> QED BY <1>24, <1>26

(* An argument without quotes. *)
LEMMA ReadBare ==
  ASSUME NEW F \in Texts, NEW p \in Nat, NEW f, Follows(F, p, f), NEW line \in Texts, p <= Len(line),
         NEW a \in Texts, NEW g, NEW res, WritesLater(line, a, F, g, res),
         NEW os \in Seq(Texts), Found(f[Len(line)], os), ~LaterQuoted(a)
  PROVE  Found(f[Len(res)], Append(os, a))
  <1>0. PICK n \in Nat : n = Len(a)
    BY TextLen
  <1>1. /\ Wrote(a, g, F) /\ g[0].bs = 0 /\ g[0].out = line \o <<Space>> /\ res = g[n].out
    BY <1>0 DEF WritesLater
  <1>2. Adding(g[0]) /\ Begins(g[0].out, F) /\ Adding(g[n])
    <2>1. Wrote(a, g, F) /\ 0 <= Len(a) /\ n <= Len(a) /\ 0 \in Nat
      BY <1>0, <1>1
    <2> QED BY <2>1 DEF Wrote
  <1>3. Space \in Chars
    BY DEF Chars
  <1>4. PICK m \in Nat : m = Len(line)
    BY TextLen
  <1>5. Len(g[0].out) = m + 1 /\ m + 1 <= Len(F) /\ F[m + 1] = Space
    <2>1. PICK y : y = g[0].out
      OBVIOUS
    <2>2. y = line \o <<Space>> /\ Begins(y, F)
      BY <1>1, <1>2, <2>1
    <2> QED BY <1>3, <1>4, <2>1, <2>2, BeginsChar
  <1>6. f[m + 1] = Word(os, <<>>, "blank", 0)
    BY <1>4, <1>5, ReadSeparator
  <1>7. "blank" \in Kinds /\ p <= Len(g[0].out) /\ f[Len(g[0].out)] = Word(os, <<>>, "blank", 0)
    BY <1>4, <1>5, <1>6 DEF Kinds
  <1>8. ReadTo(F, p, f, a, g, os, "blank", 0)
    BY <1>1, <1>7, ReadNone
  <1>9. ReadTo(F, p, f, a, g, os, "blank", n)
    <2>1. ~Has(a, Space)
      BY DEF LaterQuoted
    <2> QED BY <1>0, <1>1, <1>7, <1>8, <2>1, ReadAll
  <1>10. n > 0
    BY <1>0, EmptySeq, TextLen DEF LaterQuoted
  <1>11. Reading(f[Len(g[n].out)], os, SubSeq(a, 1, n), On("blank"), g[n].bs)
    BY <1>9, <1>10 DEF ReadTo
  <1>12. Reading(f[Len(res)], os, a, "plain", g[n].bs) /\ g[n].bs \in Nat
    BY <1>0, <1>1, <1>2, <1>11, PrefixAll DEF On, Adding
  <1> QED BY <1>12 DEF Found, Reading

(* An argument that rebuild_cmdline wrote is read as it was. *)
LEMMA ReadArg ==
  ASSUME NEW F \in Texts, NEW p \in Nat, NEW f, Follows(F, p, f), NEW line \in Texts, p <= Len(line),
         NEW a \in Texts, NEW g, NEW res, WritesLater(line, a, F, g, res), ~QuoteAt(F, Len(res)),
         NEW os \in Seq(Texts), Found(f[Len(line)], os)
  PROVE  Found(f[Len(res)], Append(os, a))
  <1>1. CASE LaterQuoted(a)
    BY <1>1, ReadQuoted
  <1>2. CASE ~LaterQuoted(a)
    BY <1>2, ReadBare
  <1> QED BY <1>1, <1>2

(* Behind the line that an argument goes to there is a separator. *)
LEMMA WritesSpace ==
  ASSUME NEW F \in Texts, NEW line \in Texts, NEW a \in Texts, NEW g, NEW res, WritesLater(line, a, F, g, res)
  PROVE  Len(line) + 1 <= Len(F) /\ F[Len(line) + 1] = Space
  <1>1. Space \in Chars /\ Quote \in Chars
    BY DEF Chars
  <1>2. Wrote(a, g, F) /\ 0 <= Len(a) /\ 0 \in Nat
    BY TextLen DEF WritesLater
  <1>3. PICK y : y = g[0].out
    OBVIOUS
  <1>4. Begins(y, F)
    BY <1>2, <1>3 DEF Wrote
  <1>5. CASE LaterQuoted(a)
    <2>1. PICK x \in Texts : x = line \o <<Space>>
      BY <1>1, TextOne, TextConcat
    <2>2. y = x \o <<Quote>>
      BY <1>3, <1>5, <2>1 DEF WritesLater
    <2>3. Begins(x, F)
      BY <1>1, <1>4, <2>2, BeginsChar
    <2> QED BY <1>1, <2>1, <2>3, BeginsChar
  <1>6. CASE ~LaterQuoted(a)
    <2>1. y = line \o <<Space>>
      BY <1>3, <1>6 DEF WritesLater
    <2> QED BY <1>1, <1>4, <2>1, BeginsChar
  <1> QED BY <1>5, <1>6

\* The lines of a command line F, one argument longer each.
Laid(v, F, L) ==
  /\ \A k \in 1 .. Len(v) : L[k] \in Texts /\ Len(L[1]) <= Len(L[k])
  /\ L[Len(v)] = F
  /\ \A k \in 1 .. Len(v) : k + 1 <= Len(v) => \E g : WritesLater(L[k], v[k + 1], F, g, L[k + 1])

(* The arguments behind the first, one from the other. *)
LEMMA ArgsMore ==
  ASSUME NEW v \in Seq(Texts), NEW k \in Nat, k >= 1, k + 1 <= Len(v)
  PROVE  /\ SubSeq(v, 2, k) \in Seq(Texts) /\ v[k + 1] \in Texts
         /\ SubSeq(v, 2, k + 1) = Append(SubSeq(v, 2, k), v[k + 1])
  <1>2. v[k + 1] \in Texts
    OBVIOUS
  <1>3. PICK x : x = SubSeq(v, 2, k)
    OBVIOUS
  <1>4. x \in Seq(Texts) /\ Len(x) = k - 1 /\ \A j \in 1 .. k - 1 : x[j] = v[j + 1]
    <2>1. CASE k = 1
      BY <1>3, <2>1
    <2>2. CASE k # 1
      BY <1>3, <2>2
    <2> QED BY <2>1, <2>2
  <1>5. PICK y : y = SubSeq(v, 2, k + 1)
    OBVIOUS
  <1>6. y \in Seq(Texts) /\ Len(y) = k /\ \A j \in 1 .. k : y[j] = v[j + 1]
    BY <1>5
  <1>7. PICK z : z = Append(x, v[k + 1])
    OBVIOUS
  <1>8. z \in Seq(Texts) /\ Len(z) = k /\ z[k] = v[k + 1] /\ \A j \in 1 .. k - 1 : z[j] = x[j]
    BY <1>2, <1>4, <1>7
  <1>9. \A j \in 1 .. Len(y) : y[j] = z[j]
    <2> SUFFICES ASSUME NEW j \in 1 .. k PROVE y[j] = z[j]
      BY <1>6
    <2>1. CASE j = k
      BY <1>6, <1>8, <2>1
    <2>2. CASE j # k
      <3>1. j \in 1 .. k - 1
        BY <2>2
      <3> QED BY <1>4, <1>6, <1>8, <3>1
    <2> QED BY <2>1, <2>2
  <1>10. y = z
    BY <1>6, <1>8, <1>9, SeqEqual
  <1> QED BY <1>2, <1>3, <1>4, <1>5, <1>7, <1>10

(* What has been found at the end is what LaterArgs returns. *)
LEMMA FoundAll ==
  ASSUME NEW os \in Seq(Texts), NEW st, Found(st, os)
  PROVE  All(st) = os
  <1>1. CASE st = Word(os, <<>>, "blank", 0)
    BY <1>1 DEF Word, All
  <1>2. CASE ~(st = Word(os, <<>>, "blank", 0))
    <2>1. PICK o \in Seq(Texts), t \in Texts, b \in Nat :
             st = Word(o, t, "plain", b) /\ Append(o, t \o Repeat(Slash, b)) = os
      BY <1>2 DEF Found
    <2>2. st.open /\ st.out = o /\ Kept(st) = t \o Repeat(Slash, b)
      BY <2>1 DEF Word, Kept
    <2> QED BY <2>1, <2>2 DEF All
  <1> QED BY <1>1, <1>2

(* All arguments behind the first are read as they were written. *)
LEMMA ReadLater ==
  ASSUME NEW v \in Seq(Texts), v # <<>>, NEW F \in Texts, NEW L, Laid(v, F, L),
         NEW p \in Nat, p = Len(L[1]), NEW f, Follows(F, p, f)
  PROVE  Found(f[Len(F)], SubSeq(v, 2, Len(v)))
  <1>0. PICK n \in Nat : n = Len(v) /\ n >= 1
    BY EmptySeq
  <1>l. PICK e \in Nat : e = Len(F)
    BY TextLen
  <1> DEFINE S == {m \in Nat : m + 1 <= n => Found(f[Len(L[m + 1])], SubSeq(v, 2, m + 1))}
  <1>1. 0 \in S
    <2>1. f[Len(L[1])] = LaterStart
      BY DEF Follows
    <2>2. LaterStart = Word(<<>>, <<>>, "blank", 0)
      BY DEF LaterStart, Word
    <2>3. SubSeq(v, 2, 1) = <<>>
      OBVIOUS
    <2>4. Found(f[Len(L[1])], SubSeq(v, 2, 1))
      BY <2>1, <2>2, <2>3 DEF Found
    <2>5. 0 + 1 = 1
      OBVIOUS
    <2> QED BY <2>4, <2>5
  <1>2. ASSUME NEW m \in Nat, m \in S PROVE m + 1 \in S
    <2>1. PICK k \in Nat : k = m + 1 /\ k >= 1
      OBVIOUS
    <2> SUFFICES ASSUME k + 1 <= n PROVE Found(f[Len(L[k + 1])], SubSeq(v, 2, k + 1))
      BY <2>1
    <2>2. Found(f[Len(L[k])], SubSeq(v, 2, k))
      BY <1>2, <2>1
    <2>3. k \in 1 .. n /\ k + 1 \in 1 .. n
      BY <2>1
    <2>4. L[k] \in Texts /\ p <= Len(L[k]) /\ L[k + 1] \in Texts
      BY <1>0, <2>3 DEF Laid
    <2>5. PICK g : WritesLater(L[k], v[k + 1], F, g, L[k + 1])
      BY <1>0, <2>3 DEF Laid
    <2>6. ~QuoteAt(F, Len(L[k + 1]))
      <3>1. CASE k + 1 = n
        <4>1. Len(L[k + 1]) = e
          BY <1>0, <1>l, <3>1 DEF Laid
        <4> QED BY <1>l, <4>1 DEF QuoteAt
      <3>2. CASE k + 1 # n
        <4>0. PICK j \in Nat : j = k + 1 /\ j + 1 <= n /\ j \in 1 .. n /\ j + 1 \in 1 .. n
          BY <2>1, <3>2
        <4>1. PICK h : WritesLater(L[j], v[j + 1], F, h, L[j + 1])
          BY <1>0, <4>0 DEF Laid
        <4>2. v[j + 1] \in Texts /\ L[j] \in Texts
          BY <1>0, <2>4, <4>0
        <4>3. F[Len(L[j]) + 1] = Space
          BY <4>1, <4>2, WritesSpace
        <4> QED BY <4>0, <4>3 DEF QuoteAt, Space, Quote
      <3> QED BY <3>1, <3>2
    <2>7. SubSeq(v, 2, k) \in Seq(Texts) /\ v[k + 1] \in Texts /\ SubSeq(v, 2, k + 1) = Append(SubSeq(v, 2, k), v[k + 1])
      BY <1>0, <2>1, ArgsMore
    <2>8. Found(f[Len(L[k + 1])], Append(SubSeq(v, 2, k), v[k + 1]))
      BY <2>2, <2>4, <2>5, <2>6, <2>7, ReadArg
    <2> QED BY <2>7, <2>8
  <1> HIDE DEF S
  <1>3. \A m \in Nat : m \in S
    BY <1>1, <1>2, CountUp
  <1>4. PICK m \in Nat : m + 1 = n
    <2>1. n - 1 \in Nat /\ (n - 1) + 1 = n
      BY <1>0
    <2> QED BY <2>1
  <1>5. Found(f[Len(L[n])], SubSeq(v, 2, n))
    <2>1. m \in S
      BY <1>3
    <2>2. m + 1 <= n => Found(f[Len(L[m + 1])], SubSeq(v, 2, m + 1))
      BY <2>1 DEF S
    <2> QED BY <1>4, <2>2
  <1>6. L[n] = F
    BY <1>0 DEF Laid
  <1> QED BY <1>0, <1>5, <1>6

(* A part of a text, by its characters. *)
LEMMA PartIs ==
  ASSUME NEW F \in Texts, NEW a \in Texts, NEW d \in Nat, d + Len(a) <= Len(F), \A i \in 1 .. Len(a) : F[d + i] = a[i],
         NEW x \in Nat, x = d + 1, NEW y \in Int, y = d + Len(a)
  PROVE  SubSeq(F, x, y) = a
  <1>1. F \in Seq(Chars) /\ Len(F) \in Nat
    BY TextLen
  <1>2. PICK n \in Nat : n = Len(a)
    BY TextLen
  <1>3. PICK s : s = SubSeq(F, x, y)
    OBVIOUS
  <1>4. s \in Texts /\ Len(s) = n /\ \A i \in 1 .. n : s[i] = F[d + i]
    <2>1. CASE n = 0
      BY <1>1, <1>2, <1>3, <2>1 DEF Texts
    <2>2. CASE n # 0
      BY <1>1, <1>2, <1>3, <2>2 DEF Texts
    <2> QED BY <2>1, <2>2
  <1>5. \A i \in 1 .. Len(s) : s[i] = a[i]
    BY <1>2, <1>4
  <1>6. s = a
    BY <1>2, <1>4, <1>5, TextEqual
  <1> QED BY <1>3, <1>6

(* The least of some numbers is the one that CHOOSE finds. *)
LEMMA LeastIs ==
  ASSUME NEW T \in SUBSET Nat, NEW m \in T, \A j \in T : m <= j
  PROVE  (CHOOSE i \in T : \A j \in T : i <= j) = m
  <1>1. PICK x : x = CHOOSE i \in T : \A j \in T : i <= j
    OBVIOUS
  <1>2. x \in T /\ \A j \in T : x <= j
    BY <1>1
  <1>3. x <= m /\ m <= x /\ x \in Nat /\ m \in Nat
    BY <1>2
  <1> QED BY <1>1, <1>3

(* The first argument, in quotes. *)
LEMMA ReadFirstQuoted ==
  ASSUME NEW F \in Texts, NEW a \in Texts, ~Has(a, Quote), NEW n \in Nat, n = Len(a),
         n + 2 <= Len(F), F[1] = Quote, \A i \in 1 .. n : F[1 + i] = a[i], F[n + 2] = Quote
  PROVE  CommandLineToArgvW(F) = <<a>> \o LaterArgs(SubSeq(F, (n + 2) + 1, Len(F)))
  <1>1. PICK l \in Nat : l = Len(F)
    BY TextLen
  <1>2. F # <<>> /\ (F # <<>> /\ F[1] = Quote)
    BY <1>1
  <1>3. PICK ends : ends = {i \in 2 .. l : F[i] = Quote}
    OBVIOUS
  <1>4. n + 2 \in ends /\ ends \in SUBSET Nat
    BY <1>1, <1>3
  <1>5. \A j \in ends : n + 2 <= j
    <2> SUFFICES ASSUME NEW j \in ends, ~(n + 2 <= j) PROVE FALSE
      OBVIOUS
    <2>1. j \in 2 .. n + 1 /\ F[j] = Quote
      BY <1>3
    <2>2. PICK i \in 1 .. n : 1 + i = j
      <3>1. j - 1 \in 1 .. n /\ 1 + (j - 1) = j
        BY <2>1
      <3> QED BY <3>1
    <2>3. a[i] = Quote
      BY <2>1, <2>2
    <2> QED BY <2>3 DEF Has
  <1>6. (CHOOSE i \in ends : \A j \in ends : i <= j) = n + 2
    BY <1>4, <1>5, LeastIs
  <1>7. ends # {}
    BY <1>4
  <1> DEFINE quoted == F # <<>> /\ F[1] = Quote
             from == IF quoted THEN 2 ELSE 1
             some == {i \in from .. Len(F) : F[i] = IF quoted THEN Quote ELSE Space}
             end == IF some = {} THEN Len(F) + 1 ELSE CHOOSE i \in some : \A j \in some : i <= j
  <1>7a. CommandLineToArgvW(F) = <<SubSeq(F, from, end - 1)>> \o LaterArgs(SubSeq(F, IF quoted THEN end + 1 ELSE end, Len(F)))
    BY <1>2, Zenon DEF CommandLineToArgvW
  <1>8. quoted /\ from = 2 /\ some = ends
    BY <1>1, <1>2, <1>3
  <1>8a. end = n + 2
    <2> HIDE DEF some
    <2> QED BY <1>6, <1>7, <1>8, Zenon
  <1> HIDE DEF quoted, from, end
  <1>9. CommandLineToArgvW(F) = <<SubSeq(F, 2, (n + 2) - 1)>> \o LaterArgs(SubSeq(F, (n + 2) + 1, Len(F)))
    BY <1>7a, <1>8, <1>8a, Zenon
  <1>10. SubSeq(F, 2, (n + 2) - 1) = a
    <2>1. PICK d \in Nat : d = 1 /\ d + n <= Len(F) /\ 2 = d + 1 /\ (n + 2) - 1 = d + n /\ (n + 2) - 1 \in Int
      BY <1>1
    <2>2. \A i \in 1 .. Len(a) : F[d + i] = a[i]
      BY <2>1
    <2> QED BY <2>1, <2>2, PartIs
  <1> QED BY <1>9, <1>10

(* The first argument, without quotes. *)
LEMMA ReadFirstBare ==
  ASSUME NEW F \in Texts, NEW a \in Texts, ~Has(a, Quote), ~Has(a, Space), NEW n \in Nat, n = Len(a), n > 0,
         n <= Len(F), \A i \in 1 .. n : F[i] = a[i], n + 1 <= Len(F) => F[n + 1] = Space
  PROVE  CommandLineToArgvW(F) = <<a>> \o LaterArgs(SubSeq(F, n + 1, Len(F)))
  <1>1. PICK l \in Nat : l = Len(F)
    BY TextLen
  <1>2. F # <<>> /\ ~(F # <<>> /\ F[1] = Quote)
    <2>1. 1 \in 1 .. n /\ F[1] = a[1]
      OBVIOUS
    <2>2. a[1] # Quote
      BY <2>1 DEF Has
    <2> QED BY <1>1, <2>1, <2>2
  <1>3. PICK ends : ends = {i \in 1 .. l : F[i] = Space}
    OBVIOUS
  <1>4. \A j \in ends : n + 1 <= j
    <2> SUFFICES ASSUME NEW j \in ends, ~(n + 1 <= j) PROVE FALSE
      OBVIOUS
    <2>1. j \in 1 .. n /\ F[j] = Space
      BY <1>3
    <2>3. a[j] = Space
      BY <2>1
    <2> QED BY <2>1, <2>3 DEF Has
  <1>5. (IF ends = {} THEN l + 1 ELSE CHOOSE i \in ends : \A j \in ends : i <= j) = n + 1
    <2>1. CASE n = l
      <3>1. ends = {}
        BY <1>3, <1>4, <2>1
      <3> QED BY <2>1, <3>1
    <2>2. CASE n # l
      <3>1. n + 1 \in ends /\ ends \in SUBSET Nat
        BY <1>1, <1>3, <2>2
      <3>2. (CHOOSE i \in ends : \A j \in ends : i <= j) = n + 1
        BY <1>4, <3>1, LeastIs
      <3> QED BY <3>1, <3>2
    <2> QED BY <2>1, <2>2
  <1> DEFINE quoted == F # <<>> /\ F[1] = Quote
             from == IF quoted THEN 2 ELSE 1
             some == {i \in from .. Len(F) : F[i] = IF quoted THEN Quote ELSE Space}
             end == IF some = {} THEN Len(F) + 1 ELSE CHOOSE i \in some : \A j \in some : i <= j
  <1>7a. CommandLineToArgvW(F) = <<SubSeq(F, from, end - 1)>> \o LaterArgs(SubSeq(F, IF quoted THEN end + 1 ELSE end, Len(F)))
    BY <1>2, Zenon DEF CommandLineToArgvW
  <1>8. ~quoted /\ from = 1 /\ some = ends
    BY <1>1, <1>2, <1>3
  <1>8a. end = n + 1
    <2> HIDE DEF some
    <2> QED BY <1>1, <1>5, <1>8, Zenon
  <1> HIDE DEF quoted, from, end
  <1>9. CommandLineToArgvW(F) = <<SubSeq(F, 1, (n + 1) - 1)>> \o LaterArgs(SubSeq(F, n + 1, Len(F)))
    BY <1>7a, <1>8, <1>8a, Zenon
  <1>10. SubSeq(F, 1, (n + 1) - 1) = a
    <2>1. (n + 1) - 1 = n
      OBVIOUS
    <2>2. SubSeq(F, 1, n) \in Texts /\ Len(SubSeq(F, 1, n)) = n /\ \A i \in 1 .. n : SubSeq(F, 1, n)[i] = F[i]
      BY <1>1, TextLen DEF Texts
    <2>3. SubSeq(F, 1, n) = a
      BY <2>2, TextEqual
    <2> QED BY <2>1, <2>3
  <1> QED BY <1>9, <1>10

(* An argument vector is its first argument and the later ones. *)
LEMMA FirstAndLater ==
  ASSUME NEW v \in Seq(Texts), v # <<>>
  PROVE  <<v[1]>> \o SubSeq(v, 2, Len(v)) = v
  <1>0. PICK n \in Nat : n = Len(v) /\ n >= 1
    BY EmptySeq
  <1>1. PICK x : x = SubSeq(v, 2, n)
    OBVIOUS
  <1>2. x \in Seq(Texts) /\ Len(x) = n - 1 /\ \A j \in 1 .. n - 1 : x[j] = v[j + 1]
    <2>1. CASE n = 1
      BY <1>0, <1>1, <2>1
    <2>2. CASE n # 1
      BY <1>0, <1>1, <2>2
    <2> QED BY <2>1, <2>2
  <1>3. PICK y : y = <<v[1]>>
    OBVIOUS
  <1>4. y \in Seq(Texts) /\ Len(y) = 1 /\ y[1] = v[1]
    BY <1>0, <1>3
  <1>5. PICK z : z = y \o x
    OBVIOUS
  <1>6. z \in Seq(Texts) /\ Len(z) = n /\ z[1] = v[1] /\ \A j \in 1 .. n - 1 : z[1 + j] = x[j]
    <2>0. y \in Seq(Texts) /\ x \in Seq(Texts)
      BY <1>2, <1>4
    <2>c. /\ y \o x \in Seq(Texts) /\ Len(y \o x) = Len(y) + Len(x)
          /\ \A i \in 1 .. Len(y) + Len(x) : (y \o x)[i] = IF i <= Len(y) THEN y[i] ELSE x[i - Len(y)]
      BY <2>0, ConcatProperties, Zenon
    <2>1. z \in Seq(Texts) /\ Len(z) = n
      BY <1>0, <1>2, <1>4, <1>5, <2>c
    <2>2. \A i \in 1 .. Len(y) + Len(x) : z[i] = IF i <= Len(y) THEN y[i] ELSE x[i - Len(y)]
      BY <1>5, <2>c, Zenon
    <2>3. z[1] = v[1]
      BY <1>0, <1>2, <1>4, <2>2
    <2>4. ASSUME NEW j \in 1 .. n - 1 PROVE z[1 + j] = x[j]
      <3>1. 1 + j \in 1 .. n /\ ~(1 + j <= 1) /\ (1 + j) - 1 = j /\ 1 + (n - 1) = n
        BY <1>0
      <3> QED BY <1>2, <1>4, <2>2, <3>1
    <2> QED BY <2>1, <2>3, <2>4
  <1>7. \A i \in 1 .. Len(z) : z[i] = v[i]
    <2> SUFFICES ASSUME NEW i \in 1 .. n PROVE z[i] = v[i]
      BY <1>6
    <2>1. CASE i = 1
      BY <1>6, <2>1
    <2>2. CASE i # 1
      <3>1. PICK j \in 1 .. n - 1 : 1 + j = i /\ j + 1 = i
        <4>1. i - 1 \in 1 .. n - 1 /\ 1 + (i - 1) = i /\ (i - 1) + 1 = i
          BY <2>2
        <4> QED BY <4>1
      <3> QED BY <1>2, <1>6, <3>1
    <2> QED BY <2>1, <2>2
  <1>8. z = v
    BY <1>0, <1>6, <1>7, SeqEqual
  <1> QED BY <1>0, <1>1, <1>3, <1>5, <1>8

\* The first line holds the first argument, in quotes or as it is.
FirstIs(a, x) ==
  \/ x = (<<Quote>> \o a) \o <<Quote>>
  \/ x = a /\ a # <<>> /\ ~Has(a, Space)

(* A line that begins with a text in quotes. *)
LEMMA BeginsQuoted ==
  ASSUME NEW F \in Texts, NEW a \in Texts, NEW n \in Nat, n = Len(a),
         NEW x, x = (<<Quote>> \o a) \o <<Quote>>, Begins(x, F)
  PROVE  /\ Len(x) = n + 2 /\ n + 2 <= Len(F) /\ F[1] = Quote /\ F[n + 2] = Quote
         /\ \A i \in 1 .. n : F[1 + i] = a[i]
  <1>1. Quote \in Chars
    BY DEF Chars
  <1>2. PICK q \in Texts : q = <<Quote>> /\ Len(q) = 1 /\ q[1] = Quote
    BY <1>1, TextOne
  <1>3. PICK y : y = q \o a
    OBVIOUS
  <1>4. y \in Texts /\ Len(y) = 1 + n
    BY <1>2, <1>3, TextConcat
  <1>5. x = y \o <<Quote>>
    BY <1>2, <1>3
  <1>6. Len(x) = Len(y) + 1 /\ Len(y) + 1 <= Len(F) /\ F[Len(y) + 1] = Quote /\ Begins(y, F)
    BY <1>1, <1>4, <1>5, BeginsChar
  <1>7. Begins(q \o a, F)
    BY <1>3, <1>6
  <1>8. \A i \in 1 .. Len(a) : F[Len(q) + i] = a[i]
    BY <1>7, BeginsTail
  <1>9. F[1] = Quote
    <2>1. Begins(q, F)
      BY <1>7, BeginsHead
    <2> QED BY <1>2, <2>1 DEF Begins
  <1> QED BY <1>2, <1>4, <1>6, <1>8, <1>9

(* The first argument of a line. *)
LEMMA ReadFirst ==
  ASSUME NEW F \in Texts, NEW a \in Texts, ~Has(a, Quote), NEW x, FirstIs(a, x), Begins(x, F),
         NEW p \in Nat, p = Len(x), x = a /\ p + 1 <= Len(F) => F[p + 1] = Space
  PROVE  CommandLineToArgvW(F) = <<a>> \o LaterArgs(SubSeq(F, p + 1, Len(F)))
  <1>1. PICK n \in Nat : n = Len(a)
    BY TextLen
  <1>2. CASE x = (<<Quote>> \o a) \o <<Quote>>
    <2>9. /\ Len(x) = n + 2 /\ n + 2 <= Len(F) /\ F[1] = Quote /\ F[n + 2] = Quote
          /\ \A i \in 1 .. n : F[1 + i] = a[i]
      BY <1>1, <1>2, BeginsQuoted, ZenonT(60)
    <2>10. p = n + 2
      BY <2>9
    <2>11. CommandLineToArgvW(F) = <<a>> \o LaterArgs(SubSeq(F, (n + 2) + 1, Len(F)))
      BY <1>1, <2>9, ReadFirstQuoted
    <2> QED BY <2>10, <2>11
  <1>3. CASE x = a /\ a # <<>> /\ ~Has(a, Space)
    <2>1. n > 0
      BY <1>1, <1>3, EmptySeq, TextLen
    <2>2. n <= Len(F) /\ (\A i \in 1 .. n : F[i] = a[i]) /\ (n + 1 <= Len(F) => F[n + 1] = Space) /\ p = n
      BY <1>1, <1>3 DEF Begins
    <2>3. CommandLineToArgvW(F) = <<a>> \o LaterArgs(SubSeq(F, n + 1, Len(F)))
      BY <1>1, <1>3, <2>1, <2>2, ReadFirstBare
    <2> QED BY <2>2, <2>3
  <1> QED BY <1>2, <1>3 DEF FirstIs

(* A line whose arguments were written one by one is split into them. *)
LEMMA ReadWhole ==
  ASSUME NEW v \in Seq(Texts), v # <<>>, ~Has(v[1], Quote), NEW F \in Texts, NEW L, Laid(v, F, L),
         FirstIs(v[1], L[1]), Begins(L[1], F)
  PROVE  CommandLineToArgvW(F) = v
  <1>0. PICK n \in Nat : n = Len(v) /\ n >= 1
    BY EmptySeq
  <1>1. L[1] \in Texts /\ v[1] \in Texts
    BY <1>0 DEF Begins
  <1>2. PICK p \in Nat : p = Len(L[1]) /\ p <= Len(F)
    BY <1>1, TextLen DEF Begins
  <1>3. PICK f : Follows(F, p, f) /\ LaterArgs(SubSeq(F, p + 1, Len(F))) = All(f[Len(F)])
    BY <1>2, LaterArgsFollows
  <1>4. Found(f[Len(F)], SubSeq(v, 2, n))
    BY <1>0, <1>2, <1>3, ReadLater
  <1>5. SubSeq(v, 2, n) \in Seq(Texts)
    BY <1>0
  <1>6. All(f[Len(F)]) = SubSeq(v, 2, n)
    BY <1>4, <1>5, FoundAll
  <1>7. L[1] = v[1] /\ p + 1 <= Len(F) => F[p + 1] = Space
    <2> SUFFICES ASSUME p + 1 <= Len(F) PROVE F[p + 1] = Space
      OBVIOUS
    <2>1. n # 1
      <3> SUFFICES ASSUME n = 1 PROVE FALSE
        OBVIOUS
      <3>1. L[1] = F
        BY <1>0 DEF Laid
      <3> QED BY <1>2, <3>1
    <2>2. 1 \in 1 .. n /\ 1 + 1 <= n
      BY <1>0, <2>1
    <2>3. PICK g : WritesLater(L[1], v[1 + 1], F, g, L[1 + 1])
      BY <1>0, <2>2 DEF Laid
    <2>4. PICK a \in Texts : a = v[1 + 1]
      BY <1>0, <2>2
    <2>5. PICK r : r = L[1 + 1]
      OBVIOUS
    <2>6. WritesLater(L[1], a, F, g, r)
      BY <2>3, <2>4, <2>5, Zenon
    <2> QED BY <1>1, <1>2, <2>6, WritesSpace
  <1>8. CommandLineToArgvW(F) = <<v[1]>> \o LaterArgs(SubSeq(F, p + 1, Len(F)))
    BY <1>1, <1>2, <1>7, ReadFirst
  <1> QED BY <1>0, <1>3, <1>6, <1>8, FirstAndLater, Zenon

-----------------------------------------------------------------------------
(* Texts one after the other. *)
LEMMA TextAssoc ==
  ASSUME NEW t \in Texts, NEW u \in Texts, NEW w \in Texts
  PROVE  (t \o u) \o w = t \o (u \o w)
  BY ConcatAssociative DEF Texts

(* What rebuild_cmdline writes is of that form.  An argument behind the first: *)
LEMMA AddLater ==
  ASSUME NEW line \in Texts, Len(line) <= Cap, NEW first, ~first, NEW a \in Texts,
         NEW F, Begins(AddArg(line, first, a), F), Len(F) < Cap
  PROVE  \E g : WritesLater(line, a, F, g, AddArg(line, first, a))
  <1>1. PICK g : Writes(line, first, a, F, g, AddArg(line, first, a))
    BY AddArgIs
  <1>2. PICK n \in Nat : n = Len(a)
    BY TextLen
  <1>3. Quoted(first, a) <=> LaterQuoted(a)
    BY DEF Quoted, LaterQuoted
  <1>4. Wrote(a, g, F)
    <2>1. \A i \in Nat : i + 1 <= Len(a) => Later(a[i + 1], g[i], g[i + 1])
      BY <1>1, Zenon DEF Writes, Added, Later
    <2> QED BY <1>1, <2>1, Zenon DEF Writes, Wrote
  <1>5. g[0].bs = 0 /\ g[0].out = line \o Opening(first, a)
    BY <1>1, Zenon DEF Writes
  <1>6. PICK sp \in Texts : sp = <<Space>>
    BY TextOne DEF Chars
  <1>7. PICK qu \in Texts : qu = <<Quote>>
    BY TextOne DEF Chars
  <1>8. ASSUME LaterQuoted(a) PROVE g[0].out = (line \o <<Space>>) \o <<Quote>>
    <2>1. Opening(first, a) = sp \o qu
      BY <1>3, <1>6, <1>7, <1>8, Zenon DEF Opening
    <2>2. (line \o sp) \o qu = line \o (sp \o qu)
      BY TextAssoc
    <2> QED BY <1>5, <1>6, <1>7, <2>1, <2>2, Zenon
  <1>9. ASSUME ~LaterQuoted(a) PROVE g[0].out = line \o <<Space>>
    <2>1. Opening(first, a) = sp \o <<>>
      BY <1>3, <1>6, <1>9, Zenon DEF Opening
    <2>2. sp \o <<>> = sp
      BY ConcatEmptySeq, TextLen
    <2> QED BY <1>5, <1>6, <2>1, <2>2, Zenon
  <1>10. PICK res : res = AddArg(line, first, a)
    OBVIOUS
  <1>11. res = IF Quoted(first, a) THEN g[n].out \o Closing(first, g[n].bs) ELSE g[n].out
    BY <1>1, <1>2, <1>10, Zenon DEF Writes
  <1>12. Adding(g[n])
    BY <1>2, <1>4 DEF Wrote
  <1>13. ASSUME LaterQuoted(a) PROVE res = (g[n].out \o Repeat(Slash, g[n].bs)) \o <<Quote>>
    <2>1. PICK b \in Nat : b = g[n].bs
      BY <1>12 DEF Adding
    <2>2. PICK y \in Texts : y = g[n].out
      BY <1>12 DEF Adding
    <2>3. Closing(first, b) = Repeat(Slash, b) \o <<Quote>>
      BY ClosingIs
    <2>4. res = y \o Closing(first, b)
      BY <1>3, <1>11, <1>13, <2>1, <2>2, Zenon
    <2>5. PICK r \in Texts : r = Repeat(Slash, b)
      BY TextRepeat
    <2>6. y \o (r \o qu) = (y \o r) \o qu
      BY TextAssoc, SMTT(40)
    <2> QED BY <1>7, <2>1, <2>2, <2>3, <2>4, <2>5, <2>6, Zenon
  <1>14. ASSUME ~LaterQuoted(a) PROVE res = g[n].out
    BY <1>3, <1>11, <1>14, Zenon
  <1>15. Begins(res, F)
    BY <1>10
  <1>16. WritesLater(line, a, F, g, res)
    BY <1>2, <1>4, <1>5, <1>8, <1>9, <1>13, <1>14, <1>15, Zenon DEF WritesLater
  <1> QED BY <1>10, <1>16, Zenon

(* The first argument is put down as it is. *)
LEMMA AddFirst ==
  ASSUME NEW first, first, NEW a \in Texts, NEW F, Begins(AddArg(<<>>, first, a), F), Len(F) < Cap
  PROVE  FirstIs(a, AddArg(<<>>, first, a))
  <1>0. <<>> \in Texts /\ Len(<<>>) <= Cap
    BY TextNone, ArgvAssumption
  <1>1. PICK g : Writes(<<>>, first, a, F, g, AddArg(<<>>, first, a))
    BY <1>0, AddArgIs
  <1>2. PICK n \in Nat : n = Len(a)
    BY TextLen
  <1>3. PICK w \in Texts : w = IF Quoted(first, a) THEN <<Quote>> ELSE <<>>
    BY TextNone, TextOne DEF Chars
  <1>4. <<>> \o w = w
    BY ConcatEmptySeq, TextLen
  <1>5. Opening(first, a) = <<>> \o w
    BY <1>3, Zenon DEF Opening
  <1>6. g[0].out = w
    <2>1. g[0].out = <<>> \o Opening(first, a)
      BY <1>1, Zenon DEF Writes
    <2> QED BY <1>4, <1>5, <2>1, Zenon
  <1> DEFINE S == {i \in Nat : i <= n => g[i].out = w \o SubSeq(a, 1, i)}
  <1>7. 0 \in S
    <2>1. SubSeq(a, 1, 0) = <<>>
      BY TextLen
    <2>2. w \o <<>> = w
      BY ConcatEmptySeq, TextLen
    <2> QED BY <1>6, <2>1, <2>2
  <1>8. ASSUME NEW i \in Nat, i \in S PROVE i + 1 \in S
    <2> SUFFICES ASSUME i + 1 <= n PROVE g[i + 1].out = w \o SubSeq(a, 1, i + 1)
      OBVIOUS
    <2>1. g[i].out = w \o SubSeq(a, 1, i)
      BY <1>8
    <2>2. Added(first, a[i + 1], g[i], g[i + 1])
      BY <1>1, <1>2 DEF Writes
    <2>3. PICK c \in Chars : c = a[i + 1]
      BY <1>2, PrefixMore
    <2>4. PICK x \in Texts : x = SubSeq(a, 1, i)
      BY <1>2, PrefixMore
    <2>5. g[i + 1].out = g[i].out \o <<c>>
      BY <2>2, <2>3, Zenon DEF Added
    <2>6. SubSeq(a, 1, i + 1) = Append(x, c)
      BY <1>2, <2>3, <2>4, PrefixMore
    <2>7. PICK y \in Texts : y = <<c>>
      BY TextOne
    <2>8. Append(x, c) = x \o <<c>>
      BY AppendIsConcat, TextLen
    <2>9. (w \o x) \o y = w \o (x \o y)
      BY TextAssoc
    <2> QED BY <2>1, <2>4, <2>5, <2>6, <2>7, <2>8, <2>9, Zenon
  <1> HIDE DEF S
  <1>9. n \in S
    BY <1>7, <1>8, CountUp
  <1>10. g[n].out = w \o a
    <2>1. g[n].out = w \o SubSeq(a, 1, n)
      BY <1>9 DEF S
    <2> QED BY <1>2, <2>1, PrefixAll
  <1>11. PICK res : res = AddArg(<<>>, first, a)
    OBVIOUS
  <1>12. res = IF Quoted(first, a) THEN g[n].out \o Closing(first, g[n].bs) ELSE g[n].out
    BY <1>1, <1>2, <1>11, Zenon DEF Writes
  <1>13. CASE Quoted(first, a)
    <2>1. g[n].bs \in Nat
      BY <1>1, <1>2 DEF Writes, Adding
    <2>2. Closing(first, g[n].bs) = <<Quote>>
      BY <2>1, ClosingIs
    <2>3. res = (<<Quote>> \o a) \o <<Quote>>
      BY <1>3, <1>10, <1>12, <1>13, <2>2, Zenon
    <2> QED BY <1>11, <2>3, Zenon DEF FirstIs
  <1>14. CASE ~Quoted(first, a)
    <2>1. w = <<>>
      BY <1>3, <1>14
    <2>2. res = <<>> \o a
      BY <1>10, <1>12, <1>14, <2>1, Zenon
    <2>3. <<>> \o a = a
      BY ConcatEmptySeq, TextLen
    <2>4. a # <<>> /\ ~Has(a, Space)
      BY <1>14, Zenon DEF Quoted
    <2> QED BY <1>11, <2>2, <2>3, <2>4, Zenon DEF FirstIs
  <1> QED BY <1>13, <1>14

-----------------------------------------------------------------------------
\* The line with one argument more.
LineStep(v, k, x) == AddArg(x, k = 1, v[k])

\* The recursion of Joined, as far as n.
Lined(v, g, n) == g = [k \in 0 .. n |-> IF k = 0 THEN <<>> ELSE LineStep(v, k, g[k - 1])]

(* Some function satisfies it. *)
LEMMA LinedExist ==
  ASSUME NEW v
  PROVE  \A n \in Nat : \E g : Lined(v, g, n)
  <1> DEFINE S == {n \in Nat : \E g : Lined(v, g, n)}
  <1>1. 0 \in S
    <2> DEFINE g == [k \in 0 .. 0 |-> <<>>]
    <2>1. Lined(v, g, 0)
      BY DEF Lined
    <2> QED BY <2>1
  <1>2. ASSUME NEW n \in Nat, n \in S PROVE n + 1 \in S
    <2>1. PICK f : Lined(v, f, n)
      BY <1>2
    <2> DEFINE g == [k \in 0 .. n + 1 |-> IF k = 0 THEN <<>> ELSE LineStep(v, k, f[k - 1])]
    <2>2. \A k \in 0 .. n : g[k] = f[k]
      BY <2>1 DEF Lined
    <2>3. ASSUME NEW k \in 0 .. n + 1 PROVE g[k] = IF k = 0 THEN <<>> ELSE LineStep(v, k, g[k - 1])
      <3>1. CASE k = 0
        BY <3>1
      <3>2. CASE k # 0
        <4>1. k - 1 \in 0 .. n
          BY <3>2
        <4> QED BY <4>1, <2>2, <3>2
      <3> QED BY <3>1, <3>2
    <2>4. Lined(v, g, n + 1)
      BY <2>3 DEF Lined
    <2> QED BY <2>4
  <1> HIDE DEF S
  <1>3. \A n \in Nat : n \in S
    BY <1>1, <1>2, CountUp
  <1> QED BY <1>3 DEF S

(* Its values, one from the other, and the last is the command line. *)
LEMMA JoinedLines ==
  ASSUME NEW v \in Seq(Texts)
  PROVE  \E g :
           /\ g[0] = <<>> /\ Joined(v) = g[Len(v)]
           /\ \A k \in Nat : k + 1 <= Len(v) => g[k + 1] = LineStep(v, k + 1, g[k])
  <1>1. PICK n \in Nat : n = Len(v)
    OBVIOUS
  <1>2. PICK g : g = (CHOOSE x : Lined(v, x, n)) /\ Lined(v, g, n)
    <2>1. \E x : Lined(v, x, n)
      BY LinedExist
    <2> QED BY <2>1
  <1>3. g[0] = <<>> /\ \A k \in 1 .. n : g[k] = LineStep(v, k, g[k - 1])
    <2>1. 0 \in 0 .. n /\ \A k \in 1 .. n : k \in 0 .. n /\ k # 0
      OBVIOUS
    <2> QED BY <1>2, <2>1, Zenon DEF Lined
  <1>4. ASSUME NEW k \in Nat, k + 1 <= n PROVE g[k + 1] = LineStep(v, k + 1, g[k])
    <2>1. k + 1 \in 1 .. n /\ k + 1 - 1 = k
      BY <1>4
    <2> QED BY <1>3, <2>1
  <1>5. Joined(v) = LET f == CHOOSE x : Lined(v, x, Len(v)) IN f[Len(v)]
    BY DEF Joined, Lined, LineStep
  <1>6. Joined(v) = g[n]
    BY <1>1, <1>2, <1>5, Zenon
  <1> QED BY <1>1, <1>3, <1>4, <1>6

(* An argument makes the line longer, whichever it is. *)
LEMMA LineGrows ==
  ASSUME NEW x \in Texts, Len(x) <= Cap, NEW v, NEW k, v[k] \in Texts
  PROVE  Begins(x, LineStep(v, k, x)) /\ Len(LineStep(v, k, x)) <= Cap
  <1>1. PICK a \in Texts : a = v[k]
    OBVIOUS
  <1>2. \A first : Begins(x, AddArg(x, first, a)) /\ Len(AddArg(x, first, a)) <= Cap
    BY AddArgGrows
  <1> QED BY <1>1, <1>2, Zenon DEF LineStep

(* The lines of rebuild_cmdline hold the arguments, one by one. *)
LEMMA JoinedLaid ==
  ASSUME NEW v \in Seq(Texts), v # <<>>, NEW F, F = Joined(v), Len(F) < Cap
  PROVE  F \in Texts /\ \E L : Laid(v, F, L) /\ FirstIs(v[1], L[1]) /\ Begins(L[1], F)
  <1>0. PICK n \in Nat : n = Len(v) /\ n >= 1
    BY EmptySeq
  <1>1. PICK g : /\ g[0] = <<>> /\ Joined(v) = g[n]
                 /\ \A k \in Nat : k + 1 <= n => g[k + 1] = LineStep(v, k + 1, g[k])
    BY <1>0, JoinedLines
  <1>2. \A k \in 1 .. n : v[k] \in Texts
    BY <1>0
  <1> DEFINE S == {m \in Nat : m <= n => g[m] \in Texts /\ Len(g[m]) <= Cap /\ \A i \in 0 .. m : Begins(g[i], g[m])}
  <1>3. 0 \in S
    <2>1. <<>> \in Texts /\ Len(<<>>) <= Cap
      BY TextNone, ArgvAssumption
    <2>2. Begins(g[0], g[0])
      BY <1>1, <2>1, BeginsSelf
    <2> QED BY <1>1, <2>1, <2>2
  <1>4. ASSUME NEW m \in Nat, m \in S PROVE m + 1 \in S
    <2> SUFFICES ASSUME m + 1 <= n
                 PROVE  g[m + 1] \in Texts /\ Len(g[m + 1]) <= Cap /\ \A i \in 0 .. m + 1 : Begins(g[i], g[m + 1])
      OBVIOUS
    <2>1. g[m] \in Texts /\ Len(g[m]) <= Cap /\ \A i \in 0 .. m : Begins(g[i], g[m])
      BY <1>4
    <2>2. g[m + 1] = LineStep(v, m + 1, g[m]) /\ v[m + 1] \in Texts
      BY <1>1, <1>2
    <2>3. Begins(g[m], g[m + 1]) /\ Len(g[m + 1]) <= Cap
      BY <2>1, <2>2, LineGrows
    <2>4. g[m + 1] \in Texts
      BY <2>3 DEF Begins
    <2>5. ASSUME NEW i \in 0 .. m + 1 PROVE Begins(g[i], g[m + 1])
      <3>1. CASE i = m + 1
        BY <2>4, <3>1, BeginsSelf
      <3>2. CASE i # m + 1
        <4>1. i \in 0 .. m
          BY <3>2
        <4> QED BY <2>1, <2>3, <4>1, BeginsOn
      <3> QED BY <3>1, <3>2
    <2> QED BY <2>3, <2>4, <2>5
  <1> HIDE DEF S
  <1>5. \A m \in Nat : m <= n => g[m] \in Texts /\ Len(g[m]) <= Cap /\ \A i \in 0 .. m : Begins(g[i], g[m])
    <2>1. \A m \in Nat : m \in S
      BY <1>3, <1>4, CountUp
    <2> QED BY <2>1 DEF S
  <1>6. F = g[n] /\ F \in Texts /\ \A i \in 0 .. n : Begins(g[i], F)
    BY <1>1, <1>5
  <1>7. ASSUME NEW k \in 1 .. n, k + 1 <= n PROVE \E h : WritesLater(g[k], v[k + 1], F, h, g[k + 1])
    <2>1. g[k] \in Texts /\ Len(g[k]) <= Cap /\ Begins(g[k + 1], F)
      <3>1. k \in Nat /\ k <= n /\ k + 1 \in 0 .. n
        BY <1>7
      <3> QED BY <1>5, <1>6, <3>1
    <2>2. g[k + 1] = LineStep(v, k + 1, g[k]) /\ v[k + 1] \in Texts
      BY <1>1, <1>2, <1>7
    <2>3. ~(k + 1 = 1)
      OBVIOUS
    <2>4. PICK j : j = k + 1
      OBVIOUS
    <2>5. PICK a \in Texts : a = v[j]
      BY <2>2, <2>4
    <2>6. \A first : ~first /\ Begins(AddArg(g[k], first, a), F) => \E h : WritesLater(g[k], a, F, h, AddArg(g[k], first, a))
      BY <2>1, AddLater
    <2>7. g[j] = AddArg(g[k], j = 1, a)
      BY <2>2, <2>4, <2>5, Zenon DEF LineStep
    <2>8. ~(j = 1) /\ Begins(g[j], F)
      BY <2>1, <2>3, <2>4
    <2>9. \E h : WritesLater(g[k], a, F, h, g[j])
      BY <2>6, <2>7, <2>8, Zenon
    <2> QED BY <2>4, <2>5, <2>9, Zenon
  <1>8. FirstIs(v[1], g[1]) /\ Begins(g[1], F)
    <2>1. 1 \in 0 .. n /\ 0 + 1 = 1 /\ 0 + 1 <= n /\ 0 \in Nat /\ 1 \in 1 .. n
      BY <1>0
    <2>2. Begins(g[1], F) /\ g[1] = LineStep(v, 1, <<>>) /\ v[1] \in Texts
      BY <1>1, <1>2, <1>6, <2>1
    <2>3. PICK a \in Texts : a = v[1]
      BY <2>2
    <2>4. \A first : first /\ Begins(AddArg(<<>>, first, a), F) => FirstIs(a, AddArg(<<>>, first, a))
      BY AddFirst
    <2>5. g[1] = AddArg(<<>>, 1 = 1, a)
      BY <2>2, <2>3, Zenon DEF LineStep
    <2>6. FirstIs(a, g[1])
      BY <2>2, <2>4, <2>5, Zenon
    <2> QED BY <2>2, <2>3, <2>6
  <1>9. \A k \in 1 .. n : g[k] \in Texts /\ Len(g[1]) <= Len(g[k])
    <2> SUFFICES ASSUME NEW k \in 1 .. n PROVE g[k] \in Texts /\ Len(g[1]) <= Len(g[k])
      OBVIOUS
    <2>1. k \in Nat /\ k <= n /\ 1 \in 0 .. k
      OBVIOUS
    <2>2. Begins(g[1], g[k]) /\ g[k] \in Texts
      BY <1>5, <2>1
    <2> QED BY <2>2 DEF Begins
  <1>10. Laid(v, F, g)
    BY <1>0, <1>6, <1>7, <1>9 DEF Laid
  <1> QED BY <1>6, <1>8, <1>10

(* The command line is split into the very arguments it was made of. *)
LEMMA JoinedReads ==
  ASSUME NEW v \in Seq(Texts), v # <<>>, ~Has(v[1], Quote), Len(Joined(v)) < Cap
  PROVE  CommandLineToArgvW(Joined(v)) = v
  <1>1. PICK F : F = Joined(v) /\ Len(F) < Cap
    OBVIOUS
  <1>2. F \in Texts /\ \E L : Laid(v, F, L) /\ FirstIs(v[1], L[1]) /\ Begins(L[1], F)
    BY <1>1, JoinedLaid
  <1>3. PICK L : Laid(v, F, L) /\ FirstIs(v[1], L[1]) /\ Begins(L[1], F)
    BY <1>2
  <1>4. CommandLineToArgvW(F) = v
    BY <1>2, <1>3, ReadWhole
  <1> QED BY <1>1, <1>4

\* A converted program has the line of rebuild_cmdline, or none.
LineInv ==
  /\ argv \in Argvs
  /\ mode = "direct" => env = <<>>
  /\ phase \in {"main", "reload"} => mode = "load"
  /\ phase = "ready" /\ mode = "direct" => cmdline \in {Joined(argv), <<>>}

(* However the arguments of the process are quoted, spaced and escaped,    *)
(* the C runtime of a converted program finds them again in the line of    *)
(* rebuild_cmdline, if they fit and the program's name has no quote.       *)
THEOREM CrtSeesArgumentsHolds ==
  (\A v \in Argvs : ~Has(v[1], Quote)) /\ StartupSpec => []CrtSeesArguments
  <1> SUFFICES ASSUME \A v \in Argvs : ~Has(v[1], Quote) PROVE StartupSpec => []CrtSeesArguments
    OBVIOUS
  <1>1. StartupInit => LineInv
    BY DEF StartupInit, Init, LineInv
  <1>2. LineInv /\ [StartupNext]_startupVars => LineInv'
    <2> SUFFICES ASSUME LineInv, [StartupNext]_startupVars PROVE LineInv'
      OBVIOUS
    <2>1. CASE ShimInit \/ ShimReloadCmdline
      <3>1. UNCHANGED <<argv, mode, env>> /\ RebuildCmdline(env) /\ phase' \in {"main", "ready"}
        BY <2>1 DEF ShimInit, ShimReloadCmdline
      <3>2. phase' = "main" => mode = "load"
        BY <2>1 DEF ShimInit, ShimReloadCmdline
      <3>3. mode = "direct" => cmdline' \in {Joined(argv), <<>>}
        BY <3>1 DEF LineInv, RebuildCmdline
      <3> QED BY <3>1, <3>2, <3>3 DEF LineInv
    <2>2. CASE LoadMain
      BY <2>2 DEF LoadMain, LineInv
    <2>3. CASE \E line \in Lines : SplitLine(line)
      BY <2>3 DEF SplitLine, LineInv
    <2>4. CASE UNCHANGED vars
      BY <2>4 DEF vars, LineInv
    <2> QED BY <2>1, <2>2, <2>3, <2>4 DEF StartupNext, startupVars, Next
  <1>3. LineInv => CrtSeesArguments
    <2> SUFFICES ASSUME LineInv, phase = "ready", mode = "direct", Len(cmdline) \in 1 .. Cap - 1
                 PROVE  CommandLineToArgvW(cmdline) = argv
      BY DEF CrtSeesArguments
    <2>1. argv \in Seq(Texts) /\ argv # <<>> /\ ~Has(argv[1], Quote)
      BY ArgvAssumption DEF LineInv, Texts
    <2>2. Cap \in Nat /\ Len(<<>>) = 0
      BY ArgvAssumption
    <2>3. cmdline = Joined(argv)
      BY <2>2 DEF LineInv
    <2>4. Len(Joined(argv)) < Cap
      BY <2>2, <2>3
    <2> QED BY <2>1, <2>3, <2>4, JoinedReads
  <1> QED BY <1>1, <1>2, <1>3, PTL DEF StartupSpec

-----------------------------------------------------------------------------
(* load.cpp and split_cmdline. *)

\* An argument that load.cpp passes on as it is.
PlainArg(a) == a # <<>> /\ ~Has(a, Quote) /\ a[Len(a)] # Slash

(* What load.cpp puts around it is what rebuild_cmdline does. *)
LEMMA PlainQuoted ==
  ASSUME NEW a, PlainArg(a)
  PROVE  LoadQuoted(a) <=> LaterQuoted(a)
  BY DEF PlainArg, LoadQuoted, LaterQuoted

(* A beginning of what is put behind a text. *)
LEMMA BeginsPrefix ==
  ASSUME NEW x \in Texts, NEW a \in Texts, NEW F, Begins(x \o a, F), NEW i \in Nat, i <= Len(a)
  PROVE  Begins(x \o SubSeq(a, 1, i), F)
  <1>1. a \in Seq(Chars) /\ Len(a) \in Nat
    BY TextLen
  <1>2. PICK l \in Nat : l = Len(x)
    BY TextLen
  <1>3. PICK y : y = SubSeq(a, 1, i)
    OBVIOUS
  <1>4. y \in Texts /\ Len(y) = i /\ \A j \in 1 .. i : y[j] = a[j]
    <2>1. CASE i = 0
      BY <1>1, <1>3, <2>1 DEF Texts
    <2>2. CASE i # 0
      BY <1>1, <1>3, <2>2 DEF Texts
    <2> QED BY <2>1, <2>2
  <1>5. x \o y \in Texts /\ Len(x \o y) = l + i
    BY <1>2, <1>4, TextConcat
  <1>6. l + i <= Len(F) /\ F \in Texts
    <2>1. Len(x) + Len(a) <= Len(F)
      BY BeginsTail
    <2>2. F \in Texts /\ Len(F) \in Nat
      BY TextLen DEF Begins
    <2> QED BY <1>1, <1>2, <2>1, <2>2
  <1>7. ASSUME NEW j \in 1 .. l + i PROVE F[j] = (x \o y)[j]
    <2>1. CASE j <= l
      <3>1. j \in 1 .. l
        BY <2>1
      <3>2. Begins(x, F)
        BY BeginsHead
      <3>3. F[j] = x[j]
        BY <1>2, <3>1, <3>2 DEF Begins
      <3>4. (x \o y)[j] = x[j]
        BY <1>2, <1>4, <3>1, TextAt
      <3> QED BY <3>3, <3>4
    <2>2. CASE ~(j <= l)
      <3>1. PICK m \in Nat : l + m = j /\ m \in 1 .. i /\ m \in 1 .. Len(a)
        <4>1. j - l \in Nat /\ l + (j - l) = j /\ j - l \in 1 .. i /\ j - l \in 1 .. Len(a)
          BY <1>1, <2>2
        <4> QED BY <4>1
      <3>2. \A k \in 1 .. Len(a) : F[Len(x) + k] = a[k]
        BY BeginsTail
      <3>3. F[l + m] = a[m]
        BY <1>2, <3>1, <3>2
      <3>4. (x \o y)[l + m] = y[m]
        BY <1>2, <1>4, <3>1, TextAt
      <3> QED BY <1>4, <3>1, <3>3, <3>4
    <2> QED BY <2>1, <2>2
  <1>8. Begins(x \o y, F)
    BY <1>5, <1>6, <1>7 DEF Begins
  <1> QED BY <1>3, <1>8

(* The backslashes at the end of each beginning of a text can be counted. *)
LEMMA CountsSlashes ==
  ASSUME NEW first, NEW a \in Texts, ~Has(a, Quote)
  PROVE  \E h : /\ h[0].bs = 0
                /\ \A i \in Nat : i + 1 <= Len(a) => h[i + 1].bs = IF a[i + 1] = Slash THEN h[i].bs + 1 ELSE 0
  <1>0. PICK n \in Nat : n = Len(a)
    BY TextLen
  <1>1. PICK h : Adds(first, a, <<>>, h, n)
    BY <1>0, AddsExist
  <1>2. h[0] = [out |-> <<>>, bs |-> 0]
    BY <1>1 DEF Adds
  <1>3. h[0].bs = 0
    BY <1>2
  <1>4. ASSUME NEW i \in Nat, i + 1 <= n PROVE h[i + 1].bs = IF a[i + 1] = Slash THEN h[i].bs + 1 ELSE 0
    <2>1. h[i + 1] = AddChar(first, a[i + 1], h[i])
      <3>1. i + 1 \in 0 .. n /\ i + 1 # 0 /\ (i + 1) - 1 = i
        BY <1>4
      <3> QED BY <1>1, <3>1 DEF Adds
    <2>2. i + 1 \in 1 .. Len(a)
      BY <1>0, <1>4
    <2>3. a[i + 1] # Quote
      BY <2>2 DEF Has
    <2>4. h[i + 1] = [out |-> Put(h[i].out, <<a[i + 1]>>), bs |-> IF a[i + 1] = Slash THEN h[i].bs + 1 ELSE 0]
      BY <2>1, <2>3 DEF AddChar
    <2> QED BY <2>4
  <1> QED BY <1>0, <1>3, <1>4

\* Behind x an argument has been written without any escapes.
WrotePlain(x, a, g, F) ==
  /\ Wrote(a, g, F) /\ g[0].bs = 0 /\ g[0].out = x /\ g[Len(a)].out = x \o a
  /\ a # <<>> /\ a[Len(a)] # Slash => g[Len(a)].bs = 0

(* Behind a text the beginnings of another, written character by character. *)
LEMMA PlainWrote ==
  ASSUME NEW x \in Texts, NEW a \in Texts, ~Has(a, Quote), NEW F, Begins(x \o a, F), Len(F) < Cap
  PROVE  \E g : WrotePlain(x, a, g, F)
  <1>0. PICK n \in Nat : n = Len(a)
    BY TextLen
  <1>1. PICK h : /\ h[0].bs = 0
                 /\ \A i \in Nat : i + 1 <= n => h[i + 1].bs = IF a[i + 1] = Slash THEN h[i].bs + 1 ELSE 0
    BY <1>0, CountsSlashes
  <1>2. h[0].bs = 0
    BY <1>1
  <1>3. ASSUME NEW i \in Nat, i + 1 <= n PROVE h[i + 1].bs = IF a[i + 1] = Slash THEN h[i].bs + 1 ELSE 0
    BY <1>1, <1>3
  <1> DEFINE S == {i \in Nat : i <= n => h[i].bs \in Nat}
  <1>4. 0 \in S
    BY <1>2
  <1>5. ASSUME NEW i \in Nat, i \in S PROVE i + 1 \in S
    BY <1>3, <1>5
  <1> HIDE DEF S
  <1>6. \A i \in Nat : i <= n => h[i].bs \in Nat
    <2>1. \A i \in Nat : i \in S
      BY <1>4, <1>5, CountUp
    <2> QED BY <2>1 DEF S
  <1> DEFINE g == [i \in 0 .. n |-> [out |-> x \o SubSeq(a, 1, i), bs |-> h[i].bs]]
  <1>7. \A i \in Nat : i <= n => g[i].out = x \o SubSeq(a, 1, i) /\ g[i].bs = h[i].bs
    OBVIOUS
  <1> HIDE DEF g
  <1>8. ASSUME NEW i \in Nat, i <= n PROVE Adding(g[i]) /\ Begins(g[i].out, F)
    <2>1. Begins(x \o SubSeq(a, 1, i), F)
      BY <1>0, <1>8, BeginsPrefix
    <2>2. g[i].out = x \o SubSeq(a, 1, i) /\ g[i].bs \in Nat
      BY <1>6, <1>7, <1>8
    <2>3. Begins(g[i].out, F)
      BY <2>1, <2>2
    <2>4. PICK y : y = g[i].out
      OBVIOUS
    <2>5. y \in Texts /\ Len(y) <= Len(F) /\ Len(y) \in Nat /\ Len(F) \in Nat /\ Cap \in Nat
      BY <2>3, <2>4, TextLen, ArgvAssumption DEF Begins
    <2>6. Len(y) <= Cap
      BY <2>5
    <2> QED BY <2>2, <2>3, <2>4, <2>5, <2>6 DEF Adding
  <1>9. ASSUME NEW i \in Nat, i + 1 <= n PROVE Later(a[i + 1], g[i], g[i + 1])
    <2>1. PICK c \in Chars : c = a[i + 1] /\ c # Quote
      <3>1. i + 1 \in 1 .. n
        BY <1>9
      <3>2. a[i + 1] \in Chars
        BY <1>0, <1>9, PrefixMore
      <3> QED BY <1>0, <3>1, <3>2 DEF Has
    <2>2. PICK y \in Texts : y = SubSeq(a, 1, i)
      BY <1>0, <1>9, PrefixMore
    <2>3. SubSeq(a, 1, i + 1) = Append(y, c)
      BY <1>0, <1>9, <2>1, <2>2, PrefixMore
    <2>4. PICK w \in Texts : w = <<c>>
      BY TextOne
    <2>5. Append(y, c) = y \o <<c>>
      BY AppendIsConcat, TextLen
    <2>6. (x \o y) \o w = x \o (y \o w)
      BY TextAssoc
    <2>7. i <= n /\ i + 1 \in Nat
      BY <1>9
    <2>8. g[i].out = x \o y /\ g[i + 1].out = x \o Append(y, c) /\ g[i].bs = h[i].bs /\ g[i + 1].bs = h[i + 1].bs
      BY <1>7, <1>9, <2>2, <2>3, <2>7
    <2>9. g[i + 1].out = g[i].out \o <<c>>
      BY <2>4, <2>5, <2>6, <2>8, Zenon
    <2>10. g[i + 1].bs = IF c = Slash THEN g[i].bs + 1 ELSE 0
      BY <1>3, <1>9, <2>1, <2>8
    <2> QED BY <2>1, <2>9, <2>10 DEF Later
  <1>10. Wrote(a, g, F)
    BY <1>0, <1>8, <1>9 DEF Wrote
  <1>11. g[0].bs = 0 /\ g[0].out = x
    <2>1. SubSeq(a, 1, 0) = <<>>
      BY TextLen
    <2>2. x \o <<>> = x
      BY ConcatEmptySeq, TextLen
    <2>3. g[0].out = x \o SubSeq(a, 1, 0) /\ g[0].bs = h[0].bs
      BY <1>7
    <2> QED BY <1>2, <2>1, <2>2, <2>3
  <1>12. g[n].out = x \o a
    BY <1>0, <1>7, PrefixAll, SMTT(40)
  <1>13. ASSUME a # <<>>, a[n] # Slash PROVE g[n].bs = 0
    <2>1. n # 0
      BY <1>0, <1>13, EmptySeq, TextLen
    <2>2. PICK i \in Nat : i + 1 = n
      <3>1. n - 1 \in Nat /\ (n - 1) + 1 = n
        BY <2>1
      <3> QED BY <3>1
    <2>3. h[i + 1].bs = IF a[i + 1] = Slash THEN h[i].bs + 1 ELSE 0
      BY <1>3, <2>2
    <2>4. h[n].bs = 0
      BY <1>13, <2>2, <2>3
    <2>5. g[n].bs = h[n].bs
      BY <1>7
    <2> QED BY <2>4, <2>5
  <1>14. WrotePlain(x, a, g, F)
    BY <1>0, <1>10, <1>11, <1>12, <1>13 DEF WrotePlain
  <1> QED BY <1>14

(* Quotes around an argument, behind a line. *)
LEMMA QuotedBehind ==
  ASSUME NEW sp \in Texts, NEW q \in Texts, NEW a \in Texts
  PROVE  sp \o ((q \o a) \o q) = ((sp \o q) \o a) \o q
  <1>1. PICK qa \in Texts : qa = q \o a
    BY TextConcat
  <1>2. PICK x \in Texts : x = sp \o q
    BY TextConcat
  <1>3. sp \o (qa \o q) = (sp \o qa) \o q
    BY TextAssoc, ZenonT(60)
  <1>4. sp \o qa = x \o a
    <2>1. (sp \o q) \o a = sp \o (q \o a)
      BY TextAssoc, ZenonT(60)
    <2> QED BY <1>1, <1>2, <2>1, Zenon
  <1> QED BY <1>1, <1>2, <1>3, <1>4, Zenon

(* What stands in quotes is written so. *)
LEMMA QuotedWrites ==
  ASSUME NEW line \in Texts, NEW a \in Texts, a # <<>>, ~Has(a, Quote), a[Len(a)] # Slash, LaterQuoted(a),
         NEW sp \in Texts, sp = line \o <<Space>>, NEW q \in Texts, q = <<Quote>>,
         NEW x \in Texts, x = sp \o q, NEW y \in Texts, y = x \o a,
         NEW res, res = y \o q, NEW F, Begins(res, F), Len(F) < Cap
  PROVE  \E g : WritesLater(line, a, F, g, res)
  <1>1. Begins(y \o q, F)
    OBVIOUS
  <1>2. Begins(y, F)
    BY <1>1, BeginsHead, Zenon
  <1>3. Begins(x \o a, F)
    BY <1>2
  <1>4. PICK g : WrotePlain(x, a, g, F)
    BY <1>3, PlainWrote, Zenon
  <1>5. Wrote(a, g, F) /\ g[0].bs = 0 /\ g[0].out = x /\ g[Len(a)].out = y /\ g[Len(a)].bs = 0
    BY <1>4, Zenon DEF WrotePlain
  <1>6. y \o Repeat(Slash, 0) = y
    BY RepeatNone, Zenon
  <1>7. res = (g[Len(a)].out \o Repeat(Slash, g[Len(a)].bs)) \o <<Quote>>
    BY <1>5, <1>6, Zenon
  <1>8. g[0].out = (line \o <<Space>>) \o <<Quote>>
    BY <1>5, Zenon
  <1>9. WritesLater(line, a, F, g, res)
    BY <1>5, <1>7, <1>8, Zenon DEF WritesLater
  <1> QED BY <1>9

(* What stands without them is written so. *)
LEMMA BareWrites ==
  ASSUME NEW line \in Texts, NEW a \in Texts, ~Has(a, Quote), ~LaterQuoted(a),
         NEW sp \in Texts, sp = line \o <<Space>>, NEW res, res = sp \o a, NEW F, Begins(res, F), Len(F) < Cap
  PROVE  \E g : WritesLater(line, a, F, g, res)
  <1>1. Begins(sp \o a, F)
    OBVIOUS
  <1>2. PICK g : WrotePlain(sp, a, g, F)
    BY <1>1, PlainWrote, Zenon
  <1>3. WritesLater(line, a, F, g, res)
    BY <1>2, Zenon DEF WritesLater, WrotePlain
  <1> QED BY <1>3

(* A text begins what it is put before. *)
LEMMA BeginsMore ==
  ASSUME NEW t \in Texts, NEW u \in Texts
  PROVE  Begins(t, t \o u)
  BY BeginsSelf, BeginsHead, TextConcat

(* What load.cpp adds for an argument. *)
LEMMA LoadArgText ==
  ASSUME NEW a \in Texts, NEW q, q = <<Quote>>
  PROVE  /\ q \in Texts /\ LoadArg(a) \in Texts
         /\ LoadQuoted(a) => LoadArg(a) = (q \o a) \o q
         /\ ~LoadQuoted(a) => LoadArg(a) = a
  <1>1. q \in Texts
    <2>1. Quote \in Chars
      BY DEF Chars
    <2> QED BY <2>1, TextOne
  <1>2. LoadQuoted(a) => LoadArg(a) = (q \o a) \o q
    BY DEF LoadArg
  <1>3. ~LoadQuoted(a) => LoadArg(a) = a
    BY DEF LoadArg
  <1>4. (q \o a) \o q \in Texts
    BY <1>1, TextConcat
  <1> QED BY <1>1, <1>2, <1>3, <1>4

(* It is written as rebuild_cmdline writes it. *)
LEMMA LoadWrites ==
  ASSUME NEW line \in Texts, NEW a \in Texts, PlainArg(a),
         NEW res, res = (line \o <<Space>>) \o LoadArg(a), NEW F, Begins(res, F), Len(F) < Cap
  PROVE  \E g : WritesLater(line, a, F, g, res)
  <1>1. Space \in Chars /\ Quote \in Chars
    BY DEF Chars
  <1>2. PICK q \in Texts : q = <<Quote>>
    BY <1>1, TextOne
  <1>3. PICK sp \in Texts : sp = line \o <<Space>>
    <2>1. <<Space>> \in Texts
      BY <1>1, TextOne
    <2> QED BY <2>1, TextConcat
  <1>4. a # <<>> /\ ~Has(a, Quote) /\ a[Len(a)] # Slash
    BY DEF PlainArg
  <1>5. LoadQuoted(a) <=> LaterQuoted(a)
    BY PlainQuoted
  <1>6. CASE LoadQuoted(a)
    <2>1. PICK x \in Texts : x = sp \o q
      BY TextConcat
    <2>2. PICK y \in Texts : y = x \o a
      BY TextConcat
    <2>3. res = y \o q
      <3>1. LoadArg(a) = (q \o a) \o q
        BY <1>2, <1>6, LoadArgText
      <3>2. sp \o ((q \o a) \o q) = ((sp \o q) \o a) \o q
        BY QuotedBehind, ZenonT(60)
      <3> QED BY <1>3, <2>1, <2>2, <3>1, <3>2, Zenon
    <2> QED BY <1>2, <1>3, <1>4, <1>5, <1>6, <2>1, <2>2, <2>3, QuotedWrites
  <1>7. CASE ~LoadQuoted(a)
    <2>1. res = sp \o a
      BY <1>2, <1>3, <1>7, LoadArgText, Zenon
    <2> QED BY <1>3, <1>4, <1>5, <1>7, <2>1, BareWrites
  <1> QED BY <1>6, <1>7

-----------------------------------------------------------------------------
\* The line of load.cpp: the .so file, and then one argument more each.
LoadFirst(v) == (<<Quote>> \o v[1]) \o <<Quote>>
LoadStep(v, k, x) == (x \o <<Space>>) \o LoadArg(v[k])

\* The recursion of LoadJoined, as far as n.
Loaded(v, g, n) == g = [k \in 1 .. n |-> IF k = 1 THEN LoadFirst(v) ELSE LoadStep(v, k, g[k - 1])]

(* Some function satisfies it. *)
LEMMA LoadedExist ==
  ASSUME NEW v
  PROVE  \A n \in Nat : \E g : Loaded(v, g, n)
  <1> DEFINE S == {n \in Nat : \E g : Loaded(v, g, n)}
  <1>1. 0 \in S
    <2> DEFINE g == [k \in 1 .. 0 |-> <<>>]
    <2>1. Loaded(v, g, 0)
      BY DEF Loaded
    <2> QED BY <2>1
  <1>2. ASSUME NEW n \in Nat, n \in S PROVE n + 1 \in S
    <2>1. PICK f : Loaded(v, f, n)
      BY <1>2
    <2> DEFINE g == [k \in 1 .. n + 1 |-> IF k = 1 THEN LoadFirst(v) ELSE LoadStep(v, k, f[k - 1])]
    <2>2. \A k \in 1 .. n : g[k] = f[k]
      BY <2>1 DEF Loaded
    <2>3. ASSUME NEW k \in 1 .. n + 1 PROVE g[k] = IF k = 1 THEN LoadFirst(v) ELSE LoadStep(v, k, g[k - 1])
      <3>1. CASE k = 1
        BY <3>1
      <3>2. CASE k # 1
        <4>1. k - 1 \in 1 .. n
          BY <3>2
        <4> QED BY <4>1, <2>2, <3>2
      <3> QED BY <3>1, <3>2
    <2>4. Loaded(v, g, n + 1)
      BY <2>3 DEF Loaded
    <2> QED BY <2>4
  <1> HIDE DEF S
  <1>3. \A n \in Nat : n \in S
    BY <1>1, <1>2, CountUp
  <1> QED BY <1>3 DEF S

(* Its values, one from the other, and the last is the line. *)
LEMMA LoadLines ==
  ASSUME NEW v \in Seq(Texts), v # <<>>
  PROVE  \E g :
           /\ g[1] = LoadFirst(v) /\ LoadJoined(v) = g[Len(v)]
           /\ \A k \in 1 .. Len(v) : k + 1 <= Len(v) => g[k + 1] = LoadStep(v, k + 1, g[k])
  <1>1. PICK n \in Nat : n = Len(v) /\ n >= 1
    BY EmptySeq
  <1>2. PICK g : g = (CHOOSE x : Loaded(v, x, n)) /\ Loaded(v, g, n)
    <2>1. \E x : Loaded(v, x, n)
      BY LoadedExist
    <2> QED BY <2>1
  <1>3. g[1] = LoadFirst(v)
    <2>1. 1 \in 1 .. n
      BY <1>1
    <2> QED BY <1>2, <2>1, Zenon DEF Loaded
  <1>4. ASSUME NEW k \in 1 .. n, k + 1 <= n PROVE g[k + 1] = LoadStep(v, k + 1, g[k])
    <2>1. k + 1 \in 1 .. n /\ k + 1 - 1 = k /\ k + 1 # 1
      BY <1>4
    <2>2. PICK j : j = k + 1 /\ j \in 1 .. n /\ j # 1 /\ j - 1 = k
      BY <2>1
    <2>3. g[j] = LoadStep(v, j, g[j - 1])
      BY <1>2, <2>2, Zenon DEF Loaded
    <2> QED BY <2>2, <2>3, Zenon
  <1>5. LoadJoined(v) = LET f == CHOOSE x : Loaded(v, x, Len(v)) IN f[Len(v)]
    BY DEF LoadJoined, Loaded, LoadStep, LoadFirst
  <1>6. LoadJoined(v) = g[n]
    BY <1>1, <1>2, <1>5, Zenon
  <1> QED BY <1>1, <1>3, <1>4, <1>6

\* The lines of load.cpp.
LoadLinesOf(v, g) ==
  /\ g[1] = LoadFirst(v) /\ LoadJoined(v) = g[Len(v)]
  /\ \A k \in 1 .. Len(v) : k + 1 <= Len(v) => g[k + 1] = LoadStep(v, k + 1, g[k])

(* They are texts, each the beginning of the next. *)
LEMMA LoadGrows ==
  ASSUME NEW v \in Seq(Texts), NEW n \in Nat, n = Len(v), n >= 1, NEW g, LoadLinesOf(v, g)
  PROVE  \A k \in 1 .. n : g[k] \in Texts /\ \A i \in 1 .. k : Begins(g[i], g[k])
  <1>1. g[1] = LoadFirst(v) /\ \A k \in 1 .. n : k + 1 <= n => g[k + 1] = LoadStep(v, k + 1, g[k])
    BY Zenon DEF LoadLinesOf
  <1>2. \A k \in 1 .. n : v[k] \in Texts
    OBVIOUS
  <1>q. <<Quote>> \in Texts /\ <<Space>> \in Texts
    <2>1. Quote \in Chars /\ Space \in Chars
      BY DEF Chars
    <2> QED BY <2>1, TextOne
  <1> DEFINE S == {m \in Nat : m + 1 <= n => g[m + 1] \in Texts /\ \A i \in 1 .. m + 1 : Begins(g[i], g[m + 1])}
  <1>3. 0 \in S
    <2>1. v[1] \in Texts /\ 0 + 1 = 1
      BY <1>2
    <2>2. g[1] \in Texts
      BY <1>1, <1>q, <2>1, TextConcat DEF LoadFirst
    <2>3. Begins(g[1], g[1])
      BY <2>2, BeginsSelf
    <2>4. \A i \in 1 .. 1 : Begins(g[i], g[1])
      BY <2>3
    <2> QED BY <2>1, <2>2, <2>4
  <1>4. ASSUME NEW m \in Nat, m \in S PROVE m + 1 \in S
    <2> SUFFICES ASSUME m + 1 + 1 <= n
                 PROVE  g[m + 1 + 1] \in Texts /\ \A i \in 1 .. m + 1 + 1 : Begins(g[i], g[m + 1 + 1])
      OBVIOUS
    <2>0. PICK j \in 1 .. n : j = m + 1 /\ j + 1 <= n /\ j + 1 \in 1 .. n
      OBVIOUS
    <2>1. g[j] \in Texts /\ \A i \in 1 .. j : Begins(g[i], g[j])
      BY <1>4, <2>0
    <2>2. g[j + 1] = LoadStep(v, j + 1, g[j]) /\ v[j + 1] \in Texts
      BY <1>1, <1>2, <2>0
    <2>3. PICK sp \in Texts : sp = g[j] \o <<Space>> /\ Begins(g[j], sp)
      BY <1>q, <2>1, TextConcat, BeginsMore
    <2>4. LoadArg(v[j + 1]) \in Texts
      BY <2>2, LoadArgText
    <2>5. g[j + 1] = sp \o LoadArg(v[j + 1])
      BY <2>2, <2>3 DEF LoadStep
    <2>6. g[j + 1] \in Texts /\ Begins(sp, g[j + 1])
      BY <2>4, <2>5, TextConcat, BeginsMore
    <2>7. Begins(g[j], g[j + 1])
      BY <2>3, <2>6, BeginsOn
    <2>8. ASSUME NEW i \in 1 .. j + 1 PROVE Begins(g[i], g[j + 1])
      <3>1. CASE i = j + 1
        BY <2>6, <3>1, BeginsSelf
      <3>2. CASE i # j + 1
        <4>1. i \in 1 .. j
          BY <2>0, <3>2
        <4> QED BY <2>1, <2>7, <4>1, BeginsOn
      <3> QED BY <3>1, <3>2
    <2> QED BY <2>0, <2>6, <2>8
  <1> HIDE DEF S
  <1>5. \A m \in Nat : m + 1 <= n => g[m + 1] \in Texts /\ \A i \in 1 .. m + 1 : Begins(g[i], g[m + 1])
    <2>1. \A m \in Nat : m \in S
      BY <1>3, <1>4, CountUp
    <2> QED BY <2>1 DEF S
  <1>6. \A k \in 1 .. n : g[k] \in Texts /\ \A i \in 1 .. k : Begins(g[i], g[k])
    <2> SUFFICES ASSUME NEW k \in 1 .. n PROVE g[k] \in Texts /\ \A i \in 1 .. k : Begins(g[i], g[k])
      OBVIOUS
    <2>1. PICK m \in Nat : m + 1 = k
      <3>1. k - 1 \in Nat /\ (k - 1) + 1 = k
        OBVIOUS
      <3> QED BY <3>1
    <2>2. m + 1 <= n
      BY <2>1
    <2>3. g[m + 1] \in Texts /\ \A i \in 1 .. m + 1 : Begins(g[i], g[m + 1])
      BY <1>5, <2>2, Zenon
    <2> QED BY <2>1, <2>3, Zenon
  <1> QED BY <1>6

(* The line is a text, and not empty. *)
LEMMA LoadText ==
  ASSUME NEW v \in Seq(Texts), v # <<>>
  PROVE  LoadJoined(v) \in Texts /\ LoadJoined(v) # <<>>
  <1>0. PICK n \in Nat : n = Len(v) /\ n >= 1
    BY EmptySeq
  <1>1. PICK g : LoadLinesOf(v, g)
    BY LoadLines DEF LoadLinesOf
  <1>2. \A k \in 1 .. n : g[k] \in Texts /\ \A i \in 1 .. k : Begins(g[i], g[k])
    BY <1>0, <1>1, LoadGrows
  <1>3. 1 \in 1 .. n /\ n \in 1 .. n
    BY <1>0
  <1>4. g[n] \in Texts /\ Begins(g[1], g[n]) /\ v[1] \in Texts
    BY <1>0, <1>2, <1>3
  <1>5. LoadJoined(v) = g[n] /\ g[1] = LoadFirst(v)
    BY <1>0, <1>1, Zenon DEF LoadLinesOf
  <1>6. PICK w \in Texts : w = g[1]
    BY <1>4 DEF Begins
  <1>7. PICK m \in Nat : m = Len(v[1])
    BY <1>4, TextLen
  <1>8. Len(w) = m + 2
    <2>1. PICK q \in Texts : q = <<Quote>> /\ Len(q) = 1
      <3>1. Quote \in Chars
        BY DEF Chars
      <3> QED BY <3>1, TextOne
    <2>2. PICK y \in Texts : y = q \o v[1] /\ Len(y) = 1 + m
      BY <1>4, <1>7, <2>1, TextConcat
    <2>3. w = y \o q
      BY <1>5, <1>6, <2>1, <2>2, Zenon DEF LoadFirst
    <2>4. Len(y \o q) = Len(y) + Len(q)
      BY TextConcat
    <2> QED BY <2>1, <2>2, <2>3, <2>4
  <1>9. Len(g[n]) # 0
    <2>1. Len(g[n]) \in Nat /\ Len(w) <= Len(g[n])
      BY <1>4, <1>6, TextLen DEF Begins
    <2> QED BY <1>8, <2>1
  <1> QED BY <1>4, <1>5, <1>9, EmptySeq, TextLen

(* The lines of load.cpp hold the arguments, one by one. *)
LEMMA LoadLaid ==
  ASSUME NEW v \in Seq(Texts), v # <<>>, \A k \in 1 .. Len(v) : PlainArg(v[k]), NEW F, F = LoadJoined(v), Len(F) < Cap
  PROVE  F \in Texts /\ \E L : /\ Laid(v, F, L) /\ L[1] = LoadFirst(v)
                               /\ \A k \in 1 .. Len(v) : Begins(L[k], F)
                               /\ \A k \in 1 .. Len(v) : k + 1 <= Len(v) => L[k + 1] = LoadStep(v, k + 1, L[k])
  <1>0. PICK n \in Nat : n = Len(v) /\ n >= 1
    BY EmptySeq
  <1>g. PICK g : LoadLinesOf(v, g)
    BY LoadLines DEF LoadLinesOf
  <1>1. /\ g[1] = LoadFirst(v) /\ LoadJoined(v) = g[n]
        /\ \A k \in 1 .. n : k + 1 <= n => g[k + 1] = LoadStep(v, k + 1, g[k])
    BY <1>0, <1>g, Zenon DEF LoadLinesOf
  <1>2. \A k \in 1 .. n : v[k] \in Texts /\ PlainArg(v[k])
    BY <1>0
  <1>6. \A k \in 1 .. n : g[k] \in Texts /\ \A i \in 1 .. k : Begins(g[i], g[k])
    BY <1>0, <1>g, LoadGrows
  <1>7. F = g[n] /\ F \in Texts /\ \A i \in 1 .. n : Begins(g[i], F)
    BY <1>0, <1>1, <1>6
  <1>8. ASSUME NEW k \in 1 .. n, k + 1 <= n PROVE \E h : WritesLater(g[k], v[k + 1], F, h, g[k + 1])
    <2>1. PICK j \in 1 .. n : j = k + 1
      BY <1>8
    <2>2. g[k] \in Texts /\ v[j] \in Texts /\ PlainArg(v[j]) /\ Begins(g[j], F)
      BY <1>2, <1>6, <1>7
    <2>3. g[j] = (g[k] \o <<Space>>) \o LoadArg(v[j])
      BY <1>1, <1>8, <2>1 DEF LoadStep
    <2>4. \E h : WritesLater(g[k], v[j], F, h, g[j])
      BY <2>2, <2>3, LoadWrites
    <2> QED BY <2>1, <2>4
  <1>9. \A k \in 1 .. n : g[k] \in Texts /\ Len(g[1]) <= Len(g[k])
    <2> SUFFICES ASSUME NEW k \in 1 .. n PROVE g[k] \in Texts /\ Len(g[1]) <= Len(g[k])
      OBVIOUS
    <2>1. 1 \in 1 .. k
      OBVIOUS
    <2>2. Begins(g[1], g[k]) /\ g[k] \in Texts
      BY <1>6, <2>1
    <2> QED BY <2>2 DEF Begins
  <1>10. Laid(v, F, g)
    BY <1>0, <1>7, <1>8, <1>9 DEF Laid
  <1> QED BY <1>0, <1>1, <1>7, <1>10

(* The C runtime finds the arguments in that line. *)
LEMMA LoadReads ==
  ASSUME NEW v \in Seq(Texts), v # <<>>, \A k \in 1 .. Len(v) : PlainArg(v[k]), Len(LoadJoined(v)) < Cap
  PROVE  CommandLineToArgvW(LoadJoined(v)) = v
  <1>1. PICK F : F = LoadJoined(v) /\ Len(F) < Cap
    OBVIOUS
  <1>2. 1 \in 1 .. Len(v)
    BY EmptySeq
  <1>3. F \in Texts
    BY <1>1, LoadLaid
  <1>4. PICK L : Laid(v, F, L) /\ L[1] = LoadFirst(v) /\ Begins(L[1], F)
    BY <1>1, <1>2, LoadLaid
  <1>5. FirstIs(v[1], L[1])
    BY <1>4, Zenon DEF FirstIs, LoadFirst
  <1>6. ~Has(v[1], Quote)
    BY <1>2 DEF PlainArg
  <1>7. CommandLineToArgvW(F) = v
    BY <1>3, <1>4, <1>5, <1>6, ReadWhole
  <1> QED BY <1>1, <1>7

-----------------------------------------------------------------------------
(* What split_cmdline has found, outside and inside quotes. *)
Outside(o, t) == [out |-> o, tok |-> t, inq |-> FALSE]
Inside(o, t)  == [out |-> o, tok |-> t, inq |-> TRUE]

(* A character outside quotes. *)
LEMMA SplitOutside ==
  ASSUME NEW o, NEW t, NEW c, c # Quote, c # Space
  PROVE  SplitStep(c, Outside(o, t)) = Outside(o, Append(t, c))
  BY DEF SplitStep, Outside

(* One inside. *)
LEMMA SplitInside ==
  ASSUME NEW o, NEW t, NEW c, c # Quote
  PROVE  SplitStep(c, Inside(o, t)) = Inside(o, Append(t, c))
  BY DEF SplitStep, Inside

(* A quote. *)
LEMMA SplitOpen ==
  ASSUME NEW o, NEW t
  PROVE  SplitStep(Quote, Outside(o, t)) = Inside(o, t)
  <1>1. PICK st : st = Outside(o, t)
    OBVIOUS
  <1>2. ~st.inq /\ st.out = o /\ st.tok = t
    BY <1>1 DEF Outside
  <1>3. SplitStep(Quote, st) = [st EXCEPT !.inq = TRUE]
    BY <1>2 DEF SplitStep, Space, Quote
  <1> QED BY <1>1, <1>3 DEF Inside, Outside

(* The next quote. *)
LEMMA SplitClose ==
  ASSUME NEW o, NEW t
  PROVE  SplitStep(Quote, Inside(o, t)) = Outside(o, t)
  <1>1. PICK st : st = Inside(o, t)
    OBVIOUS
  <1>2. st.inq /\ st.out = o /\ st.tok = t
    BY <1>1 DEF Inside
  <1>3. SplitStep(Quote, st) = [st EXCEPT !.inq = FALSE]
    BY <1>2 DEF SplitStep, Space, Quote
  <1> QED BY <1>1, <1>3 DEF Inside, Outside

(* The end of an argument that is not empty. *)
LEMMA SplitEnd ==
  ASSUME NEW o, NEW t, t # <<>>
  PROVE  SplitFlush(Outside(o, t)) = Outside(Append(o, t), <<>>)
  BY DEF SplitFlush, Outside

(* A separator behind it. *)
LEMMA SplitSpace ==
  ASSUME NEW o, NEW t, t # <<>>
  PROVE  SplitStep(Space, Outside(o, t)) = Outside(Append(o, t), <<>>)
  <1>1. SplitStep(Space, Outside(o, t)) = SplitFlush(Outside(o, t))
    BY DEF SplitStep, Outside, Space, Quote
  <1> QED BY <1>1, SplitEnd

\* The recursion of Split, as far as n.
Splits(s, f, n) == f = [i \in 0 .. n |-> IF i = 0 THEN SplitStart ELSE SplitStep(s[i], f[i - 1])]

(* Some function satisfies it. *)
LEMMA SplitsExist ==
  ASSUME NEW s
  PROVE  \A n \in Nat : \E f : Splits(s, f, n)
  <1> DEFINE S == {n \in Nat : \E f : Splits(s, f, n)}
  <1>1. 0 \in S
    <2> DEFINE g == [k \in 0 .. 0 |-> SplitStart]
    <2>1. Splits(s, g, 0)
      BY DEF Splits
    <2> QED BY <2>1
  <1>2. ASSUME NEW n \in Nat, n \in S PROVE n + 1 \in S
    <2>1. PICK f : Splits(s, f, n)
      BY <1>2
    <2> DEFINE g == [k \in 0 .. n + 1 |-> IF k = 0 THEN SplitStart ELSE SplitStep(s[k], f[k - 1])]
    <2>2. \A k \in 0 .. n : g[k] = f[k]
      BY <2>1 DEF Splits
    <2>3. ASSUME NEW k \in 0 .. n + 1 PROVE g[k] = IF k = 0 THEN SplitStart ELSE SplitStep(s[k], g[k - 1])
      <3>1. CASE k = 0
        BY <3>1
      <3>2. CASE k # 0
        <4>1. k - 1 \in 0 .. n
          BY <3>2
        <4> QED BY <4>1, <2>2, <3>2
      <3> QED BY <3>1, <3>2
    <2>4. Splits(s, g, n + 1)
      BY <2>3 DEF Splits
    <2> QED BY <2>4
  <1> HIDE DEF S
  <1>3. \A n \in Nat : n \in S
    BY <1>1, <1>2, CountUp
  <1> QED BY <1>3 DEF S

\* A scan of s, state by state.
SplitsAlong(s, f) == \A i \in Nat : i + 1 <= Len(s) => f[i + 1] = SplitStep(s[i + 1], f[i])

(* Its values, one from the other, and what the last gives. *)
LEMMA SplitScan ==
  ASSUME NEW s \in Texts
  PROVE  \E f : f[0] = Outside(<<>>, <<>>) /\ SplitsAlong(s, f) /\ Split(s) = SplitFlush(f[Len(s)]).out
  <1>1. PICK n \in Nat : n = Len(s)
    BY TextLen
  <1>2. PICK f : f = (CHOOSE x : Splits(s, x, n)) /\ Splits(s, f, n)
    <2>1. \E x : Splits(s, x, n)
      BY SplitsExist
    <2> QED BY <2>1
  <1>3. f[0] = SplitStart /\ \A k \in 1 .. n : f[k] = SplitStep(s[k], f[k - 1])
    <2>1. 0 \in 0 .. n /\ \A k \in 1 .. n : k \in 0 .. n /\ k # 0
      OBVIOUS
    <2> QED BY <1>2, <2>1, Zenon DEF Splits
  <1>4. ASSUME NEW i \in Nat, i + 1 <= n PROVE f[i + 1] = SplitStep(s[i + 1], f[i])
    <2>1. i + 1 \in 1 .. n /\ i + 1 - 1 = i
      BY <1>4
    <2> QED BY <1>3, <2>1
  <1>5. Split(s) = LET f0 == CHOOSE x : Splits(s, x, Len(s)) IN SplitFlush(f0[Len(s)]).out
    BY DEF Split, Splits
  <1>6. Split(s) = SplitFlush(f[Len(s)]).out
    BY <1>1, <1>2, <1>5, Zenon
  <1>7. SplitStart = Outside(<<>>, <<>>)
    BY DEF SplitStart, Outside
  <1>8. SplitsAlong(s, f)
    BY <1>1, <1>4 DEF SplitsAlong
  <1>9. f[0] = Outside(<<>>, <<>>)
    BY <1>3, <1>7, Zenon
  <1> QED BY <1>6, <1>8, <1>9

\* Either of the two.
Side(k, o, t) == IF k = "in" THEN Inside(o, t) ELSE Outside(o, t)

(* A character that belongs to the argument. *)
LEMMA SplitOn ==
  ASSUME NEW k, NEW o, NEW t, NEW c, c # Quote, c # Space \/ k = "in"
  PROVE  SplitStep(c, Side(k, o, t)) = Side(k, o, Append(t, c))
  <1>1. CASE k = "in"
    BY <1>1, SplitInside DEF Side
  <1>2. CASE k # "in"
    BY <1>2, SplitOutside DEF Side
  <1> QED BY <1>1, <1>2

\* The characters of a stand behind the first d of F.
TextAfter(F, d, a) == d + Len(a) <= Len(F) /\ \A i \in 1 .. Len(a) : F[d + i] = a[i]

(* The characters of an argument are kept. *)
LEMMA SplitRun ==
  ASSUME NEW F \in Texts, NEW f, SplitsAlong(F, f), NEW d \in Nat, NEW a \in Texts, TextAfter(F, d, a),
         NEW k, ~Has(a, Quote), ~Has(a, Space) \/ k = "in", NEW o, f[d] = Side(k, o, <<>>),
         NEW e \in Nat, e = d + Len(a)
  PROVE  f[e] = Side(k, o, a)
  <1>0. PICK n \in Nat : n = Len(a) /\ a \in Seq(Chars)
    BY TextLen
  <1>1. PICK m \in Nat : m = Len(F)
    BY TextLen
  <1>2. d + n <= m /\ \A i \in 1 .. n : F[d + i] = a[i]
    BY <1>0, <1>1 DEF TextAfter
  <1> DEFINE S == {i \in Nat : i <= n => f[d + i] = Side(k, o, SubSeq(a, 1, i))}
  <1>3. 0 \in S
    <2>1. SubSeq(a, 1, 0) = <<>> /\ d + 0 = d
      BY <1>0
    <2> QED BY <2>1
  <1>4. ASSUME NEW i \in Nat, i \in S PROVE i + 1 \in S
    <2> SUFFICES ASSUME i + 1 <= n PROVE f[d + (i + 1)] = Side(k, o, SubSeq(a, 1, i + 1))
      OBVIOUS
    <2>1. PICK x : x = SubSeq(a, 1, i)
      OBVIOUS
    <2>2. PICK c : c = a[i + 1]
      OBVIOUS
    <2>3. SubSeq(a, 1, i + 1) = Append(x, c)
      BY <1>0, <2>1, <2>2, PrefixMore
    <2>4. PICK j \in Nat : j = d + i /\ j + 1 <= m /\ j + 1 = d + (i + 1)
      BY <1>2
    <2>5. i + 1 \in 1 .. n
      OBVIOUS
    <2>6. F[j + 1] = c
      BY <1>2, <2>2, <2>4, <2>5
    <2>7. f[j] = Side(k, o, x)
      BY <1>4, <2>1, <2>4
    <2>8. f[j + 1] = SplitStep(F[j + 1], f[j])
      BY <1>1, <2>4 DEF SplitsAlong
    <2>9. c # Quote /\ (c # Space \/ k = "in")
      BY <1>0, <2>2, <2>5 DEF Has
    <2>10. SplitStep(c, Side(k, o, x)) = Side(k, o, Append(x, c))
      BY <2>9, SplitOn
    <2> QED BY <2>3, <2>4, <2>6, <2>7, <2>8, <2>10
  <1> HIDE DEF S
  <1>5. n \in S
    BY <1>3, <1>4, CountUp
  <1>6. SubSeq(a, 1, n) = a
    BY <1>0, PrefixAll
  <1>7. n <= n
    OBVIOUS
  <1>8. f[d + n] = Side(k, o, SubSeq(a, 1, n))
    BY <1>5, <1>7, Zenon DEF S
  <1> QED BY <1>0, <1>6, <1>8

\* w is a in quotes.
InQuotes(w, a) == w = (<<Quote>> \o a) \o <<Quote>>

(* Its characters. *)
LEMMA InQuotesIs ==
  ASSUME NEW a \in Texts, NEW w, InQuotes(w, a), NEW n \in Nat, n = Len(a)
  PROVE  /\ w \in Texts /\ Len(w) = n + 2 /\ w[1] = Quote /\ w[n + 2] = Quote
         /\ \A i \in 1 .. n : w[1 + i] = a[i]
  <1>1. w \in Texts
    <2>1. Quote \in Chars
      BY DEF Chars
    <2>2. <<Quote>> \in Texts
      BY <2>1, TextOne
    <2> QED BY <2>2, TextConcat DEF InQuotes
  <1>2. Begins(w, w) /\ w = (<<Quote>> \o a) \o <<Quote>>
    BY <1>1, BeginsSelf, Zenon DEF InQuotes
  <1>3. /\ Len(w) = n + 2 /\ n + 2 <= Len(w) /\ w[1] = Quote /\ w[n + 2] = Quote
        /\ \A i \in 1 .. n : w[1 + i] = a[i]
    BY <1>1, <1>2, BeginsQuoted, Zenon
  <1> QED BY <1>1, <1>3, Zenon

(* An argument in quotes. *)
LEMMA SplitQuoted ==
  ASSUME NEW F \in Texts, NEW f, SplitsAlong(F, f), NEW d \in Nat, NEW a \in Texts, ~Has(a, Quote),
         NEW w, InQuotes(w, a), TextAfter(F, d, w), NEW o, f[d] = Outside(o, <<>>), NEW e \in Nat, e = d + Len(w)
  PROVE  f[e] = Outside(o, a)
  <1>0. PICK n \in Nat : n = Len(a)
    BY TextLen
  <1>1. PICK m \in Nat : m = Len(F)
    BY TextLen
  <1>2. Len(w) = n + 2 /\ w[1] = Quote /\ w[n + 2] = Quote /\ \A i \in 1 .. n : w[1 + i] = a[i]
    BY <1>0, InQuotesIs
  <1>3. d + (n + 2) <= m /\ e = d + (n + 2) /\ \A i \in 1 .. n + 2 : F[d + i] = w[i]
    BY <1>1, <1>2 DEF TextAfter
  <1>4. PICK b \in Nat : b = d + 1
    OBVIOUS
  <1>5. F[b] = Quote
    BY <1>2, <1>3, <1>4
  <1>6. f[b] = Inside(o, <<>>)
    <2>1. d + 1 <= m
      BY <1>3
    <2>2. f[d + 1] = SplitStep(F[d + 1], f[d])
      BY <1>1, <2>1 DEF SplitsAlong
    <2> QED BY <1>4, <1>5, <2>2, SplitOpen
  <1>7. TextAfter(F, b, a)
    <2>1. ASSUME NEW i \in 1 .. n PROVE F[b + i] = a[i]
      <3>1. PICK j \in Nat : j = 1 + i /\ j \in 1 .. n + 2 /\ d + j = b + i
        BY <1>4
      <3>2. F[d + j] = w[j] /\ w[j] = a[i]
        BY <1>2, <1>3, <3>1
      <3> QED BY <3>1, <3>2
    <2>2. b + n <= m
      BY <1>3, <1>4
    <2> QED BY <1>0, <1>1, <2>1, <2>2 DEF TextAfter
  <1>8. PICK c \in Nat : c = b + n /\ c + 1 <= m /\ c + 1 = e
    <2>1. b + n \in Nat /\ (b + n) + 1 <= m /\ (b + n) + 1 = e
      BY <1>3, <1>4
    <2> QED BY <2>1
  <1>9. f[c] = Inside(o, a)
    <2>1. f[b] = Side("in", o, <<>>)
      BY <1>6 DEF Side
    <2>2. f[c] = Side("in", o, a)
      BY <1>0, <1>7, <1>8, <2>1, SplitRun
    <2> QED BY <2>2 DEF Side
  <1>10. F[e] = Quote
    BY <1>2, <1>3
  <1>11. f[c + 1] = SplitStep(F[c + 1], f[c])
    BY <1>1, <1>8 DEF SplitsAlong
  <1>12. f[e] = SplitStep(F[e], f[c])
    BY <1>8, <1>11, Zenon
  <1> QED BY <1>9, <1>10, <1>12, SplitClose, Zenon

(* What load.cpp has written for an argument gives that argument. *)
LEMMA SplitArg ==
  ASSUME NEW F \in Texts, NEW f, SplitsAlong(F, f), NEW d \in Nat, NEW a \in Texts, PlainArg(a),
         TextAfter(F, d, LoadArg(a)), NEW o, f[d] = Outside(o, <<>>), NEW e \in Nat, e = d + Len(LoadArg(a))
  PROVE  f[e] = Outside(o, a)
  <1>1. PICK w : w = LoadArg(a)
    OBVIOUS
  <1>2. ~Has(a, Quote)
    BY DEF PlainArg
  <1>5. TextAfter(F, d, w) /\ e = d + Len(w)
    BY <1>1, Zenon
  <1>3. CASE LoadQuoted(a)
    <2>1. InQuotes(w, a)
      BY <1>1, <1>3 DEF LoadArg, InQuotes
    <2> QED BY <1>2, <1>5, <2>1, SplitQuoted
  <1>4. CASE ~LoadQuoted(a)
    <2>1. LoadArg(a) = a
      BY <1>4 DEF LoadArg
    <2>2. ~Has(a, Space)
      BY <1>4 DEF LoadQuoted
    <2>3. f[d] = Side("out", o, <<>>)
      BY DEF Side
    <2>4. TextAfter(F, d, a) /\ e = d + Len(a)
      BY <2>1
    <2>5. f[e] = Side("out", o, a)
      BY <1>2, <2>2, <2>3, <2>4, SplitRun
    <2> QED BY <2>5 DEF Side
  <1> QED BY <1>3, <1>4

(* The part of a line behind its beginning. *)
LEMMA AfterBeginning ==
  ASSUME NEW x \in Texts, NEW u \in Texts, NEW F, Begins(x \o u, F), NEW d \in Nat, d = Len(x)
  PROVE  TextAfter(F, d, u)
  BY BeginsTail DEF TextAfter

\* y is x with a separator and an argument more.
OneMore(x, a, y) == y = (x \o <<Space>>) \o LoadArg(a)

(* A separator and an argument more. *)
LEMMA SplitMore ==
  ASSUME NEW F \in Texts, NEW f, SplitsAlong(F, f), NEW x \in Texts, NEW d \in Nat, d = Len(x),
         NEW o, NEW t, t # <<>>, f[d] = Outside(o, t), NEW a \in Texts, PlainArg(a),
         NEW y, OneMore(x, a, y), Begins(y, F), NEW e \in Nat, e = Len(y)
  PROVE  f[e] = Outside(Append(o, t), a)
  <1>1. Space \in Chars
    BY DEF Chars
  <1>2. PICK s \in Texts : s = <<Space>>
    BY <1>1, TextOne
  <1>3. PICK sp \in Texts : sp = x \o s
    BY TextConcat
  <1>4. PICK w \in Texts : w = LoadArg(a)
    BY LoadArgText
  <1>5. y = sp \o w
    BY <1>2, <1>3, <1>4, Zenon DEF OneMore
  <1>6. Begins(sp, F)
    BY <1>5, BeginsHead
  <1>7. Len(sp) = d + 1 /\ d + 1 <= Len(F) /\ F[d + 1] = Space
    <2>1. sp = x \o <<Space>>
      BY <1>2, <1>3
    <2>2. Len(sp) = Len(x) + 1 /\ Len(x) + 1 <= Len(F) /\ F[Len(x) + 1] = Space
      BY <1>1, <1>6, <2>1, BeginsChar
    <2> QED BY <2>2
  <1>8. PICK b \in Nat : b = d + 1 /\ b = Len(sp)
    BY <1>7
  <1>9. f[b] = Outside(Append(o, t), <<>>)
    <2>1. f[d + 1] = SplitStep(F[d + 1], f[d])
      BY <1>7 DEF SplitsAlong
    <2> QED BY <1>7, <1>8, <2>1, SplitSpace
  <1>10. TextAfter(F, b, w)
    <2>1. Begins(sp \o w, F)
      BY <1>5
    <2> QED BY <1>8, <2>1, AfterBeginning
  <1>11. e = b + Len(w)
    <2>1. Len(sp \o w) = Len(sp) + Len(w)
      BY TextConcat
    <2> QED BY <1>5, <1>8, <2>1
  <1>12. TextAfter(F, b, LoadArg(a)) /\ e = b + Len(LoadArg(a))
    BY <1>4, <1>10, <1>11
  <1> QED BY <1>9, <1>12, SplitArg

(* The first arguments, one from the other. *)
LEMMA FirstMore ==
  ASSUME NEW v \in Seq(Texts), NEW k \in Nat, k + 1 <= Len(v)
  PROVE  SubSeq(v, 1, k + 1) = Append(SubSeq(v, 1, k), v[k + 1])
  <1>1. PICK x : x = SubSeq(v, 1, k)
    OBVIOUS
  <1>2. x \in Seq(Texts) /\ Len(x) = k /\ \A j \in 1 .. k : x[j] = v[j]
    <2>1. CASE k = 0
      BY <1>1, <2>1
    <2>2. CASE k # 0
      BY <1>1, <2>2
    <2> QED BY <2>1, <2>2
  <1>3. PICK y : y = SubSeq(v, 1, k + 1)
    OBVIOUS
  <1>4. y \in Seq(Texts) /\ Len(y) = k + 1 /\ \A j \in 1 .. k + 1 : y[j] = v[j]
    BY <1>3
  <1>5. v[k + 1] \in Texts
    OBVIOUS
  <1>6. PICK z : z = Append(x, v[k + 1])
    OBVIOUS
  <1>7. z \in Seq(Texts) /\ Len(z) = k + 1 /\ z[k + 1] = v[k + 1] /\ \A j \in 1 .. k : z[j] = x[j]
    BY <1>2, <1>5, <1>6
  <1>8. \A j \in 1 .. Len(y) : y[j] = z[j]
    <2> SUFFICES ASSUME NEW j \in 1 .. k + 1 PROVE y[j] = z[j]
      BY <1>4
    <2>1. CASE j = k + 1
      BY <1>4, <1>7, <2>1
    <2>2. CASE j # k + 1
      <3>1. j \in 1 .. k
        BY <2>2
      <3> QED BY <1>2, <1>4, <1>7, <3>1
    <2> QED BY <2>1, <2>2
  <1>9. y = z
    BY <1>4, <1>7, <1>8, SeqEqual
  <1> QED BY <1>1, <1>3, <1>6, <1>9

\* How far split_cmdline is behind the k-th argument.
SplitAt(v, f, L, k) == f[Len(L[k])] = Outside(SubSeq(v, 1, k - 1), v[k])

(* Behind the first argument. *)
LEMMA SplitFirst ==
  ASSUME NEW v \in Seq(Texts), v # <<>>, PlainArg(v[1]), NEW F \in Texts, NEW f, SplitsAlong(F, f),
         f[0] = Outside(<<>>, <<>>), NEW L, L[1] = LoadFirst(v), Begins(L[1], F)
  PROVE  SplitAt(v, f, L, 1)
  <1>1. PICK a \in Texts : a = v[1] /\ ~Has(a, Quote)
    BY EmptySeq DEF PlainArg
  <1>2. PICK w : w = L[1]
    OBVIOUS
  <1>3. InQuotes(w, a)
    BY <1>1, <1>2 DEF LoadFirst, InQuotes
  <1>4. w \in Texts /\ Begins(w, F)
    BY <1>2 DEF Begins
  <1>5. PICK e \in Nat : e = Len(w)
    BY <1>4, TextLen
  <1>6. TextAfter(F, 0, w) /\ e = 0 + Len(w) /\ 0 \in Nat
    BY <1>2, <1>4, <1>5 DEF Begins, TextAfter
  <1>7. f[e] = Outside(<<>>, a)
    BY <1>1, <1>3, <1>6, SplitQuoted
  <1>8. SubSeq(v, 1, 1 - 1) = <<>>
    OBVIOUS
  <1> QED BY <1>1, <1>2, <1>5, <1>7, <1>8 DEF SplitAt

(* Behind the next one. *)
LEMMA SplitNext ==
  ASSUME NEW v \in Seq(Texts), NEW k \in 1 .. Len(v), k + 1 <= Len(v), PlainArg(v[k]), PlainArg(v[k + 1]),
         NEW F \in Texts, NEW f, SplitsAlong(F, f), NEW L, L[k] \in Texts, L[k + 1] = LoadStep(v, k + 1, L[k]),
         Begins(L[k + 1], F), SplitAt(v, f, L, k)
  PROVE  SplitAt(v, f, L, k + 1)
  <1>1. PICK x \in Texts : x = L[k]
    OBVIOUS
  <1>2. PICK j \in Nat : j = k + 1 /\ j - 1 = k /\ j \in 1 .. Len(v)
    OBVIOUS
  <1>3. PICK a \in Texts : a = v[j] /\ PlainArg(a)
    BY <1>2
  <1>4. PICK t : t = v[k] /\ t # <<>>
    BY DEF PlainArg
  <1>5. PICK o : o = SubSeq(v, 1, k - 1)
    OBVIOUS
  <1>6. PICK d \in Nat : d = Len(x)
    BY TextLen
  <1>7. f[d] = Outside(o, t)
    BY <1>1, <1>4, <1>5, <1>6 DEF SplitAt
  <1>8. PICK y : y = L[j] /\ OneMore(x, a, y) /\ Begins(y, F)
    BY <1>1, <1>2, <1>3 DEF LoadStep, OneMore
  <1>9. PICK e \in Nat : e = Len(y)
    BY <1>8, TextLen DEF Begins
  <1>10. f[e] = Outside(Append(o, t), a)
    BY <1>3, <1>4, <1>6, <1>7, <1>8, <1>9, SplitMore
  <1>11. SubSeq(v, 1, k) = Append(o, t)
    <2>1. PICK i \in Nat : i + 1 = k /\ i = k - 1 /\ i + 1 <= Len(v)
      <3>1. k - 1 \in Nat /\ (k - 1) + 1 = k
        OBVIOUS
      <3> QED BY <3>1
    <2>2. SubSeq(v, 1, i + 1) = Append(SubSeq(v, 1, i), v[i + 1])
      BY <2>1, FirstMore
    <2> QED BY <1>4, <1>5, <2>1, <2>2
  <1> QED BY <1>2, <1>3, <1>8, <1>9, <1>10, <1>11 DEF SplitAt

(* The argument vector under the loader is what the process was given. *)
LEMMA LoadSplits ==
  ASSUME NEW v \in Seq(Texts), v # <<>>, \A k \in 1 .. Len(v) : PlainArg(v[k]), Len(LoadJoined(v)) < Cap
  PROVE  Split(LoadJoined(v)) = v
  <1>0. PICK n \in Nat : n = Len(v) /\ n >= 1
    BY EmptySeq
  <1>1. PICK F : F = LoadJoined(v) /\ Len(F) < Cap
    OBVIOUS
  <1>2. F \in Texts
    BY <1>1, LoadLaid
  <1>3. PICK L : /\ Laid(v, F, L) /\ L[1] = LoadFirst(v)
                 /\ \A k \in 1 .. n : Begins(L[k], F)
                 /\ \A k \in 1 .. n : k + 1 <= n => L[k + 1] = LoadStep(v, k + 1, L[k])
    BY <1>0, <1>1, LoadLaid
  <1>4. PICK f : f[0] = Outside(<<>>, <<>>) /\ SplitsAlong(F, f) /\ Split(F) = SplitFlush(f[Len(F)]).out
    BY <1>2, SplitScan
  <1> DEFINE S == {m \in Nat : m + 1 <= n => SplitAt(v, f, L, m + 1)}
  <1>5. 0 \in S
    <2>1. 1 \in 1 .. n /\ 0 + 1 = 1
      BY <1>0
    <2>2. PlainArg(v[1]) /\ Begins(L[1], F)
      BY <1>0, <1>3, <2>1
    <2>3. SplitAt(v, f, L, 1)
      BY <1>2, <1>3, <1>4, <2>2, SplitFirst
    <2> QED BY <2>1, <2>3
  <1>6. ASSUME NEW m \in Nat, m \in S PROVE m + 1 \in S
    <2> SUFFICES ASSUME m + 1 + 1 <= n PROVE SplitAt(v, f, L, m + 1 + 1)
      OBVIOUS
    <2>1. PICK k \in 1 .. n : k = m + 1 /\ k + 1 <= n /\ k + 1 \in 1 .. n
      OBVIOUS
    <2>2. SplitAt(v, f, L, k)
      BY <1>6, <2>1
    <2>3. PlainArg(v[k]) /\ PlainArg(v[k + 1])
      BY <1>0, <2>1
    <2>4. L[k] \in Texts /\ L[k + 1] = LoadStep(v, k + 1, L[k]) /\ Begins(L[k + 1], F)
      BY <1>0, <1>3, <2>1 DEF Laid
    <2>5. SplitAt(v, f, L, k + 1)
      BY <1>0, <1>2, <1>4, <2>1, <2>2, <2>3, <2>4, SplitNext
    <2> QED BY <2>1, <2>5
  <1> HIDE DEF S
  <1>7. SplitAt(v, f, L, n)
    <2>1. PICK m \in Nat : m + 1 = n
      <3>1. n - 1 \in Nat /\ (n - 1) + 1 = n
        BY <1>0
      <3> QED BY <3>1
    <2>2. m \in S
      BY <1>5, <1>6, CountUp
    <2>3. m + 1 <= n
      BY <2>1
    <2>4. SplitAt(v, f, L, m + 1)
      BY <2>2, <2>3, Zenon DEF S
    <2> QED BY <2>1, <2>4, Zenon
  <1>8. L[n] = F
    BY <1>0, <1>3 DEF Laid
  <1>9. PICK t : t = v[n] /\ t # <<>>
    BY <1>0 DEF PlainArg
  <1>10. PICK o : o = SubSeq(v, 1, n - 1)
    OBVIOUS
  <1>11. f[Len(F)] = Outside(o, t)
    BY <1>7, <1>8, <1>9, <1>10, Zenon DEF SplitAt
  <1>12. SplitFlush(Outside(o, t)) = Outside(Append(o, t), <<>>)
    BY <1>9, SplitEnd
  <1>13. Outside(Append(o, t), <<>>).out = Append(o, t)
    BY DEF Outside
  <1>14. Append(o, t) = v
    <2>1. PICK i \in Nat : i + 1 = n /\ i = n - 1 /\ i + 1 <= Len(v)
      <3>1. n - 1 \in Nat /\ (n - 1) + 1 = n
        BY <1>0
      <3> QED BY <1>0, <3>1
    <2>2. SubSeq(v, 1, i + 1) = Append(SubSeq(v, 1, i), v[i + 1])
      BY <2>1, FirstMore
    <2>3. SubSeq(v, 1, n) = v
      BY <1>0, SubSeqFull
    <2> QED BY <1>9, <1>10, <2>1, <2>2, <2>3
  <1> QED BY <1>1, <1>4, <1>11, <1>12, <1>13, <1>14, Zenon

\* What load.cpp hands over, and what the shim has made of it.
LoadInv ==
  /\ argv \in Argvs
  /\ phase = "reload" => Len(argv) >= 2 /\ env = LoadJoined(Tail(argv))
  /\ phase = "ready" /\ mode = "load" =>
       /\ Len(argv) >= 2
       /\ cmdline = Put(<<>>, LoadJoined(Tail(argv)))
       /\ mainArgv \in {Split(LoadJoined(Tail(argv))), <<>>}

(* The arguments behind the loader. *)
LEMMA LoaderArgs ==
  ASSUME NEW v \in Argvs, Len(v) >= 2
  PROVE  Tail(v) \in Seq(Texts) /\ Tail(v) # <<>>
  <1>1. v \in Seq(Texts)
    BY ArgvAssumption DEF Texts
  <1>2. Tail(v) \in Seq(Texts) /\ Len(Tail(v)) = Len(v) - 1
    BY <1>1
  <1>3. Len(v) \in Nat
    BY <1>1
  <1>4. Len(Tail(v)) # 0
    BY <1>2, <1>3
  <1>5. Tail(v) # <<>>
    BY <1>2, <1>4, EmptySeq
  <1> QED BY <1>2, <1>5

(* What fits the buffer is put there as it is. *)
LEMMA PutAll ==
  ASSUME NEW s \in Texts, NEW x, x = Put(<<>>, s), Len(x) < Cap
  PROVE  x = s
  <1>1. <<>> \in Texts /\ Len(<<>>) <= Cap
    BY TextNone, ArgvAssumption
  <1>2. x = <<>> \o s
    BY <1>1, PutIs
  <1> QED BY <1>2, ConcatEmptySeq, TextLen

(* Under the loader the C runtime and __getmainargs both find the .so file *)
(* and its arguments, whatever their number and length, if they fit and    *)
(* load.cpp has nothing to escape in them.                                 *)
THEOREM LoaderPassesArgumentsHolds == StartupSpec => []LoaderPassesArguments
  <1>1. StartupInit => LoadInv
    BY DEF StartupInit, Init, LoadInv
  <1>2. LoadInv /\ [StartupNext]_startupVars => LoadInv'
    <2> SUFFICES ASSUME LoadInv, [StartupNext]_startupVars PROVE LoadInv'
      OBVIOUS
    <2>1. CASE ShimInit
      <3>1. argv' = argv /\ mode' = mode /\ phase' \in {"main", "ready"} /\ (mode = "load" => phase' = "main")
        BY <2>1 DEF ShimInit
      <3> QED BY <3>1 DEF LoadInv
    <2>2. CASE ShimReloadCmdline
      <3>1. UNCHANGED <<argv, mode>> /\ RebuildCmdline(env) /\ BuildArgv(env) /\ phase = "reload" /\ phase' = "ready"
        BY <2>2 DEF ShimReloadCmdline
      <3>2. Len(argv) >= 2 /\ env = LoadJoined(Tail(argv)) /\ argv \in Argvs
        BY <3>1 DEF LoadInv
      <3>3. env # <<>>
        BY <3>2, LoaderArgs, LoadText
      <3>4. cmdline' = Put(<<>>, env)
        BY <3>1, <3>3 DEF RebuildCmdline
      <3>5. mainArgv' \in {Split(env), <<>>}
        BY <3>1, <3>3 DEF BuildArgv
      <3> QED BY <3>1, <3>2, <3>4, <3>5 DEF LoadInv
    <2>3. CASE LoadMain
      BY <2>3 DEF LoadMain, LoadInv
    <2>4. CASE \E line \in Lines : SplitLine(line)
      BY <2>4 DEF SplitLine, LoadInv
    <2>5. CASE UNCHANGED vars
      BY <2>5 DEF vars, LoadInv
    <2> QED BY <2>1, <2>2, <2>3, <2>4, <2>5 DEF StartupNext, startupVars, Next
  <1>3. LoadInv => LoaderPassesArguments
    <2> SUFFICES ASSUME LoadInv, NEW args, args = Tail(argv), phase = "ready", mode = "load", Len(cmdline) < Cap,
                        \A k \in 1 .. Len(args) : PlainArg(args[k])
                 PROVE  CommandLineToArgvW(cmdline) = args /\ mainArgv \in {args, <<>>}
      BY DEF LoaderPassesArguments, PlainArg
    <2>1. /\ argv \in Argvs /\ Len(argv) >= 2 /\ cmdline = Put(<<>>, LoadJoined(args))
          /\ mainArgv \in {Split(LoadJoined(args)), <<>>}
      BY DEF LoadInv
    <2>2. args \in Seq(Texts) /\ args # <<>>
      BY <2>1, LoaderArgs
    <2>3. LoadJoined(args) \in Texts
      BY <2>2, LoadText
    <2>4. cmdline = LoadJoined(args)
      BY <2>1, <2>3, PutAll
    <2>5. Len(LoadJoined(args)) < Cap
      BY <2>4
    <2>6. CommandLineToArgvW(LoadJoined(args)) = args
      BY <2>2, <2>5, LoadReads
    <2>7. Split(LoadJoined(args)) = args
      BY <2>2, <2>5, LoadSplits
    <2> QED BY <2>1, <2>4, <2>6, <2>7
  <1> QED BY <1>1, <1>2, <1>3, PTL DEF StartupSpec
=============================================================================
