---------------------------- MODULE CommandLine ----------------------------
(***************************************************************************)
(* How the arguments of the process reach the program.  The shim joins     *)
(* them to the one command line GetCommandLine returns (rebuild_cmdline),  *)
(* which the C runtime in the program splits again, and keeps an argument  *)
(* vector of its own for __getmainargs (build_argv).  The loader of --so   *)
(* files, load.cpp, hands both a command line through the environment and  *)
(* has the shim read it again (shim_reload_cmdline).                       *)
(*                                                                         *)
(* A string is a sequence of characters, of which four are told apart: one *)
(* that separates, the quote, the backslash and any other.                 *)
(***************************************************************************)
EXTENDS Integers, Sequences, FiniteSets

CONSTANTS
  Argvs,   \* the argument vectors the process is started with
  Lines,   \* the lines it splits with CommandLineToArgvW
  Cap      \* sizeof(g_cmdline) - 1

Letter == "a"
Space  == " "
Quote  == "\""
Slash  == "\\"
Nul    == "0"
Self   == <<Letter>>   \* the program's path
Chars  == {Letter, Space, Quote, Slash}

ASSUME ArgvAssumption ==
  /\ Cap \in Nat
  /\ \A v \in Argvs : v \in Seq(Seq(Chars)) /\ v # <<>>
  /\ \A s \in Lines : s \in Seq(Chars)

VARIABLES
  argv,      \* of the process
  mode,      \* "direct": a converted program; "load": load.cpp
  phase,
  env,       \* WINAPI_SHIM_CMDLINE, empty if it is not set; none is inherited
  cmdline,   \* g_cmdline
  mainArgv,  \* g_main_argv, as far as it has been filled in
  mainArgc,  \* g_main_argc
  parsed     \* a line that CommandLineToArgvW is given

vars == <<argv, mode, phase, env, cmdline, mainArgv, mainArgc, parsed>>

Init ==
  /\ argv \in Argvs
  /\ mode \in {"direct", "load"}
  /\ phase = "constructors" /\ env = <<>>
  /\ cmdline = <<>> /\ mainArgv = <<>> /\ mainArgc = 0 /\ parsed = <<>>

Has(s, c) == \E i \in 1 .. Len(s) : s[i] = c

Repeat(c, n) == [i \in 1 .. n |-> c]

-----------------------------------------------------------------------------
(* rebuild_cmdline.                                                        *)

\* Every character goes through a test of the room that is left.
Put(out, s) == SubSeq(out \o s, 1, IF Len(out) + Len(s) < Cap THEN Len(out) + Len(s) ELSE Cap)

\* What goes before a quote after bs backslashes.
Escaped(bs) == Repeat(Slash, bs + 1)

\* Mutant of Closing: the backslashes before the closing quote stay single.
ClosingBare(first, bs) == <<Quote>>

Closing(first, bs) == (IF first THEN <<>> ELSE Repeat(Slash, bs)) \o <<Quote>>

Quoted(first, a) == a = <<>> \/ Has(a, Space) \/ (~first /\ Has(a, Quote))

\* One character of an argument, of which the line has what is before it.
AddChar(first, c, s) ==
  IF ~first /\ c = Quote
  THEN [out |-> Put(Put(s.out, Escaped(s.bs)), <<Quote>>), bs |-> 0]
  ELSE [out |-> Put(s.out, <<c>>), bs |-> IF c = Slash THEN s.bs + 1 ELSE 0]

\* One argument added to the line.
AddArg(line, first, a) ==
  LET start == Put(Put(line, IF first THEN <<>> ELSE <<Space>>), IF Quoted(first, a) THEN <<Quote>> ELSE <<>>)
      scan[i \in 0 .. Len(a)] == IF i = 0 THEN [out |-> start, bs |-> 0] ELSE AddChar(first, a[i], scan[i - 1])
      end == scan[Len(a)]
  IN  IF Quoted(first, a) THEN Put(end.out, Closing(first, end.bs)) ELSE end.out

Joined(v) ==
  LET line[k \in 0 .. Len(v)] == IF k = 0 THEN <<>> ELSE AddArg(line[k - 1], k = 1, v[k])
  IN  line[Len(v)]

\* The line is empty if /proc/self/cmdline cannot be read.
RebuildCmdline(override) ==
  IF override # <<>> THEN cmdline' = Put(<<>>, override) ELSE cmdline' \in {Joined(argv), <<>>}

-----------------------------------------------------------------------------
(* build_argv.                                                             *)

\* /proc/self/cmdline.
Raw(v) ==
  LET bytes[k \in 0 .. Len(v)] == IF k = 0 THEN <<>> ELSE bytes[k - 1] \o v[k] \o <<Nul>>
  IN  bytes[Len(v)]

\* Mutant of Starts: an argument is counted at its end, and one more.
StartsAndEnd(raw) == {i \in 0 .. Len(raw) : i = 0 \/ raw[i] = Nul}

\* Where build_argv counts an argument.
Starts(raw) == {i \in 1 .. Len(raw) : i = 1 \/ (raw[i - 1] = Nul /\ raw[i] # Nul)}

\* split_cmdline: quotes group, whitespace separates.
SplitStart == [out |-> <<>>, tok |-> <<>>, inq |-> FALSE]

SplitFlush(st) == IF st.tok = <<>> /\ ~st.inq THEN st ELSE [st EXCEPT !.out = Append(@, st.tok), !.tok = <<>>]

SplitStep(c, st) ==
  CASE c = Quote /\ st.inq   -> [st EXCEPT !.inq = FALSE]
    [] c = Quote /\ ~st.inq  -> [st EXCEPT !.inq = TRUE]
    [] c = Space /\ ~st.inq  -> SplitFlush(st)
    [] OTHER                 -> [st EXCEPT !.tok = Append(@, c)]

Split(s) ==
  LET scan[i \in 0 .. Len(s)] == IF i = 0 THEN SplitStart ELSE SplitStep(s[i], scan[i - 1])
  IN  SplitFlush(scan[Len(s)]).out

\* The vector and its length; without memory for the vector both stay empty.
\* (Memory that runs out later, for a token, is left out.)
BuildArgv(override) ==
  \/ IF override # <<>>
     THEN mainArgv' = Split(override) /\ mainArgc' = Len(Split(override))
     ELSE LET n == Cardinality(Starts(Raw(argv))) IN
          /\ mainArgv' = SubSeq(argv, 1, IF n < Len(argv) THEN n ELSE Len(argv))
          /\ mainArgc' = n
  \/ mainArgv' = <<>> /\ mainArgc' = 0

-----------------------------------------------------------------------------
\* shim_init, before main.
ShimInit ==
  /\ phase = "constructors"
  /\ RebuildCmdline(env)
  /\ BuildArgv(env)
  /\ phase' = IF mode = "load" THEN "main" ELSE "ready"
  /\ UNCHANGED <<argv, mode, env, parsed>>

\* Mutant of LoadQuoted: arguments with a separator in them are not quoted.
LoadQuotedEmpty(a) == a = <<>>

\* load.cpp quotes an argument, but escapes nothing in it.
LoadQuoted(a) == a = <<>> \/ Has(a, Space)

LoadArg(a) == IF LoadQuoted(a) THEN <<Quote>> \o a \o <<Quote>> ELSE a

LoadJoined(v) ==
  LET line[k \in 1 .. Len(v)] ==
        IF k = 1 THEN <<Quote>> \o v[1] \o <<Quote>> ELSE line[k - 1] \o <<Space>> \o LoadArg(v[k])
  IN  line[Len(v)]

\* main of load.cpp, whose argv[1] is the .so file.
LoadMain ==
  /\ phase = "main"
  /\ \/ Len(argv) < 2 /\ phase' = "usage" /\ env' = env
     \/ Len(argv) >= 2 /\ phase' = "reload" /\ env' = LoadJoined(Tail(argv))
  /\ UNCHANGED <<argv, mode, cmdline, mainArgv, mainArgc, parsed>>

ShimReloadCmdline ==
  /\ phase = "reload"
  /\ RebuildCmdline(env)
  /\ BuildArgv(env)
  /\ phase' = "ready"
  /\ UNCHANGED <<argv, mode, env, parsed>>

-----------------------------------------------------------------------------
(* CommandLineToArgvW, by the rules of the C runtime of Microsoft.         *)

\* The scan of the arguments after the first: those it has, then what it has of
\* the next one, with the backslashes at its end still to be counted.
LaterStart == [out |-> <<>>, tok |-> <<>>, open |-> FALSE, inq |-> FALSE, bs |-> 0, pair |-> FALSE]

LaterStep(s, i, st) ==
  LET half == st.tok \o Repeat(Slash, st.bs \div 2)
      kept == st.tok \o Repeat(Slash, st.bs)
      next == i < Len(s) /\ s[i + 1] = Quote
      quote == ~st.pair /\ s[i] = Quote
      odd  == st.bs % 2 = 1
  IN  CASE st.pair -> [st EXCEPT !.pair = FALSE]
        [] ~st.pair /\ s[i] = Slash -> [st EXCEPT !.bs = @ + 1, !.open = TRUE]
        [] quote /\ odd -> [st EXCEPT !.tok = Append(half, Quote), !.bs = 0, !.open = TRUE]
        [] quote /\ ~odd /\ st.inq /\ next ->
             [st EXCEPT !.tok = Append(half, Quote), !.bs = 0, !.open = TRUE, !.pair = TRUE]
        [] quote /\ ~odd /\ st.inq /\ ~next -> [st EXCEPT !.tok = half, !.bs = 0, !.open = TRUE, !.inq = FALSE]
        [] quote /\ ~odd /\ ~st.inq -> [st EXCEPT !.tok = half, !.bs = 0, !.open = TRUE, !.inq = TRUE]
        [] ~st.pair /\ s[i] = Space /\ ~st.inq ->
             [st EXCEPT !.out = IF st.open THEN Append(@, kept) ELSE @,
                        !.tok = <<>>, !.open = FALSE, !.bs = 0]
        [] OTHER -> [st EXCEPT !.tok = Append(kept, s[i]), !.open = TRUE, !.bs = 0]

LaterArgs(s) ==
  LET scan[i \in 0 .. Len(s)] == IF i = 0 THEN LaterStart ELSE LaterStep(s, i, scan[i - 1])
      end == scan[Len(s)]
  IN  IF end.open THEN Append(end.out, end.tok \o Repeat(Slash, end.bs)) ELSE end.out

\* In the first argument a backslash escapes nothing; an empty line is the
\* program's path.
CommandLineToArgvW(s) ==
  LET quoted == s # <<>> /\ s[1] = Quote
      from == IF quoted THEN 2 ELSE 1
      ends == {i \in from .. Len(s) : s[i] = IF quoted THEN Quote ELSE Space}
      end  == IF ends = {} THEN Len(s) + 1 ELSE CHOOSE i \in ends : \A j \in ends : i <= j
  IN  IF s = <<>> THEN <<Self>>
      ELSE <<SubSeq(s, from, end - 1)>> \o LaterArgs(SubSeq(s, IF quoted THEN end + 1 ELSE end, Len(s)))

\* Mutant of ArgvSlots: the end of the vector is forgotten, and the first argument.
ArgvSlotsBare(len) == len \div 2 + 1

\* The block it allocates: how many pointers, how many code units of text.
ArgvSlots(len) == len \div 2 + 3
ArgvUnits(len) == 2 * len + 2

\* The program has the shim split a line of its own.
SplitLine(line) ==
  /\ phase = "ready" /\ mode = "direct" /\ argv = <<Self>>
  /\ phase' = "split"
  /\ parsed' = line
  /\ UNCHANGED <<argv, mode, env, cmdline, mainArgv, mainArgc>>

Next == ShimInit \/ LoadMain \/ ShimReloadCmdline \/ \E line \in Lines : SplitLine(line)

Spec == Init /\ [][Next]_vars

-----------------------------------------------------------------------------
(* Properties.                                                             *)

\* The program's runtime splits the line of rebuild_cmdline back into the very
\* arguments of the process, unless the line was too long for the buffer or the
\* arguments could not be read.
CrtSeesArguments ==
  phase = "ready" /\ mode = "direct" /\ Len(cmdline) \in 1 .. Cap - 1 => CommandLineToArgvW(cmdline) = argv

\* g_main_argc counts the entries of g_main_argv that have been filled in, so
\* nobody reads past them, and these are the first arguments of the process:
\* all of them, unless one is empty.
MainArgsPrefix ==
  LET n == Len(mainArgv) IN
  /\ mainArgc = n
  /\ phase = "ready" /\ mode = "direct" =>
       /\ n <= Len(argv) /\ mainArgv = SubSeq(argv, 1, n)
       /\ n # 0 /\ (\A k \in 2 .. Len(argv) : argv[k] # <<>>) => n = Len(argv)

\* Under the loader the runtime and __getmainargs both see the .so file and its
\* arguments, if no argument has a quote or a backslash at the end and none
\* is empty.
LoaderPassesArguments ==
  LET args == Tail(argv)
      Plain(a) == a # <<>> /\ ~Has(a, Quote) /\ a[Len(a)] # Slash
  IN  phase = "ready" /\ mode = "load" /\ Len(cmdline) < Cap /\ (\A k \in 1 .. Len(args) : Plain(args[k]))
        => CommandLineToArgvW(cmdline) = args /\ mainArgv \in {args, <<>>}

\* CommandLineToArgvW writes its arguments and their ends into a block it
\* measures before it splits: they fit, whatever the line, the null pointer
\* that ends the vector included.
ArgvBlockFits ==
  phase = "split" =>
    LET args == CommandLineToArgvW(parsed)
        units[k \in 0 .. Len(args)] == IF k = 0 THEN 0 ELSE units[k - 1] + Len(args[k]) + 1
    IN  parsed # <<>> => Len(args) + 1 <= ArgvSlots(Len(parsed)) /\ units[Len(args)] <= ArgvUnits(Len(parsed))
=============================================================================
