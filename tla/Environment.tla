---------------------------- MODULE Environment ----------------------------
(***************************************************************************)
(* The environment as the program sees it: environ of libc, and the two    *)
(* blocks that GetEnvironmentStrings builds from it once (build_env_block) *)
(* and lends to every caller.  SetEnvironmentVariableW throws the blocks   *)
(* away.                                                                   *)
(*                                                                         *)
(* The operations hold no lock; a behaviour is one thread's calls.         *)
(***************************************************************************)
EXTENDS Integers, Sequences, SequencesExt

CONSTANTS
  Names, Values,
  BlocksA, BlocksW,   \* what malloc may return for a block
  Null,
  MaxEnviron,  \* bound: how many variables there are
  MaxHeld,     \* bound: how often the program is lent one block
  HeldOver,    \* the program may set a variable while it holds a block
  AnsiLate     \* ... or with SetEnvironmentVariableA once there is a block

Blocks    == BlocksA \cup BlocksW
Variables == [name : Names, value : Values]

\* The kinds of block are told apart, and Null is no block and no environment.
ASSUME EnvAssumption ==
  /\ MaxEnviron \in Nat \ {0} /\ MaxHeld \in Nat
  /\ BlocksA \cap BlocksW = {} /\ Null \notin Blocks
  /\ \A n \in 0 .. MaxEnviron : Null \notin [1 .. n -> Variables]

VARIABLES
  environ,     \* sequence of [name, value]
  blockA, blockW,   \* g_env_block, g_env_block_w
  heap,        \* contents of the blocks; Null once they are free
  held,        \* how often the program has been lent a block and not given it back
  doubled      \* whether free was called with what was free already

envVars == <<environ, blockA, blockW, heap, held, doubled>>

EnvInit ==
  /\ environ \in {<<>>} \cup {<<[name |-> n, value |-> v]>> : n \in Names, v \in Values}
  /\ blockA = Null /\ blockW = Null /\ heap = [b \in Blocks |-> Null]
  /\ held = [b \in Blocks |-> 0] /\ doubled = FALSE

-----------------------------------------------------------------------------
(* setenv and unsetenv of libc.                                            *)

Setenv(n, v) ==
  IF \E i \in 1 .. Len(environ) : environ[i].name = n
  THEN [i \in 1 .. Len(environ) |-> IF environ[i].name = n THEN [name |-> n, value |-> v] ELSE environ[i]]
  ELSE Append(environ, [name |-> n, value |-> v])

\* There is at most one of a name.
Unsetenv(n) ==
  LET at == {i \in 1 .. Len(environ) : environ[i].name = n}
  IN  IF at = {} THEN environ ELSE RemoveAt(environ, CHOOSE i \in at : TRUE)

-----------------------------------------------------------------------------
\* Whether the program may set a variable now: bounds and exclusions.
MaySetenv(new, ansi) ==
  /\ Len(new) <= MaxEnviron
  /\ HeldOver \/ ansi \/ \A b \in Blocks : held[b] = 0
  /\ AnsiLate \/ blockW = Null \/ ~ansi

\* What SetEnvironmentVariableW frees.
Freed == {blockW, blockA} \ {Null}

\* setenv may have no memory, which nobody looks at.
SetEnvironmentVariableW(new) ==
  /\ MaySetenv(new, FALSE)
  /\ environ' \in {new, environ}
  /\ heap' = [b \in Blocks |-> IF b \in Freed THEN Null ELSE heap[b]]
  /\ doubled' = (doubled \/ \E b \in Freed : heap[b] = Null)
  /\ blockA' = Null /\ blockW' = Null
  /\ UNCHANGED held

\* The blocks stay.
SetEnvironmentVariableA(new) ==
  /\ MaySetenv(new, TRUE)
  /\ environ' \in {new, environ}
  /\ UNCHANGED <<blockA, blockW, heap, held, doubled>>

\* build_env_block: both blocks, or neither when memory runs out.
BuildEnvBlock ==
  \/ \E a \in BlocksA, w \in BlocksW :
       /\ heap[a] = Null /\ heap[w] = Null
       /\ heap' = [heap EXCEPT ![a] = environ, ![w] = environ]
       /\ blockA' = a /\ blockW' = w
  \/ UNCHANGED <<heap, blockA, blockW>>

\* Both GetEnvironmentStrings: the block there is, else a new one.
GetEnvironmentStrings(wide) ==
  /\ IF (IF wide THEN blockW ELSE blockA) = Null THEN BuildEnvBlock ELSE UNCHANGED <<heap, blockA, blockW>>
  /\ LET p == IF wide THEN blockW' ELSE blockA' IN
     \/ p = Null /\ held' = held
     \/ p # Null /\ held[p] < MaxHeld /\ held' = [held EXCEPT ![p] = @ + 1]
  /\ UNCHANGED <<environ, doubled>>

\* Mutant of Lent: what was lent is freed.
LentNever(p) == FALSE

Lent(p) == p \in {blockA, blockW}

\* FreeEnvironmentStringsA and W, with a block of their kind.
FreeEnvironmentStrings(p) ==
  /\ held[p] > 0 /\ held' = [held EXCEPT ![p] = @ - 1]
  /\ heap' = IF Lent(p) THEN heap ELSE [heap EXCEPT ![p] = Null]
  /\ doubled' = (doubled \/ (~Lent(p) /\ heap[p] = Null))
  /\ UNCHANGED <<environ, blockA, blockW>>

EnvNext ==
  \/ \E n \in Names, v \in Values : SetEnvironmentVariableW(Setenv(n, v)) \/ SetEnvironmentVariableA(Setenv(n, v))
  \/ \E n \in Names : SetEnvironmentVariableW(Unsetenv(n)) \/ SetEnvironmentVariableA(Unsetenv(n))
  \/ \E wide \in BOOLEAN : GetEnvironmentStrings(wide)
  \/ \E p \in Blocks : FreeEnvironmentStrings(p)

-----------------------------------------------------------------------------
(* Properties.                                                             *)

(* A block the program holds stays allocated, with the environment there   *)
(* was when it was lent or later, the two cached blocks agree with environ *)
(* and with each other, and nothing is freed twice: lending, giving back   *)
(* and throwing away are in step.  (With HeldOver or AnsiLate it is not.)  *)
EnvBlocksSound ==
  /\ ~doubled
  /\ \A b \in Blocks : held[b] > 0 => heap[b] # Null
  /\ blockA = Null <=> blockW = Null
  /\ \A b \in {blockA, blockW} \ {Null} : heap[b] = environ

=============================================================================
