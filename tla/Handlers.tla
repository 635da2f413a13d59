------------------------------ MODULE Handlers ------------------------------
(***************************************************************************)
(* The handlers a program registers: vectored exception handlers (a list   *)
(* of VEHEntry), and console handlers (an array), which a thread of the    *)
(* shim calls that a signal handler wakes through a pipe; and the          *)
(* dispositions of signals that the C runtime's signal() changes too.      *)
(*                                                                         *)
(* The two services share nothing but the process, so a behaviour has the  *)
(* program use one of them.  A handler is a function's name.               *)
(***************************************************************************)
EXTENDS Integers, Sequences, SequencesExt

CONSTANTS
  Uses,         \* what programs use: "exceptions" or "console", or another service of the shim
  Threads,
  Fns,          \* functions of the program
  Entries,      \* what malloc may return for a VEHEntry
  Null,
  CTRL_HANDLER_MAX,
  MaxSignals    \* bound: how many signals arrive

ASSUME HandlersAssumption ==
  /\ CTRL_HANDLER_MAX \in Nat \ {0} /\ MaxSignals \in Nat
  /\ Null \notin Fns \cup Entries /\ IsFiniteSet(Entries)

VARIABLES
  service,      \* what the program uses
  status,       \* of the process: "running", "exited" or "killed"
  pc, arg,      \* of the threads: place and locals
  head, tail, prev, next, fn,   \* g_veh_head, g_veh_tail and the entries
  alive,        \* entries that are allocated
  order,        \* history: the registered entries, in the order of the calls
  ctrl,         \* g_ctrl_handlers, up to g_ctrl_handler_count
  pipe,         \* g_ctrl_pipe: "none", "open"
  bytes,        \* written to it and not read yet
  dispatcher,   \* ctrl_dispatcher_thread: "off", "read", "call" or "gone"
  local,        \* the handlers it still has to call
  told, taken,  \* history: handlers told since the last Ctrl-C, one returned TRUE
  disp,         \* disposition of the signals
  signals       \* that have arrived

vehVars  == <<head, tail, prev, next, fn, alive, order>>
ctrlVars == <<ctrl, pipe, bytes, dispatcher, local, told, taken, disp, signals>>
frame    == <<pc, arg>>
vars     == <<service, status, frame, vehVars, ctrlVars>>

Signals == {"SIGINT", "SIGABRT"}

\* install_signal_handlers has run.
Init ==
  /\ service \in Uses
  /\ status = "running"
  /\ pc = [t \in Threads |-> "idle"] /\ arg = [t \in Threads |-> Null]
  /\ head = Null /\ tail = Null
  /\ prev = [e \in Entries |-> Null] /\ next = [e \in Entries |-> Null] /\ fn = [e \in Entries |-> Null]
  /\ alive = {} /\ order = <<>>
  /\ ctrl = <<>> /\ pipe = "none" /\ bytes = 0 /\ dispatcher = "off" /\ local = <<>> /\ told = {} /\ taken = FALSE
  /\ disp = [s \in Signals |-> IF s = "SIGABRT" THEN "crash_handler" ELSE "SIG_DFL"]
  /\ signals = 0

Idle(t) == pc[t] = "idle" /\ status = "running"

Goto(t, where, what) == pc' = [pc EXCEPT ![t] = where] /\ arg' = [arg EXCEPT ![t] = what]

Return(t) == Goto(t, "idle", Null)

-----------------------------------------------------------------------------
(* The list of vectored handlers; every operation is one section under     *)
(* g_veh_mu.                                                               *)

\* AddVectoredExceptionHandler; without memory nothing happens.
AddFirst(e) ==
  /\ prev' = [x \in Entries |-> IF x = e THEN Null ELSE IF x = head THEN e ELSE prev[x]]
  /\ next' = [next EXCEPT ![e] = head]
  /\ head' = e
  /\ tail' = IF tail = Null THEN e ELSE tail
  /\ order' = <<e>> \o order

AddLast(e) ==
  /\ next' = [x \in Entries |-> IF x = e THEN Null ELSE IF x = tail THEN e ELSE next[x]]
  /\ prev' = [prev EXCEPT ![e] = tail]
  /\ tail' = e
  /\ head' = IF head = Null THEN e ELSE head
  /\ order' = Append(order, e)

AddVectoredExceptionHandler(t, first, f) ==
  /\ Idle(t) /\ service = "exceptions"
  /\ \E e \in Entries \ alive :
       /\ alive' = alive \cup {e}
       /\ fn' = [fn EXCEPT ![e] = f]
       /\ IF first THEN AddFirst(e) ELSE AddLast(e)
  /\ UNCHANGED <<service, status, frame, ctrlVars>>

\* The entries a walk along next meets, from head; at most n of them.
Walk(n) ==
  LET from[k \in 0 .. n] == IF k = 0 THEN <<>>
        ELSE LET w == from[k - 1]
                 e == IF w = <<>> THEN head ELSE next[Last(w)]
             IN  IF Len(w) < k - 1 \/ e = Null THEN w ELSE Append(w, e)
  IN  from[n]

\* Mutant of Found: any entry that is allocated will do.
FoundAllocated(e) == e \in alive

\* The loop of RemoveVectoredExceptionHandler.
Found(e) == Contains(Walk(Cardinality(Entries)), e)

\* The handle may be one that has been removed before.
RemoveVectoredExceptionHandler(t, e) ==
  /\ Idle(t) /\ service = "exceptions"
  /\ \/ /\ Found(e)
        /\ head' = IF prev[e] = Null THEN next[e] ELSE head
        /\ tail' = IF next[e] = Null THEN prev[e] ELSE tail
        /\ next' = [x \in Entries |-> IF x = prev[e] THEN next[e] ELSE next[x]]
        /\ prev' = [x \in Entries |-> IF x = next[e] THEN prev[e] ELSE prev[x]]
        /\ order' = RemoveFirst(order, e)
        /\ Goto(t, "free", e)
     \/ ~Found(e) /\ UNCHANGED <<head, tail, next, prev, order, frame>>
  /\ UNCHANGED <<service, status, fn, alive, ctrlVars>>

\* Nobody reads what is left in the memory.
FreeEntry(t) ==
  /\ pc[t] = "free" /\ status = "running"
  /\ alive' = alive \ {arg[t]}
  /\ prev' = [prev EXCEPT ![arg[t]] = Null]
  /\ next' = [next EXCEPT ![arg[t]] = Null]
  /\ fn' = [fn EXCEPT ![arg[t]] = Null]
  /\ Return(t)
  /\ UNCHANGED <<service, status, head, tail, order, ctrlVars>>

-----------------------------------------------------------------------------
(* SetConsoleCtrlHandler: the array under g_ctrl_mu, then the disposition  *)
(* by the count that was read.                                             *)

SetConsoleCtrlHandlerNull(t, add) ==
  /\ Idle(t) /\ service = "console"
  /\ disp' = [disp EXCEPT !["SIGINT"] = IF add THEN "SIG_IGN" ELSE "SIG_DFL"]
  /\ UNCHANGED <<service, status, frame, vehVars, ctrl, pipe, bytes, dispatcher, local, told, taken, signals>>

\* ctrl_init, once: the pipe or the thread may not be had.
CtrlInit ==
  \/ pipe # "none" /\ UNCHANGED <<pipe, dispatcher>>
  \/ pipe = "none" /\ pipe' = "failed" /\ dispatcher' = dispatcher
  \/ pipe = "none" /\ pipe' = "open" /\ dispatcher' \in {"off", "read"}

\* The last handler takes the place of the removed one.
Removed(h) ==
  LET at == {k \in 1 .. Len(ctrl) : ctrl[k] = h}
      i  == CHOOSE k \in at : \A j \in at : k <= j
  IN  IF at = {} THEN ctrl ELSE Front([ctrl EXCEPT ![i] = Last(ctrl)])

Disposition(handlers) == IF handlers # <<>> THEN "posix_sigint_handler" ELSE "SIG_DFL"

SetConsoleCtrlHandler(t, h, add) ==
  /\ Idle(t) /\ service = "console"
  /\ CtrlInit
  /\ ctrl' = IF ~add THEN Removed(h) ELSE IF Len(ctrl) < CTRL_HANDLER_MAX THEN Append(ctrl, h) ELSE ctrl
  /\ Goto(t, "set", Disposition(ctrl'))
  /\ UNCHANGED <<service, status, vehVars, bytes, local, told, taken, disp, signals>>

\* signal, the end of SetConsoleCtrlHandler.
SetDisposition(t) ==
  /\ pc[t] = "set" /\ status = "running"
  /\ disp' = [disp EXCEPT !["SIGINT"] = arg[t]]
  /\ Return(t)
  /\ UNCHANGED <<service, status, vehVars, ctrl, pipe, bytes, dispatcher, local, told, taken, signals>>

\* msvcrt_signal; the trampoline calls the handler of the program's own.
MsvcrtSignal(t, s, handler) ==
  /\ Idle(t) /\ service = "console"
  /\ disp' = [disp EXCEPT ![s] = handler]
  /\ UNCHANGED <<service, status, frame, vehVars, ctrl, pipe, bytes, dispatcher, local, told, taken, signals>>

\* The signal arrives: the default action, crash_handler, posix_sigint_handler
\* (which only writes to the pipe) or msvcrt_signal_trampoline, which has been
\* installed without SA_RESTART: the read of the dispatcher fails if it is the one
\* to be interrupted, and that is the end of its loop.
Signal(s) ==
  /\ status = "running" /\ service = "console" /\ signals < MaxSignals
  /\ signals' = signals + 1
  /\ status' = CASE disp[s] = "SIG_DFL" -> "killed" [] disp[s] = "crash_handler" -> "exited" [] OTHER -> status
  /\ IF disp[s] = "posix_sigint_handler" /\ pipe = "open"
     THEN bytes' = bytes + 1 /\ told' = {} /\ taken' = FALSE
     ELSE UNCHANGED <<bytes, told, taken>>
  /\ \/ dispatcher' = dispatcher
     \/ disp[s] = "msvcrt_signal_trampoline" /\ dispatcher = "read" /\ bytes = 0 /\ dispatcher' = "gone"
  /\ UNCHANGED <<service, frame, vehVars, ctrl, pipe, local, disp>>

-----------------------------------------------------------------------------
(* ctrl_dispatcher_thread: read, snapshot, call from the last to the first.*)

\* Mutant of Snapshot: the first handler is never reached (i > 0).
SnapshotButFirst == Front(Reverse(ctrl))

Snapshot == Reverse(ctrl)

DispatcherReads ==
  /\ dispatcher = "read" /\ bytes > 0 /\ status = "running"
  /\ bytes' = bytes - 1
  /\ dispatcher' = "call" /\ local' = Snapshot
  /\ UNCHANGED <<service, status, frame, vehVars, ctrl, pipe, told, taken, disp, signals>>

DispatcherCalls ==
  /\ dispatcher = "call" /\ status = "running"
  /\ \/ local = <<>> /\ dispatcher' = "read" /\ UNCHANGED <<local, told, taken>>
     \/ /\ local # <<>>
        /\ told' = told \cup {local[1]}
        /\ \/ taken' = TRUE /\ dispatcher' = "read" /\ local' = <<>>
           \/ UNCHANGED <<dispatcher, taken>> /\ local' = Tail(local)
  /\ UNCHANGED <<service, status, frame, vehVars, ctrl, pipe, bytes, disp, signals>>

-----------------------------------------------------------------------------
Call(t) ==
  \/ \E f \in Fns, first \in BOOLEAN : AddVectoredExceptionHandler(t, first, f)
  \/ \E e \in Entries : RemoveVectoredExceptionHandler(t, e)
  \/ \E add \in BOOLEAN : SetConsoleCtrlHandlerNull(t, add)
  \/ \E h \in Fns, add \in BOOLEAN : SetConsoleCtrlHandler(t, h, add)
  \/ \E s \in Signals, handler \in {"msvcrt_signal_trampoline", "SIG_DFL", "SIG_IGN"} :
       MsvcrtSignal(t, s, handler)

Progress(t) == FreeEntry(t) \/ SetDisposition(t)

Dispatch == DispatcherReads \/ DispatcherCalls

Next == (\E t \in Threads : Call(t) \/ Progress(t)) \/ (\E s \in Signals : Signal(s)) \/ Dispatch

\* Threads run; handlers return.
Spec == Init /\ [][Next]_vars /\ WF_vars(Dispatch)

-----------------------------------------------------------------------------
(* Properties.                                                             *)

\* The entries a walk along prev meets, from tail.
WalkBack ==
  LET n == Cardinality(Entries)
      from[k \in 0 .. n] == IF k = 0 THEN <<>>
        ELSE LET w == from[k - 1]
                 e == IF w = <<>> THEN tail ELSE prev[Last(w)]
             IN  IF Len(w) < k - 1 \/ e = Null THEN w ELSE Append(w, e)
  IN  from[n]

(* The list holds the registered handlers in the order Windows calls them, *)
(* forwards and backwards, none of them freed, and an entry on its way to  *)
(* free is out of the list and one thread's: however handles are removed   *)
(* twice or from two threads, and entries are allocated again.             *)
ListIntact ==
  /\ Walk(Cardinality(Entries)) = order
  /\ WalkBack = Reverse(order)
  /\ \A t \in Threads : pc[t] = "free" =>
       /\ arg[t] \in alive /\ ~Contains(order, arg[t])
       /\ \A u \in Threads : pc[u] = "free" /\ arg[u] = arg[t] => u = t
  /\ \A k \in 1 .. Len(order) : order[k] \in alive

(* A Ctrl-C that was caught reaches every console handler that stays       *)
(* registered, unless another one takes it or the process ends, as long as *)
(* the dispatcher reads and calls.  (Where the thread could not be had, or *)
(* has ended because a handler of msvcrt_signal interrupted its read, the  *)
(* signal is caught and nobody is told.)                                   *)
CtrlCReaches ==
  \A h \in Fns :
    (bytes > 0 /\ dispatcher \in {"read", "call"} /\ Contains(ctrl, h))
      ~> (h \in told \/ taken \/ ~Contains(ctrl, h) \/ status # "running")
=============================================================================
