---------------------------- MODULE FileHandles ----------------------------
(***************************************************************************)
(* The handles of the shim that are no synchronisation objects: files,     *)
(* directory searches and loaded libraries, in the one table of handles.   *)
(* A call holds g_handles_mu only while it reads or writes the table; the  *)
(* system calls on what it found there come after the unlock, so each call *)
(* is a few steps.                                                         *)
(*                                                                         *)
(* Three counts must agree at every step: the descriptors of the process,  *)
(* the references to a FindCtx and the counts of dlopen.  The standard     *)
(* handles are slots of the table too, and SetStdHandle makes a slot       *)
(* borrow the descriptor of another one.                                   *)
(*                                                                         *)
(* What the program is assumed not to do, on Windows either: it closes no  *)
(* file and no library that a call in flight uses or a standard handle is  *)
(* set to, steps a search in one thread at a time and sets a standard      *)
(* handle in one thread at a time.  It may close a search another thread   *)
(* steps: the code says that this is safe.                                 *)
(***************************************************************************)
EXTENDS Integers, FiniteSets

CONSTANTS
  Threads,
  NStd,         \* number of standard handles (3 in the code)
  NSlots,       \* MAX_HANDLES
  NFds,         \* limit on the descriptors of the process
  MaxFiles,     \* open file descriptions that can be told apart
  Ctxs,         \* addresses a FindCtx can have
  Count,        \* entries a search finds
  Libs,         \* libraries dlopen finds
  StdFromStd    \* whether SetStdHandle is given one of the standard handles

ASSUME FileAssumption ==
  /\ IsFiniteSet(Threads)
  /\ NStd \in Nat \ {0} /\ NSlots \in Nat /\ NSlots >= NStd
  /\ NFds \in Nat /\ NFds >= NStd
  /\ MaxFiles \in Nat /\ MaxFiles >= NStd
  /\ Count \in Nat \ {0}
  /\ StdFromStd \in BOOLEAN

Std     == 0 .. NStd - 1
Slots   == NStd .. NSlots - 1     \* where the handle_alloc functions look
Handles == 0 .. NSlots - 1
Fds     == 0 .. NFds - 1
Files   == 1 .. MaxFiles
Closed  == 0                      \* of a descriptor: it is not open
None    == -1

VARIABLES
  table,  \* g_handles
  fds,    \* the open file description behind each descriptor
  ctxs,   \* the FindCtx at each address
  libs,   \* how often each library has been opened
  op,     \* op[t]: the call thread t is in, between two steps
  means   \* of a file handle, the file it was opened for or last set to

vars == <<table, fds, ctxs, libs, op, means>>

Free == [kind |-> "H_FREE", ptr |-> None]

\* h: the handle the call still needs; x: the descriptor, context or library
\* it holds; m: the files its handle has meant since the call looked it up.
Idle == [fn |-> "none", h |-> None, x |-> None, m |-> {}]

Call(fn, h, x, m) == [fn |-> fn, h |-> h, x |-> x, m |-> m]

NoCtx == [live |-> FALSE, refcount |-> 0, next |-> 0]

\* handles_init.
Init ==
  /\ table = [i \in Handles |-> IF i \in Std THEN [kind |-> "H_FILE", ptr |-> i] ELSE Free]
  /\ fds = [n \in Fds |-> IF n \in Std THEN n + 1 ELSE Closed]
  /\ ctxs = [c \in Ctxs |-> NoCtx]
  /\ libs = [l \in Libs |-> 0]
  /\ op = [t \in Threads |-> Idle]
  /\ means = [i \in Handles |-> IF i \in Std THEN i + 1 ELSE Closed]

-----------------------------------------------------------------------------
(* The program.                                                            *)

\* DUPLICATE_CLOSE_SOURCE: thread s is in a call that will close h.
WillClose(s, h) == op[s].h = h /\ op[s].fn \in {"dup_close", "alloc", "close_source"}

Ready(t, h) == op[t] = Idle /\ \A s \in Threads : ~WillClose(s, h)

FdCalls == {"io", "set_slot", "set_fd", "dup", "dup_close"}

\* Nothing but a search is closed while it is in use.
Closable(h) ==
  /\ h \in Slots /\ table[h].kind # "H_FREE"
  /\ table[h].kind = "H_FILE" =>
       /\ \A n \in Std : table[n].ptr # table[h].ptr
       /\ \A s \in Threads : op[s].fn \in FdCalls => op[s].x # table[h].ptr
  /\ table[h].kind = "H_MODULE" => \A s \in Threads : ~(op[s].fn = "dlsym" /\ op[s].h = h)

-----------------------------------------------------------------------------
(* Descriptors, as the kernel keeps them, and slots of the table.          *)

Lowest(S) == CHOOSE i \in S : \A j \in S : i <= j

FreeFds   == {n \in Fds : fds[n] = Closed}
FreeSlots == {i \in Slots : table[i].kind = "H_FREE"}

\* Files nothing refers to.
NewFiles == {f \in Files : /\ \A n \in Fds : fds[n] # f
                           /\ \A i \in Handles : means[i] # f
                           /\ \A s \in Threads : f \notin op[s].m}

Filled(kind, x) == [table EXCEPT ![Lowest(FreeSlots)] = [kind |-> kind, ptr |-> x]]

Go(t, call) == op' = [op EXCEPT ![t] = call]

-----------------------------------------------------------------------------
(* Files.                                                                  *)

\* CreateFileW and CreateFileA: open takes the lowest descriptor.
CreateFile(t) ==
  /\ op[t] = Idle /\ FreeFds # {} /\ NewFiles # {}
  /\ fds' = [fds EXCEPT ![Lowest(FreeFds)] = Lowest(NewFiles)]
  /\ Go(t, Call("alloc", None, Lowest(FreeFds), {Lowest(NewFiles)}))
  /\ UNCHANGED <<table, ctxs, libs, means>>

\* CreateFileA of CONIN$, CONOUT$ or CON duplicates a standard descriptor.
CreateFileConsole(t, n) ==
  /\ op[t] = Idle /\ FreeFds # {}
  /\ fds' = [fds EXCEPT ![Lowest(FreeFds)] = fds[n]]
  /\ Go(t, Call("alloc", None, Lowest(FreeFds), {fds[n]}))
  /\ UNCHANGED <<table, ctxs, libs, means>>

\* Mutant of FileUnplaced: the descriptor is forgotten.
FileForgotten(x) == Idle

FileUnplaced(x) == Call("close", None, x, {})

\* handle_alloc_file, and what its callers do when the table is full.
AllocFile(t) ==
  /\ op[t].fn = "alloc"
  /\ \/ /\ FreeSlots # {}
        /\ table' = Filled("H_FILE", op[t].x)
        /\ means' = [means EXCEPT ![Lowest(FreeSlots)] = fds[op[t].x]]
        /\ Go(t, IF op[t].h = None THEN Idle ELSE Call("close_source", op[t].h, None, {}))
     \/ /\ FreeSlots = {}
        /\ Go(t, FileUnplaced(op[t].x))
        /\ UNCHANGED <<table, means>>
  /\ UNCHANGED <<fds, ctxs, libs>>

\* What CloseHandle goes on to close once the slot is empty.
AfterTake(h) ==
  LET s == table[h]
  IN  CASE s.kind = "H_FILE"   -> Call("close", None, s.ptr, {})
        [] s.kind = "H_FIND"   -> Call("release", None, s.ptr, {})
        [] s.kind = "H_MODULE" -> Call("dlclose", None, s.ptr, {})

\* CloseHandle, FindClose and FreeLibrary empty the slot under the lock.
Close(t, h) ==
  /\ table' = [table EXCEPT ![h] = Free]
  /\ means' = [means EXCEPT ![h] = Closed]
  /\ Go(t, AfterTake(h))
  /\ UNCHANGED <<fds, ctxs, libs>>

CloseHandle(t, h) == Ready(t, h) /\ Closable(h) /\ Close(t, h)

\* DuplicateHandle closes its source, if it was asked to, through
\* CloseHandle, which leaves the standard handles alone.
CloseSource(t) ==
  /\ op[t].fn = "close_source"
  /\ \/ op[t].h \in Slots /\ Close(t, op[t].h)
     \/ op[t].h \in Std /\ Go(t, Idle) /\ UNCHANGED <<table, fds, ctxs, libs, means>>

CloseFd(t) ==
  /\ op[t].fn = "close"
  /\ fds' = [fds EXCEPT ![op[t].x] = Closed]
  /\ Go(t, Idle)
  /\ UNCHANGED <<table, ctxs, libs, means>>

\* get_fd, by every call that reads, writes, seeks, truncates or asks about
\* an open file.
GetFd(t, h, fn) ==
  /\ table[h].kind = "H_FILE"
  /\ Go(t, Call(fn, h, table[h].ptr, {means[h]}))
  /\ UNCHANGED <<table, fds, ctxs, libs, means>>

StartIo(t, h) == Ready(t, h) /\ GetFd(t, h, "io")

\* The system call on the descriptor: it changes nothing that is modelled.
Io(t) ==
  /\ op[t].fn = "io"
  /\ Go(t, Idle)
  /\ UNCHANGED <<table, fds, ctxs, libs, means>>

-----------------------------------------------------------------------------
(* SetStdHandle: the slot of the standard handle first, then its           *)
(* descriptor, which the C library of the shim writes to.                  *)

SetStdHandle(t, n, h) ==
  /\ Ready(t, h)
  /\ h \in Std => StdFromStd
  /\ \A s \in Threads : ~(op[s].fn \in {"set_slot", "set_fd"} /\ op[s].h = n)
  /\ table[h].kind = "H_FILE"
  /\ Go(t, Call("set_slot", n, table[h].ptr, {means[h]}))
  /\ UNCHANGED <<table, fds, ctxs, libs, means>>

\* A call on the standard handle that is in flight may go to either file.
SetSlot(t) ==
  /\ op[t].fn = "set_slot"
  /\ LET n == op[t].h
         f == CHOOSE f \in op[t].m : TRUE
     IN  /\ table' = [table EXCEPT ![n].ptr = op[t].x]
         /\ means' = [means EXCEPT ![n] = f]
         /\ op' = [s \in Threads |->
                     IF s = t THEN [op[t] EXCEPT !.fn = "set_fd"]
                     ELSE IF op[s].h = n /\ op[s].fn \in {"io", "dup", "dup_close"}
                     THEN [op[s] EXCEPT !.m = @ \cup {f}] ELSE op[s]]
  /\ UNCHANGED <<fds, ctxs, libs>>

\* Mutant of Redirected: dup2 with its arguments swapped.
RedirectedBack(x, n) == [fds EXCEPT ![x] = fds[n]]

\* dup2(x, n), which fails if x is not open.
Redirected(x, n) == IF fds[x] = Closed THEN fds ELSE [fds EXCEPT ![n] = fds[x]]

SetFd(t) ==
  /\ op[t].fn = "set_fd"
  /\ fds' = Redirected(op[t].x, op[t].h)
  /\ Go(t, Idle)
  /\ UNCHANGED <<table, ctxs, libs, means>>

-----------------------------------------------------------------------------
(* DuplicateHandle of a file.                                              *)

\* It reads the slot without the lock.
DuplicateHandle(t, h, closeSource) ==
  /\ Ready(t, h)
  /\ closeSource => h \in Std \/ Closable(h)
  /\ GetFd(t, h, IF closeSource THEN "dup_close" ELSE "dup")

\* Mutant of DupTo: the duplicate shares the descriptor of its source.
DupToSame(t) == Call("alloc", IF op[t].fn = "dup_close" THEN op[t].h ELSE None, op[t].x, op[t].m)

DupTo(t) == Call("alloc", IF op[t].fn = "dup_close" THEN op[t].h ELSE None, Lowest(FreeFds), op[t].m)

Dup(t) ==
  /\ op[t].fn \in {"dup", "dup_close"}
  /\ \/ /\ FreeFds # {} /\ fds[op[t].x] # Closed
        /\ fds' = [fds EXCEPT ![Lowest(FreeFds)] = fds[op[t].x]]
        /\ Go(t, DupTo(t))
     \/ /\ FreeFds = {} \/ fds[op[t].x] = Closed
        /\ fds' = fds /\ Go(t, Idle)
  /\ UNCHANGED <<table, ctxs, libs, means>>

-----------------------------------------------------------------------------
(* Directory searches.                                                     *)

\* FindFirstFile: find_ctx_open collects the entries and returns the first.
FindFirstFile(t) ==
  /\ op[t] = Idle
  /\ \E c \in Ctxs :
       /\ ~ctxs[c].live
       /\ ctxs' = [ctxs EXCEPT ![c] = [live |-> TRUE, refcount |-> 1, next |-> 1]]
       /\ Go(t, Call("alloc_find", None, c, {}))
  /\ UNCHANGED <<table, fds, libs, means>>

\* handle_alloc_find; its caller frees the context if the table is full.
AllocFind(t) ==
  /\ op[t].fn = "alloc_find"
  /\ \/ FreeSlots # {} /\ table' = Filled("H_FIND", op[t].x) /\ Go(t, Idle)
     \/ FreeSlots = {} /\ table' = table /\ Go(t, Call("free_ctx", None, op[t].x, {}))
  /\ UNCHANGED <<fds, ctxs, libs, means>>

\* Mutant of Retained: get_find_ctx without find_ctx_retain.
NotRetained(c) == ctxs

Retained(c) == [ctxs EXCEPT ![c].refcount = @ + 1]

\* FindNextFile: get_find_ctx ...
FindNextFile(t, h) ==
  /\ op[t] = Idle /\ table[h].kind = "H_FIND"
  /\ \A s \in Threads : ~(op[s].fn = "next" /\ op[s].x = table[h].ptr)
  /\ ctxs' = Retained(table[h].ptr)
  /\ Go(t, Call("next", None, table[h].ptr, {}))
  /\ UNCHANGED <<table, fds, libs, means>>

\* The entry returned is the one at n, unless that is ERROR_NO_MORE_FILES.
Stepped(n) == IF n < Count THEN n + 1 ELSE n

\* ... the next entry ...
NextEntry(t) ==
  /\ op[t].fn = "next"
  /\ ctxs' = [ctxs EXCEPT ![op[t].x].next = Stepped(@)]
  /\ Go(t, Call("release", None, op[t].x, {}))
  /\ UNCHANGED <<table, fds, libs, means>>

\* ... and release_find_ctx, which FindClose and CloseHandle end with too.
ReleaseFindCtx(t) ==
  /\ op[t].fn = "release"
  /\ ctxs' = [ctxs EXCEPT ![op[t].x].refcount = @ - 1]
  /\ Go(t, IF ctxs[op[t].x].refcount = 1 THEN Call("free_ctx", None, op[t].x, {}) ELSE Idle)
  /\ UNCHANGED <<table, fds, libs, means>>

FindCtxFree(t) ==
  /\ op[t].fn = "free_ctx"
  /\ ctxs' = [ctxs EXCEPT ![op[t].x] = NoCtx]
  /\ Go(t, Idle)
  /\ UNCHANGED <<table, fds, libs, means>>

-----------------------------------------------------------------------------
(* Libraries.  dlopen returns the same pointer for a library that is open  *)
(* and counts; where it fails LoadLibrary changes nothing.                 *)

LoadLibrary(t, l) ==
  /\ op[t] = Idle
  /\ libs' = [libs EXCEPT ![l] = @ + 1]
  /\ Go(t, Call("alloc_module", None, l, {}))
  /\ UNCHANGED <<table, fds, ctxs, means>>

ModuleUnplaced(l) == Call("dlclose", None, l, {})

AllocModule(t) ==
  /\ op[t].fn = "alloc_module"
  /\ \/ FreeSlots # {} /\ table' = Filled("H_MODULE", op[t].x) /\ Go(t, Idle)
     \/ FreeSlots = {} /\ table' = table /\ Go(t, ModuleUnplaced(op[t].x))
  /\ UNCHANGED <<fds, ctxs, libs, means>>

DlClose(t) ==
  /\ op[t].fn = "dlclose"
  /\ libs' = [libs EXCEPT ![op[t].x] = @ - 1]
  /\ Go(t, Idle)
  /\ UNCHANGED <<table, fds, ctxs, means>>

\* GetProcAddress and GetModuleFileName read the slot without the lock and
\* look a symbol up in the library.
GetProcAddress(t, h) ==
  /\ Ready(t, h) /\ table[h].kind = "H_MODULE"
  /\ Go(t, Call("dlsym", h, table[h].ptr, {}))
  /\ UNCHANGED <<table, fds, ctxs, libs, means>>

DlSym(t) ==
  /\ op[t].fn = "dlsym"
  /\ Go(t, Idle)
  /\ UNCHANGED <<table, fds, ctxs, libs, means>>

-----------------------------------------------------------------------------
Begin(t) ==
  \/ CreateFile(t)
  \/ FindFirstFile(t)
  \/ \E n \in Std : CreateFileConsole(t, n)
  \/ \E l \in Libs : LoadLibrary(t, l)
  \/ \E h \in Handles :
       \/ CloseHandle(t, h)
       \/ StartIo(t, h)
       \/ FindNextFile(t, h)
       \/ GetProcAddress(t, h)
       \/ \E n \in Std : SetStdHandle(t, n, h)
       \/ \E closeSource \in BOOLEAN : DuplicateHandle(t, h, closeSource)

Continue(t) ==
  \/ AllocFile(t) \/ CloseSource(t) \/ CloseFd(t) \/ Io(t)
  \/ SetSlot(t) \/ SetFd(t) \/ Dup(t)
  \/ AllocFind(t) \/ NextEntry(t) \/ ReleaseFindCtx(t) \/ FindCtxFree(t)
  \/ AllocModule(t) \/ DlClose(t) \/ DlSym(t)

Next == \E t \in Threads : Begin(t) \/ Continue(t)

Spec == Init /\ [][Next]_vars

-----------------------------------------------------------------------------
(* Properties.                                                             *)

SlotsWith(kind, x) == {h \in Slots : table[h].kind = kind /\ table[h].ptr = x}
CallsWith(fns, x)  == {t \in Threads : op[t].fn \in fns /\ op[t].x = x}

\* Every descriptor above the standard ones belongs to exactly one handle, or
\* to the one call that is about to give it a handle or to close it: none is
\* leaked when the table is full, none is closed twice, none is in two slots.
DescriptorsOwned ==
  \A n \in Fds :
    Cardinality(SlotsWith("H_FILE", n)) + Cardinality(CallsWith({"alloc", "close"}, n))
      = IF n \in Std \/ fds[n] = Closed THEN 0 ELSE 1

\* A call that took a descriptor out of the table and unlocked it operates on
\* a file its handle has stood for since, never on one that another thread
\* opened under the same number.
IoRightFile ==
  \A t \in Threads : op[t].fn \in FdCalls \cup {"alloc"} => fds[op[t].x] \in op[t].m

\* Once SetStdHandle has returned, WriteFile on the standard handle and printf
\* on the standard descriptor reach the same file, the one it was set to.
StdAgrees ==
  \A n \in Std :
    (\A t \in Threads : ~(op[t].fn \in {"set_slot", "set_fd"} /\ op[t].h = n))
      => fds[n] = means[n] /\ fds[table[n].ptr] = means[n]

SearchCounted(c) ==
  LET refs == Cardinality(SlotsWith("H_FIND", c))
                + Cardinality(CallsWith({"alloc_find", "next", "release"}, c))
      freeing == Cardinality(CallsWith({"free_ctx"}, c))
  IN  IF ctxs[c].live
      THEN \/ freeing = 0 /\ refs > 0 /\ ctxs[c].refcount = refs
           \/ freeing = 1 /\ refs = 0
      ELSE freeing = 0 /\ refs = 0

LibraryCounted(l) ==
  /\ libs[l] = Cardinality(SlotsWith("H_MODULE", l)) + Cardinality(CallsWith({"alloc_module", "dlclose"}, l))
  /\ CallsWith({"dlsym"}, l) # {} => libs[l] > 0

\* The reference count of a search is the number of its handles and of the
\* calls that hold it; it is freed by one call, when there are none, and none
\* is left behind.  So FindNextFile is safe against a concurrent FindClose.
\* A library is open as often as handles and calls account for, also when
\* LoadLibrary found no slot, and no symbol is looked up in one that is not.
ReferencesCounted == (\A c \in Ctxs : SearchCounted(c)) /\ (\A l \in Libs : LibraryCounted(l))
=============================================================================
