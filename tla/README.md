# pe2elf: a verification project in TLA+

pe2elf turns a 64-bit Windows executable into an ELF file that runs on Linux
against `winapi_shim.so`, a library that implements the Windows API on POSIX.
The models here cover the places where the program is hard to test: the
*shim's shared objects* (handles, waits, threads, files, local storage), where
the order of the steps of several threads decides; the *converter*, whose many
tables must agree with each other and with what the dynamic loader later does;
and *services* of the shim with state of their own or limits that bite: handlers
of exceptions and signals, virtual memory, moving files, the environment and the
command line, sorting, and the conversions of names and paths.

Every module is a translation of the code under `src/`; `PROJECT.json` maps each
definition to the lines it stands for.

## 1. The system

### Converter (one process, sequential)

| Part | State | Operations | Must hold |
|---|---|---|---|
| `PeImage` (`pe_image.hpp`) | file buffer, sections, imports, base relocations, TLS fields | `parse`, `collect_imports`, `collect_relocs`, `rebase`, `collect_tls` | what is collected is what the Windows loader would use |
| `Plan` (`elf_plan.hpp`) | every address and file offset | `compute_plan` | computed before a byte exists, so sizes must agree later |
| `Builder` (`elf_build.hpp`) | symbols, hash table, relocations, trampoline, headers | `build_*`, `finalize_tls_call`, `patch_rdata` | placeholders completed, loader may write where it must |
| `Writer` (`elf_write.hpp`) | output buffer | `write` | each part lands on its planned offset |
| `ld.so`, `load.cpp` (external / entry) | memory | map, relocate, enter | the image looks as under Windows |

### Shim (one process, many threads, one signal)

| Part | State | Operations | Hard behaviour |
|---|---|---|---|
| Handle table (`shim.cpp`, `sync`, `file`, `thread`) | 4096 slots under `g_handles_mu`, objects with a reference count | create, wait, signal, duplicate, close | close while another thread waits; table full |
| Events, mutexes, semaphores (`sync`) | `signaled`/`cv`, recursive pthread mutex, `sem_t` | wait with and without deadline, set, reset, release | lost wakeups, spurious wakeups, deadline against signal |
| Multiple waits (`thread`) | locals of the call | poll all handles, roll back, nap | partial failure, other threads between polls |
| Threads (`sync`, `thread`) | `ThreadObj`, SIGUSR1, `suspend_sem`, a pthread key | create, exit, wait, suspend, resume, close, duplicate | signals merge and arrive early; close against exit; join |
| TLS/FLS (`critsec`, `fls`, `shim.cpp`) | bitset and callbacks under different locks, slots per thread | alloc, free, set, thread end | index passed from owner to owner between the locks |
| Files, searches, libraries (`file`, `file_a`, `module`, `thread`) | table slots, descriptors, counted `FindCtx`, counts of dlopen | open, use, duplicate, enumerate, load, redirect, close | descriptor used after the unlock; close against enumeration; table full; standard handles borrow descriptors |
| Command line (`shim.cpp`, `load.cpp`, `tail`) | the line of `GetCommandLine`, the vector of `__getmainargs` | join, split, reload after the loader's `main`, `CommandLineToArgvW` | quoting and escaping that another program undoes; built twice; a block measured before it is filled |
| Environment (`startup`, `tail`) | two cached blocks, `environ` | lend, give back, set, get | a lent block thrown away |
| Memory (`mem`, `shim.cpp`) | table of mapped regions | `VirtualAlloc`, `VirtualFree` | table and mapping change in two steps; libc has memory of its own; an address in use is mapped over |
| Exceptions (`veh`, `except`) | list of `VEHEntry`, a filter | add, remove, raise | handles removed twice or from two threads; entries allocated again |
| Console and signals (`tail`, `msvcrt`) | array of handlers, a pipe, a thread, dispositions | `SetConsoleCtrlHandler`, `signal`, Ctrl-C | signal handler to pipe to thread, which another signal may end; disposition set after the unlock |
| Moving files (`tail`) | none in memory; two directories | `MoveFileExW`, up to a dozen system calls | other movers, failures and death between any two calls |
| Strings and paths (`shim.cpp`) | none | UTF-8 to UTF-16 and back, paths | short buffers, halves of characters |
| `qsort` (`msvcrt`) | a stack of 62 segments | sort | the stack is not checked |
| Critical sections, console I/O, locales, times, module queries, processes, user32, advapi32, shell32, pedump | none, or constants | wrappers, lookups, stubs | not modelled, section 6 |

Components interact by calls only, except that all shim parts share the handle
table, that the converter's trampoline calls `shim_register_tls` with the
addresses it embedded, and that SIGUSR1 interrupts a thread anywhere.

## 2. Modules

| Module | Models | Checked by |
|---|---|---|
| `SyncHandles` | handle table, mutex/event/semaphore objects, single waits | `MCSyncHandles` |
| `MultiWait` | EXTENDS `SyncHandles`: `WaitForMultipleObjects`, `SignalObjectAndWait` as loops over its actions | `MCMultiWait` |
| `MultiWaitProofs` | theorems about `SyncHandles`, and from those about `MultiWait` | `tlapm` |
| `ThreadObjs` | threads, suspension, thread handles | `MCThreadObjs` |
| `ThreadObjsProofs` | theorems about `ThreadObjs` | `tlapm` |
| `LocalStorage` | TLS and FLS indices, static TLS, thread exit | `MCLocalStorage` |
| `LocalStorageProofs` | theorems about `LocalStorage` | `tlapm` |
| `FileHandles` | file, search and library slots of the handle table, standard handles | `MCFileHandles` |
| `FileHandlesProofs` | theorems about `FileHandles` | `tlapm` |
| `CommandLine` | arguments to command line and argument vector, `load.cpp`, `CommandLineToArgvW` | `Startup` |
| `Environment` | environment blocks and variables | `Startup` |
| `Startup` | EXTENDS both: a program finds its arguments, then uses its environment | `MCStartup` |
| `StartupProofs` | theorems about `Startup` | `tlapm` |
| `Handlers` | vectored, console and C signal handlers | `Services` |
| `Memory` | `VirtualAlloc`, `VirtualFree` | `Services` |
| `Qsort` | `msvcrt_qsort` | `Services` |
| `Text` | conversions of names and paths | `Services` |
| `AtomicMove` | abstract specification: what `MoveFileEx` promises | `FileMove` |
| `FileMove` | `MoveFileExW`, `rename_noreplace`, `copy_beside`, a step per system call; implements `AtomicMove` | `Services` |
| `Services` | EXTENDS the five services, one of which is used in a behaviour | `MCServices` |
| `ServicesProofs` | theorems about `Memory`, `Handlers`, `Qsort`, `FileMove` and `Text` as parts of `Services` | `tlapm` |
| `ElfLayout` | `compute_plan`, program headers, `Writer` | `MCElfLayout` |
| `ElfLayoutProofs` | theorems about `ElfLayout` | `tlapm` |
| `Conversion` | PE tables to ELF sections to running image | `MCConversion` |
| `ConversionProofs` | theorems about `Conversion` | `tlapm` |

### SyncHandles

`slotKind`, `slotPtr` are `g_handles`; `life`, `rc`, `okind`, `owner`, `depth`,
`signaled`, `manual`, `count` are the heap objects; `pc`, `op`, `hnd`, `knd`,
`ptr`, `inf`, `left`, `ret` are the frame of the call each thread is in. A step
is a section of code under one lock, or one call of a pthread primitive: a wait
is lookup-and-retain under `g_handles_mu`, then blocking on the object, then
the release of the reference, then, for the last one, unlock and destroy. Each
address is used once (`life` goes `unborn`, `live`, `freed`), so a use after free
shows. Deadlines may pass at any time; condition variables may wake without
a signal.

### MultiWait

The composite call keeps its locals in `multi` and drives the single calls by
the same actions any other thread uses. `tokens` is a history variable: what a
semaphore should hold according to the calls that have returned. `Infinite = {FALSE}`
in the run: a wait without a deadline does nothing that one with a deadline could
not, and only safety is checked.

### ThreadObjs

Callers are threads the shim did not create, kids are those of `CreateThread`.
`sig` is a pending SIGUSR1 (not queued: a second one merges), `frozen` says that
a kid is in the handler. `SuspendThread` is an atomic add and then
`pthread_kill`, `ResumeThread` an atomic subtract, then an undo or a post, each a
step of its own. `sync_obj_destroy` reads `done` under the object's lock and
joins or detaches after it.

### LocalStorage

A value stored is the number of the allocation it is stored for, so a stale
value or a foreign callback is visible. `FlsAlloc` is two steps and `FlsFree`
three, as its two locks demand; `shim_thread_exit` looks at one slot per step.

### FileHandles

`table` is `g_handles` with the kinds `SyncHandles` leaves out, `fds` the
descriptors of the process (the kernel gives out the lowest), `ctxs` the `FindCtx`
structures, whose addresses are used again after a free, and `libs` the counts
of dlopen. A call is a step per lock or system call: `open`, then
`handle_alloc_file`, then perhaps `close`; `get_fd`, then the system call. `means` is
a history variable, the file a handle was opened for or last set to, and a call
in flight carries the files its handle has meant since it was looked up. All
calls that look up a descriptor and hand it to the kernel (`ReadFile` to
`GetFileTime`) are the one action `StartIo`, `Io`: they differ in data only.

### CommandLine, Environment, Startup

Strings are sequences of four characters: a separator, the quote, the backslash
and any other, since no code here tells more apart. `Put` is the test of the room
that precedes every store into `g_cmdline`. `CommandLineToArgvW` is the function of
the shim with that name, whose rule is the one `rebuild_cmdline` says it escapes for
(`shim.cpp:788`): the two must be inverse. `mode` says whether the process is a
converted program or `load`, whose `main` sets `WINAPI_SHIM_CMDLINE` after
the shim's constructor has already run. A third phase has the program split any
line of its own; `ArgvSlots` and `ArgvUnits` are what the function has allocated for it.

`Environment` keeps `environ`, the cached blocks `g_env_block` and `g_env_block_w`
(addresses, whose contents are in `heap`) and how often the program holds each. The
code takes no lock, so a behaviour is the calls of one thread. `Startup` puts the
two in sequence, as in a process: the line is read, then the variables are used.

### Handlers

The list of `VEHEntry` is kept as the code keeps it, in `prev` and `next` of entries
whose addresses malloc gives out again; `order` is what the list should be. Adding and
unlinking are steps under the lock, freeing comes after it. Raising an exception is not
modelled: it copies the list under the lock (`shim_kernel32_veh.hpp:67`) and calls from the copy.
`SetConsoleCtrlHandler` changes the array in one step and the
disposition of SIGINT in another, and calls of two threads may overlap there; a Ctrl-C is a
byte in the pipe, which the dispatcher thread reads before it copies the array. `dispatcher`
may be `off`, because the pipe or the thread was not to be had, and `gone`: a handler that
`signal` of the C runtime has installed (`sa_flags` 0, `shim_msvcrt.hpp:242`) interrupts the
`read`, and the loop ends.

### Memory

A page belongs to a region, named by its base, to libc, or to nobody. mmap and the
entry in `mmap_table` are two steps, in the order of the code, and so are taking the
entry away and munmap; libc maps and unmaps pages in between. `VirtualAlloc` takes
the pages at the wanted address also when they are somebody else's, since
`MAP_FIXED` follows `MAP_FIXED_NOREPLACE` (`shim_kernel32_mem.hpp:36`). `mixed` is a history
variable: the pages of such a call, and all pages of the regions and of the calls in flight that have
pages among them. Of these `RegionsIntact` says nothing; it says that all the others stay as they should be.

### FileMove and AtomicMove

`place` is where a mover is in the chain of calls, `entry` the name that
`rename_noreplace` was given, `source` and `target` the directory entries (inodes),
`temp` the mover's temporary file, `copied` and `mode` how far the copy is. `fs`
says what the kernel and the file system can do: `RENAME_NOREPLACE`, and
which sources are on another file system. Every system call may fail: a hard link may be refused
on any file system (EPERM, EMLINK, no room), and so may the `unlink` of a temporary
file. `denied` records these two. A mover may
die in every place, and somebody else may create or delete the target at any time.

`AtomicMove` has none of that: a target changes in one step to a whole source file,
only if replacing was asked for or nothing is there, and a source goes with that step
(`Rename`) or after it (`Place`, `Retire`). The refinement mapping `Promise` maps the
inodes to what is in them (an unfinished copy is no source file, so it maps to
nothing the abstract target may be), the places to four stages, and the temporary
files to the set of their movers. `guarded` says that `RENAME_NOREPLACE` works. The promise has
two exceptions, both after a refusal: a mover whose hard link was refused where
`guarded` is FALSE may replace the target unasked (there the code looks and then renames, and says
so), and one that may not remove its temporary file leaves it.
`MoveFileW` is `MoveFileExW` with replacing and without copying, one of the `Tasks`.

### Qsort and Text

`Qsort` takes a step per segment: the selection sort of a short one, the choice of
the middle with its swaps, one turn of the partition loop, and the choice of the
part that goes on the stack. In `Text` a string goes there and back: `kind` says
whether it starts as a path of the system, as a string of the program or as bytes
in a directory. Encoding and decoding are modelled unit by unit, since the
properties are about pairs, sequences and where a short buffer cuts them.

### Services

These five share no variable and no lock, and what they have in common is only the
process. Every interleaving of steps of two of them is therefore equivalent to one
where they take turns; `Services` lets a behaviour use one, and the run checks
their properties side by side rather than in a product that adds nothing.

### ElfLayout

Stages in the order of `Converter::convert`: plan, sections, program headers,
writing. `out` is the size of the output buffer and `Padded` is `pad_to_size`,
which never goes back; hence `Placed` is a real question.

### Conversion

Addresses count 8-byte words; the file buffer is a function from RVAs to words.
`ByWindows(rva, b)` says what the Windows loader would have at an RVA of an image
mapped at `b` and is the reference for what the ELF loader produces. `Map`,
`Relocate` and `Lookup` are the environment (ld.so) and are marked external.

## 3. Runs

| Run | Instance | Shows |
|---|---|---|
| `sync_handles` | 2 threads, 2 slots, 2 objects | `TypeOK`, `RefCountExact`, `NoUseAfterFree`, `DestroyedOnceUnreachable` |
| `sync_live` | 2 threads, 2 slots, 1 object of any kind, fair | `ClosedIsFreed` |
| `multi_wait` | 2 threads, 2 objects of any kind, lists in both orders | `AllOrNothing`, `TokensConserved`, `NoLostWakeup` |
| `thread_life` | 2 callers, 1 kid, fair | `ThreadRefs`, `ObjAlive`, `Resumable`, `WaitersReleased` |
| `thread_close_running` | 1 caller, 1 kid | *violated*: `KidObjAlive` |
| `layout` | all images of 0 to 2 sections, long images of 86 | `Placed`, `LoadsDisjoint`, `Mappable` |
| `convert` | 8 import tables x 4 relocation tables x TLS x options | `LoadedLikeWindows`, `HashFinds`, `NeverFaults`, `TlsInfoFinal` |
| `convert_pie_tls` | the same with `--pie` and TLS | *violated*: `TlsInfoFinal` |
| `local_storage` | 3 threads, 3 slots, 3 allocations | `NoStaleValue`, `RightCallback`, `ReleasedAtExit` |
| `files` | 2 threads, 2 standard handles, 2 more slots, 2 more descriptors, 2 searches, 1 library | `DescriptorsOwned`, `IoRightFile`, `StdAgrees`, `ReferencesCounted` |
| `startup` | arguments of 0 to 4 characters, vectors of 1 to 4 arguments, a buffer of 14; lines of 0 to 5 characters; 2 variables, 2 blocks of each kind | `CrtSeesArguments`, `MainArgsPrefix`, `LoaderPassesArguments`, `ArgvBlockFits`, `EnvBlocksSound` |
| `services` | *handlers*: 2 threads, 2 functions, 3 entries, 2 signals; *memory*: 2 threads, 4 pages, 1 address in use; *sorting*: arrays of up to 8; *text*: strings of up to 4 units, 3 buffers; *moves*: 2 movers, 2 sources, all file systems | `ListIntact`, `CtrlCReaches`; `RegionsIntact`; `Sorts`, `StackBounded`; `PathSurvives`, `WholeCharacters`; `ImplementsAtomicMove` |

All runs say `CHECK_DEADLOCK FALSE`: a converter that has finished, and a program
that makes no more calls (or has deadlocked on its own mutexes), may stop.

**Bounds and why they suffice.** Two threads suffice for a reference count:
one uses an object while the other drops it; a second slot and a second object
let handles be duplicated and the table be full. `MaxDepth = 2` lets a mutex nest,
`MaxCount = 1` lets a semaphore be full. Wait-all
needs two handles to roll one back, and the same object twice is among the lists.
Without creation the two slots of `multi_wait` may be swapped, so it starts from one
of each pair of initial states (`MCInit`); its VIEW leaves out results that
nobody will read. A wakeup is lost between a waiter, whose deadline may
pass, and a thread that sets and polls: two threads, one of them in a composite call.
For suspension `MaxSuspend = 2` and `MaxSem = 2` allow nesting and one stale token.
For storage, three slots, one of them possibly static, and three allocations let
an index be freed and passed on while a third thread ends. For files, two
slots and two descriptors beside the standard ones let both run out, together
or alone, and let a number be closed and given out again; `MaxFiles = 5` is one
more than there are descriptors, so a file that was closed can be told from its
successor. For the layout the
sizes are chosen around every rounding (below, at and above a page; the largest
estimate that still fits the page), and the image bases are below, at and above
the limit. Four characters suffice for two backslashes between two quotes; the
buffer of 14 is reached by the longer vectors. `Gap` and `MaxJump` of `Conversion` make the jump reachable or not.
Two blocks of each kind let a block be thrown away, its successor be
made and its address be used again; `MaxHeld = 2` lets the program hold one twice.
Three entries let one be removed from the middle; the array holds two handlers, so
it overflows. Four pages hold two regions and a page of libc, and a region of three
can be followed by a smaller one at its base; with `MaxMixed = 0` one call takes an address in
use, which may involve up to all four pages, and everything else goes on around it. With a cutoff of 2 (8 in the code)
arrays of 8 are split three times, and with a stack of 3 places (62) the test
`StackBounded` is as sharp as in the code. The strings have a character of every
length and both halves of pairs at both ends, and the buffers cut in every place.
Two movers and two sources let moves race for the target and for one source;
one piece is enough for a copy that is begun and not whole. The first mover
moves the first source, since the sources are alike (`MoveTasks`).

**Fairness.** `sync_live` and `thread_life` assume that the kernel runs every
runnable thread (WF) and that absolute deadlines pass however often the sleeper
is woken (SF of `Deadline`). `services` assumes that the dispatcher thread of the
console handlers runs when it can (WF of `Dispatch`); handlers that call back
return. Nothing is assumed of the program: it need not
release, signal, resume or close. `WaitersReleased` therefore has the premise
that the program stops suspending threads, and `CtrlCReaches` that the dispatcher is there, a
handler stays registered and no other takes the signal.

## 4. What is proved

### Handles of synchronisation objects

`MultiWaitProofs` proves for any number of threads, slots and objects:

- `TypeCorrect`: `Spec => []TypeOK`, which includes that a mutex has an owner
  exactly when its recursion count is positive;
- `CountsExact`: `Spec => []RefCountExact`;
- `NoFreedAccess`: `Spec => []NoUseAfterFree`;
- `DestroyedOnce`: `Spec => []DestroyedOnceUnreachable`;
- `WakeupsKept`: `Spec => []NoLostWakeup`.

All but the first assume `RacyDup = FALSE`: the program does not close a handle that
it is duplicating at that moment. The inductive invariant is `IndInv`:
`RefCountExact` and `NoUseAfterFree` imply each other's next step (a count that
is exact cannot reach 0 while a slot or a frame leads to the object), and three
parts make them inductive. `DestroyerCount`: whoever destroys has seen the count
at 0 and is alone. `AllocExclusive`: a new object is known to its creator only,
until it has a slot. `DupSourceOpen`: the source of a `DuplicateHandle` stays
open. The proof has a lemma per group of actions with the same effect on slots
and frames (retain, release, close, allocate, free, keep), lemmas on how the
two cardinalities change, and one step per action.

`NoLostWakeup` is not inductive: it must also say which thread will take the event.
`WakeInv` says that a thread sleeps in the event branch of a wait only, and that
an event that is set and has sleepers is auto-reset and has a waiter of that branch
awake. That waiter takes the event before it leaves, also when its deadline has
passed, because the loop tests the flag again; what else clears the flag ends the premise;
and setting a manual-reset event wakes everybody. `IndInv` is used where an
object is created: nobody sleeps on it yet.

Other assumptions are those named in the modules: finite sets of threads and
slots, and bounds that are natural numbers.

### Multiple waits

`MultiWaitProofs` also proves, for any number of threads, slots and objects and lists of any
length, in which a handle or an object may occur more than once, with `RacyDup = FALSE`:

- `AllOrNothingHolds`: `MSpec => []AllOrNothing`;
- `TokensConservedHolds`: `MSpec => []TokensConserved`;
- `MultiWakeupsKept`: `MSpec => []NoLostWakeup`.

Both properties speak of moments between rounds or between calls only. Their invariant
`MInv` says for every step which positions of its list a call has acquired and not
given back (`Taken`): all before `i` in a round of wait-all, those from `i` on in the
roll-back, and the position the single call in flight is about, from the step that
acquires it and up to the step that gives it back. `HeldInv`: a thread in a composite
call holds each live mutex as often as on entry, plus once for every acquired position
on it. `TokenInv`: the tokens the history records are the count plus what all calls in progress have
acquired (`Out`). Three parts make these inductive. `RoundInv` and `CallInv` say
where in its round a call is and through which open handle its single call works;
`OpenInv`, that acquired positions stay open, so that a roll-back finds the object it
polled and the release that ends a poll never is the last one; `KindInv`, that a
handle has the kind of its object, so that the roll-back of a mutex meets a mutex. Underneath is
`Core`, the invariants of `SyncHandles`: the steps inside a single call are steps of `Next`, so
their lemmas apply unchanged. The proof shows once that a step whose gain (`Gains`)
matches the change of `Taken` keeps both accounts (`BalancedStep`), then which steps
of a poll and of a roll-back gain or give back what, and has one lemma per action.

`ListAssumption` (a list is a sequence of slots that is not empty) and `KindAssumption` (the kinds are the three
of the code) are the assumptions on the constants. That the program closes no handle another of
its threads has in a list is part of the model (section 5), and `OpenInv` rests on it.

### Moving files

`ServicesProofs` proves, for any movers, sources, tasks and number of pieces,

- `Implements`: `ServicesSpec => ImplementsAtomicMove`, the refinement of `AtomicMove`,
- by `MoveInvariant`: `MoveSpec => []MoveInv`.

`MoveInv` has the types and five parts the abstract state cannot show. `OwnNames`: a source is under its own
name or none. `CopyWhole`: a copy whose name is given to `rename` has all its pieces
and its mode, so a target that is a copy maps to a source. `PlacedOnce`: a copy is the
target only after its own rename, so that rename of a copy never meets itself and
always takes the temporary name away. `TempHeld`: the temporary name exists only in
the places that still rename or remove it, so an answer leaves none unless the removal was
refused. `LastResort`:
the unguarded rename is reached only where `RENAME_NOREPLACE` does not work, and by a mover
whose hard link was refused, or across file systems, where that rename fails too. The proof has a lemma per effect on the directories (a
mover goes on, a name moves, a copy grows), then one per abstract action saying
when a step is that action, and one case per system call. It assumes
`MoveAssumption`: movers, sources, other files and `None` are told apart.

### Threads

`ThreadObjsProofs` proves, for any callers, kids and objects,

- `ThreadRefsHold`: `Spec => []ThreadRefs`;
- `ResumableHolds`: `Spec => []Resumable`;
- `ObjAliveHolds`: `Cautious /\ Spec => []ObjAlive`, where `Cautious` is `CloseRunning`
  and `StaleSelf` being FALSE: without either the property is false (section 5).

Three invariants share the types, `Linked` (a call and a started kid lead to an object,
a key names the object its kid was started with) and `Fresh` (nobody refers to an object that is not
created yet). `CountInv` adds `Counted`, the count also of freed objects. `LifeInv` adds to
`CountInv` that a kid and its object name each other (`Owned`), that the object of a kid is open until
`done` is set and joined after that (`KidsLive`, what `CloseRunning` would break), and that what calls lead to is live,
the one that destroys an object being alone with it (`CallsLive`). `TokenInv` compares what a
kid owes with what its object holds (`Tokens`): a token each for its gate, for the
signal handler it is in, for a pending SIGUSR1 and for every call about to send one (`Debt`) is covered
by those in `suspend_sem`, those about to be posted and the one that the return of
the suspend count to zero will post (`Credit`).
`Resumable` alone is not inductive: a signal that is pending, or a resume between its
subtraction and its post, is invisible to it.

### Local storage

`LocalStorageProofs` proves, for any threads, slots and allocations, under `Discipline`
(`SharedFree` and `NullCallbacks` FALSE),

- `StorageInvariant`: `Discipline /\ Spec => []StorageInv`;
- `NoStaleValueHolds`, `RightCallbackHolds`: `NoStaleValue`, `RightCallback`;
- `ReleasedAtExitHolds`: the action property `ReleasedAtExit`.

`StorageInv` says which allocation an index belongs to while bitset and callback are out
of step, between the two locks of `FlsAlloc` and the three sections of `FlsFree`; whose
the values in the slots are; and how far `shim_thread_exit` has come.

### Files, searches and libraries

`FileHandlesProofs` proves, for any finite set of threads and any sizes of the tables,

- `ReferencesCountedHolds`: `Spec => []ReferencesCounted`;
- `DescriptorsOwnedHolds`, `IoRightFileHolds`, `StdAgreesHolds`: `DescriptorsOwned`,
  `IoRightFile` and `StdAgrees`, under `~StdFromStd /\ Spec`. `StdAgrees` is false
  without that condition (section 5); the other two rest on the same invariant.

Both invariants contain the types and `Reserved`: a handle some call still needs stays
open, and one that `DuplicateHandle` will close is used by nobody else. `CountInv` adds
`Searches` and `Libraries`. A search is in one of three conditions: counted by its holders, alone with the
one call that frees it, or unknown to everybody; one whose handle is not allocated yet
is known to one call. `FileInv` adds `Owned` (the slot or call that owns a descriptor is
the only one, and an open descriptor has an owner), `Kept` (what calls and standard handles use
without owning it is in a slot that no other call is about to close) and `RightFile` (which file each use leads
to). `IoRightFile` needs all three: the number a call holds keeps its
file only as long as the slot it was borrowed from keeps its owner.
The proof has a lemma per effect (a descriptor is opened, placed, taken out of its slot, closed,
borrowed, redirected), and one case per action.

### Memory and handlers

`ServicesProofs` proves about the service that a behaviour of `Services` uses,

- `RegionsIntactHolds`: `ServicesSpec => []RegionsIntact`;
- `ListIntactHolds`: `ServicesSpec => []ListIntact`.

`MemInv` says that the table has the sizes of the regions (`SizesTracked`); which pages a region and
the calls at work on it have (`PagesOwned`), which libc has (`LibcKept`), and that one call at a time
makes or takes away a region (`CallsApart`), the three of them outside `mixed` only; and that
`mixed` is closed (`MixedClosed`): what has a page in it is in it
whole, so that no later step of a call spoils a page outside. `ListInv` says
that `prev` and `next` are the neighbours in `order`; that the walk of the links then
gives `order` is an induction over its steps, and is proved from the least step at
which the walk would differ (`LeastNumber`, from the well-foundedness of the
natural numbers), since the induction schemes of the library cannot be used here.
`MemoryAssumption` and `HandlersAssumption` name what the constants must satisfy:
page numbers, sizes and addresses that are told apart, a finite set of entries.

### Sorting

`ServicesProofs` proves, for arrays of any length whose size the stack has room for
(`QsortAssumption`: fewer than 2^(STKSIZ + 1) elements),

- `SortsHolds`: `ServicesSpec => []Sorts`;
- `StackBoundedHolds`: `ServicesSpec => []StackBounded`, the hazard of a stack that is not
  checked.

`BoundsInv` says that the pending segments lie in the array and that the one at place k of
the stack is not longer than n / 2^(k-1), because the longer part is pushed and the
shorter one sorted next. `OrderInv` says that the array is a permutation of the given one
and that two elements out of order always lie in one pending segment, which is
what a partition keeps. The inner loops (`ShortSort`, the two scans of the partition) are
recursive functions; what they compute is proved from the least index at which the claim would fail.

### Text

`ServicesProofs` proves, for any strings and any sizes of the buffers,

- `WholeCharactersHolds`: `ServicesSpec => []WholeCharacters`;
- `PathSurvivesHolds`: `ServicesSpec => []PathSurvives`.

Two halves. What is written is read as the same character (`NextReads`): the decoder follows the
encoder step by step (`RoundTrip`, `Follows`), so valid UTF-16 survives the way to UTF-8 and back. And
`utf8_next` never yields a surrogate (`NextScalar`), so that whole characters are
written again as the bytes they were (`Remade`). `TextInv` says that
the string of a behaviour is the chain of conversions made so far of its origin. `TextAssumption`: no
zero in a string, units and bytes within their width, file names of the host that begin with a slash
and are valid UTF-8, and buffers of at least 4 units, since `posix_to_win_path` returns at once
for less.

### Startup

`StartupProofs` proves, for any arguments and lines,

- `CrtSeesArgumentsHolds`: `CrtSeesArguments`, if no program name has a quote in it (section 5);
- `LoaderPassesArgumentsHolds`: `StartupSpec => []LoaderPassesArguments`;
- `MainArgsPrefixHolds`, `ArgvBlockFitsHolds`: `MainArgsPrefix`, `ArgvBlockFits`;
- `EnvBlocksSoundHolds`: `~HeldOver /\ ~AnsiLate /\ StartupSpec => []EnvBlocksSound`.

The first two say that a line that is written from arguments and then split gives them back.
The proof reads the line along with its writing: `Writes` says what a splitter that
stands before a piece has done when it stands after it, for a space, a plain
character, a run of backslashes and a quote, and `Laid` that a line is made of such pieces; an
argument of any length is an induction over its runs of backslashes. The line that `load.cpp`
makes without escaping is such a line when nothing in it needs escaping (`PlainArg`, the
arguments the run has), and `LoadSplits` reads it with the other splitter. `ArgvBlockFits` rests on `ScanFits`: i characters
of the line make at most i/2 arguments and i characters in them, backslashes that
are held back included, which is what the one block of `CommandLineToArgvW` has room for. `EnvInv` says which block is cached, which are
held, and that the cached ones show the environment as it is.
`ArgvAssumption` and `EnvAssumption` name what the constants must satisfy.

### Layout of the file

`ElfLayoutProofs` proves, for any number of sections and any sizes,

- `PlacedHolds`: `Spec => []Placed`, for every input;
- `MappableHolds`: `Spec => []Mappable`, for images that are `OnPages`;
- `LoadsDisjointHolds`: `Spec => []LoadsDisjoint`, for images that are `Loadable`:
  also in ascending order and with room for the synthetic segment (`SynthRoom`).

`OnPages` and `Ascending` are what the PE format demands and `PeImage::parse` does not check;
`SynthRoom` is the limit of the code itself: at most 86 sections (section 5), and, where the
fallback address is used, an image that ends below it. `MCElfLayout` lets TLC
evaluate that all images of the run are `Loadable`.

`LayoutInv` says at every stage what the plan promises (`BlobsFit`, `SectionsInv`,
`HeadersInv`: parts in order, each with the room it needs), that the number of program headers made
so far fits what is reserved and that each segment is one of the three kinds (`PhdrsInv`), that
the Writer has not passed the place of what comes next (`NotPast`) and that what it has
written is in the file (`Reached`). `Placed` needs `NotPast`, which needs the rest.
That no segments overlap then is arithmetic: with up to 86 sections the
reserved headers exceed the estimate by less than the spare page (`EstimateHolds`).

### Conversion

`ConversionProofs` proves, for any images, options, hash function and places where ld.so
maps a file,

- `NeverFaultsHolds`: `NeverFaults`, for jobs that are `StripsInert`;
- `HashFindsHolds`: `HashFinds`, for jobs with `OwnNames`;
- `LoadedLikeWindowsHolds`: `LoadedLikeWindows`, for jobs that are `SitesSound`;
- `TlsInfoFinalHolds`: `TlsInfoFinal`, for jobs that are `SitesSound` and `TlsSound`.

The four conditions say of the PE file and the options what the code relies on and does not
check (section 5); `MCConversion` lets TLC evaluate that all jobs of `convert` satisfy
them (`SoundJobs`), and without `TlsSound` there is the counterexample of `convert_pie_tls`.
`JobsAssumption` types the images and says that every symbol an import may get has a hash;
`LoaderAssumption` that hashes are not negative and that the trampoline is below the image.

The stages run one after the other, so the inductive invariant, `TablesInv`, says for each table
what it has in it at every stage. Imports and base relocations follow the entries they were
read from by an increasing function of indices (`ImportsInv`, `RelocsInv`), which is what lets
two imports of one slot, or a pointer in a slot, be settled as by Windows: the last one wins, the
pointer is left out. `SymsInv` says that every import has a symbol and no symbol of an import is there twice;
`RelaInv` where in `rela_data` the relocation of an import, of a pointer, of
the call slot and of a TLS field is, before and after `finalize_tls_call` patches offsets by
index. `HashInv` says that buckets and chain lead from each symbol to the last one before it in
its bucket; that the walk of the loader then ends at the symbol it looks for is proved by
counting its steps (`WalkFinds`). `MemInv` says that a word of memory is what the last
relocation of it wrote, or else what was mapped. `BufInv` and `TlsInv`, which need
`SitesSound`, say that the buffer holds every pointer as linked, in the middle of `rebase` too, and
that the TLS fields were read from it.

All inductive invariants were also checked by TLC on the instances of the runs
before they were proved.

### What is only model-checked

The liveness properties `ClosedIsFreed`, `WaitersReleased` and `CtrlCReaches`: liveness under
fairness is out of the prover's reach. Every invariant and every action property of a
passing run, and the refinement of `AtomicMove`, is stated by a theorem; where a theorem has a hypothesis, section 5
names what it excludes. Induction over data is reduced to a least number, or to a
set that contains 0 and every successor (`CountUp` in `ConversionProofs`), once for each recursive function.

## 5. Where code and documents disagree

Two runs are expected to be violated; each shows what the code does against a
sentence of the repository.

- `thread_close_running`: "refcounted lifetimes" (`!shim-plan.md:253`), but a running
  thread owns no reference to its `ThreadObj`; closing the only handle frees it.
- `convert_pie_tls`: "the VAs in `ShimTlsInfo` are always in the final address space"
  (`!tls-cl.md:108`), but only `--so` relocates them.

### What the models exclude

The passing runs assume programs that avoid the following; the constants named
switch the behaviour on.

- `RacyDup` (`shim_kernel32_thread.hpp:189`): `DuplicateHandle` reads the kind of its
  source before it locks the table. A concurrent `CloseHandle` of the source breaks
  `RefCountExact`, although `!shim-plan.md:164` says that lookups take the mutex.
- `CloseRunning`: closing the last handle of a running thread (above).
- `StaleSelf` (`shim_kernel32_thread.hpp:145`): the wrapper of an unmanaged thread
  stays cached in the key after its last handle was closed; `ObjAlive` fails.
- `SharedFree`: freeing an index in which other threads have values. Their values
  stay, the next owner of the index sees them, and FLS values are never released:
  `ReleasedAtExit` fails, since `FlsFree` has removed the callback, although
  `shim_kernel32_fls.hpp:74` says "Other threads' slots are still released via
  shim_thread_exit when those threads terminate".
- `StdFromStd` (`shim_kernel32_file.hpp:44`): `SetStdHandle` given a standard handle
  makes one slot borrow the descriptor of another; redirecting that one later
  redirects both handles but only one descriptor, and `StdAgrees` fails with a
  single thread (set stderr to the handle of stdout, then stdout to a file), although
  line 47 says that printf "follows". For the same reason a saved handle does not
  restore anything: `GetStdHandle` returns the fixed slot, not what was in it.
- Two threads in `SetStdHandle` of the same handle, in `FindNextFile` of the same
  search (`shim_kernel32_file.hpp:443`: test and increment without a lock), or one
  that closes a file or library another is using: guards of the actions of
  `FileHandles`. `DuplicateHandle` of a search or a library, which copies the slot
  without a reference (`shim_kernel32_thread.hpp:202`), is left out.
- Closing a handle that another thread has in the list of a composite wait: a guard of
  `MultiWait`. The roll-back looks its handles up again (`shim_kernel32_sync.hpp:462`)
  and would miss the object it had acquired.
- `NullCallbacks` (`shim_kernel32_fls.hpp:92`): `FlsFree` of an index without callback
  leaves even the caller's value in the slot for the next owner.
- Arguments of `load` with a quote or a backslash at the end, and empty ones
  (`load.cpp:38`, `shim.cpp:877`): nothing is escaped, and `split_cmdline` drops `""`.
- An empty argument makes `build_argv` (`shim.cpp:914`) count one argument less than
  the process has, so `__getmainargs` loses the last ones; `MainArgsPrefix` says
  what remains true. `GetCommandLine` is not affected.
- `HeldOver`, `AnsiLate` (`shim_kernel32_startup.hpp:88`, `shim_kernel32_tail.hpp:794`):
  `SetEnvironmentVariableW` frees the cached blocks also while the program holds
  one, and `FreeEnvironmentStrings` then frees it again or reads it; and
  `SetEnvironmentVariableA` does not throw them away at all, so that `GetEnvironmentStrings`
  keeps showing the old environment. `EnvBlocksSound` fails with either.
- Memory that runs out in `split_cmdline` (`shim.cpp:881`): a token is dropped, with the capacity
  doubled already, when `realloc` fails, and a null pointer counts as an argument when `strdup`
  fails. `BuildArgv` has only the vector's own `malloc` fail.
- A `WINAPI_SHIM_CMDLINE` that the process inherits (`shim.cpp:771`): the shim takes it for the command line instead of
  the arguments. `Init` of `CommandLine` starts without one.
- `SuspendThread` and `ResumeThread` of the wrapper of an unmanaged thread
  (`shim_kernel32_thread.hpp:37`): its `tid` is 0, which `pthread_kill` is given. `Suspendable` leaves it out.
- `VirtualFree` of a region while another thread is in `VirtualAlloc` or `VirtualFree` of it: a guard of
  `VirtualFree`.
- A PE header that is said to be longer than the file (`elf_write.hpp:91`): the Writer cuts it there;
  the images of `ElfLayout` have their headers in the file.
- `--base` together with `--pie` or `--so` (`pe_image.hpp:538`): the relocations are
  dropped although the image may be mapped anywhere.
- More than 86 sections (`elf_plan.hpp:67`): the estimate of the synthetic segment
  counts 20 program headers, the header block counts 7 and one per section. The spare
  page below the image makes up for 73 more; `PeImage::parse` accepts 96 sections.
- A program name with a quote in it (`shim.cpp:788`): the line puts it between quotes
  as it is, and `CommandLineToArgvW` ends it at the quote. Hypothesis of `CrtSeesArgumentsHolds`.
- An import named as one of the converter's own symbols, `shim_register_tls` of a `shim.dll`
  or an `entrypoint` of a DLL whose name begins with a dot (`elf_build.hpp:166`, `OwnNames`): the
  table then has the name twice and the loader finds one of the two.
  Also two imports whose names are the same only once DLL and function are joined with `_`
  (`elf_build.hpp:113`): a symbol of the model is the pair.
- Pointers or import slots in the exception tables that `--strip-pdata` leaves out
  (`elf_build.hpp:437`, `StripsInert`): their relocations stay and hit unmapped memory.
- A pointer to relocate in a section but without data in the file (`pe_image.hpp:434`): it is not
  relocated, while Windows adds the distance to its zero; and, with `--base`, a pointer listed twice, which
  `rebase` moves twice (`pe_image.hpp:514`). Together with the next item, `SitesSound`.
- A TLS directory that is not wholly in the file or holds addresses without relocation
  (`TlsSound`); and `--pie` with TLS, as above.
- An image with a base so low that the synthetic segment goes to the fallback address
  (`elf_plan.hpp:71`) and so large that it reaches that address (`SynthRoom`).

Some failures are in the models, but in no property, because nothing the code could be held to remains:

- A Ctrl-C is caught and nobody is told when the pipe or the dispatcher thread could not be had
  (`shim_kernel32_tail.hpp:286`), or when the dispatcher has ended: its loop does not try again after
  EINTR (line 269). TLC finds the latter when the premise of `CtrlCReaches` is weakened to
  `dispatcher # "off"`, although the comment at line 243 says that handlers are called "from a
  background thread". Windows has no such condition.
- Two calls of `SetConsoleCtrlHandler` that overlap (`shim_kernel32_tail.hpp:315`): the number of
  handlers is read under the lock and acted upon after it, so that the disposition of SIGINT may
  end up as that of the earlier call, with a handler that nobody calls or a signal caught for nobody.
- `VirtualAlloc` at an address in use replaces what is there, also memory of libc, and
  MEM_COMMIT inside a region does so too and adds an entry of its own (`shim_kernel32_mem.hpp:36`, `shim.cpp:701`),
  with which a later `VirtualFree` unmaps whatever is there by then. `RegionsIntact` says that
  the damage stays within `mixed`.
- A move replaces a target unasked, or leaves a temporary file, after the two refusals that `AtomicMove` names.

Behaviour that is modelled as it is, though a reader of Windows documentation
may not expect it: a wait that drops the last reference of a mutex its thread
owned recursively destroys it locked (`shim_kernel32_sync.hpp:172`); the roll-back
of a wait-all sets a manual-reset event that another thread has reset meanwhile
(`shim_kernel32_sync.hpp:481`); a SIGUSR1 that arrives before the trampoline has
set the key is dropped (`shim_kernel32_sync.hpp:354`), and suspend, resume, suspend
faster than signal delivery leaves a token that lets a suspended thread run on
(`shim_kernel32_thread.hpp:64`); wait-any ignores a handle that is not valid.

## 6. Not modelled, and the plan

- `PeImage::parse` and the options of `main`: they check header fields and copy them
  into fields of the same name; what they reject never gets further. `ElfLayout` and
  `Conversion` start from what they accept.
- The Heap family (libc malloc and free), critical sections (a recursive
  pthread mutex in the caller's memory): wrappers without state of their own.
  VirtualProtect and MEM_DECOMMIT change what pages hold, not whose they are.
- Module queries and resources, `GetEnvironmentVariable`, `GetStartupInfo`, processes and
  system information, priorities and affinity: lookups and constant answers.
- Locales, string comparison, times: pure conversions. The C runtime
  beyond `qsort` and `signal`: calls of libc with converted arguments; `__wgetmainargs` keeps the
  wide vector of its first call.
- Raising exceptions and `SetUnhandledExceptionFilter`: a copy of the list made under its lock, and an atomic exchange.
- What calls on files and consoles read and write; what `crash_handler` prints.
- user32, advapi32, shell32: stubs. `pedump`: prints a file.

Planned, in this order:

1. `PeImage::parse` and the options of `main` as first stages of `Conversion`.
2. `GetModuleHandle`, whose `dlopen(RTLD_NOLOAD)` is counted by glibc although
   `shim_kernel32_module.hpp:115` says it is not, in `FileHandles`.
