---------------------------- MODULE LocalStorage ----------------------------
(***************************************************************************)
(* Thread-local and fiber-local storage of the shim: one bitset of slot    *)
(* indices for TlsAlloc, FlsAlloc and the static TLS block of the image,   *)
(* one array of slots per thread, one table of FLS callbacks, and          *)
(* shim_thread_exit, which runs the callbacks when a thread ends.  The     *)
(* bitset and the callbacks have a lock each, so FlsAlloc and FlsFree are  *)
(* not atomic.                                                             *)
(*                                                                         *)
(* A value the program stores is the number of the allocation it stores it *)
(* for.  The program uses an index only between the alloc that returned it *)
(* and its free.                                                           *)
(***************************************************************************)
EXTENDS Integers, FiniteSets

CONSTANTS
  Threads, Main,  \* Main is the thread that runs shim_register_tls
  NSlots,         \* FLS_MAX_SLOTS
  MaxAllocs,      \* bound on calls of TlsAlloc and FlsAlloc
  SharedFree,     \* whether the program frees an index other threads have values in
  NullCallbacks   \* whether the program calls FlsAlloc without a callback

ASSUME StorageAssumption ==
  /\ Main \in Threads
  /\ NSlots \in Nat \ {0} /\ MaxAllocs \in Nat
  /\ {SharedFree, NullCallbacks} \subseteq BOOLEAN

Slots  == 0 .. NSlots - 1
Null   == 0     \* no value, no callback
Block  == -1    \* a pointer to the thread's copy of the static TLS template
NoSlot == -1    \* 0xFFFFFFFF

VARIABLES
  phase,    \* phase[t]: where thread t is
  op,       \* op[t]: its FLS call between two locks
  used,     \* g_tls_alloc_used
  cbs,      \* g_fls_callbacks: the allocation that set the callback
  static,   \* g_tls_static_idx
  slots,    \* slots[t]: the array at GS:[0x58]
  exitAt,   \* loop index of shim_thread_exit
  owner,    \* of an index the program holds, the number of its allocation
  fls,      \* allocations made by FlsAlloc with a callback
  bare,     \* ... and without
  nallocs,  \* allocations so far
  calls     \* callbacks run: for which value, and whose callback

vars == <<phase, op, used, cbs, static, slots, exitAt, owner, fls, bare, nallocs, calls>>

Idle == [fn |-> "none", idx |-> NoSlot, val |-> Null, cb |-> Null]

Running(t) == phase[t] = "running" /\ op[t] = Idle

Init ==
  /\ phase = [t \in Threads |-> IF t = Main THEN "register" ELSE "none"]
  /\ op = [t \in Threads |-> Idle]
  /\ used = {} /\ cbs = [i \in Slots |-> Null] /\ static = NoSlot
  /\ slots = [t \in Threads |-> [i \in Slots |-> Null]]
  /\ exitAt = [t \in Threads |-> 0]
  /\ owner = [i \in Slots |-> Null]
  /\ fls = {} /\ bare = {} /\ nallocs = 0 /\ calls = {}

\* The first index whose bit is clear.
IsFirstFree(i) == i \in Slots \ used /\ \A j \in Slots \ used : i <= j

-----------------------------------------------------------------------------
(* shim_register_tls, before any other thread exists, for an image with a  *)
(* TLS index or without one.                                               *)

Reserve(i) == used \cup {i}

Register ==
  /\ phase[Main] = "register"
  /\ \/ \E i \in Slots : /\ IsFirstFree(i)
                         /\ used' = Reserve(i) /\ static' = i
                         /\ slots' = [slots EXCEPT ![Main][i] = Block]
     \/ UNCHANGED <<used, static, slots>>
  /\ phase' = [phase EXCEPT ![Main] = "running"]
  /\ UNCHANGED <<op, cbs, exitAt, owner, fls, bare, nallocs, calls>>

(* A thread: CreateThread, then thread_trampoline allocates the slots      *)
(* (shim_init_teb), runs the DLL_THREAD_ATTACH callbacks and fills in the  *)
(* static block.                                                           *)

CreateThread(t) ==
  /\ \E s \in Threads : Running(s)
  /\ phase[t] = "none"
  /\ phase' = [phase EXCEPT ![t] = "attach"]
  /\ UNCHANGED <<op, used, cbs, static, slots, exitAt, owner, fls, bare, nallocs, calls>>

\* tls_static_init_thread.
StaticBlock(t) == IF static # NoSlot /\ slots[t][static] = Null
                  THEN [slots EXCEPT ![t][static] = Block] ELSE slots

Attach(t) ==
  /\ phase[t] = "attach"
  /\ slots' = StaticBlock(t)
  /\ phase' = [phase EXCEPT ![t] = "running"]
  /\ UNCHANGED <<op, used, cbs, static, exitAt, owner, fls, bare, nallocs, calls>>

-----------------------------------------------------------------------------
(* Alloc, free and set, by a thread that is running.                       *)

TlsAlloc(t) ==
  /\ Running(t) /\ nallocs < MaxAllocs
  /\ \E i \in Slots : /\ IsFirstFree(i)
                      /\ used' = used \cup {i}
                      /\ owner' = [owner EXCEPT ![i] = nallocs + 1]
  /\ nallocs' = nallocs + 1
  /\ UNCHANGED <<phase, op, cbs, static, slots, exitAt, fls, bare, calls>>

\* FlsAlloc takes the index under one lock ...
FlsAlloc(t, withCallback) ==
  /\ Running(t) /\ nallocs < MaxAllocs
  /\ withCallback \/ NullCallbacks
  /\ \E i \in Slots :
       /\ IsFirstFree(i)
       /\ used' = used \cup {i}
       /\ op' = [op EXCEPT ![t] = [fn |-> "FlsAlloc", idx |-> i, val |-> nallocs + 1,
                                   cb |-> IF withCallback THEN nallocs + 1 ELSE Null]]
  /\ fls'  = IF withCallback THEN fls \cup {nallocs + 1} ELSE fls
  /\ bare' = IF withCallback THEN bare ELSE bare \cup {nallocs + 1}
  /\ nallocs' = nallocs + 1
  /\ UNCHANGED <<phase, cbs, static, slots, exitAt, owner, calls>>

\* ... and stores the callback under the other.
FlsAllocCallback(t) ==
  /\ op[t].fn = "FlsAlloc"
  /\ cbs' = [cbs EXCEPT ![op[t].idx] = op[t].cb]
  /\ owner' = [owner EXCEPT ![op[t].idx] = op[t].val]
  /\ op' = [op EXCEPT ![t] = Idle]
  /\ UNCHANGED <<phase, used, static, slots, exitAt, fls, bare, nallocs, calls>>

\* No thread but t has something in slot i, unless the program frees anyway.
MayFree(t, i) == SharedFree \/ \A s \in Threads \ {t} : slots[s][i] = Null

\* Mutant of Zeroed: TlsFree leaves the caller's slot alone.
NotZeroed(t, i) == slots

\* The calling thread's slot is zeroed.
Zeroed(t, i) == [slots EXCEPT ![t][i] = Null]

TlsFree(t, i) ==
  /\ Running(t) /\ owner[i] # Null /\ owner[i] \notin fls \cup bare
  /\ MayFree(t, i)
  /\ slots' = Zeroed(t, i)
  /\ used' = used \ {i}
  /\ owner' = [owner EXCEPT ![i] = Null]
  /\ UNCHANGED <<phase, op, cbs, static, exitAt, fls, bare, nallocs, calls>>

\* The callback is taken out of the table.
CallbackTaken(i) == [cbs EXCEPT ![i] = Null]

\* A callback is run for a value that is not NULL.
CallFor(val, cb) == val # Null /\ cb # Null

\* FlsFree reads its own slot and takes the callback under one lock ...
FlsFree(t, i) ==
  /\ Running(t) /\ owner[i] \in fls \cup bare
  /\ MayFree(t, i)
  /\ op' = [op EXCEPT ![t] = [fn |-> "FlsFree", idx |-> i, val |-> slots[t][i], cb |-> cbs[i]]]
  /\ cbs' = CallbackTaken(i)
  /\ owner' = [owner EXCEPT ![i] = Null]
  /\ UNCHANGED <<phase, used, static, slots, exitAt, fls, bare, nallocs, calls>>

\* ... releases the index under the other ...
FlsFreeRelease(t) ==
  /\ op[t].fn = "FlsFree"
  /\ used' = used \ {op[t].idx}
  /\ op' = [op EXCEPT ![t].fn = "FlsFreeCall"]
  /\ UNCHANGED <<phase, cbs, static, slots, exitAt, owner, fls, bare, nallocs, calls>>

\* ... and runs the callback for its own value, with no lock held.
FlsFreeCall(t) ==
  /\ op[t].fn = "FlsFreeCall"
  /\ \/ /\ CallFor(op[t].val, op[t].cb)
        /\ slots' = [slots EXCEPT ![t][op[t].idx] = Null]
        /\ calls' = calls \cup {[thread |-> t, val |-> op[t].val, cb |-> op[t].cb]}
     \/ ~CallFor(op[t].val, op[t].cb) /\ UNCHANGED <<slots, calls>>
  /\ op' = [op EXCEPT ![t] = Idle]
  /\ UNCHANGED <<phase, used, cbs, static, exitAt, owner, fls, bare, nallocs>>

\* TlsSetValue and FlsSetValue.
SetValue(t, i) ==
  /\ Running(t) /\ owner[i] # Null
  /\ slots' = [slots EXCEPT ![t][i] = owner[i]]
  /\ UNCHANGED <<phase, op, used, cbs, static, exitAt, owner, fls, bare, nallocs, calls>>

-----------------------------------------------------------------------------
(* A thread ends: shim_thread_exit is the destructor of the pthread key.   *)

ExitThread(t) ==
  /\ t # Main /\ Running(t)
  /\ phase' = [phase EXCEPT ![t] = "exiting"]
  /\ exitAt' = [exitAt EXCEPT ![t] = 0]
  /\ UNCHANGED <<op, used, cbs, static, slots, owner, fls, bare, nallocs, calls>>

\* Mutant of LastExitSlot: the last slot is not looked at.
LastExitSlotShort == NSlots - 1

LastExitSlot == NSlots

\* Mutant of CallbackAt: the callback of the next slot.
CallbackAtNext(i) == cbs[(i + 1) % NSlots]

CallbackAt(i) == cbs[i]

\* One slot: its callback is read under the lock and run without it.
ExitSlot(t) ==
  LET i   == exitAt[t]
      val == slots[t][i]
  IN
  /\ phase[t] = "exiting" /\ i < LastExitSlot
  /\ \/ /\ CallFor(val, CallbackAt(i))
        /\ slots' = [slots EXCEPT ![t][i] = Null]
        /\ calls' = calls \cup {[thread |-> t, val |-> val, cb |-> CallbackAt(i)]}
     \/ ~CallFor(val, CallbackAt(i)) /\ UNCHANGED <<slots, calls>>
  /\ exitAt' = [exitAt EXCEPT ![t] = i + 1]
  /\ UNCHANGED <<phase, op, used, cbs, static, owner, fls, bare, nallocs>>

\* The static block and the array are freed.
FreeSlots(t) ==
  /\ phase[t] = "exiting" /\ exitAt[t] >= LastExitSlot
  /\ slots' = [slots EXCEPT ![t] = [i \in Slots |-> Null]]
  /\ phase' = [phase EXCEPT ![t] = "gone"]
  /\ UNCHANGED <<op, used, cbs, static, exitAt, owner, fls, bare, nallocs, calls>>

Next ==
  \/ Register
  \/ \E t \in Threads :
       \/ CreateThread(t) \/ Attach(t)
       \/ TlsAlloc(t) \/ \E b \in BOOLEAN : FlsAlloc(t, b)
       \/ FlsAllocCallback(t)
       \/ \E i \in Slots : TlsFree(t, i) \/ FlsFree(t, i) \/ SetValue(t, i)
       \/ FlsFreeRelease(t) \/ FlsFreeCall(t)
       \/ ExitThread(t) \/ ExitSlot(t) \/ FreeSlots(t)

Spec == Init /\ [][Next]_vars

-----------------------------------------------------------------------------
(* Properties.                                                             *)

(* No thread finds in its slot a value that a former owner of the index    *)
(* stored ("a subsequent TlsAlloc on the same index doesn't expose stale   *)
(* data to the new owner", TlsFree), nor the static TLS block.             *)
NoStaleValue ==
  \A i \in Slots : owner[i] # Null =>
    \A t \in Threads : Running(t) \/ phase[t] = "exiting" => slots[t][i] \in {Null, owner[i]}

(* A callback is run for values stored under its own allocation only.      *)
RightCallback == \A c \in calls : c.val = c.cb

(* Values left in FLS slots are released when the thread ends: the loop of *)
(* shim_thread_exit finds the callback of each, while other threads        *)
(* allocate and free the indices next to them.  It holds if the program    *)
(* frees an index only once no other thread has a value there; FlsFree     *)
(* takes the callback away, so with SharedFree the values of the other     *)
(* threads are left, which its comment denies.                             *)
ReleasedAtExit ==
  [][\A t \in Threads : phase[t] = "exiting" /\ phase'[t] = "gone" =>
       \A i \in Slots : slots[t][i] \notin fls]_vars
=============================================================================
