------------------------- MODULE LocalStorageProofs -------------------------
(***************************************************************************)
(* Proof of the properties of LocalStorage for any threads, slots and      *)
(* number of allocations, for a program that frees an index only when no   *)
(* other thread has a value in it and gives FlsAlloc a callback.  The two  *)
(* locks of FlsAlloc and FlsFree leave states in between, which the        *)
(* invariant describes: an index whose bit is set and which nobody holds   *)
(* belongs to the one call that is between its locks, and a slot may keep  *)
(* the value of a former owner only while its own thread is in FlsFree.    *)
(***************************************************************************)
EXTENDS LocalStorage, TLAPS

\* A call that has its index's bit and has the callback lock to take, or the reverse.
HoldsBit(t) == op[t].fn \in {"FlsAlloc", "FlsFree"}

\* FlsFree, before it has run the callback.
Freeing(t) == op[t].fn \in {"FlsFree", "FlsFreeCall"}

StorageType ==
  /\ phase \in [Threads -> {"register", "none", "attach", "running", "exiting", "gone"}]
  /\ op \in [Threads -> [fn : {"none", "FlsAlloc", "FlsFree", "FlsFreeCall"},
                         idx : Slots \cup {NoSlot}, val : Nat \cup {Block}, cb : Nat]]
  /\ used \in SUBSET Slots
  /\ cbs \in [Slots -> Nat]
  /\ static \in Slots \cup {NoSlot}
  /\ slots \in [Threads -> [Slots -> Nat \cup {Block}]]
  /\ exitAt \in [Threads -> Nat]
  /\ owner \in [Slots -> Nat]
  /\ nallocs \in Nat
  /\ fls \in SUBSET (1 .. nallocs)
  /\ bare = {}

\* The callback of an index is that of the allocation that holds it, or there is none.
CallbacksAgree == \A i \in Slots : cbs[i] = IF owner[i] \in fls THEN owner[i] ELSE Null

\* An index the program holds has its bit, and is not the image's.
Held == \A i \in Slots :
  owner[i] # Null => i \in used /\ i # static /\ owner[i] <= nallocs

\* The image's index keeps its bit; there is none before shim_register_tls has run.
StaticHeld == /\ static # NoSlot => static \in used
              /\ phase[Main] = "register" => static = NoSlot

\* A call between its two locks has the only claim to its index.
BitClaimed ==
  /\ \A t \in Threads : HoldsBit(t) =>
       /\ op[t].idx \in used /\ op[t].idx # static /\ owner[op[t].idx] = Null
       /\ \A u \in Threads \ {t} : HoldsBit(u) => op[u].idx # op[t].idx
  /\ \A t \in Threads : op[t].fn = "FlsAlloc" => op[t].val = op[t].cb

\* What a call has read is still so.
OpSound == \A t \in Threads :
  /\ op[t] # Idle => phase[t] = "running"
  /\ op[t].fn = "none" => op[t] = Idle
  /\ op[t].fn # "none" => op[t].cb \in fls /\ op[t].idx \in Slots
  /\ Freeing(t) => op[t].val \in {Null, op[t].cb} /\ slots[t][op[t].idx] = op[t].val

\* Where a value in a slot may come from.
ValuesOwned == \A t \in Threads, i \in Slots :
  \/ slots[t][i] \in {Null, owner[i]}
  \/ slots[t][i] = Block /\ i = static
  \/ Freeing(t) /\ op[t].idx = i

\* The slots of a thread that has not started are empty.
NotStarted == \A t \in Threads :
  phase[t] \in {"register", "none", "attach"} => slots[t] = [i \in Slots |-> Null]

\* The slots shim_thread_exit has passed hold nothing to release.
Passed == \A t \in Threads, i \in Slots :
  phase[t] = "exiting" /\ i < exitAt[t] => slots[t][i] \notin fls

StorageInv ==
  /\ StorageType /\ CallbacksAgree /\ Held /\ StaticHeld /\ BitClaimed /\ OpSound
  /\ ValuesOwned /\ NotStarted /\ Passed /\ RightCallback

-----------------------------------------------------------------------------
(* The invariant is one.                                                   *)

(* Facts of the constants, for the provers. *)
LEMMA SlotFacts ==
  /\ Slots \subseteq Nat /\ NoSlot \notin Slots /\ NSlots \in Nat /\ Main \in Threads
  /\ Block \in Int /\ Block \notin Nat /\ Null = 0
  BY StorageAssumption DEF Slots, NoSlot, Block, Null

(* Writing one slot of one thread. *)
LEMMA SlotWritten ==
  ASSUME StorageType, NEW t \in Threads, NEW i \in Slots, NEW v \in Nat \cup {Block}
  PROVE  [slots EXCEPT ![t][i] = v] \in [Threads -> [Slots -> Nat \cup {Block}]]
  BY DEF StorageType

(* The initial state satisfies the invariant. *)
LEMMA InvInit == Init => StorageInv
  BY StorageAssumption
  DEF Init, StorageInv, StorageType, CallbacksAgree, Held, StaticHeld, BitClaimed, OpSound, ValuesOwned,
      NotStarted, Passed, RightCallback, HoldsBit, Freeing, Idle, Slots, NoSlot, Null, Block

(* shim_register_tls takes an index nobody has, before any slot is filled. *)
LEMMA InvRegister ==
  ASSUME StorageInv, ~SharedFree, ~NullCallbacks, Register
  PROVE  StorageInv'
  <1> USE StorageAssumption DEF Register, IsFirstFree, Reserve
  <1>1. StorageType'
    <2>1. used' \in SUBSET Slots /\ static' \in Slots \cup {NoSlot}
      BY DEF StorageInv, StorageType
    <2>2. \A i \in Slots : [slots EXCEPT ![Main][i] = Block] \in [Threads -> [Slots -> Nat \cup {Block}]]
      BY SlotFacts DEF StorageInv, StorageType
    <2>3. slots' \in [Threads -> [Slots -> Nat \cup {Block}]]
      BY <2>2, ZenonT(30) DEF StorageInv, StorageType
    <2> QED BY <2>1, <2>3 DEF StorageInv, StorageType
  <1>2. CallbacksAgree'
    BY SlotFacts DEF StorageInv, StorageType, CallbacksAgree
  <1>3. Held'
    BY SlotFacts DEF StorageInv, StorageType, Held
  <1>4. StaticHeld'
    BY SlotFacts DEF StorageInv, StorageType, StaticHeld
  <1>5. BitClaimed'
    BY SlotFacts DEF StorageInv, StorageType, BitClaimed, OpSound, Held, HoldsBit, Idle
  <1>6. OpSound'
    BY SlotFacts DEF StorageInv, StorageType, OpSound, Freeing, Idle
  <1>7. ValuesOwned'
    <2> SUFFICES ASSUME NEW u \in Threads, NEW j \in Slots
                 PROVE  \/ slots'[u][j] \in {Null, owner[j]}
                        \/ slots'[u][j] = Block /\ j = static'
                        \/ Freeing(u) /\ op[u].idx = j
      BY DEF ValuesOwned, Freeing
    <2>1. slots[u][j] \in {Null, owner[j]} \/ (Freeing(u) /\ op[u].idx = j)
      BY SlotFacts DEF StorageInv, ValuesOwned, StaticHeld
    <2>2. slots'[u][j] = slots[u][j] \/ (slots'[u][j] = Block /\ j = static')
      BY SlotFacts DEF StorageInv, StorageType
    <2> QED BY <2>1, <2>2
  <1>8. NotStarted'
    BY SlotFacts DEF StorageInv, StorageType, NotStarted, OpSound, Idle
  <1>9. Passed'
    BY SlotFacts DEF StorageInv, StorageType, Passed
  <1>10. RightCallback'
    BY SlotFacts DEF StorageInv, RightCallback
  <1> QED BY <1>1, <1>2, <1>3, <1>4, <1>5, <1>6, <1>7, <1>8, <1>9, <1>10 DEF StorageInv

(* A new thread has empty slots. *)
LEMMA InvCreateThread ==
  ASSUME StorageInv, ~SharedFree, ~NullCallbacks, NEW t \in Threads, CreateThread(t)
  PROVE  StorageInv'
  <1> USE StorageAssumption DEF CreateThread
  <1>1. StorageType'
    BY SlotFacts DEF StorageInv, StorageType, Idle
  <1>2. CallbacksAgree'
    BY SlotFacts DEF StorageInv, StorageType, CallbacksAgree
  <1>3. Held'
    BY SlotFacts DEF StorageInv, StorageType, Held
  <1>4. StaticHeld'
    BY SlotFacts DEF StorageInv, StorageType, StaticHeld
  <1>5. BitClaimed'
    BY SlotFacts DEF StorageInv, StorageType, BitClaimed, OpSound, Held, HoldsBit, Idle
  <1>6. OpSound'
    BY SlotFacts DEF StorageInv, StorageType, OpSound, Freeing, Idle
  <1>7. ValuesOwned'
    BY SlotFacts DEF StorageInv, StorageType, ValuesOwned, Freeing, Idle
  <1>8. NotStarted'
    BY SlotFacts DEF StorageInv, StorageType, NotStarted, OpSound, Idle
  <1>9. Passed'
    BY SlotFacts DEF StorageInv, StorageType, Passed
  <1>10. RightCallback'
    BY SlotFacts DEF StorageInv, RightCallback
  <1> QED BY <1>1, <1>2, <1>3, <1>4, <1>5, <1>6, <1>7, <1>8, <1>9, <1>10 DEF StorageInv

(* The static block goes to the index that is the image's. *)
LEMMA InvAttach ==
  ASSUME StorageInv, ~SharedFree, ~NullCallbacks, NEW t \in Threads, Attach(t)
  PROVE  StorageInv'
  <1> USE StorageAssumption DEF Attach, StaticBlock
  <1>1. StorageType'
    BY SlotFacts DEF StorageInv, StorageType, Idle
  <1>2. CallbacksAgree'
    BY SlotFacts DEF StorageInv, StorageType, CallbacksAgree
  <1>3. Held'
    BY SlotFacts DEF StorageInv, StorageType, Held
  <1>4. StaticHeld'
    BY SlotFacts DEF StorageInv, StorageType, StaticHeld
  <1>5. BitClaimed'
    BY SlotFacts DEF StorageInv, StorageType, BitClaimed, OpSound, Held, HoldsBit, Idle
  <1>6. OpSound'
    BY SlotFacts DEF StorageInv, StorageType, OpSound, Freeing, Idle
  <1>7. ValuesOwned'
    <2> SUFFICES ASSUME NEW u \in Threads, NEW j \in Slots
                 PROVE  \/ slots'[u][j] \in {Null, owner'[j]}
                        \/ slots'[u][j] = Block /\ j = static
                        \/ Freeing(u)' /\ op'[u].idx = j
      BY DEF ValuesOwned
    <2>1. \/ slots[u][j] \in {Null, owner[j]}
          \/ slots[u][j] = Block /\ j = static
          \/ Freeing(u) /\ op[u].idx = j
      BY DEF StorageInv, ValuesOwned
    <2>2. slots'[u][j] = slots[u][j] \/ (slots'[u][j] = Block /\ j = static)
      BY SlotFacts DEF StorageInv, StorageType
    <2> QED BY <2>1, <2>2 DEF Freeing
  <1>8. NotStarted'
    BY SlotFacts DEF StorageInv, StorageType, NotStarted, OpSound, Idle
  <1>9. Passed'
    BY SlotFacts DEF StorageInv, StorageType, Passed
  <1>10. RightCallback'
    BY SlotFacts DEF StorageInv, RightCallback
  <1> QED BY <1>1, <1>2, <1>3, <1>4, <1>5, <1>6, <1>7, <1>8, <1>9, <1>10 DEF StorageInv

(* TlsAlloc returns an index whose bit was clear: nobody holds it, and no call *)
(* is between its locks with it. *)
LEMMA InvTlsAlloc ==
  ASSUME StorageInv, ~SharedFree, ~NullCallbacks, NEW t \in Threads, TlsAlloc(t)
  PROVE  StorageInv'
  <1> USE StorageAssumption DEF TlsAlloc, IsFirstFree, Running
  <1>a. PICK i \in Slots \ used : used' = used \cup {i} /\ owner' = [owner EXCEPT ![i] = nallocs + 1]
    OBVIOUS
  <1>b. /\ owner[i] = Null /\ i # static
        /\ \A j \in Slots : owner'[j] = IF j = i THEN nallocs + 1 ELSE owner[j]
    BY <1>a, SlotFacts DEF StorageInv, StorageType, Held, StaticHeld
  <1>1. StorageType'
    <2>1. fls \in SUBSET (1 .. nallocs')
      BY DEF StorageInv, StorageType
    <2> QED BY <2>1 DEF StorageInv, StorageType
  <1>2. CallbacksAgree'
    <2>1. nallocs + 1 \notin fls /\ Null \notin fls
      BY SlotFacts DEF StorageInv, StorageType
    <2> QED BY <1>b, <2>1 DEF StorageInv, CallbacksAgree
  <1>3. Held'
    BY <1>a, <1>b DEF StorageInv, StorageType, Held
  <1>4. StaticHeld'
    BY SlotFacts DEF StorageInv, StorageType, StaticHeld
  <1>5. BitClaimed'
    BY SlotFacts DEF StorageInv, StorageType, BitClaimed, OpSound, Held, HoldsBit, Idle
  <1>6. OpSound'
    BY SlotFacts DEF StorageInv, StorageType, OpSound, Freeing, Idle
  <1>7. ValuesOwned'
    <2> SUFFICES ASSUME NEW u \in Threads, NEW j \in Slots
                 PROVE  \/ slots'[u][j] \in {Null, owner'[j]}
                        \/ slots'[u][j] = Block /\ j = static
                        \/ Freeing(u)' /\ op'[u].idx = j
      BY DEF ValuesOwned
    <2>1. \/ slots[u][j] \in {Null, owner[j]}
          \/ slots[u][j] = Block /\ j = static
          \/ Freeing(u) /\ op[u].idx = j
      BY DEF StorageInv, ValuesOwned
    <2> QED BY <2>1, <1>b DEF Freeing
  <1>8. NotStarted'
    BY SlotFacts DEF StorageInv, StorageType, NotStarted, OpSound, Idle
  <1>9. Passed'
    BY SlotFacts DEF StorageInv, StorageType, Passed
  <1>10. RightCallback'
    BY SlotFacts DEF StorageInv, RightCallback
  <1> QED BY <1>1, <1>2, <1>3, <1>4, <1>5, <1>6, <1>7, <1>8, <1>9, <1>10 DEF StorageInv

(* FlsAlloc takes such an index, and holds its bit. *)
LEMMA InvFlsAlloc ==
  ASSUME StorageInv, ~SharedFree, ~NullCallbacks, NEW t \in Threads, NEW b \in BOOLEAN, FlsAlloc(t, b)
  PROVE  StorageInv'
  <1> USE StorageAssumption DEF FlsAlloc, IsFirstFree, Running
  <1>1. StorageType'
    <2>1. nallocs' \in Nat /\ fls' \in SUBSET (1 .. nallocs')
      BY DEF StorageInv, StorageType
    <2>2. PICK i \in Slots :
            op' = [op EXCEPT ![t] = [fn |-> "FlsAlloc", idx |-> i, val |-> nallocs + 1, cb |-> nallocs + 1]]
      OBVIOUS
    <2>3. op' \in [Threads -> [fn : {"none", "FlsAlloc", "FlsFree", "FlsFreeCall"},
                               idx : Slots \cup {NoSlot}, val : Nat \cup {Block}, cb : Nat]]
      BY <2>1, <2>2 DEF StorageInv, StorageType
    <2>4. used' \in SUBSET Slots /\ bare' = {}
      BY DEF StorageInv, StorageType
    <2> QED BY <2>1, <2>3, <2>4 DEF StorageInv, StorageType
  <1>2. CallbacksAgree'
    <2>1. \A j \in Slots : owner[j] <= nallocs /\ owner[j] \in Nat
      BY SlotFacts DEF StorageInv, StorageType, Held
    <2>2. \A j \in Slots : owner[j] \in fls' <=> owner[j] \in fls
      BY <2>1 DEF StorageInv, StorageType
    <2> QED BY <2>2 DEF StorageInv, CallbacksAgree
  <1>3. Held'
    BY DEF StorageInv, StorageType, Held
  <1>4. StaticHeld'
    BY SlotFacts DEF StorageInv, StorageType, StaticHeld
  <1>5. BitClaimed'
    BY SlotFacts DEF StorageInv, StorageType, BitClaimed, OpSound, Held, HoldsBit, Idle, StaticHeld
  <1>6. OpSound'
    BY SlotFacts DEF StorageInv, StorageType, OpSound, Freeing, Idle
  <1>7. ValuesOwned'
    <2> SUFFICES ASSUME NEW u \in Threads, NEW j \in Slots
                 PROVE  \/ slots'[u][j] \in {Null, owner'[j]}
                        \/ slots'[u][j] = Block /\ j = static
                        \/ Freeing(u)' /\ op'[u].idx = j
      BY DEF ValuesOwned
    <2>1. \/ slots[u][j] \in {Null, owner[j]}
          \/ slots[u][j] = Block /\ j = static
          \/ Freeing(u) /\ op[u].idx = j
      BY DEF StorageInv, ValuesOwned
    <2>2. ~Freeing(t) /\ (u # t => op'[u] = op[u])
      BY DEF StorageInv, StorageType, Freeing, Idle
    <2> QED BY <2>1, <2>2 DEF Freeing
  <1>8. NotStarted'
    BY SlotFacts DEF StorageInv, StorageType, NotStarted, OpSound, Idle
  <1>9. Passed'
    <2> SUFFICES ASSUME NEW u \in Threads, NEW j \in Slots, phase[u] = "exiting", j < exitAt[u]
                 PROVE  slots[u][j] \notin fls'
      BY DEF Passed
    <2>1. slots[u][j] \notin fls /\ op[u] = Idle
      BY DEF StorageInv, Passed, OpSound
    <2>2. slots[u][j] \in {Null, owner[j], Block} /\ owner[j] <= nallocs
      BY <2>1, SlotFacts DEF StorageInv, StorageType, ValuesOwned, Held, Freeing, Idle, Null
    <2> QED BY <2>1, <2>2, SlotFacts DEF StorageInv, StorageType
  <1>10. RightCallback'
    BY SlotFacts DEF StorageInv, RightCallback
  <1> QED BY <1>1, <1>2, <1>3, <1>4, <1>5, <1>6, <1>7, <1>8, <1>9, <1>10 DEF StorageInv

(* The callback and the index become the program's at once. *)
LEMMA InvFlsAllocCallback ==
  ASSUME StorageInv, ~SharedFree, ~NullCallbacks, NEW t \in Threads, FlsAllocCallback(t)
  PROVE  StorageInv'
  <1> USE StorageAssumption DEF FlsAllocCallback
  <1>1. StorageType'
    BY SlotFacts DEF StorageInv, StorageType, Idle, OpSound, BitClaimed, HoldsBit
  <1>2. CallbacksAgree'
    BY SlotFacts DEF StorageInv, StorageType, CallbacksAgree, OpSound, BitClaimed
  <1>3. Held'
    BY SlotFacts DEF StorageInv, StorageType, Held, OpSound, BitClaimed, HoldsBit
  <1>4. StaticHeld'
    BY SlotFacts DEF StorageInv, StorageType, StaticHeld
  <1>5. BitClaimed'
    BY SlotFacts DEF StorageInv, StorageType, BitClaimed, OpSound, Held, HoldsBit, Idle
  <1>6. OpSound'
    BY SlotFacts DEF StorageInv, StorageType, OpSound, Freeing, Idle
  <1>7. ValuesOwned'
    <2> SUFFICES ASSUME NEW u \in Threads, NEW j \in Slots
                 PROVE  \/ slots'[u][j] \in {Null, owner'[j]}
                        \/ slots'[u][j] = Block /\ j = static
                        \/ Freeing(u)' /\ op'[u].idx = j
      BY DEF ValuesOwned
    <2>1. \/ slots[u][j] \in {Null, owner[j]}
          \/ slots[u][j] = Block /\ j = static
          \/ Freeing(u) /\ op[u].idx = j
      BY DEF StorageInv, ValuesOwned
    <2>2. op[t].idx \in Slots /\ owner[op[t].idx] = Null /\ ~Freeing(t)
      BY DEF StorageInv, OpSound, BitClaimed, HoldsBit, Freeing
    <2>3. u # t => op'[u] = op[u]
      BY DEF StorageInv, StorageType
    <2>4. j # op[t].idx => owner'[j] = owner[j]
      BY DEF StorageInv, StorageType
    <2> QED BY <2>1, <2>2, <2>3, <2>4 DEF Freeing
  <1>8. NotStarted'
    BY SlotFacts DEF StorageInv, StorageType, NotStarted, OpSound, Idle
  <1>9. Passed'
    BY SlotFacts DEF StorageInv, StorageType, Passed
  <1>10. RightCallback'
    BY SlotFacts DEF StorageInv, RightCallback
  <1> QED BY <1>1, <1>2, <1>3, <1>4, <1>5, <1>6, <1>7, <1>8, <1>9, <1>10 DEF StorageInv

(* TlsFree leaves no value of its index: its own is zeroed, others have none. *)
LEMMA InvTlsFree ==
  ASSUME StorageInv, ~SharedFree, ~NullCallbacks, NEW t \in Threads, NEW i \in Slots, TlsFree(t, i)
  PROVE  StorageInv'
  <1> USE StorageAssumption DEF TlsFree, MayFree, Zeroed, Running
  <1>1. StorageType'
    BY SlotFacts DEF StorageInv, StorageType, Idle
  <1>2. CallbacksAgree'
    BY SlotFacts DEF StorageInv, StorageType, CallbacksAgree
  <1>3. Held'
    BY SlotFacts DEF StorageInv, StorageType, Held
  <1>4. StaticHeld'
    BY SlotFacts DEF StorageInv, StorageType, StaticHeld, Held
  <1>5. BitClaimed'
    BY SlotFacts DEF StorageInv, StorageType, BitClaimed, OpSound, Held, HoldsBit, Idle
  <1>6. OpSound'
    BY SlotFacts DEF StorageInv, StorageType, OpSound, Freeing, Idle
  <1>7. ValuesOwned'
    <2> SUFFICES ASSUME NEW u \in Threads, NEW j \in Slots
                 PROVE  \/ slots'[u][j] \in {Null, owner'[j]}
                        \/ slots'[u][j] = Block /\ j = static
                        \/ Freeing(u)' /\ op'[u].idx = j
      BY DEF ValuesOwned
    <2>1. \/ slots[u][j] \in {Null, owner[j]}
          \/ slots[u][j] = Block /\ j = static
          \/ Freeing(u) /\ op[u].idx = j
      BY DEF StorageInv, ValuesOwned
    <2>2. u = t /\ j = i => slots'[u][j] = Null
      BY DEF StorageInv, StorageType
    <2>3. u # t /\ j = i => slots'[u][j] = Null
      BY DEF StorageInv, StorageType
    <2>4. j # i => owner'[j] = owner[j] /\ slots'[u][j] = slots[u][j]
      BY DEF StorageInv, StorageType
    <2> QED BY <2>1, <2>2, <2>3, <2>4 DEF Freeing
  <1>8. NotStarted'
    BY SlotFacts DEF StorageInv, StorageType, NotStarted, OpSound, Idle
  <1>9. Passed'
    BY SlotFacts DEF StorageInv, StorageType, Passed
  <1>10. RightCallback'
    BY SlotFacts DEF StorageInv, RightCallback
  <1> QED BY <1>1, <1>2, <1>3, <1>4, <1>5, <1>6, <1>7, <1>8, <1>9, <1>10 DEF StorageInv

(* FlsFree takes the callback and the index away, and keeps the bit. *)
LEMMA InvFlsFree ==
  ASSUME StorageInv, ~SharedFree, ~NullCallbacks, NEW t \in Threads, NEW i \in Slots, FlsFree(t, i)
  PROVE  StorageInv'
  <1> USE StorageAssumption DEF FlsFree, MayFree, CallbackTaken, Running
  <1>1. StorageType'
    BY SlotFacts DEF StorageInv, StorageType, Idle
  <1>2. CallbacksAgree'
    BY SlotFacts DEF StorageInv, StorageType, CallbacksAgree
  <1>3. Held'
    BY SlotFacts DEF StorageInv, StorageType, Held
  <1>4. StaticHeld'
    BY SlotFacts DEF StorageInv, StorageType, StaticHeld
  <1>5. BitClaimed'
    <2>1. owner[i] # Null /\ i \in used /\ i # static
      BY SlotFacts DEF StorageInv, StorageType, Held
    <2>2. /\ op'[t].fn = "FlsFree" /\ op'[t].idx = i /\ owner'[i] = Null
          /\ \A u \in Threads \ {t} : op'[u] = op[u]
          /\ \A j \in Slots \ {i} : owner'[j] = owner[j]
      BY DEF StorageInv, StorageType
    <2>3. \A u \in Threads : HoldsBit(u) => op[u].idx \in Slots /\ op[u].idx # i
      BY <2>1 DEF StorageInv, BitClaimed, OpSound, HoldsBit
    <2> QED BY <2>1, <2>2, <2>3 DEF StorageInv, BitClaimed, HoldsBit
  <1>6. OpSound'
    BY SlotFacts DEF StorageInv, StorageType, OpSound, Freeing, Idle, CallbacksAgree, ValuesOwned, Held
  <1>7. ValuesOwned'
    <2> SUFFICES ASSUME NEW u \in Threads, NEW j \in Slots
                 PROVE  \/ slots'[u][j] \in {Null, owner'[j]}
                        \/ slots'[u][j] = Block /\ j = static
                        \/ Freeing(u)' /\ op'[u].idx = j
      BY DEF ValuesOwned
    <2>1. \/ slots[u][j] \in {Null, owner[j]}
          \/ slots[u][j] = Block /\ j = static
          \/ Freeing(u) /\ op[u].idx = j
      BY DEF StorageInv, ValuesOwned
    <2>2. u # t /\ j = i => slots[u][j] = Null
      OBVIOUS
    <2>3. j # i => owner'[j] = owner[j]
      BY DEF StorageInv, StorageType
    <2>4. op'[t].fn = "FlsFree" /\ op'[t].idx = i /\ (u # t => op'[u] = op[u]) /\ ~Freeing(t)
      BY DEF StorageInv, StorageType, Freeing, Idle
    <2> QED BY <2>1, <2>2, <2>3, <2>4 DEF Freeing
  <1>8. NotStarted'
    BY SlotFacts DEF StorageInv, StorageType, NotStarted, OpSound, Idle
  <1>9. Passed'
    BY SlotFacts DEF StorageInv, StorageType, Passed
  <1>10. RightCallback'
    BY SlotFacts DEF StorageInv, RightCallback
  <1> QED BY <1>1, <1>2, <1>3, <1>4, <1>5, <1>6, <1>7, <1>8, <1>9, <1>10 DEF StorageInv

(* A value is stored under the allocation that holds the index. *)
LEMMA InvSetValue ==
  ASSUME StorageInv, ~SharedFree, ~NullCallbacks, NEW t \in Threads, NEW i \in Slots, SetValue(t, i)
  PROVE  StorageInv'
  <1> USE StorageAssumption DEF SetValue, Running
  <1>1. StorageType'
    BY SlotFacts DEF StorageInv, StorageType, Idle
  <1>2. CallbacksAgree'
    BY SlotFacts DEF StorageInv, StorageType, CallbacksAgree
  <1>3. Held'
    BY SlotFacts DEF StorageInv, StorageType, Held
  <1>4. StaticHeld'
    BY SlotFacts DEF StorageInv, StorageType, StaticHeld
  <1>5. BitClaimed'
    BY SlotFacts DEF StorageInv, StorageType, BitClaimed, OpSound, Held, HoldsBit, Idle
  <1>6. OpSound'
    BY SlotFacts DEF StorageInv, StorageType, OpSound, Freeing, Idle
  <1>7. ValuesOwned'
    <2> SUFFICES ASSUME NEW u \in Threads, NEW j \in Slots
                 PROVE  \/ slots'[u][j] \in {Null, owner'[j]}
                        \/ slots'[u][j] = Block /\ j = static
                        \/ Freeing(u)' /\ op'[u].idx = j
      BY DEF ValuesOwned
    <2>1. \/ slots[u][j] \in {Null, owner[j]}
          \/ slots[u][j] = Block /\ j = static
          \/ Freeing(u) /\ op[u].idx = j
      BY DEF StorageInv, ValuesOwned
    <2>2. slots'[u][j] = slots[u][j] \/ slots'[u][j] = owner[j]
      BY DEF StorageInv, StorageType
    <2> QED BY <2>1, <2>2 DEF Freeing
  <1>8. NotStarted'
    BY SlotFacts DEF StorageInv, StorageType, NotStarted, OpSound, Idle
  <1>9. Passed'
    BY SlotFacts DEF StorageInv, StorageType, Passed
  <1>10. RightCallback'
    BY SlotFacts DEF StorageInv, RightCallback
  <1> QED BY <1>1, <1>2, <1>3, <1>4, <1>5, <1>6, <1>7, <1>8, <1>9, <1>10 DEF StorageInv

(* From here on the index may go to somebody else; the slot of the caller *)
(* still has its old value. *)
LEMMA InvFlsFreeRelease ==
  ASSUME StorageInv, ~SharedFree, ~NullCallbacks, NEW t \in Threads, FlsFreeRelease(t)
  PROVE  StorageInv'
  <1> USE StorageAssumption DEF FlsFreeRelease
  <1>1. StorageType'
    <2>1. op' \in [Threads -> [fn : {"none", "FlsAlloc", "FlsFree", "FlsFreeCall"},
                               idx : Slots \cup {NoSlot}, val : Nat \cup {Block}, cb : Nat]]
      BY ZenonT(30) DEF StorageInv, StorageType
    <2> QED BY <2>1 DEF StorageInv, StorageType
  <1>2. CallbacksAgree'
    BY SlotFacts DEF StorageInv, StorageType, CallbacksAgree
  <1>3. Held'
    BY SlotFacts DEF StorageInv, StorageType, Held, BitClaimed, HoldsBit, OpSound
  <1>4. StaticHeld'
    BY SlotFacts DEF StorageInv, StorageType, StaticHeld, BitClaimed, HoldsBit
  <1>5. BitClaimed'
    BY SlotFacts DEF StorageInv, StorageType, BitClaimed, OpSound, Held, HoldsBit, Idle
  <1>6. OpSound'
    BY SlotFacts DEF StorageInv, StorageType, OpSound, Freeing, Idle
  <1>7. ValuesOwned'
    <2> SUFFICES ASSUME NEW u \in Threads, NEW j \in Slots
                 PROVE  \/ slots'[u][j] \in {Null, owner'[j]}
                        \/ slots'[u][j] = Block /\ j = static
                        \/ Freeing(u)' /\ op'[u].idx = j
      BY DEF ValuesOwned
    <2>1. \/ slots[u][j] \in {Null, owner[j]}
          \/ slots[u][j] = Block /\ j = static
          \/ Freeing(u) /\ op[u].idx = j
      BY DEF StorageInv, ValuesOwned
    <2>2. Freeing(u)' = Freeing(u) /\ op'[u].idx = op[u].idx
      BY DEF StorageInv, StorageType, Freeing
    <2> QED BY <2>1, <2>2
  <1>8. NotStarted'
    BY SlotFacts DEF StorageInv, StorageType, NotStarted, OpSound, Idle
  <1>9. Passed'
    BY SlotFacts DEF StorageInv, StorageType, Passed
  <1>10. RightCallback'
    BY SlotFacts DEF StorageInv, RightCallback
  <1> QED BY <1>1, <1>2, <1>3, <1>4, <1>5, <1>6, <1>7, <1>8, <1>9, <1>10 DEF StorageInv

(* The callback empties the caller's slot: a value of a held index has one. *)
LEMMA InvFlsFreeCall ==
  ASSUME StorageInv, ~SharedFree, ~NullCallbacks, NEW t \in Threads, FlsFreeCall(t)
  PROVE  StorageInv'
  <1> USE StorageAssumption DEF FlsFreeCall, CallFor
  <1>a. /\ op[t].idx \in Slots /\ op[t].cb \in fls /\ op[t].cb # Null /\ op[t].val \in {Null, op[t].cb}
        /\ slots[t][op[t].idx] = op[t].val
    BY SlotFacts DEF StorageInv, StorageType, OpSound, Freeing
  <1>b. /\ slots' \in [Threads -> [Slots -> Nat \cup {Block}]]
        /\ \A u \in Threads, j \in Slots : slots'[u][j] = IF u = t /\ j = op[t].idx THEN Null ELSE slots[u][j]
    BY <1>a, SlotFacts DEF StorageInv, StorageType
  <1>c. /\ op'[t] = Idle /\ \A u \in Threads \ {t} : op'[u] = op[u]
        /\ op' \in [Threads -> [fn : {"none", "FlsAlloc", "FlsFree", "FlsFreeCall"},
                               idx : Slots \cup {NoSlot}, val : Nat \cup {Block}, cb : Nat]]
    BY SlotFacts DEF StorageInv, StorageType, Idle
  <1>1. StorageType'
    BY <1>b, <1>c DEF StorageInv, StorageType
  <1>2. CallbacksAgree'
    BY SlotFacts DEF StorageInv, StorageType, CallbacksAgree
  <1>3. Held'
    BY SlotFacts DEF StorageInv, StorageType, Held
  <1>4. StaticHeld'
    BY SlotFacts DEF StorageInv, StorageType, StaticHeld
  <1>5. BitClaimed'
    BY <1>c DEF StorageInv, BitClaimed, HoldsBit, Idle
  <1>6. OpSound'
    BY <1>b, <1>c DEF StorageInv, OpSound, Freeing, Idle
  <1>7. ValuesOwned'
    BY <1>b, <1>c DEF StorageInv, ValuesOwned, Freeing
  <1>8. NotStarted'
    <2>1. phase[t] = "running"
      BY DEF StorageInv, OpSound, Idle
    <2> QED BY <2>1 DEF StorageInv, StorageType, NotStarted
  <1>9. Passed'
    BY <1>b, SlotFacts DEF StorageInv, StorageType, Passed
  <1>10. RightCallback'
    BY <1>a DEF StorageInv, RightCallback
  <1> QED BY <1>1, <1>2, <1>3, <1>4, <1>5, <1>6, <1>7, <1>8, <1>9, <1>10 DEF StorageInv

(* shim_thread_exit starts at the first slot. *)
LEMMA InvExitThread ==
  ASSUME StorageInv, ~SharedFree, ~NullCallbacks, NEW t \in Threads, ExitThread(t)
  PROVE  StorageInv'
  <1> USE StorageAssumption DEF ExitThread, Running
  <1>1. StorageType'
    BY SlotFacts DEF StorageInv, StorageType, Idle
  <1>2. CallbacksAgree'
    BY SlotFacts DEF StorageInv, StorageType, CallbacksAgree
  <1>3. Held'
    BY SlotFacts DEF StorageInv, StorageType, Held
  <1>4. StaticHeld'
    BY SlotFacts DEF StorageInv, StorageType, StaticHeld
  <1>5. BitClaimed'
    BY SlotFacts DEF StorageInv, StorageType, BitClaimed, OpSound, Held, HoldsBit, Idle
  <1>6. OpSound'
    BY SlotFacts DEF StorageInv, StorageType, OpSound, Freeing, Idle
  <1>7. ValuesOwned'
    BY SlotFacts DEF StorageInv, StorageType, ValuesOwned, Freeing, Idle
  <1>8. NotStarted'
    BY SlotFacts DEF StorageInv, StorageType, NotStarted, OpSound, Idle
  <1>9. Passed'
    BY SlotFacts DEF StorageInv, StorageType, Passed
  <1>10. RightCallback'
    BY SlotFacts DEF StorageInv, RightCallback
  <1> QED BY <1>1, <1>2, <1>3, <1>4, <1>5, <1>6, <1>7, <1>8, <1>9, <1>10 DEF StorageInv

(* A slot it passes holds no value of FlsAlloc: such a value still has the *)
(* callback of its own allocation, since nobody could free the index. *)
LEMMA InvExitSlot ==
  ASSUME StorageInv, ~SharedFree, ~NullCallbacks, NEW t \in Threads, ExitSlot(t)
  PROVE  StorageInv'
  <1> USE StorageAssumption DEF ExitSlot, CallFor, CallbackAt, LastExitSlot
  <1> DEFINE k == exitAt[t]
  <1>a. k \in Slots /\ op[t] = Idle
    BY SlotFacts DEF StorageInv, StorageType, OpSound, Slots
  <1>b. slots[t][k] \in fls => slots[t][k] = owner[k] /\ cbs[k] = owner[k]
    BY <1>a, SlotFacts DEF StorageInv, StorageType, CallbacksAgree, ValuesOwned, Freeing, Idle
  <1>c. /\ slots' \in [Threads -> [Slots -> Nat \cup {Block}]]
        /\ \A u \in Threads, j \in Slots : u # t \/ j # k => slots'[u][j] = slots[u][j]
        /\ slots'[t][k] \in {Null, slots[t][k]}
    <2>1. slots' = [slots EXCEPT ![t][k] = Null] \/ slots' = slots
      OBVIOUS
    <2> HIDE DEF ExitSlot, k
    <2>2. slots' \in [Threads -> [Slots -> Nat \cup {Block}]]
      <3>1. slots \in [Threads -> [Slots -> Nat \cup {Block}]]
        BY DEF StorageInv, StorageType
      <3>2. [slots EXCEPT ![t][k] = Null] \in [Threads -> [Slots -> Nat \cup {Block}]]
        BY <1>a, SlotFacts, SlotWritten DEF StorageInv
      <3> QED BY <2>1, <3>1, <3>2
    <2>3. ASSUME NEW u \in Threads, NEW j \in Slots, u # t \/ j # k PROVE slots'[u][j] = slots[u][j]
      BY <1>a, <2>1, <2>3 DEF StorageInv, StorageType
    <2>4. slots'[t][k] \in {Null, slots[t][k]}
      BY <1>a, <2>1 DEF StorageInv, StorageType
    <2> QED BY <2>2, <2>3, <2>4
  <1>e. slots'[t][k] \notin fls
    <2>1. CASE CallFor(slots[t][k], cbs[k])
      <3>1. slots'[t][k] = Null
        BY <1>a, <2>1 DEF StorageInv, StorageType
      <3> QED BY <3>1, SlotFacts DEF StorageInv, StorageType
    <2>2. CASE ~CallFor(slots[t][k], cbs[k])
      <3>1. slots'[t][k] = slots[t][k] /\ (slots[t][k] = Null \/ cbs[k] = Null)
        BY <2>2
      <3> QED BY <3>1, <1>b, SlotFacts DEF StorageInv, StorageType
    <2> QED BY <2>1, <2>2
  <1>d. exitAt' \in [Threads -> Nat] /\ exitAt'[t] = k + 1 /\ \A u \in Threads \ {t} : exitAt'[u] = exitAt[u]
    BY <1>a DEF StorageInv, StorageType
  <1>1. StorageType'
    BY <1>c, <1>d DEF StorageInv, StorageType
  <1>2. CallbacksAgree'
    BY SlotFacts DEF StorageInv, StorageType, CallbacksAgree
  <1>3. Held'
    BY SlotFacts DEF StorageInv, StorageType, Held
  <1>4. StaticHeld'
    BY SlotFacts DEF StorageInv, StorageType, StaticHeld
  <1>5. BitClaimed'
    BY SlotFacts DEF StorageInv, StorageType, BitClaimed, OpSound, Held, HoldsBit, Idle
  <1>6. OpSound'
    BY <1>a, <1>c DEF StorageInv, OpSound, Freeing, Idle
  <1>7. ValuesOwned'
    BY <1>a, <1>c DEF StorageInv, ValuesOwned, Freeing, Idle
  <1>8. NotStarted'
    BY DEF StorageInv, StorageType, NotStarted
  <1>9. Passed'
    <2> SUFFICES ASSUME NEW u \in Threads, NEW j \in Slots, phase[u] = "exiting", j < exitAt'[u]
                 PROVE  slots'[u][j] \notin fls
      BY DEF Passed
    <2>1. CASE u = t /\ j = k
      BY <2>1, <1>e
    <2>2. CASE u # t \/ j # k
      <3>1. slots'[u][j] = slots[u][j]
        BY <2>2, <1>c
      <3>2. j < exitAt[u]
        BY <2>2, <1>a, <1>d, SlotFacts
      <3> QED BY <3>1, <3>2 DEF StorageInv, Passed
    <2> QED BY <2>1, <2>2
  <1>10. RightCallback'
    <2>1. CallFor(slots[t][k], cbs[k]) => slots[t][k] = cbs[k]
      BY <1>a, SlotFacts DEF StorageInv, StorageType, CallbacksAgree, ValuesOwned, Held, Freeing, Idle
    <2> QED BY <2>1 DEF StorageInv, RightCallback
  <1> QED BY <1>1, <1>2, <1>3, <1>4, <1>5, <1>6, <1>7, <1>8, <1>9, <1>10 DEF StorageInv

(* A thread that is gone has no values. *)
LEMMA InvFreeSlots ==
  ASSUME StorageInv, ~SharedFree, ~NullCallbacks, NEW t \in Threads, FreeSlots(t)
  PROVE  StorageInv'
  <1> USE StorageAssumption DEF FreeSlots
  <1>1. StorageType'
    BY SlotFacts DEF StorageInv, StorageType, Idle
  <1>2. CallbacksAgree'
    BY SlotFacts DEF StorageInv, StorageType, CallbacksAgree
  <1>3. Held'
    BY SlotFacts DEF StorageInv, StorageType, Held
  <1>4. StaticHeld'
    BY SlotFacts DEF StorageInv, StorageType, StaticHeld
  <1>5. BitClaimed'
    BY SlotFacts DEF StorageInv, StorageType, BitClaimed, OpSound, Held, HoldsBit, Idle
  <1>6. OpSound'
    BY SlotFacts DEF StorageInv, StorageType, OpSound, Freeing, Idle
  <1>7. ValuesOwned'
    BY SlotFacts DEF StorageInv, StorageType, ValuesOwned, Freeing, Idle
  <1>8. NotStarted'
    BY SlotFacts DEF StorageInv, StorageType, NotStarted, OpSound, Idle
  <1>9. Passed'
    BY SlotFacts DEF StorageInv, StorageType, Passed
  <1>10. RightCallback'
    BY SlotFacts DEF StorageInv, RightCallback
  <1> QED BY <1>1, <1>2, <1>3, <1>4, <1>5, <1>6, <1>7, <1>8, <1>9, <1>10 DEF StorageInv

(* A step of the system keeps the invariant. *)
LEMMA InvStep == StorageInv /\ ~SharedFree /\ ~NullCallbacks /\ [Next]_vars => StorageInv'
  <1> SUFFICES ASSUME StorageInv, ~SharedFree, ~NullCallbacks, [Next]_vars PROVE StorageInv'
    OBVIOUS
  <1>1. CASE UNCHANGED vars
    BY <1>1 DEF vars, StorageInv, StorageType, CallbacksAgree, Held, StaticHeld, BitClaimed, OpSound, ValuesOwned,
        NotStarted, Passed, RightCallback, HoldsBit, Freeing
  <1>2. CASE Register
    BY <1>2, InvRegister
  <1>3. ASSUME NEW t \in Threads, CreateThread(t) \/ Attach(t) \/ TlsAlloc(t) \/ FlsAllocCallback(t)
        PROVE  StorageInv'
    BY <1>3, InvCreateThread, InvAttach, InvTlsAlloc, InvFlsAllocCallback
  <1>4. ASSUME NEW t \in Threads, NEW b \in BOOLEAN, FlsAlloc(t, b)
        PROVE  StorageInv'
    BY <1>4, InvFlsAlloc
  <1>5. ASSUME NEW t \in Threads, NEW i \in Slots, TlsFree(t, i) \/ FlsFree(t, i) \/ SetValue(t, i)
        PROVE  StorageInv'
    BY <1>5, InvTlsFree, InvFlsFree, InvSetValue
  <1>6. ASSUME NEW t \in Threads, FlsFreeRelease(t) \/ FlsFreeCall(t) \/ ExitThread(t) \/ ExitSlot(t) \/ FreeSlots(t)
        PROVE  StorageInv'
    BY <1>6, InvFlsFreeRelease, InvFlsFreeCall, InvExitThread, InvExitSlot, InvFreeSlots
  <1> QED BY <1>1, <1>2, <1>3, <1>4, <1>5, <1>6 DEF Next

-----------------------------------------------------------------------------
(* The properties.                                                         *)

(* What the program has to keep to: it frees an index only when no other   *)
(* thread has a value in it, and gives FlsAlloc a callback.                *)
Discipline == ~SharedFree /\ ~NullCallbacks

(* The invariant holds in every state of every behaviour of such a program. *)
THEOREM StorageInvariant == Discipline /\ Spec => []StorageInv
  <1> SUFFICES ASSUME Discipline PROVE Spec => []StorageInv
    OBVIOUS
  <1>1. StorageInv /\ [Next]_vars => StorageInv'
    BY InvStep DEF Discipline
  <1> QED BY <1>1, InvInit, PTL DEF Spec

(* A thread never finds in its slot what a former owner of the index       *)
(* stored: TlsFree and FlsFree leave nothing of a freed index, also when   *)
(* the index is taken again before FlsFree has run its callback.           *)
THEOREM NoStaleValueHolds == Discipline /\ Spec => []NoStaleValue
  <1>1. StorageInv => NoStaleValue
    BY DEF StorageInv, OpSound, Held, ValuesOwned, NoStaleValue, Running, Freeing, Idle
  <1> QED BY <1>1, StorageInvariant, PTL

(* FlsFree and shim_thread_exit run a callback only for values stored      *)
(* under the allocation that set it.                                       *)
THEOREM RightCallbackHolds == Discipline /\ Spec => []RightCallback
  <1>1. StorageInv => RightCallback
    BY DEF StorageInv
  <1> QED BY <1>1, StorageInvariant, PTL

(* shim_thread_exit frees the array of a thread only when every value      *)
(* stored under FlsAlloc has had its callback.                             *)
THEOREM ReleasedAtExitHolds == Discipline /\ Spec => ReleasedAtExit
  <1>1. StorageInv /\ [Next]_vars =>
          [\A t \in Threads : phase[t] = "exiting" /\ phase'[t] = "gone" =>
             \A i \in Slots : slots[t][i] \notin fls]_vars
    <2> SUFFICES ASSUME StorageInv, Next, NEW t \in Threads, phase[t] = "exiting", phase'[t] = "gone", NEW i \in Slots
                 PROVE  slots[t][i] \notin fls
      OBVIOUS
    <2>1. FreeSlots(t)
      BY SlotFacts DEF Next, StorageInv, StorageType, Register, CreateThread, Attach, TlsAlloc, FlsAlloc, FlsAllocCallback,
          TlsFree, FlsFree, SetValue, FlsFreeRelease, FlsFreeCall, ExitThread, ExitSlot, FreeSlots
    <2>2. i < exitAt[t]
      BY <2>1, StorageAssumption DEF FreeSlots, LastExitSlot, Slots, StorageInv, StorageType
    <2> QED BY <2>2 DEF StorageInv, Passed
  <1> QED BY <1>1, StorageInvariant, PTL DEF Spec, ReleasedAtExit
=============================================================================
