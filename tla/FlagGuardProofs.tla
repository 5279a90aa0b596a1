--------------------------- MODULE FlagGuardProofs ---------------------------
(***************************************************************************)
(* Proofs about the guards of module FlagGuard: a flag is set exactly when *)
(* one guard holds it, for any number of threads, guards and flags and     *)
(* every sequence of locks, rebinds and moves.                             *)
(*                                                                         *)
(* OneHolder counts holders; what a step preserves is that two holders of  *)
(* a flag are the same guard.  Lock needs to know that a guard that spins  *)
(* has a flag, and Construct that a place where no guard lives holds       *)
(* nothing.                                                                *)
(***************************************************************************)
EXTENDS FlagGuard, FiniteSetTheorems, TLAPS

Pointer == Flags \cup {nullptr}
GuardRecord == [alive : BOOLEAN, flag_ptr : Pointer, flag_locked : BOOLEAN]

\* What a guard that thinks it holds a lock is entitled to: it lives, it has
\* a flag, and the flag is set.
HoldsSoundly(g) ==
    guard[g].flag_locked =>
        /\ guard[g].alive
        /\ guard[g].flag_ptr \in Flags
        /\ flag[guard[g].flag_ptr]

\* Two guards that hold one flag are the same guard.
NoSharedHold ==
    \A g, h \in Guards :
        /\ guard[g].flag_locked /\ guard[h].flag_locked
        /\ guard[g].flag_ptr = guard[h].flag_ptr
        => g = h

\* A flag that is set was set by a guard that still holds it.
SetFlagsHeld ==
    \A f \in Flags : flag[f] =>
        \E g \in Guards : guard[g].flag_locked /\ guard[g].flag_ptr = f

\* A guard that spins lives and has a flag.
SpinnersBound ==
    \A g \in locking : guard[g].alive /\ guard[g].flag_ptr \in Flags

GuardInv ==
    /\ GuardTypeOK
    /\ \A g \in Guards : HoldsSoundly(g)
    /\ NoSharedHold
    /\ SetFlagsHeld
    /\ SpinnersBound
-----------------------------------------------------------------------------
(***************************************************************************)
(* What an operation of one guard leaves alone.                            *)
(***************************************************************************)
\* The type invariant in the shapes the steps below use
LEMMA GuardTypes ==
    ASSUME GuardTypeOK
    PROVE  /\ flag \in [Flags -> BOOLEAN]
           /\ guard \in [Guards -> GuardRecord]
           /\ locking \subseteq Guards
           /\ \A g, h \in locking : Owner[g] = Owner[h] => g = h
  BY DEF GuardTypeOK, GuardRecord, Pointer

\* unlock leaves the guard its flag and its life and takes its lock.
LEMMA UnlockedTypes ==
    ASSUME GuardTypeOK, NEW g \in Guards, HoldsSoundly(g)
    PROVE  /\ UnlockedGuard(g) \in GuardRecord
           /\ ~UnlockedGuard(g).flag_locked
           /\ UnlockedGuard(g).alive = guard[g].alive
           /\ UnlockedGuard(g).flag_ptr = guard[g].flag_ptr
           /\ UnlockedFlags(g) \in [Flags -> BOOLEAN]
  BY GuardTypes, NullAssumption
     DEF UnlockedGuard, UnlockedFlags, GuardRecord, Pointer, HoldsSoundly

\* unlock clears the flag that the guard holds and no other.
LEMMA UnlockedClears ==
    ASSUME GuardTypeOK, NEW g \in Guards, HoldsSoundly(g), NEW f \in Flags
    PROVE  UnlockedFlags(g)[f]
             = (flag[f] /\ ~(guard[g].flag_locked /\ guard[g].flag_ptr = f))
<1>1. CASE guard[g].flag_locked /\ guard[g].flag_ptr # nullptr
  <2>1. UnlockedFlags(g) = [flag EXCEPT ![guard[g].flag_ptr] = FALSE]
    BY <1>1 DEF UnlockedFlags
  <2>. QED
    BY <1>1, <2>1, GuardTypes
<1>2. CASE ~(guard[g].flag_locked /\ guard[g].flag_ptr # nullptr)
  <2>1. UnlockedFlags(g) = flag /\ flag[f] \in BOOLEAN
    BY <1>2, GuardTypes DEF UnlockedFlags
  <2>2. ~(guard[g].flag_locked /\ guard[g].flag_ptr = f)
    BY <1>2, NullAssumption
  <2>. QED
    BY <2>1, <2>2
<1>. QED
  BY <1>1, <1>2

(***************************************************************************)
(* The operations that unlock a guard and put another record in its place: *)
(* unlock, rebind, the destructor and, on the side of its target, the move *)
(* of a guard to itself.                                                   *)
(***************************************************************************)
LEMMA UnlockingStep ==
    ASSUME GuardInv, NEW g \in Guards, Alive(g),
           NEW r \in GuardRecord, ~r.flag_locked,
           flag' = UnlockedFlags(g),
           guard' = [guard EXCEPT ![g] = r],
           UNCHANGED locking
    PROVE  GuardInv'
<1> USE DEF GuardInv
<1>. DEFINE H(k, f) == guard[k].flag_locked /\ guard[k].flag_ptr = f
<1>1. /\ HoldsSoundly(g)
      /\ flag' \in [Flags -> BOOLEAN]
      /\ \A f \in Flags : flag'[f] = (flag[f] /\ ~H(g, f))
  BY UnlockedTypes, UnlockedClears
<1>2. /\ guard' \in [Guards -> GuardRecord]
      /\ guard'[g] = r
      /\ \A k \in Guards \ {g} : guard'[k] = guard[k]
  BY GuardTypes
<1>3. g \notin locking
  BY DEF Alive, Free
<1>4. GuardTypeOK'
  BY <1>1, <1>2, GuardTypes DEF GuardTypeOK, GuardRecord, Pointer
<1>5. ASSUME NEW k \in Guards
      PROVE  HoldsSoundly(k)'
  <2>1. CASE k = g
    BY <2>1, <1>2 DEF HoldsSoundly
  <2>2. CASE k # g /\ guard[k].flag_locked
    <3>1. /\ guard[k].alive
          /\ guard[k].flag_ptr \in Flags
          /\ flag[guard[k].flag_ptr]
      BY <2>2 DEF HoldsSoundly
    <3>2. ~H(g, guard[k].flag_ptr)
      BY <2>2 DEF NoSharedHold
    <3>. QED
      BY <1>1, <1>2, <2>2, <3>1, <3>2 DEF HoldsSoundly
  <2>3. CASE k # g /\ ~guard[k].flag_locked
    BY <1>2, <2>3 DEF HoldsSoundly
  <2>. QED
    BY <2>1, <2>2, <2>3
<1>6. NoSharedHold'
  BY <1>2 DEF NoSharedHold
<1>7. SetFlagsHeld'
  BY <1>1, <1>2 DEF SetFlagsHeld
<1>8. SpinnersBound'
  BY <1>2, <1>3, GuardTypes DEF SpinnersBound
<1>. QED
  BY <1>4, <1>5, <1>6, <1>7, <1>8
-----------------------------------------------------------------------------
(***************************************************************************)
(* Every step keeps the invariant.                                         *)
(***************************************************************************)
\* The records that the operations put in a guard's place
LEMMA NewRecords ==
    ASSUME NEW f \in Pointer
    PROVE  /\ Bound(f) \in GuardRecord /\ MovedFrom \in GuardRecord
           /\ Unborn \in GuardRecord
           /\ ~Bound(f).flag_locked /\ ~MovedFrom.flag_locked
           /\ ~Unborn.flag_locked /\ ~Unborn.alive
  BY DEF Bound, MovedFrom, Unborn, GuardRecord, Pointer

LEMMA GuardInit == Init => GuardInv
<1> SUFFICES ASSUME Init PROVE GuardInv
  OBVIOUS
<1>1. /\ flag \in [Flags -> BOOLEAN]
      /\ guard \in [Guards -> GuardRecord]
  BY NewRecords DEF Init, Pointer
<1>2. \A f \in Flags : ~flag[f]
  BY DEF Init
<1>3. \A g \in Guards : ~guard[g].flag_locked
  BY NewRecords DEF Init, Pointer
<1>. QED
  BY <1>1, <1>2, <1>3
     DEF Init, GuardInv, GuardTypeOK, GuardRecord, Pointer, HoldsSoundly,
         NoSharedHold, SetFlagsHeld, SpinnersBound

LEMMA ConstructStep ==
    ASSUME GuardInv, NEW g \in Guards, Construct(g)
    PROVE  GuardInv'
<1> USE DEF GuardInv
<1>1. PICK f \in Pointer : guard' = [guard EXCEPT ![g] = Bound(f)]
  BY DEF Construct, Pointer
<1>2. ~guard[g].alive /\ ~guard[g].flag_locked /\ g \notin locking
  BY DEF Construct, HoldsSoundly, SpinnersBound
<1>3. /\ guard' \in [Guards -> GuardRecord]
      /\ ~guard'[g].flag_locked
      /\ \A k \in Guards \ {g} : guard'[k] = guard[k]
  BY <1>1, GuardTypes, NewRecords
<1>4. flag' = flag /\ locking' = locking
  BY DEF Construct
<1>5. GuardTypeOK'
  BY <1>3, <1>4, GuardTypes DEF GuardTypeOK, GuardRecord, Pointer
<1>6. \A k \in Guards : HoldsSoundly(k)'
  BY <1>3, <1>4 DEF HoldsSoundly
<1>7. NoSharedHold' /\ SetFlagsHeld'
  BY <1>2, <1>3, <1>4 DEF NoSharedHold, SetFlagsHeld
<1>8. SpinnersBound'
  BY <1>2, <1>3, <1>4, GuardTypes DEF SpinnersBound
<1>. QED
  BY <1>5, <1>6, <1>7, <1>8

LEMMA CallLockStep ==
    ASSUME GuardInv, NEW g \in Guards, CallLock(g)
    PROVE  GuardInv'
<1> USE DEF GuardInv
<1>1. flag' = flag /\ guard' = guard /\ locking' = locking \cup {g}
  BY DEF CallLock
<1>2. guard[g].alive /\ guard[g].flag_ptr \in Flags
  BY GuardTypes DEF CallLock, Alive, GuardRecord, Pointer
<1>3. \A h \in locking : Owner[h] # Owner[g]
  BY DEF CallLock, Alive, Free
<1>4. GuardTypeOK'
  BY <1>1, <1>3 DEF GuardTypeOK
<1>5. \A k \in Guards : HoldsSoundly(k)'
  BY <1>1 DEF HoldsSoundly
<1>6. NoSharedHold' /\ SetFlagsHeld' /\ SpinnersBound'
  BY <1>1, <1>2 DEF NoSharedHold, SetFlagsHeld, SpinnersBound
<1>. QED
  BY <1>4, <1>5, <1>6

LEMMA AcquireStep ==
    ASSUME GuardInv, NEW g \in Guards, Acquire(g)
    PROVE  GuardInv'
<1> USE DEF GuardInv
<1>. DEFINE f == guard[g].flag_ptr
<1>1. g \in locking /\ f \in Flags /\ guard[g].alive /\ ~flag[f]
  BY DEF Acquire, SpinnersBound
<1>2. /\ flag' \in [Flags -> BOOLEAN]
      /\ flag'[f]
      /\ \A e \in Flags \ {f} : flag'[e] = flag[e]
  BY <1>1, GuardTypes DEF Acquire
<1>3. /\ guard' = [guard EXCEPT ![g] = [guard[g] EXCEPT !.flag_locked = TRUE]]
      /\ locking' = locking \ {g}
  BY DEF Acquire
<1>4. /\ guard' \in [Guards -> GuardRecord]
      /\ guard'[g].flag_locked /\ guard'[g].alive /\ guard'[g].flag_ptr = f
      /\ \A k \in Guards \ {g} : guard'[k] = guard[k]
  BY <1>1, <1>3, GuardTypes DEF GuardRecord
<1>5. /\ ~guard[g].flag_locked
      /\ \A k \in Guards : ~(guard[k].flag_locked /\ guard[k].flag_ptr = f)
  BY <1>1 DEF HoldsSoundly
<1>. HIDE DEF f
<1>6. GuardTypeOK'
  BY <1>2, <1>3, <1>4, GuardTypes DEF GuardTypeOK, GuardRecord, Pointer
<1>7. ASSUME NEW k \in Guards
      PROVE  HoldsSoundly(k)'
  <2>1. CASE k = g
    BY <2>1, <1>1, <1>2, <1>4 DEF HoldsSoundly
  <2>2. CASE k # g
    BY <2>2, <1>2, <1>4 DEF HoldsSoundly
  <2>. QED
    BY <2>1, <2>2
<1>8. NoSharedHold'
  BY <1>4, <1>5 DEF NoSharedHold
<1>9. SetFlagsHeld'
  BY <1>2, <1>4, <1>5 DEF SetFlagsHeld
<1>10. SpinnersBound'
  BY <1>3, <1>4, GuardTypes DEF SpinnersBound
<1>. QED
  BY <1>6, <1>7, <1>8, <1>9, <1>10

(***************************************************************************)
(* A move: the record of h goes to g, which held nothing any more, and h   *)
(* is left without a flag.                                                 *)
(***************************************************************************)
LEMMA HandOver ==
    ASSUME GuardInv, NEW g \in Guards, NEW h \in Guards, g # h,
           Alive(h), g \notin locking,
           flag' = UnlockedFlags(g),
           guard' = [guard EXCEPT ![g] = guard[h], ![h] = MovedFrom],
           UNCHANGED locking
    PROVE  GuardInv'
<1> USE DEF GuardInv
<1>. DEFINE H(k, f) == guard[k].flag_locked /\ guard[k].flag_ptr = f
<1>1. /\ HoldsSoundly(g)
      /\ flag' \in [Flags -> BOOLEAN]
      /\ \A f \in Flags : flag'[f] = (flag[f] /\ ~H(g, f))
  BY UnlockedTypes, UnlockedClears
<1>2. /\ guard' \in [Guards -> GuardRecord]
      /\ guard'[g] = guard[h] /\ guard'[h] = MovedFrom
      /\ \A k \in Guards \ {g, h} : guard'[k] = guard[k]
  BY GuardTypes, NewRecords DEF Pointer
<1>3. h \notin locking /\ ~MovedFrom.flag_locked
  BY NewRecords DEF Alive, Free, Pointer
<1>4. GuardTypeOK'
  BY <1>1, <1>2, GuardTypes DEF GuardTypeOK, GuardRecord, Pointer
<1>5. ASSUME NEW k \in Guards, k # g, guard[k].flag_locked
      PROVE  /\ guard[k].alive
             /\ guard[k].flag_ptr \in Flags
             /\ flag'[guard[k].flag_ptr]
  <2>1. /\ guard[k].alive
        /\ guard[k].flag_ptr \in Flags
        /\ flag[guard[k].flag_ptr]
    BY <1>5 DEF HoldsSoundly
  <2>2. ~H(g, guard[k].flag_ptr)
    BY <1>5 DEF NoSharedHold
  <2>. QED
    BY <1>1, <2>1, <2>2
<1>6. ASSUME NEW k \in Guards
      PROVE  HoldsSoundly(k)'
  <2>1. CASE k = g
    BY <2>1, <1>2, <1>5 DEF HoldsSoundly
  <2>2. CASE k = h
    BY <2>2, <1>2, <1>3 DEF HoldsSoundly
  <2>3. CASE k # g /\ k # h
    BY <2>3, <1>2, <1>5 DEF HoldsSoundly
  <2>. QED
    BY <2>1, <2>2, <2>3
<1>7. NoSharedHold'
  BY <1>2, <1>3 DEF NoSharedHold
<1>8. ASSUME NEW f \in Flags, flag'[f]
      PROVE  \E k \in Guards : guard'[k].flag_locked /\ guard'[k].flag_ptr = f
  <2>1. PICK k \in Guards : H(k, f)
    BY <1>1, <1>8 DEF SetFlagsHeld
  <2>2. k # g
    BY <1>1, <1>8, <2>1
  <2>. QED
    BY <1>2, <2>1, <2>2
<1>9. SetFlagsHeld'
  BY <1>8 DEF SetFlagsHeld
<1>10. SpinnersBound'
  BY <1>2, <1>3, GuardTypes DEF SpinnersBound
<1>. QED
  BY <1>4, <1>6, <1>7, <1>9, <1>10

LEMMA MoveConstructStep ==
    ASSUME GuardInv, NEW g \in Guards, NEW h \in Guards, MoveConstruct(g, h)
    PROVE  GuardInv'
<1>1. ~guard[g].alive /\ guard[h].alive
  BY DEF MoveConstruct, Alive
<1>2. ~guard[g].flag_locked /\ g \notin locking
  BY <1>1 DEF GuardInv, HoldsSoundly, SpinnersBound
<1>3. flag' = UnlockedFlags(g)
  BY <1>2 DEF MoveConstruct, UnlockedFlags
<1>. QED
  BY <1>1, <1>2, <1>3, HandOver DEF MoveConstruct

LEMMA MoveAssignStep ==
    ASSUME GuardInv, NEW g \in Guards, NEW h \in Guards, MoveAssign(g, h)
    PROVE  GuardInv'
<1>1. CASE g # h
  <2>1. guard' = [guard EXCEPT ![g] = guard[h], ![h] = MovedFrom]
    BY <1>1 DEF MoveAssign
  <2>2. g \notin locking
    BY DEF MoveAssign, Alive, Free
  <2>. QED
    BY <1>1, <2>1, <2>2, HandOver DEF MoveAssign
<1>2. CASE g = h
  <2>1. guard' = [guard EXCEPT ![g] = MovedFrom]
    BY <1>2, GuardTypes DEF MoveAssign, GuardInv
  <2>2. MovedFrom \in GuardRecord /\ ~MovedFrom.flag_locked
    BY NewRecords DEF Pointer
  <2>. QED
    BY <2>1, <2>2, UnlockingStep DEF MoveAssign
<1>. QED
  BY <1>1, <1>2

LEMMA GuardStep == GuardInv /\ [Next]_vars => GuardInv'
<1> SUFFICES ASSUME GuardInv, [Next]_vars PROVE GuardInv'
  OBVIOUS
<1>1. ASSUME NEW g \in Guards, Unlock(g)
      PROVE  GuardInv'
  BY <1>1, UnlockedTypes, UnlockingStep DEF Unlock, GuardInv
<1>2. ASSUME NEW g \in Guards, Rebind(g)
      PROVE  GuardInv'
  <2>1. PICK f \in Pointer :
          guard' = [guard EXCEPT ![g] = [UnlockedGuard(g) EXCEPT !.flag_ptr = f]]
    BY <1>2 DEF Rebind, Pointer
  <2>2. /\ UnlockedGuard(g) \in GuardRecord
        /\ ~UnlockedGuard(g).flag_locked
    BY UnlockedTypes DEF GuardInv
  <2>3. /\ [UnlockedGuard(g) EXCEPT !.flag_ptr = f] \in GuardRecord
        /\ ~[UnlockedGuard(g) EXCEPT !.flag_ptr = f].flag_locked
    BY <2>2 DEF GuardRecord
  <2>. QED
    BY <1>2, <2>1, <2>3, UnlockingStep DEF Rebind
<1>3. ASSUME NEW g \in Guards, Destroy(g)
      PROVE  GuardInv'
  BY <1>3, NewRecords, UnlockingStep DEF Destroy, Pointer
<1>4. CASE UNCHANGED vars
  BY <1>4
     DEF vars, GuardInv, GuardTypeOK, HoldsSoundly, NoSharedHold,
         SetFlagsHeld, SpinnersBound
<1>. QED
  BY <1>1, <1>2, <1>3, <1>4, ConstructStep, CallLockStep, AcquireStep,
     MoveConstructStep, MoveAssignStep DEF Next

\* The inductive invariant holds in every state that guards can reach.
THEOREM GuardsSound == Spec => []GuardInv
  BY GuardInit, GuardStep, PTL DEF Spec
-----------------------------------------------------------------------------
(***************************************************************************)
(* What follows from it.                                                   *)
(***************************************************************************)
\* A guard has a pointer and two switches, and a thread is inside one call
\* of lock at most, whatever the guards are moved to meanwhile
\* (Guards.hpp:32-45).
THEOREM GuardsTyped == Spec => []GuardTypeOK
  BY GuardsSound, PTL DEF GuardInv

\* A flag is set exactly when one guard, and not a second one, holds it, and
\* no guard holds a lock without a flag: for every number of threads, guards
\* and flags and every order of their operations (Guards.hpp:39-91).
THEOREM HeldByOne == Spec => []OneHolder
<1>1. ASSUME GuardInv PROVE OneHolder
  <2> USE <1>1 DEF GuardInv
  <2>1. ASSUME NEW f \in Flags
        PROVE  Cardinality(Holders(f)) = IF flag[f] THEN 1 ELSE 0
    <3>1. CASE flag[f]
      <4>1. PICK g \in Guards : guard[g].flag_locked /\ guard[g].flag_ptr = f
        BY <3>1 DEF SetFlagsHeld
      <4>2. Holders(f) = {g}
        BY <4>1 DEF NoSharedHold, Holders
      <4>. QED
        BY <3>1, <4>2, FS_Singleton
    <3>2. CASE ~flag[f]
      <4>1. Holders(f) = {}
        BY <3>2 DEF HoldsSoundly, Holders
      <4>. QED
        BY <3>2, <4>1, FS_EmptySet
    <3>. QED
      BY <3>1, <3>2
  <2>2. Holders(nullptr) = {}
    BY NullAssumption DEF HoldsSoundly, Holders
  <2>. QED
    BY <2>1, <2>2 DEF OneHolder
<1>. QED
  BY <1>1, GuardsSound, PTL

\* A flag that one guard hands to another stays set, and the guard it was
\* handed to is the only one that holds it (Guards.hpp:78-91).
THEOREM MovesKeepTheFlag == Spec => MoveKeepsFlag
<1>1. ASSUME GuardInv, NEW f \in Flags, NEW h \in Holders(f),
             NEW g \in Guards \ {h}, MoveAssign(g, h) \/ MoveConstruct(g, h)
      PROVE  flag'[f] /\ Holders(f)' = {g}
  <2> USE <1>1 DEF GuardInv
  <2>1. h \in Guards /\ guard[h].flag_locked /\ guard[h].flag_ptr = f
    BY DEF Holders
  <2>2. GuardInv'
    BY <2>1, MoveAssignStep, MoveConstructStep
  <2>3. guard' = [guard EXCEPT ![g] = guard[h], ![h] = MovedFrom]
    BY DEF MoveAssign, MoveConstruct
  <2>4. guard'[g] = guard[h]
    BY <2>1, <2>3, GuardTypes
  <2>5. flag'[f]
    BY <2>1, <2>2, <2>4 DEF HoldsSoundly
  <2>6. Holders(f)' = {g}
    BY <2>1, <2>2, <2>4 DEF NoSharedHold, Holders
  <2>. QED
    BY <2>5, <2>6
<1>2. ASSUME GuardInv, UNCHANGED vars, NEW f \in Flags, NEW h \in Holders(f),
             NEW g \in Guards \ {h}, MoveAssign(g, h) \/ MoveConstruct(g, h)
      PROVE  flag'[f] /\ Holders(f)' = {g}
  BY <1>1, <1>2
<1>3. GuardInv /\ [Next]_vars =>
        [\A f \in Flags : \A h \in Holders(f) : \A g \in Guards \ {h} :
           MoveAssign(g, h) \/ MoveConstruct(g, h) =>
             flag'[f] /\ Holders(f)' = {g}]_vars
  BY <1>1
<1>. QED
  BY <1>3, GuardsSound, PTL DEF MoveKeepsFlag, Spec

\* A circular wait lasts: no step of any thread ends it (Guards.hpp:39-91).
THEOREM DeadlocksLast == Spec => DeadlockLasts
<1>1. ASSUME GuardInv, Next, NEW S \in SUBSET Guards, Deadlocked(S)
      PROVE  Deadlocked(S)'
  <2> DEFINE Caught(h) == \E k \in S : Owner[h] = Owner[k]
  <2>1. \A g \in S :
          /\ g \in locking
          /\ \E h \in Guards \ {g} : /\ guard[h].flag_locked
                                     /\ guard[h].flag_ptr = guard[g].flag_ptr
                                     /\ Caught(h)
    BY <1>1 DEF Deadlocked, Holders
  <2>2. \A g \in S : g \in Guards /\ Caught(g)
    OBVIOUS
  <2>3. SUFFICES /\ \A g \in S : g \in locking'
                 /\ \A h \in Guards : Caught(h) => guard'[h] = guard[h]
    <3>1. ASSUME NEW g \in S
          PROVE  \E h \in Guards \ {g} : /\ guard'[h].flag_locked
                                         /\ guard'[h].flag_ptr = guard'[g].flag_ptr
                                         /\ Caught(h)
      <4>1. PICK h \in Guards \ {g} : /\ guard[h].flag_locked
                                     /\ guard[h].flag_ptr = guard[g].flag_ptr
                                     /\ Caught(h)
        BY <2>1
      <4>2. guard'[h] = guard[h] /\ guard'[g] = guard[g]
        BY <2>2, <2>3, <4>1
      <4> QED
        BY <4>1, <4>2
    <3> QED
      BY <1>1, <2>3, <3>1 DEF Deadlocked, Holders
  <2>4. ASSUME NEW k \in Guards, Free(k)
        PROVE  ~Caught(k)
    BY <2>1, <2>4 DEF Free
  <2>5. ASSUME NEW k \in Guards, Acquire(k)
        PROVE  ~Caught(k)
    <3> SUFFICES ASSUME NEW j \in S, Owner[k] = Owner[j] PROVE FALSE
      OBVIOUS
    <3>1. k = j
      BY <1>1, <2>1, <2>5, GuardTypes DEF Acquire, GuardInv
    <3>2. PICK h \in Guards : /\ guard[h].flag_locked
                             /\ guard[h].flag_ptr = guard[k].flag_ptr
      BY <2>1, <3>1
    <3>3. flag[guard[k].flag_ptr]
      BY <1>1, <3>2 DEF GuardInv, HoldsSoundly
    <3> QED
      BY <2>5, <3>3 DEF Acquire
  <2> HIDE DEF Caught
  <2>6. ASSUME NEW k \in Guards, Construct(k) \/ Unlock(k) \/ Rebind(k) \/ Destroy(k)
        PROVE  /\ \A g \in S : g \in locking'
               /\ \A h \in Guards : Caught(h) => guard'[h] = guard[h]
    <3>1. Free(k) /\ UNCHANGED locking
      BY <2>6 DEF Construct, Unlock, Rebind, Destroy, Alive
    <3>2. \A h \in Guards \ {k} : guard'[h] = guard[h]
      BY <1>1, <2>6, GuardTypes DEF GuardInv, Construct, Unlock, Rebind, Destroy
    <3> QED
      BY <2>1, <2>4, <3>1, <3>2
  <2>7. ASSUME NEW k \in Guards, NEW j \in Guards,
               MoveConstruct(k, j) \/ MoveAssign(k, j)
        PROVE  /\ \A g \in S : g \in locking'
               /\ \A h \in Guards : Caught(h) => guard'[h] = guard[h]
    <3>1. Free(k) /\ Free(j) /\ UNCHANGED locking
      BY <2>7 DEF MoveConstruct, MoveAssign, Alive, Free
    <3>2. \A h \in Guards \ {j, k} : guard'[h] = guard[h]
      BY <1>1, <2>7, GuardTypes DEF GuardInv, MoveConstruct, MoveAssign
    <3> QED
      BY <2>1, <2>4, <3>1, <3>2
  <2>8. ASSUME NEW k \in Guards, CallLock(k)
        PROVE  /\ \A g \in S : g \in locking'
               /\ \A h \in Guards : Caught(h) => guard'[h] = guard[h]
    BY <2>1, <2>8 DEF CallLock
  <2>9. ASSUME NEW k \in Guards, Acquire(k)
        PROVE  /\ \A g \in S : g \in locking'
               /\ \A h \in Guards : Caught(h) => guard'[h] = guard[h]
    <3>1. \A h \in Guards \ {k} : guard'[h] = guard[h]
      BY <1>1, <2>9, GuardTypes DEF GuardInv, Acquire
    <3>2. locking' = locking \ {k}
      BY <2>9 DEF Acquire
    <3> QED
      BY <2>1, <2>2, <2>5, <2>9, <3>1, <3>2
  <2> QED
    BY <1>1, <2>6, <2>7, <2>8, <2>9 DEF Next
<1>2. GuardInv /\ [Next]_vars =>
        [\A S \in SUBSET Guards : Deadlocked(S) => Deadlocked(S)']_vars
  BY <1>1
<1> QED
  BY <1>2, GuardsSound, PTL DEF DeadlockLasts, Spec
=============================================================================
