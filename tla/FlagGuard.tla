------------------------------ MODULE FlagGuard ------------------------------
(***************************************************************************)
(* Guards::AtomicFlagGuard: guards that lock, unlock, change and hand over *)
(* the flags they point to.  Flags are shared by the threads; a guard is a *)
(* local variable of one thread.  Each action has one access to a flag, so *)
(* the flags are all that the threads see of each other's steps.           *)
(*                                                                         *)
(* What lock and unlock return is left out: no caller looks at it.         *)
(***************************************************************************)
EXTENDS Integers, FiniteSets

CONSTANTS
    Threads,
    Guards,      \* places for guards
    Owner,       \* the thread whose local variable a guard is
    Flags,
    nullptr

ASSUME OwnerAssumption == Owner \in [Guards -> Threads]
ASSUME NullAssumption == nullptr \notin Flags

VARIABLES
    flag,        \* is the std::atomic_flag set?
    guard,       \* flag_ptr and flag_locked of each guard
    locking      \* the guards on which a thread is spinning in lock()

vars == <<flag, guard, locking>>

\* A place where no guard lives, and a guard that was moved from
Unborn == [alive |-> FALSE, flag_ptr |-> nullptr, flag_locked |-> FALSE]
Bound(f) == [alive |-> TRUE, flag_ptr |-> f, flag_locked |-> FALSE]
MovedFrom == Bound(nullptr)

\* The thread of a guard is not inside lock().
Free(g) == \A h \in locking : Owner[h] # Owner[g]
Alive(g) == guard[g].alive /\ Free(g)
-----------------------------------------------------------------------------
(***************************************************************************)
(* The operations.                                                         *)
(***************************************************************************)
Construct(g) == \E f \in Flags \cup {nullptr} :
    /\ ~guard[g].alive /\ Free(g)
    /\ guard' = [guard EXCEPT ![g] = Bound(f)]
    /\ UNCHANGED <<flag, locking>>

\* Slip: a thread that is inside lock calls it again
CallLockAgain(g) ==
    /\ guard[g].alive /\ guard[g].flag_ptr # nullptr
    /\ locking' = locking \cup {g}
    /\ UNCHANGED <<flag, guard>>

\* lock of a guard without a flag returns at once and changes nothing.
CallLock(g) ==
    /\ Alive(g) /\ guard[g].flag_ptr # nullptr
    /\ locking' = locking \cup {g}
    /\ UNCHANGED <<flag, guard>>

\* Slip: the flag is set without a look at its old value
AcquireBlindly(g) ==
    /\ g \in locking
    /\ flag' = [flag EXCEPT ![guard[g].flag_ptr] = TRUE]
    /\ guard' = [guard EXCEPT ![g].flag_locked = TRUE]
    /\ locking' = locking \ {g}

\* The test_and_set that finds the flag clear; one that does not changes
\* nothing, whoever set the flag.
Acquire(g) ==
    /\ g \in locking
    /\ ~flag[guard[g].flag_ptr]
    /\ flag' = [flag EXCEPT ![guard[g].flag_ptr] = TRUE]
    /\ guard' = [guard EXCEPT ![g].flag_locked = TRUE]
    /\ locking' = locking \ {g}

\* Slip: unlock only forgets that the flag is locked
UnlockedFlagsKept(g) == flag

\* unlock: the flags and the guard after it
UnlockedFlags(g) ==
    IF guard[g].flag_locked /\ guard[g].flag_ptr # nullptr
    THEN [flag EXCEPT ![guard[g].flag_ptr] = FALSE] ELSE flag

UnlockedGuard(g) ==
    IF guard[g].flag_ptr # nullptr
    THEN [guard[g] EXCEPT !.flag_locked = FALSE] ELSE guard[g]

Unlock(g) ==
    /\ Alive(g)
    /\ flag' = UnlockedFlags(g)
    /\ guard' = [guard EXCEPT ![g] = UnlockedGuard(g)]
    /\ UNCHANGED locking

Rebind(g) == \E f \in Flags \cup {nullptr} :
    /\ Alive(g)
    /\ flag' = UnlockedFlags(g)
    /\ guard' = [guard EXCEPT ![g] = [UnlockedGuard(g) EXCEPT !.flag_ptr = f]]
    /\ UNCHANGED locking

Destroy(g) ==
    /\ Alive(g)
    /\ flag' = UnlockedFlags(g)
    /\ guard' = [guard EXCEPT ![g] = Unborn]
    /\ UNCHANGED locking

MoveConstruct(g, h) ==
    /\ ~guard[g].alive /\ Alive(h) /\ Owner[g] = Owner[h]
    /\ guard' = [guard EXCEPT ![g] = guard[h], ![h] = MovedFrom]
    /\ UNCHANGED <<flag, locking>>

\* Slip: the other guard gives its flag up before it hands it over
MoveAssignUnlocking(g, h) ==
    /\ Alive(g) /\ Alive(h) /\ Owner[g] = Owner[h]
    /\ flag' = UnlockedFlags(h)
    /\ guard' = [guard EXCEPT ![g] = UnlockedGuard(h), ![h] = MovedFrom]
    /\ UNCHANGED locking

\* unlock, rebind to the flag of the other, whose lock goes along.  A guard
\* moved to itself ends up without a flag.
MoveAssign(g, h) ==
    /\ Alive(g) /\ Alive(h) /\ Owner[g] = Owner[h]
    /\ flag' = UnlockedFlags(g)
    /\ guard' = [guard EXCEPT
                   ![g] = IF g = h THEN UnlockedGuard(g) ELSE guard[h],
                   ![h] = MovedFrom]
    /\ UNCHANGED locking
-----------------------------------------------------------------------------
Init ==
    /\ flag = [f \in Flags |-> FALSE]
    /\ guard = [g \in Guards |-> Unborn]
    /\ locking = {}

Next == \E g \in Guards :
    \/ Construct(g) \/ CallLock(g) \/ Acquire(g) \/ Unlock(g) \/ Rebind(g)
    \/ Destroy(g)
    \/ \E h \in Guards : MoveConstruct(g, h) \/ MoveAssign(g, h)

Spec == Init /\ [][Next]_vars

\* A thread inside lock goes on with its loop.  Nothing is assumed of the
\* other steps: no thread has to call anything.
FairSpec == Spec /\ \A g \in Guards : WF_vars(Acquire(g))
-----------------------------------------------------------------------------
(***************************************************************************)
(* Properties.                                                             *)
(***************************************************************************)
\* The values of the variables; a thread is inside one call of lock at most.
GuardTypeOK ==
    /\ flag \in [Flags -> BOOLEAN]
    /\ guard \in [Guards -> [alive : BOOLEAN, flag_ptr : Flags \cup {nullptr},
                             flag_locked : BOOLEAN]]
    /\ locking \subseteq Guards
    /\ \A g, h \in locking : Owner[g] = Owner[h] => g = h

Holders(f) == {g \in Guards : guard[g].flag_locked /\ guard[g].flag_ptr = f}

\* Through every sequence of locks, rebinds and moves a flag is set exactly
\* when one guard, and not a second one, holds it; no guard thinks that it
\* holds a lock without having a flag (Guards.hpp:39-91).
OneHolder ==
    /\ \A f \in Flags :
         Cardinality(Holders(f)) = IF flag[f] THEN 1 ELSE 0
    /\ Holders(nullptr) = {}

\* A flag that is handed from one guard to another stays set: no other
\* thread gets in between (Guards.hpp:78-91).
MoveKeepsFlag ==
    [][\A f \in Flags : \A h \in Holders(f) : \A g \in Guards \ {h} :
         MoveAssign(g, h) \/ MoveConstruct(g, h) =>
             flag'[f] /\ Holders(f)' = {g}]_vars

\* Every guard of S waits for a flag that another guard holds, whose thread
\* waits for a guard of S as well: two threads that took two flags in opposite
\* order, or one thread that locks the same flag by two guards.
Deadlocked(S) ==
    /\ S # {}
    /\ \A g \in S :
         /\ g \in locking
         /\ \E h \in Holders(guard[g].flag_ptr) \ {g} :
              \E k \in S : Owner[h] = Owner[k]

\* No step of any thread ends a circular wait: lock has no way out of its loop
\* but a clear flag, and nobody else can clear it, neither by unlocking nor by
\* rebinding, moving or destroying a guard ("will block/spin until flag is
\* released by other thread", readme.md; Guards.hpp:39-91).
DeadlockLasts ==
    [][\A S \in SUBSET Guards : Deadlocked(S) => Deadlocked(S)']_vars

\* A guard that holds its flag and is locked again returns from lock ("returns
\* false if ... flag is already set by object", readme.md; the loop of
\* Guards.hpp:41-43 does not look at flag_locked).  It does not hold under
\* FairSpec (README, section 3).
RelockReturns ==
    \A g \in Guards :
        g \in locking /\ guard[g].flag_locked ~> g \notin locking
=============================================================================
