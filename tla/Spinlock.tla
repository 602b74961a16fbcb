------------------------------ MODULE Spinlock ------------------------------
(***************************************************************************)
(* kernel/spinlock.c: acquire, release, holding, push_off and pop_off, on  *)
(* several CPUs that also take device interrupts.                          *)
(*                                                                         *)
(* A CPU runs one context at a time: the interrupted code, or a trap       *)
(* handler running on top of it with interrupts off (kernelvec.S clears    *)
(* SIE on entry and sret restores it).  Both contexts take and release     *)
(* locks.  `held' is what the running context believes it holds; the       *)
(* callers follow the kernel's lock order, so a context only acquires a    *)
(* lock above all those it holds.                                          *)
(***************************************************************************)
EXTENDS Integers, FiniteSets

CONSTANTS
    Cpu,      \* the harts
    Lock,     \* the spinlocks, ordered as the kernel nests them
    None      \* lk->cpu = 0; also: no interrupted context

ASSUME SpinlockAssumption ==
    /\ Lock \subseteq Nat
    /\ IsFiniteSet(Lock)
    /\ None \notin Cpu

VARIABLES
    locked,   \* lk->locked
    owner,    \* lk->cpu
    noff,     \* mycpu()->noff
    intena,   \* mycpu()->intena
    intr,     \* sstatus.SIE of the hart
    pc,       \* where the running context is inside acquire/release
    lk,       \* the argument of the call in progress
    old,      \* push_off's local `old'
    held,     \* locks the running context has acquired and not yet dropped
    frame     \* the interrupted context, None when no handler runs

cpuVars == <<noff, intena, intr>>
lockVars == <<locked, owner>>
vars == <<locked, owner, noff, intena, intr, pc, lk, old, held, frame>>

PC == {"idle", "push", "check", "spin", "own", "drop", "pop", "panic"}

Frame == [pc: PC, lk: Lock, old: BOOLEAN, held: SUBSET Lock]

ASSUME FrameAssumption == None \notin Frame

TypeOK ==
    /\ locked \in [Lock -> BOOLEAN]
    /\ owner \in [Lock -> Cpu \cup {None}]
    /\ noff \in [Cpu -> 0 .. Cardinality(Lock) + 1]
    /\ intena \in [Cpu -> BOOLEAN]
    /\ intr \in [Cpu -> BOOLEAN]
    /\ pc \in [Cpu -> PC]
    /\ lk \in [Cpu -> Lock]
    /\ old \in [Cpu -> BOOLEAN]
    /\ held \in [Cpu -> SUBSET Lock]
    /\ frame \in [Cpu -> Frame \cup {None}]

(* initlock for every lock; every hart starts with interrupts on, holding  *)
(* nothing.                                                                *)
Init ==
    /\ locked = [l \in Lock |-> FALSE]
    /\ owner = [l \in Lock |-> None]
    /\ noff = [c \in Cpu |-> 0]
    /\ intena \in [Cpu -> BOOLEAN]
    /\ intr = [c \in Cpu |-> TRUE]
    /\ pc = [c \in Cpu |-> "idle"]
    /\ lk \in [Cpu -> Lock]
    /\ old = [c \in Cpu |-> FALSE]
    /\ held = [c \in Cpu |-> {}]
    /\ frame = [c \in Cpu |-> None]

(* holding(lk), evaluated by CPU c.                                        *)
Holding(c, l) == locked[l] /\ owner[l] = c

Goto(c, where) == pc' = [pc EXCEPT ![c] = where]

-----------------------------------------------------------------------------
(* acquire(l) is called: push_off first samples intr_get().                *)
AcquireCall(c, l) ==
    /\ pc[c] = "idle"
    /\ \A m \in held[c] : m < l
    /\ lk' = [lk EXCEPT ![c] = l]
    /\ old' = [old EXCEPT ![c] = intr[c]]
    /\ Goto(c, "push")
    /\ UNCHANGED <<lockVars, cpuVars, held, frame>>

PushOffOverwriting(c) ==
    /\ pc[c] = "push"
    /\ intr' = [intr EXCEPT ![c] = FALSE]
    /\ intena' = [intena EXCEPT ![c] = old[c]]
    /\ noff' = [noff EXCEPT ![c] = @ + 1]
    /\ Goto(c, "check")
    /\ UNCHANGED <<lockVars, lk, old, held, frame>>

PushOffLeavingIntrOn(c) ==
    /\ pc[c] = "push"
    /\ intena' = IF noff[c] = 0 THEN [intena EXCEPT ![c] = old[c]] ELSE intena
    /\ noff' = [noff EXCEPT ![c] = @ + 1]
    /\ Goto(c, "check")
    /\ UNCHANGED <<lockVars, intr, lk, old, held, frame>>

(* The rest of push_off runs with interrupts off.                          *)
PushOff(c) ==
    /\ pc[c] = "push"
    /\ intr' = [intr EXCEPT ![c] = FALSE]
    /\ intena' = IF noff[c] = 0 THEN [intena EXCEPT ![c] = old[c]] ELSE intena
    /\ noff' = [noff EXCEPT ![c] = @ + 1]
    /\ Goto(c, "check")
    /\ UNCHANGED <<lockVars, lk, old, held, frame>>

CheckHolding(c) ==
    /\ pc[c] = "check"
    /\ Goto(c, IF Holding(c, lk[c]) THEN "panic" ELSE "spin")
    /\ UNCHANGED <<lockVars, cpuVars, lk, old, held, frame>>

TestAndSetBlind(c) ==
    /\ pc[c] = "spin"
    /\ locked' = [locked EXCEPT ![lk[c]] = TRUE]
    /\ Goto(c, "own")
    /\ UNCHANGED <<owner, cpuVars, lk, old, held, frame>>

(* The iteration of the amoswap loop that finds the lock free.             *)
TestAndSet(c) ==
    /\ pc[c] = "spin"
    /\ ~locked[lk[c]]
    /\ locked' = [locked EXCEPT ![lk[c]] = TRUE]
    /\ Goto(c, "own")
    /\ UNCHANGED <<owner, cpuVars, lk, old, held, frame>>

SetOwner(c) ==
    /\ pc[c] = "own"
    /\ owner' = [owner EXCEPT ![lk[c]] = c]
    /\ held' = [held EXCEPT ![c] = @ \cup {lk[c]}]
    /\ Goto(c, "idle")
    /\ UNCHANGED <<locked, cpuVars, lk, old, frame>>

-----------------------------------------------------------------------------
(* release(l): the holding() test and lk->cpu = 0.                         *)
ReleaseCall(c, l) ==
    /\ pc[c] = "idle"
    /\ l \in held[c]
    /\ lk' = [lk EXCEPT ![c] = l]
    /\ IF Holding(c, l)
       THEN /\ owner' = [owner EXCEPT ![l] = None]
            /\ Goto(c, "drop")
       ELSE /\ Goto(c, "panic")
            /\ UNCHANGED owner
    /\ UNCHANGED <<locked, cpuVars, old, held, frame>>

Drop(c) ==
    /\ pc[c] = "drop"
    /\ locked' = [locked EXCEPT ![lk[c]] = FALSE]
    /\ held' = [held EXCEPT ![c] = @ \ {lk[c]}]
    /\ Goto(c, "pop")
    /\ UNCHANGED <<owner, cpuVars, lk, old, frame>>

PopOffKeepingCount(c) ==
    /\ pc[c] = "pop"
    /\ intr' = IF noff[c] = 1 /\ intena[c] THEN [intr EXCEPT ![c] = TRUE] ELSE intr
    /\ noff' = IF noff[c] = 1 THEN [noff EXCEPT ![c] = 0] ELSE noff
    /\ Goto(c, "idle")
    /\ UNCHANGED <<lockVars, intena, lk, old, held, frame>>

PopOff(c) ==
    /\ pc[c] = "pop"
    /\ IF intr[c] \/ noff[c] < 1
       THEN /\ Goto(c, "panic")
            /\ UNCHANGED cpuVars
       ELSE /\ noff' = [noff EXCEPT ![c] = @ - 1]
            /\ intr' = IF noff[c] = 1 /\ intena[c]
                       THEN [intr EXCEPT ![c] = TRUE] ELSE intr
            /\ Goto(c, "idle")
            /\ UNCHANGED intena
    /\ UNCHANGED <<lockVars, lk, old, held, frame>>

-----------------------------------------------------------------------------
(* A device interrupt, accepted by the hart only while SIE is set: the     *)
(* running context is saved and the handler starts with interrupts off.    *)
Interrupt(c) ==
    /\ intr[c]
    /\ pc[c] # "panic"
    /\ frame[c] = None
    /\ frame' = [frame EXCEPT ![c] =
                    [pc |-> pc[c], lk |-> lk[c], old |-> old[c], held |-> held[c]]]
    /\ intr' = [intr EXCEPT ![c] = FALSE]
    /\ held' = [held EXCEPT ![c] = {}]
    /\ Goto(c, "idle")
    /\ UNCHANGED <<lockVars, noff, intena, lk, old>>

(* The handler is done and released what it took: sret.                    *)
Sret(c) ==
    /\ frame[c] # None
    /\ pc[c] = "idle"
    /\ held[c] = {}
    /\ intr' = [intr EXCEPT ![c] = TRUE]
    /\ Goto(c, frame[c].pc)
    /\ lk' = [lk EXCEPT ![c] = frame[c].lk]
    /\ old' = [old EXCEPT ![c] = frame[c].old]
    /\ held' = [held EXCEPT ![c] = frame[c].held]
    /\ frame' = [frame EXCEPT ![c] = None]
    /\ UNCHANGED <<lockVars, noff, intena>>

Step(c) ==
    \/ \E l \in Lock : AcquireCall(c, l)
    \/ PushOff(c)
    \/ CheckHolding(c)
    \/ TestAndSet(c)
    \/ SetOwner(c)
    \/ \E l \in Lock : ReleaseCall(c, l)
    \/ Drop(c)
    \/ PopOff(c)
    \/ Interrupt(c)
    \/ Sret(c)

Next == \E c \in Cpu : Step(c)

Spec == Init /\ [][Next]_vars

-----------------------------------------------------------------------------
(* Two CPUs are never both past acquire(l) and before the release of l has *)
(* dropped the lock word; a handler counts with the code it interrupted.   *)
Owned(c) == held[c] \cup (IF frame[c] = None THEN {} ELSE frame[c].held)

MutualExclusion ==
    \A c, d \in Cpu : c # d => Owned(c) \cap Owned(d) = {}

(* None of the panics of spinlock.c is reachable: no context re-acquires a *)
(* lock its CPU holds (the interrupt handler that finds the lock held by   *)
(* the code it interrupted), releases one it does not hold, or unbalances  *)
(* push_off/pop_off.                                                       *)
NoPanic == \A c \in Cpu : pc[c] # "panic"

(* push_off/pop_off "are matched" (spinlock.c:84): outside acquire and     *)
(* release, a CPU takes interrupts exactly when it holds no spinlock and   *)
(* is not inside a handler, whatever the nesting was.                      *)
InterruptsMatched ==
    \A c \in Cpu : pc[c] = "idle" => (intr[c] <=> (held[c] = {} /\ frame[c] = None))
=============================================================================
