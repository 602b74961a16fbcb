--------------------------- MODULE SpinlockProofs ---------------------------
(***************************************************************************)
(* Mutual exclusion, panic freedom and the push_off/pop_off discipline of  *)
(* kernel/spinlock.c, for any number of harts and locks.                   *)
(***************************************************************************)
EXTENDS Spinlock, FiniteSetTheorems, TLAPS

(* Locks c has won, including the one it has just swapped in.              *)
Has(c) == held[c] \cup (IF pc[c] = "own" THEN {lk[c]} ELSE {})

(* noff counts the locks held, plus the call in progress.                  *)
Accounting ==
    \A c \in Cpu :
        noff[c] = Cardinality(held[c])
                  + (IF pc[c] \in {"check", "spin", "own", "pop"} THEN 1 ELSE 0)

Interrupts ==
    \A c \in Cpu :
        /\ intr[c] <=> (noff[c] = 0 /\ frame[c] = None)
        /\ noff[c] > 0 => (intena[c] <=> frame[c] = None)
        /\ pc[c] = "push" /\ noff[c] = 0 => (old[c] <=> frame[c] = None)
        /\ frame[c] # None =>
              /\ frame[c].held = {}
              /\ frame[c].pc \in {"idle", "push"}
              /\ frame[c].old \/ frame[c].pc = "idle"

LockWord ==
    /\ \A l \in Lock : locked[l] <=> \E c \in Cpu : l \in Has(c)
    /\ \A c, d \in Cpu : c # d => Has(c) \cap Has(d) = {}

OwnerField ==
    \A l \in Lock, c \in Cpu :
        owner[l] = c <=> (l \in held[c] /\ ~(pc[c] = "drop" /\ lk[c] = l))

Arguments ==
    \A c \in Cpu :
        /\ pc[c] \in {"push", "check", "spin", "own"} => \A m \in held[c] : m < lk[c]
        /\ pc[c] = "drop" => lk[c] \in held[c]

IInv ==
    /\ TypeOK
    /\ NoPanic
    /\ Accounting
    /\ Interrupts
    /\ LockWord
    /\ OwnerField
    /\ Arguments

-----------------------------------------------------------------------------
(* A set of locks is finite, and adding or removing one lock changes its   *)
(* size by one; this is what ties noff to the locks held.                  *)
LEMMA HeldCardinality ==
    ASSUME NEW S \in SUBSET Lock
    PROVE  /\ IsFiniteSet(S)
           /\ Cardinality(S) \in Nat
           /\ Cardinality(S) <= Cardinality(Lock)
           /\ Cardinality(Lock) \in Nat
           /\ S = {} <=> Cardinality(S) = 0
           /\ \A l \in Lock : l \notin S => Cardinality(S \cup {l}) = Cardinality(S) + 1
           /\ \A l \in S : Cardinality(S \ {l}) = Cardinality(S) - 1
<1>1. IsFiniteSet(S) /\ Cardinality(S) <= Cardinality(Lock)
  BY Zenon, SpinlockAssumption, FS_Subset
<1>2. Cardinality(S) \in Nat /\ Cardinality(Lock) \in Nat
  BY <1>1, SpinlockAssumption, FS_CardinalityType
<1>3. S = {} <=> Cardinality(S) = 0
  BY <1>1, FS_EmptySet
<1>4. \A l \in Lock : l \notin S => Cardinality(S \cup {l}) = Cardinality(S) + 1
  BY <1>1, FS_AddElement
<1>5. \A l \in S : Cardinality(S \ {l}) = Cardinality(S) - 1
  BY <1>1, FS_RemoveElement
<1> QED
  BY <1>1, <1>2, <1>3, <1>4, <1>5

LEMMA InitIInv == Init => IInv
<1> SUFFICES ASSUME Init PROVE IInv
  OBVIOUS
<1> USE DEF Init
<1>1. TypeOK
  BY HeldCardinality DEF TypeOK, PC
<1>2. NoPanic
  BY DEF NoPanic
<1>3. Accounting
  BY FS_EmptySet DEF Accounting
<1>4. Interrupts
  BY DEF Interrupts
<1>5. LockWord
  BY DEF LockWord, Has
<1>6. OwnerField
  BY SpinlockAssumption DEF OwnerField
<1>7. Arguments
  BY DEF Arguments
<1> QED
  BY <1>1, <1>2, <1>3, <1>4, <1>5, <1>6, <1>7 DEF IInv

LEMMA NextIInv == IInv /\ [Next]_vars => IInv'
<1> SUFFICES ASSUME IInv, [Next]_vars PROVE IInv'
  OBVIOUS
<1> USE DEF IInv
<1>0. \A d \in Cpu : held[d] \in SUBSET Lock /\ Cardinality(held[d]) \in Nat
  BY HeldCardinality DEF TypeOK
<1>a. \A d \in Cpu : pc[d] \in {"check", "own"} => lk[d] \notin held[d]
  <2> SUFFICES ASSUME NEW d \in Cpu, pc[d] \in {"check", "own"}, lk[d] \in held[d]
               PROVE  FALSE
    OBVIOUS
  <2>1. lk[d] < lk[d]
    BY DEF Arguments
  <2>2. lk[d] \in Nat
    BY Zenon, SpinlockAssumption DEF TypeOK
  <2> QED
    BY <2>1, <2>2
<1>b. \A d \in Cpu : pc[d] = "idle" /\ held[d] = {} => noff[d] = 0
  <2> SUFFICES ASSUME NEW d \in Cpu, pc[d] = "idle", held[d] = {}
               PROVE  noff[d] = 0
    OBVIOUS
  <2>1. Cardinality(held[d]) = 0
    BY <1>0, HeldCardinality
  <2>2. noff[d] = Cardinality(held[d]) + 0
    BY DEF Accounting
  <2> QED
    BY <2>1, <2>2
<1>1. ASSUME NEW c \in Cpu, NEW l \in Lock, AcquireCall(c, l)
      PROVE  IInv'
  <2> USE <1>1 DEF AcquireCall, Goto, lockVars, cpuVars
  <2>1. TypeOK'
    BY DEF TypeOK, PC
  <2>2. NoPanic'
    BY DEF TypeOK, NoPanic
  <2>3. Accounting'
    BY <1>0 DEF TypeOK, Accounting
  <2>4. Interrupts'
    BY DEF TypeOK, Interrupts
  <2>5. LockWord'
    BY DEF TypeOK, LockWord, Has
  <2>6. OwnerField'
    BY DEF TypeOK, OwnerField
  <2>7. Arguments'
    BY DEF TypeOK, Arguments
  <2> QED
    BY <2>1, <2>2, <2>3, <2>4, <2>5, <2>6, <2>7
<1>2. ASSUME NEW c \in Cpu, PushOff(c)
      PROVE  IInv'
  <2> USE <1>2 DEF PushOff, Goto, lockVars
  <2>0. noff[c] = Cardinality(held[c]) /\ held[c] \in SUBSET Lock
    BY <1>0 DEF TypeOK, Accounting
  <2>1. TypeOK'
    <3>1. Cardinality(held[c]) \in Nat /\ Cardinality(held[c]) <= Cardinality(Lock)
          /\ Cardinality(Lock) \in Nat
      BY <2>0, HeldCardinality
    <3>2. noff' \in [Cpu -> 0 .. Cardinality(Lock) + 1]
      BY <2>0, <3>1 DEF TypeOK
    <3> QED
      BY <3>2 DEF TypeOK, PC
  <2>2. NoPanic'
    BY DEF TypeOK, NoPanic
  <2>3. Accounting'
    BY <1>0 DEF TypeOK, Accounting
  <2>4. Interrupts'
    BY DEF TypeOK, Interrupts
  <2>5. LockWord'
    BY DEF TypeOK, LockWord, Has
  <2>6. OwnerField'
    BY DEF TypeOK, OwnerField
  <2>7. Arguments'
    BY DEF TypeOK, Arguments
  <2> QED
    BY <2>1, <2>2, <2>3, <2>4, <2>5, <2>6, <2>7
<1>3. ASSUME NEW c \in Cpu, CheckHolding(c)
      PROVE  IInv'
  <2> USE <1>3 DEF CheckHolding, Goto, lockVars, cpuVars
  <2>0. ~Holding(c, lk[c])
    <3>1. lk[c] \in Lock /\ lk[c] \notin held[c]
      BY <1>a DEF TypeOK
    <3> QED
      BY <3>1 DEF Holding, OwnerField
  <2>1. TypeOK'
    BY DEF TypeOK, PC
  <2>2. NoPanic'
    BY <2>0 DEF TypeOK, NoPanic
  <2>3. Accounting'
    BY <1>0, <2>0 DEF TypeOK, Accounting
  <2>4. Interrupts'
    BY <2>0 DEF TypeOK, Interrupts
  <2>5. LockWord'
    BY <2>0 DEF TypeOK, LockWord, Has
  <2>6. OwnerField'
    BY <2>0 DEF TypeOK, OwnerField
  <2>7. Arguments'
    BY <2>0 DEF TypeOK, Arguments
  <2> QED
    BY <2>1, <2>2, <2>3, <2>4, <2>5, <2>6, <2>7
<1>4. ASSUME NEW c \in Cpu, TestAndSet(c)
      PROVE  IInv'
  <2> USE <1>4 DEF TestAndSet, Goto, cpuVars
  <2>0. \A d \in Cpu : lk[c] \notin Has(d)
    BY DEF TypeOK, LockWord
  <2>1. TypeOK'
    BY DEF TypeOK, PC
  <2>2. NoPanic'
    BY DEF TypeOK, NoPanic
  <2>3. Accounting'
    BY <1>0 DEF TypeOK, Accounting
  <2>4. Interrupts'
    BY DEF TypeOK, Interrupts
  <2>5. LockWord'
    <3>1. Has(c)' = Has(c) \cup {lk[c]}
      BY DEF TypeOK, Has
    <3>2. \A d \in Cpu \ {c} : Has(d)' = Has(d)
      BY DEF TypeOK, Has
    <3> QED
      BY <2>0, <3>1, <3>2 DEF TypeOK, LockWord
  <2>6. OwnerField'
    BY DEF TypeOK, OwnerField
  <2>7. Arguments'
    BY DEF TypeOK, Arguments
  <2> QED
    BY <2>1, <2>2, <2>3, <2>4, <2>5, <2>6, <2>7
<1>5. ASSUME NEW c \in Cpu, SetOwner(c)
      PROVE  IInv'
  <2> USE <1>5 DEF SetOwner, Goto, cpuVars
  <2>0. /\ lk[c] \notin held[c]
        /\ held[c] \in SUBSET Lock
        /\ lk[c] \in Lock
        /\ lk[c] \in Has(c)
    BY <1>a DEF TypeOK, Has
  <2>1. TypeOK'
    BY DEF TypeOK, PC
  <2>2. NoPanic'
    BY DEF TypeOK, NoPanic
  <2>3. Accounting'
    <3>1. Cardinality(held'[c]) = Cardinality(held[c]) + 1
      BY <2>0, HeldCardinality DEF TypeOK
    <3>2. Cardinality(held[c]) \in Nat
      BY <2>0, HeldCardinality
    <3> QED
      BY <1>0, <3>1, <3>2 DEF TypeOK, Accounting
  <2>4. Interrupts'
    BY DEF TypeOK, Interrupts
  <2>5. LockWord'
    <3>1. \A d \in Cpu : Has(d)' = Has(d)
      BY DEF TypeOK, Has
    <3> QED
      BY <3>1 DEF TypeOK, LockWord
  <2>6. OwnerField'
    <3>1. \A d \in Cpu : d # c => lk[c] \notin held[d]
      BY <2>0 DEF LockWord, Has
    <3> QED
      BY <2>0, <3>1 DEF TypeOK, OwnerField
  <2>7. Arguments'
    BY DEF TypeOK, Arguments
  <2> QED
    BY <2>1, <2>2, <2>3, <2>4, <2>5, <2>6, <2>7
<1>6. ASSUME NEW c \in Cpu, NEW l \in Lock, ReleaseCall(c, l)
      PROVE  IInv'
  <2> USE <1>6 DEF ReleaseCall, Goto, cpuVars
  <2>0. Holding(c, l)
    BY DEF Holding, TypeOK, OwnerField, LockWord, Has
  <2>1. TypeOK'
    BY <2>0 DEF TypeOK, PC
  <2>2. NoPanic'
    BY <2>0 DEF TypeOK, NoPanic
  <2>3. Accounting'
    BY <1>0, <2>0 DEF TypeOK, Accounting
  <2>4. Interrupts'
    BY <2>0 DEF TypeOK, Interrupts
  <2>5. LockWord'
    <3>1. \A d \in Cpu : Has(d)' = Has(d)
      BY <2>0 DEF TypeOK, Has
    <3> QED
      BY <3>1 DEF TypeOK, LockWord
  <2>6. OwnerField'
    BY <2>0, SpinlockAssumption DEF TypeOK, OwnerField, LockWord, Has
  <2>7. Arguments'
    BY <2>0 DEF TypeOK, Arguments
  <2> QED
    BY <2>1, <2>2, <2>3, <2>4, <2>5, <2>6, <2>7
<1>7. ASSUME NEW c \in Cpu, Drop(c)
      PROVE  IInv'
  <2> USE <1>7 DEF Drop, Goto, cpuVars
  <2>0. lk[c] \in held[c] /\ held[c] \in SUBSET Lock /\ lk[c] \in Lock
    BY DEF TypeOK, Arguments
  <2>1. TypeOK'
    BY DEF TypeOK, PC
  <2>2. NoPanic'
    BY DEF TypeOK, NoPanic
  <2>3. Accounting'
    <3>1. Cardinality(held'[c]) = Cardinality(held[c]) - 1
      BY <2>0, HeldCardinality DEF TypeOK
    <3>2. Cardinality(held[c]) \in Nat
      BY <2>0, HeldCardinality
    <3> QED
      BY <1>0, <3>1, <3>2 DEF TypeOK, Accounting
  <2>4. Interrupts'
    BY DEF TypeOK, Interrupts
  <2>5. LockWord'
    <3>1. Has(c)' = Has(c) \ {lk[c]}
      BY DEF TypeOK, Has
    <3>2. \A d \in Cpu \ {c} : Has(d)' = Has(d)
      BY DEF TypeOK, Has
    <3>3. \A d \in Cpu \ {c} : lk[c] \notin Has(d)
      BY <2>0 DEF LockWord, Has
    <3>4. \A m \in Lock : m # lk[c] =>
             ((\E d \in Cpu : m \in Has(d)') <=> (\E d \in Cpu : m \in Has(d)))
      BY <3>1, <3>2
    <3> QED
      BY SMTT(30), <2>0, <3>1, <3>2, <3>3, <3>4 DEF TypeOK, LockWord
  <2>6. OwnerField'
    BY <2>0 DEF TypeOK, OwnerField, LockWord, Has
  <2>7. Arguments'
    BY DEF TypeOK, Arguments
  <2> QED
    BY <2>1, <2>2, <2>3, <2>4, <2>5, <2>6, <2>7
<1>8. ASSUME NEW c \in Cpu, PopOff(c)
      PROVE  IInv'
  <2> USE <1>8 DEF PopOff, Goto, cpuVars, lockVars
  <2>0. /\ noff[c] = Cardinality(held[c]) + 1
        /\ held[c] \in SUBSET Lock
        /\ Cardinality(held[c]) \in Nat
    BY <1>0 DEF TypeOK, Accounting
  <2>a. ~intr[c] /\ ~(noff[c] < 1)
    BY <2>0 DEF Interrupts
  <2>1. TypeOK'
    <3>1. noff[c] \in 0 .. Cardinality(Lock) + 1 /\ Cardinality(Lock) \in Nat
      BY HeldCardinality, <2>0 DEF TypeOK
    <3>2. noff[c] - 1 \in 0 .. Cardinality(Lock) + 1
      BY <3>1, <2>a
    <3>3. noff' \in [Cpu -> 0 .. Cardinality(Lock) + 1]
      BY <3>2, <2>a DEF TypeOK
    <3>4. intr' \in [Cpu -> BOOLEAN] /\ pc' \in [Cpu -> PC]
      BY ZenonT(30), <2>a DEF TypeOK, PC
    <3> QED
      BY <3>3, <3>4, <2>a DEF TypeOK
  <2>2. NoPanic'
    BY <2>a DEF TypeOK, NoPanic
  <2>3. Accounting'
    BY <1>0, <2>0, <2>a DEF TypeOK, Accounting
  <2>4. Interrupts'
    BY <2>0, <2>a DEF TypeOK, Interrupts
  <2>5. LockWord'
    <3>1. \A d \in Cpu : Has(d)' = Has(d)
      BY <2>a DEF TypeOK, Has
    <3> QED
      BY <3>1, <2>a DEF TypeOK, LockWord
  <2>6. OwnerField'
    BY <2>a DEF TypeOK, OwnerField
  <2>7. Arguments'
    BY <2>a DEF TypeOK, Arguments
  <2> QED
    BY <2>1, <2>2, <2>3, <2>4, <2>5, <2>6, <2>7
<1>9. ASSUME NEW c \in Cpu, Interrupt(c)
      PROVE  IInv'
  <2> USE <1>9 DEF Interrupt, Goto, lockVars
  <2>0. /\ noff[c] = 0
        /\ held[c] = {}
        /\ pc[c] \in {"idle", "push"}
        /\ old[c] \/ pc[c] = "idle"
    <3>1. noff[c] = 0 /\ held[c] \in SUBSET Lock /\ Cardinality(held[c]) \in Nat
      BY HeldCardinality DEF TypeOK, Interrupts
    <3>2. pc[c] \notin {"check", "spin", "own", "pop"} /\ Cardinality(held[c]) = 0
      BY <3>1 DEF Accounting
    <3>3. held[c] = {}
      BY <3>1, <3>2, HeldCardinality
    <3> QED
      BY <3>1, <3>2, <3>3 DEF TypeOK, PC, Interrupts, Arguments, NoPanic
  <2>1. TypeOK'
    BY <2>0 DEF TypeOK, PC, Frame
  <2>2. NoPanic'
    BY DEF TypeOK, NoPanic
  <2>3. Accounting'
    BY ZenonT(30), <1>0, <2>0 DEF TypeOK, Accounting
  <2>4. Interrupts'
    <3>1. frame'[c] # None
      BY FrameAssumption, <2>0 DEF TypeOK, Frame
    <3> QED
      BY <2>0, <3>1 DEF TypeOK, Interrupts
  <2>5. LockWord'
    <3>1. \A d \in Cpu : Has(d)' = Has(d)
      BY <2>0 DEF TypeOK, Has
    <3> QED
      BY <3>1 DEF TypeOK, LockWord
  <2>6. OwnerField'
    BY <2>0 DEF TypeOK, OwnerField
  <2>7. Arguments'
    BY SMTT(30), <2>0 DEF TypeOK, Arguments
  <2> QED
    BY <2>1, <2>2, <2>3, <2>4, <2>5, <2>6, <2>7
<1>10. ASSUME NEW c \in Cpu, Sret(c)
       PROVE  IInv'
  <2> USE <1>10 DEF Sret, Goto, lockVars
  <2>0. /\ frame[c] \in Frame
        /\ frame[c].held = {}
        /\ frame[c].pc \in {"idle", "push"}
        /\ frame[c].old \/ frame[c].pc = "idle"
        /\ noff[c] = 0
    <3>1. noff[c] = 0
      BY <1>b
    <3>2. frame[c] \in Frame
      BY DEF TypeOK
    <3> QED
      BY <3>1, <3>2 DEF Interrupts
  <2>1. TypeOK'
    BY <2>0 DEF TypeOK, PC, Frame
  <2>2. NoPanic'
    BY <2>0 DEF TypeOK, NoPanic
  <2>3. Accounting'
    BY ZenonT(30), <1>0, <2>0 DEF TypeOK, Accounting
  <2>4. Interrupts'
    BY <2>0 DEF TypeOK, Interrupts
  <2>5. LockWord'
    <3>1. \A d \in Cpu : Has(d)' = Has(d)
      BY <2>0 DEF TypeOK, Has
    <3> QED
      BY <3>1 DEF TypeOK, LockWord
  <2>6. OwnerField'
    BY <2>0 DEF TypeOK, OwnerField
  <2>7. Arguments'
    BY <2>0 DEF TypeOK, Arguments
  <2> QED
    BY Zenon, <2>1, <2>2, <2>3, <2>4, <2>5, <2>6, <2>7
<1>11. ASSUME UNCHANGED vars
       PROVE  IInv'
  BY SMTT(30), <1>11 DEF vars, TypeOK, NoPanic, Accounting, Interrupts, LockWord, Has,
               OwnerField, Arguments
<1> QED
  BY <1>1, <1>2, <1>3, <1>4, <1>5, <1>6, <1>7, <1>8, <1>9, <1>10, <1>11
     DEF Next, Step

(* IInv holds in every reachable state of the lock code.                   *)
THEOREM Invariance == Spec => []IInv
  BY InitIInv, NextIInv, PTL DEF Spec

(* acquire/release exclude: no two harts are ever inside the same lock.    *)
THEOREM SpinlockMutualExclusion == Spec => []MutualExclusion
<1>1. IInv => MutualExclusion
  BY DEF IInv, MutualExclusion, Owned, LockWord, Has, Interrupts
<1> QED
  BY <1>1, Invariance, PTL

(* None of the four panics in acquire, release and pop_off is reachable.   *)
THEOREM SpinlockNoPanic == Spec => []NoPanic
<1>1. IInv => NoPanic
  BY DEF IInv
<1> QED
  BY <1>1, Invariance, PTL

(* After any balanced nesting of acquire and release, and after any        *)
(* interrupt, a hart takes interrupts again exactly when it holds nothing. *)
THEOREM SpinlockInterruptsMatched == Spec => []InterruptsMatched
<1>1. IInv => InterruptsMatched
  <2> SUFFICES ASSUME IInv, NEW c \in Cpu, pc[c] = "idle"
               PROVE  intr[c] <=> (held[c] = {} /\ frame[c] = None)
    BY DEF InterruptsMatched
  <2>1. held[c] = {} <=> noff[c] = 0
    BY SMTT(30), HeldCardinality DEF IInv, TypeOK, Accounting
  <2> QED
    BY <2>1 DEF IInv, Interrupts
<1> QED
  BY <1>1, Invariance, PTL

(* noff never exceeds one more than the number of locks, owner is a hart   *)
(* or nobody, and a handler never interrupts a handler.                    *)
THEOREM SpinlockTypeOK == Spec => []TypeOK
<1>1. IInv => TypeOK
  BY DEF IInv
<1> QED
  BY <1>1, Invariance, PTL
=============================================================================
