------------------------------ MODULE LogSpace ------------------------------
(***************************************************************************)
(* begin_op's reservation: the calls it admits never need more slots       *)
(* than the log header has.                                                *)
(***************************************************************************)
EXTENDS LogProofs

(* The reservation of begin_op.  A call has logged at most MAXOPBLOCKS     *)
(* blocks, all of them in the current transaction, and is only about to    *)
(* log another one when it has a credit left for it.                       *)
Budget ==
    /\ Reservation
    /\ \A o \in Op :
          /\ IsFiniteSet(wrote[o])
          /\ InOp(o) => wrote[o] \subseteq Logged(lh)
          /\ pc[o] = "modified" =>
                cur[o] \in wrote[o] \/ Cardinality(wrote[o]) < MAXOPBLOCKS

(* At most MAXOPBLOCKS credits for each call in progress.                  *)
CreditsBounded ==
    /\ IsFiniteSet(Credits)
    /\ Cardinality(Credits) \in Nat
    /\ Cardinality(Credits) <= outstanding * MAXOPBLOCKS
    /\ outstanding = 0 => Cardinality(Credits) = 0

LEMMA CreditsBound == IInv => CreditsBounded
<1> SUFFICES ASSUME IInv PROVE CreditsBounded
  OBVIOUS
<1> DEFINE All == InOpSet \X (1 .. MAXOPBLOCKS)
<1>1. /\ IsFiniteSet(InOpSet) /\ outstanding = Cardinality(InOpSet) /\ outstanding \in Nat
      /\ InOpSet \in SUBSET Op
  <2>1. InOpSet \in SUBSET Op
    BY DEF InOpSet
  <2> QED
    BY <2>1, OpCardinality DEF IInv, Calls
<1>2. IsFiniteSet(1 .. MAXOPBLOCKS) /\ Cardinality(1 .. MAXOPBLOCKS) = MAXOPBLOCKS
  <2>1. 1 \in Int /\ MAXOPBLOCKS \in Int /\ MAXOPBLOCKS >= 1
    BY LogAssumption
  <2>2. Cardinality(1 .. MAXOPBLOCKS) = MAXOPBLOCKS - 1 + 1
    BY <2>1, FS_Interval
  <2> QED
    BY <2>1, <2>2, FS_Interval
<1>3. IsFiniteSet(All) /\ Cardinality(All) = outstanding * MAXOPBLOCKS
  BY Zenon, <1>1, <1>2, FS_Product
<1>4. Credits \subseteq All
  BY DEF Credits, InOpSet
<1>5. IsFiniteSet(Credits) /\ Cardinality(Credits) <= Cardinality(All)
  BY <1>3, <1>4, FS_Subset
<1>6. Cardinality(Credits) \in Nat
  BY <1>5, FS_CardinalityType
<1>7. outstanding = 0 => Credits = {}
  BY Zenon, <1>1, <1>4, OpCardinality
<1> QED
  BY <1>3, <1>5, <1>6, <1>7, FS_EmptySet DEF CreditsBounded

LEMMA InitBudget == Init => Budget
<1> SUFFICES ASSUME Init PROVE Budget
  OBVIOUS
<1>1. Cardinality(Credits) = 0 /\ lh.n = 0
  BY InitIInv, CreditsBound, EmptyHeaderType DEF Init, CreditsBounded
<1>2. Reservation
  BY <1>1, LogAssumption DEF Reservation
<1> QED
  BY <1>2, FS_EmptySet DEF Init, Budget, InOp

LEMMA NextBudget == IInv /\ Budget /\ IInv' /\ [Next]_vars => Budget'
<1> SUFFICES ASSUME IInv, Budget, IInv', [Next]_vars PROVE Budget'
  OBVIOUS
<1> USE DEF Budget
<1>0. /\ lh.n \in Nat /\ Cardinality(Credits) \in Nat /\ IsFiniteSet(Credits)
      /\ MAXOPBLOCKS \in Nat /\ LOGSIZE \in Nat
      /\ lh.n + Cardinality(Credits) <= LOGSIZE
      /\ pc \in [Op -> OpPC] /\ wrote \in [Op -> SUBSET Block]
  BY PinnedFacts, CreditsBound, LogAssumption DEF CreditsBounded, Reservation, IInv, TypeOK
<1>a. CreditsBounded'
  <2>1. (IInv => CreditsBounded)'
    BY CreditsBound, PTL
  <2> QED
    BY <2>1
<1>b. lh'.n \in Nat /\ lh'.n <= LOGSIZE
  BY LogAssumption DEF IInv, TypeOK, Header
<1>1. ASSUME Credits' \subseteq Credits, lh'.n = lh.n
      PROVE  Reservation'
  <2>1. Cardinality(Credits') <= Cardinality(Credits) /\ Cardinality(Credits') \in Nat
    BY <1>0, <1>1, FS_Subset, FS_CardinalityType
  <2> QED
    BY <1>0, <1>1, <2>1 DEF Reservation
<1>2. ASSUME outstanding' = 0
      PROVE  Reservation'
  BY <1>2, <1>a, <1>b DEF Reservation, CreditsBounded
<1>3. ASSUME NEW o \in Op, BeginOp(o)
      PROVE  Budget'
  <2>1. CASE MustWait
    <3>1. \A q \in Op : (InOp(q)' <=> InOp(q)) /\ (pc'[q] = "modified" <=> pc[q] = "modified")
      BY <1>0, <1>3, <2>1 DEF BeginOp, Goto, InOp
    <3>2. Credits' = Credits
      BY <1>3, <2>1, <3>1 DEF Credits, BeginOp
    <3> QED
      BY <1>1, <1>3, <2>1, <3>1, <3>2 DEF BeginOp
  <2>2. CASE ~MustWait
    <3>1. lh.n + (outstanding + 1) * MAXOPBLOCKS <= LOGSIZE /\ outstanding \in Nat
      BY <1>0, <2>2 DEF MustWait, IInv, TypeOK
    <3>2. outstanding' = outstanding + 1 /\ lh' = lh
      BY <1>3, <2>2 DEF BeginOp
    <3>3. Reservation'
      BY <1>a, <1>0, <3>1, <3>2 DEF Reservation, CreditsBounded
    <3>4. wrote'[o] = {} /\ pc'[o] = "active" /\ cur' = cur
          /\ \A q \in Op : q # o => wrote'[q] = wrote[q] /\ pc'[q] = pc[q]
      BY <1>0, <1>3, <2>2 DEF BeginOp, Goto
    <3> QED
      BY <3>2, <3>3, <3>4, FS_EmptySet DEF InOp
  <2> QED
    BY <2>1, <2>2
<1>4. ASSUME NEW o \in Op, NEW b \in Block, NEW v \in Value, Modify(o, b, v)
      PROVE  Budget'
  <2>1. /\ \A q \in Op : InOp(q)' <=> InOp(q)
        /\ \A q \in Op : q # o => pc'[q] = pc[q] /\ cur'[q] = cur[q]
        /\ cur'[o] = b
        /\ b \in wrote[o] \/ Cardinality(wrote[o]) < MAXOPBLOCKS
    BY <1>0, <1>4 DEF Modify, Goto, InOp, IInv, TypeOK
  <2>2. Credits' = Credits
    BY <1>4, <2>1 DEF Credits, Modify
  <2> QED
    BY <1>1, <1>4, <2>1, <2>2 DEF Modify, logVars
<1>5. ASSUME NEW o \in Op, LogWrite(o)
      PROVE  Budget'
  <2> DEFINE b == cur[o]
             k == Cardinality(wrote[o])
  <2>0. /\ \A q \in Op : InOp(q)' <=> InOp(q)
        /\ \A q \in Op : pc'[q] = "modified" => q # o /\ pc[q] = "modified"
        /\ cur' = cur /\ InOp(o) /\ b \in Block
        /\ ~(outstanding < 1)
    <3>1. InOp(o) /\ b \in Block
      BY <1>5 DEF LogWrite, InOp, IInv, TypeOK
    <3>2. ~(outstanding < 1)
      BY <3>1, InOpFacts
    <3> QED
      BY <1>0, <1>5, <3>1, <3>2 DEF LogWrite, Goto, InOp
  <2>1. CASE LogFull
    <3>1. Credits' = Credits
      BY <1>5, <2>0, <2>1 DEF Credits, LogWrite
    <3> QED
      BY <1>1, <1>5, <2>0, <2>1, <3>1 DEF LogWrite
  <2>2. CASE ~LogFull
    <3>1. /\ wrote'[o] = wrote[o] \cup {b}
          /\ \A q \in Op : q # o => wrote'[q] = wrote[q]
          /\ Append1(b)
      BY <1>0, <1>5, <2>0, <2>2 DEF LogWrite
    <3>2. /\ IsFiniteSet(wrote'[o])
          /\ k \in Nat
          /\ Cardinality(wrote'[o]) = IF b \in wrote[o] THEN k ELSE k + 1
      BY <3>1, FS_AddElement, FS_CardinalityType
    <3>3. Logged(lh)' = Logged(lh) \cup {b}
      <4>1. CASE b \in Logged(lh)
        BY <3>1, <4>1 DEF Append1, Logged
      <4>2. CASE b \notin Logged(lh)
        <5>1. /\ lh'.n = lh.n + 1 /\ lh.n + 1 \in Slot
              /\ lh'.block = [lh.block EXCEPT ![lh.n + 1] = b]
              /\ lh.block \in [Slot -> Block]
          BY <1>0, <2>2, <3>1, <4>2 DEF Append1, LogFull, Slot, IInv, TypeOK, Header
        <5>2. \A i \in 1 .. lh.n : i \in Slot /\ i # lh.n + 1 /\ i \in 1 .. lh.n + 1
          BY <1>0, PinnedFacts
        <5>3. \A i \in 1 .. lh.n + 1 : i = lh.n + 1 \/ i \in 1 .. lh.n
          BY <1>0
        <5>4. lh.n + 1 \in 1 .. lh.n + 1
          BY <1>0
        <5> QED
          BY <5>1, <5>2, <5>3, <5>4 DEF Logged
      <4> QED
        BY <4>1, <4>2
    <3>4. Credits' \subseteq Credits
      <4> SUFFICES ASSUME NEW x \in Op \X (1 .. MAXOPBLOCKS), x \in Credits'
                   PROVE  x \in Credits
        BY DEF Credits
      <4>1. x[1] \in Op /\ x[2] \in Nat /\ InOp(x[1]) /\ x[2] > Cardinality(wrote'[x[1]])
        BY <1>0, <2>0 DEF Credits
      <4>2. CASE x[1] = o
        BY <3>2, <4>1, <4>2 DEF Credits
      <4>3. CASE x[1] # o
        BY <3>1, <4>1, <4>3 DEF Credits
      <4> QED
        BY <4>2, <4>3
    <3>5. Reservation'
      <4>1. CASE b \in Logged(lh)
        BY <1>1, <3>1, <3>4, <4>1 DEF Append1
      <4>2. CASE b \notin Logged(lh)
        <5>1. b \notin wrote[o] /\ k < MAXOPBLOCKS
          BY <1>5, <2>0, <4>2 DEF LogWrite
        <5>2. <<o, k + 1>> \in Credits /\ <<o, k + 1>> \notin Credits'
          BY <1>0, <2>0, <3>2, <5>1 DEF Credits
        <5>3. Cardinality(Credits \ {<<o, k + 1>>}) = Cardinality(Credits) - 1
              /\ IsFiniteSet(Credits \ {<<o, k + 1>>})
          BY <1>0, <5>2, FS_RemoveElement
        <5>4. Credits' \subseteq Credits \ {<<o, k + 1>>}
          BY <3>4, <5>2
        <5>5. Cardinality(Credits') <= Cardinality(Credits) - 1
          BY <5>3, <5>4, FS_Subset
        <5>6. lh'.n = lh.n + 1
          BY <3>1, <4>2 DEF Append1
        <5> QED
          BY <1>0, <1>a, <5>5, <5>6 DEF Reservation, CreditsBounded
      <4> QED
        BY <4>1, <4>2
    <3> QED
      BY Zenon, <2>0, <3>1, <3>2, <3>3, <3>5
  <2> QED
    BY <2>1, <2>2
<1>6. ASSUME NEW o \in Op, EndOp(o)
      PROVE  Budget'
  <2>1. \A q \in Op : /\ InOp(q)' => InOp(q)
                      /\ pc'[q] = "modified" => pc[q] = "modified"
    BY <1>0, <1>6 DEF EndOp, Goto, WakeupAndGoto, CommitStart, InOp
  <2>2. Credits' \subseteq Credits
    BY <1>6, <2>1 DEF Credits, EndOp
  <2> QED
    BY <1>1, <1>6, <2>1, <2>2 DEF EndOp
<1>7. ASSUME NEW o \in Op, pc[o] \in CommitPC, outstanding' = outstanding, wrote' = wrote,
             \A q \in Op : pc'[q] \notin {"active", "modified", "full"}
      PROVE  Budget'
  BY <1>2, <1>7, CommitterFacts DEF InOp
<1>8. ASSUME NEW o \in Op,
             WriteLog(o) \/ WriteHead(o) \/ Install(o) \/ ClearHead(o) \/ FinishCommit(o)
      PROVE  Budget'
  <2>1. pc[o] \in CommitPC /\ outstanding' = outstanding /\ wrote' = wrote
    BY Zenon, <1>8 DEF WriteLog, WriteHead, Install, ClearHead, FinishCommit, CommitPC, logVars
  <2>2. \A q \in Op : pc[q] \notin {"active", "modified", "full"}
    BY <2>1, CommitterFacts DEF InOp
  <2>3. \A q \in Op : pc'[q] \notin {"active", "modified", "full"}
    BY Zenon, <1>0, <1>8, <2>2
       DEF WriteLog, WriteHead, Install, ClearHead, FinishCommit, Goto, WakeupAndGoto
  <2> QED
    BY <1>7, <2>1, <2>3
<1>9. ASSUME NEW b \in Block, Load(b) \/ Recycle(b)
      PROVE  Budget'
  <2>1. UNCHANGED <<pc, wrote, cur, lh>>
    BY <1>9 DEF Load, Recycle, opVars, logVars
  <2>2. Credits' = Credits
    BY <2>1 DEF Credits, InOp
  <2> QED
    BY <1>1, <2>1, <2>2 DEF InOp, Logged
<1>10. CASE Crash
  BY <1>2, <1>10, FS_EmptySet DEF Crash, InOp
<1>11. CASE Recover
  <2>1. boot # "up" /\ UNCHANGED <<pc, wrote, outstanding>>
    BY Zenon, <1>11 DEF Recover, ReadHead, RecoverInstall, RecoverClear, opVars, logVars
  <2> QED
    BY <1>2, <2>1, BootFacts DEF InOp
<1>12. CASE UNCHANGED vars
  <2>1. Credits' = Credits
    BY <1>12 DEF vars, Credits, InOp
  <2> QED
    BY <1>1, <1>12, <2>1 DEF vars, InOp, Logged
<1> QED
  BY <1>3, <1>4, <1>5, <1>6, <1>8, <1>9, <1>10, <1>11, <1>12 DEF Next, OpStep

(* begin_op never admits more calls than the header has slots for, for any *)
(* MAXOPBLOCKS and LOGSIZE.                                                *)
THEOREM LogReservation == Spec => []Reservation
<1>1. Budget => Reservation
  BY DEF Budget
<1> QED
  BY <1>1, InitBudget, NextBudget, Invariance, PTL DEF Spec
=============================================================================
