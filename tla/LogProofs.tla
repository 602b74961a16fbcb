------------------------------ MODULE LogProofs -----------------------------
(***************************************************************************)
(* The invariant of LogInvariant through the rest of the commit, crashes   *)
(* and recovery, and the safety theorems of kernel/log.c it gives.         *)
(***************************************************************************)
EXTENDS LogInvariant

LEMMA InstallIInv ==
    ASSUME IInv, NEW o \in Op, Install(o)
    PROVE  IInv'
<1> USE DEF IInv, Install, Goto, logVars
<1>0. /\ boot = "up" /\ committing
      /\ \A q \in Op : q # o => pc[q] \notin CommitPC
      /\ \A b \in Block : holder[b] = NoOp
      /\ lh.n \in Nat /\ lh.n <= LOGSIZE
      /\ tail \in Nat /\ tail >= 1 /\ tail <= lh.n + 1
      /\ SameHeader /\ Installed(tail - 1)
      /\ \A i \in tail .. lh.n : logblk[i] = buf[lh.block[i]]
  <2>1. tail \in Nat /\ tail >= 1
    BY LogAssumption DEF TypeOK
  <2>2. /\ boot = "up" /\ committing
        /\ \A q \in Op : q # o => pc[q] \notin CommitPC
        /\ \A b \in Block : holder[b] = NoOp
    BY CommitterFacts DEF CommitPC
  <2> QED
    BY <2>1, <2>2, PinnedFacts DEF Phases
<1>1. CASE InstallOne(FALSE) /\ UNCHANGED pc
  <2> DEFINE b == lh.block[tail]
  <2> USE <1>1 DEF InstallOne
  <2>1. /\ tail \in 1 .. lh.n /\ tail \in Slot /\ b \in Block
        /\ pins[b] = 1 /\ logblk[tail] \in Value
        /\ logblk[tail] = buf[b]
    <3>1. tail \in 1 .. lh.n /\ tail \in tail .. lh.n
      BY <1>0
    <3>2. PinnedSlot(tail) /\ tail \in Slot /\ b \in Block
      BY <3>1, PinnedFacts
    <3> QED
      BY <1>0, <3>1, <3>2 DEF Pins, TypeOK
  <2>2. \A i \in 1 .. lh.n : i # tail => lh.block[i] # b /\ lh.block[i] \in Block
    BY <2>1, PinnedFacts DEF Distinct
  <2>3. TypeOK'
    <3>1. pins' \in [Block -> 0 .. 1]
      BY <2>1 DEF TypeOK
    <3>2. tail' \in 1 .. LOGSIZE + 1
      BY SMTT(30), <1>0, LogAssumption
    <3> QED
      BY <2>1, <3>1, <3>2 DEF TypeOK
  <2>4. Pins'
    <3>1. \A i \in Slot : PinnedSlot(i) <=> i \in tail .. lh.n
      BY <1>0 DEF PinnedSlot, CommitPC, Slot
    <3>2. \A i \in Slot : PinnedSlot(i)' <=> i \in tail + 1 .. lh.n
      BY <1>0 DEF PinnedSlot, CommitPC, Slot
    <3>3. \A i \in tail + 1 .. lh.n : i \in tail .. lh.n /\ i \in 1 .. lh.n /\ i # tail
      BY <1>0
    <3>4. ASSUME NEW i \in Slot, PinnedSlot(i)'
          PROVE  pins'[lh.block[i]] = 1
      BY SMTT(30), <2>2, <3>1, <3>2, <3>3, <3>4 DEF Pins, TypeOK
    <3>5. ASSUME NEW x \in Block, pins'[x] = 1
          PROVE  \E i \in Slot : PinnedSlot(i)' /\ lh'.block[i] = x
      <4>1. x # b /\ pins[x] = 1
        BY <2>1, <3>5 DEF TypeOK
      <4>2. PICK i \in Slot : PinnedSlot(i) /\ lh.block[i] = x
        BY <4>1 DEF Pins
      <4>3. i \in tail + 1 .. lh.n
        BY <1>0, <3>1, <4>1, <4>2 DEF Slot
      <4> QED
        BY <3>2, <4>2, <4>3
    <3> QED
      BY <3>4, <3>5 DEF Pins
  <2>5. Buffers'
    BY <1>0, <2>1, LogAssumption DEF Buffers, TypeOK
  <2>6. Phases'
    <3>1. Installed(tail - 1)'
      <4>1. \A i \in 1 .. tail : i \in 1 .. lh.n /\ (i = tail \/ i \in 1 .. tail - 1)
        BY <1>0
      <4>2. \A i \in 1 .. tail : home'[lh.block[i]] = logblk[i]
        BY SMTT(30), <1>0, <2>1, <2>2, <4>1 DEF Installed, TypeOK
      <4>3. tail' - 1 = tail
        BY <1>0
      <4> QED
        BY <4>2, <4>3 DEF Installed
    <3>2. \A i \in tail' .. lh.n : logblk[i] = buf'[lh.block[i]]
      <4>1. \A i \in tail' .. lh.n : i \in tail .. lh.n /\ i \in 1 .. lh.n /\ i # tail
        BY <1>0
      <4> QED
        BY <1>0, <2>1, <2>2, <4>1 DEF TypeOK
    <3>3. tail' <= lh.n + 1
      BY <1>0
    <3> QED
      BY SMTT(30), <1>0, <3>1, <3>2, <3>3 DEF Phases, CommitPC, SameHeader
  <2> QED
    BY <2>3, <2>4, <2>5, <2>6 DEF Calls, InOpSet, InOp, Holders, Distinct
<1>2. CASE /\ tail > lh.n
           /\ Goto(o, "clear")
           /\ UNCHANGED <<home, buf, pins, tail>>
  <2> USE <1>2
  <2>0. /\ Calls' /\ Holders' /\ pc' \in [Op -> OpPC]
        /\ pc'[o] = "clear"
        /\ \A q \in Op : q # o => pc'[q] \notin CommitPC
    BY Zenon, CommitterMoves DEF CommitPC
  <2>1. TypeOK'
    BY <2>0 DEF TypeOK
  <2>2. Installed(lh.n)' /\ tail = lh.n + 1
    BY <1>0 DEF Installed
  <2>3. Phases'
    BY <1>0, <2>0, <2>2 DEF Phases, CommitPC, SameHeader
  <2>4. \A i \in Slot : ~PinnedSlot(i)' /\ ~PinnedSlot(i)
    <3>1. \A i \in Slot : ~(i <= lh.n /\ i >= tail)
      BY SMTT(30), <1>0 DEF Slot
    <3> QED
      BY <2>0, <3>1 DEF PinnedSlot
  <2> QED
    BY <2>0, <2>1, <2>3, <2>4 DEF Distinct, Pins, Buffers
<1> QED
  BY Zenon, <1>1, <1>2

LEMMA ClearHeadIInv ==
    ASSUME IInv, NEW o \in Op, ClearHead(o)
    PROVE  IInv'
<1> USE DEF IInv, ClearHead, Goto, cacheVars
<1>0. /\ boot = "up"
      /\ \A q \in Op : q # o => pc[q] \notin CommitPC
  BY CommitterFacts DEF CommitPC
<1>1. /\ Calls' /\ Holders' /\ pc' \in [Op -> OpPC]
      /\ pc'[o] = "finish"
      /\ \A q \in Op : q # o => pc'[q] \notin CommitPC
  BY Zenon, CommitterMoves DEF CommitPC
<1>2. hdr' \in Header /\ hdr'.n = 0 /\ lh' \in Header /\ lh'.n = 0
  BY LogAssumption DEF TypeOK, Header
<1>3. TypeOK'
  BY <1>1, <1>2 DEF TypeOK
<1>4. Distinct(hdr)' /\ Distinct(lh)'
  BY <1>2 DEF Distinct
<1>5. \A i \in Slot : ~PinnedSlot(i) /\ ~PinnedSlot(i)'
  BY <1>2 DEF PinnedSlot, Slot
<1>6. Phases'
  BY <1>0, <1>1, <1>2 DEF Phases, CommitPC
<1> QED
  BY <1>1, <1>3, <1>4, <1>5, <1>6 DEF Pins, Buffers

LEMMA FinishCommitIInv ==
    ASSUME IInv, NEW o \in Op, FinishCommit(o)
    PROVE  IInv'
<1> USE DEF IInv, FinishCommit, diskVars, cacheVars
<1>0. /\ boot = "up" /\ lh.n = 0 /\ hdr.n = 0
      /\ \A q \in Op : q # o => pc[q] \notin CommitPC
      /\ \A q \in Op : ~InOp(q)
  BY CommitterFacts DEF CommitPC, Phases
<1>1. /\ pc'[o] = "idle"
      /\ \A q \in Op : q # o => pc'[q] = IF pc[q] = "asleep" THEN "begin" ELSE pc[q]
      /\ pc' \in [Op -> OpPC]
  BY DEF WakeupAndGoto, TypeOK, OpPC
<1>2. TypeOK'
  BY Zenon, <1>1 DEF TypeOK
<1>3. \A q \in Op : pc'[q] \notin CommitPC
  BY <1>0, <1>1 DEF CommitPC
<1>4. Calls'
  <2>1. InOpSet' = InOpSet
    BY <1>0, <1>1 DEF InOpSet, InOp
  <2> QED
    BY <1>0, <1>1, <1>3, <2>1 DEF Calls
<1>5. Holders'
  BY SMTT(30), <1>1 DEF Holders
<1>6. \A i \in Slot : ~PinnedSlot(i) /\ ~PinnedSlot(i)'
  <2>1. \A i \in Slot : ~(i <= lh.n)
    BY <1>0, LogAssumption DEF Slot
  <2> QED
    BY <2>1 DEF PinnedSlot
<1>7. Phases'
  BY <1>0, <1>3 DEF Phases, CommitPC
<1> QED
  BY <1>2, <1>4, <1>5, <1>6, <1>7 DEF Distinct, Pins, Buffers

LEMMA CrashIInv ==
    ASSUME IInv, Crash
    PROVE  IInv'
<1> USE DEF IInv, Crash, diskVars
<1>0. (CHOOSE b \in Block : TRUE) \in Block
  BY LogAssumption
<1>1. lh' \in Header /\ lh'.n = 0
  BY EmptyHeaderType
<1>2. TypeOK'
  <2>1. tail' \in 1 .. LOGSIZE + 1
    BY LogAssumption
  <2>2. /\ pins' \in [Block -> 0 .. 1] /\ buf' \in [Block -> Value \cup {NotCached}]
        /\ holder' \in [Block -> Op \cup {NoOp}]
    OBVIOUS
  <2>3. pc' \in [Op -> OpPC] /\ cur' \in [Op -> Block] /\ wrote' \in [Op -> SUBSET Block]
    BY <1>0 DEF OpPC
  <2> QED
    BY Zenon, <1>1, <2>1, <2>2, <2>3 DEF TypeOK
<1>3. Calls'
  <2>1. InOpSet' = {}
    BY DEF InOpSet, InOp
  <2> QED
    BY <2>1, FS_EmptySet DEF Calls, CommitPC
<1>4. Holders'
  BY LogAssumption DEF Holders
<1>5. Distinct(lh)' /\ Distinct(hdr)'
  BY <1>1 DEF Distinct
<1>6. Pins'
  BY DEF Pins, PinnedSlot
<1>7. Buffers'
  BY DEF Buffers
<1>8. Phases'
  BY <1>1 DEF Phases
<1> QED
  BY <1>2, <1>3, <1>4, <1>5, <1>6, <1>7, <1>8

LEMMA ReadHeadIInv ==
    ASSUME IInv, ReadHead
    PROVE  IInv'
<1> USE DEF IInv, ReadHead, diskVars, cacheVars, opVars
<1>0. \A o \in Op : pc[o] = "idle"
  BY BootFacts
<1>1. /\ lh' \in Header
      /\ lh'.n = hdr.n
      /\ \A i \in 1 .. hdr.n : lh'.block[i] = hdr.block[i]
      /\ hdr.n \in Nat
  <2>1. lh.block \in [Slot -> Block] /\ hdr.block \in [Slot -> Block]
        /\ hdr.n \in 0 .. LOGSIZE
    BY DEF TypeOK, Header
  <2>2. lh' \in Header /\ lh'.n = hdr.n
    BY <2>1 DEF Header
  <2>3. \A i \in Slot : lh'.block[i] = IF i <= hdr.n THEN hdr.block[i] ELSE lh.block[i]
    OBVIOUS
  <2>4. \A i \in 1 .. hdr.n : i \in Slot /\ i <= hdr.n
    BY <2>1, LogAssumption DEF Slot
  <2> QED
    BY <2>1, <2>2, <2>3, <2>4
<1>2. TypeOK'
  BY <1>1, LogAssumption DEF TypeOK
<1>3. Calls'
  BY <1>0 DEF Calls, InOpSet, InOp
<1>4. Holders'
  BY DEF Holders
<1>5. Distinct(lh)' /\ Distinct(hdr)'
  BY <1>1 DEF Distinct
<1>6. Pins'
  BY DEF Pins, PinnedSlot
<1>7. Buffers'
  BY DEF Buffers
<1>8. Phases'
  <2>1. SameHeader' /\ Installed(tail - 1)' /\ tail' <= lh'.n + 1
    BY <1>1 DEF SameHeader, Installed
  <2> QED
    BY <1>0, <2>1 DEF Phases
<1> QED
  BY <1>2, <1>3, <1>4, <1>5, <1>6, <1>7, <1>8

LEMMA RecoverInstallIInv ==
    ASSUME IInv, RecoverInstall
    PROVE  IInv'
<1> USE DEF IInv, RecoverInstall, logVars, opVars
<1>0. /\ \A o \in Op : pc[o] = "idle"
      /\ \A b \in Block : holder[b] = NoOp /\ pins[b] = 0
      /\ lh.n \in Nat /\ lh.n <= LOGSIZE
      /\ tail \in Nat /\ tail >= 1 /\ tail <= lh.n + 1
      /\ SameHeader /\ Installed(tail - 1)
  <2>1. tail \in Nat /\ tail >= 1
    BY LogAssumption DEF TypeOK
  <2> QED
    BY <2>1, BootFacts, PinnedFacts DEF Phases
<1>1. Calls'
  BY <1>0 DEF Calls, InOpSet, InOp
<1>2. Holders' /\ Distinct(lh)' /\ Distinct(hdr)'
  BY DEF Holders, Distinct
<1>3. CASE InstallOne(TRUE) /\ UNCHANGED boot
  <2> DEFINE b == lh.block[tail]
  <2>1. /\ TypeOK /\ Distinct(lh) /\ Pins /\ Buffers /\ Phases
        /\ boot = "install" /\ boot' = boot
        /\ home' = [home EXCEPT ![b] = logblk[tail]]
        /\ buf' = [buf EXCEPT ![b] = logblk[tail]]
        /\ UNCHANGED <<pins, logblk, hdr, holder, lh, outstanding, committing>>
        /\ UNCHANGED <<pc, cur, wrote>>
    BY <1>3 DEF InstallOne
  <2>2. tail <= lh.n /\ tail' = tail + 1
    BY <1>3 DEF InstallOne
  <2>3. /\ tail \in 1 .. lh.n /\ tail' \in 1 .. LOGSIZE + 1
        /\ tail' <= lh.n + 1 /\ tail' - 1 = tail
    <3> HIDE DEF IInv, RecoverInstall
    <3> QED
      BY <1>0, <2>2, LogAssumption
  <2> HIDE DEF IInv, RecoverInstall, b
  <2>4. tail \in Slot /\ b \in Block /\ logblk[tail] \in Value
    BY <2>1, <2>3, PinnedFacts DEF TypeOK, b
  <2>5. \A i \in 1 .. lh.n : i # tail => lh.block[i] # b /\ lh.block[i] \in Block
    BY <2>1, <2>3, PinnedFacts DEF Distinct, b
  <2>6. TypeOK'
    BY <2>1, <2>3, <2>4 DEF TypeOK
  <2>7. Pins'
    BY <2>1 DEF Pins, PinnedSlot
  <2>8. Buffers'
    BY <1>0, <2>1, <2>4 DEF Buffers, TypeOK
  <2>9. Phases'
    <3>1. \A i \in 1 .. tail : i \in 1 .. lh.n /\ (i = tail \/ i \in 1 .. tail - 1)
      BY <1>0, <2>2
    <3>2. \A i \in 1 .. tail : home'[lh.block[i]] = logblk[i]
      BY <1>0, <2>1, <2>4, <2>5, <3>1 DEF Installed, TypeOK, b
    <3>3. Installed(tail - 1)'
      BY <2>1, <2>3, <3>2 DEF Installed
    <3> QED
      BY <1>0, <2>1, <2>3, <3>3 DEF Phases, SameHeader
  <2> QED
    BY <1>1, <1>2, <2>6, <2>7, <2>8, <2>9 DEF IInv
<1>4. CASE tail > lh.n /\ boot' = "clear" /\ UNCHANGED <<home, buf, pins, tail>>
  <2> USE <1>4
  <2>1. TypeOK'
    BY DEF TypeOK
  <2>2. Installed(lh.n)' /\ SameHeader'
    BY SMTT(30), <1>0 DEF Installed, SameHeader
  <2>3. Phases'
    BY <1>0, <2>2 DEF Phases
  <2>4. Pins' /\ Buffers'
    BY DEF Pins, PinnedSlot, Buffers
  <2> QED
    BY <1>1, <1>2, <2>1, <2>3, <2>4
<1> QED
  BY Zenon, <1>3, <1>4

LEMMA RecoverClearIInv ==
    ASSUME IInv, RecoverClear
    PROVE  IInv'
<1> USE DEF IInv, RecoverClear, cacheVars, opVars
<1>0. /\ \A o \in Op : pc[o] = "idle"
      /\ \A b \in Block : pins[b] = 0
  BY BootFacts
<1>1. hdr' \in Header /\ hdr'.n = 0 /\ lh' \in Header /\ lh'.n = 0
  BY LogAssumption DEF TypeOK, Header
<1>2. TypeOK'
  BY <1>1 DEF TypeOK
<1>3. Calls'
  BY <1>0 DEF Calls, InOpSet, InOp
<1>4. Holders' /\ Distinct(lh)' /\ Distinct(hdr)'
  BY <1>1 DEF Holders, Distinct
<1>5. Pins'
  <2>1. \A i \in Slot : ~PinnedSlot(i)'
    BY <1>1 DEF PinnedSlot, Slot
  <2> QED
    BY <1>0, <2>1 DEF Pins
<1>6. Buffers'
  BY DEF Buffers
<1>7. Phases'
  BY <1>0, <1>1 DEF Phases
<1> QED
  BY <1>2, <1>3, <1>4, <1>5, <1>6, <1>7

LEMMA NextIInv == IInv /\ [Next]_vars => IInv'
<1> SUFFICES ASSUME IInv, [Next]_vars PROVE IInv'
  OBVIOUS
<1>1. ASSUME NEW o \in Op, OpStep(o) PROVE IInv'
  BY <1>1, BeginOpIInv, ModifyIInv, LogWriteIInv, EndOpIInv, WriteLogIInv, WriteHeadIInv,
     InstallIInv, ClearHeadIInv, FinishCommitIInv DEF OpStep
<1>2. ASSUME NEW b \in Block, Load(b) \/ Recycle(b) PROVE IInv'
  BY <1>2, CacheIInv
<1>3. CASE Crash
  BY <1>3, CrashIInv
<1>4. CASE Recover
  BY <1>4, ReadHeadIInv, RecoverInstallIInv, RecoverClearIInv DEF Recover
<1>5. CASE UNCHANGED vars
  <2> USE <1>5 DEF vars, IInv
  <2>0. TypeOK'
    BY SMTT(30) DEF TypeOK
  <2>1. Holders' /\ Buffers' /\ Distinct(lh)' /\ Distinct(hdr)'
    BY DEF Holders, Buffers, Distinct
  <2>2. Calls'
    BY DEF Calls, InOpSet, InOp
  <2>3. Pins'
    BY DEF Pins, PinnedSlot
  <2>4. Phases'
    BY DEF Phases, SameHeader, Installed, Copied
  <2> QED
    BY <2>0, <2>1, <2>2, <2>3, <2>4
<1> QED
  BY <1>1, <1>2, <1>3, <1>4, <1>5 DEF Next

(* IInv holds in every reachable state, through crashes and recoveries.    *)
THEOREM Invariance == Spec => []IInv
  BY InitIInv, NextIInv, PTL DEF Spec

-----------------------------------------------------------------------------
(* log.c never panics with "log_write outside of trans" or                 *)
(* "log.committing".                                                       *)
THEOREM LogNoPanic == Spec => []NoPanic
<1>1. IInv => NoPanic
  BY DEF IInv, Calls, NoPanic
<1> QED
  BY <1>1, Invariance, PTL

(* Outside a commit, exactly the logged blocks are pinned in the cache.    *)
THEOREM LogPinsMatch == Spec => []PinsMatchLog
<1>1. IInv => PinsMatchLog
  <2> SUFFICES ASSUME IInv, boot = "up", ~committing, NEW b \in Block
               PROVE  pins[b] = IF b \in Logged(lh) THEN 1 ELSE 0
    BY DEF PinsMatchLog
  <2>1. b \in Logged(lh) => pins[b] = 1
    BY PinnedFacts DEF Logged
  <2>2. pins[b] = 1 => b \in Logged(lh)
    <3> SUFFICES ASSUME pins[b] = 1 PROVE b \in Logged(lh)
      OBVIOUS
    <3>1. PICK i \in Slot : PinnedSlot(i) /\ lh.block[i] = b
      BY DEF IInv, Pins
    <3>2. i \in 1 .. lh.n
      BY <3>1, PinnedFacts DEF PinnedSlot, Slot
    <3> QED
      BY <3>1, <3>2 DEF Logged
  <2> QED
    BY <2>1, <2>2 DEF IInv, TypeOK
<1> QED
  BY <1>1, Invariance, PTL

(* The header count stays within LOGSIZE, in memory and on disk, and every *)
(* slot in it names a block, through commits, crashes and recovery.        *)
THEOREM LogTypeOK == Spec => []TypeOK
<1>1. IInv => TypeOK
  BY DEF IInv
<1> QED
  BY <1>1, Invariance, PTL
=============================================================================
