---------------------------- MODULE LogRefinement ---------------------------
(***************************************************************************)
(* Crash atomicity of kernel/log.c, for any number of system calls,        *)
(* blocks, values and log slots: Log implements AtomicDisk.                *)
(***************************************************************************)
EXTENDS LogProofs

(* Reading Recovered: the slot of a logged block, else the home block.     *)
LEMMA RecoveredAt ==
    ASSUME NEW h \in Header, Distinct(h), NEW slots, NEW blocks
    PROVE  /\ \A i \in 1 .. h.n : Recovered(h, slots, blocks)[h.block[i]] = slots[i]
           /\ \A b \in Block : b \notin Logged(h) => Recovered(h, slots, blocks)[b] = blocks[b]
<1>0. \A i \in 1 .. h.n : h.block[i] \in Block
  <2>1. h.n \in 0 .. LOGSIZE /\ h.block \in [Slot -> Block]
    BY DEF Header
  <2>2. \A i \in 1 .. h.n : i \in Slot
    BY <2>1, LogAssumption DEF Slot
  <2> QED
    BY <2>1, <2>2
<1>1. ASSUME NEW i \in 1 .. h.n
      PROVE  Recovered(h, slots, blocks)[h.block[i]] = slots[i]
  <2> DEFINE b == h.block[i]
             j == CHOOSE k \in 1 .. h.n : h.block[k] = b
  <2>1. j \in 1 .. h.n /\ h.block[j] = b
    OBVIOUS
  <2>2. j = i
    BY <2>1 DEF Distinct
  <2>3. b \in Block /\ b \in Logged(h)
    BY <1>0 DEF Logged
  <2>4. Recovered(h, slots, blocks)[b] = slots[j]
    BY Zenon, <2>3 DEF Recovered
  <2> QED
    BY Zenon, <2>2, <2>4
<1>2. \A b \in Block : b \notin Logged(h) => Recovered(h, slots, blocks)[b] = blocks[b]
  BY DEF Recovered
<1> QED
  BY <1>1, <1>2

(* Steps that leave the disk alone leave Durable alone.                    *)
LEMMA DurableUnchanged == UNCHANGED diskVars => Durable' = Durable
  BY DEF diskVars, Durable

(* With an empty header, Durable is the home blocks.                       *)
LEMMA DurableEmpty ==
    ASSUME hdr.n = 0, home \in [Block -> Value]
    PROVE  Durable = home
  BY DEF Durable, Recovered, Logged

(* A disk whose log is fully installed reads the same without the log.     *)
LEMMA InstalledDurable ==
    ASSUME IInv, SameHeader, Installed(lh.n)
    PROVE  Durable = home
<1>1. \A b \in Block : Durable[b] = home[b]
  <2> SUFFICES ASSUME NEW b \in Block PROVE Durable[b] = home[b]
    OBVIOUS
  <2>1. CASE b \notin Logged(hdr)
    BY <2>1, RecoveredAt DEF Durable, IInv, TypeOK
  <2>2. CASE b \in Logged(hdr)
    <3>1. PICK i \in 1 .. hdr.n : hdr.block[i] = b
      BY <2>2 DEF Logged
    <3>2. Durable[b] = logblk[i]
      BY <3>1, RecoveredAt DEF Durable, IInv, TypeOK
    <3>3. home[b] = logblk[i]
      BY <3>1 DEF SameHeader, Installed
    <3> QED
      BY <3>2, <3>3
  <2> QED
    BY <2>1, <2>2
<1> QED
  BY <1>1 DEF IInv, TypeOK, Durable, Recovered

(* Installing slot k, whose block is logged at k, does not change Durable. *)
LEMMA InstallDurable ==
    ASSUME IInv, SameHeader, tail \in 1 .. lh.n,
           home' = [home EXCEPT ![lh.block[tail]] = logblk[tail]],
           UNCHANGED <<logblk, hdr>>
    PROVE  Durable' = Durable
<1>1. lh.block[tail] \in Logged(hdr)
  BY DEF SameHeader, Logged
<1>2. \A b \in Block : b \notin Logged(hdr) => home'[b] = home[b]
  BY <1>1 DEF IInv, TypeOK
<1> QED
  BY <1>2 DEF Durable, Recovered

LEMMA RefineInit == Init => AD!Init
<1> SUFFICES ASSUME Init PROVE AD!Init
  OBVIOUS
<1>1. hdr.n = 0 /\ home \in [Block -> Value] /\ boot = "up" /\ outstanding = 0
  BY EmptyHeaderType DEF Init
<1>2. Durable = home
  BY <1>1, DurableEmpty
<1>3. View = home
  BY <1>1 DEF Init, View, Bread
<1> QED
  BY <1>1, <1>2, <1>3 DEF AD!Init

LEMMA RefineNext == IInv /\ IInv' /\ [Next]_vars => [AD!Next]_AD!vars
<1> SUFFICES ASSUME IInv, IInv', [Next]_vars PROVE AD!Next \/ UNCHANGED AD!vars
  OBVIOUS
<1> USE DEF AD!vars
<1>1. ASSUME NEW o \in Op, BeginOp(o)
      PROVE  AD!Next \/ UNCHANGED AD!vars
  <2>1. Durable' = Durable /\ View' = View
    BY <1>1, DurableUnchanged DEF BeginOp, cacheVars, diskVars, View, Bread
  <2>2. outstanding' = outstanding \/ outstanding' = outstanding + 1
    BY <1>1 DEF BeginOp
  <2> QED
    BY <2>1, <2>2 DEF AD!Next, AD!Begin
<1>2. ASSUME NEW o \in Op, NEW b \in Block, NEW v \in Value, Modify(o, b, v)
      PROVE  AD!Next
  <2>1. boot = "up" /\ outstanding > 0
    BY <1>2, InOpFacts DEF Modify, InOp
  <2>2. Durable' = Durable /\ outstanding' = outstanding
    BY <1>2, DurableUnchanged DEF Modify, logVars
  <2>3. View' = [View EXCEPT ![b] = v]
    <3>1. View = [x \in Block |-> Bread(x)] /\ View' = [x \in Block |-> Bread(x)']
      BY <1>2, <2>1 DEF Modify, View
    <3>2. Bread(b)' = v
      BY <1>2, LogAssumption DEF Modify, Bread, IInv, TypeOK
    <3>3. \A x \in Block : x # b => Bread(x)' = Bread(x)
      BY <1>2 DEF Modify, diskVars, Bread, IInv, TypeOK
    <3> QED
      BY <3>1, <3>2, <3>3
  <2> QED
    BY Zenon, <2>1, <2>2, <2>3 DEF AD!Next, AD!Write
<1>3. ASSUME NEW o \in Op, LogWrite(o)
      PROVE  UNCHANGED AD!vars
  BY <1>3, DurableUnchanged DEF LogWrite, View, Bread, diskVars
<1>4. ASSUME NEW o \in Op, EndOp(o)
      PROVE  AD!Next
  <2>1. outstanding > 0
    BY <1>4, InOpFacts DEF EndOp, InOp
  <2>2. Durable' = Durable /\ View' = View /\ outstanding' = outstanding - 1
    BY <1>4, DurableUnchanged DEF EndOp, View, Bread, diskVars, cacheVars
  <2> QED
    BY <2>1, <2>2 DEF AD!Next, AD!End
<1>5. ASSUME NEW o \in Op, WriteLog(o)
      PROVE  UNCHANGED AD!vars
  <2>1. hdr.n = 0 /\ home \in [Block -> Value] /\ boot = "up"
    <3>1. boot = "up" /\ \A q \in Op : q # o => pc[q] \notin CommitPC
      BY <1>5, CommitterFacts DEF WriteLog, CommitPC
    <3> QED
      BY <1>5, <3>1 DEF WriteLog, CommitPC, IInv, Phases, TypeOK
  <2>2. Durable = home /\ Durable' = home
    BY <1>5, <2>1, DurableEmpty DEF WriteLog, Durable, Recovered, Logged
  <2>3. View' = View /\ outstanding' = outstanding
    BY <1>5, <2>1 DEF WriteLog, cacheVars, logVars, View, Bread
  <2> QED
    BY <2>2, <2>3
<1>6. ASSUME NEW o \in Op, WriteHead(o)
      PROVE  AD!Next
  <2>1. /\ boot = "up" /\ outstanding = 0
        /\ \A b \in Block : holder[b] = NoOp
    BY <1>6, CommitterFacts DEF WriteHead, CommitPC
  <2>2. View' = View /\ outstanding' = outstanding /\ View = [b \in Block |-> Bread(b)]
    BY <1>6, <2>1 DEF WriteHead, cacheVars, logVars, View, Bread
  <2>3. SameHeader' /\ lh' = lh /\ logblk' = logblk /\ home' = home /\ buf' = buf
    BY <1>6 DEF WriteHead, Goto, IInv, TypeOK, Phases, logVars, cacheVars
  <2>4. Copied(lh.n)
    BY <1>6 DEF WriteHead, IInv, Phases
  <2>5. \A b \in Block : Durable'[b] = Bread(b)
    <3> SUFFICES ASSUME NEW b \in Block PROVE Durable'[b] = Bread(b)
      OBVIOUS
    <3>1. CASE b \in Logged(lh)
      <4>1. PICK i \in 1 .. lh.n : lh.block[i] = b
        BY <3>1 DEF Logged
      <4>2. i \in 1 .. hdr'.n /\ hdr'.block[i] = b
        BY <2>3, <4>1 DEF SameHeader
      <4>3. Durable'[b] = logblk[i]
        <5>1. Durable'[hdr'.block[i]] = logblk'[i]
          BY <4>2, RecoveredAt DEF Durable, IInv, TypeOK
        <5> QED
          BY <2>3, <4>2, <5>1
      <4>4. pins[b] = 1
        BY <1>6, <4>1, PinnedFacts DEF WriteHead
      <4>5. Bread(b) = buf[b]
        BY <4>4 DEF Bread, IInv, Buffers
      <4> QED
        BY <2>4, <4>1, <4>3, <4>5 DEF Copied
    <3>2. CASE b \notin Logged(lh)
      <4>1. b \notin Logged(hdr)'
        BY <2>3, <3>2 DEF SameHeader, Logged
      <4>2. Durable'[b] = home[b]
        BY <2>3, <4>1, RecoveredAt DEF Durable, IInv, TypeOK
      <4>3. pins[b] = 0
        <5>1. pins[b] # 1
          <6> SUFFICES ASSUME pins[b] = 1 PROVE FALSE
            OBVIOUS
          <6>1. PICK i \in Slot : PinnedSlot(i) /\ lh.block[i] = b
            BY DEF IInv, Pins
          <6>2. i \in 1 .. lh.n
            BY <6>1, PinnedFacts DEF PinnedSlot, Slot
          <6> QED
            BY <3>2, <6>1, <6>2 DEF Logged
        <5> QED
          BY <5>1 DEF IInv, TypeOK
      <4> QED
        BY <2>1, <4>2, <4>3 DEF Bread, IInv, Buffers
    <3> QED
      BY <3>1, <3>2
  <2>6. Durable' = View
    BY <2>2, <2>5 DEF Durable, Recovered
  <2> QED
    BY <2>1, <2>2, <2>6 DEF AD!Next, AD!Commit
<1>7. ASSUME NEW o \in Op, Install(o)
      PROVE  UNCHANGED AD!vars
  <2>0. boot = "up" /\ boot' = "up" /\ outstanding' = outstanding
    BY <1>7, CommitterFacts DEF Install, CommitPC, logVars
  <2>1. CASE InstallOne(FALSE)
    <3>1. /\ tail \in 1 .. lh.n /\ SameHeader /\ lh.block[tail] \in Block
          /\ logblk[tail] = buf[lh.block[tail]]
          /\ pins[lh.block[tail]] = 1
      <4>1. tail \in 1 .. lh.n /\ tail \in tail .. lh.n
        <5>1. tail <= lh.n
          BY <2>1 DEF InstallOne
        <5>2. tail \in Nat /\ tail >= 1
          BY LogAssumption DEF IInv, TypeOK
        <5> QED
          BY <5>1, <5>2, PinnedFacts
      <4> QED
        BY <1>7, <4>1, PinnedFacts DEF Install, IInv, Phases
    <3>2. Durable' = Durable
      BY <1>7, <2>1, <3>1, InstallDurable DEF Install, InstallOne
    <3>3. buf[lh.block[tail]] # NotCached
      BY SMTT(30), <3>1 DEF IInv, Buffers
    <3>4. \A b \in Block : Bread(b)' = Bread(b)
      BY <2>1, <3>1, <3>3 DEF InstallOne, Bread, IInv, TypeOK
    <3> QED
      BY <2>0, <3>2, <3>4 DEF View
  <2>2. CASE UNCHANGED <<home, buf>>
    BY <1>7, <2>0, <2>2 DEF Install, Durable, View, Bread
  <2> QED
    BY ZenonT(30), <1>7, <2>1, <2>2 DEF Install
<1>8. ASSUME NEW o \in Op, ClearHead(o)
      PROVE  UNCHANGED AD!vars
  <2>1. boot = "up" /\ SameHeader /\ Installed(lh.n)
    BY <1>8, CommitterFacts DEF ClearHead, CommitPC, IInv, Phases
  <2>2. Durable = home
    BY <2>1, InstalledDurable
  <2>3. Durable' = home
    <3>1. hdr'.n = 0 /\ home' = home /\ home \in [Block -> Value]
      BY <1>8 DEF ClearHead, IInv, TypeOK, Header
    <3> QED
      BY <3>1 DEF Durable, Recovered, Logged
  <2> QED
    BY <1>8, <2>1, <2>2, <2>3 DEF ClearHead, cacheVars, View, Bread
<1>9. ASSUME NEW o \in Op, FinishCommit(o)
      PROVE  UNCHANGED AD!vars
  BY <1>9, DurableUnchanged DEF FinishCommit, diskVars, cacheVars, View, Bread
<1>10. ASSUME NEW b \in Block, Load(b) \/ Recycle(b)
       PROVE  UNCHANGED AD!vars
  <2>1. \A x \in Block : Bread(x)' = Bread(x)
    BY SMTT(30), <1>10 DEF Load, Recycle, Bread, diskVars, IInv, TypeOK, Buffers
  <2>2. Durable' = Durable /\ outstanding' = outstanding /\ boot' = boot
    BY <1>10, DurableUnchanged DEF Load, Recycle, logVars
  <2> QED
    BY <2>1, <2>2 DEF View
<1>11. CASE Crash
  BY <1>11, DurableUnchanged DEF Crash, View, AD!Next, AD!Crash
<1>12. CASE ReadHead
  BY <1>12, DurableUnchanged DEF ReadHead, View
<1>13. CASE RecoverInstall
  <2>0. boot # "up" /\ boot' # "up" /\ outstanding' = outstanding
    BY ZenonT(30), <1>13 DEF RecoverInstall, logVars
  <2>1. CASE InstallOne(TRUE)
    <3>1. tail \in 1 .. lh.n
      <4>1. tail <= lh.n
        BY <2>1 DEF InstallOne
      <4>2. tail \in Nat /\ tail >= 1
        BY LogAssumption DEF IInv, TypeOK
      <4>3. lh.n \in Nat
        BY PinnedFacts
      <4> QED
        BY <4>1, <4>2, <4>3
    <3>2. SameHeader
      BY <1>13 DEF RecoverInstall, IInv, Phases
    <3> QED
      BY <1>13, <2>0, <2>1, <3>1, <3>2, InstallDurable DEF RecoverInstall, InstallOne, View
  <2>2. CASE UNCHANGED home
    BY <1>13, <2>0, <2>2 DEF RecoverInstall, Durable, View
  <2> QED
    BY Zenon, <1>13, <2>1, <2>2 DEF RecoverInstall
<1>14. CASE RecoverClear
  <2>1. SameHeader /\ Installed(lh.n) /\ boot # "up" /\ boot' = "up"
    BY <1>14 DEF RecoverClear, IInv, Phases
  <2>2. Durable = home
    BY <2>1, InstalledDurable
  <2>3. Durable' = home
    <3>1. hdr'.n = 0 /\ home' = home /\ home \in [Block -> Value]
      BY <1>14 DEF RecoverClear, IInv, TypeOK, Header
    <3> QED
      BY <3>1 DEF Durable, Recovered, Logged
  <2>4. \A b \in Block : Bread(b)' = home[b]
    BY <1>14, <2>1, BootFacts DEF RecoverClear, cacheVars, Bread, IInv, Buffers
  <2>5. View' = home
    BY <2>1, <2>4 DEF View, IInv, TypeOK
  <2> QED
    BY <1>14, <2>1, <2>2, <2>3, <2>5 DEF RecoverClear, View
<1>15. CASE UNCHANGED vars
  BY <1>15, DurableUnchanged DEF vars, diskVars, View, Bread
<1> QED
  BY <1>1, <1>2, <1>3, <1>4, <1>5, <1>6, <1>7, <1>8, <1>9, <1>10, <1>11, <1>12, <1>13,
     <1>14, <1>15 DEF Next, OpStep, Recover

(* Crash atomicity of log.c, for any instance: what recovery leaves is     *)
(* always the state of all blocks at some commit with no call in progress. *)
THEOREM LogImplementsAtomicDisk == Spec => AtomicCommit
  BY RefineInit, RefineNext, Invariance, PTL DEF Spec, AtomicCommit, AD!Spec
=============================================================================
