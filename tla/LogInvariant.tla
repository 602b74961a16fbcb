---------------------------- MODULE LogInvariant ----------------------------
(***************************************************************************)
(* The inductive invariant of kernel/log.c, and its preservation by the    *)
(* cache, by the system calls and by the first half of a commit.           *)
(***************************************************************************)
EXTENDS Log, FiniteSetTheorems, TLAPS

CommitPC == {"write_log", "write_head", "install", "clear", "finish"}

InOpSet == {o \in Op : InOp(o)}

(* Who is where: outstanding counts the calls in progress, one committer   *)
(* runs at a time and alone, nothing runs before recovery is done.         *)
Calls ==
    /\ outstanding = Cardinality(InOpSet)
    /\ committing <=> \E o \in Op : pc[o] \in CommitPC
    /\ \A o, q \in Op : pc[o] \in CommitPC /\ pc[q] \in CommitPC => o = q
    /\ committing => InOpSet = {}
    /\ boot # "up" => \A o \in Op : pc[o] = "idle"
    /\ \A o \in Op : pc[o] # "panic"

(* The buffer locked by a call is the one it is modifying.                 *)
Holders ==
    \A o \in Op, b \in Block :
        holder[b] = o <=> pc[o] \in {"modified", "full"} /\ cur[o] = b

(* A block is in a header at most once (log absorption).                   *)
Distinct(h) ==
    \A i, j \in 1 .. h.n : h.block[i] = h.block[j] => i = j

(* Slot i of the in-memory log is in use and its block still pinned.       *)
PinnedSlot(i) ==
    /\ boot = "up"
    /\ i <= lh.n
    /\ \A o \in Op : pc[o] # "clear" /\ (pc[o] = "install" => i >= tail)

(* bpin and bunpin keep exactly the blocks of such slots.                  *)
Pins ==
    /\ \A i \in Slot : PinnedSlot(i) => pins[lh.block[i]] = 1
    /\ \A b \in Block : pins[b] = 1 => \E i \in Slot : PinnedSlot(i) /\ lh.block[i] = b

(* A buffer that could be recycled equals its home block; the others stay  *)
(* cached.                                                                 *)
Buffers ==
    /\ \A b \in Block : pins[b] = 1 \/ holder[b] # NoOp => buf[b] # NotCached
    /\ \A b \in Block :
          pins[b] = 0 /\ holder[b] = NoOp /\ buf[b] # NotCached => buf[b] = home[b]

SameHeader == hdr.n = lh.n /\ \A i \in 1 .. lh.n : hdr.block[i] = lh.block[i]

(* Log slots 1 .. k hold what commit copied from the cache.                *)
Copied(k) == \A i \in 1 .. k : logblk[i] = buf[lh.block[i]]

(* Slots 1 .. k are installed at their home blocks.                        *)
Installed(k) == \A i \in 1 .. k : home[lh.block[i]] = logblk[i]

(* What the disk log contains in each phase.                               *)
Phases ==
    /\ boot = "up" /\ (\A o \in Op : pc[o] \notin {"install", "clear"}) => hdr.n = 0
    /\ \A o \in Op :
          /\ pc[o] = "write_log" => tail <= lh.n + 1 /\ Copied(tail - 1)
          /\ pc[o] = "write_head" => Copied(lh.n)
          /\ pc[o] = "install" =>
                /\ SameHeader
                /\ tail <= lh.n + 1
                /\ Installed(tail - 1)
                /\ \A i \in tail .. lh.n : logblk[i] = buf[lh.block[i]]
          /\ pc[o] = "clear" => SameHeader /\ Installed(lh.n)
          /\ pc[o] = "finish" => lh.n = 0
    /\ boot = "read_head" => lh.n = 0
    /\ boot = "install" => SameHeader /\ tail <= lh.n + 1 /\ Installed(tail - 1)
    /\ boot = "clear" => SameHeader /\ Installed(lh.n)

IInv ==
    /\ TypeOK
    /\ Calls
    /\ Holders
    /\ Distinct(lh) /\ Distinct(hdr)
    /\ Pins
    /\ Buffers
    /\ Phases

-----------------------------------------------------------------------------
(* Sets of calls are finite; one call entering or leaving changes their    *)
(* number by one.                                                          *)
LEMMA OpCardinality ==
    ASSUME NEW S \in SUBSET Op
    PROVE  /\ IsFiniteSet(S)
           /\ Cardinality(S) \in Nat
           /\ S = {} <=> Cardinality(S) = 0
           /\ \A o \in Op \ S : Cardinality(S \cup {o}) = Cardinality(S) + 1
           /\ \A o \in S : Cardinality(S \ {o}) = Cardinality(S) - 1
<1>1. IsFiniteSet(S)
  BY LogAssumption, FS_Subset
<1>2. Cardinality(S) \in Nat
  BY <1>1, FS_CardinalityType
<1>3. S = {} <=> Cardinality(S) = 0
  BY <1>1, FS_EmptySet
<1>4. \A o \in Op \ S : Cardinality(S \cup {o}) = Cardinality(S) + 1
  BY <1>1, FS_AddElement
<1>5. \A o \in S : Cardinality(S \ {o}) = Cardinality(S) - 1
  BY <1>1, FS_RemoveElement
<1> QED
  BY <1>1, <1>2, <1>3, <1>4, <1>5

LEMMA EmptyHeaderType == EmptyHeader \in Header /\ EmptyHeader.n = 0
<1>1. (CHOOSE b \in Block : TRUE) \in Block
  BY LogAssumption
<1>2. 0 \in 0 .. LOGSIZE
  BY LogAssumption
<1> QED
  BY <1>1, <1>2 DEF EmptyHeader, Header

LEMMA InitIInv == Init => IInv
<1> SUFFICES ASSUME Init PROVE IInv
  OBVIOUS
<1> USE DEF Init
<1>0. (CHOOSE b \in Block : TRUE) \in Block
  BY LogAssumption
<1>1. TypeOK
  <2>1. tail \in 1 .. LOGSIZE + 1
    BY LogAssumption
  <2>2. home \in [Block -> Value] /\ logblk \in [Slot -> Value]
    OBVIOUS
  <2>3. hdr \in Header /\ lh \in Header
    BY EmptyHeaderType
  <2>4. pins \in [Block -> 0 .. 1] /\ buf \in [Block -> Value \cup {NotCached}]
        /\ holder \in [Block -> Op \cup {NoOp}]
    OBVIOUS
  <2>5. pc \in [Op -> OpPC] /\ cur \in [Op -> Block] /\ wrote \in [Op -> SUBSET Block]
    BY <1>0 DEF OpPC
  <2> QED
    BY Zenon, <2>1, <2>2, <2>3, <2>4, <2>5 DEF TypeOK
<1>2. Calls
  <2>1. InOpSet = {}
    BY DEF InOpSet, InOp
  <2> QED
    BY <2>1, FS_EmptySet DEF Calls, CommitPC
<1>3. Holders
  BY LogAssumption DEF Holders
<1>4. Distinct(lh) /\ Distinct(hdr)
  BY EmptyHeaderType DEF Distinct
<1>5. Pins
  BY EmptyHeaderType, LogAssumption DEF Pins, PinnedSlot, Slot
<1>6. Buffers
  BY DEF Buffers
<1>7. Phases
  BY EmptyHeaderType DEF Phases
<1> QED
  BY <1>1, <1>2, <1>3, <1>4, <1>5, <1>6, <1>7 DEF IInv

-----------------------------------------------------------------------------
(* While a call is in progress the system is up and nobody commits.        *)
LEMMA InOpFacts ==
    ASSUME IInv, NEW o \in Op, InOp(o)
    PROVE  /\ boot = "up" /\ ~committing
           /\ \A q \in Op : pc[q] \notin CommitPC
           /\ outstanding \in Nat \ {0}
           /\ hdr.n = 0
<1>1. o \in InOpSet
  BY DEF InOpSet
<1>2. boot = "up" /\ ~committing /\ \A q \in Op : pc[q] \notin CommitPC
  BY <1>1 DEF IInv, Calls, InOp
<1>3. outstanding \in Nat \ {0}
  BY <1>1, OpCardinality DEF IInv, Calls, InOpSet
<1> QED
  BY <1>2, <1>3 DEF IInv, Phases, CommitPC

(* The committer runs alone.                                               *)
LEMMA CommitterFacts ==
    ASSUME IInv, NEW o \in Op, pc[o] \in CommitPC
    PROVE  /\ boot = "up" /\ committing
           /\ \A q \in Op : q # o => pc[q] \notin CommitPC
           /\ \A q \in Op : ~InOp(q)
           /\ outstanding = 0
           /\ \A b \in Block : holder[b] = NoOp
<1>1. boot = "up" /\ committing /\ InOpSet = {}
  BY DEF IInv, Calls, CommitPC
<1>2. \A q \in Op : ~InOp(q)
  BY <1>1 DEF InOpSet
<1>3. outstanding = 0
  BY <1>1, FS_EmptySet DEF IInv, Calls
<1>4. \A b \in Block : holder[b] = NoOp
  BY <1>2 DEF IInv, TypeOK, Holders, InOp
<1> QED
  BY <1>1, <1>2, <1>3, <1>4 DEF IInv, Calls

(* Before recovery is done no call exists and nothing is pinned or locked. *)
LEMMA BootFacts ==
    ASSUME IInv, boot # "up"
    PROVE  /\ \A o \in Op : pc[o] = "idle"
           /\ outstanding = 0 /\ ~committing
           /\ \A b \in Block : holder[b] = NoOp /\ pins[b] = 0
<1>1. \A o \in Op : pc[o] = "idle"
  BY DEF IInv, Calls
<1>2. InOpSet = {}
  BY <1>1 DEF InOpSet, InOp
<1>3. outstanding = 0
  BY <1>2, FS_EmptySet DEF IInv, Calls
<1>4. ~committing
  BY <1>1 DEF IInv, Calls, CommitPC
<1>5. \A b \in Block : holder[b] = NoOp
  BY <1>1 DEF IInv, TypeOK, Holders
<1>6. \A b \in Block : pins[b] # 1
  BY DEF IInv, Pins, PinnedSlot
<1>7. \A b \in Block : pins[b] = 0
  BY <1>6 DEF IInv, TypeOK
<1> QED
  BY <1>1, <1>3, <1>4, <1>5, <1>7

(* The slots still to be committed or installed have their block pinned.   *)
LEMMA PinnedFacts ==
    ASSUME IInv
    PROVE  /\ lh.n \in Nat /\ lh.n <= LOGSIZE
           /\ \A i \in 1 .. lh.n : i \in Slot /\ lh.block[i] \in Block
           /\ \A o \in Op : pc[o] \in {"write_log", "write_head"} =>
                 \A i \in 1 .. lh.n : PinnedSlot(i)
           /\ \A o \in Op : pc[o] = "install" =>
                 \A i \in tail .. lh.n : PinnedSlot(i) /\ i \in 1 .. lh.n
           /\ boot = "up" /\ ~committing => \A i \in 1 .. lh.n : PinnedSlot(i)
           /\ \A i \in 1 .. lh.n : PinnedSlot(i) => pins[lh.block[i]] = 1
<1>1. lh.n \in Nat /\ lh.n <= LOGSIZE /\ tail \in Nat /\ tail >= 1
  BY LogAssumption DEF IInv, TypeOK, Header
<1>2. \A i \in 1 .. lh.n : i \in Slot /\ lh.block[i] \in Block
  BY <1>1, LogAssumption DEF IInv, TypeOK, Header, Slot
<1>3. ASSUME NEW o \in Op, pc[o] \in {"write_log", "write_head"}
      PROVE  \A i \in 1 .. lh.n : PinnedSlot(i)
  <2>1. boot = "up" /\ \A q \in Op : pc[q] \notin {"install", "clear"}
    BY <1>3, CommitterFacts DEF CommitPC
  <2> QED
    BY <1>1, <2>1 DEF PinnedSlot
<1>4. ASSUME NEW o \in Op, pc[o] = "install"
      PROVE  \A i \in tail .. lh.n : PinnedSlot(i) /\ i \in 1 .. lh.n
  <2>1. boot = "up" /\ \A q \in Op : pc[q] # "clear"
    BY <1>4, CommitterFacts DEF CommitPC
  <2> QED
    BY <1>1, <2>1 DEF PinnedSlot
<1>5. ASSUME boot = "up", ~committing
      PROVE  \A i \in 1 .. lh.n : PinnedSlot(i)
  <2>1. \A q \in Op : pc[q] \notin {"install", "clear"}
    BY <1>5 DEF IInv, Calls, CommitPC
  <2> QED
    BY <1>1, <1>5, <2>1 DEF PinnedSlot
<1>6. \A i \in 1 .. lh.n : PinnedSlot(i) => pins[lh.block[i]] = 1
  BY <1>2 DEF IInv, Pins
<1> QED
  BY <1>1, <1>2, <1>3, <1>4, <1>5, <1>6

LEMMA CacheIInv ==
    ASSUME IInv, NEW b \in Block, Load(b) \/ Recycle(b)
    PROVE  IInv'
<1> USE DEF IInv, Load, Recycle, diskVars, logVars, opVars
<1>0. pins[b] = 0 /\ holder[b] = NoOp
  BY DEF Buffers, TypeOK
<1>1. TypeOK'
  BY DEF TypeOK
<1>2. Calls'
  BY DEF Calls, InOpSet, InOp
<1>3. Holders'
  BY DEF Holders
<1>4. (Distinct(lh) /\ Distinct(hdr))'
  BY DEF Distinct
<1>5. Pins'
  BY DEF Pins, PinnedSlot
<1>6. Buffers'
  BY <1>0 DEF Buffers, TypeOK
<1>7. Phases'
  <2>1. \A i \in 1 .. lh.n : PinnedSlot(i) => buf'[lh.block[i]] = buf[lh.block[i]]
    BY SMTT(30), <1>0, PinnedFacts DEF TypeOK
  <2>2. \A o \in Op : pc[o] = "write_log" => Copied(tail - 1)'
    BY SMTT(30), <2>1, PinnedFacts DEF Phases, Copied, TypeOK
  <2>3. \A o \in Op : pc[o] = "write_head" => Copied(lh.n)'
    <3> SUFFICES ASSUME NEW o \in Op, pc[o] = "write_head", NEW i \in 1 .. lh.n
                 PROVE  logblk[i] = buf'[lh.block[i]]
      BY DEF Copied
    <3>1. PinnedSlot(i)
      BY PinnedFacts
    <3>2. logblk[i] = buf[lh.block[i]]
      BY DEF Phases, Copied
    <3> QED
      BY <2>1, <3>1, <3>2
  <2>4. \A o \in Op : pc[o] = "install" =>
           \A i \in tail .. lh.n : logblk[i] = buf'[lh.block[i]]
    BY <2>1, PinnedFacts DEF Phases
  <2> QED
    BY <2>2, <2>3, <2>4 DEF Phases, SameHeader, Installed
<1> QED
  BY <1>1, <1>2, <1>3, <1>4, <1>5, <1>6, <1>7

LEMMA BeginOpIInv ==
    ASSUME IInv, NEW o \in Op, BeginOp(o)
    PROVE  IInv'
<1> USE DEF IInv, BeginOp, Goto, diskVars, cacheVars
<1>1. TypeOK'
  BY DEF TypeOK, OpPC
<1>2. Calls'
  <2>1. CASE MustWait
    BY ZenonT(30), <2>1 DEF Calls, CommitPC, InOpSet, InOp, TypeOK
  <2>2. CASE ~MustWait
    <3>1. InOpSet \in SUBSET Op /\ o \notin InOpSet /\ InOpSet' = InOpSet \cup {o}
      BY <2>2 DEF InOpSet, InOp, TypeOK
    <3>2. Cardinality(InOpSet') = Cardinality(InOpSet) + 1
      BY <3>1, OpCardinality
    <3>3. ~committing
      BY <2>2 DEF MustWait
    <3> QED
      BY <2>2, <3>2, <3>3 DEF Calls, CommitPC, TypeOK
  <2> QED
    BY <2>1, <2>2
<1>3. Holders'
  BY DEF Holders, TypeOK
<1>4. (Distinct(lh) /\ Distinct(hdr))'
  BY DEF Distinct
<1>5. Pins'
  <2>1. \A i \in Slot : PinnedSlot(i)' <=> PinnedSlot(i)
    BY DEF PinnedSlot, TypeOK
  <2> QED
    BY <2>1 DEF Pins
<1>6. Buffers'
  BY DEF Buffers
<1>7. Phases'
  <2>1. \A q \in Op : pc'[q] \in CommitPC => pc'[q] = pc[q]
    BY DEF CommitPC, TypeOK
  <2>2. \A q \in Op : pc[q] \in CommitPC => pc'[q] = pc[q]
    BY DEF CommitPC, TypeOK
  <2> QED
    BY <2>1, <2>2 DEF Phases, SameHeader, Installed, Copied, CommitPC
<1> QED
  BY <1>1, <1>2, <1>3, <1>4, <1>5, <1>6, <1>7

LEMMA ModifyIInv ==
    ASSUME IInv, NEW o \in Op, NEW b \in Block, NEW v \in Value, Modify(o, b, v)
    PROVE  IInv'
<1> USE DEF IInv, Modify, Goto, diskVars, logVars
<1>0. /\ boot = "up" /\ ~committing /\ hdr.n = 0
      /\ \A q \in Op : pc[q] \notin CommitPC
  BY InOpFacts DEF InOp
<1>1. TypeOK'
  BY DEF TypeOK, OpPC
<1>2. Calls'
  <2>1. InOpSet' = InOpSet
    BY DEF InOpSet, InOp, TypeOK
  <2> QED
    BY <1>0, <2>1 DEF Calls, CommitPC, TypeOK
<1>3. Holders'
  BY LogAssumption DEF Holders, TypeOK
<1>4. (Distinct(lh) /\ Distinct(hdr))'
  BY DEF Distinct
<1>5. Pins'
  <2>1. \A i \in Slot : PinnedSlot(i)' <=> PinnedSlot(i)
    BY DEF PinnedSlot, TypeOK
  <2> QED
    BY <2>1 DEF Pins
<1>6. Buffers'
  BY LogAssumption DEF Buffers, TypeOK
<1>7. \A q \in Op : pc'[q] \notin CommitPC
  BY <1>0 DEF CommitPC, TypeOK
<1>8. Phases'
  BY <1>0, <1>7 DEF Phases, CommitPC
<1> QED
  BY <1>1, <1>2, <1>3, <1>4, <1>5, <1>6, <1>8

LEMMA LogWriteIInv ==
    ASSUME IInv, NEW o \in Op, LogWrite(o)
    PROVE  IInv'
<1> DEFINE b == cur[o]
<1> USE DEF IInv, LogWrite, Goto, diskVars
<1>0. /\ boot = "up" /\ ~committing /\ hdr.n = 0
      /\ \A q \in Op : pc[q] \notin CommitPC
      /\ ~(outstanding < 1)
  BY InOpFacts DEF InOp
<1>1. b \in Block /\ holder[b] = o /\ buf[b] # NotCached
  BY LogAssumption DEF TypeOK, Holders, Buffers
<1>2. \A q \in Op : pc'[q] \notin CommitPC
  BY <1>0 DEF CommitPC, TypeOK
<1>3. Calls'
  <2>1. InOpSet' = InOpSet
    BY <1>0 DEF InOpSet, InOp, TypeOK
  <2> QED
    BY <1>0, <1>2, <2>1 DEF Calls, TypeOK
<1>4. Phases'
  BY <1>0, <1>2 DEF Phases, CommitPC
<1>5. CASE LogFull
  <2> USE <1>5
  <2>1. TypeOK'
    BY DEF TypeOK, OpPC
  <2>2. Holders'
    BY DEF Holders, TypeOK
  <2>3. \A i \in Slot : PinnedSlot(i)' <=> PinnedSlot(i)
    BY DEF PinnedSlot, TypeOK
  <2> QED
    BY <1>3, <1>4, <2>1, <2>2, <2>3 DEF Distinct, Pins, Buffers
<1>6. CASE ~LogFull /\ b \in Logged(lh)
  <2> USE <1>0, <1>6 DEF Append1
  <2>0. pins[b] = 1
    BY PinnedFacts DEF Logged
  <2>1. TypeOK'
    BY <1>1 DEF TypeOK, OpPC
  <2>2. Holders'
    BY <1>1, LogAssumption DEF Holders, TypeOK
  <2>3. \A i \in Slot : PinnedSlot(i)' <=> PinnedSlot(i)
    BY DEF PinnedSlot, TypeOK
  <2>4. Buffers'
    BY <1>1, <2>0 DEF Buffers, TypeOK
  <2> QED
    BY <1>3, <1>4, <2>1, <2>2, <2>3, <2>4 DEF Distinct, Pins
<1>7. CASE ~LogFull /\ b \notin Logged(lh)
  <2> USE <1>0, <1>7 DEF Append1
  <2>0. /\ lh.n \in Nat /\ lh.n + 1 <= LOGSIZE /\ lh.n + 1 \in Slot
        /\ lh.block \in [Slot -> Block]
    BY SMTT(30), PinnedFacts, LogAssumption DEF LogFull, Slot, TypeOK, Header
  <2>1. /\ lh'.n = lh.n + 1
        /\ lh'.block = [lh.block EXCEPT ![lh.n + 1] = b]
        /\ lh'.block[lh.n + 1] = b
        /\ \A i \in 1 .. lh.n : i \in Slot /\ lh'.block[i] = lh.block[i]
    BY <2>0, PinnedFacts
  <2>2. pins[b] = 0
    <3>1. pins[b] # 1
      <4> SUFFICES ASSUME pins[b] = 1 PROVE FALSE
        OBVIOUS
      <4>1. PICK i \in Slot : PinnedSlot(i) /\ lh.block[i] = b
        BY <1>1 DEF Pins
      <4>2. i \in 1 .. lh.n
        BY <2>0, <4>1 DEF PinnedSlot, Slot
      <4> QED
        BY <4>1, <4>2 DEF Logged
    <3> QED
      BY <1>1, <3>1 DEF TypeOK
  <2>3. TypeOK'
    <3>1. lh' \in Header
      BY <1>1, <2>0 DEF Header
    <3>2. pins' \in [Block -> 0 .. 1]
      BY <1>1, <2>2 DEF TypeOK
    <3> QED
      BY <1>1, <3>1, <3>2 DEF TypeOK, OpPC
  <2>4. Holders'
    BY <1>1, LogAssumption DEF Holders, TypeOK
  <2>5. Distinct(lh)'
    BY <2>0, <2>1 DEF Distinct, Logged
  <2>6. Pins'
    <3>1. \A i \in Slot : PinnedSlot(i)' <=> i <= lh.n + 1
      BY <1>2, <2>1 DEF PinnedSlot, CommitPC
    <3>2. \A i \in Slot : PinnedSlot(i) <=> i <= lh.n
      BY DEF PinnedSlot, CommitPC
    <3>3. \A i \in Slot : i <= lh.n + 1 => i \in 1 .. lh.n \/ i = lh.n + 1
      BY <2>0 DEF Slot
    <3>4. \A i \in Slot : PinnedSlot(i)' => pins'[lh'.block[i]] = 1
      BY SMTT(30), <1>1, <2>0, <2>1, <2>2, <3>1, <3>2, <3>3 DEF Pins, TypeOK
    <3>5. ASSUME NEW x \in Block, pins'[x] = 1
          PROVE  \E i \in Slot : PinnedSlot(i)' /\ lh'.block[i] = x
      <4>1. CASE x = b
        BY <2>0, <2>1, <3>1, <4>1
      <4>2. CASE x # b
        <5>1. PICK i \in Slot : PinnedSlot(i) /\ lh.block[i] = x
          BY <3>5, <4>2 DEF Pins, TypeOK
        <5>2. i \in 1 .. lh.n
          BY <2>0, <3>2, <5>1 DEF Slot
        <5> QED
          BY <2>0, <2>1, <3>1, <5>1, <5>2
      <4> QED
        BY <4>1, <4>2
    <3> QED
      BY <3>4, <3>5 DEF Pins
  <2>7. Buffers'
    BY <1>1, <2>2 DEF Buffers, TypeOK
  <2> QED
    BY <1>3, <1>4, <2>3, <2>4, <2>5, <2>6, <2>7 DEF Distinct
<1> QED
  BY <1>5, <1>6, <1>7

LEMMA EndOpIInv ==
    ASSUME IInv, NEW o \in Op, EndOp(o)
    PROVE  IInv'
<1> USE DEF IInv, EndOp, diskVars, cacheVars
<1>0. /\ boot = "up" /\ ~committing /\ hdr.n = 0
      /\ \A q \in Op : pc[q] \notin CommitPC
      /\ outstanding \in Nat \ {0}
  BY InOpFacts DEF InOp
<1> USE <1>0
<1>1. /\ InOpSet \in SUBSET Op
      /\ Cardinality(InOpSet \ {o}) = outstanding - 1
      /\ InOpSet \ {o} = {} <=> outstanding = 1
  <2>1. InOpSet \in SUBSET Op /\ o \in InOpSet
    BY DEF InOpSet, InOp
  <2>2. Cardinality(InOpSet \ {o}) = outstanding - 1
    BY <2>1, OpCardinality DEF Calls
  <2>3. InOpSet \ {o} \in SUBSET Op
    BY <2>1
  <2>4. InOpSet \ {o} = {} <=> Cardinality(InOpSet \ {o}) = 0
    BY <2>3, OpCardinality
  <2> QED
    BY <2>1, <2>2, <2>4
<1>2. CASE outstanding = 1
  <2> USE <1>2 DEF Goto, CommitStart
  <2>1. /\ pc' = [pc EXCEPT ![o] = CommitStart]
        /\ CommitStart \in {"write_log", "finish"}
        /\ tail' = 1 /\ committing' = TRUE
    OBVIOUS
  <2>2. TypeOK'
    BY <2>1, LogAssumption DEF TypeOK, OpPC
  <2>3. Calls'
    <3>1. InOpSet' = InOpSet \ {o}
      BY <2>1 DEF InOpSet, InOp, TypeOK
    <3> QED
      BY <1>1, <2>1, <3>1 DEF Calls, CommitPC, TypeOK
  <2>4. Holders'
    BY <2>1 DEF Holders, TypeOK
  <2>5. \A i \in Slot : PinnedSlot(i)' <=> PinnedSlot(i)
    BY <2>1 DEF PinnedSlot, TypeOK, CommitPC
  <2>6. Phases'
    <3>1. \A q \in Op : pc'[q] \in CommitPC => q = o /\ pc'[q] = CommitStart
      BY <2>1 DEF CommitPC, TypeOK
    <3>2. lh.n \in Nat /\ (CommitStart = "finish" => lh.n = 0)
      BY PinnedFacts
    <3>3. Copied(tail - 1)' /\ tail' <= lh.n + 1
      BY <2>1, <3>2 DEF Copied
    <3> QED
      BY <2>1, <3>1, <3>2, <3>3 DEF Phases, CommitPC
  <2> QED
    BY <2>2, <2>3, <2>4, <2>5, <2>6 DEF Distinct, Pins, Buffers
<1>3. CASE outstanding # 1
  <2> USE <1>3
  <2>1. /\ pc'[o] = "idle"
        /\ \A q \in Op : q # o => pc'[q] = IF pc[q] = "asleep" THEN "begin" ELSE pc[q]
        /\ pc' \in [Op -> OpPC]
    BY DEF WakeupAndGoto, TypeOK, OpPC
  <2>2. TypeOK'
    BY <2>1 DEF TypeOK
  <2>3. \A q \in Op : pc'[q] \notin CommitPC
    BY <2>1 DEF CommitPC
  <2>4. Calls'
    <3>1. InOpSet' = InOpSet \ {o}
      BY <2>1 DEF InOpSet, InOp
    <3> QED
      BY <1>1, <2>1, <2>3, <3>1 DEF Calls
  <2>5. Holders'
    BY SMTT(30), <2>1 DEF Holders
  <2>6. \A i \in Slot : PinnedSlot(i)' <=> PinnedSlot(i)
    BY <2>3 DEF PinnedSlot, CommitPC
  <2>7. Phases'
    BY <2>3 DEF Phases, CommitPC
  <2> QED
    BY <2>2, <2>4, <2>5, <2>6, <2>7 DEF Distinct, Pins, Buffers
<1> QED
  BY <1>2, <1>3

(* A committer that moves on stays the only one; calls are not affected.   *)
LEMMA CommitterMoves ==
    ASSUME IInv, NEW o \in Op, pc[o] \in CommitPC,
           NEW where \in CommitPC, pc' = [pc EXCEPT ![o] = where],
           UNCHANGED <<outstanding, committing, boot, holder, cur>>
    PROVE  /\ Calls' /\ Holders' /\ pc' \in [Op -> OpPC]
           /\ pc'[o] = where
           /\ \A q \in Op : q # o => pc'[q] \notin CommitPC
<1>1. pc'[o] = where /\ pc' \in [Op -> OpPC] /\ \A q \in Op : q # o => pc'[q] = pc[q]
  BY DEF IInv, TypeOK, CommitPC, OpPC
<1>2. \A q \in Op : q # o => pc'[q] \notin CommitPC
  BY <1>1, CommitterFacts
<1>3. InOpSet' = InOpSet
  BY <1>1 DEF InOpSet, InOp, CommitPC
<1>4. Calls'
  BY <1>1, <1>2, <1>3 DEF IInv, Calls, CommitPC
<1>5. Holders'
  BY <1>1 DEF IInv, Holders, CommitPC
<1> QED
  BY <1>1, <1>2, <1>4, <1>5

LEMMA WriteLogIInv ==
    ASSUME IInv, NEW o \in Op, WriteLog(o)
    PROVE  IInv'
<1>0. /\ boot = "up"
      /\ \A q \in Op : q # o => pc[q] \notin CommitPC
      /\ hdr.n = 0
      /\ lh.n \in Nat /\ lh.n <= LOGSIZE /\ tail \in Nat
      /\ tail >= 1 /\ tail <= lh.n + 1 /\ Copied(tail - 1)
  <2>1. /\ boot = "up"
        /\ \A q \in Op : q # o => pc[q] \notin CommitPC
    BY CommitterFacts DEF CommitPC, WriteLog
  <2>2. hdr.n = 0
    BY <2>1 DEF Phases, CommitPC, IInv, WriteLog
  <2>3. tail \in Nat /\ tail >= 1
    BY LogAssumption DEF TypeOK, IInv
  <2> QED
    BY <2>1, <2>2, <2>3, PinnedFacts DEF Phases, IInv, WriteLog
<1>a. tail <= lh.n => tail \in 1 .. lh.n
  BY <1>0
<1> USE DEF IInv, WriteLog, Goto, cacheVars, logVars
<1>1. CASE tail <= lh.n
  <2> USE <1>1
  <2>0. /\ tail \in Slot /\ lh.block[tail] \in Block
        /\ Bread(lh.block[tail]) = buf[lh.block[tail]]
        /\ buf[lh.block[tail]] \in Value
    <3>1. tail \in 1 .. lh.n
      BY <1>a
    <3>2. PinnedSlot(tail) /\ tail \in Slot /\ lh.block[tail] \in Block
      BY <3>1, PinnedFacts
    <3>3. buf[lh.block[tail]] # NotCached
      BY <3>2 DEF Pins, Buffers
    <3> QED
      BY <3>2, <3>3 DEF Bread, TypeOK
  <2>1. TypeOK'
    BY SMTT(30), <1>0, <2>0, LogAssumption DEF TypeOK
  <2>3. Copied(tail - 1)' /\ tail' <= lh.n + 1
    <3>1. \A i \in 1 .. tail : i \in Slot /\ (i = tail \/ i \in 1 .. tail - 1)
      BY <1>0, LogAssumption DEF Slot
    <3>2. \A i \in 1 .. tail : logblk'[i] = buf[lh.block[i]]
      BY <1>0, <2>0, <3>1 DEF Copied, TypeOK
    <3>3. tail' - 1 = tail /\ tail' <= lh.n + 1
      <4>1. tail' = tail + 1
        OBVIOUS
      <4> HIDE DEF IInv, WriteLog
      <4> QED
        BY <1>0, <4>1
    <3> QED
      BY <3>2, <3>3 DEF Copied
  <2>4. Phases'
    BY <1>0, <2>3 DEF Phases, CommitPC
  <2>5. \A i \in Slot : PinnedSlot(i)' <=> PinnedSlot(i)
    BY <1>0 DEF PinnedSlot, CommitPC
  <2>6. Pins'
    BY <2>5 DEF Pins
  <2>7. Calls' /\ Holders'
    BY DEF Calls, InOpSet, InOp, Holders
  <2>8. (Distinct(lh) /\ Distinct(hdr))' /\ Buffers'
    BY DEF Distinct, Buffers
  <2> QED
    BY <2>1, <2>4, <2>6, <2>7, <2>8
<1>2. CASE ~(tail <= lh.n)
  <2> USE <1>2
  <2>0. /\ Calls' /\ Holders' /\ pc' \in [Op -> OpPC]
        /\ pc'[o] = "write_head"
        /\ \A q \in Op : q # o => pc'[q] \notin CommitPC
    BY CommitterMoves DEF CommitPC
  <2>1. TypeOK'
    BY <2>0 DEF TypeOK
  <2>2. Copied(lh.n)'
    BY SMTT(30), <1>0 DEF Copied
  <2>3. Phases'
    BY <1>0, <2>0, <2>2 DEF Phases, CommitPC
  <2>4. \A i \in Slot : PinnedSlot(i)' <=> PinnedSlot(i)
    BY <1>0, <2>0 DEF PinnedSlot, CommitPC
  <2>5. Pins'
    BY <2>4 DEF Pins
  <2>6. (Distinct(lh) /\ Distinct(hdr))' /\ Buffers'
    BY DEF Distinct, Buffers
  <2> QED
    BY <2>0, <2>1, <2>3, <2>5, <2>6
<1> QED
  BY <1>1, <1>2

LEMMA WriteHeadIInv ==
    ASSUME IInv, NEW o \in Op, WriteHead(o)
    PROVE  IInv'
<1> USE DEF IInv, WriteHead, Goto, cacheVars, logVars
<1>0. /\ boot = "up" /\ Copied(lh.n)
      /\ \A q \in Op : q # o => pc[q] \notin CommitPC
      /\ lh.n \in Nat /\ lh.n <= LOGSIZE
      /\ \A i \in 1 .. lh.n : i \in Slot
  BY CommitterFacts, PinnedFacts DEF CommitPC, Phases
<1>1. /\ Calls' /\ Holders' /\ pc' \in [Op -> OpPC]
      /\ pc'[o] = "install"
      /\ \A q \in Op : q # o => pc'[q] \notin CommitPC
  BY Zenon, CommitterMoves DEF CommitPC
<1>2. /\ hdr' \in Header
      /\ hdr'.n = lh.n
      /\ \A i \in 1 .. lh.n : hdr'.block[i] = lh.block[i]
  <2>1. lh.block \in [Slot -> Block] /\ hdr.block \in [Slot -> Block] /\ lh.n \in 0 .. LOGSIZE
    BY DEF TypeOK, Header
  <2>2. hdr' \in Header /\ hdr'.n = lh.n
    BY <2>1 DEF Header
  <2>3. \A i \in Slot : hdr'.block[i] = IF i <= lh.n THEN lh.block[i] ELSE hdr.block[i]
    OBVIOUS
  <2>4. \A i \in 1 .. lh.n : i \in Slot /\ i <= lh.n
    BY <1>0
  <2> QED
    BY <2>2, <2>3, <2>4
<1>3. TypeOK'
  BY <1>1, <1>2, LogAssumption DEF TypeOK
<1>4. Distinct(hdr)' /\ Distinct(lh)'
  BY SMTT(30), <1>2 DEF Distinct
<1>5. Phases'
  <2>1. SameHeader'
    BY <1>2 DEF SameHeader
  <2>2. Installed(tail - 1)' /\ tail' <= lh.n + 1
    BY <1>0 DEF Installed
  <2>3. \A i \in tail' .. lh.n : logblk[i] = buf[lh.block[i]]
    BY <1>0 DEF Copied
  <2> QED
    BY <1>0, <1>1, <2>1, <2>2, <2>3 DEF Phases, CommitPC
<1>6. \A i \in Slot : PinnedSlot(i)' <=> PinnedSlot(i)
  BY <1>0, <1>1 DEF PinnedSlot, CommitPC, Slot
<1> QED
  BY <1>1, <1>3, <1>4, <1>5, <1>6 DEF Pins, Buffers
=============================================================================
