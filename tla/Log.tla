-------------------------------- MODULE Log ---------------------------------
(***************************************************************************)
(* kernel/log.c: the write-ahead log with group commit, on top of the      *)
(* buffer cache (kernel/bio.c) and a disk that writes one block at a time, *)
(* with a power failure possible between any two steps and during          *)
(* recovery.                                                               *)
(*                                                                         *)
(* A system call (Op) runs begin_op, then bread/modify/log_write/brelse on *)
(* some blocks, then end_op; the last one out commits.  log.lock is held   *)
(* over each of the atomic actions below that touches the in-memory log.   *)
(* The log area and its header are read back through write-through         *)
(* buffers, so only their disk contents are kept.  A sleeping begin_op     *)
(* holds pc "asleep" until a wakeup(&log).                                 *)
(***************************************************************************)
EXTENDS Integers, FiniteSets

CONSTANTS
    Op,            \* the processes that make file system calls
    Block,         \* home blocks (inode, bitmap and data blocks)
    Value,         \* block contents
    NotCached,     \* block has no buffer in the cache
    NoOp,          \* nobody holds the buffer's sleeplock
    MAXOPBLOCKS,   \* param.h
    LOGSIZE,       \* param.h: slots of struct logheader
    NLOG           \* superblock nlog: blocks of the on-disk log area

ASSUME LogAssumption ==
    /\ MAXOPBLOCKS \in Nat \ {0}
    /\ LOGSIZE \in Nat
    /\ MAXOPBLOCKS <= LOGSIZE
    /\ NLOG \in Nat
    /\ NotCached \notin Value
    /\ NoOp \notin Op
    /\ IsFiniteSet(Op)
    /\ Block # {} /\ Value # {}

VARIABLES
    home,          \* disk: home locations
    logblk,        \* disk: log slots, slot i at log.start + i
    hdr,           \* disk: the log header
    buf,           \* cache: contents, or NotCached
    pins,          \* cache: references taken by bpin
    holder,        \* cache: who holds the buffer locked
    lh,            \* log.lh
    outstanding,   \* log.outstanding
    committing,    \* log.committing
    pc,            \* where each system call is
    cur,           \* the block an Op is modifying
    wrote,         \* blocks the running call of Op has log_written
    tail,          \* loop variable of write_log and install_trans
    boot           \* "up", or the step of recover_from_log in progress

diskVars == <<home, logblk, hdr>>
cacheVars == <<buf, pins, holder>>
logVars == <<lh, outstanding, committing>>
opVars == <<pc, cur, wrote>>
vars == <<home, logblk, hdr, buf, pins, holder, lh, outstanding, committing,
          pc, cur, wrote, tail, boot>>

Slot == 1 .. LOGSIZE
Header == [n: 0 .. LOGSIZE, block: [Slot -> Block]]

OpPC == {"idle", "asleep", "begin", "active", "modified", "write_log",
         "write_head", "install", "clear", "finish", "full", "panic"}

TypeOK ==
    /\ home \in [Block -> Value]
    /\ logblk \in [Slot -> Value]
    /\ hdr \in Header
    /\ buf \in [Block -> Value \cup {NotCached}]
    /\ pins \in [Block -> 0 .. 1]
    /\ holder \in [Block -> Op \cup {NoOp}]
    /\ lh \in Header
    /\ outstanding \in Nat
    /\ committing \in BOOLEAN
    /\ pc \in [Op -> OpPC]
    /\ cur \in [Op -> Block]
    /\ wrote \in [Op -> SUBSET Block]
    /\ tail \in 1 .. LOGSIZE + 1
    /\ boot \in {"up", "read_head", "install", "clear"}

EmptyHeader == [n |-> 0, block |-> [i \in Slot |-> CHOOSE b \in Block : TRUE]]

(* A file system just made by mkfs, mounted: the log is empty.             *)
Init ==
    /\ home \in {[b \in Block |-> v] : v \in Value}
    /\ logblk \in {[i \in Slot |-> v] : v \in Value}
    /\ hdr = EmptyHeader
    /\ buf = [b \in Block |-> NotCached]
    /\ pins = [b \in Block |-> 0]
    /\ holder = [b \in Block |-> NoOp]
    /\ lh = EmptyHeader
    /\ outstanding = 0
    /\ committing = FALSE
    /\ pc = [o \in Op |-> "idle"]
    /\ cur = [o \in Op |-> CHOOSE b \in Block : TRUE]
    /\ wrote = [o \in Op |-> {}]
    /\ tail = 1
    /\ boot = "up"

(* The blocks a header names.                                              *)
Logged(h) == {h.block[i] : i \in 1 .. h.n}

(* bread: the cached copy, else the disk's.                                *)
Bread(b) == IF buf[b] = NotCached THEN home[b] ELSE buf[b]

Goto(o, where) == pc' = [pc EXCEPT ![o] = where]

(* wakeup(&log) makes every sleeper of begin_op runnable; o goes to where. *)
WakeupAndGoto(o, where) ==
    pc' = [x \in Op |-> CASE x = o -> where
                          [] x # o /\ pc[x] = "asleep" -> "begin"
                          [] OTHER -> pc[x]]

-----------------------------------------------------------------------------
(* The buffer cache: a miss reads the disk; a buffer nobody references is  *)
(* recycled for another block.                                             *)
Load(b) ==
    /\ boot = "up"
    /\ buf[b] = NotCached
    /\ buf' = [buf EXCEPT ![b] = home[b]]
    /\ UNCHANGED <<diskVars, pins, holder, logVars, opVars, tail, boot>>

Recycle(b) ==
    /\ buf[b] # NotCached
    /\ pins[b] = 0
    /\ holder[b] = NoOp
    /\ buf' = [buf EXCEPT ![b] = NotCached]
    /\ UNCHANGED <<diskVars, pins, holder, logVars, opVars, tail, boot>>

-----------------------------------------------------------------------------
(* panic() spins while holding log.lock: nobody takes it any more.         *)
LogLockFree == \A o \in Op : pc[o] \notin {"full", "panic"}

MustWaitForOne == committing \/ lh.n + MAXOPBLOCKS > LOGSIZE

MustWaitForSpaceOnly == lh.n + (outstanding + 1) * MAXOPBLOCKS > LOGSIZE

(* Why begin_op sleeps.                                                    *)
MustWait == committing \/ lh.n + (outstanding + 1) * MAXOPBLOCKS > LOGSIZE

(* begin_op, from its call or from the return of its sleep.                *)
BeginOp(o) ==
    /\ boot = "up"
    /\ pc[o] \in {"idle", "begin"}
    /\ LogLockFree
    /\ IF MustWait
       THEN /\ Goto(o, "asleep")
            /\ UNCHANGED <<outstanding, wrote>>
       ELSE /\ outstanding' = outstanding + 1
            /\ wrote' = [wrote EXCEPT ![o] = {}]
            /\ Goto(o, "active")
    /\ UNCHANGED <<diskVars, cacheVars, lh, committing, cur, tail, boot>>

(* bread(b), then the caller changes b->data.  A call writes at most       *)
(* MAXOPBLOCKS blocks (the contract of param.h).                           *)
Modify(o, b, v) ==
    /\ pc[o] = "active"
    /\ holder[b] = NoOp
    /\ b \in wrote[o] \/ Cardinality(wrote[o]) < MAXOPBLOCKS
    /\ holder' = [holder EXCEPT ![b] = o]
    /\ buf' = [buf EXCEPT ![b] = v]
    /\ cur' = [cur EXCEPT ![o] = b]
    /\ Goto(o, "modified")
    /\ UNCHANGED <<diskVars, pins, logVars, wrote, tail, boot>>

LogFull == lh.n >= LOGSIZE \/ lh.n >= NLOG - 1

AppendAlways(b) ==
    /\ lh' = [n |-> lh.n + 1, block |-> [lh.block EXCEPT ![lh.n + 1] = b]]
    /\ pins' = [pins EXCEPT ![b] = @ + 1]

(* The header and the pins after log_write of block b: absorbed when b is  *)
(* already in the log, appended and pinned otherwise.                      *)
Append1(b) ==
    IF b \in Logged(lh)
    THEN UNCHANGED <<lh, pins>>
    ELSE /\ lh' = [n |-> lh.n + 1, block |-> [lh.block EXCEPT ![lh.n + 1] = b]]
         /\ pins' = [pins EXCEPT ![b] = @ + 1]

(* log_write(b) and the brelse(b) that follows it.                         *)
LogWrite(o) ==
    LET b == cur[o] IN
    /\ pc[o] = "modified"
    /\ LogLockFree
    /\ IF LogFull \/ outstanding < 1
       THEN /\ Goto(o, IF LogFull THEN "full" ELSE "panic")
            /\ UNCHANGED <<lh, pins, holder, wrote>>
       ELSE /\ Append1(b)
            /\ holder' = [holder EXCEPT ![b] = NoOp]
            /\ wrote' = [wrote EXCEPT ![o] = @ \cup {b}]
            /\ Goto(o, "active")
    /\ UNCHANGED <<diskVars, buf, outstanding, committing, cur, tail, boot>>

CommitStart == IF lh.n > 0 THEN "write_log" ELSE "finish"

(* end_op up to release(&log.lock): the last call out starts the commit,   *)
(* any other returns log space and wakes begin_op.                         *)
EndOp(o) ==
    /\ pc[o] = "active"
    /\ LogLockFree
    /\ outstanding' = outstanding - 1
    /\ IF committing
       THEN /\ Goto(o, "panic")
            /\ UNCHANGED <<committing, tail>>
       ELSE IF outstanding = 1
            THEN /\ committing' = TRUE
                 /\ tail' = 1
                 /\ Goto(o, CommitStart)
            ELSE /\ WakeupAndGoto(o, "idle")
                 /\ UNCHANGED <<committing, tail>>
    /\ UNCHANGED <<diskVars, cacheVars, lh, cur, wrote, boot>>

-----------------------------------------------------------------------------
WriteHeadFirst(o) ==
    /\ pc[o] = "write_log"
    /\ hdr' = [n |-> lh.n, block |-> lh.block]
    /\ tail' = 1
    /\ Goto(o, "install")
    /\ UNCHANGED <<home, logblk, cacheVars, logVars, cur, wrote, boot>>

(* commit(): one disk write per step.                                      *)
WriteLog(o) ==
    /\ pc[o] = "write_log"
    /\ IF tail <= lh.n
       THEN /\ logblk' = [logblk EXCEPT ![tail] = Bread(lh.block[tail])]
            /\ tail' = tail + 1
            /\ UNCHANGED pc
       ELSE /\ Goto(o, "write_head")
            /\ UNCHANGED <<logblk, tail>>
    /\ UNCHANGED <<home, hdr, cacheVars, logVars, cur, wrote, boot>>

(* write_head(): the commit point.                                         *)
WriteHead(o) ==
    /\ pc[o] = "write_head"
    /\ hdr' = [n |-> lh.n,
               block |-> [i \in Slot |-> IF i <= lh.n THEN lh.block[i] ELSE hdr.block[i]]]
    /\ tail' = 1
    /\ Goto(o, "install")
    /\ UNCHANGED <<home, logblk, cacheVars, logVars, cur, wrote, boot>>

InstallKeepingPin(recovering) ==
    LET b == lh.block[tail] IN
    /\ tail <= lh.n
    /\ home' = [home EXCEPT ![b] = logblk[tail]]
    /\ buf' = [buf EXCEPT ![b] = logblk[tail]]
    /\ pins' = pins
    /\ tail' = tail + 1

(* One iteration of install_trans.                                         *)
InstallOne(recovering) ==
    LET b == lh.block[tail] IN
    /\ tail <= lh.n
    /\ home' = [home EXCEPT ![b] = logblk[tail]]
    /\ buf' = [buf EXCEPT ![b] = logblk[tail]]
    /\ pins' = IF recovering THEN pins ELSE [pins EXCEPT ![b] = @ - 1]
    /\ tail' = tail + 1

Install(o) ==
    /\ pc[o] = "install"
    /\ \/ InstallOne(FALSE) /\ UNCHANGED pc
       \/ /\ tail > lh.n
          /\ Goto(o, "clear")
          /\ UNCHANGED <<home, buf, pins, tail>>
    /\ UNCHANGED <<logblk, hdr, holder, logVars, cur, wrote, boot>>

(* log.lh.n = 0; write_head().                                             *)
ClearHead(o) ==
    /\ pc[o] = "clear"
    /\ lh' = [lh EXCEPT !.n = 0]
    /\ hdr' = [hdr EXCEPT !.n = 0]
    /\ Goto(o, "finish")
    /\ UNCHANGED <<home, logblk, cacheVars, outstanding, committing, cur, wrote,
                   tail, boot>>

FinishCommitSilent(o) ==
    /\ pc[o] = "finish"
    /\ committing' = FALSE
    /\ Goto(o, "idle")
    /\ UNCHANGED <<diskVars, cacheVars, lh, outstanding, cur, wrote, tail, boot>>

(* The end of end_op: committing = 0 and wakeup(&log).                     *)
FinishCommit(o) ==
    /\ pc[o] = "finish"
    /\ committing' = FALSE
    /\ WakeupAndGoto(o, "idle")
    /\ UNCHANGED <<diskVars, cacheVars, lh, outstanding, cur, wrote, tail, boot>>

-----------------------------------------------------------------------------
(* Power fails: memory is lost, the disk stays.  The next boot starts in   *)
(* recover_from_log before any system call can run (forkret, fsinit).      *)
Crash ==
    /\ buf' = [b \in Block |-> NotCached]
    /\ pins' = [b \in Block |-> 0]
    /\ holder' = [b \in Block |-> NoOp]
    /\ lh' = EmptyHeader
    /\ outstanding' = 0
    /\ committing' = FALSE
    /\ pc' = [o \in Op |-> "idle"]
    /\ cur' = [o \in Op |-> CHOOSE b \in Block : TRUE]
    /\ wrote' = [o \in Op |-> {}]
    /\ tail' = 1
    /\ boot' = "read_head"
    /\ UNCHANGED diskVars

ReadHead ==
    /\ boot = "read_head"
    /\ lh' = [n |-> hdr.n,
              block |-> [i \in Slot |-> IF i <= hdr.n THEN hdr.block[i] ELSE lh.block[i]]]
    /\ tail' = 1
    /\ boot' = "install"
    /\ UNCHANGED <<diskVars, cacheVars, outstanding, committing, opVars>>

RecoverForgetful ==
    /\ boot = "install"
    /\ boot' = "clear"
    /\ UNCHANGED <<diskVars, cacheVars, logVars, opVars, tail>>

RecoverInstall ==
    /\ boot = "install"
    /\ \/ InstallOne(TRUE) /\ UNCHANGED boot
       \/ /\ tail > lh.n
          /\ boot' = "clear"
          /\ UNCHANGED <<home, buf, pins, tail>>
    /\ UNCHANGED <<logblk, hdr, holder, logVars, opVars>>

RecoverClear ==
    /\ boot = "clear"
    /\ lh' = [lh EXCEPT !.n = 0]
    /\ hdr' = [hdr EXCEPT !.n = 0]
    /\ boot' = "up"
    /\ UNCHANGED <<home, logblk, cacheVars, outstanding, committing, opVars, tail>>

-----------------------------------------------------------------------------
OpStep(o) ==
    \/ BeginOp(o)
    \/ \E b \in Block, v \in Value : Modify(o, b, v)
    \/ LogWrite(o)
    \/ EndOp(o)
    \/ WriteLog(o)
    \/ WriteHead(o)
    \/ Install(o)
    \/ ClearHead(o)
    \/ FinishCommit(o)

Recover == ReadHead \/ RecoverInstall \/ RecoverClear

Next ==
    \/ \E o \in Op : OpStep(o)
    \/ \E b \in Block : Load(b) \/ Recycle(b)
    \/ Crash
    \/ Recover

Spec == Init /\ [][Next]_vars

(* The committer keeps running (its disk writes complete), recovery keeps  *)
(* running, a woken begin_op is scheduled, and no system call stays        *)
(* between begin_op and end_op for ever (strong, because modifying a block *)
(* takes the call through "modified" and back).                            *)
Fairness ==
    /\ WF_vars(Recover)
    /\ \A o \in Op :
          /\ WF_vars(LogWrite(o))
          /\ WF_vars(WriteLog(o) \/ WriteHead(o) \/ Install(o) \/ ClearHead(o)
                     \/ FinishCommit(o))
          /\ SF_vars(EndOp(o))

FairSpec == Spec /\ Fairness

-----------------------------------------------------------------------------
(* The home blocks recover_from_log makes of a header, the log slots and   *)
(* the home blocks found at boot.                                          *)
Recovered(h, slots, blocks) ==
    [b \in Block |->
        IF b \in Logged(h)
        THEN slots[CHOOSE i \in 1 .. h.n : h.block[i] = b]
        ELSE blocks[b]]

(* What a crash now would leave.                                           *)
Durable == Recovered(hdr, logblk, home)

(* What system calls see.                                                  *)
View == IF boot = "up" THEN [b \in Block |-> Bread(b)] ELSE Durable

(* Crash atomicity: every step of log.c and every crash is a step of       *)
(* AtomicDisk.  A recovered disk holds exactly the writes of the calls     *)
(* that had ended at some commit, never part of a call or of a group.      *)
AD == INSTANCE AtomicDisk WITH durable <- Durable, view <- View, active <- outstanding

AtomicCommit == AD!Spec

(* "This is the true point at which the current transaction commits"       *)
(* (log.c:100): no disk write other than a committer's write_head changes  *)
(* what recovery will produce.                                             *)
CommitPoint == [][Durable' = Durable \/ \E o \in Op : WriteHead(o)]_vars

(* Calls in progress; each may still log this many new blocks.             *)
InOp(o) == pc[o] \in {"active", "modified", "full"}

Credits ==
    {x \in Op \X (1 .. MAXOPBLOCKS) : InOp(x[1]) /\ x[2] > Cardinality(wrote[x[1]])}

(* begin_op's reservation covers every admitted call: whatever the calls   *)
(* in progress may still log, up to MAXOPBLOCKS blocks each, fits in the   *)
(* LOGSIZE slots of the header next to what is logged already.             *)
Reservation == lh.n + Cardinality(Credits) <= LOGSIZE

(* The panics "log_write outside of trans" and "log.committing" of log.c   *)
(* are unreachable: no call is in progress while a commit runs.            *)
NoPanic == \A o \in Op : pc[o] # "panic"

(* LOGSIZE is documented as the "max data blocks in on-disk log"           *)
(* (param.h:10), and begin_op admits a call only when its blocks fit, so   *)
(* no admitted call should meet "too big a transaction".                   *)
AdmittedCallFits == \A o \in Op : pc[o] # "full"

(* bpin/bunpin balance: outside a commit the pinned buffers are exactly    *)
(* the logged blocks, so no buffer stays pinned after its transaction.     *)
PinsMatchLog ==
    boot = "up" /\ ~committing =>
        \A b \in Block : pins[b] = IF b \in Logged(lh) THEN 1 ELSE 0

(* No wakeup(&log) is lost: a begin_op that sleeps is woken.               *)
SleeperWoken == \A o \in Op : pc[o] = "asleep" ~> pc[o] # "asleep"
=============================================================================
