-------------------------------- MODULE Pipe --------------------------------
(***************************************************************************)
(* kernel/pipe.c: a ring of PIPESIZE bytes between threads that write and  *)
(* threads that read, with 32-bit counters that wrap around.               *)
(*                                                                         *)
(* One step is one iteration of a loop, under pi->lock.  The test of       *)
(* pr->killed and the step that gives up pi->lock and marks the caller     *)
(* asleep are apart, because p->killed is set without pi->lock; no wakeup  *)
(* falls inside the second (Sched.tla).  A pipe has a descriptor table     *)
(* entry in some processes; a call holds no reference of its own, so       *)
(* another thread of the process may close the descriptor, and free the    *)
(* pipe, under it.                                                         *)
(***************************************************************************)
EXTENDS Integers, Sequences

CONSTANTS
    Writer, Reader,   \* threads
    Proc,
    ProcOf,           \* the process of each thread
    Byte,
    Junk,             \* the byte kalloc fills a page with
    PIPESIZE,
    UintMod,          \* 2^32, the modulus of the uint counters
    Count,            \* the numbers of bytes each thread asks for in a call
    None

Thread == Writer \cup Reader

ASSUME PipeAssumption ==
    /\ PIPESIZE \in Nat \ {0}
    /\ UintMod \in Nat /\ UintMod > PIPESIZE /\ UintMod % PIPESIZE = 0
    /\ Count \in [Thread -> SUBSET Nat]
    /\ Junk \in Byte
    /\ Writer \cap Reader = {}
    /\ ProcOf \in [Thread -> Proc]
    /\ None \notin Thread

VARIABLES
    nread, nwrite, data, readopen, writeopen,   \* struct pipe
    freed,      \* kfree(pi) has been called
    lock,       \* pi->lock: its holder
    fds,        \* for each end, the processes with a descriptor of it
    pc,
    i, n,       \* locals of pipewrite and piperead
    killed      \* p->killed

pipeVars == <<nread, nwrite, data, readopen, writeopen, freed>>
callVars == <<pc, i, n>>
vars == <<nread, nwrite, data, readopen, writeopen, freed, lock, fds, pc, i, n, killed>>

TypeOK ==
    /\ nread \in 0 .. UintMod - 1
    /\ nwrite \in 0 .. UintMod - 1
    /\ data \in [0 .. PIPESIZE - 1 -> Byte]
    /\ readopen \in BOOLEAN
    /\ writeopen \in BOOLEAN
    /\ freed \in BOOLEAN
    /\ lock \in Thread \cup {None}
    /\ fds \in [{"read", "write"} -> SUBSET Proc]
    /\ pc \in [Thread -> {"idle", "enter", "loop", "copy", "sleep", "asleep", "woken",
                          "wild"}]
    /\ i \in [Thread -> Nat]
    /\ n \in [Thread -> Nat]
    /\ killed \in [Proc -> BOOLEAN]

(* pipealloc, and forks that have given every process both descriptors.    *)
Init ==
    /\ nread = 0
    /\ nwrite = 0
    /\ data = [k \in 0 .. PIPESIZE - 1 |-> Junk]
    /\ readopen = TRUE
    /\ writeopen = TRUE
    /\ freed = FALSE
    /\ lock = None
    /\ fds = [e \in {"read", "write"} |-> Proc]
    /\ pc = [t \in Thread |-> "idle"]
    /\ i = [t \in Thread |-> 0]
    /\ n = [t \in Thread |-> 0]
    /\ killed = [p \in Proc |-> FALSE]

Full == nwrite = (nread + PIPESIZE) % UintMod

Empty == nread = nwrite

Killed(t) == killed[ProcOf[t]]

(* wakeup of the sleepers of one channel: the writers sleep on nwrite, the *)
(* readers on nread.                                                       *)
Woken(sleepers) ==
    [u \in Thread |-> IF u \in sleepers /\ pc[u] = "asleep" THEN "woken" ELSE pc[u]]

WakeupAndGoto(sleepers, t, where) == pc' = [Woken(sleepers) EXCEPT ![t] = where]

Goto(t, where) == pc' = [pc EXCEPT ![t] = where]

(* release(&pi->lock) and return: the call's locals are gone.              *)
Return(t) ==
    /\ lock' = None
    /\ i' = [i EXCEPT ![t] = 0]
    /\ n' = [n EXCEPT ![t] = 0]

(* sys_read or sys_write: usertrap has seen p->killed unset, argfd and     *)
(* fileread or filewrite find the pipe through the descriptor.             *)
Call(t, count) ==
    /\ pc[t] = "idle"
    /\ ~Killed(t)
    /\ ProcOf[t] \in fds[IF t \in Writer THEN "write" ELSE "read"]
    /\ i' = [i EXCEPT ![t] = 0]
    /\ n' = [n EXCEPT ![t] = count]
    /\ Goto(t, "enter")
    /\ UNCHANGED <<pipeVars, lock, fds, killed>>

(* acquire(&pi->lock), at the entry of pipewrite or piperead or at the end *)
(* of sleep().                                                             *)
Acquire(t) ==
    /\ pc[t] \in {"enter", "woken"}
    /\ ~freed
    /\ lock = None
    /\ lock' = t
    /\ Goto(t, "loop")
    /\ UNCHANGED <<pipeVars, fds, i, n, killed>>

(* The lock t wants is in a page that has been freed.  What t does from    *)
(* here on is not defined by pipe.c, and the model does not follow it.     *)
UseFreed(t) ==
    /\ pc[t] \in {"enter", "woken"}
    /\ freed
    /\ Goto(t, "wild")
    /\ UNCHANGED <<pipeVars, lock, fds, i, n, killed>>

(* sleep() up to sched(): under p->lock, pi->lock is released and the      *)
(* thread marked t_SLEEPING.                                               *)
Sleep(t) ==
    /\ pc[t] = "sleep"
    /\ lock' = None
    /\ Goto(t, "asleep")
    /\ UNCHANGED <<pipeVars, fds, i, n, killed>>

-----------------------------------------------------------------------------
(* pipewrite's loop                                                        *)

(* No reader is left or the caller is killed: return -1.                   *)
WriteFail(w) ==
    /\ pc[w] = "loop"
    /\ i[w] < n[w]
    /\ ~readopen \/ Killed(w)
    /\ Return(w)
    /\ Goto(w, "idle")
    /\ UNCHANGED <<pipeVars, fds, killed>>

CanWriteKilled(w) ==
    /\ pc[w] = "loop"
    /\ i[w] < n[w]
    /\ readopen

CanWrite(w) ==
    /\ pc[w] = "loop"
    /\ i[w] < n[w]
    /\ readopen
    /\ ~Killed(w)

(* wakeup(&pi->nread), and on into sleep().                                *)
WriteSleep(w) ==
    /\ CanWrite(w)
    /\ Full
    /\ WakeupAndGoto(Reader, w, "sleep")
    /\ UNCHANGED <<pipeVars, lock, fds, i, n, killed>>

WriteByteOverrun(w, b) ==
    /\ CanWrite(w)
    /\ nwrite # nread + PIPESIZE
    /\ data' = [data EXCEPT ![nwrite % PIPESIZE] = b]
    /\ nwrite' = (nwrite + 1) % UintMod
    /\ i' = [i EXCEPT ![w] = @ + 1]
    /\ UNCHANGED <<nread, readopen, writeopen, freed, lock, fds, pc, n, killed>>

WriteByteNoWrap(w, b) ==
    /\ CanWrite(w)
    /\ ~Full
    /\ data' = [data EXCEPT ![nwrite % PIPESIZE] = b]
    /\ nwrite' = nwrite + 1
    /\ i' = [i EXCEPT ![w] = @ + 1]
    /\ UNCHANGED <<nread, readopen, writeopen, freed, lock, fds, pc, n, killed>>

WriteByte(w, b) ==
    /\ CanWrite(w)
    /\ ~Full
    /\ data' = [data EXCEPT ![nwrite % PIPESIZE] = b]
    /\ nwrite' = (nwrite + 1) % UintMod
    /\ i' = [i EXCEPT ![w] = @ + 1]
    /\ UNCHANGED <<nread, readopen, writeopen, freed, lock, fds, pc, n, killed>>

(* All bytes are written, or copyin fails: wake the readers and return.    *)
WriteDone(w) ==
    /\ \/ pc[w] = "loop" /\ i[w] = n[w]
       \/ CanWrite(w) /\ ~Full
    /\ Return(w)
    /\ WakeupAndGoto(Reader, w, "idle")
    /\ UNCHANGED <<pipeVars, fds, killed>>

-----------------------------------------------------------------------------
(* piperead: the wait loop, then the copy loop                             *)
ReadWait(r) == pc[r] = "loop" /\ Empty /\ writeopen

ReadFail(r) ==
    /\ ReadWait(r)
    /\ Killed(r)
    /\ Return(r)
    /\ Goto(r, "idle")
    /\ UNCHANGED <<pipeVars, fds, killed>>

ReadSleep(r) ==
    /\ ReadWait(r)
    /\ ~Killed(r)
    /\ Goto(r, "sleep")
    /\ UNCHANGED <<pipeVars, lock, fds, i, n, killed>>


ReadStart(r) ==
    /\ pc[r] = "loop"
    /\ ~Empty \/ ~writeopen
    /\ Goto(r, "copy")
    /\ UNCHANGED <<pipeVars, lock, fds, i, n, killed>>

ReadByte(r) ==
    /\ pc[r] = "copy"
    /\ i[r] < n[r]
    /\ ~Empty
    /\ nread' = (nread + 1) % UintMod
    /\ i' = [i EXCEPT ![r] = @ + 1]
    /\ UNCHANGED <<nwrite, data, readopen, writeopen, freed, lock, fds, pc, n, killed>>

(* copyout fails after nread was advanced: the byte is gone.               *)
ReadByteFault(r) ==
    /\ pc[r] = "copy"
    /\ i[r] < n[r]
    /\ ~Empty
    /\ nread' = (nread + 1) % UintMod
    /\ Return(r)
    /\ WakeupAndGoto(Writer, r, "idle")
    /\ UNCHANGED <<nwrite, data, readopen, writeopen, freed, fds, killed>>

ReadDoneSilent(r) ==
    /\ pc[r] = "copy"
    /\ i[r] = n[r] \/ Empty
    /\ Return(r)
    /\ Goto(r, "idle")
    /\ UNCHANGED <<pipeVars, fds, killed>>

ReadDone(r) ==
    /\ pc[r] = "copy"
    /\ i[r] = n[r] \/ Empty
    /\ Return(r)
    /\ WakeupAndGoto(Writer, r, "idle")
    /\ UNCHANGED <<pipeVars, fds, killed>>

-----------------------------------------------------------------------------

(* The page goes back to kfree once both ends are closed, whoever is still *)
(* in a call.                                                              *)
Pipeclose(e) ==
    /\ lock = None
    /\ readopen' = (readopen /\ e # "read")
    /\ writeopen' = (writeopen /\ e # "write")
    /\ pc' = Woken(IF e = "write" THEN Reader ELSE Writer)
    /\ freed' = ~(readopen' \/ writeopen')

(* A thread of p is outside the pipe, so it can close, be the one that     *)
(* runs a signal handler, or fault.                                        *)
InUser(p) == \E t \in Thread : ProcOf[t] = p /\ pc[t] = "idle"

(* fileclose: pipeclose is for the last descriptor of the end.             *)
Close(p, e) ==
    /\ InUser(p)
    /\ p \in fds[e]
    /\ fds' = [fds EXCEPT ![e] = @ \ {p}]
    /\ IF fds[e] = {p} THEN Pipeclose(e)
                       ELSE UNCHANGED <<readopen, writeopen, freed, pc>>
    /\ UNCHANGED <<nread, nwrite, data, lock, i, n, killed>>

(* sigkill_handler, in a thread of p on its way to user space: p->killed   *)
(* is set and every thread of p that is t_SLEEPING is made t_RUNNABLE.     *)
SigKill(p) ==
    /\ InUser(p)
    /\ ~killed[p]
    /\ killed' = [killed EXCEPT ![p] = TRUE]
    /\ pc' = Woken({t \in Thread : ProcOf[t] = p})
    /\ UNCHANGED <<pipeVars, lock, fds, i, n>>

(* A thread of p faults in user space: usertrap sets p->killed and wakes   *)
(* nobody.                                                                 *)
FaultKill(p) ==
    /\ InUser(p)
    /\ ~killed[p]
    /\ killed' = [killed EXCEPT ![p] = TRUE]
    /\ UNCHANGED <<pipeVars, lock, fds, callVars>>

-----------------------------------------------------------------------------
WriterStep(w) ==
    \/ WriteFail(w)
    \/ WriteSleep(w)
    \/ \E b \in Byte : WriteByte(w, b)
    \/ WriteDone(w)
    \/ Sleep(w)

ReaderStep(r) ==
    \/ ReadFail(r)
    \/ ReadSleep(r)
    \/ ReadStart(r)
    \/ ReadByte(r)
    \/ ReadByteFault(r)
    \/ ReadDone(r)
    \/ Sleep(r)

Next ==
    \/ \E t \in Thread : \E count \in Count[t] : Call(t, count)
    \/ \E t \in Thread : Acquire(t) \/ UseFreed(t)
    \/ \E w \in Writer : WriterStep(w)
    \/ \E r \in Reader : ReaderStep(r)
    \/ \E p \in Proc, e \in {"read", "write"} : Close(p, e)
    \/ \E p \in Proc : SigKill(p) \/ FaultKill(p)

Spec == Init /\ [][Next]_vars

(* A thread in a call keeps running, and one that spins for pi->lock gets  *)
(* it in the end (spinlocks are not fair, but calls are finite).  Nobody   *)
(* has to start a call, to close or to kill.                               *)
Fairness ==
    /\ \A w \in Writer : WF_vars(WriterStep(w))
    /\ \A r \in Reader : WF_vars(ReaderStep(r))
    /\ \A t \in Thread : SF_vars(Acquire(t)) /\ WF_vars(UseFreed(t))

FairSpec == Spec /\ Fairness

-----------------------------------------------------------------------------
(* The bytes in the ring, oldest first.                                    *)
Queued == (nwrite - nread) % UintMod

Contents == [k \in 1 .. Queued |-> data[(nread + k - 1) % PIPESIZE]]

BS == INSTANCE ByteStream
        WITH Capacity <- PIPESIZE, queue <- Contents,
             readEnd <- readopen, writeEnd <- writeopen

(* pipewrite and piperead on the ring implement a bounded byte queue, also *)
(* when nread and nwrite wrap around 2^32 and when an end is closed under  *)
(* a call: no byte is lost, repeated or overwritten, and none enters once  *)
(* the read end is closed.                                                 *)
Fifo == BS!Spec

(* A writer sleeps only while the pipe is full and has a reader, a reader  *)
(* only while it is empty and has a writer; while a call is under way the  *)
(* wakeup may still be to come, at its end.  So readers and writers never  *)
(* all wait for each other.  The one wakeup that is left out is that of a  *)
(* writer killed between two bytes, which returns -1 at once: a reader may *)
(* sleep beside its bytes until the next write or the close.               *)
SleepersJustified ==
    /\ \A w \in Writer : pc[w] = "asleep" =>
          readopen /\ (Full \/ \E r \in Reader : lock = r /\ pc[r] = "copy")
    /\ \A r \in Reader : pc[r] = "asleep" =>
          writeopen /\ (Empty \/ \E w \in Writer : Killed(w) \/ (lock = w /\ pc[w] = "loop"))



(* A thread of a killed process that is not asleep, nor past its test of   *)
(* p->killed on the way to sleep, leaves its call.  (One that is stays     *)
(* there until somebody wakes it.)                                         *)
KilledLeaves ==
    \A t \in Thread :
        Killed(t) /\ pc[t] \notin {"sleep", "asleep"} ~> pc[t] \in {"idle", "wild"}

(* Every read call that meets a blocked writer unblocks it.                *)
ReadUnblocksWriter ==
    \A w \in Writer, r \in Reader :
        pc[w] = "asleep" /\ pc[r] \notin {"idle", "wild"} ~> pc[w] # "asleep"
=============================================================================
