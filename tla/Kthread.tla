------------------------------- MODULE Kthread ------------------------------
(***************************************************************************)
(* kernel/proc.c: the threads of one process.  kthread_create,             *)
(* kthread_exit, kthread_join, and exit with killthreads.                  *)
(*                                                                         *)
(* A slot of thread_tbl stands for its thread; sleep and wakeup are atomic *)
(* (Sched.tla has their steps).  killthreads takes no lock: each of its    *)
(* accesses to another slot is a step.  A panic stops every hart, and what *)
(* is left of a process that has become a zombie is not followed.          *)
(***************************************************************************)
EXTENDS Integers

CONSTANTS
    NTHREAD,    \* slots of thread_tbl; slot 1 is allocated by allocproc
    MaxTid,     \* bound: get_tid is not called once nexttid has passed it
    JoinOnce,   \* TRUE: programs join only tids that are in use, and each once
    MayExit,    \* TRUE: threads may call exit, or fault
    None

ASSUME KthreadAssumption ==
    /\ NTHREAD \in Nat \ {0}
    /\ MaxTid \in Nat \ {0}
    /\ JoinOnce \in BOOLEAN /\ MayExit \in BOOLEAN
    /\ None \notin Int

Slot == 1 .. NTHREAD

VARIABLES
    tstate,     \* t->state, "LIVE" for t_RUNNABLE and t_RUNNING
    tid,        \* t->tid, kept when the slot is freed
    killed,     \* t->killed
    pkilled,    \* p->killed
    trapframe,  \* t->trapframe is not null
    nexttid,    \* of all processes
    plock,      \* p->lock: the slot whose thread holds it
    wait_lock,  \* the slot whose thread holds it
    pc,
    jtid,       \* tthread_id of kthread_join
    slot,       \* local t of kthread_create and kthread_join
    k, got      \* locals of killthreads

threadVars == <<tstate, tid, killed, trapframe>>
sharedVars == <<nexttid, pkilled>>
lockVars == <<plock, wait_lock>>
joinVars == <<jtid, slot>>
killVars == <<k, got>>
vars == <<threadVars, sharedVars, lockVars, pc, joinVars, killVars>>

PC == {"none", "user", "create", "kexit_wake", "kexit_zombie", "swtch", "gone",
       "join_find", "join_relock", "join_test", "asleep", "woken",
       "exit", "kill_test", "kill_set", "kill_scan", "kill_got", "exited",
       "create_fault", "trap_fault", "sched_p_lock"}

TypeOK ==
    /\ tstate \in [Slot -> {"UNUSED", "LIVE", "SLEEPING", "ZOMBIE"}]
    /\ tid \in [Slot -> 0 .. MaxTid]
    /\ killed \in [Slot -> BOOLEAN]
    /\ trapframe \in [Slot -> BOOLEAN]
    /\ nexttid \in 1 .. MaxTid + 1
    /\ pkilled \in BOOLEAN
    /\ plock \in Slot \cup {None} /\ wait_lock \in Slot \cup {None}
    /\ pc \in [Slot -> PC]
    /\ jtid \in [Slot -> 0 .. MaxTid + 1]
    /\ slot \in [Slot -> Slot] /\ k \in [Slot -> Slot]
    /\ got \in [Slot -> BOOLEAN]

(* allocproc has given every slot its trapframe and slot 1 a thread.       *)
Init ==
    /\ tstate = [s \in Slot |-> IF s = 1 THEN "LIVE" ELSE "UNUSED"]
    /\ tid = [s \in Slot |-> IF s = 1 THEN 1 ELSE 0]
    /\ killed = [s \in Slot |-> FALSE]
    /\ trapframe = [s \in Slot |-> TRUE]
    /\ nexttid = 2
    /\ pkilled = FALSE
    /\ plock = None /\ wait_lock = None
    /\ pc = [s \in Slot |-> IF s = 1 THEN "user" ELSE "none"]
    /\ jtid = [s \in Slot |-> 0]
    /\ slot = [s \in Slot |-> 1]
    /\ k = [s \in Slot |-> 1]
    /\ got = [s \in Slot |-> FALSE]

Goto(s, where) == pc' = [pc EXCEPT ![s] = where]

(* No panic, and the process is not a zombie.                              *)
Running ==
    \A s \in Slot : pc[s] \notin {"create_fault", "trap_fault", "sched_p_lock", "exited"}

At(s, where) == Running /\ pc[s] = where

(* The thread in slot s traps into the kernel; usertrap stores the user pc *)
(* in its trapframe.                                                       *)
Trapping(s) == At(s, "user") /\ trapframe[s]

(* usertrap lets it into a system call; once p->killed is set every trap   *)
(* ends in exit instead.                                                   *)
Calling(s) == Trapping(s) /\ ~pkilled

(* The slot was freed while its thread was still there: usertrap, or       *)
(* usertrapret before it, reaches through the null pointer.                *)
UserTrapFault(s) ==
    /\ At(s, "user")
    /\ ~trapframe[s]
    /\ Goto(s, "trap_fault")
    /\ UNCHANGED <<threadVars, sharedVars, lockVars, joinVars, killVars>>

-----------------------------------------------------------------------------
(* kthread_create_proc: acquire(&p->lock); the first unused slot becomes   *)
(* t_RUNNABLE.  With no free slot the call returns -1 and changes nothing. *)
CreateSlot(s) ==
    /\ Calling(s)
    /\ plock = None
    /\ nexttid <= MaxTid
    /\ \E t \in Slot :
          /\ tstate[t] = "UNUSED" /\ \A u \in 1 .. t - 1 : tstate[u] # "UNUSED"
          /\ tstate' = [tstate EXCEPT ![t] = "LIVE"]
          /\ slot' = [slot EXCEPT ![s] = t]
    /\ plock' = s
    /\ Goto(s, "create")
    /\ UNCHANGED <<tid, killed, trapframe, sharedVars, wait_lock, jtid, killVars>>

(* The slot gets newtid; t->trapframe->epc faults, with p->lock held, when *)
(* the slot was freed before.                                              *)
Create(s, newtid) ==
    LET t == slot[s] IN
    /\ At(s, "create")
    /\ tid' = [tid EXCEPT ![t] = newtid]
    /\ IF trapframe[t]
       THEN plock' = None /\ pc' = [pc EXCEPT ![t] = "user", ![s] = "user"]
       ELSE plock' = plock /\ Goto(s, "create_fault")
    /\ slot' = [slot EXCEPT ![s] = 1]
    /\ UNCHANGED <<tstate, killed, pkilled, trapframe, wait_lock, jtid, killVars>>

CreateTidPreIncrement(s) == Create(s, nexttid + 1) /\ nexttid' = nexttid + 1

(* get_tid: nexttid is read and incremented under tid_lock.                *)
CreateTid(s) == Create(s, nexttid) /\ nexttid' = nexttid + 1

(* Another process calls get_tid, for a thread or for a fork.              *)
GetTidElsewhere ==
    /\ Running
    /\ nexttid < MaxTid
    /\ nexttid' = nexttid + 1
    /\ UNCHANGED <<threadVars, pkilled, lockVars, pc, joinVars, killVars>>

-----------------------------------------------------------------------------
(* kthread_exit_proc looks for another thread under p->lock; a slot in     *)
(* state t_UNUSED counts as one.                                           *)
KExit(s) ==
    /\ Calling(s)
    /\ plock = None
    /\ Goto(s, IF \E t \in Slot : tid[t] # tid[s] /\ tstate[t] # "ZOMBIE"
               THEN "kexit_wake" ELSE "exit")
    /\ UNCHANGED <<threadVars, sharedVars, lockVars, joinVars, killVars>>

(* The threads asleep in kthread_join on slot s.                           *)
Joiners(s) == {j \in Slot : pc[j] = "asleep" /\ tstate[j] = "SLEEPING" /\ slot[j] = s}

(* The threads J are made t_RUNNABLE; s is left in state `st' at `where'.  *)
WakeAndGoto(J, s, st, where) ==
    /\ tstate' = [j \in Slot |-> IF j = s THEN st ELSE IF j \in J THEN "LIVE" ELSE tstate[j]]
    /\ pc' = [j \in Slot |-> IF j = s THEN where ELSE IF j \in J THEN "woken" ELSE pc[j]]

KExitSilent(s) ==
    /\ At(s, "kexit_wake")
    /\ wait_lock = None
    /\ wait_lock' = s
    /\ Goto(s, "kexit_zombie")
    /\ UNCHANGED <<threadVars, sharedVars, plock, joinVars, killVars>>

KExitWakeUnlocked(s) ==
    /\ At(s, "kexit_wake")
    /\ WakeAndGoto(Joiners(s), s, tstate[s], "kexit_zombie")
    /\ UNCHANGED <<tid, killed, trapframe, sharedVars, lockVars, joinVars, killVars>>

(* acquire(&wait_lock); wakeup(curr_t).                                    *)
KExitWake(s) ==
    /\ At(s, "kexit_wake")
    /\ wait_lock = None
    /\ wait_lock' = s
    /\ WakeAndGoto(Joiners(s), s, tstate[s], "kexit_zombie")
    /\ UNCHANGED <<tid, killed, trapframe, sharedVars, plock, joinVars, killVars>>

KExitZombieUnlocked(s) ==
    /\ At(s, "kexit_zombie")
    /\ plock = None
    /\ tstate' = [tstate EXCEPT ![s] = "ZOMBIE"]
    /\ wait_lock' = None
    /\ Goto(s, "swtch")
    /\ UNCHANGED <<tid, killed, trapframe, sharedVars, plock, joinVars, killVars>>

(* acquire(&p->lock); state = TZOMBIE; release(&wait_lock); sched().       *)
KExitZombie(s) ==
    /\ At(s, "kexit_zombie")
    /\ plock = None
    /\ plock' = s
    /\ tstate' = [tstate EXCEPT ![s] = "ZOMBIE"]
    /\ wait_lock' = None
    /\ Goto(s, "swtch")
    /\ UNCHANGED <<tid, killed, trapframe, sharedVars, joinVars, killVars>>

(* Off the kernel stack; scheduler() releases p->lock.                     *)
Swtch(s) ==
    /\ At(s, "swtch")
    /\ plock' = None
    /\ Goto(s, "gone")
    /\ UNCHANGED <<threadVars, sharedVars, wait_lock, joinVars, killVars>>

-----------------------------------------------------------------------------
(* kthread_join_proc up to acquire(&wait_lock).  nexttid itself passes the *)
(* test on tthread_id.                                                     *)
Join(s, id) ==
    /\ Calling(s)
    /\ id # tid[s] /\ id <= nexttid /\ id >= 1
    /\ JoinOnce => /\ \E t \in Slot : tid[t] = id /\ tstate[t] # "UNUSED"
                   /\ \A j \in Slot : jtid[j] # id
    /\ wait_lock = None
    /\ wait_lock' = s
    /\ jtid' = [jtid EXCEPT ![s] = id]
    /\ Goto(s, "join_find")
    /\ UNCHANGED <<threadVars, sharedVars, plock, slot, killVars>>

(* acquire(&p->lock); the first slot with the tid, else the last slot.     *)
JoinFind(s) ==
    /\ At(s, "join_find")
    /\ plock = None
    /\ plock' = s
    /\ \E t \in Slot :
          /\ tid[t] = jtid[s] \/ t = NTHREAD
          /\ \A u \in 1 .. t - 1 : tid[u] # jtid[s]
          /\ slot' = [slot EXCEPT ![s] = t]
    /\ Goto(s, "join_test")
    /\ UNCHANGED <<threadVars, sharedVars, wait_lock, jtid, killVars>>

MustSleep(s) == tid[slot[s]] = jtid[s] /\ tstate[slot[s]] # "ZOMBIE"

(* release(&p->lock); sleep(t, &wait_lock).                                *)
JoinSleep(s) ==
    /\ At(s, "join_test")
    /\ MustSleep(s)
    /\ plock' = None /\ wait_lock' = None
    /\ tstate' = [tstate EXCEPT ![s] = "SLEEPING"]
    /\ Goto(s, "asleep")
    /\ UNCHANGED <<tid, killed, trapframe, sharedVars, joinVars, killVars>>

(* sleep returns with wait_lock.                                           *)
JoinWake(s) ==
    /\ At(s, "woken")
    /\ wait_lock = None
    /\ wait_lock' = s
    /\ Goto(s, "join_relock")
    /\ UNCHANGED <<threadVars, sharedVars, plock, joinVars, killVars>>

JoinRelock(s) ==
    /\ At(s, "join_relock")
    /\ plock = None
    /\ plock' = s
    /\ Goto(s, "join_test")
    /\ UNCHANGED <<threadVars, sharedVars, wait_lock, joinVars, killVars>>

(* The loop is left: free_thread(t), whoever's t is, both locks released,  *)
(* return 0.                                                               *)
JoinFree(s) ==
    LET t == slot[s] IN
    /\ At(s, "join_test")
    /\ ~MustSleep(s)
    /\ jtid' = [jtid EXCEPT ![s] = 0]
    /\ slot' = [slot EXCEPT ![s] = 1]
    /\ tstate' = [tstate EXCEPT ![t] = "UNUSED"]
    /\ trapframe' = [trapframe EXCEPT ![t] = FALSE]
    /\ killed' = [killed EXCEPT ![t] = FALSE]
    /\ plock' = None /\ wait_lock' = None
    /\ pc' = [pc EXCEPT ![t] = IF @ = "gone" THEN "none" ELSE @, ![s] = "user"]
    /\ UNCHANGED <<tid, sharedVars, killVars>>

JoinFaultLocked(s) ==
    /\ At(s, "join_test")
    /\ ~MustSleep(s)
    /\ jtid' = [jtid EXCEPT ![s] = 0]
    /\ slot' = [slot EXCEPT ![s] = 1]
    /\ plock' = None
    /\ Goto(s, "user")
    /\ UNCHANGED <<threadVars, sharedVars, wait_lock, killVars>>

(* copyout of the status fails: return -1, the thread stays a zombie.      *)
JoinFault(s) ==
    /\ At(s, "join_test")
    /\ ~MustSleep(s)
    /\ jtid' = [jtid EXCEPT ![s] = 0]
    /\ slot' = [slot EXCEPT ![s] = 1]
    /\ plock' = None /\ wait_lock' = None
    /\ Goto(s, "user")
    /\ UNCHANGED <<threadVars, sharedVars, killVars>>

(* s returns to user space through sigkill_handler: under p->lock          *)
(* p->killed is set and every sleeping thread is made t_RUNNABLE.          *)
SigKill(s) ==
    LET J == {j \in Slot : pc[j] = "asleep" /\ tstate[j] = "SLEEPING"} IN
    /\ Calling(s)
    /\ plock = None
    /\ pkilled' = TRUE
    /\ WakeAndGoto(J, s, tstate[s], "user")
    /\ UNCHANGED <<tid, killed, trapframe, nexttid, lockVars, joinVars, killVars>>

-----------------------------------------------------------------------------
(* exit and killthreads, which read and write the table without a lock     *)

ExitCall(s) ==
    /\ MayExit
    /\ Calling(s)
    /\ Goto(s, "exit")
    /\ UNCHANGED <<threadVars, sharedVars, lockVars, joinVars, killVars>>

(* usertrap: the trap of a thread of a killed process, and a fault, which  *)
(* sets p->killed itself, end in exit(-1).                                 *)
UserTrapKilled(s) ==
    /\ Trapping(s)
    /\ pkilled \/ MayExit
    /\ pkilled' = TRUE
    /\ Goto(s, "exit")
    /\ UNCHANGED <<threadVars, nexttid, lockVars, joinVars, killVars>>

(* A thread marked by another one's killthreads wakes its joiners, takes   *)
(* its own t->lock and calls sched(), which panics unless p->lock is held. *)
KillMarked(s) ==
    /\ At(s, "exit")
    /\ killed[s]
    /\ WakeAndGoto(Joiners(s), s, "ZOMBIE", "sched_p_lock")
    /\ UNCHANGED <<tid, killed, trapframe, sharedVars, lockVars, joinVars, killVars>>

KillStart(s) ==
    /\ At(s, "exit")
    /\ ~killed[s]
    /\ Goto(s, "kill_test")
    /\ UNCHANGED <<threadVars, sharedVars, lockVars, joinVars, killVars>>

(* Slot k[s] is in use by another thread that has not exited.              *)
OtherThread(s) == tid[k[s]] # tid[s] /\ tstate[k[s]] \notin {"ZOMBIE", "UNUSED"}

(* The loop over the slots: on to the next one, or to `after'.             *)
NextSlot(s, loop, after) ==
    /\ Goto(s, IF k[s] = NTHREAD THEN after ELSE loop)
    /\ k' = [k EXCEPT ![s] = IF @ = NTHREAD THEN 1 ELSE @ + 1]

KillTest(s) ==
    /\ At(s, "kill_test")
    /\ IF OtherThread(s) THEN Goto(s, "kill_set") /\ k' = k
                         ELSE NextSlot(s, "kill_test", "kill_scan")
    /\ UNCHANGED <<threadVars, sharedVars, lockVars, joinVars, got>>

(* trd->killed = 1; by now trd may have exited or have been freed.         *)
KillSet(s) ==
    /\ At(s, "kill_set")
    /\ killed' = [killed EXCEPT ![k[s]] = TRUE]
    /\ NextSlot(s, "kill_test", "kill_scan")
    /\ UNCHANGED <<tstate, tid, trapframe, sharedVars, lockVars, joinVars, got>>

KillScan(s) ==
    /\ At(s, "kill_scan")
    /\ got' = [got EXCEPT ![s] = @ \/ OtherThread(s)]
    /\ NextSlot(s, "kill_scan", "kill_got")
    /\ UNCHANGED <<threadVars, sharedVars, lockVars, joinVars>>

(* Another thread was found: yield(), and scan again.                      *)
KillYield(s) ==
    /\ At(s, "kill_got")
    /\ got[s]
    /\ plock = None
    /\ tstate' = [tstate EXCEPT ![s] = "LIVE"]
    /\ got' = [got EXCEPT ![s] = FALSE]
    /\ Goto(s, "kill_scan")
    /\ UNCHANGED <<tid, killed, trapframe, sharedVars, lockVars, joinVars, k>>

(* None was found: exit closes the files and makes the process a zombie    *)
(* (Process.tla), also when a thread was created in a slot already passed. *)
ExitDone(s) ==
    /\ At(s, "kill_got")
    /\ ~got[s]
    /\ plock = None /\ wait_lock = None
    /\ tstate' = [tstate EXCEPT ![s] = "ZOMBIE"]
    /\ Goto(s, "exited")
    /\ UNCHANGED <<tid, killed, trapframe, sharedVars, lockVars, joinVars, killVars>>

-----------------------------------------------------------------------------
Next ==
    \/ \E s \in Slot :
          \/ CreateSlot(s) \/ CreateTid(s)
          \/ KExit(s) \/ KExitWake(s) \/ KExitZombie(s) \/ Swtch(s)
          \/ \E id \in 1 .. MaxTid + 1 : Join(s, id)
          \/ JoinFind(s) \/ JoinSleep(s) \/ JoinWake(s) \/ JoinRelock(s)
          \/ JoinFree(s) \/ JoinFault(s)
          \/ SigKill(s) \/ UserTrapFault(s)
          \/ ExitCall(s) \/ UserTrapKilled(s)
          \/ KillMarked(s) \/ KillStart(s) \/ KillTest(s)
          \/ KillSet(s) \/ KillScan(s) \/ KillYield(s) \/ ExitDone(s)
    \/ GetTidElsewhere

Spec == Init /\ [][Next]_vars

KernelStep(s) ==
    /\ tstate[s] # "UNUSED" \/ s \in {plock, wait_lock}
    /\ \/ CreateTid(s)
       \/ KExitWake(s) \/ KExitZombie(s) \/ Swtch(s)
       \/ JoinFind(s) \/ JoinSleep(s) \/ JoinWake(s) \/ JoinRelock(s)
       \/ JoinFree(s) \/ JoinFault(s)
       \/ KillMarked(s) \/ KillStart(s) \/ KillTest(s) \/ KillSet(s) \/ KillScan(s)
       \/ KillYield(s) \/ ExitDone(s)

(* A thread in the kernel is scheduled until it leaves it, and one that    *)
(* spins for a lock again and again gets it at last.  A thread whose slot  *)
(* was freed may not be scheduled again, but one that holds a lock is on a *)
(* hart with interrupts off and goes on.                                   *)
FairSpec == Spec /\ \A s \in Slot : SF_vars(KernelStep(s))

(* Programs in which a thread that stays in user space calls kthread_exit  *)
(* in the end; one of a killed process is led into exit by the next timer  *)
(* interrupt.                                                              *)
ExitingSpec ==
    FairSpec /\ \A s \in Slot : SF_vars(KExit(s) \/ (pkilled /\ UserTrapKilled(s)))

-----------------------------------------------------------------------------
(* No joiner misses the exit: a thread asleep in kthread_join never sleeps *)
(* beside a zombie it could reap.  kthread_exit wakes the joiners before   *)
(* it becomes a zombie, and wait_lock keeps them from looking in between.  *)
(* (It may sleep on a slot that is already free, when another thread has   *)
(* joined the tid before it.)                                              *)
JoinersMissNoExit ==
    Running => \A s \in Slot : tstate[s] = "SLEEPING" => tstate[slot[s]] # "ZOMBIE"

(* kthread_join frees a slot only when its thread has left its kernel      *)
(* stack in kthread_exit, through p->lock; the one exception is the last   *)
(* slot, where the search for a tid that is not in the table ends.         *)
OnlyLastSlotFreedEarly ==
    \A s \in Slot : tstate[s] = "UNUSED" => pc[s] = "none" \/ s = NTHREAD

(* kthread_join leaves with both locks released on every path, whatever    *)
(* tid it is given: a lock that is held is held by a thread on the path    *)
(* that took it.                                                           *)
LocksHeldInside ==
    /\ plock # None => pc[plock] \in {"create", "swtch", "join_test", "create_fault"}
    /\ wait_lock # None =>
          pc[wait_lock] \in {"kexit_zombie", "join_find", "join_relock", "join_test"}

(* s is in kthread_join and the thread it has found has exited.            *)
JoinsZombie(s) ==
    /\ jtid[s] # 0 /\ pc[s] # "join_find"
    /\ tid[slot[s]] = jtid[s] /\ tstate[slot[s]] = "ZOMBIE"

(* Once the thread it joins has exited, kthread_join returns or another    *)
(* thread that joins it frees the slot, also when sigkill_handler wakes it *)
(* early (unless the joiner's own slot is freed, the kernel panics or the  *)
(* process ends).                                                          *)
JoinReturns ==
    \A s \in Slot : JoinsZombie(s) ~> ~JoinsZombie(s) \/ tstate[s] = "UNUSED" \/ ~Running

-----------------------------------------------------------------------------
(* "Switch to scheduler.  Must hold only p->lock and have changed          *)
(* proc->state" (proc.c:759): sched() is called with p->lock held.         *)
SchedHoldsPLock == \A s \in Slot : pc[s] # "sched_p_lock"

(* "need to kill all other threads" (proc.c:577): a thread that calls exit *)
(* ends the process, when every thread that stays in user space exits      *)
(* (unless the kernel panics).                                             *)
ExitEndsProcess ==
    \A s \in Slot : pc[s] = "kill_scan" ~> ~Running

(* kerneltrap panics when the kernel itself faults: kthread_create writes  *)
(* through t->trapframe of the slot it takes, which must not be null.      *)
CreateFindsTrapframe == \A s \in Slot : pc[s] # "create_fault"
=============================================================================
