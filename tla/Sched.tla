------------------------------- MODULE Sched --------------------------------
(***************************************************************************)
(* kernel/proc.c scheduler, sched, yield, sleep, wakeup and forkret, with  *)
(* the timer path of trap.c and, as the kernel code that sleeps, the       *)
(* sleeplock of kernel/sleeplock.c.                                        *)
(*                                                                         *)
(* Every hart runs the loop of scheduler() over the process table and,     *)
(* inside a process, over its thread table.  p->lock is taken by the       *)
(* scheduler, handed over to the thread by swtch, and handed back by the   *)
(* thread's sched().  Spinlocks belong to harts.  acquire and release are  *)
(* atomic here (Spinlock.tla has their steps) but keep their effect on     *)
(* noff, intena and the hart's interrupt enable.                           *)
(*                                                                         *)
(* c->proc is sp[c] and is not kept apart.  All processes are USED.        *)
(***************************************************************************)
EXTENDS Integers

CONSTANTS
    Cpu,       \* harts
    NPROC,     \* slots of proc[]
    NTHREAD,   \* slots of p->thread_tbl[]
    Live,      \* the slots that hold a thread; the others are t_UNUSED
    None       \* no hart holds the lock; no thread on the hart

Proc == 1 .. NPROC
Thread == Proc \X (1 .. NTHREAD)

ASSUME SchedAssumption ==
    /\ NPROC \in Nat \ {0}
    /\ NTHREAD \in Nat \ {0}
    /\ Live \subseteq Thread
    /\ None \notin Cpu
    /\ None \notin Thread

VARIABLES
    plock,     \* p->lock: the hart holding it
    lkcpu,     \* lk->lk, the sleeplock's spinlock: the hart holding it
    locked,    \* lk->locked
    lpid,      \* lk->pid: the process that holds the sleeplock, 0 if none
    tstate,    \* t->state
    tchan,     \* t->chan is the sleeplock
    tpc,       \* where the thread's kernel context is
    tret,      \* where the interrupted context resumes
    wk,        \* loop variable p of wakeup
    saved,     \* sched's local intena
    cur,       \* c->thread
    spc,       \* scheduler(): "acquire", "scan", or "swtch" while a thread runs
    sp,        \* scheduler(): loop variable p
    si,        \* scheduler(): loop variable i
    noff, intena, intr

lockVars == <<plock, lkcpu, locked, lpid>>
threadVars == <<tstate, tchan, tpc, tret, wk, saved>>
schedVars == <<cur, spc, sp, si>>
intrVars == <<noff, intena, intr>>
vars == <<plock, lkcpu, locked, lpid, tstate, tchan, tpc, tret, wk, saved,
          cur, spc, sp, si, noff, intena, intr>>

TPC == {"forkret", "idle",
        "as_lock", "as_test", "as_unlock", "crit",
        "sl_plock", "sl_unlk", "sl_mark", "sl_sched", "sl_back",
        "rs_clear", "rs_wake",
        "y_plock", "y_sched", "y_back", "y_sret"}

TypeOK ==
    /\ plock \in [Proc -> Cpu \cup {None}]
    /\ lkcpu \in Cpu \cup {None}
    /\ locked \in BOOLEAN
    /\ lpid \in 0 .. NPROC
    /\ tstate \in [Thread -> {"UNUSED", "SLEEPING", "RUNNABLE", "RUNNING"}]
    /\ tchan \in [Thread -> BOOLEAN]
    /\ tpc \in [Thread -> TPC]
    /\ tret \in [Thread -> TPC]
    /\ wk \in [Thread -> 1 .. NPROC + 1]
    /\ saved \in [Thread -> BOOLEAN]
    /\ cur \in [Cpu -> Thread \cup {None}]
    /\ spc \in [Cpu -> {"acquire", "scan", "swtch"}]
    /\ sp \in [Cpu -> Proc]
    /\ si \in [Cpu -> 1 .. NTHREAD + 1]
    /\ noff \in [Cpu -> 0 .. 2]
    /\ intena \in [Cpu -> BOOLEAN]
    /\ intr \in [Cpu -> BOOLEAN]

(* After boot: every thread has been made RUNNABLE by userinit or fork,    *)
(* its context set up to start in forkret.                                 *)
Init ==
    /\ plock = [p \in Proc |-> None]
    /\ lkcpu = None
    /\ locked = FALSE
    /\ lpid = 0
    /\ tstate = [t \in Thread |-> IF t \in Live THEN "RUNNABLE" ELSE "UNUSED"]
    /\ tchan = [t \in Thread |-> FALSE]
    /\ tpc = [t \in Thread |-> "forkret"]
    /\ tret = [t \in Thread |-> "idle"]
    /\ wk = [t \in Thread |-> 1]
    /\ saved = [t \in Thread |-> FALSE]
    /\ cur = [c \in Cpu |-> None]
    /\ spc = [c \in Cpu |-> "acquire"]
    /\ sp = [c \in Cpu |-> 1]
    /\ si = [c \in Cpu |-> 1]
    /\ noff = [c \in Cpu |-> 0]
    /\ intena = [c \in Cpu |-> FALSE]
    /\ intr = [c \in Cpu |-> TRUE]

-----------------------------------------------------------------------------
(* push_off in acquire; pop_off in release, with the hart's intena set to  *)
(* ena before (sched restores it).                                         *)
PushOff(c) ==
    /\ noff' = [noff EXCEPT ![c] = @ + 1]
    /\ intena' = IF noff[c] = 0 THEN [intena EXCEPT ![c] = intr[c]] ELSE intena
    /\ intr' = [intr EXCEPT ![c] = FALSE]

PopOff(c, ena) ==
    /\ noff' = [noff EXCEPT ![c] = @ - 1]
    /\ intena' = [intena EXCEPT ![c] = ena]
    /\ intr' = IF noff[c] = 1 /\ ena THEN [intr EXCEPT ![c] = TRUE] ELSE intr

Goto(t, where) == tpc' = [tpc EXCEPT ![t] = where]

(* The thread whose kernel context hart c executes, at program point `at'. *)
At(c, at) == spc[c] = "swtch" /\ tpc[cur[c]] = at

AcquireLk(c) ==
    /\ lkcpu = None
    /\ lkcpu' = c
    /\ PushOff(c)

ReleaseLk(c) ==
    /\ lkcpu' = None
    /\ PopOff(c, intena[c])

AcquireP(c, p) ==
    /\ plock[p] = None
    /\ plock' = [plock EXCEPT ![p] = c]
    /\ PushOff(c)

SwitchToSchedulerRestart(c) ==
    /\ cur' = [cur EXCEPT ![c] = None]
    /\ spc' = [spc EXCEPT ![c] = "scan"]
    /\ si' = [si EXCEPT ![c] = 1]
    /\ saved' = [saved EXCEPT ![cur[c]] = intena[c]]
    /\ UNCHANGED <<sp, plock, intrVars>>

(* The conditions on which sched() panics.                                 *)
SchedPanics(c) ==
    \/ plock[cur[c][1]] # c
    \/ noff[c] \notin {1, 2}
    \/ tstate[cur[c]] = "RUNNING"
    \/ intr[c]

(* swtch from the thread's sched() into scheduler(), which goes on with    *)
(* the next thread slot.                                                   *)
SwitchToScheduler(c) ==
    /\ cur' = [cur EXCEPT ![c] = None]
    /\ spc' = [spc EXCEPT ![c] = "scan"]
    /\ si' = [si EXCEPT ![c] = @ + 1]
    /\ saved' = [saved EXCEPT ![cur[c]] = intena[c]]
    /\ UNCHANGED <<sp, plock, intrVars>>

-----------------------------------------------------------------------------
(* scheduler()                                                             *)

(* acquire(&p->lock); a new sweep over proc[] starts with intr_on().       *)
SchedAcquire(c) ==
    /\ spc[c] = "acquire"
    /\ plock[sp[c]] = None
    /\ plock' = [plock EXCEPT ![sp[c]] = c]
    /\ noff' = [noff EXCEPT ![c] = @ + 1]
    /\ intena' = [intena EXCEPT ![c] = (sp[c] = 1 \/ intr[c])]
    /\ intr' = [intr EXCEPT ![c] = FALSE]
    /\ spc' = [spc EXCEPT ![c] = "scan"]
    /\ si' = [si EXCEPT ![c] = 1]
    /\ UNCHANGED <<lkcpu, locked, lpid, threadVars, cur, sp>>

(* Slot i holds a runnable thread: run it.                                 *)
SchedRun(c) ==
    LET t == <<sp[c], si[c]>> IN
    /\ spc[c] = "scan"
    /\ si[c] <= NTHREAD
    /\ tstate[t] = "RUNNABLE"
    /\ tstate' = [tstate EXCEPT ![t] = "RUNNING"]
    /\ cur' = [cur EXCEPT ![c] = t]
    /\ spc' = [spc EXCEPT ![c] = "swtch"]
    /\ UNCHANGED <<lockVars, tchan, tpc, tret, wk, saved, sp, si, intrVars>>

SchedSkip(c) ==
    /\ spc[c] = "scan"
    /\ si[c] <= NTHREAD
    /\ tstate[<<sp[c], si[c]>>] # "RUNNABLE"
    /\ si' = [si EXCEPT ![c] = @ + 1]
    /\ UNCHANGED <<lockVars, threadVars, cur, spc, sp, intrVars>>

SchedReleaseNoWrap(c) ==
    /\ spc[c] = "scan"
    /\ si[c] > NTHREAD
    /\ plock' = [plock EXCEPT ![sp[c]] = None]
    /\ PopOff(c, intena[c])
    /\ sp' = [sp EXCEPT ![c] = IF @ > NPROC THEN 1 ELSE @ + 1]
    /\ spc' = [spc EXCEPT ![c] = "acquire"]
    /\ UNCHANGED <<lkcpu, locked, lpid, threadVars, cur, si>>

(* The thread table is exhausted: release(&p->lock), next p.               *)
SchedRelease(c) ==
    /\ spc[c] = "scan"
    /\ si[c] > NTHREAD
    /\ plock' = [plock EXCEPT ![sp[c]] = None]
    /\ PopOff(c, intena[c])
    /\ sp' = [sp EXCEPT ![c] = IF @ = NPROC THEN 1 ELSE @ + 1]
    /\ spc' = [spc EXCEPT ![c] = "acquire"]
    /\ UNCHANGED <<lkcpu, locked, lpid, threadVars, cur, si>>

-----------------------------------------------------------------------------
(* A thread's first run: forkret releases p->lock and returns to user      *)
(* space (usertrapret; sret turns interrupts on).                          *)
Forkret(c) ==
    LET t == cur[c] IN
    /\ At(c, "forkret")
    /\ plock' = [plock EXCEPT ![t[1]] = None]
    /\ noff' = [noff EXCEPT ![c] = @ - 1]
    /\ intr' = [intr EXCEPT ![c] = TRUE]
    /\ Goto(t, "idle")
    /\ UNCHANGED <<lkcpu, locked, lpid, tstate, tchan, tret, wk, saved, schedVars, intena>>

(* acquiresleep(lk): acquire(&lk->lk), also when sleep() reacquires it.    *)
AcquiresleepLock(c) ==
    /\ At(c, "idle") \/ At(c, "as_lock")
    /\ AcquireLk(c)
    /\ Goto(cur[c], "as_test")
    /\ UNCHANGED <<plock, locked, lpid, tstate, tchan, tret, wk, saved, schedVars>>

AcquiresleepBlind(c) ==
    /\ At(c, "as_test")
    /\ locked' = TRUE
    /\ lpid' = cur[c][1]
    /\ Goto(cur[c], "as_unlock")
    /\ UNCHANGED <<plock, lkcpu, tstate, tchan, tret, wk, saved, schedVars, intrVars>>

(* while (lk->locked) sleep(...); lk->locked = 1.                          *)
AcquiresleepTest(c) ==
    /\ At(c, "as_test")
    /\ locked' = TRUE
    /\ lpid' = IF locked THEN lpid ELSE cur[c][1]
    /\ Goto(cur[c], IF locked THEN "sl_plock" ELSE "as_unlock")
    /\ UNCHANGED <<plock, lkcpu, tstate, tchan, tret, wk, saved, schedVars, intrVars>>

AcquiresleepUnlock(c) ==
    /\ At(c, "as_unlock")
    /\ ReleaseLk(c)
    /\ Goto(cur[c], "crit")
    /\ UNCHANGED <<plock, locked, lpid, tstate, tchan, tret, wk, saved, schedVars>>

ReleasesleepLock(c) ==
    /\ At(c, "crit")
    /\ AcquireLk(c)
    /\ Goto(cur[c], "rs_clear")
    /\ UNCHANGED <<plock, locked, lpid, tstate, tchan, tret, wk, saved, schedVars>>

ReleasesleepClear(c) ==
    /\ At(c, "rs_clear")
    /\ locked' = FALSE
    /\ lpid' = 0
    /\ Goto(cur[c], "rs_wake")
    /\ UNCHANGED <<plock, lkcpu, tstate, tchan, tret, wk, saved, schedVars, intrVars>>

WakeupUnlocked(c) ==
    LET t == cur[c]
        p == wk[t]
    IN
    /\ At(c, "rs_wake")
    /\ p <= NPROC
    /\ tstate' = [u \in Thread |->
                     IF u[1] = p /\ tstate[u] = "SLEEPING" /\ tchan[u]
                     THEN "RUNNABLE" ELSE tstate[u]]
    /\ wk' = [wk EXCEPT ![t] = p + 1]
    /\ UNCHANGED <<lockVars, tchan, tpc, tret, saved, schedVars, intrVars>>

(* One iteration of wakeup(lk): with p->lock held, every thread of p that  *)
(* sleeps on lk becomes runnable.                                          *)
Wakeup(c) ==
    LET t == cur[c]
        p == wk[t]
    IN
    /\ At(c, "rs_wake")
    /\ p <= NPROC
    /\ plock[p] = None
    /\ tstate' = [u \in Thread |->
                     IF u[1] = p /\ tstate[u] = "SLEEPING" /\ tchan[u]
                     THEN "RUNNABLE" ELSE tstate[u]]
    /\ wk' = [wk EXCEPT ![t] = p + 1]
    /\ UNCHANGED <<lockVars, tchan, tpc, tret, saved, schedVars, intrVars>>

(* wakeup is done; release(&lk->lk).                                       *)
ReleasesleepUnlock(c) ==
    /\ At(c, "rs_wake")
    /\ wk[cur[c]] > NPROC
    /\ ReleaseLk(c)
    /\ wk' = [wk EXCEPT ![cur[c]] = 1]
    /\ Goto(cur[c], "idle")
    /\ UNCHANGED <<plock, locked, lpid, tstate, tchan, tret, saved, schedVars>>

-----------------------------------------------------------------------------
(* sleep(lk, &lk->lk)                                                      *)
SleepLockP(c) ==
    /\ At(c, "sl_plock")
    /\ AcquireP(c, cur[c][1])
    /\ Goto(cur[c], "sl_unlk")
    /\ UNCHANGED <<lkcpu, locked, lpid, tstate, tchan, tret, wk, saved, schedVars>>

SleepKeepingLk(c) ==
    /\ At(c, "sl_unlk")
    /\ Goto(cur[c], "sl_mark")
    /\ UNCHANGED <<lockVars, tstate, tchan, tret, wk, saved, schedVars, intrVars>>

SleepUnlk(c) ==
    /\ At(c, "sl_unlk")
    /\ ReleaseLk(c)
    /\ Goto(cur[c], "sl_mark")
    /\ UNCHANGED <<plock, locked, lpid, tstate, tchan, tret, wk, saved, schedVars>>

(* t->chan = chan; t->state = t_SLEEPING.                                  *)
SleepMark(c) ==
    LET t == cur[c] IN
    /\ At(c, "sl_mark")
    /\ tchan' = [tchan EXCEPT ![t] = TRUE]
    /\ tstate' = [tstate EXCEPT ![t] = "SLEEPING"]
    /\ Goto(t, "sl_sched")
    /\ UNCHANGED <<lockVars, tret, wk, saved, schedVars, intrVars>>

SleepSched(c) ==
    /\ At(c, "sl_sched")
    /\ Goto(cur[c], "sl_back")
    /\ SwitchToScheduler(c)
    /\ UNCHANGED <<lkcpu, locked, lpid, tstate, tchan, tret, wk>>

SleepBackNoRestore(c) ==
    LET t == cur[c] IN
    /\ At(c, "sl_back")
    /\ tchan' = [tchan EXCEPT ![t] = FALSE]
    /\ plock' = [plock EXCEPT ![t[1]] = None]
    /\ PopOff(c, intena[c])
    /\ Goto(t, "as_lock")
    /\ UNCHANGED <<lkcpu, locked, lpid, tstate, tret, wk, saved, schedVars>>

(* Back from sched(): mycpu()->intena = intena; t->chan = 0; release of    *)
(* p->lock.  acquire(lk) follows.                                          *)
SleepBack(c) ==
    LET t == cur[c] IN
    /\ At(c, "sl_back")
    /\ tchan' = [tchan EXCEPT ![t] = FALSE]
    /\ plock' = [plock EXCEPT ![t[1]] = None]
    /\ PopOff(c, saved[t])
    /\ Goto(t, "as_lock")
    /\ UNCHANGED <<lkcpu, locked, lpid, tstate, tret, wk, saved, schedVars>>

-----------------------------------------------------------------------------
(* A timer interrupt while a thread runs with interrupts on: usertrap or   *)
(* kerneltrap calls yield().                                               *)
TimerInterrupt(c) ==
    LET t == cur[c] IN
    /\ spc[c] = "swtch"
    /\ intr[c]
    /\ tstate[t] = "RUNNING"
    /\ tret' = [tret EXCEPT ![t] = tpc[t]]
    /\ intr' = [intr EXCEPT ![c] = FALSE]
    /\ Goto(t, "y_plock")
    /\ UNCHANGED <<lockVars, tstate, tchan, wk, saved, schedVars, noff, intena>>

YieldMarkingEarly(c) ==
    /\ At(c, "y_plock")
    /\ tstate' = [tstate EXCEPT ![cur[c]] = "RUNNABLE"]
    /\ Goto(cur[c], "y_sched")
    /\ UNCHANGED <<lockVars, tchan, tret, wk, saved, schedVars, intrVars>>

(* acquire(&p->lock); t->state = t_RUNNABLE.                               *)
YieldLockP(c) ==
    /\ At(c, "y_plock")
    /\ AcquireP(c, cur[c][1])
    /\ tstate' = [tstate EXCEPT ![cur[c]] = "RUNNABLE"]
    /\ Goto(cur[c], "y_sched")
    /\ UNCHANGED <<lkcpu, locked, lpid, tchan, tret, wk, saved, schedVars>>

YieldSched(c) ==
    /\ At(c, "y_sched")
    /\ Goto(cur[c], "y_back")
    /\ SwitchToScheduler(c)
    /\ UNCHANGED <<lkcpu, locked, lpid, tstate, tchan, tret, wk>>

YieldBack(c) ==
    LET t == cur[c] IN
    /\ At(c, "y_back")
    /\ plock' = [plock EXCEPT ![t[1]] = None]
    /\ PopOff(c, saved[t])
    /\ Goto(t, "y_sret")
    /\ UNCHANGED <<lkcpu, locked, lpid, tstate, tchan, tret, wk, saved, schedVars>>

(* Return from the trap to the interrupted context.                        *)
YieldSret(c) ==
    LET t == cur[c] IN
    /\ At(c, "y_sret")
    /\ intr' = [intr EXCEPT ![c] = TRUE]
    /\ Goto(t, tret[t])
    /\ tret' = [tret EXCEPT ![t] = "idle"]
    /\ UNCHANGED <<lockVars, tstate, tchan, wk, saved, schedVars, noff, intena>>

-----------------------------------------------------------------------------
SchedulerStep(c) ==
    SchedAcquire(c) \/ SchedRun(c) \/ SchedSkip(c) \/ SchedRelease(c)

ThreadStep(c) ==
    \/ Forkret(c)
    \/ AcquiresleepLock(c) \/ AcquiresleepTest(c) \/ AcquiresleepUnlock(c)
    \/ ReleasesleepLock(c) \/ ReleasesleepClear(c) \/ ReleasesleepUnlock(c)
    \/ Wakeup(c)
    \/ SleepLockP(c) \/ SleepUnlk(c) \/ SleepMark(c) \/ SleepSched(c) \/ SleepBack(c)
    \/ YieldLockP(c) \/ YieldSched(c) \/ YieldBack(c) \/ YieldSret(c)

Next == \E c \in Cpu : SchedulerStep(c) \/ ThreadStep(c) \/ TimerInterrupt(c)

Spec == Init /\ [][Next]_vars

(* A hart keeps executing (WF).  The timer fires periodically and stays    *)
(* pending while interrupts are off, so it is taken if a thread runs with  *)
(* interrupts on again and again (SF).  A holder that is scheduled again   *)
(* and again gets to its releasesleep: its time slices are not empty (SF). *)
Fairness ==
    \A c \in Cpu :
        /\ WF_vars(SchedulerStep(c) \/ ThreadStep(c))
        /\ SF_vars(TimerInterrupt(c))
        /\ SF_vars(ReleasesleepLock(c))

FairSpec == Spec /\ Fairness

-----------------------------------------------------------------------------
(* A thread's context (its kernel stack) is in use on at most one hart.    *)
(* A t_RUNNING thread is on a hart, and a thread on a hart is t_RUNNING    *)
(* unless it is about to call sched() and its hart still keeps p->lock     *)
(* from the schedulers: the scheduler chooses threads, and a thread makes  *)
(* itself runnable, under p->lock, which swtch passes from one side to the *)
(* other.                                                                  *)
OneHartPerThread ==
    /\ \A c, d \in Cpu :
          spc[c] = "swtch" /\ spc[d] = "swtch" /\ cur[c] = cur[d] => c = d
    /\ \A t \in Thread : tstate[t] = "RUNNING" =>
          \E c \in Cpu : spc[c] = "swtch" /\ cur[c] = t
    /\ \A c \in Cpu : spc[c] = "swtch" /\ tstate[cur[c]] # "RUNNING" =>
          plock[cur[c][1]] = c

(* "Switch to scheduler.  Must hold only p->lock": at each call of sched() *)
(* none of its panics fires and, although the code also lets noff = 2      *)
(* pass, the hart holds just one spinlock.                                 *)
SchedHoldsOnlyPLock ==
    \A c \in Cpu : At(c, "sl_sched") \/ At(c, "y_sched") =>
        ~SchedPanics(c) /\ noff[c] = 1

(* "Once we hold p->lock, we can be guaranteed that we won't miss any      *)
(* wakeup": a thread asleep on the sleeplock always has a wakeup coming:   *)
(* either the lock is held, and its holder has yet to release it, or a     *)
(* releaser is in wakeup() and has not yet passed the sleeper's process.   *)
NoLostWakeup ==
    \A t \in Thread : tstate[t] = "SLEEPING" =>
        locked \/ \E c \in Cpu : At(c, "rs_wake") /\ wk[cur[c]] <= t[1]

(* t holds the sleeplock: it is, or was when the timer interrupted it,     *)
(* between the end of acquiresleep and the start of releasesleep.          *)
InCrit(t) ==
    LET at == IF tpc[t] \in {"y_plock", "y_sched", "y_back", "y_sret"}
              THEN tret[t] ELSE tpc[t]
    IN at \in {"as_unlock", "crit", "rs_clear"}

(* acquiresleep/releasesleep: the sleeplock has at most one holder, across *)
(* sleeping, preemption and migration to another hart, and holdingsleep's  *)
(* test (locked and pid) is true for it.                                   *)
SleeplockExclusive ==
    /\ \A t, u \in Thread : InCrit(t) /\ InCrit(u) => t = u
    /\ \A t \in Thread : InCrit(t) => locked /\ lpid = t[1]

(* "intena is a property of this kernel thread, not this CPU": a thread    *)
(* outside every spinlock and trap runs with interrupts on, whichever      *)
(* harts it slept or was preempted on; otherwise no timer could ever take  *)
(* the hart from it.                                                       *)
Preemptible ==
    \A c \in Cpu : At(c, "idle") \/ At(c, "crit") \/ At(c, "as_lock") => intr[c]

(* On one hart every runnable thread is run and every thread asleep on the *)
(* sleeplock is made runnable again: scheduler() goes on from the slot     *)
(* after the one it ran.                                                   *)
EveryThreadRuns ==
    \A t \in Live :
        /\ tstate[t] = "RUNNABLE" ~> tstate[t] = "RUNNING"
        /\ tstate[t] = "SLEEPING" ~> tstate[t] = "RUNNABLE"
=============================================================================
