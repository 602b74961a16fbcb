------------------------------ MODULE Process -------------------------------
(***************************************************************************)
(* kernel/proc.c: fork, exit, wait and reparent over the process table,    *)
(* for processes of one thread (Kthread.tla has the threads of a process). *)
(*                                                                         *)
(* wait_lock protects the parent links and orders exit against wait;       *)
(* p->lock keeps the parent from freeing a child that still runs on its    *)
(* kernel stack.  sleep and wakeup are atomic (Sched.tla has their steps). *)
(***************************************************************************)
EXTENDS Integers

CONSTANTS
    NPROC,      \* slots of proc[]; slot 1 is initproc
    None

ASSUME ProcessAssumption ==
    /\ NPROC \in Nat \ {0}
    /\ None \notin Int

Proc == 1 .. NPROC
initproc == 1

VARIABLES
    pstate,     \* p->state
    parent,     \* p->parent
    killed,     \* p->killed
    plock,      \* p->lock: the process whose thread holds it
    wait_lock,  \* the process whose thread holds it
    pc,         \* where the process's thread is; "none" for a free slot
    np,         \* local np of fork and wait
    havekids    \* local of wait

vars == <<pstate, parent, killed, plock, wait_lock, pc, np, havekids>>

PC == {"none", "new", "run", "fork_parent", "fork_start", "exit", "exit_zombie", "swtch",
       "dead", "scan", "asleep", "woken"}

TypeOK ==
    /\ pstate \in [Proc -> {"UNUSED", "USED", "ZOMBIE"}]
    /\ parent \in [Proc -> Proc \cup {None}]
    /\ killed \in [Proc -> BOOLEAN]
    /\ plock \in [Proc -> Proc \cup {None}]
    /\ wait_lock \in Proc \cup {None}
    /\ pc \in [Proc -> PC]
    /\ np \in [Proc -> 1 .. NPROC + 1]
    /\ havekids \in [Proc -> BOOLEAN]

(* userinit has made the first process.                                    *)
Init ==
    /\ pstate = [p \in Proc |-> IF p = initproc THEN "USED" ELSE "UNUSED"]
    /\ parent = [p \in Proc |-> None]
    /\ killed = [p \in Proc |-> FALSE]
    /\ plock = [p \in Proc |-> None]
    /\ wait_lock = None
    /\ pc = [p \in Proc |-> IF p = initproc THEN "run" ELSE "none"]
    /\ np = [p \in Proc |-> 1]
    /\ havekids = [p \in Proc |-> FALSE]

Goto(p, where) == pc' = [pc EXCEPT ![p] = where]

(* wakeup(q) for every q of `chans'; p itself goes to `where'.             *)
WakeupAndGoto(chans, p, where) ==
    pc' = [q \in Proc |-> CASE q = p -> where
                            [] q # p /\ q \in chans /\ pc[q] = "asleep" -> "woken"
                            [] OTHER -> pc[q]]

-----------------------------------------------------------------------------
(* usertrap lets p's thread into a system call; a killed process calls     *)
(* exit instead.                                                           *)
Syscall(p) == pc[p] = "run" /\ ~killed[p]

(* allocproc, then fork up to its first release(&np->lock).  A fork that   *)
(* fails (no slot, no memory) undoes what it did and leaves the state as   *)
(* it was.                                                                 *)
ForkAlloc(p, c) ==
    /\ Syscall(p)
    /\ pstate[c] = "UNUSED"
    /\ plock[c] = None
    /\ pstate' = [pstate EXCEPT ![c] = "USED"]
    /\ killed' = [killed EXCEPT ![c] = FALSE]
    /\ np' = [np EXCEPT ![p] = c]
    /\ pc' = [pc EXCEPT ![p] = "fork_parent", ![c] = "new"]
    /\ UNCHANGED <<parent, plock, wait_lock, havekids>>

(* np->parent = p under wait_lock.                                         *)
ForkParent(p) ==
    /\ pc[p] = "fork_parent"
    /\ wait_lock = None
    /\ parent' = [parent EXCEPT ![np[p]] = p]
    /\ Goto(p, "fork_start")
    /\ UNCHANGED <<pstate, killed, plock, wait_lock, np, havekids>>

(* The child's thread becomes t_RUNNABLE under np->lock.                   *)
ForkStart(p) ==
    /\ pc[p] = "fork_start"
    /\ plock[np[p]] = None
    /\ pc' = [pc EXCEPT ![p] = "run", ![np[p]] = "run"]
    /\ np' = [np EXCEPT ![p] = 1]
    /\ UNCHANGED <<pstate, parent, killed, plock, wait_lock, havekids>>

-----------------------------------------------------------------------------
Children(p) == {c \in Proc : parent[c] = p}

ExitNoReparent(p) ==
    /\ pc[p] = "run"
    /\ p # initproc
    /\ wait_lock = None
    /\ wait_lock' = p
    /\ WakeupAndGoto({parent[p]}, p, "exit_zombie")
    /\ UNCHANGED <<pstate, parent, killed, plock, np, havekids>>

ExitNoWakeParent(p) ==
    /\ pc[p] = "run"
    /\ p # initproc
    /\ wait_lock = None
    /\ wait_lock' = p
    /\ parent' = [c \in Proc |-> IF parent[c] = p THEN initproc ELSE parent[c]]
    /\ WakeupAndGoto(IF Children(p) = {} THEN {} ELSE {initproc}, p, "exit_zombie")
    /\ UNCHANGED <<pstate, killed, plock, np, havekids>>

(* exit: files are closed; acquire(&wait_lock), reparent(p) with its       *)
(* wakeup(initproc) when there are children, wakeup(p->parent).            *)
Exit(p) ==
    /\ pc[p] = "run"
    /\ p # initproc
    /\ wait_lock = None
    /\ wait_lock' = p
    /\ parent' = [c \in Proc |-> IF parent[c] = p THEN initproc ELSE parent[c]]
    /\ WakeupAndGoto({parent[p]} \cup (IF Children(p) = {} THEN {} ELSE {initproc}),
                     p, "exit_zombie")
    /\ UNCHANGED <<pstate, killed, plock, np, havekids>>

ExitZombieUnlocked(p) ==
    /\ pc[p] = "exit_zombie"
    /\ plock[p] = None
    /\ pstate' = [pstate EXCEPT ![p] = "ZOMBIE"]
    /\ wait_lock' = None
    /\ Goto(p, "swtch")
    /\ UNCHANGED <<parent, killed, plock, np, havekids>>

(* acquire(&p->lock); p->state = ZOMBIE; release(&wait_lock); sched().     *)
ExitZombie(p) ==
    /\ pc[p] = "exit_zombie"
    /\ plock[p] = None
    /\ plock' = [plock EXCEPT ![p] = p]
    /\ pstate' = [pstate EXCEPT ![p] = "ZOMBIE"]
    /\ wait_lock' = None
    /\ Goto(p, "swtch")
    /\ UNCHANGED <<parent, killed, np, havekids>>

(* swtch leaves the kernel stack; scheduler() releases p->lock.            *)
Swtch(p) ==
    /\ pc[p] = "swtch"
    /\ plock' = [plock EXCEPT ![p] = None]
    /\ Goto(p, "dead")
    /\ UNCHANGED <<pstate, parent, killed, wait_lock, np, havekids>>

-----------------------------------------------------------------------------
WaitStartBefore(p) ==
    /\ Syscall(p) \/ pc[p] = "woken"
    /\ wait_lock = None
    /\ wait_lock' = p
    /\ np' = [np EXCEPT ![p] = 0]
    /\ havekids' = [havekids EXCEPT ![p] = FALSE]
    /\ Goto(p, "scan")
    /\ UNCHANGED <<pstate, parent, killed, plock>>

(* wait: acquire(&wait_lock), at the call or when sleep returns.           *)
WaitStart(p) ==
    /\ Syscall(p) \/ pc[p] = "woken"
    /\ wait_lock = None
    /\ wait_lock' = p
    /\ np' = [np EXCEPT ![p] = 1]
    /\ havekids' = [havekids EXCEPT ![p] = FALSE]
    /\ Goto(p, "scan")
    /\ UNCHANGED <<pstate, parent, killed, plock>>

(* The scan passes a slot; a child's state is read under its lock.         *)
WaitSkip(p) ==
    LET c == np[p] IN
    /\ pc[p] = "scan"
    /\ c <= NPROC
    /\ parent[c] = p => plock[c] = None /\ pstate[c] # "ZOMBIE"
    /\ havekids' = [havekids EXCEPT ![p] = @ \/ parent[c] = p]
    /\ np' = [np EXCEPT ![p] = c + 1]
    /\ UNCHANGED <<pstate, parent, killed, plock, wait_lock, pc>>

FoundZombie(p) ==
    /\ pc[p] = "scan"
    /\ np[p] <= NPROC
    /\ parent[np[p]] = p
    /\ plock[np[p]] = None
    /\ pstate[np[p]] = "ZOMBIE"

(* freeproc(np) and return.                                                *)
WaitReap(p) ==
    LET c == np[p] IN
    /\ FoundZombie(p)
    /\ pstate' = [pstate EXCEPT ![c] = "UNUSED"]
    /\ parent' = [parent EXCEPT ![c] = None]
    /\ killed' = [killed EXCEPT ![c] = FALSE]
    /\ wait_lock' = None
    /\ pc' = [pc EXCEPT ![c] = IF @ = "dead" THEN "none" ELSE @, ![p] = "run"]
    /\ np' = [np EXCEPT ![p] = 1]
    /\ UNCHANGED <<plock, havekids>>

WaitFaultAnyAddr(p) ==
    /\ FoundZombie(p)
    /\ wait_lock' = None
    /\ np' = [np EXCEPT ![p] = 1]
    /\ Goto(p, "run")
    /\ UNCHANGED <<pstate, parent, killed, plock, havekids>>

(* copyout of the status fails: -1, and the child stays a zombie.  (init   *)
(* passes no address.)                                                     *)
WaitFault(p) ==
    /\ FoundZombie(p)
    /\ p # initproc
    /\ wait_lock' = None
    /\ np' = [np EXCEPT ![p] = 1]
    /\ Goto(p, "run")
    /\ UNCHANGED <<pstate, parent, killed, plock, havekids>>

(* No children, or killed: return -1.                                      *)
WaitNone(p) ==
    /\ pc[p] = "scan"
    /\ np[p] > NPROC
    /\ ~havekids[p] \/ killed[p]
    /\ wait_lock' = None
    /\ np' = [np EXCEPT ![p] = 1]
    /\ Goto(p, "run")
    /\ UNCHANGED <<pstate, parent, killed, plock, havekids>>

(* sleep(p, &wait_lock).                                                   *)
WaitSleep(p) ==
    /\ pc[p] = "scan"
    /\ np[p] > NPROC
    /\ havekids[p] /\ ~killed[p]
    /\ wait_lock' = None
    /\ np' = [np EXCEPT ![p] = 1]
    /\ Goto(p, "asleep")
    /\ UNCHANGED <<pstate, parent, killed, plock, havekids>>

(* p->killed is set, by sigkill_handler or by a fault in user space: with  *)
(* one thread, that is p's own thread, which is not asleep.  kill() itself *)
(* only sets a pending bit and wakes nobody.                               *)
Kill(p) ==
    /\ pc[p] = "run"
    /\ p # initproc
    /\ ~killed[p]
    /\ killed' = [killed EXCEPT ![p] = TRUE]
    /\ UNCHANGED <<pstate, parent, plock, wait_lock, pc, np, havekids>>

-----------------------------------------------------------------------------
Next ==
    \E p \in Proc :
        \/ \E c \in Proc : ForkAlloc(p, c)
        \/ ForkParent(p) \/ ForkStart(p)
        \/ Exit(p) \/ ExitZombie(p) \/ Swtch(p)
        \/ WaitStart(p) \/ WaitSkip(p) \/ WaitReap(p) \/ WaitFault(p)
        \/ WaitNone(p) \/ WaitSleep(p)
        \/ Kill(p)

Spec == Init /\ [][Next]_vars

(* The steps of p inside the kernel, one at a time enabled.                *)
KernelStep(p) ==
    \/ ForkParent(p) \/ ForkStart(p) \/ ExitZombie(p) \/ Swtch(p)
    \/ pc[p] = "woken" /\ WaitStart(p)
    \/ WaitSkip(p) \/ WaitReap(p) \/ WaitFault(p) \/ WaitNone(p) \/ WaitSleep(p)

(* A thread inside the kernel is scheduled until it leaves, and a thread   *)
(* that spins for wait_lock or a p->lock again and again gets it at last.  *)
(* user/init.c calls wait for ever once it has started the shell, which    *)
(* makes the call fair for initproc, and for it alone.                     *)
Fairness ==
    /\ \A p \in Proc : SF_vars(KernelStep(p))
    /\ SF_vars(WaitStart(initproc))

FairSpec == Init /\ [][Next]_vars /\ Fairness

-----------------------------------------------------------------------------
(* Every process but init that has started or is a zombie has a parent     *)
(* that is itself in use and not yet a zombie: whoever exits hands its     *)
(* children to init first (reparent), so no zombie is left that nobody can *)
(* wait for.                                                               *)
NoOrphans ==
    \A c \in Proc \ {initproc} :
        pstate[c] # "UNUSED" /\ pc[c] # "new" =>
            /\ parent[c] \in Proc
            /\ pstate[parent[c]] = "USED"

(* A process asleep in wait has a child and none of its children is a      *)
(* zombie.  exit() wakes the parent before it becomes a zombie and         *)
(* reparent() hands over children that may already be zombies; wait_lock   *)
(* closes both windows.                                                    *)
WaitersJustified ==
    \A p \in Proc : pc[p] = "asleep" =>
        /\ Children(p) # {}
        /\ \A c \in Children(p) : pstate[c] # "ZOMBIE"

(* The parent never frees a child whose thread is still on its kernel      *)
(* stack in exit() or swtch() ("make sure the child isn't still in exit()  *)
(* or swtch()", wait): a free slot has no thread and no parent.            *)
FreeSlotsAreIdle ==
    \A c \in Proc : pstate[c] = "UNUSED" => pc[c] = "none" /\ parent[c] = None

(* init reaps: once no process is created any more, a zombie that has init *)
(* for a parent is freed in the end, whatever the other processes do.      *)
(* (wait() scans from proc[0] each time, so children that keep appearing   *)
(* in lower slots may keep a zombie in a higher slot waiting for ever.)    *)
InitReaps ==
    <>[][~ \E p, c \in Proc : ForkAlloc(p, c)]_vars =>
        \A c \in Proc : (pstate[c] = "ZOMBIE" /\ parent[c] = initproc)
                            ~> (pstate[c] = "UNUSED")
=============================================================================
