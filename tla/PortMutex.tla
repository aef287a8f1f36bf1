------------------------------ MODULE PortMutex ------------------------------
(***************************************************************************)
(* port::Mutex and port::CondVar over pthreads, with the locked_ flag that *)
(* debug builds keep for AssertHeld.  The flag is an ordinary bool: it is  *)
(* right only if every write to it happens while the writer owns the       *)
(* pthread mutex.  Each pthread call and each write is a step of its own.  *)
(*                                                                         *)
(* Threads run any program that follows pthread's rules: they unlock, wait *)
(* and assert only while they hold the mutex, and do not lock it twice.    *)
(***************************************************************************)
EXTENDS Integers, FiniteSets

CONSTANTS
  Threads,
  Nobody     \* not a thread

ASSUME NobodyAssumption == Nobody \notin Threads

VARIABLES
  owner,     \* the owner of the pthread mutex mu_
  locked,    \* Mutex::locked_
  waiting,   \* threads blocked on cv_
  pc,        \* where each thread is
  timed,     \* whether a thread's wait is a TimedWait
  writer     \* the thread that wrote locked_ in the last step, or Nobody

vars == << owner, locked, waiting, pc, timed, writer >>

\* "out" and "held" are the client's code without and with the mutex.
PCs == {"out", "lock", "got", "held", "unlock", "wait", "blocked", "woken", "back"}

Init ==
  /\ owner = Nobody
  /\ locked = FALSE
  /\ waiting = {}
  /\ pc = [t \in Threads |-> "out"]
  /\ timed = [t \in Threads |-> FALSE]
  /\ writer = Nobody

Goto(t, l) == pc' = [pc EXCEPT ![t] = l]

\* Thread t stores v in locked_, whether or not it held v before.
WriteFlag(t, v) == locked' = v /\ writer' = t

KeepFlag == locked' = locked /\ writer' = Nobody

-----------------------------------------------------------------------------
(***************************************************************************)
(* pthreads.                                                               *)
(***************************************************************************)
Acquire(t) == owner = Nobody /\ owner' = t
Release(t) == owner = t /\ owner' = Nobody

-----------------------------------------------------------------------------

\* Mutation: the flag is set before the mutex is locked.
CallLockSetsFlag(t) ==
  /\ pc[t] = "out"
  /\ WriteFlag(t, TRUE)
  /\ Goto(t, "lock")
  /\ UNCHANGED << owner, waiting, timed >>

\* Lock is called; the thread blocks until pthread_mutex_lock succeeds.
CallLock(t) ==
  /\ pc[t] = "out"
  /\ Goto(t, "lock")
  /\ KeepFlag /\ UNCHANGED << owner, waiting, timed >>

LockReturns(t) ==
  /\ pc[t] = "lock"
  /\ Acquire(t)
  /\ Goto(t, "got")
  /\ KeepFlag /\ UNCHANGED << waiting, timed >>

\* locked_ = true, at the end of Lock.
LockSetsFlag(t) ==
  /\ pc[t] = "got"
  /\ WriteFlag(t, TRUE)
  /\ Goto(t, "held")
  /\ UNCHANGED << owner, waiting, timed >>

\* Mutation: the flag stays set.
UnlockKeepsFlag(t) ==
  /\ pc[t] = "held"
  /\ Goto(t, "unlock")
  /\ KeepFlag /\ UNCHANGED << owner, waiting, timed >>

\* Unlock: locked_ = false, then pthread_mutex_unlock.
UnlockClearsFlag(t) ==
  /\ pc[t] = "held"
  /\ WriteFlag(t, FALSE)
  /\ Goto(t, "unlock")
  /\ UNCHANGED << owner, waiting, timed >>

\* Mutation: the flag is written once more while the mutex is being released.
UnlockClearsLate(t) ==
  /\ pc[t] = "unlock"
  /\ Release(t)
  /\ WriteFlag(t, FALSE)
  /\ Goto(t, "out")
  /\ UNCHANGED << waiting, timed >>

UnlockReleases(t) ==
  /\ pc[t] = "unlock"
  /\ Release(t)
  /\ Goto(t, "out")
  /\ KeepFlag /\ UNCHANGED << waiting, timed >>

\* Mutation: Wait unlocks the mutex itself before it blocks.
WaitUnlocksFirst(t) ==
  /\ pc[t] = "held"
  /\ WriteFlag(t, FALSE)
  /\ Release(t)
  /\ \E b \in BOOLEAN : timed' = [timed EXCEPT ![t] = b]
  /\ Goto(t, "wait")
  /\ UNCHANGED waiting

\* Wait and TimedWait: locked_ = false, then the call that releases the mutex
\* and blocks in one step.
WaitClearsFlag(t) ==
  /\ pc[t] = "held"
  /\ WriteFlag(t, FALSE)
  /\ \E b \in BOOLEAN : timed' = [timed EXCEPT ![t] = b]
  /\ Goto(t, "wait")
  /\ UNCHANGED << owner, waiting >>

WaitBlocks(t) ==
  /\ pc[t] = "wait"
  /\ Release(t)
  /\ waiting' = waiting \cup {t}
  /\ Goto(t, "blocked")
  /\ KeepFlag /\ UNCHANGED timed

\* pthread_cond_wait may return although nobody signalled, and a timed wait
\* returns when its time is over.
WakesByItself(t) ==
  /\ pc[t] = "blocked"
  /\ waiting' = waiting \ {t}
  /\ Goto(t, "woken")
  /\ KeepFlag /\ UNCHANGED << owner, timed >>

\* Mutation: no deadline is passed on.
NeverTimesOut(t) == FALSE

TimesOut(t) == timed[t] /\ WakesByItself(t)

\* Mutation: the wait returns to a thread that does not own the mutex.
WaitReturnsUnlocked(t) ==
  /\ pc[t] = "woken"
  /\ Goto(t, "back")
  /\ KeepFlag /\ UNCHANGED << owner, waiting, timed >>

\* The wait returns once it owns the mutex again.
WaitReacquires(t) ==
  /\ pc[t] = "woken"
  /\ Acquire(t)
  /\ Goto(t, "back")
  /\ KeepFlag /\ UNCHANGED << waiting, timed >>

\* Mutation: the flag is not set again after a wait.
WaitForgetsFlag(t) ==
  /\ pc[t] = "back"
  /\ Goto(t, "held")
  /\ KeepFlag /\ UNCHANGED << owner, waiting, timed >>

\* locked_ = true, at the end of Wait and TimedWait.  TimedWait also answers
\* whether its time was over, which touches neither mutex nor flag.
WaitSetsFlag(t) ==
  /\ pc[t] = "back"
  /\ WriteFlag(t, TRUE)
  /\ Goto(t, "held")
  /\ UNCHANGED << owner, waiting, timed >>

\* Signal wakes one waiter if there is one, SignalAll all of them; a client may
\* call them with or without the mutex.
Wake(woken) ==
  /\ waiting' = waiting \ woken
  /\ pc' = [t \in Threads |-> IF t \in woken THEN "woken" ELSE pc[t]]
  /\ KeepFlag /\ UNCHANGED << owner, timed >>

Signal(t) ==
  /\ pc[t] \in {"out", "held"}
  /\ \E w \in waiting : Wake({w})

SignalAll(t) ==
  /\ pc[t] \in {"out", "held"}
  /\ waiting # {}
  /\ Wake(waiting)

Step(t) ==
  \/ LockReturns(t) \/ LockSetsFlag(t)
  \/ UnlockReleases(t)
  \/ WaitBlocks(t) \/ WaitReacquires(t) \/ WaitSetsFlag(t)

Call(t) ==
  \/ CallLock(t) \/ UnlockClearsFlag(t) \/ WaitClearsFlag(t)
  \/ Signal(t) \/ SignalAll(t) \/ WakesByItself(t)

Next == \E t \in Threads : Step(t) \/ Call(t)

Spec == Init /\ [][Next]_vars

\* A call that is not blocked runs on; whoever holds the mutex lets go of it in
\* the end; pthread_mutex_lock and a wait that is over do not starve; the time
\* of a timed wait comes.
FairSpec ==
  /\ Spec
  /\ \A t \in Threads :
       /\ WF_vars(LockSetsFlag(t) \/ UnlockReleases(t) \/ WaitBlocks(t) \/ WaitSetsFlag(t))
       /\ WF_vars(UnlockClearsFlag(t) \/ WaitClearsFlag(t))
       /\ SF_vars(LockReturns(t))
       /\ SF_vars(WaitReacquires(t))
       /\ WF_vars(TimesOut(t))

-----------------------------------------------------------------------------
\* The variables keep their types.
TypeOK ==
  /\ owner \in Threads \cup {Nobody}
  /\ locked \in BOOLEAN
  /\ waiting \subseteq Threads
  /\ pc \in [Threads -> PCs]
  /\ timed \in [Threads -> BOOLEAN]
  /\ writer \in Threads \cup {Nobody}

\* The points between which a thread owns the pthread mutex.
Owning == {"got", "held", "unlock", "wait", "back"}

\* The inductive invariant: the thread that owns the mutex, and no other, is
\* between its acquisition and its release; the flag says whether that thread
\* is in its critical section.
OwnerAndFlag ==
  /\ \A t \in Threads : pc[t] \in Owning <=> owner = t
  /\ locked <=> owner # Nobody /\ pc[owner] = "held"
  /\ \A t \in Threads : t \in waiting <=> pc[t] = "blocked"

\* AssertHeld never fails for a thread that holds the mutex: whatever the other
\* threads are doing to the flag, it is true from the return of Lock, Wait or
\* TimedWait to the next call of Unlock, Wait or TimedWait.
HolderPassesAssertHeld == \A t \in Threads : pc[t] = "held" => locked

\* A thread that writes the flag, be it the value the flag has, owns the mutex
\* before and after its write, and the flag changes in no other way.  Two writes
\* of different threads are then ordered by a release and an acquisition: there
\* is no data race on locked_.
OwnerWritesFlag ==
  [][/\ writer' # Nobody => owner = writer' /\ owner' = writer'
     /\ writer' = Nobody => locked' = locked]_vars

\* No wakeup is lost: while a thread holds the mutex, every thread that has
\* called Wait and is not woken yet is where a signal reaches it.
NoWakeupLost ==
  (\E t \in Threads : pc[t] = "held") =>
    \A u \in Threads : pc[u] \in {"wait", "blocked"} => u \in waiting

Inside ==
  IF \E t \in Threads : pc[t] = "held" THEN CHOOSE t \in Threads : pc[t] = "held" ELSE Nobody

Asleep == {t \in Threads : pc[t] \in {"wait", "blocked"}}

Monitor == INSTANCE MonitorLock WITH holder <- Inside, asleep <- Asleep

\* Mutex and CondVar implement a monitor: a thread is inside from the return of
\* Lock or Wait to the call of Unlock or Wait, and Wait is one step for all who
\* lock, although the code clears the flag, releases, blocks, acquires and sets
\* the flag in steps of their own.
ImplementsMonitor == Monitor!Spec

\* TimedWait returns, with the mutex held: no signal is needed.
TimedWaitReturns ==
  \A t \in Threads : (pc[t] = "blocked" /\ timed[t]) ~> pc[t] = "held"
=============================================================================
