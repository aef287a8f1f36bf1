--------------------------- MODULE PortMutex_proofs ---------------------------
(***************************************************************************)
(* The debug flag of port::Mutex is right for any number of threads.       *)
(***************************************************************************)
EXTENDS PortMutex, TLAPS

IInv == TypeOK /\ OwnerAndFlag

LEMMA InitIInv == Init => IInv
  BY NobodyAssumption DEF Init, IInv, TypeOK, OwnerAndFlag, Owning, PCs

\* The calls that take, keep or give back the mutex keep owner and flag in step.
LEMMA StepIInv ==
  ASSUME IInv, NEW t \in Threads, Step(t)
  PROVE  IInv'
<1> USE NobodyAssumption DEF IInv, TypeOK, OwnerAndFlag, Owning, PCs, Goto, WriteFlag, KeepFlag
<1>1. CASE LockReturns(t)
  BY <1>1 DEF LockReturns, Acquire
<1>2. CASE LockSetsFlag(t)
  BY <1>2 DEF LockSetsFlag
<1>3. CASE UnlockReleases(t)
  BY <1>3 DEF UnlockReleases, Release
<1>4. CASE WaitBlocks(t)
  BY <1>4 DEF WaitBlocks, Release
<1>5. CASE WaitReacquires(t)
  BY <1>5 DEF WaitReacquires, Acquire
<1>6. CASE WaitSetsFlag(t)
  BY <1>6 DEF WaitSetsFlag
<1>7. QED
  BY <1>1, <1>2, <1>3, <1>4, <1>5, <1>6 DEF Step

\* So do the calls a client may make at any time.
LEMMA CallIInv ==
  ASSUME IInv, NEW t \in Threads, Call(t)
  PROVE  IInv'
<1> USE NobodyAssumption DEF IInv, TypeOK, OwnerAndFlag, Owning, PCs, Goto, WriteFlag, KeepFlag
<1>1. CASE CallLock(t)
  BY <1>1 DEF CallLock
<1>2. CASE UnlockClearsFlag(t)
  BY <1>2 DEF UnlockClearsFlag
<1>3. CASE WaitClearsFlag(t)
  BY <1>3 DEF WaitClearsFlag
<1>4. CASE Signal(t)
  BY <1>4 DEF Signal, Wake
<1>5. CASE SignalAll(t)
  BY <1>5 DEF SignalAll, Wake
<1>6. CASE WakesByItself(t)
  BY <1>6 DEF WakesByItself
<1>7. QED
  BY <1>1, <1>2, <1>3, <1>4, <1>5, <1>6 DEF Call

LEMMA NextIInv == IInv /\ [Next]_vars => IInv'
<1> SUFFICES ASSUME IInv, [Next]_vars PROVE IInv'
  OBVIOUS
<1>1. CASE UNCHANGED vars
  BY <1>1 DEF vars, IInv, TypeOK, OwnerAndFlag, Owning, PCs
<1>2. CASE Next
  BY <1>2, StepIInv, CallIInv DEF Next
<1>3. QED
  BY <1>1, <1>2

LEMMA Invariance == Spec => []IInv
  BY InitIInv, NextIInv, PTL DEF Spec

\* The owner of the pthread mutex and the flag locked_ never disagree.
THEOREM FlagFollowsOwner == Spec => []OwnerAndFlag
<1>1. IInv => OwnerAndFlag
  BY DEF IInv
<1>2. QED
  BY <1>1, Invariance, PTL

\* AssertHeld never fails for a thread that holds the mutex.
THEOREM AssertHeldHolds == Spec => []HolderPassesAssertHeld
<1>1. IInv => HolderPassesAssertHeld
  BY NobodyAssumption DEF IInv, TypeOK, OwnerAndFlag, Owning, HolderPassesAssertHeld
<1>2. QED
  BY <1>1, Invariance, PTL

\* Whichever thread writes locked_ (Lock, Unlock, Wait, TimedWait), it owns the
\* mutex before and after that write.
THEOREM NoRaceOnFlag == Spec => OwnerWritesFlag
<1>. DEFINE Written == /\ writer' # Nobody => owner = writer' /\ owner' = writer'
                       /\ writer' = Nobody => locked' = locked
<1>1. IInv /\ [Next]_vars => [Written]_vars
  <2> SUFFICES ASSUME IInv, Next PROVE Written
    OBVIOUS
  <2>1. PICK t \in Threads : Step(t) \/ Call(t)
    BY DEF Next
  <2>2. t # Nobody
    BY NobodyAssumption
  <2>3. CASE LockSetsFlag(t) \/ UnlockClearsFlag(t) \/ WaitClearsFlag(t) \/ WaitSetsFlag(t)
    <3>1. writer' = t /\ pc[t] \in Owning /\ owner' = owner
      BY <2>3 DEF LockSetsFlag, UnlockClearsFlag, WaitClearsFlag, WaitSetsFlag, WriteFlag, Owning
    <3>2. owner = t
      BY <3>1 DEF IInv, OwnerAndFlag
    <3>. QED
      BY <2>2, <3>1, <3>2
  <2>4. CASE KeepFlag
    BY <2>4 DEF KeepFlag
  <2>. QED
    BY <2>1, <2>3, <2>4 DEF Step, Call, LockReturns, UnlockReleases, WaitBlocks,
       WaitReacquires, CallLock, Signal, SignalAll, Wake, WakesByItself
<1>2. QED
  BY <1>1, Invariance, PTL DEF Spec, OwnerWritesFlag

\* While a thread holds the mutex, every waiter is where a signal reaches it.
THEOREM SignalsReachWaiters == Spec => []NoWakeupLost
<1>1. IInv => NoWakeupLost
  BY NobodyAssumption DEF IInv, TypeOK, OwnerAndFlag, Owning, PCs, NoWakeupLost
<1>2. QED
  BY <1>1, Invariance, PTL

-----------------------------------------------------------------------------
\* What Inside is, for the program counters before or after a step.
LEMMA InsideOne ==
  ASSUME NEW f, NEW t \in Threads, f[t] = "held", \A u \in Threads : f[u] = "held" => u = t
  PROVE  (IF \E u \in Threads : f[u] = "held" THEN CHOOSE u \in Threads : f[u] = "held"
          ELSE Nobody) = t
  OBVIOUS

\* At most one thread is in its critical section, and it owns the mutex.
LEMMA OneHolder ==
  ASSUME IInv, NEW t \in Threads, pc[t] \in Owning
  PROVE  /\ \A u \in Threads : pc[u] = "held" => u = t
         /\ pc[t] = "held" => Inside = t
         /\ pc[t] # "held" => Inside = Nobody
<1>1. \A u \in Threads : pc[u] = "held" => u = t
  BY DEF IInv, OwnerAndFlag, Owning
<1>2. pc[t] = "held" => Inside = t
  BY <1>1, InsideOne DEF Inside
<1>3. pc[t] # "held" => Inside = Nobody
  BY <1>1 DEF Inside
<1>4. QED
  BY <1>1, <1>2, <1>3

\* A step that moves no thread into or out of the critical section.
LEMMA InsideUnchanged ==
  ASSUME \A u \in Threads : pc[u] = "held" <=> pc'[u] = "held",
         \A u \in Threads : pc[u] \in {"wait", "blocked"} <=> pc'[u] \in {"wait", "blocked"}
  PROVE  Inside' = Inside /\ Asleep' = Asleep
<1>1. Asleep' = Asleep
  BY DEF Asleep
<1>2. Inside' = Inside
  BY DEF Inside
<1>3. QED
  BY <1>1, <1>2

\* Lock and Wait return: the thread enters.
LEMMA EnterStep ==
  ASSUME IInv, NEW t \in Threads, LockSetsFlag(t) \/ WaitSetsFlag(t)
  PROVE  Monitor!Enter(t)
<1>1. /\ pc[t] \in {"got", "back"} /\ pc' = [pc EXCEPT ![t] = "held"]
      /\ pc \in [Threads -> PCs]
  BY DEF LockSetsFlag, WaitSetsFlag, Goto, IInv, TypeOK
<1>2. Inside = Nobody /\ \A u \in Threads : pc[u] # "held"
  BY <1>1, OneHolder DEF Owning
<1>3. Inside' = t
  <2>1. pc'[t] = "held" /\ \A u \in Threads : pc'[u] = "held" => u = t
    BY <1>1, <1>2
  <2>2. QED
    BY <2>1, InsideOne DEF Inside
<1>4. t \notin Asleep /\ Asleep' = Asleep
  BY <1>1 DEF Asleep
<1>5. QED
  BY <1>2, <1>3, <1>4 DEF Monitor!Enter

\* Unlock is called: the thread leaves.
LEMMA LeaveStep ==
  ASSUME IInv, NEW t \in Threads, UnlockClearsFlag(t)
  PROVE  Monitor!Leave(t)
<1>1. pc[t] = "held" /\ pc' = [pc EXCEPT ![t] = "unlock"] /\ pc \in [Threads -> PCs]
  BY DEF UnlockClearsFlag, Goto, IInv, TypeOK
<1>2. Inside = t /\ \A u \in Threads : pc[u] = "held" => u = t
  BY <1>1, OneHolder DEF Owning
<1>3. Inside' = Nobody
  BY <1>1, <1>2 DEF Inside
<1>4. Asleep' = Asleep
  BY <1>1 DEF Asleep
<1>5. QED
  BY <1>2, <1>3, <1>4 DEF Monitor!Leave

\* Wait is called: the thread leaves and sleeps.
LEMMA WaitStep ==
  ASSUME IInv, NEW t \in Threads, WaitClearsFlag(t)
  PROVE  Monitor!Wait(t)
<1>1. pc[t] = "held" /\ pc' = [pc EXCEPT ![t] = "wait"] /\ pc \in [Threads -> PCs]
  BY DEF WaitClearsFlag, Goto, IInv, TypeOK
<1>2. Inside = t /\ \A u \in Threads : pc[u] = "held" => u = t
  BY <1>1, OneHolder DEF Owning
<1>3. Inside' = Nobody
  BY <1>1, <1>2 DEF Inside
<1>4. Asleep' = Asleep \cup {t}
  BY <1>1 DEF Asleep
<1>5. QED
  BY <1>2, <1>3, <1>4 DEF Monitor!Wait

\* Threads are woken, by a signal, by themselves or by a timeout.
LEMMA WakeStep ==
  ASSUME IInv, NEW S, S \subseteq waiting,
         pc' = [u \in Threads |-> IF u \in S THEN "woken" ELSE pc[u]]
  PROVE  \E T \in SUBSET Asleep : Monitor!Wake(T)
<1>1. S \subseteq Asleep
  BY DEF IInv, OwnerAndFlag, TypeOK, Asleep
<1>2. Asleep' = Asleep \ S
  BY DEF Asleep
<1>3. Inside' = Inside
  <2>1. \A u \in Threads : pc[u] = "held" <=> pc'[u] = "held"
    BY <1>1 DEF Asleep
  <2>2. QED
    BY <2>1 DEF Inside
<1>4. QED
  BY <1>1, <1>2, <1>3 DEF Monitor!Wake

LEMMA NextRefines ==
  ASSUME IInv, [Next]_vars
  PROVE  [Monitor!Next]_<< Inside, Asleep >>
<1>1. CASE UNCHANGED vars
  BY <1>1 DEF vars, Inside, Asleep
<1>2. CASE Next
  <2>1. PICK t \in Threads : Step(t) \/ Call(t)
    BY <1>2 DEF Next
  <2>2. CASE LockSetsFlag(t) \/ WaitSetsFlag(t)
    BY <2>2, EnterStep DEF Monitor!Next
  <2>3. CASE UnlockClearsFlag(t)
    BY <2>3, LeaveStep DEF Monitor!Next
  <2>4. CASE WaitClearsFlag(t)
    BY <2>4, WaitStep DEF Monitor!Next
  <2>5. CASE Signal(t)
    BY <2>5, WakeStep DEF Signal, Wake, Monitor!Next
  <2>6. CASE SignalAll(t)
    BY <2>6, WakeStep DEF SignalAll, Wake, Monitor!Next
  <2>7. CASE WakesByItself(t)
    <3>1. /\ {t} \subseteq waiting
          /\ pc' = [u \in Threads |-> IF u \in {t} THEN "woken" ELSE pc[u]]
      BY <2>7 DEF WakesByItself, Goto, IInv, TypeOK, OwnerAndFlag
    <3>2. QED
      BY <3>1, WakeStep DEF Monitor!Next
  <2>8. CASE CallLock(t) \/ LockReturns(t) \/ UnlockReleases(t) \/ WaitBlocks(t) \/ WaitReacquires(t)
    <3>1. /\ \A u \in Threads : pc[u] = "held" <=> pc'[u] = "held"
          /\ \A u \in Threads : pc[u] \in {"wait", "blocked"} <=> pc'[u] \in {"wait", "blocked"}
      BY <2>8 DEF CallLock, LockReturns, UnlockReleases, WaitBlocks, WaitReacquires, Goto,
         IInv, TypeOK
    <3>2. QED
      BY <3>1, InsideUnchanged
  <2>9. QED
    BY <2>1, <2>2, <2>3, <2>4, <2>5, <2>6, <2>7, <2>8 DEF Step, Call
<1>3. QED
  BY <1>1, <1>2

\* Mutex and CondVar implement the monitor, for any number of threads: every
\* step of the code is a step of the monitor or leaves it unchanged.
THEOREM MutexImplementsMonitor == Spec => ImplementsMonitor
<1>1. Init => Monitor!Init
  BY DEF Init, Monitor!Init, Inside, Asleep
<1>2. QED
  BY <1>1, NextRefines, Invariance, PTL DEF Spec, ImplementsMonitor, Monitor!Spec
=============================================================================
