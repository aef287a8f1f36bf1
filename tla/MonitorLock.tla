---------------------------- MODULE MonitorLock ----------------------------
(***************************************************************************)
(* What port::Mutex and port::CondVar promise together: one thread at a    *)
(* time is inside, Wait goes from inside to asleep in one step, and a      *)
(* thread that is asleep comes back inside only after it has been woken,   *)
(* like any thread that enters.  A thread may wake without a signal.       *)
(***************************************************************************)
CONSTANTS Threads, Nobody

VARIABLES
  holder,    \* the thread inside
  asleep     \* the threads that wait and are not woken yet

Init == holder = Nobody /\ asleep = {}

Enter(t) ==
  /\ holder = Nobody /\ t \notin asleep
  /\ holder' = t
  /\ UNCHANGED asleep

Leave(t) ==
  /\ holder = t
  /\ holder' = Nobody
  /\ UNCHANGED asleep

Wait(t) ==
  /\ holder = t
  /\ holder' = Nobody
  /\ asleep' = asleep \cup {t}

Wake(S) ==
  /\ asleep' = asleep \ S
  /\ UNCHANGED holder

Next ==
  \/ \E t \in Threads : Enter(t) \/ Leave(t) \/ Wait(t)
  \/ \E S \in SUBSET asleep : Wake(S)

Spec == Init /\ [][Next]_<< holder, asleep >>
=============================================================================
