---------------------------- MODULE StatusValues ----------------------------
(***************************************************************************)
(* What a Status promises: a value.  A variable of the type holds a        *)
(* result, which copying duplicates, moving takes away leaving success     *)
(* behind, and which nothing done to another variable changes.             *)
(***************************************************************************)
CONSTANTS
  Statuses,     \* the variables
  Results,      \* the values that are constructed
  Success,      \* the value of Status()
  Severities,
  NotAlive      \* of a variable that is not constructed

VARIABLE val

Init == val = [o \in Statuses |-> NotAlive]

Alive(o) == val[o] # NotAlive

Construct(o) ==
  /\ ~Alive(o)
  /\ val'[o] \in Results
  /\ val' = [val EXCEPT ![o] = val'[o]]

Destroy(o) == Alive(o) /\ val' = [val EXCEPT ![o] = NotAlive]

Copy(o, p) == Alive(p) /\ val' = [val EXCEPT ![o] = val[p]]

CopyWithSeverity(o, p, sev) ==
  ~Alive(o) /\ Alive(p) /\ val' = [val EXCEPT ![o] = [val[p] EXCEPT !.sev = sev]]

Move(o, p) == Alive(p) /\ o # p /\ val' = [val EXCEPT ![o] = val[p], ![p] = Success]

Next ==
  \E o \in Statuses :
    \/ Construct(o) \/ Destroy(o)
    \/ \E p \in Statuses : Copy(o, p) \/ Move(o, p)
    \/ \E p \in Statuses, sev \in Severities : CopyWithSeverity(o, p, sev)

Spec == Init /\ [][Next]_val
=============================================================================
