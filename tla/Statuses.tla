------------------------------ MODULE Statuses ------------------------------
(***************************************************************************)
(* Status: a code, a subcode, a severity and a message that each object    *)
(* keeps in a heap buffer of its own.  In builds that assert that every    *)
(* status is checked, a flag follows each object, and destroying an object *)
(* that nobody looked at aborts the process.  A client constructs, copies, *)
(* moves, assigns, observes and destroys statuses in any order.            *)
(*                                                                         *)
(* The copy of a message and the constructor that makes one are declared   *)
(* and not defined in the repository: they are taken to allocate a buffer. *)
(***************************************************************************)
EXTENDS Naturals, FiniteSets

CONSTANTS
  Statuses,     \* the places where a Status is constructed
  Buffers,      \* heap buffers
  Null,         \* nullptr, and what a place or a buffer not in use holds
  ErrorCodes, SubCodes, Severities,   \* the ones the client uses
  Named,        \* the factories named after a subcode that it uses
  Errors        \* bound: the errors reported; an error stands for its message too

\* The enumerations.
Code ==
  {"kOk", "kNotFound", "kCorruption", "kNotSupported", "kInvalidArgument", "kIOError",
   "kMergeInProgress", "kIncomplete", "kShutdownInProgress", "kTimedOut", "kAborted", "kBusy",
   "kExpired", "kTryAgain", "kCompactionTooLarge", "kColumnFamilyDropped"}

SubCode ==
  {"kNone", "kMutexTimeout", "kLockTimeout", "kLockLimit", "kNoSpace", "kDeadlock", "kStaleFile",
   "kMemoryLimit", "kSpaceLimit", "kPathNotFound", "KMergeOperandsInsufficientCapacity",
   "kManualCompactionPaused", "kOverwritten", "kTxnNotPrepared"}

Severity == {"kNoError", "kSoftError", "kHardError", "kFatalError", "kUnrecoverableError"}

\* The factories named after a subcode.
SpecificFactory ==
  [NoSpace |-> << "kIOError", "kNoSpace" >>,
   MemoryLimit |-> << "kAborted", "kMemoryLimit" >>,
   SpaceLimit |-> << "kIOError", "kSpaceLimit" >>,
   PathNotFound |-> << "kIOError", "kPathNotFound" >>,
   TxnNotPrepared |-> << "kInvalidArgument", "kTxnNotPrepared" >>]

\* The members of an object, and what is remembered of an error.
StatusType ==
  [code : Code, subcode : SubCode, sev : Severity, state : Buffers \cup {Null}, checked : BOOLEAN]
OriginType == [name : Code \cup DOMAIN SpecificFactory, message : Errors \cup {Null}]
ValueType == [code : Code, subcode : SubCode, sev : Severity, message : Errors \cup {Null}]

ASSUME StatusAssumption ==
  /\ Null \notin Buffers \cup Errors
  /\ Null \notin StatusType /\ Null \notin OriginType /\ Null \notin ValueType
  /\ Cardinality(Buffers) >= Cardinality(Statuses)
  /\ ErrorCodes \subseteq Code \ {"kOk"} /\ SubCodes \subseteq SubCode /\ Severities \subseteq Severity
  /\ Named \subseteq DOMAIN SpecificFactory

-----------------------------------------------------------------------------
\* Mutation: a full disk is looked for among the aborted operations.
NoSpaceAborted(q) ==
  CASE q = "NoSpace" -> << "kAborted", "kNoSpace" >>
    [] q # "NoSpace" -> << "kAborted", "kMemoryLimit" >>

\* The predicates IsNoSpace, IsMemoryLimit, ... that look at the subcode too;
\* the others compare the code.
SpecificPredicate(q) ==
  CASE q = "NoSpace" -> << "kIOError", "kNoSpace" >>
    [] q = "MemoryLimit" -> << "kAborted", "kMemoryLimit" >>
    [] q = "PathNotFound" -> << "kIOError", "kPathNotFound" >>
    [] q = "TxnNotPrepared" -> << "kInvalidArgument", "kTxnNotPrepared" >>
    [] q = "ManualCompactionPaused" -> << "kIncomplete", "kManualCompactionPaused" >>
    [] q = "LockLimit" -> << "kAborted", "kLockLimit" >>
    [] q = "Deadlock" -> << "kBusy", "kDeadlock" >>
    [] q = "OkOverwritten" -> << "kOk", "kOverwritten" >>

Questions ==
  {"NoSpace", "MemoryLimit", "PathNotFound", "TxnNotPrepared", "ManualCompactionPaused",
   "LockLimit", "Deadlock", "OkOverwritten"}

Is(q, s) == << s.code, s.subcode >> = SpecificPredicate(q)

-----------------------------------------------------------------------------
VARIABLES
  asserting,   \* whether the build has ROCKSDB_ASSERT_STATUS_CHECKED
  obj,         \* the objects, Null where there is none
  heap,        \* the message in each buffer, Null if it is free
  aborted,     \* whether a destructor aborted the process
  \* History:
  origin,      \* the factory each error was made by, and whether with a message
  cause,       \* the error that an object holds, Null for success
  seen         \* the errors that were observed, or permitted to go unchecked

vars == << asserting, obj, heap, aborted, origin, cause, seen >>

Alive(o) == obj[o] # Null
Owned(o) == IF Alive(o) THEN obj[o].state ELSE Null

\* Status(Code, SubCode), and Status() for kOk.  In a build without the flag
\* checked_, every object counts as checked.
New(code, subcode, state) ==
  [code |-> code, subcode |-> subcode, sev |-> "kNoError", state |-> state, checked |-> ~asserting]

Init ==
  /\ asserting \in BOOLEAN
  /\ obj = [o \in Statuses |-> Null]
  /\ heap = [b \in Buffers |-> Null]
  /\ aborted = FALSE
  /\ origin = [e \in Errors |-> Null]
  /\ cause = [o \in Statuses |-> Null]
  /\ seen = {}

-----------------------------------------------------------------------------
(***************************************************************************)
(* Construction.                                                           *)
(***************************************************************************)

\* Status(), OK and OkOverwritten.
OK(o, subcode) ==
  /\ ~aborted /\ ~Alive(o)
  /\ subcode \in {"kNone", "kOverwritten"}
  /\ obj' = [obj EXCEPT ![o] = New("kOk", subcode, Null)]
  /\ UNCHANGED << asserting, heap, aborted, origin, cause, seen >>

\* The new error e is reported in o, made by the factory `name'.
Report(o, e, name, message) ==
  /\ origin[e] = Null
  /\ origin' = [origin EXCEPT ![e] = [name |-> name, message |-> message]]
  /\ cause' = [cause EXCEPT ![o] = e]

\* The factories without a message: any subcode for those named after a code.
Fail(o, e, name, code, subcode) ==
  /\ ~aborted /\ ~Alive(o)
  /\ Report(o, e, name, Null)
  /\ obj' = [obj EXCEPT ![o] = New(code, subcode, Null)]
  /\ UNCHANGED << asserting, heap, aborted, seen >>

\* The factories with a message, which is put into a buffer.
FailWith(o, e, name, code, subcode) ==
  /\ ~aborted /\ ~Alive(o)
  /\ Report(o, e, name, e)
  /\ \E b \in Buffers :
       /\ heap[b] = Null
       /\ heap' = [heap EXCEPT ![b] = e]
       /\ obj' = [obj EXCEPT ![o] = New(code, subcode, b)]
  /\ UNCHANGED << asserting, aborted, seen >>

\* The factories called with what they stand for.
Factories(o, e) ==
  \/ \E code \in ErrorCodes :
       \/ \E subcode \in SubCodes : Fail(o, e, code, code, subcode)
       \/ FailWith(o, e, code, code, "kNone")
  \/ \E f \in Named :
       \/ Fail(o, e, f, SpecificFactory[f][1], SpecificFactory[f][2])
       \/ FailWith(o, e, f, SpecificFactory[f][1], SpecificFactory[f][2])

-----------------------------------------------------------------------------
(***************************************************************************)
(* Copies and moves, into a new object or over an old one whose buffer is  *)
(* deleted first.  Assigning an object to itself does nothing.             *)
(***************************************************************************)

\* delete[] of a buffer or of nullptr.
Delete(buffer) == [b \in Buffers |-> IF b = buffer THEN Null ELSE heap[b]]

\* Mutation: the message is shared with the copy.
CopyStateShallow(h, state, b) == b = state /\ heap' = h

\* CopyState, or nullptr for nullptr.
CopyState(h, state, b) ==
  IF state = Null THEN b = Null /\ heap' = h
  ELSE b # Null /\ h[b] = Null /\ heap' = [h EXCEPT ![b] = h[state]]

CopyInto(o, p, sev) ==
  /\ ~aborted /\ Alive(p) /\ o # p
  /\ \E b \in Buffers \cup {Null} :
       /\ CopyState(Delete(Owned(o)), obj[p].state, b)
       /\ obj' = [obj EXCEPT ![o] = [obj[p] EXCEPT !.sev = sev, !.state = b, !.checked = ~asserting],
                             ![p].checked = TRUE]
  /\ cause' = [cause EXCEPT ![o] = cause[p]]
  /\ UNCHANGED << asserting, aborted, origin, seen >>

\* Mutation: the code is stored as the severity.
CopyWithCode(o, p, sev) == ~Alive(o) /\ CopyInto(o, p, obj[p].code)

\* Mutation: sev_ is not assigned.
AssignKeepsSeverity(o, p) == Alive(o) /\ CopyInto(o, p, obj[o].sev)

CopyConstruct(o, p) == ~Alive(o) /\ CopyInto(o, p, obj[p].sev)
CopyWithSeverity(o, p, sev) == ~Alive(o) /\ CopyInto(o, p, sev)
CopyAssign(o, p) == Alive(o) /\ CopyInto(o, p, obj[p].sev)

\* Mutation: the source keeps its pointer.
MoveKeepsState(o, p) ==
  /\ ~aborted /\ Alive(p) /\ o # p
  /\ heap' = Delete(Owned(o))
  /\ obj' = [obj EXCEPT ![o] = [obj[p] EXCEPT !.checked = ~asserting],
                        ![p] = [New("kOk", "kNone", obj[p].state) EXCEPT !.checked = TRUE]]
  /\ cause' = [cause EXCEPT ![o] = cause[p], ![p] = Null]
  /\ UNCHANGED << asserting, aborted, origin, seen >>

\* Mutation: the flag of the object assigned to is not cleared.
MoveKeepsFlag(o, p) ==
  /\ ~aborted /\ Alive(p) /\ o # p
  /\ heap' = Delete(Owned(o))
  /\ obj' = [obj EXCEPT ![o] = [obj[p] EXCEPT !.checked = Alive(o) /\ obj[o].checked],
                        ![p] = [New("kOk", "kNone", Null) EXCEPT !.checked = TRUE]]
  /\ cause' = [cause EXCEPT ![o] = cause[p], ![p] = Null]
  /\ UNCHANGED << asserting, aborted, origin, seen >>

\* The move constructor and the move assignment.  The source is left a success
\* that counts as checked.
MoveInto(o, p) ==
  /\ ~aborted /\ Alive(p) /\ o # p
  /\ heap' = Delete(Owned(o))
  /\ obj' = [obj EXCEPT ![o] = [obj[p] EXCEPT !.checked = ~asserting],
                        ![p] = [New("kOk", "kNone", Null) EXCEPT !.checked = TRUE]]
  /\ cause' = [cause EXCEPT ![o] = cause[p], ![p] = Null]
  /\ UNCHANGED << asserting, aborted, origin, seen >>

-----------------------------------------------------------------------------
(***************************************************************************)
(* Observation and destruction.                                            *)
(***************************************************************************)

\* code, subcode, severity, getState, ok and the predicates: the answer is in
\* the members, the flag is set.
Observe(o) ==
  /\ ~aborted /\ Alive(o)
  /\ obj' = [obj EXCEPT ![o].checked = TRUE]
  /\ seen' = seen \cup ({cause[o]} \ {Null})
  /\ UNCHANGED << asserting, heap, aborted, origin, cause >>

\* operator== and !=: both sides count as checked; the codes alone are compared.
Compare(o, p) ==
  /\ ~aborted /\ Alive(o) /\ Alive(p) /\ o # p
  /\ obj' = [obj EXCEPT ![o].checked = TRUE, ![p].checked = TRUE]
  /\ seen' = seen \cup ({cause[o], cause[p]} \ {Null})
  /\ UNCHANGED << asserting, heap, aborted, origin, cause >>

PermitUncheckedError(o) == Observe(o)

\* The destructor.
Destroy(o) ==
  /\ ~aborted /\ Alive(o)
  /\ IF ~obj[o].checked
     THEN aborted' = TRUE /\ UNCHANGED << obj, heap, cause >>
     ELSE /\ heap' = Delete(Owned(o))
          /\ obj' = [obj EXCEPT ![o] = Null]
          /\ cause' = [cause EXCEPT ![o] = Null]
          /\ UNCHANGED aborted
  /\ UNCHANGED << asserting, origin, seen >>

Next ==
  \E o \in Statuses :
    \/ \E subcode \in SubCode : OK(o, subcode)
    \/ \E e \in Errors : Factories(o, e)
    \/ \E p \in Statuses :
         \/ CopyConstruct(o, p) \/ CopyAssign(o, p) \/ MoveInto(o, p) \/ Compare(o, p)
         \/ \E sev \in Severities : CopyWithSeverity(o, p, sev)
    \/ Observe(o) \/ PermitUncheckedError(o)
    \/ Destroy(o)

Spec == Init /\ [][Next]_vars

-----------------------------------------------------------------------------
\* The variables keep their types.
TypeOK ==
  /\ asserting \in BOOLEAN /\ aborted \in BOOLEAN
  /\ obj \in [Statuses -> StatusType \cup {Null}]
  /\ heap \in [Buffers -> Errors \cup {Null}]
  /\ origin \in [Errors -> OriginType \cup {Null}]
  /\ cause \in [Statuses -> Errors \cup {Null}]
  /\ seen \subseteq Errors

\* Every message buffer in use belongs to exactly one object, and no object
\* points to a buffer that was deleted: nothing leaks, is deleted twice or is
\* read after its deletion, whatever is copied, moved, assigned and destroyed.
\* A success has no message, as the comment on state_ says, a moved-from status
\* and one assigned over an error with a message included.  The members keep
\* their types.
OneOwner ==
  /\ TypeOK
  /\ \A b \in Buffers : heap[b] # Null => \E o \in Statuses : Owned(o) = b
  /\ \A o \in Statuses : Owned(o) # Null => heap[Owned(o)] # Null
  /\ \A o, p \in Statuses : Owned(o) # Null /\ Owned(o) = Owned(p) => o = p
  /\ \A o \in Statuses : Alive(o) /\ obj[o].code = "kOk" => Owned(o) = Null /\ cause[o] = Null

\* Some object that holds e will abort the process if it is destroyed.
Tracked(e) == \E o \in Statuses : Alive(o) /\ cause[o] = e /\ ~obj[o].checked

\* In a build that asserts it, an object that an error comes into, new or old,
\* checked or not, owes a check for it; and checked_ is set only if somebody has
\* looked at the error or another object owes the check from now on.  No copy,
\* move or comparison settles a check that nobody made.
ErrorsOwed ==
  [][asserting =>
       \A o \in Statuses, e \in Errors : Alive(o)' =>
         /\ cause'[o] = e /\ cause[o] # e => ~obj'[o].checked
         /\ Alive(o) /\ cause[o] = e /\ ~obj[o].checked /\ obj'[o].checked =>
              e \in seen' \/ Tracked(e)']_vars

\* Wherever an error has been copied or moved to, and in whatever severity, the
\* status keeps its code and its message, and of the predicates that look at the
\* subcode exactly the one named after its factory answers yes.
Recognised ==
  \A o \in Statuses : Alive(o) /\ cause[o] # Null =>
    LET s == obj[o]
        from == origin[cause[o]]
    IN  /\ from.name \in Code => s.code = from.name
        /\ from.name \in Questions => \A q \in Questions : Is(q, s) <=> q = from.name
        /\ (IF s.state = Null THEN Null ELSE heap[s.state]) = from.message

-----------------------------------------------------------------------------
\* The value of an object: its members, with the message for the pointer.
Value(o) ==
  IF ~Alive(o) THEN Null
  ELSE [code |-> obj[o].code, subcode |-> obj[o].subcode, sev |-> obj[o].sev,
        message |-> IF obj[o].state = Null THEN Null ELSE heap[obj[o].state]]

Values == INSTANCE StatusValues WITH
  NotAlive <- Null,
  Results <- [code : Code, subcode : SubCode, sev : {"kNoError"}, message : Errors \cup {Null}],
  Success <- [code |-> "kOk", subcode |-> "kNone", sev |-> "kNoError", message |-> Null],
  val <- [o \in Statuses |-> Value(o)]

\* Objects behave as values although the messages are behind pointers: copying
\* duplicates, moving leaves a success behind, and no operation changes what
\* another object holds.
ValueSemantics == Values!Spec
=============================================================================
