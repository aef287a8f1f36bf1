--------------------------- MODULE Statuses_proofs ---------------------------
(***************************************************************************)
(* Status is a value: any number of objects, buffers and errors, under any *)
(* sequence of constructions, copies, moves, assignments, observations and *)
(* destructions, in both builds.                                           *)
(***************************************************************************)
EXTENDS Statuses, TLAPS

\* The message behind an object's pointer.
Message(o) == IF obj[o].state = Null THEN Null ELSE heap[obj[o].state]

(***************************************************************************)
(* The inductive invariant.  Faithful ties an object that holds an error   *)
(* to the factory that made the error; Recognised, which speaks of the     *)
(* answers of the predicates only, follows from it.                        *)
(***************************************************************************)
Tells(o, e) ==
  /\ Alive(o)
  /\ origin[e] # Null
  /\ origin[e].name \in Code => obj[o].code = origin[e].name
  /\ origin[e].name \in DOMAIN SpecificFactory =>
       << obj[o].code, obj[o].subcode >> = SpecificFactory[origin[e].name]
  /\ Message(o) = origin[e].message

Faithful == \A o \in Statuses : cause[o] # Null => Tells(o, cause[o])

IInv == OneOwner /\ Faithful

-----------------------------------------------------------------------------
LEMMA InitIInv == Init => IInv
<1>. SUFFICES ASSUME Init PROVE IInv
  OBVIOUS
<1>. USE StatusAssumption DEF Init
<1>1. TypeOK
  BY DEF TypeOK
<1>2. OneOwner
  BY <1>1 DEF OneOwner, Owned, Alive
<1>3. Faithful
  BY DEF Faithful
<1>. QED
  BY <1>2, <1>3 DEF IInv

\* A live object has all its members.
LEMMA LiveType ==
  ASSUME TypeOK, NEW o \in Statuses
  PROVE  /\ obj[o] = Null \/ obj[o] \in StatusType
         /\ Alive(o) <=> obj[o] \in StatusType
         /\ Alive(o) => /\ obj[o].code \in Code /\ obj[o].subcode \in SubCode
                        /\ obj[o].sev \in Severity /\ obj[o].state \in Buffers \cup {Null}
                        /\ obj[o].checked \in BOOLEAN
                        /\ Owned(o) = obj[o].state
         /\ Owned(o) \in Buffers \cup {Null}
<1>1. obj[o] = Null \/ obj[o] \in StatusType
  BY DEF TypeOK
<1>2. Alive(o) <=> obj[o] \in StatusType
  BY <1>1, StatusAssumption DEF Alive
<1>3. Alive(o) => /\ obj[o].code \in Code /\ obj[o].subcode \in SubCode
                  /\ obj[o].sev \in Severity /\ obj[o].state \in Buffers \cup {Null}
                  /\ obj[o].checked \in BOOLEAN
  BY <1>2 DEF StatusType
<1>. QED
  BY <1>1, <1>2, <1>3 DEF Owned

\* A constructed object has its type.
LEMMA NewType ==
  ASSUME TypeOK, NEW code \in Code, NEW subcode \in SubCode, NEW b \in Buffers \cup {Null}
  PROVE  /\ New(code, subcode, b) \in StatusType
         /\ New(code, subcode, b).code = code /\ New(code, subcode, b).subcode = subcode
         /\ New(code, subcode, b).sev = "kNoError" /\ New(code, subcode, b).state = b
         /\ New(code, subcode, b).checked = ~asserting
BY DEF New, StatusType, TypeOK, Severity

\* An object that has what p had tells what p told.
LEMMA TellsOn ==
  ASSUME NEW o \in Statuses, NEW p \in Statuses, NEW e \in Errors, Tells(p, e),
         Alive(o)', origin'[e] = origin[e], obj'[o].code = obj[p].code,
         obj'[o].subcode = obj[p].subcode, Message(o)' = Message(p)
  PROVE  Tells(o, e)'
BY DEF Tells

-----------------------------------------------------------------------------
(***************************************************************************)
(* Construction: nothing but the new object and its own buffer changes.    *)
(***************************************************************************)
LEMMA OKIInv ==
  ASSUME IInv, NEW o \in Statuses, NEW subcode \in SubCode, OK(o, subcode)
  PROVE  IInv'
<1>. DEFINE new == New("kOk", subcode, Null)
<1>1. TypeOK /\ OneOwner /\ Faithful
  BY DEF IInv, OneOwner
<1>2. /\ new \in StatusType /\ new.code = "kOk" /\ new.state = Null /\ new.checked = ~asserting
      /\ new # Null
  BY <1>1, NewType, StatusAssumption DEF Code
<1>. HIDE DEF new
<1>3. /\ ~Alive(o) /\ obj' = [obj EXCEPT ![o] = new]
      /\ UNCHANGED << asserting, heap, aborted, origin, cause, seen >>
  BY DEF OK, new
<1>4. obj'[o] = new /\ \A q \in Statuses : q # o => obj'[q] = obj[q]
  BY <1>1, <1>3 DEF TypeOK
<1>5. TypeOK'
  BY <1>1, <1>2, <1>3 DEF TypeOK
<1>6. Owned(o)' = Null /\ Owned(o) = Null /\ cause[o] = Null
  BY <1>1, <1>2, <1>3, <1>4 DEF Owned, Alive, Faithful, Tells
<1>7. \A q \in Statuses : q # o => Owned(q)' = Owned(q) /\ (Alive(q)' <=> Alive(q))
  BY <1>4 DEF Owned, Alive
<1>8. OneOwner'
  BY <1>1, <1>3, <1>4, <1>5, <1>6, <1>7 DEF OneOwner
<1>10. Faithful'
  BY <1>1, <1>3, <1>4, <1>6, <1>7 DEF Faithful, Tells, Message
<1>. QED
  BY <1>8, <1>10 DEF IInv

\* The factories, with and without a message.
LEMMA ReportIInv ==
  ASSUME IInv, NEW o \in Statuses, NEW e \in Errors, NEW name \in Code \cup DOMAIN SpecificFactory,
         NEW code \in Code \ {"kOk"}, NEW subcode \in SubCode,
         name \in Code => code = name,
         name \in DOMAIN SpecificFactory => << code, subcode >> = SpecificFactory[name],
         NEW message \in Errors \cup {Null}, NEW b \in Buffers \cup {Null},
         ~Alive(o), Report(o, e, name, message), obj' = [obj EXCEPT ![o] = New(code, subcode, b)],
         \/ b = Null /\ message = Null /\ heap' = heap
         \/ b # Null /\ message = e /\ heap[b] = Null /\ heap' = [heap EXCEPT ![b] = e],
         UNCHANGED << asserting, aborted, seen >>
  PROVE  IInv'
<1>. DEFINE new == New(code, subcode, b)
            from == [name |-> name, message |-> message]
<1>1. TypeOK /\ OneOwner /\ Faithful
  BY DEF IInv, OneOwner
<1>2. /\ new \in StatusType /\ new.code = code /\ new.subcode = subcode /\ new.state = b
      /\ new.checked = ~asserting /\ new # Null
  BY <1>1, NewType, StatusAssumption
<1>3. from \in OriginType /\ from.name = name /\ from.message = message /\ from # Null
  BY StatusAssumption DEF OriginType
<1>. HIDE DEF new, from
<1>4. /\ obj' = [obj EXCEPT ![o] = new]
      /\ origin' = [origin EXCEPT ![e] = from] /\ origin[e] = Null
      /\ cause' = [cause EXCEPT ![o] = e]
  BY DEF Report, new, from
<1>5. /\ obj'[o] = new /\ \A q \in Statuses : q # o => obj'[q] = obj[q]
      /\ origin'[e] = from /\ \A d \in Errors : d # e => origin'[d] = origin[d]
      /\ cause'[o] = e /\ \A q \in Statuses : q # o => cause'[q] = cause[q]
  BY <1>1, <1>4 DEF TypeOK
<1>6. /\ b # Null => heap'[b] = e
      /\ \A c \in Buffers : c # b => heap'[c] = heap[c]
      /\ b # Null => heap[b] = Null
  BY <1>1, StatusAssumption DEF TypeOK
<1>7. TypeOK'
  <2>1. heap' \in [Buffers -> Errors \cup {Null}]
    BY <1>1 DEF TypeOK
  <2>2. obj' \in [Statuses -> StatusType \cup {Null}]
    BY <1>1, <1>2, <1>4 DEF TypeOK
  <2>3. origin' \in [Errors -> OriginType \cup {Null}] /\ cause' \in [Statuses -> Errors \cup {Null}]
    BY <1>1, <1>3, <1>4 DEF TypeOK
  <2>. QED
    BY <1>1, <2>1, <2>2, <2>3 DEF TypeOK
<1>8. Owned(o)' = b /\ Owned(o) = Null /\ Alive(o)'
  BY <1>2, <1>5 DEF Owned, Alive
<1>9. \A q \in Statuses : q # o => Owned(q)' = Owned(q) /\ (Alive(q)' <=> Alive(q))
  BY <1>5 DEF Owned, Alive
<1>10. \A q \in Statuses : Owned(q) \in Buffers \cup {Null}
  BY <1>1, LiveType
<1>11. b # Null => \A q \in Statuses : Owned(q) # b
  BY <1>1, <1>6 DEF OneOwner
<1>12. OneOwner'
  <2>1. \A c \in Buffers : heap'[c] # Null => \E q \in Statuses : Owned(q)' = c
    BY <1>1, <1>6, <1>8, <1>9, StatusAssumption DEF OneOwner
  <2>2. \A q \in Statuses : Owned(q)' # Null => heap'[Owned(q)'] # Null
    BY <1>1, <1>6, <1>8, <1>9, <1>10, <1>11, StatusAssumption DEF OneOwner
  <2>3. \A q, p \in Statuses : Owned(q)' # Null /\ Owned(q)' = Owned(p)' => q = p
    BY <1>1, <1>8, <1>9, <1>11 DEF OneOwner
  <2>4. \A q \in Statuses : Alive(q)' /\ obj'[q].code = "kOk" => Owned(q)' = Null /\ cause'[q] = Null
    BY <1>1, <1>2, <1>5, <1>9 DEF OneOwner
  <2>. QED
    BY <1>7, <2>1, <2>2, <2>3, <2>4 DEF OneOwner
<1>14. Faithful'
  <2>. SUFFICES ASSUME NEW q \in Statuses, cause'[q] # Null
                PROVE  Tells(q, cause[q])'
    BY DEF Faithful
  <2>1. CASE q = o
    <3>1. Message(o)' = message
      BY <1>2, <1>5, <1>6 DEF Message
    <3>. QED
      BY <2>1, <3>1, <1>2, <1>3, <1>5, <1>8 DEF Tells
  <2>2. CASE q # o
    <3>1. cause[q] \in Errors /\ cause'[q] = cause[q] /\ Tells(q, cause[q])
      BY <2>2, <1>1, <1>5 DEF Faithful, TypeOK
    <3>2. /\ origin'[cause[q]] = origin[cause[q]] /\ obj'[q] = obj[q] /\ Alive(q)' /\ Alive(q)
      BY <2>2, <3>1, <1>4, <1>5, <1>9 DEF Tells
    <3>3. Message(q)' = Message(q)
      BY <3>2, <1>1, <1>6, <1>11, LiveType DEF Message
    <3>. QED
      BY <3>1, <3>2, <3>3, TellsOn
  <2>. QED
    BY <2>1, <2>2
<1>. QED
  BY <1>12, <1>14 DEF IInv

\* What the client calls is one of these.
LEMMA FactoryPairs ==
  /\ \A f \in DOMAIN SpecificFactory :
       /\ SpecificFactory[f] = << SpecificFactory[f][1], SpecificFactory[f][2] >>
       /\ SpecificFactory[f][1] \in Code \ {"kOk"} /\ SpecificFactory[f][2] \in SubCode
       /\ f \notin Code
  /\ \A c \in Code : c \notin DOMAIN SpecificFactory
BY DEF SpecificFactory, Code, SubCode

LEMMA FactoriesIInv ==
  ASSUME IInv, NEW o \in Statuses, NEW e \in Errors, Factories(o, e)
  PROVE  IInv'
<1>. DEFINE Meant(name, code, subcode) ==
              /\ name \in Code \cup DOMAIN SpecificFactory
              /\ code \in Code \ {"kOk"} /\ subcode \in SubCode
              /\ name \in Code => code = name
              /\ name \in DOMAIN SpecificFactory => << code, subcode >> = SpecificFactory[name]
<1>1. ASSUME NEW name, NEW code, NEW subcode, Meant(name, code, subcode), Fail(o, e, name, code, subcode)
      PROVE  IInv'
  BY <1>1, ReportIInv DEF Fail
<1>2. ASSUME NEW name, NEW code, NEW subcode, Meant(name, code, subcode),
             FailWith(o, e, name, code, subcode)
      PROVE  IInv'
  <2>1. PICK b \in Buffers : heap[b] = Null /\ heap' = [heap EXCEPT ![b] = e]
                             /\ obj' = [obj EXCEPT ![o] = New(code, subcode, b)]
    BY <1>2 DEF FailWith
  <2>2. b # Null
    BY StatusAssumption
  <2>. QED
    BY <1>2, <2>1, <2>2, ReportIInv DEF FailWith
<1>3. \A code \in ErrorCodes : /\ \A subcode \in SubCodes : Meant(code, code, subcode)
                               /\ Meant(code, code, "kNone")
  BY StatusAssumption, FactoryPairs DEF SubCode
<1>4. \A f \in Named : Meant(f, SpecificFactory[f][1], SpecificFactory[f][2])
  BY StatusAssumption, FactoryPairs
<1>. HIDE DEF Meant
<1>. QED
  BY <1>1, <1>2, <1>3, <1>4 DEF Factories

-----------------------------------------------------------------------------
(***************************************************************************)
(* Copies and moves.  First what they do to the objects and the buffers.   *)
(***************************************************************************)

\* A copy: o gets a buffer of its own with p's message, its old one is free, and
\* no other object notices.
Copied(o, p, sev) ==
  /\ o # p /\ Alive(p)
  /\ obj'[o] \in StatusType
  /\ obj'[o].code = obj[p].code /\ obj'[o].subcode = obj[p].subcode
  /\ obj'[o].sev = sev /\ obj'[o].checked = ~asserting
  /\ obj'[p] \in StatusType
  /\ obj'[p].code = obj[p].code /\ obj'[p].subcode = obj[p].subcode
  /\ obj'[p].sev = obj[p].sev /\ obj'[p].state = obj[p].state
  /\ \A q \in Statuses \ {o, p} : obj'[q] = obj[q]
  /\ obj' \in [Statuses -> StatusType \cup {Null}]
  /\ heap' \in [Buffers -> Errors \cup {Null}]
  /\ obj[p].state = Null <=> obj'[o].state = Null
  /\ obj'[o].state # Null => heap'[obj'[o].state] = heap[obj[p].state]
  /\ \A q \in Statuses : q # o /\ Owned(q) # Null =>
       Owned(q) # obj'[o].state /\ heap'[Owned(q)] = heap[Owned(q)]
  /\ \A c \in Buffers : heap'[c] # Null =>
       c = obj'[o].state \/ (heap[c] # Null /\ c # Owned(o))

LEMMA CopyEffect ==
  ASSUME OneOwner, NEW o \in Statuses, NEW p \in Statuses, NEW sev \in Severity, CopyInto(o, p, sev)
  PROVE  Copied(o, p, sev)
<1>1. TypeOK
  BY DEF OneOwner
<1>2. o # p /\ Alive(p) /\ obj[p] \in StatusType
  BY <1>1, LiveType DEF CopyInto
<1>3. PICK b \in Buffers \cup {Null} :
        /\ CopyState(Delete(Owned(o)), obj[p].state, b)
        /\ obj' = [obj EXCEPT ![o] = [obj[p] EXCEPT !.sev = sev, !.state = b, !.checked = ~asserting],
                              ![p].checked = TRUE]
  BY DEF CopyInto
<1>. DEFINE copy == [obj[p] EXCEPT !.sev = sev, !.state = b, !.checked = ~asserting]
            left == [obj[p] EXCEPT !.checked = TRUE]
            freed == Delete(Owned(o))
<1>4. /\ copy \in StatusType /\ copy.code = obj[p].code /\ copy.subcode = obj[p].subcode
      /\ copy.sev = sev /\ copy.state = b /\ copy.checked = ~asserting
  BY <1>1, <1>2 DEF StatusType, TypeOK
<1>5. /\ left \in StatusType /\ left.code = obj[p].code /\ left.subcode = obj[p].subcode
      /\ left.sev = obj[p].sev /\ left.state = obj[p].state
  BY <1>2 DEF StatusType
<1>6. obj' = [obj EXCEPT ![o] = copy, ![p] = left]
  BY <1>1, <1>2, <1>3 DEF TypeOK
<1>. HIDE DEF copy, left
<1>7. /\ obj'[o] = copy /\ obj'[p] = left /\ \A q \in Statuses \ {o, p} : obj'[q] = obj[q]
      /\ obj' \in [Statuses -> StatusType \cup {Null}]
  BY <1>1, <1>2, <1>4, <1>5, <1>6 DEF TypeOK
<1>8. /\ freed \in [Buffers -> Errors \cup {Null}]
      /\ \A c \in Buffers : freed[c] = IF c = Owned(o) THEN Null ELSE heap[c]
  BY <1>1 DEF TypeOK, Delete
<1>9. CopyState(freed, obj[p].state, b)
  BY <1>3
<1>. HIDE DEF freed
<1>10. Owned(p) = obj[p].state /\ obj[p].state \in Buffers \cup {Null} /\ Owned(o) \in Buffers \cup {Null}
  BY <1>1, <1>2, LiveType
<1>11. obj[p].state # Null => /\ heap[obj[p].state] # Null /\ obj[p].state # Owned(o)
                              /\ freed[obj[p].state] = heap[obj[p].state]
  BY <1>2, <1>8, <1>10 DEF OneOwner
<1>12. CASE obj[p].state = Null
  <2>1. b = Null /\ heap' = freed
    BY <1>9, <1>12 DEF CopyState
  <2>2. \A q \in Statuses : q # o /\ Owned(q) # Null => Owned(q) \in Buffers /\ Owned(q) # Owned(o)
    BY <1>1, LiveType DEF OneOwner
  <2>. QED
    BY <2>1, <2>2, <1>2, <1>4, <1>5, <1>7, <1>8, <1>10, <1>12 DEF Copied
<1>13. CASE obj[p].state # Null
  <2>1. b # Null /\ freed[b] = Null /\ heap' = [freed EXCEPT ![b] = freed[obj[p].state]] /\ b \in Buffers
    BY <1>9, <1>13 DEF CopyState
  <2>2. \A q \in Statuses : q # o /\ Owned(q) # Null =>
          /\ Owned(q) \in Buffers /\ Owned(q) # Owned(o) /\ heap[Owned(q)] # Null
    BY <1>1, LiveType DEF OneOwner
  <2>3. \A q \in Statuses : q # o /\ Owned(q) # Null => Owned(q) # b
    BY <2>1, <2>2, <1>8
  <2>4. heap' \in [Buffers -> Errors \cup {Null}]
    BY <2>1, <1>8, <1>10, <1>13
  <2>5. heap'[b] = heap[obj[p].state]
    BY <2>1, <1>8, <1>11, <1>13
  <2>6. \A c \in Buffers : c # b => heap'[c] = freed[c]
    BY <2>1, <1>8
  <2>. QED
    BY <2>1, <2>2, <2>3, <2>4, <2>5, <2>6, <1>2, <1>4, <1>5, <1>7, <1>8, <1>13 DEF Copied
<1>. QED
  BY <1>12, <1>13

\* A move: o takes over p's buffer and p is left a success without one.
Moved(o, p) ==
  /\ o # p /\ Alive(p)
  /\ obj'[o] \in StatusType
  /\ obj'[o].code = obj[p].code /\ obj'[o].subcode = obj[p].subcode
  /\ obj'[o].sev = obj[p].sev /\ obj'[o].checked = ~asserting
  /\ obj'[o].state = obj[p].state
  /\ obj'[p] \in StatusType
  /\ obj'[p].code = "kOk" /\ obj'[p].subcode = "kNone"
  /\ obj'[p].sev = "kNoError" /\ obj'[p].state = Null
  /\ \A q \in Statuses \ {o, p} : obj'[q] = obj[q]
  /\ obj' \in [Statuses -> StatusType \cup {Null}]
  /\ heap' \in [Buffers -> Errors \cup {Null}]
  /\ \A q \in Statuses : q # o /\ Owned(q) # Null =>
       Owned(q) \in Buffers /\ heap'[Owned(q)] = heap[Owned(q)]
  /\ \A c \in Buffers : heap'[c] # Null => heap[c] # Null /\ c # Owned(o)

LEMMA MoveEffect ==
  ASSUME OneOwner, NEW o \in Statuses, NEW p \in Statuses, MoveInto(o, p)
  PROVE  Moved(o, p)
<1>1. TypeOK
  BY DEF OneOwner
<1>2. o # p /\ Alive(p) /\ obj[p] \in StatusType
  BY <1>1, LiveType DEF MoveInto
<1>. DEFINE taken == [obj[p] EXCEPT !.checked = ~asserting]
            left == [New("kOk", "kNone", Null) EXCEPT !.checked = TRUE]
<1>3. /\ taken \in StatusType /\ taken.code = obj[p].code /\ taken.subcode = obj[p].subcode
      /\ taken.sev = obj[p].sev /\ taken.state = obj[p].state /\ taken.checked = ~asserting
  BY <1>1, <1>2 DEF StatusType, TypeOK
<1>4. /\ left \in StatusType /\ left.code = "kOk" /\ left.subcode = "kNone"
      /\ left.sev = "kNoError" /\ left.state = Null
  BY DEF New, StatusType, Code, SubCode, Severity
<1>5. obj' = [obj EXCEPT ![o] = taken, ![p] = left] /\ heap' = Delete(Owned(o))
  BY DEF MoveInto
<1>. HIDE DEF taken, left
<1>6. /\ obj'[o] = taken /\ obj'[p] = left /\ \A q \in Statuses \ {o, p} : obj'[q] = obj[q]
      /\ obj' \in [Statuses -> StatusType \cup {Null}]
  BY <1>1, <1>2, <1>3, <1>4, <1>5 DEF TypeOK
<1>7. /\ heap' \in [Buffers -> Errors \cup {Null}]
      /\ \A c \in Buffers : heap'[c] = IF c = Owned(o) THEN Null ELSE heap[c]
  BY <1>1, <1>5 DEF TypeOK, Delete
<1>8. \A q \in Statuses : q # o /\ Owned(q) # Null => Owned(q) \in Buffers /\ Owned(q) # Owned(o)
  BY <1>1, LiveType DEF OneOwner
<1>. QED
  BY <1>2, <1>3, <1>4, <1>6, <1>7, <1>8 DEF Moved

LEMMA CopyIInv ==
  ASSUME IInv, NEW o \in Statuses, NEW p \in Statuses, NEW sev \in Severity, CopyInto(o, p, sev)
  PROVE  IInv'
<1>1. TypeOK /\ OneOwner /\ Faithful
  BY DEF IInv, OneOwner
<1>2. Copied(o, p, sev)
  BY <1>1, CopyEffect
<1>. USE DEF Copied
<1>3. /\ cause' = [cause EXCEPT ![o] = cause[p]]
      /\ UNCHANGED << asserting, aborted, origin, seen >>
  BY DEF CopyInto
<1>4. cause'[o] = cause[p] /\ \A q \in Statuses : q # o => cause'[q] = cause[q]
  BY <1>1, <1>3 DEF TypeOK
<1>5. TypeOK'
  BY <1>1, <1>2, <1>3 DEF TypeOK
<1>6. Alive(o)' /\ Owned(o)' = obj'[o].state
  BY <1>2, StatusAssumption DEF Alive, Owned
<1>7. \A q \in Statuses : q # o => Owned(q)' = Owned(q) /\ (Alive(q)' <=> Alive(q))
  BY <1>2, StatusAssumption DEF Alive, Owned
<1>8. Owned(p) = obj[p].state
  BY <1>2 DEF Owned
<1>9. OneOwner'
  <2>1. \A c \in Buffers : heap'[c] # Null => \E q \in Statuses : Owned(q)' = c
    BY <1>1, <1>2, <1>6, <1>7 DEF OneOwner
  <2>2. \A q \in Statuses : Owned(q)' # Null => heap'[Owned(q)'] # Null
    BY <1>1, <1>2, <1>6, <1>7, <1>8 DEF OneOwner
  <2>3. \A q, r \in Statuses : Owned(q)' # Null /\ Owned(q)' = Owned(r)' => q = r
    BY <1>1, <1>2, <1>6, <1>7 DEF OneOwner
  <2>4. \A q \in Statuses : Alive(q)' /\ obj'[q].code = "kOk" => Owned(q)' = Null /\ cause'[q] = Null
    BY <1>1, <1>2, <1>4, <1>6, <1>7, <1>8 DEF OneOwner
  <2>. QED
    BY <1>5, <2>1, <2>2, <2>3, <2>4 DEF OneOwner
<1>11. /\ Message(o)' = Message(p)
       /\ \A q \in Statuses : q # o /\ Alive(q) =>
            /\ Message(q)' = Message(q) /\ obj'[q].code = obj[q].code /\ obj'[q].subcode = obj[q].subcode
  BY <1>2, <1>6, <1>8 DEF Message, Owned
<1>12. Faithful'
  <2>. SUFFICES ASSUME NEW q \in Statuses, cause'[q] # Null
                PROVE  Tells(q, cause[q])'
    BY DEF Faithful
  <2>1. CASE q = o
    BY <2>1, <1>1, <1>2, <1>3, <1>4, <1>6, <1>11, TellsOn DEF Faithful, TypeOK
  <2>2. CASE q # o
    <3>1. cause'[q] = cause[q] /\ cause[q] \in Errors /\ Tells(q, cause[q]) /\ Alive(q)
      BY <2>2, <1>1, <1>4 DEF Faithful, TypeOK, Tells
    <3>. QED
      BY <2>2, <3>1, <1>3, <1>7, <1>11, TellsOn
  <2>. QED
    BY <2>1, <2>2
<1>. QED
  BY <1>9, <1>12 DEF IInv

LEMMA MoveIInv ==
  ASSUME IInv, NEW o \in Statuses, NEW p \in Statuses, MoveInto(o, p)
  PROVE  IInv'
<1>1. TypeOK /\ OneOwner /\ Faithful
  BY DEF IInv, OneOwner
<1>2. Moved(o, p)
  BY <1>1, MoveEffect
<1>. USE DEF Moved
<1>3. /\ cause' = [cause EXCEPT ![o] = cause[p], ![p] = Null]
      /\ UNCHANGED << asserting, aborted, origin, seen >>
  BY DEF MoveInto
<1>4. cause'[o] = cause[p] /\ cause'[p] = Null /\ \A q \in Statuses \ {o, p} : cause'[q] = cause[q]
  BY <1>1, <1>2, <1>3 DEF TypeOK
<1>5. TypeOK'
  <2>1. cause' \in [Statuses -> Errors \cup {Null}]
    BY <1>1, <1>3 DEF TypeOK
  <2>. QED
    BY <2>1, <1>1, <1>2, <1>3 DEF TypeOK
<1>6. Alive(o)' /\ Owned(o)' = obj[p].state /\ Owned(p) = obj[p].state
  BY <1>2, StatusAssumption DEF Alive, Owned
<1>7. Alive(p)' /\ Owned(p)' = Null
  BY <1>2, StatusAssumption DEF Alive, Owned
<1>8. \A q \in Statuses \ {o, p} : Owned(q)' = Owned(q) /\ (Alive(q)' <=> Alive(q))
  BY <1>2 DEF Alive, Owned
<1>9. OneOwner'
  <2>1. \A c \in Buffers : heap'[c] # Null => \E q \in Statuses : Owned(q)' = c
    <3>. SUFFICES ASSUME NEW c \in Buffers, heap'[c] # Null
                  PROVE  \E q \in Statuses : Owned(q)' = c
      OBVIOUS
    <3>1. PICK q \in Statuses : Owned(q) = c
      BY <1>1, <1>2 DEF OneOwner
    <3>2. q # o
      BY <3>1, <1>2
    <3>. QED
      BY <3>1, <3>2, <1>6, <1>8
  <2>2. \A q \in Statuses : Owned(q)' # Null => heap'[Owned(q)'] # Null
    BY <1>1, <1>2, <1>6, <1>7, <1>8 DEF OneOwner
  <2>3. \A q, r \in Statuses : Owned(q)' # Null /\ Owned(q)' = Owned(r)' => q = r
    BY <1>1, <1>6, <1>7, <1>8 DEF OneOwner
  <2>4. \A q \in Statuses : Alive(q)' /\ obj'[q].code = "kOk" => Owned(q)' = Null /\ cause'[q] = Null
    BY <1>1, <1>2, <1>4, <1>6, <1>7, <1>8 DEF OneOwner
  <2>. QED
    BY <1>5, <2>1, <2>2, <2>3, <2>4 DEF OneOwner
<1>11. /\ Message(o)' = Message(p)
       /\ \A q \in Statuses \ {o, p} : Alive(q) => Message(q)' = Message(q)
  BY <1>2, <1>6 DEF Message, Owned
<1>12. Faithful'
  <2>. SUFFICES ASSUME NEW q \in Statuses, cause'[q] # Null
                PROVE  Tells(q, cause[q])'
    BY DEF Faithful
  <2>1. CASE q = o
    BY <2>1, <1>1, <1>2, <1>3, <1>4, <1>6, <1>11, TellsOn DEF Faithful, TypeOK
  <2>2. CASE q = p
    BY <2>2, <1>4
  <2>3. CASE q \in Statuses \ {o, p}
    <3>1. cause'[q] = cause[q] /\ cause[q] \in Errors /\ Tells(q, cause[q]) /\ Alive(q)
      BY <2>3, <1>1, <1>4 DEF Faithful, TypeOK, Tells
    <3>. QED
      BY <2>3, <3>1, <1>2, <1>3, <1>8, <1>11, TellsOn
  <2>. QED
    BY <2>1, <2>2, <2>3
<1>. QED
  BY <1>9, <1>12 DEF IInv

-----------------------------------------------------------------------------
(***************************************************************************)
(* Observation and destruction.                                            *)
(***************************************************************************)

\* Looking at some objects sets their flags and changes nothing else in them.
LEMMA ObserveEffect ==
  ASSUME TypeOK, NEW o \in Statuses, Alive(o), obj' = [obj EXCEPT ![o].checked = TRUE]
  PROVE  /\ obj' \in [Statuses -> StatusType \cup {Null}]
         /\ obj'[o] \in StatusType
         /\ obj'[o].code = obj[o].code /\ obj'[o].subcode = obj[o].subcode
         /\ obj'[o].sev = obj[o].sev /\ obj'[o].state = obj[o].state
         /\ \A q \in Statuses \ {o} : obj'[q] = obj[q]
<1>. DEFINE looked == [obj[o] EXCEPT !.checked = TRUE]
<1>1. obj[o] \in StatusType
  BY LiveType
<1>2. /\ looked \in StatusType /\ looked.code = obj[o].code /\ looked.subcode = obj[o].subcode
      /\ looked.sev = obj[o].sev /\ looked.state = obj[o].state
  BY <1>1 DEF StatusType
<1>3. obj' = [obj EXCEPT ![o] = looked]
  BY DEF TypeOK
<1>. HIDE DEF looked
<1>. QED
  BY <1>2, <1>3 DEF TypeOK

LEMMA CompareEffect ==
  ASSUME TypeOK, NEW o \in Statuses, NEW p \in Statuses, Compare(o, p)
  PROVE  /\ obj' \in [Statuses -> StatusType \cup {Null}]
         /\ \A q \in {o, p} :
              /\ obj'[q] \in StatusType
              /\ obj'[q].code = obj[q].code /\ obj'[q].subcode = obj[q].subcode
              /\ obj'[q].sev = obj[q].sev /\ obj'[q].state = obj[q].state
         /\ \A q \in Statuses \ {o, p} : obj'[q] = obj[q]
<1>. DEFINE looked(q) == [obj[q] EXCEPT !.checked = TRUE]
<1>1. obj[o] \in StatusType /\ obj[p] \in StatusType /\ o # p
  BY LiveType DEF Compare
<1>2. \A q \in {o, p} :
        /\ looked(q) \in StatusType /\ looked(q).code = obj[q].code /\ looked(q).subcode = obj[q].subcode
        /\ looked(q).sev = obj[q].sev /\ looked(q).state = obj[q].state
  BY <1>1 DEF StatusType
<1>3. obj' = [obj EXCEPT ![o] = looked(o), ![p] = looked(p)]
  BY <1>1 DEF TypeOK, Compare
<1>. HIDE DEF looked
<1>. QED
  BY <1>1, <1>2, <1>3 DEF TypeOK

\* Any step that only looks keeps the invariant.
LEMMA LookIInv ==
  ASSUME IInv, NEW S \in SUBSET Statuses,
         obj' \in [Statuses -> StatusType \cup {Null}],
         \A q \in S : /\ Alive(q) /\ obj'[q] \in StatusType
                      /\ obj'[q].code = obj[q].code /\ obj'[q].subcode = obj[q].subcode
                      /\ obj'[q].state = obj[q].state,
         \A q \in Statuses \ S : obj'[q] = obj[q],
         seen' \subseteq Errors,
         UNCHANGED << asserting, heap, aborted, origin, cause >>
  PROVE  IInv'
<1>1. TypeOK /\ OneOwner /\ Faithful
  BY DEF IInv, OneOwner
<1>2. TypeOK'
  BY <1>1 DEF TypeOK
<1>3. \A q \in Statuses : Owned(q)' = Owned(q) /\ (Alive(q)' <=> Alive(q))
  BY StatusAssumption DEF Owned, Alive
<1>4. OneOwner'
  BY <1>1, <1>2, <1>3 DEF OneOwner
<1>6. \A q \in Statuses : Alive(q) => Message(q)' = Message(q)
  BY DEF Message
<1>7. Faithful'
  BY <1>1, <1>3, <1>6 DEF Faithful, Tells
<1>. QED
  BY <1>4, <1>7 DEF IInv

LEMMA ObserveIInv ==
  ASSUME IInv, NEW o \in Statuses, Observe(o)
  PROVE  IInv'
<1>1. TypeOK /\ Alive(o)
  BY DEF IInv, OneOwner, Observe
<1>2. seen' \subseteq Errors
  BY <1>1 DEF Observe, TypeOK
<1>3. /\ obj' \in [Statuses -> StatusType \cup {Null}]
      /\ \A q \in {o} : /\ Alive(q) /\ obj'[q] \in StatusType
                        /\ obj'[q].code = obj[q].code /\ obj'[q].subcode = obj[q].subcode
                        /\ obj'[q].state = obj[q].state
      /\ \A q \in Statuses \ {o} : obj'[q] = obj[q]
  BY <1>1, ObserveEffect DEF Observe
<1>. QED
  <2>1. {o} \in SUBSET Statuses /\ UNCHANGED << asserting, heap, aborted, origin, cause >>
    BY DEF Observe
  <2>. QED
    BY <1>2, <1>3, <2>1, LookIInv

LEMMA CompareIInv ==
  ASSUME IInv, NEW o \in Statuses, NEW p \in Statuses, Compare(o, p)
  PROVE  IInv'
<1>1. TypeOK /\ Alive(o) /\ Alive(p) /\ o # p
  BY DEF IInv, OneOwner, Compare
<1>2. seen' \subseteq Errors
  BY <1>1 DEF Compare, TypeOK
<1>3. /\ obj' \in [Statuses -> StatusType \cup {Null}]
      /\ \A q \in {o, p} : /\ Alive(q) /\ obj'[q] \in StatusType
                           /\ obj'[q].code = obj[q].code /\ obj'[q].subcode = obj[q].subcode
                           /\ obj'[q].state = obj[q].state
      /\ \A q \in Statuses \ {o, p} : obj'[q] = obj[q]
  BY <1>1, CompareEffect
<1>. QED
  <2>1. {o, p} \in SUBSET Statuses /\ UNCHANGED << asserting, heap, aborted, origin, cause >>
    BY DEF Compare
  <2>. QED
    BY <1>2, <1>3, <2>1, LookIInv

LEMMA DestroyIInv ==
  ASSUME IInv, NEW o \in Statuses, Destroy(o)
  PROVE  IInv'
<1>1. TypeOK /\ OneOwner /\ Faithful
  BY DEF IInv, OneOwner
<1>2. CASE ~obj[o].checked
  <2>1. aborted' = TRUE /\ UNCHANGED << asserting, obj, heap, cause, origin, seen >>
    BY <1>2 DEF Destroy
  <2>2. TypeOK'
    BY <2>1, <1>1 DEF TypeOK
  <2>3. \A q \in Statuses : Owned(q)' = Owned(q) /\ (Alive(q)' <=> Alive(q))
    BY <2>1 DEF Owned, Alive
  <2>. QED
    BY <1>1, <2>1, <2>2, <2>3 DEF IInv, OneOwner, Faithful, Tells, Message
<1>3. CASE obj[o].checked
  <2>1. /\ heap' = Delete(Owned(o)) /\ obj' = [obj EXCEPT ![o] = Null]
        /\ cause' = [cause EXCEPT ![o] = Null]
        /\ UNCHANGED << asserting, aborted, origin, seen >>
    BY <1>3 DEF Destroy
  <2>2. /\ heap' \in [Buffers -> Errors \cup {Null}]
        /\ \A c \in Buffers : heap'[c] = IF c = Owned(o) THEN Null ELSE heap[c]
    BY <1>1, <2>1 DEF TypeOK, Delete
  <2>3. /\ obj'[o] = Null /\ \A q \in Statuses : q # o => obj'[q] = obj[q]
        /\ cause'[o] = Null /\ \A q \in Statuses : q # o => cause'[q] = cause[q]
    BY <1>1, <2>1 DEF TypeOK
  <2>4. TypeOK'
    BY <1>1, <2>1, <2>2 DEF TypeOK
  <2>5. Owned(o)' = Null /\ ~Alive(o)'
    BY <2>3 DEF Owned, Alive
  <2>6. \A q \in Statuses : q # o => Owned(q)' = Owned(q) /\ (Alive(q)' <=> Alive(q))
    BY <2>3 DEF Owned, Alive
  <2>7. \A q \in Statuses : q # o /\ Owned(q) # Null => Owned(q) \in Buffers /\ Owned(q) # Owned(o)
    BY <1>1, LiveType DEF OneOwner
  <2>8. OneOwner'
    <3>1. \A c \in Buffers : heap'[c] # Null => \E q \in Statuses : Owned(q)' = c
      BY <1>1, <2>2, <2>6 DEF OneOwner
    <3>2. \A q \in Statuses : Owned(q)' # Null => heap'[Owned(q)'] # Null
      BY <1>1, <2>2, <2>5, <2>6, <2>7 DEF OneOwner
    <3>3. \A q, r \in Statuses : Owned(q)' # Null /\ Owned(q)' = Owned(r)' => q = r
      BY <1>1, <2>5, <2>6 DEF OneOwner
    <3>4. \A q \in Statuses : Alive(q)' /\ obj'[q].code = "kOk" => Owned(q)' = Null /\ cause'[q] = Null
      BY <1>1, <2>3, <2>5, <2>6 DEF OneOwner
    <3>. QED
      BY <2>4, <3>1, <3>2, <3>3, <3>4 DEF OneOwner
  <2>10. \A q \in Statuses : q # o /\ Alive(q) => Message(q)' = Message(q)
    BY <2>2, <2>3, <2>7 DEF Message, Owned
  <2>11. Faithful'
    BY <1>1, <2>1, <2>3, <2>6, <2>10 DEF Faithful, Tells
  <2>. QED
    BY <2>8, <2>11 DEF IInv
<1>. QED
  BY <1>2, <1>3

-----------------------------------------------------------------------------
LEMMA NextIInv == IInv /\ [Next]_vars => IInv'
<1>. SUFFICES ASSUME IInv, [Next]_vars PROVE IInv'
  OBVIOUS
<1>1. CASE UNCHANGED vars
  BY <1>1 DEF vars, IInv, OneOwner, TypeOK, Owned, Alive, Faithful, Tells, Message
<1>2. CASE Next
  <2>1. PICK o \in Statuses :
          \/ \E subcode \in SubCode : OK(o, subcode)
          \/ \E e \in Errors : Factories(o, e)
          \/ \E p \in Statuses :
               \/ CopyConstruct(o, p) \/ CopyAssign(o, p) \/ MoveInto(o, p) \/ Compare(o, p)
               \/ \E sev \in Severities : CopyWithSeverity(o, p, sev)
          \/ Observe(o) \/ PermitUncheckedError(o)
          \/ Destroy(o)
    BY <1>2 DEF Next
  <2>2. ASSUME NEW p \in Statuses, NEW sev, CopyInto(o, p, sev), sev = obj[p].sev \/ sev \in Severities
        PROVE  IInv'
    <3>1. sev \in Severity
      BY <2>2, LiveType, StatusAssumption DEF CopyInto, IInv, OneOwner
    <3>. QED
      BY <2>2, <3>1, CopyIInv
  <2>3. ASSUME NEW p \in Statuses,
               \/ CopyConstruct(o, p) \/ CopyAssign(o, p)
               \/ \E sev \in Severities : CopyWithSeverity(o, p, sev)
        PROVE  IInv'
    BY <2>2, <2>3 DEF CopyConstruct, CopyAssign, CopyWithSeverity
  <2>. QED
    BY <2>1, <2>3, OKIInv, FactoriesIInv, MoveIInv, CompareIInv, ObserveIInv, DestroyIInv
       DEF PermitUncheckedError
<1>. QED
  BY <1>1, <1>2

\* The inductive invariant holds in every reachable state.
LEMMA Invariance == Spec => []IInv
BY InitIInv, NextIInv, PTL DEF Spec

-----------------------------------------------------------------------------
(***************************************************************************)
(* The results.                                                            *)
(***************************************************************************)

\* Every message has one owner that is alive, no object points to a deleted
\* buffer, and a success has no message.
THEOREM MessagesOwnedOnce == Spec => []OneOwner
<1>1. IInv => OneOwner
  BY DEF IInv
<1>. QED
  BY <1>1, Invariance, PTL

\* An object that owes the check of an error keeps owing it where the step
\* leaves the object and its error as they are.
LEMMA StillTracked ==
  ASSUME NEW o \in Statuses, NEW e \in Errors, Alive(o), cause[o] = e, ~obj[o].checked,
         obj'[o] = obj[o], cause'[o] = cause[o]
  PROVE  Tracked(e)'
BY DEF Tracked, Alive

\* The object that a status is copied or moved into owes the check.
LEMMA CopyCarries ==
  ASSUME OneOwner, asserting, NEW o \in Statuses, NEW e \in Errors,
         Alive(o), cause[o] = e, ~obj[o].checked,
         NEW h \in Statuses, h # o, NEW p \in Statuses, NEW sev \in Severity, CopyInto(h, p, sev)
  PROVE  Tracked(e)'
<1>1. Copied(h, p, sev) /\ TypeOK /\ cause' = [cause EXCEPT ![h] = cause[p]]
  BY CopyEffect DEF OneOwner, CopyInto
<1>2. cause'[h] = cause[p] /\ cause'[o] = cause[o]
  BY <1>1 DEF TypeOK
<1>3. CASE o = p
  <2>1. obj'[h] # Null /\ ~obj'[h].checked
    BY <1>1, StatusAssumption DEF Copied
  <2>. QED
    BY <1>2, <1>3, <2>1 DEF Tracked, Alive
<1>4. CASE o # p
  BY <1>1, <1>2, <1>4, StillTracked DEF Copied
<1>. QED
  BY <1>3, <1>4

LEMMA MoveCarries ==
  ASSUME OneOwner, asserting, NEW o \in Statuses, NEW e \in Errors,
         Alive(o), cause[o] = e, ~obj[o].checked,
         NEW h \in Statuses, h # o, NEW p \in Statuses, MoveInto(h, p)
  PROVE  Tracked(e)'
<1>1. Moved(h, p) /\ TypeOK /\ cause' = [cause EXCEPT ![h] = cause[p], ![p] = Null]
  BY MoveEffect DEF OneOwner, MoveInto
<1>2. h # p /\ cause'[h] = cause[p] /\ (o # p => cause'[o] = cause[o])
  BY <1>1 DEF TypeOK, Moved
<1>3. CASE o = p
  <2>1. obj'[h] # Null /\ ~obj'[h].checked
    BY <1>1, StatusAssumption DEF Moved
  <2>. QED
    BY <1>2, <1>3, <2>1 DEF Tracked, Alive
<1>4. CASE o # p
  BY <1>1, <1>2, <1>4, StillTracked DEF Moved
<1>. QED
  BY <1>3, <1>4

\* An assignment to o, of either kind: it writes over what o held.
AssignedTo(o) == \E p \in Statuses : CopyAssign(o, p) \/ MoveInto(o, p)

\* Any other step leaves the check of an error that o holds to be done.
LEMMA StepCarries ==
  ASSUME IInv, Next, asserting, NEW o \in Statuses, NEW e \in Errors,
         Alive(o), cause[o] = e, ~obj[o].checked, ~AssignedTo(o)
  PROVE  e \in seen' \/ Tracked(e)'
<1>1. OneOwner /\ TypeOK /\ e # Null
  BY StatusAssumption DEF IInv, OneOwner
<1>2. PICK h \in Statuses :
        \/ \E subcode \in SubCode : OK(h, subcode)
        \/ \E d \in Errors : Factories(h, d)
        \/ \E p \in Statuses :
             \/ CopyConstruct(h, p) \/ CopyAssign(h, p) \/ MoveInto(h, p) \/ Compare(h, p)
             \/ \E sev \in Severities : CopyWithSeverity(h, p, sev)
        \/ Observe(h) \/ PermitUncheckedError(h)
        \/ Destroy(h)
  BY DEF Next
<1>3. ASSUME NEW subcode \in SubCode, OK(h, subcode)
      PROVE  Tracked(e)'
  <2>1. h # o /\ obj'[o] = obj[o] /\ cause' = cause
    BY <1>1, <1>3 DEF OK, TypeOK
  <2>. QED
    BY <2>1, StillTracked
<1>4. ASSUME NEW d \in Errors, Factories(h, d)
      PROVE  Tracked(e)'
  <2>1. ~Alive(h) /\ cause' = [cause EXCEPT ![h] = d] /\ \E new : obj' = [obj EXCEPT ![h] = new]
    BY <1>4 DEF Factories, Fail, FailWith, Report
  <2>2. h # o /\ obj'[o] = obj[o] /\ cause'[o] = cause[o]
    BY <1>1, <2>1 DEF TypeOK
  <2>. QED
    BY <2>2, StillTracked
<1>5. ASSUME NEW p \in Statuses,
             \/ CopyConstruct(h, p) \/ CopyAssign(h, p)
             \/ \E sev \in Severities : CopyWithSeverity(h, p, sev)
      PROVE  Tracked(e)'
  <2>1. h # o
    BY <1>5 DEF CopyConstruct, CopyWithSeverity, AssignedTo
  <2>2. \E sev \in Severity : CopyInto(h, p, sev)
    BY <1>1, <1>5, LiveType, StatusAssumption DEF CopyConstruct, CopyAssign, CopyWithSeverity, CopyInto
  <2>. QED
    BY <1>1, <2>1, <2>2, CopyCarries
<1>6. ASSUME NEW p \in Statuses, MoveInto(h, p)
      PROVE  Tracked(e)'
  <2>1. h # o
    BY <1>6 DEF AssignedTo
  <2>. QED
    BY <1>1, <1>6, <2>1, MoveCarries
<1>7. ASSUME NEW p \in Statuses, Compare(h, p)
      PROVE  e \in seen' \/ Tracked(e)'
  <2>1. /\ cause' = cause /\ seen' = seen \cup ({cause[h], cause[p]} \ {Null})
        /\ o \notin {h, p} => obj'[o] = obj[o]
    BY <1>1, <1>7, CompareEffect DEF Compare
  <2>. QED
    BY <1>1, <2>1, StillTracked
<1>8. ASSUME Observe(h)
      PROVE  e \in seen' \/ Tracked(e)'
  <2>1. /\ cause' = cause /\ seen' = seen \cup ({cause[h]} \ {Null})
        /\ o # h => obj'[o] = obj[o]
    BY <1>1, <1>8, ObserveEffect DEF Observe
  <2>. QED
    BY <1>1, <2>1, StillTracked
<1>9. ASSUME Destroy(h)
      PROVE  Tracked(e)'
  <2>1. obj'[o] = obj[o] /\ cause'[o] = cause[o]
    BY <1>1, <1>9 DEF Destroy, TypeOK
  <2>. QED
    BY <2>1, StillTracked
<1>. QED
  BY <1>2, <1>3, <1>4, <1>5, <1>6, <1>7, <1>8, <1>9 DEF PermitUncheckedError

\* The object that an error comes into owes the check.
LEMMA ArrivesUnchecked ==
  ASSUME IInv, Next, asserting, NEW o \in Statuses, NEW e \in Errors,
         Alive(o)', cause'[o] = e, cause[o] # e
  PROVE  ~obj'[o].checked
<1>1. OneOwner /\ TypeOK /\ e # Null
  BY StatusAssumption DEF IInv, OneOwner
<1>2. PICK h \in Statuses :
        \/ \E subcode \in SubCode : OK(h, subcode)
        \/ \E d \in Errors : Factories(h, d)
        \/ \E p \in Statuses :
             \/ CopyConstruct(h, p) \/ CopyAssign(h, p) \/ MoveInto(h, p) \/ Compare(h, p)
             \/ \E sev \in Severities : CopyWithSeverity(h, p, sev)
        \/ Observe(h) \/ PermitUncheckedError(h)
        \/ Destroy(h)
  BY DEF Next
<1>3. ASSUME NEW d \in Errors, Factories(h, d)
      PROVE  ~obj'[o].checked
  <2>1. PICK name, code, subcode :
          Fail(h, d, name, code, subcode) \/ FailWith(h, d, name, code, subcode)
    BY <1>3 DEF Factories
  <2>2. PICK state : obj' = [obj EXCEPT ![h] = New(code, subcode, state)]
    BY <2>1 DEF Fail, FailWith
  <2>3. cause' = [cause EXCEPT ![h] = d]
    BY <2>1 DEF Fail, FailWith, Report
  <2>4. h = o
    BY <1>1, <2>3 DEF TypeOK
  <2>. QED
    BY <1>1, <2>2, <2>4 DEF TypeOK, New
<1>4. ASSUME NEW p \in Statuses, NEW sev \in Severity, CopyInto(h, p, sev)
      PROVE  ~obj'[o].checked
  <2>1. Copied(h, p, sev) /\ cause' = [cause EXCEPT ![h] = cause[p]]
    BY <1>1, <1>4, CopyEffect DEF CopyInto
  <2>2. h = o
    BY <1>1, <2>1 DEF TypeOK
  <2>. QED
    BY <2>1, <2>2 DEF Copied
<1>5. ASSUME NEW p \in Statuses, MoveInto(h, p)
      PROVE  ~obj'[o].checked
  <2>1. Moved(h, p) /\ cause' = [cause EXCEPT ![h] = cause[p], ![p] = Null]
    BY <1>1, <1>5, MoveEffect DEF MoveInto
  <2>2. h = o
    BY <1>1, <2>1 DEF TypeOK
  <2>. QED
    BY <2>1, <2>2 DEF Moved
<1>6. ASSUME NEW p \in Statuses,
             \/ CopyConstruct(h, p) \/ CopyAssign(h, p)
             \/ \E sev \in Severities : CopyWithSeverity(h, p, sev)
      PROVE  \E sev \in Severity : CopyInto(h, p, sev)
  BY <1>1, <1>6, LiveType, StatusAssumption DEF CopyConstruct, CopyAssign, CopyWithSeverity, CopyInto
<1>7. ASSUME cause' = cause \/ cause' = [cause EXCEPT ![h] = Null]
      PROVE  FALSE
  BY <1>1, <1>7 DEF TypeOK
<1>8. (\E subcode \in SubCode : OK(h, subcode)) \/ Observe(h) \/ PermitUncheckedError(h) \/ Destroy(h)
        => cause' = cause \/ cause' = [cause EXCEPT ![h] = Null]
  BY DEF OK, Observe, PermitUncheckedError, Destroy
<1>9. ASSUME NEW p \in Statuses, Compare(h, p) PROVE cause' = cause
  BY <1>9 DEF Compare
<1>. QED
  BY <1>2, <1>3, <1>4, <1>5, <1>6, <1>7, <1>8, <1>9

\* Whatever is copied, moved, assigned and compared, an error that comes into an
\* object has to be checked there, and checked_ is set only for an error that was
\* looked at or that another object has to answer for.
THEOREM ChecksStayDue == Spec => ErrorsOwed
<1>. DEFINE Owed ==
       asserting =>
         \A o \in Statuses, e \in Errors : Alive(o)' =>
           /\ cause'[o] = e /\ cause[o] # e => ~obj'[o].checked
           /\ Alive(o) /\ cause[o] = e /\ ~obj[o].checked /\ obj'[o].checked =>
                e \in seen' \/ Tracked(e)'
<1>1. IInv /\ Next => Owed
  <2>. SUFFICES ASSUME IInv, Next, asserting, NEW o \in Statuses, NEW e \in Errors, Alive(o)',
                       Alive(o), cause[o] = e, ~obj[o].checked, obj'[o].checked
                PROVE  e \in seen' \/ Tracked(e)'
    BY ArrivesUnchecked
  <2>1. ASSUME AssignedTo(o) PROVE FALSE
    <3>1. PICK p \in Statuses : CopyAssign(o, p) \/ MoveInto(o, p)
      BY <2>1 DEF AssignedTo
    <3>2. OneOwner /\ TypeOK
      BY DEF IInv, OneOwner
    <3>3. CASE CopyAssign(o, p)
      <4>1. \E sev \in Severity : CopyInto(o, p, sev)
        BY <3>2, <3>3, LiveType DEF CopyAssign, CopyInto
      <4>. QED
        BY <3>2, <4>1, CopyEffect DEF Copied
    <3>4. CASE MoveInto(o, p)
      BY <3>2, <3>4, MoveEffect DEF Moved
    <3>. QED
      BY <3>1, <3>3, <3>4
  <2>. QED
    BY <2>1, StepCarries
<1>2. IInv /\ [Next]_vars => [Owed]_vars
  BY <1>1
<1>. QED
  BY <1>2, Invariance, PTL DEF Spec, ErrorsOwed

\* Both assignments (status.h:560 and :590) clear checked_ whatever they write
\* over: an error that nobody has looked at and that no other object holds is
\* gone afterwards, and no destructor will report it, although
\* PermitUncheckedError is said to be the only way to swallow one.
THEOREM AssignmentSwallows ==
  Spec => [][\A o \in Statuses, p \in Statuses, e \in Errors :
               /\ Alive(o) /\ (CopyAssign(o, p) \/ MoveInto(o, p))
               /\ cause[o] = e /\ e \notin seen
               /\ \A q \in Statuses : cause[q] = e => q = o
               => e \notin seen' /\ ~Tracked(e)']_vars
<1>1. ASSUME IInv, NEW o \in Statuses, NEW p \in Statuses, NEW e \in Errors,
             CopyAssign(o, p) \/ MoveInto(o, p), e \notin seen,
             \A q \in Statuses : cause[q] = e => q = o
      PROVE  e \notin seen' /\ ~Tracked(e)'
  <2>1. /\ o # p /\ seen' = seen
        /\ \/ cause' = [cause EXCEPT ![o] = cause[p]]
           \/ cause' = [cause EXCEPT ![o] = cause[p], ![p] = Null]
    BY <1>1 DEF CopyAssign, CopyInto, MoveInto
  <2>2. TypeOK /\ e # Null
    BY <1>1, StatusAssumption DEF IInv, OneOwner
  <2>3. \A q \in Statuses : cause'[q] # e
    BY <1>1, <2>1, <2>2 DEF TypeOK
  <2>. QED
    BY <1>1, <2>1, <2>3 DEF Tracked
<1>2. IInv => [\A o \in Statuses, p \in Statuses, e \in Errors :
               /\ Alive(o) /\ (CopyAssign(o, p) \/ MoveInto(o, p))
               /\ cause[o] = e /\ e \notin seen
               /\ \A q \in Statuses : cause[q] = e => q = o
               => e \notin seen' /\ ~Tracked(e)']_vars
  BY <1>1
<1>. QED
  BY <1>2, Invariance, PTL

\* Each factory's pair answers its own question and no other.
LEMMA PredicateOfFactory ==
  ASSUME NEW f \in Questions \cap DOMAIN SpecificFactory, NEW q \in Questions
  PROVE  SpecificFactory[f] = SpecificPredicate(q) <=> q = f
BY DEF Questions, SpecificFactory, SpecificPredicate

\* Copies and moves keep what an error says and what the predicates answer.
THEOREM ErrorsRecognised == Spec => []Recognised
<1>1. ASSUME IInv PROVE Recognised
  <2>. SUFFICES ASSUME NEW o \in Statuses, Alive(o), cause[o] # Null
                PROVE  /\ origin[cause[o]].name \in Code => obj[o].code = origin[cause[o]].name
                       /\ origin[cause[o]].name \in Questions =>
                            \A q \in Questions : Is(q, obj[o]) <=> q = origin[cause[o]].name
                       /\ Message(o) = origin[cause[o]].message
    BY DEF Recognised, Message
  <2>1. /\ origin[cause[o]].name \in Code => obj[o].code = origin[cause[o]].name
        /\ origin[cause[o]].name \in DOMAIN SpecificFactory =>
             << obj[o].code, obj[o].subcode >> = SpecificFactory[origin[cause[o]].name]
        /\ Message(o) = origin[cause[o]].message
        /\ origin[cause[o]].name \in Code \cup DOMAIN SpecificFactory
    <3>1. cause[o] \in Errors /\ origin[cause[o]] \in OriginType
      BY <1>1 DEF IInv, OneOwner, TypeOK, Faithful, Tells
    <3>. QED
      BY <3>1, <1>1 DEF IInv, Faithful, Tells, OriginType
  <2>2. ASSUME origin[cause[o]].name \in Questions, NEW q \in Questions
        PROVE  Is(q, obj[o]) <=> q = origin[cause[o]].name
    <3>1. origin[cause[o]].name \in DOMAIN SpecificFactory
      BY <2>1, <2>2 DEF Questions, Code
    <3>. QED
      BY <2>1, <2>2, <3>1, PredicateOfFactory DEF Is
  <2>. QED
    BY <2>1, <2>2
<1>. QED
  BY <1>1, Invariance, PTL

-----------------------------------------------------------------------------
(***************************************************************************)
(* The refinement: pointers and buffers implement values.                  *)
(***************************************************************************)
Results == [code : Code, subcode : SubCode, sev : {"kNoError"}, message : Errors \cup {Null}]
Success == [code |-> "kOk", subcode |-> "kNone", sev |-> "kNoError", message |-> Null]
Val == [o \in Statuses |-> Value(o)]

\* A value is there exactly for a live object.
LEMMA ValueAlive ==
  ASSUME TypeOK, NEW o \in Statuses
  PROVE  /\ Alive(o) => Value(o) = [code |-> obj[o].code, subcode |-> obj[o].subcode,
                                    sev |-> obj[o].sev, message |-> Message(o)]
         /\ Alive(o) <=> Value(o) # Null
         /\ Alive(o) => Value(o) \in ValueType
<1>1. Alive(o) => Value(o) = [code |-> obj[o].code, subcode |-> obj[o].subcode,
                              sev |-> obj[o].sev, message |-> Message(o)]
  BY DEF Value, Message
<1>2. Alive(o) => Message(o) \in Errors \cup {Null}
  BY LiveType DEF Message, TypeOK
<1>3. Alive(o) => Value(o) \in ValueType
  BY <1>1, <1>2, LiveType DEF ValueType
<1>4. ~Alive(o) => Value(o) = Null
  BY DEF Value
<1>. QED
  BY <1>1, <1>3, <1>4, StatusAssumption

\* An object whose members other than the flag stay, and whose message stays,
\* keeps its value.
LEMMA ValueKept ==
  ASSUME NEW q \in Statuses, Alive(q)' <=> Alive(q),
         Alive(q) => /\ obj'[q].code = obj[q].code /\ obj'[q].subcode = obj[q].subcode
                     /\ obj'[q].sev = obj[q].sev /\ Message(q)' = Message(q)
  PROVE  Value(q)' = Value(q)
BY DEF Value, Message

\* Construction makes one new value.
LEMMA ConstructStep ==
  ASSUME OneOwner, TypeOK', NEW o \in Statuses, ~Alive(o),
         NEW code \in Code, NEW subcode \in SubCode, NEW b \in Buffers \cup {Null},
         obj' = [obj EXCEPT ![o] = New(code, subcode, b)],
         \A c \in Buffers : heap[c] # Null => heap'[c] = heap[c]
  PROVE  Values!Construct(o)
<1>1. TypeOK
  BY DEF OneOwner
<1>2. /\ obj'[o] = New(code, subcode, b) /\ \A q \in Statuses : q # o => obj'[q] = obj[q]
      /\ New(code, subcode, b) # Null
  BY <1>1, NewType, StatusAssumption DEF TypeOK
<1>3. \A q \in Statuses : q # o => Value(q)' = Value(q)
  <2>. SUFFICES ASSUME NEW q \in Statuses, q # o PROVE Value(q)' = Value(q)
    OBVIOUS
  <2>1. Alive(q) => Message(q)' = Message(q)
    BY <1>1, <1>2, LiveType DEF Message, OneOwner
  <2>. QED
    BY <2>1, <1>2, ValueKept DEF Alive
<1>4. Value(o)' \in Results
  <2>1. /\ Alive(o)' /\ obj'[o].code = code /\ obj'[o].subcode = subcode
        /\ obj'[o].sev = "kNoError" /\ obj'[o].state = b
    BY <1>1, <1>2, NewType DEF Alive
  <2>2. Message(o)' \in Errors \cup {Null}
    BY <2>1 DEF Message, TypeOK
  <2>3. Value(o)' = [code |-> code, subcode |-> subcode, sev |-> "kNoError", message |-> Message(o)']
    BY <2>1 DEF Value, Message
  <2>. QED
    BY <2>2, <2>3 DEF Results
<1>5. Value(o) = Null
  BY DEF Value
<1>6. Val' = [Val EXCEPT ![o] = Val'[o]]
  BY <1>3 DEF Val
<1>. QED
  BY <1>4, <1>5, <1>6 DEF Values!Construct, Values!Alive, Val, Results

LEMMA CopyStep ==
  ASSUME OneOwner, NEW o \in Statuses, NEW p \in Statuses, NEW sev \in Severity, CopyInto(o, p, sev)
  PROVE  /\ Value(p) # Null
         /\ Value(o)' = [Value(p) EXCEPT !.sev = sev]
         /\ \A q \in Statuses : q # o => Value(q)' = Value(q)
<1>1. TypeOK
  BY DEF OneOwner
<1>2. Copied(o, p, sev)
  BY CopyEffect
<1>. USE DEF Copied
<1>3. Message(o)' = Message(p) /\ \A q \in Statuses : q # o /\ Alive(q) => Message(q)' = Message(q)
  BY <1>2 DEF Message, Owned
<1>4. Alive(o)' /\ \A q \in Statuses : q # o => (Alive(q)' <=> Alive(q))
  BY <1>2, StatusAssumption DEF Alive
<1>5. Value(p) = [code |-> obj[p].code, subcode |-> obj[p].subcode,
                  sev |-> obj[p].sev, message |-> Message(p)]
  BY <1>1, <1>2, ValueAlive
<1>6. Value(o)' = [code |-> obj[p].code, subcode |-> obj[p].subcode, sev |-> sev, message |-> Message(p)]
  BY <1>2, <1>3, <1>4 DEF Value, Message
<1>7. \A q \in Statuses : q # o => Value(q)' = Value(q)
  BY <1>2, <1>3, <1>4, ValueKept
<1>. QED
  BY <1>1, <1>2, <1>5, <1>6, <1>7, ValueAlive

LEMMA MoveStep ==
  ASSUME OneOwner, NEW o \in Statuses, NEW p \in Statuses, MoveInto(o, p)
  PROVE  Values!Move(o, p)
<1>1. TypeOK
  BY DEF OneOwner
<1>2. Moved(o, p)
  BY MoveEffect
<1>. USE DEF Moved
<1>3. /\ Message(o)' = Message(p) /\ Message(p)' = Null
      /\ \A q \in Statuses \ {o, p} : Alive(q) => Message(q)' = Message(q)
  BY <1>2 DEF Message, Owned
<1>4. Alive(o)' /\ Alive(p)' /\ \A q \in Statuses \ {o, p} : Alive(q)' <=> Alive(q)
  BY <1>2, StatusAssumption DEF Alive
<1>5. Value(o)' = Value(p) /\ Value(p)' = Success
  BY <1>2, <1>3, <1>4 DEF Value, Message, Success
<1>6. \A q \in Statuses \ {o, p} : Value(q)' = Value(q)
  BY <1>2, <1>3, <1>4, ValueKept
<1>7. Value(p) # Null
  BY <1>1, <1>2, ValueAlive
<1>8. Val' = [Val EXCEPT ![o] = Val[p], ![p] = Success]
  BY <1>2, <1>5, <1>6 DEF Val
<1>. QED
  BY <1>2, <1>7, <1>8 DEF Values!Move, Values!Alive, Val, Success

\* Looking changes no value.
LEMMA LookStep ==
  ASSUME OneOwner, NEW o \in Statuses, Observe(o) \/ \E p \in Statuses : Compare(o, p)
  PROVE  Val' = Val
<1>1. TypeOK
  BY DEF OneOwner
<1>2. ASSUME NEW q \in Statuses
      PROVE  Value(q)' = Value(q)
  <2>1. CASE Observe(o)
    <3>1. /\ Alive(o) /\ heap' = heap
          /\ obj'[o] \in StatusType
          /\ obj'[o].code = obj[o].code /\ obj'[o].subcode = obj[o].subcode
          /\ obj'[o].sev = obj[o].sev /\ obj'[o].state = obj[o].state
          /\ \A r \in Statuses \ {o} : obj'[r] = obj[r]
      BY <1>1, <2>1, ObserveEffect DEF Observe
    <3>. QED
      BY <3>1, ValueKept, StatusAssumption DEF Message, Alive
  <2>2. CASE \E p \in Statuses : Compare(o, p)
    <3>1. PICK p \in Statuses : Compare(o, p)
      BY <2>2
    <3>. Alive(o) /\ Alive(p) /\ heap' = heap
      BY <3>1 DEF Compare
    <3>2. /\ \A r \in {o, p} :
               /\ Alive(r) /\ obj'[r] \in StatusType
               /\ obj'[r].code = obj[r].code /\ obj'[r].subcode = obj[r].subcode
               /\ obj'[r].sev = obj[r].sev /\ obj'[r].state = obj[r].state
          /\ \A r \in Statuses \ {o, p} : obj'[r] = obj[r]
          /\ heap' = heap
      BY <1>1, <3>1, CompareEffect
    <3>3. CASE q \in {o, p}
      <4>1. Alive(q)' /\ Alive(q) /\ Message(q)' = Message(q)
        BY <3>2, <3>3, StatusAssumption DEF Message, Alive
      <4>. QED
        BY <3>2, <3>3, <4>1, ValueKept
    <3>4. CASE q \notin {o, p}
      BY <3>2, <3>4 DEF Value, Alive
    <3>. QED
      BY <3>3, <3>4
  <2>. QED
    BY <2>1, <2>2
<1>. QED
  BY <1>2 DEF Val

LEMMA DestroyStep ==
  ASSUME OneOwner, NEW o \in Statuses, Destroy(o)
  PROVE  Values!Destroy(o) \/ Val' = Val
<1>1. TypeOK
  BY DEF OneOwner
<1>2. CASE ~obj[o].checked
  BY <1>2 DEF Destroy, Val, Value, Alive
<1>3. CASE obj[o].checked
  <2>1. heap' = Delete(Owned(o)) /\ obj' = [obj EXCEPT ![o] = Null] /\ Alive(o)
    BY <1>3 DEF Destroy
  <2>2. obj'[o] = Null /\ \A q \in Statuses : q # o => obj'[q] = obj[q]
    BY <1>1, <2>1 DEF TypeOK
  <2>3. \A q \in Statuses : q # o /\ Owned(q) # Null => heap'[Owned(q)] = heap[Owned(q)]
    BY <1>1, <2>1, LiveType DEF OneOwner, Delete
  <2>4. \A q \in Statuses : q # o /\ Alive(q) => Message(q)' = Message(q)
    BY <2>2, <2>3 DEF Message, Owned
  <2>5. \A q \in Statuses : q # o => Value(q)' = Value(q)
    BY <2>2, <2>4, ValueKept DEF Alive
  <2>6. Value(o)' = Null /\ Value(o) # Null
    BY <1>1, <2>1, <2>2, ValueAlive DEF Value, Alive
  <2>7. Val' = [Val EXCEPT ![o] = Null]
    BY <2>5, <2>6 DEF Val
  <2>. QED
    BY <2>6, <2>7 DEF Values!Destroy, Values!Alive, Val
<1>. QED
  BY <1>2, <1>3

\* The factories construct a value, with whatever message.
LEMMA FactoriesStep ==
  ASSUME OneOwner, TypeOK', NEW o \in Statuses, NEW e \in Errors, Factories(o, e)
  PROVE  Values!Construct(o)
<1>1. ASSUME NEW name, NEW code \in Code, NEW subcode \in SubCode,
             Fail(o, e, name, code, subcode) \/ FailWith(o, e, name, code, subcode)
      PROVE  Values!Construct(o)
  <2>1. CASE Fail(o, e, name, code, subcode)
    <3>1. ~Alive(o) /\ obj' = [obj EXCEPT ![o] = New(code, subcode, Null)] /\ heap' = heap
      BY <2>1 DEF Fail
    <3>. QED
      BY <3>1, ConstructStep
  <2>2. CASE FailWith(o, e, name, code, subcode)
    <3>1. PICK b \in Buffers : heap[b] = Null /\ heap' = [heap EXCEPT ![b] = e]
                               /\ obj' = [obj EXCEPT ![o] = New(code, subcode, b)]
      BY <2>2 DEF FailWith
    <3>2. ~Alive(o) /\ \A c \in Buffers : heap[c] # Null => heap'[c] = heap[c]
      BY <2>2, <3>1 DEF FailWith, OneOwner, TypeOK
    <3>. QED
      BY <3>1, <3>2, ConstructStep
  <2>. QED
    BY <1>1, <2>1, <2>2
<1>2. \A code \in ErrorCodes : code \in Code
  BY StatusAssumption
<1>3. "kNone" \in SubCode /\ \A subcode \in SubCodes : subcode \in SubCode
  BY StatusAssumption DEF SubCode
<1>4. \A f \in Named : SpecificFactory[f][1] \in Code /\ SpecificFactory[f][2] \in SubCode
  BY StatusAssumption, FactoryPairs
<1>. QED
  BY <1>1, <1>2, <1>3, <1>4 DEF Factories

LEMMA NextRefines ==
  ASSUME IInv, IInv', [Next]_vars
  PROVE  [Values!Next]_Val
<1>1. OneOwner /\ TypeOK /\ TypeOK'
  BY DEF IInv, OneOwner
<1>2. CASE UNCHANGED vars
  BY <1>2 DEF vars, Val, Value, Alive
<1>3. CASE Next
  <2>1. PICK o \in Statuses :
          \/ \E subcode \in SubCode : OK(o, subcode)
          \/ \E e \in Errors : Factories(o, e)
          \/ \E p \in Statuses :
               \/ CopyConstruct(o, p) \/ CopyAssign(o, p) \/ MoveInto(o, p) \/ Compare(o, p)
               \/ \E sev \in Severities : CopyWithSeverity(o, p, sev)
          \/ Observe(o) \/ PermitUncheckedError(o)
          \/ Destroy(o)
    BY <1>3 DEF Next
  <2>2. ASSUME NEW subcode \in SubCode, OK(o, subcode)
        PROVE  Values!Construct(o)
    <3>1. ~Alive(o) /\ obj' = [obj EXCEPT ![o] = New("kOk", subcode, Null)] /\ heap' = heap
      BY <2>2 DEF OK
    <3>. QED
      BY <3>1, <1>1, ConstructStep DEF Code
  <2>3. ASSUME NEW e \in Errors, Factories(o, e)
        PROVE  Values!Construct(o)
    BY <2>3, <1>1, FactoriesStep
  <2>4. ASSUME NEW p \in Statuses, CopyConstruct(o, p) \/ CopyAssign(o, p)
        PROVE  Values!Copy(o, p)
    <3>1. CopyInto(o, p, obj[p].sev) /\ obj[p].sev \in Severity /\ Alive(p)
      BY <2>4, <1>1, LiveType DEF CopyConstruct, CopyAssign, CopyInto
    <3>2. /\ Value(p) # Null /\ Value(o)' = [Value(p) EXCEPT !.sev = obj[p].sev]
          /\ \A q \in Statuses : q # o => Value(q)' = Value(q)
      BY <3>1, <1>1, CopyStep
    <3>3. Value(o)' = Value(p)
      BY <3>1, <3>2, <1>1, ValueAlive
    <3>4. Val' = [Val EXCEPT ![o] = Val[p]]
      BY <3>2, <3>3 DEF Val
    <3>. QED
      BY <3>2, <3>4 DEF Values!Copy, Values!Alive, Val
  <2>5. ASSUME NEW p \in Statuses, NEW sev \in Severities, CopyWithSeverity(o, p, sev)
        PROVE  Values!CopyWithSeverity(o, p, sev)
    <3>1. CopyInto(o, p, sev) /\ sev \in Severity /\ ~Alive(o)
      BY <2>5, StatusAssumption DEF CopyWithSeverity
    <3>2. /\ Value(p) # Null /\ Value(o)' = [Value(p) EXCEPT !.sev = sev]
          /\ \A q \in Statuses : q # o => Value(q)' = Value(q)
      BY <3>1, <1>1, CopyStep
    <3>3. Value(o) = Null
      BY <3>1 DEF Value
    <3>4. Val' = [Val EXCEPT ![o] = [Val[p] EXCEPT !.sev = sev]]
      BY <3>2 DEF Val
    <3>. QED
      BY <3>2, <3>3, <3>4 DEF Values!CopyWithSeverity, Values!Alive, Val
  <2>6. ASSUME NEW p \in Statuses, MoveInto(o, p)
        PROVE  Values!Move(o, p)
    BY <2>6, <1>1, MoveStep
  <2>7. ASSUME Observe(o) \/ PermitUncheckedError(o) \/ \E p \in Statuses : Compare(o, p)
        PROVE  Val' = Val
    BY <2>7, <1>1, LookStep DEF PermitUncheckedError
  <2>8. ASSUME Destroy(o)
        PROVE  Values!Destroy(o) \/ Val' = Val
    BY <2>8, <1>1, DestroyStep
  <2>. QED
    BY <2>1, <2>2, <2>3, <2>4, <2>5, <2>6, <2>7, <2>8 DEF Values!Next
<1>. QED
  BY <1>2, <1>3

\* Status implements a value: every step of the code, whatever it does to
\* pointers and buffers, is a step on values or changes none.
THEOREM StatusIsValue == Spec => ValueSemantics
<1>1. Init => Values!Init
  BY DEF Init, Values!Init, Value, Alive
<1>2. IInv /\ IInv' /\ [Next]_vars => [Values!Next]_[o \in Statuses |-> Value(o)]
  BY NextRefines DEF Val
<1>. QED
  BY <1>1, <1>2, Invariance, PTL DEF Spec, ValueSemantics, Values!Spec
=============================================================================
