------------------------ MODULE KubernetesWatchProofs ------------------------
(***************************************************************************)
(* What holds of every wait of KubernetesWatch, for all timeouts, numbers  *)
(* of versions and of errors: types, that no wait returns on account of    *)
(* something that did not happen, and that a watch which has caught up has *)
(* missed nothing but a deletion.                                          *)
(*                                                                         *)
(* The invariant says what a watch knows at each point: the version it     *)
(* starts from does not settle the wait, and neither does the version its  *)
(* stream has reached, except for an absent object seen by a stream that   *)
(* began without a version.                                                *)
(***************************************************************************)
EXTENDS KubernetesWatch, TLAPS

\* The version a watch starts from is not what it waits for.
VersionUnsettled ==
    pc \in {"connect", "stream"} /\ rv # None => ~Settles(history[rv])

\* Nor is the version the stream has reached, but for a deletion that a stream
\* without version did not see.
ReachedUnsettled ==
    pc = "stream" /\ stream.first = None =>
        /\ stream.pos \in 1..Latest
        /\ Settles(history[stream.pos]) => rv = None /\ history[stream.pos] = "absent"

\* The initial event describes the object at the version the stream begins at.
InitialTrue ==
    pc = "stream" /\ stream.first # None =>
        /\ stream.pos \in 1..Latest /\ rv = None
        /\ stream.first = history[stream.pos] /\ stream.first # "absent"

\* Only a create with replace creates and deletes, and waits for a phase or an
\* address have no last look.
KindAtPc ==
    /\ pc \in {"create", "delete", "recreate"} => kind = "replace"
    /\ pc = "recheck" => kind \in LastLook

WatchInv == VersionUnsettled /\ ReachedUnsettled /\ InitialTrue
IInv == TypeOK /\ ReturnsAreTrue /\ KindAtPc /\ WatchInv

USE DEF Latest, Object, States, Results, Deletions, AllKinds, LastLook, Closed

-----------------------------------------------------------------------------

\* Appending a version changes no earlier one.
LEMMA AppendHistory ==
    ASSUME TypeOK, NEW s \in States, history' = Append(history, s)
    PROVE  /\ history' \in Seq(States) /\ Len(history') = Len(history) + 1
           /\ \A i \in 1..Len(history) : history'[i] = history[i]
           /\ history'[Len(history')] = s
BY DEF TypeOK

\* The state of the object is that of its last version.
LEMMA ObjectState == ASSUME TypeOK PROVE Latest \in 1..Latest /\ Object \in States
BY DEF TypeOK

\* The invariant holds at the start.
LEMMA InitInv == ASSUME WatchConstants, Init PROVE IInv
<1>1. PICK s \in States : history = <<s>>
  BY DEF Init
<1>2. Len(history) = 1 /\ history \in Seq(States) /\ history[1] \in States
  BY <1>1
<1>3. TypeOK
  BY <1>2 DEF Init, TypeOK, WatchConstants
<1>4. ReturnsAreTrue
  BY DEF Init, ReturnsAreTrue, WatchConstants
<1>5. KindAtPc /\ WatchInv
  BY DEF Init, KindAtPc, WatchInv, VersionUnsettled, ReachedUnsettled, InitialTrue
<1> QED
  BY <1>3, <1>4, <1>5 DEF IInv

-----------------------------------------------------------------------------
(* One lemma per group of actions *)

\* The call ends without what it waited for.
LEMMA FailInv == ASSUME WatchConstants, IInv, ApiError \/ OutOfTime PROVE IInv'
<1> USE DEF ApiError, OutOfTime, Fails, Finish, server
<1>1. pc' = "done" /\ result' \in {"error", "timeout"} /\ UNCHANGED <<history, kind>>
  OBVIOUS
<1>2. TypeOK'
  BY DEF IInv, TypeOK, WatchConstants
<1>3. ReturnsAreTrue'
  BY <1>1 DEF ReturnsAreTrue
<1>4. (KindAtPc /\ WatchInv)'
  BY <1>1 DEF KindAtPc, WatchInv, VersionUnsettled, ReachedUnsettled, InitialTrue
<1> QED
  BY <1>2, <1>3, <1>4 DEF IInv

\* The calls of a create with replace.
LEMMA ReplaceInv == ASSUME WatchConstants, IInv, Create \/ Delete \/ Recreate PROVE IInv'
<1> USE DEF Finish, Created
<1>1. TypeOK /\ kind = "replace" /\ kind' = kind
  BY DEF IInv, KindAtPc, Create, Delete, Recreate
<1>2. Latest \in 1..Latest /\ Object \in States /\ Latest \in Nat
  BY <1>1, ObjectState DEF TypeOK
<1>3. \/ history' = history
      \/ /\ Latest < MaxVersion
         /\ \E s \in States : history' = Append(history, s)
  BY DEF Create, Delete, Recreate
<1>4. /\ history' \in Seq(States) /\ Latest' \in 1..MaxVersion /\ Latest' \in {Latest, Latest + 1}
      /\ \A i \in 1..Latest : i \in 1..Latest' /\ history'[i] = history[i]
  <2>1. CASE history' = history
    BY <2>1, <1>1, <1>2 DEF TypeOK
  <2>2. CASE Latest < MaxVersion /\ \E s \in States : history' = Append(history, s)
    BY <2>2, <1>1, <1>2, AppendHistory DEF TypeOK, WatchConstants
  <2> QED
    BY <1>3, <2>1, <2>2
<1>5. TypeOK'
  BY <1>1, <1>2, <1>4 DEF TypeOK, WatchConstants, Create, Delete, Recreate
<1>6. ReturnsAreTrue'
  <2>1. ASSUME pc' = "recreate" \/ result' \in {"met", "gone"}
        PROVE  \E i \in 1..Latest : history[i] = "absent"
    <3>1. CASE Create
      BY <3>1, <2>1, <1>2, <1>1 DEF Create, IInv, ReturnsAreTrue, Meets
    <3>2. CASE Delete
      BY <3>2, <2>1, <1>2, <1>1 DEF Delete, IInv, ReturnsAreTrue, Meets
    <3>3. CASE Recreate
      BY <3>3, <1>1 DEF Recreate, IInv, ReturnsAreTrue, Meets
    <3> QED
      BY <3>1, <3>2, <3>3
  <2> QED
    BY <2>1, <1>1, <1>4 DEF ReturnsAreTrue, Meets
<1>7. (KindAtPc /\ WatchInv)'
  BY <1>1 DEF Create, Delete, Recreate, KindAtPc, WatchInv, VersionUnsettled,
              ReachedUnsettled, InitialTrue
<1> QED
  BY <1>5, <1>6, <1>7 DEF IInv

\* What a wait that is over has waited for was the state of version i.
LEMMA HappenedTrue ==
    ASSUME WatchConstants, TypeOK, NEW i \in 1..Latest,
           Settles(history[i]), Happened(Outcome(history[i])),
           kind' = kind, history' = history
    PROVE  ReturnsAreTrue'
<1>1. history[i] \in States /\ i \in 1..Latest'
  BY DEF TypeOK
<1>2. CASE kind = "replace"
  BY <1>1, <1>2 DEF Settles, ReturnsAreTrue, Meets, Happened
<1>3. CASE kind # "replace"
  <2>1. result' = IF kind = "phase" /\ history[i] = "absent" THEN "gone" ELSE "met"
    BY <1>3 DEF Happened, Finish, Outcome
  <2>2. Meets(history[i])'
    BY <2>1, <1>1, <1>3 DEF Meets, Settles
  <2> QED
    BY <2>2, <1>1 DEF ReturnsAreTrue
<1> QED
  BY <1>2, <1>3

\* A wait that is over leaves no watch behind.
LEMMA HappenedEnds ==
    ASSUME TypeOK, NEW r \in Results, Happened(r), kind' = kind
    PROVE  /\ pc' \in {"recreate", "done"} /\ result' \in Results \cup {None}
           /\ (KindAtPc /\ WatchInv)'
BY DEF TypeOK, Happened, Finish, KindAtPc, WatchInv, VersionUnsettled,
       ReachedUnsettled, InitialTrue

\* The read before the watch.
LEMMA ReadInv == ASSUME WatchConstants, IInv, Read PROVE IInv'
<1>1. TypeOK /\ UNCHANGED <<history, kind, stream>>
  BY DEF IInv, Read, server
<1>2. Latest \in 1..Latest /\ Object \in States /\ Outcome(Object) \in Results
  BY <1>1, ObjectState DEF Outcome
<1>3. CASE Settles(Object) /\ Happened(Outcome(Object)) /\ UNCHANGED rv
  <2>1. TypeOK'
    BY <1>1, <1>2, <1>3, HappenedEnds DEF Read, TypeOK, server
  <2>2. ReturnsAreTrue'
    BY <1>1, <1>2, <1>3, HappenedTrue
  <2>3. (KindAtPc /\ WatchInv)'
    BY <1>1, <1>2, <1>3, HappenedEnds
  <2> QED
    BY <2>1, <2>2, <2>3 DEF IInv
<1>4. CASE Finish("timeout") /\ UNCHANGED rv
  BY <1>1, <1>4 DEF Read, Finish, IInv, TypeOK, ReturnsAreTrue, KindAtPc, WatchInv,
              VersionUnsettled, ReachedUnsettled, InitialTrue, server
<1>5. CASE ~Settles(Object) /\ pc' = "connect" /\ rv' = VersionRead /\ UNCHANGED result
  <2>1. rv' \in {None, Latest}
    BY <1>5 DEF VersionRead
  <2>2. TypeOK'
    BY <1>1, <1>2, <1>5, <2>1 DEF Read, TypeOK, server
  <2>3. ReturnsAreTrue'
    BY <1>1, <1>5 DEF IInv, ReturnsAreTrue, Meets, Read
  <2>4. VersionUnsettled'
    BY <1>1, <1>5, <2>1 DEF VersionUnsettled, Settles
  <2> QED
    BY <2>2, <2>3, <2>4, <1>5 DEF IInv, KindAtPc, WatchInv, ReachedUnsettled, InitialTrue
<1> QED
  BY <1>3, <1>4, <1>5 DEF Read

\* Starting, ending and restarting a stream.
LEMMA ConnectInv == ASSUME WatchConstants, IInv, Connect \/ Disconnect \/ FallBehind PROVE IInv'
<1>1. TypeOK /\ UNCHANGED <<history, compacted, now, kind, result, faults, atLimit>>
  BY DEF IInv, Connect, Disconnect, FallBehind, Gone, server
<1>2. Latest \in 1..Latest /\ Object \in States /\ pc' \in {"connect", "stream"} /\ rv' \in {rv, None}
  BY <1>1, ObjectState DEF Connect, Disconnect, FallBehind, Gone
<1>3. stream' \in [pos : 0..Latest, first : States \cup {None}]
  BY <1>1, <1>2 DEF Connect, Disconnect, FallBehind, Gone, TypeOK
<1>4. TypeOK'
  BY <1>1, <1>2, <1>3 DEF TypeOK
<1>5. ReturnsAreTrue' /\ KindAtPc'
  BY <1>1, <1>2 DEF IInv, ReturnsAreTrue, Meets, KindAtPc
<1>6. VersionUnsettled'
  BY <1>1, <1>2 DEF IInv, WatchInv, VersionUnsettled, Settles, Connect, Disconnect, FallBehind
<1>7. CASE pc' = "stream"
  <2>1. pc = "connect" /\ rv' = rv
        /\ stream' = IF rv # None THEN [pos |-> rv, first |-> None]
                     ELSE [pos |-> Latest, first |-> IF Object = "absent" THEN None ELSE Object]
    BY <1>7 DEF Connect, Disconnect, FallBehind, Gone
  <2>2. rv # None => (ReachedUnsettled /\ InitialTrue)'
    <3>1. rv # None => rv \in 1..Latest /\ stream'.pos = rv /\ stream'.first = None
      BY <2>1, <1>1 DEF TypeOK
    <3>2. rv # None => ~Settles(history[rv])
      BY <2>1 DEF IInv, WatchInv, VersionUnsettled
    <3> QED
      BY <3>1, <3>2, <1>1 DEF ReachedUnsettled, InitialTrue, Settles
  <2>3. rv = None => (ReachedUnsettled /\ InitialTrue)'
    <3>1. rv = None => /\ stream'.pos = Latest
                       /\ stream'.first = IF Object = "absent" THEN None ELSE Object
      BY <2>1
    <3>2. None # Object
      BY <1>2 DEF WatchConstants
    <3>3. rv = None /\ stream'.first = None => Object = "absent"
      BY <3>1, <3>2
    <3>4. rv = None /\ stream'.first # None => Object # "absent" /\ stream'.first = Object
      BY <3>1
    <3>5. Len(history') = Len(history) /\ history' = history /\ rv' = rv
      BY <1>1, <2>1
    <3>6. rv = None => ReachedUnsettled'
      BY <3>1, <3>3, <3>5, <1>2 DEF ReachedUnsettled
    <3>7. rv = None => InitialTrue'
      BY <3>1, <3>4, <3>5, <1>2 DEF InitialTrue
    <3> QED
      BY <3>6, <3>7
  <2>4. (ReachedUnsettled /\ InitialTrue)'
    BY <2>2, <2>3
  <2> QED
    BY <2>4, <1>4, <1>5, <1>6 DEF IInv, WatchInv
<1>8. CASE pc' = "connect"
  BY <1>8, <1>4, <1>5, <1>6 DEF IInv, WatchInv, ReachedUnsettled, InitialTrue
<1> QED
  BY <1>2, <1>7, <1>8

\* An event ends the wait exactly if the state it carries settles the wait, with
\* the exception of a creation that follows a version the stream has skipped.
LEMMA EventInv == ASSUME WatchConstants, IInv, Event PROVE IInv'
<1> DEFINE pos == stream.pos + 1
           initial == stream.first # None
           at == IF initial THEN stream.pos ELSE pos
           type == IF initial THEN "ADDED" ELSE EventType(pos)
           state == IF initial THEN stream.first ELSE history[pos]
<1>1. /\ TypeOK /\ pc = "stream" /\ UNCHANGED <<history, compacted, now, kind, rv, faults, atLimit>>
      /\ initial \/ stream.pos < Latest
  BY DEF IInv, Event, server
<1>2. at \in 1..Latest /\ history[at] = state /\ state \in States /\ stream.pos \in 1..Latest
  BY <1>1 DEF IInv, WatchInv, ReachedUnsettled, InitialTrue, TypeOK
<1>3. kind \in AllKinds /\ Outcome(state) \in Results
  BY <1>1 DEF TypeOK, WatchConstants, Outcome
<1>4. type = "DELETED" <=> state = "absent"
  BY <1>1, <1>2 DEF EventType, IInv, WatchInv, InitialTrue
<1>5. CASE Ends(type, state)
  <2>1. Happened(Outcome(state)) /\ stream' = Closed
    BY <1>5 DEF Event
  <2>2. Settles(state)
    BY <1>2, <1>3, <1>4, <1>5 DEF Ends, Settles, EventType
  <2>3. ReturnsAreTrue'
    BY <1>1, <1>2, <2>1, <2>2, HappenedTrue
  <2>4. /\ pc' \in {"recreate", "done"} /\ result' \in Results \cup {None}
        /\ (KindAtPc /\ WatchInv)'
    BY <1>1, <1>3, <2>1, HappenedEnds
  <2>5. TypeOK'
    BY <1>1, <2>1, <2>4 DEF TypeOK
  <2> QED
    BY <2>3, <2>4, <2>5 DEF IInv
<1>6. CASE ~Ends(type, state)
  <2>1. stream' = [pos |-> at, first |-> None] /\ UNCHANGED <<pc, result>>
    BY <1>6 DEF Event
  <2>2. TypeOK'
    BY <1>1, <1>2, <2>1 DEF TypeOK
  <2>3. ReturnsAreTrue' /\ KindAtPc' /\ VersionUnsettled'
    BY <1>1, <2>1 DEF IInv, WatchInv, ReturnsAreTrue, Meets, KindAtPc,
                      VersionUnsettled, Settles
  <2>4. ~Settles(state)
    <3>1. CASE kind = "creation"
      <4>1. state # "absent" => ~initial /\ type = "MODIFIED"
        BY <1>6, <3>1 DEF Ends, EventType
      <4>2. state # "absent" => history[stream.pos] # "absent"
        BY <4>1, <1>1, <1>2 DEF EventType
      <4>3. state # "absent" => Settles(history[stream.pos])
        BY <4>2, <3>1 DEF Settles
      <4>4. state = "absent"
        BY <4>1, <4>2, <4>3, <1>1 DEF IInv, WatchInv, ReachedUnsettled
      <4> QED
        BY <4>4, <3>1 DEF Settles
    <3>2. CASE kind # "creation"
      BY <1>2, <1>3, <1>4, <1>6, <3>2 DEF Ends, Settles
    <3> QED
      BY <3>1, <3>2
  <2>5. (ReachedUnsettled /\ InitialTrue)'
    BY <1>1, <1>2, <2>1, <2>4 DEF ReachedUnsettled, InitialTrue, Settles
  <2> QED
    BY <2>2, <2>3, <2>5 DEF IInv, WatchInv
<1> QED
  BY <1>5, <1>6

\* The watch is over, and the last look.
LEMMA TimeoutInv == ASSUME WatchConstants, IInv, WatchTimeout \/ Recheck PROVE IInv'
<1>1. TypeOK /\ UNCHANGED <<history, compacted, now, kind, rv, faults, atLimit>>
  BY DEF IInv, WatchTimeout, Recheck, server
<1>2. Latest \in 1..Latest /\ Object \in States
  BY <1>1, ObjectState
<1>3. stream' \in {stream, Closed}
  BY DEF WatchTimeout, Recheck
<1>4. CASE \/ pc' = "recheck" /\ UNCHANGED result
           \/ Finish("timeout")
  <2>1. TypeOK'
    BY <1>1, <1>3, <1>4 DEF TypeOK, Finish
  <2>2. pc' \in {"recheck", "done"} /\ result' \in {result, "timeout"}
    BY <1>4 DEF Finish
  <2>3. ReturnsAreTrue'
    BY <1>1, <2>2 DEF IInv, ReturnsAreTrue, Meets
  <2>4. KindAtPc'
    BY <1>1, <2>2 DEF WatchTimeout, AfterWatch, Recheck, Finish, Happened, KindAtPc
  <2> QED
    BY <2>1, <2>2, <2>3, <2>4 DEF IInv, WatchInv, VersionUnsettled,
                            ReachedUnsettled, InitialTrue
<1>5. CASE Recheck /\ Settles(Object) /\ Happened("met")
  <2>1. TypeOK'
    BY <1>1, <1>5, HappenedEnds DEF Recheck, TypeOK
  <2>2. (KindAtPc /\ WatchInv)'
    BY <1>1, <1>5, HappenedEnds
  <2>3. kind # "phase"
    BY <1>5 DEF IInv, KindAtPc, Recheck
  <2>4. Outcome(Object) = "met"
    BY <2>3 DEF Outcome
  <2>5. ReturnsAreTrue'
    BY <1>1, <1>2, <1>5, <2>4, HappenedTrue
  <2> QED
    BY <2>1, <2>2, <2>5 DEF IInv
<1> QED
  BY <1>4, <1>5 DEF WatchTimeout, AfterWatch, Recheck

\* What everyone else does: time, changes of the object, and compaction.
LEMMA OthersInv == ASSUME WatchConstants, IInv, Tick \/ Change \/ Compact PROVE IInv'
<1>1. TypeOK /\ UNCHANGED <<kind, pc, rv, stream, result, faults>>
  BY DEF IInv, Tick, Change, Compact
<1>2. \/ history' = history
      \/ Latest < MaxVersion /\ \E s \in States : history' = Append(history, s)
  BY DEF Tick, Change, Compact, server
<1>3. /\ history' \in Seq(States) /\ Latest' \in 1..MaxVersion /\ Latest' \in {Latest, Latest + 1}
      /\ \A i \in 1..Latest : i \in 1..Latest' /\ history'[i] = history[i]
  <2>1. CASE history' = history
    BY <2>1, <1>1 DEF TypeOK
  <2>2. CASE Latest < MaxVersion /\ \E s \in States : history' = Append(history, s)
    BY <2>2, <1>1, AppendHistory DEF TypeOK, WatchConstants
  <2> QED
    BY <1>2, <2>1, <2>2
<1>4. compacted' \in 1..Latest' /\ now' \in 0..Duration /\ atLimit' \in 1..Latest'
  <2>1. CASE Tick
    BY <2>1, <1>1 DEF Tick, server, TypeOK, WatchConstants
  <2>2. CASE Change
    <3>1. Latest' = Latest + 1
      BY <2>2, <1>1, AppendHistory DEF Change
    <3> QED
      BY <2>2, <3>1, <1>1 DEF Change, TypeOK
  <2>3. CASE Compact
    BY <2>3, <1>1 DEF Compact, TypeOK
  <2> QED
    BY <2>1, <2>2, <2>3
<1>5. TypeOK'
  <2>1. rv' \in (1..Latest') \cup {None} /\ stream' \in [pos : 0..Latest', first : States \cup {None}]
    BY <1>1, <1>3 DEF TypeOK
  <2> QED
    BY <1>1, <1>3, <1>4, <2>1 DEF TypeOK
<1>6. ReturnsAreTrue'
  BY <1>1, <1>3 DEF IInv, ReturnsAreTrue, Meets
<1>7. VersionUnsettled'
  BY <1>1, <1>3 DEF IInv, WatchInv, VersionUnsettled, Settles, TypeOK
<1>8. ReachedUnsettled'
  BY <1>1, <1>3 DEF IInv, WatchInv, ReachedUnsettled, Settles
<1>9. InitialTrue' /\ KindAtPc'
  BY <1>1, <1>3 DEF IInv, WatchInv, InitialTrue, KindAtPc
<1> QED
  BY <1>5, <1>6, <1>7, <1>8, <1>9 DEF IInv, WatchInv

-----------------------------------------------------------------------------
(* The theorems *)

\* Every step of the caller and of the others preserves the invariant.
LEMMA StepInv == ASSUME WatchConstants, IInv, [Next]_vars PROVE IInv'
<1>1. CASE ApiError \/ OutOfTime
  BY <1>1, FailInv
<1>2. CASE Create \/ Delete \/ Recreate
  BY <1>2, ReplaceInv
<1>3. CASE Read
  BY <1>3, ReadInv
<1>4. CASE Connect \/ Disconnect \/ FallBehind
  BY <1>4, ConnectInv
<1>5. CASE Event
  BY <1>5, EventInv
<1>6. CASE WatchTimeout \/ Recheck
  BY <1>6, TimeoutInv
<1>7. CASE Tick \/ Change \/ Compact
  BY <1>7, OthersInv
<1>8. CASE UNCHANGED vars
  BY <1>8 DEF vars, server, IInv, TypeOK, ReturnsAreTrue, Meets, KindAtPc, WatchInv,
              VersionUnsettled, ReachedUnsettled, InitialTrue, Settles
<1> QED
  BY <1>1, <1>2, <1>3, <1>4, <1>5, <1>6, <1>7, <1>8 DEF Next, Step

\* What a watch knows: neither the version it starts from nor the one its stream
\* has reached is what the caller waits for, but for a deletion that a stream
\* without version skipped.  This is what makes a wait that reads first and
\* watches from the version it read (deleter.py, creator.py, pod.py, ingress.py)
\* miss nothing between the two.
THEOREM Invariant == Spec => []IInv
<1>1. Init => IInv
  BY WatchConstants, InitInv
<1>2. IInv /\ [Next]_vars => IInv'
  BY WatchConstants, StepInv
<1> QED
  BY <1>1, <1>2, PTL DEF Spec

\* Every variable of a wait always holds a value of its type.
THEOREM TypeCorrect == Spec => []TypeOK
<1>1. IInv => TypeOK
  BY DEF IInv
<1> QED
  BY <1>1, Invariant, PTL

\* wait_for_deletion, wait_for_creation, wait_for_phase, wait_for_ip_address and
\* the create with replace never return for something that did not happen during
\* the call, however their watches were restarted.
THEOREM ReturnsTrue == Spec => []ReturnsAreTrue
<1>1. IInv => ReturnsAreTrue
  BY DEF IInv
<1> QED
  BY <1>1, Invariant, PTL

\* KubernetesWatcher.watch, after any restarts, has caught up with an object that
\* is what the caller waits for only if a deletion fell between two streams.
THEOREM WatchMissesNothing == Spec => []NothingMissed
<1>1. IInv => NothingMissed
  <2> SUFFICES ASSUME IInv, pc = "stream", stream = [pos |-> Latest, first |-> None],
                      rv # None \/ Object # "absent"
               PROVE  ~Settles(Object)
    BY DEF NothingMissed
  <2>1. stream.pos = Latest /\ stream.first = None
    OBVIOUS
  <2> QED
    BY <2>1 DEF IInv, WatchInv, ReachedUnsettled
<1> QED
  BY <1>1, Invariant, PTL

-----------------------------------------------------------------------------
(* The last look *)

\* A call that has a result is over.
ResultAtEnd == result # None => pc = "done"

\* A call times out before its whole Timeout is over, when it has a last look,
\* only in a step that looks at the object.
LEMMA TimeoutLooked ==
    ASSUME WatchConstants, TypeOK, result # "timeout", result' = "timeout", Next,
           kind \in LastLook, now' < Duration
    PROVE  ~Settles(Object) /\ UNCHANGED <<history, kind, atLimit>>
<1> USE DEF Finish, Happened, Outcome, server
<1>1. ~Tick /\ ~Change /\ ~Compact /\ ~ApiError
  BY DEF Tick, Change, Compact, ApiError, Fails
<1>2. ~Create /\ ~Delete /\ ~Recreate /\ ~Connect /\ ~Disconnect /\ ~FallBehind /\ ~Event
  BY DEF Create, Delete, Recreate, Connect, Disconnect, FallBehind, Gone, Event
<1>3. ~OutOfTime
  BY DEF OutOfTime, Expired, TypeOK, WatchConstants
<1>4. ~WatchTimeout
  BY DEF WatchTimeout, AfterWatch
<1>5. CASE Read
  BY <1>5 DEF Read
<1>6. CASE Recheck
  BY <1>6 DEF Recheck
<1> QED
  BY <1>1, <1>2, <1>3, <1>4, <1>5, <1>6 DEF Next, Step

\* A wait for a deletion or a creation that gives up with time left did a last
\* check of the object (deleter.py and creator.py, "before timing out, do a
\* final check"), and the object had not reached what it waits for.
THEOREM TimeoutsTrue == Spec => []TimeoutsAreTrue
<1> DEFINE LInv == ResultAtEnd /\ TimeoutsAreTrue
<1> USE WatchConstants
<1>1. Init => LInv
  BY DEF Init, ResultAtEnd, TimeoutsAreTrue, WatchConstants
<1>2. ASSUME LInv, TypeOK, Next PROVE LInv'
  <2>1. pc # "done" /\ result = None
    BY <1>2 DEF ResultAtEnd, Next, Step, Create, Delete, Recreate, Read, Connect, Disconnect,
                FallBehind, Event, WatchTimeout, Recheck, OutOfTime, ApiError, Tick, Change, Compact
  <2>2. ResultAtEnd'
    BY <1>2, <2>1 DEF ResultAtEnd, Next, Step, Create, Delete, Recreate, Read, Connect, Disconnect,
                      FallBehind, Gone, Event, WatchTimeout, AfterWatch, Recheck, OutOfTime,
                      ApiError, Fails, Tick, Change, Compact, Finish, Happened
  <2>3. ASSUME (result = "timeout" /\ kind \in LastLook /\ now < Duration)'
        PROVE  (\E i \in atLimit..Latest : ~Meets(history[i]))'
    <3>1. kind' = kind
      BY <1>2 DEF Next, Step, Create, Delete, Recreate, Read, Connect, Disconnect, FallBehind, Gone,
                  Event, WatchTimeout, Recheck, OutOfTime, ApiError, Fails, Tick, Change, Compact
    <3>2. ~Settles(Object) /\ UNCHANGED <<history, kind, atLimit>>
      BY <1>2, <2>1, <2>3, <3>1, TimeoutLooked DEF WatchConstants
    <3>3. Latest \in atLimit..Latest
      BY <1>2 DEF TypeOK
    <3>4. ~Meets(Object)'
      BY <2>3, <3>2 DEF Settles, Meets
    <3> QED
      BY <3>2, <3>3, <3>4
  <2> QED
    BY <2>2, <2>3 DEF TimeoutsAreTrue
<1>3. LInv /\ UNCHANGED vars => LInv'
  BY DEF ResultAtEnd, TimeoutsAreTrue, Meets, vars, server
<1>4. LInv /\ TypeOK /\ [Next]_vars => LInv'
  BY <1>2, <1>3
<1>5. LInv => TimeoutsAreTrue
  OBVIOUS
<1> QED
  BY <1>1, <1>4, <1>5, TypeCorrect, PTL DEF Spec
=============================================================================
