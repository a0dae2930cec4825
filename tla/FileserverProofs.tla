-------------------------- MODULE FileserverProofs --------------------------
(***************************************************************************)
(* Theorems about FileserverManager, for any number of users, requests,    *)
(* _State objects and failures.                                            *)
(*                                                                         *)
(* OneOperationPerState is not inductive: an operation begins after        *)
(* `async with state.lock', in a task that has waited for it.  It holds    *)
(* because the queue of the lock of a _State holds exactly the callers     *)
(* that refer to it, only the first of which can run, and no task is       *)
(* scheduled twice or while it waits.                                      *)
(***************************************************************************)
EXTENDS FileserverManager, TLAPS

-----------------------------------------------------------------------------
(* The inductive invariant *)

Elems(s) == {s[i] : i \in 1..Len(s)}
Distinct(s) == \A i, j \in 1..Len(s) : s[i] = s[j] => i = j

\* The task runs or is scheduled.
Active(c) == running = c \/ c \in Elems(ready)

\* Callers that asked for the lock; what an operation does with it; tasks that
\* neither run nor wait for a reply; callers at work for a user.
LockPcs == {"createLocked", "deleteLocked"}
OpPcs == {"mkIngress", "mkJob", "waitIngress", "waitPod", "waitStart", "createReport",
          "rmIngress", "rmJob", "rmReport"}
RestPcs == {"idle", "over", "timer", "off", "watching", "bootFailed"}
UserPcs == LockPcs \cup OpPcs \cup {"create", "delete", "readPod", "readIngress"}

PodReplies == {None, "error", "none", "pending", "running", "exited", "duplicate"}

\* Local variables are set where the code relies on them.
LocalInv ==
    \A c \in Callers :
       /\ loc[c].st # None => pc[c] \in LockPcs \cup OpPcs
       /\ pc[c] \in LockPcs => loc[c].st # None
       /\ pc[c] \in UserPcs => loc[c].user \in Users
       /\ pc[c] = "readPod" => loc[c].reply \in PodReplies

\* No task is scheduled twice or while it runs, or is when it has nothing to do.
LoopInv ==
    /\ Distinct(ready)
    /\ running \notin Elems(ready)
    /\ \A c \in Callers : Active(c) => pc[c] \notin RestPcs
    /\ ~serving => pc[Watcher] = "off"

\* The queue of a lock holds the callers that refer to its _State; all of them
\* but the owner are suspended.
LockInv ==
    \A s \in StateIds :
       /\ Distinct(lock[s])
       /\ \A c \in Callers : c \in Elems(lock[s]) <=> loc[c].st = s
       /\ \A c \in Elems(lock[s]) : c # Head(lock[s]) => pc[c] \in LockPcs /\ ~Active(c)

\* in_progress says whether the owner of the lock has begun its operation.
ProgressInv ==
    \A s \in StateIds :
       state[s].inProgress <=> lock[s] # <<>> /\ pc[Head(lock[s])] \in OpPcs

Discipline == LocalInv /\ LoopInv /\ LockInv /\ ProgressInv

IInv == TypeOK /\ Discipline

-----------------------------------------------------------------------------
(* Sequences as sets of tasks *)

\* Appending a task to a queue of the loop or of a lock adds it, once.
LEMMA AppendElems ==
    ASSUME NEW S, NEW s \in Seq(S), NEW e \in S
    PROVE  /\ Append(s, e) \in Seq(S)
           /\ Append(s, e) # <<>>
           /\ Elems(Append(s, e)) = Elems(s) \cup {e}
           /\ Distinct(s) /\ e \notin Elems(s) => Distinct(Append(s, e))
           /\ s # <<>> => Head(Append(s, e)) = Head(s)
           /\ s = <<>> => Head(Append(s, e)) = e
<1>1. /\ Append(s, e) \in Seq(S) /\ Len(Append(s, e)) = Len(s) + 1
      /\ \A i \in 1..Len(s) : Append(s, e)[i] = s[i]
      /\ Append(s, e)[Len(s) + 1] = e
      /\ Len(s) \in Nat
  OBVIOUS
<1>2. Elems(Append(s, e)) = Elems(s) \cup {e}
  BY <1>1 DEF Elems
<1>3. ASSUME Distinct(s), e \notin Elems(s) PROVE Distinct(Append(s, e))
  BY <1>1, <1>3 DEF Distinct, Elems
<1>4. Append(s, e) # <<>>
  BY <1>1
<1>5. (s # <<>> => Head(Append(s, e)) = Head(s)) /\ (s = <<>> => Head(Append(s, e)) = e)
  <2>1. Head(Append(s, e)) = Append(s, e)[1]
    BY <1>1, <1>4
  <2>2. s # <<>> => Len(s) \in Nat \ {0} /\ Head(s) = s[1]
    OBVIOUS
  <2>3. s = <<>> => Len(s) = 0
    OBVIOUS
  <2> QED BY <1>1, <2>1, <2>2, <2>3
<1> QED BY <1>1, <1>2, <1>3, <1>4, <1>5

\* Appending several woken tasks at once.
LEMMA ConcatElems ==
    ASSUME NEW S, NEW s \in Seq(S), NEW t \in Seq(S)
    PROVE  /\ s \o t \in Seq(S)
           /\ Elems(s \o t) = Elems(s) \cup Elems(t)
           /\ Distinct(s) /\ Distinct(t) /\ Elems(s) \cap Elems(t) = {} => Distinct(s \o t)
<1>1. /\ s \o t \in Seq(S) /\ Len(s \o t) = Len(s) + Len(t)
      /\ \A i \in 1..Len(s) : (s \o t)[i] = s[i]
      /\ \A i \in (Len(s) + 1)..(Len(s) + Len(t)) : (s \o t)[i] = t[i - Len(s)]
      /\ Len(s) \in Nat /\ Len(t) \in Nat
  OBVIOUS
<1>2. Elems(s \o t) = Elems(s) \cup Elems(t)
  <2>1. ASSUME NEW x \in Elems(t) PROVE x \in Elems(s \o t)
    <3>1. PICK i \in 1..Len(t) : x = t[i]
      BY DEF Elems
    <3>2. (s \o t)[i + Len(s)] = x /\ i + Len(s) \in 1..Len(s \o t)
      BY <1>1, <3>1
    <3> QED BY <3>2 DEF Elems
  <2>2. ASSUME NEW x \in Elems(s) PROVE x \in Elems(s \o t)
    BY <1>1 DEF Elems
  <2>3. ASSUME NEW x \in Elems(s \o t) PROVE x \in Elems(s) \cup Elems(t)
    <3>1. PICK i \in 1..Len(s \o t) : x = (s \o t)[i]
      BY DEF Elems
    <3>2. CASE i \in 1..Len(s)
      BY <1>1, <3>1, <3>2 DEF Elems
    <3>3. CASE i \in (Len(s) + 1)..(Len(s) + Len(t))
      <4>1. x = t[i - Len(s)] /\ i - Len(s) \in 1..Len(t)
        BY <1>1, <3>1, <3>3
      <4> QED BY <4>1 DEF Elems
    <3> QED BY <1>1, <3>1, <3>2, <3>3
  <2> QED BY <2>1, <2>2, <2>3
<1>3. ASSUME Distinct(s), Distinct(t), Elems(s) \cap Elems(t) = {} PROVE Distinct(s \o t)
  <2> SUFFICES ASSUME NEW i \in 1..Len(s \o t), NEW j \in 1..Len(s \o t),
                      (s \o t)[i] = (s \o t)[j]
               PROVE  i = j
    BY DEF Distinct
  <2>1. CASE i \in 1..Len(s) /\ j \in 1..Len(s)
    BY <1>1, <1>3, <2>1 DEF Distinct
  <2>2. CASE i \in 1..Len(s) /\ j \notin 1..Len(s)
    <3>1. s[i] = t[j - Len(s)] /\ j - Len(s) \in 1..Len(t)
      BY <1>1, <2>2
    <3> QED BY <1>3, <2>2, <3>1 DEF Elems
  <2>3. CASE i \notin 1..Len(s) /\ j \in 1..Len(s)
    <3>1. s[j] = t[i - Len(s)] /\ i - Len(s) \in 1..Len(t)
      BY <1>1, <2>3
    <3> QED BY <1>3, <2>3, <3>1 DEF Elems
  <2>4. CASE i \notin 1..Len(s) /\ j \notin 1..Len(s)
    <3>1. /\ t[i - Len(s)] = t[j - Len(s)]
          /\ i - Len(s) \in 1..Len(t) /\ j - Len(s) \in 1..Len(t)
      BY <1>1, <2>4
    <3>2. i - Len(s) = j - Len(s)
      BY <1>3, <3>1 DEF Distinct
    <3> QED BY <1>1, <3>2
  <2> QED BY <2>1, <2>2, <2>3, <2>4
<1> QED BY <1>1, <1>2, <1>3

\* Taking the head of a queue without duplicates removes exactly that task.
LEMMA TailElems ==
    ASSUME NEW S, NEW s \in Seq(S), s # <<>>, Distinct(s)
    PROVE  /\ Head(s) \in S /\ Tail(s) \in Seq(S)
           /\ Elems(s) = Elems(Tail(s)) \cup {Head(s)}
           /\ Distinct(Tail(s)) /\ Head(s) \notin Elems(Tail(s))
           /\ Tail(s) # <<>> => Head(Tail(s)) = s[2] /\ s[2] \in Elems(Tail(s)) /\ Len(s) > 1
           /\ Tail(s) = <<>> => Len(s) = 1
<1>1. /\ Head(s) \in S /\ Tail(s) \in Seq(S) /\ Len(Tail(s)) = Len(s) - 1
      /\ Len(s) \in Nat \ {0} /\ Head(s) = s[1]
      /\ \A i \in 1..Len(Tail(s)) : Tail(s)[i] = s[i + 1]
  OBVIOUS
<1>2. Distinct(Tail(s)) /\ Head(s) \notin Elems(Tail(s))
  <2>1. ASSUME NEW i \in 1..Len(Tail(s)), NEW j \in 1..Len(Tail(s)), Tail(s)[i] = Tail(s)[j]
        PROVE  i = j
    <3>1. i + 1 \in 1..Len(s) /\ j + 1 \in 1..Len(s) /\ s[i + 1] = s[j + 1]
      BY <1>1, <2>1
    <3>2. i + 1 = j + 1
      BY <3>1 DEF Distinct
    <3> QED BY <1>1, <3>2
  <2>2. ASSUME NEW i \in 1..Len(Tail(s)), Tail(s)[i] = Head(s) PROVE FALSE
    <3>1. 1 \in 1..Len(s) /\ i + 1 \in 1..Len(s) /\ s[1] = s[i + 1] /\ i + 1 # 1
      BY <1>1, <2>2
    <3> QED BY <3>1 DEF Distinct
  <2> QED BY <2>1, <2>2 DEF Distinct, Elems
<1>3. Elems(s) = Elems(Tail(s)) \cup {Head(s)}
  <2>1. ASSUME NEW x \in Elems(s) PROVE x \in Elems(Tail(s)) \cup {Head(s)}
    <3>1. PICK i \in 1..Len(s) : x = s[i]
      BY DEF Elems
    <3>2. CASE i = 1
      BY <1>1, <3>1, <3>2
    <3>3. CASE i # 1
      <4>1. i - 1 \in 1..Len(Tail(s)) /\ Tail(s)[i - 1] = s[(i - 1) + 1]
        BY <1>1, <3>1, <3>3
      <4> QED BY <1>1, <3>1, <4>1 DEF Elems
    <3> QED BY <3>2, <3>3
  <2>2. ASSUME NEW x \in Elems(Tail(s)) PROVE x \in Elems(s)
    <3>1. PICK i \in 1..Len(Tail(s)) : x = Tail(s)[i]
      BY DEF Elems
    <3>2. i + 1 \in 1..Len(s) /\ x = s[i + 1]
      BY <1>1, <3>1
    <3> QED BY <3>2 DEF Elems
  <2>3. Head(s) \in Elems(s)
    BY <1>1 DEF Elems
  <2> QED BY <2>1, <2>2, <2>3
<1>4. ASSUME Tail(s) # <<>> PROVE Head(Tail(s)) = s[2] /\ s[2] \in Elems(Tail(s)) /\ Len(s) > 1
  <2>1. Len(Tail(s)) \in Nat \ {0} /\ Head(Tail(s)) = Tail(s)[1]
    BY <1>1, <1>4
  <2>2. 1 \in 1..Len(Tail(s)) /\ Tail(s)[1] = s[1 + 1]
    BY <1>1, <2>1
  <2> QED BY <1>1, <2>1, <2>2 DEF Elems
<1>5. Tail(s) = <<>> => Len(s) = 1
  BY <1>1
<1> QED BY <1>1, <1>2, <1>3, <1>4, <1>5

\* The empty queue holds nothing, twice.
LEMMA EmptyElems == Elems(<<>>) = {} /\ Distinct(<<>>)
  BY DEF Elems, Distinct

\* A queue of one task.
LEMMA SingleElems ==
    ASSUME NEW S, NEW e \in S
    PROVE  <<e>> \in Seq(S) /\ Elems(<<e>>) = {e} /\ Distinct(<<e>>)
  BY DEF Elems, Distinct

-----------------------------------------------------------------------------
(* Steps of a caller, by what they do to the lock *)

\* Only c moves, to l; in_progress of every _State keeps its value.
Moves(c, l) ==
    /\ pc' = [pc EXCEPT ![c] = l]
    /\ \A d \in Callers \ {c} : loc'[d] = loc[d]
ProgressSame == \A s \in StateIds : state'[s].inProgress <=> state[s].inProgress

\* What the caller's locals are for.
LocalOK(c) ==
    /\ pc[c] \in UserPcs => loc[c].user \in Users
    /\ pc[c] = "readPod" => loc[c].reply \in PodReplies

LEMMA ScheduledIs ==
    ASSUME ready \in Seq(Callers), NEW c
    PROVE  Scheduled(c) <=> c \in Elems(ready)
  BY DEF Scheduled, Elems

\* A queue that is not empty has its head among its elements.
LEMMA HeadIn == ASSUME NEW S, NEW q \in Seq(S), q # <<>> PROVE Head(q) \in Elems(q) /\ Head(q) \in S
  BY DEF Elems

LEMMA ElemsIn == ASSUME NEW S, NEW q \in Seq(S) PROVE Elems(q) \subseteq S
  BY DEF Elems

\* The part of the invariant that speaks of one _State.
QueueOK(s) ==
    /\ Distinct(lock[s])
    /\ \A c \in Callers : c \in Elems(lock[s]) <=> loc[c].st = s
    /\ \A c \in Elems(lock[s]) : c # Head(lock[s]) => pc[c] \in LockPcs /\ ~Active(c)
    /\ state[s].inProgress <=> lock[s] # <<>> /\ pc[Head(lock[s])] \in OpPcs

LEMMA Queues == LockInv /\ ProgressInv <=> \A s \in StateIds : QueueOK(s)
  BY DEF LockInv, ProgressInv, QueueOK

\* A caller is in the queue of its own _State only, and owns the lock if it can
\* run or has begun its operation.
LEMMA OwnQueue ==
    ASSUME IInv, NEW s \in StateIds, NEW c \in Callers
    PROVE  /\ loc[c].st # s => c \notin Elems(lock[s])
           /\ loc[c].st = s => lock[s] # <<>>
           /\ loc[c].st = s /\ (Active(c) \/ pc[c] \in OpPcs) => Head(lock[s]) = c
<1>1. loc[c].st = s <=> c \in Elems(lock[s])
  BY DEF IInv, Discipline, LockInv
<1>2. LockPcs \cap OpPcs = {}
  BY DEF LockPcs, OpPcs
<1>. QED BY <1>1, <1>2, EmptyElems DEF IInv, Discipline, LockInv

\* A step that neither takes nor releases a lock, of the task that runs or of
\* the service that c waits for.
LEMMA StayStep ==
    ASSUME FileserverConstants, IInv, TypeOK', NEW c \in Callers, NEW l, Moves(c, l),
           pc[c] \notin LockPcs, l \notin LockPcs,
           loc[c].st # None => pc[c] \in OpPcs /\ l \in OpPcs,
           loc'[c].st = loc[c].st, LocalOK(c)',
           \/ /\ running' \in {running, None} /\ ready' = ready
              /\ Active(c)' => l \notin RestPcs
           \/ /\ running = None /\ running' = None
              /\ c \notin Elems(ready) /\ ready' = Append(ready, c)
              /\ l \notin RestPcs,
           ~serving' => (c = Watcher => l = "off"),
           serving => serving', UNCHANGED lock, ProgressSame
    PROVE  Discipline'
<1>1. /\ pc'[c] = l /\ \A d \in Callers \ {c} : pc'[d] = pc[d]
      /\ \A d \in Callers : loc'[d].st = loc[d].st
      /\ None \notin Callers
  BY DEF Moves, IInv, TypeOK, FileserverConstants
<1>2. LocalInv'
  <2>1. \A d \in Callers \ {c} : loc'[d] = loc[d] /\ pc'[d] = pc[d]
    BY <1>1 DEF Moves
  <2>. QED BY <1>1, <2>1 DEF IInv, Discipline, LocalInv, LocalOK
<1>3. /\ Distinct(ready') /\ running' \notin Elems(ready')
      /\ \A d \in Callers \ {c} : Active(d)' => Active(d)
  <2>1. CASE running' \in {running, None} /\ ready' = ready
    <3>1. Elems(ready) \subseteq Callers
      BY ElemsIn DEF IInv, TypeOK
    <3>. QED BY <2>1, <3>1, <1>1 DEF IInv, Discipline, LoopInv, Active
  <2>2. CASE running' = None /\ c \notin Elems(ready) /\ ready' = Append(ready, c)
    <3>1. Distinct(ready') /\ Elems(ready') = Elems(ready) \cup {c} /\ Elems(ready) \subseteq Callers
      BY <2>2, AppendElems, ElemsIn DEF IInv, TypeOK, Discipline, LoopInv
    <3>. QED BY <2>2, <3>1, <1>1 DEF Active
  <2>. QED BY <2>1, <2>2
<1>4. LoopInv'
  <2>1. ASSUME NEW d \in Callers, Active(d)' PROVE pc'[d] \notin RestPcs
    BY <1>1, <1>3, <2>1 DEF IInv, Discipline, LoopInv
  <2>2. ~serving' => pc'[Watcher] = "off"
    BY <1>1 DEF IInv, Discipline, LoopInv, Callers
  <2>. QED BY <1>3, <2>1, <2>2 DEF LoopInv
<1>5. ASSUME NEW s \in StateIds PROVE QueueOK(s)'
  <2>1. QueueOK(s)
    BY Queues DEF IInv, Discipline
  <2>2. lock[s] # <<>> => Head(lock[s]) \in Callers
    BY HeadIn DEF IInv, TypeOK
  <2>3. Elems(lock[s]) \subseteq Callers
    BY ElemsIn DEF IInv, TypeOK
  <2>4. lock[s] # <<>> => (pc'[Head(lock[s])] \in OpPcs <=> pc[Head(lock[s])] \in OpPcs)
    <3>1. CASE lock[s] # <<>> /\ Head(lock[s]) = c
      <4>1. c \in Elems(lock[s])
        BY <3>1, HeadIn DEF IInv, TypeOK
      <4>2. loc[c].st # None
        BY <2>1, <4>1 DEF QueueOK, FileserverConstants
      <4>. QED BY <1>1, <3>1, <4>2
    <3>2. CASE lock[s] # <<>> /\ Head(lock[s]) # c
      BY <1>1, <2>2, <3>2
    <3>. QED BY <3>1, <3>2
  <2>5. \A d \in Elems(lock[s]) : d # Head(lock[s]) => pc'[d] \in LockPcs /\ ~Active(d)'
    BY <1>1, <1>3, <2>1, <2>3 DEF QueueOK
  <2>6. state'[s].inProgress <=> state[s].inProgress
    BY DEF ProgressSame
  <2>. QED BY <1>1, <2>1, <2>4, <2>5, <2>6 DEF QueueOK
<1>6. (\A s \in StateIds : QueueOK(s)') => LockInv' /\ ProgressInv'
  BY DEF LockInv, ProgressInv, QueueOK
<1>. QED BY <1>2, <1>4, <1>5, <1>6 DEF Discipline

\* `async with state.lock'.
LEMMA AcquireStep ==
    ASSUME FileserverConstants, IInv, TypeOK', NEW c \in Callers, NEW l \in LockPcs, Moves(c, l),
           running = c, pc[c] \notin LockPcs \cup OpPcs, NEW s \in StateIds,
           loc'[c].st = s, LocalOK(c)', Acquire(c, s), UNCHANGED serving, ProgressSame,
           pc[c] # "off"
    PROVE  Discipline'
<1>1. /\ pc'[c] = l /\ \A d \in Callers \ {c} : pc'[d] = pc[d] /\ loc'[d] = loc[d]
      /\ loc[c].st = None
      /\ None \notin Callers /\ c # None
      /\ LockPcs \cap OpPcs = {} /\ LockPcs \cap RestPcs = {}
  BY DEF Moves, IInv, TypeOK, FileserverConstants, Discipline, LocalInv, LockPcs, OpPcs, RestPcs
<1>2. LocalInv'
  <2>1. l # "readPod" /\ l \in UserPcs
    BY DEF LockPcs, UserPcs
  <2>2. s # None
    BY DEF FileserverConstants
  <2>. QED BY <1>1, <2>1, <2>2 DEF IInv, Discipline, LocalInv, LocalOK
<1>3. /\ ready' = ready /\ running' \in {c, None}
      /\ Elems(ready) \subseteq Callers
      /\ \A d \in Callers \ {c} : ~Active(d)' \/ Active(d)
  BY <1>1, ElemsIn DEF Acquire, Active, IInv, TypeOK
<1>4. LoopInv'
  <2>1. ASSUME NEW d \in Callers, Active(d)' PROVE pc'[d] \notin RestPcs
    BY <1>1, <1>3, <2>1 DEF IInv, Discipline, LoopInv
  <2>2. ~serving' => pc'[Watcher] = "off"
    BY <1>1 DEF IInv, Discipline, LoopInv, Callers
  <2>. QED BY <1>1, <1>3, <2>1, <2>2 DEF IInv, Discipline, LoopInv
<1>5. ASSUME NEW t \in StateIds, t # s PROVE QueueOK(t)'
  <2>1. QueueOK(t) /\ lock'[t] = lock[t] /\ c \notin Elems(lock[t])
    <3>1. t # None
      BY DEF FileserverConstants
    <3>. QED BY <1>1, <1>5, <3>1, Queues, OwnQueue DEF IInv, Discipline, Acquire, TypeOK
  <2>2. Elems(lock[t]) \subseteq Callers \ {c} /\ (lock[t] # <<>> => Head(lock[t]) \in Callers \ {c})
    BY <2>1, ElemsIn, HeadIn DEF IInv, TypeOK
  <2>3. \A d \in Elems(lock[t]) : d # Head(lock[t]) => pc'[d] \in LockPcs /\ ~Active(d)'
    BY <1>1, <1>3, <2>1, <2>2 DEF QueueOK
  <2>4. lock[t] # <<>> => pc'[Head(lock[t])] = pc[Head(lock[t])]
    BY <1>1, <2>2
  <2>5. \A d \in Callers : d \in Elems(lock[t]) <=> loc'[d].st = t
    BY <1>1, <1>5, <2>1 DEF QueueOK
  <2>6. state'[t].inProgress <=> state[t].inProgress
    BY DEF ProgressSame
  <2>. QED BY <2>1, <2>3, <2>4, <2>5, <2>6 DEF QueueOK
<1>6. QueueOK(s)'
  <2>1. QueueOK(s) /\ lock'[s] = Append(lock[s], c) /\ c \notin Elems(lock[s])
    <3>1. s # None
      BY DEF FileserverConstants
    <3>. QED BY <1>1, <3>1, Queues, OwnQueue DEF IInv, Discipline, Acquire, TypeOK
  <2>2. /\ lock'[s] # <<>> /\ Elems(lock'[s]) = Elems(lock[s]) \cup {c}
        /\ Distinct(lock'[s])
        /\ lock[s] # <<>> => Head(lock'[s]) = Head(lock[s])
        /\ lock[s] = <<>> => Head(lock'[s]) = c
    BY <2>1, AppendElems DEF IInv, TypeOK, QueueOK
  <2>3. Elems(lock[s]) \subseteq Callers \ {c} /\ (lock[s] # <<>> => Head(lock[s]) \in Callers \ {c})
    BY <2>1, ElemsIn, HeadIn DEF IInv, TypeOK
  <2>4. \A d \in Callers : d \in Elems(lock'[s]) <=> loc'[d].st = s
    BY <1>1, <2>1, <2>2 DEF QueueOK
  <2>5. ASSUME NEW d \in Elems(lock'[s]), d # Head(lock'[s]) PROVE pc'[d] \in LockPcs /\ ~Active(d)'
    <3>1. CASE d = c
      <4>1. lock[s] # <<>>
        BY <2>2, <2>5, <3>1
      <4>2. running' = None /\ c \notin Elems(ready)
        BY <4>1 DEF Acquire, IInv, Discipline, LoopInv
      <4>. QED BY <1>1, <1>3, <3>1, <4>2 DEF Active
    <3>2. CASE d # c
      <4>1. d \in Elems(lock[s]) /\ d # Head(lock[s])
        BY <2>2, <2>5, <3>2, EmptyElems
      <4>. QED BY <1>1, <1>3, <2>1, <2>3, <3>2, <4>1 DEF QueueOK
    <3>. QED BY <3>1, <3>2
  <2>6. lock[s] = <<>> => pc'[Head(lock'[s])] \notin OpPcs
    BY <1>1, <2>2
  <2>7. lock[s] # <<>> => pc'[Head(lock'[s])] = pc[Head(lock[s])]
    BY <1>1, <2>2, <2>3
  <2>8. state'[s].inProgress <=> state[s].inProgress
    BY DEF ProgressSame
  <2>. QED BY <2>1, <2>2, <2>4, <2>5, <2>6, <2>7, <2>8 DEF QueueOK
<1>7. (\A t \in StateIds : QueueOK(t)') => LockInv' /\ ProgressInv'
  BY DEF LockInv, ProgressInv, QueueOK
<1>. QED BY <1>2, <1>4, <1>5, <1>6, <1>7 DEF Discipline

\* The owner of the lock begins its operation.
LEMMA BeginStep ==
    ASSUME FileserverConstants, IInv, TypeOK', NEW c \in Callers, NEW l \in OpPcs, Moves(c, l),
           running = c, pc[c] \in LockPcs, NEW s \in StateIds, loc[c].st = s,
           loc'[c] = [loc[c] EXCEPT !.reply = None],
           state' = Started(s), Suspend, UNCHANGED <<lock, serving>>
    PROVE  Discipline'
<1>1. /\ pc'[c] = l /\ \A d \in Callers \ {c} : pc'[d] = pc[d] /\ loc'[d] = loc[d]
      /\ loc'[c].st = s /\ loc'[c].user = loc[c].user
      /\ None \notin Callers /\ c # None
      /\ OpPcs \cap RestPcs = {}
  BY DEF Moves, IInv, TypeOK, Locals, FileserverConstants, OpPcs, RestPcs
<1>2. LocalInv'
  <2>1. l # "readPod" /\ l \notin LockPcs /\ pc[c] \in UserPcs
    BY DEF LockPcs, OpPcs, UserPcs
  <2>. QED BY <1>1, <2>1 DEF IInv, Discipline, LocalInv
<1>3. /\ ready' = ready /\ running' = None
      /\ Elems(ready) \subseteq Callers
      /\ \A d \in Callers : ~Active(d)' \/ Active(d)
  BY <1>1, ElemsIn DEF Suspend, Active, IInv, TypeOK
<1>4. LoopInv'
  <2>1. ASSUME NEW d \in Callers, Active(d)' PROVE pc'[d] \notin RestPcs
    BY <1>1, <1>3, <2>1 DEF IInv, Discipline, LoopInv
  <2>2. ~serving' => pc'[Watcher] = "off"
    BY <1>1 DEF IInv, Discipline, LoopInv, Callers, LockPcs
  <2>. QED BY <1>1, <1>3, <2>1, <2>2 DEF IInv, Discipline, LoopInv
<1>5. \A t \in StateIds : /\ t # s => (state'[t].inProgress <=> state[t].inProgress)
                          /\ state'[s].inProgress = TRUE
  BY DEF Started, IInv, TypeOK
<1>6. Active(c) /\ lock[s] # <<>> /\ Head(lock[s]) = c
  BY OwnQueue DEF Active
<1>7. ASSUME NEW t \in StateIds PROVE QueueOK(t)'
  <2>1. QueueOK(t)
    BY Queues DEF IInv, Discipline
  <2>2. Elems(lock[t]) \subseteq Callers /\ (lock[t] # <<>> => Head(lock[t]) \in Elems(lock[t]))
    BY ElemsIn, HeadIn DEF IInv, TypeOK
  <2>3. t # s => c \notin Elems(lock[t])
    BY <2>1 DEF QueueOK
  <2>4. \A d \in Elems(lock[t]) : d # Head(lock[t]) => pc'[d] \in LockPcs /\ ~Active(d)'
    BY <1>1, <1>3, <1>6, <2>1, <2>2, <2>3 DEF QueueOK
  <2>5. state'[t].inProgress <=> lock[t] # <<>> /\ pc'[Head(lock[t])] \in OpPcs
    <3>1. CASE t = s
      BY <1>1, <1>5, <1>6, <3>1
    <3>2. CASE t # s
      <4>1. lock[t] # <<>> => pc'[Head(lock[t])] = pc[Head(lock[t])]
        BY <1>1, <2>2, <2>3, <3>2
      <4>. QED BY <1>5, <2>1, <3>2, <4>1 DEF QueueOK
    <3>. QED BY <3>1, <3>2
  <2>6. \A d \in Callers : loc'[d].st = loc[d].st
    BY <1>1
  <2>. QED BY <2>1, <2>4, <2>5, <2>6 DEF QueueOK
<1>8. (\A t \in StateIds : QueueOK(t)') => LockInv' /\ ProgressInv'
  BY DEF LockInv, ProgressInv, QueueOK
<1>. QED BY <1>2, <1>4, <1>7, <1>8 DEF Discipline

\* Whoever gets the lock is the second in the queue, and suspended.
LEMMA GrantedOK ==
    ASSUME FileserverConstants, IInv, NEW c \in Callers, NEW s \in StateIds,
           loc[c].st = s, running = c
    PROVE  /\ lock[s] # <<>> /\ Head(lock[s]) = c
           /\ Elems(lock[s]) = Elems(Tail(lock[s])) \cup {c} /\ c \notin Elems(Tail(lock[s]))
           /\ Distinct(Tail(lock[s]))
           /\ Granted(s) \in Seq(Callers) /\ Distinct(Granted(s))
           /\ Tail(lock[s]) = <<>> => Elems(Granted(s)) = {}
           /\ Tail(lock[s]) # <<>> => /\ Elems(Granted(s)) = {Head(Tail(lock[s]))}
                                      /\ Head(Tail(lock[s])) \in Elems(Tail(lock[s]))
           /\ \A d \in Elems(Tail(lock[s])) : pc[d] \in LockPcs /\ ~Active(d) /\ d # c
<1>1. lock[s] # <<>> /\ Head(lock[s]) = c /\ lock[s] \in Seq(Callers) /\ Distinct(lock[s])
  BY OwnQueue DEF Active, IInv, Discipline, LockInv, TypeOK
<1>2. /\ Elems(lock[s]) = Elems(Tail(lock[s])) \cup {c} /\ c \notin Elems(Tail(lock[s]))
      /\ Distinct(Tail(lock[s])) /\ Tail(lock[s]) \in Seq(Callers)
      /\ Tail(lock[s]) # <<>> => /\ Head(Tail(lock[s])) = lock[s][2]
                                 /\ lock[s][2] \in Elems(Tail(lock[s])) /\ Len(lock[s]) > 1
      /\ Tail(lock[s]) = <<>> => Len(lock[s]) = 1
  BY <1>1, TailElems
<1>3. s # None
  BY DEF FileserverConstants
<1>4. CASE Tail(lock[s]) = <<>>
  <2>1. Granted(s) = <<>>
    BY <1>2, <1>4 DEF Granted
  <2>. QED BY <1>1, <1>2, <1>4, <2>1, EmptyElems DEF IInv, Discipline, LockInv
<1>5. CASE Tail(lock[s]) # <<>>
  <2>1. Granted(s) = <<lock[s][2]>> /\ lock[s][2] \in Callers
    BY <1>2, <1>3, <1>5, ElemsIn DEF Granted
  <2>. QED BY <1>1, <1>2, <1>5, <2>1, SingleElems DEF IInv, Discipline, LockInv
<1>. QED BY <1>4, <1>5

LEMMA AfterCallIs ==
    ASSUME NEW c, NEW res
    PROVE  /\ AfterCall(c, res) \in {"over", "watchReport", "watching", "purge", "timer", "bootFailed"}
           /\ AfterCall(c, res) \notin UserPcs
           /\ AfterCall(c, res) \notin LockPcs \cup OpPcs \cup {"readPod"}
           /\ AfterCall(c, res) = "purge" => AfterCall(c, res) \notin RestPcs
           /\ AfterCall(c, res) \in CallerPcs
<1>1. AfterCall(c, res) \in {"over", "watchReport", "watching", "purge", "timer", "bootFailed"}
  BY DEF AfterCall
<1>. QED BY <1>1 DEF UserPcs, LockPcs, OpPcs, RestPcs, CallerPcs

\* A call ends, and with it the operation that its caller has begun.
LEMMA ReturnStep ==
    ASSUME FileserverConstants, IInv, TypeOK', NEW c \in Callers, running = c,
           NEW s, loc[c].st = s, NEW res, Return(c, s, res),
           \A t \in StateIds : t # s => (state'[t].inProgress <=> state[t].inProgress),
           s # None => ~state'[s].inProgress
    PROVE  Discipline'
<1> DEFINE l == AfterCall(c, res)
           w == Granted(s)
<1>1. /\ pc'[c] = l /\ \A d \in Callers \ {c} : pc'[d] = pc[d] /\ loc'[d] = loc[d]
      /\ loc'[c] = Idle
      /\ None \notin Callers /\ c # None
      /\ running' = (IF l = "purge" THEN c ELSE None) /\ ready' = ready \o w
      /\ serving' = serving
      /\ s \in StateIds \cup {None} /\ None \notin StateIds
  BY DEF Return, Goto, IInv, TypeOK, Locals, FileserverConstants
<1>2. Idle.st = None /\ Idle.user = None
  BY DEF Idle
<1>3. /\ l \notin UserPcs /\ l \notin LockPcs \cup OpPcs \cup {"readPod"}
      /\ l = "purge" => l \notin RestPcs
  BY AfterCallIs
<1>4. LocalInv'
  BY <1>1, <1>2, <1>3 DEF IInv, Discipline, LocalInv
<1>5. /\ w \in Seq(Callers) /\ Distinct(w)
      /\ \A d \in Elems(w) : /\ s \in StateIds
                             /\ Tail(lock[s]) # <<>>
                             /\ d = Head(Tail(lock[s])) /\ d \in Elems(Tail(lock[s]))
                             /\ loc[d].st = s
                             /\ pc[d] \in LockPcs /\ ~Active(d) /\ d \in Callers /\ d # c
  <2>1. CASE s = None
    <3>1. w = <<>>
      BY <2>1 DEF Granted
    <3>. QED BY <3>1, EmptyElems
  <2>2. CASE s \in StateIds
    <3>1. /\ w \in Seq(Callers) /\ Distinct(w)
          /\ \A d \in Elems(w) : /\ Tail(lock[s]) # <<>>
                                 /\ d = Head(Tail(lock[s])) /\ d \in Elems(Tail(lock[s]))
                                 /\ d \in Elems(lock[s]) /\ d \in Callers
                                 /\ pc[d] \in LockPcs /\ ~Active(d) /\ d # c
      BY <2>2, GrantedOK, ElemsIn
    <3>. QED BY <2>2, <3>1 DEF IInv, Discipline, LockInv
  <2>. QED BY <1>1, <2>1, <2>2
<1>6. /\ Elems(ready') = Elems(ready) \cup Elems(w) /\ Distinct(ready')
      /\ c \notin Elems(ready) /\ Elems(ready) \subseteq Callers
  <2>1. Distinct(ready) /\ c \notin Elems(ready) /\ ready \in Seq(Callers)
    BY DEF IInv, Discipline, LoopInv, TypeOK
  <2>2. Elems(ready) \cap Elems(w) = {}
    BY <1>5 DEF Active
  <2>. QED BY <1>1, <1>5, <2>1, <2>2, ConcatElems, ElemsIn
<1>7. LoopInv'
  <2>1. running' \notin Elems(ready')
    BY <1>1, <1>5, <1>6
  <2>2. ASSUME NEW d \in Callers, Active(d)' PROVE pc'[d] \notin RestPcs
    <3>1. CASE d \in Elems(w)
      BY <1>1, <1>5, <3>1 DEF LockPcs, RestPcs
    <3>2. CASE d = c
      BY <1>1, <1>3, <1>5, <1>6, <2>2, <3>2 DEF Active
    <3>3. CASE d # c /\ d \notin Elems(w)
      <4>1. d \in Elems(ready)
        BY <1>1, <1>6, <2>2, <3>3 DEF Active
      <4>. QED BY <1>1, <3>3, <4>1 DEF Active, IInv, Discipline, LoopInv
    <3>. QED BY <3>1, <3>2, <3>3
  <2>3. ~serving' => pc'[Watcher] = "off"
    <3>1. pc[c] # "off"
      BY DEF IInv, Discipline, LoopInv, Active, RestPcs
    <3>. QED BY <1>1, <3>1 DEF IInv, Discipline, LoopInv, Callers
  <2>. QED BY <1>6, <2>1, <2>2, <2>3 DEF LoopInv
<1>8. ASSUME NEW t \in StateIds PROVE QueueOK(t)'
  <2>1. QueueOK(t)
    BY Queues DEF IInv, Discipline
  <2>2. Elems(lock[t]) \subseteq Callers /\ (lock[t] # <<>> => Head(lock[t]) \in Elems(lock[t]))
    BY ElemsIn, HeadIn DEF IInv, TypeOK
  <2>3. CASE t # s
    <3>1. lock'[t] = lock[t]
      BY <2>3 DEF Return, Release, IInv, TypeOK
    <3>2. c \notin Elems(lock[t]) /\ \A d \in Elems(w) : d \notin Elems(lock[t])
      BY <1>5, <2>1, <2>3 DEF QueueOK
    <3>3. \A d \in Elems(lock[t]) : Active(d)' => Active(d)
      BY <1>1, <1>6, <2>2, <3>2 DEF Active
    <3>4. \A d \in Elems(lock[t]) : pc'[d] = pc[d]
      BY <1>1, <2>2, <3>2
    <3>5. \A d \in Callers : d \in Elems(lock[t]) <=> loc'[d].st = t
      <4>1. t # None
        BY <1>1
      <4>. QED BY <1>1, <1>2, <2>1, <3>2, <4>1 DEF QueueOK
    <3>. QED BY <2>1, <2>2, <2>3, <3>1, <3>3, <3>4, <3>5 DEF QueueOK
  <2>4. CASE t = s
    <3>1. /\ lock[s] # <<>> /\ Head(lock[s]) = c
          /\ Elems(lock[s]) = Elems(Tail(lock[s])) \cup {c} /\ c \notin Elems(Tail(lock[s]))
          /\ Distinct(Tail(lock[s]))
          /\ Tail(lock[s]) # <<>> => Head(Tail(lock[s])) \in Elems(Tail(lock[s]))
          /\ \A d \in Elems(Tail(lock[s])) : pc[d] \in LockPcs /\ ~Active(d) /\ d # c
      BY <2>4, GrantedOK
    <3>2. lock'[s] = Tail(lock[s]) /\ s # None
      BY <1>1, <2>4 DEF Return, Release, IInv, TypeOK
    <3>3. Elems(Tail(lock[s])) \subseteq Callers \ {c}
      BY <2>2, <2>4, <3>1
    <3>4. ASSUME NEW d \in Elems(Tail(lock[s])), d # Head(Tail(lock[s]))
          PROVE  pc'[d] \in LockPcs /\ ~Active(d)'
      BY <1>1, <1>5, <1>6, <3>1, <3>3, <3>4 DEF Active
    <3>5. \A d \in Callers : d \in Elems(Tail(lock[s])) <=> loc'[d].st = s
      BY <1>1, <1>2, <2>1, <2>4, <3>1, <3>2 DEF QueueOK
    <3>6. Tail(lock[s]) # <<>> => pc'[Head(Tail(lock[s]))] \notin OpPcs
      BY <1>1, <3>1, <3>3 DEF LockPcs, OpPcs
    <3>. QED BY <2>4, <3>1, <3>2, <3>4, <3>5, <3>6 DEF QueueOK
  <2>. QED BY <2>3, <2>4
<1>9. (\A t \in StateIds : QueueOK(t)') => LockInv' /\ ProgressInv'
  BY DEF LockInv, ProgressInv, QueueOK
<1>. QED BY <1>4, <1>7, <1>8, <1>9 DEF Discipline

\* The loop takes the next task.
LEMMA DispatchStep == ASSUME FileserverConstants, IInv, TypeOK', Dispatch PROVE Discipline'
<1>1. /\ Distinct(ready') /\ running' \notin Elems(ready')
      /\ \A d : Active(d)' => Active(d) \/ d = None
  <2>1. /\ ready \in Seq(Callers) /\ ready # <<>> /\ Distinct(ready)
        /\ running' = Head(ready) /\ ready' = Tail(ready)
    BY DEF Dispatch, IInv, TypeOK, Discipline, LoopInv
  <2>. QED BY <2>1, TailElems DEF Active
<1>2. None \notin Callers /\ UNCHANGED <<pc, loc, lock, state, serving>>
  BY DEF FileserverConstants, Dispatch, memory
<1>3. LocalInv' /\ LoopInv'
  BY <1>1, <1>2 DEF IInv, Discipline, LocalInv, LoopInv
<1>4. LockInv'
  <2>1. \A s \in StateIds : Elems(lock[s]) \subseteq Callers
    BY ElemsIn DEF IInv, TypeOK
  <2>. QED BY <1>1, <1>2, <2>1 DEF IInv, Discipline, LockInv
<1>5. ProgressInv'
  BY <1>2 DEF IInv, Discipline, ProgressInv
<1>. QED BY <1>3, <1>4, <1>5 DEF Discipline

\* Steps of the cluster, and stuttering.
LEMMA IdleStep ==
    ASSUME IInv, UNCHANGED <<running, ready, pc, loc, lock, state, serving>>
    PROVE  Discipline'
  BY DEF IInv, Discipline, LocalInv, LoopInv, LockInv, ProgressInv, Active

\* A process that has just started.
Booted ==
    /\ running = None /\ ready = <<Reconciler>>
    /\ pc[Reconciler] = "begin" /\ pc[Watcher] = "off"
    /\ \A r \in Requests : pc[r] \in {"idle", "over"}
    /\ loc = [c \in Callers |-> Idle] /\ state = NoStates /\ lock = NoLocks

LEMMA FreshDiscipline == Booted => Discipline
<1>. SUFFICES ASSUME Booted PROVE Discipline
  OBVIOUS
<1>. USE FileserverConstants DEF Booted
<1>1. \A c \in Callers : /\ pc[c] \in {"begin", "off", "idle", "over"}
                         /\ loc[c] = Idle
  BY DEF Callers
<1>2. Idle.st = None
  BY DEF Idle
<1>3. \A s \in StateIds : lock[s] = <<>> /\ state[s].inProgress = FALSE /\ s # None
  BY DEF NoLocks, NoStates, FileserverConstants
<1>4. LocalInv
  BY <1>1, <1>2 DEF LocalInv, LockPcs, OpPcs, UserPcs
<1>5. LoopInv
  <2>1. Elems(ready) = {Reconciler} /\ Distinct(ready) /\ Reconciler # None
    BY SingleElems DEF FileserverConstants, Callers
  <2>2. \A c \in Callers : Active(c) => c = Reconciler
    BY <2>1 DEF Active, FileserverConstants
  <2>3. "begin" \notin RestPcs
    BY DEF RestPcs
  <2>. QED BY <2>1, <2>2, <2>3 DEF LoopInv
<1>6. LockInv
  BY <1>1, <1>2, <1>3, EmptyElems DEF LockInv
<1>7. ProgressInv
  BY <1>3 DEF ProgressInv
<1>. QED BY <1>4, <1>5, <1>6, <1>7 DEF Discipline

-----------------------------------------------------------------------------
(* Types *)

TasksOK ==
    /\ running \in Callers \cup {None}
    /\ ready \in Seq(Callers)
    /\ pc \in [Callers -> CallerPcs]
    /\ loc \in [Callers -> Locals]
StoreOK ==
    /\ servers \in [Users -> StateIds \cup {None}]
    /\ state \in [StateIds -> [running : BOOLEAN, inProgress : BOOLEAN, touched : BOOLEAN]]
    /\ lock \in [StateIds -> Seq(Callers)]
PassOK ==
    pass \in [todo : SUBSET Users, pod : {"none", "pending", "running", "exited", None},
              valid : SUBSET Users, invalid : SUBSET Users, broken : SUBSET Users,
              unexpected : SUBSET Users, missing : SUBSET Users]
WorldOK ==
    /\ k8s \in [Users -> Objects]
    /\ notices \in SUBSET Users
    /\ faults \in 0..MaxFaults

LEMMA TypeParts ==
    TasksOK' /\ StoreOK' /\ PassOK' /\ serving' \in BOOLEAN /\ WorldOK' => TypeOK'
  BY DEF TypeOK, TasksOK, StoreOK, PassOK, WorldOK

LEMMA DataOK ==
    /\ Idle \in Locals /\ NoPass.pod = None
    /\ \A u \in Users : [Idle EXCEPT !.user = u] \in Locals
    /\ \A u \in Users, k \in {"create", "delete"} : [Idle EXCEPT !.user = u, !.kind = k] \in Locals
    /\ \A b \in BOOLEAN : NewState(b) \in [running : BOOLEAN, inProgress : BOOLEAN, touched : BOOLEAN]
  BY DEF Idle, Locals, NoPass, NewState, InPass

LEMMA NoPassOK ==
    NoPass \in [todo : SUBSET Users, pod : {"none", "pending", "running", "exited", None},
                valid : SUBSET Users, invalid : SUBSET Users, broken : SUBSET Users,
                unexpected : SUBSET Users, missing : SUBSET Users]
  BY DEF NoPass

\* The task that runs has something to do, and the watcher runs only when
\* startup is over.
LEMMA RunsOK ==
    ASSUME IInv, NEW c \in Callers, running = c
    PROVE  pc[c] \notin RestPcs /\ (c = Watcher => serving)
<1>1. pc[c] \notin RestPcs
  BY DEF IInv, Discipline, LoopInv, Active
<1>. QED BY <1>1 DEF IInv, Discipline, LoopInv, RestPcs

\* Suspending at a call of another service.
LEMMA AwaitStep ==
    ASSUME FileserverConstants, IInv, NEW c \in Callers, NEW l \in CallerPcs, running = c,
           Await(c, l), pc[c] \notin LockPcs, l \notin LockPcs,
           loc[c].st # None => pc[c] \in OpPcs /\ l \in OpPcs,
           l \in UserPcs => loc[c].user \in Users,
           StoreOK', PassOK', WorldOK', UNCHANGED <<lock, serving>>, ProgressSame
    PROVE  IInv'
<1>1. /\ loc'[c] = [loc[c] EXCEPT !.reply = None] /\ loc[c] \in Locals
      /\ \A d \in Callers \ {c} : loc'[d] = loc[d]
      /\ pc' = [pc EXCEPT ![c] = l] /\ pc'[c] = l
      /\ running' = None /\ ready' = ready /\ None \notin Callers
  BY DEF Await, Goto, Suspend, IInv, TypeOK, FileserverConstants
<1>2. loc'[c] \in Locals /\ loc'[c].st = loc[c].st /\ loc'[c].user = loc[c].user
      /\ loc'[c].reply = None
  BY <1>1 DEF Locals
<1>3. TypeOK'
  <2>1. loc' \in [Callers -> Locals]
    BY <1>1, <1>2 DEF Await, IInv, TypeOK
  <2>2. TasksOK'
    BY <1>1, <2>1 DEF TasksOK, IInv, TypeOK
  <2>. QED BY <2>2, TypeParts DEF IInv, TypeOK
<1>4. LocalOK(c)'
  BY <1>1, <1>2 DEF LocalOK, PodReplies
<1>5. ~Active(c)'
  BY <1>1 DEF IInv, Discipline, LoopInv, Active
<1>6. c = Watcher => serving
  BY RunsOK
<1>. QED BY <1>1, <1>2, <1>3, <1>4, <1>5, <1>6, StayStep DEF Moves, IInv

\* The answer to such a call.
LEMMA ReplyStep ==
    ASSUME FileserverConstants, IInv, NEW c \in Callers, NEW r \in Replies, NEW ls, Waits(c, ls),
           pc[c] \in OpPcs \cup {"list", "readPod", "readIngress", "watchReport"},
           pc[c] = "readPod" => r \in PodReplies,
           Reply(c, r), PassOK', WorldOK'
    PROVE  IInv'
<1>1. /\ loc'[c] = [loc[c] EXCEPT !.reply = r] /\ loc[c] \in Locals
      /\ \A d \in Callers \ {c} : loc'[d] = loc[d]
      /\ pc' = [pc EXCEPT ![c] = pc[c]] /\ pc'[c] = pc[c]
      /\ running = None /\ running' = None /\ ready' = Append(ready, c)
      /\ c \notin Elems(ready)
      /\ UNCHANGED <<servers, state, lock, serving>>
  BY ScheduledIs DEF Reply, Waits, Poll, memory, IInv, TypeOK
<1>2. loc'[c] \in Locals /\ loc'[c].st = loc[c].st /\ loc'[c].user = loc[c].user
      /\ loc'[c].reply = r
  BY <1>1 DEF Locals
<1>3. TypeOK'
  <2>1. loc' \in [Callers -> Locals]
    BY <1>1, <1>2 DEF Reply, IInv, TypeOK
  <2>2. TasksOK'
    BY <1>1, <2>1, AppendElems DEF TasksOK, IInv, TypeOK
  <2>3. StoreOK'
    BY <1>1 DEF StoreOK, IInv, TypeOK
  <2>. QED BY <1>1, <2>2, <2>3, TypeParts DEF IInv, TypeOK
<1>4. LocalOK(c)'
  BY <1>1, <1>2 DEF LocalOK, IInv, Discipline, LocalInv
<1>5. pc[c] \notin RestPcs /\ pc[c] \notin LockPcs
  BY DEF OpPcs, RestPcs, LockPcs
<1>6. loc[c].st # None => pc[c] \in OpPcs
  BY <1>5 DEF IInv, Discipline, LocalInv
<1>7. ~serving => c # Watcher
  BY <1>5 DEF IInv, Discipline, LoopInv, RestPcs
<1>. QED BY <1>1, <1>2, <1>3, <1>4, <1>5, <1>6, <1>7, StayStep DEF Moves, IInv, ProgressSame

\* The end of a call.
LEMMA EndStep ==
    ASSUME FileserverConstants, IInv, NEW c \in Callers, running = c,
           NEW s, loc[c].st = s, NEW res, Return(c, s, res),
           state' \in [StateIds -> [running : BOOLEAN, inProgress : BOOLEAN, touched : BOOLEAN]],
           \A t \in StateIds : t # s => (state'[t].inProgress <=> state[t].inProgress),
           s # None => ~state'[s].inProgress
    PROVE  IInv'
<1>1. s \in StateIds \cup {None}
  BY DEF IInv, TypeOK, Locals
<1>2. Granted(s) \in Seq(Callers)
  <2>1. CASE s = None
    BY <2>1 DEF Granted
  <2>2. CASE s \in StateIds
    BY <2>2, GrantedOK
  <2>. QED BY <1>1, <2>1, <2>2
<1>3. TasksOK'
  <2>1. ready' \in Seq(Callers)
    BY <1>2, ConcatElems DEF Return, IInv, TypeOK
  <2>2. pc' \in [Callers -> CallerPcs]
    BY AfterCallIs DEF Return, Goto, IInv, TypeOK
  <2>3. loc' \in [Callers -> Locals]
    BY DataOK DEF Return, IInv, TypeOK
  <2>. QED BY <2>1, <2>2, <2>3 DEF TasksOK, Return
<1>4. lock' \in [StateIds -> Seq(Callers)]
  <2>1. CASE s = None
    BY <2>1 DEF Return, Release, IInv, TypeOK
  <2>2. CASE s \in StateIds
    <3>1. Tail(lock[s]) \in Seq(Callers)
      BY <2>2, GrantedOK, TailElems DEF IInv, TypeOK, Discipline, LockInv
    <3>. QED BY <2>2, <3>1 DEF Return, Release, IInv, TypeOK
  <2>. QED BY <1>1, <2>1, <2>2
<1>5. StoreOK'
  BY <1>4 DEF StoreOK, Return, IInv, TypeOK
<1>6. PassOK' /\ WorldOK' /\ serving' \in BOOLEAN
  BY DEF PassOK, WorldOK, Return, IInv, TypeOK
<1>7. TypeOK'
  BY <1>3, <1>5, <1>6, TypeParts
<1>. QED BY <1>7, ReturnStep DEF IInv

\* What the end of create and delete leaves in a _State.
LEMMA SettleOK ==
    ASSUME TypeOK, NEW s \in StateIds \cup {None}, None \notin StateIds, NEW b \in BOOLEAN, Settle(s, b)
    PROVE  /\ state' \in [StateIds -> [running : BOOLEAN, inProgress : BOOLEAN, touched : BOOLEAN]]
           /\ \A t \in StateIds : t # s => (state'[t].inProgress <=> state[t].inProgress)
           /\ s # None => ~state'[s].inProgress
<1>1. NewState(b) \in [running : BOOLEAN, inProgress : BOOLEAN, touched : BOOLEAN]
      /\ NewState(b).inProgress = FALSE
  BY DataOK DEF NewState
<1>. QED BY <1>1 DEF Settle, TypeOK

\* Suspending without any other change.
LEMMA PureAwait ==
    ASSUME FileserverConstants, IInv, NEW c \in Callers, NEW l \in CallerPcs, running = c,
           Await(c, l), pc[c] \notin LockPcs, l \notin LockPcs,
           loc[c].st # None => pc[c] \in OpPcs /\ l \in OpPcs,
           l \in UserPcs => loc[c].user \in Users,
           UNCHANGED <<memory, lock, pass, serving, env>>
    PROVE  IInv'
<1>1. StoreOK' /\ PassOK' /\ WorldOK' /\ ProgressSame
  BY DEF StoreOK, PassOK, WorldOK, ProgressSame, memory, env, IInv, TypeOK
<1>. QED BY <1>1, AwaitStep

\* An operation goes on to its next await.
LEMMA NextAwait ==
    ASSUME FileserverConstants, IInv, NEW c \in Callers, NEW l \in OpPcs, running = c,
           Await(c, l), pc[c] \in OpPcs, UNCHANGED <<memory, lock, pass, serving, env>>
    PROVE  IInv'
<1>1. l \in CallerPcs /\ l \notin LockPcs /\ pc[c] \notin LockPcs /\ pc[c] \in UserPcs
  BY DEF OpPcs, CallerPcs, LockPcs, UserPcs
<1>2. loc[c].user \in Users
  BY <1>1 DEF IInv, Discipline, LocalInv
<1>. QED BY <1>1, <1>2, PureAwait

\* A caller that owns the lock and has not begun.
LEMMA NotBegun ==
    ASSUME FileserverConstants, IInv, NEW c \in Callers, running = c, pc[c] \in LockPcs
    PROVE  /\ loc[c].st \in StateIds /\ None \notin StateIds
           /\ ~state[loc[c].st].inProgress
<1>1. loc[c].st \in StateIds /\ None \notin StateIds
  BY DEF IInv, TypeOK, Locals, Discipline, LocalInv, FileserverConstants
<1>2. lock[loc[c].st] # <<>> /\ Head(lock[loc[c].st]) = c
  BY <1>1, OwnQueue DEF Active
<1>3. pc[c] \notin OpPcs
  BY DEF LockPcs, OpPcs
<1>. QED BY <1>1, <1>2, <1>3 DEF IInv, Discipline, ProgressInv

\* Asking for the lock of a _State.
LEMMA AskStep ==
    ASSUME FileserverConstants, IInv, NEW c \in Callers, NEW l \in LockPcs, Goto(c, l),
           running = c, pc[c] \in {"create", "delete"}, NEW s \in StateIds,
           loc' = [loc EXCEPT ![c].st = s], Acquire(c, s),
           UNCHANGED <<pass, serving, env>>, ProgressSame,
           servers' \in [Users -> StateIds \cup {None}],
           state' \in [StateIds -> [running : BOOLEAN, inProgress : BOOLEAN, touched : BOOLEAN]]
    PROVE  IInv'
<1>1. /\ pc[c] \notin LockPcs \cup OpPcs /\ pc[c] \in UserPcs /\ pc[c] # "off"
      /\ l # "readPod" /\ l \in CallerPcs
  BY DEF LockPcs, OpPcs, UserPcs, CallerPcs
<1>2. /\ loc'[c] = [loc[c] EXCEPT !.st = s] /\ loc[c] \in Locals
      /\ \A d \in Callers \ {c} : loc'[d] = loc[d]
      /\ pc' = [pc EXCEPT ![c] = l] /\ pc'[c] = l
  BY <1>1 DEF Goto, IInv, TypeOK
<1>3. loc'[c] \in Locals /\ loc'[c].st = s /\ loc'[c].user = loc[c].user
  BY <1>2 DEF Locals
<1>4. loc[c].user \in Users
  BY <1>1 DEF IInv, Discipline, LocalInv
<1>5. lock' \in [StateIds -> Seq(Callers)]
  <2>1. Append(lock[s], c) \in Seq(Callers)
    BY AppendElems DEF IInv, TypeOK
  <2>. QED BY <2>1 DEF Acquire, IInv, TypeOK
<1>6. TasksOK'
  <2>1. loc' \in [Callers -> Locals]
    BY <1>2, <1>3 DEF IInv, TypeOK
  <2>. QED BY <1>1, <1>2, <2>1 DEF TasksOK, Acquire, IInv, TypeOK
<1>7. PassOK' /\ WorldOK' /\ serving' \in BOOLEAN
  BY DEF PassOK, WorldOK, env, IInv, TypeOK
<1>8. TypeOK'
  BY <1>5, <1>6, <1>7, TypeParts DEF StoreOK
<1>9. LocalOK(c)'
  BY <1>1, <1>2, <1>3, <1>4 DEF LocalOK
<1>. QED BY <1>1, <1>2, <1>3, <1>8, <1>9, AcquireStep DEF Moves, IInv

\* What the beginning of an operation does to a _State.
LEMMA StartedOK ==
    ASSUME NEW S, NEW x \in S, NEW b \in BOOLEAN,
           NEW f \in [S -> [running : BOOLEAN, inProgress : BOOLEAN, touched : BOOLEAN]]
    PROVE  [f EXCEPT ![x].inProgress = TRUE, ![x].touched = b]
             \in [S -> [running : BOOLEAN, inProgress : BOOLEAN, touched : BOOLEAN]]
  OBVIOUS

\* The owner finds that there is something to do.
LEMMA WorkStep ==
    ASSUME FileserverConstants, IInv, NEW c \in Callers, NEW l \in OpPcs, running = c,
           pc[c] \in LockPcs, state' = Started(loc[c].st), Await(c, l),
           UNCHANGED <<servers, lock, pass, serving, env>>
    PROVE  IInv'
<1>1. loc[c].st \in StateIds
  BY NotBegun
<1>2. /\ loc'[c] = [loc[c] EXCEPT !.reply = None] /\ loc[c] \in Locals
      /\ \A d \in Callers \ {c} : loc'[d] = loc[d]
      /\ pc' = [pc EXCEPT ![c] = l] /\ Suspend
  BY DEF Await, Goto, IInv, TypeOK
<1>3. loc' \in [Callers -> Locals]
  <2>1. loc'[c] \in Locals
    BY <1>2 DEF Locals
  <2>. QED BY <1>2, <2>1 DEF Await, IInv, TypeOK
<1>4. TasksOK'
  BY <1>2, <1>3 DEF TasksOK, Suspend, OpPcs, CallerPcs, IInv, TypeOK
<1>5. state' \in [StateIds -> [running : BOOLEAN, inProgress : BOOLEAN, touched : BOOLEAN]]
  <2>1. InPass \in BOOLEAN
    BY DEF InPass
  <2>2. state \in [StateIds -> [running : BOOLEAN, inProgress : BOOLEAN, touched : BOOLEAN]]
    BY DEF IInv, TypeOK
  <2>3. [state EXCEPT ![loc[c].st].inProgress = TRUE, ![loc[c].st].touched = InPass]
          \in [StateIds -> [running : BOOLEAN, inProgress : BOOLEAN, touched : BOOLEAN]]
    BY <1>1, <2>1, <2>2, StartedOK, Zenon
  <2>. QED BY <2>3, Zenon DEF Started
<1>6. TypeOK'
  BY <1>4, <1>5, TypeParts DEF StoreOK, PassOK, WorldOK, env, IInv, TypeOK
<1>. QED BY <1>1, <1>2, <1>6, BeginStep DEF Moves, IInv

\* The owner finds that there is nothing to do.
LEMMA NoWorkStep ==
    ASSUME FileserverConstants, IInv, NEW c \in Callers, running = c, pc[c] \in LockPcs,
           NEW res, Return(c, loc[c].st, res), UNCHANGED state
    PROVE  IInv'
<1>1. loc[c].st \in StateIds /\ None \notin StateIds /\ ~state[loc[c].st].inProgress
  BY NotBegun
<1>. QED BY <1>1, EndStep DEF IInv, TypeOK

\* The end of an operation.
LEMMA SettledStep ==
    ASSUME FileserverConstants, IInv, NEW c \in Callers, running = c,
           NEW b, b \in BOOLEAN \/ loc[c].st = None, Settle(loc[c].st, b),
           NEW res, Return(c, loc[c].st, res)
    PROVE  IInv'
<1>1. loc[c].st \in StateIds \cup {None} /\ None \notin StateIds
  BY DEF IInv, TypeOK, Locals, FileserverConstants
<1>2. CASE loc[c].st = None
  <2>1. UNCHANGED state
    BY <1>2 DEF Settle
  <2>. QED BY <1>2, <2>1, EndStep DEF IInv, TypeOK
<1>3. CASE loc[c].st # None
  BY <1>1, <1>3, SettleOK, EndStep DEF IInv
<1>. QED BY <1>2, <1>3

\* A call without lock ends.
LEMMA PlainEnd ==
    ASSUME FileserverConstants, IInv, NEW c \in Callers, running = c, loc[c].st = None,
           NEW res, Return(c, None, res), UNCHANGED state
    PROVE  IInv'
  BY EndStep DEF IInv, TypeOK

-----------------------------------------------------------------------------
(* create and delete *)

\* Nobody waits for the lock of a _State that does not exist yet.
LEMMA FreeOK ==
    ASSUME IInv, NEW s \in FreeStates
    PROVE  s \in StateIds /\ lock[s] = <<>> /\ ~state[s].inProgress
<1>1. s \in StateIds /\ \A c \in Callers : loc[c].st # s
  BY DEF FreeStates
<1>2. lock[s] = <<>>
  <2>. SUFFICES ASSUME lock[s] # <<>> PROVE FALSE
    OBVIOUS
  <2>1. Head(lock[s]) \in Elems(lock[s]) /\ Head(lock[s]) \in Callers
    BY <1>1, HeadIn DEF IInv, TypeOK
  <2>. QED BY <1>1, <2>1 DEF IInv, Discipline, LockInv
<1>. QED BY <1>1, <1>2 DEF IInv, Discipline, ProgressInv

LEMMA NoStateYet ==
    ASSUME IInv, NEW c \in Callers, pc[c] \notin LockPcs \cup OpPcs
    PROVE  loc[c].st = None
  BY DEF IInv, Discipline, LocalInv

LEMMA CreateStepInv ==
    ASSUME FileserverConstants, IInv, NEW r \in Requests, CreateStep(r)
    PROVE  IInv'
<1>1. r \in Callers /\ None \notin StateIds
  BY DEF Callers, FileserverConstants
<1>2. CASE CreateBegin(r)
  <2> DEFINE u == loc[r].user
  <2>1. /\ running = r /\ pc[r] = "create" /\ "create" \in UserPcs
        /\ "createLocked" \in LockPcs
    BY <1>2 DEF CreateBegin, At, UserPcs, LockPcs
  <2>2. u \in Users
    BY <1>1, <2>1 DEF IInv, Discipline, LocalInv
  <2>3. PICK s \in StateIds :
           /\ IF servers[u] = None
                THEN /\ FreeStates # {} /\ s = CHOOSE t \in FreeStates : TRUE
                     /\ servers' = [servers EXCEPT ![u] = s]
                     /\ state' = [state EXCEPT ![s] = NewState(FALSE)]
                ELSE s = servers[u] /\ UNCHANGED memory
           /\ loc' = [loc EXCEPT ![r].st = s]
           /\ Acquire(r, s)
    BY <1>2 DEF CreateBegin
  <2>4. Goto(r, "createLocked") /\ UNCHANGED <<pass, serving, env>>
    BY <1>2 DEF CreateBegin
  <2>5. /\ ProgressSame
        /\ servers' \in [Users -> StateIds \cup {None}]
        /\ state' \in [StateIds -> [running : BOOLEAN, inProgress : BOOLEAN, touched : BOOLEAN]]
    <3>1. CASE servers[u] = None
      <4>1. s \in FreeStates /\ state' = [state EXCEPT ![s] = NewState(FALSE)]
            /\ servers' = [servers EXCEPT ![u] = s]
        BY <2>3, <3>1
      <4>2. /\ ~state[s].inProgress /\ ~NewState(FALSE).inProgress
            /\ NewState(FALSE) \in [running : BOOLEAN, inProgress : BOOLEAN, touched : BOOLEAN]
        BY <4>1, FreeOK, DataOK DEF NewState
      <4>. QED BY <4>1, <4>2 DEF ProgressSame, IInv, TypeOK
    <3>2. CASE servers[u] # None
      BY <2>3, <3>2 DEF ProgressSame, memory, IInv, TypeOK
    <3>. QED BY <3>1, <3>2
  <2>. QED BY <1>1, <2>1, <2>3, <2>4, <2>5, AskStep
<1>3. CASE CreateLocked(r)
  <2>1. /\ running = r /\ pc[r] \in LockPcs /\ "mkIngress" \in OpPcs
    BY <1>3 DEF CreateLocked, At, LockPcs, OpPcs
  <2>2. CASE Return(r, loc[r].st, "ok") /\ UNCHANGED state
    BY <1>1, <2>1, <2>2, NoWorkStep
  <2>3. CASE /\ state' = Started(loc[r].st) /\ Await(r, "mkIngress")
             /\ UNCHANGED <<servers, lock, pass, serving, env>>
    BY <1>1, <2>1, <2>3, WorkStep
  <2>. QED BY <1>3, <2>2, <2>3 DEF CreateLocked
<1>4. \A i \in 1..5 : CreateAwaits[i] \in OpPcs
  BY DEF CreateAwaits, OpPcs
<1>5. CASE CreateNext(r)
  <2>1. PICK i \in 1..4 : Replied(r, CreateAwaits[i], "ok") /\ Await(r, CreateAwaits[i + 1])
    BY <1>5 DEF CreateNext
  <2>2. /\ running = r /\ pc[r] \in OpPcs /\ CreateAwaits[i + 1] \in OpPcs
    BY <1>4, <2>1 DEF Replied, At
  <2>. QED BY <1>1, <1>5, <2>1, <2>2, NextAwait DEF CreateNext
<1>6. CASE CreateEnd(r)
  <2>1. running = r /\ Settle(loc[r].st, TRUE) /\ Return(r, loc[r].st, "ok")
    BY <1>6 DEF CreateEnd, Replied, At
  <2>. QED BY <1>1, <2>1, SettledStep
<1>7. CASE CreateFails(r)
  <2>1. PICK i \in 1..5 : Replied(r, CreateAwaits[i], "error")
    BY <1>7 DEF CreateFails
  <2>2. running = r /\ pc[r] \in OpPcs /\ "createReport" \in OpPcs
    BY <1>4, <2>1 DEF Replied, At, OpPcs
  <2>. QED BY <1>1, <1>7, <2>2, NextAwait DEF CreateFails
<1>8. CASE CreateCleanUp(r)
  <2>1. running = r /\ pc[r] \in OpPcs /\ "rmIngress" \in OpPcs
    BY <1>8 DEF CreateCleanUp, Replied, At, OpPcs
  <2>. QED BY <1>1, <1>8, <2>1, NextAwait DEF CreateCleanUp
<1>. QED BY <1>2, <1>3, <1>5, <1>6, <1>7, <1>8 DEF CreateStep

LEMMA DeleteStepInv ==
    ASSUME FileserverConstants, IInv, NEW c \in Callers, DeleteStep(c)
    PROVE  IInv'
<1>1. None \notin StateIds
  BY DEF FileserverConstants
<1>2. CASE DeleteBegin(c)
  <2> DEFINE s == servers[loc[c].user]
  <2>1. /\ running = c /\ pc[c] = "delete" /\ "delete" \in UserPcs \ (LockPcs \cup OpPcs)
        /\ "deleteLocked" \in LockPcs /\ UNCHANGED state
    BY <1>2 DEF DeleteBegin, At, UserPcs, LockPcs, OpPcs
  <2>2. loc[c].user \in Users /\ loc[c].st = None
    BY <2>1, NoStateYet DEF IInv, Discipline, LocalInv
  <2>3. CASE Return(c, None, "unknown")
    BY <2>1, <2>2, <2>3, PlainEnd
  <2>4. CASE /\ s # None /\ loc' = [loc EXCEPT ![c].st = s]
             /\ Goto(c, "deleteLocked") /\ Acquire(c, s)
             /\ UNCHANGED <<servers, pass, serving, env>>
    <3>1. s \in StateIds
      BY <2>2, <2>4 DEF IInv, TypeOK
    <3>2. ProgressSame
      BY <2>1 DEF ProgressSame
    <3>. QED BY <2>1, <2>4, <3>1, <3>2, AskStep DEF IInv, TypeOK
  <2>. QED BY <1>2, <2>3, <2>4 DEF DeleteBegin
<1>3. CASE DeleteLocked(c)
  <2>1. /\ running = c /\ pc[c] \in LockPcs /\ "rmIngress" \in OpPcs
    BY <1>3 DEF DeleteLocked, At, LockPcs, OpPcs
  <2>2. CASE Return(c, loc[c].st, "unknown") /\ UNCHANGED state
    BY <2>1, <2>2, NoWorkStep
  <2>3. CASE /\ state' = Started(loc[c].st) /\ Await(c, "rmIngress")
             /\ UNCHANGED <<servers, lock, pass, serving, env>>
    BY <2>1, <2>3, WorkStep
  <2>. QED BY <1>3, <2>2, <2>3 DEF DeleteLocked
<1>4. CASE RemoveNext(c)
  <2>1. running = c /\ pc[c] \in OpPcs /\ "rmJob" \in OpPcs
    BY <1>4 DEF RemoveNext, Replied, At, OpPcs
  <2>. QED BY <1>4, <2>1, NextAwait DEF RemoveNext
<1>5. CASE RemoveEnd(c)
  <2>1. /\ running = c /\ Settle(loc[c].st, FALSE)
        /\ Return(c, loc[c].st, IF loc[c].kind = "create" THEN "failed" ELSE "ok")
    BY <1>5 DEF RemoveEnd, Replied, At
  <2>. QED BY <2>1, SettledStep
<1>6. CASE RemoveFails(c)
  <2>1. running = c /\ pc[c] \in OpPcs /\ "rmReport" \in OpPcs
    BY <1>6 DEF RemoveFails, Replied, At, OpPcs
  <2>2. CASE loc[c].st = None
    BY <1>6, <2>1, <2>2, PlainEnd DEF RemoveFails
  <2>3. CASE loc[c].st # None
    BY <1>6, <2>1, <2>3, NextAwait DEF RemoveFails
  <2>. QED BY <2>2, <2>3
<1>7. CASE RemoveReported(c)
  <2>1. /\ running = c /\ Settle(loc[c].st, state[loc[c].st].running)
        /\ Return(c, loc[c].st, "failed")
    BY <1>7 DEF RemoveReported, Replied, At
  <2>2. loc[c].st # None => state[loc[c].st].running \in BOOLEAN
    BY DEF IInv, TypeOK, Locals
  <2>. QED BY <2>1, <2>2, SettledStep
<1>. QED BY <1>2, <1>3, <1>4, <1>5, <1>6, <1>7 DEF DeleteStep

-----------------------------------------------------------------------------
(* reconcile and watch_servers *)

\* The task that runs, without lock, goes to l.
LEMMA FreeMove ==
    ASSUME FileserverConstants, IInv, NEW c \in Callers, running = c,
           pc[c] \notin LockPcs \cup OpPcs, NEW l \in CallerPcs \ LockPcs, Goto(c, l),
           running' \in {c, None}, UNCHANGED <<ready, lock, serving>>,
           l \in RestPcs => running' = None,
           NEW v \in Locals, loc' = [loc EXCEPT ![c] = v], v.st = None,
           l \in UserPcs => v.user \in Users, l = "readPod" => v.reply \in PodReplies,
           ProgressSame, StoreOK', PassOK', WorldOK'
    PROVE  IInv'
<1>1. /\ loc'[c] = v /\ \A d \in Callers \ {c} : loc'[d] = loc[d]
      /\ pc' = [pc EXCEPT ![c] = l] /\ pc'[c] = l
      /\ loc' \in [Callers -> Locals]
  BY DEF Goto, IInv, TypeOK
<1>2. TasksOK'
  BY <1>1 DEF TasksOK, Goto, IInv, TypeOK
<1>3. TypeOK'
  BY <1>2, TypeParts DEF IInv, TypeOK
<1>4. LocalOK(c)'
  BY <1>1 DEF LocalOK
<1>5. loc[c].st = None /\ pc[c] \notin LockPcs
  BY NoStateYet
<1>6. c \notin Elems(ready) /\ None \notin Callers
  BY DEF IInv, Discipline, LoopInv, FileserverConstants
<1>7. Active(c)' => l \notin RestPcs
  BY <1>6 DEF Active
<1>8. c = Watcher => serving
  BY RunsOK
<1>. QED BY <1>1, <1>3, <1>4, <1>5, <1>7, <1>8, StayStep DEF Moves, IInv

\* The loop wakes a task that had nothing to do.
LEMMA WakeStep ==
    ASSUME FileserverConstants, IInv, NEW c \in Callers, pc[c] \in RestPcs, Poll,
           NEW l \in CallerPcs \ (LockPcs \cup RestPcs), Goto(c, l),
           ready' = Append(ready, c), UNCHANGED <<running, memory, lock, pass, serving>>,
           NEW v \in Locals, loc' = [loc EXCEPT ![c] = v], v.st = None,
           l \in UserPcs => v.user \in Users, l # "readPod",
           c = Watcher => pc[c] # "off", WorldOK'
    PROVE  IInv'
<1>1. /\ loc'[c] = v /\ \A d \in Callers \ {c} : loc'[d] = loc[d]
      /\ pc' = [pc EXCEPT ![c] = l] /\ pc'[c] = l
      /\ loc' \in [Callers -> Locals]
      /\ running = None /\ running' = None
  BY DEF Goto, Poll, IInv, TypeOK
<1>2. TasksOK'
  BY <1>1, AppendElems DEF TasksOK, Goto, IInv, TypeOK
<1>3. StoreOK' /\ PassOK' /\ serving' \in BOOLEAN /\ ProgressSame
  BY DEF StoreOK, PassOK, ProgressSame, memory, IInv, TypeOK
<1>4. TypeOK'
  BY <1>2, <1>3, TypeParts
<1>5. LocalOK(c)'
  BY <1>1 DEF LocalOK
<1>6. pc[c] \notin LockPcs \cup OpPcs
  BY DEF RestPcs, LockPcs, OpPcs
<1>7. loc[c].st = None
  BY <1>6, NoStateYet
<1>8. c \notin Elems(ready)
  BY DEF IInv, Discipline, LoopInv, Active
<1>9. c = Watcher => serving
  BY DEF IInv, Discipline, LoopInv
<1>. QED BY <1>1, <1>3, <1>4, <1>5, <1>6, <1>7, <1>8, <1>9, StayStep DEF Moves, IInv

\* The end of a pass, and of startup.
LEMMA PassEndStep == ASSUME FileserverConstants, IInv, ReconcileEnd PROVE IInv'
<1>1. /\ running = Reconciler /\ pc[Reconciler] = "purge"
      /\ running' = None /\ ready' = ready /\ serving' = TRUE
      /\ UNCHANGED <<state, lock>>
      /\ Reconciler \in Callers /\ Watcher \in Callers /\ Watcher # Reconciler
      /\ None \notin Callers /\ None \notin StateIds
  BY DEF ReconcileEnd, At, Suspend, memory, FileserverConstants, Callers
<1>2. /\ pc'[Reconciler] = "timer" /\ loc'[Reconciler] = Idle
      /\ \A d \in Callers : d # Reconciler /\ (d = Watcher => serving) => pc'[d] = pc[d]
      /\ \A d \in Callers : d # Reconciler => loc'[d] = loc[d]
      /\ ~serving => pc'[Watcher] = "watching"
  BY <1>1 DEF ReconcileEnd, IInv, TypeOK
<1>4. loc[Reconciler].st = None /\ Idle.st = None
  BY <1>1, NoStateYet DEF LockPcs, OpPcs, Idle
<1>5. ~serving => pc[Watcher] = "off" /\ loc[Watcher].st = None
  <2>1. ~serving => pc[Watcher] = "off"
    BY DEF IInv, Discipline, LoopInv
  <2>2. pc[Watcher] = "off" => loc[Watcher].st = None
    BY <1>1, NoStateYet DEF LockPcs, OpPcs
  <2>. QED BY <2>1, <2>2
<1>6. TypeOK'
  <2>1. loc' \in [Callers -> Locals]
    BY DataOK DEF ReconcileEnd, IInv, TypeOK
  <2>2. pc' \in [Callers -> CallerPcs]
    BY DEF ReconcileEnd, CallerPcs, IInv, TypeOK
  <2>3. PassOK'
    BY NoPassOK DEF PassOK, ReconcileEnd
  <2>4. TasksOK' /\ StoreOK' /\ WorldOK' /\ serving' \in BOOLEAN
    BY <1>1, <2>1, <2>2 DEF TasksOK, StoreOK, WorldOK, ReconcileEnd, memory, env, IInv, TypeOK
  <2>. QED BY <2>3, <2>4, TypeParts
<1>7. LocalInv'
  <2>1. ASSUME NEW d \in Callers, d # Reconciler, d = Watcher => serving
        PROVE  loc'[d] = loc[d] /\ pc'[d] = pc[d]
    BY <1>2, <2>1
  <2>2. {"timer", "watching"} \cap (LockPcs \cup UserPcs \cup {"readPod"}) = {}
    BY DEF LockPcs, OpPcs, UserPcs
  <2>3. ~serving => pc'[Watcher] = "watching" /\ loc'[Watcher] = loc[Watcher]
    BY <1>1, <1>2
  <2>. QED BY <1>1, <1>2, <1>4, <1>5, <2>1, <2>2, <2>3 DEF IInv, Discipline, LocalInv
<1>8. /\ \A d \in Callers : Active(d)' => Active(d) /\ d # Reconciler /\ (d = Watcher => serving)
      /\ Elems(ready) \subseteq Callers
  BY <1>1, <1>5, ElemsIn DEF Active, IInv, Discipline, LoopInv, RestPcs, TypeOK
<1>9. LoopInv'
  BY <1>1, <1>2, <1>8 DEF IInv, Discipline, LoopInv
<1>10. \A d \in Callers : loc'[d].st = loc[d].st
  BY <1>2, <1>4
<1>11. ASSUME NEW s \in StateIds PROVE QueueOK(s)'
  <2>1. QueueOK(s)
    BY Queues DEF IInv, Discipline
  <2>2. Elems(lock[s]) \subseteq Callers /\ (lock[s] # <<>> => Head(lock[s]) \in Elems(lock[s]))
    BY ElemsIn, HeadIn DEF IInv, TypeOK
  <2>3. \A d \in Elems(lock[s]) : pc'[d] = pc[d] /\ (Active(d)' => Active(d))
    <3>1. ASSUME NEW d \in Elems(lock[s]) PROVE d # Reconciler /\ (d = Watcher => serving)
      BY <1>1, <1>4, <1>5, <2>1, <2>2 DEF QueueOK
    <3>. QED BY <1>2, <1>8, <2>2, <3>1
  <2>4. state'[s] = state[s] /\ lock'[s] = lock[s]
    BY <1>1
  <2>. QED BY <1>10, <2>1, <2>2, <2>3, <2>4 DEF QueueOK
<1>12. (\A s \in StateIds : QueueOK(s)') => LockInv' /\ ProgressInv'
  BY DEF LockInv, ProgressInv, QueueOK
<1>. QED BY <1>6, <1>7, <1>9, <1>11, <1>12 DEF IInv, Discipline

\* What the sets of a pass hold, and the states a pass creates.
LEMMA PassParts ==
    ASSUME PassOK
    PROVE  /\ pass.todo \subseteq Users /\ pass.valid \subseteq Users
           /\ pass.invalid \subseteq Users /\ pass.broken \subseteq Users
           /\ pass.unexpected \subseteq Users /\ pass.missing \subseteq Users
           /\ pass.pod \in {"none", "pending", "running", "exited", None}
  BY DEF PassOK

LEMMA SyncStep == ASSUME FileserverConstants, IInv, ReconcileSync PROVE IInv'
<1> DEFINE adopted == pass.valid \ KnownUsers
           broken == {u \in pass.invalid : servers[u] # None}
           fresh == CHOOSE f \in NewStates(adopted) : TRUE
<1>1. /\ running = Reconciler /\ pc[Reconciler] = "read" /\ Reconciler \in Callers
      /\ Goto(Reconciler, "purge") /\ UNCHANGED <<running, ready, loc, lock, serving, env>>
  BY DEF ReconcileSync, At, Continue, loop, Callers
<1>2. fresh \in NewStates(adopted)
  BY DEF ReconcileSync
<1>3. fresh \in [adopted -> FreeStates]
  BY <1>2 DEF NewStates
<1>4. /\ servers' = [u \in Users |-> IF u \in adopted THEN fresh[u] ELSE servers[u]]
      /\ state' = [s \in StateIds |-> IF \E u \in adopted : fresh[u] = s
                                      THEN NewState(TRUE) ELSE state[s]]
      /\ pass' = [NoPass EXCEPT !.broken = broken,
                                !.unexpected = pass.invalid \ broken,
                                !.missing = KnownUsers \ (pass.valid \cup (pass.invalid \ broken))]
  BY DEF ReconcileSync
<1>5. NewState(TRUE) \in [running : BOOLEAN, inProgress : BOOLEAN, touched : BOOLEAN]
      /\ ~NewState(TRUE).inProgress
  BY DataOK DEF NewState
<1>6. ProgressSame
  <2>1. ASSUME NEW s \in StateIds, \E u \in adopted : fresh[u] = s
        PROVE  state'[s].inProgress <=> state[s].inProgress
    <3>1. s \in FreeStates
      BY <1>3, <2>1
    <3>2. state'[s] = NewState(TRUE)
      BY <1>4, <2>1
    <3>. QED BY <1>5, <3>1, <3>2, FreeOK
  <2>2. ASSUME NEW s \in StateIds, ~\E u \in adopted : fresh[u] = s
        PROVE  state'[s].inProgress <=> state[s].inProgress
    BY <1>4, <2>2
  <2>. QED BY <2>1, <2>2 DEF ProgressSame
<1>7. StoreOK'
  <2>1. \A u \in adopted : fresh[u] \in StateIds
    BY <1>3 DEF FreeStates
  <2>2. servers' \in [Users -> StateIds \cup {None}]
    BY <1>4, <2>1 DEF IInv, TypeOK
  <2>3. state' \in [StateIds -> [running : BOOLEAN, inProgress : BOOLEAN, touched : BOOLEAN]]
    BY <1>4, <1>5 DEF IInv, TypeOK
  <2>. QED BY <1>1, <2>2, <2>3 DEF StoreOK, IInv, TypeOK
<1>8. PassOK'
  <2>1. pass.invalid \subseteq Users /\ KnownUsers \subseteq Users
    BY PassParts DEF IInv, TypeOK, PassOK, KnownUsers
  <2>2. broken \in SUBSET Users /\ pass.invalid \ broken \in SUBSET Users
        /\ KnownUsers \ (pass.valid \cup (pass.invalid \ broken)) \in SUBSET Users
    BY <2>1
  <2>3. ASSUME NEW b \in SUBSET Users, NEW x \in SUBSET Users, NEW m \in SUBSET Users
        PROVE  [NoPass EXCEPT !.broken = b, !.unexpected = x, !.missing = m]
                 \in [todo : SUBSET Users, pod : {"none", "pending", "running", "exited", None},
                      valid : SUBSET Users, invalid : SUBSET Users, broken : SUBSET Users,
                      unexpected : SUBSET Users, missing : SUBSET Users]
    BY DEF NoPass
  <2>. QED BY <1>4, <2>2, <2>3 DEF PassOK
<1>9. WorldOK' /\ loc[Reconciler] \in Locals /\ loc' = [loc EXCEPT ![Reconciler] = loc[Reconciler]]
  BY <1>1 DEF WorldOK, env, IInv, TypeOK
<1>10. /\ "purge" \in CallerPcs \ LockPcs /\ "purge" \notin RestPcs \cup UserPcs \cup {"readPod"}
       /\ "read" \notin LockPcs \cup OpPcs
  BY DEF CallerPcs, LockPcs, OpPcs, RestPcs, UserPcs
<1>11. loc[Reconciler].st = None
  BY <1>1, <1>10, NoStateYet
<1>. QED BY <1>1, <1>6, <1>7, <1>8, <1>9, <1>10, <1>11, FreeMove

LEMMA PurgeStep == ASSUME FileserverConstants, IInv, PurgeNext PROVE IInv'
<1>1. /\ running = Reconciler /\ pc[Reconciler] = "purge" /\ Reconciler \in Callers
      /\ UNCHANGED <<memory, lock, serving, env>>
  BY DEF PurgeNext, At, Callers
<1>2. StoreOK' /\ WorldOK' /\ ProgressSame
  BY <1>1 DEF StoreOK, WorldOK, ProgressSame, memory, env, IInv, TypeOK
<1>3. /\ {"purge", "delete", "rmIngress"} \subseteq CallerPcs \ (LockPcs \cup RestPcs)
      /\ "purge" \notin UserPcs \cup OpPcs \cup LockPcs
  BY DEF CallerPcs, LockPcs, OpPcs, RestPcs, UserPcs
<1>4. loc[Reconciler].st = None
  BY <1>1, <1>3, NoStateYet
<1>5. \A u \in Users : LET v == [Idle EXCEPT !.user = u] IN
                       v \in Locals /\ v.st = None /\ v.user = u
  BY DataOK DEF Idle
<1>6. loc[Reconciler] \in Locals /\ loc = [loc EXCEPT ![Reconciler] = loc[Reconciler]]
      /\ pc = [pc EXCEPT ![Reconciler] = "purge"]
  BY <1>1 DEF IInv, TypeOK
<1>7. ASSUME NEW set \in {"broken", "missing"}, PurgeKnown(set) PROVE IInv'
  <2>1. PICK u \in pass[set] :
           /\ pass' = [pass EXCEPT ![set] = @ \ {u}]
           /\ \/ UNCHANGED <<pc, loc>>
              \/ /\ Goto(Reconciler, "delete")
                 /\ loc' = [loc EXCEPT ![Reconciler] = [Idle EXCEPT !.user = u]]
           /\ Continue
    BY <1>7 DEF PurgeKnown
  <2>2. PassOK' /\ u \in Users
    BY <2>1 DEF PassOK, IInv, TypeOK
  <2>3. CASE UNCHANGED <<pc, loc>>
    <3>1. Goto(Reconciler, "purge") /\ loc' = [loc EXCEPT ![Reconciler] = loc[Reconciler]]
      BY <1>6, <2>3 DEF Goto
    <3>. QED BY <1>1, <1>2, <1>3, <1>4, <1>6, <2>1, <2>2, <3>1, FreeMove DEF Continue, loop
  <2>4. CASE /\ Goto(Reconciler, "delete")
             /\ loc' = [loc EXCEPT ![Reconciler] = [Idle EXCEPT !.user = u]]
    <3>1. PICK v \in Locals : /\ v.st = None /\ v.user = u
                              /\ loc' = [loc EXCEPT ![Reconciler] = v]
      BY <1>5, <2>2, <2>4
    <3>2. Goto(Reconciler, "delete") /\ UNCHANGED <<running, ready>>
      BY <2>1, <2>4 DEF Continue, loop
    <3>3. "delete" \in CallerPcs \ LockPcs /\ "delete" \notin RestPcs \cup {"readPod"}
          /\ pc[Reconciler] \notin LockPcs \cup OpPcs /\ running' = Reconciler
      BY <1>1, <1>3, <3>2
    <3>. QED BY <1>1, <1>2, <2>2, <3>1, <3>2, <3>3, FreeMove
  <2>. QED BY <2>1, <2>3, <2>4
<1>8. CASE PurgeUnexpected
  <2>1. PICK u \in pass.unexpected :
           /\ pass' = [pass EXCEPT !.unexpected = @ \ {u}]
           /\ \/ Continue /\ UNCHANGED <<pc, loc>>
              \/ /\ Goto(Reconciler, "rmIngress") /\ Suspend
                 /\ loc' = [loc EXCEPT ![Reconciler] = [Idle EXCEPT !.user = u]]
    BY <1>8 DEF PurgeUnexpected
  <2>2. PassOK' /\ u \in Users
    BY <2>1 DEF PassOK, IInv, TypeOK
  <2>3. CASE Continue /\ UNCHANGED <<pc, loc>>
    <3>1. Goto(Reconciler, "purge") /\ loc' = [loc EXCEPT ![Reconciler] = loc[Reconciler]]
      BY <1>6, <2>3 DEF Goto
    <3>. QED BY <1>1, <1>2, <1>3, <1>4, <1>6, <2>2, <2>3, <3>1, FreeMove DEF Continue, loop
  <2>4. CASE /\ Goto(Reconciler, "rmIngress") /\ Suspend
             /\ loc' = [loc EXCEPT ![Reconciler] = [Idle EXCEPT !.user = u]]
    <3>1. PICK v \in Locals : /\ v.st = None /\ v.user = u
                              /\ loc' = [loc EXCEPT ![Reconciler] = v]
      BY <1>5, <2>2, <2>4
    <3>2. Goto(Reconciler, "rmIngress") /\ running' = None /\ UNCHANGED ready
      BY <2>4 DEF Suspend
    <3>3. "rmIngress" \in CallerPcs \ LockPcs /\ "rmIngress" # "readPod"
          /\ pc[Reconciler] \notin LockPcs \cup OpPcs
      BY <1>1, <1>3
    <3>. QED BY <1>1, <1>2, <2>2, <3>1, <3>2, <3>3, FreeMove
  <2>. QED BY <2>1, <2>3, <2>4
<1>. QED BY <1>7, <1>8 DEF PurgeNext

LEMMA ReadStep ==
    ASSUME FileserverConstants, IInv, ReadNext \/ ReadPod \/ ReadIngress
    PROVE  IInv'
<1>1. Reconciler \in Callers /\ loc[Reconciler] \in Locals /\ PassOK
  BY DEF Callers, IInv, TypeOK, PassOK
<1>2. /\ {"read", "readPod", "readIngress"} \subseteq CallerPcs \ (LockPcs \cup OpPcs \cup RestPcs)
      /\ {"readPod", "readIngress"} \subseteq UserPcs /\ "read" \notin UserPcs
  BY DEF CallerPcs, LockPcs, OpPcs, RestPcs, UserPcs
<1>3. pc[Reconciler] \in {"read", "readPod", "readIngress"} => loc[Reconciler].st = None
  BY <1>1, <1>2, NoStateYet
<1>4. CASE ReadNext
  <2>1. PICK u \in pass.todo :
           /\ pass' = [pass EXCEPT !.todo = @ \ {u}]
           /\ loc' = [loc EXCEPT ![Reconciler].user = u, ![Reconciler].reply = None]
    BY <1>4 DEF ReadNext
  <2>2. PassOK' /\ u \in Users
    BY <1>1, <2>1 DEF PassOK
  <2> DEFINE v == [loc[Reconciler] EXCEPT !.user = u, !.reply = None]
  <2>3. v \in Locals /\ v.st = loc[Reconciler].st /\ v.user = u /\ v.reply = None
    BY <1>1, <2>2 DEF Locals
  <2>4. loc' = [loc EXCEPT ![Reconciler] = v]
    BY <1>1, <2>1 DEF IInv, TypeOK
  <2>5. /\ running = Reconciler /\ pc[Reconciler] = "read" /\ Goto(Reconciler, "readPod")
        /\ running' = None /\ UNCHANGED <<ready, lock, serving>>
        /\ StoreOK' /\ WorldOK' /\ ProgressSame
    BY <1>4 DEF ReadNext, At, Suspend, memory, env, StoreOK, WorldOK, ProgressSame, IInv, TypeOK
  <2>6. None \in PodReplies
    BY DEF PodReplies
  <2>. QED BY <1>1, <1>2, <1>3, <2>2, <2>3, <2>4, <2>5, <2>6, FreeMove
<1>5. CASE ReadPod
  <2>1. /\ running = Reconciler /\ pc[Reconciler] = "readPod" /\ Await(Reconciler, "readIngress")
        /\ UNCHANGED <<memory, lock, serving, env>>
        /\ loc[Reconciler].reply # "error"
        /\ pass' = [pass EXCEPT !.pod = PodAfter(loc[Reconciler].reply)]
    BY <1>5 DEF ReadPod, At
  <2>2. loc[Reconciler].reply \in PodReplies /\ loc[Reconciler].user \in Users
    BY <1>1, <1>2, <2>1 DEF IInv, Discipline, LocalInv
  <2>3. PodAfter(loc[Reconciler].reply) \in {"none", "pending", "running", "exited", None}
    BY <1>1, <2>1, <2>2, PassParts DEF PodAfter, PodReplies
  <2>4. PassOK'
    BY <1>1, <2>1, <2>3 DEF PassOK
  <2>5. StoreOK' /\ WorldOK' /\ ProgressSame
    BY <2>1 DEF memory, env, StoreOK, WorldOK, ProgressSame, IInv, TypeOK
  <2>. QED BY <1>1, <1>2, <1>3, <2>1, <2>2, <2>4, <2>5, AwaitStep
<1>6. CASE ReadIngress
  <2>1. /\ running = Reconciler /\ pc[Reconciler] = "readIngress" /\ UNCHANGED state
    BY <1>6 DEF ReadIngress, At
  <2>2. CASE Return(Reconciler, None, "failed")
    BY <1>1, <1>3, <2>1, <2>2, PlainEnd
  <2>3. CASE /\ \/ pass' = [pass EXCEPT !.valid = @ \cup {loc[Reconciler].user}]
                \/ pass' = [pass EXCEPT !.invalid = @ \cup {loc[Reconciler].user}]
             /\ Goto(Reconciler, "read") /\ Continue
             /\ UNCHANGED <<loc, servers, lock, serving, env>>
    <3>1. loc[Reconciler].user \in Users
      BY <1>1, <1>2, <2>1 DEF IInv, Discipline, LocalInv
    <3>2. PassOK'
      BY <1>1, <2>3, <3>1 DEF PassOK
    <3>3. StoreOK' /\ WorldOK' /\ ProgressSame
      BY <2>1, <2>3 DEF memory, env, StoreOK, WorldOK, ProgressSame, IInv, TypeOK
    <3>4. loc' = [loc EXCEPT ![Reconciler] = loc[Reconciler]]
      BY <2>3 DEF IInv, TypeOK
    <3>. QED BY <1>1, <1>2, <1>3, <2>1, <2>3, <3>2, <3>3, <3>4, FreeMove DEF Continue, loop
  <2>. QED BY <1>6, <2>2, <2>3 DEF ReadIngress
<1>. QED BY <1>4, <1>5, <1>6

\* What the beginning of a pass does to every _State.
LEMMA ResetOK ==
    ASSUME NEW r \in [running : BOOLEAN, inProgress : BOOLEAN, touched : BOOLEAN]
    PROVE  /\ [r EXCEPT !.touched = FALSE] \in [running : BOOLEAN, inProgress : BOOLEAN, touched : BOOLEAN]
           /\ [r EXCEPT !.touched = FALSE].inProgress = r.inProgress
  OBVIOUS

LEMMA ReconcileStepInv == ASSUME FileserverConstants, IInv, ReconcileStep PROVE IInv'
<1>1. Reconciler \in Callers
  BY DEF Callers
<1>2. /\ {"begin", "list", "read"} \subseteq CallerPcs \ (LockPcs \cup OpPcs \cup RestPcs \cup UserPcs)
      /\ {"list", "readPod", "readIngress"} \cap (LockPcs \cup OpPcs) = {}
  BY DEF CallerPcs, LockPcs, OpPcs, RestPcs, UserPcs
<1>3. CASE ReconcileBegin
  <2>1. /\ running = Reconciler /\ pc[Reconciler] = "begin" /\ Await(Reconciler, "list")
        /\ UNCHANGED <<servers, lock, serving, env>> /\ pass' = NoPass
        /\ state' = [s \in StateIds |-> [state[s] EXCEPT !.touched = FALSE]]
    BY <1>3 DEF ReconcileBegin, At
  <2>2. StoreOK' /\ ProgressSame
    <3>1. state \in [StateIds -> [running : BOOLEAN, inProgress : BOOLEAN, touched : BOOLEAN]]
      BY DEF IInv, TypeOK
    <3>2. \A s \in StateIds : state'[s] = [state[s] EXCEPT !.touched = FALSE]
      BY <2>1
    <3>3. ASSUME NEW s \in StateIds
          PROVE  /\ state'[s] \in [running : BOOLEAN, inProgress : BOOLEAN, touched : BOOLEAN]
                 /\ state'[s].inProgress = state[s].inProgress
      BY <3>1, <3>2, ResetOK
    <3>4. state' \in [StateIds -> [running : BOOLEAN, inProgress : BOOLEAN, touched : BOOLEAN]]
      BY <2>1, <3>3
    <3>. QED BY <2>1, <3>3, <3>4 DEF StoreOK, ProgressSame, IInv, TypeOK
  <2>3. PassOK' /\ WorldOK'
    BY <2>1, NoPassOK DEF PassOK, WorldOK, env, IInv, TypeOK
  <2>4. loc[Reconciler].st = None
    BY <1>1, <1>2, <2>1, NoStateYet
  <2>. QED BY <1>1, <1>2, <2>1, <2>2, <2>3, <2>4, AwaitStep
<1>4. CASE ReadFails
  <2>1. /\ running = Reconciler /\ pc[Reconciler] \in {"list", "readPod", "readIngress"}
        /\ Return(Reconciler, None, "failed") /\ UNCHANGED state
    BY <1>4 DEF ReadFails, Replied, At
  <2>2. loc[Reconciler].st = None
    BY <1>1, <1>2, <2>1, NoStateYet
  <2>. QED BY <1>1, <2>1, <2>2, PlainEnd
<1>5. CASE ReconcileListed
  <2>1. /\ running = Reconciler /\ pc[Reconciler] = "list" /\ Goto(Reconciler, "read")
        /\ UNCHANGED <<running, ready, loc, lock, serving>>
        /\ loc[Reconciler] \in Locals /\ loc' = [loc EXCEPT ![Reconciler] = loc[Reconciler]]
        /\ StoreOK' /\ PassOK' /\ WorldOK' /\ ProgressSame
    BY <1>1, <1>5 DEF ReconcileListed, Replied, At, Continue, loop, memory, env, StoreOK, PassOK,
                      WorldOK, ProgressSame, IInv, TypeOK
  <2>2. loc[Reconciler].st = None
    BY <1>1, <1>2, <2>1, NoStateYet
  <2>. QED BY <1>1, <1>2, <2>1, <2>2, FreeMove
<1>6. CASE ReadNext \/ ReadPod \/ ReadIngress
  BY <1>6, ReadStep
<1>7. CASE ReconcileSync
  BY <1>7, SyncStep
<1>8. CASE PurgeNext
  BY <1>8, PurgeStep
<1>9. CASE ReconcileEnd
  BY <1>9, PassEndStep
<1>. QED BY <1>3, <1>4, <1>5, <1>6, <1>7, <1>8, <1>9 DEF ReconcileStep

\* The tasks that wait: the timer of reconcile, events of pods, new requests.
LEMMA WakeStepInv ==
    ASSUME FileserverConstants, IInv,
           Timer \/ (\E u \in Users : WatchNotice(u)) \/ (\E r \in Requests : Arrive(r))
    PROVE  IInv'
<1>1. /\ Reconciler \in Callers /\ Watcher \in Callers /\ Requests \subseteq Callers
      /\ Watcher # Reconciler /\ Watcher \notin Requests
  BY DEF Callers, FileserverConstants
<1>2. /\ {"begin", "create", "delete"} \subseteq CallerPcs \ (LockPcs \cup RestPcs)
      /\ "begin" \notin UserPcs /\ {"timer", "watching", "idle"} \subseteq RestPcs
  BY DEF CallerPcs, LockPcs, OpPcs, RestPcs, UserPcs
<1>3. CASE Timer
  <2>1. /\ Poll /\ pc[Reconciler] = "timer" /\ Goto(Reconciler, "begin")
        /\ ready' = Append(ready, Reconciler)
        /\ UNCHANGED <<running, memory, lock, pass, serving>>
        /\ loc[Reconciler] \in Locals /\ loc' = [loc EXCEPT ![Reconciler] = loc[Reconciler]]
        /\ WorldOK'
    BY <1>1, <1>3 DEF Timer, env, WorldOK, IInv, TypeOK
  <2>2. loc[Reconciler].st = None
    BY <1>1, <2>1, NoStateYet DEF LockPcs, OpPcs
  <2>. QED BY <1>1, <1>2, <2>1, <2>2, WakeStep
<1>4. CASE \E u \in Users : WatchNotice(u)
  <2>1. PICK u \in Users : WatchNotice(u)
    BY <1>4
  <2>2. /\ Poll /\ pc[Watcher] = "watching" /\ Goto(Watcher, "delete")
        /\ ready' = Append(ready, Watcher)
        /\ UNCHANGED <<running, memory, lock, pass, serving>>
        /\ WorldOK'
    BY <2>1 DEF WatchNotice, WorldOK, IInv, TypeOK
  <2>3. PICK v \in Locals : v.st = None /\ v.user = u /\ loc' = [loc EXCEPT ![Watcher] = v]
    BY <2>1, DataOK DEF WatchNotice, Idle
  <2>. QED BY <1>1, <1>2, <2>2, <2>3, WakeStep
<1>5. CASE \E r \in Requests : Arrive(r)
  <2>1. PICK r \in Requests : Arrive(r)
    BY <1>5
  <2>2. PICK u \in Users, kind \in {"create", "delete"} :
           /\ loc' = [loc EXCEPT ![r] = [Idle EXCEPT !.user = u, !.kind = kind]]
           /\ Goto(r, kind)
    BY <2>1 DEF Arrive
  <2>3. /\ Poll /\ pc[r] = "idle"
        /\ ready' = Append(ready, r)
        /\ UNCHANGED <<running, memory, lock, pass, serving>>
        /\ WorldOK'
    BY <2>1 DEF Arrive, env, WorldOK, IInv, TypeOK
  <2>4. PICK v \in Locals : v.st = None /\ v.user = u /\ loc' = [loc EXCEPT ![r] = v]
    BY <2>2, DataOK DEF Idle
  <2>5. r \in Callers /\ r # Watcher /\ kind # "readPod" /\ kind \in CallerPcs \ (LockPcs \cup RestPcs)
        /\ Goto(r, kind)
    BY <1>1, <1>2, <2>2
  <2>. QED BY <1>1, <1>2, <2>3, <2>4, <2>5, WakeStep
<1>. QED BY <1>3, <1>4, <1>5

\* One fault more.
LEMMA FaultOK == ASSUME FileserverConstants, TypeOK, Fault PROVE faults' \in 0..MaxFaults
  BY DEF Fault, TypeOK, FileserverConstants

LEMMA WatchFailsInv == ASSUME FileserverConstants, IInv, WatchFails PROVE IInv'
<1>1. /\ Watcher \in Callers /\ pc[Watcher] = "watching" /\ Goto(Watcher, "watchReport")
      /\ loc' = [loc EXCEPT ![Watcher] = Idle] /\ notices' = {}
      /\ UNCHANGED <<running, ready, memory, lock, pass, serving, k8s>>
  BY DEF WatchFails, loop, Callers
<1>2. /\ loc'[Watcher] = Idle /\ \A d \in Callers \ {Watcher} : loc'[d] = loc[d]
      /\ pc' = [pc EXCEPT ![Watcher] = "watchReport"] /\ pc'[Watcher] = "watchReport"
  BY <1>1 DEF Goto, IInv, TypeOK
<1>3. "watching" \notin LockPcs \cup OpPcs /\ "watchReport" \notin LockPcs \cup UserPcs
      /\ "watchReport" \in CallerPcs /\ "watching" \in RestPcs /\ "watchReport" \notin RestPcs
  BY DEF CallerPcs, LockPcs, OpPcs, RestPcs, UserPcs
<1>4. loc[Watcher].st = None /\ Idle.st = None
  BY <1>1, <1>3, NoStateYet DEF Idle
<1>5. TypeOK'
  <2>1. faults' \in 0..MaxFaults
    BY FaultOK DEF WatchFails, IInv
  <2>2. loc' \in [Callers -> Locals]
    BY <1>1, DataOK DEF IInv, TypeOK
  <2>3. TasksOK' /\ StoreOK' /\ PassOK' /\ WorldOK' /\ serving' \in BOOLEAN
    BY <1>1, <1>3, <2>1, <2>2 DEF TasksOK, StoreOK, PassOK, WorldOK, Goto, memory, IInv, TypeOK
  <2>. QED BY <2>3, TypeParts
<1>6. LocalOK(Watcher)' /\ ProgressSame
  BY <1>1, <1>2, <1>3 DEF LocalOK, ProgressSame, memory
<1>7. serving
  BY <1>1 DEF IInv, Discipline, LoopInv
<1>. QED BY <1>1, <1>2, <1>3, <1>4, <1>5, <1>6, <1>7, StayStep DEF Moves, IInv

LEMMA WatchResumesInv == ASSUME FileserverConstants, IInv, WatchResumes PROVE IInv'
<1>1. /\ Watcher \in Callers /\ running = Watcher /\ pc[Watcher] = "watchReport"
      /\ Goto(Watcher, "watching") /\ running' = None /\ UNCHANGED <<ready, lock, serving>>
      /\ loc' = [loc EXCEPT ![Watcher] = Idle]
      /\ StoreOK' /\ PassOK' /\ WorldOK' /\ ProgressSame
  BY DEF WatchResumes, At, Suspend, memory, env, StoreOK, PassOK, WorldOK, ProgressSame, Callers,
         IInv, TypeOK
<1>2. "watchReport" \notin LockPcs \cup OpPcs /\ "watching" \in CallerPcs \ (LockPcs \cup UserPcs)
  BY DEF CallerPcs, LockPcs, OpPcs, UserPcs
<1>3. Idle \in Locals /\ Idle.st = None
  BY DataOK DEF Idle
<1>. QED BY <1>1, <1>2, <1>3, FreeMove

-----------------------------------------------------------------------------
(* Kubernetes, the reporting services, and the process *)

LEMMA EffectOK ==
    ASSUME NEW call \in Mutating, NEW k \in Objects
    PROVE  Effect(call, k) \in Objects
<1>1. call \in {"mkIngress", "rmIngress", "mkJob", "rmJob"}
  BY DEF Mutating
<1>2. CASE call = "mkIngress"
  BY <1>2 DEF Effect, Objects
<1>3. CASE call = "rmIngress"
  BY <1>3 DEF Effect, Objects
<1>4. CASE call = "mkJob"
  BY <1>4 DEF Effect, Objects
<1>5. CASE call = "rmJob"
  BY <1>5 DEF Effect, Objects
<1>. QED BY <1>1, <1>2, <1>3, <1>4, <1>5

LEMMA ApplyOK ==
    ASSUME TypeOK, NEW call \in Mutating, NEW u \in Users, Apply(call, u)
    PROVE  k8s' \in [Users -> Objects] /\ notices' \in SUBSET Users
<1>1. Effect(call, k8s[u]) \in Objects
  BY EffectOK DEF TypeOK
<1>2. k8s' = [k8s EXCEPT ![u] = Effect(call, k8s[u])]
  BY DEF Apply
<1>3. notices' \in SUBSET Users
  BY DEF Apply, Notify, TypeOK
<1>. QED BY <1>1, <1>2, <1>3 DEF TypeOK

LEMMA AnswerInv == ASSUME FileserverConstants, IInv, Answer PROVE IInv'
<1>1. /\ {"ok", "error"} \subseteq Replies /\ "error" \in PodReplies
      /\ "readPod" \notin OpPcs \cup {"watchReport"}
  BY DEF Replies, PodReplies, OpPcs
<1>2. ASSUME NEW c \in Callers, CallReply(c) PROVE IInv'
  <2>1. PICK r \in {"ok", "error"} : Reply(c, r)
    BY <1>2 DEF CallReply
  <2>2. Waits(c, Mutating) /\ pc[c] \in Mutating /\ UNCHANGED pass
    BY <1>2 DEF CallReply, Waits
  <2>3. pc[c] \in OpPcs /\ pc[c] \in UserPcs
    BY <2>2 DEF Mutating, OpPcs, UserPcs
  <2>4. loc[c].user \in Users
    BY <2>3 DEF IInv, Discipline, LocalInv
  <2>5. k8s' \in [Users -> Objects] /\ notices' \in SUBSET Users
    <3>1. \/ Apply(pc[c], loc[c].user)
          \/ Apply("rmJob", loc[c].user)
          \/ UNCHANGED <<k8s, notices>>
      BY <1>2 DEF CallReply
    <3>2. "rmJob" \in Mutating
      BY DEF Mutating
    <3>. QED BY <2>2, <2>4, <3>1, <3>2, ApplyOK DEF IInv, TypeOK
  <2>6. faults' \in 0..MaxFaults
    BY <1>2, FaultOK DEF CallReply, IInv, TypeOK
  <2>. QED BY <1>1, <2>1, <2>2, <2>3, <2>5, <2>6, ReplyStep DEF PassOK, WorldOK, IInv, TypeOK
<1>3. ASSUME NEW c \in Callers, ReportReply(c) PROVE IInv'
  <2>1. /\ Waits(c, {"createReport", "rmReport", "watchReport"}) /\ Reply(c, "ok")
        /\ pc[c] \in OpPcs \cup {"watchReport"}
        /\ PassOK' /\ WorldOK'
    BY <1>3 DEF ReportReply, Waits, OpPcs, PassOK, WorldOK, env, IInv, TypeOK
  <2>. QED BY <1>1, <2>1, ReplyStep
<1>4. ASSUME NEW r \in Requests, WaitReply(r) PROVE IInv'
  <2>1. PICK a \in {"ok", "error"} : Reply(r, a)
    BY <1>4 DEF WaitReply
  <2>2. /\ r \in Callers
        /\ Waits(r, {"waitIngress", "waitPod", "waitStart"}) /\ pc[r] \in OpPcs
        /\ UNCHANGED <<pass, k8s, notices>>
    BY <1>4 DEF WaitReply, Waits, OpPcs, Callers
  <2>3. faults' \in 0..MaxFaults
    BY <1>4, FaultOK DEF WaitReply, IInv, TypeOK
  <2>. QED BY <1>1, <2>1, <2>2, <2>3, ReplyStep DEF PassOK, WorldOK, IInv, TypeOK
<1>5. CASE ReadReply
  <2> DEFINE u == loc[Reconciler].user
  <2>1. /\ Reconciler \in Callers
        /\ Waits(Reconciler, {"list", "readPod", "readIngress"})
        /\ pc[Reconciler] \in {"list", "readPod", "readIngress"}
        /\ UNCHANGED <<k8s, notices>>
    BY <1>5 DEF ReadReply, Waits, Callers
  <2>2. pc[Reconciler] # "list" => u \in Users
    BY <2>1 DEF IInv, Discipline, LocalInv, UserPcs
  <2>3. u \in Users => /\ k8s[u].job \in Replies \cap PodReplies
                       /\ k8s[u].ingress \in Replies
    BY DEF IInv, TypeOK, Objects, Replies, PodReplies
  <2>4. PICK r \in Replies : Reply(Reconciler, r) /\ (pc[Reconciler] = "readPod" => r \in PodReplies)
    BY <1>1, <1>5, <2>1, <2>2, <2>3 DEF ReadReply
  <2>5. PassOK'
    <3>1. {v \in Users : k8s[v].job # "none"} \in SUBSET Users
      OBVIOUS
    <3>. QED BY <1>5, <3>1 DEF ReadReply, PassOK, IInv, TypeOK
  <2>6. WorldOK'
    BY <1>5, <2>1, FaultOK DEF ReadReply, WorldOK, IInv, TypeOK
  <2>. QED BY <2>1, <2>4, <2>5, <2>6, ReplyStep
<1>6. CASE Timer \/ \E u \in Users : WatchNotice(u)
  BY <1>6, WakeStepInv
<1>. QED BY <1>2, <1>3, <1>4, <1>5, <1>6 DEF Answer

LEMMA ClusterInv ==
    ASSUME FileserverConstants, IInv, NEW u \in Users,
           IngressReady(u) \/ PodStarts(u) \/ PodExits(u) \/ PodRetried(u) \/ JobLost(u)
    PROVE  IInv'
<1>1. PICK k : Cluster(u, k) /\ k \in Objects
  <2>1. k8s[u] \in Objects
    BY DEF IInv, TypeOK
  <2>. QED BY <2>1 DEF IngressReady, PodStarts, PodExits, PodRetried, JobLost, Objects
<1>2. /\ UNCHANGED <<running, ready, pc, loc, servers, state, lock, pass, serving>>
      /\ k8s' = [k8s EXCEPT ![u] = k]
  BY <1>1 DEF Cluster, loop, memory
<1>3. notices' \in SUBSET Users /\ faults' \in 0..MaxFaults
  BY FaultOK DEF IngressReady, PodStarts, PodExits, PodRetried, JobLost, Notify, IInv, TypeOK
<1>4. TypeOK'
  BY <1>1, <1>2, <1>3 DEF IInv, TypeOK
<1>. QED BY <1>2, <1>4, IdleStep DEF IInv

\* What Init and Restart have in common.
LEMMA BootOK ==
    /\ NoServers \in [Users -> StateIds \cup {None}]
    /\ NoStates \in [StateIds -> [running : BOOLEAN, inProgress : BOOLEAN, touched : BOOLEAN]]
    /\ NoLocks \in [StateIds -> Seq(Callers)]
    /\ [c \in Callers |-> Idle] \in [Callers -> Locals]
    /\ <<Reconciler>> \in Seq(Callers)
    /\ BootPc \in [Callers -> CallerPcs]
    /\ FileserverConstants => /\ BootPc[Reconciler] = "begin" /\ BootPc[Watcher] = "off"
                              /\ \A r \in Requests : BootPc[r] = "idle"
<1>1. Reconciler \in Callers /\ Watcher \in Callers /\ Requests \subseteq Callers
  BY DEF Callers
<1>2. NoServers \in [Users -> StateIds \cup {None}] /\ NoLocks \in [StateIds -> Seq(Callers)]
  BY DEF NoServers, NoLocks
<1>3. NoStates \in [StateIds -> [running : BOOLEAN, inProgress : BOOLEAN, touched : BOOLEAN]]
  BY DEF NoStates
<1>4. [c \in Callers |-> Idle] \in [Callers -> Locals]
  BY DataOK
<1>5. <<Reconciler>> \in Seq(Callers)
  BY <1>1
<1>6. BootPc \in [Callers -> CallerPcs]
  BY DEF BootPc, CallerPcs
<1>7. FileserverConstants => /\ BootPc[Reconciler] = "begin" /\ BootPc[Watcher] = "off"
                             /\ \A r \in Requests : BootPc[r] = "idle"
  BY <1>1 DEF BootPc, FileserverConstants
<1>. QED BY <1>2, <1>3, <1>4, <1>5, <1>6, <1>7

LEMMA InitInv == FileserverConstants /\ Init => IInv
<1>. SUFFICES ASSUME FileserverConstants, Init PROVE IInv
  OBVIOUS
<1>1. TypeOK
  <2>1. k8s \in [Users -> Objects]
    BY DEF Init, FileserverConstants
  <2>2. pass \in [todo : SUBSET Users, pod : {"none", "pending", "running", "exited", None},
                  valid : SUBSET Users, invalid : SUBSET Users, broken : SUBSET Users,
                  unexpected : SUBSET Users, missing : SUBSET Users]
    BY NoPassOK DEF Init
  <2>3. faults \in 0..MaxFaults
    BY DEF Init, FileserverConstants
  <2>. QED BY <2>1, <2>2, <2>3, BootOK DEF Init, TypeOK
<1>2. Booted
  BY BootOK DEF Init, Booted
<1>. QED BY <1>1, <1>2, FreshDiscipline DEF IInv

\* Whatever happens to the process, it starts afresh.
LEMMA RestartInv ==
    ASSUME FileserverConstants, IInv, Restart, faults' \in 0..MaxFaults
    PROVE  IInv'
<1> DEFINE calls == [c \in Callers |-> IF c \in Requests /\ pc[c] # "idle" THEN "over" ELSE BootPc[c]]
<1>1. /\ running' = None /\ ready' = <<Reconciler>> /\ servers' = NoServers /\ state' = NoStates
      /\ lock' = NoLocks /\ pass' = NoPass /\ serving' = FALSE /\ notices' = {}
      /\ pc' = calls /\ loc' = [c \in Callers |-> Idle]
  BY DEF Restart
<1>2. k8s' \in [Users -> Objects]
  <2>1. CASE UNCHANGED k8s
    BY <2>1 DEF IInv, TypeOK
  <2>2. CASE \E c \in {d \in Callers : pc[d] \in Mutating /\ ~Scheduled(d)} :
                k8s' = [k8s EXCEPT ![loc[c].user] = Effect(pc[c], @)]
    <3>1. PICK c \in Callers : /\ pc[c] \in Mutating
                               /\ k8s' = [k8s EXCEPT ![loc[c].user] = Effect(pc[c], @)]
      BY <2>2
    <3>2. pc[c] \in UserPcs
      BY <3>1 DEF Mutating, OpPcs, UserPcs
    <3>3. loc[c].user \in Users
      BY <3>2 DEF IInv, Discipline, LocalInv
    <3>4. Effect(pc[c], k8s[loc[c].user]) \in Objects
      BY <3>1, <3>3, EffectOK DEF IInv, TypeOK
    <3>. QED BY <3>1, <3>4 DEF IInv, TypeOK
  <2>. QED BY <2>1, <2>2 DEF Restart
<1>3. calls \in [Callers -> CallerPcs]
  <2>1. \A c \in Callers : BootPc[c] \in CallerPcs
    BY BootOK
  <2>2. "over" \in CallerPcs
    BY DEF CallerPcs
  <2>. QED BY <2>1, <2>2
<1>4. /\ calls[Reconciler] = "begin" /\ calls[Watcher] = "off"
      /\ \A r \in Requests : calls[r] \in {"idle", "over"}
  BY BootOK DEF Callers, FileserverConstants
<1>5. TypeOK'
  <2>1. pass' \in [todo : SUBSET Users, pod : {"none", "pending", "running", "exited", None},
                   valid : SUBSET Users, invalid : SUBSET Users, broken : SUBSET Users,
                   unexpected : SUBSET Users, missing : SUBSET Users]
    BY <1>1, NoPassOK
  <2>. QED BY <1>1, <1>2, <1>3, <2>1, BootOK DEF TypeOK
<1>6. Booted'
  BY <1>1, <1>4 DEF Booted
<1>7. Booted' => Discipline'
  BY FreshDiscipline, PTL
<1>. QED BY <1>5, <1>6, <1>7 DEF IInv

-----------------------------------------------------------------------------
(* Theorems *)

LEMMA StepInv == FileserverConstants /\ IInv /\ [Next]_vars => IInv'
<1>. SUFFICES ASSUME FileserverConstants, IInv, [Next]_vars PROVE IInv'
  OBVIOUS
<1>1. CASE Dispatch
  <2>1. TypeOK'
    <3>1. /\ ready \in Seq(Callers) /\ ready # <<>> /\ Distinct(ready)
          /\ running' = Head(ready) /\ ready' = Tail(ready)
          /\ UNCHANGED <<pc, loc, memory, lock, pass, serving, env>>
      BY <1>1 DEF Dispatch, IInv, TypeOK, Discipline, LoopInv
    <3>2. running' \in Callers \cup {None} /\ ready' \in Seq(Callers)
      BY <3>1, TailElems
    <3>. QED BY <3>1, <3>2 DEF memory, env, IInv, TypeOK
  <2>. QED BY <1>1, <2>1, DispatchStep DEF IInv
<1>2. CASE \E r \in Requests : CreateStep(r)
  BY <1>2, CreateStepInv
<1>3. CASE \E c \in Callers : DeleteStep(c)
  BY <1>3, DeleteStepInv
<1>4. CASE ReconcileStep
  BY <1>4, ReconcileStepInv
<1>5. CASE WatchResumes
  BY <1>5, WatchResumesInv
<1>6. CASE Answer
  BY <1>6, AnswerInv
<1>7. CASE \E r \in Requests : Arrive(r)
  BY <1>7, WakeStepInv
<1>8. CASE WatchFails
  BY <1>8, WatchFailsInv
<1>9. CASE \E u \in Users : IngressReady(u) \/ PodStarts(u) \/ PodExits(u)
                              \/ PodRetried(u) \/ JobLost(u)
  BY <1>9, ClusterInv
<1>10. CASE StartupFails
  BY <1>10, RestartInv DEF StartupFails, IInv, TypeOK
<1>11. CASE Crash
  BY <1>11, RestartInv, FaultOK DEF Crash, IInv
<1>12. CASE UNCHANGED vars
  <2>1. TypeOK' /\ UNCHANGED <<running, ready, pc, loc, lock, state, serving>>
    BY <1>12 DEF vars, loop, memory, env, IInv, TypeOK
  <2>. QED BY <2>1, IdleStep DEF IInv
<1>. QED BY <1>1, <1>2, <1>3, <1>4, <1>5, <1>6, <1>7, <1>8, <1>9, <1>10, <1>11, <1>12
         DEF Next, LoopStep

\* The discipline of the event loop and of _State.lock: every caller that refers
\* to a _State is in the queue of its lock, and all but the first are suspended.
THEOREM Invariant == Spec => []IInv
<1>1. Init => IInv
  BY InitInv, FileserverConstants
<1>2. IInv /\ [Next]_vars => IInv'
  BY StepInv, FileserverConstants
<1>. QED BY <1>1, <1>2, PTL DEF Spec

\* Every variable of the file server manager always has its type: what the
\* reconciler reads of pods (read_fileserver_state), the users that callers work
\* for, and the _State objects they hold are what the code takes them for.
THEOREM TypeCorrect == Spec => []TypeOK
<1>1. IInv => TypeOK
  BY DEF IInv
<1>. QED BY <1>1, Invariant, PTL

\* _State.lock and in_progress (create, delete): one operation at a time works on
\* a _State, and in_progress says whether one does, whatever requests, reconcile,
\* the watcher, failures and crashes interleave.
THEOREM OneOperationHolds == Spec => []OneOperationPerState
<1>1. IInv => OneOperationPerState
  <2>. SUFFICES ASSUME IInv, FileserverConstants, NEW s \in StateIds
                PROVE  LET working == {c \in Callers : Operating(c) /\ loc[c].st = s} IN
                       /\ \A c, d \in working : c = d
                       /\ state[s].inProgress <=> working # {}
    BY FileserverConstants DEF OneOperationPerState
  <2> DEFINE working == {c \in Callers : Operating(c) /\ loc[c].st = s}
  <2>1. \A c \in Callers : Operating(c) <=> loc[c].st # None /\ pc[c] \in OpPcs
    BY DEF Operating, Mutating, OpPcs
  <2>2. s # None
    BY DEF FileserverConstants
  <2>3. \A c \in working : lock[s] # <<>> /\ Head(lock[s]) = c
    BY <2>1, OwnQueue
  <2>4. state[s].inProgress => working # {}
    <3>. SUFFICES ASSUME state[s].inProgress PROVE working # {}
      OBVIOUS
    <3>1. lock[s] # <<>> /\ pc[Head(lock[s])] \in OpPcs
      BY DEF IInv, Discipline, ProgressInv
    <3>2. Head(lock[s]) \in Elems(lock[s]) /\ Head(lock[s]) \in Callers
      BY <3>1, HeadIn DEF IInv, TypeOK
    <3>3. loc[Head(lock[s])].st = s
      BY <3>2 DEF IInv, Discipline, LockInv
    <3>. QED BY <2>1, <2>2, <3>1, <3>2, <3>3
  <2>5. working # {} => state[s].inProgress
    BY <2>1, <2>3 DEF IInv, Discipline, ProgressInv
  <2>. QED BY <2>3, <2>4, <2>5
<1>. QED BY <1>1, Invariant, PTL
=============================================================================
