-------------------------- MODULE LabManagerProofs --------------------------
(***************************************************************************)
(* Theorems about LabManager, for any number of users, requests,           *)
(* operation and state objects and failures.                               *)
(*                                                                         *)
(* OneOperation is not inductive: it holds because whoever changes         *)
(* _operation owns the user's lock, and because cancel() and wait() clear  *)
(* only operations whose task is over.  Both need the discipline of the    *)
(* event loop (no task is scheduled twice, or while it runs) and of the    *)
(* lock (its owner is the only caller past it that can run).               *)
(*                                                                         *)
(* DeleteNeverCancelled and CancellationContained need the order of the    *)
(* callers in the queue of a lock (OrderInv).  SpawnOwnsState needs the    *)
(* order of the tasks in the queue of the loop too: a caller of delete_lab *)
(* whose operation somebody else has collected runs on before the task of  *)
(* an operation that was started since (RaceInv).                          *)
(***************************************************************************)
EXTENDS LabManager, TLAPS

-----------------------------------------------------------------------------
(* The inductive invariant *)

Elems(s) == {s[i] : i \in 1..Len(s)}
Distinct(s) == \A i, j \in 1..Len(s) : s[i] = s[j] => i = j

\* The task runs or is scheduled.
Active(t) == running = t \/ t \in Elems(ready)

\* Callers that asked for their user's lock and have not released it.
LockPcs == {"spawn", "cancel", "cancelled", "cancelReport", "remove", "capture",
            "collect", "waitReport", "monitor"}

\* Those of them that were suspended while they owned it.
HoldPcs == {"cancelled", "cancelReport", "waitReport"}

UserPcs == LockPcs \cup {"create", "image", "phase", "phaseReport", "check", "delete",
                         "terminate", "deleted", "wait", "complete", "read", "malformed"}

\* Local variables are set where the code relies on them.
LocalsInv ==
    /\ \A c \in Callers : pc[c] \in UserPcs => loc[c].user \in Users
    /\ \A r \in Requests : loc[r].val \in Phases \cup {None, "error"}

\* No task is scheduled twice or while it runs; only live tasks are.
LoopInv ==
    /\ Distinct(ready)
    /\ running \notin Elems(ready)
    /\ \A o \in OpIds : Active(o) => Live(o)
    /\ \A c \in Callers : c \in Elems(ready) => pc[c] \notin {"idle", "over", "timer"}
    /\ ~serving => pc[Reaper] = "asleep" /\ ~Active(Reaper)

\* The queue of a lock holds callers past `async with', and one of them that
\* can run, or holds the lock across an await, is its head.
LockInv ==
    /\ \A u \in Users : Distinct(lock[u])
    /\ \A u \in Users : \A c \in Elems(lock[u]) : pc[c] \in LockPcs /\ loc[c].user = u
    /\ \A c \in Callers :
          pc[c] \in LockPcs /\ (Active(c) \/ pc[c] \in HoldPcs)
          => lock[loc[c].user] # <<>> /\ Head(lock[loc[c].user]) = c

\* Callers waiting for `complete' are suspended.
WaitInv ==
    \A o \in OpIds :
       /\ Distinct(ops[o].waiters)
       /\ \A c \in Elems(ops[o].waiters) :
             pc[c] = "complete" /\ loc[c].op = o /\ ~Active(c)

\* A live operation is its user's; an operation about to be cleared is over.
OpInv ==
    /\ \A o \in OpIds : Live(o) => ops[o].user \in Users /\ op[ops[o].user] = o
    /\ \A o \in OpIds : ops[o].cancel => Live(o)
    /\ \A o \in OpIds : ops[o].complete => ~Live(o)
    /\ \A c \in Callers : (pc[c] = "cancelled" /\ Active(c)) \/ pc[c] = "cancelReport"
          => op[loc[c].user] # None /\ ~Live(op[loc[c].user])
    /\ \A c \in Callers : (pc[c] = "complete" /\ Active(c)) \/ pc[c] \in {"collect", "waitReport"}
          => loc[c].op # None /\ ~Live(loc[c].op)

IInv == TypeOK /\ LocalsInv /\ LoopInv /\ LockInv /\ WaitInv /\ OpInv

-----------------------------------------------------------------------------
(* Sequences as sets of tasks *)

\* Appending a task to a queue of the loop or of a lock adds it, once.
LEMMA AppendElems ==
    ASSUME NEW S, NEW s \in Seq(S), NEW e \in S
    PROVE  /\ Append(s, e) \in Seq(S)
           /\ Append(s, e) # <<>>
           /\ Elems(Append(s, e)) = Elems(s) \cup {e}
           /\ Distinct(s) /\ e \notin Elems(s) => Distinct(Append(s, e))
           /\ s # <<>> => Head(Append(s, e)) = Head(s)
           /\ s = <<>> => Head(Append(s, e)) = e
<1>1. /\ Append(s, e) \in Seq(S) /\ Len(Append(s, e)) = Len(s) + 1
      /\ \A i \in 1..Len(s) : Append(s, e)[i] = s[i]
      /\ Append(s, e)[Len(s) + 1] = e
      /\ Len(s) \in Nat
  OBVIOUS
<1>2. Elems(Append(s, e)) = Elems(s) \cup {e}
  BY <1>1 DEF Elems
<1>3. ASSUME Distinct(s), e \notin Elems(s) PROVE Distinct(Append(s, e))
  BY <1>1, <1>3 DEF Distinct, Elems
<1>4. Append(s, e) # <<>>
  BY <1>1
<1>5. (s # <<>> => Head(Append(s, e)) = Head(s)) /\ (s = <<>> => Head(Append(s, e)) = e)
  <2>1. Head(Append(s, e)) = Append(s, e)[1]
    BY <1>1, <1>4
  <2>2. s # <<>> => Len(s) \in Nat \ {0} /\ Head(s) = s[1]
    OBVIOUS
  <2>3. s = <<>> => Len(s) = 0
    OBVIOUS
  <2> QED BY <1>1, <2>1, <2>2, <2>3
<1> QED BY <1>1, <1>2, <1>3, <1>4, <1>5

\* Appending several woken tasks at once.
LEMMA ConcatElems ==
    ASSUME NEW S, NEW s \in Seq(S), NEW t \in Seq(S)
    PROVE  /\ s \o t \in Seq(S)
           /\ Elems(s \o t) = Elems(s) \cup Elems(t)
           /\ Distinct(s) /\ Distinct(t) /\ Elems(s) \cap Elems(t) = {} => Distinct(s \o t)
<1>1. /\ s \o t \in Seq(S) /\ Len(s \o t) = Len(s) + Len(t)
      /\ \A i \in 1..Len(s) : (s \o t)[i] = s[i]
      /\ \A i \in (Len(s) + 1)..(Len(s) + Len(t)) : (s \o t)[i] = t[i - Len(s)]
      /\ Len(s) \in Nat /\ Len(t) \in Nat
  OBVIOUS
<1>2. Elems(s \o t) = Elems(s) \cup Elems(t)
  <2>1. ASSUME NEW x \in Elems(t) PROVE x \in Elems(s \o t)
    <3>1. PICK i \in 1..Len(t) : x = t[i]
      BY DEF Elems
    <3>2. (s \o t)[i + Len(s)] = x /\ i + Len(s) \in 1..Len(s \o t)
      BY <1>1, <3>1
    <3> QED BY <3>2 DEF Elems
  <2>2. ASSUME NEW x \in Elems(s) PROVE x \in Elems(s \o t)
    BY <1>1 DEF Elems
  <2>3. ASSUME NEW x \in Elems(s \o t) PROVE x \in Elems(s) \cup Elems(t)
    <3>1. PICK i \in 1..Len(s \o t) : x = (s \o t)[i]
      BY DEF Elems
    <3>2. CASE i \in 1..Len(s)
      BY <1>1, <3>1, <3>2 DEF Elems
    <3>3. CASE i \in (Len(s) + 1)..(Len(s) + Len(t))
      <4>1. x = t[i - Len(s)] /\ i - Len(s) \in 1..Len(t)
        BY <1>1, <3>1, <3>3
      <4> QED BY <4>1 DEF Elems
    <3> QED BY <1>1, <3>1, <3>2, <3>3
  <2> QED BY <2>1, <2>2, <2>3
<1>3. ASSUME Distinct(s), Distinct(t), Elems(s) \cap Elems(t) = {} PROVE Distinct(s \o t)
  <2> SUFFICES ASSUME NEW i \in 1..Len(s \o t), NEW j \in 1..Len(s \o t),
                      (s \o t)[i] = (s \o t)[j]
               PROVE  i = j
    BY DEF Distinct
  <2>1. CASE i \in 1..Len(s) /\ j \in 1..Len(s)
    BY <1>1, <1>3, <2>1 DEF Distinct
  <2>2. CASE i \in 1..Len(s) /\ j \notin 1..Len(s)
    <3>1. s[i] = t[j - Len(s)] /\ j - Len(s) \in 1..Len(t)
      BY <1>1, <2>2
    <3> QED BY <1>3, <2>2, <3>1 DEF Elems
  <2>3. CASE i \notin 1..Len(s) /\ j \in 1..Len(s)
    <3>1. s[j] = t[i - Len(s)] /\ i - Len(s) \in 1..Len(t)
      BY <1>1, <2>3
    <3> QED BY <1>3, <2>3, <3>1 DEF Elems
  <2>4. CASE i \notin 1..Len(s) /\ j \notin 1..Len(s)
    <3>1. /\ t[i - Len(s)] = t[j - Len(s)]
          /\ i - Len(s) \in 1..Len(t) /\ j - Len(s) \in 1..Len(t)
      BY <1>1, <2>4
    <3>2. i - Len(s) = j - Len(s)
      BY <1>3, <3>1 DEF Distinct
    <3> QED BY <1>1, <3>2
  <2> QED BY <2>1, <2>2, <2>3, <2>4
<1> QED BY <1>1, <1>2, <1>3

\* Taking the head of a queue without duplicates removes exactly that task.
LEMMA TailElems ==
    ASSUME NEW S, NEW s \in Seq(S), s # <<>>, Distinct(s)
    PROVE  /\ Head(s) \in S /\ Tail(s) \in Seq(S)
           /\ Elems(s) = Elems(Tail(s)) \cup {Head(s)}
           /\ Distinct(Tail(s)) /\ Head(s) \notin Elems(Tail(s))
           /\ Tail(s) # <<>> => Head(Tail(s)) = s[2] /\ s[2] \in Elems(Tail(s)) /\ Len(s) > 1
           /\ Tail(s) = <<>> => Len(s) = 1
<1>1. /\ Head(s) \in S /\ Tail(s) \in Seq(S) /\ Len(Tail(s)) = Len(s) - 1
      /\ Len(s) \in Nat \ {0} /\ Head(s) = s[1]
      /\ \A i \in 1..Len(Tail(s)) : Tail(s)[i] = s[i + 1]
  OBVIOUS
<1>2. Distinct(Tail(s)) /\ Head(s) \notin Elems(Tail(s))
  <2>1. ASSUME NEW i \in 1..Len(Tail(s)), NEW j \in 1..Len(Tail(s)), Tail(s)[i] = Tail(s)[j]
        PROVE  i = j
    <3>1. i + 1 \in 1..Len(s) /\ j + 1 \in 1..Len(s) /\ s[i + 1] = s[j + 1]
      BY <1>1, <2>1
    <3>2. i + 1 = j + 1
      BY <3>1 DEF Distinct
    <3> QED BY <1>1, <3>2
  <2>2. ASSUME NEW i \in 1..Len(Tail(s)), Tail(s)[i] = Head(s) PROVE FALSE
    <3>1. 1 \in 1..Len(s) /\ i + 1 \in 1..Len(s) /\ s[1] = s[i + 1] /\ i + 1 # 1
      BY <1>1, <2>2
    <3> QED BY <3>1 DEF Distinct
  <2> QED BY <2>1, <2>2 DEF Distinct, Elems
<1>3. Elems(s) = Elems(Tail(s)) \cup {Head(s)}
  <2>1. ASSUME NEW x \in Elems(s) PROVE x \in Elems(Tail(s)) \cup {Head(s)}
    <3>1. PICK i \in 1..Len(s) : x = s[i]
      BY DEF Elems
    <3>2. CASE i = 1
      BY <1>1, <3>1, <3>2
    <3>3. CASE i # 1
      <4>1. i - 1 \in 1..Len(Tail(s)) /\ Tail(s)[i - 1] = s[(i - 1) + 1]
        BY <1>1, <3>1, <3>3
      <4> QED BY <1>1, <3>1, <4>1 DEF Elems
    <3> QED BY <3>2, <3>3
  <2>2. ASSUME NEW x \in Elems(Tail(s)) PROVE x \in Elems(s)
    <3>1. PICK i \in 1..Len(Tail(s)) : x = Tail(s)[i]
      BY DEF Elems
    <3>2. i + 1 \in 1..Len(s) /\ x = s[i + 1]
      BY <1>1, <3>1
    <3> QED BY <3>2 DEF Elems
  <2>3. Head(s) \in Elems(s)
    BY <1>1 DEF Elems
  <2> QED BY <2>1, <2>2, <2>3
<1>4. ASSUME Tail(s) # <<>> PROVE Head(Tail(s)) = s[2] /\ s[2] \in Elems(Tail(s)) /\ Len(s) > 1
  <2>1. Len(Tail(s)) \in Nat \ {0} /\ Head(Tail(s)) = Tail(s)[1]
    BY <1>1, <1>4
  <2>2. 1 \in 1..Len(Tail(s)) /\ Tail(s)[1] = s[1 + 1]
    BY <1>1, <2>1
  <2> QED BY <1>1, <2>1, <2>2 DEF Elems
<1>5. Tail(s) = <<>> => Len(s) = 1
  BY <1>1
<1> QED BY <1>1, <1>2, <1>3, <1>4, <1>5

\* The empty queue holds nothing, twice.
LEMMA EmptyElems == Elems(<<>>) = {} /\ Distinct(<<>>)
  BY DEF Elems, Distinct

\* A queue of one task.
LEMMA SingleElems ==
    ASSUME NEW S, NEW e \in S
    PROVE  <<e>> \in Seq(S) /\ Elems(<<e>>) = {e} /\ Distinct(<<e>>)
  BY DEF Elems, Distinct

-----------------------------------------------------------------------------
(* Steps of a caller, by what they do to the lock *)

\* Caller c goes to l; no other caller's position or locals change.
Moves(c, l) ==
    /\ pc' = [pc EXCEPT ![c] = l]
    /\ \A d \in Callers \ {c} : loc'[d] = loc[d]

Discipline == LoopInv /\ LockInv /\ WaitInv /\ OpInv

\* A step that neither takes nor releases the lock (create_lab before monitor,
\* the reconciler's own steps).
LEMMA LocalStep ==
    ASSUME IInv, NEW c \in Callers, NEW l, running = c, Moves(c, l),
           pc[c] \notin LockPcs, l \notin LockPcs \cup {"complete"},
           running' \in {c, None}, ready' = ready, UNCHANGED <<op, lock, ops, serving>>
    PROVE  Discipline'
<1> USE DEF Moves
<1>1. /\ pc'[c] = l /\ \A d \in Callers \ {c} : pc'[d] = pc[d]
      /\ \A d \in Callers : d \in Elems(ready') <=> d \in Elems(ready)
      /\ \A t \in Tasks : Active(t)' => Active(t)
      /\ c \notin Elems(ready)
      /\ c \in Tasks /\ None \notin Tasks
  BY ConstantsAssumption DEF IInv, TypeOK, LoopInv, Active, Tasks, Callers
<1>2. LoopInv'
  <2>1. running' \notin Elems(ready')
    <3>1. Elems(ready) \subseteq Tasks
      BY DEF Elems, IInv, TypeOK
    <3> QED BY <1>1, <3>1
  <2>2. ~serving' => pc'[Reaper] = "asleep" /\ ~Active(Reaper)'
    BY <1>1 DEF IInv, LoopInv, Active, Callers, Tasks
  <2> QED BY <1>1, <2>1, <2>2 DEF IInv, LoopInv, Live, Tasks
<1>3. LockInv'
  <2>1. \A u \in Users : Elems(lock[u]) \subseteq Callers
    BY DEF Elems, IInv, TypeOK
  <2> QED BY <1>1, <2>1 DEF IInv, LockInv, Tasks
<1>4. WaitInv'
  <2>1. \A o \in OpIds : Elems(ops[o].waiters) \subseteq Callers
    BY DEF Elems, IInv, TypeOK, Operations
  <2> QED BY <1>1, <2>1 DEF IInv, WaitInv, Tasks, Active
<1>5. OpInv'
  BY <1>1 DEF IInv, OpInv, Live, Tasks, LockPcs
<1> QED BY <1>2, <1>3, <1>4, <1>5 DEF Discipline

\* A step that asks for the lock: the caller goes on only if it is free.
LEMMA AcquireStep ==
    ASSUME IInv, NEW c \in Callers, NEW u \in Users, NEW l \in LockPcs \ HoldPcs,
           running = c, Moves(c, l), loc'[c].user = u, pc[c] \notin LockPcs,
           l = "collect" => loc'[c].op # None /\ ~Live(loc'[c].op),
           Acquire(c, u), UNCHANGED <<op, ops, serving>>
    PROVE  Discipline'
<1> USE DEF Moves, Acquire
<1>1. /\ pc'[c] = l /\ \A d \in Callers \ {c} : pc'[d] = pc[d]
      /\ c \notin Elems(ready) /\ ready' = ready
      /\ running' \in {c, None}
      /\ \A t \in Tasks : Active(t)' => Active(t)
      /\ c \in Tasks /\ None \notin Tasks
  BY ConstantsAssumption DEF IInv, TypeOK, LoopInv, Active, Tasks, Callers
<1>2. /\ \A v \in Users : lock[v] \in Seq(Callers) /\ Elems(lock[v]) \subseteq Callers
      /\ \A v \in Users \ {u} : lock'[v] = lock[v]
      /\ lock'[u] = Append(lock[u], c)
      /\ \A v \in Users : c \notin Elems(lock[v])
  BY DEF IInv, TypeOK, LockInv, Elems
<1>3. /\ lock'[u] # <<>> /\ Distinct(lock'[u]) /\ Elems(lock'[u]) = Elems(lock[u]) \cup {c}
      /\ lock[u] # <<>> => Head(lock'[u]) = Head(lock[u])
      /\ lock[u] = <<>> => Head(lock'[u]) = c
  BY <1>2, AppendElems, IInv DEF IInv, LockInv
<1>4. LoopInv'
  <2>1. running' \notin Elems(ready')
    <3>1. Elems(ready) \subseteq Tasks
      BY DEF Elems, IInv, TypeOK
    <3> QED BY <1>1, <3>1
  <2>2. ~serving' => pc'[Reaper] = "asleep" /\ ~Active(Reaper)'
    BY <1>1 DEF IInv, LoopInv, Active, Callers, Tasks
  <2> QED BY <1>1, <2>1, <2>2 DEF IInv, LoopInv, Live, Tasks, LockPcs
<1>5. LockInv'
  <2>1. \A v \in Users : Distinct(lock'[v])
    BY <1>2, <1>3 DEF IInv, LockInv
  <2>2. \A v \in Users : \A d \in Elems(lock'[v]) : pc'[d] \in LockPcs /\ loc'[d].user = v
    BY <1>1, <1>2, <1>3 DEF IInv, LockInv
  <2>3. ASSUME NEW d \in Callers, pc'[d] \in LockPcs, Active(d)' \/ pc'[d] \in HoldPcs
        PROVE  lock'[loc'[d].user] # <<>> /\ Head(lock'[loc'[d].user]) = d
    <3>1. CASE d = c
      <4>1. running' = c
        BY <1>1, <2>3, <3>1 DEF Active
      <4>2. lock[u] = <<>>
        BY <4>1, <1>1
      <4> QED BY <1>3, <3>1, <4>2
    <3>2. CASE d # c
      <4>1. lock[loc[d].user] # <<>> /\ Head(lock[loc[d].user]) = d /\ loc'[d] = loc[d]
        BY <1>1, <2>3, <3>2 DEF IInv, LockInv, Tasks
      <4>2. loc[d].user \in Users
        BY <1>1, <2>3, <3>2 DEF IInv, LocalsInv, UserPcs
      <4> QED BY <1>2, <1>3, <4>1, <4>2
    <3> QED BY <3>1, <3>2
  <2> QED BY <2>1, <2>2, <2>3 DEF LockInv
<1>6. WaitInv'
  <2>1. \A o \in OpIds : Elems(ops[o].waiters) \subseteq Callers
    BY DEF Elems, IInv, TypeOK, Operations
  <2> QED BY <1>1, <2>1 DEF IInv, WaitInv, Tasks, Active
<1>7. OpInv'
  BY <1>1 DEF IInv, OpInv, Live, Tasks, LockPcs, HoldPcs
<1> QED BY <1>4, <1>5, <1>6, <1>7 DEF Discipline

\* What a release does to the queue, and whom it wakes.
LEMMA ReleaseFacts ==
    ASSUME IInv, NEW u \in Users, NEW c, lock[u] # <<>>, Head(lock[u]) = c
    PROVE  /\ Tail(lock[u]) \in Seq(Callers) /\ Distinct(Tail(lock[u]))
           /\ Elems(lock[u]) = Elems(Tail(lock[u])) \cup {c} /\ c \notin Elems(Tail(lock[u]))
           /\ Granted(u) \in Seq(Callers) /\ Distinct(Granted(u))
           /\ Tail(lock[u]) = <<>> => Elems(Granted(u)) = {}
           /\ Tail(lock[u]) # <<>> => /\ Elems(Granted(u)) = {Head(Tail(lock[u]))}
                                      /\ Head(Tail(lock[u])) \in Elems(Tail(lock[u]))
<1>1. lock[u] \in Seq(Callers) /\ Distinct(lock[u])
  BY DEF IInv, TypeOK, LockInv
<1>2. /\ Tail(lock[u]) \in Seq(Callers) /\ Distinct(Tail(lock[u]))
      /\ Elems(lock[u]) = Elems(Tail(lock[u])) \cup {c} /\ c \notin Elems(Tail(lock[u]))
      /\ Tail(lock[u]) # <<>> => /\ Head(Tail(lock[u])) = lock[u][2] /\ Len(lock[u]) > 1
                                 /\ lock[u][2] \in Elems(Tail(lock[u]))
      /\ Tail(lock[u]) = <<>> => Len(lock[u]) = 1
  BY <1>1, TailElems
<1>3. CASE Tail(lock[u]) = <<>>
  <2>1. Granted(u) = <<>>
    BY <1>2, <1>3 DEF Granted
  <2> QED BY <1>2, <1>3, <2>1, EmptyElems
<1>4. CASE Tail(lock[u]) # <<>>
  <2>1. Granted(u) = <<lock[u][2]>> /\ lock[u][2] \in Callers
    <3>1. Elems(Tail(lock[u])) \subseteq Callers
      BY <1>2 DEF Elems
    <3> QED BY <1>2, <1>4, <3>1 DEF Granted
  <2> QED BY <1>2, <1>4, <2>1, SingleElems
<1> QED BY <1>3, <1>4

\* The owner of a lock is its head; whoever a release wakes is suspended.
LEMMA GrantedFacts ==
    ASSUME IInv, NEW c \in Callers, running = c, pc[c] \in LockPcs, NEW u, u = loc[c].user,
           NEW q \in Seq(Tasks), Distinct(q), Elems(q) \subseteq Elems(ready) \cup OpIds
    PROVE  /\ u \in Users /\ lock[u] # <<>> /\ Head(lock[u]) = c
           /\ q \o Granted(u) \in Seq(Tasks) /\ Distinct(q \o Granted(u))
           /\ Elems(q \o Granted(u)) = Elems(q) \cup Elems(Granted(u))
           /\ \A d \in Elems(Granted(u)) :
                 /\ d \in Callers \ {c} /\ d \notin Elems(ready)
                 /\ pc[d] \in LockPcs \ HoldPcs /\ loc[d].user = u
<1>1. u \in Users /\ lock[u] # <<>> /\ Head(lock[u]) = c
  BY DEF IInv, LocalsInv, LockInv, UserPcs, Active
<1>2. ASSUME NEW d \in Elems(Granted(u))
      PROVE  /\ d \in Callers \ {c} /\ d \notin Elems(ready)
             /\ pc[d] \in LockPcs \ HoldPcs /\ loc[d].user = u
  <2>a. /\ Elems(lock[u]) = Elems(Tail(lock[u])) \cup {c} /\ c \notin Elems(Tail(lock[u]))
        /\ Tail(lock[u]) = <<>> => Elems(Granted(u)) = {}
        /\ Tail(lock[u]) # <<>> => /\ Elems(Granted(u)) = {Head(Tail(lock[u]))}
                                   /\ Head(Tail(lock[u])) \in Elems(Tail(lock[u]))
    BY <1>1, ReleaseFacts
  <2>1. d \in Elems(Tail(lock[u])) /\ c \notin Elems(Tail(lock[u])) /\ d \in Elems(lock[u])
    BY <2>a
  <2>2. d \in Callers
    BY <1>1, <2>1 DEF IInv, TypeOK, Elems
  <2>3. pc[d] \in LockPcs /\ loc[d].user = u
    BY <1>1, <2>1 DEF IInv, LockInv
  <2>4. ~Active(d) /\ pc[d] \notin HoldPcs
    BY <1>1, <2>1, <2>2, <2>3 DEF IInv, LockInv
  <2> QED BY <2>1, <2>2, <2>3, <2>4 DEF Active
<1>3. Granted(u) \in Seq(Tasks) /\ Distinct(Granted(u))
  <2>1. Granted(u) \in Seq(Callers) /\ Distinct(Granted(u))
    BY <1>1, ReleaseFacts
  <2> QED BY <2>1 DEF Tasks
<1>4. Elems(q) \cap Elems(Granted(u)) = {}
  BY <1>2, ConstantsAssumption
<1> QED BY <1>1, <1>2, <1>3, <1>4, ConcatElems

\* A release keeps the order of the queue: its new head is the one woken.
LEMMA ReleaseLock ==
    ASSUME IInv, NEW c \in Callers, running = c, pc[c] \in LockPcs, NEW u, u = loc[c].user,
           NEW l, l \notin LockPcs, Moves(c, l), Release(u), running' \in {c, None},
           NEW q \in Seq(Tasks), Distinct(q), Elems(q) \subseteq Elems(ready) \cup OpIds,
           ready' = q \o Granted(u)
    PROVE  LockInv'
<1> USE DEF Moves, Release
<1>1. /\ u \in Users /\ lock[u] # <<>> /\ Head(lock[u]) = c
      /\ Elems(ready') = Elems(q) \cup Elems(Granted(u))
      /\ \A d \in Elems(Granted(u)) : /\ d \in Callers \ {c} /\ d \notin Elems(ready)
                                      /\ pc[d] \in LockPcs \ HoldPcs /\ loc[d].user = u
  BY GrantedFacts
<1>2. /\ pc'[c] = l /\ \A d \in Callers \ {c} : pc'[d] = pc[d]
      /\ \A v \in Users \ {u} : lock'[v] = lock[v]
      /\ lock'[u] = Tail(lock[u])
      /\ \A v \in Users : Elems(lock[v]) \subseteq Callers
  BY <1>1 DEF IInv, TypeOK, Elems
<1>a. /\ Distinct(Tail(lock[u])) /\ c \notin Elems(Tail(lock[u]))
      /\ Elems(lock[u]) = Elems(Tail(lock[u])) \cup {c}
      /\ Tail(lock[u]) = <<>> => Elems(Granted(u)) = {}
      /\ Tail(lock[u]) # <<>> => Elems(Granted(u)) = {Head(Tail(lock[u]))}
  BY <1>1, ReleaseFacts
<1>3. /\ Distinct(lock'[u]) /\ c \notin Elems(lock'[u]) /\ Elems(lock'[u]) \subseteq Elems(lock[u])
      /\ lock'[u] = <<>> => Elems(Granted(u)) = {}
      /\ lock'[u] # <<>> => Elems(Granted(u)) = {Head(lock'[u])}
  BY <1>2, <1>a
<1>4. \A v \in Users : Distinct(lock'[v])
  BY <1>2, <1>3 DEF IInv, LockInv
<1>5. \A v \in Users : \A d \in Elems(lock'[v]) : pc'[d] \in LockPcs /\ loc'[d].user = v
  <2> SUFFICES ASSUME NEW v \in Users, NEW d \in Elems(lock'[v])
               PROVE  pc'[d] \in LockPcs /\ loc'[d].user = v
    OBVIOUS
  <2>1. d \in Elems(lock[v]) /\ d \in Callers
    BY <1>2, <1>3
  <2>2. d # c
    <3>1. CASE v = u
      BY <1>3, <3>1
    <3>2. CASE v # u
      BY <2>1, <3>2 DEF IInv, LockInv
    <3> QED BY <3>1, <3>2
  <2> QED BY <1>2, <2>1, <2>2 DEF IInv, LockInv
<1>6. ASSUME NEW d \in Callers, pc'[d] \in LockPcs, Active(d)' \/ pc'[d] \in HoldPcs
      PROVE  lock'[loc'[d].user] # <<>> /\ Head(lock'[loc'[d].user]) = d
  <2>1. d # c /\ pc[d] \in LockPcs /\ loc'[d] = loc[d] /\ loc[d].user \in Users
    BY <1>2, <1>6 DEF IInv, LocalsInv, UserPcs
  <2>2. CASE d \in Elems(Granted(u))
    BY <1>1, <1>3, <2>1, <2>2
  <2>3. CASE d \notin Elems(Granted(u))
    <3>1. Active(d) \/ pc[d] \in HoldPcs
      BY <1>1, <1>2, <1>6, <2>1, <2>3, ConstantsAssumption DEF Active, Callers
    <3>2. lock[loc[d].user] # <<>> /\ Head(lock[loc[d].user]) = d
      BY <2>1, <3>1 DEF IInv, LockInv
    <3> QED BY <1>1, <1>2, <2>1, <3>2
  <2> QED BY <2>2, <2>3
<1> QED BY <1>4, <1>5, <1>6 DEF LockInv

\* A step that releases the lock, and may clear an operation that is over
\* (the end of cancel and of wait, and every refusal of monitor).
LEMMA ReleaseStep ==
    ASSUME IInv, NEW c \in Callers, running = c, pc[c] \in LockPcs, NEW u, u = loc[c].user,
           NEW l, l \notin LockPcs \cup {"complete"}, Moves(c, l), Release(u),
           ready' = ready \o Granted(u), running' \in {c, None},
           \/ op' = op
           \/ op' = [op EXCEPT ![u] = None] /\ (op[u] # None => ~Live(op[u])),
           UNCHANGED <<ops, serving>>
    PROVE  Discipline'
<1>1. ready \in Seq(Tasks) /\ Distinct(ready) /\ running \notin Elems(ready)
  BY DEF IInv, TypeOK, LoopInv
<1>2. /\ u \in Users /\ lock[u] # <<>> /\ Head(lock[u]) = c
      /\ Distinct(ready')
      /\ Elems(ready') = Elems(ready) \cup Elems(Granted(u))
      /\ \A d \in Elems(Granted(u)) : /\ d \in Callers \ {c} /\ d \notin Elems(ready)
                                      /\ pc[d] \in LockPcs \ HoldPcs /\ loc[d].user = u
  BY <1>1, GrantedFacts
<1>3. /\ pc'[c] = l /\ \A d \in Callers \ {c} : pc'[d] = pc[d] /\ loc'[d] = loc[d]
      /\ \A t \in Tasks : Active(t)' => Active(t) \/ t \in Elems(Granted(u))
      /\ \A t \in Tasks : t \notin Callers => (Active(t)' => Active(t))
      /\ c \in Tasks /\ None \notin Tasks
      /\ Elems(ready) \subseteq Tasks
  BY <1>1, <1>2, ConstantsAssumption DEF IInv, TypeOK, Active, Tasks, Callers, Moves, Elems
<1>4. LoopInv'
  <2>1. running' \notin Elems(ready')
    BY <1>1, <1>2, <1>3 DEF Tasks
  <2>2. ~serving' => pc'[Reaper] = "asleep" /\ ~Active(Reaper)'
    BY <1>2, <1>3 DEF IInv, LoopInv, Active, Callers, Tasks, LockPcs
  <2>3. \A o \in OpIds : Active(o)' => Live(o)'
    BY <1>3, ConstantsAssumption DEF IInv, LoopInv, Live, Tasks
  <2>4. \A d \in Callers : d \in Elems(ready') => pc'[d] \notin {"idle", "over", "timer"}
    BY <1>1, <1>2, <1>3 DEF IInv, LoopInv, LockPcs
  <2> QED BY <1>2, <2>1, <2>2, <2>3, <2>4 DEF LoopInv
<1>5. LockInv'
  BY <1>1, ReleaseLock
<1>6. WaitInv'
  <2>1. \A o \in OpIds : Elems(ops[o].waiters) \subseteq Callers
    BY DEF Elems, IInv, TypeOK, Operations
  <2> QED BY <1>2, <1>3, <2>1 DEF IInv, WaitInv, Tasks, Active, LockPcs
<1>7. OpInv'
  <2>1. \A o \in OpIds : Live(o)' => ops'[o].user \in Users /\ op'[ops'[o].user] = o
    BY <1>2, ConstantsAssumption DEF IInv, OpInv, Live, TypeOK
  <2>2. \A o \in OpIds : (ops'[o].cancel => Live(o)') /\ (ops'[o].complete => ~Live(o)')
    BY DEF IInv, OpInv, Live
  <2>3. ASSUME NEW d \in Callers,
               (pc'[d] = "cancelled" /\ Active(d)') \/ pc'[d] = "cancelReport"
        PROVE  (op[loc[d].user] # None /\ ~Live(op[loc[d].user]))'
    <3>1. d # c /\ d \notin Elems(Granted(u)) /\ pc[d] = pc'[d] /\ loc'[d] = loc[d]
      BY <1>2, <1>3, <2>3 DEF LockPcs, HoldPcs
    <3>2. (pc[d] = "cancelled" /\ Active(d)) \/ pc[d] = "cancelReport"
      BY <1>3, <2>3, <3>1 DEF Tasks
    <3>3. op[loc[d].user] # None /\ ~Live(op[loc[d].user]) /\ loc[d].user # u
      BY <1>2, <3>1, <3>2 DEF IInv, OpInv, LockInv, LockPcs, HoldPcs
    <3>4. op'[loc[d].user] = op[loc[d].user]
      <4>1. loc[d].user \in Users
        BY <3>2 DEF IInv, LocalsInv, UserPcs, LockPcs
      <4> QED BY <3>3, <4>1 DEF IInv, TypeOK
    <3> QED BY <3>1, <3>3, <3>4 DEF Live
  <2>4. ASSUME NEW d \in Callers,
               (pc'[d] = "complete" /\ Active(d)') \/ pc'[d] \in {"collect", "waitReport"}
        PROVE  (loc[d].op # None /\ ~Live(loc[d].op))'
    <3>1. d # c /\ pc[d] = pc'[d] /\ loc'[d] = loc[d]
      BY <1>2, <1>3, <2>4 DEF LockPcs, HoldPcs
    <3>2. (pc[d] = "complete" /\ Active(d)) \/ pc[d] \in {"collect", "waitReport"}
      BY <1>2, <1>3, <2>4, <3>1 DEF Tasks, LockPcs
    <3> QED BY <3>1, <3>2 DEF Live, IInv, OpInv
  <2> QED BY <2>1, <2>2, <2>3, <2>4 DEF OpInv
<1> QED BY <1>4, <1>5, <1>6, <1>7 DEF Discipline

\* monitor(): a free operation object becomes the user's operation, which the
\* owner of the lock has found to be None.
LEMMA StartStep ==
    ASSUME IInv, NEW c \in Callers, running = c, pc[c] \in LockPcs, NEW u, u = loc[c].user,
           NEW l, l \notin LockPcs \cup {"complete"}, Moves(c, l), running' \in {c, None},
           NEW o \in FreeOps, NEW kind, NEW st, NEW first, op[u] = None,
           StartOperation(o, u, kind, st, first), serving' = serving
    PROVE  Discipline'
<1>1. /\ ready \in Seq(Tasks) /\ Distinct(ready) /\ running \notin Elems(ready)
      /\ o \in OpIds /\ o \in Tasks /\ ~Live(o) /\ o \notin Elems(ready) /\ o \notin Callers
  BY ConstantsAssumption DEF IInv, TypeOK, LoopInv, FreeOps, Active, Tasks
<1>q. PICK q : q = Append(ready, o)
  OBVIOUS
<1>2. /\ q \in Seq(Tasks) /\ Distinct(q) /\ Elems(q) = Elems(ready) \cup {o}
      /\ Elems(q) \subseteq Elems(ready) \cup OpIds
  BY <1>1, <1>q, AppendElems
<1>3. ready' = q \o Granted(u)
  BY <1>q DEF StartOperation
<1>a. /\ u \in Users /\ lock[u] # <<>> /\ Head(lock[u]) = c
      /\ Distinct(q \o Granted(u))
      /\ Elems(q \o Granted(u)) = Elems(q) \cup Elems(Granted(u))
      /\ \A d \in Elems(Granted(u)) : /\ d \in Callers \ {c} /\ d \notin Elems(ready)
                                      /\ pc[d] \in LockPcs \ HoldPcs /\ loc[d].user = u
  BY <1>2, GrantedFacts
<1>4. /\ u \in Users /\ lock[u] # <<>> /\ Head(lock[u]) = c
      /\ Distinct(ready')
      /\ Elems(ready') = Elems(ready) \cup {o} \cup Elems(Granted(u))
      /\ \A d \in Elems(Granted(u)) : /\ d \in Callers \ {c} /\ d \notin Elems(ready)
                                      /\ pc[d] \in LockPcs \ HoldPcs /\ loc[d].user = u
  BY <1>2, <1>3, <1>a
<1>5. /\ pc'[c] = l /\ \A d \in Callers \ {c} : pc'[d] = pc[d] /\ loc'[d] = loc[d]
      /\ \A t \in Tasks : Active(t)' => Active(t) \/ t = o \/ t \in Elems(Granted(u))
      /\ c \in Tasks /\ None \notin Tasks /\ c # o
  BY <1>1, <1>4, ConstantsAssumption DEF IInv, TypeOK, Active, Tasks, Callers, Moves
<1>b. Elems(ready) \subseteq Tasks
  BY <1>1 DEF Elems
<1>6. /\ \A p \in OpIds \ {o} : ops'[p] = ops[p]
      /\ ops'[o].user = u /\ ops'[o].pc = "created" /\ ops'[o].waiters = <<>>
      /\ ops'[o].cancel = FALSE /\ ops'[o].complete = FALSE
      /\ op'[u] = o /\ \A v \in Users \ {u} : op'[v] = op[v]
  BY <1>1, <1>4 DEF StartOperation, IdleOp, IInv, TypeOK
<1>7. LoopInv'
  <2>1. running' \notin Elems(ready')
    BY <1>1, <1>4, <1>5, <1>b DEF Tasks
  <2>2. ~serving' => pc'[Reaper] = "asleep" /\ ~Active(Reaper)'
    BY <1>1, <1>4, <1>5 DEF IInv, LoopInv, Active, Callers, Tasks, LockPcs
  <2>3. \A p \in OpIds : Active(p)' => Live(p)'
    BY <1>1, <1>4, <1>5, <1>6, ConstantsAssumption DEF IInv, LoopInv, Live, Tasks
  <2>4. \A d \in Callers : d \in Elems(ready') => pc'[d] \notin {"idle", "over", "timer"}
    BY <1>1, <1>4, <1>5 DEF IInv, LoopInv, LockPcs
  <2> QED BY <1>4, <2>1, <2>2, <2>3, <2>4 DEF LoopInv
<1>8. LockInv'
  <2>1. Release(u)
    BY DEF StartOperation
  <2> QED BY <1>1, <1>2, <1>3, <2>1, ReleaseLock
<1>9. WaitInv'
  <2>1. \A p \in OpIds : Elems(ops[p].waiters) \subseteq Callers
    BY DEF Elems, IInv, TypeOK, Operations
  <2>2. ASSUME NEW p \in OpIds \ {o}
        PROVE  /\ Distinct(ops'[p].waiters)
               /\ \A d \in Elems(ops'[p].waiters) :
                     pc'[d] = "complete" /\ loc'[d].op = p /\ ~Active(d)'
    BY <1>1, <1>4, <1>5, <1>6, <2>1 DEF IInv, WaitInv, Tasks, Active, LockPcs
  <2> QED BY <1>6, <2>2, EmptyElems DEF WaitInv
<1>10. OpInv'
  <2>1. \A p \in OpIds : Live(p)' => ops'[p].user \in Users /\ op'[ops'[p].user] = p
    BY <1>4, <1>6, ConstantsAssumption DEF IInv, OpInv, Live
  <2>2. \A p \in OpIds : (ops'[p].cancel => Live(p)') /\ (ops'[p].complete => ~Live(p)')
    BY <1>6 DEF IInv, OpInv, Live
  <2>3. ASSUME NEW d \in Callers,
               (pc'[d] = "cancelled" /\ Active(d)') \/ pc'[d] = "cancelReport"
        PROVE  (op[loc[d].user] # None /\ ~Live(op[loc[d].user]))'
    <3>1. d # c /\ d \notin Elems(Granted(u)) /\ pc[d] = pc'[d] /\ loc'[d] = loc[d]
      BY <1>4, <1>5, <2>3 DEF LockPcs, HoldPcs
    <3>2. (pc[d] = "cancelled" /\ Active(d)) \/ pc[d] = "cancelReport"
      BY <1>1, <1>5, <2>3, <3>1 DEF Tasks
    <3>3. /\ op[loc[d].user] # None /\ ~Live(op[loc[d].user]) /\ loc[d].user # u
          /\ loc[d].user \in Users
      BY <1>4, <3>1, <3>2 DEF IInv, OpInv, LockInv, LocalsInv, UserPcs, LockPcs, HoldPcs
    <3>4. op'[loc[d].user] = op[loc[d].user] /\ op[loc[d].user] \in OpIds \ {o}
      BY <1>6, <3>3 DEF IInv, TypeOK, FreeOps
    <3> QED BY <1>6, <3>1, <3>3, <3>4 DEF Live
  <2>4. ASSUME NEW d \in Callers,
               (pc'[d] = "complete" /\ Active(d)') \/ pc'[d] \in {"collect", "waitReport"}
        PROVE  (loc[d].op # None /\ ~Live(loc[d].op))'
    <3>1. d # c /\ pc[d] = pc'[d] /\ loc'[d] = loc[d]
      BY <1>5, <2>4 DEF LockPcs, HoldPcs
    <3>2. (pc[d] = "complete" /\ Active(d)) \/ pc[d] \in {"collect", "waitReport"}
      BY <1>1, <1>4, <1>5, <2>4, <3>1 DEF Tasks, LockPcs
    <3>3. loc[d].op # None /\ ~Live(loc[d].op) /\ loc[d].op \in OpIds \ {o}
      BY <3>1, <3>2 DEF IInv, OpInv, FreeOps, TypeOK, Locals
    <3> QED BY <1>6, <3>1, <3>3 DEF Live
  <2> QED BY <2>1, <2>2, <2>3, <2>4 DEF OpInv
<1> QED BY <1>7, <1>8, <1>9, <1>10 DEF Discipline

\* The owner of the lock keeps it across an await, or decides not to wait.
LEMMA HoldStep ==
    ASSUME IInv, NEW c \in Callers, running = c, pc[c] \in LockPcs, NEW u, u = loc[c].user,
           NEW l \in HoldPcs, Moves(c, l), loc' = loc, running' \in {c, None},
           ready' = ready, UNCHANGED <<op, lock, ops, serving>>,
           l \in {"cancelled", "cancelReport"} => op[u] # None /\ ~Live(op[u]),
           l = "waitReport" => loc[c].op # None /\ ~Live(loc[c].op)
    PROVE  Discipline'
<1> USE DEF Moves
<1>1. /\ pc'[c] = l /\ \A d \in Callers \ {c} : pc'[d] = pc[d]
      /\ \A t \in Tasks : Active(t)' => Active(t)
      /\ c \notin Elems(ready)
      /\ c \in Tasks /\ None \notin Tasks
  BY ConstantsAssumption DEF IInv, TypeOK, LoopInv, Active, Tasks, Callers
<1>2. LoopInv'
  <2>1. running' \notin Elems(ready')
    <3>1. Elems(ready) \subseteq Tasks
      BY DEF Elems, IInv, TypeOK
    <3> QED BY <1>1, <3>1
  <2>2. ~serving' => pc'[Reaper] = "asleep" /\ ~Active(Reaper)'
    BY <1>1 DEF IInv, LoopInv, Active, Callers, Tasks
  <2> QED BY <1>1, <2>1, <2>2 DEF IInv, LoopInv, Live, Tasks
<1>3. LockInv'
  <2>1. \A v \in Users : Elems(lock[v]) \subseteq Callers
    BY DEF Elems, IInv, TypeOK
  <2>2. lock[u] # <<>> /\ Head(lock[u]) = c
    BY DEF IInv, LockInv, Active
  <2> QED BY <1>1, <2>1, <2>2 DEF IInv, LockInv, Tasks, LockPcs, HoldPcs
<1>4. WaitInv'
  <2>1. \A o \in OpIds : Elems(ops[o].waiters) \subseteq Callers
    BY DEF Elems, IInv, TypeOK, Operations
  <2> QED BY <1>1, <2>1 DEF IInv, WaitInv, Tasks, Active
<1>5. OpInv'
  BY <1>1 DEF IInv, OpInv, Live, Tasks, LockPcs, HoldPcs
<1> QED BY <1>2, <1>3, <1>4, <1>5 DEF Discipline

\* cancel() of a task that is not done: the owner of the lock suspends until
\* the task, which is now scheduled, has ended.
LEMMA CancelLiveStep ==
    ASSUME IInv, NEW c \in Callers, running = c, pc[c] = "cancel", NEW u, u = loc[c].user,
           NEW o, o = op[u], o # None, Live(o),
           Moves(c, "cancelled"), loc' = loc, running' = None,
           ops' = [ops EXCEPT ![o].cancel = TRUE],
           ready' = IF Scheduled(o) THEN ready ELSE Append(ready, o),
           UNCHANGED <<op, lock, serving>>
    PROVE  Discipline'
<1> USE DEF Moves
<1>1. /\ u \in Users /\ lock[u] # <<>> /\ Head(lock[u]) = c
      /\ o \in OpIds /\ o \in Tasks /\ o \notin Callers /\ c \in Tasks
      /\ None \notin Tasks /\ ready \in Seq(Tasks)
      /\ c \notin Elems(ready) /\ Distinct(ready)
  BY ConstantsAssumption
  DEF IInv, LocalsInv, LockInv, LoopInv, UserPcs, LockPcs, Active, TypeOK, Tasks, Callers
<1>2. Scheduled(o) <=> o \in Elems(ready)
  BY <1>1 DEF Scheduled, Elems
<1>3. Distinct(ready') /\ Elems(ready') = Elems(ready) \cup {o}
  <2>1. CASE Scheduled(o)
    BY <1>1, <1>2, <2>1
  <2>2. CASE ~Scheduled(o)
    BY <1>1, <1>2, <2>2, AppendElems
  <2> QED BY <2>1, <2>2
<1>4. /\ pc'[c] = "cancelled" /\ \A d \in Callers \ {c} : pc'[d] = pc[d]
      /\ \A t \in Tasks : Active(t)' => Active(t) \/ t = o
      /\ ~Active(c)'
      /\ Elems(ready) \subseteq Tasks
  <2>1. Elems(ready) \subseteq Tasks
    BY <1>1 DEF Elems
  <2> QED BY <1>1, <1>3, <2>1 DEF IInv, TypeOK, Active
<1>5. /\ \A p \in OpIds \ {o} : ops'[p] = ops[p]
      /\ \A p \in OpIds : /\ ops'[p].user = ops[p].user /\ ops'[p].pc = ops[p].pc
                          /\ ops'[p].waiters = ops[p].waiters
                          /\ ops'[p].complete = ops[p].complete
  BY <1>1 DEF IInv, TypeOK, Operations
<1>6. LoopInv'
  <2>1. running' \notin Elems(ready')
    BY <1>1, <1>3, <1>4
  <2>2. ~serving' => pc'[Reaper] = "asleep" /\ ~Active(Reaper)'
    BY <1>1, <1>4 DEF IInv, LoopInv, Active, Callers, Tasks
  <2>3. \A p \in OpIds : Active(p)' => Live(p)'
    BY <1>4, <1>5 DEF IInv, LoopInv, Live, Tasks
  <2>4. \A d \in Callers : d \in Elems(ready') => pc'[d] \notin {"idle", "over", "timer"}
    BY <1>1, <1>3, <1>4 DEF IInv, LoopInv
  <2> QED BY <1>3, <2>1, <2>2, <2>3, <2>4 DEF LoopInv
<1>7. LockInv'
  <2>1. \A v \in Users : Elems(lock[v]) \subseteq Callers
    BY DEF Elems, IInv, TypeOK
  <2>2. \A v \in Users : \A d \in Elems(lock'[v]) : pc'[d] \in LockPcs /\ loc'[d].user = v
    BY <1>4, <2>1 DEF IInv, LockInv, LockPcs
  <2>3. ASSUME NEW d \in Callers, pc'[d] \in LockPcs, Active(d)' \/ pc'[d] \in HoldPcs
        PROVE  lock'[loc'[d].user] # <<>> /\ Head(lock'[loc'[d].user]) = d
    BY <1>1, <1>4, <2>3 DEF IInv, LockInv, Tasks
  <2> QED BY <2>2, <2>3 DEF LockInv, IInv
<1>8. WaitInv'
  <2>1. \A p \in OpIds : Elems(ops[p].waiters) \subseteq Callers
    BY DEF Elems, IInv, TypeOK, Operations
  <2> QED BY <1>1, <1>4, <1>5, <2>1 DEF IInv, WaitInv, Tasks, Active
<1>9. OpInv'
  <2>1. \A p \in OpIds : /\ Live(p)' => ops'[p].user \in Users /\ op'[ops'[p].user] = p
                         /\ ops'[p].cancel => Live(p)'
                         /\ ops'[p].complete => ~Live(p)'
    BY <1>1, <1>5 DEF IInv, OpInv, Live
  <2>2. ASSUME NEW d \in Callers,
               (pc'[d] = "cancelled" /\ Active(d)') \/ pc'[d] = "cancelReport"
        PROVE  (op[loc[d].user] # None /\ ~Live(op[loc[d].user]))'
    <3>1. d # c /\ pc[d] = pc'[d] /\ d # o /\ d \in Tasks
      BY <1>1, <1>4, <2>2 DEF Tasks
    <3>2. op[loc[d].user] # None /\ ~Live(op[loc[d].user]) /\ loc[d].user \in Users
      BY <1>4, <2>2, <3>1 DEF IInv, OpInv, LocalsInv, UserPcs, LockPcs
    <3>3. op[loc[d].user] \in OpIds
      BY <3>2 DEF IInv, TypeOK
    <3> QED BY <1>5, <3>2, <3>3 DEF Live
  <2>3. ASSUME NEW d \in Callers,
               (pc'[d] = "complete" /\ Active(d)') \/ pc'[d] \in {"collect", "waitReport"}
        PROVE  (loc[d].op # None /\ ~Live(loc[d].op))'
    <3>1. d # c /\ pc[d] = pc'[d] /\ d # o /\ d \in Tasks
      BY <1>1, <1>4, <2>3 DEF Tasks
    <3>2. loc[d].op # None /\ ~Live(loc[d].op) /\ loc[d].op \in OpIds
      BY <1>4, <2>3, <3>1 DEF IInv, OpInv, TypeOK, Locals
    <3> QED BY <1>5, <3>2 DEF Live
  <2> QED BY <2>1, <2>2, <2>3 DEF OpInv
<1> QED BY <1>6, <1>7, <1>8, <1>9 DEF Discipline

\* wait() with the lock: the caller releases it and waits for `complete', or
\* goes on if the operation is over.
LEMMA CaptureStep ==
    ASSUME IInv, NEW c \in Callers, WaitCapture(c), op[loc[c].user] # None
    PROVE  Discipline'
<1> DEFINE u == loc[c].user
           o == op[u]
<1>1. /\ running = c /\ pc[c] = "capture" /\ pc[c] \in LockPcs
      /\ ready \in Seq(Tasks) /\ Distinct(ready) /\ running \notin Elems(ready)
  BY DEF IInv, TypeOK, LoopInv, WaitCapture, At, LockPcs
<1>2. /\ u \in Users /\ lock[u] # <<>> /\ Head(lock[u]) = c
      /\ Distinct(ready \o Granted(u))
      /\ Elems(ready \o Granted(u)) = Elems(ready) \cup Elems(Granted(u))
      /\ \A d \in Elems(Granted(u)) : /\ d \in Callers \ {c} /\ d \notin Elems(ready)
                                      /\ pc[d] \in LockPcs \ HoldPcs /\ loc[d].user = u
  BY <1>1, GrantedFacts
<1>3. /\ ready' = ready \o Granted(u) /\ Release(u)
      /\ loc' = [loc EXCEPT ![c].op = o] /\ Goto(c, "complete")
      /\ \/ ops[o].complete /\ running' = c /\ ops' = ops
         \/ /\ ~ops[o].complete /\ running' = None
            /\ ops' = [ops EXCEPT ![o].waiters = Append(@, c)]
      /\ op' = op /\ serving' = serving
  BY <1>1, Zenon DEF WaitCapture
<1>a. /\ c \in Tasks /\ None \notin Tasks /\ Callers \subseteq Tasks /\ OpIds \cap Callers = {}
  BY ConstantsAssumption DEF Tasks, Callers
<1>b. o \in OpIds
  BY <1>2 DEF IInv, TypeOK
<1>c. /\ pc'[c] = "complete" /\ \A d \in Callers \ {c} : pc'[d] = pc[d] /\ loc'[d] = loc[d]
      /\ loc'[c].op = o
  BY <1>3 DEF IInv, TypeOK, Locals, Goto
<1>d. /\ \A t \in Tasks : Active(t)' => Active(t) \/ t \in Elems(Granted(u))
      /\ \A t \in Tasks : t \notin Callers => (Active(t)' => Active(t))
  BY <1>1, <1>2, <1>3, <1>a DEF Active
<1>4. /\ pc'[c] = "complete" /\ \A d \in Callers \ {c} : pc'[d] = pc[d] /\ loc'[d] = loc[d]
      /\ loc'[c].op = o /\ o \in OpIds
      /\ \A t \in Tasks : Active(t)' => Active(t) \/ t \in Elems(Granted(u))
      /\ \A t \in Tasks : t \notin Callers => (Active(t)' => Active(t))
      /\ c \in Tasks /\ None \notin Tasks
  BY <1>a, <1>b, <1>c, <1>d
<1>5. Elems(ready) \subseteq Tasks
  BY <1>1 DEF Elems
<1>6. /\ \A p \in OpIds \ {o} : ops'[p] = ops[p]
      /\ \A p \in OpIds : /\ ops'[p].user = ops[p].user /\ ops'[p].pc = ops[p].pc
                          /\ ops'[p].cancel = ops[p].cancel
                          /\ ops'[p].complete = ops[p].complete
  <2>1. ops \in [OpIds -> Operations]
    BY DEF IInv, TypeOK
  <2>2. PICK w : w = Append(ops[o].waiters, c)
    OBVIOUS
  <2>3. ops' = ops \/ ops' = [ops EXCEPT ![o].waiters = w]
    BY <1>3, <2>2
  <2> HIDE DEF o
  <2>4. \A p \in OpIds : ops'[p] = ops[p] \/ (p = o /\ ops'[p] = [ops[o] EXCEPT !.waiters = w])
    <3>1. CASE ops' = ops
      BY <3>1
    <3>2. CASE ops' = [ops EXCEPT ![o].waiters = w]
      BY <1>b, <2>1, <3>2
    <3> QED BY <2>3, <3>1, <3>2
  <2>5. ops[o] \in Operations
    BY <1>b, <2>1
  <2> QED BY <2>4, <2>5 DEF Operations
<1>7. LoopInv'
  <2>1. running' \notin Elems(ready')
    BY <1>1, <1>2, <1>3, <1>4, <1>5 DEF Tasks
  <2>2. ~serving' => pc'[Reaper] = "asleep" /\ ~Active(Reaper)'
    BY <1>1, <1>2, <1>3, <1>4 DEF IInv, LoopInv, Active, Callers, Tasks, LockPcs
  <2>3. \A p \in OpIds : Active(p)' => Live(p)'
    BY <1>4, <1>6, ConstantsAssumption DEF IInv, LoopInv, Live, Tasks
  <2>4. \A d \in Callers : d \in Elems(ready') => pc'[d] \notin {"idle", "over", "timer"}
    BY <1>1, <1>2, <1>3, <1>4 DEF IInv, LoopInv, LockPcs
  <2> QED BY <1>2, <1>3, <2>1, <2>2, <2>3, <2>4 DEF LoopInv
<1>8. LockInv'
  <2>1. Moves(c, "complete") /\ running' \in {c, None} /\ "complete" \notin LockPcs
    BY <1>3, <1>4 DEF Moves, Goto, LockPcs
  <2> QED BY <1>1, <1>3, <2>1, ReleaseLock
<1>9. WaitInv'
  <2>1. \A p \in OpIds : /\ Elems(ops[p].waiters) \subseteq Callers
                         /\ ops[p].waiters \in Seq(Callers)
    BY DEF Elems, IInv, TypeOK, Operations
  <2>2. ASSUME NEW p \in OpIds, NEW d \in Elems(ops[p].waiters)
        PROVE  d # c /\ pc'[d] = "complete" /\ loc'[d].op = p /\ ~Active(d)'
    <3>1. pc[d] = "complete" /\ loc[d].op = p /\ ~Active(d) /\ d \in Callers
      BY <2>1 DEF IInv, WaitInv
    <3>2. d # c /\ d \notin Elems(Granted(u))
      BY <1>1, <1>2, <3>1 DEF LockPcs
    <3> QED BY <1>4, <3>1, <3>2 DEF Tasks
  <2>3. CASE ops' = ops
    BY <2>2, <2>3 DEF IInv, WaitInv
  <2>4. CASE running' = None /\ ops' = [ops EXCEPT ![o].waiters = Append(@, c)]
    <3>1. ops'[o].waiters = Append(ops[o].waiters, c)
      BY <1>4, <2>4 DEF IInv, TypeOK, Operations
    <3>2. /\ Distinct(ops'[o].waiters)
          /\ Elems(ops'[o].waiters) = Elems(ops[o].waiters) \cup {c}
      <4>1. Distinct(ops[o].waiters) /\ c \notin Elems(ops[o].waiters)
        BY <1>4, <2>2 DEF IInv, WaitInv
      <4>2. PICK w \in Seq(Callers) : w = ops[o].waiters
        BY <1>4, <2>1 DEF IInv, TypeOK, Operations
      <4>3. /\ Elems(Append(w, c)) = Elems(w) \cup {c}
            /\ Distinct(w) /\ c \notin Elems(w) => Distinct(Append(w, c))
        BY AppendElems
      <4> HIDE DEF o
      <4> QED BY <3>1, <4>1, <4>2, <4>3
    <3>3. ~Active(c)'
      BY <1>1, <1>2, <1>3, <1>4, <2>4 DEF Active
    <3> QED BY <1>4, <1>6, <2>2, <3>2, <3>3 DEF IInv, WaitInv
  <2> QED BY <1>3, <2>3, <2>4
<1>10. OpInv'
  <2>1. \A p \in OpIds : /\ Live(p)' => ops'[p].user \in Users /\ op'[ops'[p].user] = p
                         /\ ops'[p].cancel => Live(p)'
                         /\ ops'[p].complete => ~Live(p)'
    BY <1>3, <1>6 DEF IInv, OpInv, Live
  <2>2. ASSUME NEW d \in Callers,
               (pc'[d] = "cancelled" /\ Active(d)') \/ pc'[d] = "cancelReport"
        PROVE  (op[loc[d].user] # None /\ ~Live(op[loc[d].user]))'
    <3>1. d # c /\ d \notin Elems(Granted(u)) /\ pc[d] = pc'[d] /\ loc'[d] = loc[d]
      BY <1>2, <1>4, <2>2 DEF LockPcs, HoldPcs
    <3>2. op[loc[d].user] # None /\ ~Live(op[loc[d].user]) /\ loc[d].user \in Users
      BY <1>4, <2>2, <3>1 DEF IInv, OpInv, LocalsInv, UserPcs, LockPcs, Tasks
    <3>3. op[loc[d].user] \in OpIds
      BY <3>2 DEF IInv, TypeOK
    <3> QED BY <1>3, <1>6, <3>1, <3>2, <3>3 DEF Live
  <2>3. ASSUME NEW d \in Callers,
               (pc'[d] = "complete" /\ Active(d)') \/ pc'[d] \in {"collect", "waitReport"}
        PROVE  (loc[d].op # None /\ ~Live(loc[d].op))'
    <3>1. CASE d = c
      <4>1. running' = c /\ ops[o].complete
        BY <1>1, <1>2, <1>3, <1>4, <2>3, <3>1 DEF Active
      <4>2. ~Live(o) /\ o # None
        BY <1>4, <4>1 DEF IInv, OpInv
      <4> QED BY <1>4, <1>6, <3>1, <4>2 DEF Live
    <3>2. CASE d # c
      <4>1. pc[d] = pc'[d] /\ loc'[d] = loc[d]
        BY <1>4, <3>2
      <4>2. (pc[d] = "complete" /\ Active(d)) \/ pc[d] \in {"collect", "waitReport"}
        BY <1>2, <1>4, <2>3, <4>1 DEF Tasks, LockPcs
      <4>3. loc[d].op # None /\ ~Live(loc[d].op) /\ loc[d].op \in OpIds
        BY <4>2 DEF IInv, OpInv, TypeOK, Locals
      <4> QED BY <1>6, <4>1, <4>3 DEF Live
    <3> QED BY <3>1, <3>2
  <2> QED BY <2>1, <2>2, <2>3 DEF OpInv
<1> QED BY <1>7, <1>8, <1>9, <1>10 DEF Discipline

-----------------------------------------------------------------------------
(* Steps of the loop, of other services and of operation tasks *)

\* The loop takes the task that was scheduled first.
LEMMA DispatchStep ==
    ASSUME IInv, Dispatch
    PROVE  Discipline'
<1>1. /\ ready \in Seq(Tasks) /\ ready # <<>> /\ Distinct(ready) /\ running = None
      /\ running' = Head(ready) /\ ready' = Tail(ready)
      /\ UNCHANGED <<pc, loc, op, lock, ops, serving>>
  BY DEF IInv, TypeOK, LoopInv, Dispatch, labs, env
<1>2. /\ Elems(ready) = Elems(ready') \cup {running'} /\ Distinct(ready')
      /\ running' \notin Elems(ready')
  BY <1>1, TailElems
<1>3. \A t : Active(t)' => Active(t)
  BY <1>2 DEF Active
<1>4. LoopInv'
  BY <1>1, <1>2, <1>3 DEF IInv, LoopInv, Live
<1>5. LockInv'
  BY <1>1, <1>3 DEF IInv, LockInv
<1>6. WaitInv'
  BY <1>1, <1>3 DEF IInv, WaitInv
<1>7. OpInv'
  BY <1>1, <1>3 DEF IInv, OpInv, Live
<1> QED BY <1>4, <1>5, <1>6, <1>7 DEF Discipline

\* A suspended caller that does not wait for the lock, for `complete' or for a
\* task is scheduled: a request arrives, a timer ends, another service answers.
LEMMA WakeStep ==
    ASSUME IInv, NEW c \in Callers, NEW l, running = None, running' = None,
           c \notin Elems(ready), ready' = Append(ready, c), Moves(c, l),
           \/ pc[c] = l /\ l \in {"cancelReport", "waitReport"} /\ loc' = loc
           \/ pc[c] \notin LockPcs /\ l \notin LockPcs,
           pc[c] \notin {"complete", "asleep"}, l \notin {"complete", "idle", "over", "timer"},
           UNCHANGED <<op, lock, ops, serving>>
    PROVE  Discipline'
<1> USE DEF Moves
<1>1. /\ ready \in Seq(Tasks) /\ Distinct(ready) /\ c \in Tasks /\ None \notin Tasks
      /\ OpIds \cap Callers = {} /\ Elems(ready) \subseteq Tasks
  BY ConstantsAssumption DEF IInv, TypeOK, LoopInv, Tasks, Callers, Elems
<1>2. Distinct(ready') /\ Elems(ready') = Elems(ready) \cup {c}
  BY <1>1, AppendElems
<1>3. /\ pc'[c] = l /\ \A d \in Callers \ {c} : pc'[d] = pc[d]
      /\ \A t \in Tasks : Active(t)' => Active(t) \/ t = c
  BY <1>1, <1>2 DEF IInv, TypeOK, Active
<1>4. LoopInv'
  <2>1. running' \notin Elems(ready')
    BY <1>1, <1>2
  <2>2. ~serving' => pc'[Reaper] = "asleep" /\ ~Active(Reaper)'
    BY <1>3 DEF IInv, LoopInv, Callers, Tasks
  <2>3. \A o \in OpIds : Active(o)' => Live(o)'
    BY <1>1, <1>3 DEF IInv, LoopInv, Live, Tasks
  <2>4. \A d \in Callers : d \in Elems(ready') => pc'[d] \notin {"idle", "over", "timer"}
    BY <1>2, <1>3 DEF IInv, LoopInv
  <2> QED BY <1>2, <2>1, <2>2, <2>3, <2>4 DEF LoopInv
<1>5. LockInv'
  <2>1. \A u \in Users : Elems(lock[u]) \subseteq Callers
    BY DEF Elems, IInv, TypeOK
  <2>2. \A u \in Users : \A d \in Elems(lock'[u]) : pc'[d] \in LockPcs /\ loc'[d].user = u
    BY <1>3, <2>1 DEF IInv, LockInv
  <2>3. ASSUME NEW d \in Callers, pc'[d] \in LockPcs, Active(d)' \/ pc'[d] \in HoldPcs
        PROVE  lock'[loc'[d].user] # <<>> /\ Head(lock'[loc'[d].user]) = d
    BY <1>3, <2>3 DEF IInv, LockInv, Tasks, HoldPcs
  <2> QED BY <2>2, <2>3 DEF LockInv, IInv
<1>6. WaitInv'
  <2>1. \A o \in OpIds : Elems(ops[o].waiters) \subseteq Callers
    BY DEF Elems, IInv, TypeOK, Operations
  <2> QED BY <1>3, <2>1 DEF IInv, WaitInv, Tasks
<1>7. OpInv'
  BY <1>3 DEF IInv, OpInv, Live, Tasks, LockPcs
<1> QED BY <1>4, <1>5, <1>6, <1>7 DEF Discipline

\* The end of the startup reconciliation, which starts the reaper.
LEMMA BootStep ==
    ASSUME IInv, ~serving, ReconcileEnd
    PROVE  Discipline'
<1>1. /\ ready \in Seq(Tasks) /\ Distinct(ready) /\ None \notin Tasks
      /\ OpIds \cap Callers = {} /\ Elems(ready) \subseteq Tasks
      /\ Reaper \in Callers /\ Reconciler \in Callers /\ Callers \subseteq Tasks
      /\ Reaper # Reconciler /\ Reaper \notin Elems(ready) /\ pc[Reaper] = "asleep"
      /\ running = Reconciler /\ Reconciler \notin Elems(ready)
  BY ConstantsAssumption
  DEF IInv, TypeOK, LoopInv, Tasks, Callers, Elems, Active, ReconcileEnd, At
<1>2. /\ ready' = Append(ready, Reaper) /\ running' = None /\ serving' = TRUE
      /\ pc' = [pc EXCEPT ![Reconciler] = "timer"] /\ pc[Reconciler] = "metric"
      /\ loc' = [loc EXCEPT ![Reconciler] = Idle]
      /\ UNCHANGED <<op, lock, ops>>
  BY DEF ReconcileEnd, At, Goto
<1>3. Distinct(ready') /\ Elems(ready') = Elems(ready) \cup {Reaper}
  BY <1>1, <1>2, AppendElems
<1>4. /\ pc'[Reconciler] = "timer" 
      /\ \A d \in Callers \ {Reconciler} : pc'[d] = pc[d] /\ loc'[d] = loc[d]
      /\ \A t \in Tasks : Active(t)' => Active(t) \/ t = Reaper
  BY <1>1, <1>2, <1>3 DEF IInv, TypeOK, Active
<1>5. LoopInv'
  <2>1. running' \notin Elems(ready')
    BY <1>1, <1>2, <1>3
  <2>2. \A o \in OpIds : Active(o)' => Live(o)'
    BY <1>1, <1>2, <1>4 DEF IInv, LoopInv, Live, Tasks
  <2>3. \A d \in Callers : d \in Elems(ready') => pc'[d] \notin {"idle", "over", "timer"}
    BY <1>1, <1>3, <1>4 DEF IInv, LoopInv
  <2> QED BY <1>2, <1>3, <2>1, <2>2, <2>3 DEF LoopInv
<1>6. LockInv'
  <2>1. \A u \in Users : Elems(lock[u]) \subseteq Callers
    BY DEF Elems, IInv, TypeOK
  <2>2. \A u \in Users : \A d \in Elems(lock'[u]) : pc'[d] \in LockPcs /\ loc'[d].user = u
    BY <1>2, <1>4, <2>1 DEF IInv, LockInv, LockPcs
  <2>3. ASSUME NEW d \in Callers, pc'[d] \in LockPcs, Active(d)' \/ pc'[d] \in HoldPcs
        PROVE  lock'[loc'[d].user] # <<>> /\ Head(lock'[loc'[d].user]) = d
    BY <1>1, <1>2, <1>4, <2>3 DEF IInv, LockInv, LockPcs
  <2> QED BY <1>2, <2>2, <2>3 DEF LockInv, IInv
<1>7. WaitInv'
  <2>1. \A o \in OpIds : Elems(ops[o].waiters) \subseteq Callers
    BY DEF Elems, IInv, TypeOK, Operations
  <2> QED BY <1>1, <1>2, <1>4, <2>1 DEF IInv, WaitInv
<1>8. OpInv'
  BY <1>1, <1>2, <1>4 DEF IInv, OpInv, Live
<1> QED BY <1>5, <1>6, <1>7, <1>8 DEF Discipline

\* OpInv depends only on who can run and on which operations live.
LEMMA OpInvFrame ==
    ASSUME IInv, UNCHANGED <<pc, loc, op>>, \A c \in Callers : Active(c)' => Active(c),
           \A p \in OpIds : /\ ops'[p].user = ops[p].user /\ (Live(p)' <=> Live(p))
                            /\ ops'[p].complete = ops[p].complete
                            /\ ops'[p].cancel => Live(p)'
    PROVE  OpInv'
<1>1. \A c \in Callers : op[loc[c].user] # None /\ loc[c].user \in Users => op[loc[c].user] \in OpIds
  BY DEF IInv, TypeOK
<1>2. \A c \in Callers : loc[c].op # None => loc[c].op \in OpIds
  BY DEF IInv, TypeOK, Locals
<1>3. \A c \in Callers : pc[c] \in {"cancelled", "cancelReport"} => loc[c].user \in Users
  BY DEF IInv, LocalsInv, UserPcs, LockPcs
<1>4. \A p \in OpIds : /\ Live(p)' => ops'[p].user \in Users /\ op'[ops'[p].user] = p
                       /\ ops'[p].cancel => Live(p)'
                       /\ ops'[p].complete => ~Live(p)'
  BY DEF IInv, OpInv
<1>5. ASSUME NEW d \in Callers,
             (pc'[d] = "cancelled" /\ Active(d)') \/ pc'[d] = "cancelReport"
      PROVE  (op[loc[d].user] # None /\ ~Live(op[loc[d].user]))'
  BY <1>1, <1>3, <1>5 DEF IInv, OpInv
<1>6. ASSUME NEW d \in Callers,
             (pc'[d] = "complete" /\ Active(d)') \/ pc'[d] \in {"collect", "waitReport"}
      PROVE  (loc[d].op # None /\ ~Live(loc[d].op))'
  BY <1>2, <1>6 DEF IInv, OpInv
<1> QED BY <1>4, <1>5, <1>6 DEF OpInv

\* A service answers an operation's call; the task is scheduled.
LEMMA OpReplyStep ==
    ASSUME IInv, NEW o \in OpIds, OpReply(o)
    PROVE  Discipline'
<1>1. /\ ready \in Seq(Tasks) /\ Distinct(ready) /\ o \in Tasks /\ None \notin Tasks
      /\ OpIds \cap Callers = {} /\ Elems(ready) \subseteq Tasks /\ Callers \subseteq Tasks
  BY ConstantsAssumption DEF IInv, TypeOK, LoopInv, Tasks, Callers, Elems
<1>2. /\ running = None /\ running' = None /\ o \notin Elems(ready) /\ Live(o)
      /\ ready' = Append(ready, o) /\ UNCHANGED <<pc, loc, op, lock, serving>>
  <2>1. Waiting(o) /\ ready' = Append(ready, o)
        /\ UNCHANGED <<running, pc, loc, op, lock, serving>>
    BY DEF OpReply
  <2> QED BY <1>1, <2>1 DEF Waiting, Scheduled, Elems, Live, Awaits, Mutating
<1>3. \E r : ops' = [ops EXCEPT ![o].reply = r]
  BY Zenon DEF OpReply
<1>4. \A p \in OpIds : /\ ops'[p].user = ops[p].user /\ ops'[p].pc = ops[p].pc
                       /\ ops'[p].waiters = ops[p].waiters
                       /\ ops'[p].complete = ops[p].complete
                       /\ ops'[p].cancel = ops[p].cancel
  BY <1>3 DEF IInv, TypeOK, Operations
<1>5. Distinct(ready') /\ Elems(ready') = Elems(ready) \cup {o}
  BY <1>1, <1>2, AppendElems
<1>6. \A t \in Tasks : Active(t)' => Active(t) \/ t = o
  BY <1>1, <1>2, <1>5 DEF Active
<1>7. LoopInv'
  <2>1. \A p \in OpIds : Live(p)' <=> Live(p)
    BY <1>4 DEF Live
  <2>2. running' \notin Elems(ready')
    BY <1>1, <1>2, <1>5
  <2>3. ~serving' => pc'[Reaper] = "asleep" /\ ~Active(Reaper)'
    BY <1>1, <1>2, <1>6 DEF IInv, LoopInv, Callers, Tasks
  <2> QED BY <1>1, <1>2, <1>5, <1>6, <2>1, <2>2, <2>3 DEF IInv, LoopInv, Tasks
<1>8. LockInv'
  BY <1>1, <1>2, <1>6 DEF IInv, LockInv
<1>9. WaitInv'
  <2>1. \A p \in OpIds : Elems(ops[p].waiters) \subseteq Callers
    BY DEF Elems, IInv, TypeOK, Operations
  <2> QED BY <1>1, <1>2, <1>4, <1>6, <2>1 DEF IInv, WaitInv
<1>10. OpInv'
  <2>1. \A p \in OpIds : /\ ops'[p].user = ops[p].user /\ (Live(p)' <=> Live(p))
                         /\ ops'[p].complete = ops[p].complete
                         /\ ops'[p].cancel => Live(p)'
    BY <1>4 DEF IInv, OpInv, Live
  <2>2. \A c \in Callers : Active(c)' => Active(c)
    BY <1>1, <1>6
  <2> QED BY <1>2, <2>1, <2>2, OpInvFrame
<1> QED BY <1>7, <1>8, <1>9, <1>10 DEF Discipline

\* An operation's task goes on to its next await.
LEMMA OpAwaitStep ==
    ASSUME IInv, NEW o \in OpIds, running = o, NEW l, l # "done", OpAwait(o, l),
           UNCHANGED <<pc, loc, op, lock, serving>>
    PROVE  Discipline'
<1>1. /\ None \notin Tasks /\ Elems(ready) \subseteq Tasks /\ Callers \subseteq Tasks
      /\ OpIds \subseteq Tasks
  BY ConstantsAssumption DEF IInv, TypeOK, Tasks, Callers, Elems
<1>2. running' = None /\ ready' = ready /\ Live(o)
  BY DEF OpAwait, Suspend, IInv, LoopInv, Active
<1>3. \A p \in OpIds : /\ ops'[p].user = ops[p].user
                       /\ ops'[p].waiters = ops[p].waiters
                       /\ ops'[p].complete = ops[p].complete
                       /\ Live(p)' <=> Live(p)
                       /\ ops'[p].cancel => ops[p].cancel
  <2>1. /\ ops'[o].user = ops[o].user /\ ops'[o].pc = l
        /\ ops'[o].waiters = ops[o].waiters /\ ops'[o].complete = ops[o].complete
        /\ ops'[o].cancel = FALSE
    BY DEF OpAwait, IInv, TypeOK, Operations
  <2>2. \A p \in OpIds \ {o} : ops'[p] = ops[p]
    BY DEF OpAwait, IInv, TypeOK
  <2> QED BY <1>2, <2>1, <2>2 DEF Live
<1>4. \A t \in Tasks : Active(t)' => Active(t)
  BY <1>1, <1>2 DEF Active
<1>5. LoopInv'
  BY <1>1, <1>2, <1>3, <1>4 DEF IInv, LoopInv, Callers
<1>6. LockInv'
  BY <1>1, <1>4 DEF IInv, LockInv
<1>7. WaitInv'
  <2>1. \A p \in OpIds : Elems(ops[p].waiters) \subseteq Callers
    BY DEF Elems, IInv, TypeOK, Operations
  <2> QED BY <1>1, <1>3, <1>4, <2>1 DEF IInv, WaitInv
<1>8. OpInv'
  <2>1. \A p \in OpIds : ops'[p].cancel => Live(p)'
    BY <1>3 DEF IInv, OpInv
  <2> QED BY <1>1, <1>3, <1>4, <2>1, OpInvFrame
<1> QED BY <1>5, <1>6, <1>7, <1>8 DEF Discipline

\* An operation's task ends and wakes those who wait for it: callers in wait(),
\* the reaper, and the owner of the lock in cancel().  None of them was already
\* scheduled, and whoever can now clear the operation finds it over.
LEMMA OpFinishStep ==
    ASSUME IInv, NEW o \in OpIds, running = o, NEW res, NEW started, OpFinish(o, res, started),
           UNCHANGED <<pc, loc, op, lock, serving>>
    PROVE  Discipline'
<1> DEFINE u == ops[o].user
<1>1. /\ None \notin Tasks /\ Elems(ready) \subseteq Tasks /\ Callers \subseteq Tasks
      /\ OpIds \subseteq Tasks /\ OpIds \cap Callers = {} /\ Reaper \in Callers
      /\ ready \in Seq(Tasks) /\ Distinct(ready) /\ o \notin Elems(ready)
  BY ConstantsAssumption DEF IInv, TypeOK, LoopInv, Tasks, Callers, Elems
<1>2. Live(o) /\ u \in Users /\ op[u] = o /\ o # None
  BY ConstantsAssumption DEF IInv, LoopInv, OpInv, Active
<1>3. PICK W, R, J :
        /\ ready' = ready \o W \o R \o J
        /\ W \in {<<>>, ops[o].waiters}
        /\ R = <<>> \/ (R = <<Reaper>> /\ pc[Reaper] = "asleep" /\ ~Scheduled(Reaper) /\ serving)
        /\ J = <<>> \/ (J = <<Head(lock[u])>> /\ lock[u] # <<>> /\ pc[Head(lock[u])] = "cancelled")
  BY <1>2 DEF OpFinish
<1>4. /\ W \in Seq(Tasks) /\ Distinct(W)
      /\ \A d \in Elems(W) : d \in Callers /\ pc[d] = "complete" /\ loc[d].op = o /\ ~Active(d)
  <2>1. ops[o].waiters \in Seq(Callers) /\ ops[o].waiters \in Seq(Tasks)
    BY <1>1 DEF IInv, TypeOK, Operations
  <2>2. Elems(ops[o].waiters) \subseteq Callers
    BY <2>1 DEF Elems
  <2>3. CASE W = <<>>
    BY <2>3, EmptyElems
  <2>4. CASE W = ops[o].waiters
    BY <2>1, <2>2, <2>4 DEF IInv, WaitInv
  <2> QED BY <1>3, <2>3, <2>4
<1>5. /\ R \in Seq(Tasks) /\ Distinct(R)
      /\ \A d \in Elems(R) : d = Reaper /\ pc[d] = "asleep" /\ ~Active(d) /\ serving
  <2>1. CASE R = <<>>
    BY <2>1, EmptyElems
  <2>2. CASE R = <<Reaper>> /\ pc[Reaper] = "asleep" /\ ~Scheduled(Reaper) /\ serving
    <3>1. ~Active(Reaper)
      BY <1>1, <2>2 DEF Active, Scheduled, Elems
    <3> QED BY <1>1, <2>2, <3>1, SingleElems
  <2> QED BY <1>3, <2>1, <2>2
<1>6. /\ J \in Seq(Tasks) /\ Distinct(J)
      /\ \A d \in Elems(J) : /\ d \in Callers /\ pc[d] = "cancelled" /\ loc[d].user = u
                             /\ ~Active(d)
  <2>1. CASE J = <<>>
    BY <2>1, EmptyElems
  <2>2. CASE J = <<Head(lock[u])>> /\ lock[u] # <<>> /\ pc[Head(lock[u])] = "cancelled"
    <3>1. PICK j : j = Head(lock[u])
      OBVIOUS
    <3>2. j \in Callers /\ j \in Elems(lock[u])
      <4>1. lock[u] \in Seq(Callers)
        BY <1>2 DEF IInv, TypeOK
      <4>2. Len(lock[u]) \in Nat \ {0} /\ Head(lock[u]) = lock[u][1]
        BY <2>2, <4>1
      <4> QED BY <3>1, <4>1, <4>2 DEF Elems
    <3>3. loc[j].user = u
      BY <1>2, <3>2 DEF IInv, LockInv
    <3>4. ~Active(j)
      BY <1>2, <2>2, <3>1, <3>2, <3>3 DEF IInv, OpInv
    <3> QED BY <1>1, <2>2, <3>1, <3>2, <3>3, <3>4, SingleElems
  <2> QED BY <1>3, <2>1, <2>2
<1>7. /\ Distinct(ready')
      /\ Elems(ready') = Elems(ready) \cup Elems(W) \cup Elems(R) \cup Elems(J)
  <2>1. PICK a : a = ready \o W
    OBVIOUS
  <2>2. a \in Seq(Tasks) /\ Distinct(a) /\ Elems(a) = Elems(ready) \cup Elems(W)
    <3>1. Elems(ready) \cap Elems(W) = {}
      BY <1>4 DEF Active
    <3> QED BY <1>1, <1>4, <2>1, <3>1, ConcatElems
  <2>3. PICK b : b = a \o R
    OBVIOUS
  <2>4. b \in Seq(Tasks) /\ Distinct(b) /\ Elems(b) = Elems(a) \cup Elems(R)
    <3>1. Elems(a) \cap Elems(R) = {}
      BY <1>4, <1>5, <2>2 DEF Active
    <3> QED BY <1>5, <2>2, <2>3, <3>1, ConcatElems
  <2>5. Elems(b) \cap Elems(J) = {}
    BY <1>4, <1>5, <1>6, <2>2, <2>4 DEF Active
  <2>6. ready' = b \o J
    BY <1>3, <2>1, <2>3
  <2> QED BY <1>6, <2>2, <2>4, <2>5, <2>6, ConcatElems
<1>8. /\ running' = None
      /\ \A p \in OpIds \ {o} : ops'[p] = ops[p]
      /\ ops'[o].pc = "done" /\ ops'[o].waiters = <<>> /\ ops'[o].cancel = FALSE
  <2>1. ops \in [OpIds -> Operations]
    BY DEF IInv, TypeOK
  <2> QED BY <1>2, <2>1 DEF OpFinish, IdleOp
<1>9. \A t \in Tasks : Active(t)' => Active(t) \/ t \in Elems(W) \cup Elems(R) \cup Elems(J)
  BY <1>1, <1>7, <1>8 DEF Active
<1>10. LoopInv'
  <2>1. running' \notin Elems(ready')
    BY <1>1, <1>4, <1>5, <1>6, <1>7, <1>8
  <2>2. \A p \in OpIds : Active(p)' => Live(p)'
    <3>1. \A p \in OpIds : p \notin Elems(W) \cup Elems(R) \cup Elems(J)
      BY <1>1, <1>4, <1>5, <1>6
    <3>2. ~Active(o)'
      BY <1>1, <1>2, <1>7, <1>8, <3>1 DEF Active
    <3> QED BY <1>1, <1>8, <1>9, <3>1, <3>2 DEF IInv, LoopInv, Live
  <2>3. \A d \in Callers : d \in Elems(ready') => pc'[d] \notin {"idle", "over", "timer"}
    BY <1>4, <1>5, <1>6, <1>7 DEF IInv, LoopInv
  <2>4. ~serving' => pc'[Reaper] = "asleep" /\ ~Active(Reaper)'
    BY <1>1, <1>4, <1>5, <1>6, <1>9 DEF IInv, LoopInv
  <2> QED BY <1>7, <2>1, <2>2, <2>3, <2>4 DEF LoopInv
<1>11. LockInv'
  <2>1. ASSUME NEW d \in Callers, pc'[d] \in LockPcs, Active(d)' \/ pc'[d] \in HoldPcs
        PROVE  lock'[loc'[d].user] # <<>> /\ Head(lock'[loc'[d].user]) = d
    <3>1. Active(d) \/ pc[d] \in HoldPcs
      BY <1>1, <1>4, <1>5, <1>6, <1>9, <2>1 DEF LockPcs, HoldPcs
    <3> QED BY <2>1, <3>1 DEF IInv, LockInv
  <2> QED BY <2>1 DEF LockInv, IInv
<1>12. WaitInv'
  <2>1. \A p \in OpIds : Elems(ops[p].waiters) \subseteq Callers
    BY DEF Elems, IInv, TypeOK, Operations
  <2>2. ASSUME NEW p \in OpIds \ {o}
        PROVE  /\ Distinct(ops'[p].waiters)
               /\ \A d \in Elems(ops'[p].waiters) :
                     pc'[d] = "complete" /\ loc'[d].op = p /\ ~Active(d)'
    BY <1>1, <1>4, <1>5, <1>6, <1>8, <1>9, <2>1 DEF IInv, WaitInv
  <2> QED BY <1>8, <2>2, EmptyElems DEF WaitInv
<1>13. OpInv'
  <2>1. \A p \in OpIds : Live(p)' => Live(p)
    BY <1>8 DEF Live
  <2>2. ~Live(o)'
    BY <1>8 DEF Live
  <2>3. \A p \in OpIds : /\ Live(p)' => ops'[p].user \in Users /\ op'[ops'[p].user] = p
                         /\ ops'[p].cancel => Live(p)'
                         /\ ops'[p].complete => ~Live(p)'
    BY <1>8, <2>2 DEF IInv, OpInv, Live
  <2>4. ASSUME NEW d \in Callers,
               (pc'[d] = "cancelled" /\ Active(d)') \/ pc'[d] = "cancelReport"
        PROVE  (op[loc[d].user] # None /\ ~Live(op[loc[d].user]))'
    <3>1. CASE d \in Elems(J)
      BY <1>2, <1>6, <2>2, <3>1
    <3>2. CASE d \notin Elems(J)
      <4>1. (pc[d] = "cancelled" /\ Active(d)) \/ pc[d] = "cancelReport"
        BY <1>1, <1>4, <1>5, <1>9, <2>4, <3>2
      <4>2. op[loc[d].user] # None /\ ~Live(op[loc[d].user]) /\ loc[d].user \in Users
        BY <4>1 DEF IInv, OpInv, LocalsInv, UserPcs, LockPcs
      <4>3. op[loc[d].user] \in OpIds
        BY <4>2 DEF IInv, TypeOK
      <4> QED BY <2>1, <4>2, <4>3
    <3> QED BY <3>1, <3>2
  <2>5. ASSUME NEW d \in Callers,
               (pc'[d] = "complete" /\ Active(d)') \/ pc'[d] \in {"collect", "waitReport"}
        PROVE  (loc[d].op # None /\ ~Live(loc[d].op))'
    <3>1. CASE d \in Elems(W)
      BY <1>2, <1>4, <2>2, <3>1
    <3>2. CASE d \notin Elems(W)
      <4>1. (pc[d] = "complete" /\ Active(d)) \/ pc[d] \in {"collect", "waitReport"}
        BY <1>1, <1>5, <1>6, <1>9, <2>5, <3>2
      <4>2. loc[d].op # None /\ ~Live(loc[d].op) /\ loc[d].op \in OpIds
        BY <4>1 DEF IInv, OpInv, TypeOK, Locals
      <4> QED BY <2>1, <4>2
    <3> QED BY <3>1, <3>2
  <2> QED BY <2>3, <2>4, <2>5 DEF OpInv
<1> QED BY <1>10, <1>11, <1>12, <1>13 DEF Discipline

\* A new process: nothing runs but the scheduled reconciler.
Fresh ==
    /\ running = None /\ ready = <<Reconciler>> /\ serving = FALSE
    /\ op = NoLabs /\ lock = NoLocks /\ ops = NoOps
    /\ \A c \in Callers : pc[c] \in {"begin", "asleep", "idle", "over"}
    /\ pc[Reconciler] = "begin" /\ pc[Reaper] = "asleep"

\* The loop, lock and operation parts of the invariant hold in a new process.
LEMMA FreshDiscipline == Fresh => Discipline
<1> SUFFICES ASSUME Fresh PROVE Discipline
  OBVIOUS
<1> USE DEF Fresh
<1>1. Elems(ready) = {Reconciler} /\ Distinct(ready)
  BY DEF Elems, Distinct
<1>2. /\ \A o \in OpIds : ~Live(o) /\ ops[o].waiters = <<>> /\ ~ops[o].cancel /\ ~ops[o].complete
      /\ \A u \in Users : lock[u] = <<>>
  BY DEF NoOps, IdleOp, Live, NoLocks
<1>3. Reconciler \in Callers /\ Reaper # Reconciler /\ Reconciler \notin OpIds
      /\ Reconciler # None /\ Reaper # None /\ None \notin OpIds
  BY ConstantsAssumption DEF Callers
<1>4. LoopInv
  BY <1>1, <1>2, <1>3, ConstantsAssumption DEF LoopInv, Active
<1>5. LockInv
  BY <1>2, EmptyElems DEF LockInv, LockPcs
<1>6. WaitInv
  BY <1>2, EmptyElems DEF WaitInv
<1>7. OpInv
  BY <1>2 DEF OpInv
<1> QED BY <1>4, <1>5, <1>6, <1>7 DEF Discipline

-----------------------------------------------------------------------------
(* The same steps with types *)

\* A step of the running caller c to l, with well-typed locals.
Step(c, l) ==
    /\ Goto(c, l) /\ l \in CallerPcs /\ running' \in {c, None}
    /\ loc' \in [Callers -> Locals] /\ \A d \in Callers \ {c} : loc'[d] = loc[d]
    /\ l \in UserPcs => loc'[c].user \in Users
    /\ c \in Requests => loc'[c].val \in Phases \cup {None, "error"}

\* The types of the variables the loop, the locks and the operations do not use.
OthersOK ==
    /\ known \in SUBSET Users
    /\ labState \in [Users -> StateIds \cup {None}]
    /\ status \in [StateIds -> Statuses]
    /\ touched \in [Users -> BOOLEAN]
    /\ doneEvent \in BOOLEAN
    /\ sweep \in [todo : SUBSET Users, snap : SUBSET Users]
    /\ pass \in [todo : SUBSET Users, obs : [Users -> Statuses \cup {None}]]
    /\ serving \in BOOLEAN
    /\ k8s \in [Users -> ClusterStates]
    /\ stray \in [Users -> Mutating \cup {None}]
    /\ faults \in 0..MaxFaults

\* The invariant gives the types of the remaining variables.
LEMMA OthersTyped == IInv => OthersOK
  BY DEF IInv, TypeOK, OthersOK

\* A typed step of a caller is a step of the untyped lemmas above.
LEMMA StepTypes ==
    ASSUME IInv, NEW c \in Callers, NEW l, Step(c, l)
    PROVE  /\ Moves(c, l) /\ LocalsInv' /\ running' \in Tasks \cup {None}
           /\ pc' \in [Callers -> CallerPcs] /\ loc' \in [Callers -> Locals]
<1>1. pc \in [Callers -> CallerPcs]
  BY DEF IInv, TypeOK
<1>2. pc' \in [Callers -> CallerPcs] /\ pc'[c] = l /\ \A d \in Callers \ {c} : pc'[d] = pc[d]
  BY <1>1 DEF Step, Goto
<1>3. LocalsInv'
  BY <1>2 DEF IInv, LocalsInv, Step, Callers
<1> QED BY <1>2, <1>3 DEF Step, Moves, Goto, Tasks

\* A piece of a caller's code between two awaits, none of which is for the
\* lock or for `complete', keeps the invariant.
LEMMA LocalInv ==
    ASSUME IInv, NEW c \in Callers, NEW l, running = c, Step(c, l),
           pc[c] \notin LockPcs, l \notin LockPcs \cup {"complete"},
           ready' = ready, UNCHANGED <<op, lock, ops, serving>>, OthersOK'
    PROVE  IInv'
<1>1. Discipline'
  <2>1. Moves(c, l) /\ running' \in {c, None}
    BY StepTypes DEF Step
  <2> QED BY <2>1, LocalStep
<1>2. TypeOK'
  BY StepTypes DEF IInv, TypeOK, OthersOK
<1> QED BY <1>1, <1>2, StepTypes DEF IInv, Discipline

\* `async with self._lock' keeps the invariant.
LEMMA AcquireInv ==
    ASSUME IInv, NEW c \in Callers, NEW l \in LockPcs \ HoldPcs, running = c, Step(c, l),
           pc[c] \notin LockPcs, NEW u, loc'[c].user = u, Acquire(c, u),
           l = "collect" => loc'[c].op # None /\ ~Live(loc'[c].op),
           UNCHANGED <<op, ops, serving>>, OthersOK'
    PROVE  IInv'
<1>1. u \in Users
  BY DEF Step, UserPcs
<1>2. Discipline'
  BY <1>1, StepTypes, AcquireStep
<1>3. lock' \in [Users -> Seq(Callers)] /\ ready' = ready
  <2>1. lock[u] \in Seq(Callers) /\ lock \in [Users -> Seq(Callers)]
    BY <1>1 DEF IInv, TypeOK
  <2>2. Append(lock[u], c) \in Seq(Callers)
    BY <2>1, AppendElems
  <2> QED BY <1>1, <2>1, <2>2 DEF Acquire
<1>4. TypeOK'
  BY <1>3, StepTypes DEF IInv, TypeOK, OthersOK
<1> QED BY <1>2, <1>4, StepTypes DEF IInv, Discipline

\* The types of the lock and of the ready queue after a release.
LEMMA ReleaseTypes ==
    ASSUME IInv, NEW c \in Callers, running = c, pc[c] \in LockPcs, NEW u, u = loc[c].user,
           Release(u)
    PROVE  /\ u \in Users /\ lock' \in [Users -> Seq(Callers)]
           /\ ready \o Granted(u) \in Seq(Tasks)
<1>1. ready \in Seq(Tasks) /\ Distinct(ready) /\ lock \in [Users -> Seq(Callers)]
  BY DEF IInv, TypeOK, LoopInv
<1>2. u \in Users /\ lock[u] # <<>> /\ Head(lock[u]) = c /\ ready \o Granted(u) \in Seq(Tasks)
  BY <1>1, GrantedFacts
<1>3. Tail(lock[u]) \in Seq(Callers)
  BY <1>2, ReleaseFacts
<1> QED BY <1>1, <1>2, <1>3 DEF Release

\* So does leaving the block, whether or not it cleared _operation.
LEMMA ReleaseInv ==
    ASSUME IInv, NEW c \in Callers, NEW l, running = c, Step(c, l),
           pc[c] \in LockPcs, l \notin LockPcs \cup {"complete"}, NEW u, u = loc[c].user,
           Release(u), ready' = ready \o Granted(u),
           \/ op' = op
           \/ op' = [op EXCEPT ![u] = None] /\ (op[u] # None => ~Live(op[u])),
           UNCHANGED <<ops, serving>>, OthersOK'
    PROVE  IInv'
<1>1. Discipline'
  <2>1. Moves(c, l) /\ running' \in {c, None}
    BY StepTypes DEF Step
  <2> QED BY <2>1, ReleaseStep
<1>2. u \in Users /\ lock' \in [Users -> Seq(Callers)] /\ ready' \in Seq(Tasks)
  BY ReleaseTypes
<1>3. op' \in [Users -> OpIds \cup {None}]
  BY <1>2 DEF IInv, TypeOK
<1>4. TypeOK'
  BY <1>2, <1>3, StepTypes DEF IInv, TypeOK, OthersOK
<1> QED BY <1>1, <1>4, StepTypes DEF IInv, Discipline

\* So does _RunningOperation.start by the lock's owner, who then releases it.
LEMMA StartInv ==
    ASSUME IInv, NEW c \in Callers, NEW l, running = c, Step(c, l),
           pc[c] \in LockPcs, l \notin LockPcs \cup {"complete"}, NEW u, u = loc[c].user,
           op[u] = None, NEW o \in FreeOps, NEW kind \in Kinds, NEW st \in StateIds \cup {None},
           NEW first \in BOOLEAN, StartOperation(o, u, kind, st, first),
           serving' = serving, OthersOK'
    PROVE  IInv'
<1>1. Discipline'
  <2>1. Moves(c, l) /\ running' \in {c, None}
    BY StepTypes DEF Step
  <2> QED BY <2>1, StartStep
<1>2. o \in OpIds
  BY DEF FreeOps
<1>3. u \in Users /\ lock' \in [Users -> Seq(Callers)]
  BY ReleaseTypes DEF StartOperation
<1>4. ready' \in Seq(Tasks)
  <2>1. /\ ready \in Seq(Tasks) /\ Distinct(ready) /\ o \notin Elems(ready) /\ o \in Tasks
    BY <1>2 DEF IInv, TypeOK, LoopInv, FreeOps, Active, Tasks
  <2>2. PICK q : q = Append(ready, o)
    OBVIOUS
  <2>3. q \in Seq(Tasks) /\ Distinct(q) /\ Elems(q) \subseteq Elems(ready) \cup OpIds
    BY <1>2, <2>1, <2>2, AppendElems
  <2>4. q \o Granted(u) \in Seq(Tasks)
    BY <2>3, GrantedFacts
  <2> QED BY <2>2, <2>4 DEF StartOperation
<1>5. ops' \in [OpIds -> Operations] /\ op' \in [Users -> OpIds \cup {None}]
  <2>1. [IdleOp EXCEPT !.user = u, !.kind = kind, !.st = st, !.first = first,
                       !.pc = "created"] \in Operations
    <3>1. IdleOp \in Operations
      BY DEF IdleOp, Operations, OpPcs, Kinds
    <3>2. PICK a1 \in Operations : a1 = [IdleOp EXCEPT !.user = u]
      BY <1>3, <3>1 DEF Operations
    <3>3. PICK a2 \in Operations : a2 = [a1 EXCEPT !.kind = kind]
      BY DEF Operations
    <3>4. PICK a3 \in Operations : a3 = [a2 EXCEPT !.st = st]
      BY DEF Operations
    <3>5. PICK a4 \in Operations : a4 = [a3 EXCEPT !.first = first]
      BY DEF Operations
    <3>6. PICK a5 \in Operations : a5 = [a4 EXCEPT !.pc = "created"]
      BY DEF Operations, OpPcs
    <3> QED BY <3>2, <3>3, <3>4, <3>5, <3>6
  <2>2. ops \in [OpIds -> Operations] /\ op \in [Users -> OpIds \cup {None}]
    BY DEF IInv, TypeOK
  <2> QED BY <1>2, <1>3, <2>1, <2>2 DEF StartOperation
<1>6. TypeOK'
  BY <1>3, <1>4, <1>5, StepTypes DEF IInv, TypeOK, OthersOK
<1> QED BY <1>1, <1>6, StepTypes DEF IInv, Discipline

\* So does an await of another service by a caller that owns the lock.
LEMMA HoldInv ==
    ASSUME IInv, NEW c \in Callers, NEW l \in HoldPcs, running = c, Goto(c, l),
           running' \in {c, None}, pc[c] \in LockPcs, NEW u, u = loc[c].user, ready' = ready,
           UNCHANGED <<loc, op, lock, ops, serving>>, OthersOK',
           l \in {"cancelled", "cancelReport"} => op[u] # None /\ ~Live(op[u]),
           l = "waitReport" => loc[c].op # None /\ ~Live(loc[c].op)
    PROVE  IInv'
<1>1. Step(c, l)
  BY DEF Step, IInv, TypeOK, LocalsInv, HoldPcs, CallerPcs, UserPcs
<1>2. Discipline'
  <2>1. Moves(c, l)
    BY <1>1, StepTypes
  <2> QED BY <2>1, HoldStep
<1>3. TypeOK'
  BY <1>1, StepTypes DEF IInv, TypeOK, OthersOK
<1> QED BY <1>1, <1>2, <1>3, StepTypes DEF IInv, Discipline

-----------------------------------------------------------------------------
(* create_lab *)

EndPcs == {"over", "gc", "dead", "timer", "bootFailed"}

\* How an API method ends.
LEMMA ReturnStep ==
    ASSUME IInv, NEW c \in Callers, NEW res \in Results, Return(c, res)
    PROVE  \E l \in EndPcs : Step(c, l)
<1>1. PICK l \in EndPcs : /\ Goto(c, l) /\ running' \in {c, None}
                          /\ loc' = [loc EXCEPT ![c] = [Idle EXCEPT !.res = res]]
  BY DEF Return, EndPcs
<1>2. [Idle EXCEPT !.res = res] \in Locals /\ [Idle EXCEPT !.res = res].val = None
  BY DEF Idle, Locals
<1>3. /\ loc' \in [Callers -> Locals] /\ \A d \in Callers \ {c} : loc'[d] = loc[d]
      /\ loc'[c].val = None
  BY <1>1, <1>2 DEF IInv, TypeOK
<1>4. l \in CallerPcs /\ l \notin UserPcs
  BY DEF EndPcs, CallerPcs, UserPcs, LockPcs
<1>5. Step(c, l)
  BY <1>1, <1>3, <1>4 DEF Step
<1> QED BY <1>5

\* A method ends without having taken the lock.
LEMMA LocalReturn ==
    ASSUME IInv, NEW c \in Callers, NEW res \in Results, Return(c, res), running = c,
           pc[c] \notin LockPcs, ready' = ready, UNCHANGED <<op, lock, ops, serving>>, OthersOK'
    PROVE  IInv'
<1>1. PICK l \in EndPcs : Step(c, l)
  BY ReturnStep
<1>2. l \notin LockPcs \cup {"complete"}
  BY DEF EndPcs, LockPcs
<1> QED BY <1>1, <1>2, LocalInv

\* A method ends with a release of the lock.
LEMMA ReleaseReturn ==
    ASSUME IInv, NEW c \in Callers, NEW res \in Results, Return(c, res), running = c,
           pc[c] \in LockPcs, NEW u, u = loc[c].user, Release(u), ready' = ready \o Granted(u),
           UNCHANGED <<op, ops, serving>>, OthersOK'
    PROVE  IInv'
<1>1. PICK l \in EndPcs : Step(c, l)
  BY ReturnStep
<1>2. l \notin LockPcs \cup {"complete"}
  BY DEF EndPcs, LockPcs
<1> QED BY <1>1, <1>2, ReleaseInv

\* Facts about a request that every step of create_lab starts from.
LEMMA RequestFacts ==
    ASSUME IInv, NEW r \in Requests
    PROVE  /\ r \in Callers /\ loc \in [Callers -> Locals] /\ pc \in [Callers -> CallerPcs]
           /\ loc[r] \in Locals /\ loc[r].val \in Phases \cup {None, "error"}
           /\ pc[r] \in UserPcs => loc[r].user \in Users
  BY DEF IInv, TypeOK, LocalsInv, Callers

\* create_lab up to _select_image keeps the invariant.
LEMMA CreateBeginInv ==
    ASSUME IInv, NEW r \in Requests, CreateBegin(r)
    PROVE  IInv'
<1>1. /\ r \in Callers /\ running = r /\ pc[r] = "create" /\ loc[r].user \in Users
      /\ pc[r] \notin LockPcs
  BY RequestFacts DEF CreateBegin, At, UserPcs, LockPcs
<1>2. CASE Return(r, "denied") /\ UNCHANGED <<ready, known, touched>>
  <2>1. OthersOK'
    BY <1>2, OthersTyped DEF CreateBegin, OthersOK, env
  <2>2. "denied" \in Results /\ UNCHANGED <<op, lock, ops, serving>> /\ ready' = ready
    BY <1>2 DEF CreateBegin, Results
  <2> QED BY <1>1, <1>2, <2>1, <2>2, LocalReturn
<1>3. CASE /\ known' = known \cup {loc[r].user}
           /\ touched' = [touched EXCEPT ![loc[r].user] = @ \/ loc[r].user \notin known]
           /\ Goto(r, "image") /\ (Continue \/ Suspend) /\ UNCHANGED loc
  <2>1. OthersOK'
    BY <1>1, <1>3, OthersTyped DEF CreateBegin, OthersOK, env
  <2>2. Step(r, "image") /\ ready' = ready
    BY <1>1, <1>3, RequestFacts DEF Step, CallerPcs, Continue, Suspend, loop
  <2>3. UNCHANGED <<op, lock, ops, serving>> /\ "image" \notin LockPcs \cup {"complete"}
    BY DEF CreateBegin, LockPcs
  <2> QED BY <1>1, <2>1, <2>2, <2>3, LocalInv
<1> QED BY <1>2, <1>3 DEF CreateBegin

\* create_lab from the image to the read of the pod phase keeps the invariant.
LEMMA CreateImageInv ==
    ASSUME IInv, NEW r \in Requests, CreateImage(r)
    PROVE  IInv'
<1>1. /\ r \in Callers /\ running = r /\ pc[r] = "image" /\ loc[r].user \in Users
      /\ pc[r] \notin LockPcs
  BY RequestFacts DEF CreateImage, At, UserPcs, LockPcs
<1>2. OthersOK' /\ UNCHANGED <<op, lock, ops, serving>>
  BY OthersTyped DEF CreateImage, OthersOK, labs, env
<1>3. CASE Return(r, "rejected") /\ UNCHANGED ready
  BY <1>1, <1>2, <1>3, LocalReturn DEF Results
<1>4. CASE Goto(r, "check") /\ Continue /\ UNCHANGED loc
  <2>1. Step(r, "check") /\ ready' = ready
    BY <1>1, <1>4, RequestFacts DEF Step, CallerPcs, Continue, loop
  <2> QED BY <1>1, <1>2, <2>1, LocalInv DEF LockPcs
<1>5. CASE /\ loc' = [loc EXCEPT ![r].st = labState[loc[r].user]]
           /\ Goto(r, "phase") /\ Suspend
  <2>1. labState[loc[r].user] \in StateIds \cup {None}
    BY <1>1 DEF IInv, TypeOK
  <2>2. /\ loc' \in [Callers -> Locals] /\ \A d \in Callers \ {r} : loc'[d] = loc[d]
        /\ loc'[r].user = loc[r].user /\ loc'[r].val = loc[r].val
    BY <1>1, <1>5, <2>1, RequestFacts DEF Locals
  <2>3. Step(r, "phase") /\ ready' = ready
    BY <1>1, <1>5, <2>2, RequestFacts DEF Step, CallerPcs, Suspend
  <2> QED BY <1>1, <1>2, <2>3, LocalInv DEF LockPcs
<1> QED BY <1>3, <1>4, <1>5 DEF CreateImage

\* Recording the phase that create_lab read keeps the invariant.
LEMMA CreatePhaseInv ==
    ASSUME IInv, NEW r \in Requests, CreatePhase(r)
    PROVE  IInv'
<1>1. /\ r \in Callers /\ running = r /\ pc[r] = "phase" /\ loc[r].user \in Users
      /\ pc[r] \notin LockPcs
  BY RequestFacts DEF CreatePhase, At, UserPcs, LockPcs
<1>2. /\ loc' \in [Callers -> Locals] /\ \A d \in Callers \ {r} : loc'[d] = loc[d]
      /\ loc'[r].user = loc[r].user /\ loc'[r].val = None
  BY <1>1, RequestFacts DEF Locals, CreatePhase
<1>3. UNCHANGED <<op, lock, ops, serving, known, labState, touched, doneEvent, sweep, pass,
                  k8s, stray, faults>>
  BY DEF CreatePhase, env
<1>4. CASE loc[r].val = "error"
  <2>1. Goto(r, "phaseReport") /\ Suspend /\ status' = status
    BY <1>4 DEF CreatePhase
  <2>2. Step(r, "phaseReport") /\ ready' = ready
    BY <1>1, <1>2, <2>1 DEF Step, CallerPcs, Suspend
  <2>3. OthersOK'
    BY <1>3, <2>1, OthersTyped DEF OthersOK
  <2> QED BY <1>1, <1>3, <2>2, <2>3, LocalInv DEF LockPcs
<1>5. CASE loc[r].val # "error"
  <2>1. /\ Goto(r, "check") /\ Continue
        /\ status' = [status EXCEPT ![loc[r].st] =
                         IF loc[r].val = None THEN "FAILED"
                         ELSE IF @ = "RUNNING" THEN FromPhase[loc[r].val] ELSE @]
    BY <1>5 DEF CreatePhase
  <2>2. Step(r, "check") /\ ready' = ready
    BY <1>1, <1>2, <2>1 DEF Step, CallerPcs, Continue, loop
  <2>3. loc[r].val # None => FromPhase[loc[r].val] \in Statuses
    BY <1>5, RequestFacts DEF FromPhase, Statuses, Phases
  <2>4. status' \in [StateIds -> Statuses]
    BY <2>1, <2>3, OthersTyped DEF OthersOK, Statuses
  <2>5. OthersOK'
    BY <1>3, <2>4, OthersTyped DEF OthersOK
  <2> QED BY <1>1, <1>3, <2>2, <2>5, LocalInv DEF LockPcs
<1> QED BY <1>4, <1>5

\* Going on after the failed read was reported keeps the invariant.
LEMMA CreatePhaseReportedInv ==
    ASSUME IInv, NEW r \in Requests, CreatePhaseReported(r)
    PROVE  IInv'
<1>1. /\ r \in Callers /\ running = r /\ pc[r] = "phaseReport" /\ loc[r].user \in Users
      /\ pc[r] \notin LockPcs
  BY RequestFacts DEF CreatePhaseReported, At, UserPcs, LockPcs
<1>2. OthersOK' /\ UNCHANGED <<op, lock, ops, serving>>
  BY OthersTyped DEF CreatePhaseReported, OthersOK, labs, env
<1>3. Step(r, "check") /\ ready' = ready
  BY <1>1, RequestFacts DEF Step, CallerPcs, Continue, loop, CreatePhaseReported
<1> QED BY <1>1, <1>2, <1>3, LocalInv DEF LockPcs

\* create_lab's conflict checks and its request for the lock keep the invariant.
LEMMA CreateCheckInv ==
    ASSUME IInv, NEW r \in Requests, CreateCheck(r)
    PROVE  IInv'
<1>1. /\ r \in Callers /\ running = r /\ pc[r] = "check" /\ loc[r].user \in Users
      /\ pc[r] \notin LockPcs
  BY RequestFacts DEF CreateCheck, At, UserPcs, LockPcs
<1>2. OthersOK' /\ UNCHANGED <<op, ops, serving>>
  BY OthersTyped DEF CreateCheck, OthersOK, labs, env
<1>3. ASSUME NEW res \in Results, Return(r, res), UNCHANGED <<ready, lock>> PROVE IInv'
  BY <1>1, <1>2, <1>3, LocalReturn
<1>4. ASSUME NEW first \in BOOLEAN,
             loc' = [loc EXCEPT ![r].st = None, ![r].first = first],
             Goto(r, "spawn"), Acquire(r, loc[r].user)
      PROVE  IInv'
  <2>1. /\ loc' \in [Callers -> Locals] /\ \A d \in Callers \ {r} : loc'[d] = loc[d]
        /\ loc'[r].user = loc[r].user /\ loc'[r].val = loc[r].val
    BY <1>1, <1>4, RequestFacts DEF Locals
  <2>2. Step(r, "spawn")
    BY <1>1, <1>4, <2>1, RequestFacts DEF Step, CallerPcs, Acquire
  <2> QED BY <1>1, <1>2, <1>4, <2>1, <2>2, AcquireInv DEF LockPcs, HoldPcs
<1> QED BY <1>3, <1>4 DEF CreateCheck, Results

\* monitor() for a spawn keeps the invariant: it starts one only if the lock's
\* owner finds no operation.
LEMMA CreateSpawnInv ==
    ASSUME IInv, NEW r \in Requests, CreateSpawn(r)
    PROVE  IInv'
<1>1. /\ r \in Callers /\ running = r /\ pc[r] = "spawn" /\ loc[r].user \in Users
      /\ pc[r] \in LockPcs
  BY RequestFacts DEF CreateSpawn, At, UserPcs, LockPcs
<1>2. UNCHANGED <<known, touched, doneEvent, sweep, pass, serving, k8s, stray, faults>>
  BY DEF CreateSpawn, env
<1>3. CASE Conflict(loc[r].user)
  <2>1. /\ Return(r, "conflict") /\ Release(loc[r].user)
        /\ ready' = ready \o Granted(loc[r].user) /\ UNCHANGED <<labState, status, op, ops>>
    BY <1>3 DEF CreateSpawn
  <2>2. OthersOK'
    BY <1>2, <2>1, OthersTyped DEF OthersOK
  <2> QED BY <1>1, <1>2, <2>1, <2>2, ReleaseReturn DEF Results
<1>4. CASE ~Conflict(loc[r].user)
  <2>1. PICK o \in FreeOps, s \in FreeStates :
           /\ StartOperation(o, loc[r].user, "SPAWN", s, loc[r].first)
           /\ labState' = [labState EXCEPT ![loc[r].user] = s]
           /\ status' = [status EXCEPT ![s] = "PENDING"]
           /\ Return(r, "ok")
    BY <1>4 DEF CreateSpawn
  <2>2. s \in StateIds /\ loc[r].first \in BOOLEAN /\ op[loc[r].user] = None
    BY <1>1, <1>4, RequestFacts DEF FreeStates, Locals, Conflict
  <2>3. OthersOK'
    BY <1>1, <1>2, <2>1, <2>2, OthersTyped DEF OthersOK, Statuses
  <2>4. PICK l \in EndPcs : Step(r, l)
    BY <1>1, <2>1, ReturnStep DEF Results
  <2>5. l \notin LockPcs \cup {"complete"} /\ "SPAWN" \in Kinds
    BY DEF EndPcs, LockPcs, Kinds
  <2> QED BY <1>1, <1>2, <2>1, <2>2, <2>3, <2>4, <2>5, StartInv
<1> QED BY <1>3, <1>4

-----------------------------------------------------------------------------
(* delete_lab, cancel and wait *)

\* Types of a caller's place and locals.
LEMMA CallerFacts ==
    ASSUME IInv, NEW c \in Callers
    PROVE  /\ loc \in [Callers -> Locals] /\ pc \in [Callers -> CallerPcs] /\ loc[c] \in Locals
           /\ c \in Requests => loc[c].val \in Phases \cup {None, "error"}
           /\ pc[c] \in UserPcs => loc[c].user \in Users
  BY DEF IInv, TypeOK, LocalsInv

\* delete_lab's choice between joining, aborting and deleting keeps the invariant.
LEMMA DeleteBeginInv ==
    ASSUME IInv, NEW c \in Callers, DeleteBegin(c)
    PROVE  IInv'
<1>1. running = c /\ pc[c] = "delete" /\ loc[c].user \in Users /\ pc[c] \notin LockPcs
  BY CallerFacts DEF DeleteBegin, At, UserPcs, LockPcs
<1>2. OthersOK' /\ UNCHANGED <<op, ops, serving>>
  BY OthersTyped DEF DeleteBegin, OthersOK, labs, env
<1>3. CASE Return(c, "unknown") /\ UNCHANGED <<ready, lock>>
  BY <1>1, <1>2, <1>3, LocalReturn DEF Results
<1>4. CASE Goto(c, "terminate") /\ Continue /\ UNCHANGED <<loc, lock>>
  <2>1. Step(c, "terminate") /\ ready' = ready
    BY <1>1, <1>4, CallerFacts DEF Step, CallerPcs, Continue, loop
  <2> QED BY <1>1, <1>2, <1>4, <2>1, LocalInv DEF LockPcs
<1>5. CASE Goto(c, "cancel") /\ Acquire(c, loc[c].user) /\ UNCHANGED loc
  <2>1. Step(c, "cancel")
    BY <1>1, <1>5, CallerFacts DEF Step, CallerPcs, Acquire
  <2> QED BY <1>1, <1>2, <1>5, <2>1, AcquireInv DEF LockPcs, HoldPcs
<1>6. CASE /\ loc' = [loc EXCEPT ![c].role = "joiner"]
           /\ Goto(c, "wait") /\ Continue /\ UNCHANGED lock
  <2>1. /\ loc' \in [Callers -> Locals] /\ \A d \in Callers \ {c} : loc'[d] = loc[d]
        /\ loc'[c].user = loc[c].user /\ loc'[c].val = loc[c].val
    BY <1>1, <1>6, CallerFacts DEF Locals
  <2>2. Step(c, "wait") /\ ready' = ready
    BY <1>1, <1>6, <2>1, CallerFacts DEF Step, CallerPcs, Continue, loop
  <2> QED BY <1>1, <1>2, <1>6, <2>2, LocalInv DEF LockPcs
<1> QED BY <1>3, <1>4, <1>5, <1>6 DEF DeleteBegin

\* Marking the lab as terminating keeps the invariant.
LEMMA DeleteTerminateInv ==
    ASSUME IInv, NEW c \in Callers, DeleteTerminate(c)
    PROVE  IInv'
<1>1. running = c /\ pc[c] = "terminate" /\ loc[c].user \in Users /\ pc[c] \notin LockPcs
  BY CallerFacts DEF DeleteTerminate, At, UserPcs, LockPcs
<1>2. UNCHANGED <<known, labState, touched, op, ops, doneEvent, sweep, pass, serving,
                  k8s, stray, faults>>
  BY DEF DeleteTerminate, env
<1>3. CASE labState[loc[c].user] = None
  <2>1. Return(c, "unknown") /\ UNCHANGED <<ready, lock, status>>
    BY <1>3 DEF DeleteTerminate
  <2>2. OthersOK'
    BY <1>2, <2>1, OthersTyped DEF OthersOK
  <2> QED BY <1>1, <1>2, <2>1, <2>2, LocalReturn DEF Results
<1>4. CASE labState[loc[c].user] # None
  <2> DEFINE st == labState[loc[c].user]
  <2>1. /\ status' = [status EXCEPT ![st] = "TERMINATING"]
        /\ loc' = [loc EXCEPT ![c].st = st, ![c].role = "owner"]
        /\ Goto(c, "remove") /\ Acquire(c, loc[c].user)
    BY <1>4 DEF DeleteTerminate
  <2>2. st \in StateIds
    BY <1>1, <1>4 DEF IInv, TypeOK
  <2> HIDE DEF st
  <2>3. OthersOK'
    BY <1>2, <2>1, OthersTyped DEF OthersOK, Statuses
  <2>4. /\ loc' \in [Callers -> Locals] /\ \A d \in Callers \ {c} : loc'[d] = loc[d]
        /\ loc'[c].user = loc[c].user /\ loc'[c].val = loc[c].val
    BY <1>1, <2>1, <2>2, CallerFacts DEF Locals
  <2>5. Step(c, "remove")
    BY <1>1, <2>1, <2>4, CallerFacts DEF Step, CallerPcs, Acquire
  <2> QED BY <1>1, <1>2, <2>1, <2>3, <2>4, <2>5, AcquireInv DEF LockPcs, HoldPcs
<1> QED BY <1>3, <1>4

\* monitor() for a delete keeps the invariant.
LEMMA DeleteMonitorInv ==
    ASSUME IInv, NEW c \in Callers, DeleteMonitor(c)
    PROVE  IInv'
<1>1. running = c /\ pc[c] = "remove" /\ loc[c].user \in Users /\ pc[c] \in LockPcs
  BY CallerFacts DEF DeleteMonitor, At, UserPcs, LockPcs
<1>2. OthersOK' /\ serving' = serving
  BY OthersTyped DEF DeleteMonitor, OthersOK, labs, env
<1>3. CASE Conflict(loc[c].user)
  <2>1. /\ Return(c, "conflict") /\ Release(loc[c].user)
        /\ ready' = ready \o Granted(loc[c].user) /\ UNCHANGED <<op, ops>>
    BY <1>3 DEF DeleteMonitor
  <2> QED BY <1>1, <1>2, <2>1, ReleaseReturn DEF Results
<1>4. CASE ~Conflict(loc[c].user)
  <2>1. PICK o \in FreeOps :
           /\ StartOperation(o, loc[c].user, "DELETE", loc[c].st, FALSE)
           /\ loc' = [loc EXCEPT ![c].st = None]
           /\ Goto(c, "wait") /\ UNCHANGED running
    BY <1>4 DEF DeleteMonitor
  <2>2. loc[c].st \in StateIds \cup {None} /\ op[loc[c].user] = None /\ "DELETE" \in Kinds
    BY <1>1, <1>4, CallerFacts DEF Locals, Conflict, Kinds
  <2>3. /\ loc' \in [Callers -> Locals] /\ \A d \in Callers \ {c} : loc'[d] = loc[d]
        /\ loc'[c].user = loc[c].user /\ loc'[c].val = loc[c].val
    BY <1>1, <2>1, CallerFacts DEF Locals
  <2>4. Step(c, "wait") /\ "wait" \notin LockPcs \cup {"complete"}
    BY <1>1, <2>1, <2>3, CallerFacts DEF Step, CallerPcs, LockPcs
  <2> QED BY <1>1, <1>2, <2>1, <2>2, <2>4, StartInv
<1> QED BY <1>3, <1>4

\* The end of delete_lab, which may clear lab.state, keeps the invariant.
LEMMA DeleteEndInv ==
    ASSUME IInv, NEW c \in Callers, DeleteEnd(c)
    PROVE  IInv'
<1>1. running = c /\ pc[c] = "deleted" /\ loc[c].user \in Users /\ pc[c] \notin LockPcs
  BY CallerFacts DEF DeleteEnd, At, UserPcs, LockPcs
<1>2. UNCHANGED <<ready, known, status, op, lock, ops, doneEvent, sweep, pass, serving,
                  k8s, stray, faults>>
  BY DEF DeleteEnd, env
<1>3. OthersOK'
  <2>1. touched' \in [Users -> BOOLEAN]
    BY OthersTyped DEF DeleteEnd, OthersOK
  <2>2. labState' \in [Users -> StateIds \cup {None}]
    BY OthersTyped DEF DeleteEnd, OthersOK
  <2> QED BY <1>2, <2>1, <2>2, OthersTyped DEF OthersOK
<1>4. \E res \in Results : Return(c, res)
  BY DEF DeleteEnd, Results
<1> QED BY <1>1, <1>2, <1>3, <1>4, LocalReturn

\* Cancelling the operation's task while holding the lock keeps the invariant.
LEMMA CancelInv ==
    ASSUME IInv, NEW c \in Callers, Cancel(c)
    PROVE  IInv'
<1> DEFINE u == loc[c].user
           o == op[u]
<1>1. running = c /\ pc[c] = "cancel" /\ u \in Users /\ pc[c] \in LockPcs
  BY CallerFacts DEF Cancel, At, UserPcs, LockPcs
<1>2. UNCHANGED <<loc, known, labState, status, touched, op, doneEvent, sweep, pass, serving,
                  k8s, faults>>
  BY DEF Cancel, labs
<1>3. CASE o = None
  <2>1. /\ Goto(c, "terminate") /\ Release(u) /\ ready' = ready \o Granted(u)
        /\ UNCHANGED <<running, ops, stray>>
    BY <1>3 DEF Cancel
  <2>2. Step(c, "terminate") /\ "terminate" \notin LockPcs \cup {"complete"}
    BY <1>1, <1>2, <2>1, CallerFacts DEF Step, CallerPcs, LockPcs
  <2>3. OthersOK'
    BY <1>2, <2>1, OthersTyped DEF OthersOK
  <2> QED BY <1>1, <1>2, <2>1, <2>2, <2>3, ReleaseInv
<1>4. CASE o # None /\ ~Live(o)
  <2>1. Goto(c, "cancelled") /\ Continue /\ UNCHANGED <<lock, ops, stray>>
    BY <1>4 DEF Cancel
  <2>2. OthersOK'
    BY <1>2, <2>1, OthersTyped DEF OthersOK
  <2>3. running' \in {c, None} /\ ready' = ready
    BY <1>1, <2>1 DEF Continue, loop
  <2> QED BY <1>1, <1>2, <1>4, <2>1, <2>2, <2>3, HoldInv DEF HoldPcs
<1>5. CASE o # None /\ Live(o)
  <2>1. /\ ops' = [ops EXCEPT ![o].cancel = TRUE]
        /\ ready' = IF Scheduled(o) THEN ready ELSE Append(ready, o)
        /\ running' = None /\ Goto(c, "cancelled") /\ UNCHANGED lock
        /\ \/ UNCHANGED stray
           \/ ops[o].pc \in Mutating /\ stray' = [stray EXCEPT ![u] = ops[o].pc]
    BY <1>5 DEF Cancel
  <2>2. Step(c, "cancelled")
    BY <1>1, <1>2, <2>1, CallerFacts DEF Step, CallerPcs
  <2>3. Discipline'
    <3>1. Moves(c, "cancelled")
      BY <2>2, StepTypes
    <3> QED BY <1>1, <1>2, <1>5, <2>1, <3>1, CancelLiveStep
  <2>4. OthersOK'
    BY <1>1, <1>2, <2>1, OthersTyped DEF OthersOK
  <2>5. o \in OpIds /\ ready' \in Seq(Tasks)
    BY <1>1, <1>5, <2>1 DEF IInv, TypeOK, Tasks
  <2>6. ops' \in [OpIds -> Operations]
    <3>1. ops \in [OpIds -> Operations]
      BY DEF IInv, TypeOK
    <3> HIDE DEF o
    <3>2. [ops[o] EXCEPT !.cancel = TRUE] \in Operations
      <4>1. PICK p \in Operations : p = ops[o]
        BY <2>5, <3>1
      <4>2. [p EXCEPT !.cancel = TRUE] \in Operations
        BY DEF Operations
      <4> QED BY <4>1, <4>2
    <3> QED BY <2>1, <2>5, <3>1, <3>2
  <2>7. TypeOK'
    BY <1>2, <2>1, <2>2, <2>4, <2>5, <2>6, StepTypes DEF IInv, TypeOK, OthersOK
  <2> QED BY <2>2, <2>3, <2>7, StepTypes DEF IInv, Discipline
<1> QED BY <1>3, <1>4, <1>5

\* Clearing _operation after the cancelled task ended keeps the invariant: only
\* an operation that is over is cleared.
LEMMA CancelledInv ==
    ASSUME IInv, NEW c \in Callers, Cancelled(c)
    PROVE  IInv'
<1> DEFINE u == loc[c].user
<1>1. /\ running = c /\ pc[c] \in {"cancelled", "cancelReport"} /\ u \in Users
      /\ pc[c] \in LockPcs
  BY CallerFacts DEF Cancelled, At, UserPcs, LockPcs
<1>2. op[u] # None /\ ~Live(op[u])
  BY <1>1 DEF IInv, OpInv, Active
<1>3. OthersOK' /\ UNCHANGED <<loc, ops, serving>>
  BY OthersTyped DEF Cancelled, OthersOK, labs, env
<1>4. CASE Goto(c, "cancelReport") /\ Suspend /\ UNCHANGED <<op, lock>>
  <2>1. running' \in {c, None} /\ ready' = ready
    BY <1>4 DEF Suspend
  <2> QED BY <1>1, <1>2, <1>3, <1>4, <2>1, HoldInv DEF HoldPcs
<1>5. CASE /\ op' = [op EXCEPT ![u] = None]
           /\ Release(u) /\ ready' = ready \o Granted(u)
           /\ Goto(c, "terminate") /\ UNCHANGED running
  <2>1. Step(c, "terminate") /\ "terminate" \notin LockPcs \cup {"complete"}
    BY <1>1, <1>3, <1>5, CallerFacts DEF Step, CallerPcs, LockPcs
  <2> QED BY <1>1, <1>2, <1>3, <1>5, <2>1, ReleaseInv
<1> QED BY <1>4, <1>5 DEF Cancelled

\* wait()'s first request for the lock keeps the invariant.
LEMMA WaitBeginInv ==
    ASSUME IInv, NEW c \in Callers, WaitBegin(c)
    PROVE  IInv'
<1>1. running = c /\ pc[c] = "wait" /\ loc[c].user \in Users /\ pc[c] \notin LockPcs
  BY CallerFacts DEF WaitBegin, At, UserPcs, LockPcs
<1>2. OthersOK' /\ UNCHANGED <<loc, op, ops, serving>> /\ Acquire(c, loc[c].user)
  BY OthersTyped DEF WaitBegin, OthersOK, labs, env
<1>3. Step(c, "capture")
  BY <1>1, <1>2, CallerFacts DEF Step, CallerPcs, WaitBegin, Acquire
<1> QED BY <1>1, <1>2, <1>3, AcquireInv DEF LockPcs, HoldPcs

\* wait() registering with the operation's `complete' event keeps the invariant.
LEMMA WaitCaptureInv ==
    ASSUME IInv, NEW c \in Callers, WaitCapture(c)
    PROVE  IInv'
<1> DEFINE u == loc[c].user
           o == op[u]
<1>1. running = c /\ pc[c] = "capture" /\ u \in Users /\ pc[c] \in LockPcs
  BY CallerFacts DEF WaitCapture, At, UserPcs, LockPcs
<1>2. OthersOK' /\ UNCHANGED <<op, serving>> /\ Release(u) /\ ready' = ready \o Granted(u)
  BY OthersTyped DEF WaitCapture, OthersOK, labs, env
<1>3. CASE o = None /\ c = Reaper
  <2>1. Goto(c, "sweep") /\ UNCHANGED <<running, loc, ops>>
    BY <1>3 DEF WaitCapture
  <2>2. Step(c, "sweep") /\ "sweep" \notin LockPcs \cup {"complete"}
    BY <1>1, <2>1, CallerFacts DEF Step, CallerPcs, LockPcs, UserPcs
  <2> QED BY <1>1, <1>2, <2>1, <2>2, ReleaseInv
<1>4. CASE o = None /\ c # Reaper
  <2>1. Return(c, "noOperation") /\ UNCHANGED ops
    BY <1>4 DEF WaitCapture
  <2> QED BY <1>1, <1>2, <2>1, ReleaseReturn DEF Results
<1>5. CASE o # None
  <2>1. /\ loc' = [loc EXCEPT ![c].op = o] /\ Goto(c, "complete")
        /\ running' \in {c, None}
        /\ ops' = ops \/ ops' = [ops EXCEPT ![o].waiters = Append(@, c)]
    BY <1>1, <1>5 DEF WaitCapture
  <2>2. o \in OpIds /\ ops \in [OpIds -> Operations]
    BY <1>1, <1>5 DEF IInv, TypeOK
  <2>3. /\ loc' \in [Callers -> Locals] /\ \A d \in Callers \ {c} : loc'[d] = loc[d]
        /\ loc'[c].user = loc[c].user /\ loc'[c].val = loc[c].val
    <3> HIDE DEF o
    <3> QED BY <2>1, <2>2, CallerFacts DEF Locals
  <2>4. Step(c, "complete")
    BY <1>1, <2>1, <2>3, CallerFacts DEF Step, CallerPcs
  <2>5. ops' \in [OpIds -> Operations]
    <3>1. ops[o].waiters \in Seq(Callers) /\ ops[o] \in Operations
      BY <2>2 DEF Operations
    <3>2. PICK w \in Seq(Callers) : w = Append(ops[o].waiters, c)
      BY <3>1, AppendElems
    <3>3. [ops[o] EXCEPT !.waiters = w] \in Operations
      BY <3>1 DEF Operations
    <3>4. CASE ops' = ops
      BY <2>2, <3>4
    <3>5. CASE ops' = [ops EXCEPT ![o].waiters = Append(@, c)]
      <4>1. ops' = [ops EXCEPT ![o] = [ops[o] EXCEPT !.waiters = w]]
        BY <3>2, <3>5
      <4> HIDE DEF o
      <4> QED BY <2>2, <3>3, <4>1
    <3> QED BY <2>1, <3>4, <3>5
  <2>6. lock' \in [Users -> Seq(Callers)] /\ ready' \in Seq(Tasks)
    BY <1>1, <1>2, ReleaseTypes
  <2>7. TypeOK'
    BY <1>2, <2>4, <2>5, <2>6, StepTypes DEF IInv, TypeOK, OthersOK
  <2>8. Discipline'
    BY <1>5, CaptureStep
  <2> QED BY <2>4, <2>7, <2>8, StepTypes DEF IInv, Discipline
<1> QED BY <1>3, <1>4, <1>5

\* wait()'s second request for the lock keeps the invariant.
LEMMA WaitCompleteInv ==
    ASSUME IInv, NEW c \in Callers, WaitComplete(c)
    PROVE  IInv'
<1>1. /\ running = c /\ pc[c] = "complete" /\ loc[c].user \in Users /\ pc[c] \notin LockPcs
      /\ loc[c].op # None /\ ~Live(loc[c].op)
  BY CallerFacts DEF WaitComplete, At, UserPcs, LockPcs, IInv, OpInv, Active
<1>2. OthersOK' /\ UNCHANGED <<loc, op, ops, serving>> /\ Acquire(c, loc[c].user)
  BY OthersTyped DEF WaitComplete, OthersOK, labs, env
<1>3. Step(c, "collect")
  BY <1>1, <1>2, CallerFacts DEF Step, CallerPcs, WaitComplete, Acquire
<1> QED BY <1>1, <1>2, <1>3, AcquireInv DEF LockPcs, HoldPcs

\* wait() clearing _operation keeps the invariant: `complete' was set, so the
\* task is over.
LEMMA WaitCollectInv ==
    ASSUME IInv, NEW c \in Callers, WaitCollect(c)
    PROVE  IInv'
<1> DEFINE u == loc[c].user
           o == loc[c].op
<1>1. /\ running = c /\ pc[c] \in {"collect", "waitReport"} /\ u \in Users /\ pc[c] \in LockPcs
      /\ o # None /\ ~Live(o)
  BY CallerFacts DEF WaitCollect, At, UserPcs, LockPcs, IInv, OpInv
<1>2. UNCHANGED <<known, labState, status, ops, doneEvent, sweep, pass, serving,
                  k8s, stray, faults>>
  BY DEF WaitCollect, env
<1>3. CASE Goto(c, "waitReport") /\ Suspend /\ UNCHANGED <<loc, op, lock, touched>>
  <2>1. running' \in {c, None} /\ ready' = ready
    BY <1>3 DEF Suspend
  <2>2. OthersOK'
    BY <1>2, <1>3, OthersTyped DEF OthersOK
  <2> QED BY <1>1, <1>2, <1>3, <2>1, <2>2, HoldInv DEF HoldPcs
<1>4. CASE /\ Release(u) /\ ready' = ready \o Granted(u)
           /\ Goto(c, "dead") /\ running' = None /\ UNCHANGED loc
           /\ UNCHANGED <<op, touched>>
  <2>1. Step(c, "dead") /\ "dead" \notin LockPcs \cup {"complete"}
    BY <1>1, <1>4, CallerFacts DEF Step, CallerPcs, LockPcs, UserPcs
  <2>2. OthersOK'
    BY <1>2, <1>4, OthersTyped DEF OthersOK
  <2> QED BY <1>1, <1>2, <1>4, <2>1, <2>2, ReleaseInv
<1>5. CASE /\ Release(u) /\ ready' = ready \o Granted(u) /\ Return(c, "cancelled")
           /\ UNCHANGED <<op, touched>>
  <2>1. OthersOK'
    BY <1>2, <1>5, OthersTyped DEF OthersOK
  <2> QED BY <1>1, <1>2, <1>5, <2>1, ReleaseReturn DEF Results
<1>6. CASE /\ op' = IF op[u] = o THEN [op EXCEPT ![u] = None] ELSE op
           /\ Release(u) /\ ready' = ready \o Granted(u)
           /\ loc' = [loc EXCEPT ![c].op = None]
           /\ Goto(c, IF c = Reaper THEN "sweep" ELSE "deleted")
           /\ touched' = IF c = Reaper THEN [touched EXCEPT ![u] = TRUE] ELSE touched
           /\ UNCHANGED running
  <2>1. PICK l \in {"sweep", "deleted"} : Goto(c, l)
    BY <1>6
  <2>2. /\ loc' \in [Callers -> Locals] /\ \A d \in Callers \ {c} : loc'[d] = loc[d]
        /\ loc'[c].user = loc[c].user /\ loc'[c].val = loc[c].val
    BY <1>6, CallerFacts DEF Locals
  <2>3. Step(c, l) /\ l \notin LockPcs \cup {"complete"}
    BY <1>1, <1>6, <2>1, <2>2, CallerFacts DEF Step, CallerPcs, LockPcs
  <2>4. OthersOK'
    BY <1>2, <1>6, OthersTyped DEF OthersOK
  <2>5. \/ op' = op
        \/ op' = [op EXCEPT ![u] = None] /\ (op[u] # None => ~Live(op[u]))
    BY <1>1, <1>6
  <2> QED BY <1>1, <1>2, <1>6, <2>3, <2>4, <2>5, ReleaseInv
<1> QED BY <1>3, <1>4, <1>5, <1>6 DEF WaitCollect

-----------------------------------------------------------------------------
(* reap_spawners and reconcile *)

\* The reaper and the reconciler are different callers, and no requests.
LEMMA ReaperFacts ==
    /\ Reaper \in Callers /\ Reconciler \in Callers /\ Reaper # Reconciler
    /\ Reaper \notin Requests /\ Reconciler \notin Requests
  BY ConstantsAssumption DEF Callers

\* Cleared locals have their types.
LEMMA IdleTyped == Idle \in Locals
  BY DEF Idle, Locals

\* The reconciler's locals between two users.
LEMMA IdleLocals ==
    ASSUME IInv, NEW c \in Callers, loc' = [loc EXCEPT ![c] = Idle]
    PROVE  loc' \in [Callers -> Locals] /\ \A d \in Callers \ {c} : loc'[d] = loc[d]
  BY IdleTyped DEF IInv, TypeOK

\* The reaper waking up keeps the invariant.
LEMMA ReapBeginInv ==
    ASSUME IInv, ReapBegin
    PROVE  IInv'
<1>1. running = Reaper /\ pc[Reaper] = "asleep" /\ pc[Reaper] \notin LockPcs /\ Reaper \in Callers
  BY ReaperFacts DEF ReapBegin, At, LockPcs
<1>2. UNCHANGED <<loc, known, labState, status, touched, op, lock, ops, pass, serving,
                  k8s, stray, faults>>
  BY DEF ReapBegin, labs, env
<1>3. CASE doneEvent
  <2>1. /\ doneEvent' = FALSE /\ sweep' = [todo |-> known, snap |-> known]
        /\ Goto(Reaper, "sweep") /\ Continue
    BY <1>3 DEF ReapBegin
  <2>2. OthersOK'
    BY <1>2, <2>1, OthersTyped DEF OthersOK
  <2>3. Step(Reaper, "sweep") /\ ready' = ready
    BY <1>1, <1>2, <2>1, CallerFacts, ReaperFacts DEF Step, CallerPcs, UserPcs, LockPcs, Continue, loop
  <2> QED BY <1>1, <1>2, <2>2, <2>3, LocalInv DEF LockPcs
<1>4. CASE ~doneEvent
  <2>1. Suspend /\ UNCHANGED <<doneEvent, sweep, pc>>
    BY <1>4 DEF ReapBegin
  <2>2. OthersOK'
    BY <1>2, <2>1, OthersTyped DEF OthersOK
  <2>3. Step(Reaper, "asleep") /\ ready' = ready
    BY <1>1, <1>2, <2>1, CallerFacts, ReaperFacts
    DEF Step, Goto, CallerPcs, UserPcs, LockPcs, Suspend
  <2> QED BY <1>1, <1>2, <2>2, <2>3, LocalInv DEF LockPcs
<1> QED BY <1>3, <1>4

\* The reaper's next user, or its end on a changed dict, keeps the invariant.
LEMMA ReapNextInv ==
    ASSUME IInv, ReapNext
    PROVE  IInv'
<1>1. running = Reaper /\ pc[Reaper] = "sweep" /\ pc[Reaper] \notin LockPcs /\ Reaper \in Callers
  BY ReaperFacts DEF ReapNext, At, LockPcs
<1>2. UNCHANGED <<known, labState, status, touched, op, lock, ops, doneEvent, pass, serving,
                  k8s, stray, faults>>
  BY DEF ReapNext, labs, env
<1>3. CASE Goto(Reaper, "dead") /\ Suspend /\ UNCHANGED <<loc, sweep>>
  <2>1. OthersOK'
    BY <1>2, <1>3, OthersTyped DEF OthersOK
  <2>2. Step(Reaper, "dead") /\ ready' = ready
    BY <1>1, <1>3, CallerFacts, ReaperFacts DEF Step, CallerPcs, UserPcs, LockPcs, Suspend
  <2> QED BY <1>1, <1>2, <2>1, <2>2, LocalInv DEF LockPcs
<1>4. CASE /\ sweep' = [todo |-> {}, snap |-> {}]
           /\ loc' = [loc EXCEPT ![Reaper] = Idle]
           /\ Goto(Reaper, "asleep") /\ Continue
  <2>1. OthersOK'
    BY <1>2, <1>4, OthersTyped DEF OthersOK
  <2>2. Step(Reaper, "asleep") /\ ready' = ready
    BY <1>1, <1>4, IdleLocals, ReaperFacts DEF Step, CallerPcs, UserPcs, LockPcs, Continue, loop
  <2> QED BY <1>1, <1>2, <2>1, <2>2, LocalInv DEF LockPcs
<1>5. ASSUME NEW u \in sweep.todo, sweep' = [sweep EXCEPT !.todo = @ \ {u}], Continue,
             \/ loc' = [loc EXCEPT ![Reaper].user = u] /\ Goto(Reaper, "wait")
             \/ UNCHANGED <<loc, pc>>
      PROVE  IInv'
  <2>1. u \in Users
    BY OthersTyped DEF OthersOK
  <2>2. OthersOK'
    BY <1>2, <1>5, OthersTyped DEF OthersOK
  <2>3. CASE loc' = [loc EXCEPT ![Reaper].user = u] /\ Goto(Reaper, "wait")
    <3>1. /\ loc' \in [Callers -> Locals] /\ \A d \in Callers \ {Reaper} : loc'[d] = loc[d]
          /\ loc'[Reaper].user = u
      BY <1>1, <2>1, <2>3, CallerFacts DEF Locals
    <3>2. Step(Reaper, "wait") /\ ready' = ready
      BY <1>1, <1>5, <2>1, <2>3, <3>1, ReaperFacts DEF Step, CallerPcs, Continue, loop
    <3> QED BY <1>1, <1>2, <2>2, <3>2, LocalInv DEF LockPcs
  <2>4. CASE UNCHANGED <<loc, pc>>
    <3>1. Step(Reaper, "sweep") /\ ready' = ready
      BY <1>1, <1>5, <2>4, CallerFacts, ReaperFacts
      DEF Step, Goto, CallerPcs, UserPcs, LockPcs, Continue, loop
    <3> QED BY <1>1, <1>2, <2>2, <3>1, LocalInv DEF LockPcs
  <2> QED BY <1>5, <2>3, <2>4
<1> QED BY <1>3, <1>4, <1>5 DEF ReapNext

\* Every step of the reconciler outside the lock, by where it goes.
LEMMA ReconcilerLocal ==
    ASSUME IInv, NEW l, running = Reconciler, Goto(Reconciler, l), l \in CallerPcs,
           pc[Reconciler] \notin LockPcs, l \notin LockPcs \cup {"complete"},
           running' \in {Reconciler, None}, ready' = ready,
           loc' \in [Callers -> Locals], \A d \in Callers \ {Reconciler} : loc'[d] = loc[d],
           l \in UserPcs => loc'[Reconciler].user \in Users,
           UNCHANGED <<op, lock, ops, serving>>, OthersOK'
    PROVE  IInv'
<1>1. Step(Reconciler, l)
  BY ReaperFacts DEF Step
<1> QED BY <1>1, LocalInv, ReaperFacts

\* The locals of a pass that has not begun have their types.
LEMMA PassTyped ==
    [todo |-> {}, obs |-> NoneObserved] \in
        [todo : SUBSET Users, obs : [Users -> Statuses \cup {None}]]
  BY DEF NoneObserved

\* A pass of the reconciler ended by an exception keeps the invariant.
LEMMA PassFailsInv ==
    ASSUME IInv, running = Reconciler, pc[Reconciler] \notin LockPcs, PassFails,
           UNCHANGED <<labs, op, lock, ops, doneEvent, sweep, serving, env>>
    PROVE  IInv'
<1>1. OthersOK'
  BY PassTyped, OthersTyped DEF PassFails, OthersOK, labs, env
<1>2. PICK l \in {"timer", "bootFailed"} : Goto(Reconciler, l)
  BY DEF PassFails
<1>3. l \in CallerPcs /\ l \notin UserPcs /\ l \notin LockPcs \cup {"complete"}
  BY DEF CallerPcs, UserPcs, LockPcs
<1>4. /\ running' \in {Reconciler, None} /\ ready' = ready
      /\ loc' \in [Callers -> Locals] /\ \A d \in Callers \ {Reconciler} : loc'[d] = loc[d]
  BY IdleLocals, ReaperFacts DEF PassFails, Suspend
<1> QED BY <1>1, <1>2, <1>3, <1>4, ReconcilerLocal

\* The start of a pass keeps the invariant.
LEMMA ReconcileBeginInv ==
    ASSUME IInv, ReconcileBegin
    PROVE  IInv'
<1>1. running = Reconciler /\ pc[Reconciler] \notin LockPcs
  BY DEF ReconcileBegin, At, LockPcs
<1>2. OthersOK' /\ UNCHANGED <<op, lock, ops, serving>>
  BY PassTyped, OthersTyped DEF ReconcileBegin, OthersOK, labs, env
<1>3. /\ running' \in {Reconciler, None} /\ ready' = ready /\ Goto(Reconciler, "list")
      /\ loc' \in [Callers -> Locals] /\ \A d \in Callers \ {Reconciler} : loc'[d] = loc[d]
  BY IdleLocals, ReaperFacts DEF ReconcileBegin, Suspend
<1> QED BY <1>1, <1>2, <1>3, ReconcilerLocal DEF CallerPcs, UserPcs, LockPcs

\* The list of namespaces coming in keeps the invariant.
LEMMA ReconcileListedInv ==
    ASSUME IInv, ReconcileListed
    PROVE  IInv'
<1>1. running = Reconciler /\ pc[Reconciler] \notin LockPcs
  BY DEF ReconcileListed, At, LockPcs
<1>2. UNCHANGED <<labs, op, lock, ops, doneEvent, sweep, serving, env>>
  BY DEF ReconcileListed
<1>3. CASE PassFails
  BY <1>1, <1>2, <1>3, PassFailsInv
<1>4. CASE Goto(Reconciler, "gather") /\ Continue /\ UNCHANGED <<loc, pass>>
  <2>1. OthersOK'
    BY <1>2, <1>4, OthersTyped DEF OthersOK, labs, env
  <2>2. running' \in {Reconciler, None} /\ ready' = ready
    BY <1>1, <1>4 DEF Continue, loop
  <2> QED BY <1>1, <1>2, <1>4, <2>1, <2>2, ReconcilerLocal, CallerFacts, ReaperFacts
      DEF CallerPcs, UserPcs, LockPcs
<1> QED BY <1>3, <1>4 DEF ReconcileListed

\* Asking for the objects of the next namespace keeps the invariant.
LEMMA GatherNextInv ==
    ASSUME IInv, GatherNext
    PROVE  IInv'
<1>1. running = Reconciler /\ pc[Reconciler] \notin LockPcs
  BY DEF GatherNext, At, LockPcs
<1>2. UNCHANGED <<labs, op, lock, ops, doneEvent, sweep, serving, env>>
  BY DEF GatherNext
<1>3. CASE Goto(Reconciler, "sync") /\ Continue /\ UNCHANGED <<loc, pass>>
  <2>1. OthersOK'
    BY <1>2, <1>3, OthersTyped DEF OthersOK, labs, env
  <2>2. running' \in {Reconciler, None} /\ ready' = ready
    BY <1>1, <1>3 DEF Continue, loop
  <2> QED BY <1>1, <1>2, <1>3, <2>1, <2>2, ReconcilerLocal, CallerFacts, ReaperFacts
      DEF CallerPcs, UserPcs, LockPcs
<1>4. ASSUME NEW u \in pass.todo, pass' = [pass EXCEPT !.todo = @ \ {u}],
             loc' = [loc EXCEPT ![Reconciler].user = u], Goto(Reconciler, "read"), Suspend
      PROVE  IInv'
  <2>1. u \in Users
    BY OthersTyped DEF OthersOK
  <2>2. OthersOK'
    BY <1>2, <1>4, OthersTyped DEF OthersOK, labs, env
  <2>3. running' \in {Reconciler, None} /\ ready' = ready
    BY <1>4 DEF Suspend
  <2>4. /\ loc' \in [Callers -> Locals] /\ \A d \in Callers \ {Reconciler} : loc'[d] = loc[d]
        /\ loc'[Reconciler].user = u
    BY <1>4, <2>1, CallerFacts, ReaperFacts DEF Locals
  <2> QED BY <1>1, <1>2, <1>4, <2>1, <2>2, <2>3, <2>4, ReconcilerLocal DEF CallerPcs, LockPcs
<1> QED BY <1>3, <1>4 DEF GatherNext

\* Recording them, or asking to delete a malformed namespace, keeps the invariant.
LEMMA GatherReadInv ==
    ASSUME IInv, GatherRead
    PROVE  IInv'
<1> DEFINE u == loc[Reconciler].user
           seen == loc[Reconciler].val
<1>1. running = Reconciler /\ pc[Reconciler] \notin LockPcs /\ u \in Users
  BY CallerFacts, ReaperFacts DEF GatherRead, At, LockPcs, UserPcs
<1>2. UNCHANGED <<labs, op, lock, ops, doneEvent, sweep, serving, env>>
  BY DEF GatherRead
<1>3. CASE PassFails
  BY <1>1, <1>2, <1>3, PassFailsInv
<1>4. ASSUME loc' = [loc EXCEPT ![Reconciler].val = None],
             pass' = [pass EXCEPT !.obs[u] = ObservedStatus(seen)],
             NEW l \in {"gather", "malformed"}, Goto(Reconciler, l), Continue \/ Suspend
      PROVE  IInv'
  <2>1. ObservedStatus(seen) \in Statuses \cup {None}
    BY DEF ObservedStatus, FromPhase, Phases, Statuses
  <2>2. pass' \in [todo : SUBSET Users, obs : [Users -> Statuses \cup {None}]]
    <3>1. PICK s \in Statuses \cup {None} : s = ObservedStatus(seen)
      BY <2>1
    <3>2. pass \in [todo : SUBSET Users, obs : [Users -> Statuses \cup {None}]]
      BY OthersTyped DEF OthersOK
    <3> QED BY <1>1, <1>4, <3>1, <3>2
  <2>3. OthersOK'
    BY <1>2, <2>2, OthersTyped DEF OthersOK, labs, env
  <2>4. running' \in {Reconciler, None} /\ ready' = ready
    BY <1>1, <1>4 DEF Suspend, Continue, loop
  <2>5. /\ loc' \in [Callers -> Locals] /\ \A d \in Callers \ {Reconciler} : loc'[d] = loc[d]
        /\ loc'[Reconciler].user = u
    BY <1>4, CallerFacts, ReaperFacts DEF Locals
  <2> QED BY <1>1, <1>2, <1>4, <2>3, <2>4, <2>5, ReconcilerLocal DEF CallerPcs, LockPcs
<1> QED BY <1>3, <1>4 DEF GatherRead

\* The delete of a malformed namespace coming back keeps the invariant.
LEMMA MalformedDeletedInv ==
    ASSUME IInv, MalformedDeleted
    PROVE  IInv'
<1>1. running = Reconciler /\ pc[Reconciler] \notin LockPcs
  BY DEF MalformedDeleted, At, LockPcs
<1>2. UNCHANGED <<labs, op, lock, ops, doneEvent, sweep, serving, env>>
  BY DEF MalformedDeleted
<1>3. CASE PassFails
  BY <1>1, <1>2, <1>3, PassFailsInv
<1>4. CASE /\ loc' = [loc EXCEPT ![Reconciler].val = None]
           /\ Goto(Reconciler, "gather") /\ Continue /\ UNCHANGED pass
  <2>1. OthersOK'
    BY <1>2, <1>4, OthersTyped DEF OthersOK, labs, env
  <2>2. running' \in {Reconciler, None} /\ ready' = ready
    BY <1>1, <1>4 DEF Continue, loop
  <2>3. loc' \in [Callers -> Locals] /\ \A d \in Callers \ {Reconciler} : loc'[d] = loc[d]
    BY <1>4, CallerFacts, ReaperFacts DEF Locals
  <2> QED BY <1>1, <1>2, <1>4, <2>1, <2>2, <2>3, ReconcilerLocal
      DEF CallerPcs, UserPcs, LockPcs
<1> QED BY <1>3, <1>4 DEF MalformedDeleted

\* _reconcile_known_users and the records of discovered labs keep the invariant.
LEMMA ReconcileSyncInv ==
    ASSUME IInv, ReconcileSync
    PROVE  IInv'
<1>1. running = Reconciler /\ pc[Reconciler] \notin LockPcs
  BY DEF ReconcileSync, At, LockPcs
<1>2. UNCHANGED <<loc, op, lock, ops, doneEvent, sweep, serving, k8s, stray, faults>>
  BY DEF ReconcileSync, env
<1>3. PICK new \in NewStates :
         /\ status' = [s \in StateIds |->
               IF s \in {new[u] : u \in Discovered}
                 THEN pass.obs[CHOOSE u \in Discovered : new[u] = s]
               ELSE IF s \in {labState[u] : u \in Corrected}
                 THEN Corrections(CHOOSE u \in Corrected : labState[u] = s)
               ELSE status[s]]
         /\ labState' = [u \in Users |-> IF u \in Discovered THEN new[u] ELSE labState[u]]
  BY DEF ReconcileSync
<1>4. /\ pass.obs \in [Users -> Statuses \cup {None}] /\ Corrected \subseteq Users
      /\ Discovered \subseteq Users /\ \A u \in Discovered : pass.obs[u] # None
      /\ FreeStates \subseteq StateIds /\ \A u \in Discovered : new[u] \in FreeStates
      /\ status \in [StateIds -> Statuses]
  BY OthersTyped DEF OthersOK, Corrected, Discovered, FreeStates, NewStates
<1>5. status' \in [StateIds -> Statuses]
  <2> SUFFICES ASSUME NEW s \in StateIds PROVE status'[s] \in Statuses
    BY <1>3
  <2>1. CASE s \in {new[u] : u \in Discovered}
    <3>1. PICK v : v = CHOOSE u \in Discovered : new[u] = s
      OBVIOUS
    <3>2. v \in Discovered
      BY <2>1, <3>1
    <3>3. status'[s] = pass.obs[v]
      BY <1>3, <2>1, <3>1
    <3> QED BY <1>4, <3>2, <3>3
  <2>2. CASE /\ s \notin {new[u] : u \in Discovered}
             /\ s \in {labState[u] : u \in Corrected}
    <3>1. PICK v : v = CHOOSE u \in Corrected : labState[u] = s
      OBVIOUS
    <3>2. v \in Corrected
      BY <2>2, <3>1
    <3>3. status'[s] = Corrections(v)
      BY <1>3, <2>2, <3>1
    <3> QED BY <1>4, <3>2, <3>3 DEF Corrections, Statuses
  <2>3. CASE /\ s \notin {new[u] : u \in Discovered}
             /\ s \notin {labState[u] : u \in Corrected}
    BY <1>3, <1>4, <2>3
  <2> QED BY <2>1, <2>2, <2>3
<1>6. labState' \in [Users -> StateIds \cup {None}]
  BY <1>3, <1>4, OthersTyped DEF OthersOK
<1>7. /\ known' \in SUBSET Users /\ touched' \in [Users -> BOOLEAN]
      /\ pass' \in [todo : SUBSET Users, obs : [Users -> Statuses \cup {None}]]
  <2>1. known' \in SUBSET Users
    BY <1>4, OthersTyped DEF ReconcileSync, OthersOK
  <2>2. touched' \in [Users -> BOOLEAN]
    BY OthersTyped DEF ReconcileSync, OthersOK
  <2>3. pass' \in [todo : SUBSET Users, obs : [Users -> Statuses \cup {None}]]
    <3>1. PICK t : /\ t = {u \in Corrected \cup Discovered : pass.obs[u] = "PENDING"}
                   /\ pass' = [obs |-> NoneObserved, todo |-> t]
      BY DEF ReconcileSync
    <3>2. t \in SUBSET Users /\ NoneObserved \in [Users -> Statuses \cup {None}]
      BY <1>4, <3>1 DEF NoneObserved
    <3> QED BY <3>1, <3>2
  <2> QED BY <2>1, <2>2, <2>3
<1>8. OthersOK'
  BY <1>2, <1>5, <1>6, <1>7, OthersTyped DEF OthersOK
<1>9. running' \in {Reconciler, None} /\ ready' = ready /\ Goto(Reconciler, "watch")
  BY <1>1 DEF ReconcileSync, Continue, loop
<1> QED BY <1>1, <1>2, <1>8, <1>9, ReconcilerLocal, CallerFacts, ReaperFacts
    DEF CallerPcs, UserPcs, LockPcs

\* Choosing the next pending lab to watch keeps the invariant.
LEMMA WatchNextInv ==
    ASSUME IInv, WatchNext
    PROVE  IInv'
<1>1. running = Reconciler /\ pc[Reconciler] = "watch" /\ pc[Reconciler] \notin LockPcs
  BY DEF WatchNext, At, LockPcs
<1>2. UNCHANGED <<labs, op, ops, doneEvent, sweep, serving, env>>
  BY DEF WatchNext
<1>3. CASE /\ pass' = [pass EXCEPT !.todo = known]
           /\ loc' = [loc EXCEPT ![Reconciler] = Idle]
           /\ Goto(Reconciler, "gc") /\ Continue /\ UNCHANGED lock
  <2>1. OthersOK'
    BY <1>2, <1>3, OthersTyped DEF OthersOK, labs, env
  <2>2. running' \in {Reconciler, None} /\ ready' = ready
    BY <1>1, <1>3 DEF Continue, loop
  <2> QED BY <1>1, <1>2, <1>3, <2>1, <2>2, ReconcilerLocal, IdleLocals, ReaperFacts
      DEF CallerPcs, UserPcs, LockPcs
<1>4. ASSUME NEW u \in pass.todo, pass' = [pass EXCEPT !.todo = @ \ {u}],
             \/ Continue /\ UNCHANGED <<pc, loc, lock>>
             \/ /\ labState[u] # None
                /\ loc' = [loc EXCEPT ![Reconciler].user = u, ![Reconciler].st = labState[u]]
                /\ Goto(Reconciler, "monitor") /\ Acquire(Reconciler, u)
      PROVE  IInv'
  <2>1. u \in Users /\ labState[u] \in StateIds \cup {None}
    BY OthersTyped DEF OthersOK
  <2>2. OthersOK'
    BY <1>2, <1>4, OthersTyped DEF OthersOK, labs, env
  <2>3. CASE Continue /\ UNCHANGED <<pc, loc, lock>>
    <3>1. running' \in {Reconciler, None} /\ ready' = ready /\ Goto(Reconciler, "watch")
      BY <1>1, <2>3, CallerFacts, ReaperFacts DEF Continue, loop, Goto
    <3> QED BY <1>1, <1>2, <2>2, <2>3, <3>1, ReconcilerLocal, CallerFacts, ReaperFacts
        DEF CallerPcs, UserPcs, LockPcs
  <2>4. CASE /\ loc' = [loc EXCEPT ![Reconciler].user = u, ![Reconciler].st = labState[u]]
             /\ Goto(Reconciler, "monitor") /\ Acquire(Reconciler, u)
    <3>1. /\ loc' \in [Callers -> Locals] /\ \A d \in Callers \ {Reconciler} : loc'[d] = loc[d]
          /\ loc'[Reconciler].user = u
      <4>1. PICK a \in Locals, s \in StateIds \cup {None} :
               s = labState[u] /\ a = [loc[Reconciler] EXCEPT !.user = u]
        BY <2>1, CallerFacts, ReaperFacts DEF Locals
      <4>2. PICK b \in Locals : b = [a EXCEPT !.st = s]
        BY DEF Locals
      <4>3. loc' = [loc EXCEPT ![Reconciler] = b] /\ b.user = u
        BY <2>4, <4>1, <4>2, CallerFacts, ReaperFacts DEF Locals
      <4> QED BY <4>3, CallerFacts, ReaperFacts
    <3>2. Step(Reconciler, "monitor")
      BY <1>1, <2>1, <2>4, <3>1, ReaperFacts DEF Step, CallerPcs, Acquire
    <3>3. /\ "monitor" \in LockPcs \ HoldPcs /\ "monitor" # "collect" /\ Reconciler \in Callers
          /\ UNCHANGED <<op, ops, serving>>
      BY <1>2, ReaperFacts DEF LockPcs, HoldPcs
    <3> QED BY <1>1, <2>2, <2>4, <3>1, <3>2, <3>3, AcquireInv
  <2> QED BY <1>4, <2>3, <2>4
<1> QED BY <1>3, <1>4 DEF WatchNext

\* monitor() for a pending lab keeps the invariant.
LEMMA WatchMonitorInv ==
    ASSUME IInv, WatchMonitor
    PROVE  IInv'
<1> DEFINE u == loc[Reconciler].user
<1>1. /\ running = Reconciler /\ pc[Reconciler] = "monitor" /\ pc[Reconciler] \in LockPcs
      /\ u \in Users /\ Reconciler \in Callers
  BY CallerFacts, ReaperFacts DEF WatchMonitor, At, LockPcs, UserPcs
<1>2. OthersOK' /\ serving' = serving
  BY OthersTyped DEF WatchMonitor, OthersOK, labs, env
<1>3. Step(Reconciler, "watch") /\ "watch" \notin LockPcs \cup {"complete"}
  BY <1>1, IdleLocals, ReaperFacts DEF WatchMonitor, Step, CallerPcs, LockPcs, UserPcs
<1>4. CASE Release(u) /\ ready' = ready \o Granted(u) /\ UNCHANGED <<op, ops>>
  BY <1>1, <1>2, <1>3, <1>4, ReleaseInv
<1>5. CASE ~Conflict(u)
  <2>1. PICK o \in FreeOps : StartOperation(o, u, "WATCH", loc[Reconciler].st, FALSE)
    BY <1>5 DEF WatchMonitor
  <2>2. op[u] = None /\ loc[Reconciler].st \in StateIds \cup {None} /\ "WATCH" \in Kinds
    BY <1>1, <1>5, CallerFacts DEF Conflict, Locals, Kinds
  <2> QED BY <1>1, <1>2, <1>3, <2>1, <2>2, StartInv
<1> QED BY <1>4, <1>5 DEF WatchMonitor

\* Choosing the next stopped lab to delete keeps the invariant.
LEMMA GcNextInv ==
    ASSUME IInv, GcNext
    PROVE  IInv'
<1>1. running = Reconciler /\ pc[Reconciler] = "gc" /\ pc[Reconciler] \notin LockPcs
  BY DEF GcNext, At, LockPcs
<1>2. UNCHANGED <<labs, op, lock, ops, doneEvent, sweep, serving, env>>
  BY DEF GcNext
<1>3. CASE Goto(Reconciler, "metric") /\ Suspend /\ UNCHANGED <<loc, pass>>
  <2>1. OthersOK'
    BY <1>2, <1>3, OthersTyped DEF OthersOK, labs, env
  <2>2. running' \in {Reconciler, None} /\ ready' = ready
    BY <1>3 DEF Suspend
  <2> QED BY <1>1, <1>2, <1>3, <2>1, <2>2, ReconcilerLocal, CallerFacts, ReaperFacts
      DEF CallerPcs, UserPcs, LockPcs
<1>4. ASSUME NEW u \in pass.todo, pass' = [pass EXCEPT !.todo = @ \ {u}], Continue,
             \/ /\ loc' = [loc EXCEPT ![Reconciler] = [Idle EXCEPT !.user = u]]
                /\ Goto(Reconciler, "delete")
             \/ UNCHANGED <<loc, pc>>
      PROVE  IInv'
  <2>1. u \in Users
    BY OthersTyped DEF OthersOK
  <2>2. OthersOK'
    BY <1>2, <1>4, OthersTyped DEF OthersOK, labs, env
  <2>3. running' \in {Reconciler, None} /\ ready' = ready
    BY <1>1, <1>4 DEF Continue, loop
  <2>4. CASE /\ loc' = [loc EXCEPT ![Reconciler] = [Idle EXCEPT !.user = u]]
             /\ Goto(Reconciler, "delete")
    <3>1. [Idle EXCEPT !.user = u] \in Locals /\ [Idle EXCEPT !.user = u].user = u
      BY <2>1 DEF Idle, Locals
    <3>2. /\ loc' \in [Callers -> Locals] /\ \A d \in Callers \ {Reconciler} : loc'[d] = loc[d]
          /\ loc'[Reconciler].user = u
      BY <2>4, <3>1, CallerFacts, ReaperFacts
    <3> QED BY <1>1, <1>2, <2>1, <2>2, <2>3, <2>4, <3>2, ReconcilerLocal DEF CallerPcs, LockPcs
  <2>5. CASE UNCHANGED <<loc, pc>>
    <3>1. Goto(Reconciler, "gc")
      BY <1>1, <2>5, CallerFacts, ReaperFacts DEF Goto
    <3> QED BY <1>1, <1>2, <2>2, <2>3, <2>5, <3>1, ReconcilerLocal, CallerFacts, ReaperFacts
        DEF CallerPcs, UserPcs, LockPcs
  <2> QED BY <1>4, <2>4, <2>5
<1> QED BY <1>3, <1>4 DEF GcNext

\* The end of a pass, which the first time starts the reaper, keeps the invariant.
LEMMA ReconcileEndInv ==
    ASSUME IInv, ReconcileEnd
    PROVE  IInv'
<1>1. running = Reconciler /\ pc[Reconciler] \notin LockPcs
  BY DEF ReconcileEnd, At, LockPcs
<1>2. OthersOK' /\ UNCHANGED <<op, lock, ops>>
  BY PassTyped, OthersTyped DEF ReconcileEnd, OthersOK, labs, env
<1>3. /\ running' \in {Reconciler, None} /\ Goto(Reconciler, "timer") /\ serving' = TRUE
      /\ loc' \in [Callers -> Locals] /\ \A d \in Callers \ {Reconciler} : loc'[d] = loc[d]
  BY IdleLocals, ReaperFacts DEF ReconcileEnd
<1>4. CASE serving
  <2>1. ready' = ready /\ serving' = serving
    BY <1>3, <1>4 DEF ReconcileEnd, IInv, TypeOK
  <2> QED BY <1>1, <1>2, <1>3, <2>1, ReconcilerLocal DEF CallerPcs, UserPcs, LockPcs
<1>5. CASE ~serving
  <2>1. Discipline'
    BY <1>5, BootStep
  <2>2. ready' \in Seq(Tasks)
    BY <1>5, ReaperFacts DEF ReconcileEnd, IInv, TypeOK, Tasks
  <2>3. Step(Reconciler, "timer")
    BY <1>3, ReaperFacts DEF Step, CallerPcs, UserPcs, LockPcs
  <2>4. TypeOK'
    BY <1>2, <2>2, <2>3, StepTypes, ReaperFacts DEF IInv, TypeOK, OthersOK
  <2> QED BY <2>1, <2>3, <2>4, StepTypes, ReaperFacts DEF IInv, Discipline
<1> QED BY <1>4, <1>5

-----------------------------------------------------------------------------
(* Other services, operation tasks and restarts *)

\* A suspended caller is scheduled; the types follow.
LEMMA WakeInv ==
    ASSUME IInv, NEW c \in Callers, NEW l \in CallerPcs, running = None, running' = None,
           c \notin Elems(ready), ready' = Append(ready, c), Goto(c, l),
           loc' \in [Callers -> Locals], \A d \in Callers \ {c} : loc'[d] = loc[d],
           l \in UserPcs => loc'[c].user \in Users,
           c \in Requests => loc'[c].val \in Phases \cup {None, "error"},
           \/ pc[c] = l /\ l \in {"cancelReport", "waitReport"} /\ loc' = loc
           \/ pc[c] \notin LockPcs /\ l \notin LockPcs,
           pc[c] \notin {"complete", "asleep"}, l \notin {"complete", "idle", "over", "timer"},
           UNCHANGED <<op, lock, ops, serving>>, OthersOK'
    PROVE  IInv'
<1>1. Step(c, l)
  BY DEF Step
<1>2. Moves(c, l)
  BY <1>1, StepTypes
<1>3. Discipline'
  BY <1>2, WakeStep
<1>4. ready' \in Seq(Tasks)
  BY DEF IInv, TypeOK, Tasks
<1>5. TypeOK'
  BY <1>1, <1>4, StepTypes DEF IInv, TypeOK, OthersOK
<1> QED BY <1>1, <1>3, <1>5, StepTypes DEF IInv, Discipline

\* A task is scheduled exactly if it is in the ready queue.
LEMMA ScheduledElems ==
    ASSUME IInv, NEW t
    PROVE  Scheduled(t) <=> t \in Elems(ready)
<1>1. ready \in Seq(Tasks)
  BY DEF IInv, TypeOK
<1> QED BY <1>1 DEF Scheduled, Elems

\* The arrival of a request keeps the invariant.
LEMMA ArriveInv ==
    ASSUME IInv, NEW r \in Requests, Arrive(r)
    PROVE  IInv'
<1>1. /\ r \in Callers /\ running = None /\ running' = None /\ pc[r] = "idle"
      /\ r \notin Elems(ready) /\ ready' = Append(ready, r)
  BY DEF Arrive, IInv, LoopInv, Callers
<1>2. OthersOK' /\ UNCHANGED <<op, lock, ops, serving>>
  BY OthersTyped DEF Arrive, OthersOK, labs, env
<1>3. PICK u \in Users, m \in {"create", "delete"} :
         Goto(r, m) /\ loc' = [loc EXCEPT ![r] = [Idle EXCEPT !.user = u]]
  BY DEF Arrive
<1>4. /\ [Idle EXCEPT !.user = u] \in Locals /\ [Idle EXCEPT !.user = u].user = u
      /\ [Idle EXCEPT !.user = u].val = None
  BY DEF Idle, Locals
<1>5. /\ loc' \in [Callers -> Locals] /\ \A d \in Callers \ {r} : loc'[d] = loc[d]
      /\ loc'[r].user = u /\ loc'[r].val = None
  BY <1>1, <1>3, <1>4, CallerFacts
<1>6. /\ m \in CallerPcs /\ m \notin LockPcs /\ m \notin {"complete", "idle", "over", "timer"}
      /\ pc[r] \notin LockPcs /\ pc[r] \notin {"complete", "asleep"}
  BY <1>1 DEF CallerPcs, LockPcs
<1> QED BY <1>1, <1>2, <1>3, <1>5, <1>6, WakeInv

\* The reconciler's timer keeps the invariant.
LEMMA TimerInv ==
    ASSUME IInv, Timer
    PROVE  IInv'
<1>1. /\ Reconciler \in Callers /\ running = None /\ running' = None /\ pc[Reconciler] = "timer"
      /\ Reconciler \notin Elems(ready) /\ ready' = Append(ready, Reconciler)
      /\ Goto(Reconciler, "begin")
  BY ReaperFacts DEF Timer, IInv, LoopInv
<1>2. OthersOK' /\ UNCHANGED <<loc, op, lock, ops, serving>>
  BY OthersTyped DEF Timer, OthersOK, labs, env
<1>3. /\ "begin" \in CallerPcs /\ "begin" \notin UserPcs /\ "begin" \notin LockPcs
      /\ pc[Reconciler] \notin LockPcs /\ pc[Reconciler] \notin {"complete", "asleep"}
  BY <1>1 DEF CallerPcs, LockPcs, UserPcs
<1> QED BY <1>1, <1>2, <1>3, WakeInv, CallerFacts, ReaperFacts

\* The answer to create_lab's read of the pod phase keeps the invariant.
LEMMA PhaseReplyInv ==
    ASSUME IInv, NEW r \in Requests, PhaseReply(r)
    PROVE  IInv'
<1>1. /\ r \in Callers /\ running = None /\ running' = None /\ pc[r] = "phase"
      /\ r \notin Elems(ready) /\ ready' = Append(ready, r) /\ loc[r].user \in Users
  BY ScheduledElems, RequestFacts DEF PhaseReply, CallerWaits, UserPcs
<1>2. UNCHANGED <<pc, known, labState, status, touched, op, lock, ops, doneEvent, sweep, pass,
                  serving, k8s, stray>>
  BY DEF PhaseReply, labs
<1>3. PICK v \in Phases \cup {None, "error"} : loc' = [loc EXCEPT ![r].val = v]
  <2>1. PodPhase(k8s[loc[r].user]) \in Phases \cup {None, "error"}
    BY DEF PodPhase
  <2> QED BY <2>1 DEF PhaseReply
<1>4. v \in ClusterStates \cup {None, "error"}
  BY DEF ClusterStates
<1>5. /\ loc' \in [Callers -> Locals] /\ \A d \in Callers \ {r} : loc'[d] = loc[d]
      /\ loc'[r].user = loc[r].user /\ loc'[r].val = v
  BY <1>1, <1>3, <1>4, RequestFacts DEF Locals
<1>6. faults' \in 0..MaxFaults
  BY ConstantsAssumption DEF PhaseReply, Fault, IInv, TypeOK
<1>7. OthersOK'
  BY <1>2, <1>6, OthersTyped DEF OthersOK
<1>8. Goto(r, "phase") /\ "phase" \in CallerPcs /\ pc[r] \notin LockPcs
  BY <1>1, <1>2, RequestFacts DEF Goto, CallerPcs, LockPcs
<1> QED BY <1>1, <1>2, <1>5, <1>7, <1>8, WakeInv

\* Answers of the registry, Slack and Kafka keep the invariant.
LEMMA OtherReplyInv ==
    ASSUME IInv, NEW c \in Callers, OtherReply(c)
    PROVE  IInv'
<1>1. /\ running = None /\ running' = None /\ c \notin Elems(ready)
      /\ ready' = Append(ready, c)
      /\ pc[c] \in {"image", "phaseReport", "cancelReport", "waitReport", "metric"}
  BY ScheduledElems DEF OtherReply, CallerWaits
<1>2. OthersOK' /\ UNCHANGED <<pc, loc, op, lock, ops, serving>>
  BY OthersTyped DEF OtherReply, OthersOK, labs, env
<1>3. Goto(c, pc[c]) /\ pc[c] \in CallerPcs
  BY <1>1, <1>2, CallerFacts DEF Goto
<1>4. /\ pc[c] \in {"cancelReport", "waitReport"} \/ pc[c] \notin LockPcs
      /\ pc[c] \notin {"complete", "asleep"} /\ pc[c] \notin {"complete", "idle", "over", "timer"}
  BY <1>1 DEF LockPcs
<1>5. PICK l \in CallerPcs : l = pc[c]
  BY <1>3
<1> QED BY <1>1, <1>2, <1>3, <1>4, <1>5, WakeInv, CallerFacts

\* Kubernetes answers to the reconciler keep the invariant.
LEMMA ReconcilerReplyInv ==
    ASSUME IInv, ReconcilerReply
    PROVE  IInv'
<1> DEFINE u == loc[Reconciler].user
<1>1. /\ running = None /\ running' = None /\ Reconciler \notin Elems(ready)
      /\ ready' = Append(ready, Reconciler) /\ Reconciler \in Callers
      /\ pc[Reconciler] \in {"list", "read", "malformed"}
  BY ScheduledElems, ReaperFacts DEF ReconcilerReply, CallerWaits
<1>2. UNCHANGED <<pc, known, labState, status, touched, op, lock, ops, doneEvent, sweep, serving>>
  BY DEF ReconcilerReply, labs
<1>3. /\ pass' \in [todo : SUBSET Users, obs : [Users -> Statuses \cup {None}]]
      /\ k8s' \in [Users -> ClusterStates] /\ stray' \in [Users -> Mutating \cup {None}]
      /\ faults' \in 0..MaxFaults
  <2>1. /\ pass \in [todo : SUBSET Users, obs : [Users -> Statuses \cup {None}]]
        /\ k8s \in [Users -> ClusterStates] /\ stray \in [Users -> Mutating \cup {None}]
        /\ faults \in 0..MaxFaults
    BY OthersTyped DEF OthersOK
  <2>2. pass' = pass \/ pass' = [pass EXCEPT !.todo = {v \in Users : k8s[v] # "absent"}]
    BY DEF ReconcilerReply
  <2>3. k8s' = k8s \/ k8s' = [k8s EXCEPT ![u] = "absent"]
    BY DEF ReconcilerReply
  <2>4. stray' = stray \/ stray' = [stray EXCEPT ![u] = "delNs"]
    BY DEF ReconcilerReply
  <2>5. faults' \in 0..MaxFaults
    BY <2>1, ConstantsAssumption DEF ReconcilerReply, Fault
  <2>6. pass' \in [todo : SUBSET Users, obs : [Users -> Statuses \cup {None}]]
    BY <2>1, <2>2
  <2>7. k8s' \in [Users -> ClusterStates]
    BY <2>1, <2>3 DEF ClusterStates
  <2>8. stray' \in [Users -> Mutating \cup {None}]
    BY <2>1, <2>4 DEF Mutating
  <2> QED BY <2>5, <2>6, <2>7, <2>8
<1>4. OthersOK'
  BY <1>2, <1>3, OthersTyped DEF OthersOK
<1>5. /\ loc' \in [Callers -> Locals] /\ \A d \in Callers \ {Reconciler} : loc'[d] = loc[d]
      /\ loc'[Reconciler].user = u
  <2>1. \/ loc' = loc
        \/ \E v \in {k8s[u], "error"} : loc' = [loc EXCEPT ![Reconciler].val = v]
           /\ (v = "error" \/ pc[Reconciler] = "read")
    BY DEF ReconcilerReply
  <2>2. CASE loc' = loc
    BY <2>2, CallerFacts, ReaperFacts
  <2>3. ASSUME NEW v \in {k8s[u], "error"}, loc' = [loc EXCEPT ![Reconciler].val = v],
               v = "error" \/ pc[Reconciler] = "read"
        PROVE  /\ loc' \in [Callers -> Locals]
               /\ \A d \in Callers \ {Reconciler} : loc'[d] = loc[d]
               /\ loc'[Reconciler].user = u
    <3>1. v \in ClusterStates \cup {None, "error"}
      BY <2>3, CallerFacts, ReaperFacts, OthersTyped DEF OthersOK, UserPcs
    <3> QED BY <2>3, <3>1, CallerFacts, ReaperFacts DEF Locals
  <2> QED BY <2>1, <2>2, <2>3
<1>6. /\ pc[Reconciler] \in CallerPcs /\ Goto(Reconciler, pc[Reconciler])
      /\ pc[Reconciler] \in UserPcs => u \in Users
      /\ pc[Reconciler] \notin LockPcs /\ pc[Reconciler] \notin {"complete", "asleep"}
      /\ pc[Reconciler] \notin {"complete", "idle", "over", "timer"}
  BY <1>1, <1>2, CallerFacts, ReaperFacts DEF Goto, LockPcs
<1>7. PICK l \in CallerPcs : l = pc[Reconciler]
  BY <1>6
<1> QED BY <1>1, <1>2, <1>4, <1>5, <1>6, <1>7, ReaperFacts, WakeInv

\* Steps of Kubernetes alone.
LEMMA ClusterInv ==
    ASSUME IInv, NEW u \in Users, StrayLands(u) \/ PodStarts(u) \/ PodStops(u)
    PROVE  IInv'
<1>1. UNCHANGED <<loop, pc, loc, labs, op, lock, ops, doneEvent, sweep, pass, serving>>
  BY DEF StrayLands, PodStarts, PodStops
<1>2. k8s \in [Users -> ClusterStates] /\ stray \in [Users -> Mutating \cup {None}]
  BY DEF IInv, TypeOK
<1>3. k8s' \in [Users -> ClusterStates]
  <2>1. Effect(stray[u], k8s[u]) \in ClusterStates
    BY <1>2 DEF Effect, ClusterStates, Phases
  <2>2. \E k \in ClusterStates : k8s' = [k8s EXCEPT ![u] = k]
    BY <2>1 DEF StrayLands, PodStarts, PodStops, ClusterStates, Phases
  <2> QED BY <1>2, <2>2
<1>4. stray' \in [Users -> Mutating \cup {None}]
  BY <1>2 DEF StrayLands, PodStarts, PodStops
<1>5. faults' \in 0..MaxFaults
  BY ConstantsAssumption DEF StrayLands, PodStarts, PodStops, Fault, IInv, TypeOK
<1>6. TypeOK'
  BY <1>1, <1>3, <1>4, <1>5 DEF IInv, TypeOK, loop, labs
<1>7. (LocalsInv /\ Discipline)'
  BY <1>1 DEF IInv, LocalsInv, Discipline, LoopInv, LockInv, WaitInv, OpInv, Active, Live, loop
<1> QED BY <1>6, <1>7 DEF IInv, Discipline

\* Kubernetes answers to an operation task keep the invariant.
LEMMA OpReplyInv ==
    ASSUME IInv, NEW o \in OpIds, OpReply(o)
    PROVE  IInv'
<1>1. Discipline'
  BY OpReplyStep
<1>2. /\ UNCHANGED <<running, pc, loc, known, labState, status, touched, op, lock, doneEvent,
                     sweep, pass, serving>>
      /\ ready' = Append(ready, o)
  BY DEF OpReply, labs
<1>3. ready' \in Seq(Tasks)
  BY <1>2 DEF IInv, TypeOK, Tasks
<1>4. ops' \in [OpIds -> Operations]
  <2>1. PICK r \in {"ok", "err"} : ops' = [ops EXCEPT ![o].reply = r]
    BY DEF OpReply
  <2>2. ops \in [OpIds -> Operations]
    BY DEF IInv, TypeOK
  <2>3. [ops[o] EXCEPT !.reply = r] \in Operations
    BY <2>2 DEF Operations
  <2> QED BY <2>1, <2>2, <2>3
<1>5. k8s' \in [Users -> ClusterStates]
  <2>1. k8s \in [Users -> ClusterStates]
    BY DEF IInv, TypeOK
  <2>2. \A v \in Users : Effect(ops[o].pc, k8s[v]) \in ClusterStates
    BY <2>1 DEF Effect, ClusterStates, Phases
  <2>3. k8s' = k8s \/ k8s' = [k8s EXCEPT ![ops[o].user] = Effect(ops[o].pc, k8s[ops[o].user])]
    BY DEF OpReply
  <2>4. CASE k8s' = k8s
    BY <2>1, <2>4
  <2>5. CASE k8s' = [k8s EXCEPT ![ops[o].user] = Effect(ops[o].pc, k8s[ops[o].user])]
    BY <2>1, <2>2, <2>5
  <2> QED BY <2>3, <2>4, <2>5
<1>6. stray' \in [Users -> Mutating \cup {None}]
  <2>1. \/ stray' = stray
        \/ ops[o].pc \in Mutating /\ stray' = [stray EXCEPT ![ops[o].user] = ops[o].pc]
    BY DEF OpReply
  <2> QED BY <2>1 DEF IInv, TypeOK
<1>7. faults' \in 0..MaxFaults
  BY ConstantsAssumption DEF OpReply, Fault, IInv, TypeOK
<1>8. TypeOK' /\ LocalsInv'
  BY <1>2, <1>3, <1>4, <1>5, <1>6, <1>7 DEF IInv, TypeOK, LocalsInv
<1> QED BY <1>1, <1>8 DEF IInv, Discipline

\* A step of an operation task awaits something or ends the task.
LEMMA OpStepForm ==
    ASSUME IInv, NEW o \in OpIds, OpStep(o)
    PROVE  /\ running = o
           /\ status' \in [StateIds -> Statuses]
           /\ \/ \E l \in Awaits : OpAwait(o, l)
              \/ \E res \in {"ok", "raised", "cancelled"}, started \in BOOLEAN :
                    OpFinish(o, res, started)
<1>1. running = o
  BY Zenon DEF OpStep, OpStart, OpDelete, OpCreate, OpWatch, OpPublish, OpError, OpCancelled,
         OpReplied, OpAt
<1>2. status' \in [StateIds -> Statuses]
  <2>1. status' = status \/ \E s \in Statuses : SetStatus(o, s)
    <3>1. {"TERMINATED", "PENDING", "RUNNING", "FAILED"} \subseteq Statuses
      BY DEF Statuses
    <3> QED BY <3>1 DEF OpStep, OpStart, OpDelete, OpCreate, OpWatch, OpPublish, OpError, OpCancelled
  <2> QED BY <2>1 DEF SetStatus, IInv, TypeOK
<1>3. \/ \E l \in Awaits : OpAwait(o, l)
      \/ \E res \in {"ok", "raised", "cancelled"}, started \in BOOLEAN :
            OpFinish(o, res, started)
  <2> USE DEF Awaits, Mutating
  <2>1. CASE OpStart(o)
    BY <2>1 DEF OpStart
  <2>2. CASE OpDelete(o)
    BY <2>2 DEF OpDelete
  <2>3. CASE OpCreate(o)
    BY <2>3 DEF OpCreate
  <2>4. CASE OpWatch(o)
    BY <2>4 DEF OpWatch
  <2>5. CASE OpPublish(o)
    BY <2>5 DEF OpPublish
  <2>6. CASE OpError(o)
    BY <2>6 DEF OpError
  <2>7. CASE OpCancelled(o)
    BY <2>7 DEF OpCancelled
  <2> QED BY <2>1, <2>2, <2>3, <2>4, <2>5, <2>6, <2>7 DEF OpStep
<1> QED BY <1>1, <1>2, <1>3

\* Every step of an operation task keeps the invariant; when it ends, it wakes
\* only tasks that are suspended.
LEMMA OpStepInv ==
    ASSUME IInv, NEW o \in OpIds, OpStep(o)
    PROVE  IInv'
<1>1. running = o /\ status' \in [StateIds -> Statuses]
  BY OpStepForm
<1>2. UNCHANGED <<pc, loc, known, labState, touched, op, lock, sweep, pass, serving,
                  k8s, stray, faults>>
  BY DEF OpStep, env
<1>3. ops \in [OpIds -> Operations] /\ ready \in Seq(Tasks)
  BY DEF IInv, TypeOK
<1>4. ASSUME NEW l \in Awaits, OpAwait(o, l)
      PROVE  /\ Discipline' /\ running' = None /\ ready' \in Seq(Tasks)
             /\ ops' \in [OpIds -> Operations] /\ doneEvent' \in BOOLEAN
  <2>1. l # "done" /\ l \in OpPcs
    BY DEF Awaits, Mutating, OpPcs
  <2>2. Discipline'
    BY <1>1, <1>2, <1>4, <2>1, OpAwaitStep
  <2>3. ops' \in [OpIds -> Operations]
    <3>1. PICK a \in Operations : a = [ops[o] EXCEPT !.pc = l]
      BY <1>3, <2>1 DEF Operations
    <3>2. PICK b \in Operations : b = [a EXCEPT !.reply = None]
      BY DEF Operations
    <3>3. PICK c \in Operations : c = [b EXCEPT !.cancel = FALSE]
      BY DEF Operations
    <3>4. ops' = [ops EXCEPT ![o] = c]
      BY <1>3, <1>4, <3>1, <3>2, <3>3 DEF OpAwait
    <3> QED BY <1>3, <3>4
  <2> QED BY <1>3, <1>4, <2>2, <2>3 DEF OpAwait, Suspend, IInv, TypeOK
<1>5. ASSUME NEW res \in {"ok", "raised", "cancelled"}, NEW started \in BOOLEAN,
             OpFinish(o, res, started)
      PROVE  /\ Discipline' /\ running' = None /\ ready' \in Seq(Tasks)
             /\ ops' \in [OpIds -> Operations] /\ doneEvent' \in BOOLEAN
  <2>1. Discipline'
    BY <1>1, <1>2, <1>5, OpFinishStep
  <2> DEFINE u == ops[o].user
  <2>2. Live(o) /\ u \in Users /\ op[u] = o
    BY <1>1 DEF IInv, LoopInv, OpInv, Active
  <2>3. ready' \in Seq(Tasks)
    <3>1. /\ ops[o].waiters \in Seq(Tasks) /\ Reaper \in Tasks
          /\ lock[u] # <<>> => Head(lock[u]) \in Tasks
      <4>1. ops[o].waiters \in Seq(Callers) /\ lock[u] \in Seq(Callers)
        BY <1>3, <2>2 DEF Operations, IInv, TypeOK
      <4> QED BY <4>1, ReaperFacts DEF Tasks
    <3>2. PICK W \in Seq(Tasks), R \in Seq(Tasks), J \in Seq(Tasks) : ready' = ready \o W \o R \o J
      <4>1. \E W \in {<<>>, ops[o].waiters}, R \in {<<>>, <<Reaper>>} :
               \/ ready' = ready \o W \o R \o <<>>
               \/ lock[u] # <<>> /\ ready' = ready \o W \o R \o <<Head(lock[u])>>
        BY <1>5, <2>2 DEF OpFinish
      <4>2. /\ <<>> \in Seq(Tasks) /\ <<Reaper>> \in Seq(Tasks)
            /\ lock[u] # <<>> => <<Head(lock[u])>> \in Seq(Tasks)
        BY <3>1
      <4> HIDE DEF u
      <4> QED BY <3>1, <4>1, <4>2
    <3>3. PICK a \in Seq(Tasks) : a = ready \o W
      BY <1>3, ConcatElems
    <3>4. PICK b \in Seq(Tasks) : b = a \o R
      BY ConcatElems
    <3> QED BY <3>2, <3>3, <3>4, ConcatElems
  <2>4. ops' \in [OpIds -> Operations]
    <3>1. PICK a \in Operations : a = [IdleOp EXCEPT !.kind = ops[o].kind, !.result = res]
      <4>1. IdleOp \in Operations
        BY DEF IdleOp, Operations, OpPcs, Kinds
      <4>2. PICK k \in Kinds : k = ops[o].kind
        BY <1>3 DEF Operations
      <4>3. PICK b \in Operations : b = [IdleOp EXCEPT !.kind = k]
        BY <4>1 DEF Operations
      <4>4. [b EXCEPT !.result = res] \in Operations
        BY DEF Operations
      <4> QED BY <4>2, <4>3, <4>4
    <3>2. PICK b \in Operations : b = [a EXCEPT !.complete = TRUE]
      BY DEF Operations
    <3>4. PICK d \in Operations : d = [b EXCEPT !.waiters = <<>>]
      <4>0. <<>> \in Seq(Callers)
        OBVIOUS
      <4>1. PICK e \in Seq(Callers) : e = <<>>
        BY <4>0, Zenon
      <4>2. [b EXCEPT !.waiters = e] \in Operations
        BY DEF Operations
      <4> QED BY <4>1, <4>2
    <3>3. ops' = [ops EXCEPT ![o] = a] \/ ops' = [ops EXCEPT ![o] = d]
      <4>1. PICK fin : fin = [ops EXCEPT ![o] = a]
        OBVIOUS
      <4>2. ops' = fin \/ ops' = [fin EXCEPT ![o].complete = TRUE, ![o].waiters = <<>>]
        BY <1>5, <2>2, <3>1, <4>1, Zenon DEF OpFinish
      <4>3. fin \in [OpIds -> Operations] /\ fin[o] = a
        BY <1>3, <4>1
      <4>4. [fin EXCEPT ![o].complete = TRUE, ![o].waiters = <<>>] = [ops EXCEPT ![o] = d]
        <5>2. PICK g : g = [fin EXCEPT ![o].complete = TRUE]
          OBVIOUS
        <5>3. g = [ops EXCEPT ![o] = b]
          BY <1>3, <3>2, <4>1, <4>3, <5>2
        <5>4. [g EXCEPT ![o].waiters = <<>>] = [ops EXCEPT ![o] = [b EXCEPT !.waiters = <<>>]]
          BY <1>3, <5>3
        <5> QED BY <3>4, <5>2, <5>4
      <4> QED BY <4>1, <4>2, <4>4
    <3> QED BY <1>3, <3>3
  <2>5. doneEvent' \in BOOLEAN
    BY <1>5 DEF OpFinish
  <2> QED BY <1>5, <2>1, <2>3, <2>4, <2>5 DEF OpFinish
<1>6. /\ Discipline' /\ running' = None /\ ready' \in Seq(Tasks)
      /\ ops' \in [OpIds -> Operations] /\ doneEvent' \in BOOLEAN
  BY <1>4, <1>5, OpStepForm
<1>7. TypeOK' /\ LocalsInv'
  BY <1>1, <1>2, <1>6 DEF IInv, TypeOK, LocalsInv
<1> QED BY <1>6, <1>7 DEF IInv, Discipline

\* The loop taking the next scheduled task keeps the invariant.
LEMMA DispatchInv ==
    ASSUME IInv, Dispatch
    PROVE  IInv'
<1>1. /\ ready \in Seq(Tasks) /\ ready # <<>>
      /\ running' = Head(ready) /\ ready' = Tail(ready)
      /\ UNCHANGED <<pc, loc, labs, op, lock, ops, doneEvent, sweep, pass, serving, env>>
  BY DEF IInv, TypeOK, Dispatch
<1>2. running' \in Tasks /\ ready' \in Seq(Tasks)
  BY <1>1
<1>3. TypeOK' /\ LocalsInv'
  BY <1>1, <1>2 DEF IInv, TypeOK, LocalsInv, labs, env
<1> QED BY <1>3, DispatchStep DEF IInv, Discipline

-----------------------------------------------------------------------------
(* Start and restart of the process *)

\* The memory of a new process is well typed.
LEMMA FreshTyped ==
    /\ NoLabs \in [Users -> StateIds \cup {None}] /\ NoLabs \in [Users -> OpIds \cup {None}]
    /\ NoLocks \in [Users -> Seq(Callers)] /\ NoOps \in [OpIds -> Operations]
    /\ Untouched \in [Users -> BOOLEAN] /\ <<Reconciler>> \in Seq(Tasks)
    /\ NoSweep \in [todo : SUBSET Users, snap : SUBSET Users]
    /\ NoPass \in [todo : SUBSET Users, obs : [Users -> Statuses \cup {None}]]
    /\ [s \in StateIds |-> "PENDING"] \in [StateIds -> Statuses]
    /\ BootPc \in [Callers -> CallerPcs]
<1>1. <<Reconciler>> \in Seq(Tasks)
  BY ReaperFacts, SingleElems DEF Tasks
<1>2. \A u \in Users : <<>> \in Seq(Callers)
  OBVIOUS
<1>3. IdleOp \in Operations
  BY DEF IdleOp, Operations, OpPcs, Kinds
<1>4. NoPass \in [todo : SUBSET Users, obs : [Users -> Statuses \cup {None}]]
  BY DEF NoPass, NoneObserved
<1>5. NoSweep \in [todo : SUBSET Users, snap : SUBSET Users]
  BY DEF NoSweep
<1>6. NoOps \in [OpIds -> Operations]
  BY <1>3 DEF NoOps
<1>7. NoLocks \in [Users -> Seq(Callers)]
  BY <1>2 DEF NoLocks
<1>8. BootPc \in [Callers -> CallerPcs]
  BY DEF BootPc, CallerPcs
<1>9. "PENDING" \in Statuses
  BY DEF Statuses
<1> QED BY <1>1, <1>4, <1>5, <1>6, <1>7, <1>8, <1>9 DEF NoLabs, Untouched

\* The initial states satisfy the invariant.
LEMMA InitInv == Init => IInv
<1> SUFFICES ASSUME Init PROVE IInv
  OBVIOUS
<1>1. pc = BootPc /\ \A c \in Callers : loc[c] = Idle
  BY DEF Init
<1>2. Fresh
  BY <1>1, ReaperFacts DEF Init, Fresh, BootPc
<1>3. LocalsInv
  BY <1>1 DEF LocalsInv, BootPc, UserPcs, LockPcs, Idle, Callers
<1>4. k8s \in [Users -> ClusterStates]
  BY ConstantsAssumption DEF Init, ClusterStates, Phases
<1>5. loc \in [Callers -> Locals]
  BY IdleTyped DEF Init
<1>6. stray \in [Users -> Mutating \cup {None}] /\ faults \in 0..MaxFaults
  BY ConstantsAssumption DEF Init
<1>7. TypeOK
  BY <1>4, <1>5, <1>6, FreshTyped DEF Init, TypeOK
<1> QED BY <1>2, <1>3, <1>7, FreshDiscipline DEF IInv, Discipline

\* So do those after a restart, when nothing of the old process is left.
LEMMA RestartInv ==
    ASSUME IInv, Restart, faults' \in 0..MaxFaults
    PROVE  IInv'
<1>1. /\ \A c \in Callers : pc'[c] \in {"begin", "asleep", "idle", "over"}
      /\ pc' \in [Callers -> CallerPcs]
      /\ pc'[Reconciler] = "begin" /\ pc'[Reaper] = "asleep"
  BY ReaperFacts DEF Restart, BootPc, CallerPcs
<1>2. loc' \in [Callers -> Locals] /\ \A r \in Requests : loc'[r].val \in Phases \cup {None, "error"}
  <2>1. [Idle EXCEPT !.res = "lost"] \in Locals /\ [Idle EXCEPT !.res = "lost"].val = None
    BY DEF Idle, Locals, Results
  <2>2. loc \in [Callers -> Locals] /\ \A r \in Requests : loc[r].val \in Phases \cup {None, "error"}
    BY DEF IInv, TypeOK, LocalsInv
  <2>3. Idle.val = None
    BY DEF Idle
  <2>4. \A c \in Callers : loc'[c] \in {loc[c], Idle, [Idle EXCEPT !.res = "lost"]}
    BY DEF Restart
  <2>5. loc' = [c \in Callers |-> loc'[c]]
    BY DEF Restart
  <2>6. \A c \in Callers : loc'[c] \in Locals
    BY <2>1, <2>2, <2>4, IdleTyped
  <2> QED BY <2>1, <2>2, <2>3, <2>4, <2>5, <2>6 DEF Callers
<1>3. stray' \in [Users -> Mutating \cup {None}]
  <2>1. stray \in [Users -> Mutating \cup {None}]
    BY DEF IInv, TypeOK
  <2>2. PICK lost \in SUBSET {o \in OpIds : ops[o].pc \in Mutating /\ ~Scheduled(o)} :
           stray' = [u \in Users |-> IF \E o \in lost : ops[o].user = u
                                     THEN ops[CHOOSE o \in lost : ops[o].user = u].pc
                                     ELSE stray[u]]
    BY DEF Restart
  <2> QED BY <2>1, <2>2
<1>4. Fresh'
  BY <1>1 DEF Restart, Fresh
<1>5. Discipline'
  BY <1>4, FreshDiscipline, PTL
<1>6. LocalsInv'
  BY <1>1, <1>2 DEF LocalsInv, UserPcs, LockPcs
<1>7. TypeOK'
  BY <1>1, <1>2, <1>3, FreshTyped DEF Restart, IInv, TypeOK
<1> QED BY <1>5, <1>6, <1>7 DEF IInv, Discipline

\* Nothing happens.
LEMMA StutterInv ==
    ASSUME IInv, UNCHANGED vars
    PROVE  IInv'
<1>1. UNCHANGED <<running, ready, pc, loc, known, labState, status, touched, op, lock, ops,
                  doneEvent, sweep, pass, serving, k8s, stray, faults>>
  BY DEF vars, loop, labs, env
<1>2. TypeOK'
  BY <1>1 DEF IInv, TypeOK
<1>3. (LocalsInv /\ LoopInv /\ LockInv /\ WaitInv /\ OpInv)'
  BY <1>1 DEF IInv, LocalsInv, LoopInv, LockInv, WaitInv, OpInv, Active, Live
<1> QED BY <1>2, <1>3 DEF IInv

-----------------------------------------------------------------------------
(* The theorems *)

\* The invariant is inductive: one lemma per action, above.
LEMMA StepInv ==
    ASSUME IInv, [Next]_vars
    PROVE  IInv'
<1>1. ASSUME NEW r \in Requests, CreateStep(r) PROVE IInv'
  BY <1>1, CreateBeginInv, CreateImageInv, CreatePhaseInv, CreatePhaseReportedInv,
     CreateCheckInv, CreateSpawnInv DEF CreateStep
<1>2. ASSUME NEW c \in Requests \cup {Reconciler}, DeleteStep(c) PROVE IInv'
  <2>1. c \in Callers /\ c # Reaper
    BY ReaperFacts DEF Callers
  <2> QED BY <1>2, <2>1, DeleteBeginInv, CancelInv, CancelledInv, DeleteTerminateInv,
             DeleteMonitorInv, DeleteEndInv DEF DeleteStep
<1>3. ASSUME NEW c \in Callers, WaitStep(c) PROVE IInv'
  BY <1>3, WaitBeginInv, WaitCaptureInv, WaitCompleteInv, WaitCollectInv DEF WaitStep
<1>4. ASSUME ReapStep PROVE IInv'
  BY <1>4, ReapBeginInv, ReapNextInv DEF ReapStep
<1>5. ASSUME ReconcileStep PROVE IInv'
  BY <1>5, ReconcileBeginInv, ReconcileListedInv, GatherNextInv, GatherReadInv,
     MalformedDeletedInv, ReconcileSyncInv, WatchNextInv, WatchMonitorInv, GcNextInv,
     ReconcileEndInv DEF ReconcileStep
<1>6. ASSUME LoopStep PROVE IInv'
  BY <1>1, <1>2, <1>3, <1>4, <1>5, <1>6, DispatchInv, OpStepInv DEF LoopStep
<1>7. ASSUME NEW c \in Callers, CallerReply(c) PROVE IInv'
  BY <1>7, PhaseReplyInv, OtherReplyInv, ReconcilerReplyInv, TimerInv DEF CallerReply
<1>8. ASSUME StartupFails PROVE IInv'
  <2>1. Restart /\ faults' \in 0..MaxFaults
    BY <1>8 DEF StartupFails, IInv, TypeOK
  <2> QED BY <2>1, RestartInv
<1>9. ASSUME Crash PROVE IInv'
  <2>1. Restart /\ faults' \in 0..MaxFaults
    BY <1>9, ConstantsAssumption DEF Crash, Fault, IInv, TypeOK
  <2> QED BY <2>1, RestartInv
<1> QED BY <1>6, <1>7, <1>8, <1>9, ArriveInv, OpReplyInv, ClusterInv, StutterInv DEF Next

\* Every reachable state satisfies the inductive invariant.
THEOREM Invariant == Spec => []IInv
<1>1. IInv /\ [Next]_vars => IInv'
  BY StepInv
<1> QED BY <1>1, InitInv, PTL DEF Spec

\* Every variable of the lab manager always holds a value of its type, for any
\* number of users, requests and failures.
THEOREM TypeCorrect == Spec => []TypeOK
<1>1. IInv => TypeOK
  BY DEF IInv
<1> QED BY <1>1, Invariant, PTL

\* _LabMonitor allows one lab operation at a time: whatever create, delete,
\* cancel, the reaper and the reconciler interleave, a task that still works on
\* a user's lab is the operation _LabMonitor has on record for that user.
THEOREM OneOperationHolds == Spec => []OneOperation
<1>1. IInv => OneOperation
  BY DEF IInv, OpInv, OneOperation
<1> QED BY <1>1, Invariant, PTL


-----------------------------------------------------------------------------
(* The order of callers in the queue of a lock *)

\* Callers in monitor(), which start an operation if they find none.
Starts(c) == pc[c] \in {"spawn", "remove", "monitor"}

\* Callers in cancel(), and callers of delete_lab in wait() that have not yet
\* taken their reference to the operation.
Cancels(c) == pc[c] \in {"cancel", "cancelled", "cancelReport"}
Joins(c) == c # Reaper /\ pc[c] = "capture"
Seeks(c) == pc[c] = "cancel" \/ Joins(c)

\* Callers that will clear the user's current operation once they own the lock.
Clears(c, u) == Cancels(c) \/ (pc[c] \in {"collect", "waitReport"} /\ loc[c].op = op[u])

\* While there is no operation, nobody who seeks one queues behind a caller that
\* starts one; while there is, nobody who starts one queues behind a caller that
\* clears it.
QueueOrder(u) ==
    \A i, j \in 1..Len(lock[u]) : i < j =>
       /\ op[u] = None => ~(Starts(lock[u][i]) /\ Seeks(lock[u][j]))
       /\ op[u] # None => ~(Clears(lock[u][i], u) /\ Starts(lock[u][j]))

\* Whoever queues to cancel the operation queues for a spawn, and whoever queues
\* to wait for it queues for a delete.
QueueKind(u) ==
    op[u] # None => \A c \in Elems(lock[u]) : /\ Cancels(c) => IsSpawn(op[u])
                                              /\ Joins(c) => ~IsSpawn(op[u])

\* What a caller decided from _operation still holds when it asks for the lock;
\* it waits for deletes only, and so never gets CancelledError.
CallerOrder(c) ==
    /\ pc[c] = "terminate" => running = c /\ op[loc[c].user] = None
    /\ c # Reaper =>
         /\ pc[c] = "wait" => /\ running = c /\ op[loc[c].user] # None
                              /\ ~IsSpawn(op[loc[c].user])
         /\ loc[c].op # None => ~IsSpawn(loc[c].op)
    /\ loc[c].res # "cancelled"
    /\ c = Reconciler => pc[c] # "dead"

\* Only spawns are cancelled.
CancelOrder == \A o \in OpIds : ops[o].cancel \/ ops[o].result = "cancelled" => IsSpawn(o)

OrderInv ==
    /\ \A u \in Users : QueueOrder(u) /\ QueueKind(u)
    /\ \A c \in Callers : CallerOrder(c)
    /\ CancelOrder

-----------------------------------------------------------------------------
(* Steps that keep the order *)

\* An operation somebody refers to stays a spawn or a delete.
KindsKept == \A o \in OpIds \ FreeOps : IsSpawn(o)' = IsSpawn(o)

\* No other caller moves.
OthersStay(c) == \A d \in Callers \ {c} : pc'[d] = pc[d] /\ loc'[d] = loc[d]

\* What the order forbids in s, s being a part of t in the same order, it
\* forbids in t.
Within(s, t) ==
    /\ Elems(s) \subseteq Elems(t)
    /\ \A i, j \in 1..Len(s) : i < j =>
          \E k, l \in 1..Len(t) : k < l /\ s[i] = t[k] /\ s[j] = t[l]

\* The rest of a queue is in the queue.
LEMMA TailWithin ==
    ASSUME NEW S, NEW s \in Seq(S), s # <<>>
    PROVE  Within(Tail(s), s)
<1>1. /\ Len(Tail(s)) = Len(s) - 1 /\ Len(s) \in Nat \ {0}
      /\ \A i \in 1..Len(Tail(s)) : Tail(s)[i] = s[i + 1] /\ i + 1 \in 1..Len(s)
  OBVIOUS
<1>2. Elems(Tail(s)) \subseteq Elems(s)
  BY <1>1 DEF Elems
<1>3. ASSUME NEW i \in 1..Len(Tail(s)), NEW j \in 1..Len(Tail(s)), i < j
      PROVE  \E k, l \in 1..Len(s) : k < l /\ Tail(s)[i] = s[k] /\ Tail(s)[j] = s[l]
  <2>1. i + 1 < j + 1
    BY <1>3
  <2> QED BY <1>1, <2>1
<1> QED BY <1>2, <1>3 DEF Within

\* A queue is in itself.
LEMMA SelfWithin == ASSUME NEW s PROVE Within(s, s)
  BY DEF Within

\* Caller d, in the queue of u, does no more than it did.
Calmer(d, u) ==
    /\ Starts(d)' => Starts(d)
    /\ Cancels(d)' => Cancels(d)
    /\ Joins(d)' => Joins(d)
    /\ Seeks(d)' => Seeks(d)
    /\ Clears(d, u)' => Clears(d, u)

\* The current operation of a user keeps its kind.
LEMMA CurrentKind ==
    ASSUME IInv, KindsKept, NEW u \in Users, op[u] # None, op'[u] = op[u]
    PROVE  op'[u] \in OpIds /\ IsSpawn(op[u])' = IsSpawn(op[u])
<1>1. op[u] \in OpIds \ FreeOps
  BY DEF IInv, TypeOK, FreeOps
<1> QED BY <1>1 DEF KindsKept, IsSpawn

\* The order survives when nobody joins the queue of u or wants more.
LEMMA KeepQueue ==
    ASSUME IInv, KindsKept, NEW u \in Users, QueueOrder(u), QueueKind(u),
           op'[u] = op[u], Within(lock'[u], lock[u]),
           \A d \in Elems(lock'[u]) : Calmer(d, u)
    PROVE  QueueOrder(u)' /\ QueueKind(u)'
<1>1. QueueKind(u)'
  <2> SUFFICES ASSUME op[u] # None, NEW c \in Elems(lock'[u])
               PROVE  (Cancels(c)' => IsSpawn(op[u])') /\ (Joins(c)' => ~IsSpawn(op[u])')
    BY DEF QueueKind
  <2>1. c \in Elems(lock[u]) /\ (Cancels(c)' => Cancels(c)) /\ (Joins(c)' => Joins(c))
    BY DEF Within, Calmer
  <2> QED BY <2>1, CurrentKind DEF QueueKind
<1>2. QueueOrder(u)'
  <2> SUFFICES ASSUME NEW i \in 1..Len(lock'[u]), NEW j \in 1..Len(lock'[u]), i < j
               PROVE  /\ op[u] = None => ~(Starts(lock[u][i])' /\ Seeks(lock[u][j])')
                      /\ op[u] # None => ~(Clears(lock[u][i], u)' /\ Starts(lock[u][j])')
    BY DEF QueueOrder
  <2>1. PICK k \in 1..Len(lock[u]), l \in 1..Len(lock[u]) :
                k < l /\ lock'[u][i] = lock[u][k] /\ lock'[u][j] = lock[u][l]
    BY DEF Within
  <2>2. PICK a, b : a = lock'[u][i] /\ b = lock'[u][j]
    OBVIOUS
  <2>3. a \in Elems(lock'[u]) /\ b \in Elems(lock'[u])
    BY <2>2 DEF Elems
  <2>4. /\ op[u] = None => ~(Starts(a) /\ Seeks(b))
        /\ op[u] # None => ~(Clears(a, u) /\ Starts(b))
    BY <2>1, <2>2 DEF QueueOrder
  <2>5. Calmer(a, u) /\ Calmer(b, u)
    BY <2>3
  <2>6. /\ op[u] = None => ~(Starts(a)' /\ Seeks(b)')
        /\ op[u] # None => ~(Clears(a, u)' /\ Starts(b)')
    BY <2>4, <2>5 DEF Calmer
  <2> QED BY <2>2, <2>6 DEF Starts, Seeks, Clears, Cancels, Joins
<1> QED BY <1>1, <1>2

\* A caller that does not move does no more than it did, as long as the
\* operation stays.
LEMMA StillCalm ==
    ASSUME NEW d, pc'[d] = pc[d], loc'[d] = loc[d], NEW u, op'[u] = op[u]
    PROVE  Calmer(d, u)
  BY DEF Calmer, Starts, Cancels, Joins, Seeks, Clears

\* Queues the moving caller is not in.
LEMMA OtherQueue ==
    ASSUME IInv, KindsKept, NEW u \in Users, QueueOrder(u), QueueKind(u), NEW c,
           OthersStay(c), c \notin Elems(lock[u]), op'[u] = op[u],
           lock'[u] = lock[u]
    PROVE  QueueOrder(u)' /\ QueueKind(u)'
<1>1. Elems(lock[u]) \subseteq Callers
  BY DEF IInv, TypeOK, Elems
<1>2. \A d \in Elems(lock'[u]) : Calmer(d, u)
  BY <1>1, StillCalm DEF OthersStay
<1> QED BY <1>2, KeepQueue, SelfWithin

\* A caller joins the queue of u: one that seeks the operation there is, or one
\* that starts one because there is none, or one that collects.
LEMMA AppendQueue ==
    ASSUME IInv, KindsKept, NEW u \in Users, QueueOrder(u), QueueKind(u), NEW c \in Callers,
           OthersStay(c), c \notin Elems(lock[u]), op'[u] = op[u],
           lock'[u] = Append(lock[u], c),
           op[u] = None => ~Seeks(c)',
           op[u] # None => /\ ~Starts(c)'
                           /\ Cancels(c)' => IsSpawn(op[u])
                           /\ Joins(c)' => ~IsSpawn(op[u])
    PROVE  QueueOrder(u)' /\ QueueKind(u)'
<1>1. lock[u] \in Seq(Callers) /\ Elems(lock[u]) \subseteq Callers
  BY DEF IInv, TypeOK, Elems
<1>2. /\ Len(lock'[u]) = Len(lock[u]) + 1 /\ Len(lock[u]) \in Nat
      /\ \A i \in 1..Len(lock[u]) : lock'[u][i] = lock[u][i]
      /\ lock'[u][Len(lock[u]) + 1] = c
  BY <1>1
<1>3. Elems(lock'[u]) = Elems(lock[u]) \cup {c}
  BY <1>1, AppendElems
<1>4. \A d \in Elems(lock[u]) : Calmer(d, u)
  BY <1>1, StillCalm DEF OthersStay
<1>5. QueueKind(u)'
  <2> SUFFICES ASSUME op[u] # None, NEW d \in Elems(lock'[u])
               PROVE  (Cancels(d)' => IsSpawn(op[u])') /\ (Joins(d)' => ~IsSpawn(op[u])')
    BY DEF QueueKind
  <2>1. CASE d = c
    BY <2>1, CurrentKind
  <2>2. CASE d \in Elems(lock[u])
    BY <1>4, <2>2, CurrentKind DEF QueueKind, Calmer
  <2> QED BY <1>3, <2>1, <2>2
<1>6. QueueOrder(u)'
  <2> SUFFICES ASSUME NEW i \in 1..Len(lock'[u]), NEW j \in 1..Len(lock'[u]), i < j
               PROVE  \E a, b : /\ a = lock'[u][i] /\ b = lock'[u][j]
                                /\ op[u] = None => ~(Starts(a)' /\ Seeks(b)')
                                /\ op[u] # None => ~(Clears(a, u)' /\ Starts(b)')
    BY DEF QueueOrder, Starts, Seeks, Clears, Cancels, Joins
  <2>1. i \in 1..Len(lock[u]) /\ lock'[u][i] = lock[u][i]
    BY <1>2
  <2>2. PICK a, b : a = lock'[u][i] /\ b = lock'[u][j]
    OBVIOUS
  <2>3. a \in Elems(lock[u])
    BY <2>1, <2>2 DEF Elems
  <2>4. CASE j \in 1..Len(lock[u])
    <3>1. b = lock[u][j] /\ b \in Elems(lock[u])
      BY <1>2, <2>2, <2>4 DEF Elems
    <3>2. /\ op[u] = None => ~(Starts(a) /\ Seeks(b))
          /\ op[u] # None => ~(Clears(a, u) /\ Starts(b))
      BY <2>1, <2>2, <2>4, <3>1 DEF QueueOrder
    <3>3. Calmer(a, u) /\ Calmer(b, u)
      BY <1>4, <2>3, <3>1
    <3> QED BY <2>2, <3>2, <3>3 DEF Calmer
  <2>5. CASE j \notin 1..Len(lock[u])
    <3>1. b = c
      BY <1>2, <2>2, <2>5
    <3> QED BY <2>2, <3>1
  <2> QED BY <2>4, <2>5
<1> QED BY <1>5, <1>6

\* The owner clears the operation: nobody behind it starts another.
LEMMA ClearQueue ==
    ASSUME IInv, NEW u \in Users, QueueOrder(u), NEW c \in Callers,
           OthersStay(c), lock[u] # <<>>, Head(lock[u]) = c, Clears(c, u),
           op[u] # None, op'[u] = None, lock'[u] = Tail(lock[u])
    PROVE  QueueOrder(u)' /\ QueueKind(u)'
<1>1. lock[u] \in Seq(Callers) /\ Distinct(lock[u])
  BY DEF IInv, TypeOK, LockInv
<1>2. /\ Len(lock'[u]) = Len(lock[u]) - 1 /\ Len(lock[u]) \in Nat \ {0} /\ lock[u][1] = c
      /\ \A i \in 1..Len(lock'[u]) : lock'[u][i] = lock[u][i + 1] /\ i + 1 \in 1..Len(lock[u])
  BY <1>1
<1>3. ASSUME NEW i \in 1..Len(lock'[u]) PROVE ~Starts(lock[u][i])'
  <2>1. PICK a : a = lock'[u][i]
    OBVIOUS
  <2>2. a \in Callers /\ a # c
    <3>1. a = lock[u][i + 1] /\ i + 1 \in 1..Len(lock[u]) /\ 1 \in 1..Len(lock[u]) /\ i + 1 # 1
      BY <1>2, <2>1
    <3> QED BY <1>1, <1>2, <3>1 DEF Distinct
  <2>3. ~Starts(a)
    <3>1. 1 \in 1..Len(lock[u]) /\ i + 1 \in 1..Len(lock[u]) /\ 1 < i + 1
      BY <1>2
    <3> QED BY <1>2, <2>1, <3>1 DEF QueueOrder
  <2> QED BY <2>1, <2>2, <2>3 DEF Starts, OthersStay
<1> QED BY <1>3 DEF QueueOrder, QueueKind

\* The owner of the lock starts operation o, having found none: nobody behind it
\* sought the one before.
LEMMA StartQueue ==
    ASSUME IInv, NEW u \in Users, QueueOrder(u), NEW c \in Callers,
           OthersStay(c), lock[u] # <<>>, Head(lock[u]) = c, Starts(c),
           op[u] = None, NEW o \in FreeOps, op'[u] = o, lock'[u] = Tail(lock[u])
    PROVE  QueueOrder(u)' /\ QueueKind(u)'
<1>1. lock[u] \in Seq(Callers) /\ Distinct(lock[u])
  BY DEF IInv, TypeOK, LockInv
<1>2. /\ Len(lock'[u]) = Len(lock[u]) - 1 /\ Len(lock[u]) \in Nat \ {0} /\ lock[u][1] = c
      /\ \A i \in 1..Len(lock'[u]) : lock'[u][i] = lock[u][i + 1] /\ i + 1 \in 1..Len(lock[u])
  BY <1>1
<1>3. ASSUME NEW i \in 1..Len(lock'[u]), NEW a, a = lock'[u][i]
      PROVE  ~Cancels(a)' /\ ~Joins(a)' /\ ~Clears(a, u)'
  <2>1. a = lock[u][i + 1] /\ i + 1 \in 1..Len(lock[u]) /\ 1 \in 1..Len(lock[u]) /\ 1 < i + 1
    BY <1>2, <1>3
  <2>2. a \in Callers /\ a # c /\ a \in Elems(lock[u])
    BY <1>1, <1>2, <2>1 DEF Distinct, Elems
  <2>3. ~Seeks(a)
    BY <1>2, <2>1 DEF QueueOrder
  <2>4. pc[a] \notin HoldPcs
    BY <2>2 DEF IInv, LockInv
  <2>5. pc'[a] = pc[a] /\ loc'[a] = loc[a] /\ loc[a].op # o
    BY <2>2 DEF OthersStay, FreeOps
  <2> QED BY <2>3, <2>4, <2>5 DEF Cancels, Joins, Clears, Seeks, HoldPcs
<1>4. QueueKind(u)'
  BY <1>3 DEF QueueKind, Elems
<1>5. QueueOrder(u)'
  <2>1. op'[u] # None
    BY ConstantsAssumption DEF FreeOps
  <2> QED BY <1>3, <2>1 DEF QueueOrder
<1> QED BY <1>4, <1>5

\* Callers that do not move keep what they decided: those about to act on it
\* have the loop.
LEMMA OthersOrder ==
    ASSUME IInv, OrderInv, NEW c, OthersStay(c), KindsKept, running \notin Callers \ {c}
    PROVE  \A d \in Callers \ {c} : CallerOrder(d)'
<1> SUFFICES ASSUME NEW d \in Callers \ {c} PROVE CallerOrder(d)'
  OBVIOUS
<1>1. CallerOrder(d) /\ pc'[d] = pc[d] /\ loc'[d] = loc[d] /\ running # d
  BY DEF OrderInv, OthersStay
<1>2. ASSUME loc[d].op # None, d # Reaper PROVE ~IsSpawn(loc[d].op)'
  <2>1. loc[d].op \in OpIds \ FreeOps
    BY <1>2 DEF IInv, TypeOK, Locals, FreeOps
  <2> QED BY <1>1, <1>2, <2>1 DEF CallerOrder, KindsKept, IsSpawn
<1> QED BY <1>1, <1>2 DEF CallerOrder

\* Operations that do not change.
LEMMA SameOps ==
    ASSUME OrderInv, ops' = ops
    PROVE  KindsKept /\ CancelOrder'
  BY DEF KindsKept, CancelOrder, IsSpawn, OrderInv

\* A caller that is past no `async with' is in no queue, and the owner of a
\* lock is in no other.
LEMMA InOwnQueue ==
    ASSUME IInv, NEW c \in Callers, NEW u \in Users, c \in Elems(lock[u])
    PROVE  pc[c] \in LockPcs /\ loc[c].user = u
  BY DEF IInv, LockInv

\* A step outside the locks.
LEMMA QuietOrder ==
    ASSUME IInv, OrderInv, NEW c \in Callers, OthersStay(c), KindsKept,
           running \notin Callers \ {c}, pc[c] \notin LockPcs, UNCHANGED <<op, lock>>,
           CallerOrder(c)', CancelOrder'
    PROVE  OrderInv'
<1>1. \A u \in Users : QueueOrder(u)' /\ QueueKind(u)'
  BY InOwnQueue, OtherQueue DEF OrderInv
<1> QED BY <1>1, OthersOrder DEF OrderInv

\* A request for the lock.
LEMMA AcquireOrder ==
    ASSUME IInv, OrderInv, NEW c \in Callers, NEW u \in Users, OthersStay(c), running = c,
           pc[c] \notin LockPcs, Acquire(c, u), UNCHANGED <<op, ops>>,
           op[u] = None => ~Seeks(c)',
           op[u] # None => /\ ~Starts(c)'
                           /\ Cancels(c)' => IsSpawn(op[u])
                           /\ Joins(c)' => ~IsSpawn(op[u]),
           CallerOrder(c)'
    PROVE  OrderInv'
<1>1. KindsKept /\ CancelOrder'
  BY SameOps
<1>2. /\ lock'[u] = Append(lock[u], c) /\ \A v \in Users \ {u} : lock'[v] = lock[v]
      /\ \A v \in Users : c \notin Elems(lock[v])
  BY InOwnQueue DEF Acquire, IInv, TypeOK
<1>3. QueueOrder(u)' /\ QueueKind(u)'
  BY <1>1, <1>2, AppendQueue DEF OrderInv
<1>4. \A v \in Users \ {u} : QueueOrder(v)' /\ QueueKind(v)'
  BY <1>1, <1>2, OtherQueue DEF OrderInv
<1> QED BY <1>1, <1>3, <1>4, OthersOrder DEF OrderInv

\* The owner of a lock and its queue before and after a release.
LEMMA OwnerFacts ==
    ASSUME IInv, NEW c \in Callers, running = c, pc[c] \in LockPcs, NEW u, u = loc[c].user
    PROVE  /\ u \in Users /\ lock[u] \in Seq(Callers) /\ lock[u] # <<>> /\ Head(lock[u]) = c
           /\ c \in Elems(lock[u])
           /\ \A v \in Users \ {u} : c \notin Elems(lock[v])
           /\ Release(u) => /\ lock'[u] = Tail(lock[u]) /\ c \notin Elems(lock'[u])
                            /\ \A v \in Users \ {u} : lock'[v] = lock[v]
<1>1. u \in Users /\ lock[u] # <<>> /\ Head(lock[u]) = c
  BY DEF IInv, LocalsInv, LockInv, UserPcs, Active
<1>2. lock[u] \in Seq(Callers) /\ Distinct(lock[u]) /\ lock \in [Users -> Seq(Callers)]
  BY <1>1 DEF IInv, TypeOK, LockInv
<1>3. Elems(lock[u]) = Elems(Tail(lock[u])) \cup {c} /\ c \notin Elems(Tail(lock[u]))
  BY <1>1, <1>2, TailElems
<1> QED BY <1>1, <1>2, <1>3, InOwnQueue DEF Release

\* A release that leaves the operation alone.
LEMMA ReleaseOrder ==
    ASSUME IInv, OrderInv, NEW c \in Callers, OthersStay(c), running = c, pc[c] \in LockPcs,
           NEW u, u = loc[c].user, Release(u), op' = op, KindsKept, CallerOrder(c)', CancelOrder'
    PROVE  OrderInv'
<1>1. /\ u \in Users /\ lock[u] \in Seq(Callers) /\ lock[u] # <<>>
      /\ \A v \in Users \ {u} : c \notin Elems(lock[v]) /\ lock'[v] = lock[v]
      /\ lock'[u] = Tail(lock[u]) /\ c \notin Elems(lock'[u])
  BY OwnerFacts
<1>2. QueueOrder(u)' /\ QueueKind(u)'
  <2>1. Within(lock'[u], lock[u])
    BY <1>1, TailWithin
  <2>2. Elems(lock'[u]) \subseteq Callers
    BY <1>1 DEF Elems
  <2>3. \A d \in Elems(lock'[u]) : Calmer(d, u)
    BY <1>1, <2>2, StillCalm DEF OthersStay
  <2> QED BY <1>1, <2>1, <2>3, KeepQueue DEF OrderInv
<1>3. \A v \in Users \ {u} : QueueOrder(v)' /\ QueueKind(v)'
  BY <1>1, OtherQueue DEF OrderInv
<1> QED BY <1>2, <1>3, OthersOrder DEF OrderInv

\* A release that clears the operation.
LEMMA ClearOrder ==
    ASSUME IInv, OrderInv, NEW c \in Callers, OthersStay(c), running = c, pc[c] \in LockPcs,
           NEW u, u = loc[c].user, Clears(c, u), op[u] # None, Release(u),
           op' = [op EXCEPT ![u] = None], ops' = ops, CallerOrder(c)'
    PROVE  OrderInv'
<1>1. /\ u \in Users /\ lock[u] # <<>> /\ Head(lock[u]) = c /\ lock'[u] = Tail(lock[u])
      /\ \A v \in Users \ {u} : c \notin Elems(lock[v]) /\ lock'[v] = lock[v]
  BY OwnerFacts
<1>2. op'[u] = None /\ \A v \in Users \ {u} : op'[v] = op[v]
  BY <1>1 DEF IInv, TypeOK
<1>3. KindsKept /\ CancelOrder'
  BY SameOps
<1>4. QueueOrder(u)' /\ QueueKind(u)'
  BY <1>1, <1>2, ClearQueue DEF OrderInv
<1>5. \A v \in Users \ {u} : QueueOrder(v)' /\ QueueKind(v)'
  BY <1>1, <1>2, <1>3, OtherQueue DEF OrderInv
<1> QED BY <1>3, <1>4, <1>5, OthersOrder DEF OrderInv

\* A release that starts an operation.
LEMMA StartOrder ==
    ASSUME IInv, OrderInv, NEW c \in Callers, OthersStay(c), running = c, Starts(c),
           NEW u, u = loc[c].user, op[u] = None, NEW o \in FreeOps, NEW kind, NEW st, NEW first,
           StartOperation(o, u, kind, st, first), CallerOrder(c)'
    PROVE  OrderInv'
<1>1. pc[c] \in LockPcs /\ Release(u)
  BY DEF Starts, LockPcs, StartOperation
<1>2. /\ u \in Users /\ lock[u] # <<>> /\ Head(lock[u]) = c /\ lock'[u] = Tail(lock[u])
      /\ \A v \in Users \ {u} : c \notin Elems(lock[v]) /\ lock'[v] = lock[v]
  BY <1>1, OwnerFacts
<1>3. op'[u] = o /\ \A v \in Users \ {u} : op'[v] = op[v]
  BY <1>2 DEF IInv, TypeOK, StartOperation
<1>4. /\ \A p \in OpIds \ {o} : ops'[p] = ops[p]
      /\ ~ops'[o].cancel /\ ops'[o].result # "cancelled"
  BY DEF StartOperation, IdleOp, IInv, TypeOK, FreeOps
<1>5. KindsKept /\ CancelOrder'
  BY <1>4 DEF KindsKept, CancelOrder, IsSpawn, OrderInv
<1>6. QueueOrder(u)' /\ QueueKind(u)'
  BY <1>2, <1>3, StartQueue DEF OrderInv
<1>7. \A v \in Users \ {u} : QueueOrder(v)' /\ QueueKind(v)'
  BY <1>2, <1>3, <1>5, OtherQueue DEF OrderInv
<1> QED BY <1>5, <1>6, <1>7, OthersOrder DEF OrderInv

\* A step of the owner that keeps the lock and wants no more than before.
LEMMA HoldOrder ==
    ASSUME IInv, OrderInv, NEW c \in Callers, OthersStay(c), running = c, pc[c] \in LockPcs,
           NEW u, u = loc[c].user, UNCHANGED <<op, lock>>, Calmer(c, u), KindsKept,
           CallerOrder(c)', CancelOrder'
    PROVE  OrderInv'
<1>1. u \in Users /\ lock[u] \in Seq(Callers) /\ \A v \in Users \ {u} : c \notin Elems(lock[v])
  BY OwnerFacts
<1>2. QueueOrder(u)' /\ QueueKind(u)'
  <2>1. Elems(lock[u]) \subseteq Callers
    BY <1>1 DEF Elems
  <2>2. \A d \in Elems(lock'[u]) : Calmer(d, u)
    BY <2>1, StillCalm DEF OthersStay
  <2> QED BY <1>1, <2>2, SelfWithin, KeepQueue DEF OrderInv
<1>3. \A v \in Users \ {u} : QueueOrder(v)' /\ QueueKind(v)'
  BY <1>1, OtherQueue DEF OrderInv
<1> QED BY <1>2, <1>3, OthersOrder DEF OrderInv

\* What a caller decided goes on to hold when nothing but its own position and
\* its other locals change.
LEMMA CalmCaller ==
    ASSUME IInv, OrderInv, NEW c \in Callers, KindsKept,
           pc'[c] \notin {"terminate", "dead"}, pc'[c] = "wait" => c = Reaper,
           loc'[c].op \in {loc[c].op, None}, loc'[c].res \in {loc[c].res, None}
    PROVE  CallerOrder(c)'
<1>1. CallerOrder(c)
  BY DEF OrderInv
<1>2. ASSUME loc'[c].op # None, c # Reaper PROVE ~IsSpawn(loc[c].op)'
  <2>1. loc'[c].op = loc[c].op /\ loc[c].op \in OpIds \ FreeOps
    BY <1>2 DEF IInv, TypeOK, Locals, FreeOps
  <2> QED BY <1>1, <1>2, <2>1 DEF CallerOrder, KindsKept, IsSpawn
<1>3. loc'[c].res # "cancelled"
  BY <1>1, ConstantsAssumption DEF CallerOrder
<1>4. c = Reconciler => pc'[c] # "dead"
  OBVIOUS
<1> QED BY <1>2, <1>3, <1>4 DEF CallerOrder

\* Most steps of callers: no lock, no operation, no decision.
LEMMA MoveOrder ==
    ASSUME IInv, OrderInv, NEW c \in Callers, OthersStay(c), running \notin Callers \ {c},
           pc[c] \notin LockPcs, UNCHANGED <<op, lock, ops>>,
           pc'[c] \notin {"terminate", "dead"}, pc'[c] = "wait" => c = Reaper,
           loc'[c].op \in {loc[c].op, None}, loc'[c].res \in {loc[c].res, None}
    PROVE  OrderInv'
  BY SameOps, CalmCaller, QuietOrder

\* How a method ends.
LEMMA ReturnOrder ==
    ASSUME IInv, NEW c \in Callers, NEW res, Return(c, res), res # "cancelled"
    PROVE  OthersStay(c) /\ CallerOrder(c)'
<1>1. /\ pc'[c] \in {"over", "gc", "timer", "bootFailed"}
      /\ loc'[c] = [Idle EXCEPT !.res = res] /\ OthersStay(c)
  BY CallerFacts DEF Return, Goto, OthersStay
<1>2. loc'[c].op = None /\ loc'[c].res = res
  BY <1>1 DEF Idle
<1> QED BY <1>1, <1>2 DEF CallerOrder

\* A method ends without having taken the lock.
LEMMA QuietReturn ==
    ASSUME IInv, OrderInv, NEW c \in Callers, NEW res, Return(c, res), res # "cancelled",
           running = c, pc[c] \notin LockPcs, UNCHANGED <<op, lock, ops>>
    PROVE  OrderInv'
<1>1. running \notin Callers \ {c}
  OBVIOUS
<1> QED BY <1>1, ReturnOrder, SameOps, QuietOrder

\* A method ends with a release of the lock.
LEMMA ReleaseReturnOrder ==
    ASSUME IInv, OrderInv, NEW c \in Callers, NEW res, Return(c, res), res # "cancelled",
           running = c, pc[c] \in LockPcs, Release(loc[c].user), UNCHANGED <<op, ops>>
    PROVE  OrderInv'
  BY ReturnOrder, SameOps, ReleaseOrder

-----------------------------------------------------------------------------
(* create_lab keeps the order *)

\* create_lab before it asks for the lock.
LEMMA CreateOrder ==
    ASSUME IInv, OrderInv, NEW r \in Requests,
           CreateBegin(r) \/ CreateImage(r) \/ CreatePhase(r) \/ CreatePhaseReported(r)
    PROVE  OrderInv'
<1>1. /\ r \in Callers /\ running = r /\ pc[r] \notin LockPcs /\ running \notin Callers \ {r}
      /\ UNCHANGED <<op, lock, ops>>
  BY RequestFacts DEF CreateBegin, CreateImage, CreatePhase, CreatePhaseReported, At, LockPcs
<1>2. \/ Return(r, "denied") \/ Return(r, "rejected")
      \/ /\ \E l \in {"image", "phase", "phaseReport", "check"} : Goto(r, l)
         /\ \/ loc' = loc
            \/ \E st : loc' = [loc EXCEPT ![r].st = st]
            \/ \E val : loc' = [loc EXCEPT ![r].val = val]
  BY DEF CreateBegin, CreateImage, CreatePhase, CreatePhaseReported
<1>3. CASE Return(r, "denied") \/ Return(r, "rejected")
  BY <1>1, <1>3, QuietReturn
<1>4. CASE /\ \E l \in {"image", "phase", "phaseReport", "check"} : Goto(r, l)
           /\ \/ loc' = loc
              \/ \E st : loc' = [loc EXCEPT ![r].st = st]
              \/ \E val : loc' = [loc EXCEPT ![r].val = val]
  <2>1. OthersStay(r) /\ pc'[r] \in {"image", "phase", "phaseReport", "check"}
    BY <1>1, <1>4, RequestFacts DEF OthersStay, Goto
  <2>2. loc'[r].op = loc[r].op /\ loc'[r].res = loc[r].res
    BY <1>1, <1>4, RequestFacts DEF Locals
  <2> QED BY <1>1, <2>1, <2>2, MoveOrder
<1> QED BY <1>2, <1>3, <1>4

\* create_lab queues to start an operation only if there is none.
LEMMA CreateCheckOrder ==
    ASSUME IInv, OrderInv, NEW r \in Requests, CreateCheck(r)
    PROVE  OrderInv'
<1>1. /\ r \in Callers /\ running = r /\ pc[r] \notin LockPcs /\ loc[r].user \in Users
      /\ UNCHANGED <<op, ops>>
  BY RequestFacts DEF CreateCheck, At, LockPcs, UserPcs
<1>2. ASSUME NEW res \in {"conflict", "exists"}, Return(r, res), UNCHANGED <<ready, lock>>
      PROVE  OrderInv'
  BY <1>1, <1>2, QuietReturn
<1>3. ASSUME op[loc[r].user] = None, NEW first,
             loc' = [loc EXCEPT ![r].st = None, ![r].first = first],
             Goto(r, "spawn"), Acquire(r, loc[r].user)
      PROVE  OrderInv'
  <2>1. OthersStay(r) /\ pc'[r] = "spawn"
    BY <1>1, <1>3, RequestFacts DEF OthersStay, Goto
  <2>2. loc'[r].op = loc[r].op /\ loc'[r].res = loc[r].res
    BY <1>1, <1>3, RequestFacts DEF Locals
  <2>3. ~Seeks(r)'
    BY <2>1 DEF Seeks, Joins
  <2>4. CallerOrder(r)'
    BY <1>1, <2>1, <2>2, SameOps, CalmCaller
  <2> QED BY <1>1, <1>3, <2>1, <2>3, <2>4, AcquireOrder
<1> QED BY <1>2, <1>3 DEF CreateCheck

\* monitor() for a spawn.
LEMMA CreateSpawnOrder ==
    ASSUME IInv, OrderInv, NEW r \in Requests, CreateSpawn(r)
    PROVE  OrderInv'
<1>1. r \in Callers /\ running = r /\ pc[r] \in LockPcs /\ Starts(r)
  BY RequestFacts DEF CreateSpawn, At, LockPcs, Starts
<1>2. CASE Conflict(loc[r].user)
  BY <1>1, <1>2, ReleaseReturnOrder DEF CreateSpawn
<1>3. CASE ~Conflict(loc[r].user)
  <2>1. PICK o \in FreeOps, s \in FreeStates :
           /\ StartOperation(o, loc[r].user, "SPAWN", s, loc[r].first)
           /\ Return(r, "ok")
    BY <1>3 DEF CreateSpawn
  <2> QED BY <1>1, <1>3, <2>1, ReturnOrder, StartOrder DEF Conflict
<1> QED BY <1>2, <1>3

-----------------------------------------------------------------------------
(* delete_lab, cancel and wait keep the order *)

\* delete_lab asks to cancel a spawn, or decides to wait for a delete, or finds
\* nothing in progress, and acts on it before anybody else runs.
LEMMA DeleteBeginOrder ==
    ASSUME IInv, OrderInv, NEW c \in Callers, DeleteBegin(c)
    PROVE  OrderInv'
<1>1. /\ running = c /\ running \notin Callers \ {c} /\ pc[c] \notin LockPcs
      /\ loc[c].user \in Users /\ UNCHANGED <<op, ops>> /\ CallerOrder(c)
  BY CallerFacts DEF DeleteBegin, At, LockPcs, UserPcs, OrderInv
<1>2. KindsKept /\ CancelOrder'
  BY <1>1, SameOps
<1>3. CASE Return(c, "unknown") /\ UNCHANGED <<ready, lock>>
  BY <1>1, <1>3, QuietReturn
<1>4. CASE op[loc[c].user] = None /\ Goto(c, "terminate") /\ Continue /\ UNCHANGED <<loc, lock>>
  <2>1. OthersStay(c) /\ pc'[c] = "terminate" /\ running' = c
    BY <1>1, <1>4, CallerFacts DEF OthersStay, Goto, Continue, loop
  <2>2. CallerOrder(c)'
    BY <1>1, <1>4, <2>1 DEF CallerOrder, IsSpawn
  <2> QED BY <1>1, <1>2, <1>4, <2>1, <2>2, QuietOrder
<1>5. CASE /\ op[loc[c].user] # None /\ IsSpawn(op[loc[c].user])
           /\ Goto(c, "cancel") /\ Acquire(c, loc[c].user) /\ UNCHANGED loc
  <2>1. OthersStay(c) /\ pc'[c] = "cancel"
    BY <1>1, <1>5, CallerFacts DEF OthersStay, Goto
  <2>2. CallerOrder(c)'
    BY <1>2, <1>5, <2>1, CalmCaller
  <2>3. ~Starts(c)' /\ ~Joins(c)'
    BY <2>1 DEF Starts, Joins
  <2> QED BY <1>1, <1>5, <2>1, <2>2, <2>3, AcquireOrder
<1>6. CASE /\ op[loc[c].user] # None /\ ~IsSpawn(op[loc[c].user])
           /\ loc' = [loc EXCEPT ![c].role = "joiner"]
           /\ Goto(c, "wait") /\ Continue /\ UNCHANGED lock
  <2>1. OthersStay(c) /\ pc'[c] = "wait" /\ running' = c
    BY <1>1, <1>6, CallerFacts DEF OthersStay, Goto, Continue, loop
  <2>2. loc'[c].op = loc[c].op /\ loc'[c].res = loc[c].res /\ loc'[c].user = loc[c].user
    BY <1>6, CallerFacts DEF Locals
  <2>3. CallerOrder(c)'
    BY <1>1, <1>6, <2>1, <2>2 DEF CallerOrder, IsSpawn
  <2> QED BY <1>1, <1>2, <1>6, <2>1, <2>3, QuietOrder
<1> QED BY <1>3, <1>4, <1>5, <1>6 DEF DeleteBegin, Aborts

\* It queues to start a delete while there is no operation.
LEMMA DeleteTerminateOrder ==
    ASSUME IInv, OrderInv, NEW c \in Callers, DeleteTerminate(c)
    PROVE  OrderInv'
<1>1. /\ running = c /\ pc[c] \notin LockPcs /\ loc[c].user \in Users
      /\ UNCHANGED <<op, ops>> /\ op[loc[c].user] = None
  BY CallerFacts DEF DeleteTerminate, At, LockPcs, UserPcs, OrderInv, CallerOrder
<1>2. CASE Return(c, "unknown") /\ UNCHANGED <<ready, lock, status>>
  BY <1>1, <1>2, QuietReturn
<1>3. CASE /\ \E st : loc' = [loc EXCEPT ![c].st = st, ![c].role = "owner"]
           /\ Goto(c, "remove") /\ Acquire(c, loc[c].user)
  <2>1. OthersStay(c) /\ pc'[c] = "remove"
    BY <1>1, <1>3, CallerFacts DEF OthersStay, Goto
  <2>2. loc'[c].op = loc[c].op /\ loc'[c].res = loc[c].res
    BY <1>3, CallerFacts DEF Locals
  <2>3. CallerOrder(c)' /\ ~Seeks(c)'
    BY <1>1, <2>1, <2>2, SameOps, CalmCaller DEF Seeks, Joins
  <2> QED BY <1>1, <1>3, <2>1, <2>3, AcquireOrder
<1> QED BY <1>2, <1>3 DEF DeleteTerminate

\* monitor() for a delete, after which the caller waits for it.
LEMMA DeleteMonitorOrder ==
    ASSUME IInv, OrderInv, NEW c \in Callers, DeleteMonitor(c)
    PROVE  OrderInv'
<1>1. /\ running = c /\ pc[c] \in LockPcs /\ Starts(c) /\ loc[c].user \in Users
      /\ CallerOrder(c)
  BY CallerFacts DEF DeleteMonitor, At, LockPcs, UserPcs, OrderInv, Starts
<1>2. CASE Conflict(loc[c].user)
  BY <1>1, <1>2, ReleaseReturnOrder DEF DeleteMonitor
<1>3. CASE ~Conflict(loc[c].user)
  <2>1. PICK o \in FreeOps : /\ StartOperation(o, loc[c].user, "DELETE", loc[c].st, FALSE)
                             /\ loc' = [loc EXCEPT ![c].st = None]
                             /\ Goto(c, "wait") /\ UNCHANGED running
    BY <1>3 DEF DeleteMonitor
  <2>2. OthersStay(c) /\ pc'[c] = "wait" /\ running' = c
    BY <1>1, <2>1, CallerFacts DEF OthersStay, Goto
  <2>3. loc'[c].op = loc[c].op /\ loc'[c].res = loc[c].res /\ loc'[c].user = loc[c].user
    BY <2>1, CallerFacts DEF Locals
  <2>4. /\ op'[loc[c].user] = o /\ o # None /\ ops'[o].kind = "DELETE"
        /\ \A p \in OpIds \ {o} : ops'[p] = ops[p]
        /\ loc[c].op # o
    BY <1>1, <2>1, ConstantsAssumption DEF StartOperation, IInv, TypeOK, FreeOps, IdleOp
  <2>5. ASSUME loc[c].op # None, c # Reaper PROVE ~IsSpawn(loc[c].op)'
    <3>1. loc[c].op \in OpIds
      BY <2>5, CallerFacts DEF Locals
    <3> QED BY <1>1, <2>3, <2>4, <2>5, <3>1 DEF CallerOrder, IsSpawn
  <2>6. CallerOrder(c)'
    BY <1>1, <2>2, <2>3, <2>4, <2>5 DEF CallerOrder, IsSpawn
  <2> QED BY <1>1, <1>3, <2>1, <2>2, <2>6, StartOrder DEF Conflict
<1> QED BY <1>2, <1>3

\* The end of delete_lab.
LEMMA DeleteEndOrder ==
    ASSUME IInv, OrderInv, NEW c \in Callers, DeleteEnd(c)
    PROVE  OrderInv'
<1>1. running = c /\ pc[c] \notin LockPcs /\ UNCHANGED <<op, lock, ops>>
  BY DEF DeleteEnd, At, LockPcs
<1>2. \E res \in {"attribute", "ok", "failed"} : Return(c, res)
  BY DEF DeleteEnd
<1> QED BY <1>1, <1>2, QuietReturn

\* cancel() hits a spawn, since whoever queued for it queued for a spawn.
LEMMA CancelOrderStep ==
    ASSUME IInv, OrderInv, NEW c \in Callers, Cancel(c)
    PROVE  OrderInv'
<1> DEFINE u == loc[c].user
<1>1. /\ running = c /\ pc[c] = "cancel" /\ pc[c] \in LockPcs /\ op' = op /\ loc' = loc
      /\ CallerOrder(c)
  BY DEF Cancel, At, LockPcs, OrderInv
<1>2. u \in Users /\ c \in Elems(lock[u])
  BY <1>1, OwnerFacts
<1>3. ASSUME NEW l, Goto(c, l) PROVE OthersStay(c) /\ pc'[c] = l
  BY <1>1, <1>3, CallerFacts DEF OthersStay, Goto
<1>4. CASE op[u] = None
  <2>1. Goto(c, "terminate") /\ Release(u) /\ UNCHANGED <<running, ops>>
    BY <1>4 DEF Cancel
  <2>2. CallerOrder(c)'
    BY <1>1, <1>3, <1>4, <2>1 DEF CallerOrder, IsSpawn
  <2> QED BY <1>1, <1>3, <2>1, <2>2, SameOps, ReleaseOrder
<1>5. CASE op[u] # None
  <2>1. Goto(c, "cancelled") /\ UNCHANGED lock
    BY <1>5 DEF Cancel
  <2>2. OthersStay(c) /\ pc'[c] = "cancelled"
    BY <1>3, <2>1
  <2>3. Calmer(c, u)
    BY <1>1, <2>2 DEF Calmer, Starts, Cancels, Joins, Seeks, Clears
  <2>4. op[u] \in OpIds /\ IsSpawn(op[u])
    BY <1>1, <1>2, <1>5 DEF IInv, TypeOK, OrderInv, QueueKind, Cancels
  <2>5. ops' = ops \/ ops' = [ops EXCEPT ![op[u]].cancel = TRUE]
    BY <1>5 DEF Cancel
  <2>6. KindsKept /\ CancelOrder'
    <3>q. PICK q \in OpIds : q = op[u]
      BY <2>4
    <3>e. ops' = ops \/ ops' = [ops EXCEPT ![q].cancel = TRUE]
      BY <2>5, <3>q
    <3> HIDE DEF u
    <3>1. ASSUME NEW o \in OpIds
          PROVE  /\ ops'[o].kind = ops[o].kind /\ ops'[o].result = ops[o].result
                 /\ ops'[o].cancel => ops[o].cancel \/ o = q
      BY <3>e DEF IInv, TypeOK, Operations
    <3> QED BY <2>4, <3>q, <3>1 DEF KindsKept, CancelOrder, IsSpawn, OrderInv
  <2>7. CallerOrder(c)'
    BY <1>1, <2>2, <2>6, CalmCaller
  <2> QED BY <1>1, <2>1, <2>2, <2>3, <2>6, <2>7, HoldOrder
<1> QED BY <1>4, <1>5

\* cancel() clears the operation, and its caller goes on to delete the lab.
LEMMA CancelledOrder ==
    ASSUME IInv, OrderInv, NEW c \in Callers, Cancelled(c)
    PROVE  OrderInv'
<1> DEFINE u == loc[c].user
<1>1. /\ running = c /\ pc[c] \in {"cancelled", "cancelReport"} /\ pc[c] \in LockPcs
      /\ UNCHANGED <<loc, ops>> /\ CallerOrder(c)
  BY DEF Cancelled, At, LockPcs, OrderInv
<1>2. u \in Users /\ op[u] # None
  BY <1>1, OwnerFacts DEF IInv, OpInv, Active
<1>3. ASSUME NEW l, Goto(c, l) PROVE OthersStay(c) /\ pc'[c] = l
  BY <1>1, <1>3, CallerFacts DEF OthersStay, Goto
<1>4. CASE Goto(c, "cancelReport") /\ Suspend /\ UNCHANGED <<op, lock>>
  <2>1. OthersStay(c) /\ pc'[c] = "cancelReport"
    BY <1>3, <1>4
  <2>2. Calmer(c, u)
    BY <1>1, <2>1 DEF Calmer, Starts, Cancels, Joins, Seeks, Clears
  <2>3. KindsKept /\ CancelOrder' /\ CallerOrder(c)'
    BY <1>1, <2>1, SameOps, CalmCaller
  <2> QED BY <1>1, <1>4, <2>1, <2>2, <2>3, HoldOrder
<1>5. CASE /\ op' = [op EXCEPT ![u] = None] /\ Release(u)
           /\ Goto(c, "terminate") /\ UNCHANGED running
  <2>1. OthersStay(c) /\ pc'[c] = "terminate" /\ running' = c /\ op'[u] = None
    BY <1>1, <1>2, <1>3, <1>5 DEF IInv, TypeOK
  <2>2. CallerOrder(c)'
    BY <1>1, <2>1 DEF CallerOrder, IsSpawn
  <2>3. Clears(c, u)
    BY <1>1 DEF Clears, Cancels
  <2> QED BY <1>1, <1>2, <1>5, <2>1, <2>2, <2>3, ClearOrder
<1> QED BY <1>4, <1>5 DEF Cancelled

\* wait() asks for the lock: its caller still sees the delete it is to wait for.
LEMMA WaitBeginOrder ==
    ASSUME IInv, OrderInv, NEW c \in Callers, WaitBegin(c)
    PROVE  OrderInv'
<1>1. /\ running = c /\ pc[c] = "wait" /\ pc[c] \notin LockPcs /\ loc[c].user \in Users
      /\ UNCHANGED <<op, ops, loc>> /\ CallerOrder(c) /\ Acquire(c, loc[c].user)
  BY CallerFacts DEF WaitBegin, At, LockPcs, UserPcs, OrderInv
<1>2. OthersStay(c) /\ pc'[c] = "capture"
  BY <1>1, CallerFacts DEF OthersStay, Goto, WaitBegin
<1>3. CallerOrder(c)'
  BY <1>1, <1>2, SameOps, CalmCaller
<1>4. /\ ~Starts(c)' /\ ~Cancels(c)'
      /\ c # Reaper => op[loc[c].user] # None /\ ~IsSpawn(op[loc[c].user])
      /\ c = Reaper => ~Joins(c)' /\ ~Seeks(c)'
  BY <1>1, <1>2 DEF Starts, Cancels, Joins, Seeks, CallerOrder
<1> QED BY <1>1, <1>2, <1>3, <1>4, AcquireOrder

\* wait() takes its reference: a caller of delete_lab gets a delete.
LEMMA WaitCaptureOrder ==
    ASSUME IInv, OrderInv, NEW c \in Callers, WaitCapture(c)
    PROVE  OrderInv'
<1> DEFINE u == loc[c].user
<1>1. /\ running = c /\ pc[c] = "capture" /\ pc[c] \in LockPcs /\ op' = op
      /\ CallerOrder(c) /\ Release(u)
  BY DEF WaitCapture, At, LockPcs, OrderInv
<1>2. u \in Users /\ c \in Elems(lock[u])
  BY <1>1, OwnerFacts
<1>3. CASE op[u] = None
  <2>1. CASE Goto(c, "sweep") /\ UNCHANGED <<running, loc>> /\ UNCHANGED ops
    <3>1. OthersStay(c) /\ pc'[c] = "sweep"
      BY <2>1, CallerFacts DEF OthersStay, Goto
    <3>2. KindsKept /\ CancelOrder' /\ CallerOrder(c)'
      BY <2>1, <3>1, SameOps, CalmCaller
    <3> QED BY <1>1, <3>1, <3>2, ReleaseOrder
  <2>2. CASE Return(c, "noOperation") /\ UNCHANGED ops
    BY <1>1, <2>2, ReleaseReturnOrder
  <2> QED BY <1>3, <2>1, <2>2 DEF WaitCapture
<1>4. CASE op[u] # None
  <2>1. PICK q \in OpIds : q = op[u]
    BY <1>2, <1>4 DEF IInv, TypeOK
  <2>2. /\ loc' = [loc EXCEPT ![c].op = q] /\ Goto(c, "complete")
        /\ ops' = ops \/ ops' = [ops EXCEPT ![q].waiters = Append(@, c)]
    BY <1>4, <2>1 DEF WaitCapture
  <2>3. OthersStay(c) /\ pc'[c] = "complete"
    BY <2>2, CallerFacts DEF OthersStay, Goto
  <2>4. loc'[c].op = q /\ loc'[c].res = loc[c].res
    BY <2>2, CallerFacts DEF Locals
  <2>5. ASSUME NEW o \in OpIds
        PROVE  /\ ops'[o].kind = ops[o].kind /\ ops'[o].result = ops[o].result
               /\ ops'[o].cancel = ops[o].cancel
    <3>1. PICK w : ops' = ops \/ ops' = [ops EXCEPT ![q].waiters = w]
      BY <2>2
    <3>2. ops \in [OpIds -> Operations]
      BY DEF IInv, TypeOK
    <3> HIDE DEF u
    <3> QED BY <3>1, <3>2 DEF Operations
  <2>6. KindsKept /\ CancelOrder'
    BY <2>5 DEF KindsKept, CancelOrder, IsSpawn, OrderInv
  <2>7. c # Reaper => ~IsSpawn(q)
    BY <1>1, <1>2, <1>4, <2>1 DEF OrderInv, QueueKind, Joins
  <2>8. CallerOrder(c)'
    BY <1>1, <2>1, <2>3, <2>4, <2>5, <2>7 DEF CallerOrder, IsSpawn
  <2> QED BY <1>1, <2>3, <2>6, <2>8, ReleaseOrder
<1> QED BY <1>3, <1>4

\* wait() asks for the lock again.
LEMMA WaitCompleteOrder ==
    ASSUME IInv, OrderInv, NEW c \in Callers, WaitComplete(c)
    PROVE  OrderInv'
<1>1. /\ running = c /\ pc[c] = "complete" /\ pc[c] \notin LockPcs /\ loc[c].user \in Users
      /\ UNCHANGED <<op, ops, loc>> /\ CallerOrder(c) /\ Acquire(c, loc[c].user)
  BY CallerFacts DEF WaitComplete, At, LockPcs, UserPcs, OrderInv
<1>2. OthersStay(c) /\ pc'[c] = "collect"
  BY <1>1, CallerFacts DEF OthersStay, Goto, WaitComplete
<1>3. CallerOrder(c)'
  BY <1>1, <1>2, SameOps, CalmCaller
<1>4. ~Starts(c)' /\ ~Cancels(c)' /\ ~Joins(c)' /\ ~Seeks(c)'
  BY <1>2 DEF Starts, Cancels, Joins, Seeks
<1> QED BY <1>1, <1>2, <1>3, <1>4, AcquireOrder

\* wait() collects its operation, which was cancelled only if the reaper waits.
LEMMA WaitCollectOrder ==
    ASSUME IInv, OrderInv, NEW c \in Callers, WaitCollect(c)
    PROVE  OrderInv'
<1> DEFINE u == loc[c].user
           o == loc[c].op
<1>1. /\ running = c /\ pc[c] \in {"collect", "waitReport"} /\ pc[c] \in LockPcs
      /\ ops' = ops /\ CallerOrder(c)
  BY DEF WaitCollect, At, LockPcs, OrderInv
<1>2. u \in Users /\ o # None /\ o \in OpIds
  BY <1>1, OwnerFacts, CallerFacts DEF IInv, OpInv, Locals
<1>3. KindsKept /\ CancelOrder'
  BY <1>1, SameOps
<1>4. CASE Goto(c, "waitReport") /\ Suspend /\ UNCHANGED <<loc, op, lock, touched>>
  <2>1. OthersStay(c) /\ pc'[c] = "waitReport"
    BY <1>4, CallerFacts DEF OthersStay, Goto
  <2>2. Calmer(c, u)
    BY <1>1, <1>4, <2>1 DEF Calmer, Starts, Cancels, Joins, Seeks, Clears
  <2>3. CallerOrder(c)'
    BY <1>3, <1>4, <2>1, CalmCaller
  <2> QED BY <1>1, <1>3, <1>4, <2>1, <2>2, <2>3, HoldOrder
<1>5. CASE /\ ops[o].result = "cancelled" /\ Release(u) /\ op' = op
           /\ IF c = Reaper THEN Goto(c, "dead") /\ running' = None /\ UNCHANGED loc
              ELSE Return(c, "cancelled")
  <2>1. c = Reaper
    BY <1>1, <1>2, <1>5 DEF CallerOrder, OrderInv, CancelOrder
  <2>2. OthersStay(c) /\ pc'[c] = "dead" /\ loc' = loc
    BY <1>5, <2>1, CallerFacts DEF OthersStay, Goto
  <2>3. CallerOrder(c)'
    BY <1>1, <2>1, <2>2, ConstantsAssumption DEF CallerOrder
  <2> QED BY <1>1, <1>3, <1>5, <2>2, <2>3, ReleaseOrder
<1>6. CASE /\ op' = IF op[u] = o THEN [op EXCEPT ![u] = None] ELSE op
           /\ Release(u) /\ loc' = [loc EXCEPT ![c].op = None]
           /\ Goto(c, IF c = Reaper THEN "sweep" ELSE "deleted")
  <2>1. OthersStay(c) /\ pc'[c] \in {"sweep", "deleted"}
    BY <1>6, CallerFacts DEF OthersStay, Goto
  <2>2. loc'[c].op = None /\ loc'[c].res = loc[c].res
    BY <1>6, CallerFacts DEF Locals
  <2>3. CallerOrder(c)'
    BY <1>3, <2>1, <2>2, CalmCaller
  <2>4. CASE op[u] = o
    <3>1. Clears(c, u)
      BY <1>1, <2>4 DEF Clears
    <3> QED BY <1>1, <1>2, <1>6, <2>1, <2>3, <2>4, <3>1, ClearOrder
  <2>5. CASE op[u] # o
    BY <1>1, <1>3, <1>6, <2>1, <2>3, <2>5, ReleaseOrder
  <2> QED BY <2>4, <2>5
<1> QED BY <1>4, <1>5, <1>6 DEF WaitCollect

-----------------------------------------------------------------------------
(* The reaper and the reconciler keep the order *)

\* The reaper decides nothing before it asks for a lock.
LEMMA ReapOrder ==
    ASSUME IInv, OrderInv, ReapStep
    PROVE  OrderInv'
<1>1. /\ Reaper \in Callers /\ running = Reaper /\ running \notin Callers \ {Reaper}
      /\ pc[Reaper] \notin LockPcs /\ UNCHANGED <<op, lock, ops>>
  BY ReaperFacts DEF ReapStep, ReapBegin, ReapNext, At, LockPcs
<1>2. \/ \E l \in {"sweep", "dead", "asleep", "wait"} : Goto(Reaper, l)
      \/ pc' = pc
  BY DEF ReapStep, ReapBegin, ReapNext
<1>3. \/ loc' = loc \/ loc' = [loc EXCEPT ![Reaper] = Idle]
      \/ \E u : loc' = [loc EXCEPT ![Reaper].user = u]
  BY DEF ReapStep, ReapBegin, ReapNext
<1>4. OthersStay(Reaper) /\ pc'[Reaper] # "terminate"
  BY <1>1, <1>2, <1>3, CallerFacts DEF OthersStay, Goto, ReapStep, ReapBegin, ReapNext, At
<1>5. loc'[Reaper].res # "cancelled"
  <2>1. loc'[Reaper].res \in {loc[Reaper].res, None}
    BY <1>1, <1>3, CallerFacts DEF Locals, Idle
  <2> QED BY <1>1, <2>1, ConstantsAssumption DEF OrderInv, CallerOrder
<1>6. CallerOrder(Reaper)'
  BY <1>4, <1>5, ConstantsAssumption DEF CallerOrder
<1> QED BY <1>1, <1>4, <1>6, SameOps, QuietOrder

\* The steps of a pass that take no lock and decide no delete.
LEMMA ReconcileMoveOrder ==
    ASSUME IInv, OrderInv,
           \/ ReconcileBegin \/ ReconcileListed \/ GatherNext \/ GatherRead
           \/ MalformedDeleted \/ ReconcileSync \/ GcNext \/ ReconcileEnd
    PROVE  OrderInv'
<1>1. /\ Reconciler \in Callers /\ running = Reconciler
      /\ running \notin Callers \ {Reconciler} /\ pc[Reconciler] \notin LockPcs
      /\ UNCHANGED <<op, lock, ops>>
  BY ReaperFacts DEF ReconcileBegin, ReconcileListed, GatherNext, GatherRead, MalformedDeleted,
     ReconcileSync, GcNext, ReconcileEnd, At, LockPcs
<1>2. \/ \E l \in {"list", "gather", "sync", "read", "malformed", "watch", "metric", "delete",
                   "timer", "bootFailed"} : Goto(Reconciler, l)
      \/ pc' = pc /\ pc[Reconciler] = "gc"
  BY DEF ReconcileBegin, ReconcileListed, GatherNext, GatherRead, MalformedDeleted,
     ReconcileSync, GcNext, ReconcileEnd, PassFails, At
<1>3. \/ loc' = loc \/ loc' = [loc EXCEPT ![Reconciler] = Idle]
      \/ \E u : loc' = [loc EXCEPT ![Reconciler].user = u]
      \/ \E u : loc' = [loc EXCEPT ![Reconciler] = [Idle EXCEPT !.user = u]]
      \/ \E val : loc' = [loc EXCEPT ![Reconciler].val = val]
  BY DEF ReconcileBegin, ReconcileListed, GatherNext, GatherRead, MalformedDeleted,
     ReconcileSync, GcNext, ReconcileEnd, PassFails
<1>4. OthersStay(Reconciler) /\ pc'[Reconciler] \notin {"terminate", "dead", "wait"}
  BY <1>1, <1>2, <1>3, CallerFacts DEF OthersStay, Goto
<1>5. /\ loc'[Reconciler].op \in {loc[Reconciler].op, None}
      /\ loc'[Reconciler].res \in {loc[Reconciler].res, None}
  <2>1. Idle.op = None /\ Idle.res = None
    BY DEF Idle
  <2>2. \A u : [Idle EXCEPT !.user = u].op = None /\ [Idle EXCEPT !.user = u].res = None
    BY DEF Idle
  <2>3. loc \in [Callers -> Locals] /\ Reconciler \in Callers
    BY <1>1, CallerFacts
  <2>4. CASE loc' = loc \/ loc' = [loc EXCEPT ![Reconciler] = Idle]
    BY <2>1, <2>3, <2>4
  <2>5. CASE \E u : loc' = [loc EXCEPT ![Reconciler] = [Idle EXCEPT !.user = u]]
    BY <2>2, <2>3, <2>5
  <2>6. CASE \E u : loc' = [loc EXCEPT ![Reconciler].user = u]
    BY <2>3, <2>6 DEF Locals
  <2>7. CASE \E val : loc' = [loc EXCEPT ![Reconciler].val = val]
    BY <2>3, <2>7 DEF Locals
  <2> QED BY <1>3, <2>4, <2>5, <2>6, <2>7
<1> QED BY <1>1, <1>4, <1>5, MoveOrder

\* The reconciler queues to watch a spawn only if there is no operation.
LEMMA WatchNextOrder ==
    ASSUME IInv, OrderInv, WatchNext
    PROVE  OrderInv'
<1>1. /\ Reconciler \in Callers /\ running = Reconciler
      /\ running \notin Callers \ {Reconciler} /\ pc[Reconciler] = "watch"
      /\ pc[Reconciler] \notin LockPcs /\ UNCHANGED <<op, ops>>
  BY ReaperFacts DEF WatchNext, At, LockPcs
<1>2. CASE loc' = [loc EXCEPT ![Reconciler] = Idle] /\ Goto(Reconciler, "gc") /\ UNCHANGED lock
  <2>1. OthersStay(Reconciler) /\ pc'[Reconciler] = "gc"
    BY <1>1, <1>2, CallerFacts DEF OthersStay, Goto
  <2>2. loc'[Reconciler].op = None /\ loc'[Reconciler].res = None
    BY <1>1, <1>2, CallerFacts DEF Idle
  <2> QED BY <1>1, <1>2, <2>1, <2>2, MoveOrder
<1>3. CASE UNCHANGED <<pc, loc, lock>>
  BY <1>1, <1>3, MoveOrder DEF OthersStay
<1>4. ASSUME NEW u \in pass.todo, op[u] = None,
             loc' = [loc EXCEPT ![Reconciler].user = u, ![Reconciler].st = labState[u]],
             Goto(Reconciler, "monitor"), Acquire(Reconciler, u)
      PROVE  OrderInv'
  <2>1. OthersStay(Reconciler) /\ pc'[Reconciler] = "monitor"
    BY <1>1, <1>4, CallerFacts DEF OthersStay, Goto
  <2>2. PICK st : loc' = [loc EXCEPT ![Reconciler].user = u, ![Reconciler].st = st]
    BY <1>4
  <2>3. loc'[Reconciler].op = loc[Reconciler].op /\ loc'[Reconciler].res = loc[Reconciler].res
    BY <1>1, <2>2, CallerFacts DEF Locals
  <2>4. CallerOrder(Reconciler)' /\ ~Seeks(Reconciler)'
    BY <1>1, <2>1, <2>3, SameOps, CalmCaller DEF Seeks, Joins
  <2>5. u \in Users
    BY DEF IInv, TypeOK
  <2> QED BY <1>1, <1>4, <2>1, <2>4, <2>5, AcquireOrder
<1> QED BY <1>2, <1>3, <1>4 DEF WatchNext

\* monitor() for a pending pod.
LEMMA WatchMonitorOrder ==
    ASSUME IInv, OrderInv, WatchMonitor
    PROVE  OrderInv'
<1> DEFINE u == loc[Reconciler].user
<1>1. /\ Reconciler \in Callers /\ running = Reconciler /\ pc[Reconciler] \in LockPcs
      /\ Starts(Reconciler) /\ Goto(Reconciler, "watch")
      /\ loc' = [loc EXCEPT ![Reconciler] = Idle]
  BY ReaperFacts DEF WatchMonitor, At, LockPcs, Starts
<1>2. OthersStay(Reconciler) /\ pc'[Reconciler] = "watch"
  BY <1>1, CallerFacts DEF OthersStay, Goto
<1>3. loc'[Reconciler].op = None /\ loc'[Reconciler].res = None
  BY <1>1, CallerFacts DEF Idle
<1>4. CallerOrder(Reconciler)'
  BY <1>2, <1>3, ConstantsAssumption DEF CallerOrder
<1>5. CASE Conflict(u)
  <2>1. Release(u) /\ UNCHANGED <<op, ops>>
    BY <1>5 DEF WatchMonitor
  <2> QED BY <1>1, <1>2, <1>4, <2>1, SameOps, ReleaseOrder
<1>6. CASE ~Conflict(u)
  <2>1. PICK o \in FreeOps : StartOperation(o, u, "WATCH", loc[Reconciler].st, FALSE)
    BY <1>6 DEF WatchMonitor
  <2> QED BY <1>1, <1>2, <1>4, <1>6, <2>1, StartOrder DEF Conflict
<1> QED BY <1>5, <1>6

-----------------------------------------------------------------------------
(* The loop, the operations and the environment keep the order *)

\* Nobody is between a decision and the lock while the loop is idle or an
\* operation runs, so a task may be woken or take the loop.
LEMMA IdleOrder ==
    ASSUME IInv, OrderInv, running \notin Callers, UNCHANGED <<pc, loc, op, lock>>,
           KindsKept, CancelOrder'
    PROVE  OrderInv'
<1>1. Reaper \in Callers /\ Reconciler \in Callers /\ Reaper # Reconciler
  BY ReaperFacts
<1>2. OthersStay(Reaper) /\ OthersStay(Reconciler)
  BY DEF OthersStay
<1>3. \A c \in Callers : CallerOrder(c)'
  <2>1. \A c \in Callers \ {Reaper} : CallerOrder(c)'
    BY <1>2, OthersOrder
  <2>2. \A c \in Callers \ {Reconciler} : CallerOrder(c)'
    BY <1>2, OthersOrder
  <2> QED BY <1>1, <2>1, <2>2
<1>4. ASSUME NEW u \in Users PROVE QueueOrder(u)' /\ QueueKind(u)'
  <2>1. \A d \in Elems(lock'[u]) : Calmer(d, u)
    BY StillCalm
  <2> QED BY <2>1, SelfWithin, KeepQueue DEF OrderInv
<1> QED BY <1>3, <1>4 DEF OrderInv

\* Steps of the loop itself, of the cluster and of nobody.
LEMMA EnvOrder ==
    ASSUME IInv, OrderInv,
           \/ Dispatch \/ (\E c \in Callers : OtherReply(c))
           \/ (\E u \in Users : StrayLands(u) \/ PodStarts(u) \/ PodStops(u))
    PROVE  OrderInv'
<1>1. running = None /\ UNCHANGED <<pc, loc, op, lock, ops>>
  BY DEF Dispatch, OtherReply, CallerWaits, StrayLands, PodStarts, PodStops, loop
<1>2. running \notin Callers
  BY <1>1, ConstantsAssumption
<1> QED BY <1>1, <1>2, SameOps, IdleOrder

\* A stutter.
LEMMA StutterOrder ==
    ASSUME IInv, OrderInv, UNCHANGED vars
    PROVE  OrderInv'
<1>1. UNCHANGED <<running, pc, loc, op, lock, ops>>
  BY DEF vars, loop
<1> QED BY <1>1 DEF OrderInv, QueueOrder, QueueKind, CallerOrder, CancelOrder, Starts, Seeks,
           Joins, Cancels, Clears, IsSpawn

\* A request arrives, a caller's call to another service ends, or the timer of
\* the reconciler expires.
LEMMA ReplyOrder ==
    ASSUME IInv, OrderInv,
           \/ \E r \in Requests : Arrive(r) \/ PhaseReply(r)
           \/ ReconcilerReply \/ Timer
    PROVE  OrderInv'
<1>1. running = None /\ running \notin Callers /\ UNCHANGED <<op, lock, ops>>
  BY ConstantsAssumption DEF Arrive, PhaseReply, ReconcilerReply, Timer, CallerWaits
<1>2. Idle.op = None /\ Idle.res = None /\ Reconciler \in Callers
  BY ReaperFacts DEF Idle
<1>3. ASSUME NEW r \in Requests, Arrive(r) PROVE OrderInv'
  <2>1. r \in Callers /\ pc[r] \notin LockPcs
    BY <1>3 DEF Arrive, LockPcs, Callers
  <2>2. PICK u \in Users, m \in {"create", "delete"} :
           Goto(r, m) /\ loc' = [loc EXCEPT ![r] = [Idle EXCEPT !.user = u]]
    BY <1>3 DEF Arrive
  <2>3. OthersStay(r) /\ pc'[r] \in {"create", "delete"}
    BY <2>1, <2>2, CallerFacts DEF OthersStay, Goto
  <2>4. loc'[r].op = None /\ loc'[r].res = None
    BY <2>1, <2>2, CallerFacts DEF Idle
  <2> QED BY <1>1, <2>1, <2>3, <2>4, MoveOrder
<1>4. ASSUME NEW r \in Requests, PhaseReply(r) PROVE OrderInv'
  <2>1. /\ r \in Callers /\ pc[r] = "phase" /\ pc[r] \notin LockPcs /\ pc' = pc
        /\ \E val : loc' = [loc EXCEPT ![r].val = val]
    BY <1>4 DEF PhaseReply, CallerWaits, LockPcs, Callers
  <2>2. OthersStay(r)
    BY <2>1, CallerFacts DEF OthersStay
  <2>3. loc'[r].op = loc[r].op /\ loc'[r].res = loc[r].res
    BY <2>1, CallerFacts DEF Locals
  <2> QED BY <1>1, <2>1, <2>2, <2>3, MoveOrder
<1>5. ASSUME ReconcilerReply PROVE OrderInv'
  <2>1. /\ pc[Reconciler] \in {"list", "read", "malformed"} /\ pc' = pc
        /\ pc[Reconciler] \notin LockPcs
        /\ loc' = loc \/ \E val : loc' = [loc EXCEPT ![Reconciler].val = val]
    BY <1>5 DEF ReconcilerReply, CallerWaits, LockPcs
  <2>2. OthersStay(Reconciler)
    BY <1>2, <2>1, CallerFacts DEF OthersStay
  <2>3. loc'[Reconciler].op = loc[Reconciler].op /\ loc'[Reconciler].res = loc[Reconciler].res
    BY <1>2, <2>1, CallerFacts DEF Locals
  <2> QED BY <1>1, <1>2, <2>1, <2>2, <2>3, MoveOrder
<1>6. ASSUME Timer PROVE OrderInv'
  <2>1. /\ pc[Reconciler] \notin LockPcs /\ Goto(Reconciler, "begin") /\ loc' = loc
    BY <1>6 DEF Timer, LockPcs
  <2>2. OthersStay(Reconciler) /\ pc'[Reconciler] = "begin"
    BY <1>2, <2>1, CallerFacts DEF OthersStay, Goto
  <2> QED BY <1>1, <1>2, <2>1, <2>2, MoveOrder
<1> QED BY <1>3, <1>4, <1>5, <1>6

\* An operation keeps its kind, and is over as cancelled only if it was.
LEMMA OperationOrder ==
    ASSUME IInv, OrderInv, running \notin Callers, UNCHANGED <<pc, loc, op, lock>>,
           \A o \in OpIds : /\ ops'[o].kind = ops[o].kind
                            /\ ops'[o].cancel => ops[o].cancel
                            /\ ops'[o].result = "cancelled" =>
                                  ops[o].result = "cancelled" \/ ops[o].cancel
    PROVE  OrderInv'
<1>1. KindsKept /\ CancelOrder'
  BY DEF KindsKept, CancelOrder, IsSpawn, OrderInv
<1> QED BY <1>1, IdleOrder

\* A reply to an operation.
LEMMA OpReplyOrder ==
    ASSUME IInv, OrderInv, NEW o \in OpIds, OpReply(o)
    PROVE  OrderInv'
<1>1. /\ running \notin Callers /\ UNCHANGED <<pc, loc, op, lock>>
      /\ ops \in [OpIds -> Operations] /\ \E rep : ops' = [ops EXCEPT ![o].reply = rep]
  BY ConstantsAssumption DEF OpReply, Waiting, IInv, TypeOK
<1>2. \A p \in OpIds : /\ ops'[p].kind = ops[p].kind
                       /\ ops'[p].cancel = ops[p].cancel
                       /\ ops'[p].result = ops[p].result
  BY <1>1 DEF Operations
<1> QED BY <1>1, <1>2, OperationOrder

\* A step of an operation: only a cancelled one ends as cancelled.
LEMMA OpStepOrder ==
    ASSUME IInv, OrderInv, NEW o \in OpIds, OpStep(o)
    PROVE  OrderInv'
<1>1. /\ running = o /\ running \notin Callers /\ UNCHANGED <<pc, loc, op, lock>>
      /\ ops \in [OpIds -> Operations]
  BY OpStepForm, ConstantsAssumption DEF OpStep, IInv, TypeOK
<1>2. \/ \E l \in Awaits : OpAwait(o, l)
      \/ \E res \in {"ok", "raised"}, started \in BOOLEAN : OpFinish(o, res, started)
      \/ ops[o].cancel /\ \E started \in BOOLEAN : OpFinish(o, "cancelled", started)
  <2> USE DEF Awaits, Mutating
  <2>1. CASE OpStart(o)
    BY <2>1 DEF OpStart
  <2>2. CASE OpDelete(o)
    BY <2>2 DEF OpDelete
  <2>3. CASE OpCreate(o)
    BY <2>3 DEF OpCreate
  <2>4. CASE OpWatch(o)
    BY <2>4 DEF OpWatch
  <2>5. CASE OpPublish(o)
    BY <2>5 DEF OpPublish
  <2>6. CASE OpError(o)
    BY <2>6 DEF OpError
  <2>7. CASE OpCancelled(o)
    BY <2>7 DEF OpCancelled
  <2> QED BY <2>1, <2>2, <2>3, <2>4, <2>5, <2>6, <2>7 DEF OpStep
<1>3. ASSUME NEW l, OpAwait(o, l) PROVE OrderInv'
  <2>1. ops' = [ops EXCEPT ![o].pc = l, ![o].reply = None, ![o].cancel = FALSE]
    BY <1>3 DEF OpAwait
  <2>2. ASSUME NEW p \in OpIds
        PROVE  /\ ops'[p].kind = ops[p].kind /\ ops'[p].result = ops[p].result
               /\ ops'[p].cancel => ops[p].cancel
    BY <1>1, <2>1 DEF Operations
  <2> QED BY <1>1, <2>2, OperationOrder
<1>4. ASSUME NEW res \in {"ok", "raised", "cancelled"}, NEW started \in BOOLEAN,
             OpFinish(o, res, started), res = "cancelled" => ops[o].cancel
      PROVE  OrderInv'
  <2>1. PICK fin, a : /\ a = [IdleOp EXCEPT !.kind = ops[o].kind, !.result = res]
                      /\ fin = [ops EXCEPT ![o] = a]
    OBVIOUS
  <2>2. a.kind = ops[o].kind /\ a.result = res /\ a.cancel = FALSE
    BY <2>1 DEF IdleOp
  <2>3. PICK cur, e : ops' = fin \/ ops' = [fin EXCEPT ![cur].complete = TRUE, ![cur].waiters = e]
    BY <1>4, <2>1 DEF OpFinish
  <2>4. ASSUME NEW p \in OpIds
        PROVE  /\ ops'[p].kind = fin[p].kind /\ ops'[p].result = fin[p].result
               /\ ops'[p].cancel = fin[p].cancel
    <3>1. a \in Operations
      <4>1. PICK k \in Kinds : k = ops[o].kind
        BY <1>1 DEF Operations
      <4>0. IdleOp \in Operations
        BY DEF IdleOp, Operations, OpPcs, Kinds
      <4>2. PICK b \in Operations : b = [IdleOp EXCEPT !.kind = k]
        BY <4>0 DEF Operations
      <4>3. [b EXCEPT !.result = res] \in Operations
        BY DEF Operations
      <4> QED BY <2>1, <4>1, <4>2, <4>3
    <3>2. fin \in [OpIds -> Operations]
      BY <1>1, <2>1, <3>1
    <3>3. PICK g : g = [fin EXCEPT ![cur].complete = TRUE]
      OBVIOUS
    <3>4. PICK x \in Operations : x = fin[p]
      BY <3>2
    <3>5. PICK y \in Operations : y = [x EXCEPT !.complete = TRUE]
      BY DEF Operations
    <3>6. PICK z : z = [y EXCEPT !.waiters = e]
      OBVIOUS
    <3>7. /\ y.kind = x.kind /\ y.result = x.result /\ y.cancel = x.cancel
          /\ z.kind = y.kind /\ z.result = y.result /\ z.cancel = y.cancel
      BY <3>5, <3>6 DEF Operations
    <3>8. [x EXCEPT !.waiters = e].kind = x.kind /\ [x EXCEPT !.waiters = e].result = x.result
          /\ [x EXCEPT !.waiters = e].cancel = x.cancel
      BY DEF Operations
    <3>9. g[p] \in {x, y}
      BY <3>2, <3>3, <3>4, <3>5
    <3>10. ops' = fin \/ ops' = [g EXCEPT ![cur].waiters = e]
      BY <2>3, <3>3
    <3>11. DOMAIN g = OpIds
      BY <3>2, <3>3
    <3>12. ops'[p] \in {x, y, z, [x EXCEPT !.waiters = e]}
      BY <3>4, <3>6, <3>9, <3>10, <3>11
    <3> QED BY <3>4, <3>7, <3>8, <3>12
  <2>5. fin[o] = a /\ \A p \in OpIds \ {o} : fin[p] = ops[p]
    BY <1>1, <2>1
  <2> QED BY <1>1, <1>4, <2>2, <2>4, <2>5, OperationOrder
<1> QED BY <1>2, <1>3, <1>4

\* Nobody queues in a new process, and there is no operation.
FreshLocals == \A c \in Callers : loc[c].res # "cancelled" /\ loc[c].op \in OpIds \cup {None}

LEMMA FreshOrder == Fresh /\ FreshLocals => OrderInv
<1> SUFFICES ASSUME Fresh, FreshLocals PROVE OrderInv
  OBVIOUS
<1>1. /\ \A u \in Users : lock[u] = <<>> /\ op[u] = None
      /\ \A o \in OpIds : /\ ops[o].kind = "DELETE" /\ ~IsSpawn(o)
                          /\ ~ops[o].cancel /\ ops[o].result = "ok"
  BY DEF Fresh, NoLocks, NoLabs, NoOps, IdleOp, IsSpawn
<1>2. \A u \in Users : QueueOrder(u) /\ QueueKind(u)
  BY <1>1, EmptyElems DEF QueueOrder, QueueKind
<1>3. CancelOrder
  BY <1>1 DEF CancelOrder
<1>4. \A c \in Callers : CallerOrder(c)
  BY <1>1 DEF CallerOrder, Fresh, FreshLocals
<1> QED BY <1>2, <1>3, <1>4 DEF OrderInv

\* The initial states are in order.
LEMMA InitOrder == Init => OrderInv
<1> SUFFICES ASSUME Init PROVE OrderInv
  OBVIOUS
<1>1. Fresh
  BY ReaperFacts DEF Init, Fresh, BootPc
<1>2. FreshLocals
  BY ConstantsAssumption DEF Init, Idle, FreshLocals
<1> QED BY <1>1, <1>2, FreshOrder

\* So are those after a restart.
LEMMA RestartOrder ==
    ASSUME IInv, OrderInv, Restart
    PROVE  OrderInv'
<1>1. Fresh'
  <2>1. /\ \A c \in Callers : pc'[c] \in {"begin", "asleep", "idle", "over"}
        /\ pc'[Reconciler] = "begin" /\ pc'[Reaper] = "asleep"
    BY ReaperFacts DEF Restart, BootPc
  <2> QED BY <2>1 DEF Restart, Fresh
<1>2. FreshLocals'
  <2>1. /\ Idle.op = None /\ Idle.res # "cancelled"
        /\ [Idle EXCEPT !.res = "lost"].op = None /\ [Idle EXCEPT !.res = "lost"].res = "lost"
    BY ConstantsAssumption DEF Idle
  <2>2. \A c \in Callers : loc'[c] \in {loc[c], Idle, [Idle EXCEPT !.res = "lost"]}
    BY DEF Restart
  <2>3. \A c \in Callers : loc[c].res # "cancelled" /\ loc[c].op \in OpIds \cup {None}
    BY CallerFacts DEF OrderInv, CallerOrder, Locals
  <2> QED BY <2>1, <2>2, <2>3 DEF FreshLocals
<1> QED BY <1>1, <1>2, FreshOrder, PTL

-----------------------------------------------------------------------------
(* The theorems about the order *)

\* Every step keeps the order: one lemma per action, above.
LEMMA StepOrder ==
    ASSUME IInv, OrderInv, [Next]_vars
    PROVE  OrderInv'
<1>1. ASSUME NEW r \in Requests, CreateStep(r) PROVE OrderInv'
  BY <1>1, CreateOrder, CreateCheckOrder, CreateSpawnOrder DEF CreateStep
<1>2. ASSUME NEW c \in Requests \cup {Reconciler}, DeleteStep(c) PROVE OrderInv'
  <2>1. c \in Callers
    BY ReaperFacts DEF Callers
  <2> QED BY <1>2, <2>1, DeleteBeginOrder, CancelOrderStep, CancelledOrder,
             DeleteTerminateOrder, DeleteMonitorOrder, DeleteEndOrder DEF DeleteStep
<1>3. ASSUME NEW c \in Callers, WaitStep(c) PROVE OrderInv'
  BY <1>3, WaitBeginOrder, WaitCaptureOrder, WaitCompleteOrder, WaitCollectOrder DEF WaitStep
<1>4. ASSUME ReconcileStep PROVE OrderInv'
  BY <1>4, ReconcileMoveOrder, WatchNextOrder, WatchMonitorOrder DEF ReconcileStep
<1>5. ASSUME LoopStep PROVE OrderInv'
  BY <1>1, <1>2, <1>3, <1>4, <1>5, EnvOrder, OpStepOrder, ReapOrder DEF LoopStep
<1>6. ASSUME NEW c \in Callers, CallerReply(c) PROVE OrderInv'
  BY <1>6, ReplyOrder, EnvOrder DEF CallerReply
<1>7. ASSUME StartupFails \/ Crash PROVE OrderInv'
  BY <1>7, RestartOrder DEF StartupFails, Crash
<1>8. ASSUME \/ \E r \in Requests : Arrive(r)
             \/ \E u \in Users : StrayLands(u) \/ PodStarts(u) \/ PodStops(u)
      PROVE  OrderInv'
  BY <1>8, ReplyOrder, EnvOrder
<1> QED BY <1>5, <1>6, <1>7, <1>8, OpReplyOrder, StutterOrder DEF Next

\* However callers interleave, those queueing for a user's lock stay in an order
\* in which nobody meets an operation of a kind it did not expect.
THEOREM OrderInvariant == Spec => []OrderInv
<1>1. IInv /\ OrderInv /\ [Next]_vars => OrderInv'
  BY StepOrder
<1> QED BY <1>1, InitOrder, Invariant, PTL DEF Spec

\* cancel() cancels whatever operation it finds once it has the lock, and yet it
\* never aborts a delete, which would leave a half-deleted lab behind.
THEOREM DeleteIsNeverCancelled == Spec => []DeleteNeverCancelled
<1>1. OrderInv => DeleteNeverCancelled
  BY DEF OrderInv, CancelOrder, DeleteNeverCancelled
<1> QED BY <1>1, OrderInvariant, PTL

\* wait() awaits the operation's task, which raises CancelledError if it was
\* cancelled; no caller of delete_lab ever gets it, and the reconcile loop
\* survives.
THEOREM CancellationIsContained == Spec => []CancellationContained
<1>1. OrderInv => CancellationContained
  BY ReaperFacts DEF OrderInv, CallerOrder, CancellationContained
<1> QED BY <1>1, OrderInvariant, PTL

-----------------------------------------------------------------------------
(* What a step does to the loop, the locks and the operations *)

\* Program points at which a caller neither holds a lock nor waits for an
\* operation.
Quiet(l) == l \notin LockPcs \cup {"wait", "complete", "deleted"}

\* A caller keeps its user and its reference to an operation.
SameRefs(c) == loc'[c].user = loc[c].user /\ loc'[c].op = loc[c].op

\* Nothing happens to them.
Rests == UNCHANGED <<running, ready, pc, loc, op, lock, ops>>

\* The process starts again: no operation, no lock, no task but the reconciler's.
Resets ==
    /\ running' = None /\ ready' = <<Reconciler>>
    /\ op' = NoLabs /\ lock' = NoLocks /\ ops' = NoOps
    /\ \A c \in Callers : /\ pc'[c] \in {"begin", "asleep", "idle", "over"}
                          /\ \/ loc'[c].op = None
                             \/ loc'[c].op = loc[c].op /\ pc[c] \in {"idle", "over"}

\* The loop takes the next task.
Takes ==
    /\ running = None /\ ready # <<>>
    /\ running' = Head(ready) /\ ready' = Tail(ready)
    /\ UNCHANGED <<pc, loc, op, lock, ops>>

\* A caller's call to another service ends.
Wakes(c) ==
    /\ running = None /\ running' = None
    /\ c \notin Elems(ready) /\ ready' = Append(ready, c)
    /\ OthersStay(c) /\ UNCHANGED <<op, lock, ops>>
    /\ \/ pc[c] \in {"cancelReport", "waitReport"} /\ pc'[c] = pc[c] /\ SameRefs(c)
       \/ Quiet(pc[c]) /\ Quiet(pc'[c]) /\ loc'[c].op \in {loc[c].op, None}

\* A caller goes on, or suspends, without a lock.
Walks(c) ==
    /\ running = c /\ running' \in {c, None}
    /\ OthersStay(c) /\ UNCHANGED <<op, lock, ops>>
    /\ \/ ready' = ready
       \/ /\ c # Reaper /\ pc[Reaper] = "asleep" /\ Reaper \notin Elems(ready)
          /\ ready' = Append(ready, Reaper)
    /\ Quiet(pc[c]) \/ pc[c] = "deleted"
    /\ \/ Quiet(pc'[c])
       \/ /\ pc'[c] = "wait" /\ running' = c
          /\ c = Reaper => op[loc'[c].user] # None /\ ~Live(op[loc'[c].user])
    /\ loc'[c].op \in {loc[c].op, None}

\* It asks for the lock.
Asks(c) ==
    /\ running = c /\ OthersStay(c) /\ UNCHANGED <<op, ops>>
    /\ pc[c] \notin LockPcs
    /\ loc'[c].user \in Users /\ Acquire(c, loc'[c].user)
    /\ loc'[c].op = loc[c].op
    /\ \/ Starts(c)' /\ op[loc'[c].user] = None /\ Quiet(pc[c])
       \/ pc'[c] = "cancel" /\ Quiet(pc[c])
       \/ pc'[c] = "capture" /\ pc[c] = "wait" /\ SameRefs(c)
       \/ pc'[c] = "collect" /\ pc[c] = "complete" /\ SameRefs(c)

\* It releases the lock and changes no operation.
Lets(c) ==
    /\ running = c /\ running' \in {c, None} /\ pc[c] \in LockPcs
    /\ OthersStay(c) /\ Release(loc[c].user)
    /\ ready' = ready \o Granted(loc[c].user)

\* It leaves with no reference, or with none to the user's operation.
Leaves(c) ==
    /\ Lets(c) /\ UNCHANGED <<op, ops>>
    /\ \/ /\ Quiet(pc'[c])
          /\ \/ loc'[c].op = None
             \/ loc'[c].op = loc[c].op /\ (c = Reaper \/ pc[c] \notin {"collect", "waitReport"})
       \/ /\ pc[c] \in {"collect", "waitReport"} /\ op[loc[c].user] # loc[c].op
          /\ c # Reaper /\ pc'[c] = "deleted" /\ running' = c
          /\ loc'[c].op = None /\ loc'[c].user = loc[c].user

\* It releases the lock and clears an operation that is over.
Collects(c) ==
    LET u == loc[c].user IN
    /\ Lets(c) /\ ops' = ops
    /\ op[u] # None /\ ~Live(op[u]) /\ op' = [op EXCEPT ![u] = None]
    /\ \/ Quiet(pc'[c]) /\ pc[c] \in {"cancelled", "cancelReport"} /\ loc'[c].op = loc[c].op
       \/ /\ pc[c] \in {"collect", "waitReport"} /\ loc[c].op = op[u]
          /\ loc'[c].op = None /\ loc'[c].user = loc[c].user
          /\ \/ c = Reaper /\ Quiet(pc'[c])
             \/ c # Reaper /\ pc'[c] = "deleted" /\ running' = c

\* It releases the lock and starts an operation.
Begins(c) ==
    LET u == loc[c].user IN
    /\ running = c /\ running' \in {c, None} /\ c # Reaper /\ Starts(c) /\ OthersStay(c)
    /\ op[u] = None
    /\ \E o \in FreeOps, kind \in Kinds, st \in StateIds \cup {None}, first \in BOOLEAN :
          StartOperation(o, u, kind, st, first)
    /\ loc'[c].op \in {loc[c].op, None}
    /\ Quiet(pc'[c]) \/ pc'[c] = "wait"

\* It releases the lock with a reference to the operation it will wait for.
Captures(c) == WaitCapture(c) /\ op[loc[c].user] # None

\* It keeps the lock: to wait for the task it cancels, or to report what the
\* task raised.
Hits(c) == Cancel(c) /\ op[loc[c].user] # None /\ Live(op[loc[c].user])

\* It finds the task over, or has an exception to report.
Keeps(c) ==
    LET o == op[loc[c].user] IN
    /\ running = c /\ OthersStay(c) /\ UNCHANGED <<ready, loc, op, lock, ops>>
    /\ \/ pc[c] = "cancel" /\ pc'[c] = "cancelled" /\ running' = c /\ o # None /\ ~Live(o)
       \/ pc[c] = "cancelled" /\ pc'[c] = "cancelReport" /\ running' = None /\ o # None /\ ~Live(o)
       \/ /\ pc[c] = "collect" /\ pc'[c] = "waitReport" /\ running' = None
          /\ ops[loc[c].op].result = "raised"

\* Every step of a caller has one of these effects,
CallerEffect(c) == \/ Wakes(c) \/ Walks(c) \/ Asks(c) \/ Leaves(c) \/ Collects(c)
                   \/ Begins(c) \/ Captures(c) \/ Hits(c) \/ Keeps(c)

\* and every step of the system one of these.
StepEffect ==
    \/ Rests \/ Resets \/ Takes
    \/ \E c \in Callers : CallerEffect(c)
    \/ \E o \in OpIds : OpReply(o) \/ OpStep(o)

-----------------------------------------------------------------------------
(* Every step is one of these *)

\* How a method ends.
LEMMA ReturnEffect ==
    ASSUME IInv, NEW c \in Callers, NEW res, Return(c, res), running = c
    PROVE  /\ OthersStay(c) /\ Quiet(pc'[c]) /\ running' \in {c, None}
           /\ loc'[c].op = None
<1>1. /\ pc'[c] \in {"over", "gc", "dead", "timer", "bootFailed"} /\ running' \in {c, None}
      /\ loc'[c] = [Idle EXCEPT !.res = res] /\ OthersStay(c)
  BY CallerFacts DEF Return, Goto, OthersStay
<1>2. loc'[c].op = None
  BY <1>1 DEF Idle
<1> QED BY <1>1, <1>2 DEF Quiet, LockPcs

\* create_lab.
LEMMA CreateEffect ==
    ASSUME IInv, NEW r \in Requests, CreateStep(r)
    PROVE  CallerEffect(r)
<1>1. /\ r \in Callers /\ r # Reaper /\ running = r
      /\ loc \in [Callers -> Locals] /\ pc \in [Callers -> CallerPcs]
  BY RequestFacts, ReaperFacts DEF CreateStep, CreateBegin, CreateImage, CreatePhase, CreatePhaseReported,
     CreateCheck, CreateSpawn, At
<1>2. ASSUME CreateBegin(r) \/ CreateImage(r) \/ CreatePhase(r) \/ CreatePhaseReported(r)
      PROVE  Walks(r)
  <2>1. Quiet(pc[r]) /\ ready' = ready /\ UNCHANGED <<op, lock, ops>>
    BY <1>2 DEF CreateBegin, CreateImage, CreatePhase, CreatePhaseReported, At, Quiet, LockPcs,
       Suspend, Continue, loop
  <2>2. \/ \E res : Return(r, res)
        \/ /\ \E l \in {"image", "phase", "phaseReport", "check"} : Goto(r, l)
           /\ running' \in {r, None}
           /\ \/ loc' = loc
              \/ \E st : loc' = [loc EXCEPT ![r].st = st]
              \/ \E val : loc' = [loc EXCEPT ![r].val = val]
    BY <1>1, <1>2 DEF CreateBegin, CreateImage, CreatePhase, CreatePhaseReported, Suspend, Continue, loop
  <2>3. CASE \E res : Return(r, res)
    BY <1>1, <2>1, <2>3, ReturnEffect DEF Walks
  <2>4. CASE /\ \E l \in {"image", "phase", "phaseReport", "check"} : Goto(r, l)
             /\ running' \in {r, None}
             /\ \/ loc' = loc
                \/ \E st : loc' = [loc EXCEPT ![r].st = st]
                \/ \E val : loc' = [loc EXCEPT ![r].val = val]
    <3>1. OthersStay(r) /\ pc'[r] \in {"image", "phase", "phaseReport", "check"}
      BY <1>1, <2>4 DEF OthersStay, Goto
    <3>2. loc'[r].op = loc[r].op
      BY <1>1, <2>4 DEF Locals
    <3> QED BY <1>1, <2>1, <2>4, <3>1, <3>2 DEF Walks, Quiet, LockPcs
  <2> QED BY <2>2, <2>3, <2>4
<1>3. ASSUME CreateCheck(r) PROVE Walks(r) \/ Asks(r)
  <2>1. pc[r] = "check" /\ Quiet(pc[r]) /\ UNCHANGED <<op, ops>> /\ loc[r].user \in Users
    BY <1>3, RequestFacts DEF CreateCheck, At, Quiet, LockPcs, UserPcs
  <2>2. ASSUME NEW res, Return(r, res), UNCHANGED <<ready, lock>> PROVE Walks(r)
    BY <1>1, <2>1, <2>2, ReturnEffect DEF Walks
  <2>3. ASSUME op[loc[r].user] = None, NEW first,
               loc' = [loc EXCEPT ![r].st = None, ![r].first = first],
               Goto(r, "spawn"), Acquire(r, loc[r].user)
        PROVE  Asks(r)
    <3>1. OthersStay(r) /\ pc'[r] = "spawn"
      BY <1>1, <2>3 DEF OthersStay, Goto
    <3>2. loc'[r].op = loc[r].op /\ loc'[r].user = loc[r].user
      BY <1>1, <2>3 DEF Locals
    <3> QED BY <1>1, <2>1, <2>3, <3>1, <3>2 DEF Asks, Starts, LockPcs
  <2> QED BY <1>3, <2>2, <2>3 DEF CreateCheck
<1>4. ASSUME CreateSpawn(r) PROVE Leaves(r) \/ Begins(r)
  <2>1. pc[r] = "spawn" /\ pc[r] \in LockPcs /\ Starts(r) /\ loc[r].first \in BOOLEAN
    BY <1>1, <1>4 DEF CreateSpawn, At, LockPcs, Starts, Locals
  <2>2. CASE Conflict(loc[r].user)
    <3>1. /\ Return(r, "conflict") /\ Release(loc[r].user)
          /\ ready' = ready \o Granted(loc[r].user) /\ UNCHANGED <<op, ops>>
      BY <1>4, <2>2 DEF CreateSpawn
    <3> QED BY <1>1, <2>1, <3>1, ReturnEffect DEF Leaves, Lets
  <2>3. CASE ~Conflict(loc[r].user)
    <3>1. PICK o \in FreeOps, s \in FreeStates :
             /\ StartOperation(o, loc[r].user, "SPAWN", s, loc[r].first)
             /\ Return(r, "ok")
      BY <1>4, <2>3 DEF CreateSpawn
    <3>2. s \in StateIds \cup {None} /\ "SPAWN" \in Kinds
      BY DEF FreeStates, Kinds
    <3> QED BY <1>1, <2>1, <2>3, <3>1, <3>2, ReturnEffect DEF Begins, Conflict
  <2> QED BY <2>2, <2>3
<1> QED BY <1>2, <1>3, <1>4 DEF CreateStep, CallerEffect

\* delete_lab and cancel.
LEMMA DeleteEffect ==
    ASSUME IInv, OrderInv, NEW c \in Callers \ {Reaper}, DeleteStep(c)
    PROVE  CallerEffect(c)
<1> DEFINE u == loc[c].user
<1>1. loc \in [Callers -> Locals] /\ pc \in [Callers -> CallerPcs] /\ running = c
  BY CallerFacts DEF DeleteStep, DeleteBegin, Cancel, Cancelled, DeleteTerminate, DeleteMonitor, DeleteEnd, At
<1>2. ASSUME NEW l, Goto(c, l) PROVE pc'[c] = l /\ \A d \in Callers \ {c} : pc'[d] = pc[d]
  BY <1>1, <1>2 DEF Goto
<1>3. ASSUME DeleteBegin(c) PROVE Walks(c) \/ Asks(c)
  <2>1. /\ pc[c] = "delete" /\ Quiet(pc[c]) /\ pc[c] \notin LockPcs
        /\ UNCHANGED <<op, ops>> /\ u \in Users
    BY <1>3, CallerFacts DEF DeleteBegin, At, Quiet, LockPcs, UserPcs
  <2>2. CASE Return(c, "unknown") /\ UNCHANGED <<ready, lock>>
    BY <1>1, <2>1, <2>2, ReturnEffect DEF Walks
  <2>3. CASE Goto(c, "terminate") /\ Continue /\ UNCHANGED <<loc, lock>>
    <3>1. OthersStay(c) /\ pc'[c] = "terminate" /\ running' = c /\ ready' = ready
      BY <1>1, <1>2, <2>3 DEF OthersStay, Continue, loop
    <3> QED BY <1>1, <2>1, <2>3, <3>1 DEF Walks, Quiet, LockPcs
  <2>4. CASE Goto(c, "cancel") /\ Acquire(c, u) /\ UNCHANGED loc
    <3>1. OthersStay(c) /\ pc'[c] = "cancel"
      BY <1>1, <1>2, <2>4 DEF OthersStay
    <3> QED BY <1>1, <2>1, <2>4, <3>1 DEF Asks
  <2>5. CASE loc' = [loc EXCEPT ![c].role = "joiner"] /\ Goto(c, "wait") /\ Continue /\ UNCHANGED lock
    <3>1. OthersStay(c) /\ pc'[c] = "wait" /\ running' = c /\ ready' = ready
      BY <1>1, <1>2, <2>5 DEF OthersStay, Continue, loop
    <3>2. loc'[c].op = loc[c].op
      BY <1>1, <2>5 DEF Locals
    <3> QED BY <1>1, <2>1, <2>5, <3>1, <3>2 DEF Walks
  <2> QED BY <1>3, <2>2, <2>3, <2>4, <2>5 DEF DeleteBegin
<1>4. ASSUME DeleteTerminate(c) PROVE Walks(c) \/ Asks(c)
  <2>1. /\ pc[c] = "terminate" /\ Quiet(pc[c]) /\ pc[c] \notin LockPcs
        /\ UNCHANGED <<op, ops>> /\ u \in Users /\ op[u] = None
    BY <1>4, CallerFacts DEF DeleteTerminate, At, Quiet, LockPcs, UserPcs, OrderInv, CallerOrder
  <2>2. CASE Return(c, "unknown") /\ UNCHANGED <<ready, lock, status>>
    BY <1>1, <2>1, <2>2, ReturnEffect DEF Walks
  <2>3. CASE /\ \E st : loc' = [loc EXCEPT ![c].st = st, ![c].role = "owner"]
             /\ Goto(c, "remove") /\ Acquire(c, u)
    <3>1. OthersStay(c) /\ pc'[c] = "remove"
      BY <1>1, <1>2, <2>3 DEF OthersStay
    <3>2. loc'[c].op = loc[c].op /\ loc'[c].user = u
      BY <1>1, <2>3 DEF Locals
    <3> QED BY <1>1, <2>1, <2>3, <3>1, <3>2 DEF Asks, Starts
  <2> QED BY <1>4, <2>2, <2>3 DEF DeleteTerminate
<1>5. ASSUME DeleteMonitor(c) PROVE Leaves(c) \/ Begins(c)
  <2>1. pc[c] = "remove" /\ pc[c] \in LockPcs /\ Starts(c) /\ loc[c].st \in StateIds \cup {None}
    BY <1>1, <1>5 DEF DeleteMonitor, At, LockPcs, Starts, Locals
  <2>2. CASE Conflict(u)
    <3>1. /\ Return(c, "conflict") /\ Release(u)
          /\ ready' = ready \o Granted(u) /\ UNCHANGED <<op, ops>>
      BY <1>5, <2>2 DEF DeleteMonitor
    <3> QED BY <1>1, <2>1, <3>1, ReturnEffect DEF Leaves, Lets
  <2>3. CASE ~Conflict(u)
    <3>1. PICK o \in FreeOps : /\ StartOperation(o, u, "DELETE", loc[c].st, FALSE)
                               /\ loc' = [loc EXCEPT ![c].st = None]
                               /\ Goto(c, "wait") /\ UNCHANGED running
      BY <1>5, <2>3 DEF DeleteMonitor
    <3>2. OthersStay(c) /\ pc'[c] = "wait" /\ running' = c
      BY <1>1, <1>2, <3>1 DEF OthersStay
    <3>3. loc'[c].op = loc[c].op
      BY <1>1, <3>1 DEF Locals
    <3>4. "DELETE" \in Kinds
      BY DEF Kinds
    <3> QED BY <1>1, <2>1, <2>3, <3>1, <3>2, <3>3, <3>4 DEF Begins, Conflict
  <2> QED BY <2>2, <2>3
<1>6. ASSUME DeleteEnd(c) PROVE Walks(c)
  <2>1. pc[c] = "deleted" /\ UNCHANGED <<ready, op, lock, ops>> /\ \E res : Return(c, res)
    BY <1>6 DEF DeleteEnd, At
  <2> QED BY <1>1, <2>1, ReturnEffect DEF Walks
<1>7. ASSUME Cancel(c) PROVE Leaves(c) \/ Hits(c) \/ Keeps(c)
  <2>1. pc[c] = "cancel" /\ pc[c] \in LockPcs /\ UNCHANGED <<loc, op>>
    BY <1>7 DEF Cancel, At, LockPcs
  <2>2. CASE op[u] = None
    <3>1. Goto(c, "terminate") /\ Release(u) /\ ready' = ready \o Granted(u) /\ UNCHANGED <<running, ops>>
      BY <1>7, <2>2 DEF Cancel
    <3>2. OthersStay(c) /\ pc'[c] = "terminate"
      BY <1>2, <2>1, <3>1 DEF OthersStay
    <3> QED BY <1>1, <2>1, <3>1, <3>2 DEF Leaves, Lets, Quiet, LockPcs
  <2>3. CASE op[u] # None /\ ~Live(op[u])
    <3>1. Goto(c, "cancelled") /\ Continue /\ UNCHANGED <<lock, ops>>
      BY <1>7, <2>3 DEF Cancel
    <3>2. OthersStay(c) /\ pc'[c] = "cancelled"
      BY <1>2, <2>1, <3>1 DEF OthersStay
    <3> QED BY <1>1, <2>1, <2>3, <3>1, <3>2 DEF Keeps, Continue, loop
  <2> QED BY <1>7, <2>2, <2>3 DEF Hits
<1>8. ASSUME Cancelled(c) PROVE Collects(c) \/ Keeps(c)
  <2>1. /\ pc[c] \in {"cancelled", "cancelReport"} /\ pc[c] \in LockPcs /\ UNCHANGED <<loc, ops>>
        /\ op[u] # None /\ ~Live(op[u])
    BY <1>1, <1>8 DEF Cancelled, At, LockPcs, IInv, OpInv, Active
  <2>2. CASE pc[c] = "cancelled" /\ Goto(c, "cancelReport") /\ Suspend /\ UNCHANGED <<op, lock>>
    <3>1. OthersStay(c) /\ pc'[c] = "cancelReport"
      BY <1>2, <2>1, <2>2 DEF OthersStay
    <3> QED BY <1>1, <2>1, <2>2, <3>1 DEF Keeps, Suspend
  <2>3. CASE /\ op' = [op EXCEPT ![u] = None] /\ Release(u) /\ ready' = ready \o Granted(u)
             /\ Goto(c, "terminate") /\ UNCHANGED running
    <3>1. OthersStay(c) /\ pc'[c] = "terminate"
      BY <1>2, <2>1, <2>3 DEF OthersStay
    <3> QED BY <1>1, <2>1, <2>3, <3>1 DEF Collects, Lets, Quiet, LockPcs
  <2> QED BY <1>8, <2>2, <2>3 DEF Cancelled
<1> QED BY <1>3, <1>4, <1>5, <1>6, <1>7, <1>8 DEF DeleteStep, CallerEffect

\* wait.
LEMMA WaitEffect ==
    ASSUME IInv, OrderInv, NEW c \in Callers, WaitStep(c)
    PROVE  CallerEffect(c)
<1> DEFINE u == loc[c].user
<1>1. loc \in [Callers -> Locals] /\ pc \in [Callers -> CallerPcs] /\ running = c
  BY CallerFacts DEF WaitStep, WaitBegin, WaitCapture, WaitComplete, WaitCollect, At
<1>2. ASSUME NEW l, Goto(c, l) PROVE pc'[c] = l /\ \A d \in Callers \ {c} : pc'[d] = pc[d]
  BY <1>1, <1>2 DEF Goto
<1>3. ASSUME WaitBegin(c) \/ WaitComplete(c) PROVE Asks(c)
  <2>1. /\ UNCHANGED <<loc, op, ops>> /\ Acquire(c, u)
        /\ \/ pc[c] = "wait" /\ Goto(c, "capture")
           \/ pc[c] = "complete" /\ Goto(c, "collect")
    BY <1>3 DEF WaitBegin, WaitComplete, At
  <2>2. u \in Users /\ pc[c] \notin LockPcs /\ SameRefs(c)
    BY <2>1, CallerFacts DEF UserPcs, LockPcs, SameRefs
  <2>3. OthersStay(c)
    BY <1>2, <2>1 DEF OthersStay
  <2> QED BY <1>1, <1>2, <2>1, <2>2, <2>3 DEF Asks
<1>4. ASSUME WaitCapture(c) PROVE Leaves(c) \/ Captures(c)
  <2>1. /\ pc[c] = "capture" /\ pc[c] \in LockPcs /\ op' = op /\ Release(u)
        /\ ready' = ready \o Granted(u)
    BY <1>4 DEF WaitCapture, At, LockPcs
  <2>2. CASE op[u] = None
    <3>1. CASE Goto(c, "sweep") /\ UNCHANGED <<running, loc>> /\ UNCHANGED ops
      <4>1. OthersStay(c) /\ pc'[c] = "sweep"
        BY <1>2, <3>1 DEF OthersStay
      <4> QED BY <1>1, <2>1, <3>1, <4>1 DEF Leaves, Lets, Quiet, LockPcs
    <3>2. CASE Return(c, "noOperation") /\ UNCHANGED ops
      BY <1>1, <2>1, <3>2, ReturnEffect DEF Leaves, Lets
    <3> QED BY <1>4, <2>2, <3>1, <3>2 DEF WaitCapture
  <2> QED BY <1>4, <2>2 DEF Captures
<1>5. ASSUME WaitCollect(c) PROVE Leaves(c) \/ Collects(c) \/ Keeps(c)
  <2>1. /\ pc[c] \in {"collect", "waitReport"} /\ pc[c] \in LockPcs /\ ops' = ops
        /\ loc[c].op # None /\ ~Live(loc[c].op)
    BY <1>1, <1>5 DEF WaitCollect, At, LockPcs, IInv, OpInv
  <2>2. CASE /\ pc[c] = "collect" /\ ops[loc[c].op].result = "raised"
             /\ Goto(c, "waitReport") /\ Suspend /\ UNCHANGED <<loc, op, lock, touched>>
    <3>1. OthersStay(c) /\ pc'[c] = "waitReport"
      BY <1>2, <2>2 DEF OthersStay
    <3> QED BY <1>1, <2>1, <2>2, <3>1 DEF Keeps, Suspend
  <2>3. CASE /\ ops[loc[c].op].result = "cancelled" /\ Release(u) /\ ready' = ready \o Granted(u)
             /\ op' = op
             /\ IF c = Reaper THEN Goto(c, "dead") /\ running' = None /\ UNCHANGED loc
                ELSE Return(c, "cancelled")
    <3>1. CASE c = Reaper
      <4>1. OthersStay(c) /\ pc'[c] = "dead" /\ loc'[c].op = loc[c].op /\ running' = None
        BY <1>2, <2>3, <3>1 DEF OthersStay
      <4> QED BY <1>1, <2>1, <2>3, <3>1, <4>1 DEF Leaves, Lets, Quiet, LockPcs
    <3>2. CASE c # Reaper
      <4>1. Return(c, "cancelled")
        BY <2>3, <3>2
      <4> QED BY <1>1, <2>1, <2>3, <4>1, ReturnEffect DEF Leaves, Lets
    <3> QED BY <3>1, <3>2
  <2>4. CASE /\ op' = IF op[u] = loc[c].op THEN [op EXCEPT ![u] = None] ELSE op
             /\ Release(u) /\ ready' = ready \o Granted(u)
             /\ loc' = [loc EXCEPT ![c].op = None]
             /\ Goto(c, IF c = Reaper THEN "sweep" ELSE "deleted") /\ UNCHANGED running
    <3>1. OthersStay(c) /\ pc'[c] = IF c = Reaper THEN "sweep" ELSE "deleted"
      BY <1>1, <1>2, <2>4 DEF OthersStay
    <3>2. loc'[c].op = None /\ loc'[c].user = u
      BY <1>1, <2>4 DEF Locals
    <3>3. Quiet("sweep")
      BY DEF Quiet, LockPcs
    <3>4. Lets(c)
      BY <1>1, <2>1, <2>4, <3>1 DEF Lets
    <3>5. CASE op[u] = loc[c].op
      <4>1. op' = [op EXCEPT ![u] = None] /\ op[u] # None /\ ~Live(op[u])
        BY <2>1, <2>4, <3>5
      <4>2. CASE c = Reaper
        BY <1>1, <2>1, <2>4, <3>1, <3>2, <3>3, <3>4, <3>5, <4>1, <4>2 DEF Collects
      <4>3. CASE c # Reaper
        BY <1>1, <2>1, <2>4, <3>1, <3>2, <3>4, <3>5, <4>1, <4>3 DEF Collects
      <4> QED BY <4>2, <4>3
    <3>6. CASE op[u] # loc[c].op
      <4>1. CASE c = Reaper
        BY <1>1, <2>1, <2>4, <3>1, <3>2, <3>3, <3>4, <3>6, <4>1 DEF Leaves
      <4>2. CASE c # Reaper
        BY <1>1, <2>1, <2>4, <3>1, <3>2, <3>4, <3>6, <4>2 DEF Leaves
      <4> QED BY <4>1, <4>2
    <3> QED BY <3>5, <3>6
  <2> QED BY <1>5, <2>2, <2>3, <2>4 DEF WaitCollect
<1> QED BY <1>3, <1>4, <1>5 DEF WaitStep, CallerEffect

\* reap_spawners.
LEMMA ReapEffect ==
    ASSUME IInv, ReapStep
    PROVE  Walks(Reaper)
<1>1. /\ Reaper \in Callers /\ running = Reaper /\ UNCHANGED <<op, lock, ops>> /\ ready' = ready
      /\ running' \in {Reaper, None} /\ pc[Reaper] \in {"asleep", "sweep"}
  BY ReaperFacts DEF ReapStep, ReapBegin, ReapNext, At, Suspend, Continue, loop
<1>2. loc \in [Callers -> Locals] /\ pc \in [Callers -> CallerPcs]
  BY <1>1, CallerFacts
<1>3. Quiet(pc[Reaper])
  BY <1>1 DEF Quiet, LockPcs
<1>4. Idle.op = None
  BY DEF Idle
<1>5. CASE /\ \/ \E l \in {"sweep", "dead", "asleep"} : Goto(Reaper, l)
              \/ pc' = pc
           /\ loc' = loc \/ loc' = [loc EXCEPT ![Reaper] = Idle]
  <2>1. OthersStay(Reaper) /\ pc'[Reaper] \in {"sweep", "dead", "asleep"}
    BY <1>1, <1>2, <1>5 DEF OthersStay, Goto
  <2>2. loc'[Reaper].op \in {loc[Reaper].op, None}
    BY <1>1, <1>2, <1>4, <1>5
  <2> QED BY <1>1, <1>3, <2>1, <2>2 DEF Walks, Quiet, LockPcs
<1>6. CASE \E u : /\ op[u] # None /\ ~Live(op[u]) /\ Continue
                  /\ loc' = [loc EXCEPT ![Reaper].user = u] /\ Goto(Reaper, "wait")
  <2>1. PICK u : /\ op[u] # None /\ ~Live(op[u]) /\ Continue
                 /\ loc' = [loc EXCEPT ![Reaper].user = u] /\ Goto(Reaper, "wait")
    BY <1>6
  <2>2. OthersStay(Reaper) /\ pc'[Reaper] = "wait" /\ running' = Reaper
    BY <1>1, <1>2, <2>1 DEF OthersStay, Goto, Continue, loop
  <2>3. loc'[Reaper].op = loc[Reaper].op /\ loc'[Reaper].user = u
    BY <1>1, <1>2, <2>1 DEF Locals
  <2> QED BY <1>1, <1>3, <2>1, <2>2, <2>3 DEF Walks
<1> QED BY <1>5, <1>6 DEF ReapStep, ReapBegin, ReapNext

\* reconcile.
LEMMA ReconcileEffect ==
    ASSUME IInv, ReconcileStep
    PROVE  CallerEffect(Reconciler)
<1> DEFINE c == Reconciler
<1>1. /\ c \in Callers /\ c # Reaper /\ running = c /\ Reaper \in Callers
      /\ loc \in [Callers -> Locals] /\ pc \in [Callers -> CallerPcs]
  BY ReaperFacts, CallerFacts DEF ReconcileStep, ReconcileBegin, ReconcileListed, GatherNext, GatherRead,
     MalformedDeleted, ReconcileSync, WatchNext, WatchMonitor, GcNext, ReconcileEnd, At
<1>i. Idle.op = None /\ \A u : [Idle EXCEPT !.user = u].op = None
  BY DEF Idle
<1>2. ASSUME \/ ReconcileBegin \/ ReconcileListed \/ GatherNext \/ GatherRead
             \/ MalformedDeleted \/ ReconcileSync \/ GcNext \/ ReconcileEnd
      PROVE  Walks(c)
  <2>1. /\ pc[c] \in {"begin", "list", "gather", "read", "malformed", "sync", "gc", "metric"}
        /\ UNCHANGED <<op, lock, ops>> /\ running' \in {c, None}
    BY <1>1, <1>2 DEF ReconcileBegin, ReconcileListed, GatherNext, GatherRead, MalformedDeleted,
       ReconcileSync, GcNext, ReconcileEnd, PassFails, At, Suspend, Continue, loop
  <2>2. \/ \E l \in {"list", "gather", "sync", "read", "malformed", "watch", "metric", "delete",
                     "timer", "bootFailed"} : Goto(c, l)
        \/ pc' = pc
    BY <1>2 DEF ReconcileBegin, ReconcileListed, GatherNext, GatherRead, MalformedDeleted,
       ReconcileSync, GcNext, ReconcileEnd, PassFails
  <2>3. \/ loc' = loc \/ loc' = [loc EXCEPT ![c] = Idle]
        \/ \E u : loc' = [loc EXCEPT ![c].user = u]
        \/ \E u : loc' = [loc EXCEPT ![c] = [Idle EXCEPT !.user = u]]
        \/ \E val : loc' = [loc EXCEPT ![c].val = val]
    BY <1>2 DEF ReconcileBegin, ReconcileListed, GatherNext, GatherRead, MalformedDeleted,
       ReconcileSync, GcNext, ReconcileEnd, PassFails
  <2>4. \/ ready' = ready
        \/ pc[Reaper] = "asleep" /\ Reaper \notin Elems(ready) /\ ready' = Append(ready, Reaper)
    <3>1. \/ ready' = ready
          \/ ~serving /\ ready' = Append(ready, Reaper)
      BY <1>2 DEF ReconcileBegin, ReconcileListed, GatherNext, GatherRead, MalformedDeleted,
         ReconcileSync, GcNext, ReconcileEnd, PassFails, Suspend, Continue, loop
    <3> QED BY <3>1 DEF IInv, LoopInv, Active
  <2>5. OthersStay(c) /\ Quiet(pc[c]) /\ Quiet(pc'[c])
    <3>1. OthersStay(c)
      BY <1>1, <2>2, <2>3 DEF OthersStay, Goto
    <3>2. pc'[c] \in {"begin", "list", "gather", "read", "malformed", "sync", "gc", "metric",
                      "watch", "delete", "timer", "bootFailed"}
      BY <1>1, <2>1, <2>2 DEF Goto
    <3> QED BY <2>1, <3>1, <3>2 DEF Quiet, LockPcs
  <2>6. loc'[c].op \in {loc[c].op, None}
    <3>1. CASE loc' = loc \/ loc' = [loc EXCEPT ![c] = Idle]
      BY <1>1, <1>i, <3>1
    <3>2. CASE \E u : loc' = [loc EXCEPT ![c] = [Idle EXCEPT !.user = u]]
      BY <1>1, <1>i, <3>2
    <3>3. CASE \E u : loc' = [loc EXCEPT ![c].user = u]
      BY <1>1, <3>3 DEF Locals
    <3>4. CASE \E val : loc' = [loc EXCEPT ![c].val = val]
      BY <1>1, <3>4 DEF Locals
    <3> QED BY <2>3, <3>1, <3>2, <3>3, <3>4
  <2> QED BY <1>1, <2>1, <2>4, <2>5, <2>6 DEF Walks
<1>3. ASSUME WatchNext PROVE Walks(c) \/ Asks(c)
  <2>1. pc[c] = "watch" /\ Quiet(pc[c]) /\ UNCHANGED <<op, ops>>
    BY <1>3 DEF WatchNext, At, Quiet, LockPcs
  <2>2. CASE loc' = [loc EXCEPT ![c] = Idle] /\ Goto(c, "gc") /\ Continue /\ UNCHANGED lock
    <3>1. /\ OthersStay(c) /\ pc'[c] = "gc" /\ loc'[c].op = None
          /\ running' = c /\ ready' = ready
      BY <1>1, <1>i, <2>2 DEF OthersStay, Goto, Continue, loop
    <3> QED BY <1>1, <2>1, <2>2, <3>1 DEF Walks, Quiet, LockPcs
  <2>3. CASE Continue /\ UNCHANGED <<pc, loc, lock>>
    <3>1. OthersStay(c) /\ running' = c /\ ready' = ready
      BY <1>1, <2>3 DEF OthersStay, Continue, loop
    <3> QED BY <1>1, <2>1, <2>3, <3>1 DEF Walks
  <2>4. ASSUME NEW u \in pass.todo, op[u] = None,
               loc' = [loc EXCEPT ![c].user = u, ![c].st = labState[u]],
               Goto(c, "monitor"), Acquire(c, u)
        PROVE  Asks(c)
    <3>1. OthersStay(c) /\ pc'[c] = "monitor"
      BY <1>1, <2>4 DEF OthersStay, Goto
    <3>2. PICK st : loc' = [loc EXCEPT ![c].user = u, ![c].st = st]
      BY <2>4
    <3>3. loc'[c].op = loc[c].op /\ loc'[c].user = u
      BY <1>1, <3>2 DEF Locals
    <3>4. u \in Users
      BY DEF IInv, TypeOK
    <3> QED BY <1>1, <2>1, <2>4, <3>1, <3>3, <3>4 DEF Asks, Starts, LockPcs
  <2> QED BY <1>3, <2>2, <2>3, <2>4 DEF WatchNext
<1>4. ASSUME WatchMonitor PROVE Leaves(c) \/ Begins(c)
  <2> DEFINE u == loc[c].user
  <2>1. /\ pc[c] \in LockPcs /\ Starts(c) /\ Goto(c, "watch") /\ running' = c
        /\ loc' = [loc EXCEPT ![c] = Idle]
    BY <1>1, <1>4 DEF WatchMonitor, At, LockPcs, Starts
  <2>2. OthersStay(c) /\ pc'[c] = "watch" /\ Quiet(pc'[c]) /\ loc'[c].op = None
    BY <1>1, <1>i, <2>1 DEF OthersStay, Goto, Quiet, LockPcs
  <2>3. CASE Conflict(u)
    <3>1. Release(u) /\ ready' = ready \o Granted(u) /\ UNCHANGED <<op, ops>>
      BY <1>4, <2>3 DEF WatchMonitor
    <3> QED BY <1>1, <2>1, <2>2, <3>1 DEF Leaves, Lets
  <2>4. CASE ~Conflict(u)
    <3>1. PICK o \in FreeOps : StartOperation(o, u, "WATCH", loc[c].st, FALSE)
      BY <1>4, <2>4 DEF WatchMonitor
    <3>2. loc[c].st \in StateIds \cup {None} /\ "WATCH" \in Kinds
      BY <1>1 DEF Locals, Kinds
    <3> QED BY <1>1, <2>1, <2>2, <2>4, <3>1, <3>2 DEF Begins, Conflict
  <2> QED BY <2>3, <2>4
<1> QED BY <1>2, <1>3, <1>4 DEF ReconcileStep, CallerEffect

\* A request arrives, or what a caller waits for ends.
LEMMA WakeEffect ==
    ASSUME IInv, NEW c \in Callers, (c \in Requests /\ Arrive(c)) \/ CallerReply(c)
    PROVE  Wakes(c)
<1>1. loc \in [Callers -> Locals] /\ pc \in [Callers -> CallerPcs]
  BY CallerFacts
<1>2. /\ running = None /\ running' = None /\ UNCHANGED <<op, lock, ops>>
      /\ ready' = Append(ready, c) /\ c \notin Elems(ready)
  BY ScheduledElems DEF Arrive, CallerReply, PhaseReply, OtherReply, ReconcilerReply, Timer, CallerWaits,
     IInv, LoopInv
<1>3. ASSUME c \in Requests, Arrive(c) PROVE Wakes(c)
  <2>1. PICK u \in Users, m \in {"create", "delete"} :
           Goto(c, m) /\ loc' = [loc EXCEPT ![c] = [Idle EXCEPT !.user = u]]
    BY <1>3 DEF Arrive
  <2>2. [Idle EXCEPT !.user = u].op = None
    BY DEF Idle
  <2>3. OthersStay(c) /\ pc'[c] \in {"create", "delete"} /\ pc[c] = "idle" /\ loc'[c].op = None
    BY <1>1, <1>3, <2>1, <2>2 DEF OthersStay, Goto, Arrive
  <2> QED BY <1>2, <2>3 DEF Wakes, Quiet, LockPcs
<1>4. ASSUME CallerReply(c) PROVE Wakes(c)
  <2>1. \/ pc' = pc /\ loc' = loc
           /\ pc[c] \in {"image", "phaseReport", "cancelReport", "waitReport", "metric"}
        \/ /\ pc' = pc /\ pc[c] \in {"phase", "list", "read", "malformed"}
           /\ loc' = loc \/ \E val : loc' = [loc EXCEPT ![c].val = val]
        \/ pc[c] = "timer" /\ Goto(c, "begin") /\ loc' = loc
    BY <1>4 DEF CallerReply, PhaseReply, OtherReply, ReconcilerReply, Timer, CallerWaits
  <2>2. CASE pc' = pc /\ loc' = loc
             /\ pc[c] \in {"image", "phaseReport", "cancelReport", "waitReport", "metric"}
    BY <1>2, <2>2 DEF Wakes, OthersStay, SameRefs, Quiet, LockPcs
  <2>3. CASE /\ pc' = pc /\ pc[c] \in {"phase", "list", "read", "malformed"}
             /\ loc' = loc \/ \E val : loc' = [loc EXCEPT ![c].val = val]
    <3>1. loc'[c].op = loc[c].op /\ OthersStay(c)
      BY <1>1, <2>3 DEF Locals, OthersStay
    <3> QED BY <1>2, <2>3, <3>1 DEF Wakes, Quiet, LockPcs
  <2>4. CASE pc[c] = "timer" /\ Goto(c, "begin") /\ loc' = loc
    <3>1. OthersStay(c) /\ pc'[c] = "begin"
      BY <1>1, <2>4 DEF OthersStay, Goto
    <3> QED BY <1>2, <2>4, <3>1 DEF Wakes, Quiet, LockPcs
  <2> QED BY <2>1, <2>2, <2>3, <2>4
<1> QED BY <1>3, <1>4

\* A new process.
LEMMA RestartEffect ==
    ASSUME IInv, Restart
    PROVE  Resets
<1>1. Idle.op = None /\ [Idle EXCEPT !.res = "lost"].op = None
  BY DEF Idle
<1>2. ASSUME NEW c \in Callers
      PROVE  /\ pc'[c] \in {"begin", "asleep", "idle", "over"}
             /\ \/ loc'[c].op = None
                \/ loc'[c].op = loc[c].op /\ pc[c] \in {"idle", "over"}
  BY <1>1 DEF Restart, BootPc
<1> QED BY <1>2 DEF Restart, Resets

\* Every step.
LEMMA StepHasEffect ==
    ASSUME IInv, OrderInv, [Next]_vars
    PROVE  StepEffect
<1>1. ASSUME NEW c \in Requests \cup {Reconciler}, DeleteStep(c) PROVE CallerEffect(c)
  <2>1. c \in Callers \ {Reaper}
    BY ReaperFacts DEF Callers
  <2> QED BY <1>1, <2>1, DeleteEffect
<1>2. ASSUME LoopStep PROVE StepEffect
  <2>1. CASE Dispatch
    BY <2>1 DEF Dispatch, Takes, StepEffect
  <2>2. CASE ReapStep
    BY <2>2, ReapEffect, ReaperFacts DEF StepEffect, CallerEffect
  <2> QED BY <1>1, <1>2, <2>1, <2>2, CreateEffect, WaitEffect, ReconcileEffect, ReaperFacts
          DEF LoopStep, StepEffect, Callers
<1>3. ASSUME \/ \E u \in Users : StrayLands(u) \/ PodStarts(u) \/ PodStops(u)
             \/ UNCHANGED vars
      PROVE  StepEffect
  BY <1>3 DEF StrayLands, PodStarts, PodStops, vars, loop, Rests, StepEffect
<1>4. ASSUME NEW c \in Callers, CallerReply(c) PROVE StepEffect
  BY <1>4, WakeEffect DEF StepEffect, CallerEffect
<1>5. ASSUME NEW r \in Requests, Arrive(r) PROVE StepEffect
  BY <1>5, WakeEffect DEF StepEffect, CallerEffect, Callers
<1>6. ASSUME StartupFails \/ Crash PROVE StepEffect
  BY <1>6, RestartEffect DEF StartupFails, Crash, StepEffect
<1> QED BY <1>2, <1>3, <1>4, <1>5, <1>6 DEF Next, StepEffect

-----------------------------------------------------------------------------
(* References to operations, and races for a lab's state *)

\* Of two tasks in a queue, x comes before y.
Before(s, x, y) == \E i, j \in 1..Len(s) : i < j /\ s[i] = x /\ s[j] = y

\* Callers of delete_lab that wait for an operation; those whose operation
\* somebody else has cleared meanwhile.
Refers(c) == c # Reaper /\ loc[c].op # None
Late(c) == Refers(c) /\ op[loc[c].user] # loc[c].op

\* A caller of delete_lab keeps a reference from wait()'s first use of the lock
\* to its second; while it is suspended in between it waits for a live task.
ReferInv(c) ==
    /\ loc[c].op # None <=> pc[c] \in {"complete", "collect"}
    /\ loc[c].op # None /\ Live(loc[c].op) => ops[loc[c].op].user = loc[c].user
    /\ pc[c] = "complete" /\ ~Active(c) => Live(loc[c].op) /\ c \in Elems(ops[loc[c].op].waiters)

\* Callers past `async with' are in the queue of the lock.
QueuedInv(c) == pc[c] \in LockPcs => c \in Elems(lock[loc[c].user])

\* Only the task of a spawn raises.
RaiseInv(o) == ops[o].result = "raised" => IsSpawn(o)

\* Where the task of a delete can be.
DeletePcs == {"created", "delPod", "delNs", "report", "done"}
DeleteInv(o) == ~IsSpawn(o) => ops[o].pc \in DeletePcs

\* A user's operation is for that user; a delete that is over has set `complete'.
UserInv(u) ==
    op[u] # None => /\ Live(op[u]) => ops[op[u]].user = u
                    /\ ~IsSpawn(op[u]) /\ ~Live(op[u]) => ops[op[u]].complete

\* What is said of the references to operations.
RefInv ==
    /\ \A c \in Callers \ {Reaper} : ReferInv(c)
    /\ \A c \in Callers : QueuedInv(c)
    /\ \A o \in OpIds : RaiseInv(o) /\ DeleteInv(o)
    /\ \A u \in Users : UserInv(u)

\* Nobody who was not woken with c collects c's operation before c asks for the
\* lock, unless nobody else asked for it.
WokenInv(c) ==
    Refers(c) /\ pc[c] = "complete" /\ c \in Elems(ready) /\ ~Late(c) =>
      \A d \in Callers : pc[d] = "collect" /\ loc[d].op = loc[c].op /\ loc[d].user = loc[c].user =>
         /\ d \in Elems(ready) => Before(ready, c, d)
         /\ running = d => Elems(lock[loc[c].user]) \subseteq {d}

\* An operation that was started since the one c waits for was cleared does not
\* get anywhere before c has returned from wait(): c runs, or will run before it,
\* or waits for the lock of a caller that has cancelled it.
LateOp(c) ==
    LET u == loc[c].user
        o == op[u] IN
    Late(c) /\ o # None =>
       /\ ops[o].pc \in {"created", "done"}
       /\ \/ running = c
          \/ pc[c] = "complete" /\ ops[o].pc = "created" /\ Before(ready, c, o)
          \/ c \in Elems(lock[u]) /\ (ops[o].pc = "created" => ops[o].cancel)

\* Until such a caller asks for the lock, nobody is in its queue who could start
\* another operation: the queue is empty but for whoever runs, or is the queue of
\* a caller that cancels the operation.
LateQueue(c) ==
    LET u == loc[c].user
        o == op[u] IN
    Late(c) /\ pc[c] = "complete" =>
       \/ Elems(lock[u]) \subseteq {running}
       \/ o # None /\ ops[o].cancel /\ \A d \in Elems(lock[u]) : ~Starts(d)

\* Nor is anybody ahead of it who starts an operation.
LateAhead(c) ==
    Late(c) => \A d \in Callers : Before(lock[loc[c].user], d, c) => ~Starts(d)

\* So it finds no operation that has got anywhere when it clears the lab's state.
DeletedInv(c) ==
    LET o == op[loc[c].user] IN
    pc[c] = "deleted" => running = c /\ (o # None => ops[o].pc \in {"created", "done"})

\* The reaper takes references to finished operations only, and to a spawn only
\* if nobody else waits for it.
ReaperWaits ==
    LET o == op[loc[Reaper].user] IN
    pc[Reaper] = "wait" => running = Reaper /\ o # None /\ ~Live(o)

\* The operation stays over until the reaper has the lock, or is cleared.
ReaperCaptures ==
    LET u == loc[Reaper].user IN
    pc[Reaper] = "capture" =>
       /\ op[u] # None => ~Live(op[u])
       /\ op[u] = None => \A d \in Callers : Before(lock[u], d, Reaper) => ~Starts(d)

\* The operation that it awaits is over; only a spawn raises.
ReaperRefers ==
    pc[Reaper] \in {"complete", "collect", "waitReport"} =>
       /\ loc[Reaper].op # None /\ ~Live(loc[Reaper].op)
       /\ pc[Reaper] = "waitReport" => IsSpawn(loc[Reaper].op)

\* Its `complete' event is set already.
ReaperCompletes ==
    pc[Reaper] = "complete" =>
       /\ Reaper \notin Elems(ready)
       /\ running = Reaper => loc[Reaper].op = op[loc[Reaper].user]

\* No caller of delete_lab that would wait for it is ahead of the reaper,
ReaperAhead ==
    pc[Reaper] \in {"collect", "waitReport"} /\ IsSpawn(loc[Reaper].op) =>
       \A d \in Callers : Before(lock[loc[Reaper].user], d, Reaper) => ~Joins(d)

\* and none waits for it already.
ReaperAlone ==
    /\ pc[Reaper] \in {"collect", "waitReport"} \/ (pc[Reaper] = "complete" /\ running = Reaper)
    /\ IsSpawn(loc[Reaper].op)
    => \A c \in Callers \ {Reaper} : pc[c] = "complete" => loc[c].user # loc[Reaper].user

\* What is said of the reaper.
ReaperInv == ReaperWaits /\ ReaperCaptures /\ ReaperRefers /\ ReaperCompletes
             /\ ReaperAhead /\ ReaperAlone

\* What is said of callers that return late, and of the reaper.
RaceInv ==
    /\ \A c \in Callers : WokenInv(c) /\ LateOp(c) /\ LateQueue(c) /\ LateAhead(c) /\ DeletedInv(c)
    /\ ReaperInv

-----------------------------------------------------------------------------
(* The order of tasks in a queue *)

\* Both tasks are in the queue, and the second is not at its head.
LEMMA BeforeElems ==
    ASSUME NEW S, NEW s \in Seq(S), NEW x, NEW y, Before(s, x, y)
    PROVE  /\ x \in Elems(s) /\ y \in Elems(s) /\ s # <<>>
           /\ Distinct(s) => x # y /\ y # Head(s)
<1>1. PICK i \in 1..Len(s), j \in 1..Len(s) : i < j /\ s[i] = x /\ s[j] = y
  BY DEF Before
<1>2. Len(s) \in Nat /\ 1 \in 1..Len(s) /\ i # j /\ j # 1
  BY <1>1
<1>3. s # <<>>
  BY <1>2
<1>4. Head(s) = s[1]
  BY <1>3
<1> QED BY <1>1, <1>2, <1>3, <1>4 DEF Elems, Distinct

\* A task that joins the queue comes after all others, whose order stays.
LEMMA BeforeAppend ==
    ASSUME NEW S, NEW s \in Seq(S), NEW e \in S, NEW x, NEW y
    PROVE  /\ Before(s, x, y) => Before(Append(s, e), x, y)
           /\ x \in Elems(s) => Before(Append(s, e), x, e)
           /\ Before(Append(s, e), x, y) => Before(s, x, y) \/ (x \in Elems(s) /\ y = e)
<1>1. /\ Len(Append(s, e)) = Len(s) + 1 /\ Len(s) \in Nat
      /\ \A i \in 1..Len(s) : Append(s, e)[i] = s[i]
      /\ Append(s, e)[Len(s) + 1] = e
  OBVIOUS
<1>2. PICK t, n : t = Append(s, e) /\ n = Len(s)
  OBVIOUS
<1>3. n \in Nat /\ Len(t) = n + 1 /\ (\A i \in 1..n : t[i] = s[i]) /\ t[n + 1] = e
  BY <1>1, <1>2
<1>4. Before(s, x, y) => Before(t, x, y)
  <2>1. ASSUME NEW i \in 1..n, NEW j \in 1..n, i < j, s[i] = x, s[j] = y PROVE Before(t, x, y)
    <3>1. i \in 1..Len(t) /\ j \in 1..Len(t) /\ t[i] = x /\ t[j] = y
      BY <1>3, <2>1
    <3> QED BY <2>1, <3>1 DEF Before
  <2> QED BY <1>2, <2>1 DEF Before
<1>5. x \in Elems(s) => Before(t, x, e)
  <2>1. ASSUME NEW i \in 1..n, s[i] = x PROVE Before(t, x, e)
    <3>1. i \in 1..Len(t) /\ n + 1 \in 1..Len(t) /\ i < n + 1 /\ t[i] = x /\ t[n + 1] = e
      BY <1>3, <2>1
    <3> QED BY <3>1 DEF Before
  <2> QED BY <1>2, <2>1 DEF Elems
<1>6. Before(t, x, y) => Before(s, x, y) \/ (x \in Elems(s) /\ y = e)
  <2>1. ASSUME NEW i \in 1..Len(t), NEW j \in 1..Len(t), i < j, t[i] = x, t[j] = y
        PROVE  Before(s, x, y) \/ (x \in Elems(s) /\ y = e)
    <3>1. i \in 1..n /\ s[i] = x
      BY <1>3, <2>1
    <3>2. CASE j = n + 1
      BY <1>2, <1>3, <2>1, <3>1, <3>2 DEF Elems
    <3>3. CASE j \in 1..n
      <4>1. s[j] = y
        BY <1>3, <2>1, <3>3
      <4> QED BY <1>2, <2>1, <3>1, <3>3, <4>1 DEF Before
    <3> QED BY <1>3, <2>1, <3>2, <3>3
  <2> QED BY <2>1 DEF Before
<1> QED BY <1>2, <1>4, <1>5, <1>6

\* So do the tasks of a queue that is put after another.
LEMMA BeforeConcat ==
    ASSUME NEW S, NEW s \in Seq(S), NEW t \in Seq(S), NEW x, NEW y
    PROVE  /\ Before(s, x, y) => Before(s \o t, x, y)
           /\ x \in Elems(s) /\ y \in Elems(t) => Before(s \o t, x, y)
<1>1. /\ Len(s \o t) = Len(s) + Len(t) /\ Len(s) \in Nat /\ Len(t) \in Nat
      /\ \A i \in 1..Len(s) : (s \o t)[i] = s[i]
      /\ \A i \in 1..Len(t) : (s \o t)[Len(s) + i] = t[i]
  OBVIOUS
<1>2. PICK v, m, n : v = s \o t /\ m = Len(s) /\ n = Len(t)
  OBVIOUS
<1>3. m \in Nat /\ n \in Nat /\ Len(v) = m + n /\ (\A i \in 1..m : v[i] = s[i]) /\ (\A i \in 1..n : v[m + i] = t[i])
  BY <1>1, <1>2
<1>4. Before(s, x, y) => Before(v, x, y)
  <2>1. ASSUME NEW i \in 1..m, NEW j \in 1..m, i < j, s[i] = x, s[j] = y PROVE Before(v, x, y)
    <3>1. i \in 1..Len(v) /\ j \in 1..Len(v) /\ v[i] = x /\ v[j] = y
      BY <1>3, <2>1
    <3> QED BY <2>1, <3>1 DEF Before
  <2> QED BY <1>2, <2>1 DEF Before
<1>5. x \in Elems(s) /\ y \in Elems(t) => Before(v, x, y)
  <2>1. ASSUME NEW i \in 1..m, NEW j \in 1..n, s[i] = x, t[j] = y PROVE Before(v, x, y)
    <3>1. i \in 1..Len(v) /\ m + j \in 1..Len(v) /\ i < m + j /\ v[i] = x /\ v[m + j] = y
      BY <1>3, <2>1
    <3> QED BY <3>1 DEF Before
  <2> QED BY <1>2, <2>1 DEF Elems
<1> QED BY <1>2, <1>4, <1>5

\* When the head leaves, the others keep their order.
LEMMA BeforeTail ==
    ASSUME NEW S, NEW s \in Seq(S), s # <<>>, NEW x, NEW y
    PROVE  /\ Before(Tail(s), x, y) => Before(s, x, y)
           /\ y \in Elems(Tail(s)) => Before(s, Head(s), y)
           /\ Before(s, x, y) /\ x # Head(s) => Before(Tail(s), x, y)
<1>1. /\ Len(Tail(s)) = Len(s) - 1 /\ Len(s) \in Nat \ {0} /\ Head(s) = s[1]
      /\ \A i \in 1..Len(Tail(s)) : Tail(s)[i] = s[i + 1]
  OBVIOUS
<1>2. PICK t, n : t = Tail(s) /\ n = Len(t)
  OBVIOUS
<1>3. n \in Nat /\ Len(s) = n + 1 /\ \A i \in 1..n : t[i] = s[i + 1]
  BY <1>1, <1>2
<1>4. Before(t, x, y) => Before(s, x, y)
  <2>1. ASSUME NEW i \in 1..n, NEW j \in 1..n, i < j, t[i] = x, t[j] = y PROVE Before(s, x, y)
    <3>1. /\ i + 1 \in 1..Len(s) /\ j + 1 \in 1..Len(s) /\ i + 1 < j + 1
          /\ s[i + 1] = x /\ s[j + 1] = y
      BY <1>3, <2>1
    <3> QED BY <3>1 DEF Before
  <2> QED BY <1>2, <2>1 DEF Before
<1>5. y \in Elems(t) => Before(s, Head(s), y)
  <2>1. ASSUME NEW j \in 1..n, t[j] = y PROVE Before(s, Head(s), y)
    <3>1. 1 \in 1..Len(s) /\ j + 1 \in 1..Len(s) /\ 1 < j + 1 /\ s[j + 1] = y
      BY <1>3, <2>1
    <3> QED BY <1>1, <3>1 DEF Before
  <2> QED BY <1>2, <2>1 DEF Elems
<1>6. Before(s, x, y) /\ x # Head(s) => Before(t, x, y)
  <2>1. ASSUME NEW i \in 1..Len(s), NEW j \in 1..Len(s), i < j, s[i] = x, s[j] = y, x # Head(s)
        PROVE  Before(t, x, y)
    <3>1. i # 1
      BY <1>1, <2>1
    <3>2. PICK k \in 1..n, l \in 1..n : i = k + 1 /\ j = l + 1 /\ k < l
      <4>1. i - 1 \in 1..n /\ j - 1 \in 1..n /\ i = (i - 1) + 1 /\ j = (j - 1) + 1 /\ i - 1 < j - 1
        BY <1>3, <2>1, <3>1
      <4> QED BY <4>1
    <3>3. t[k] = x /\ t[l] = y
      BY <1>3, <2>1, <3>2
    <3> QED BY <1>2, <3>2, <3>3 DEF Before
  <2> QED BY <2>1 DEF Before
<1> QED BY <1>2, <1>4, <1>5, <1>6

\* A queue only grows, at its end.
Grows(s, t) ==
    /\ Elems(s) \subseteq Elems(t)
    /\ \A x, y : Before(s, x, y) => Before(t, x, y)
    /\ \A x \in Elems(s) : \A y \in Elems(t) \ Elems(s) : Before(t, x, y)

\* Putting a queue after another makes that one grow.
LEMMA GrowsConcat ==
    ASSUME NEW S, NEW s \in Seq(S), NEW t \in Seq(S)
    PROVE  Grows(s, s \o t)
<1>1. Elems(s \o t) = Elems(s) \cup Elems(t)
  BY ConcatElems
<1>2. \A x, y : Before(s, x, y) => Before(s \o t, x, y)
  BY BeforeConcat
<1>3. \A x \in Elems(s), y \in Elems(t) : Before(s \o t, x, y)
  BY BeforeConcat
<1> QED BY <1>1, <1>2, <1>3 DEF Grows

\* A queue that grows and grows again has grown.
LEMMA GrowsTwice ==
    ASSUME NEW s, NEW t, NEW v, Grows(s, t), Grows(t, v)
    PROVE  Grows(s, v)
  BY DEF Grows

\* So does the queue of the loop, in most steps.
Onward == Grows(ready, ready')

\* The queue of the loop stays as it is,
LEMMA OnwardSame == ASSUME ready' = ready PROVE Onward
  BY DEF Onward, Grows

\* or gets a task,
LEMMA OnwardAppend ==
    ASSUME IInv, NEW t \in Tasks, ready' = Append(ready, t)
    PROVE  Onward /\ Elems(ready') = Elems(ready) \cup {t}
<1>1. ready \in Seq(Tasks)
  BY DEF IInv, TypeOK
<1>2. Elems(ready') = Elems(ready) \cup {t}
  BY <1>1, AppendElems
<1>3. \A x, y : Before(ready, x, y) => Before(ready', x, y)
  BY <1>1, BeforeAppend
<1>4. \A x \in Elems(ready) : Before(ready', x, t)
  BY <1>1, BeforeAppend
<1> QED BY <1>2, <1>3, <1>4 DEF Onward, Grows

\* or several.
LEMMA OnwardConcat ==
    ASSUME IInv, NEW q \in Seq(Tasks), ready' = ready \o q
    PROVE  Onward /\ Elems(ready') = Elems(ready) \cup Elems(q)
<1>1. ready \in Seq(Tasks)
  BY DEF IInv, TypeOK
<1> QED BY <1>1, GrowsConcat, ConcatElems DEF Onward

-----------------------------------------------------------------------------
(* What the effects do to the queues *)

\* A release removes the owner from the queue of its lock only.
LEMMA ReleaseQueue ==
    ASSUME IInv, NEW c \in Callers, running = c, pc[c] \in LockPcs, NEW u, u = loc[c].user,
           Release(u)
    PROVE  /\ u \in Users /\ c \in Elems(lock[u])
           /\ \A v \in Users \ {u} : lock'[v] = lock[v]
           /\ Elems(lock'[u]) = Elems(lock[u]) \ {c}
           /\ \A x, y : Before(lock'[u], x, y) => Before(lock[u], x, y) /\ x # c
           /\ \A y \in Elems(lock[u]) \ {c} : Before(lock[u], c, y)
<1>1. u \in Users /\ lock[u] # <<>> /\ Head(lock[u]) = c
  BY DEF IInv, LocalsInv, LockInv, UserPcs, Active
<1>2. lock \in [Users -> Seq(Callers)] /\ lock[u] \in Seq(Callers) /\ Distinct(lock[u])
  BY <1>1 DEF IInv, TypeOK, LockInv
<1>3. lock'[u] = Tail(lock[u]) /\ \A v \in Users \ {u} : lock'[v] = lock[v]
  BY <1>1, <1>2 DEF Release
<1>4. /\ Elems(lock[u]) = Elems(lock'[u]) \cup {c} /\ c \notin Elems(lock'[u])
      /\ lock'[u] \in Seq(Callers)
  BY <1>1, <1>2, <1>3, TailElems
<1>5. ASSUME NEW x, NEW y, Before(lock'[u], x, y) PROVE Before(lock[u], x, y) /\ x # c
  <2>1. x \in Elems(lock'[u])
    BY <1>4, <1>5, BeforeElems
  <2> QED BY <1>1, <1>2, <1>3, <1>4, <1>5, <2>1, BeforeTail
<1>6. ASSUME NEW y \in Elems(lock[u]) \ {c} PROVE Before(lock[u], c, y)
  BY <1>1, <1>2, <1>3, <1>4, BeforeTail
<1> QED BY <1>1, <1>3, <1>4, <1>5, <1>6

\* Whoever a release wakes was waiting for that lock.
LEMMA GrantedReady ==
    ASSUME IInv, NEW c \in Callers, running = c, pc[c] \in LockPcs, NEW u, u = loc[c].user
    PROVE  /\ Granted(u) \in Seq(Tasks)
           /\ \A d \in Elems(Granted(u)) : d \in Callers \ {c} /\ pc[d] \in LockPcs \ HoldPcs /\ loc[d].user = u
<1>1. PICK q \in Seq(Tasks) : Distinct(q) /\ Elems(q) \subseteq Elems(ready) \cup OpIds
  BY EmptyElems, <<>> \in Seq(Tasks)
<1>2. \A d \in Elems(Granted(u)) : d \in Callers \ {c} /\ pc[d] \in LockPcs \ HoldPcs /\ loc[d].user = u
  BY <1>1, GrantedFacts
<1>3. u \in Users /\ lock[u] # <<>> /\ Head(lock[u]) = c
  BY <1>1, GrantedFacts
<1>4. Granted(u) \in Seq(Tasks)
  <2>1. Granted(u) \in Seq(Callers)
    BY <1>3, ReleaseFacts
  <2> QED BY <2>1 DEF Tasks
<1> QED BY <1>2, <1>4

\* A release schedules the next owner of the lock at most.
LEMMA ReleaseReady ==
    ASSUME IInv, NEW c \in Callers, running = c, pc[c] \in LockPcs, NEW u, u = loc[c].user,
           ready' = ready \o Granted(u)
    PROVE  /\ Onward
           /\ \A d \in Elems(ready') \ Elems(ready) : d \in Callers /\ pc[d] \in LockPcs \ HoldPcs
  BY GrantedReady, OnwardConcat

\* monitor() schedules the new task before the next owner of the lock.
LEMMA StartReady ==
    ASSUME IInv, NEW c \in Callers, running = c, pc[c] \in LockPcs, NEW u, u = loc[c].user,
           NEW o \in OpIds, o \notin Elems(ready), ready' = Append(ready, o) \o Granted(u)
    PROVE  /\ Onward
           /\ \A d \in Elems(ready) : Before(ready', d, o)
           /\ \A d \in Elems(ready') \ Elems(ready) :
                 d # o => d \in Callers /\ pc[d] \in LockPcs \ HoldPcs
<1>1. ready \in Seq(Tasks) /\ o \in Tasks /\ Granted(u) \in Seq(Tasks)
  BY GrantedReady DEF IInv, TypeOK, Tasks
<1>2. PICK q : q = Append(ready, o)
  OBVIOUS
<1>3. q \in Seq(Tasks) /\ Elems(q) = Elems(ready) \cup {o}
  BY <1>1, <1>2, AppendElems
<1>4. \A x, y : Before(ready, x, y) => Before(q, x, y)
  BY <1>1, <1>2, BeforeAppend
<1>5. \A x \in Elems(ready) : Before(q, x, o)
  BY <1>1, <1>2, BeforeAppend
<1>6. ready' = q \o Granted(u)
  BY <1>2
<1>7. Elems(ready') = Elems(q) \cup Elems(Granted(u))
  BY <1>1, <1>3, <1>6, ConcatElems
<1>8. \A x, y : Before(q, x, y) => Before(ready', x, y)
  BY <1>1, <1>3, <1>6, BeforeConcat
<1>9. \A x \in Elems(q), y \in Elems(Granted(u)) : Before(ready', x, y)
  BY <1>1, <1>3, <1>6, BeforeConcat
<1>10. Onward
  BY <1>3, <1>4, <1>5, <1>7, <1>8, <1>9 DEF Onward, Grows
<1>11. \A d \in Elems(Granted(u)) : d \in Callers /\ pc[d] \in LockPcs \ HoldPcs
  BY GrantedReady
<1> QED BY <1>3, <1>5, <1>7, <1>8, <1>10, <1>11

\* A caller joins the end of the queue, and goes on only if it was empty.
LEMMA AsksQueue ==
    ASSUME IInv, NEW c \in Callers, Asks(c), NEW u, u = loc'[c].user
    PROVE  /\ u \in Users /\ \A v \in Users : c \notin Elems(lock[v])
           /\ \A v \in Users \ {u} : lock'[v] = lock[v]
           /\ Elems(lock'[u]) = Elems(lock[u]) \cup {c}
           /\ \A x, y : Before(lock'[u], x, y) => Before(lock[u], x, y) \/ (x \in Elems(lock[u]) /\ y = c)
           /\ ready' = ready /\ c \notin Elems(ready)
           /\ running' \in {c, None}
           /\ Elems(lock[u]) = {} <=> running' = c
<1>1. /\ u \in Users /\ Acquire(c, u) /\ pc[c] \notin LockPcs /\ running = c
  BY DEF Asks
<1>2. lock \in [Users -> Seq(Callers)] /\ lock[u] \in Seq(Callers)
  BY <1>1 DEF IInv, TypeOK
<1>3. lock'[u] = Append(lock[u], c) /\ \A v \in Users \ {u} : lock'[v] = lock[v]
  BY <1>1, <1>2 DEF Acquire
<1>4. \A v \in Users : c \notin Elems(lock[v])
  BY <1>1 DEF IInv, LockInv
<1>5. Elems(lock'[u]) = Elems(lock[u]) \cup {c}
  BY <1>2, <1>3, AppendElems
<1>6. \A x, y : Before(lock'[u], x, y) => Before(lock[u], x, y) \/ (x \in Elems(lock[u]) /\ y = c)
  BY <1>2, <1>3, BeforeAppend
<1>7. ready' = ready /\ c \notin Elems(ready)
  BY <1>1 DEF Acquire, IInv, LoopInv
<1>8. lock[u] = <<>> <=> Elems(lock[u]) = {}
  <2>1. lock[u] # <<>> => Head(lock[u]) \in Elems(lock[u])
    <3>1. ASSUME lock[u] # <<>> PROVE Len(lock[u]) \in Nat \ {0} /\ Head(lock[u]) = lock[u][1]
      BY <1>2, <3>1
    <3> QED BY <3>1 DEF Elems
  <2> QED BY <2>1, EmptyElems
<1>9. running' = IF lock[u] = <<>> THEN c ELSE None
  BY <1>1 DEF Acquire
<1>10. c # None
  BY ConstantsAssumption
<1> QED BY <1>1, <1>3, <1>4, <1>5, <1>6, <1>7, <1>8, <1>9, <1>10

\* The loop takes the head of its queue.
LEMMA TakesReady ==
    ASSUME IInv, Takes
    PROVE  /\ running' \in Tasks /\ running' \in Elems(ready)
           /\ Elems(ready') = Elems(ready) \ {running'}
           /\ \A x, y : Before(ready, x, y) => y # running'
           /\ \A x, y : Before(ready, x, y) /\ x # running' => Before(ready', x, y)
<1>1. /\ ready \in Seq(Tasks) /\ ready # <<>> /\ Distinct(ready)
      /\ running' = Head(ready) /\ ready' = Tail(ready)
  BY DEF Takes, IInv, TypeOK, LoopInv
<1>2. /\ running' \in Tasks
      /\ Elems(ready) = Elems(ready') \cup {running'} /\ running' \notin Elems(ready')
  BY <1>1, TailElems
<1>3. \A x, y : Before(ready, x, y) => y # running'
  BY <1>1, BeforeElems
<1>4. \A x, y : Before(ready, x, y) /\ x # running' => Before(ready', x, y)
  BY <1>1, BeforeTail
<1> QED BY <1>2, <1>3, <1>4

-----------------------------------------------------------------------------
(* What the effects do to the operations *)

\* An operation keeps its identity and how far it has come.
KeepsOp(p) ==
    /\ ops'[p].user = ops[p].user /\ ops'[p].kind = ops[p].kind /\ ops'[p].st = ops[p].st
    /\ ops'[p].pc = ops[p].pc /\ ops'[p].result = ops[p].result
    /\ ops'[p].complete = ops[p].complete

\* cancel() of a spawn in progress.
LEMMA HitsFacts ==
    ASSUME IInv, NEW c \in Callers, Hits(c), NEW u, u = loc[c].user
    PROVE  /\ u \in Users /\ op[u] \in OpIds /\ running = c /\ running' = None
           /\ pc[c] = "cancel" /\ pc'[c] = "cancelled" /\ OthersStay(c)
           /\ UNCHANGED <<loc, op, lock>> /\ c \in Elems(lock[u])
           /\ Onward /\ Elems(ready') \subseteq Elems(ready) \cup {op[u]}
           /\ \A p \in OpIds : KeepsOp(p) /\ ops'[p].waiters = ops[p].waiters
           /\ \A p \in OpIds \ {op[u]} : ops'[p] = ops[p]
           /\ ops'[op[u]].cancel = TRUE
<1>1. /\ u \in Users /\ op[u] \in OpIds /\ running = c /\ pc[c] = "cancel" /\ pc[c] \in LockPcs
      /\ ops \in [OpIds -> Operations] /\ pc \in [Callers -> CallerPcs]
  BY CallerFacts DEF Hits, Cancel, At, UserPcs, LockPcs, IInv, TypeOK
<1>2. /\ running' = None /\ UNCHANGED <<loc, op, lock>> /\ Goto(c, "cancelled")
      /\ ops' = [ops EXCEPT ![op[u]].cancel = TRUE]
      /\ ready' = ready \/ ready' = Append(ready, op[u])
  BY DEF Hits, Cancel
<1>3. pc'[c] = "cancelled" /\ OthersStay(c)
  BY <1>1, <1>2 DEF Goto, OthersStay
<1>4. c \in Elems(lock[u])
  <2>1. lock[u] # <<>> /\ Head(lock[u]) = c /\ lock[u] \in Seq(Callers) /\ Distinct(lock[u])
    BY <1>1 DEF IInv, LockInv, Active, TypeOK
  <2> QED BY <2>1, TailElems
<1>5. Onward /\ Elems(ready') \subseteq Elems(ready) \cup {op[u]}
  <2>1. op[u] \in Tasks
    BY <1>1 DEF Tasks
  <2> QED BY <1>2, <2>1, OnwardSame, OnwardAppend
<1>6. \A p \in OpIds : KeepsOp(p) /\ ops'[p].waiters = ops[p].waiters
  BY <1>1, <1>2 DEF KeepsOp, Operations
<1>7. (\A p \in OpIds \ {op[u]} : ops'[p] = ops[p]) /\ ops'[op[u]].cancel = TRUE
  BY <1>1, <1>2 DEF Operations
<1> QED BY <1>1, <1>2, <1>3, <1>4, <1>5, <1>6, <1>7

\* wait() with an operation in progress.
LEMMA CapturesFacts ==
    ASSUME IInv, NEW c \in Callers, Captures(c), NEW u, u = loc[c].user
    PROVE  /\ u \in Users /\ op[u] \in OpIds /\ running = c /\ op[u] # None
           /\ running' = IF ops[op[u]].complete THEN c ELSE None
           /\ pc[c] = "capture" /\ pc'[c] = "complete" /\ OthersStay(c) /\ op' = op
           /\ loc'[c].op = op[u] /\ loc'[c].user = u
           /\ Release(u) /\ ready' = ready \o Granted(u)
           /\ \A p \in OpIds : KeepsOp(p) /\ ops'[p].cancel = ops[p].cancel
           /\ \A p \in OpIds : Elems(ops[p].waiters) \subseteq Elems(ops'[p].waiters)
           /\ ~ops[op[u]].complete => c \in Elems(ops'[op[u]].waiters)
<1>1. /\ u \in Users /\ op[u] \in OpIds /\ running = c /\ pc[c] = "capture" /\ op[u] # None
      /\ ops \in [OpIds -> Operations] /\ pc \in [Callers -> CallerPcs] /\ loc \in [Callers -> Locals]
  BY CallerFacts DEF Captures, WaitCapture, At, UserPcs, LockPcs, IInv, TypeOK
<1> DEFINE o == op[u]
<1>2. /\ Release(u) /\ ready' = ready \o Granted(u) /\ op' = op
      /\ loc' = [loc EXCEPT ![c].op = o] /\ Goto(c, "complete")
      /\ IF ops[o].complete THEN UNCHANGED <<running, ops>>
         ELSE ops' = [ops EXCEPT ![o].waiters = Append(@, c)] /\ running' = None
  BY <1>1 DEF Captures, WaitCapture
<1>3. /\ pc'[c] = "complete" /\ OthersStay(c) /\ loc'[c].op = o /\ loc'[c].user = u
  BY <1>1, <1>2 DEF Goto, OthersStay, Locals
<1>4. \A p \in OpIds : KeepsOp(p) /\ ops'[p].cancel = ops[p].cancel
  <2>1. CASE ops' = ops
    BY <2>1 DEF KeepsOp
  <2>2. ASSUME NEW w, ops' = [ops EXCEPT ![o].waiters = w]
        PROVE  \A p \in OpIds : KeepsOp(p) /\ ops'[p].cancel = ops[p].cancel
    BY <1>1, <2>2 DEF KeepsOp, Operations
  <2> QED BY <1>2, <2>1, <2>2
<1>5. /\ \A p \in OpIds : Elems(ops[p].waiters) \subseteq Elems(ops'[p].waiters)
      /\ ~ops[o].complete => c \in Elems(ops'[o].waiters)
  <2>1. \A p \in OpIds \ {o} : ops'[p] = ops[p]
    BY <1>1, <1>2
  <2>2. CASE ops[o].complete
    BY <1>2, <2>2
  <2>3. CASE ~ops[o].complete
    <3>1. ops'[o].waiters = Append(ops[o].waiters, c)
      BY <1>1, <1>2, <2>3 DEF Operations
    <3>2. ops[o].waiters \in Seq(Callers)
      BY <1>1 DEF Operations
    <3> HIDE DEF o
    <3>3. Elems(ops'[o].waiters) = Elems(ops[o].waiters) \cup {c}
      BY <3>1, <3>2, AppendElems
    <3> QED BY <2>1, <3>3
  <2> QED BY <2>2, <2>3
<1> QED BY <1>1, <1>2, <1>3, <1>4, <1>5

\* monitor() without a conflict.
LEMMA BeginsFacts ==
    ASSUME IInv, NEW c \in Callers, Begins(c), NEW u, u = loc[c].user
    PROVE  /\ u \in Users /\ running = c /\ pc[c] \in LockPcs /\ Starts(c)
           /\ OthersStay(c) /\ op[u] = None /\ Release(u)
           /\ \E o \in FreeOps, kind \in Kinds, st \in StateIds \cup {None} :
                 /\ o \in OpIds /\ op' = [op EXCEPT ![u] = o]
                 /\ ready' = Append(ready, o) \o Granted(u) /\ o \notin Elems(ready)
                 /\ \A p \in OpIds \ {o} : ops'[p] = ops[p]
                 /\ ops'[o].user = u /\ ops'[o].kind = kind /\ ops'[o].st = st
                 /\ ops'[o].pc = "created" /\ ops'[o].result = "ok" /\ ~ops'[o].cancel
<1>1. /\ running = c /\ pc[c] \in LockPcs /\ Starts(c) /\ OthersStay(c) /\ op[u] = None
  BY DEF Begins, Starts, LockPcs
<1>2. u \in Users
  BY <1>1, CallerFacts DEF UserPcs
<1>3. PICK o \in FreeOps, kind \in Kinds, st \in StateIds \cup {None}, first \in BOOLEAN :
         StartOperation(o, u, kind, st, first)
  BY DEF Begins
<1>4. o \in OpIds /\ ops \in [OpIds -> Operations] /\ ~Live(o)
  BY DEF FreeOps, IInv, TypeOK
<1>5. PICK a : a = [IdleOp EXCEPT !.user = u, !.kind = kind, !.st = st, !.first = first, !.pc = "created"]
  OBVIOUS
<1>6. /\ a.user = u /\ a.kind = kind /\ a.st = st /\ a.pc = "created" /\ a.result = "ok" /\ a.cancel = FALSE
  BY <1>5 DEF IdleOp
<1>7. ops' = [ops EXCEPT ![o] = a] /\ op' = [op EXCEPT ![u] = o] /\ Release(u)
      /\ ready' = Append(ready, o) \o Granted(u)
  BY <1>3, <1>5 DEF StartOperation
<1>8. ops'[o] = a /\ \A p \in OpIds \ {o} : ops'[p] = ops[p]
  BY <1>4, <1>7
<1>9. o \notin Elems(ready)
  BY <1>4 DEF IInv, LoopInv, Active
<1> QED BY <1>1, <1>2, <1>3, <1>4, <1>6, <1>7, <1>8, <1>9

\* A call of an operation returns.
LEMMA ReplyFacts ==
    ASSUME IInv, NEW o \in OpIds, OpReply(o)
    PROVE  /\ running = None /\ running' = None /\ UNCHANGED <<pc, loc, op, lock>>
           /\ Onward /\ Elems(ready') = Elems(ready) \cup {o}
           /\ \A p \in OpIds : /\ KeepsOp(p) /\ ops'[p].cancel = ops[p].cancel
                               /\ ops'[p].waiters = ops[p].waiters
<1>1. /\ running = None /\ running' = None /\ UNCHANGED <<pc, loc, op, lock>>
      /\ ready' = Append(ready, o) /\ \E rep : ops' = [ops EXCEPT ![o].reply = rep]
      /\ ops \in [OpIds -> Operations] /\ o \in Tasks
  BY DEF OpReply, Waiting, IInv, TypeOK, Tasks
<1>2. \A p \in OpIds : /\ KeepsOp(p) /\ ops'[p].cancel = ops[p].cancel
                       /\ ops'[p].waiters = ops[p].waiters
  BY <1>1 DEF KeepsOp, Operations
<1> QED BY <1>1, <1>2, OnwardAppend

\* How the task of an operation goes on, and how it ends.
GoesOn(o) ==
    /\ ready' = ready /\ ops'[o].pc \in Awaits /\ ~ops'[o].cancel
    /\ ops'[o].user = ops[o].user /\ ops'[o].kind = ops[o].kind /\ ops'[o].st = ops[o].st
    /\ ops'[o].result = ops[o].result /\ ops'[o].complete = ops[o].complete
    /\ ops'[o].waiters = ops[o].waiters
    /\ ~(ops[o].pc = "created" /\ ops[o].cancel)
    /\ ~IsSpawn(o) /\ ops[o].pc \in DeletePcs => ops'[o].pc \in DeletePcs

\* Its task is over: whoever waited for it is scheduled, unless it never started.
Ends(o) ==
    /\ ops'[o].pc = "done" /\ ~ops'[o].cancel /\ ops'[o].kind = ops[o].kind
    /\ ops'[o].result = "raised" => ops[o].pc \in {"publish", "publishFail"}
    /\ ops'[o].complete \/ (ops[o].pc = "created" /\ ops[o].cancel)
    /\ Onward
    /\ ops'[o].complete => Elems(ops[o].waiters) \subseteq Elems(ready')
    /\ \A d \in Elems(ready') \ Elems(ready) :
          d \in Callers /\ (d \in Elems(ops[o].waiters) \/ pc[d] \in {"asleep", "cancelled"})

\* Every step of an operation suspends it again or ends its task.
LEMMA OpStepCases ==
    ASSUME IInv, NEW o \in OpIds, OpStep(o)
    PROVE  \/ \E l \in Awaits : /\ OpAwait(o, l) /\ ~(ops[o].pc = "created" /\ ops[o].cancel)
                                /\ ~IsSpawn(o) /\ ops[o].pc \in DeletePcs => l \in DeletePcs
           \/ \E res \in {"ok", "raised", "cancelled"}, started \in BOOLEAN :
                 /\ OpFinish(o, res, started)
                 /\ res = "raised" => ops[o].pc \in {"publish", "publishFail"}
                 /\ ~started => ops[o].pc = "created" /\ ops[o].cancel
<1>1. ops[o].kind \in Kinds
  BY DEF IInv, TypeOK, Operations
<1>2. ~IsSpawn(o) <=> ops[o].kind = "DELETE"
  BY <1>1 DEF Kinds, IsSpawn
<1> USE DEF Awaits, Mutating, DeletePcs
<1>3. CASE OpStart(o)
  <2>1. PICK l : /\ OpAwait(o, l) /\ l \in {"podStart", "secrets", "delPod"}
                 /\ ops[o].kind = "DELETE" => l = "delPod"
    BY <1>3 DEF OpStart
  <2>2. ~ops[o].cancel
    BY <1>3 DEF OpStart, OpAt
  <2> QED BY <1>2, <2>1, <2>2
<1>4. CASE OpDelete(o)
  BY <1>2, <1>4 DEF OpDelete, OpReplied, OpAt
<1>5. CASE OpCreate(o)
  BY <1>5 DEF OpCreate, OpReplied, OpAt
<1>6. CASE OpWatch(o)
  BY <1>6 DEF OpWatch, OpReplied, OpAt
<1>7. CASE OpPublish(o)
  BY <1>7 DEF OpPublish, OpAt
<1>8. CASE OpError(o)
  BY <1>2, <1>8 DEF OpError, OpAt
<1>9. CASE OpCancelled(o)
  BY <1>9 DEF OpCancelled
<1> QED BY <1>3, <1>4, <1>5, <1>6, <1>7, <1>8, <1>9 DEF OpStep

\* The end of a task wakes waiters of `complete', the reaper and the task in cancel().
LEMMA FinishReady ==
    ASSUME IInv, NEW o \in OpIds, running = o, NEW res, NEW started, OpFinish(o, res, started)
    PROVE  /\ Onward
           /\ started => Elems(ops[o].waiters) \subseteq Elems(ready')
           /\ \A d \in Elems(ready') \ Elems(ready) :
                 d \in Callers /\ (d \in Elems(ops[o].waiters) \/ pc[d] \in {"asleep", "cancelled"})
<1> DEFINE u == ops[o].user
<1>1. Live(o) /\ u \in Users /\ op[u] = o /\ o # None
  BY ConstantsAssumption DEF IInv, LoopInv, OpInv, Active
<1>2. /\ ready \in Seq(Tasks) /\ ops[o].waiters \in Seq(Callers) /\ ops[o].waiters \in Seq(Tasks)
      /\ lock[u] \in Seq(Callers) /\ Reaper \in Callers /\ Callers \subseteq Tasks
  BY <1>1, ReaperFacts DEF IInv, TypeOK, Operations, Tasks
<1>3. PICK W, R, J :
        /\ ready' = ready \o W \o R \o J
        /\ W \in {<<>>, ops[o].waiters} /\ (started => W = ops[o].waiters)
        /\ R = <<>> \/ (R = <<Reaper>> /\ pc[Reaper] = "asleep")
        /\ J = <<>> \/ (J = <<Head(lock[u])>> /\ lock[u] # <<>> /\ pc[Head(lock[u])] = "cancelled")
  BY <1>1 DEF OpFinish, Completes
<1>0. <<>> \in Seq(Tasks)
  OBVIOUS
<1>4. W \in Seq(Tasks) /\ Elems(W) \subseteq Elems(ops[o].waiters) /\ Elems(ops[o].waiters) \subseteq Callers
      /\ (started => Elems(W) = Elems(ops[o].waiters))
  <2>1. Elems(ops[o].waiters) \subseteq Callers
    BY <1>2 DEF Elems
  <2>2. CASE W = ops[o].waiters
    BY <1>2, <2>1, <2>2
  <2>3. CASE W = <<>> /\ ~started
    BY <1>0, <2>1, <2>3, EmptyElems
  <2> QED BY <1>3, <2>2, <2>3
<1>5. R \in Seq(Tasks) /\ \A d \in Elems(R) : d \in Callers /\ pc[d] = "asleep"
  <2>1. CASE R = <<>>
    BY <1>0, <2>1, EmptyElems
  <2>2. CASE R = <<Reaper>> /\ pc[Reaper] = "asleep"
    BY <1>2, <2>2, SingleElems
  <2> QED BY <1>3, <2>1, <2>2
<1>6. J \in Seq(Tasks) /\ \A d \in Elems(J) : d \in Callers /\ pc[d] = "cancelled"
  <2>1. CASE J = <<>>
    BY <1>0, <2>1, EmptyElems
  <2>2. CASE J = <<Head(lock[u])>> /\ lock[u] # <<>> /\ pc[Head(lock[u])] = "cancelled"
    <3>1. PICK j : j = Head(lock[u])
      OBVIOUS
    <3>2. j \in Callers
      BY <1>2, <2>2, <3>1
    <3> QED BY <1>2, <2>2, <3>1, <3>2, SingleElems
  <2> QED BY <1>3, <2>1, <2>2
<1>7. PICK a : a = ready \o W
  OBVIOUS
<1>8. a \in Seq(Tasks) /\ Elems(a) = Elems(ready) \cup Elems(W) /\ Grows(ready, a)
  BY <1>2, <1>4, <1>7, ConcatElems, GrowsConcat
<1>9. PICK b : b = a \o R
  OBVIOUS
<1>10. b \in Seq(Tasks) /\ Elems(b) = Elems(a) \cup Elems(R) /\ Grows(a, b)
  BY <1>5, <1>8, <1>9, ConcatElems, GrowsConcat
<1>11. ready' = b \o J
  BY <1>3, <1>7, <1>9
<1>12. Elems(ready') = Elems(b) \cup Elems(J) /\ Grows(b, ready')
  BY <1>6, <1>10, <1>11, ConcatElems, GrowsConcat
<1>13. Onward
  BY <1>8, <1>10, <1>12, GrowsTwice DEF Onward
<1> QED BY <1>4, <1>5, <1>6, <1>8, <1>10, <1>12, <1>13

\* A step of an operation.
LEMMA OpStepFacts ==
    ASSUME IInv, NEW o \in OpIds, OpStep(o)
    PROVE  /\ running = o /\ running' = None /\ Live(o) /\ UNCHANGED <<pc, loc, op, lock>>
           /\ \A p \in OpIds \ {o} : ops'[p] = ops[p]
           /\ GoesOn(o) \/ Ends(o)
<1>1. /\ running = o /\ Live(o) /\ UNCHANGED <<pc, loc, op, lock>> /\ ops \in [OpIds -> Operations]
      /\ op[ops[o].user] = o /\ o # None /\ o \notin Callers
  BY OpStepForm, ConstantsAssumption DEF OpStep, IInv, LoopInv, OpInv, Active, TypeOK
<1>2. ASSUME NEW l \in Awaits, OpAwait(o, l), ~(ops[o].pc = "created" /\ ops[o].cancel),
             ~IsSpawn(o) /\ ops[o].pc \in DeletePcs => l \in DeletePcs
      PROVE  running' = None /\ (\A p \in OpIds \ {o} : ops'[p] = ops[p]) /\ GoesOn(o)
  <2>1. /\ running' = None /\ ready' = ready
        /\ ops' = [ops EXCEPT ![o].pc = l, ![o].reply = None, ![o].cancel = FALSE]
    BY <1>2 DEF OpAwait, Suspend
  <2>2. /\ ops'[o].user = ops[o].user /\ ops'[o].pc = l /\ ops'[o].kind = ops[o].kind
        /\ ops'[o].waiters = ops[o].waiters /\ ops'[o].complete = ops[o].complete
        /\ ops'[o].cancel = FALSE /\ ops'[o].st = ops[o].st /\ ops'[o].result = ops[o].result
    BY <1>1, <2>1 DEF Operations
  <2>3. \A p \in OpIds \ {o} : ops'[p] = ops[p]
    BY <1>1, <2>1
  <2> QED BY <1>2, <2>1, <2>2, <2>3 DEF GoesOn
<1>3. ASSUME NEW res \in {"ok", "raised", "cancelled"}, NEW started \in BOOLEAN,
             OpFinish(o, res, started),
             res = "raised" => ops[o].pc \in {"publish", "publishFail"},
             ~started => ops[o].pc = "created" /\ ops[o].cancel
      PROVE  running' = None /\ (\A p \in OpIds \ {o} : ops'[p] = ops[p]) /\ Ends(o)
  <2>1. PICK a : a = [IdleOp EXCEPT !.kind = ops[o].kind, !.result = res]
    OBVIOUS
  <2>2. a.kind = ops[o].kind /\ a.result = res /\ a.cancel = FALSE /\ a.pc = "done"
    BY <2>1 DEF IdleOp
  <2>3. PICK b : b = [a EXCEPT !.complete = TRUE]
    OBVIOUS
  <2>4. /\ b.kind = ops[o].kind /\ b.result = res /\ b.cancel = FALSE /\ b.pc = "done"
        /\ b.complete = TRUE
    BY <2>1, <2>3 DEF IdleOp
  <2>5. PICK d : d = [b EXCEPT !.waiters = <<>>]
    OBVIOUS
  <2>6. /\ d.kind = ops[o].kind /\ d.result = res /\ d.cancel = FALSE /\ d.pc = "done"
        /\ d.complete = TRUE
    BY <2>1, <2>3, <2>5 DEF IdleOp
  <2>7. PICK fin : fin = [ops EXCEPT ![o] = a]
    OBVIOUS
  <2>8. fin[o] = a /\ DOMAIN fin = OpIds /\ \A p \in OpIds \ {o} : fin[p] = ops[p]
    BY <1>1, <2>7
  <2>9. IF started THEN ops' = [fin EXCEPT ![o].complete = TRUE, ![o].waiters = <<>>]
        ELSE ops' = fin
    BY <1>1, <1>3, <2>1, <2>7, Zenon DEF OpFinish, Completes
  <2>10. started => ops'[o] = d /\ \A p \in OpIds \ {o} : ops'[p] = ops[p]
    <3>1. PICK g : g = [fin EXCEPT ![o].complete = TRUE]
      OBVIOUS
    <3>2. g[o] = b /\ DOMAIN g = OpIds /\ \A p \in OpIds \ {o} : g[p] = ops[p]
      BY <2>3, <2>8, <3>1
    <3>3. started => ops' = [g EXCEPT ![o].waiters = <<>>]
      BY <2>9, <3>1
    <3> QED BY <2>5, <3>2, <3>3
  <2>11. ~started => ops'[o] = a /\ \A p \in OpIds \ {o} : ops'[p] = ops[p]
    BY <2>8, <2>9
  <2>12. /\ ops'[o].pc = "done" /\ ~ops'[o].cancel /\ ops'[o].kind = ops[o].kind
         /\ ops'[o].result = res /\ (started => ops'[o].complete)
    BY <2>2, <2>6, <2>10, <2>11
  <2>13. running' = None
    BY <1>3 DEF OpFinish
  <2>14. ops'[o].complete => started
    <3>1. a.complete = FALSE
      BY <2>1 DEF IdleOp
    <3> QED BY <2>11, <3>1
  <2> QED BY <1>1, <1>3, <2>10, <2>11, <2>12, <2>13, <2>14, FinishReady DEF Ends
<1> QED BY <1>1, <1>2, <1>3, OpStepCases

\* The owner of a lock that lets it go, whatever it did under it.
LetsGo(c) == Leaves(c) \/ Collects(c) \/ Begins(c) \/ Captures(c)

\* The owner goes on or suspends, and only waiters of a lock are scheduled.
LEMMA LetsGoFacts ==
    ASSUME IInv, NEW c \in Callers, LetsGo(c)
    PROVE  /\ running = c /\ running' \in {c, None} /\ pc[c] \in LockPcs /\ OthersStay(c)
           /\ Release(loc[c].user) /\ Onward
           /\ \A d \in (Elems(ready') \ Elems(ready)) \cap Callers : pc[d] \in LockPcs \ HoldPcs
<1> DEFINE u == loc[c].user
<1>1. CASE Leaves(c) \/ Collects(c)
  <2>1. /\ running = c /\ running' \in {c, None} /\ pc[c] \in LockPcs /\ OthersStay(c)
        /\ Release(u) /\ ready' = ready \o Granted(u)
    BY <1>1 DEF Leaves, Collects, Lets
  <2> QED BY <2>1, ReleaseReady
<1>2. CASE Begins(c)
  <2>1. /\ running = c /\ running' \in {c, None} /\ pc[c] \in LockPcs /\ OthersStay(c) /\ Release(u)
    BY <1>2, BeginsFacts DEF Begins
  <2>2. PICK o \in OpIds : ready' = Append(ready, o) \o Granted(u) /\ o \notin Elems(ready)
    BY <1>2, BeginsFacts
  <2>3. o \notin Callers
    BY ConstantsAssumption
  <2> QED BY <2>1, <2>2, <2>3, StartReady
<1>3. CASE Captures(c)
  <2>1. /\ running = c /\ running' \in {c, None} /\ pc[c] \in LockPcs /\ OthersStay(c)
        /\ Release(u) /\ ready' = ready \o Granted(u)
    BY <1>3, CapturesFacts DEF LockPcs
  <2> QED BY <2>1, ReleaseReady
<1> QED BY <1>1, <1>2, <1>3 DEF LetsGo

\* What a step of a caller leaves alone.
LEMMA CallerFrame ==
    ASSUME IInv, NEW c \in Callers, CallerEffect(c)
    PROVE  /\ OthersStay(c) /\ Onward
           /\ Wakes(c) \/ (running = c /\ running' \in {c, None})
           /\ \A d \in (Elems(ready') \ Elems(ready)) \cap Callers :
                 d = c \/ pc[d] \in (LockPcs \ HoldPcs) \cup {"asleep"}
<1>1. Callers \subseteq Tasks /\ c \in Tasks /\ Reaper \in Tasks /\ Callers \cap OpIds = {}
  BY ReaperFacts, ConstantsAssumption DEF Tasks
<1>2. CASE Wakes(c)
  BY <1>1, <1>2, OnwardAppend DEF Wakes
<1>3. CASE Walks(c)
  BY <1>1, <1>3, OnwardAppend, OnwardSame DEF Walks
<1>4. CASE Asks(c)
  BY <1>4, AsksQueue, OnwardSame DEF Asks
<1>5. CASE LetsGo(c)
  BY <1>5, LetsGoFacts
<1>6. CASE Hits(c)
  <2>1. op[loc[c].user] \in OpIds /\ Onward /\ Elems(ready') \subseteq Elems(ready) \cup {op[loc[c].user]}
        /\ running = c /\ running' = None /\ OthersStay(c)
    BY <1>6, HitsFacts
  <2> QED BY <1>1, <2>1
<1>7. CASE Keeps(c)
  BY <1>7, OnwardSame DEF Keeps
<1> QED BY <1>2, <1>3, <1>4, <1>5, <1>6, <1>7 DEF CallerEffect, LetsGo

\* The other callers stay in their queues.
LEMMA CallerQueues ==
    ASSUME IInv, NEW c \in Callers, CallerEffect(c), NEW v \in Users, NEW d, d # c
    PROVE  /\ d \in Elems(lock'[v]) <=> d \in Elems(lock[v])
           /\ \A x : Before(lock'[v], x, d) => Before(lock[v], x, d)
<1>1. CASE Wakes(c) \/ Walks(c) \/ Keeps(c)
  BY <1>1 DEF Wakes, Walks, Keeps
<1>2. CASE Hits(c)
  BY <1>2, HitsFacts
<1>3. CASE Asks(c)
  BY <1>3, AsksQueue
<1>4. CASE LetsGo(c)
  BY <1>4, LetsGoFacts, ReleaseQueue
<1> QED BY <1>1, <1>2, <1>3, <1>4 DEF CallerEffect, LetsGo

\* What a step does to an operation somebody refers to.
LEMMA OperationFrame ==
    ASSUME IInv, StepEffect, NEW p \in OpIds, p \notin FreeOps
    PROVE  KeepsOp(p) \/ OpStep(p) \/ Resets
<1>1. CASE Rests \/ Takes
  BY <1>1 DEF Rests, Takes, KeepsOp
<1>2. ASSUME NEW c \in Callers, CallerEffect(c) PROVE KeepsOp(p)
  <2>1. CASE Wakes(c) \/ Walks(c) \/ Keeps(c) \/ Asks(c) \/ Leaves(c) \/ Collects(c)
    BY <2>1 DEF Wakes, Walks, Keeps, Asks, Leaves, Collects, KeepsOp
  <2>2. CASE Hits(c)
    BY <2>2, HitsFacts
  <2>3. CASE Captures(c)
    BY <2>3, CapturesFacts
  <2>4. CASE Begins(c)
    <3>1. ops'[p] = ops[p]
      BY <2>4, BeginsFacts
    <3> QED BY <3>1 DEF KeepsOp
  <2> QED BY <1>2, <2>1, <2>2, <2>3, <2>4 DEF CallerEffect
<1>3. ASSUME NEW o \in OpIds, OpReply(o) PROVE KeepsOp(p)
  BY <1>3, ReplyFacts
<1>4. ASSUME NEW o \in OpIds, OpStep(o) PROVE KeepsOp(p) \/ OpStep(p)
  <2>1. p # o => ops'[p] = ops[p]
    BY <1>4, OpStepFacts
  <2> QED BY <1>4, <2>1 DEF KeepsOp
<1> QED BY <1>1, <1>2, <1>3, <1>4 DEF StepEffect

\* What a step does to the table of operations.
LEMMA TableFrame ==
    ASSUME IInv, StepEffect
    PROVE  \/ op' = op
           \/ Resets
           \/ \E c \in Callers : Begins(c) \/ Collects(c)
<1>1. ASSUME NEW c \in Callers, CallerEffect(c), ~Begins(c), ~Collects(c) PROVE op' = op
  BY <1>1, HitsFacts, CapturesFacts DEF CallerEffect, Wakes, Walks, Keeps, Asks, Leaves
<1>2. ASSUME NEW o \in OpIds, OpReply(o) \/ OpStep(o) PROVE op' = op
  BY <1>2, ReplyFacts, OpStepFacts
<1> QED BY <1>1, <1>2 DEF StepEffect, Rests, Takes

-----------------------------------------------------------------------------
(* References stay good *)

\* Nobody refers to an operation after a restart.
LEMMA ResetRef ==
    ASSUME IInv, RefInv, Resets
    PROVE  RefInv'
<1>1. /\ \A o \in OpIds : ops'[o].result = "ok" /\ ops'[o].pc = "done"
      /\ \A u \in Users : op'[u] = None
  BY DEF Resets, NoOps, NoLabs, IdleOp
<1>2. \A c \in Callers : pc'[c] \notin LockPcs \cup {"complete", "collect"}
  BY DEF Resets, LockPcs
<1>3. ASSUME NEW c \in Callers \ {Reaper} PROVE ReferInv(c)'
  <2>1. loc'[c].op = None
    BY DEF Resets, RefInv, ReferInv
  <2> QED BY <1>2, <2>1 DEF ReferInv
<1> QED BY <1>1, <1>2, <1>3 DEF RefInv, QueuedInv, RaiseInv, DeleteInv, UserInv, DeletePcs

\* The tasks of deletes.
LEMMA TasksRef ==
    ASSUME IInv, OrderInv, RefInv, StepEffect, NEW o \in OpIds
    PROVE  RaiseInv(o)' /\ DeleteInv(o)'
<1>1. CASE o \in FreeOps
  <2>1. /\ ~Live(o) /\ (ops'[o] = ops[o] \/ (ops'[o].pc = "created" /\ ops'[o].result = "ok")
                        \/ KeepsOp(o) \/ Resets)
    <3>1. ~Live(o)
      BY <1>1 DEF FreeOps
    <3>2. ASSUME NEW c \in Callers, CallerEffect(c)
          PROVE  ops'[o] = ops[o] \/ (ops'[o].pc = "created" /\ ops'[o].result = "ok") \/ KeepsOp(o)
      BY <3>2, HitsFacts, CapturesFacts, BeginsFacts
         DEF CallerEffect, Wakes, Walks, Keeps, Asks, Leaves, Collects
    <3>3. ASSUME NEW p \in OpIds, OpReply(p) \/ OpStep(p) PROVE ops'[o] = ops[o] \/ KeepsOp(o)
      BY <3>1, <3>3, ReplyFacts, OpStepFacts
    <3> QED BY <3>1, <3>2, <3>3 DEF StepEffect, Rests, Takes
  <2>2. CASE ops'[o] = ops[o]
    BY <2>2 DEF RefInv, RaiseInv, DeleteInv, IsSpawn
  <2>3. CASE ops'[o].pc = "created" /\ ops'[o].result = "ok"
    BY <2>3 DEF RaiseInv, DeleteInv, DeletePcs
  <2>4. CASE KeepsOp(o)
    BY <2>4 DEF RefInv, RaiseInv, DeleteInv, KeepsOp, IsSpawn
  <2>5. CASE Resets
    BY <2>5, ResetRef DEF RefInv
  <2> QED BY <2>1, <2>2, <2>3, <2>4, <2>5
<1>2. CASE o \notin FreeOps
  <2>1. CASE KeepsOp(o)
    BY <2>1 DEF RefInv, RaiseInv, DeleteInv, KeepsOp, IsSpawn
  <2>2. CASE Resets
    BY <2>2, ResetRef DEF RefInv
  <2>3. CASE OpStep(o)
    <3>1. CASE GoesOn(o)
      BY <3>1 DEF RefInv, RaiseInv, DeleteInv, GoesOn, IsSpawn
    <3>2. CASE Ends(o)
      <4>1. ops[o].pc \in {"publish", "publishFail"} => IsSpawn(o)
        BY DEF RefInv, DeleteInv, DeletePcs
      <4> QED BY <3>2, <4>1 DEF RaiseInv, DeleteInv, Ends, IsSpawn, DeletePcs
    <3> QED BY <2>3, <3>1, <3>2, OpStepFacts
  <2> QED BY <1>2, <2>1, <2>2, <2>3, OperationFrame
<1> QED BY <1>1, <1>2

\* The operation of a user.
LEMMA UserRef ==
    ASSUME IInv, OrderInv, RefInv, StepEffect, NEW u \in Users
    PROVE  UserInv(u)'
<1>1. CASE op'[u] = op[u] /\ op[u] # None /\ ~Resets
  <2>1. PICK p : p = op[u]
    OBVIOUS
  <2>2. p \in OpIds /\ p \notin FreeOps
    BY <1>1, <2>1 DEF FreeOps, IInv, TypeOK
  <2>3. UserInv(u)' <=> /\ Live(p)' => ops'[p].user = u
                        /\ ~IsSpawn(p)' /\ ~Live(p)' => ops'[p].complete
    BY <1>1, <2>1 DEF UserInv, Live, IsSpawn
  <2>4. /\ Live(p) => ops[p].user = u
        /\ ~IsSpawn(p) /\ ~Live(p) => ops[p].complete
    BY <1>1, <2>1 DEF UserInv, RefInv
  <2>5. CASE KeepsOp(p)
    BY <2>3, <2>4, <2>5 DEF KeepsOp, Live, IsSpawn
  <2>6. CASE OpStep(p)
    <3>1. Live(p) /\ (GoesOn(p) \/ Ends(p))
      BY <2>2, <2>6, OpStepFacts
    <3>2. CASE GoesOn(p)
      BY <2>3, <2>4, <3>1, <3>2 DEF GoesOn, Live, Awaits, Mutating
    <3>3. CASE Ends(p)
      <4>1. ops'[p].complete \/ IsSpawn(p)
        BY <2>2, <3>3 DEF Ends, OrderInv, CancelOrder
      <4> QED BY <2>3, <3>3, <4>1 DEF Ends, Live, IsSpawn
    <3> QED BY <3>1, <3>2, <3>3
  <2> QED BY <1>1, <2>2, <2>5, <2>6, OperationFrame
<1>2. CASE Resets
  BY <1>2, ResetRef DEF RefInv
<1>3. CASE op'[u] = None
  BY <1>3 DEF UserInv
<1>4. ASSUME NEW c \in Callers, Begins(c), op'[u] # op[u]
      PROVE  UserInv(u)'
  <2>1. PICK o \in OpIds : /\ op' = [op EXCEPT ![loc[c].user] = o]
                           /\ ops'[o].user = loc[c].user /\ ops'[o].pc = "created"
    BY <1>4, BeginsFacts
  <2>2. u = loc[c].user /\ op'[u] = o
    BY <1>4, <2>1 DEF IInv, TypeOK
  <2> QED BY <2>1, <2>2 DEF UserInv, Live
<1>5. ASSUME NEW c \in Callers, Collects(c), op'[u] # op[u]
      PROVE  op'[u] = None
  BY <1>5 DEF Collects, IInv, TypeOK
<1> QED BY <1>1, <1>2, <1>3, <1>4, <1>5, TableFrame

\* Callers past `async with' queue.
LEMMA QueuedRef ==
    ASSUME IInv, RefInv, StepEffect, NEW c \in Callers
    PROVE  QueuedInv(c)'
<1> USE DEF QueuedInv
<1>1. pc[c] \in LockPcs => c \in Elems(lock[loc[c].user]) /\ loc[c].user \in Users
  BY CallerFacts DEF RefInv, UserPcs
<1>2. ASSUME UNCHANGED <<pc, loc, lock>> PROVE QueuedInv(c)'
  BY <1>1, <1>2
<1>3. ASSUME NEW d \in Callers \ {c}, CallerEffect(d) PROVE QueuedInv(c)'
  <2>1. pc'[c] = pc[c] /\ loc'[c] = loc[c]
    BY <1>3, CallerFrame DEF OthersStay
  <2> QED BY <1>1, <1>3, <2>1, CallerQueues
<1>4. ASSUME CallerEffect(c) PROVE QueuedInv(c)'
  <2>1. CASE Wakes(c)
    BY <1>1, <2>1 DEF Wakes, SameRefs, Quiet
  <2>2. CASE Walks(c)
    BY <2>2 DEF Walks, Quiet, LockPcs
  <2>3. CASE Asks(c)
    BY <2>3, AsksQueue
  <2>4. CASE Leaves(c) \/ Collects(c)
    BY <2>4 DEF Leaves, Collects, Quiet, LockPcs
  <2>5. CASE Begins(c)
    BY <2>5 DEF Begins, Quiet, LockPcs
  <2>6. CASE Captures(c)
    BY <2>6, CapturesFacts DEF LockPcs
  <2>7. CASE Hits(c)
    BY <2>7, HitsFacts
  <2>8. CASE Keeps(c)
    <3>1. pc[c] \in LockPcs
      BY <2>8 DEF Keeps, LockPcs
    <3> QED BY <1>1, <2>8, <3>1 DEF Keeps
  <2> QED BY <1>4, <2>1, <2>2, <2>3, <2>4, <2>5, <2>6, <2>7, <2>8 DEF CallerEffect
<1>5. ASSUME NEW o \in OpIds, OpReply(o) \/ OpStep(o) PROVE UNCHANGED <<pc, loc, lock>>
  BY <1>5, ReplyFacts, OpStepFacts
<1>6. CASE Resets
  BY <1>6, ResetRef DEF RefInv
<1> QED BY <1>2, <1>3, <1>4, <1>5, <1>6 DEF StepEffect, Rests, Takes

\* A task that can run still can, unless it has just run.
LEMMA StaysActive ==
    ASSUME IInv, StepEffect, ~Resets, NEW c \in Callers, Active(c), ~CallerEffect(c)
    PROVE  Active(c)'
<1>1. CASE Rests
  BY <1>1 DEF Rests, Active
<1>2. CASE Takes
  <2>1. c \in Elems(ready)
    BY <1>2, ConstantsAssumption DEF Takes, Active
  <2> QED BY <1>2, <2>1, TakesReady DEF Active
<1>3. ASSUME Onward, c \in Elems(ready) PROVE Active(c)'
  BY <1>3 DEF Onward, Grows, Active
<1>4. ASSUME NEW d \in Callers, CallerEffect(d) PROVE Active(c)'
  <2>1. Onward /\ running \in {d, None} /\ c # d /\ c # None
    BY <1>4, CallerFrame, ConstantsAssumption DEF Wakes
  <2> QED BY <1>3, <2>1 DEF Active
<1>5. ASSUME NEW o \in OpIds, OpReply(o) \/ OpStep(o) PROVE Active(c)'
  <2>1. running \in {o, None} /\ Onward
    BY <1>5, ReplyFacts, OpStepFacts, OnwardSame DEF GoesOn, Ends
  <2>2. c # None /\ c # o
    BY ConstantsAssumption
  <2> QED BY <1>3, <2>1, <2>2 DEF Active
<1> QED BY <1>1, <1>2, <1>4, <1>5 DEF StepEffect

\* Nobody stops waiting for an operation that does not end.
LEMMA StaysWaiting ==
    ASSUME IInv, StepEffect, NEW p \in OpIds, p \notin FreeOps
    PROVE  Elems(ops[p].waiters) \subseteq Elems(ops'[p].waiters) \/ OpStep(p) \/ Resets
<1>1. CASE Rests \/ Takes
  BY <1>1 DEF Rests, Takes
<1>2. ASSUME NEW c \in Callers, CallerEffect(c)
      PROVE  Elems(ops[p].waiters) \subseteq Elems(ops'[p].waiters)
  <2>1. CASE Wakes(c) \/ Walks(c) \/ Keeps(c) \/ Asks(c) \/ Leaves(c) \/ Collects(c)
    BY <2>1 DEF Wakes, Walks, Keeps, Asks, Leaves, Collects
  <2>2. CASE Hits(c)
    BY <2>2, HitsFacts
  <2>3. CASE Captures(c)
    BY <2>3, CapturesFacts
  <2>4. CASE Begins(c)
    <3>1. ops'[p] = ops[p]
      BY <2>4, BeginsFacts
    <3> QED BY <3>1
  <2> QED BY <1>2, <2>1, <2>2, <2>3, <2>4 DEF CallerEffect
<1>3. ASSUME NEW o \in OpIds, OpReply(o) PROVE Elems(ops[p].waiters) \subseteq Elems(ops'[p].waiters)
  BY <1>3, ReplyFacts
<1>4. ASSUME NEW o \in OpIds, OpStep(o)
      PROVE  Elems(ops[p].waiters) \subseteq Elems(ops'[p].waiters) \/ OpStep(p)
  <2>1. p # o => ops'[p] = ops[p]
    BY <1>4, OpStepFacts
  <2> QED BY <1>4, <2>1
<1> QED BY <1>1, <1>2, <1>3, <1>4 DEF StepEffect

\* References of callers that do not move.
LEMMA ReferOthers ==
    ASSUME IInv, OrderInv, RefInv, StepEffect, ~Resets, NEW c \in Callers \ {Reaper},
           ~CallerEffect(c), pc'[c] = pc[c], loc'[c] = loc[c]
    PROVE  ReferInv(c)'
<1>1. ReferInv(c)
  BY DEF RefInv
<1>2. CASE loc[c].op = None
  BY <1>1, <1>2 DEF ReferInv
<1>3. CASE loc[c].op # None
  <2>1. PICK p : p = loc[c].op
    OBVIOUS
  <2>2. p \in OpIds /\ p \notin FreeOps /\ ~IsSpawn(p) /\ p # None
    BY <1>3, <2>1 DEF FreeOps, IInv, TypeOK, Locals, OrderInv, CallerOrder
  <2>3. /\ pc[c] \in {"complete", "collect"} /\ (Live(p) => ops[p].user = loc[c].user)
        /\ pc[c] = "complete" /\ ~Active(c) => Live(p) /\ c \in Elems(ops[p].waiters)
    BY <1>1, <1>3, <2>1 DEF ReferInv
  <2>4. ASSUME Live(p)' => ops'[p].user = loc[c].user,
               pc[c] = "complete" /\ ~Active(c)' => Live(p)' /\ c \in Elems(ops'[p].waiters)
        PROVE  ReferInv(c)'
    BY <2>1, <2>2, <2>3, <2>4 DEF ReferInv, Live
  <2>5. ~Active(c)' => ~Active(c)
    BY StaysActive
  <2>6. CASE KeepsOp(p) /\ Elems(ops[p].waiters) \subseteq Elems(ops'[p].waiters)
    BY <2>3, <2>4, <2>5, <2>6 DEF KeepsOp, Live
  <2>7. CASE OpStep(p)
    <3>1. Live(p) /\ (GoesOn(p) \/ Ends(p))
      BY <2>2, <2>7, OpStepFacts
    <3>2. CASE GoesOn(p)
      BY <2>3, <2>4, <2>5, <3>1, <3>2 DEF GoesOn, Live, Awaits, Mutating
    <3>3. CASE Ends(p)
      <4>1. ops'[p].complete
        BY <2>2, <3>3 DEF Ends, OrderInv, CancelOrder
      <4>2. pc[c] = "complete" => Active(c)'
        BY <2>3, <2>5, <3>3, <4>1 DEF Ends, Active
      <4> QED BY <2>4, <3>3, <4>2 DEF Ends, Live
    <3> QED BY <3>1, <3>2, <3>3
  <2> QED BY <2>2, <2>6, <2>7, OperationFrame, StaysWaiting
<1> QED BY <1>2, <1>3

\* References of the caller that moves.
LEMMA ReferOwn ==
    ASSUME IInv, OrderInv, RefInv, NEW c \in Callers \ {Reaper}, CallerEffect(c)
    PROVE  ReferInv(c)'
<1>1. ReferInv(c)
  BY DEF RefInv
<1>2. ASSUME loc'[c].op = None, pc'[c] \notin {"complete", "collect"} PROVE ReferInv(c)'
  BY <1>2 DEF ReferInv
<1>3. CASE Wakes(c)
  BY <1>1, <1>2, <1>3 DEF Wakes, Quiet, SameRefs, ReferInv, LockPcs
<1>4. CASE Walks(c)
  BY <1>1, <1>2, <1>4 DEF Walks, Quiet, ReferInv, LockPcs
<1>5. CASE Asks(c)
  <2>1. CASE pc'[c] # "collect"
    BY <1>1, <1>2, <1>5, <2>1 DEF Asks, Quiet, Starts, SameRefs, ReferInv, LockPcs
  <2>2. CASE pc'[c] = "collect"
    <3>1. pc[c] = "complete" /\ SameRefs(c) /\ ops' = ops
      BY <1>5, <2>2 DEF Asks, Starts
    <3> QED BY <1>1, <2>2, <3>1 DEF SameRefs, ReferInv, Live
  <2> QED BY <2>1, <2>2
<1>6. CASE Leaves(c)
  BY <1>1, <1>2, <1>6 DEF Leaves, Lets, Quiet, ReferInv, LockPcs
<1>7. CASE Collects(c)
  BY <1>1, <1>2, <1>7 DEF Collects, Lets, Quiet, ReferInv, LockPcs
<1>8. CASE Begins(c)
  BY <1>1, <1>2, <1>8 DEF Begins, Starts, Quiet, ReferInv, LockPcs
<1>9. CASE Captures(c)
  <2>1. PICK u, p : u = loc[c].user /\ p = op[u]
    OBVIOUS
  <2>2. /\ u \in Users /\ p \in OpIds /\ p # None /\ pc[c] = "capture" /\ pc'[c] = "complete"
        /\ running' = IF ops[p].complete THEN c ELSE None
        /\ loc'[c].op = p /\ loc'[c].user = u /\ KeepsOp(p)
        /\ ~ops[p].complete => c \in Elems(ops'[p].waiters)
    BY <1>9, <2>1, CapturesFacts
  <2>3. c \in Elems(lock[u]) /\ Joins(c)
    BY <2>1, <2>2 DEF RefInv, QueuedInv, LockPcs, Joins
  <2>4. ~IsSpawn(p)
    BY <2>1, <2>2, <2>3 DEF OrderInv, QueueKind
  <2>5. (Live(p) => ops[p].user = u) /\ (~Live(p) => ops[p].complete)
    BY <2>1, <2>2, <2>4 DEF RefInv, UserInv
  <2>6. ~Active(c)' => ~ops[p].complete
    BY <2>2 DEF Active
  <2> QED BY <2>2, <2>5, <2>6 DEF ReferInv, KeepsOp, Live
<1>10. CASE Hits(c)
  <2>1. pc[c] = "cancel" /\ pc'[c] = "cancelled" /\ loc' = loc
    BY <1>10, HitsFacts
  <2> QED BY <1>1, <1>2, <2>1 DEF ReferInv
<1>11. CASE Keeps(c)
  <2>1. CASE pc[c] # "collect"
    BY <1>1, <1>2, <1>11, <2>1 DEF Keeps, ReferInv
  <2>2. CASE pc[c] = "collect"
    <3>1. loc[c].op # None /\ loc[c].op \in OpIds /\ ops[loc[c].op].result = "raised"
      BY <1>1, <1>11, <2>2 DEF Keeps, ReferInv, IInv, TypeOK, Locals
    <3> QED BY <3>1 DEF RefInv, RaiseInv, OrderInv, CallerOrder
  <2> QED BY <2>1, <2>2
<1> QED BY <1>3, <1>4, <1>5, <1>6, <1>7, <1>8, <1>9, <1>10, <1>11 DEF CallerEffect

\* A caller moves only in a step of its own.
LEMMA OneMoves ==
    ASSUME IInv, StepEffect, ~Resets, NEW c \in Callers, ~CallerEffect(c)
    PROVE  pc'[c] = pc[c] /\ loc'[c] = loc[c]
<1>1. ASSUME NEW d \in Callers, CallerEffect(d) PROVE pc'[c] = pc[c] /\ loc'[c] = loc[c]
  <2>1. OthersStay(d) /\ c # d
    BY <1>1, CallerFrame
  <2> QED BY <2>1 DEF OthersStay
<1>2. ASSUME NEW o \in OpIds, OpReply(o) \/ OpStep(o) PROVE pc'[c] = pc[c] /\ loc'[c] = loc[c]
  BY <1>2, ReplyFacts, OpStepFacts
<1> QED BY <1>1, <1>2 DEF StepEffect, Rests, Takes

\* References stay good.
LEMMA RefStep ==
    ASSUME IInv, OrderInv, RefInv, StepEffect
    PROVE  RefInv'
<1>1. CASE Resets
  BY <1>1, ResetRef
<1>2. CASE ~Resets
  <2>1. ASSUME NEW c \in Callers \ {Reaper} PROVE ReferInv(c)'
    <3>1. CASE CallerEffect(c)
      BY <3>1, ReferOwn
    <3>2. CASE ~CallerEffect(c)
      BY <1>2, <3>2, OneMoves, ReferOthers
    <3> QED BY <3>1, <3>2
  <2> QED BY <2>1, QueuedRef, TasksRef, UserRef DEF RefInv
<1> QED BY <1>1, <1>2

-----------------------------------------------------------------------------
(* What callers can do next *)

\* A caller is in the queue of its own user's lock only.
LEMMA OwnLock ==
    ASSUME IInv, NEW c \in Callers, NEW v \in Users, c \in Elems(lock[v])
    PROVE  pc[c] \in LockPcs /\ loc[c].user = v
  BY DEF IInv, LockInv

\* The owner of a lock that runs is ahead of everybody in its queue.
LEMMA OwnerFirst ==
    ASSUME IInv, NEW c \in Callers, running = c, pc[c] \in LockPcs, NEW u, u = loc[c].user
    PROVE  /\ u \in Users /\ c \in Elems(lock[u])
           /\ \A e \in Elems(lock[u]) \ {c} : Before(lock[u], c, e)
<1>1. u \in Users /\ lock[u] # <<>> /\ Head(lock[u]) = c
  BY DEF IInv, LocalsInv, LockInv, UserPcs, Active
<1>2. lock[u] \in Seq(Callers) /\ Distinct(lock[u])
  BY <1>1 DEF IInv, TypeOK, LockInv
<1>3. Elems(lock[u]) = Elems(Tail(lock[u])) \cup {c} /\ c \notin Elems(Tail(lock[u]))
  BY <1>1, <1>2, TailElems
<1>4. ASSUME NEW e \in Elems(lock[u]) \ {c} PROVE Before(lock[u], c, e)
  BY <1>1, <1>2, <1>3, BeforeTail
<1> QED BY <1>1, <1>3, <1>4

\* Nobody who starts an operation queues behind its owner, if it clears one.
LEMMA OwnerClears ==
    ASSUME IInv, OrderInv, NEW c \in Callers, running = c, pc[c] \in LockPcs,
           NEW u, u = loc[c].user, op[u] # None, Clears(c, u)
    PROVE  \A e \in Elems(lock[u]) \ {c} : ~Starts(e)
<1>1. u \in Users /\ \A e \in Elems(lock[u]) \ {c} : Before(lock[u], c, e)
  BY OwnerFirst
<1>2. ASSUME NEW e, Before(lock[u], c, e) PROVE ~Starts(e)
  BY <1>1, <1>2 DEF Before, OrderInv, QueueOrder
<1> QED BY <1>1, <1>2

\* How callers come to where they wait, and to where they collect.
LEMMA HowItMoves ==
    ASSUME IInv, OrderInv, RefInv, NEW c \in Callers, CallerEffect(c)
    PROVE  /\ Starts(c)' => Asks(c)
           /\ pc'[c] = "capture" => Asks(c) /\ pc[c] = "wait" /\ SameRefs(c)
           /\ pc'[c] = "complete" => Captures(c)
           /\ pc'[c] = "collect" => Asks(c) /\ pc[c] = "complete" /\ SameRefs(c)
           /\ pc'[c] = "waitReport" => /\ pc[c] \in {"collect", "waitReport"} /\ SameRefs(c)
                                       /\ UNCHANGED <<op, lock, ops>>
                                       /\ pc[c] = "collect" => ops[loc[c].op].result = "raised"
           /\ pc'[c] = "wait" => Walks(c) \/ (Begins(c) /\ c # Reaper)
           /\ pc'[c] = "deleted" =>
                 \/ Leaves(c) /\ c # Reaper /\ op[loc[c].user] # loc[c].op
                    /\ pc[c] \in {"collect", "waitReport"} /\ loc'[c].user = loc[c].user /\ running' = c
                 \/ Collects(c) /\ loc'[c].user = loc[c].user /\ running' = c
<1> USE DEF Quiet, LockPcs
<1>1. CASE Wakes(c)
  BY <1>1 DEF Wakes, Starts
<1>2. CASE Walks(c)
  BY <1>2 DEF Walks, Starts
<1>3. CASE Asks(c)
  BY <1>3 DEF Asks, Starts
<1>4. CASE Leaves(c)
  BY <1>4 DEF Leaves, Starts
<1>5. CASE Collects(c)
  BY <1>5 DEF Collects, Starts
<1>6. CASE Begins(c)
  BY <1>6 DEF Begins, Starts
<1>7. CASE Captures(c)
  <2>1. pc'[c] = "complete"
    BY <1>7, CapturesFacts
  <2> QED BY <1>7, <2>1 DEF Starts
<1>8. CASE Hits(c)
  <2>1. pc'[c] = "cancelled"
    BY <1>8, HitsFacts
  <2> QED BY <2>1 DEF Starts
<1>9. CASE Keeps(c)
  BY <1>9 DEF Keeps, Starts, SameRefs
<1> QED BY <1>1, <1>2, <1>3, <1>4, <1>5, <1>6, <1>7, <1>8, <1>9 DEF CallerEffect

\* A caller in a queue does not begin to start, or to join, an operation.
LEMMA QueueCalm ==
    ASSUME IInv, OrderInv, RefInv, StepEffect, ~Resets, NEW e \in Callers, NEW v \in Users,
           e \in Elems(lock[v])
    PROVE  (Starts(e)' => Starts(e)) /\ (Joins(e)' => Joins(e))
<1>1. CASE CallerEffect(e)
  <2>1. ~Asks(e)
    BY AsksQueue
  <2> QED BY <1>1, <2>1, HowItMoves DEF Joins
<1>2. CASE ~CallerEffect(e)
  BY <1>2, OneMoves DEF Starts, Joins
<1> QED BY <1>1, <1>2

\* A caller whose operation was cleared by another can run, or queues.
LEMMA LateFacts ==
    ASSUME IInv, OrderInv, RefInv, NEW c \in Callers, Late(c), NEW u, u = loc[c].user
    PROVE  /\ u \in Users /\ c # Reaper /\ loc[c].op \in OpIds /\ loc[c].op # None
           /\ ~Live(loc[c].op) /\ ~IsSpawn(loc[c].op)
           /\ pc[c] \in {"complete", "collect"}
           /\ pc[c] = "complete" => Active(c) /\ \A v \in Users : c \notin Elems(lock[v])
           /\ pc[c] = "collect" => c \in Elems(lock[u])
<1>1. c # Reaper /\ loc[c].op # None /\ op[u] # loc[c].op
  BY DEF Late, Refers
<1>2. /\ ReferInv(c) /\ pc[c] \in {"complete", "collect"} /\ loc[c].op \in OpIds /\ u \in Users
      /\ ~IsSpawn(loc[c].op)
  BY <1>1, CallerFacts DEF RefInv, ReferInv, UserPcs, LockPcs, IInv, TypeOK, Locals, OrderInv, CallerOrder
<1>3. ~Live(loc[c].op)
  BY <1>1, <1>2 DEF ReferInv, IInv, OpInv
<1>4. pc[c] = "complete" => Active(c)
  BY <1>2, <1>3 DEF ReferInv
<1>5. pc[c] = "complete" => \A v \in Users : c \notin Elems(lock[v])
  BY OwnLock DEF LockPcs
<1>6. pc[c] = "collect" => c \in Elems(lock[u])
  BY DEF RefInv, QueuedInv, LockPcs
<1> QED BY <1>1, <1>2, <1>3, <1>4, <1>5, <1>6

-----------------------------------------------------------------------------
(* Races are lost by nobody who matters *)

\* What a caller that runs finds, it still finds after the steps of others.
LEMMA RunsAlone ==
    ASSUME IInv, StepEffect, ~Resets, NEW c \in Callers, running = c, ~CallerEffect(c)
    PROVE  Rests
<1>1. c # None /\ c \notin OpIds
  BY ConstantsAssumption
<1>2. \A d \in Callers : ~CallerEffect(d)
  BY <1>1, CallerFrame DEF Wakes
<1>3. \A o \in OpIds : ~OpReply(o) /\ ~OpStep(o)
  BY <1>1, ReplyFacts, OpStepFacts
<1> QED BY <1>1, <1>2, <1>3 DEF StepEffect, Takes

\* Whoever returns from wait() into delete_lab goes on at once, before a task that
\* was started meanwhile.
LEMMA DeletedStep ==
    ASSUME IInv, OrderInv, RefInv, RaceInv, StepEffect, ~Resets, NEW c \in Callers
    PROVE  DeletedInv(c)'
<1>1. CASE pc'[c] = "deleted" /\ CallerEffect(c)
  <2>1. CASE /\ Leaves(c) /\ c # Reaper /\ op[loc[c].user] # loc[c].op
             /\ pc[c] \in {"collect", "waitReport"} /\ loc'[c].user = loc[c].user /\ running' = c
    <3>1. PICK u : u = loc[c].user
      OBVIOUS
    <3>2. loc[c].op # None
      BY <2>1 DEF IInv, OpInv
    <3>3. Late(c) /\ LateOp(c)
      BY <2>1, <3>2 DEF Late, Refers, RaceInv
    <3>4. op' = op /\ ops' = ops
      BY <2>1 DEF Leaves
    <3>5. op[u] # None => ops[op[u]].pc \in {"created", "done"}
      BY <3>1, <3>3 DEF LateOp
    <3> QED BY <2>1, <3>1, <3>4, <3>5 DEF DeletedInv
  <2>2. CASE Collects(c) /\ loc'[c].user = loc[c].user /\ running' = c
    <3>1. PICK u : u = loc[c].user
      OBVIOUS
    <3>2. pc[c] \in LockPcs
      BY <2>2 DEF Collects, Lets
    <3>3. u \in Users
      BY <3>1, <3>2, CallerFacts DEF UserPcs
    <3>4. op'[u] = None
      BY <2>2, <3>1, <3>3 DEF Collects, IInv, TypeOK
    <3> QED BY <2>2, <3>1, <3>4 DEF DeletedInv
  <2> QED BY <1>1, <2>1, <2>2, HowItMoves
<1>2. CASE pc'[c] = "deleted" /\ ~CallerEffect(c)
  <2>1. pc[c] = "deleted" /\ loc'[c] = loc[c]
    BY <1>2, OneMoves
  <2>2. running = c /\ DeletedInv(c)
    BY <2>1 DEF RaceInv, DeletedInv
  <2>3. Rests
    BY <1>2, <2>2, RunsAlone
  <2> QED BY <2>1, <2>2, <2>3 DEF Rests, DeletedInv
<1> QED BY <1>1, <1>2 DEF DeletedInv

\* A step that is not c's own does not make c current again.
LEMMA StaysLate ==
    ASSUME IInv, OrderInv, RefInv, StepEffect, ~Resets, NEW c \in Callers, ~CallerEffect(c), Late(c)
    PROVE  Late(c)'
<1>1. PICK u, p : u = loc[c].user /\ p = loc[c].op
  OBVIOUS
<1>2. c # Reaper /\ p # None /\ op[u] # p /\ u \in Users /\ p \notin FreeOps
  BY <1>1, LateFacts DEF Late, Refers, FreeOps
<1>3. loc'[c].user = u /\ loc'[c].op = p
  BY <1>1, OneMoves
<1>4. op'[u] # p
  <2>1. ASSUME NEW d \in Callers, Begins(d) PROVE op'[u] # p
    <3>1. PICK o \in FreeOps : op' = [op EXCEPT ![loc[d].user] = o]
      BY <2>1, BeginsFacts
    <3> QED BY <1>2, <3>1 DEF IInv, TypeOK
  <2>2. ASSUME NEW d \in Callers, Collects(d) PROVE op'[u] # p
    <3>1. op' = [op EXCEPT ![loc[d].user] = None]
      BY <2>2 DEF Collects
    <3> QED BY <1>2, <3>1 DEF IInv, TypeOK
  <2> QED BY <1>2, <2>1, <2>2, TableFrame
<1> QED BY <1>2, <1>3, <1>4 DEF Late, Refers

\* A caller that has just begun to wait is not scheduled.
LEMMA NotWoken ==
    ASSUME IInv, IInv', NEW c \in Callers, Captures(c)
    PROVE  c \notin Elems(ready')
<1>1. PICK p : p = op[loc[c].user]
  OBVIOUS
<1>2. /\ p \in OpIds /\ running' = IF ops[p].complete THEN c ELSE None
      /\ ~ops[p].complete => c \in Elems(ops'[p].waiters)
  BY <1>1, CapturesFacts
<1>3. CASE ops[p].complete
  BY <1>2, <1>3 DEF IInv, LoopInv
<1>4. CASE ~ops[p].complete
  BY <1>2, <1>4 DEF IInv, WaitInv, Active
<1> QED BY <1>3, <1>4

\* What c can say of those that collect its operation.
WokenFor(c, e) == /\ e \in Elems(ready) => Before(ready, c, e)
                  /\ running = e => Elems(lock[loc[c].user]) \subseteq {e}

\* Waiters woken together collect in the order in which they were woken.
LEMMA WokenStep ==
    ASSUME IInv, IInv', OrderInv, RefInv, RaceInv, StepEffect, ~Resets, NEW c \in Callers
    PROVE  WokenInv(c)'
<1> SUFFICES ASSUME Refers(c)', pc'[c] = "complete", c \in Elems(ready'), ~Late(c)',
                    NEW e \in Callers, pc'[e] = "collect", loc'[e].op = loc'[c].op,
                    loc'[e].user = loc'[c].user
             PROVE  WokenFor(c, e)'
  BY DEF WokenInv, WokenFor
<1>1. ~CallerEffect(c)
  BY HowItMoves, NotWoken
<1>2. /\ pc[c] = "complete" /\ loc'[c] = loc[c] /\ Refers(c) /\ ~Late(c)
  BY <1>1, OneMoves, StaysLate DEF Refers
<1>3. PICK u, p : u = loc[c].user /\ p = loc[c].op
  OBVIOUS
<1>4. u \in Users /\ p \in OpIds /\ e # c
  BY <1>2, <1>3, CallerFacts DEF UserPcs, Refers, IInv, TypeOK, Locals
<1>5. ASSUME c \in Elems(ready), pc[e] = "collect", loc'[e] = loc[e]
      PROVE  WokenFor(c, e)
  BY <1>2, <1>5 DEF RaceInv, WokenInv, WokenFor
<1>6. CASE Rests
  BY <1>2, <1>5, <1>6 DEF Rests, WokenFor
<1>7. CASE Takes
  BY <1>2, <1>5, <1>7, TakesReady DEF Takes, WokenFor
<1>8. ASSUME NEW d \in Callers, CallerEffect(d) PROVE WokenFor(c, e)'
  <2>1. /\ d # c /\ OthersStay(d) /\ Onward /\ running' \in {d, None} /\ c \in Elems(ready)
    BY <1>1, <1>2, <1>8, CallerFrame DEF Wakes, LockPcs
  <2>2. CASE e # d
    <3>1. WokenFor(c, e) /\ running' # e
      BY <1>5, <2>1, <2>2, ConstantsAssumption DEF OthersStay
    <3>2. e \in Elems(ready') => Before(ready', c, e)
      BY <2>1, <3>1 DEF Onward, Grows, WokenFor
    <3> QED BY <3>1, <3>2 DEF WokenFor
  <2>3. CASE e = d
    <3>1. Asks(e) /\ loc'[e].user = u
      BY <1>2, <1>3, <1>8, <2>3, HowItMoves
    <3>2. /\ e \notin Elems(ready')
          /\ running' = e => Elems(lock'[u]) = {e}
      BY <3>1, AsksQueue
    <3> QED BY <1>2, <1>3, <3>2 DEF WokenFor
  <2> QED BY <2>2, <2>3
<1>9. ASSUME NEW o \in OpIds, OpReply(o) PROVE WokenFor(c, e)'
  <2>1. /\ c \in Elems(ready) /\ pc[e] = "collect" /\ loc' = loc /\ Onward /\ running' = None
    BY <1>9, ReplyFacts, ConstantsAssumption
  <2> QED BY <1>5, <2>1, ConstantsAssumption DEF WokenFor, Onward, Grows
<1>10. ASSUME NEW o \in OpIds, OpStep(o) PROVE WokenFor(c, e)'
  <2>1. /\ pc' = pc /\ loc' = loc /\ running' = None /\ Onward /\ Live(o) /\ (GoesOn(o) \/ Ends(o))
    BY <1>10, OpStepFacts, OnwardSame DEF GoesOn, Ends
  <2>2. c \in Elems(ready)
    <3>1. CASE GoesOn(o)
      BY <3>1 DEF GoesOn
    <3>2. CASE Ends(o)
      <4>1. ASSUME c \notin Elems(ready) PROVE FALSE
        <5>1. c \in Elems(ops[o].waiters)
          BY <1>2, <3>2, <4>1 DEF Ends
        <5>2. loc[c].op = o
          BY <5>1 DEF IInv, WaitInv
        <5>3. pc[e] = "collect" /\ loc[e].op = o
          BY <2>1, <5>2
        <5> QED BY <2>1, <5>3 DEF IInv, OpInv
      <4> QED BY <4>1
    <3> QED BY <2>1, <3>1, <3>2
  <2> QED BY <1>5, <2>1, <2>2, ConstantsAssumption DEF WokenFor, Onward, Grows
<1> QED BY <1>6, <1>7, <1>8, <1>9, <1>10 DEF StepEffect

\* c asks for the lock again, late.
LEMMA LateAsks ==
    ASSUME IInv, OrderInv, RefInv, RaceInv, NEW c \in Callers, Late(c)', CallerEffect(c),
           pc'[c] \in {"complete", "collect"}
    PROVE  LateOp(c)' /\ LateQueue(c)' /\ LateAhead(c)'
<1>1. ~Captures(c)
  <2>1. ASSUME Captures(c) PROVE op'[loc'[c].user] = loc'[c].op
    BY <2>1, CapturesFacts
  <2> QED BY <2>1 DEF Late
<1>2. Asks(c) /\ pc[c] = "complete" /\ SameRefs(c) /\ pc'[c] = "collect"
  BY <1>1, HowItMoves
<1>3. PICK u : u = loc[c].user
  OBVIOUS
<1>4. /\ running = c /\ op' = op /\ ops' = ops /\ OthersStay(c) /\ loc'[c].user = u
  BY <1>2, <1>3 DEF Asks, SameRefs
<1>5. Late(c)
  BY <1>2, <1>3, <1>4 DEF Late, Refers, SameRefs
<1>6. /\ c \notin Elems(lock[u]) /\ Elems(lock'[u]) = Elems(lock[u]) \cup {c}
      /\ \A x, y : Before(lock'[u], x, y) => Before(lock[u], x, y) \/ (x \in Elems(lock[u]) /\ y = c)
      /\ Elems(lock[u]) = {} <=> running' = c
      /\ lock[u] \in Seq(Callers) /\ u \in Users
  <2>1. Asks(c) /\ u = loc'[c].user
    BY <1>2, <1>4
  <2>2. u \in Users /\ c \notin Elems(lock[u])
    BY <2>1, AsksQueue
  <2>3. lock[u] \in Seq(Callers)
    BY <2>2 DEF IInv, TypeOK
  <2> QED BY <2>1, <2>2, <2>3, AsksQueue
<1>7. \/ Elems(lock[u]) = {}
      \/ op[u] # None /\ ops[op[u]].cancel /\ \A d \in Elems(lock[u]) : ~Starts(d)
  BY <1>2, <1>3, <1>4, <1>5, <1>6 DEF RaceInv, LateQueue
<1>8. LateOp(c)'
  <2>1. op[u] # None => ops[op[u]].pc \in {"created", "done"}
    BY <1>3, <1>5 DEF RaceInv, LateOp
  <2> QED BY <1>4, <1>6, <1>7, <2>1 DEF LateOp
<1>9. LateQueue(c)'
  BY <1>2 DEF LateQueue
<1>10. LateAhead(c)'
  <2>1. ASSUME NEW d, Before(lock'[u], d, c) PROVE d \in Elems(lock[u])
    BY <1>6, <2>1, BeforeElems
  <2>2. ASSUME NEW d \in Callers, Before(lock'[u], d, c) PROVE ~Starts(d)'
    <3>1. d \in Elems(lock[u]) /\ d # c /\ ~Starts(d)
      BY <1>6, <1>7, <2>1, <2>2
    <3> QED BY <1>4, <3>1 DEF OthersStay, Starts
  <2> QED BY <1>4, <2>2 DEF LateAhead
<1> QED BY <1>8, <1>9, <1>10

\* The operations go on.
LEMMA LateTasks ==
    ASSUME IInv, OrderInv, RefInv, RaceInv, NEW c \in Callers, Late(c)',
           Rests \/ Takes \/ \E o \in OpIds : OpReply(o) \/ OpStep(o)
    PROVE  LateOp(c)' /\ LateQueue(c)' /\ LateAhead(c)'
<1>1. UNCHANGED <<pc, loc, op, lock>>
  BY ReplyFacts, OpStepFacts DEF Rests, Takes
<1>2. PICK u, p : u = loc[c].user /\ p = op[u]
  OBVIOUS
<1>3. Late(c) /\ LateOp(c) /\ LateQueue(c) /\ LateAhead(c)
  BY <1>1 DEF Late, Refers, RaceInv
<1>4. LateAhead(c)'
  BY <1>1, <1>3 DEF LateAhead, Starts
<1>5. /\ u \in Users /\ p \in OpIds \cup {None} /\ c # None /\ c \notin OpIds
      /\ \A v \in Users : Elems(lock[v]) \subseteq Callers
      /\ None \notin OpIds /\ None \notin Callers
  BY <1>2, <1>3, LateFacts, ConstantsAssumption DEF IInv, TypeOK, Elems
<1>6. CASE Rests
  BY <1>1, <1>3, <1>4, <1>6 DEF Rests, LateOp, LateQueue, Starts
<1>7. CASE Takes
  <2>1. LateOp(c)'
    <3>1. Before(ready, c, p) => running' = c \/ Before(ready', c, p)
      BY <1>7, TakesReady
    <3>2. ops' = ops /\ running = None
      BY <1>7 DEF Takes
    <3> QED BY <1>1, <1>2, <1>3, <1>5, <3>1, <3>2 DEF LateOp
  <2>2. LateQueue(c)'
    <3>1. ops' = ops /\ running = None
      BY <1>7 DEF Takes
    <3>2. Elems(lock[u]) \subseteq {running} => Elems(lock[u]) = {}
      BY <1>5, <3>1
    <3> QED BY <1>1, <1>2, <1>3, <3>1, <3>2 DEF LateQueue, Starts
  <2> QED BY <1>4, <2>1, <2>2
<1>8. ASSUME NEW o \in OpIds, OpReply(o) \/ OpStep(o),
             p # None => ops'[p].pc = ops[p].pc /\ ops'[p].cancel = ops[p].cancel
      PROVE  LateOp(c)' /\ LateQueue(c)'
  <2>1. running \in {o, None} /\ running' = None /\ Onward
    BY <1>8, ReplyFacts, OpStepFacts, OnwardSame DEF GoesOn, Ends
  <2>2. LateOp(c)'
    <3>1. Before(ready, c, p) => Before(ready', c, p)
      BY <2>1 DEF Onward, Grows
    <3>2. running # c
      BY <1>5, <2>1
    <3> QED BY <1>1, <1>2, <1>3, <1>8, <3>1, <3>2 DEF LateOp
  <2>3. LateQueue(c)'
    <3>1. Elems(lock[u]) \subseteq {running} => Elems(lock[u]) = {}
      BY <1>5, <2>1, ConstantsAssumption
    <3> QED BY <1>1, <1>2, <1>3, <1>8, <3>1 DEF LateQueue, Starts
  <2> QED BY <2>2, <2>3
<1>9. ASSUME NEW o \in OpIds, OpReply(o) PROVE LateOp(c)' /\ LateQueue(c)'
  BY <1>5, <1>8, <1>9, ReplyFacts DEF KeepsOp
<1>10. ASSUME NEW o \in OpIds, OpStep(o) PROVE LateOp(c)' /\ LateQueue(c)'
  <2>1. CASE p # o
    BY <1>5, <1>8, <1>10, <2>1, OpStepFacts
  <2>2. CASE p = o
    <3>1. running = o /\ Live(o) /\ o # None /\ o \notin Elems(ready) /\ ready \in Seq(Tasks)
      BY <1>5, <1>10, OpStepFacts DEF IInv, LoopInv, TypeOK
    <3>2. ~Before(ready, c, o)
      BY <3>1, BeforeElems
    <3>3. c \in Elems(lock[u]) /\ ops[o].pc = "created" /\ ops[o].cancel
      BY <1>2, <1>3, <1>5, <2>2, <3>1, <3>2 DEF LateOp, Live
    <3>4. ops'[o].pc = "done"
      BY <1>10, <3>3, OpStepFacts DEF GoesOn, Ends
    <3>5. LateOp(c)'
      BY <1>1, <1>2, <2>2, <3>3, <3>4 DEF LateOp
    <3>6. pc[c] # "complete"
      BY <1>3, <1>5, <3>3, LateFacts
    <3> QED BY <1>1, <3>5, <3>6 DEF LateQueue
  <2> QED BY <2>1, <2>2
<1> QED BY <1>4, <1>6, <1>7, <1>9, <1>10

\* No caller takes a cancellation back.
LEMMA CancelKept ==
    ASSUME IInv, NEW d \in Callers, CallerEffect(d), NEW p \in OpIds, p \notin FreeOps, ops[p].cancel
    PROVE  ops'[p].cancel
<1>1. CASE Wakes(d) \/ Walks(d) \/ Keeps(d) \/ Asks(d) \/ Leaves(d) \/ Collects(d)
  BY <1>1 DEF Wakes, Walks, Keeps, Asks, Leaves, Collects
<1>2. CASE Hits(d)
  <2>1. p # op[loc[d].user] => ops'[p] = ops[p]
    BY <1>2, HitsFacts
  <2> QED BY <1>2, <2>1, HitsFacts
<1>3. CASE Captures(d)
  <2>1. ops'[p].cancel = ops[p].cancel
    BY <1>3, CapturesFacts
  <2> QED BY <2>1
<1>4. CASE Begins(d)
  <2>1. ops'[p] = ops[p]
    BY <1>4, BeginsFacts
  <2> QED BY <2>1
<1> QED BY <1>1, <1>2, <1>3, <1>4 DEF CallerEffect

\* A caller that owns the lock of a user lets it go, or cancels that user's
\* operation, or keeps it for one that is over.
LEMMA OwnerLets ==
    ASSUME IInv, NEW d \in Callers, CallerEffect(d), running = d, NEW u \in Users, d \in Elems(lock[u])
    PROVE  /\ loc[d].user = u /\ pc[d] \in LockPcs
           /\ \/ LetsGo(d) /\ Elems(lock'[u]) = Elems(lock[u]) \ {d}
              \/ Hits(d)
              \/ Keeps(d)
<1>1. pc[d] \in LockPcs /\ loc[d].user = u
  BY OwnLock
<1>2. ~Walks(d) /\ ~Asks(d) /\ ~Wakes(d)
  BY <1>1, ConstantsAssumption DEF Walks, Asks, Wakes, Quiet, LockPcs
<1>3. LetsGo(d) => Elems(lock'[u]) = Elems(lock[u]) \ {d}
  BY <1>1, LetsGoFacts, ReleaseQueue
<1> QED BY <1>1, <1>2, <1>3 DEF CallerEffect, LetsGo

\* Nobody who starts an operation comes ahead of c in the queue of its lock.
LEMMA LateAheadStays ==
    ASSUME IInv, OrderInv, RefInv, RaceInv, StepEffect, ~Resets, NEW c \in Callers, Late(c),
           NEW d \in Callers \ {c}, CallerEffect(d)
    PROVE  LateAhead(c)'
<1>1. PICK u : u = loc[c].user
  OBVIOUS
<1>2. loc'[c] = loc[c] /\ u \in Users /\ lock[u] \in Seq(Callers) /\ LateAhead(c)
  BY <1>1, LateFacts, CallerFrame DEF OthersStay, IInv, TypeOK, RaceInv
<1>3. ASSUME NEW e \in Callers, Before(lock'[u], e, c) PROVE ~Starts(e)'
  <2>1. Before(lock[u], e, c)
    BY <1>2, <1>3, CallerQueues
  <2>2. e \in Elems(lock[u]) /\ ~Starts(e)
    BY <1>1, <1>2, <2>1, BeforeElems DEF LateAhead
  <2> QED BY <1>2, <2>2, QueueCalm
<1> QED BY <1>1, <1>2, <1>3 DEF LateAhead

\* The step of another caller that does not change the operation of c's user.
LEMMA LateKeeps ==
    ASSUME IInv, IInv', OrderInv, RefInv, RaceInv, StepEffect, ~Resets, NEW c \in Callers, Late(c),
           NEW d \in Callers \ {c}, CallerEffect(d), op'[loc[c].user] = op[loc[c].user]
    PROVE  LateOp(c)' /\ LateQueue(c)'
<1>1. PICK u, p : u = loc[c].user /\ p = op[u]
  OBVIOUS
<1>2. /\ loc'[c] = loc[c] /\ pc'[c] = pc[c] /\ u \in Users /\ op'[u] = p /\ LateOp(c) /\ LateQueue(c)
      /\ OthersStay(d) /\ Onward /\ running \in {d, None} /\ running' \in {d, None}
      /\ p \in OpIds \cup {None} /\ (p # None => p \notin FreeOps)
      /\ None \notin OpIds \cup Callers /\ d \notin OpIds /\ Elems(lock[u]) \subseteq Callers
  BY <1>1, LateFacts, CallerFrame, ConstantsAssumption
     DEF OthersStay, IInv, TypeOK, RaceInv, Wakes, FreeOps, Elems
<1>3. p # None => KeepsOp(p) /\ (ops[p].cancel => ops'[p].cancel)
  <2>1. p \in OpIds => ~OpStep(p)
    BY <1>2, OpStepFacts
  <2> QED BY <1>2, <2>1, CancelKept, OperationFrame
<1>4. LateOp(c)'
  <2>1. c \in Elems(lock[u]) => c \in Elems(lock'[u])
    BY <1>2, CallerQueues
  <2>2. Before(ready, c, p) => Before(ready', c, p)
    BY <1>2 DEF Onward, Grows
  <2>3. running # c
    BY <1>2
  <2> QED BY <1>1, <1>2, <1>3, <2>1, <2>2, <2>3 DEF LateOp, KeepsOp
<1>5. ASSUME NEW e \in Elems(lock'[u]), e # d PROVE e \in Elems(lock[u]) /\ pc'[e] = pc[e]
  <2>1. e \in Elems(lock[u])
    BY <1>2, <1>5, CallerQueues
  <2> QED BY <1>2, <1>5, <2>1 DEF OthersStay
<1>6. ASSUME p # None, ops'[p].cancel, \A e \in Elems(lock[u]) \ {d} : ~Starts(e), d \in Elems(lock[u]) => ~Starts(d)
      PROVE  \A e \in Elems(lock'[u]) : ~Starts(e)'
  <2>1. ASSUME NEW e \in Elems(lock'[u]), e # d PROVE ~Starts(e)'
    BY <1>5, <1>6, <2>1 DEF Starts
  <2>2. ASSUME d \in Elems(lock'[u]) PROVE ~Starts(d)'
    <3>1. CASE d \in Elems(lock[u])
      BY <1>2, <1>6, <3>1, QueueCalm
    <3>2. CASE Starts(d)'
      <4>1. Asks(d)
        BY <3>2, HowItMoves
      <4>2. loc'[d].user = u
        BY <1>2, <2>2 DEF IInv, LockInv
      <4>3. d \notin Elems(lock[u])
        BY <1>2, <4>1, AsksQueue
      <4>4. op[u] = None
        BY <3>2, <4>1, <4>2 DEF Asks, Starts
      <4> QED BY <1>1, <1>6, <4>4
    <3> QED BY <3>2
  <2> QED BY <2>1, <2>2
<1>7. ASSUME pc[c] = "complete" PROVE LateQueue(c)'
  <2>1. CASE p # None /\ ops[p].cancel /\ \A e \in Elems(lock[u]) : ~Starts(e)
    <3>1. \A e \in Elems(lock'[u]) : ~Starts(e)'
      BY <1>3, <1>6, <2>1
    <3> QED BY <1>1, <1>2, <1>3, <2>1, <3>1 DEF LateQueue
  <2>2. CASE Elems(lock[u]) \subseteq {running} /\ d \notin Elems(lock[u])
    <3>1. Elems(lock[u]) = {}
      BY <1>2, <2>2
    <3>2. Elems(lock'[u]) \subseteq {d}
      BY <1>5, <3>1
    <3>3. d \in Elems(lock'[u]) => running' = d
      <4>1. ASSUME d \in Elems(lock'[u]) PROVE Asks(d) /\ loc'[d].user = u
        <5>1. loc'[d].user = u
          BY <1>2, <4>1 DEF IInv, LockInv
        <5>2. lock'[u] # lock[u]
          BY <2>2, <4>1
        <5>3. ~LetsGo(d)
          <6>1. ASSUME LetsGo(d) PROVE FALSE
            <7>1. /\ running = d /\ pc[d] \in LockPcs /\ Release(loc[d].user)
              BY <6>1, LetsGoFacts
            <7> QED BY <1>2, <2>2, <4>1, <7>1, ReleaseQueue
          <6> QED BY <6>1
        <5> QED BY <5>1, <5>2, <5>3, HitsFacts DEF CallerEffect, LetsGo, Wakes, Walks, Keeps
      <4> QED BY <3>1, <4>1, AsksQueue
    <3>4. Elems(lock'[u]) \subseteq {running'}
      BY <3>2, <3>3
    <3> QED BY <1>1, <1>2, <3>4 DEF LateQueue
  <2>3. CASE Elems(lock[u]) \subseteq {running} /\ d \in Elems(lock[u])
    <3>1. running = d /\ Elems(lock[u]) = {d} /\ loc[d].user = u
      BY <1>2, <2>3, OwnLock
    <3>2. CASE Elems(lock'[u]) = Elems(lock[u]) \ {d}
      <4>1. Elems(lock'[u]) = {}
        BY <3>1, <3>2
      <4> QED BY <1>1, <1>2, <4>1 DEF LateQueue
    <3>3. CASE Hits(d)
      <4>1. p # None /\ ops'[p].cancel /\ ~Starts(d)
        BY <1>1, <3>1, <3>3, HitsFacts DEF Hits, Starts
      <4>2. \A e \in Elems(lock'[u]) : ~Starts(e)'
        BY <1>6, <3>1, <4>1
      <4> QED BY <1>1, <1>2, <4>1, <4>2 DEF LateQueue
    <3>4. CASE Keeps(d)
      <4>1. lock' = lock
        BY <3>4 DEF Keeps
      <4>2. CASE running' = d
        BY <1>1, <1>2, <3>1, <4>1, <4>2 DEF LateQueue
      <4>3. CASE pc[d] = "cancelled" /\ p # None /\ ~Live(p)
        <5>1. c \notin Elems(lock[u]) /\ running # c
          BY <1>2, <1>7, LateFacts
        <5>2. ops[p].pc = "created"
          BY <1>1, <1>2, <4>3, <5>1 DEF LateOp
        <5> QED BY <4>3, <5>2 DEF Live
      <4>4. CASE pc[d] = "collect" /\ ops[loc[d].op].result = "raised"
        <5>1. loc[d].op # None /\ loc[d].op \in OpIds
          BY <4>4 DEF IInv, OpInv, TypeOK, Locals
        <5>2. IsSpawn(loc[d].op)
          BY <4>4, <5>1 DEF RefInv, RaiseInv
        <5>3. d = Reaper
          BY <5>1, <5>2 DEF OrderInv, CallerOrder
        <5>4. c # Reaper
          BY LateFacts
        <5> QED BY <1>1, <1>7, <3>1, <4>4, <5>2, <5>3, <5>4 DEF RaceInv, ReaperInv, ReaperAlone
      <4> QED BY <1>1, <3>1, <3>4, <4>2, <4>3, <4>4 DEF Keeps
    <3> QED BY <1>2, <2>3, <3>1, <3>2, <3>3, <3>4, OwnerLets
  <2> QED BY <1>1, <1>7, <2>1, <2>2, <2>3 DEF RaceInv, LateQueue
<1> QED BY <1>2, <1>4, <1>7 DEF LateQueue

\* Somebody else starts the next operation: c runs before it.
LEMMA LateBegins ==
    ASSUME IInv, OrderInv, RefInv, RaceInv, StepEffect, ~Resets, NEW c \in Callers, Late(c),
           NEW d \in Callers \ {c}, Begins(d), loc[d].user = loc[c].user
    PROVE  LateOp(c)' /\ LateQueue(c)'
<1>1. PICK u : u = loc[c].user
  OBVIOUS
<1>2. CallerEffect(d) /\ loc[d].user = u
  BY <1>1 DEF CallerEffect
<1>3. /\ u \in Users /\ running = d /\ pc[d] \in LockPcs /\ Starts(d) /\ op[u] = None /\ Release(u)
      /\ OthersStay(d)
  BY <1>2, BeginsFacts
<1>4. PICK o \in OpIds :
         /\ op' = [op EXCEPT ![u] = o] /\ ops'[o].pc = "created"
         /\ ready' = Append(ready, o) \o Granted(u) /\ o \notin Elems(ready)
  BY <1>2, BeginsFacts
<1>5. op'[u] = o /\ loc'[c] = loc[c] /\ pc'[c] = pc[c] /\ lock[u] \in Seq(Callers)
  BY <1>3, <1>4 DEF OthersStay, IInv, TypeOK
<1>6. c \notin Elems(lock[u])
  <2>1. ASSUME c \in Elems(lock[u]) PROVE Before(lock[u], d, c)
    BY <1>2, <1>3, <2>1, OwnerFirst
  <2> QED BY <1>1, <1>3, <2>1 DEF RaceInv, LateAhead
<1>7. pc[c] = "complete" /\ c \in Elems(ready)
  BY <1>1, <1>3, <1>6, LateFacts DEF Active
<1>8. Before(ready', c, o)
  BY <1>2, <1>3, <1>4, <1>7, StartReady
<1>9. LateOp(c)'
  BY <1>1, <1>4, <1>5, <1>7, <1>8 DEF LateOp
<1>10. Elems(lock[u]) \subseteq {d}
  BY <1>1, <1>3, <1>7 DEF RaceInv, LateQueue
<1>11. Elems(lock'[u]) = {}
  BY <1>2, <1>3, <1>10, ReleaseQueue
<1> QED BY <1>1, <1>5, <1>9, <1>11 DEF LateQueue

\* Somebody else clears the operation that c waits for, or waited for.
LEMMA LateCollects ==
    ASSUME IInv, OrderInv, RefInv, RaceInv, StepEffect, ~Resets, NEW c \in Callers, Late(c)',
           NEW d \in Callers \ {c}, Collects(d), loc[d].user = loc[c].user
    PROVE  LateOp(c)' /\ LateQueue(c)' /\ LateAhead(c)'
<1>1. PICK u, p : u = loc[c].user /\ p = op[u]
  OBVIOUS
<1>2. CallerEffect(d) /\ loc[d].user = u
  BY <1>1 DEF CallerEffect
<1>3. /\ running = d /\ pc[d] \in LockPcs /\ Release(u) /\ OthersStay(d) /\ p # None /\ ~Live(p)
      /\ op' = [op EXCEPT ![u] = None] /\ Clears(d, u)
  BY <1>1, <1>2 DEF Collects, Lets, Clears, Cancels
<1>4. u \in Users /\ p \in OpIds
  BY <1>1, <1>2, <1>3, CallerFacts DEF UserPcs, IInv, TypeOK
<1>5. op'[u] = None /\ loc'[c] = loc[c] /\ pc'[c] = pc[c] /\ lock[u] \in Seq(Callers)
  BY <1>3, <1>4 DEF OthersStay, IInv, TypeOK
<1>6. Elems(lock'[u]) = Elems(lock[u]) \ {d}
  BY <1>2, <1>3, ReleaseQueue
<1>7. LateOp(c)'
  BY <1>1, <1>5 DEF LateOp
<1>8. LateAhead(c)'
  <2>1. ASSUME NEW e \in Callers, Before(lock'[u], e, c) PROVE ~Starts(e)'
    <3>1. Before(lock[u], e, c) /\ e # d
      BY <1>2, <1>3, <2>1, ReleaseQueue
    <3>2. e \in Elems(lock[u]) \ {d}
      BY <1>5, <3>1, BeforeElems
    <3>3. ~Starts(e)
      BY <1>1, <1>2, <1>3, <3>2, OwnerClears
    <3> QED BY <1>4, <3>2, <3>3, QueueCalm
  <2> QED BY <1>1, <1>5, <2>1 DEF LateAhead
<1>9. ASSUME pc[c] = "complete" PROVE Elems(lock[u]) \subseteq {d}
  <2>1. CASE Late(c)
    <3>1. ~ops[p].cancel
      BY <1>3, <1>4 DEF IInv, OpInv
    <3> QED BY <1>1, <1>3, <1>9, <2>1, <3>1 DEF RaceInv, LateQueue
  <2>2. CASE ~Late(c)
    <3>1. c # Reaper /\ loc[c].op = p /\ Refers(c)
      BY <1>1, <1>5, <2>2 DEF Late, Refers
    <3>2. c \in Elems(ready)
      <4>1. Active(c)
        BY <1>3, <1>9, <3>1 DEF RefInv, ReferInv
      <4> QED BY <1>3, <4>1 DEF Active
    <3>3. WokenInv(c) /\ ~IsSpawn(p)
      BY <1>3, <3>1 DEF RaceInv, OrderInv, CallerOrder
    <3>4. ~Cancels(d)
      <4>1. d \in Elems(lock[u])
        BY <1>2, <1>3, OwnerFirst
      <4> QED BY <1>1, <1>3, <1>4, <3>3, <4>1 DEF OrderInv, QueueKind
    <3>5. pc[d] \in {"collect", "waitReport"} /\ loc[d].op = p
      BY <1>1, <1>3, <3>4 DEF Clears
    <3>6. pc[d] # "waitReport"
      <4>1. CASE d = Reaper
        BY <3>3, <3>5, <4>1 DEF RaceInv, ReaperInv, ReaperRefers
      <4>2. CASE d # Reaper
        BY <1>3, <3>5, <4>2 DEF RefInv, ReferInv
      <4> QED BY <4>1, <4>2
    <3> QED BY <1>1, <1>2, <1>3, <1>9, <2>2, <3>1, <3>2, <3>3, <3>5, <3>6 DEF WokenInv
  <2> QED BY <2>1, <2>2
<1>10. LateQueue(c)'
  <2>1. pc[c] = "complete" => Elems(lock'[u]) = {}
    BY <1>6, <1>9
  <2> QED BY <1>1, <1>5, <2>1 DEF LateQueue
<1> QED BY <1>7, <1>8, <1>10

\* The races for an operation that was started since.
LEMMA LateStep ==
    ASSUME IInv, IInv', OrderInv, RefInv, RefInv', RaceInv, StepEffect, ~Resets, NEW c \in Callers
    PROVE  LateOp(c)' /\ LateQueue(c)' /\ LateAhead(c)'
<1>1. CASE ~Late(c)'
  BY <1>1 DEF LateOp, LateQueue, LateAhead
<1>2. CASE Late(c)' /\ CallerEffect(c)
  <2>1. pc'[c] \in {"complete", "collect"}
    BY <1>2 DEF Late, Refers, RefInv, ReferInv
  <2> QED BY <1>2, <2>1, LateAsks
<1>3. ASSUME Late(c)', NEW d \in Callers \ {c}, CallerEffect(d)
      PROVE  LateOp(c)' /\ LateQueue(c)' /\ LateAhead(c)'
  <2>1. PICK u : u = loc[c].user
    OBVIOUS
  <2>2. loc'[c] = loc[c] /\ pc'[c] = pc[c] /\ Refers(c) /\ pc[c] \in {"complete", "collect"} /\ u \in Users
    <3>1. loc'[c] = loc[c] /\ pc'[c] = pc[c]
      BY <1>3, CallerFrame DEF OthersStay
    <3>2. Refers(c) /\ pc[c] \in {"complete", "collect"}
      BY <1>3, <3>1 DEF Late, Refers, RefInv, ReferInv
    <3> QED BY <2>1, <3>1, <3>2, CallerFacts DEF UserPcs, LockPcs
  <2>3. CASE op'[u] = op[u]
    <3>1. Late(c)
      BY <1>3, <2>1, <2>2, <2>3 DEF Late
    <3> QED BY <1>3, <2>1, <2>3, <3>1, LateKeeps, LateAheadStays
  <2>4. CASE Collects(d) /\ op'[u] # op[u]
    <3>1. loc[d].user = u
      BY <2>2, <2>4 DEF Collects, IInv, TypeOK
    <3> QED BY <1>3, <2>1, <2>4, <3>1, LateCollects
  <2>5. CASE Begins(d) /\ op'[u] # op[u]
    <3>1. PICK o \in FreeOps : op' = [op EXCEPT ![loc[d].user] = o]
      BY <2>5, BeginsFacts
    <3>2. loc[d].user = u /\ op[u] = None
      BY <2>2, <2>5, <3>1 DEF Begins, IInv, TypeOK
    <3>3. Late(c)
      BY <2>1, <2>2, <3>2 DEF Late, Refers
    <3> QED BY <1>3, <2>1, <2>5, <3>2, <3>3, LateBegins, LateAheadStays
  <2>6. op' = op \/ Begins(d) \/ Collects(d)
    BY <1>3, HitsFacts, CapturesFacts DEF CallerEffect, Wakes, Walks, Keeps, Asks, Leaves
  <2> QED BY <2>3, <2>4, <2>5, <2>6
<1>4. CASE Late(c)' /\ (Rests \/ Takes \/ \E o \in OpIds : OpReply(o) \/ OpStep(o))
  BY <1>4, LateTasks
<1> QED BY <1>1, <1>2, <1>3, <1>4 DEF StepEffect

-----------------------------------------------------------------------------
(* The reaper *)

\* A finished operation that is not free stays as it is.
LEMMA SettledStays ==
    ASSUME IInv, StepEffect, ~Resets, NEW p \in OpIds, p \notin FreeOps, ~Live(p)
    PROVE  KeepsOp(p) /\ ~Live(p)' /\ IsSpawn(p)' = IsSpawn(p)
<1>1. KeepsOp(p)
  BY OpStepFacts, OperationFrame
<1> QED BY <1>1 DEF KeepsOp, Live, IsSpawn

\* What the reaper does next.
LEMMA ReaperMoves ==
    ASSUME IInv, OrderInv, RefInv, StepEffect, ~Resets,
           pc'[Reaper] \in {"wait", "capture", "complete", "collect", "waitReport"}
    PROVE  \/ ~CallerEffect(Reaper) /\ pc'[Reaper] = pc[Reaper] /\ loc'[Reaper] = loc[Reaper]
           \/ Walks(Reaper) /\ pc'[Reaper] = "wait"
           \/ Asks(Reaper) /\ SameRefs(Reaper) /\ pc[Reaper] = "wait" /\ pc'[Reaper] = "capture"
           \/ Captures(Reaper) /\ pc'[Reaper] = "complete"
           \/ Asks(Reaper) /\ SameRefs(Reaper) /\ pc[Reaper] = "complete" /\ pc'[Reaper] = "collect"
           \/ /\ CallerEffect(Reaper) /\ SameRefs(Reaper) /\ UNCHANGED <<op, lock, ops>>
              /\ pc[Reaper] \in {"collect", "waitReport"} /\ pc'[Reaper] = "waitReport"
              /\ pc[Reaper] = "collect" => ops[loc[Reaper].op].result = "raised"
<1>1. Reaper \in Callers
  BY ReaperFacts
<1>2. CASE ~CallerEffect(Reaper)
  BY <1>1, <1>2, OneMoves
<1>3. CASE CallerEffect(Reaper)
  BY <1>1, <1>3, HowItMoves
<1> QED BY <1>2, <1>3

\* The reaper goes from its check of the operation to the lock without a suspension.
LEMMA ReaperWaitsStep ==
    ASSUME IInv, OrderInv, RefInv, RaceInv, StepEffect, ~Resets
    PROVE  ReaperWaits'
<1>1. ReaperWaits /\ Reaper \in Callers
  BY ReaperFacts DEF RaceInv, ReaperInv
<1>2. CASE pc'[Reaper] = "wait" /\ Walks(Reaper)
  BY <1>2 DEF Walks, ReaperWaits, Quiet, Live
<1>3. CASE pc'[Reaper] = "wait" /\ ~CallerEffect(Reaper) /\ pc[Reaper] = "wait"
  <2>1. Rests
    BY <1>1, <1>3, RunsAlone DEF ReaperWaits
  <2> QED BY <1>1, <1>3, <2>1 DEF Rests, ReaperWaits, Live
<1> QED BY <1>2, <1>3, ReaperMoves DEF ReaperWaits

\* While it queues for the lock, the finished operation stays or is cleared, but no
\* other takes its place before its turn.
LEMMA ReaperCapturesStep ==
    ASSUME IInv, OrderInv, RefInv, RaceInv, StepEffect, ~Resets
    PROVE  ReaperCaptures'
<1> SUFFICES ASSUME pc'[Reaper] = "capture" PROVE ReaperCaptures'
  BY DEF ReaperCaptures
<1>1. Reaper \in Callers /\ ReaperWaits /\ ReaperCaptures
  BY ReaperFacts DEF RaceInv, ReaperInv
<1>2. CASE Asks(Reaper) /\ SameRefs(Reaper) /\ pc[Reaper] = "wait"
  BY <1>1, <1>2 DEF Asks, SameRefs, ReaperWaits, ReaperCaptures, Live
<1>3. CASE ~CallerEffect(Reaper) /\ pc[Reaper] = "capture" /\ loc'[Reaper] = loc[Reaper]
  <2>1. PICK u, p : u = loc[Reaper].user /\ p = op[u]
    OBVIOUS
  <2>2. Reaper \in Elems(lock[u]) /\ u \in Users /\ p \in OpIds \cup {None} /\ lock[u] \in Seq(Callers)
    BY <1>1, <1>3, <2>1, CallerFacts DEF RefInv, QueuedInv, LockPcs, UserPcs, IInv, TypeOK
  <2>3. ASSUME NEW d \in Callers, Begins(d) \/ Collects(d), op'[u] # op[u]
        PROVE  /\ d # Reaper /\ loc[d].user = u /\ running = d /\ pc[d] \in LockPcs
               /\ Begins(d) => FALSE
               /\ Collects(d) => op'[u] = None /\ op[u] # None /\ Clears(d, u)
    <3>1. d # Reaper
      BY <1>3, <2>3 DEF CallerEffect
    <3>2. loc[d].user = u
      <4>1. ASSUME Collects(d) PROVE loc[d].user = u
        BY <2>2, <2>3, <4>1 DEF Collects, IInv, TypeOK
      <4>2. ASSUME Begins(d) PROVE loc[d].user = u
        <5>1. PICK o \in FreeOps : op' = [op EXCEPT ![loc[d].user] = o]
          BY <4>2, BeginsFacts
        <5> QED BY <2>2, <2>3, <5>1 DEF IInv, TypeOK
      <4> QED BY <2>3, <4>1, <4>2
    <3>3. running = d /\ pc[d] \in LockPcs
      BY <2>3, LetsGoFacts DEF LetsGo
    <3>4. ASSUME Begins(d) PROVE FALSE
      <4>1. Starts(d) /\ op[u] = None
        BY <3>2, <3>4, BeginsFacts
      <4>2. Before(lock[u], d, Reaper)
        BY <2>2, <3>1, <3>2, <3>3, OwnerFirst
      <4> QED BY <1>1, <1>3, <2>1, <4>1, <4>2 DEF ReaperCaptures
    <3>5. ASSUME Collects(d) PROVE op'[u] = None /\ op[u] # None /\ Clears(d, u)
      BY <2>2, <3>2, <3>5 DEF Collects, IInv, TypeOK, Clears, Cancels
    <3> QED BY <3>1, <3>2, <3>3, <3>4, <3>5
  <2>4. ASSUME NEW d \in Callers, Before(lock'[u], d, Reaper), op'[u] = None PROVE ~Starts(d)'
    <3>1. ASSUME NEW e \in Callers, CallerEffect(e) PROVE Before(lock[u], d, Reaper)
      <4>1. e # Reaper
        BY <1>3, <3>1
      <4> QED BY <2>2, <2>4, <3>1, <4>1, CallerQueues
    <3>2. (\A e \in Callers : ~CallerEffect(e)) => lock' = lock
      BY ReplyFacts, OpStepFacts DEF StepEffect, Rests, Takes
    <3>3. Before(lock[u], d, Reaper)
      BY <2>4, <3>1, <3>2
    <3>4. d \in Elems(lock[u]) /\ lock[u] \in Seq(Callers)
      BY <2>2, <3>3, BeforeElems
    <3>5. CASE op[u] = None
      <4>1. ~Starts(d)
        BY <1>1, <1>3, <2>1, <3>3, <3>5 DEF ReaperCaptures
      <4> QED BY <2>2, <3>4, <4>1, QueueCalm
    <3>6. CASE op[u] # None
      <4>1. PICK e \in Callers : Collects(e) /\ loc[e].user = u /\ running = e /\ pc[e] \in LockPcs
                                 /\ Clears(e, u)
        BY <2>3, <2>4, <3>6, TableFrame
      <4>2. CallerEffect(e) /\ Release(u)
        BY <4>1 DEF CallerEffect, Collects, Lets
      <4>3. d # e
        BY <2>4, <4>1, <4>2, ReleaseQueue
      <4>4. ~Starts(d)
        BY <3>4, <3>6, <4>1, <4>3, OwnerClears
      <4> QED BY <2>2, <3>4, <4>4, QueueCalm
    <3> QED BY <3>5, <3>6
  <2>5. op'[u] # None => ops'[op'[u]].pc = "done"
    <3>1. ASSUME op'[u] # None PROVE op'[u] = p
      BY <2>1, <2>3, <3>1, TableFrame
    <3>2. ASSUME op'[u] # None PROVE p \in OpIds /\ p \notin FreeOps /\ ~Live(p) /\ op'[u] = p
      BY <1>1, <1>3, <2>1, <2>2, <3>1, <3>2 DEF ReaperCaptures, FreeOps
    <3>3. ASSUME op'[u] # None PROVE ~Live(p)' /\ op'[u] = p
      BY <3>2, <3>3, SettledStays
    <3> QED BY <3>3 DEF Live
  <2> QED BY <1>3, <2>1, <2>4, <2>5 DEF ReaperCaptures, Live
<1> QED BY <1>2, <1>3, ReaperMoves

\* Then it refers to a finished operation.
LEMMA ReaperRefersStep ==
    ASSUME IInv, OrderInv, RefInv, RaceInv, StepEffect, ~Resets
    PROVE  ReaperRefers'
<1> SUFFICES ASSUME pc'[Reaper] \in {"complete", "collect", "waitReport"} PROVE ReaperRefers'
  BY DEF ReaperRefers
<1>1. Reaper \in Callers /\ ReaperRefers /\ ReaperCaptures
  BY ReaperFacts DEF RaceInv, ReaperInv
<1>2. CASE ~CallerEffect(Reaper) /\ pc'[Reaper] = pc[Reaper] /\ loc'[Reaper] = loc[Reaper]
  <2>1. PICK p : p = loc[Reaper].op
    OBVIOUS
  <2>2. p \in OpIds /\ p # None /\ p \notin FreeOps /\ ~Live(p) /\ (pc[Reaper] = "waitReport" => IsSpawn(p))
    BY <1>1, <1>2, <2>1 DEF ReaperRefers, FreeOps, IInv, TypeOK, Locals
  <2>3. ~Live(p)' /\ IsSpawn(p)' = IsSpawn(p)
    BY <2>2, SettledStays
  <2> QED BY <1>2, <2>1, <2>2, <2>3 DEF ReaperRefers, Live, IsSpawn
<1>3. CASE Captures(Reaper) /\ pc'[Reaper] = "complete"
  <2>1. PICK u, p : u = loc[Reaper].user /\ p = op[u]
    OBVIOUS
  <2>2. p \in OpIds /\ p # None /\ loc'[Reaper].op = p /\ KeepsOp(p) /\ pc[Reaper] = "capture"
    BY <1>1, <1>3, <2>1, CapturesFacts
  <2>3. ~Live(p)
    BY <1>1, <2>1, <2>2 DEF ReaperCaptures
  <2> QED BY <1>3, <2>2, <2>3 DEF ReaperRefers, KeepsOp, Live
<1>4. CASE Asks(Reaper) /\ SameRefs(Reaper) /\ pc[Reaper] = "complete" /\ pc'[Reaper] = "collect"
  BY <1>1, <1>4 DEF Asks, SameRefs, ReaperRefers, Live
<1>5. CASE /\ CallerEffect(Reaper) /\ SameRefs(Reaper) /\ UNCHANGED <<op, lock, ops>>
           /\ pc[Reaper] \in {"collect", "waitReport"} /\ pc'[Reaper] = "waitReport"
           /\ pc[Reaper] = "collect" => ops[loc[Reaper].op].result = "raised"
  <2>1. PICK p : p = loc[Reaper].op
    OBVIOUS
  <2>2. p \in OpIds /\ p # None /\ ~Live(p) /\ loc'[Reaper].op = p
    BY <1>1, <1>5, <2>1 DEF ReaperRefers, IInv, TypeOK, Locals, SameRefs
  <2>3. IsSpawn(p)
    BY <1>1, <1>5, <2>1, <2>2 DEF ReaperRefers, RefInv, RaiseInv
  <2> QED BY <1>5, <2>2, <2>3 DEF ReaperRefers, Live, IsSpawn
<1> QED BY <1>2, <1>3, <1>4, <1>5, ReaperMoves

\* It does not suspend on `complete'.
LEMMA ReaperCompletesStep ==
    ASSUME IInv, IInv', OrderInv, RefInv, RaceInv, StepEffect, ~Resets
    PROVE  ReaperCompletes'
<1> SUFFICES ASSUME pc'[Reaper] = "complete" PROVE ReaperCompletes'
  BY DEF ReaperCompletes
<1>1. Reaper \in Callers /\ ReaperRefers /\ ReaperCompletes /\ Reaper # None /\ Reaper \notin OpIds
  BY ReaperFacts, ConstantsAssumption DEF RaceInv, ReaperInv
<1>2. CASE ~CallerEffect(Reaper) /\ pc'[Reaper] = pc[Reaper] /\ loc'[Reaper] = loc[Reaper]
  <2>1. pc[Reaper] = "complete" /\ Reaper \notin Elems(ready) /\ (running = Reaper => loc[Reaper].op = op[loc[Reaper].user])
    BY <1>1, <1>2 DEF ReaperCompletes
  <2>2. ASSUME Reaper \notin Elems(ready'), running' # Reaper PROVE ReaperCompletes'
    BY <2>2 DEF ReaperCompletes
  <2>3. CASE Rests
    BY <1>2, <2>1, <2>3 DEF Rests, ReaperCompletes
  <2>4. CASE Takes
    BY <2>1, <2>2, <2>4, TakesReady
  <2>5. ASSUME NEW d \in Callers, CallerEffect(d) PROVE ReaperCompletes'
    <3>1. (d # Reaper /\ Wakes(d)) \/ (d # Reaper /\ running' \in {d, None})
      BY <1>2, <2>5, CallerFrame
    <3>2. running' # Reaper
      BY <1>1, <3>1 DEF Wakes
    <3>3. Reaper \notin Elems(ready')
      BY <1>1, <1>2, <2>1, <2>5, CallerFrame DEF LockPcs
    <3> QED BY <2>2, <3>2, <3>3
  <2>6. ASSUME NEW o \in OpIds, OpReply(o) PROVE ReaperCompletes'
    BY <1>1, <2>1, <2>2, <2>6, ReplyFacts
  <2>7. ASSUME NEW o \in OpIds, OpStep(o) PROVE ReaperCompletes'
    <3>1. running' = None /\ Live(o) /\ (GoesOn(o) \/ Ends(o))
      BY <2>7, OpStepFacts
    <3>2. Reaper \notin Elems(ops[o].waiters)
      <4>1. ~Live(loc[Reaper].op)
        BY <1>1, <2>1 DEF ReaperRefers
      <4> QED BY <3>1, <4>1 DEF IInv, WaitInv
    <3>3. Reaper \notin Elems(ready')
      BY <1>1, <2>1, <3>1, <3>2 DEF GoesOn, Ends
    <3> QED BY <1>1, <2>2, <3>1, <3>3
  <2> QED BY <1>2, <2>3, <2>4, <2>5, <2>6, <2>7 DEF StepEffect
<1>3. CASE Captures(Reaper)
  <2>1. PICK u : u = loc[Reaper].user
    OBVIOUS
  <2>2. loc'[Reaper].op = op[u] /\ op' = op /\ loc'[Reaper].user = u
    BY <1>1, <1>3, <2>1, CapturesFacts
  <2> QED BY <1>1, <1>3, <2>2, NotWoken DEF ReaperCompletes
<1> QED BY <1>2, <1>3, ReaperMoves

\* Before the reaper in the queue of its lock stands who stood there before.
LEMMA AheadOfReaper ==
    ASSUME IInv, OrderInv, RefInv, StepEffect, ~Resets, ~CallerEffect(Reaper),
           NEW u \in Users, NEW d, Before(lock'[u], d, Reaper)
    PROVE  Before(lock[u], d, Reaper) /\ d \in Elems(lock[u])
<1>1. ASSUME NEW e \in Callers, CallerEffect(e) PROVE Before(lock[u], d, Reaper)
  <2>1. e # Reaper
    BY <1>1
  <2> QED BY <1>1, <2>1, CallerQueues
<1>2. (\A e \in Callers : ~CallerEffect(e)) => lock' = lock
  BY ReplyFacts, OpStepFacts DEF StepEffect, Rests, Takes
<1>3. Before(lock[u], d, Reaper)
  BY <1>1, <1>2
<1>4. lock[u] \in Seq(Callers)
  BY DEF IInv, TypeOK
<1> QED BY <1>3, <1>4, BeforeElems

\* Nobody starts to wait for a spawn that the reaper is about to collect.
LEMMA ReaperAheadStep ==
    ASSUME IInv, OrderInv, RefInv, RaceInv, StepEffect, ~Resets
    PROVE  ReaperAhead'
<1> SUFFICES ASSUME pc'[Reaper] \in {"collect", "waitReport"}, IsSpawn(loc[Reaper].op)',
                    NEW d \in Callers, Before(lock'[loc'[Reaper].user], d, Reaper)
             PROVE  ~Joins(d)'
  BY DEF ReaperAhead
<1>1. Reaper \in Callers /\ ReaperRefers /\ ReaperCompletes /\ ReaperAhead
  BY ReaperFacts DEF RaceInv, ReaperInv
<1>2. PICK u, p : u = loc[Reaper].user /\ p = loc[Reaper].op
  OBVIOUS
<1>3. CASE ~CallerEffect(Reaper) /\ pc'[Reaper] = pc[Reaper] /\ loc'[Reaper] = loc[Reaper]
  <2>1. u \in Users /\ p \in OpIds /\ p \notin FreeOps /\ ~Live(p) /\ IsSpawn(p)'
    BY <1>1, <1>2, <1>3, CallerFacts
       DEF ReaperRefers, FreeOps, IInv, TypeOK, Locals, UserPcs, LockPcs, IsSpawn
  <2>2. IsSpawn(p)
    BY <2>1, SettledStays
  <2>3. Before(lock[u], d, Reaper) /\ d \in Elems(lock[u])
    BY <1>2, <1>3, <2>1, AheadOfReaper
  <2>4. ~Joins(d)
    BY <1>1, <1>2, <1>3, <2>2, <2>3 DEF ReaperAhead
  <2> QED BY <2>1, <2>3, <2>4, QueueCalm
<1>4. CASE Asks(Reaper) /\ SameRefs(Reaper) /\ pc[Reaper] = "complete" /\ pc'[Reaper] = "collect"
  <2>1. running = Reaper /\ OthersStay(Reaper) /\ op' = op /\ ops' = ops
        /\ loc'[Reaper].user = u /\ loc'[Reaper].op = p
    BY <1>2, <1>4 DEF Asks, SameRefs
  <2>2. p = op[u] /\ p # None /\ IsSpawn(p)
    BY <1>1, <1>2, <1>4, <2>1 DEF ReaperCompletes, ReaperRefers, IsSpawn
  <2>3. u \in Users /\ Reaper \notin Elems(lock[u]) /\ lock[u] \in Seq(Callers)
    BY <1>1, <1>4, <2>1, AsksQueue DEF IInv, TypeOK
  <2>4. Before(lock[u], d, Reaper) \/ d \in Elems(lock[u])
    BY <1>1, <1>4, <2>1, AsksQueue
  <2>5. d \in Elems(lock[u]) /\ d # Reaper
    BY <2>3, <2>4, BeforeElems
  <2>6. ~Joins(d)
    BY <2>2, <2>3, <2>5 DEF OrderInv, QueueKind
  <2> QED BY <2>1, <2>5, <2>6 DEF OthersStay, Joins
<1>5. CASE /\ CallerEffect(Reaper) /\ SameRefs(Reaper) /\ UNCHANGED <<op, lock, ops>>
           /\ pc[Reaper] \in {"collect", "waitReport"}
  <2>1. IsSpawn(p) /\ Before(lock[u], d, Reaper)
    BY <1>2, <1>5 DEF SameRefs, IsSpawn
  <2>2. ~Joins(d)
    BY <1>1, <1>2, <1>5, <2>1 DEF ReaperAhead
  <2>3. OthersStay(Reaper)
    BY <1>1, <1>5, CallerFrame
  <2> QED BY <2>2, <2>3 DEF OthersStay, Joins
<1> QED BY <1>3, <1>4, <1>5, ReaperMoves

\* A caller that waits with the reaper does so for another user.
LEMMA ReaperAloneStep ==
    ASSUME IInv, OrderInv, RefInv, RaceInv, StepEffect, ~Resets
    PROVE  ReaperAlone'
<1> SUFFICES ASSUME \/ pc'[Reaper] \in {"collect", "waitReport"}
                    \/ pc'[Reaper] = "complete" /\ running' = Reaper,
                    IsSpawn(loc[Reaper].op)',
                    NEW c \in Callers \ {Reaper}, pc'[c] = "complete"
             PROVE  loc'[c].user # loc'[Reaper].user
  BY DEF ReaperAlone
<1>1. /\ Reaper \in Callers /\ ReaperRefers /\ ReaperCompletes /\ ReaperCaptures /\ ReaperAhead /\ ReaperAlone
      /\ Reaper # None /\ Reaper \notin OpIds
  BY ReaperFacts, ConstantsAssumption DEF RaceInv, ReaperInv
<1>2. PICK u, p : u = loc[Reaper].user /\ p = loc[Reaper].op
  OBVIOUS
<1>3. CASE CallerEffect(Reaper)
  <2>1. pc[c] = "complete" /\ loc'[c] = loc[c]
    BY <1>1, <1>3, CallerFrame DEF OthersStay
  <2>2. CASE Captures(Reaper) /\ running' = Reaper
    <3>1. PICK o : o = op[u]
      OBVIOUS
    <3>2. /\ o \in OpIds /\ o # None /\ loc'[Reaper].op = o /\ loc'[Reaper].user = u /\ KeepsOp(o)
          /\ pc[Reaper] = "capture" /\ running = Reaper /\ u \in Users
      BY <1>1, <1>2, <2>2, <3>1, CapturesFacts
    <3>3. ~Live(o) /\ IsSpawn(o)
      BY <1>1, <1>2, <3>1, <3>2 DEF ReaperCaptures, KeepsOp, IsSpawn
    <3>4. ASSUME loc[c].user = u PROVE FALSE
      <4>1. Refers(c) /\ ~IsSpawn(loc[c].op)
        BY <2>1 DEF RefInv, ReferInv, Refers, OrderInv, CallerOrder
      <4>2. Late(c) /\ LateOp(c)
        BY <3>1, <3>3, <3>4, <4>1 DEF Late, RaceInv
      <4>3. c \notin Elems(lock[u])
        BY <2>1, <3>2, <4>2, LateFacts
      <4>4. ops[o].pc = "created"
        BY <3>1, <3>2, <3>4, <4>2, <4>3 DEF LateOp
      <4> QED BY <3>3, <4>4 DEF Live
    <3> QED BY <2>1, <3>2, <3>4
  <2>3. CASE Asks(Reaper) /\ SameRefs(Reaper) /\ pc[Reaper] = "complete"
    <3>1. running = Reaper /\ IsSpawn(p) /\ loc'[Reaper].user = u
      BY <1>2, <2>3 DEF Asks, SameRefs, IsSpawn
    <3> QED BY <1>1, <1>2, <2>1, <2>3, <3>1 DEF ReaperAlone
  <2>4. CASE SameRefs(Reaper) /\ ops' = ops /\ pc[Reaper] \in {"collect", "waitReport"}
    <3>1. IsSpawn(p) /\ loc'[Reaper].user = u
      BY <1>2, <2>4 DEF SameRefs, IsSpawn
    <3> QED BY <1>1, <1>2, <2>1, <2>4, <3>1 DEF ReaperAlone
  <2> QED BY <1>3, <2>2, <2>3, <2>4, ReaperMoves, HowItMoves
<1>4. CASE ~CallerEffect(Reaper) /\ pc'[Reaper] = pc[Reaper] /\ loc'[Reaper] = loc[Reaper]
  <2>1. /\ p \in OpIds /\ p # None /\ p \notin FreeOps /\ ~Live(p) /\ IsSpawn(p)' /\ u \in Users
    BY <1>1, <1>2, <1>4, CallerFacts
       DEF ReaperRefers, FreeOps, IInv, TypeOK, Locals, IsSpawn, UserPcs, LockPcs
  <2>2. IsSpawn(p)
    BY <2>1, SettledStays
  <2>3. pc[Reaper] \in {"collect", "waitReport"} \/ Rests
    <3>1. ASSUME pc[Reaper] = "complete", running' = Reaper, ~Rests PROVE FALSE
      <4>1. Reaper \notin Elems(ready)
        BY <1>1, <3>1 DEF ReaperCompletes
      <4>2. ~Takes
        BY <3>1, <4>1, TakesReady
      <4>3. \A d \in Callers : ~CallerEffect(d)
        <5>1. ASSUME NEW d \in Callers, CallerEffect(d) PROVE running' \in {d, None} /\ d # Reaper
          BY <1>4, <5>1, CallerFrame DEF Wakes
        <5> QED BY <1>1, <3>1, <5>1
      <4>4. \A o \in OpIds : ~OpReply(o) /\ ~OpStep(o)
        BY <1>1, <3>1, ReplyFacts, OpStepFacts
      <4> QED BY <3>1, <4>2, <4>3, <4>4 DEF StepEffect
    <3> QED BY <1>4, <3>1
  <2>4. CASE Rests
    BY <1>1, <1>2, <2>2, <2>4 DEF Rests, ReaperAlone
  <2>5. CASE pc[Reaper] \in {"collect", "waitReport"} /\ ~CallerEffect(c)
    <3>1. pc[c] = "complete" /\ loc'[c] = loc[c]
      BY <2>5, OneMoves
    <3> QED BY <1>1, <1>2, <1>4, <2>2, <2>5, <3>1 DEF ReaperAlone
  <2>6. CASE pc[Reaper] \in {"collect", "waitReport"} /\ CallerEffect(c)
    <3>1. Captures(c)
      BY <2>6, HowItMoves
    <3>2. pc[c] = "capture" /\ running = c /\ loc'[c].user = loc[c].user
      BY <3>1, CapturesFacts
    <3>3. ASSUME loc[c].user = u PROVE FALSE
      <4>1. Reaper \in Elems(lock[u])
        BY <1>1, <1>2, <2>6 DEF RefInv, QueuedInv, LockPcs
      <4>2. Before(lock[u], c, Reaper)
        BY <3>2, <3>3, <4>1, OwnerFirst DEF LockPcs
      <4> QED BY <1>1, <1>2, <2>2, <2>6, <3>2, <4>2 DEF ReaperAhead, Joins
    <3> QED BY <1>2, <1>4, <3>2, <3>3
  <2> QED BY <2>3, <2>4, <2>5, <2>6
<1> QED BY <1>1, <1>3, <1>4, OneMoves

\* Nothing is left of it after a restart.
LEMMA ResetRace ==
    ASSUME IInv, RefInv, RefInv', Resets
    PROVE  RaceInv'
<1>1. \A c \in Callers : pc'[c] \in {"begin", "asleep", "idle", "over"}
  BY DEF Resets
<1>2. Reaper \in Callers
  BY ReaperFacts
<1>3. \A c \in Callers : ~Refers(c)' /\ ~Late(c)'
  BY <1>1 DEF RefInv, ReferInv, Refers, Late
<1>4. ReaperInv'
  BY <1>1, <1>2 DEF ReaperInv, ReaperWaits, ReaperCaptures, ReaperRefers, ReaperCompletes,
     ReaperAhead, ReaperAlone
<1> QED BY <1>1, <1>3, <1>4 DEF RaceInv, WokenInv, LateOp, LateQueue, LateAhead, DeletedInv

\* Every step preserves the invariant of the races.
LEMMA RaceStep ==
    ASSUME IInv, IInv', OrderInv, RefInv, RefInv', RaceInv, StepEffect
    PROVE  RaceInv'
<1>1. CASE Resets
  BY <1>1, ResetRace
<1>2. CASE ~Resets
  <2>1. ASSUME NEW c \in Callers
        PROVE  (WokenInv(c) /\ LateOp(c) /\ LateQueue(c) /\ LateAhead(c) /\ DeletedInv(c))'
    BY <1>2, LateStep, WokenStep, DeletedStep
  <2>2. ReaperInv'
    BY <1>2, ReaperWaitsStep, ReaperCapturesStep, ReaperRefersStep, ReaperCompletesStep,
       ReaperAheadStep, ReaperAloneStep DEF ReaperInv
  <2> QED BY <2>1, <2>2 DEF RaceInv
<1> QED BY <1>1, <1>2

-----------------------------------------------------------------------------
(* Who refers to a LabState *)

\* Where a caller of create_lab, delete_lab or monitor keeps a LabState.
StPcs == {"phase", "phaseReport", "check", "remove", "monitor"}

\* Where it has found that its user is in _labs, or has put it there.
KnownPcs == {"image", "phase", "phaseReport", "check", "spawn", "terminate", "remove",
             "cancel", "cancelled", "cancelReport", "monitor"}

\* A caller has a LabState at those places, and a known user at these.
LocalState(c) ==
    /\ loc[c].st # None => pc[c] \in StPcs
    /\ pc[c] \in StPcs \ {"check"} => loc[c].st # None
    /\ pc[c] \in KnownPcs => loc[c].user \in known

\* Until the task of a spawn has started, its lab is pending, or was found to
\* have failed, or is being deleted.
OpState(o) ==
    /\ Live(o) => ops[o].st # None
    /\ ops[o].kind = "SPAWN" /\ ops[o].pc = "created" =>
          status[ops[o].st] \in {"PENDING", "FAILED", "TERMINATING"}

\* A user with an operation or a lab is in _labs.
KnownUser(u) == op[u] # None \/ labState[u] # None => u \in known

\* A LabState belongs to one user.
Holds(u, s) ==
    \/ labState[u] = s
    \/ \E c \in Callers : loc[c].user = u /\ loc[c].st = s
    \/ \E o \in OpIds : Live(o) /\ ops[o].user = u /\ ops[o].st = s

HoldsInv == \A u, v \in Users : \A s \in StateIds : Holds(u, s) /\ Holds(v, s) => u = v

\* What is said of the LabStates.
StateInv ==
    /\ HoldsInv
    /\ \A c \in Callers : LocalState(c)
    /\ \A o \in OpIds : OpState(o)
    /\ \A u \in Users : KnownUser(u)

\* A caller keeps the LabState it has, or takes its user's, or has none.
Passes(c) ==
    loc'[c].st # None => \/ loc'[c].st = loc[c].st /\ loc'[c].user = loc[c].user
                         \/ loc'[c].st = labState[loc'[c].user]

\* What a step of a caller does with its LabState.
Tidy(c) == known \subseteq known' /\ Passes(c) /\ LocalState(c)'

\* A method that ends drops its LabState.
LEMMA ReturnTidy ==
    ASSUME IInv, NEW c \in Callers, NEW res, Return(c, res), known \subseteq known'
    PROVE  Tidy(c)
<1>1. /\ pc'[c] \in {"over", "gc", "dead", "timer", "bootFailed"}
      /\ loc'[c] = [Idle EXCEPT !.res = res]
  BY CallerFacts DEF Return, Goto
<1>2. loc'[c].st = None
  BY <1>1 DEF Idle
<1> QED BY <1>1, <1>2 DEF Tidy, Passes, LocalState, StPcs, KnownPcs

\* create_lab.
LEMMA CreateTidy ==
    ASSUME IInv, NEW r \in Requests, LocalState(r), CreateStep(r)
    PROVE  Tidy(r)
<1>1. r \in Callers /\ loc \in [Callers -> Locals] /\ pc \in [Callers -> CallerPcs]
  BY RequestFacts
<1>2. ASSUME CreateBegin(r) PROVE Tidy(r)
  <2>1. known \subseteq known'
    BY <1>2 DEF CreateBegin, labs
  <2>2. CASE Return(r, "denied")
    BY <1>1, <2>1, <2>2, ReturnTidy
  <2>3. CASE known' = known \cup {loc[r].user} /\ Goto(r, "image") /\ UNCHANGED loc
    <3>1. pc'[r] = "image" /\ pc[r] = "create" /\ loc' = loc /\ loc[r].user \in known'
      BY <1>1, <1>2, <2>3 DEF CreateBegin, At, Goto
    <3> QED BY <2>1, <3>1 DEF Tidy, Passes, LocalState, StPcs, KnownPcs
  <2> QED BY <1>2, <2>2, <2>3 DEF CreateBegin
<1>3. ASSUME CreateImage(r) PROVE Tidy(r)
  <2>1. known' = known /\ pc[r] = "image" /\ loc[r].user \in known
    BY <1>3 DEF CreateImage, labs, At, LocalState, KnownPcs
  <2>2. CASE Return(r, "rejected")
    BY <1>1, <2>1, <2>2, ReturnTidy
  <2>3. CASE Goto(r, "check") /\ UNCHANGED loc
    <3>1. pc'[r] = "check" /\ loc' = loc
      BY <1>1, <2>3 DEF Goto
    <3> QED BY <2>1, <3>1 DEF Tidy, Passes, LocalState, StPcs, KnownPcs
  <2>4. CASE /\ labState[loc[r].user] # None /\ loc' = [loc EXCEPT ![r].st = labState[loc[r].user]]
             /\ Goto(r, "phase")
    <3>1. /\ pc'[r] = "phase" /\ loc'[r].st = labState[loc[r].user] /\ loc'[r].st # None
          /\ loc'[r].user = loc[r].user
      BY <1>1, <2>4 DEF Goto, Locals
    <3> QED BY <2>1, <3>1 DEF Tidy, Passes, LocalState, StPcs, KnownPcs
  <2> QED BY <1>3, <2>2, <2>3, <2>4 DEF CreateImage
<1>4. ASSUME CreatePhase(r) \/ CreatePhaseReported(r) PROVE Tidy(r)
  <2>1. /\ known' = known /\ pc[r] \in {"phase", "phaseReport"} /\ loc[r].user \in known
        /\ loc[r].st # None
    BY <1>4 DEF CreatePhase, CreatePhaseReported, labs, At, LocalState, KnownPcs, StPcs
  <2>2. pc'[r] \in {"phaseReport", "check"} /\ loc'[r].user = loc[r].user /\ loc'[r].st = loc[r].st
    BY <1>1, <1>4 DEF CreatePhase, CreatePhaseReported, Goto, Locals
  <2> QED BY <2>1, <2>2 DEF Tidy, Passes, LocalState, StPcs, KnownPcs
<1>5. ASSUME CreateCheck(r) PROVE Tidy(r)
  <2>1. known' = known /\ pc[r] = "check" /\ loc[r].user \in known
    BY <1>5 DEF CreateCheck, labs, At, LocalState, KnownPcs
  <2>2. CASE \E res : Return(r, res)
    BY <1>1, <2>1, <2>2, ReturnTidy
  <2>3. ASSUME NEW first, loc' = [loc EXCEPT ![r].st = None, ![r].first = first], Goto(r, "spawn")
        PROVE  Tidy(r)
    <3>1. pc'[r] = "spawn" /\ loc'[r].st = None /\ loc'[r].user = loc[r].user
      BY <1>1, <2>3 DEF Goto, Locals
    <3> QED BY <2>1, <3>1 DEF Tidy, Passes, LocalState, StPcs, KnownPcs
  <2> QED BY <1>5, <2>2, <2>3 DEF CreateCheck
<1>6. ASSUME CreateSpawn(r) PROVE Tidy(r)
  <2>1. known' = known /\ \E res : Return(r, res)
    BY <1>6 DEF CreateSpawn
  <2> QED BY <1>1, <2>1, ReturnTidy
<1> QED BY <1>2, <1>3, <1>4, <1>5, <1>6 DEF CreateStep

\* delete_lab and cancel.
LEMMA DeleteTidy ==
    ASSUME IInv, NEW c \in Callers, LocalState(c), DeleteStep(c)
    PROVE  Tidy(c)
<1>1. loc \in [Callers -> Locals] /\ pc \in [Callers -> CallerPcs]
  BY CallerFacts
<1>2. known' = known
  BY DEF DeleteStep, DeleteBegin, Cancel, Cancelled, DeleteTerminate, DeleteMonitor, DeleteEnd, labs
<1>3. ASSUME NEW res, Return(c, res) PROVE Tidy(c)
  BY <1>2, <1>3, ReturnTidy
<1>4. ASSUME DeleteBegin(c) PROVE Tidy(c)
  <2>1. CASE Return(c, "unknown")
    BY <1>3, <2>1
  <2>2. CASE loc[c].user \in known /\ UNCHANGED loc /\ (Goto(c, "terminate") \/ Goto(c, "cancel"))
    <3>1. pc'[c] \in {"terminate", "cancel"} /\ pc[c] = "delete"
      BY <1>1, <1>4, <2>2 DEF Goto, DeleteBegin, At
    <3> QED BY <1>2, <2>2, <3>1 DEF Tidy, Passes, LocalState, StPcs, KnownPcs
  <2>3. CASE loc' = [loc EXCEPT ![c].role = "joiner"] /\ Goto(c, "wait")
    <3>1. pc'[c] = "wait" /\ pc[c] = "delete" /\ loc'[c].st = loc[c].st
      BY <1>1, <1>4, <2>3 DEF Goto, DeleteBegin, At, Locals
    <3> QED BY <1>2, <3>1 DEF Tidy, Passes, LocalState, StPcs, KnownPcs
  <2> QED BY <1>4, <2>1, <2>2, <2>3 DEF DeleteBegin
<1>5. ASSUME DeleteTerminate(c) PROVE Tidy(c)
  <2>1. CASE Return(c, "unknown")
    BY <1>3, <2>1
  <2>2. CASE /\ labState[loc[c].user] # None
             /\ loc' = [loc EXCEPT ![c].st = labState[loc[c].user], ![c].role = "owner"]
             /\ Goto(c, "remove")
    <3>1. /\ pc'[c] = "remove" /\ pc[c] = "terminate" /\ loc'[c].st = labState[loc[c].user]
          /\ loc'[c].user = loc[c].user
      BY <1>1, <1>5, <2>2 DEF Goto, DeleteTerminate, At, Locals
    <3> QED BY <1>2, <2>2, <3>1 DEF Tidy, Passes, LocalState, StPcs, KnownPcs
  <2> QED BY <1>5, <2>1, <2>2 DEF DeleteTerminate
<1>6. ASSUME DeleteMonitor(c) PROVE Tidy(c)
  <2>1. CASE Return(c, "conflict")
    BY <1>3, <2>1
  <2>2. CASE loc' = [loc EXCEPT ![c].st = None] /\ Goto(c, "wait")
    <3>1. pc'[c] = "wait" /\ loc'[c].st = None
      BY <1>1, <2>2 DEF Goto, Locals
    <3> QED BY <1>2, <3>1 DEF Tidy, Passes, LocalState, StPcs, KnownPcs
  <2> QED BY <1>6, <2>1, <2>2 DEF DeleteMonitor
<1>7. ASSUME DeleteEnd(c) PROVE Tidy(c)
  <2>1. \E res : Return(c, res)
    BY <1>7 DEF DeleteEnd
  <2> QED BY <1>3, <2>1
<1>8. ASSUME Cancel(c) \/ Cancelled(c) PROVE Tidy(c)
  <2>1. /\ pc[c] \in {"cancel", "cancelled", "cancelReport"} /\ loc' = loc
        /\ pc'[c] \in {"cancelled", "cancelReport", "terminate"}
    BY <1>1, <1>8 DEF Cancel, Cancelled, Goto, At
  <2> QED BY <1>2, <2>1 DEF Tidy, Passes, LocalState, StPcs, KnownPcs
<1> QED BY <1>4, <1>5, <1>6, <1>7, <1>8 DEF DeleteStep

\* wait.
LEMMA WaitTidy ==
    ASSUME IInv, NEW c \in Callers, LocalState(c), WaitStep(c)
    PROVE  Tidy(c)
<1>1. loc \in [Callers -> Locals] /\ pc \in [Callers -> CallerPcs]
  BY CallerFacts
<1>2. known' = known /\ pc[c] \in {"wait", "capture", "complete", "collect", "waitReport"}
  BY DEF WaitStep, WaitBegin, WaitCapture, WaitComplete, WaitCollect, labs, At
<1>3. \/ \E res : Return(c, res)
      \/ /\ \E l \in {"capture", "complete", "collect", "waitReport", "sweep", "deleted", "dead"} : Goto(c, l)
         /\ loc' = loc \/ \E o : loc' = [loc EXCEPT ![c].op = o]
  BY DEF WaitStep, WaitBegin, WaitCapture, WaitComplete, WaitCollect
<1>4. CASE \E res : Return(c, res)
  BY <1>2, <1>4, ReturnTidy
<1>5. CASE /\ \E l \in {"capture", "complete", "collect", "waitReport", "sweep", "deleted", "dead"} : Goto(c, l)
           /\ loc' = loc \/ \E o : loc' = [loc EXCEPT ![c].op = o]
  <2>1. pc'[c] \in {"capture", "complete", "collect", "waitReport", "sweep", "deleted", "dead"}
        /\ loc'[c].st = loc[c].st
    BY <1>1, <1>5 DEF Goto, Locals
  <2> QED BY <1>2, <2>1 DEF Tidy, Passes, LocalState, StPcs, KnownPcs
<1> QED BY <1>3, <1>4, <1>5

\* reap_spawners.
LEMMA ReapTidy ==
    ASSUME IInv, LocalState(Reaper), ReapStep
    PROVE  Tidy(Reaper)
<1>1. loc \in [Callers -> Locals] /\ pc \in [Callers -> CallerPcs] /\ Reaper \in Callers /\ known' = known
  BY ReaperFacts, CallerFacts DEF ReapStep, ReapBegin, ReapNext, labs
<1>2. pc[Reaper] \in {"asleep", "sweep"} /\ loc[Reaper].st = None
  BY DEF ReapStep, ReapBegin, ReapNext, At, LocalState, StPcs
<1>3. /\ pc' = pc \/ \E l \in {"asleep", "sweep", "dead", "wait"} : Goto(Reaper, l)
      /\ \/ loc' = loc
         \/ loc' = [loc EXCEPT ![Reaper] = Idle]
         \/ \E u : loc' = [loc EXCEPT ![Reaper].user = u]
  BY DEF ReapStep, ReapBegin, ReapNext
<1>4. pc'[Reaper] \in {"asleep", "sweep", "dead", "wait"}
  BY <1>1, <1>2, <1>3 DEF Goto
<1>5. loc'[Reaper].st = None
  BY <1>1, <1>2, <1>3 DEF Locals, Idle
<1> QED BY <1>1, <1>4, <1>5 DEF Tidy, Passes, LocalState, StPcs, KnownPcs

\* reconcile.
LEMMA ReconcileTidy ==
    ASSUME IInv, LocalState(Reconciler), \A u \in Users : KnownUser(u), ReconcileStep
    PROVE  Tidy(Reconciler)
<1> DEFINE c == Reconciler
<1>1. loc \in [Callers -> Locals] /\ pc \in [Callers -> CallerPcs] /\ c \in Callers
  BY ReaperFacts, CallerFacts DEF Callers
<1>2. known \subseteq known'
  BY DEF ReconcileStep, ReconcileBegin, ReconcileListed, GatherNext, GatherRead, MalformedDeleted,
     ReconcileSync, WatchNext, WatchMonitor, GcNext, ReconcileEnd, labs
<1>3. ASSUME loc'[c].st = None, pc'[c] \notin StPcs \cup KnownPcs PROVE Tidy(c)
  BY <1>2, <1>3 DEF Tidy, Passes, LocalState
<1>4. CASE WatchNext /\ pc'[c] = "monitor"
  <2>1. PICK u \in pass.todo : /\ labState[u] # None
                               /\ loc' = [loc EXCEPT ![c].user = u, ![c].st = labState[u]]
    BY <1>1, <1>4 DEF WatchNext, Goto, At
  <2>2. u \in Users /\ u \in known
    BY <2>1 DEF KnownUser, IInv, TypeOK
  <2>3. loc'[c].user = u /\ loc'[c].st = labState[u]
    BY <1>1, <2>1 DEF Locals
  <2> QED BY <1>2, <1>4, <2>1, <2>2, <2>3 DEF Tidy, Passes, LocalState, StPcs, KnownPcs
<1>5. CASE ~(WatchNext /\ pc'[c] = "monitor")
  <2>1. loc[c].st # None => pc[c] = "monitor"
    BY DEF LocalState, StPcs, ReconcileStep, ReconcileBegin, ReconcileListed, GatherNext, GatherRead,
       MalformedDeleted, ReconcileSync, WatchNext, WatchMonitor, GcNext, ReconcileEnd, At
  <2>2. CASE pc[c] = "monitor"
    <3>1. WatchMonitor
      BY <2>2 DEF ReconcileStep, ReconcileBegin, ReconcileListed, GatherNext, GatherRead,
         MalformedDeleted, ReconcileSync, WatchNext, WatchMonitor, GcNext, ReconcileEnd, At
    <3>2. loc'[c] = Idle /\ pc'[c] = "watch"
      BY <1>1, <3>1 DEF WatchMonitor, Goto
    <3> QED BY <1>3, <3>2 DEF Idle, StPcs, KnownPcs
  <2>3. CASE pc[c] # "monitor"
    <3>1. loc[c].st = None
      BY <2>1, <2>3
    <3>2. CASE ReconcileBegin
      <4>1. loc'[c] = Idle /\ pc'[c] = "list"
        BY <1>1, <3>2 DEF ReconcileBegin, Goto
      <4> QED BY <1>3, <4>1 DEF Idle, StPcs, KnownPcs
    <3>3. ASSUME PassFails PROVE Tidy(c)
      <4>1. loc'[c] = Idle /\ pc'[c] \in {"timer", "bootFailed"}
        BY <1>1, <3>3 DEF PassFails, Goto
      <4> QED BY <1>3, <4>1 DEF Idle, StPcs, KnownPcs
    <3>4. CASE ReconcileListed /\ ~PassFails
      <4>1. loc' = loc /\ pc'[c] = "gather"
        BY <1>1, <3>4 DEF ReconcileListed, Goto
      <4> QED BY <1>3, <3>1, <4>1 DEF StPcs, KnownPcs
    <3>5. CASE GatherNext
      <4>1. pc'[c] \in {"sync", "read"} /\ loc'[c].st = loc[c].st
        BY <1>1, <3>5 DEF GatherNext, Goto, Locals
      <4> QED BY <1>3, <3>1, <4>1 DEF StPcs, KnownPcs
    <3>6. CASE GatherRead /\ ~PassFails
      <4>1. pc'[c] \in {"gather", "malformed"} /\ loc'[c].st = loc[c].st
        BY <1>1, <3>6 DEF GatherRead, Goto, Locals
      <4> QED BY <1>3, <3>1, <4>1 DEF StPcs, KnownPcs
    <3>7. CASE MalformedDeleted /\ ~PassFails
      <4>1. pc'[c] = "gather" /\ loc'[c].st = loc[c].st
        BY <1>1, <3>7 DEF MalformedDeleted, Goto, Locals
      <4> QED BY <1>3, <3>1, <4>1 DEF StPcs, KnownPcs
    <3>8. CASE ReconcileSync
      <4>1. pc'[c] = "watch" /\ loc' = loc
        BY <1>1, <3>8 DEF ReconcileSync, Goto
      <4> QED BY <1>3, <3>1, <4>1 DEF StPcs, KnownPcs
    <3>9. CASE WatchNext
      <4>1. \/ loc'[c] = Idle /\ pc'[c] = "gc"
            \/ loc' = loc /\ pc' = pc /\ pc[c] = "watch"
        BY <1>1, <1>5, <3>9 DEF WatchNext, Goto, At
      <4> QED BY <1>3, <3>1, <4>1 DEF Idle, StPcs, KnownPcs
    <3>10. CASE GcNext
      <4>1. \/ \E u : loc'[c] = [Idle EXCEPT !.user = u] /\ pc'[c] = "delete"
            \/ loc' = loc /\ pc'[c] \in {"gc", "metric"}
        BY <1>1, <3>10 DEF GcNext, Goto, At
      <4> QED BY <1>3, <3>1, <4>1 DEF Idle, StPcs, KnownPcs
    <3>11. CASE ReconcileEnd
      <4>1. loc'[c] = Idle /\ pc'[c] = "timer"
        BY <1>1, <3>11 DEF ReconcileEnd, Goto
      <4> QED BY <1>3, <4>1 DEF Idle, StPcs, KnownPcs
    <3>12. ~WatchMonitor
      BY <2>3 DEF WatchMonitor, At
    <3> QED BY <3>2, <3>3, <3>4, <3>5, <3>6, <3>7, <3>8, <3>9, <3>10, <3>11, <3>12 DEF ReconcileStep
  <2> QED BY <2>2, <2>3
<1> QED BY <1>4, <1>5

\* A request arrives, or a call that a caller waits for returns.
LEMMA WakeTidy ==
    ASSUME IInv, NEW c \in Callers, LocalState(c), (c \in Requests /\ Arrive(c)) \/ CallerReply(c)
    PROVE  Tidy(c)
<1>1. loc \in [Callers -> Locals] /\ pc \in [Callers -> CallerPcs]
  BY CallerFacts
<1>2. CASE c \in Requests /\ Arrive(c)
  <2>1. PICK u \in Users, m \in {"create", "delete"} :
           Goto(c, m) /\ loc' = [loc EXCEPT ![c] = [Idle EXCEPT !.user = u]]
    BY <1>2 DEF Arrive
  <2>2. pc'[c] \in {"create", "delete"} /\ loc'[c].st = None /\ known' = known
    BY <1>1, <1>2, <2>1 DEF Goto, Idle, Arrive, labs
  <2> QED BY <2>2 DEF Tidy, Passes, LocalState, StPcs, KnownPcs
<1>3. CASE CallerReply(c)
  <2>1. /\ known' = known
        /\ \/ pc' = pc
           \/ pc[c] = "timer" /\ Goto(c, "begin")
        /\ loc' = loc \/ \E val : loc' = [loc EXCEPT ![c].val = val]
    BY <1>3 DEF CallerReply, PhaseReply, OtherReply, ReconcilerReply, Timer, labs
  <2>2. loc'[c].st = loc[c].st /\ loc'[c].user = loc[c].user
    BY <1>1, <2>1 DEF Locals
  <2>3. pc'[c] = pc[c] \/ (pc[c] = "timer" /\ pc'[c] = "begin")
    BY <1>1, <2>1 DEF Goto
  <2> QED BY <2>1, <2>2, <2>3 DEF Tidy, Passes, LocalState, StPcs, KnownPcs
<1> QED BY <1>2, <1>3

-----------------------------------------------------------------------------
(* What steps do with the labs *)

\* A lab that has not started stays so, or is found to have failed, or is marked.
Harmless == \A s \in StateIds : \/ status'[s] \in {status[s], "FAILED", "TERMINATING"}
                                \/ status[s] = "RUNNING"

\* A step that assigns no lab.state and harms no lab that has not started.
Steady == labState' = labState /\ Harmless

\* The steps that assign lab.state, or make a lab anything but failed or terminating.
LEMMA StepLabs ==
    ASSUME IInv, [Next]_vars
    PROVE  \/ Restart \/ ReconcileSync
           \/ \E r \in Requests : CreateSpawn(r)
           \/ \E c \in Callers : DeleteEnd(c)
           \/ \E o \in OpIds : OpStep(o)
           \/ Steady
<1>1. ASSUME labState' = labState, status' = status PROVE Steady
  BY <1>1 DEF Steady, Harmless
<1>2. ASSUME NEW r \in Requests, CreateStep(r), ~CreateSpawn(r) PROVE Steady
  <2>1. CASE CreatePhase(r)
    <3>1. /\ labState' = labState
          /\ \/ status' = status
             \/ \E v : status' = [status EXCEPT ![loc[r].st] =
                          IF v = None THEN "FAILED" ELSE IF @ = "RUNNING" THEN FromPhase[v] ELSE @]
      BY <2>1 DEF CreatePhase
    <3>2. status \in [StateIds -> Statuses]
      BY DEF IInv, TypeOK
    <3> QED BY <3>1, <3>2 DEF Steady, Harmless
  <2>2. CASE ~CreatePhase(r)
    BY <1>1, <1>2, <2>2 DEF CreateStep, CreateBegin, CreateImage, CreatePhaseReported, CreateCheck, labs
  <2> QED BY <2>1, <2>2
<1>3. ASSUME NEW c \in Callers, DeleteStep(c), ~DeleteEnd(c) PROVE Steady
  <2>1. CASE DeleteTerminate(c)
    <3>1. /\ labState' = labState
          /\ status' = status \/ \E s : status' = [status EXCEPT ![s] = "TERMINATING"]
      BY <2>1 DEF DeleteTerminate
    <3>2. status \in [StateIds -> Statuses]
      BY DEF IInv, TypeOK
    <3> QED BY <3>1, <3>2 DEF Steady, Harmless
  <2>2. CASE ~DeleteTerminate(c)
    BY <1>1, <1>3, <2>2 DEF DeleteStep, DeleteBegin, Cancel, Cancelled, DeleteMonitor, labs
  <2> QED BY <2>1, <2>2
<1>4. ASSUME NEW c \in Callers, WaitStep(c) PROVE Steady
  BY <1>1, <1>4 DEF WaitStep, WaitBegin, WaitCapture, WaitComplete, WaitCollect, labs
<1>5. ASSUME ReapStep PROVE Steady
  BY <1>1, <1>5 DEF ReapStep, ReapBegin, ReapNext, labs
<1>6. ASSUME ReconcileStep, ~ReconcileSync PROVE Steady
  BY <1>1, <1>6 DEF ReconcileStep, ReconcileBegin, ReconcileListed, GatherNext, GatherRead,
     MalformedDeleted, WatchNext, WatchMonitor, GcNext, ReconcileEnd, labs
<1>7. ASSUME Dispatch PROVE Steady
  BY <1>1, <1>7 DEF Dispatch, labs
<1>8. ASSUME NEW c, CallerReply(c) \/ Arrive(c) PROVE Steady
  BY <1>1, <1>8 DEF CallerReply, PhaseReply, OtherReply, ReconcilerReply, Timer, Arrive, labs
<1>9. ASSUME NEW o, OpReply(o) PROVE Steady
  BY <1>1, <1>9 DEF OpReply, labs
<1>10. ASSUME NEW u, StrayLands(u) \/ PodStarts(u) \/ PodStops(u) PROVE Steady
  BY <1>1, <1>10 DEF StrayLands, PodStarts, PodStops, labs
<1>11. ASSUME UNCHANGED vars PROVE Steady
  BY <1>1, <1>11 DEF vars, labs
<1>12. ASSUME StartupFails \/ Crash PROVE Restart
  BY <1>12 DEF StartupFails, Crash
<1>13. Requests \cup {Reconciler} \subseteq Callers
  BY DEF Callers
<1> QED BY <1>2, <1>3, <1>4, <1>5, <1>6, <1>7, <1>8, <1>9, <1>10, <1>11, <1>12, <1>13 DEF Next, LoopStep

\* Every caller keeps its LabState, or takes its user's, and nobody forgets a user.
LEMMA StepTidy ==
    ASSUME IInv, OrderInv, StateInv, [Next]_vars, ~Restart, NEW c \in Callers
    PROVE  Tidy(c)
<1>1. LocalState(c) /\ LocalState(Reaper) /\ LocalState(Reconciler) /\ \A u \in Users : KnownUser(u)
  BY ReaperFacts DEF StateInv, Callers
<1>2. ASSUME pc'[c] = pc[c], loc'[c] = loc[c], known \subseteq known' PROVE Tidy(c)
  BY <1>1, <1>2 DEF Tidy, Passes, LocalState
<1>3. ASSUME NEW d \in Callers, CallerEffect(d), LocalState(d) => Tidy(d) PROVE Tidy(c)
  <2>1. CASE d = c
    BY <1>1, <1>3, <2>1
  <2>2. CASE d # c
    <3>1. pc'[c] = pc[c] /\ loc'[c] = loc[c]
      BY <1>3, <2>2, CallerFrame DEF OthersStay
    <3>2. known \subseteq known'
      BY <1>3 DEF StateInv, Tidy
    <3> QED BY <1>2, <3>1, <3>2
  <2> QED BY <2>1, <2>2
<1>4. ASSUME NEW r \in Requests, CreateStep(r) PROVE Tidy(c)
  BY <1>3, <1>4, CreateEffect, CreateTidy DEF Callers
<1>5. ASSUME NEW d \in Requests \cup {Reconciler}, DeleteStep(d) PROVE Tidy(c)
  <2>1. d \in Callers \ {Reaper}
    BY ReaperFacts DEF Callers
  <2> QED BY <1>3, <1>5, <2>1, DeleteEffect, DeleteTidy
<1>6. ASSUME NEW d \in Callers, WaitStep(d) PROVE Tidy(c)
  BY <1>3, <1>6, WaitEffect, WaitTidy
<1>7. ASSUME ReapStep PROVE Tidy(c)
  <2>1. CallerEffect(Reaper) /\ Reaper \in Callers
    BY <1>7, ReapEffect, ReaperFacts DEF CallerEffect
  <2> QED BY <1>3, <1>7, <2>1, ReapTidy
<1>8. ASSUME ReconcileStep PROVE Tidy(c)
  <2>1. CallerEffect(Reconciler) /\ Reconciler \in Callers
    BY <1>8, ReconcileEffect DEF Callers
  <2> QED BY <1>1, <1>3, <1>8, <2>1, ReconcileTidy
<1>9. ASSUME NEW d \in Callers, CallerReply(d) PROVE Tidy(c)
  <2>1. CallerEffect(d)
    BY <1>9, WakeEffect DEF CallerEffect
  <2> QED BY <1>3, <1>9, <2>1, WakeTidy
<1>10. ASSUME NEW r \in Requests, Arrive(r) PROVE Tidy(c)
  <2>1. CallerEffect(r) /\ r \in Callers
    BY <1>10, WakeEffect DEF CallerEffect, Callers
  <2> QED BY <1>3, <1>10, <2>1, WakeTidy
<1>11. ASSUME pc' = pc, loc' = loc, known' = known PROVE Tidy(c)
  BY <1>2, <1>11
<1>12. ASSUME NEW o \in OpIds, OpReply(o) \/ OpStep(o) PROVE Tidy(c)
  BY <1>11, <1>12 DEF OpReply, OpStep, labs
<1>13. ASSUME \/ Dispatch
              \/ \E u \in Users : StrayLands(u) \/ PodStarts(u) \/ PodStops(u)
              \/ UNCHANGED vars
       PROVE  Tidy(c)
  BY <1>11, <1>13 DEF Dispatch, StrayLands, PodStarts, PodStops, vars, labs
<1>14. ~StartupFails /\ ~Crash
  BY DEF StartupFails, Crash
<1> QED BY <1>4, <1>5, <1>6, <1>7, <1>8, <1>9, <1>10, <1>12, <1>13, <1>14 DEF Next, LoopStep

\* Who starts operations.
LEMMA NewOperation ==
    ASSUME IInv, OrderInv, [Next]_vars, NEW u \in Users, op[u] = None, op'[u] # None
    PROVE  \/ \E r \in Requests : CreateSpawn(r)
           \/ \E c \in Callers : DeleteMonitor(c)
           \/ WatchMonitor
<1>1. op' # op /\ op \in [Users -> OpIds \cup {None}]
  BY DEF IInv, TypeOK
<1>2. \A v \in Users : op' # [op EXCEPT ![v] = None]
  BY <1>1
<1>3. ASSUME NEW r \in Requests, CreateStep(r) PROVE CreateSpawn(r)
  BY <1>1, <1>3 DEF CreateStep, CreateBegin, CreateImage, CreatePhase, CreatePhaseReported, CreateCheck
<1>4. ASSUME NEW c \in Callers, DeleteStep(c) PROVE DeleteMonitor(c)
  <2>1. ASSUME Cancelled(c) PROVE FALSE
    <3>1. loc[c].user \in Users
      BY <2>1, CallerFacts DEF Cancelled, At, UserPcs, LockPcs
    <3> QED BY <1>1, <1>2, <2>1, <3>1 DEF Cancelled
  <2> QED BY <1>1, <1>4, <2>1 DEF DeleteStep, DeleteBegin, Cancel, DeleteTerminate, DeleteEnd
<1>5. ASSUME NEW c \in Callers, WaitStep(c) PROVE FALSE
  <2>1. loc[c].user \in Users
    BY <1>5, CallerFacts DEF WaitStep, WaitBegin, WaitCapture, WaitComplete, WaitCollect, At, UserPcs, LockPcs
  <2> QED BY <1>1, <1>2, <1>5, <2>1 DEF WaitStep, WaitBegin, WaitCapture, WaitComplete, WaitCollect
<1>6. ~ReapStep
  BY <1>1 DEF ReapStep, ReapBegin, ReapNext
<1>7. ASSUME ReconcileStep PROVE WatchMonitor
  BY <1>1, <1>7 DEF ReconcileStep, ReconcileBegin, ReconcileListed, GatherNext, GatherRead,
     MalformedDeleted, ReconcileSync, WatchNext, GcNext, ReconcileEnd
<1>8. ~Dispatch /\ \A c : ~CallerReply(c) /\ ~Arrive(c) /\ ~OpReply(c) /\ ~OpStep(c)
  BY <1>1 DEF Dispatch, CallerReply, PhaseReply, OtherReply, ReconcilerReply, Timer, Arrive, OpReply, OpStep
<1>9. \A v : ~StrayLands(v) /\ ~PodStarts(v) /\ ~PodStops(v)
  BY <1>1 DEF StrayLands, PodStarts, PodStops
<1>10. op' # NoLabs /\ ~UNCHANGED vars
  BY <1>1 DEF NoLabs, vars
<1>11. ~StartupFails /\ ~Crash
  BY <1>10 DEF StartupFails, Crash, Restart
<1>12. Requests \cup {Reconciler} \subseteq Callers
  BY DEF Callers
<1> QED BY <1>3, <1>4, <1>5, <1>6, <1>7, <1>8, <1>9, <1>10, <1>11, <1>12 DEF Next, LoopStep

\* What a step does to any operation.
LEMMA AnyOperation ==
    ASSUME IInv, StepEffect, NEW o \in OpIds
    PROVE  \/ KeepsOp(o) \/ OpStep(o) \/ Resets
           \/ \E c \in Callers : /\ Begins(c) /\ op' = [op EXCEPT ![loc[c].user] = o]
                                 /\ \A p \in OpIds \ {o} : ops'[p] = ops[p]
<1>1. CASE Rests \/ Takes
  BY <1>1 DEF Rests, Takes, KeepsOp
<1>2. ASSUME NEW c \in Callers, CallerEffect(c), ~Begins(c) PROVE KeepsOp(o)
  BY <1>2, HitsFacts, CapturesFacts
     DEF CallerEffect, Wakes, Walks, Keeps, Asks, Leaves, Collects, KeepsOp
<1>3. ASSUME NEW c \in Callers, Begins(c), ~KeepsOp(o)
      PROVE  op' = [op EXCEPT ![loc[c].user] = o] /\ \A p \in OpIds \ {o} : ops'[p] = ops[p]
  <2>1. PICK p \in OpIds : /\ op' = [op EXCEPT ![loc[c].user] = p]
                           /\ \A q \in OpIds \ {p} : ops'[q] = ops[q]
    BY <1>3, BeginsFacts
  <2> QED BY <1>3, <2>1 DEF KeepsOp
<1>4. ASSUME NEW p \in OpIds, OpReply(p) PROVE KeepsOp(o)
  BY <1>4, ReplyFacts
<1>5. ASSUME NEW p \in OpIds, OpStep(p) PROVE KeepsOp(o) \/ OpStep(o)
  <2>1. p # o => ops'[o] = ops[o]
    BY <1>5, OpStepFacts
  <2> QED BY <1>5, <2>1 DEF KeepsOp
<1> QED BY <1>1, <1>2, <1>3, <1>4, <1>5 DEF StepEffect

-----------------------------------------------------------------------------
(* Where operations and LabStates come from *)

\* An operation goes on with the LabState it was started with.
GoesOnWith(o) ==
    /\ Live(o) /\ ops'[o].user = ops[o].user /\ ops'[o].kind = ops[o].kind /\ ops'[o].st = ops[o].st
    /\ ops'[o].pc = "created" => ops[o].pc = "created"

\* create_lab starts an operation with a new LabState,
StartsSpawn(c, o) ==
    \E s \in FreeStates :
       /\ ops'[o].kind = "SPAWN" /\ ops'[o].st = s
       /\ labState' = [labState EXCEPT ![loc[c].user] = s]
       /\ status' = [status EXCEPT ![s] = "PENDING"]

\* anybody else with the one it has,
StartsOther(c, o) ==
    /\ ops'[o].kind # "SPAWN" /\ ops'[o].st = loc[c].st /\ loc[c].st # None

\* and each for its user, who has no operation.
StartsWith(c, o) ==
    /\ loc[c].user \in known /\ op[loc[c].user] = None
    /\ op' = [op EXCEPT ![loc[c].user] = o] /\ ops'[o].user = loc[c].user
    /\ \A p \in OpIds \ {o} : ops'[p] = ops[p]
    /\ StartsSpawn(c, o) \/ StartsOther(c, o)

\* The operation that StartOperation fills in.
LEMMA StartedOperation ==
    ASSUME IInv, NEW p \in FreeOps, NEW u, NEW kind, NEW st, NEW first,
           StartOperation(p, u, kind, st, first)
    PROVE  /\ p \in OpIds /\ op' = [op EXCEPT ![u] = p]
           /\ ops'[p].user = u /\ ops'[p].kind = kind /\ ops'[p].st = st
           /\ \A q \in OpIds \ {p} : ops'[q] = ops[q]
<1>1. PICK a : a = [IdleOp EXCEPT !.user = u, !.kind = kind, !.st = st, !.first = first, !.pc = "created"]
  OBVIOUS
<1>2. a.user = u /\ a.kind = kind /\ a.st = st
  BY <1>1 DEF IdleOp
<1>3. p \in OpIds /\ ops \in [OpIds -> Operations]
  BY DEF FreeOps, IInv, TypeOK
<1>4. ops' = [ops EXCEPT ![p] = a] /\ op' = [op EXCEPT ![u] = p]
  BY <1>1 DEF StartOperation
<1> QED BY <1>2, <1>3, <1>4

\* monitor() is called by create_lab, delete_lab and the reconciler.
LEMMA OperationStarts ==
    ASSUME IInv, OrderInv, StateInv, [Next]_vars, NEW c \in Callers, Begins(c), NEW o \in OpIds,
           op' = [op EXCEPT ![loc[c].user] = o]
    PROVE  StartsWith(c, o)
<1> DEFINE u == loc[c].user
<1>1. /\ u \in Users /\ running = c /\ op[u] = None /\ op'[u] = o /\ op'[u] # None /\ LocalState(c)
      /\ op \in [Users -> OpIds \cup {None}]
  BY BeginsFacts, ConstantsAssumption DEF IInv, TypeOK, StateInv
<1>2. ~Conflict(u)
  BY <1>1 DEF Conflict
<1>3. ASSUME CreateSpawn(c) PROVE StartsWith(c, o)
  <2>1. pc[c] = "spawn" /\ u \in known
    BY <1>1, <1>3 DEF CreateSpawn, At, LocalState, KnownPcs
  <2>2. PICK p \in FreeOps, s \in FreeStates :
           /\ StartOperation(p, u, "SPAWN", s, loc[c].first)
           /\ labState' = [labState EXCEPT ![u] = s]
           /\ status' = [status EXCEPT ![s] = "PENDING"]
    BY <1>2, <1>3 DEF CreateSpawn
  <2>3. /\ p \in OpIds /\ op' = [op EXCEPT ![u] = p]
        /\ ops'[p].user = u /\ ops'[p].kind = "SPAWN" /\ ops'[p].st = s
        /\ \A q \in OpIds \ {p} : ops'[q] = ops[q]
    BY <2>2, StartedOperation
  <2>4. p = o
    BY <1>1, <2>3
  <2> QED BY <1>1, <2>1, <2>2, <2>3, <2>4 DEF StartsWith, StartsSpawn
<1>4. ASSUME NEW kind \in {"DELETE", "WATCH"}, NEW p \in FreeOps, pc[c] \in {"remove", "monitor"},
             StartOperation(p, u, kind, loc[c].st, FALSE)
      PROVE  StartsWith(c, o)
  <2>1. loc[c].st # None /\ u \in known
    BY <1>1, <1>4 DEF LocalState, KnownPcs, StPcs
  <2>2. /\ p \in OpIds /\ op' = [op EXCEPT ![u] = p]
        /\ ops'[p].user = u /\ ops'[p].kind = kind /\ ops'[p].st = loc[c].st
        /\ \A q \in OpIds \ {p} : ops'[q] = ops[q]
    BY <1>4, StartedOperation
  <2>3. p = o /\ kind # "SPAWN"
    BY <1>1, <2>2
  <2> QED BY <1>1, <2>1, <2>2, <2>3 DEF StartsWith, StartsOther
<1>5. ASSUME DeleteMonitor(c) PROVE StartsWith(c, o)
  <2>1. PICK p \in FreeOps : StartOperation(p, u, "DELETE", loc[c].st, FALSE)
    BY <1>2, <1>5 DEF DeleteMonitor
  <2>2. pc[c] = "remove"
    BY <1>5 DEF DeleteMonitor, At
  <2> QED BY <1>4, <2>1, <2>2
<1>6. ASSUME WatchMonitor PROVE StartsWith(c, o)
  <2>1. c = Reconciler /\ pc[c] = "monitor"
    BY <1>1, <1>6 DEF WatchMonitor, At
  <2>2. PICK p \in FreeOps : StartOperation(p, u, "WATCH", loc[c].st, FALSE)
    BY <1>2, <1>6, <2>1 DEF WatchMonitor
  <2> QED BY <1>4, <2>1, <2>2
<1>7. CASE \E r \in Requests : CreateSpawn(r)
  <2>1. PICK r \in Requests : CreateSpawn(r)
    BY <1>7
  <2>2. r = c
    BY <1>1, <2>1 DEF CreateSpawn, At
  <2> QED BY <1>3, <2>1, <2>2
<1>8. CASE \E d \in Callers : DeleteMonitor(d)
  <2>1. PICK d \in Callers : DeleteMonitor(d)
    BY <1>8
  <2>2. d = c
    BY <1>1, <2>1 DEF DeleteMonitor, At
  <2> QED BY <1>5, <2>1, <2>2
<1> QED BY <1>1, <1>6, <1>7, <1>8, NewOperation

\* Where a live operation comes from.
LEMMA LiveOperation ==
    ASSUME IInv, OrderInv, StateInv, [Next]_vars, NEW o \in OpIds, ops'[o].pc # "done"
    PROVE  GoesOnWith(o) \/ \E c \in Callers : StartsWith(c, o)
<1>1. StepEffect
  BY StepHasEffect
<1>2. CASE KeepsOp(o)
  BY <1>2 DEF KeepsOp, GoesOnWith, Live
<1>3. CASE OpStep(o)
  <2>1. Live(o) /\ (GoesOn(o) \/ Ends(o))
    BY <1>3, OpStepFacts
  <2>2. "created" \notin Awaits
    BY DEF Awaits, Mutating
  <2> QED BY <2>1, <2>2 DEF GoesOn, Ends, GoesOnWith
<1>4. CASE Resets
  <2>1. ops' = NoOps
    BY <1>4 DEF Resets
  <2>2. ops'[o].pc = "done"
    BY <2>1 DEF NoOps, IdleOp
  <2> QED BY <2>2
<1>5. ASSUME NEW c \in Callers, Begins(c), op' = [op EXCEPT ![loc[c].user] = o]
      PROVE  StartsWith(c, o)
  BY <1>5, OperationStarts
<1> QED BY <1>1, <1>2, <1>3, <1>4, <1>5, AnyOperation

\* Where a user's LabState comes from.
LEMMA NewLabState ==
    ASSUME IInv, [Next]_vars, ~Restart
    PROVE  /\ \A u \in Users : labState'[u] \in {labState[u], None} \cup FreeStates
           /\ \A u, v \in Users : /\ labState'[u] = labState'[v] /\ labState'[u] \in StateIds
                                  /\ labState'[u] # labState[u] /\ labState'[v] # labState[v]
                                  => u = v
<1>1. labState \in [Users -> StateIds \cup {None}] /\ None \notin StateIds
  BY ConstantsAssumption DEF IInv, TypeOK
<1>2. CASE labState' = labState
  BY <1>2
<1>3. ASSUME NEW w, NEW s \in FreeStates \cup {None}, labState' = [labState EXCEPT ![w] = s]
      PROVE  /\ \A u \in Users : labState'[u] \in {labState[u], None} \cup FreeStates
             /\ \A u \in Users : labState'[u] # labState[u] => u = w
  BY <1>1, <1>3
<1>4. ASSUME NEW r \in Requests, CreateSpawn(r), labState' # labState
      PROVE  \E w : \E s \in FreeStates : labState' = [labState EXCEPT ![w] = s]
  BY <1>4 DEF CreateSpawn
<1>5. CASE ReconcileSync
  <2>1. PICK new \in NewStates :
           labState' = [u \in Users |-> IF u \in Discovered THEN new[u] ELSE labState[u]]
    BY <1>5 DEF ReconcileSync
  <2>2. /\ \A u \in Discovered : new[u] \in FreeStates
        /\ \A u, v \in Discovered : u # v => new[u] # new[v]
    BY <2>1 DEF NewStates
  <2> QED BY <2>1, <2>2
<1>6. ASSUME NEW c \in Callers, DeleteEnd(c), labState' # labState
      PROVE  labState' = [labState EXCEPT ![loc[c].user] = None]
  BY <1>6 DEF DeleteEnd
<1>7. ASSUME NEW o, OpStep(o) PROVE labState' = labState
  BY <1>7 DEF OpStep
<1>8. ASSUME Steady PROVE labState' = labState
  BY <1>8 DEF Steady
<1>9. CASE labState' # labState
  <2>1. CASE \E r \in Requests : CreateSpawn(r)
    BY <1>3, <1>4, <1>9, <2>1
  <2>2. CASE \E c \in Callers : DeleteEnd(c)
    BY <1>3, <1>6, <1>9, <2>2
  <2> QED BY <1>5, <1>7, <1>8, <1>9, <2>1, <2>2, StepLabs
<1> QED BY <1>2, <1>9

-----------------------------------------------------------------------------
(* Every step keeps a spawn and its user's LabState together *)

\* Nothing is known after a restart, and no caller has a LabState.
FreshStates ==
    /\ known = {} /\ labState = NoLabs /\ op = NoLabs /\ ops = NoOps
    /\ \A c \in Callers : loc[c].st = None /\ pc[c] \in {"begin", "asleep", "idle", "over"}

\* So no LabState is shared and no spawn is in progress.
LEMMA FreshState == FreshStates => StateInv /\ SpawnOwnsState
<1> SUFFICES ASSUME FreshStates PROVE StateInv /\ SpawnOwnsState
  OBVIOUS
<1>1. \A u \in Users : labState[u] = None /\ op[u] = None
  BY DEF FreshStates, NoLabs
<1>2. \A o \in OpIds : ~Live(o) /\ ops[o].kind = "DELETE"
  BY DEF FreshStates, NoOps, IdleOp, Live
<1>3. HoldsInv
  <2>1. \A u \in Users, s \in StateIds : ~Holds(u, s)
    BY <1>1, <1>2, ConstantsAssumption DEF FreshStates, Holds
  <2> QED BY <2>1 DEF HoldsInv
<1>4. \A c \in Callers : LocalState(c)
  BY DEF FreshStates, LocalState, StPcs, KnownPcs
<1>5. \A o \in OpIds : OpState(o)
  BY <1>2 DEF OpState
<1>6. \A u \in Users : KnownUser(u)
  BY <1>1 DEF KnownUser
<1> QED BY <1>1, <1>3, <1>4, <1>5, <1>6 DEF StateInv, SpawnOwnsState

\* A restart leads to such a state.
LEMMA RestartState ==
    ASSUME IInv, StateInv, Restart
    PROVE  StateInv' /\ SpawnOwnsState'
<1>1. Idle.st = None /\ [Idle EXCEPT !.res = "lost"].st = None
  BY DEF Idle
<1>2. \A c \in Callers : pc'[c] \in {"begin", "asleep", "idle", "over"}
  BY DEF Restart, BootPc
<1>3. ASSUME NEW c \in Callers PROVE loc'[c].st = None
  <2>1. \/ loc'[c] \in {Idle, [Idle EXCEPT !.res = "lost"]}
        \/ loc'[c] = loc[c] /\ pc[c] \in {"idle", "over"}
    BY DEF Restart
  <2>2. pc[c] \in {"idle", "over"} => loc[c].st = None
    BY DEF StateInv, LocalState, StPcs
  <2> QED BY <1>1, <2>1, <2>2
<1>4. FreshStates'
  BY <1>2, <1>3 DEF Restart, FreshStates
<1> QED BY <1>4, FreshState, PTL

\* Nobody gets another user's LabState.
LEMMA HoldsStep ==
    ASSUME IInv, OrderInv, StateInv, [Next]_vars, ~Restart
    PROVE  HoldsInv'
<1> DEFINE Gets(u, s) == labState'[u] = s /\ labState[u] # s
<1>1. ASSUME NEW u \in Users, NEW s \in StateIds, labState'[u] = s PROVE Holds(u, s) \/ Gets(u, s)
  BY <1>1 DEF Holds
<1>2. ASSUME NEW u \in Users, NEW s \in StateIds, NEW c \in Callers, loc'[c].user = u, loc'[c].st = s
      PROVE  Holds(u, s)
  <2>1. Tidy(c) /\ s # None
    BY StepTidy, ConstantsAssumption
  <2> QED BY <1>2, <2>1 DEF Tidy, Passes, Holds
<1>3. ASSUME NEW u \in Users, NEW s \in StateIds,
             NEW o \in OpIds, ops'[o].pc # "done", ops'[o].user = u, ops'[o].st = s
      PROVE  Holds(u, s) \/ Gets(u, s)
  <2>1. CASE GoesOnWith(o)
    BY <1>3, <2>1 DEF GoesOnWith, Holds
  <2>2. ASSUME NEW c \in Callers, StartsWith(c, o), StartsOther(c, o) PROVE Holds(u, s)
    BY <1>3, <2>2 DEF StartsWith, StartsOther, Holds
  <2>3. ASSUME NEW c \in Callers, StartsWith(c, o), StartsSpawn(c, o) PROVE Gets(u, s)
    <3>1. labState' = [labState EXCEPT ![u] = s] /\ s \in FreeStates
      BY <1>3, <2>3 DEF StartsWith, StartsSpawn
    <3>2. labState \in [Users -> StateIds \cup {None}]
      BY DEF IInv, TypeOK
    <3> QED BY <3>1, <3>2 DEF FreeStates
  <2> QED BY <1>3, <2>1, <2>2, <2>3, LiveOperation DEF StartsWith
<1>4. ASSUME NEW u \in Users, NEW s \in StateIds, Holds(u, s)' PROVE Holds(u, s) \/ Gets(u, s)
  BY <1>1, <1>2, <1>3, <1>4 DEF Holds, Live
<1>5. ASSUME NEW u \in Users, NEW s \in StateIds, Gets(u, s) PROVE \A v \in Users : ~Holds(v, s)
  <2>1. s \in FreeStates
    BY <1>5, NewLabState, ConstantsAssumption
  <2> QED BY <2>1 DEF FreeStates, Holds
<1>6. ASSUME NEW u \in Users, NEW v \in Users, NEW s \in StateIds, Gets(u, s), Gets(v, s) PROVE u = v
  BY <1>6, NewLabState
<1>7. HoldsInv
  BY DEF StateInv
<1> HIDE DEF Gets
<1>8. ASSUME NEW u \in Users, NEW v \in Users, NEW s \in StateIds, Holds(u, s)', Holds(v, s)' PROVE u = v
  BY <1>4, <1>5, <1>6, <1>7, <1>8 DEF HoldsInv
<1> QED BY <1>8 DEF HoldsInv

\* The status of the lab of an operation that has not started: nobody marks it
\* as running or terminated.
LEMMA PendingLab ==
    ASSUME IInv, StateInv, [Next]_vars, ~Restart, NEW o \in OpIds, ~OpStep(o),
           Live(o), ops[o].kind = "SPAWN", ops[o].pc = "created"
    PROVE  status'[ops[o].st] \in {"PENDING", "FAILED", "TERMINATING"}
<1> DEFINE s == ops[o].st
           u == ops[o].user
<1>1. /\ s \in StateIds /\ u \in Users /\ op[u] = o /\ status[s] \in {"PENDING", "FAILED", "TERMINATING"}
      /\ Holds(u, s) /\ HoldsInv /\ status \in [StateIds -> Statuses] /\ s \notin FreeStates
  <2>1. s # None /\ status[s] \in {"PENDING", "FAILED", "TERMINATING"} /\ HoldsInv
    BY DEF StateInv, OpState
  <2>2. s \in StateIds \cup {None} /\ u \in Users /\ op[u] = o /\ status \in [StateIds -> Statuses]
    BY DEF IInv, TypeOK, OpInv, Operations
  <2> QED BY <2>1, <2>2 DEF Holds, FreeStates
<1> HIDE DEF s, u
<1>2. ASSUME NEW r \in Requests, CreateSpawn(r) PROVE status'[s] = status[s]
  <2>1. status' = status \/ \E t \in FreeStates : status' = [status EXCEPT ![t] = "PENDING"]
    BY <1>2 DEF CreateSpawn
  <2> QED BY <1>1, <2>1
<1>3. ASSUME ReconcileSync PROVE status'[s] = status[s]
  <2>1. PICK new \in NewStates :
           status' = [t \in StateIds |->
                 IF t \in {new[v] : v \in Discovered}
                   THEN pass.obs[CHOOSE v \in Discovered : new[v] = t]
                 ELSE IF t \in {labState[v] : v \in Corrected}
                   THEN Corrections(CHOOSE v \in Corrected : labState[v] = t)
                 ELSE status[t]]
    BY <1>3 DEF ReconcileSync
  <2>2. s \notin {new[v] : v \in Discovered}
    BY <1>1 DEF NewStates
  <2>3. ASSUME NEW v \in Corrected, labState[v] = s PROVE FALSE
    <3>1. v \in Users /\ op[v] = None
      BY DEF Corrected, Modified, IInv, TypeOK
    <3>2. Holds(v, s)
      BY <2>3 DEF Holds
    <3>3. u = v
      BY <1>1, <3>1, <3>2 DEF HoldsInv
    <3> QED BY <1>1, <3>1, <3>3, ConstantsAssumption
  <2> QED BY <1>1, <2>1, <2>2, <2>3
<1>4. ASSUME NEW c, DeleteEnd(c) PROVE status'[s] = status[s]
  BY <1>4 DEF DeleteEnd
<1>5. ASSUME NEW p \in OpIds, OpStep(p) PROVE status'[s] = status[s]
  <2>1. status' = status \/ \E x : status' = [status EXCEPT ![ops[p].st] = x]
    BY <1>5 DEF OpStep, OpStart, OpDelete, OpCreate, OpWatch, OpPublish, OpError, OpCancelled, SetStatus
  <2>2. Live(p) /\ p # o
    BY <1>5, OpStepFacts
  <2>3. ops[p].user \in Users /\ op[ops[p].user] = p
    BY <2>2 DEF IInv, OpInv
  <2>4. ops[p].st = s => Holds(ops[p].user, s)
    BY <2>2 DEF Holds
  <2>5. ops[p].st # s
    BY <1>1, <2>2, <2>3, <2>4 DEF HoldsInv
  <2> QED BY <1>1, <2>1, <2>5
<1>6. ASSUME Steady PROVE status'[s] \in {"PENDING", "FAILED", "TERMINATING"}
  BY <1>1, <1>6 DEF Steady, Harmless
<1> QED BY <1>1, <1>2, <1>3, <1>4, <1>5, <1>6, StepLabs DEF s

\* Every operation keeps a LabState, which is not terminated before its task starts.
LEMMA OpStateStep ==
    ASSUME IInv, OrderInv, StateInv, [Next]_vars, ~Restart, NEW o \in OpIds
    PROVE  OpState(o)'
<1>1. OpState(o) /\ None \notin StateIds
  BY ConstantsAssumption DEF StateInv
<1>2. CASE ops'[o].pc = "done"
  BY <1>2 DEF OpState, Live
<1>3. CASE GoesOnWith(o)
  <2>1. ASSUME ops'[o].kind = "SPAWN", ops'[o].pc = "created"
        PROVE  status'[ops[o].st] \in {"PENDING", "FAILED", "TERMINATING"}
    <3>1. ~OpStep(o)
      <4>1. "created" \notin Awaits \cup {"done"}
        BY DEF Awaits, Mutating
      <4> QED BY <2>1, <4>1, OpStepFacts DEF GoesOn, Ends
    <3> QED BY <1>3, <2>1, <3>1, PendingLab DEF GoesOnWith
  <2> QED BY <1>1, <1>3, <2>1 DEF OpState, GoesOnWith
<1>4. ASSUME NEW c \in Callers, StartsOther(c, o) PROVE OpState(o)'
  BY <1>4 DEF StartsOther, OpState
<1>5. ASSUME NEW c \in Callers, StartsSpawn(c, o) PROVE OpState(o)'
  <2>1. PICK s \in FreeStates : ops'[o].st = s /\ status' = [status EXCEPT ![s] = "PENDING"]
    BY <1>5 DEF StartsSpawn
  <2>2. s \in StateIds /\ status \in [StateIds -> Statuses]
    BY DEF FreeStates, IInv, TypeOK
  <2>3. status'[s] = "PENDING"
    BY <2>1, <2>2
  <2> QED BY <1>1, <2>1, <2>2, <2>3 DEF OpState
<1> QED BY <1>2, <1>3, <1>4, <1>5, LiveOperation DEF StartsWith

\* Whoever has a LabState or an operation is in _labs.
LEMMA KnownStep ==
    ASSUME IInv, IInv', OrderInv, StateInv, [Next]_vars, ~Restart, NEW u \in Users
    PROVE  KnownUser(u)'
<1>1. /\ known \subseteq known' /\ KnownUser(u) /\ \A c \in Callers : LocalState(c)
      /\ labState \in [Users -> StateIds \cup {None}] /\ op \in [Users -> OpIds \cup {None}]
  BY StepTidy, ReaperFacts DEF Tidy, StateInv, IInv, TypeOK
<1>2. ASSUME op'[u] # None, op[u] = None PROVE u \in known
  <2>1. PICK c \in Callers : Begins(c) \/ Collects(c)
    <3>1. ~Resets /\ op' # op
      BY <1>2 DEF Resets, NoLabs
    <3> QED BY <3>1, StepHasEffect, TableFrame
  <2>2. ~Collects(c)
    BY <1>1, <1>2 DEF Collects
  <2>3. PICK o \in OpIds : op' = [op EXCEPT ![loc[c].user] = o]
    BY <2>1, <2>2, BeginsFacts
  <2>4. loc[c].user = u
    BY <1>1, <1>2, <2>3
  <2> QED BY <2>1, <2>2, <2>3, <2>4, OperationStarts DEF StartsWith
<1>3. ASSUME labState'[u] # None, labState[u] = None PROVE u \in known'
  <2>1. ASSUME NEW r \in Requests, CreateSpawn(r) PROVE u \in known
    <3>1. \E s : labState' = [labState EXCEPT ![loc[r].user] = s]
      BY <1>3, <2>1 DEF CreateSpawn
    <3>2. loc[r].user = u
      BY <1>1, <1>3, <3>1
    <3>3. r \in Callers /\ pc[r] = "spawn"
      BY <2>1 DEF CreateSpawn, At, Callers
    <3> QED BY <1>1, <3>2, <3>3 DEF LocalState, KnownPcs
  <2>2. ASSUME ReconcileSync PROVE u \in known'
    BY <1>3, <2>2 DEF ReconcileSync
  <2>3. ASSUME NEW c \in Callers, DeleteEnd(c) PROVE FALSE
    BY <1>1, <1>3, <2>3 DEF DeleteEnd
  <2>4. ASSUME NEW o, OpStep(o) PROVE FALSE
    BY <1>3, <2>4 DEF OpStep
  <2>5. ~Steady
    BY <1>3 DEF Steady
  <2> QED BY <1>1, <2>1, <2>2, <2>3, <2>4, <2>5, StepLabs
<1> QED BY <1>1, <1>2, <1>3 DEF KnownUser

\* Every step preserves the invariant of the LabStates.
LEMMA StateStep ==
    ASSUME IInv, IInv', OrderInv, StateInv, [Next]_vars
    PROVE  StateInv'
<1>1. CASE Restart
  BY <1>1, RestartState
<1>2. CASE ~Restart
  <2>1. ASSUME NEW c \in Callers PROVE LocalState(c)'
    BY <1>2, StepTidy DEF Tidy
  <2>2. ASSUME NEW o \in OpIds PROVE OpState(o)'
    BY <1>2, OpStateStep
  <2>3. ASSUME NEW u \in Users PROVE KnownUser(u)'
    BY <1>2, KnownStep
  <2>4. HoldsInv'
    BY <1>2, HoldsStep
  <2> QED BY <2>1, <2>2, <2>3, <2>4 DEF StateInv
<1> QED BY <1>1, <1>2

\* While a spawn is in progress, nobody changes its user's lab.state.
LEMMA SpawnKeepsState ==
    ASSUME IInv, RefInv, RaceInv, StateInv, SpawnOwnsState, [Next]_vars, ~Restart,
           NEW u \in Users, op[u] # None, Live(op[u]), ops[op[u]].kind = "SPAWN"
    PROVE  labState'[u] = labState[u]
<1>1. labState \in [Users -> StateIds \cup {None}] /\ op[u] \in OpIds
  BY DEF IInv, TypeOK
<1>2. ASSUME NEW r \in Requests, CreateSpawn(r) PROVE labState'[u] = labState[u]
  <2>1. CASE Conflict(loc[r].user)
    BY <1>2, <2>1 DEF CreateSpawn
  <2>2. CASE ~Conflict(loc[r].user)
    <3>1. u # loc[r].user
      BY <2>2 DEF Conflict
    <3>2. \E s : labState' = [labState EXCEPT ![loc[r].user] = s]
      BY <1>2, <2>2 DEF CreateSpawn
    <3> QED BY <1>1, <3>1, <3>2
  <2> QED BY <2>1, <2>2
<1>3. ASSUME ReconcileSync PROVE labState'[u] = labState[u]
  <2>1. u \in known
    BY DEF StateInv, KnownUser
  <2>2. u \notin Discovered
    BY <2>1 DEF Discovered
  <2> QED BY <1>3, <2>2 DEF ReconcileSync
<1>4. ASSUME NEW c \in Callers, DeleteEnd(c) PROVE labState'[u] = labState[u]
  <2>1. CASE labState' = labState
    BY <2>1
  <2>2. CASE loc[c].user # u
    BY <1>1, <1>4, <2>2 DEF DeleteEnd
  <2>3. CASE loc[c].user = u /\ labState' # labState
    <3>1. status[labState[u]] = "TERMINATED" /\ pc[c] = "deleted"
      BY <1>4, <2>3 DEF DeleteEnd, At
    <3>2. ops[op[u]].pc = "created"
      BY <2>3, <3>1 DEF RaceInv, DeletedInv, Live
    <3>3. status[ops[op[u]].st] \in {"PENDING", "FAILED", "TERMINATING"}
      BY <1>1, <3>2 DEF StateInv, OpState
    <3> QED BY <3>1, <3>3 DEF SpawnOwnsState
  <2> QED BY <2>1, <2>2, <2>3
<1>5. ASSUME NEW o, OpStep(o) PROVE labState'[u] = labState[u]
  BY <1>5 DEF OpStep
<1>6. ASSUME Steady PROVE labState'[u] = labState[u]
  BY <1>6 DEF Steady
<1> QED BY <1>2, <1>3, <1>4, <1>5, <1>6, StepLabs

\* The LabState of a spawn is its user's from its first step to its last.
LEMMA OwnsStep ==
    ASSUME IInv, IInv', OrderInv, RefInv, RefInv', RaceInv, StateInv, SpawnOwnsState, [Next]_vars
    PROVE  SpawnOwnsState'
<1>1. CASE Restart
  BY <1>1, RestartState
<1>2. CASE ~Restart
  <2>1. ASSUME NEW u \in Users, op'[u] # None, ops'[op'[u]].pc # "done",
               ops'[op'[u]].kind = "SPAWN"
        PROVE  labState'[u] = ops'[op'[u]].st
    <3>1. PICK o \in OpIds : o = op'[u]
      BY <2>1 DEF IInv, TypeOK
    <3>2. ops'[o].user = u
      BY <2>1, <3>1 DEF RefInv, UserInv, Live
    <3>3. CASE GoesOnWith(o)
      <4>1. op[u] = o /\ o # None /\ Live(o) /\ ops[o].kind = "SPAWN" /\ ops'[o].st = ops[o].st
        BY <2>1, <3>1, <3>2, <3>3 DEF GoesOnWith, IInv, OpInv
      <4>2. labState[u] = ops[o].st
        BY <4>1 DEF SpawnOwnsState
      <4>3. labState'[u] = labState[u]
        BY <1>2, <4>1, SpawnKeepsState
      <4> QED BY <3>1, <4>1, <4>2, <4>3
    <3>4. ASSUME NEW c \in Callers, StartsWith(c, o) PROVE labState'[u] = ops'[o].st
      <4>1. PICK s \in FreeStates : /\ ops'[o].st = s
                                    /\ labState' = [labState EXCEPT ![loc[c].user] = s]
        BY <2>1, <3>1, <3>4 DEF StartsWith, StartsSpawn, StartsOther
      <4>2. loc[c].user = u /\ labState \in [Users -> StateIds \cup {None}]
        BY <3>2, <3>4 DEF StartsWith, IInv, TypeOK
      <4> QED BY <4>1, <4>2
    <3> QED BY <2>1, <3>1, <3>3, <3>4, LiveOperation
  <2> QED BY <2>1 DEF SpawnOwnsState, Live
<1> QED BY <1>1, <1>2

-----------------------------------------------------------------------------
(* The theorems about a spawn's LabState *)

\* What is proved inductive together.
OwnInv == RefInv /\ RaceInv /\ StateInv /\ SpawnOwnsState

\* Nobody refers to anything in the initial states.
LEMMA InitOwn == Init => OwnInv
<1> SUFFICES ASSUME Init PROVE OwnInv
  OBVIOUS
<1>1. /\ ready = <<Reconciler>> /\ running = None
      /\ \A c \in Callers : /\ pc[c] \in {"begin", "asleep", "idle"}
                            /\ loc[c].op = None /\ loc[c].st = None
      /\ \A u \in Users : op[u] = None /\ lock[u] = <<>>
      /\ \A o \in OpIds : ops[o] = IdleOp
  BY DEF Init, BootPc, Idle, NoLabs, NoLocks, NoOps
<1>2. RefInv
  <2>1. \A c \in Callers : ReferInv(c) /\ QueuedInv(c)
    BY <1>1 DEF ReferInv, QueuedInv, LockPcs
  <2>2. \A o \in OpIds : RaiseInv(o) /\ DeleteInv(o)
    BY <1>1 DEF RaiseInv, DeleteInv, IdleOp, DeletePcs
  <2> QED BY <1>1, <2>1, <2>2 DEF RefInv, UserInv
<1>3. RaceInv
  <2>1. \A c \in Callers : WokenInv(c) /\ LateOp(c) /\ LateQueue(c) /\ LateAhead(c) /\ DeletedInv(c)
    BY <1>1 DEF WokenInv, LateOp, LateQueue, LateAhead, DeletedInv, Late, Refers
  <2>2. ReaperInv
    BY <1>1, ReaperFacts DEF ReaperInv, ReaperWaits, ReaperCaptures, ReaperRefers, ReaperCompletes,
       ReaperAhead, ReaperAlone
  <2> QED BY <2>1, <2>2 DEF RaceInv
<1>4. StateInv /\ SpawnOwnsState
  <2>1. FreshStates
    BY <1>1 DEF Init, FreshStates
  <2> QED BY <2>1, FreshState
<1> QED BY <1>2, <1>3, <1>4 DEF OwnInv

\* Every step preserves all of it.
LEMMA StepOwn ==
    ASSUME IInv, IInv', OrderInv, OwnInv, [Next]_vars
    PROVE  OwnInv'
<1>1. StepEffect
  BY StepHasEffect
<1>2. RefInv'
  BY <1>1, RefStep DEF OwnInv
<1>3. RaceInv'
  BY <1>1, <1>2, RaceStep DEF OwnInv
<1>4. StateInv'
  BY StateStep DEF OwnInv
<1>5. SpawnOwnsState'
  BY <1>2, OwnsStep DEF OwnInv
<1> QED BY <1>2, <1>3, <1>4, <1>5 DEF OwnInv

\* A caller of delete_lab whose operation somebody else has collected returns from
\* wait() before an operation started since has got anywhere, and a LabState is
\* never shared by two users.
THEOREM OwnershipInvariant == Spec => []OwnInv
<1>1. IInv /\ IInv' /\ OrderInv /\ OwnInv /\ [Next]_vars => OwnInv'
  BY StepOwn
<1> QED BY <1>1, InitOwn, Invariant, OrderInvariant, PTL DEF Spec

\* create_lab assigns lab.state after monitor() has started the task, and delete_lab
\* clears whatever lab.state it finds when wait() returns; and yet a spawn in
\* progress works on the LabState that the status routes return.
THEOREM SpawnOwnsItsState == Spec => []SpawnOwnsState
<1>1. OwnInv => SpawnOwnsState
  BY DEF OwnInv
<1> QED BY <1>1, OwnershipInvariant, PTL
=============================================================================
