-------------------------- MODULE SessionManagerProofs --------------------------
(***************************************************************************)
(* Theorems about SessionManager, for any threads, servers and bounds:     *)
(* operations on a session exclude each other, a server never holds again  *)
(* a session it has closed, a thread makes no call in a session in which a *)
(* call of its own timed out, and whatever fails, the close of a session   *)
(* that is gone stays on its way to every live server that may hold it.    *)
(* No operation waits for ever for a lock, and every step it takes brings  *)
(* it nearer to its end.                                                   *)
(***************************************************************************)
EXTENDS SessionManager, SequenceTheorems, TLAPS

Busy(t) == task[t].pc # "idle"
Op(t)   == task[t].op
On(t)   == task[t].s

(* What a thread is doing where.                                           *)
Places == \A t \in Threads :
  /\ task[t].pc = "lock" => Op(t) \in {"reset", "call", "read", "close", "quarantine"}
  /\ task[t].pc = "drop_lock" => Op(t) \in AllowMissing
  /\ task[t].pc = "quarantine" => Op(t) = "call"

(* A session in the registry has its lock in the table; ids in use were    *)
(* handed out.                                                             *)
RegisteredHasLock == registered \subseteq locks
HandedOut ==
  /\ registered \subseteq 1 .. count
  /\ \A t \in Threads : Busy(t) => On(t) \in 1 .. count

(* A thread works with a lock of its own only on a session that is gone.   *)
OwnLockOfGone == \A t \in Threads :
  Busy(t) /\ task[t].own => task[t].pc \in {"lock", "drop_lock"} /\ On(t) \notin registered

(* What closes a session has taken it out of the registry; what uses it    *)
(* finds it there until the end.                                           *)
ClosingIsGone == \A t \in Threads :
  (InIO(t) /\ Op(t) \in BestEffort) \/ task[t].pc = "drop_lock" => On(t) \notin registered
UsingIsThere == \A t \in Threads :
  InIO(t) /\ Op(t) \notin BestEffort => On(t) \in registered

(* A thread between two requests holds the session's lock, or has a        *)
(* session nobody else knows of.                                           *)
HoldsLock == \A t \in Threads : InIO(t) /\ Op(t) # "cleanup" => holder[On(t)] = t
Private == \A t \in Threads :
  Busy(t) /\ Op(t) \in {"create", "cleanup"} =>
    /\ InIO(t) /\ On(t) \notin returned
    /\ \A u \in Threads \ {t} : Busy(u) => On(u) # On(t)

Control ==
  /\ Places /\ RegisteredHasLock /\ HandedOut /\ OwnLockOfGone
  /\ ClosingIsGone /\ UsingIsThere /\ HoldsLock /\ Private

(* A close on its way, or served, is for a session that is gone for good,  *)
(* and a reset is in the pipe before any close of its session.             *)
Gone == (1 .. count) \ registered
InOrder(p, done, gone) ==
  /\ done \subseteq gone
  /\ \A i \in 1 .. Len(p) : p[i].request = "close" => p[i].s \in gone
  /\ \A j \in 1 .. Len(p) : p[j].request = "reset" => p[j].s \notin done
  /\ \A i, j \in 1 .. Len(p) :
       i < j /\ p[i].request = "close" /\ p[j].request = "reset" => p[i].s # p[j].s
PipesInOrder == \A o \in Servers : InOrder(pipe[o], closed[o], Gone)
Wire == PipesInOrder /\ NeverRevived

(* After a timeout the session is gone, or its caller about to remove it.  *)
TimedOutIsGone == \A p \in timedOut :
  /\ p[2] \in 1 .. count
  /\ p[2] \in registered =>
       /\ On(p[1]) = p[2]
       /\ task[p[1]].pc = "quarantine" \/ (task[p[1]].pc = "lock" /\ Op(p[1]) = "quarantine")

IInv == TypeOK /\ Control /\ Wire /\ TimedOutIsGone

-----------------------------------------------------------------------------
LEMMA OwnersHold == Len(Owners) \in Nat \ {0} /\ \A i \in 1 .. Len(Owners) : Owners[i] \in Servers
BY OwnersAssumption DEF Servers

LEMMA Initially == Init => IInv
<1> SUFFICES ASSUME Init PROVE IInv
  OBVIOUS
<1> USE OwnersHold, ThreadsAssumption, BoundsAssumption DEF Init
<1>1. TypeOK
  <2>1. \A o \in Servers : << >> \in Seq(Request)
    OBVIOUS
  <2> QED
    BY <2>1 DEF TypeOK
<1>2. \A t \in Threads : task[t].pc = "idle"
  BY DEF NoTask
<1>3. Control
  BY <1>2 DEF Control, Places, RegisteredHasLock, HandedOut, OwnLockOfGone, ClosingIsGone,
              UsingIsThere, HoldsLock, Private, Busy, InIO
<1>4. Wire /\ TimedOutIsGone
  BY DEF Wire, PipesInOrder, InOrder, NeverRevived, TimedOutIsGone
<1> QED
  BY <1>1, <1>3, <1>4 DEF IInv

-----------------------------------------------------------------------------
(* The steps, by what they do to the registry and to their thread.         *)
Requested(t)  == InIO(t) /\ (NextOwner(t) \/ \E b \in BOOLEAN : Fail(t, b))
Quiet         == UNCHANGED << registry, task >>
Moves ==
  \E t \in Threads :
    \/ StartCreate(t)
    \/ \E o \in Operations, s \in Sessions, i \in 1 .. Len(Owners) : StartOn(t, o, s, i)
    \/ Acquire(t) \/ StartQuarantine(t) \/ DropLock(t)
    \/ Send(t) \/ Requested(t)

LEMMA NextMoves == ASSUME IInv, [Next]_vars PROVE Moves \/ Quiet
<1>1. ASSUME NEW t \in Threads, SendFails(t) \/ Receive(t) \/ TimeOut(t)
      PROVE  Requested(t)
  BY <1>1 DEF SendFails, Receive, TimeOut, Requested, InIO
<1>2. ASSUME NEW o \in Servers, Serve(o) \/ Die(o)
      PROVE  Quiet
  BY <1>2 DEF Serve, Die, Quiet
<1>3. ASSUME Finished \/ UNCHANGED vars
      PROVE  Quiet
  BY <1>3 DEF Finished, Quiet, vars
<1> QED
  BY <1>1, <1>2, <1>3 DEF Next, Start, Continue, Moves

(* Types, step by step: the registry and the threads, then the servers.    *)
RegistryTyped ==
  /\ count \in 0 .. MaxSessions
  /\ registered \subseteq Sessions /\ locks \subseteq Sessions /\ poisoned \subseteq Sessions
  /\ holder \in [Sessions -> Threads \cup {NoThread}]
  /\ returned \subseteq 1 .. count
  /\ task \in [Threads -> Task \cup {NoTask}]

(* A task that is changed is a task.                                       *)
LEMMA Resent ==
  ASSUME NEW k \in Task, NEW o \in Operations \cup BestEffort
  PROVE  [k EXCEPT !.pc = "send", !.op = o, !.at = 1] \in Task
<1>1. 1 \in 1 .. Len(Owners) /\ "send" \in {"lock", "send", "wait", "quarantine", "drop_lock"}
  BY OwnersHold
<1> QED
  BY <1>1 DEF Task

LEMMA Advanced ==
  ASSUME NEW k \in Task, k.at < Len(Owners)
  PROVE  [k EXCEPT !.pc = "send", !.at = k.at + 1] \in Task
<1>1. k.at + 1 \in 1 .. Len(Owners)
  BY OwnersHold DEF Task
<1> DEFINE at == k.at + 1
<1> HIDE DEF at
<1>2. [k EXCEPT !.pc = "send", !.at = at] \in Task
  BY <1>1 DEF Task, at
<1> QED
  BY <1>2 DEF at

LEMMA Quarantining ==
  ASSUME NEW k \in Task, NEW b \in BOOLEAN
  PROVE  [k EXCEPT !.pc = "lock", !.op = "quarantine", !.at = 1, !.own = b] \in Task
<1>1. 1 \in 1 .. Len(Owners) /\ "quarantine" \in Operations \cup BestEffort
  BY OwnersHold DEF BestEffort
<1> QED
  BY <1>1 DEF Task

LEMMA RegistryTypedStep == ASSUME TypeOK, HandedOut, Moves PROVE RegistryTyped'
<1>0. RegistryTyped
  BY DEF TypeOK, RegistryTyped
<1>a. \A u \in Threads : Busy(u) => On(u) \in 1 .. count
  BY DEF HandedOut
<1> USE <1>0, OwnersHold, BoundsAssumption DEF RegistryTyped, Sessions
<1> PICK t \in Threads :
      \/ StartCreate(t)
      \/ \E o \in Operations, s \in Sessions, i \in 1 .. Len(Owners) : StartOn(t, o, s, i)
      \/ Acquire(t) \/ StartQuarantine(t) \/ DropLock(t)
      \/ Send(t) \/ Requested(t)
  BY DEF Moves
<1>1. task[t].pc # "idle" => task[t] \in Task
  BY DEF NoTask
<1>2. ASSUME NEW k \in Task \cup {NoTask}, Be(t, k)
      PROVE  task' \in [Threads -> Task \cup {NoTask}]
  BY <1>2 DEF Be
<1>3. Idle(t) => task' \in [Threads -> Task \cup {NoTask}]
  BY <1>2 DEF Idle
<1>4. ASSUME task[t].pc # "idle", NEW place \in {"lock", "send", "wait", "quarantine", "drop_lock"},
             Goto(t, place)
      PROVE  task' \in [Threads -> Task \cup {NoTask}]
  <2>1. [task[t] EXCEPT !.pc = place] \in Task
    BY <1>1, <1>4 DEF Task
  <2> QED
    BY <1>2, <1>4, <2>1 DEF Goto
<1>5. ASSUME task[t].pc # "idle", NEW o \in Operations \cup BestEffort, SendAll(t, o)
      PROVE  task' \in [Threads -> Task \cup {NoTask}]
  <2>1. [task[t] EXCEPT !.pc = "send", !.op = o, !.at = 1] \in Task
    BY <1>1, <1>5, Resent
  <2> QED
    BY <1>2, <1>5, <2>1 DEF SendAll
<1>6. CASE StartCreate(t)
  <2> DEFINE k == [pc |-> "send", op |-> "create", s |-> count + 1, at |-> 1, own |-> FALSE]
  <2>1. count + 1 \in Sessions /\ Be(t, k)
    BY <1>6 DEF StartCreate
  <2>2. k \in Task
    BY <2>1 DEF Task, Operations
  <2>3. task' \in [Threads -> Task \cup {NoTask}]
    BY <1>2, <2>1, <2>2
  <2> QED
    BY <1>6, <2>1, <2>3 DEF StartCreate
<1>7. CASE \E o \in Operations, s \in Sessions, i \in 1 .. Len(Owners) : StartOn(t, o, s, i)
  <2>1. PICK o \in Operations, s \in Sessions, i \in 1 .. Len(Owners) : StartOn(t, o, s, i)
    BY <1>7
  <2> DEFINE k == [pc |-> "lock", op |-> o, s |-> s, at |-> i, own |-> s \notin locks]
  <2>2. k \in Task
    BY DEF Task
  <2>3. Be(t, k) \/ UNCHANGED task
    BY <2>1 DEF StartOn
  <2>4. task' \in [Threads -> Task \cup {NoTask}]
    BY <1>2, <2>2, <2>3
  <2> QED
    BY <2>1, <2>4 DEF StartOn, registry
<1>8. CASE Acquire(t)
  <2>1. task[t].pc = "lock"
    BY <1>8 DEF Acquire
  <2>2. Goto(t, "send") \/ Goto(t, "drop_lock") \/ Idle(t)
    BY <1>8 DEF Acquire
  <2>3. task' \in [Threads -> Task \cup {NoTask}]
    BY <1>3, <1>4, <2>1, <2>2
  <2>4. task[t].s \in Sessions
    BY <1>1, <2>1 DEF Task
  <2> QED
    BY <1>8, <2>3, <2>4 DEF Acquire
<1>9. CASE StartQuarantine(t)
  <2> DEFINE k == [task[t] EXCEPT !.pc = "lock", !.op = "quarantine", !.at = 1,
                                  !.own = task[t].s \notin locks]
  <2>1. task[t].pc = "quarantine" /\ Be(t, k)
    BY <1>9 DEF StartQuarantine
  <2>2. k \in Task
    BY <1>1, <2>1, Quarantining
  <2>3. task' \in [Threads -> Task \cup {NoTask}]
    BY <1>2, <2>1, <2>2
  <2> QED
    BY <1>9, <2>3 DEF StartQuarantine, registry
<1>10. CASE DropLock(t)
  BY <1>3, <1>10 DEF DropLock
<1>11. CASE Send(t)
  <2>1. task' \in [Threads -> Task \cup {NoTask}]
    BY <1>4, <1>11 DEF Send
  <2> QED
    BY <1>11, <2>1 DEF Send, registry
<1>12. CASE Requested(t)
  <2>1. task[t].pc # "idle" /\ task[t] \in Task /\ task[t].s \in Sessions
    BY <1>1, <1>12 DEF Requested, InIO, Task
  <2>2. ASSUME Complete(t) PROVE RegistryTyped'
    <3>1. task' \in [Threads -> Task \cup {NoTask}]
      <4>1. Goto(t, "drop_lock") \/ Idle(t)
        BY <2>2 DEF Complete
      <4> QED
        BY <1>3, <1>4, <2>1, <4>1
    <3>2. holder' \in [Sessions -> Threads \cup {NoThread}]
      BY <2>1, <2>2 DEF Complete, Release
    <3>3. returned' \subseteq 1 .. count'
      BY <1>a, <2>1, <2>2 DEF Complete, Busy, On
    <3> QED
      BY <2>1, <2>2, <3>1, <3>2, <3>3 DEF Complete
  <2>3. ASSUME NextOwner(t) PROVE RegistryTyped'
    <3>1. CASE task[t].op # "call" /\ task[t].at < Len(Owners)
      <4> DEFINE k == [task[t] EXCEPT !.pc = "send", !.at = @ + 1]
      <4>1. k \in Task /\ Be(t, k)
        <5>1. [task[t] EXCEPT !.pc = "send", !.at = task[t].at + 1] \in Task
          BY <2>1, <3>1, Advanced
        <5> QED
          BY <2>3, <3>1, <5>1 DEF NextOwner
      <4>2. task' \in [Threads -> Task \cup {NoTask}]
        BY <1>2, <4>1
      <4> QED
        BY <2>3, <3>1, <4>2 DEF NextOwner, registry
    <3> QED
      BY <2>2, <2>3, <3>1 DEF NextOwner
  <2>4. ASSUME ResetFailed(t) PROVE RegistryTyped'
    <3>1. task' \in [Threads -> Task \cup {NoTask}]
      BY <1>5, <2>1, <2>4 DEF ResetFailed, BestEffort
    <3> QED
      BY <2>1, <2>4, <3>1 DEF ResetFailed
  <2>5. ASSUME CreateFailed(t) PROVE RegistryTyped'
    <3>1. task' \in [Threads -> Task \cup {NoTask}]
      BY <1>5, <2>1, <2>5 DEF CreateFailed, BestEffort
    <3>2. holder' \in [Sessions -> Threads \cup {NoThread}]
      BY <2>1, <2>5 DEF CreateFailed, Release
    <3> QED
      BY <2>1, <2>5, <3>1, <3>2 DEF CreateFailed
  <2>6. ASSUME NEW b \in BOOLEAN, Fail(t, b) PROVE RegistryTyped'
    <3>1. ASSUME Release(t), Goto(t, "quarantine") \/ Idle(t),
                 UNCHANGED << count, registered, locks, poisoned, returned >>
          PROVE  RegistryTyped'
      <4>1. task' \in [Threads -> Task \cup {NoTask}]
        BY <1>3, <1>4, <2>1, <3>1
      <4> QED
        BY <2>1, <3>1, <4>1 DEF Release
    <3> QED
      BY <2>3, <2>4, <2>5, <2>6, <3>1 DEF Fail
  <2> QED
    BY <1>12, <2>3, <2>6 DEF Requested
<1> QED
  BY <1>6, <1>7, <1>8, <1>9, <1>10, <1>11, <1>12

-----------------------------------------------------------------------------
(* How a thread changes its place: it is at p, with operation o on session *)
(* x, and no other thread moves.                                           *)
Becomes(t, p, o, x, b) ==
  /\ task'[t].pc = p /\ task'[t].op = o /\ task'[t].s = x /\ task'[t].own = b
  /\ \A u \in Threads : u # t => task'[u] = task[u]
Stops(t) ==
  /\ task'[t].pc = "idle"
  /\ \A u \in Threads : u # t => task'[u] = task[u]

LEMMA FieldsAdvanced ==
  ASSUME NEW k \in Task, NEW r, r = [k EXCEPT !.pc = "send", !.at = k.at + 1]
  PROVE  r.pc = "send" /\ r.op = k.op /\ r.s = k.s /\ r.own = k.own
BY DEF Task

LEMMA Placed ==
  ASSUME TypeOK, NEW t \in Threads, task[t].pc # "idle"
  PROVE  /\ \A p : Goto(t, p) => Becomes(t, p, task[t].op, task[t].s, task[t].own)
         /\ \A o : SendAll(t, o) => Becomes(t, "send", o, task[t].s, task[t].own)
         /\ Be(t, [task[t] EXCEPT !.pc = "send", !.at = @ + 1])
              => Becomes(t, "send", task[t].op, task[t].s, task[t].own)
         /\ StartQuarantine(t) => Becomes(t, "lock", "quarantine", task[t].s, task[t].s \notin locks)
<1>1. task \in [Threads -> Task \cup {NoTask}] /\ task[t] \in Task
  BY DEF TypeOK, NoTask
<1>2. ASSUME NEW k, Be(t, k)
      PROVE  task'[t] = k /\ \A u \in Threads : u # t => task'[u] = task[u]
  BY <1>1, <1>2 DEF Be
<1>3. ASSUME NEW p, Goto(t, p) PROVE Becomes(t, p, task[t].op, task[t].s, task[t].own)
  BY <1>1, <1>2, <1>3 DEF Goto, Becomes, Task
<1>4. ASSUME NEW o, SendAll(t, o) PROVE Becomes(t, "send", o, task[t].s, task[t].own)
  <2>1. /\ task'[t] = [task[t] EXCEPT !.pc = "send", !.op = o, !.at = 1]
        /\ \A u \in Threads : u # t => task'[u] = task[u]
    BY <1>2, <1>4 DEF SendAll
  <2>2. ASSUME NEW k \in Task, NEW r, k = task[t], r = task'[t]
        PROVE  r.pc = "send" /\ r.op = o /\ r.s = k.s /\ r.own = k.own
    <3>1. r = [k EXCEPT !.pc = "send", !.op = o, !.at = 1]
      BY <2>1, <2>2
    <3> QED
      BY <3>1 DEF Task
  <2> QED
    BY <1>1, <2>1, <2>2 DEF Becomes
<1>5. ASSUME Be(t, [task[t] EXCEPT !.pc = "send", !.at = @ + 1])
      PROVE  Becomes(t, "send", task[t].op, task[t].s, task[t].own)
  <2>1. /\ task'[t] = [task[t] EXCEPT !.pc = "send", !.at = task[t].at + 1]
        /\ \A u \in Threads : u # t => task'[u] = task[u]
    BY <1>2, <1>5
  <2> QED
    BY <1>1, <2>1, FieldsAdvanced DEF Becomes
<1>6. ASSUME StartQuarantine(t)
      PROVE  Becomes(t, "lock", "quarantine", task[t].s, task[t].s \notin locks)
  <2>1. /\ task'[t] = [task[t] EXCEPT !.pc = "lock", !.op = "quarantine", !.at = 1,
                                       !.own = task[t].s \notin locks]
        /\ \A u \in Threads : u # t => task'[u] = task[u]
    BY <1>2, <1>6 DEF StartQuarantine
  <2>2. ASSUME NEW k \in Task, NEW r, k = task[t], r = task'[t]
        PROVE  r.pc = "lock" /\ r.op = "quarantine" /\ r.s = k.s /\ r.own = (task[t].s \notin locks)
    <3>1. r = [k EXCEPT !.pc = "lock", !.op = "quarantine", !.at = 1, !.own = task[t].s \notin locks]
      BY <2>1, <2>2
    <3> QED
      BY <3>1 DEF Task
  <2> QED
    BY <1>1, <2>1, <2>2 DEF Becomes
<1> QED
  BY <1>3, <1>4, <1>5, <1>6

LEMMA Stopped ==
  ASSUME TypeOK, NEW t \in Threads, Idle(t)
  PROVE  Stops(t)
BY DEF TypeOK, Idle, Be, NoTask, Stops

-----------------------------------------------------------------------------
(* The invariant of the registry and the threads is kept, whatever a       *)
(* thread does.                                                            *)
LEMMA ControlTypes ==
  ASSUME TypeOK
  PROVE  /\ count \in Nat /\ NoThread \notin Threads
         /\ holder \in [Sessions -> Threads \cup {NoThread}]
         /\ task \in [Threads -> Task \cup {NoTask}]
         /\ \A t \in Threads : task[t].pc # "idle" => task[t].s \in Sessions /\ task[t].own \in BOOLEAN
BY ThreadsAssumption DEF TypeOK, Task, NoTask

LEMMA StartsKeepControl ==
  ASSUME IInv, NEW t \in Threads,
         \/ StartCreate(t)
         \/ \E o \in Operations, s \in Sessions, i \in 1 .. Len(Owners) : StartOn(t, o, s, i)
  PROVE  Control'
<1> USE ControlTypes DEF IInv, Control, Becomes, Stops, Busy, Op, On, InIO
<1>1. task[t].pc = "idle"
  <2>1. Spend(t)
    BY DEF StartCreate, StartOn
  <2> QED
    BY <2>1 DEF Spend, NoTask
<1>2. CASE StartCreate(t)
  <2>1. /\ count' = count + 1 /\ count + 1 \in Sessions
        /\ registered' = registered \cup {count + 1} /\ locks' = locks \cup {count + 1}
        /\ holder' = [holder EXCEPT ![count + 1] = t] /\ returned' = returned
    BY <1>2 DEF StartCreate
  <2>2. Becomes(t, "send", "create", count + 1, FALSE)
    BY <1>2 DEF StartCreate, Be, Becomes
  <2>3. returned \subseteq 1 .. count
    BY DEF TypeOK
  <2>4. 1 .. count' = (1 .. count) \cup {count + 1} /\ count + 1 \notin 1 .. count
    BY <2>1
  <2>5. Places'
    BY <2>1, <2>2, <2>3, <2>4, <1>1 DEF Places, AllowMissing, BestEffort
  <2>6. RegisteredHasLock'
    BY <2>1, <2>2, <2>3, <2>4, <1>1 DEF RegisteredHasLock, ClosingIsGone, HandedOut, Places, AllowMissing, BestEffort
  <2>7. HandedOut'
    BY <2>1, <2>2, <2>3, <2>4, <1>1 DEF HandedOut, Places, AllowMissing, BestEffort
  <2>8. OwnLockOfGone'
    BY <2>1, <2>2, <2>3, <2>4, <1>1 DEF OwnLockOfGone, HandedOut, RegisteredHasLock, Places, AllowMissing, BestEffort
  <2>9. ClosingIsGone'
    BY <2>1, <2>2, <2>3, <2>4, <1>1 DEF ClosingIsGone, HandedOut, UsingIsThere, Places, AllowMissing, BestEffort
  <2>10. UsingIsThere'
    BY <2>1, <2>2, <2>3, <2>4, <1>1 DEF UsingIsThere, HandedOut, ClosingIsGone, HoldsLock, Places, AllowMissing, BestEffort
  <2>11. HoldsLock'
    BY <2>1, <2>2, <2>3, <2>4, <1>1 DEF HoldsLock, Private, HandedOut, Places, AllowMissing, BestEffort
  <2>12. Private'
    BY <2>1, <2>2, <2>3, <2>4, <1>1 DEF Private, HandedOut, Places, AllowMissing, BestEffort
  <2> QED
    BY <2>5, <2>6, <2>7, <2>8, <2>9, <2>10, <2>11, <2>12
<1>3. CASE \E o \in Operations, s \in Sessions, i \in 1 .. Len(Owners) : StartOn(t, o, s, i)
  <2>1. PICK o \in Operations \ {"create"}, s \in returned, i \in 1 .. Len(Owners) : StartOn(t, o, s, i)
    BY <1>3 DEF StartOn
  <2>2. UNCHANGED << count, registered, locks, holder, returned >> /\ s \in 1 .. count
    BY <2>1 DEF StartOn, registry, TypeOK
  <2>3. CASE UNCHANGED task
    BY <2>2, <2>3 DEF Places, RegisteredHasLock, HandedOut, OwnLockOfGone, ClosingIsGone,
                      UsingIsThere, HoldsLock, Private
  <2>4. CASE /\ s \in locks \/ o \in AllowMissing
             /\ Be(t, [pc |-> "lock", op |-> o, s |-> s, at |-> i, own |-> s \notin locks])
    <3>1. Becomes(t, "lock", o, s, s \notin locks)
      BY <2>4 DEF Be, Becomes
    <3>2. o \in {"reset", "call", "read", "close"} /\ (s \notin locks => s \notin registered)
      BY <2>1 DEF Operations, RegisteredHasLock
    <3>3. Places'
      BY <2>2, <3>1, <3>2, <1>1 DEF Places, AllowMissing, BestEffort
    <3>4. RegisteredHasLock'
      BY <2>2, <3>1, <3>2, <1>1 DEF RegisteredHasLock, ClosingIsGone, HandedOut, Places, AllowMissing, BestEffort
    <3>5. HandedOut'
      BY <2>2, <3>1, <3>2, <1>1 DEF HandedOut, Places, AllowMissing, BestEffort
    <3>6. OwnLockOfGone'
      BY <2>2, <3>1, <3>2, <1>1 DEF OwnLockOfGone, HandedOut, RegisteredHasLock, Places, AllowMissing, BestEffort
    <3>7. ClosingIsGone'
      BY <2>2, <3>1, <3>2, <1>1 DEF ClosingIsGone, HandedOut, UsingIsThere, Places, AllowMissing, BestEffort
    <3>8. UsingIsThere'
      BY <2>2, <3>1, <3>2, <1>1 DEF UsingIsThere, HandedOut, ClosingIsGone, HoldsLock, Places, AllowMissing, BestEffort
    <3>9. HoldsLock'
      BY <2>2, <3>1, <3>2, <1>1 DEF HoldsLock, Private, HandedOut, Places, AllowMissing, BestEffort
    <3>10. Private'
      BY <2>2, <3>1, <3>2, <1>1 DEF Private, HandedOut, Places, AllowMissing, BestEffort
    <3> QED
      BY <3>3, <3>4, <3>5, <3>6, <3>7, <3>8, <3>9, <3>10
  <2> QED
    BY <2>1, <2>3, <2>4 DEF StartOn
<1> QED
  BY <1>2, <1>3

LEMMA AcquireKeepsControl == ASSUME IInv, NEW t \in Threads, Acquire(t) PROVE Control'
<1> USE ControlTypes DEF IInv, Control, Becomes, Stops, Busy, Op, On, InIO
<1> DEFINE s == task[t].s
           o == task[t].op
<1>1. /\ task[t].pc = "lock" /\ s \in Sessions /\ UNCHANGED << count, returned >>
      /\ task[t].own \/ holder[s] = NoThread
      /\ registered' = IF o \in AllowMissing THEN registered \ {s} ELSE registered
  BY DEF Acquire
<1>2. CASE s \in registered
  <2>1. ~task[t].own
    BY <1>1, <1>2 DEF OwnLockOfGone
  <2>2. holder' = [holder EXCEPT ![s] = t] /\ locks' = locks
    BY <1>2, <2>1 DEF Acquire
  <2>3. Becomes(t, "send", o, s, task[t].own)
    BY <1>1, <1>2, Placed DEF Acquire
  <2>4. Places'
    BY <1>1, <1>2, <2>1, <2>2, <2>3 DEF Places, AllowMissing, BestEffort
  <2>5. RegisteredHasLock'
    BY <1>1, <1>2, <2>1, <2>2, <2>3 DEF RegisteredHasLock, ClosingIsGone, HandedOut, Places, AllowMissing, BestEffort
  <2>6. HandedOut'
    BY <1>1, <1>2, <2>1, <2>2, <2>3 DEF HandedOut, Places, AllowMissing, BestEffort
  <2>7. OwnLockOfGone'
    BY <1>1, <1>2, <2>1, <2>2, <2>3 DEF OwnLockOfGone, HandedOut, RegisteredHasLock, Places, AllowMissing, BestEffort
  <2>8. ClosingIsGone'
    BY <1>1, <1>2, <2>1, <2>2, <2>3 DEF ClosingIsGone, HandedOut, UsingIsThere, Places, AllowMissing, BestEffort
  <2>9. UsingIsThere'
    BY <1>1, <1>2, <2>1, <2>2, <2>3 DEF UsingIsThere, HandedOut, ClosingIsGone, HoldsLock, Places, AllowMissing, BestEffort
  <2>10. HoldsLock'
    BY <1>1, <1>2, <2>1, <2>2, <2>3 DEF HoldsLock, Private, HandedOut, Places, AllowMissing, BestEffort
  <2>11. Private'
    BY <1>1, <1>2, <2>1, <2>2, <2>3 DEF Private, HandedOut, Places, AllowMissing, BestEffort
  <2> QED
    BY <2>4, <2>5, <2>6, <2>7, <2>8, <2>9, <2>10, <2>11
<1>3. CASE s \notin registered
  <2>1. /\ holder' = holder /\ registered' = registered
        /\ locks' = IF o = "close" THEN locks \ {s} ELSE locks
    BY <1>1, <1>3 DEF Acquire
  <2>2. \/ o \in AllowMissing /\ Becomes(t, "drop_lock", o, s, task[t].own)
        \/ Stops(t)
    BY <1>1, <1>3, Placed, Stopped DEF Acquire, AllowMissing
  <2>3. Places'
    BY <1>1, <1>3, <2>1, <2>2 DEF Places, AllowMissing, BestEffort
  <2>4. RegisteredHasLock'
    BY <1>1, <1>3, <2>1, <2>2 DEF RegisteredHasLock, ClosingIsGone, HandedOut, Places, AllowMissing, BestEffort
  <2>5. HandedOut'
    BY <1>1, <1>3, <2>1, <2>2 DEF HandedOut, Places, AllowMissing, BestEffort
  <2>6. OwnLockOfGone'
    BY <1>1, <1>3, <2>1, <2>2 DEF OwnLockOfGone, HandedOut, RegisteredHasLock, Places, AllowMissing, BestEffort
  <2>7. ClosingIsGone'
    BY <1>1, <1>3, <2>1, <2>2 DEF ClosingIsGone, HandedOut, UsingIsThere, Places, AllowMissing, BestEffort
  <2>8. UsingIsThere'
    BY <1>1, <1>3, <2>1, <2>2 DEF UsingIsThere, HandedOut, ClosingIsGone, HoldsLock, Places, AllowMissing, BestEffort
  <2>9. HoldsLock'
    BY <1>1, <1>3, <2>1, <2>2 DEF HoldsLock, Private, HandedOut, Places, AllowMissing, BestEffort
  <2>10. Private'
    BY <1>1, <1>3, <2>1, <2>2 DEF Private, HandedOut, Places, AllowMissing, BestEffort
  <2> QED
    BY <2>3, <2>4, <2>5, <2>6, <2>7, <2>8, <2>9, <2>10
<1> QED
  BY <1>2, <1>3

LEMMA PlacesKeepControl ==
  ASSUME IInv, NEW t \in Threads, StartQuarantine(t) \/ DropLock(t) \/ Send(t)
  PROVE  Control'
<1> USE ControlTypes DEF IInv, Control, Becomes, Stops, Busy, Op, On, InIO
<1> DEFINE s == task[t].s
<1>1. CASE StartQuarantine(t)
  <2>1. task[t].pc = "quarantine" /\ UNCHANGED << count, registered, locks, holder, returned >>
    BY <1>1 DEF StartQuarantine, registry
  <2>2. Becomes(t, "lock", "quarantine", s, s \notin locks)
    BY <1>1, <2>1, Placed
  <2>3. Places'
    BY <2>1, <2>2 DEF Places, AllowMissing, BestEffort
  <2>4. RegisteredHasLock'
    BY <2>1, <2>2 DEF RegisteredHasLock, ClosingIsGone, HandedOut, Places, AllowMissing, BestEffort
  <2>5. HandedOut'
    BY <2>1, <2>2 DEF HandedOut, Places, AllowMissing, BestEffort
  <2>6. OwnLockOfGone'
    BY <2>1, <2>2 DEF OwnLockOfGone, HandedOut, RegisteredHasLock, Places, AllowMissing, BestEffort
  <2>7. ClosingIsGone'
    BY <2>1, <2>2 DEF ClosingIsGone, HandedOut, UsingIsThere, Places, AllowMissing, BestEffort
  <2>8. UsingIsThere'
    BY <2>1, <2>2 DEF UsingIsThere, HandedOut, ClosingIsGone, HoldsLock, Places, AllowMissing, BestEffort
  <2>9. HoldsLock'
    BY <2>1, <2>2 DEF HoldsLock, Private, HandedOut, Places, AllowMissing, BestEffort
  <2>10. Private'
    BY <2>1, <2>2 DEF Private, HandedOut, Places, AllowMissing, BestEffort
  <2> QED
    BY <2>3, <2>4, <2>5, <2>6, <2>7, <2>8, <2>9, <2>10
<1>2. CASE DropLock(t)
  <2>1. /\ task[t].pc = "drop_lock" /\ UNCHANGED << count, registered, holder, returned >>
        /\ locks' = locks \ {s}
    BY <1>2 DEF DropLock
  <2>2. Stops(t)
    BY <1>2, Stopped DEF DropLock
  <2>3. Places'
    BY <2>1, <2>2 DEF Places, AllowMissing, BestEffort
  <2>4. RegisteredHasLock'
    BY <2>1, <2>2 DEF RegisteredHasLock, ClosingIsGone, HandedOut, Places, AllowMissing, BestEffort
  <2>5. HandedOut'
    BY <2>1, <2>2 DEF HandedOut, Places, AllowMissing, BestEffort
  <2>6. OwnLockOfGone'
    BY <2>1, <2>2 DEF OwnLockOfGone, HandedOut, RegisteredHasLock, Places, AllowMissing, BestEffort
  <2>7. ClosingIsGone'
    BY <2>1, <2>2 DEF ClosingIsGone, HandedOut, UsingIsThere, Places, AllowMissing, BestEffort
  <2>8. UsingIsThere'
    BY <2>1, <2>2 DEF UsingIsThere, HandedOut, ClosingIsGone, HoldsLock, Places, AllowMissing, BestEffort
  <2>9. HoldsLock'
    BY <2>1, <2>2 DEF HoldsLock, Private, HandedOut, Places, AllowMissing, BestEffort
  <2>10. Private'
    BY <2>1, <2>2 DEF Private, HandedOut, Places, AllowMissing, BestEffort
  <2> QED
    BY <2>3, <2>4, <2>5, <2>6, <2>7, <2>8, <2>9, <2>10
<1>3. CASE Send(t)
  <2>1. task[t].pc = "send" /\ UNCHANGED << count, registered, locks, holder, returned >>
    BY <1>3 DEF Send, registry
  <2>2. Becomes(t, "wait", task[t].op, s, task[t].own)
    BY <1>3, <2>1, Placed DEF Send
  <2>3. Places'
    BY <2>1, <2>2 DEF Places, AllowMissing, BestEffort
  <2>4. RegisteredHasLock'
    BY <2>1, <2>2 DEF RegisteredHasLock, ClosingIsGone, HandedOut, Places, AllowMissing, BestEffort
  <2>5. HandedOut'
    BY <2>1, <2>2 DEF HandedOut, Places, AllowMissing, BestEffort
  <2>6. OwnLockOfGone'
    BY <2>1, <2>2 DEF OwnLockOfGone, HandedOut, RegisteredHasLock, Places, AllowMissing, BestEffort
  <2>7. ClosingIsGone'
    BY <2>1, <2>2 DEF ClosingIsGone, HandedOut, UsingIsThere, Places, AllowMissing, BestEffort
  <2>8. UsingIsThere'
    BY <2>1, <2>2 DEF UsingIsThere, HandedOut, ClosingIsGone, HoldsLock, Places, AllowMissing, BestEffort
  <2>9. HoldsLock'
    BY <2>1, <2>2 DEF HoldsLock, Private, HandedOut, Places, AllowMissing, BestEffort
  <2>10. Private'
    BY <2>1, <2>2 DEF Private, HandedOut, Places, AllowMissing, BestEffort
  <2> QED
    BY <2>3, <2>4, <2>5, <2>6, <2>7, <2>8, <2>9, <2>10
<1> QED
  BY <1>1, <1>2, <1>3

LEMMA RequestKeepsControl == ASSUME IInv, NEW t \in Threads, Requested(t) PROVE Control'
<1> USE ControlTypes DEF IInv, Control, Becomes, Stops, Busy, Op, On, InIO
<1> DEFINE s == task[t].s
           o == task[t].op
<1>1. task[t].pc \in {"send", "wait"} /\ s \in Sessions
  BY DEF Requested
<1>3. ASSUME Complete(t) PROVE Control'
  <2>1. /\ UNCHANGED << count, registered >>
        /\ IF o = "cleanup" THEN UNCHANGED holder
           ELSE holder' = [holder EXCEPT ![s] = IF @ = t THEN NoThread ELSE @]
        /\ returned' = IF o = "create" THEN returned \cup {s} ELSE returned
        /\ locks' = IF o = "reset_quarantine" THEN locks \ {s} ELSE locks
    BY <1>3 DEF Complete, Release
  <2>2. \/ o \in AllowMissing /\ Becomes(t, "drop_lock", o, s, task[t].own)
        \/ o \notin AllowMissing /\ Stops(t)
    BY <1>1, <1>3, Placed, Stopped DEF Complete
  <2>3. Places'
    BY <1>1, <2>1, <2>2 DEF Places, AllowMissing, BestEffort
  <2>4. RegisteredHasLock'
    BY <1>1, <2>1, <2>2 DEF RegisteredHasLock, ClosingIsGone, HandedOut, Places, AllowMissing, BestEffort
  <2>5. HandedOut'
    BY <1>1, <2>1, <2>2 DEF HandedOut, Places, AllowMissing, BestEffort
  <2>6. OwnLockOfGone'
    BY <1>1, <2>1, <2>2 DEF OwnLockOfGone, HandedOut, RegisteredHasLock, Places, AllowMissing, BestEffort
  <2>7. ClosingIsGone'
    BY <1>1, <2>1, <2>2 DEF ClosingIsGone, HandedOut, UsingIsThere, Places, AllowMissing, BestEffort
  <2>8. UsingIsThere'
    BY <1>1, <2>1, <2>2 DEF UsingIsThere, HandedOut, ClosingIsGone, HoldsLock, Places, AllowMissing, BestEffort
  <2>9. HoldsLock'
    BY <1>1, <2>1, <2>2 DEF HoldsLock, Private, HandedOut, Places, AllowMissing, BestEffort
  <2>10. Private'
    BY <1>1, <2>1, <2>2 DEF Private, HandedOut, Places, AllowMissing, BestEffort
  <2> QED
    BY <2>3, <2>4, <2>5, <2>6, <2>7, <2>8, <2>9, <2>10
<1>4. ASSUME NextOwner(t) PROVE Control'
  <2>1. CASE task[t].op # "call" /\ task[t].at < Len(Owners)
    <3>1. UNCHANGED << count, registered, locks, holder, returned >>
      BY <1>4, <2>1 DEF NextOwner, registry
    <3>2. Becomes(t, "send", o, s, task[t].own)
      BY <1>1, <1>4, <2>1, Placed DEF NextOwner
    <3>3. Places'
      BY <1>1, <3>1, <3>2 DEF Places, AllowMissing, BestEffort
    <3>4. RegisteredHasLock'
      BY <1>1, <3>1, <3>2 DEF RegisteredHasLock, ClosingIsGone, HandedOut, Places, AllowMissing, BestEffort
    <3>5. HandedOut'
      BY <1>1, <3>1, <3>2 DEF HandedOut, Places, AllowMissing, BestEffort
    <3>6. OwnLockOfGone'
      BY <1>1, <3>1, <3>2 DEF OwnLockOfGone, HandedOut, RegisteredHasLock, Places, AllowMissing, BestEffort
    <3>7. ClosingIsGone'
      BY <1>1, <3>1, <3>2 DEF ClosingIsGone, HandedOut, UsingIsThere, Places, AllowMissing, BestEffort
    <3>8. UsingIsThere'
      BY <1>1, <3>1, <3>2 DEF UsingIsThere, HandedOut, ClosingIsGone, HoldsLock, Places, AllowMissing, BestEffort
    <3>9. HoldsLock'
      BY <1>1, <3>1, <3>2 DEF HoldsLock, Private, HandedOut, Places, AllowMissing, BestEffort
    <3>10. Private'
      BY <1>1, <3>1, <3>2 DEF Private, HandedOut, Places, AllowMissing, BestEffort
    <3> QED
      BY <3>3, <3>4, <3>5, <3>6, <3>7, <3>8, <3>9, <3>10
  <2> QED
    BY <1>3, <1>4, <2>1 DEF NextOwner
<1>5. ASSUME o = "reset", ResetFailed(t) PROVE Control'
  <2>1. registered' = registered \ {s} /\ UNCHANGED << count, returned, holder, locks >>
    BY <1>5 DEF ResetFailed
  <2>2. Becomes(t, "send", "reset_quarantine", s, task[t].own)
    BY <1>1, <1>5, Placed DEF ResetFailed
  <2>3. Places'
    BY <1>1, <1>5, <2>1, <2>2 DEF Places, AllowMissing, BestEffort
  <2>4. RegisteredHasLock'
    BY <1>1, <1>5, <2>1, <2>2 DEF RegisteredHasLock, ClosingIsGone, HandedOut, Places, AllowMissing, BestEffort
  <2>5. HandedOut'
    BY <1>1, <1>5, <2>1, <2>2 DEF HandedOut, Places, AllowMissing, BestEffort
  <2>6. OwnLockOfGone'
    BY <1>1, <1>5, <2>1, <2>2 DEF OwnLockOfGone, HandedOut, RegisteredHasLock, Places, AllowMissing, BestEffort
  <2>7. ClosingIsGone'
    BY <1>1, <1>5, <2>1, <2>2 DEF ClosingIsGone, HandedOut, UsingIsThere, Places, AllowMissing, BestEffort
  <2>8. UsingIsThere'
    BY <1>1, <1>5, <2>1, <2>2 DEF UsingIsThere, HandedOut, ClosingIsGone, HoldsLock, Places, AllowMissing, BestEffort
  <2>9. HoldsLock'
    BY <1>1, <1>5, <2>1, <2>2 DEF HoldsLock, Private, HandedOut, Places, AllowMissing, BestEffort
  <2>10. Private'
    BY <1>1, <1>5, <2>1, <2>2 DEF Private, HandedOut, Places, AllowMissing, BestEffort
  <2> QED
    BY <2>3, <2>4, <2>5, <2>6, <2>7, <2>8, <2>9, <2>10
<1>6. ASSUME o = "create", CreateFailed(t) PROVE Control'
  <2>1. /\ registered' = registered \ {s} /\ locks' = locks \ {s} /\ UNCHANGED << count, returned >>
        /\ holder' = [holder EXCEPT ![s] = IF @ = t THEN NoThread ELSE @]
    BY <1>6 DEF CreateFailed, Release
  <2>2. Becomes(t, "send", "cleanup", s, task[t].own)
    BY <1>1, <1>6, Placed DEF CreateFailed
  <2>3. Places'
    BY <1>1, <1>6, <2>1, <2>2 DEF Places, AllowMissing, BestEffort
  <2>4. RegisteredHasLock'
    BY <1>1, <1>6, <2>1, <2>2 DEF RegisteredHasLock, ClosingIsGone, HandedOut, Places, AllowMissing, BestEffort
  <2>5. HandedOut'
    BY <1>1, <1>6, <2>1, <2>2 DEF HandedOut, Places, AllowMissing, BestEffort
  <2>6. OwnLockOfGone'
    BY <1>1, <1>6, <2>1, <2>2 DEF OwnLockOfGone, HandedOut, RegisteredHasLock, Places, AllowMissing, BestEffort
  <2>7. ClosingIsGone'
    BY <1>1, <1>6, <2>1, <2>2 DEF ClosingIsGone, HandedOut, UsingIsThere, Places, AllowMissing, BestEffort
  <2>8. UsingIsThere'
    BY <1>1, <1>6, <2>1, <2>2 DEF UsingIsThere, HandedOut, ClosingIsGone, HoldsLock, Places, AllowMissing, BestEffort
  <2>9. HoldsLock'
    BY <1>1, <1>6, <2>1, <2>2 DEF HoldsLock, Private, HandedOut, Places, AllowMissing, BestEffort
  <2>10. Private'
    BY <1>1, <1>6, <2>1, <2>2 DEF Private, HandedOut, Places, AllowMissing, BestEffort
  <2> QED
    BY <2>3, <2>4, <2>5, <2>6, <2>7, <2>8, <2>9, <2>10
<1>7. ASSUME o \in {"call", "read"}, Release(t),
             UNCHANGED << count, registered, locks, poisoned, returned >>,
             (o = "call" /\ Goto(t, "quarantine")) \/ Idle(t)
      PROVE  Control'
  <2>1. /\ UNCHANGED << count, registered, locks, returned >>
        /\ holder' = [holder EXCEPT ![s] = IF @ = t THEN NoThread ELSE @]
    BY <1>7 DEF Release
  <2>2. (o = "call" /\ Becomes(t, "quarantine", o, s, task[t].own)) \/ Stops(t)
    BY <1>1, <1>7, Placed, Stopped
  <2>3. Places'
    BY <1>1, <1>7, <2>1, <2>2 DEF Places, AllowMissing, BestEffort
  <2>4. RegisteredHasLock'
    BY <1>1, <1>7, <2>1, <2>2 DEF RegisteredHasLock, ClosingIsGone, HandedOut, Places, AllowMissing, BestEffort
  <2>5. HandedOut'
    BY <1>1, <1>7, <2>1, <2>2 DEF HandedOut, Places, AllowMissing, BestEffort
  <2>6. OwnLockOfGone'
    BY <1>1, <1>7, <2>1, <2>2 DEF OwnLockOfGone, HandedOut, RegisteredHasLock, Places, AllowMissing, BestEffort
  <2>7. ClosingIsGone'
    BY <1>1, <1>7, <2>1, <2>2 DEF ClosingIsGone, HandedOut, UsingIsThere, Places, AllowMissing, BestEffort
  <2>8. UsingIsThere'
    BY <1>1, <1>7, <2>1, <2>2 DEF UsingIsThere, HandedOut, ClosingIsGone, HoldsLock, Places, AllowMissing, BestEffort
  <2>9. HoldsLock'
    BY <1>1, <1>7, <2>1, <2>2 DEF HoldsLock, Private, HandedOut, Places, AllowMissing, BestEffort
  <2>10. Private'
    BY <1>1, <1>7, <2>1, <2>2 DEF Private, HandedOut, Places, AllowMissing, BestEffort
  <2> QED
    BY <2>3, <2>4, <2>5, <2>6, <2>7, <2>8, <2>9, <2>10
<1>8. ASSUME NEW b \in BOOLEAN, Fail(t, b) PROVE Control'
  BY <1>4, <1>5, <1>6, <1>7, <1>8 DEF Fail
<1> QED
  BY <1>4, <1>8 DEF Requested

LEMMA ControlStep == ASSUME IInv, [Next]_vars PROVE Control'
<1>1. CASE Moves
  BY <1>1, StartsKeepControl, AcquireKeepsControl, PlacesKeepControl, RequestKeepsControl DEF Moves
<1>2. CASE Quiet
  BY <1>2 DEF Quiet, registry, IInv, Control, Places, RegisteredHasLock, HandedOut, OwnLockOfGone,
              ClosingIsGone, UsingIsThere, HoldsLock, Private, Busy, Op, On, InIO
<1> QED
  BY <1>1, <1>2, NextMoves

-----------------------------------------------------------------------------
(* The servers' side: types.                                               *)
WireTyped ==
  /\ answer \in [Threads -> {"none", "ok", "error"}]
  /\ pipe \in [Servers -> Seq(Request)]
  /\ held \in [Servers -> SUBSET Sessions]
  /\ alive \in [Servers -> BOOLEAN]
  /\ closed \in [Servers -> SUBSET Sessions]
  /\ timedOut \subseteq Threads \X Sessions
  /\ left \in [Threads -> 0 .. MaxOps]

LEMMA AbandonedTyped ==
  ASSUME pipe \in [Servers -> Seq(Request)], NEW t \in Threads
  PROVE  /\ Abandoned(t) \in [Servers -> Seq(Request)]
         /\ \A o \in Servers :
              /\ DOMAIN Abandoned(t)[o] = DOMAIN pipe[o]
              /\ \A i \in DOMAIN pipe[o] : /\ Abandoned(t)[o][i].request = pipe[o][i].request
                                           /\ Abandoned(t)[o][i].s = pipe[o][i].s
<1> SUFFICES ASSUME NEW o \in Servers
             PROVE  /\ Abandoned(t)[o] \in Seq(Request)
                    /\ DOMAIN Abandoned(t)[o] = DOMAIN pipe[o]
                    /\ \A i \in DOMAIN pipe[o] : /\ Abandoned(t)[o][i].request = pipe[o][i].request
                                                 /\ Abandoned(t)[o][i].s = pipe[o][i].s
  BY DEF Abandoned
<1> DEFINE f == [i \in DOMAIN pipe[o] |->
                  IF pipe[o][i].from = t THEN [pipe[o][i] EXCEPT !.from = NoThread] ELSE pipe[o][i]]
<1>1. Abandoned(t)[o] = f
  BY DEF Abandoned
<1>2. pipe[o] \in Seq(Request) /\ DOMAIN pipe[o] = 1 .. Len(pipe[o]) /\ Len(pipe[o]) \in Nat
  OBVIOUS
<1>3. ASSUME NEW i \in DOMAIN pipe[o]
      PROVE  /\ f[i] \in Request
             /\ f[i].request = pipe[o][i].request /\ f[i].s = pipe[o][i].s
  <2>1. pipe[o][i] \in Request
    BY <1>2
  <2> QED
    BY <2>1 DEF Request
<1>4. f \in Seq(Request)
  <2>1. f \in [1 .. Len(pipe[o]) -> Request]
    BY <1>2, <1>3
  <2> QED
    BY <1>2, <2>1, IsASeq
<1> QED
  BY <1>1, <1>3, <1>4

LEMMA WireTypedStep == ASSUME TypeOK, [Next]_vars PROVE WireTyped'
<1>0. WireTyped /\ task \in [Threads -> Task \cup {NoTask}]
  BY DEF TypeOK, WireTyped
<1> USE <1>0, BoundsAssumption DEF WireTyped
<1>1. ASSUME NEW t \in Threads, Start(t) PROVE WireTyped'
  <2>1. Spend(t) /\ UNCHANGED << wire, server, timedOut >>
    BY <1>1 DEF Start, StartCreate, StartOn
  <2> QED
    BY <2>1 DEF Spend, wire, server
<1>2. ASSUME NEW t \in Threads,
             Acquire(t) \/ StartQuarantine(t) \/ DropLock(t) \/ SendFails(t)
      PROVE  WireTyped'
  BY <1>2 DEF Acquire, StartQuarantine, DropLock, SendFails, wire, server
<1>3. ASSUME NEW t \in Threads, Send(t) PROVE WireTyped'
  <2> DEFINE o == Owners[task[t].at]
             r == [request |-> RequestOf[task[t].op], s |-> task[t].s, from |-> t]
  <2>1. /\ pipe' = [pipe EXCEPT ![o] = Append(@, r)]
        /\ UNCHANGED << left, answer, held, alive, closed, timedOut >>
    BY <1>3 DEF Send, server
  <2>2. task[t] \in Task
    BY <1>3 DEF Send, NoTask
  <2>3. r \in Request
    <3>1. task[t].op \in Operations \cup BestEffort /\ task[t].s \in Sessions
      BY <2>2 DEF Task
    <3>2. RequestOf[task[t].op] \in {"reset", "call", "read", "close"}
      BY <3>1 DEF RequestOf, Operations, BestEffort
    <3> QED
      BY <3>1, <3>2 DEF Request
  <2>4. pipe' \in [Servers -> Seq(Request)]
    <3> HIDE DEF r
    <3>1. \A x \in Servers : Append(pipe[x], r) \in Seq(Request)
      BY <2>3
    <3> QED
      BY <2>1, <3>1
  <2> QED
    BY <2>1, <2>4
<1>4. ASSUME NEW t \in Threads, Receive(t) PROVE WireTyped'
  BY <1>4 DEF Receive, server
<1>5. ASSUME NEW t \in Threads, TimeOut(t) PROVE WireTyped'
  <2>1. task[t] \in Task
    BY <1>5 DEF TimeOut, NoTask
  <2>2. task[t].s \in Sessions
    BY <2>1 DEF Task
  <2> QED
    BY <1>5, <2>2, AbandonedTyped DEF TimeOut, server
<1>6. ASSUME NEW o \in Servers, Serve(o) PROVE WireTyped'
  <2>1. Head(pipe[o]) \in Request /\ Tail(pipe[o]) \in Seq(Request)
    BY <1>6 DEF Serve
  <2>2. Head(pipe[o]).s \in Sessions /\ Head(pipe[o]).from \in Threads \cup {NoThread}
    BY <2>1 DEF Request
  <2>3. pipe' = [pipe EXCEPT ![o] = Tail(@)] /\ UNCHANGED << left, alive, timedOut >>
    BY <1>6 DEF Serve
  <2>4. held' \in [Servers -> SUBSET Sessions] /\ closed' \in [Servers -> SUBSET Sessions]
    BY <1>6, <2>2 DEF Serve
  <2>5. answer' \in [Threads -> {"none", "ok", "error"}]
    BY <1>6, <2>2 DEF Serve
  <2> QED
    BY <2>1, <2>3, <2>4, <2>5
<1>7. ASSUME NEW o \in Servers, Die(o) PROVE WireTyped'
  BY <1>7 DEF Die
<1>8. CASE UNCHANGED vars
  BY <1>8 DEF vars, wire, server
<1> QED
  BY <1>1, <1>2, <1>3, <1>4, <1>5, <1>6, <1>7, <1>8 DEF Next, Continue, Finished

LEMMA TypeStep == ASSUME IInv, [Next]_vars PROVE TypeOK'
<1>1. WireTyped'
  BY WireTypedStep DEF IInv
<1>2. RegistryTyped'
  <2>1. CASE Moves
    BY <2>1, RegistryTypedStep DEF IInv, Control
  <2>2. CASE Quiet
    BY <2>2 DEF Quiet, registry, IInv, TypeOK, RegistryTyped
  <2> QED
    BY <2>1, <2>2, NextMoves
<1> QED
  BY <1>1, <1>2 DEF TypeOK, WireTyped, RegistryTyped

-----------------------------------------------------------------------------
(* The servers' side: what is closed is gone, and stays so.                *)
LEMMA GoneStays ==
  ASSUME IInv, [Next]_vars
  PROVE  Gone \subseteq Gone'
<1> USE DEF IInv, TypeOK, Gone
<1>1. CASE Quiet
  BY <1>1 DEF Quiet, registry
<1>2. ASSUME NEW t \in Threads, StartCreate(t)
      PROVE  Gone \subseteq Gone'
  <2>1. count' = count + 1 /\ registered' = registered \cup {count + 1}
    BY <1>2 DEF StartCreate
  <2> QED
    BY <2>1
<1>3. ASSUME NEW t \in Threads, Requested(t) PROVE count' = count /\ registered' \subseteq registered
  BY <1>3 DEF Requested, NextOwner, Fail, Complete, ResetFailed, CreateFailed, registry
<1>4. ASSUME NEW t \in Threads,
             \/ \E o \in Operations, s \in Sessions, i \in 1 .. Len(Owners) : StartOn(t, o, s, i)
             \/ Acquire(t) \/ StartQuarantine(t) \/ DropLock(t) \/ Send(t)
      PROVE  count' = count /\ registered' \subseteq registered
  BY <1>4 DEF StartOn, Acquire, StartQuarantine, DropLock, Send, registry
<1> QED
  BY <1>1, <1>2, <1>3, <1>4, NextMoves DEF Moves

LEMMA OrderedAppend ==
  ASSUME NEW p \in Seq(Request), NEW r \in Request, NEW done, NEW gone, InOrder(p, done, gone),
         r.request = "close" => r.s \in gone, r.request = "reset" => r.s \notin gone
  PROVE  InOrder(Append(p, r), done, gone)
<1> DEFINE q == Append(p, r)
<1>1. /\ Len(p) \in Nat /\ Len(q) = Len(p) + 1 /\ q[Len(p) + 1] = r
      /\ \A i \in 1 .. Len(p) : q[i] = p[i]
  OBVIOUS
<1>2. \A i \in 1 .. Len(q) : (i \in 1 .. Len(p) /\ q[i] = p[i]) \/ (i = Len(p) + 1 /\ q[i] = r)
  BY <1>1
<1> HIDE DEF q
<1>3. ASSUME NEW i \in 1 .. Len(q), NEW j \in 1 .. Len(q), i < j,
             q[i].request = "close", q[j].request = "reset"
      PROVE  q[i].s # q[j].s
  <2>1. i \in 1 .. Len(p) /\ q[i] = p[i]
    BY <1>1, <1>2, <1>3
  <2>2. CASE j \in 1 .. Len(p) /\ q[j] = p[j]
    BY <1>3, <2>1, <2>2 DEF InOrder
  <2>3. CASE j = Len(p) + 1 /\ q[j] = r
    BY <1>3, <2>1, <2>3 DEF InOrder
  <2> QED
    BY <1>2, <2>2, <2>3
<1>4. \A i \in 1 .. Len(q) : q[i].request = "close" => q[i].s \in gone
  BY <1>2 DEF InOrder
<1>5. \A j \in 1 .. Len(q) : q[j].request = "reset" => q[j].s \notin done
  BY <1>2 DEF InOrder
<1>6. InOrder(q, done, gone)
  BY <1>3, <1>4, <1>5 DEF InOrder
<1> QED
  BY <1>6 DEF q

LEMMA OrderedTail ==
  ASSUME NEW p \in Seq(Request), p # << >>, NEW done, NEW gone, InOrder(p, done, gone)
  PROVE  /\ InOrder(Tail(p), IF Head(p).request = "close" THEN done \cup {Head(p).s} ELSE done, gone)
         /\ Head(p).request = "reset" => Head(p).s \notin done
<1> DEFINE q == Tail(p)
           now == IF Head(p).request = "close" THEN done \cup {Head(p).s} ELSE done
<1>1. /\ Len(p) \in Nat \ {0} /\ Head(p) = p[1] /\ Len(q) = Len(p) - 1
      /\ \A i \in 1 .. Len(q) : q[i] = p[i + 1] /\ i + 1 \in 1 .. Len(p)
  OBVIOUS
<1>2. 1 \in 1 .. Len(p)
  BY <1>1
<1> HIDE DEF q
<1>3. now \subseteq gone
  BY <1>1, <1>2 DEF InOrder
<1>4. \A i \in 1 .. Len(q) : q[i].request = "close" => q[i].s \in gone
  BY <1>1 DEF InOrder
<1>5. ASSUME NEW j \in 1 .. Len(q), q[j].request = "reset" PROVE q[j].s \notin now
  <2>1. q[j] = p[j + 1] /\ j + 1 \in 1 .. Len(p) /\ 1 < j + 1
    BY <1>1
  <2> QED
    BY <1>1, <1>2, <1>5, <2>1 DEF InOrder
<1>6. ASSUME NEW i \in 1 .. Len(q), NEW j \in 1 .. Len(q), i < j,
             q[i].request = "close", q[j].request = "reset"
      PROVE  q[i].s # q[j].s
  <2>1. /\ q[i] = p[i + 1] /\ i + 1 \in 1 .. Len(p) /\ q[j] = p[j + 1] /\ j + 1 \in 1 .. Len(p)
        /\ i + 1 < j + 1
    BY <1>1, <1>6
  <2> QED
    BY <1>6, <2>1 DEF InOrder
<1>7. InOrder(q, now, gone)
  BY <1>3, <1>4, <1>5, <1>6 DEF InOrder
<1>8. Head(p).request = "reset" => Head(p).s \notin done
  BY <1>1, <1>2 DEF InOrder
<1> QED
  BY <1>7, <1>8 DEF q

LEMMA WireStep == ASSUME IInv, [Next]_vars PROVE Wire'
<1>1. /\ pipe \in [Servers -> Seq(Request)]
      /\ held \in [Servers -> SUBSET Sessions] /\ closed \in [Servers -> SUBSET Sessions]
      /\ PipesInOrder /\ NeverRevived
      /\ \A o \in Servers : Len(pipe[o]) \in Nat
  BY DEF IInv, TypeOK, Wire
<1>2. ASSUME NEW p, NEW done, InOrder(p, done, Gone) PROVE InOrder(p, done, Gone')
  BY <1>2, GoneStays DEF InOrder
<1>3. ASSUME UNCHANGED << pipe, held, closed >> PROVE Wire'
  BY <1>1, <1>2, <1>3 DEF Wire, PipesInOrder, NeverRevived
<1>4. ASSUME NEW t \in Threads, Send(t) PROVE Wire'
  <2> DEFINE o == Owners[task[t].at]
             r == [request |-> RequestOf[task[t].op], s |-> task[t].s, from |-> t]
  <2>1. pipe' = [pipe EXCEPT ![o] = Append(@, r)] /\ UNCHANGED << held, closed >>
    BY <1>4 DEF Send, server
  <2>2. /\ task[t].op \in Operations \cup BestEffort /\ task[t].s \in Sessions
        /\ o \in Servers /\ InIO(t) /\ task[t].s \in 1 .. count
    <3>1. task[t] \in Task /\ InIO(t)
      BY <1>4 DEF Send, IInv, TypeOK, NoTask, InIO
    <3> QED
      BY <3>1, OwnersHold DEF Task, InIO, IInv, Control, HandedOut, Busy, On
  <2>3. /\ RequestOf[task[t].op] \in {"reset", "call", "read", "close"}
        /\ RequestOf[task[t].op] = "close" => task[t].op \in BestEffort
        /\ RequestOf[task[t].op] = "reset" => task[t].op \notin BestEffort
    BY <2>2 DEF RequestOf, Operations, BestEffort
  <2>4. r \in Request
    BY <2>2, <2>3 DEF Request
  <2>5. r.request = "close" => r.s \in Gone
    BY <2>2, <2>3 DEF IInv, Control, ClosingIsGone, Op, On, Gone
  <2>6. r.request = "reset" => r.s \notin Gone
    BY <2>2, <2>3 DEF IInv, Control, UsingIsThere, Op, On, Gone
  <2> HIDE DEF r, o
  <2>7. InOrder(Append(pipe[o], r), closed[o], Gone)
    BY <1>1, <2>2, <2>4, <2>5, <2>6, OrderedAppend DEF PipesInOrder
  <2>8. \A x \in Servers : InOrder(pipe'[x], closed[x], Gone)
    BY <1>1, <2>1, <2>2, <2>7 DEF PipesInOrder
  <2> QED
    BY <1>1, <1>2, <2>1, <2>8 DEF Wire, PipesInOrder, NeverRevived
<1>5. ASSUME NEW t \in Threads, TimeOut(t) PROVE Wire'
  <2>1. pipe' = Abandoned(t) /\ UNCHANGED << held, closed >>
    BY <1>5 DEF TimeOut, server
  <2>2. ASSUME NEW o \in Servers PROVE InOrder(pipe'[o], closed[o], Gone)
    <3>1. /\ Len(pipe'[o]) = Len(pipe[o])
          /\ \A i \in 1 .. Len(pipe[o]) : /\ pipe'[o][i].request = pipe[o][i].request
                                         /\ pipe'[o][i].s = pipe[o][i].s
      BY <1>1, <2>1, AbandonedTyped
    <3>2. InOrder(pipe[o], closed[o], Gone)
      BY <1>1 DEF PipesInOrder
    <3> DEFINE p == pipe[o]
               q == pipe'[o]
    <3>3. /\ Len(q) = Len(p) /\ InOrder(p, closed[o], Gone)
          /\ \A i \in 1 .. Len(p) : q[i].request = p[i].request /\ q[i].s = p[i].s
      BY <3>1, <3>2
    <3> HIDE DEF p, q
    <3>4. InOrder(q, closed[o], Gone)
      BY <3>3 DEF InOrder
    <3> QED
      BY <3>4 DEF q
  <2> QED
    BY <1>1, <1>2, <2>1, <2>2 DEF Wire, PipesInOrder, NeverRevived
<1>6. ASSUME NEW o \in Servers, Serve(o) PROVE Wire'
  <2> DEFINE p == pipe[o]
             r == Head(p)
             now == IF r.request = "close" THEN closed[o] \cup {r.s} ELSE closed[o]
  <2>1. /\ pipe' = [pipe EXCEPT ![o] = Tail(p)] /\ p # << >> /\ p \in Seq(Request)
        /\ closed' = [closed EXCEPT ![o] = now]
        /\ \/ r.request = "reset" /\ held' = [held EXCEPT ![o] = @ \cup {r.s}]
           \/ r.request = "close" /\ held' = [held EXCEPT ![o] = @ \ {r.s}]
           \/ r.request # "close" /\ held' = held
    BY <1>1, <1>6 DEF Serve
  <2>2. /\ InOrder(Tail(p), now, Gone)
        /\ r.request = "reset" => r.s \notin closed[o]
    BY <1>1, <2>1, OrderedTail DEF PipesInOrder
  <2>3. \A x \in Servers : InOrder(pipe'[x], closed'[x], Gone)
    BY <1>1, <2>1, <2>2 DEF PipesInOrder
  <2>4. NeverRevived'
    BY <1>1, <2>1, <2>2 DEF NeverRevived
  <2> QED
    BY <1>2, <2>3, <2>4 DEF Wire, PipesInOrder
<1>7. ASSUME NEW o \in Servers, Die(o) PROVE Wire'
  <2>1. /\ pipe' = [pipe EXCEPT ![o] = << >>] /\ held' = [held EXCEPT ![o] = {}]
        /\ closed' = closed
    BY <1>7 DEF Die
  <2>2. \A x \in Servers : InOrder(pipe'[x], closed[x], Gone)
    BY <1>1, <2>1 DEF PipesInOrder, InOrder
  <2> QED
    BY <1>1, <1>2, <2>1, <2>2 DEF Wire, PipesInOrder, NeverRevived
<1>8. ASSUME NEW t \in Threads,
             \/ Start(t) \/ Acquire(t) \/ StartQuarantine(t) \/ DropLock(t)
             \/ SendFails(t) \/ Receive(t)
      PROVE  UNCHANGED << pipe, held, closed >>
  BY <1>8 DEF Start, StartCreate, StartOn, Acquire, StartQuarantine, DropLock, SendFails, Receive,
              wire, server
<1>9. ASSUME UNCHANGED vars \/ Finished PROVE UNCHANGED << pipe, held, closed >>
  BY <1>9 DEF vars, wire, server, Finished
<1> QED
  BY <1>3, <1>4, <1>5, <1>6, <1>7, <1>8, <1>9 DEF Next, Continue

-----------------------------------------------------------------------------
(* A session in which a call timed out.                                    *)
LEMMA TimedOutStep == ASSUME IInv, [Next]_vars PROVE TimedOutIsGone'
<1>1. /\ TimedOutIsGone /\ Gone \subseteq Gone' /\ timedOut \subseteq Threads \X Sessions
      /\ \A q \in timedOut : q[1] \in Threads
  BY GoneStays DEF IInv, TypeOK
<1> DEFINE Leaving(q) ==
      /\ task[q[1]].s = q[2]
      /\ task[q[1]].pc = "quarantine" \/ (task[q[1]].pc = "lock" /\ task[q[1]].op = "quarantine")
<1>2. \A q \in timedOut : q[2] \in Gone \/ (q[2] \in 1 .. count /\ q[2] \in registered /\ Leaving(q))
  BY <1>1 DEF TimedOutIsGone, Gone, On, Op
<1>3. ASSUME NEW q \in timedOut', q[2] \in Gone' \/ (q[2] \in 1 .. count' /\ Leaving(q)')
      PROVE  /\ q[2] \in 1 .. count'
             /\ q[2] \in registered' =>
                  /\ On(q[1])' = q[2]
                  /\ \/ task'[q[1]].pc = "quarantine"
                     \/ task'[q[1]].pc = "lock" /\ Op(q[1])' = "quarantine"
  BY <1>3 DEF Gone, On, Op
<1>4. (\A q \in timedOut' : q[2] \in Gone' \/ (q[2] \in 1 .. count' /\ Leaving(q)'))
        => TimedOutIsGone'
  BY <1>3 DEF TimedOutIsGone
<1>5. ASSUME UNCHANGED timedOut,
             \A q \in timedOut : q[2] \in 1 .. count /\ q[2] \in registered /\ Leaving(q) =>
                                 q[2] \in Gone' \/ (q[2] \in 1 .. count' /\ Leaving(q)')
      PROVE  TimedOutIsGone'
  BY <1>1, <1>2, <1>4, <1>5
<1> HIDE DEF Leaving
<1>6. ASSUME UNCHANGED << timedOut, task, count >> PROVE TimedOutIsGone'
  BY <1>5, <1>6 DEF Leaving
<1>7. ASSUME NEW t \in Threads, UNCHANGED << timedOut, count >>,
             task[t].pc \notin {"lock", "quarantine"},
             \A u \in Threads : u # t => task'[u] = task[u]
      PROVE  TimedOutIsGone'
  BY <1>1, <1>5, <1>7 DEF Leaving
<1>8. ASSUME NEW t \in Threads, StartCreate(t) PROVE TimedOutIsGone'
  <2>1. /\ task[t].pc = "idle" /\ \A u \in Threads : u # t => task'[u] = task[u]
        /\ count' = count + 1 /\ UNCHANGED timedOut /\ count \in Nat
    BY <1>8 DEF StartCreate, Be, Spend, NoTask, IInv, TypeOK
  <2>2. 1 .. count \subseteq 1 .. count'
    BY <2>1
  <2> QED
    BY <1>1, <1>5, <2>1, <2>2 DEF Leaving
<1>9. ASSUME NEW t \in Threads, NEW o \in Operations, NEW s \in Sessions, NEW i \in 1 .. Len(Owners),
             StartOn(t, o, s, i)
      PROVE  TimedOutIsGone'
  <2>1. task[t].pc = "idle" /\ UNCHANGED << timedOut, count >>
    BY <1>9 DEF StartOn, Spend, NoTask, registry
  <2>2. \A u \in Threads : u # t => task'[u] = task[u]
    BY <1>9 DEF StartOn, Be, IInv, TypeOK
  <2> QED
    BY <1>7, <2>1, <2>2
<1>10. ASSUME NEW t \in Threads, Acquire(t) PROVE TimedOutIsGone'
  <2>1. /\ task[t].pc = "lock" /\ UNCHANGED << timedOut, count >>
        /\ task[t].op = "quarantine" => task[t].s \notin registered'
    BY <1>10 DEF Acquire, AllowMissing
  <2>2. \A u \in Threads : u # t => task'[u] = task[u]
    BY <1>10, <2>1, Placed, Stopped DEF Acquire, Becomes, Stops, IInv
  <2> QED
    BY <1>1, <1>5, <2>1, <2>2 DEF Leaving, Gone
<1>11. ASSUME NEW t \in Threads, StartQuarantine(t) PROVE TimedOutIsGone'
  <2>1. task[t].pc = "quarantine" /\ UNCHANGED << timedOut, count >>
    BY <1>11 DEF StartQuarantine, registry
  <2>2. Becomes(t, "lock", "quarantine", task[t].s, task[t].s \notin locks)
    BY <1>11, <2>1, Placed DEF IInv
  <2> QED
    BY <1>1, <1>5, <2>1, <2>2 DEF Leaving, Becomes
<1>12. ASSUME NEW t \in Threads, DropLock(t) PROVE TimedOutIsGone'
  BY <1>7, <1>12, Stopped DEF DropLock, Stops, IInv
<1>13. ASSUME NEW t \in Threads, Send(t) PROVE TimedOutIsGone'
  BY <1>7, <1>13, Placed DEF Send, Becomes, IInv, registry
<1>14. ASSUME NEW t \in Threads, Requested(t)
       PROVE  /\ task[t].pc \in {"send", "wait"} /\ count' = count
              /\ \A u \in Threads : u # t => task'[u] = task[u]
  <2>1. task[t].pc \in {"send", "wait"} /\ TypeOK
    BY <1>14 DEF Requested, InIO, IInv
  <2>2. ASSUME NextOwner(t)
        PROVE  count' = count /\ \A u \in Threads : u # t => task'[u] = task[u]
    BY <2>1, <2>2, Placed, Stopped DEF NextOwner, Complete, Becomes, Stops, registry
  <2>3. ASSUME NEW b \in BOOLEAN, Fail(t, b)
        PROVE  count' = count /\ \A u \in Threads : u # t => task'[u] = task[u]
    BY <2>1, <2>2, <2>3, Placed, Stopped DEF Fail, ResetFailed, CreateFailed, Becomes, Stops
  <2> QED
    BY <1>14, <2>1, <2>2, <2>3 DEF Requested
<1>15. ASSUME NEW t \in Threads, SendFails(t) \/ Receive(t) PROVE TimedOutIsGone'
  <2>1. Requested(t) /\ UNCHANGED timedOut
    BY <1>15 DEF SendFails, Receive, Requested, InIO
  <2> QED
    BY <1>7, <1>14, <2>1
<1>16. ASSUME NEW t \in Threads, TimeOut(t) PROVE TimedOutIsGone'
  <2>1. Requested(t) /\ task[t].pc = "wait"
    BY <1>16 DEF TimeOut, Requested, InIO
  <2>2. /\ count' = count
        /\ \A u \in Threads : u # t => task'[u] = task[u]
    BY <1>14, <2>1
  <2>3. CASE task[t].op = "call"
    <3>1. timedOut' = timedOut \cup {<< t, task[t].s >>} /\ Fail(t, TRUE)
      BY <1>16, <2>3 DEF TimeOut
    <3>2. Goto(t, "quarantine")
      BY <2>3, <3>1 DEF Fail, BestEffort
    <3>3. Becomes(t, "quarantine", task[t].op, task[t].s, task[t].own)
      BY <2>1, <3>2, Placed DEF IInv
    <3>4. task[t].s \in 1 .. count
      BY <2>1 DEF IInv, Control, HandedOut, Busy, On
    <3>5. \A q \in timedOut : q[2] \in Gone' \/ (q[2] \in 1 .. count' /\ Leaving(q)')
      BY <1>1, <1>2, <2>1, <2>2 DEF Leaving
    <3>6. \A q \in {<< t, task[t].s >>} : q[2] \in 1 .. count' /\ Leaving(q)'
      BY <2>2, <3>3, <3>4 DEF Leaving, Becomes
    <3> QED
      BY <1>4, <3>1, <3>5, <3>6
  <2>4. CASE task[t].op # "call"
    <3>1. UNCHANGED timedOut
      BY <1>16, <2>4 DEF TimeOut
    <3> QED
      BY <1>7, <2>1, <2>2, <3>1
  <2> QED
    BY <2>3, <2>4
<1>17. ASSUME NEW o \in Servers, Serve(o) \/ Die(o) PROVE TimedOutIsGone'
  BY <1>6, <1>17 DEF Serve, Die, registry
<1>18. ASSUME UNCHANGED vars \/ Finished PROVE TimedOutIsGone'
  BY <1>6, <1>18 DEF vars, Finished, registry
<1> QED
  BY <1>8, <1>9, <1>10, <1>11, <1>12, <1>13, <1>15, <1>16, <1>17, <1>18 DEF Next, Start, Continue

LEMMA Invariant == Spec => []IInv
<1>1. IInv /\ [Next]_vars => IInv'
  BY TypeStep, ControlStep, WireStep, TimedOutStep DEF IInv
<1> QED
  BY <1>1, Initially, PTL DEF Spec

-----------------------------------------------------------------------------
(* LiveMCPManager and the servers keep their types.                        *)
THEOREM TypeCorrect == Spec => []TypeOK
BY Invariant, PTL DEF IInv

(* A session in the registry has its lock in the lock table: no operation  *)
(* on it makes a lock of its own.                                          *)
THEOREM LocksThere == Spec => []RegisteredHasLock
BY Invariant, PTL DEF IInv, Control

(* "One operation at a time in a session": between its first and its last  *)
(* request no operation meets another one on its session.                  *)
THEOREM Exclusion == Spec => []OneOperationAtATime
<1>1. IInv => OneOperationAtATime
  <2> SUFFICES ASSUME IInv, NEW t \in Threads, NEW u \in Threads, t # u, InIO(t), InIO(u),
                      task[t].s = task[u].s
               PROVE  FALSE
    BY DEF OneOperationAtATime
  <2>1. Busy(t) /\ Busy(u) /\ On(t) = On(u)
    BY DEF Busy, InIO, On
  <2>2. Op(t) # "cleanup" /\ Op(u) # "cleanup"
    BY <2>1 DEF IInv, Control, Private
  <2> QED
    BY <2>1, <2>2 DEF IInv, Control, HoldsLock
<1> QED
  BY <1>1, Invariant, PTL

(* A session a server has closed never comes back: not by a request that   *)
(* its caller gave up and the server reads late.                           *)
THEOREM ClosedForGood == Spec => []NeverRevived
BY Invariant, PTL DEF IInv, Wire

(* The thread whose call timed out makes no other call in that session:    *)
(* the executor quarantines it first.                                      *)
THEOREM CallerStops == Spec => CallerStopsAfterTimeout
<1>1. ASSUME IInv, [Next]_vars, NEW t \in Threads, CallSent(t)
      PROVE  << t, task[t].s >> \notin timedOut
  <2>1. task[t].pc # "send" /\ task'[t].pc = "send" /\ task'[t].op = "call"
    BY <1>1 DEF CallSent
  <2>2. Acquire(t)
    <3>0. TypeOK /\ task \in [Threads -> Task \cup {NoTask}]
      BY <1>1 DEF IInv, TypeOK
    <3>1. PICK u \in Threads :
            \/ StartCreate(u)
            \/ \E o \in Operations, s \in Sessions, i \in 1 .. Len(Owners) : StartOn(u, o, s, i)
            \/ Acquire(u) \/ StartQuarantine(u) \/ DropLock(u)
            \/ Send(u) \/ Requested(u)
      BY <1>1, <2>1, NextMoves DEF Moves, Quiet
    <3>2. ASSUME StartCreate(u) PROVE FALSE
      BY <2>1, <3>0, <3>2 DEF StartCreate, Be
    <3>3. ASSUME NEW o \in Operations, NEW s \in Sessions, NEW i \in 1 .. Len(Owners), StartOn(u, o, s, i)
          PROVE  FALSE
      BY <2>1, <3>0, <3>3 DEF StartOn, Be
    <3>4. ASSUME StartQuarantine(u) PROVE FALSE
      <4>1. task[u].pc # "idle"
        BY <3>4 DEF StartQuarantine
      <4> QED
        BY <2>1, <3>0, <3>4, <4>1, Placed DEF Becomes
    <3>5. ASSUME DropLock(u) PROVE FALSE
      BY <2>1, <3>0, <3>5, Stopped DEF DropLock, Stops
    <3>6. ASSUME Send(u) PROVE FALSE
      BY <2>1, <3>0, <3>6, Placed DEF Send, Becomes
    <3>7. ASSUME Requested(u) PROVE FALSE
      <4>1. task[u].pc \in {"send", "wait"}
        BY <3>7 DEF Requested, InIO
      <4>0. ASSUME NEW p, NEW o, NEW x, NEW w, Becomes(u, p, o, x, w), p # "send" \/ o # "call"
            PROVE  FALSE
        BY <2>1, <4>0 DEF Becomes
      <4>a. ~Stops(u)
        BY <2>1 DEF Stops
      <4>b. /\ \A p : Goto(u, p) => Becomes(u, p, task[u].op, task[u].s, task[u].own)
            /\ \A o : SendAll(u, o) => Becomes(u, "send", o, task[u].s, task[u].own)
            /\ Be(u, [task[u] EXCEPT !.pc = "send", !.at = @ + 1])
                 => Becomes(u, "send", task[u].op, task[u].s, task[u].own)
            /\ ~Idle(u)
        BY <3>0, <4>1, <4>a, Placed, Stopped
      <4>2. ASSUME NextOwner(u) PROVE FALSE
        <5>1. CASE Be(u, [task[u] EXCEPT !.pc = "send", !.at = @ + 1]) /\ task[u].op # "call"
          BY <4>0, <4>b, <5>1
        <5>2. CASE Complete(u)
          BY <4>0, <4>b, <5>2 DEF Complete
        <5> QED
          BY <4>2, <5>1, <5>2 DEF NextOwner
      <4>3. ASSUME NEW b \in BOOLEAN, Fail(u, b) PROVE FALSE
        <5>1. CASE SendAll(u, "cleanup") \/ SendAll(u, "reset_quarantine")
          BY <4>0, <4>b, <5>1
        <5>2. CASE Goto(u, "quarantine")
          BY <4>0, <4>b, <5>2
        <5> QED
          BY <4>2, <4>3, <4>b, <5>1, <5>2 DEF Fail, ResetFailed, CreateFailed
      <4> QED
        BY <3>7, <4>2, <4>3 DEF Requested
    <3>8. Acquire(u)
      BY <3>1, <3>2, <3>3, <3>4, <3>5, <3>6, <3>7
    <3>9. u = t
      BY <2>1, <3>0, <3>8, Placed, Stopped DEF Acquire, Becomes, Stops
    <3> QED
      BY <3>8, <3>9
  <2>3. task[t].pc = "lock" /\ task[t].op = "call" /\ task[t].s \in registered
    <3>1. task[t].pc = "lock" /\ TypeOK
      BY <1>1, <2>2 DEF Acquire, IInv
    <3> QED
      BY <2>1, <2>2, <3>1, Placed, Stopped DEF Acquire, Becomes, Stops
  <2> QED
    BY <1>1, <2>3 DEF IInv, TimedOutIsGone, Op
<1>2. IInv /\ [Next]_vars => [\A t \in Threads : CallSent(t) => << t, task[t].s >> \notin timedOut]_vars
  BY <1>1
<1> QED
  BY <1>2, Invariant, PTL DEF Spec, CallerStopsAfterTimeout

-----------------------------------------------------------------------------
(* Places.  A session that is gone, but that a server holds or is still    *)
(* asked to open, has a close behind the reset in that server's pipe or a  *)
(* thread that will send one: no failed or abandoned step drops the duty.  *)
Asked(o, s, q) == \E j \in 1 .. Len(pipe[o]) : pipe[o][j].request = q /\ pipe[o][j].s = s
Opens(o, s)    == s \in held[o] \/ Asked(o, s, "reset")
WillClose(t, i, s) ==
  /\ InIO(t) /\ task[t].op \in BestEffort /\ task[t].s = s
  /\ task[t].at < i \/ (task[t].at = i /\ task[t].pc = "send")
CloseComing(i, s) == Asked(Owners[i], s, "close") \/ \E t \in Threads : WillClose(t, i, s)

NoPlaceForgotten ==
  \A i \in 1 .. Len(Owners), s \in Gone :
    alive[Owners[i]] /\ Opens(Owners[i], s) => CloseComing(i, s)

(* What goes to every owner starts at the first.                           *)
FirstOwner == \A t \in Threads : task[t].pc = "lock" /\ task[t].op # "call" => task[t].at = 1

(* No server is asked to open a session whose id was not handed out.       *)
OpensKnown ==
  \A o \in Servers, s \in Sessions : alive[o] /\ Opens(o, s) => s \in 1 .. count

PInv == IInv /\ FirstOwner /\ OpensKnown /\ NoPlaceForgotten

(* The owner a thread that moves will send to.                             *)
LEMMA PlacedAt ==
  ASSUME TypeOK, NEW t \in Threads, task[t].pc # "idle"
  PROVE  /\ task[t].at \in 1 .. Len(Owners)
         /\ \A p : Goto(t, p) => task'[t].at = task[t].at
         /\ \A o : SendAll(t, o) => task'[t].at = 1
         /\ Be(t, [task[t] EXCEPT !.pc = "send", !.at = @ + 1]) => task'[t].at = task[t].at + 1
         /\ StartQuarantine(t) => task'[t].at = 1
<1>1. task \in [Threads -> Task \cup {NoTask}] /\ task[t] \in Task
  BY DEF TypeOK, NoTask
<1>2. ASSUME NEW k, Be(t, k) PROVE task'[t] = k
  BY <1>1, <1>2 DEF Be
<1>3. task[t].at \in 1 .. Len(Owners)
  BY <1>1 DEF Task
<1>4. ASSUME NEW k \in Task
      PROVE  [k EXCEPT !.pc = "send", !.at = k.at + 1].at = k.at + 1
  <2>1. PICK n : n = k.at + 1
    OBVIOUS
  <2>2. [k EXCEPT !.pc = "send", !.at = n].at = n
    BY DEF Task
  <2> QED
    BY <2>1, <2>2
<1>5. ASSUME NEW p, Goto(t, p) PROVE task'[t].at = task[t].at
  BY <1>1, <1>2, <1>5 DEF Goto, Task
<1>6. ASSUME NEW o, SendAll(t, o) PROVE task'[t].at = 1
  <2>1. task'[t] = [task[t] EXCEPT !.pc = "send", !.op = o, !.at = 1]
    BY <1>2, <1>6 DEF SendAll
  <2>2. ASSUME NEW k \in Task, NEW r, r = [k EXCEPT !.pc = "send", !.op = o, !.at = 1]
        PROVE  r.at = 1
    BY <2>2 DEF Task
  <2> QED
    BY <1>1, <2>1, <2>2
<1>7. ASSUME Be(t, [task[t] EXCEPT !.pc = "send", !.at = @ + 1])
      PROVE  task'[t].at = task[t].at + 1
  <2>1. task'[t] = [task[t] EXCEPT !.pc = "send", !.at = task[t].at + 1]
    BY <1>2, <1>7
  <2> QED
    BY <1>1, <1>4, <2>1
<1>8. ASSUME StartQuarantine(t) PROVE task'[t].at = 1
  <2>1. PICK b : b = (task[t].s \notin locks)
    OBVIOUS
  <2>2. task'[t] = [task[t] EXCEPT !.pc = "lock", !.op = "quarantine", !.at = 1, !.own = b]
    BY <1>2, <1>8, <2>1 DEF StartQuarantine
  <2>3. ASSUME NEW k \in Task, NEW r,
               r = [k EXCEPT !.pc = "lock", !.op = "quarantine", !.at = 1, !.own = b]
        PROVE  r.at = 1
    BY <2>3 DEF Task
  <2> QED
    BY <1>1, <2>2, <2>3
<1> QED
  BY <1>1, <1>3, <1>5, <1>6, <1>7, <1>8

(* What a step makes of the pipes and tables of the servers.               *)
Appends(o, r) == pipe' = [pipe EXCEPT ![o] = Append(@, r)]
LEMMA ServersMove ==
  ASSUME IInv, [Next]_vars, NEW o \in Servers, alive'[o]
  PROVE  /\ alive[o]
         /\ \/ pipe'[o] = pipe[o] /\ held'[o] = held[o]
            \/ \E t \in Threads : Abandoned(t)[o] = pipe'[o] /\ held'[o] = held[o]
            \/ \E t \in Threads : /\ Send(t) /\ Owners[task[t].at] = o /\ held'[o] = held[o]
                                  /\ pipe'[o] = Append(pipe[o],
                                       [request |-> RequestOf[task[t].op], s |-> task[t].s, from |-> t])
            \/ /\ pipe[o] # << >> /\ pipe'[o] = Tail(pipe[o])
               /\ \/ Head(pipe[o]).request = "reset" /\ held'[o] = held[o] \cup {Head(pipe[o]).s}
                  \/ Head(pipe[o]).request = "close" /\ held'[o] = held[o] \ {Head(pipe[o]).s}
                  \/ Head(pipe[o]).request # "close" /\ held'[o] = held[o]
<1>0. /\ pipe \in [Servers -> Seq(Request)] /\ held \in [Servers -> SUBSET Sessions]
      /\ alive \in [Servers -> BOOLEAN]
  BY DEF IInv, TypeOK
<1>1. ASSUME NEW t \in Threads,
             \/ Start(t) \/ Acquire(t) \/ StartQuarantine(t) \/ DropLock(t)
             \/ SendFails(t) \/ Receive(t)
      PROVE  UNCHANGED << pipe, held, alive >>
  BY <1>1 DEF Start, StartCreate, StartOn, Acquire, StartQuarantine, DropLock, SendFails, Receive,
              wire, server
<1>2. ASSUME UNCHANGED vars \/ Finished PROVE UNCHANGED << pipe, held, alive >>
  BY <1>2 DEF vars, wire, server, Finished
<1>3. ASSUME NEW t \in Threads, Send(t)
      PROVE  /\ UNCHANGED << held, alive >>
             /\ \/ Owners[task[t].at] # o /\ pipe'[o] = pipe[o]
                \/ Owners[task[t].at] = o
                   /\ pipe'[o] = Append(pipe[o],
                        [request |-> RequestOf[task[t].op], s |-> task[t].s, from |-> t])
  <2>1. PICK r : r = [request |-> RequestOf[task[t].op], s |-> task[t].s, from |-> t]
    OBVIOUS
  <2>2. /\ pipe' = [pipe EXCEPT ![Owners[task[t].at]] = Append(@, r)]
        /\ UNCHANGED << held, alive >>
    BY <1>3, <2>1 DEF Send, server
  <2> QED
    BY <1>0, <2>1, <2>2
<1>4. ASSUME NEW t \in Threads, TimeOut(t)
      PROVE  pipe' = Abandoned(t) /\ UNCHANGED << held, alive >>
  BY <1>4 DEF TimeOut, server
<1>5. ASSUME NEW x \in Servers, Serve(x)
      PROVE  /\ UNCHANGED alive
             /\ \/ x # o /\ pipe'[o] = pipe[o] /\ held'[o] = held[o]
                \/ /\ pipe[o] # << >> /\ pipe'[o] = Tail(pipe[o])
                   /\ \/ Head(pipe[o]).request = "reset" /\ held'[o] = held[o] \cup {Head(pipe[o]).s}
                      \/ Head(pipe[o]).request = "close" /\ held'[o] = held[o] \ {Head(pipe[o]).s}
                      \/ Head(pipe[o]).request # "close" /\ held'[o] = held[o]
  <2>1. PICK r : r = Head(pipe[x])
    OBVIOUS
  <2>2. /\ pipe' = [pipe EXCEPT ![x] = Tail(@)] /\ pipe[x] # << >> /\ UNCHANGED alive
        /\ \/ r.request = "reset" /\ held' = [held EXCEPT ![x] = @ \cup {r.s}]
           \/ r.request = "close" /\ held' = [held EXCEPT ![x] = @ \ {r.s}]
           \/ r.request # "close" /\ held' = held
    BY <1>0, <1>5, <2>1 DEF Serve
  <2> QED
    BY <1>0, <2>1, <2>2
<1>6. ASSUME NEW x \in Servers, Die(x)
      PROVE  alive[o] /\ pipe'[o] = pipe[o] /\ held'[o] = held[o]
  BY <1>0, <1>6 DEF Die
<1> QED
  BY <1>1, <1>2, <1>3, <1>4, <1>5, <1>6 DEF Next, Continue

(* What is asked in a pipe that grows, is read, or keeps its requests.     *)
LEMMA AskedMoves ==
  ASSUME NEW p \in Seq(Request), NEW q, NEW s
  PROVE  /\ \A r \in Request :
              (\E j \in 1 .. Len(Append(p, r)) : Append(p, r)[j].request = q /\ Append(p, r)[j].s = s)
              <=> (\E j \in 1 .. Len(p) : p[j].request = q /\ p[j].s = s)
                  \/ (r.request = q /\ r.s = s)
         /\ p # << >> =>
              ((\E j \in 1 .. Len(p) : p[j].request = q /\ p[j].s = s)
               <=> (\E j \in 1 .. Len(Tail(p)) : Tail(p)[j].request = q /\ Tail(p)[j].s = s)
                   \/ (Head(p).request = q /\ Head(p).s = s))
<1>1. ASSUME NEW r \in Request
      PROVE  (\E j \in 1 .. Len(Append(p, r)) : Append(p, r)[j].request = q /\ Append(p, r)[j].s = s)
             <=> (\E j \in 1 .. Len(p) : p[j].request = q /\ p[j].s = s) \/ (r.request = q /\ r.s = s)
  <2>1. /\ Len(p) \in Nat /\ Len(Append(p, r)) = Len(p) + 1 /\ Append(p, r)[Len(p) + 1] = r
        /\ \A j \in 1 .. Len(p) : Append(p, r)[j] = p[j]
    OBVIOUS
  <2>2. PICK w : w = Append(p, r)
    OBVIOUS
  <2>3. \A j \in 1 .. Len(w) : (j \in 1 .. Len(p) /\ w[j] = p[j]) \/ (j = Len(p) + 1 /\ w[j] = r)
    BY <2>1, <2>2
  <2>4. Len(p) + 1 \in 1 .. Len(w) /\ w[Len(p) + 1] = r
        /\ \A j \in 1 .. Len(p) : j \in 1 .. Len(w) /\ w[j] = p[j]
    BY <2>1, <2>2
  <2> QED
    BY <2>2, <2>3, <2>4
<1>2. ASSUME p # << >>
      PROVE  (\E j \in 1 .. Len(p) : p[j].request = q /\ p[j].s = s)
             <=> (\E j \in 1 .. Len(Tail(p)) : Tail(p)[j].request = q /\ Tail(p)[j].s = s)
                 \/ (Head(p).request = q /\ Head(p).s = s)
  <2>1. /\ Len(p) \in Nat \ {0} /\ Head(p) = p[1] /\ Len(Tail(p)) = Len(p) - 1
        /\ \A j \in 1 .. Len(Tail(p)) : Tail(p)[j] = p[j + 1]
    BY <1>2
  <2>2. PICK w : w = Tail(p)
    OBVIOUS
  <2>3. ASSUME NEW j \in 1 .. Len(p)
        PROVE  j = 1 \/ (j - 1 \in 1 .. Len(w) /\ w[j - 1] = p[j])
    <3>1. CASE j # 1
      <4>1. j - 1 \in 1 .. Len(w)
        BY <2>1, <2>2, <3>1
      <4>2. w[j - 1] = p[(j - 1) + 1]
        BY <2>1, <2>2, <4>1
      <4>3. (j - 1) + 1 = j
        OBVIOUS
      <4> QED
        BY <4>1, <4>2, <4>3
    <3> QED
      BY <3>1
  <2>4. \A j \in 1 .. Len(w) : j + 1 \in 1 .. Len(p) /\ w[j] = p[j + 1]
    BY <2>1, <2>2
  <2>5. 1 \in 1 .. Len(p) /\ Head(p) = p[1]
    BY <2>1
  <2> QED
    BY <2>2, <2>3, <2>4, <2>5
<1> QED
  BY <1>1, <1>2

LEMMA AskedAbandoned ==
  ASSUME pipe \in [Servers -> Seq(Request)], NEW t \in Threads, NEW o \in Servers, NEW q, NEW s,
         pipe'[o] = Abandoned(t)[o]
  PROVE  Asked(o, s, q)' <=> Asked(o, s, q)
<1>1. PICK p, w : p = pipe[o] /\ w = pipe'[o]
  OBVIOUS
<1>2. /\ p \in Seq(Request) /\ w \in Seq(Request) /\ DOMAIN w = DOMAIN p
      /\ \A i \in DOMAIN p : w[i].request = p[i].request /\ w[i].s = p[i].s
  BY <1>1, AbandonedTyped
<1>3. DOMAIN p = 1 .. Len(p) /\ DOMAIN w = 1 .. Len(w)
  BY <1>2
<1>4. (\E j \in 1 .. Len(w) : w[j].request = q /\ w[j].s = s)
      <=> (\E j \in 1 .. Len(p) : p[j].request = q /\ p[j].s = s)
  BY <1>2, <1>3
<1> QED
  BY <1>1, <1>4 DEF Asked

(* A step that moves a thread is a step of that thread.                    *)
LEMMA OwnStep ==
  ASSUME TypeOK, [Next]_vars, NEW t \in Threads, task'[t] # task[t]
  PROVE  Start(t) \/ Continue(t)
<1>0. task \in [Threads -> Task \cup {NoTask}]
  BY DEF TypeOK
<1>1. ASSUME NEW u \in Threads, Start(u) \/ Continue(u)
      PROVE  UNCHANGED task \/ \E k : Be(u, k)
  <2>1. Start(u) => UNCHANGED task \/ \E k : Be(u, k)
    BY DEF Start, StartCreate, StartOn
  <2>2. \A p, o : (Goto(u, p) => \E k : Be(u, k)) /\ (SendAll(u, o) => \E k : Be(u, k))
                  /\ (Idle(u) => \E k : Be(u, k))
    BY DEF Goto, SendAll, Idle
  <2>3. Complete(u) => \E k : Be(u, k)
    BY <2>2 DEF Complete
  <2>4. NextOwner(u) => \E k : Be(u, k)
    BY <2>3 DEF NextOwner
  <2>5. \A b : Fail(u, b) => \E k : Be(u, k)
    BY <2>2, <2>4 DEF Fail, ResetFailed, CreateFailed
  <2>6. Acquire(u) \/ StartQuarantine(u) \/ DropLock(u) \/ Send(u) => \E k : Be(u, k)
    BY <2>2 DEF Acquire, StartQuarantine, DropLock, Send
  <2>7. SendFails(u) \/ Receive(u) \/ TimeOut(u) => \E k : Be(u, k)
    BY <2>4, <2>5 DEF SendFails, Receive, TimeOut
  <2> QED
    BY <1>1, <2>1, <2>6, <2>7 DEF Continue
<1>2. PICK u \in Threads : Start(u) \/ Continue(u)
  <2>1. ASSUME NEW o \in Servers, Serve(o) \/ Die(o) PROVE FALSE
    BY <2>1 DEF Serve, Die
  <2>2. ASSUME Finished \/ UNCHANGED vars PROVE FALSE
    BY <2>2 DEF Finished, vars
  <2> QED
    BY <2>1, <2>2 DEF Next
<1>3. u = t
  <2>1. ASSUME NEW k, Be(u, k), u # t PROVE FALSE
    BY <1>0, <2>1 DEF Be
  <2> QED
    BY <1>1, <1>2, <2>1
<1> QED
  BY <1>2, <1>3

LEMMA FirstOwnerStep == ASSUME PInv, [Next]_vars PROVE FirstOwner'
<1>0. TypeOK /\ FirstOwner /\ task \in [Threads -> Task \cup {NoTask}]
  BY DEF PInv, IInv, TypeOK
<1> SUFFICES ASSUME NEW t \in Threads, task'[t].pc = "lock", task'[t].op # "call"
             PROVE  task'[t].at = 1
  BY DEF FirstOwner
<1>1. CASE task'[t] = task[t]
  BY <1>0, <1>1 DEF FirstOwner
<1>2. CASE Start(t)
  <2>1. ASSUME StartCreate(t) PROVE FALSE
    BY <1>0, <2>1 DEF StartCreate, Be
  <2>2. ASSUME NEW o \in Operations, NEW s \in Sessions, NEW i \in 1 .. Len(Owners), StartOn(t, o, s, i),
               task'[t] # task[t]
        PROVE  task'[t].at = 1
    <3>1. task'[t] = [pc |-> "lock", op |-> o, s |-> s, at |-> i, own |-> s \notin locks]
      BY <1>0, <2>2 DEF StartOn, Be
    <3> QED
      BY <2>2, <3>1 DEF StartOn
  <2> QED
    BY <1>1, <1>2, <2>1, <2>2 DEF Start
<1>3. CASE Continue(t)
  <2>1. task[t].pc # "idle"
    BY <1>3 DEF Continue, Acquire, StartQuarantine, DropLock, Send, SendFails, Receive, TimeOut
  <2>2. /\ \A p : Goto(t, p) => task'[t].pc = p
        /\ \A o : SendAll(t, o) => task'[t].pc = "send"
        /\ Be(t, [task[t] EXCEPT !.pc = "send", !.at = @ + 1]) => task'[t].pc = "send"
        /\ Idle(t) => task'[t].pc = "idle"
    BY <1>0, <2>1, Placed, Stopped DEF Becomes, Stops
  <2>3. NextOwner(t) => task'[t].pc # "lock"
    BY <2>2 DEF NextOwner, Complete
  <2>4. \A b : Fail(t, b) => task'[t].pc # "lock"
    BY <2>2, <2>3 DEF Fail, ResetFailed, CreateFailed
  <2>5. StartQuarantine(t)
    BY <1>3, <2>2, <2>3, <2>4 DEF Continue, Acquire, DropLock, Send, SendFails, Receive, TimeOut
  <2> QED
    BY <1>0, <2>1, <2>5, PlacedAt
<1> QED
  BY <1>0, <1>1, <1>2, <1>3, OwnStep

(* A thread that will close a session at an owner sends the close to it,   *)
(* unless the owner has died; whatever the answers of the owners before.   *)
LEMMA CloserKeeps ==
  ASSUME PInv, [Next]_vars, NEW t \in Threads, NEW i \in 1 .. Len(Owners), NEW s,
         WillClose(t, i, s), alive'[Owners[i]]
  PROVE  WillClose(t, i, s)' \/ Asked(Owners[i], s, "close")'
<1>0. /\ TypeOK /\ IInv /\ Owners[i] \in Servers /\ alive[Owners[i]]
      /\ InIO(t) /\ task[t].op \in BestEffort /\ task[t].s = s
      /\ task[t].pc # "idle" /\ task[t].at \in 1 .. Len(Owners)
  <2>1. TypeOK /\ IInv /\ Owners[i] \in Servers
    BY OwnersHold DEF PInv, IInv
  <2>2. task[t].pc # "idle"
    BY DEF WillClose, InIO
  <2> QED
    BY <2>1, <2>2, ServersMove, PlacedAt DEF WillClose
<1>1. CASE task'[t] = task[t]
  BY <1>1 DEF WillClose, InIO
<1>2. CASE Send(t)
  <2>1. /\ task'[t].pc = "wait" /\ task'[t].op = task[t].op /\ task'[t].s = s
        /\ task'[t].at = task[t].at
    BY <1>0, <1>2, Placed, PlacedAt DEF Send, Becomes
  <2>2. CASE task[t].at < i
    BY <1>0, <2>1, <2>2 DEF WillClose, InIO
  <2>3. CASE task[t].at = i
    <3>1. PICK r, p : /\ r = [request |-> RequestOf[task[t].op], s |-> s, from |-> t]
                      /\ p = pipe[Owners[i]]
      OBVIOUS
    <3>2. RequestOf[task[t].op] = "close"
      BY <1>0 DEF RequestOf, Operations, BestEffort
    <3>3. r \in Request /\ r.request = "close" /\ r.s = s
      <4>1. s \in Sessions
        BY <1>0, ControlTypes
      <4> QED
        BY <3>1, <3>2, <4>1 DEF Request
    <3>4. p \in Seq(Request) /\ pipe'[Owners[i]] = Append(p, r)
      BY <1>0, <1>2, <2>3, <3>1 DEF Send, TypeOK
    <3>5. \E j \in 1 .. Len(Append(p, r)) : Append(p, r)[j].request = "close" /\ Append(p, r)[j].s = s
      BY <3>3, <3>4, AskedMoves
    <3> QED
      BY <3>4, <3>5 DEF Asked
  <2> QED
    BY <2>2, <2>3 DEF WillClose
<1>3. CASE NextOwner(t) /\ task[t].at < i
  <2>1. task[t].op # "call" /\ task[t].at < Len(Owners)
    BY <1>0, <1>3, OwnersHold DEF BestEffort
  <2>2. Be(t, [task[t] EXCEPT !.pc = "send", !.at = @ + 1])
    BY <1>3, <2>1 DEF NextOwner
  <2>3. /\ task'[t].pc = "send" /\ task'[t].op = task[t].op /\ task'[t].s = s
        /\ task'[t].at = task[t].at + 1
    BY <1>0, <2>2, Placed, PlacedAt DEF Becomes
  <2>4. task[t].at + 1 < i \/ task[t].at + 1 = i
    BY <1>0, <1>3
  <2> QED
    BY <1>0, <2>3, <2>4 DEF WillClose, InIO
<1>4. ASSUME NEW b, Fail(t, b) PROVE NextOwner(t)
  BY <1>0, <1>4 DEF Fail, BestEffort
<1>5. SendFails(t) => NextOwner(t) /\ task[t].at < i
  BY <1>0, <1>4 DEF SendFails, WillClose
<1>6. Receive(t) \/ TimeOut(t) => NextOwner(t) /\ task[t].at < i
  BY <1>0, <1>4 DEF Receive, TimeOut, WillClose
<1>7. ~ (Start(t) \/ Acquire(t) \/ StartQuarantine(t) \/ DropLock(t))
  <2>1. ASSUME Start(t) PROVE task[t].pc = "idle"
    <3>1. Spend(t)
      BY <2>1 DEF Start, StartCreate, StartOn
    <3> QED
      BY <3>1 DEF Spend, NoTask
  <2> QED
    BY <1>0, <2>1 DEF Acquire, StartQuarantine, DropLock, InIO
<1> QED
  BY <1>0, <1>1, <1>2, <1>3, <1>5, <1>6, <1>7, OwnStep DEF Continue

(* Whoever takes a session out of the registry will close it everywhere.   *)
LEMMA GoneIsClosed ==
  ASSUME PInv, [Next]_vars, NEW s, s \in Gone', s \notin Gone, NEW i \in 1 .. Len(Owners)
  PROVE  \E t \in Threads : WillClose(t, i, s)'
<1>0. TypeOK /\ IInv /\ FirstOwner /\ count \in Nat
  BY DEF PInv, IInv, TypeOK
<1>1. ASSUME NEW t \in Threads, task'[t].pc = "send", task'[t].op \in BestEffort, task'[t].s = s,
             task'[t].at = 1
      PROVE  WillClose(t, i, s)'
  BY <1>1 DEF WillClose, InIO
<1>2. s \in registered /\ s \notin registered'
  <2>1. count' = count \/ (count' = count + 1 /\ registered' = registered \cup {count + 1})
    BY NextMoves DEF Moves, Quiet, StartCreate, StartOn, Acquire, StartQuarantine, DropLock, Send,
       Requested, NextOwner, Complete, Fail, ResetFailed, CreateFailed, registry, PInv
  <2> QED
    BY <1>0, <2>1 DEF Gone
<1>3. PICK t \in Threads :
        \/ Acquire(t)
        \/ InIO(t) /\ ((task[t].op = "reset" /\ ResetFailed(t)) \/ (task[t].op = "create" /\ CreateFailed(t)))
  <2>1. ~Quiet
    BY <1>2 DEF Quiet, registry
  <2>2. PICK t \in Threads : Acquire(t) \/ Requested(t)
    BY <1>0, <1>2, <2>1, NextMoves DEF Moves, StartCreate, StartOn, StartQuarantine, DropLock, Send, registry
  <2>3. ~NextOwner(t)
    BY <1>2 DEF NextOwner, Complete, registry
  <2> QED
    BY <1>2, <2>2, <2>3 DEF Requested, Fail
<1>4. CASE Acquire(t)
  <2>1. /\ task[t].pc = "lock" /\ task[t].op \in AllowMissing /\ task[t].s = s
        /\ Goto(t, "send")
    BY <1>2, <1>4 DEF Acquire
  <2>2. task[t].at = 1
    BY <1>0, <2>1 DEF FirstOwner, AllowMissing
  <2>3. /\ task'[t].pc = "send" /\ task'[t].op = task[t].op /\ task'[t].s = s /\ task'[t].at = 1
    BY <1>0, <2>1, <2>2, Placed, PlacedAt DEF Becomes
  <2> QED
    BY <1>1, <2>1, <2>3 DEF AllowMissing, BestEffort
<1>5. CASE InIO(t) /\ (ResetFailed(t) \/ CreateFailed(t))
  <2>1. task[t].pc # "idle" /\ task[t].s = s
    BY <1>2, <1>5 DEF InIO, ResetFailed, CreateFailed
  <2>2. PICK o \in {"cleanup", "reset_quarantine"} : SendAll(t, o)
    BY <1>5 DEF ResetFailed, CreateFailed
  <2>3. /\ task'[t].pc = "send" /\ task'[t].op = o /\ task'[t].s = s /\ task'[t].at = 1
    BY <1>0, <2>1, <2>2, Placed, PlacedAt DEF Becomes
  <2> QED
    BY <1>1, <2>3 DEF BestEffort
<1> QED
  BY <1>3, <1>4, <1>5

(* A server comes to open a session only by a request of a thread that has *)
(* it in the registry; and what it opens after it read a close is another. *)
LEMMA OpensMoves ==
  ASSUME PInv, [Next]_vars, NEW o \in Servers, NEW s, alive'[o], Opens(o, s)'
  PROVE  /\ s \notin Gone => Opens(o, s) \/ s \in registered
         /\ s \in Gone => Opens(o, s) /\ (Asked(o, s, "close") => Asked(o, s, "close")')
<1>0. IInv /\ TypeOK /\ pipe[o] \in Seq(Request) /\ InOrder(pipe[o], closed[o], Gone)
  BY DEF PInv, IInv, TypeOK, Wire, PipesInOrder
<1>1. PICK p, w : p = pipe[o] /\ w = pipe'[o]
  OBVIOUS
<1>a. \A q : /\ Asked(o, s, q) <=> \E j \in 1 .. Len(p) : p[j].request = q /\ p[j].s = s
             /\ Asked(o, s, q)' <=> \E j \in 1 .. Len(w) : w[j].request = q /\ w[j].s = s
  BY <1>1 DEF Asked
<1>2. CASE w = p /\ held'[o] = held[o]
  BY <1>a, <1>2 DEF Opens
<1>3. ASSUME NEW t \in Threads, Abandoned(t)[o] = pipe'[o], held'[o] = held[o]
      PROVE  /\ Opens(o, s)
             /\ Asked(o, s, "close") => Asked(o, s, "close")'
  <2>1. \A q : Asked(o, s, q)' <=> Asked(o, s, q)
    BY <1>0, <1>3, AskedAbandoned DEF TypeOK
  <2> QED
    BY <1>3, <2>1 DEF Opens
<1>4. ASSUME NEW t \in Threads, Send(t), held'[o] = held[o],
             w = Append(p, [request |-> RequestOf[task[t].op], s |-> task[t].s, from |-> t])
      PROVE  /\ Opens(o, s) \/ (s \in registered /\ s \notin Gone)
             /\ Asked(o, s, "close") => Asked(o, s, "close")'
  <2>1. PICK r : r = [request |-> RequestOf[task[t].op], s |-> task[t].s, from |-> t]
    OBVIOUS
  <2>2. task[t] \in Task /\ InIO(t) /\ task[t].op \in Operations \cup BestEffort /\ task[t].s \in Sessions
    BY <1>0, <1>4 DEF Send, TypeOK, Task, NoTask, InIO
  <2>3. RequestOf[task[t].op] \in {"reset", "call", "read", "close"}
        /\ (RequestOf[task[t].op] = "reset" => task[t].op \notin BestEffort)
    BY <2>2 DEF RequestOf, Operations, BestEffort
  <2>4. r \in Request /\ (r.request = "reset" => r.s \in registered)
    <3>1. r \in Request
      BY <2>1, <2>2, <2>3 DEF Request
    <3>2. r.request = "reset" => r.s \in registered
      BY <1>0, <2>1, <2>2, <2>3 DEF IInv, Control, UsingIsThere, Op, On
    <3> QED
      BY <3>1, <3>2
  <2>5. \A q : Asked(o, s, q)' <=> Asked(o, s, q) \/ (r.request = q /\ r.s = s)
    <3> SUFFICES ASSUME NEW q
                 PROVE  Asked(o, s, q)' <=> Asked(o, s, q) \/ (r.request = q /\ r.s = s)
      OBVIOUS
    <3>1. (\E j \in 1 .. Len(w) : w[j].request = q /\ w[j].s = s)
          <=> (\E j \in 1 .. Len(p) : p[j].request = q /\ p[j].s = s) \/ (r.request = q /\ r.s = s)
      <4>1. p \in Seq(Request) /\ w = Append(p, r)
        BY <1>0, <1>1, <1>4, <2>1
      <4> QED
        BY <2>4, <4>1, AskedMoves
    <3>2. /\ Asked(o, s, q) <=> \E j \in 1 .. Len(p) : p[j].request = q /\ p[j].s = s
          /\ Asked(o, s, q)' <=> \E j \in 1 .. Len(w) : w[j].request = q /\ w[j].s = s
      BY <1>a
    <3> QED
      BY <3>1, <3>2
  <2> QED
    BY <1>4, <2>4, <2>5 DEF Opens, Gone
<1>5. ASSUME p # << >>, w = Tail(p),
             \/ Head(p).request = "reset" /\ held'[o] = held[o] \cup {Head(p).s}
             \/ Head(p).request = "close" /\ held'[o] = held[o] \ {Head(p).s}
             \/ Head(p).request # "close" /\ held'[o] = held[o]
      PROVE  /\ Opens(o, s)
             /\ Asked(o, s, "close") => Asked(o, s, "close")'
  <2>1. \A q : Asked(o, s, q) <=> Asked(o, s, q)' \/ (Head(p).request = q /\ Head(p).s = s)
    <3> SUFFICES ASSUME NEW q
                 PROVE  Asked(o, s, q) <=> Asked(o, s, q)' \/ (Head(p).request = q /\ Head(p).s = s)
      OBVIOUS
    <3>1. (\E j \in 1 .. Len(p) : p[j].request = q /\ p[j].s = s)
          <=> (\E j \in 1 .. Len(w) : w[j].request = q /\ w[j].s = s)
              \/ (Head(p).request = q /\ Head(p).s = s)
      <4>1. p \in Seq(Request) /\ p # << >>
        BY <1>0, <1>1, <1>5
      <4> QED
        BY <1>5, <4>1, AskedMoves
    <3>2. /\ Asked(o, s, q) <=> \E j \in 1 .. Len(p) : p[j].request = q /\ p[j].s = s
          /\ Asked(o, s, q)' <=> \E j \in 1 .. Len(w) : w[j].request = q /\ w[j].s = s
      BY <1>a
    <3> QED
      BY <3>1, <3>2
  <2>2. Opens(o, s)
    BY <1>5, <2>1 DEF Opens
  <2>3. ASSUME Head(p).request = "close", Head(p).s = s PROVE FALSE
    <3>1. s \notin held'[o]
      BY <1>5, <2>3
    <3>2. Asked(o, s, "reset")'
      BY <3>1 DEF Opens
    <3>3. PICK j \in 1 .. Len(w) : w[j].request = "reset" /\ w[j].s = s
      BY <1>a, <3>2
    <3>4. /\ Len(p) \in Nat \ {0} /\ p[1] = Head(p) /\ w[j] = p[j + 1]
          /\ 1 \in 1 .. Len(p) /\ j + 1 \in 1 .. Len(p) /\ 1 < j + 1
      BY <1>0, <1>1, <1>5
    <3>5. \A a, b \in 1 .. Len(p) :
            a < b /\ p[a].request = "close" /\ p[b].request = "reset" => p[a].s # p[b].s
      BY <1>0, <1>1 DEF InOrder
    <3> QED
      BY <2>3, <3>3, <3>4, <3>5
  <2> QED
    BY <2>1, <2>2, <2>3
<1>6. \/ w = p /\ held'[o] = held[o]
      \/ \E t \in Threads : Abandoned(t)[o] = pipe'[o] /\ held'[o] = held[o]
      \/ \E t \in Threads : /\ Send(t) /\ held'[o] = held[o]
                            /\ w = Append(p, [request |-> RequestOf[task[t].op], s |-> task[t].s, from |-> t])
      \/ /\ p # << >> /\ w = Tail(p)
         /\ \/ Head(p).request = "reset" /\ held'[o] = held[o] \cup {Head(p).s}
            \/ Head(p).request = "close" /\ held'[o] = held[o] \ {Head(p).s}
            \/ Head(p).request # "close" /\ held'[o] = held[o]
  BY <1>0, <1>1, ServersMove
<1> QED
  BY <1>2, <1>3, <1>4, <1>5, <1>6

LEMMA PlacesStep == ASSUME PInv, [Next]_vars PROVE OpensKnown' /\ NoPlaceForgotten'
<1>0. IInv /\ OpensKnown /\ NoPlaceForgotten
  BY DEF PInv
<1>1. ASSUME NEW o \in Servers, NEW s \in Sessions, alive'[o], Opens(o, s)'
      PROVE  s \in 1 .. count'
  <2>1. s \in 1 .. count
    <3>1. CASE s \in Gone
      BY <3>1 DEF Gone
    <3>2. CASE s \in registered
      BY <1>0, <3>2 DEF IInv, Control, HandedOut
    <3>3. CASE Opens(o, s)
      BY <1>0, <1>1, <3>3, ServersMove DEF OpensKnown
    <3> QED
      BY <1>1, <3>1, <3>2, <3>3, OpensMoves
  <2>2. count \in Nat /\ count' \in {count, count + 1}
    <3>1. count' = count \/ count' = count + 1
      BY <1>0, NextMoves DEF Moves, Quiet, StartCreate, StartOn, Acquire, StartQuarantine, DropLock, Send,
         Requested, NextOwner, Complete, Fail, ResetFailed, CreateFailed, registry
    <3> QED
      BY <1>0, <3>1 DEF IInv, TypeOK
  <2> QED
    BY <2>1, <2>2
<1>2. ASSUME NEW i \in 1 .. Len(Owners), NEW s \in Gone', alive'[Owners[i]], Opens(Owners[i], s)'
      PROVE  CloseComing(i, s)'
  <2>0. Owners[i] \in Servers
    BY OwnersHold
  <2>1. CASE s \notin Gone
    BY <1>2, <2>1, GoneIsClosed DEF CloseComing
  <2>2. CASE s \in Gone
    <3>1. /\ Opens(Owners[i], s) /\ alive[Owners[i]]
          /\ Asked(Owners[i], s, "close") => Asked(Owners[i], s, "close")'
      BY <1>0, <1>2, <2>0, <2>2, OpensMoves, ServersMove
    <3>2. CloseComing(i, s)
      BY <1>0, <2>2, <3>1 DEF NoPlaceForgotten
    <3>3. CASE Asked(Owners[i], s, "close")
      BY <3>1, <3>3 DEF CloseComing
    <3>4. CASE \E t \in Threads : WillClose(t, i, s)
      BY <1>2, <3>4, CloserKeeps DEF CloseComing
    <3> QED
      BY <3>2, <3>3, <3>4 DEF CloseComing
  <2> QED
    BY <2>1, <2>2
<1>3. OpensKnown'
  BY <1>1 DEF OpensKnown
<1>4. NoPlaceForgotten'
  BY <1>2 DEF NoPlaceForgotten
<1> QED
  BY <1>3, <1>4

LEMMA PlacesInvariant == Spec => []PInv
<1>1. Init => FirstOwner /\ OpensKnown /\ NoPlaceForgotten
  BY DEF Init, FirstOwner, OpensKnown, NoPlaceForgotten, Opens, Asked, Gone, NoTask
<1>2. PInv /\ [Next]_vars => FirstOwner' /\ OpensKnown' /\ NoPlaceForgotten'
  BY FirstOwnerStep, PlacesStep
<1> QED
  BY <1>1, <1>2, Invariant, PTL DEF Spec, PInv

(* No close is ever forgotten: as long as a live server holds, or is asked *)
(* to open, a session the manager no longer has, its close is on the way   *)
(* to that server, whichever requests failed, were given up or came late.  *)
THEOREM NothingForgotten == Spec => []NoPlaceForgotten
BY PlacesInvariant, PTL DEF PInv

(* So when every thread is idle and every pipe is read, live servers hold  *)
(* the sessions of the registry and no other.                              *)
AtRest == /\ \A t \in Threads : task[t] = NoTask
          /\ \A o \in Servers : alive[o] => pipe[o] = << >>
NothingLeaked == AtRest => \A o \in Servers : alive[o] => held[o] \subseteq registered

THEOREM RestLeaksNothing == Spec => []NothingLeaked
<1>1. PInv => NothingLeaked
  <2> SUFFICES ASSUME PInv, AtRest, NEW o \in Servers, alive[o], NEW s \in held[o], s \notin registered
               PROVE  FALSE
    BY DEF NothingLeaked
  <2>1. PICK i \in 1 .. Len(Owners) : o = Owners[i]
    BY DEF Servers
  <2>2. Opens(o, s) /\ s \in Sessions
    BY DEF Opens, PInv, IInv, TypeOK
  <2>3. s \in Gone
    BY <2>2 DEF PInv, OpensKnown, Gone
  <2>4. CloseComing(i, s)
    BY <2>1, <2>2, <2>3 DEF PInv, NoPlaceForgotten
  <2>5. ~ Asked(o, s, "close")
    BY DEF AtRest, Asked
  <2>6. \A t \in Threads : ~ InIO(t)
    BY DEF AtRest, InIO, NoTask
  <2> QED
    BY <2>1, <2>4, <2>5, <2>6 DEF CloseComing, WillClose
<1> QED
  BY <1>1, PlacesInvariant, PTL

-----------------------------------------------------------------------------
(* No operation waits for ever.  Whoever holds a lock is between its       *)
(* requests on that session, so it waits for a server, for as long as a    *)
(* timeout at most, and never for a lock: no operation leaves a session    *)
(* locked, and no two wait for each other.                                 *)
HeldByWorker ==
  \A s \in Sessions : holder[s] # NoThread =>
    InIO(holder[s]) /\ On(holder[s]) = s /\ Op(holder[s]) # "cleanup"

(* Where an operation stands: it works, then it cleans up, then it is over; *)
(* each of the two first asks for the lock, then asks one owner after the   *)
(* other, and has one place more.                                           *)
Stage(k) == IF k.pc = "idle" THEN 2 ELSE IF k.op \in BestEffort THEN 1 ELSE 0
Step(k) ==
  CASE k.pc \in {"idle", "lock"} -> 0 [] k.pc = "send" -> 2 * k.at - 1 [] k.pc = "wait" -> 2 * k.at
    [] OTHER -> 2 * Len(Owners) + 1

Onward(k, l) ==
  /\ Step(l) \in 0 .. 2 * Len(Owners) + 1
  /\ Stage(k) < Stage(l) \/ (Stage(k) = Stage(l) /\ Step(k) < Step(l))

(* Every step of a thread in an operation brings the operation nearer to   *)
(* its end, and no step of anybody else changes where it stands.           *)
OperationAdvances ==
  [][\A t \in Threads :
       /\ Continue(t) => Onward(task[t], task'[t])
       /\ task'[t] # task[t] => Start(t) \/ Continue(t)]_vars

LEMMA HeldKept ==
  ASSUME TypeOK', HeldByWorker, NEW t \in Threads,
         \A u \in Threads : u # t => task'[u] = task[u],
         \A s \in Sessions : \/ holder'[s] = NoThread
                             \/ holder'[s] # t /\ holder'[s] = holder[s]
                             \/ /\ holder'[s] = t /\ task'[t].pc \in {"send", "wait"}
                                /\ task'[t].s = s /\ task'[t].op # "cleanup"
  PROVE  HeldByWorker'
<1> SUFFICES ASSUME NEW s \in Sessions, holder'[s] # NoThread
             PROVE  /\ task'[holder'[s]].pc \in {"send", "wait"} /\ task'[holder'[s]].s = s
                    /\ task'[holder'[s]].op # "cleanup"
  BY DEF HeldByWorker, InIO, On, Op
<1>1. PICK u \in Threads : holder'[s] = u
  BY DEF TypeOK
<1>2. CASE u = t
  BY <1>1, <1>2
<1>3. CASE u # t
  <2>1. holder[s] = u /\ task'[u] = task[u] /\ holder[s] # NoThread
    BY <1>1, <1>3
  <2>2. task[u].pc \in {"send", "wait"} /\ task[u].s = s /\ task[u].op # "cleanup"
    BY <2>1 DEF HeldByWorker, InIO, On, Op
  <2> QED
    BY <1>1, <2>1, <2>2
<1> QED
  BY <1>2, <1>3

(* What an idle or a waiting thread holds: nothing.                        *)
LEMMA HoldsOnlyItsOwn ==
  ASSUME HeldByWorker, NoThread \notin Threads, NEW t \in Threads, NEW s \in Sessions, holder[s] = t
  PROVE  task[t].pc \in {"send", "wait"} /\ task[t].s = s /\ task[t].op # "cleanup"
BY DEF HeldByWorker, InIO, On, Op

LEMMA StartHeld ==
  ASSUME IInv, TypeOK', HeldByWorker, NEW t \in Threads,
         \/ StartCreate(t)
         \/ \E o \in Operations, s \in Sessions, i \in 1 .. Len(Owners) : StartOn(t, o, s, i)
  PROVE  HeldByWorker'
<1> USE ControlTypes DEF IInv
<1>1. task[t].pc = "idle" /\ \A s \in Sessions : holder[s] # t
  <2>1. task[t] = NoTask
    <3>1. CASE StartCreate(t)
      BY <3>1 DEF StartCreate, Spend
    <3>2. CASE \E o \in Operations, s \in Sessions, i \in 1 .. Len(Owners) : StartOn(t, o, s, i)
      <4>1. PICK o \in Operations, s \in Sessions, i \in 1 .. Len(Owners) : StartOn(t, o, s, i)
        BY <3>2
      <4> QED
        BY <4>1 DEF StartOn, Spend
    <3> QED
      BY <3>1, <3>2
  <2>2. task[t].pc = "idle"
    BY <2>1 DEF NoTask
  <2> QED
    BY <2>2, HoldsOnlyItsOwn
<1>2. ASSUME StartCreate(t) PROVE HeldByWorker'
  <2>1. PICK c : c = count + 1
    OBVIOUS
  <2>2. /\ c \in Sessions /\ holder' = [holder EXCEPT ![c] = t]
        /\ Be(t, [pc |-> "send", op |-> "create", s |-> c, at |-> 1, own |-> FALSE])
    BY <1>2, <2>1 DEF StartCreate
  <2>3. /\ task'[t] = [pc |-> "send", op |-> "create", s |-> c, at |-> 1, own |-> FALSE]
        /\ \A u \in Threads : u # t => task'[u] = task[u]
    BY <2>2 DEF Be
  <2>4. task'[t].pc = "send" /\ task'[t].s = c /\ task'[t].op = "create"
    BY <2>3
  <2>5. \A s \in Sessions : holder'[s] = IF s = c THEN t ELSE holder[s]
    BY <2>2
  <2> QED
    BY <1>1, <2>3, <2>4, <2>5, HeldKept
<1>3. ASSUME NEW o \in Operations, NEW s \in Sessions, NEW i \in 1 .. Len(Owners), StartOn(t, o, s, i)
      PROVE  HeldByWorker'
  <2>1. holder' = holder /\ \A u \in Threads : u # t => task'[u] = task[u]
    BY <1>3 DEF StartOn, Be, registry
  <2> QED
    BY <1>1, <2>1, HeldKept
<1> QED
  BY <1>2, <1>3

LEMMA AcquireHeld ==
  ASSUME IInv, TypeOK', HeldByWorker, NEW t \in Threads, Acquire(t)
  PROVE  HeldByWorker'
<1> USE ControlTypes DEF IInv
<1>1. task[t].pc = "lock" /\ task[t].s \in Sessions
  BY DEF Acquire
<1>2. \A s \in Sessions : holder[s] # t
  BY <1>1, HoldsOnlyItsOwn
<1>3. CASE task[t].s \in registered
  <2>1. ~ task[t].own
    BY <1>1, <1>3 DEF Control, OwnLockOfGone, Busy, On
  <2>2. holder' = [holder EXCEPT ![task[t].s] = t]
    BY <1>3, <2>1 DEF Acquire
  <2>3. Becomes(t, "send", task[t].op, task[t].s, task[t].own)
    BY <1>1, <1>3, Placed DEF Acquire
  <2>4. task[t].op # "cleanup"
    BY <1>1 DEF Control, Places, Op
  <2>5. \A s \in Sessions : holder'[s] = IF s = task[t].s THEN t ELSE holder[s]
    BY <2>2
  <2> QED
    BY <1>2, <2>3, <2>4, <2>5, HeldKept DEF Becomes
<1>4. CASE task[t].s \notin registered
  <2>1. holder' = holder
    BY <1>4 DEF Acquire
  <2>2. \A u \in Threads : u # t => task'[u] = task[u]
    BY <1>4 DEF Acquire, Goto, Idle, Be
  <2> QED
    BY <1>2, <2>1, <2>2, HeldKept
<1> QED
  BY <1>3, <1>4

LEMMA PlaceHeld ==
  ASSUME IInv, TypeOK', HeldByWorker, NEW t \in Threads, StartQuarantine(t) \/ DropLock(t) \/ Send(t)
  PROVE  HeldByWorker'
<1> USE ControlTypes DEF IInv
<1>1. holder' = holder /\ \A u \in Threads : u # t => task'[u] = task[u]
  BY DEF StartQuarantine, DropLock, Send, Goto, Idle, Be, registry
<1>2. ASSUME StartQuarantine(t) \/ DropLock(t) PROVE HeldByWorker'
  <2>1. \A s \in Sessions : holder[s] # t
    BY <1>2, HoldsOnlyItsOwn DEF StartQuarantine, DropLock
  <2> QED
    BY <1>1, <2>1, HeldKept
<1>3. ASSUME Send(t) PROVE HeldByWorker'
  <2>1. Becomes(t, "wait", task[t].op, task[t].s, task[t].own)
    BY <1>3, Placed DEF Send
  <2>2. \A s \in Sessions : holder[s] = t => task[t].s = s /\ task[t].op # "cleanup"
    BY HoldsOnlyItsOwn
  <2> QED
    BY <1>1, <2>1, <2>2, HeldKept DEF Becomes
<1> QED
  BY <1>2, <1>3

(* An operation that releases its session's lock holds no other.           *)
LEMMA ReleaseHeld ==
  ASSUME IInv, TypeOK', HeldByWorker, NEW t \in Threads, Release(t), InIO(t),
         \A u \in Threads : u # t => task'[u] = task[u]
  PROVE  HeldByWorker'
<1> USE ControlTypes DEF IInv
<1>1. task[t].s \in Sessions
  BY DEF InIO
<1>2. \A s \in Sessions :
        holder'[s] = IF s = task[t].s /\ holder[s] = t THEN NoThread ELSE holder[s]
  BY <1>1 DEF Release
<1>3. \A s \in Sessions : holder[s] = t => task[t].s = s
  BY HoldsOnlyItsOwn
<1>4. \A s \in Sessions : holder'[s] = NoThread \/ (holder'[s] # t /\ holder'[s] = holder[s])
  BY <1>2, <1>3
<1> QED
  BY <1>4, HeldKept

LEMMA RequestHeld ==
  ASSUME IInv, TypeOK', HeldByWorker, NEW t \in Threads, Requested(t)
  PROVE  HeldByWorker'
<1> USE ControlTypes DEF IInv
<1>1. InIO(t) /\ task[t].pc \in {"send", "wait"}
  BY DEF Requested, InIO
<1>2. \A s \in Sessions : holder[s] = t => task[t].s = s /\ task[t].op # "cleanup"
  BY HoldsOnlyItsOwn
<1>3. ASSUME Complete(t) PROVE HeldByWorker'
  <2>1. \A u \in Threads : u # t => task'[u] = task[u]
    BY <1>3 DEF Complete, Goto, Idle, Be
  <2>2. CASE task[t].op = "cleanup"
    <3>1. holder' = holder /\ \A s \in Sessions : holder[s] # t
      BY <1>2, <1>3, <2>2 DEF Complete
    <3> QED
      BY <2>1, <3>1, HeldKept
  <2>3. CASE task[t].op # "cleanup"
    BY <1>1, <1>3, <2>1, <2>3, ReleaseHeld DEF Complete
  <2> QED
    BY <2>2, <2>3
<1>4. ASSUME NextOwner(t) PROVE HeldByWorker'
  <2>1. CASE task[t].op # "call" /\ task[t].at < Len(Owners)
    <3>1. holder' = holder
      BY <1>4, <2>1 DEF NextOwner, registry
    <3>2. Becomes(t, "send", task[t].op, task[t].s, task[t].own)
      BY <1>1, <1>4, <2>1, Placed DEF NextOwner
    <3> QED
      BY <1>2, <3>1, <3>2, HeldKept DEF Becomes
  <2> QED
    BY <1>3, <1>4, <2>1 DEF NextOwner
<1>5. ASSUME ResetFailed(t) PROVE HeldByWorker'
  <2>1. holder' = holder
    BY <1>5 DEF ResetFailed
  <2>2. Becomes(t, "send", "reset_quarantine", task[t].s, task[t].own)
    BY <1>1, <1>5, Placed DEF ResetFailed
  <2> QED
    BY <1>2, <2>1, <2>2, HeldKept DEF Becomes
<1>6. ASSUME CreateFailed(t) PROVE HeldByWorker'
  <2>1. \A u \in Threads : u # t => task'[u] = task[u]
    BY <1>6 DEF CreateFailed, SendAll, Be
  <2> QED
    BY <1>1, <1>6, <2>1, ReleaseHeld DEF CreateFailed
<1>7. ASSUME Release(t), Goto(t, "quarantine") \/ Idle(t) PROVE HeldByWorker'
  <2>1. \A u \in Threads : u # t => task'[u] = task[u]
    BY <1>7 DEF Goto, Idle, Be
  <2> QED
    BY <1>1, <1>7, <2>1, ReleaseHeld
<1>8. ASSUME NEW b \in BOOLEAN, Fail(t, b) PROVE HeldByWorker'
  BY <1>4, <1>5, <1>6, <1>7, <1>8 DEF Fail
<1> QED
  BY <1>4, <1>8 DEF Requested

(* No operation ends, and none waits for a lock, with a session locked: a  *)
(* thread waiting for a lock waits for one that itself waits for a server. *)
THEOREM NoLockLeft == Spec => []HeldByWorker
<1>1. Init => HeldByWorker
  BY DEF Init, HeldByWorker
<1>2. IInv /\ IInv' /\ HeldByWorker /\ [Next]_vars => HeldByWorker'
  <2> SUFFICES ASSUME IInv, IInv', HeldByWorker, [Next]_vars PROVE HeldByWorker'
    OBVIOUS
  <2>1. TypeOK'
    BY DEF IInv
  <2>2. CASE Moves
    BY <2>1, <2>2, StartHeld, AcquireHeld, PlaceHeld, RequestHeld DEF Moves
  <2>3. CASE Quiet
    BY <2>3 DEF Quiet, registry, HeldByWorker, InIO, On, Op
  <2> QED
    BY <2>2, <2>3, NextMoves
<1> QED
  BY <1>1, <1>2, Invariant, PTL DEF Spec

-----------------------------------------------------------------------------
LEMMA Forward ==
  ASSUME NEW k, NEW l, k.at \in 1 .. Len(Owners), k.pc # "idle",
         \/ l.pc = "idle"
         \/ /\ k.op \notin BestEffort /\ l.op \in BestEffort
            /\ l.pc = "lock" \/ (l.pc = "send" /\ l.at = 1)
         \/ /\ k.op = l.op
            /\ \/ k.pc = "lock" /\ l.pc = "send" /\ l.at = k.at
               \/ k.pc = "send" /\ l.pc = "wait" /\ l.at = k.at
               \/ /\ k.pc \in {"send", "wait"} /\ l.pc = "send"
                  /\ l.at = k.at + 1 /\ k.at < Len(Owners)
               \/ k.pc \in {"lock", "send", "wait"} /\ l.pc \in {"quarantine", "drop_lock"}
  PROVE  Onward(k, l)
<1>1. PICK kp, ko, ka, lp, lo, la, n :
        /\ kp = k.pc /\ ko = k.op /\ ka = k.at /\ lp = l.pc /\ lo = l.op /\ la = l.at
        /\ n = Len(Owners)
  OBVIOUS
<1>2. n \in Nat \ {0} /\ ka \in 1 .. n
  BY <1>1, OwnersHold
<1>3. CASE lp = "idle"
  <2>1. Stage(l) = 2 /\ Stage(k) \in {0, 1} /\ Step(l) = 0
    BY <1>1, <1>3 DEF Stage, Step
  <2> QED
    BY <1>1, <1>2, <2>1 DEF Onward
<1>4. CASE ko \notin BestEffort /\ lo \in BestEffort /\ (lp = "lock" \/ (lp = "send" /\ la = 1))
  <2>1. Stage(k) = 0 /\ Stage(l) = 1
    BY <1>1, <1>4 DEF Stage
  <2>2. Step(l) \in 0 .. 1
    BY <1>1, <1>4 DEF Step
  <2> QED
    BY <1>1, <1>2, <2>1, <2>2 DEF Onward
<1>5. CASE /\ ko = lo
           /\ \/ kp = "lock" /\ lp = "send" /\ la = ka
              \/ kp = "send" /\ lp = "wait" /\ la = ka
              \/ kp \in {"send", "wait"} /\ lp = "send" /\ la = ka + 1 /\ ka < n
              \/ kp \in {"lock", "send", "wait"} /\ lp \in {"quarantine", "drop_lock"}
  <2>1. Stage(k) = Stage(l)
    BY <1>1, <1>5 DEF Stage
  <2>2. /\ kp = "lock" => Step(k) = 0
        /\ kp = "send" => Step(k) = 2 * ka - 1
        /\ kp = "wait" => Step(k) = 2 * ka
        /\ lp = "send" => Step(l) = 2 * la - 1
        /\ lp = "wait" => Step(l) = 2 * la
        /\ lp \in {"quarantine", "drop_lock"} => Step(l) = 2 * n + 1
    BY <1>1 DEF Step
  <2>3. Step(k) < Step(l) /\ Step(l) \in 0 .. 2 * n + 1
    BY <1>2, <1>5, <2>2
  <2> QED
    BY <1>1, <2>1, <2>3 DEF Onward
<1> QED
  BY <1>1, <1>3, <1>4, <1>5

LEMMA RequestOnward ==
  ASSUME IInv, NEW t \in Threads, Requested(t)
  PROVE  Onward(task[t], task'[t])
<1> USE ControlTypes DEF IInv, Becomes, Stops
<1>1. /\ task[t].pc \in {"send", "wait"} /\ task[t].at \in 1 .. Len(Owners)
  BY PlacedAt DEF Requested, InIO
<1>2. PICK k, l : k = task[t] /\ l = task'[t]
  OBVIOUS
<1>3. k.pc \in {"send", "wait"} /\ k.at \in 1 .. Len(Owners)
  BY <1>1, <1>2
<1>4. ASSUME Complete(t) PROVE Onward(k, l)
  <2>1. l.pc = "idle" \/ (l.pc = "drop_lock" /\ l.op = k.op)
    BY <1>1, <1>2, <1>4, Placed, Stopped DEF Complete
  <2> QED
    BY <1>3, <2>1, Forward
<1>5. ASSUME NextOwner(t) PROVE Onward(k, l)
  <2>1. CASE task[t].op # "call" /\ task[t].at < Len(Owners)
    <3>1. Be(t, [task[t] EXCEPT !.pc = "send", !.at = @ + 1])
      BY <1>5, <2>1 DEF NextOwner
    <3>2. l.pc = "send" /\ l.op = k.op
      BY <1>1, <1>2, <3>1, Placed
    <3>3. l.at = k.at + 1 /\ k.at < Len(Owners)
      BY <1>1, <1>2, <2>1, <3>1, PlacedAt
    <3> QED
      BY <1>3, <3>2, <3>3, Forward
  <2> QED
    BY <1>4, <1>5, <2>1 DEF NextOwner
<1>6. ASSUME NEW o \in BestEffort, SendAll(t, o), task[t].op \notin BestEffort PROVE Onward(k, l)
  <2>1. l.pc = "send" /\ l.op = o
    BY <1>1, <1>2, <1>6, Placed
  <2>2. l.at = 1
    BY <1>1, <1>2, <1>6, PlacedAt
  <2> QED
    BY <1>2, <1>3, <1>6, <2>1, <2>2, Forward
<1>7. ASSUME Goto(t, "quarantine") \/ Idle(t) PROVE Onward(k, l)
  <2>1. l.pc = "idle" \/ (l.pc = "quarantine" /\ l.op = k.op)
    BY <1>1, <1>2, <1>7, Placed, Stopped
  <2> QED
    BY <1>3, <2>1, Forward
<1>8. ASSUME NEW b \in BOOLEAN, Fail(t, b) PROVE Onward(k, l)
  BY <1>5, <1>6, <1>7, <1>8 DEF Fail, CreateFailed, ResetFailed, BestEffort
<1> QED
  BY <1>2, <1>5, <1>8 DEF Requested

LEMMA ContinueOnward ==
  ASSUME IInv, NEW t \in Threads, Continue(t)
  PROVE  Onward(task[t], task'[t])
<1> USE ControlTypes DEF IInv, Becomes, Stops
<1>1. CASE SendFails(t) \/ Receive(t) \/ TimeOut(t)
  <2>1. Requested(t)
    BY <1>1 DEF SendFails, Receive, TimeOut, Requested, InIO
  <2> QED
    BY <2>1, RequestOnward
<1>2. CASE Acquire(t) \/ StartQuarantine(t) \/ DropLock(t) \/ Send(t)
  <2>1. task[t].pc # "idle"
    BY <1>2 DEF Acquire, StartQuarantine, DropLock, Send
  <2>2. PICK k, l : k = task[t] /\ l = task'[t]
    OBVIOUS
  <2>3. k.pc # "idle" /\ k.at \in 1 .. Len(Owners)
    BY <2>1, <2>2, PlacedAt
  <2>4. CASE Acquire(t)
    <3>1. \/ Goto(t, "send") \/ Goto(t, "drop_lock") \/ Idle(t)
      BY <2>4 DEF Acquire
    <3>2. k.pc = "lock"
      BY <2>2, <2>4 DEF Acquire
    <3>3. l.pc = "idle" \/ (l.pc \in {"send", "drop_lock"} /\ l.op = k.op)
      BY <2>1, <2>2, <3>1, Placed, Stopped
    <3>4. l.pc = "idle" \/ l.at = k.at
      BY <2>1, <2>2, <3>1, PlacedAt, Stopped
    <3> QED
      BY <2>2, <2>3, <3>2, <3>3, <3>4, Forward
  <2>5. CASE StartQuarantine(t)
    <3>1. k.op = "call"
      BY <2>2, <2>5 DEF StartQuarantine, Control, Places, Op
    <3>2. l.pc = "lock" /\ l.op = "quarantine"
      BY <2>1, <2>2, <2>5, Placed
    <3> QED
      BY <2>2, <2>3, <3>1, <3>2, Forward DEF BestEffort
  <2>6. CASE DropLock(t)
    <3>1. l.pc = "idle"
      BY <2>2, <2>6, Stopped DEF DropLock
    <3> QED
      BY <2>2, <2>3, <3>1, Forward
  <2>7. CASE Send(t)
    <3>1. k.pc = "send" /\ Goto(t, "wait")
      BY <2>2, <2>7 DEF Send
    <3>2. l.pc = "wait" /\ l.op = k.op
      BY <2>1, <2>2, <3>1, Placed
    <3>3. l.at = k.at
      BY <2>1, <2>2, <3>1, PlacedAt
    <3> QED
      BY <2>2, <2>3, <3>1, <3>2, <3>3, Forward
  <2> QED
    BY <1>2, <2>4, <2>5, <2>6, <2>7
<1> QED
  BY <1>1, <1>2 DEF Continue

(* Only a thread's own steps move it.                                      *)
LEMMA MovesAlone ==
  ASSUME IInv, Next, NEW t \in Threads, task'[t] # task[t]
  PROVE  Start(t) \/ Continue(t)
<1>1. task \in [Threads -> Task \cup {NoTask}]
  BY DEF IInv, TypeOK
<1>2. ASSUME NEW u \in Threads, Start(u) \/ Continue(u)
      PROVE  \A v \in Threads : v # u => task'[v] = task[v]
  <2>1. ASSUME NEW k, Be(u, k) PROVE \A v \in Threads : v # u => task'[v] = task[v]
    BY <2>1 DEF Be
  <2>2. CASE Start(u)
    BY <2>1, <2>2 DEF Start, StartCreate, StartOn
  <2>3. CASE Acquire(u) \/ StartQuarantine(u) \/ DropLock(u) \/ Send(u)
    BY <2>1, <2>3 DEF Acquire, StartQuarantine, DropLock, Send, Goto, Idle
  <2>4. CASE SendFails(u) \/ Receive(u) \/ TimeOut(u)
    <3>1. NextOwner(u) \/ Fail(u, TRUE) \/ Fail(u, FALSE)
      BY <2>4 DEF SendFails, Receive, TimeOut
    <3>2. \A b : Fail(u, b) => NextOwner(u) \/ \E k : Be(u, k)
      BY DEF Fail, CreateFailed, ResetFailed, SendAll, Goto, Idle
    <3>3. NextOwner(u) => \E k : Be(u, k)
      BY DEF NextOwner, Complete, Goto, Idle
    <3> QED
      BY <2>1, <3>1, <3>2, <3>3
  <2> QED
    BY <1>2, <2>2, <2>3, <2>4 DEF Continue
<1>3. ASSUME UNCHANGED task PROVE FALSE
  BY <1>3
<1>4. ASSUME NEW o \in Servers, Serve(o) \/ Die(o) PROVE UNCHANGED task
  BY <1>4 DEF Serve, Die
<1>5. ASSUME Finished PROVE UNCHANGED task
  BY <1>5 DEF Finished, vars
<1> QED
  BY <1>2, <1>3, <1>4, <1>5 DEF Next

(* The safety core of PlacesReturned, with NothingForgotten: an operation  *)
(* takes only so many steps, whatever fails, times out or is closed by     *)
(* others meanwhile, and it never has to wait for a lock whose holder      *)
(* waits for another (NoLockLeft).                                         *)
THEOREM Advances == Spec => OperationAdvances
<1> DEFINE A == \A t \in Threads :
       /\ Continue(t) => Onward(task[t], task'[t])
       /\ task'[t] # task[t] => Start(t) \/ Continue(t)
<1>1. IInv /\ [Next]_vars => [A]_vars
  BY ContinueOnward, MovesAlone
<1> QED
  BY <1>1, Invariant, PTL DEF Spec, OperationAdvances

=============================================================================
