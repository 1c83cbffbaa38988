---------------------------- MODULE SessionManager ----------------------------
(***************************************************************************)
(* The session registry every consumer goes through: LiveMCPManager        *)
(* (protocol/manager.py) with the timeout handling of the executor         *)
(* (executor.py), the stdio transport (protocol/transport.py) and the      *)
(* session table of the tool servers (server_base.py).                     *)
(*                                                                         *)
(* Threads run operations on sessions.  An operation takes the session's   *)
(* lock and sends one request after the other to the session's owners; a   *)
(* request waits for its answer up to a timeout, and the server may still  *)
(* serve it afterwards.  A server reads its pipe in order and serves one   *)
(* request at a time.                                                      *)
(***************************************************************************)
EXTENDS Integers, Sequences, FiniteSets

CONSTANTS
  Threads,
  NoThread,
  Owners,        \* spec.server_names of a session: the servers in order
  MaxSessions,   \* bound: sessions created in a behaviour
  MaxOps,        \* bound: operations a thread starts
  Capacity,      \* MAX_SESSIONS of a server
  Mortal         \* bound: servers whose process may end

Servers  == {Owners[i] : i \in 1 .. Len(Owners)}
Sessions == 1 .. MaxSessions

ASSUME ThreadsAssumption == NoThread \notin Threads
ASSUME OwnersAssumption ==
  /\ Owners \in Seq(Servers) /\ Len(Owners) > 0
  /\ \A i, j \in 1 .. Len(Owners) : Owners[i] = Owners[j] => i = j
ASSUME BoundsAssumption ==
  MaxSessions \in Nat /\ MaxOps \in Nat /\ Capacity \in Nat

VARIABLES
  count,        \* _session_counter: ids 1 .. count were handed out, never again
  registered,   \* _sessions
  locks,        \* _session_locks: the sessions with an entry
  holder,       \* the thread that holds a session's lock
  poisoned,     \* _poisoned_sessions
  returned,     \* sessions create_session returned: their ids are known
  task,         \* where a thread is in which operation on which session
  left,         \* operations it may still start
  answer,       \* the answer put in the queue of its request
  pipe,         \* stdin of a server: the requests it has not read
  held,         \* sessions of a server
  alive,        \* the server process runs
  closed,       \* history: sessions a server has closed
  timedOut      \* history: pairs of a thread and a session in which its call timed out

registry == << count, registered, locks, holder, poisoned, returned >>
wire     == << answer, pipe >>
server   == << held, alive, closed >>
vars == << registry, task, left, wire, server, timedOut >>

Operations == {"create", "reset", "call", "read", "close"}

(* Operations that take the session's lock whether or not it has an entry. *)
AllowMissing == {"close", "quarantine"}

(* What the manager tries at every owner, whatever the answers. *)
BestEffort == {"close", "quarantine", "cleanup", "reset_quarantine"}

RequestOf == [o \in Operations \cup BestEffort |->
                IF o \in {"create", "reset"} THEN "reset"
                ELSE IF o \in {"call", "read"} THEN o ELSE "close"]

(* op on session s; the next request goes to Owners[at]; own: the lock is  *)
(* the thread's own, because the session had no entry.                     *)
Task == [pc : {"lock", "send", "wait", "quarantine", "drop_lock"},
         op : Operations \cup BestEffort, s : Sessions, at : 1 .. Len(Owners), own : BOOLEAN]
NoTask == [pc |-> "idle"]

-----------------------------------------------------------------------------
(* Starting an operation. *)

Be(t, k)       == task' = [task EXCEPT ![t] = k]
Goto(t, where) == Be(t, [task[t] EXCEPT !.pc = where])
SendAll(t, o)  == Be(t, [task[t] EXCEPT !.pc = "send", !.op = o, !.at = 1])
Idle(t)        == Be(t, NoTask)
Release(t)     == holder' = [holder EXCEPT ![task[t].s] = IF @ = t THEN NoThread ELSE @]

Spend(t) == task[t] = NoTask /\ left[t] > 0 /\ left' = [left EXCEPT ![t] = @ - 1]

(* create_session: the id is new, so nobody contends for its lock. *)
StartCreate(t) ==
  LET s == count + 1 IN
  /\ s \in Sessions
  /\ Spend(t)
  /\ count' = s
  /\ registered' = registered \cup {s}
  /\ locks' = locks \cup {s}
  /\ holder' = [holder EXCEPT ![s] = t]
  /\ Be(t, [pc |-> "send", op |-> "create", s |-> s, at |-> 1, own |-> FALSE])
  /\ UNCHANGED << poisoned, returned, wire, server, timedOut >>

(* _operation_lock: the lock of the session, a lock of the thread's own, or *)
(* a KeyError.  A tool call goes to one owner, the rest to all in order.   *)
StartOn(t, o, s, i) ==
  /\ o \in Operations \ {"create"} /\ s \in returned
  /\ o # "call" => i = 1
  /\ Spend(t)
  /\ IF s \in locks \/ o \in AllowMissing
       THEN Be(t, [pc |-> "lock", op |-> o, s |-> s, at |-> i, own |-> s \notin locks])
       ELSE UNCHANGED task
  /\ UNCHANGED << registry, wire, server, timedOut >>

(* Mutant: the session's lock is not waited for. *)
AcquireUnlocked(t) ==
  LET s == task[t].s
      o == task[t].op
  IN
  /\ task[t].pc = "lock"
  /\ registered' = IF o \in AllowMissing THEN registered \ {s} ELSE registered
  /\ poisoned' = IF o = "quarantine" THEN poisoned \cup {s} ELSE poisoned
  /\ IF s \in registered
       THEN /\ holder' = IF task[t].own THEN holder ELSE [holder EXCEPT ![s] = t]
            /\ Goto(t, "send")
            /\ UNCHANGED locks
       ELSE /\ locks' = IF o = "close" THEN locks \ {s} ELSE locks
            /\ IF o = "quarantine" THEN Goto(t, "drop_lock") ELSE Idle(t)
            /\ UNCHANGED holder
  /\ UNCHANGED << count, returned, left, wire, server, timedOut >>

(* Mutant: reset looks its session up before it has the lock. *)
AcquireStale(t) ==
  LET s == task[t].s
      o == task[t].op
  IN
  /\ task[t].pc = "lock"
  /\ task[t].own \/ holder[s] = NoThread
  /\ registered' = IF o \in AllowMissing THEN registered \ {s} ELSE registered
  /\ poisoned' = IF o = "quarantine" THEN poisoned \cup {s} ELSE poisoned
  /\ IF s \in registered \/ o = "reset"
       THEN /\ holder' = IF task[t].own THEN holder ELSE [holder EXCEPT ![s] = t]
            /\ Goto(t, "send")
            /\ UNCHANGED locks
       ELSE /\ locks' = IF o = "close" THEN locks \ {s} ELSE locks
            /\ IF o = "quarantine" THEN Goto(t, "drop_lock") ELSE Idle(t)
            /\ UNCHANGED holder
  /\ UNCHANGED << count, returned, left, wire, server, timedOut >>

(* Acquire the lock and look the session up.  A close or a quarantine      *)
(* takes the session out of the registry before it sends anything.         *)
Acquire(t) ==
  LET s == task[t].s
      o == task[t].op
  IN
  /\ task[t].pc = "lock"
  /\ task[t].own \/ holder[s] = NoThread
  /\ registered' = IF o \in AllowMissing THEN registered \ {s} ELSE registered
  /\ poisoned' = IF o = "quarantine" THEN poisoned \cup {s} ELSE poisoned
  /\ IF s \in registered
       THEN /\ holder' = IF task[t].own THEN holder ELSE [holder EXCEPT ![s] = t]
            /\ Goto(t, "send")
            /\ UNCHANGED locks
       ELSE /\ locks' = IF o = "close" THEN locks \ {s} ELSE locks
            /\ IF o = "quarantine" THEN Goto(t, "drop_lock") ELSE Idle(t)
            /\ UNCHANGED holder
  /\ UNCHANGED << count, returned, left, wire, server, timedOut >>

(* The executor quarantines the session of a call that timed out. *)
StartQuarantine(t) ==
  /\ task[t].pc = "quarantine"
  /\ Be(t, [task[t] EXCEPT !.pc = "lock", !.op = "quarantine", !.at = 1,
                            !.own = task[t].s \notin locks])
  /\ UNCHANGED << registry, left, wire, server, timedOut >>

(* close and quarantine forget the lock after they released it. *)
DropLock(t) ==
  /\ task[t].pc = "drop_lock"
  /\ locks' = locks \ {task[t].s}
  /\ Idle(t)
  /\ UNCHANGED << count, registered, holder, poisoned, returned, left, wire, server, timedOut >>

-----------------------------------------------------------------------------
(* Requests. *)

(* The last request of the operation is over. *)
Complete(t) ==
  LET s == task[t].s
      o == task[t].op
  IN
  /\ IF o = "cleanup" THEN UNCHANGED holder ELSE Release(t)
  /\ returned' = IF o = "create" THEN returned \cup {s} ELSE returned
  /\ locks' = IF o = "reset_quarantine" THEN locks \ {s} ELSE locks
  /\ IF o \in AllowMissing THEN Goto(t, "drop_lock") ELSE Idle(t)
  /\ UNCHANGED << count, registered, poisoned >>

NextOwner(t) ==
  IF task[t].op # "call" /\ task[t].at < Len(Owners)
    THEN /\ Be(t, [task[t] EXCEPT !.pc = "send", !.at = @ + 1])
         /\ UNCHANGED registry
    ELSE Complete(t)

(* A reset left some owners reset and others not: quarantine, which        *)
(* re-enters the lock the reset still holds.                               *)
ResetFailed(t) ==
  LET s == task[t].s IN
  /\ registered' = registered \ {s}
  /\ poisoned' = poisoned \cup {s}
  /\ SendAll(t, "reset_quarantine")
  /\ UNCHANGED << count, returned, holder, locks >>

(* Mutant: nothing to close where no reset was acknowledged. *)
CreateFailedUnacknowledged(t) ==
  LET s == task[t].s IN
  /\ registered' = registered \ {s}
  /\ locks' = locks \ {s}
  /\ poisoned' = poisoned \cup {s}
  /\ Release(t)
  /\ IF task[t].at = 1 THEN Idle(t) ELSE SendAll(t, "cleanup")
  /\ UNCHANGED << count, returned >>

(* The session never existed for its caller; the request that failed may   *)
(* have reached its server all the same, so every owner is told to close.  *)
CreateFailed(t) ==
  LET s == task[t].s IN
  /\ registered' = registered \ {s}
  /\ locks' = locks \ {s}
  /\ poisoned' = poisoned \cup {s}
  /\ Release(t)
  /\ SendAll(t, "cleanup")
  /\ UNCHANGED << count, returned >>

(* Mutant: the executor does not quarantine. *)
FailUnquarantined(t, timeout) ==
  LET o == task[t].op IN
  \/ o = "create" /\ CreateFailed(t)
  \/ o = "reset" /\ ResetFailed(t)
  \/ /\ o \in {"call", "read"}
     /\ Release(t)
     /\ Idle(t)
     /\ UNCHANGED << count, registered, locks, poisoned, returned >>
  \/ o \in BestEffort /\ NextOwner(t)

(* A TransportError left request(): a timeout, or an error. *)
Fail(t, timeout) ==
  LET o == task[t].op IN
  \/ o = "create" /\ CreateFailed(t)
  \/ o = "reset" /\ ResetFailed(t)
  \/ /\ o \in {"call", "read"}
     /\ Release(t)
     /\ IF o = "call" /\ timeout THEN Goto(t, "quarantine") ELSE Idle(t)
     /\ UNCHANGED << count, registered, locks, poisoned, returned >>
  \/ o \in BestEffort /\ NextOwner(t)

Send(t) ==
  LET o == Owners[task[t].at] IN
  /\ task[t].pc = "send" /\ alive[o]
  /\ pipe' = [pipe EXCEPT ![o] =
                Append(@, [request |-> RequestOf[task[t].op], s |-> task[t].s, from |-> t])]
  /\ Goto(t, "wait")
  /\ UNCHANGED << registry, left, answer, server, timedOut >>

SendFails(t) ==
  /\ task[t].pc = "send" /\ ~ alive[Owners[task[t].at]]
  /\ Fail(t, FALSE)
  /\ UNCHANGED << left, wire, server, timedOut >>

Receive(t) ==
  /\ task[t].pc = "wait" /\ answer[t] # "none"
  /\ answer' = [answer EXCEPT ![t] = "none"]
  /\ IF answer[t] = "ok" THEN NextOwner(t) ELSE Fail(t, FALSE)
  /\ UNCHANGED << left, pipe, server, timedOut >>

(* q.get gave up: the queue of the request is gone, and a late answer with *)
(* it.  What is still in the pipe will be served.                          *)
Abandoned(t) ==
  [o \in Servers |->
     [i \in DOMAIN pipe[o] |->
        IF pipe[o][i].from = t THEN [pipe[o][i] EXCEPT !.from = NoThread] ELSE pipe[o][i]]]

TimeOut(t) ==
  /\ task[t].pc = "wait"
  /\ answer' = [answer EXCEPT ![t] = "none"]
  /\ pipe' = Abandoned(t)
  /\ timedOut' = IF task[t].op = "call" THEN timedOut \cup {<< t, task[t].s >>} ELSE timedOut
  /\ Fail(t, TRUE)
  /\ UNCHANGED << left, server >>

-----------------------------------------------------------------------------
(* Servers. *)

(* One request of the pipe: a reset needs room for a new session, reading  *)
(* the state of a session the server does not have is an error, a tool     *)
(* call of one is an answer like any other.                                *)
Serve(o) ==
  LET r == Head(pipe[o])
      full == r.s \notin held[o] /\ Cardinality(held[o]) >= Capacity
      ok == /\ r.request = "reset" => ~ full
            /\ r.request = "read" => r.s \in held[o]
  IN
  /\ alive[o] /\ pipe[o] # << >>
  /\ pipe' = [pipe EXCEPT ![o] = Tail(@)]
  /\ held' = [held EXCEPT ![o] =
                IF r.request = "reset" /\ ok THEN @ \cup {r.s}
                ELSE IF r.request = "close" THEN @ \ {r.s} ELSE @]
  /\ closed' = [closed EXCEPT ![o] = IF r.request = "close" THEN @ \cup {r.s} ELSE @]
  /\ answer' = IF r.from = NoThread THEN answer
               ELSE [answer EXCEPT ![r.from] = IF ok THEN "ok" ELSE "error"]
  /\ UNCHANGED << registry, task, left, alive, timedOut >>

(* A server process ends; nothing starts it again. *)
Die(o) ==
  /\ o \in Mortal /\ alive[o]
  /\ alive' = [alive EXCEPT ![o] = FALSE]
  /\ held' = [held EXCEPT ![o] = {}]
  /\ pipe' = [pipe EXCEPT ![o] = << >>]
  /\ UNCHANGED << registry, task, left, answer, closed, timedOut >>

-----------------------------------------------------------------------------
Init ==
  /\ count = 0 /\ registered = {} /\ locks = {} /\ poisoned = {} /\ returned = {}
  /\ holder = [s \in Sessions |-> NoThread]
  /\ task = [t \in Threads |-> NoTask]
  /\ left = [t \in Threads |-> MaxOps]
  /\ answer = [t \in Threads |-> "none"]
  /\ pipe = [o \in Servers |-> << >>]
  /\ held = [o \in Servers |-> {}]
  /\ alive = [o \in Servers |-> TRUE]
  /\ closed = [o \in Servers |-> {}]
  /\ timedOut = {}

Start(t) ==
  \/ StartCreate(t)
  \/ \E o \in Operations, s \in Sessions, i \in 1 .. Len(Owners) : StartOn(t, o, s, i)

(* What a thread does once it is in an operation. *)
Continue(t) ==
  \/ Acquire(t) \/ StartQuarantine(t) \/ DropLock(t)
  \/ Send(t) \/ SendFails(t) \/ Receive(t) \/ TimeOut(t)

Finished ==
  /\ \A t \in Threads : task[t] = NoTask
  /\ \A o \in Servers : alive[o] => pipe[o] = << >>
  /\ UNCHANGED vars

Next ==
  \/ \E t \in Threads : Start(t)
  \/ \E t \in Threads : Continue(t)
  \/ \E o \in Servers : Serve(o)
  \/ \E o \in Servers : Die(o)
  \/ Finished

(* A thread in an operation keeps running: every wait but the one for a    *)
(* lock has a timeout.  A server keeps reading its pipe until it dies.  No *)
(* thread need start an operation, and no server need die.                 *)
Spec ==
  /\ Init /\ [][Next]_vars
  /\ \A t \in Threads : WF_vars(Continue(t))
  /\ \A o \in Servers : WF_vars(Serve(o))

-----------------------------------------------------------------------------
Request == [request : {"reset", "call", "read", "close"}, s : Sessions,
            from : Threads \cup {NoThread}]

(* The registry, the threads and the servers are well typed. *)
TypeOK ==
  /\ count \in 0 .. MaxSessions
  /\ registered \subseteq Sessions /\ locks \subseteq Sessions /\ poisoned \subseteq Sessions
  /\ holder \in [Sessions -> Threads \cup {NoThread}]
  /\ returned \subseteq 1 .. count
  /\ task \in [Threads -> Task \cup {NoTask}]
  /\ answer \in [Threads -> {"none", "ok", "error"}]
  /\ left \in [Threads -> 0 .. MaxOps]
  /\ pipe \in [Servers -> Seq(Request)]
  /\ held \in [Servers -> SUBSET Sessions]
  /\ alive \in [Servers -> BOOLEAN]
  /\ closed \in [Servers -> SUBSET Sessions]
  /\ timedOut \subseteq Threads \X Sessions

InIO(t) == task[t].pc \in {"send", "wait"}

(* Two threads are never both between the first and the last request of an *)
(* operation on the same session, though the lock's entry may be dropped   *)
(* and replaced by locks of the threads' own meanwhile.                    *)
OneOperationAtATime ==
  \A t, u \in Threads : t # u /\ InIO(t) /\ InIO(u) => task[t].s # task[u].s

(* A server that closed a session never holds it again: no request that    *)
(* would open it is served after the close, not even one that timed out.   *)
NeverRevived == \A o \in Servers : held[o] \cap closed[o] = {}

(* A tool call is sent: the first and only request of its operation. *)
CallSent(t) == task[t].pc # "send" /\ task'[t].pc = "send" /\ task'[t].op = "call"

(* A thread whose call timed out, so that it cannot know what the server   *)
(* made of it, sends no other call in that session.                        *)
CallerStopsAfterTimeout == [][\A t \in Threads : CallSent(t) => << t, task[t].s >> \notin timedOut]_vars

(* A session the manager no longer has, or never finished creating, does   *)
(* not stay on any server: its place is given back.                        *)
PlacesReturned ==
  \A s \in Sessions :
    (s <= count /\ s \notin registered) ~> (\A o \in Servers : s \notin held[o])

=============================================================================
