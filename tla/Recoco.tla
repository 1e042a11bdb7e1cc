------------------------------- MODULE Recoco -------------------------------
(***************************************************************************)
(* The cooperative scheduler the controller runs on                        *)
(* (lab5/pox/pox/lib/recoco/recoco.py: Scheduler, SelectHub, ScheduleTask, *)
(* CallLaterTask, Timer).                                                  *)
(*                                                                         *)
(* The scheduler's thread runs tasks from the deque _ready; a task that    *)
(* waits for a file descriptor or for time is put on the hub's queue       *)
(* _incoming, and the hub's own thread, woken through a pipe (the pinger), *)
(* selects for it and puts it back on _ready.  An event wakes an idle      *)
(* scheduler.  Other threads hand functions to the scheduler with          *)
(* callLater; core.quit does so with Scheduler.quit.                       *)
(*                                                                         *)
(* The tasks are the workers, which select for descriptors with a timeout  *)
(* (OpenFlow_01_Task; a recurring Timer is one whose descriptors are never *)
(* readable), and                                                          *)
(*   "later"  CallLaterTask, made by the first callLater                   *)
(*   "start"  the ScheduleTask that puts "later" on _ready                 *)
(* Every statement that touches what threads share is a step.              *)
(***************************************************************************)
EXTENDS Integers, Sequences, SequencesExt, FiniteSets

CONSTANTS
    Workers,    \* the tasks that select with a timeout
    Callers,    \* threads that call callLater
    MaxCalls    \* bound: calls of callLater

ASSUME RecocoAssumption ==
    /\ IsFiniteSet(Workers) /\ MaxCalls \in Nat
    /\ {"later", "start", "none"} \cap Workers = {}

Tasks == Workers \cup {"later", "start"}
NoTask == "none"
QuitCall == 0   \* the function that core.quit hands over

VARIABLES
    (* Scheduler *)
    ready, hasQuit,
    sched,          \* where its thread is
    running,        \* the task it executes
    event,          \* SelectHub._event
    (* SelectHub *)
    incoming,       \* _incoming: tasks that wait for something
    ping,           \* something is in the hub's pipe
    waiting,        \* _tasks
    hub,            \* where its thread is
    watched,        \* the tasks the call of select is about
    hand,           \* the tasks it is about to return
    (* The world *)
    readable,      \* tasks whose descriptor is readable ("later": its pinger)
    due,           \* tasks whose time has come
    (* CallLaterTask *)
    made,           \* _callLaterTask is not None
    first,          \* its first run is still to come
    calls,          \* _calls
    caller,         \* where the threads that call callLater are
    (* History *)
    called, executed

schedVars == <<ready, hasQuit, sched, running>>
hubVars == <<incoming, ping, waiting, hub, watched, hand>>
laterVars == <<made, first, calls, caller, called, executed>>
vars == <<schedVars, event, hubVars, readable, due, laterVars>>

Init ==
    /\ ready \in SetToSeqs(Workers)
    /\ hasQuit = FALSE /\ sched = "check" /\ running = NoTask
    /\ event = FALSE
    /\ incoming = <<>> /\ ping = FALSE /\ waiting = {}
    /\ hub = "return" /\ watched = {} /\ hand = {}
    /\ readable = {} /\ due = {}
    /\ made = FALSE /\ first = TRUE /\ calls = <<>>
    /\ caller = [x \in Callers |-> "idle"]
    /\ called = <<>> /\ executed = <<>>

-----------------------------------------------------------------------------
(* The scheduler's thread                                                  *)

(* Mutant: the end is noticed only after idling.                           *)
CheckReadyOnly ==
    /\ sched = "check" /\ ready = <<>>
    /\ sched' = "wait"
    /\ UNCHANGED <<ready, hasQuit, running, event, hubVars, readable, due,
                   laterVars>>

(* while self._hasQuit == False: if len(self._ready) == 0: idle.  Nobody   *)
(* else takes tasks, so a task that is seen here is there for cycle().     *)
Check ==
    /\ sched = "check"
    /\ hasQuit \/ ready = <<>>
    /\ sched' = IF hasQuit THEN "end" ELSE "wait"
    /\ UNCHANGED <<ready, hasQuit, running, event, hubVars, readable, due,
                   laterVars>>

(* idle(): wait for the event, for CYCLE_MAXIMUM at most ...               *)
Wait ==
    /\ sched = "wait" /\ event
    /\ sched' = "clear"
    /\ UNCHANGED <<ready, hasQuit, running, event, hubVars, readable, due,
                   laterVars>>

WaitTimesOut ==
    /\ sched = "wait"
    /\ sched' = "clear"
    /\ UNCHANGED <<ready, hasQuit, running, event, hubVars, readable, due,
                   laterVars>>

(* ... and clear it.                                                       *)
Clear ==
    /\ sched = "clear"
    /\ event' = FALSE
    /\ sched' = IF hasQuit THEN "end" ELSE "pop"
    /\ UNCHANGED <<ready, hasQuit, running, hubVars, readable, due, laterVars>>

(* cycle(): take the next task, if there is one.                           *)
Pop ==
    /\ \/ sched = "pop"
       \/ sched = "check" /\ ~ hasQuit /\ ready # <<>>
    /\ IF ready = <<>>
       THEN sched' = "check" /\ UNCHANGED <<ready, running>>
       ELSE /\ running' = Head(ready) /\ ready' = Tail(ready)
            /\ sched' = "execute"
    /\ UNCHANGED <<hasQuit, event, hubVars, readable, due, laterVars>>

(* registerSelect puts the task on the hub's queue; its ping is next.      *)
register(t) ==
    /\ incoming' = Append(incoming, t)
    /\ running' = NoTask
    /\ sched' = "ping"

(* A task that selects or sleeps does its work and yields.                 *)
ExecuteSelect ==
    /\ sched = "execute" /\ running \in Workers
    /\ readable' = readable \ {running}
    /\ due' = due \ {running}
    /\ register(running)
    /\ UNCHANGED <<ready, hasQuit, event, ping, waiting, hub, watched, hand,
                   laterVars>>

(* ScheduleTask: the task is put in front unless it is there already.      *)
ExecuteSchedule ==
    /\ sched = "execute" /\ running = "start"
    /\ ready' = IF "later" \in Range(ready) THEN ready ELSE <<"later">> \o ready
    /\ running' = NoTask /\ sched' = "set"
    /\ UNCHANGED <<hasQuit, event, hubVars, readable, due, laterVars>>

(* CallLaterTask: the pinger is emptied, ...                               *)
ExecuteLater ==
    /\ sched = "execute" /\ running = "later"
    /\ IF first
       THEN register("later") /\ first' = FALSE /\ UNCHANGED readable
       ELSE /\ readable' = readable \ {"later"}
            /\ sched' = "calls"
            /\ UNCHANGED <<first, incoming, running>>
    /\ UNCHANGED <<ready, hasQuit, event, ping, waiting, hub, watched, hand,
                   due, made, calls, caller, called, executed>>

(* Mutant: one function for each wake-up.                                  *)
CallOneOnly ==
    /\ sched = "calls" /\ calls # <<>>
    /\ executed' = Append(executed, Head(calls))
    /\ calls' = Tail(calls)
    /\ hasQuit' = (hasQuit \/ Head(calls) = QuitCall)
    /\ register("later")
    /\ UNCHANGED <<ready, event, ping, waiting, hub, watched, hand, readable,
                   due, made, first, caller, called>>

(* ... and the functions are called until none is left.                    *)
CallOne ==
    /\ sched = "calls" /\ calls # <<>>
    /\ executed' = Append(executed, Head(calls))
    /\ calls' = Tail(calls)
    /\ hasQuit' = (hasQuit \/ Head(calls) = QuitCall)
    /\ UNCHANGED <<ready, sched, running, event, hubVars, readable, due, made,
                   first, caller, called>>

CallsDone ==
    /\ sched = "calls" /\ calls = <<>>
    /\ register("later")
    /\ UNCHANGED <<ready, hasQuit, event, ping, waiting, hub, watched, hand,
                   readable, due, laterVars>>

(* The second statement of registerSelect and of fast_schedule             *)
Ping ==
    /\ sched = "ping"
    /\ ping' = TRUE
    /\ sched' = "check"
    /\ UNCHANGED <<ready, hasQuit, running, event, incoming, waiting, hub,
                   watched, hand, readable, due, laterVars>>

Set ==
    /\ sched = "set"
    /\ event' = TRUE
    /\ sched' = "check"
    /\ UNCHANGED <<ready, hasQuit, running, hubVars, readable, due, laterVars>>

(* finally: the hub is woken, so that it sees _hasQuit.                    *)
End ==
    /\ sched = "end"
    /\ ping' = TRUE
    /\ sched' = "done"
    /\ UNCHANGED <<ready, hasQuit, running, event, incoming, waiting, hub,
                   watched, hand, readable, due, laterVars>>

-----------------------------------------------------------------------------
(* The hub's thread                                                        *)

(* while not _hasQuit: the expired tasks are sorted out first.             *)
Build ==
    /\ hub = "return" /\ hand = {}
    /\ IF hasQuit
       THEN hub' = "done" /\ UNCHANGED <<watched, hand>>
       ELSE /\ hand' = waiting \cap due
            /\ watched' = waiting \ due
            /\ hub' = "expired"
    /\ UNCHANGED <<schedVars, event, incoming, ping, waiting, readable, due,
                   laterVars>>

(* select returns: the pipe or descriptors are readable.                   *)
SelectReady ==
    /\ hub = "expired" /\ hand = {}
    /\ ping \/ watched \cap readable # {}
    /\ hand' = watched \cap readable
    /\ hub' = IF ping THEN "pong" ELSE "return"
    /\ UNCHANGED <<schedVars, event, incoming, ping, waiting, watched,
                   readable, due, laterVars>>

(* select returns after the time of some task.                             *)
SelectTimeout ==
    /\ hub = "expired" /\ hand = {}
    /\ ~ ping /\ watched \cap readable = {}
    /\ \E t \in watched \cap due : hand' = {t}
    /\ hub' = "return"
    /\ UNCHANGED <<schedVars, event, incoming, ping, waiting, watched,
                   readable, due, laterVars>>

(* pongAll, before the queue is looked at                                  *)
PongAll ==
    /\ hub = "pong"
    /\ ping' = FALSE
    /\ hub' = "drain"
    /\ UNCHANGED <<schedVars, event, incoming, waiting, watched, hand,
                   readable, due, laterVars>>

(* Mutant: if instead of while.                                            *)
DrainOnlyOne ==
    /\ hub = "drain" /\ incoming # <<>>
    /\ waiting' = waiting \cup {Head(incoming)}
    /\ incoming' = Tail(incoming)
    /\ hub' = "return"
    /\ UNCHANGED <<schedVars, event, ping, watched, hand, readable, due,
                   laterVars>>

(* assert task not in tasks                                                *)
DrainOne ==
    /\ hub = "drain" /\ incoming # <<>>
    /\ waiting' = waiting \cup {Head(incoming)}
    /\ incoming' = Tail(incoming)
    /\ UNCHANGED <<schedVars, event, ping, hub, watched, hand, readable, due,
                   laterVars>>

Drained ==
    /\ hub = "drain" /\ incoming = <<>>
    /\ hub' = "return"
    /\ UNCHANGED <<schedVars, event, incoming, ping, waiting, watched, hand,
                   readable, due, laterVars>>

(* Mutant: no del tasks[t].                                                *)
ReturnKeepsWaiting(t) ==
    /\ hub \in {"expired", "return"} /\ t \in hand
    /\ hand' = hand \ {t}
    /\ ready' = Append(ready, t)
    /\ hub' = IF hub = "expired" THEN "setExpired" ELSE "set"
    /\ UNCHANGED <<hasQuit, sched, running, event, incoming, ping, waiting,
                   watched, readable, due, laterVars>>

(* Mutant: no rets.clear().                                                *)
ReturnKeepsRets(t) ==
    /\ hub \in {"expired", "return"} /\ t \in hand
    /\ waiting' = waiting \ {t}
    /\ ready' = Append(ready, t)
    /\ hub' = IF hub = "expired" THEN "setExpired" ELSE "set"
    /\ UNCHANGED <<hasQuit, sched, running, event, incoming, ping, watched,
                   hand, readable, due, laterVars>>

(* del tasks[t]; self._return(t): the task is put on _ready ...            *)
ReturnTask(t) ==
    /\ hub \in {"expired", "return"} /\ t \in hand
    /\ waiting' = waiting \ {t}
    /\ hand' = hand \ {t}
    /\ ready' = Append(ready, t)
    /\ hub' = IF hub = "expired" THEN "setExpired" ELSE "set"
    /\ UNCHANGED <<hasQuit, sched, running, event, incoming, ping, watched,
                   readable, due, laterVars>>

(* ... and the event is set (break_idle).                                  *)
BreakIdle ==
    /\ hub \in {"setExpired", "set"}
    /\ event' = TRUE
    /\ hub' = IF hub = "set" THEN "return" ELSE "expired"
    /\ UNCHANGED <<schedVars, incoming, ping, waiting, watched, hand,
                   readable, due, laterVars>>

-----------------------------------------------------------------------------
(* Other threads, and the world                                            *)

(* Scheduler.callLater.  Under the lock the task is made and started.      *)
callLater(x) ==
    /\ caller[x] = "idle" /\ \A y \in Callers : caller[y] # "set"
    /\ Len(called) + Cardinality({y \in Callers : caller[y] \in {"set", "append"}}) < MaxCalls
    /\ IF made THEN /\ caller' = [caller EXCEPT ![x] = "append"]
                    /\ UNCHANGED <<made, ready>>
       ELSE /\ made' = TRUE
            /\ ready' = Append(ready, "start")
            /\ caller' = [caller EXCEPT ![x] = "set"]
    /\ UNCHANGED <<hasQuit, sched, running, event, hubVars, readable, due,
                   first, calls, called, executed>>

StartSets(x) ==
    /\ caller[x] = "set"
    /\ event' = TRUE
    /\ caller' = [caller EXCEPT ![x] = "append"]
    /\ UNCHANGED <<schedVars, hubVars, readable, due, made, first,
                   calls, called, executed>>

(* CallLaterTask.callLater: append (core._quit does it once), then ping    *)
AppendCall(x) ==
    /\ caller[x] = "append"
    /\ \E c \in {Len(called) + 1} \cup ({QuitCall} \ Range(called)) :
         /\ called' = Append(called, c)
         /\ calls' = Append(calls, c)
    /\ caller' = [caller EXCEPT ![x] = "ping"]
    /\ UNCHANGED <<schedVars, event, hubVars, readable, due, made,
                   first, executed>>

PingLater(x) ==
    /\ caller[x] = "ping"
    /\ readable' = readable \cup {"later"}
    /\ caller' = [caller EXCEPT ![x] = "idle"]
    /\ UNCHANGED <<schedVars, event, hubVars, due, made, first,
                   calls, called, executed>>

(* Bytes arrive for a task;              time passes.                      *)
Arrive(t) ==
    /\ t \notin readable
    /\ readable' = readable \cup {t}
    /\ UNCHANGED <<schedVars, event, hubVars, due, laterVars>>

Elapse(t) ==
    /\ t \in waiting \ due
    /\ due' = due \cup {t}
    /\ UNCHANGED <<schedVars, event, hubVars, readable, laterVars>>

-----------------------------------------------------------------------------
SchedulerStep ==
    \/ Check \/ Wait \/ Clear \/ Pop \/ Ping \/ Set \/ End
    \/ ExecuteSelect \/ ExecuteSchedule \/ ExecuteLater
    \/ CallOne \/ CallsDone

HubStep ==
    \/ Build \/ SelectReady \/ SelectTimeout \/ PongAll \/ DrainOne \/ Drained
    \/ (\E t \in Tasks : ReturnTask(t)) \/ BreakIdle

CallerStep(x) == StartSets(x) \/ AppendCall(x) \/ PingLater(x)

Next ==
    \/ SchedulerStep
    \/ WaitTimesOut
    \/ HubStep
    \/ \E x \in Callers : callLater(x) \/ CallerStep(x)
    \/ \E t \in Workers : Arrive(t) \/ Elapse(t)

Spec == Init /\ [][Next]_vars

(* The threads run, and time passes for who waits.  Nothing relies on the  *)
(* timeout of an idle scheduler.                                           *)
Fairness ==
    /\ WF_vars(SchedulerStep)
    /\ WF_vars(HubStep)
    /\ \A x \in Callers : WF_vars(CallerStep(x))
    /\ \A t \in Workers : WF_vars(Elapse(t))

FairSpec == Spec /\ Fairness

-----------------------------------------------------------------------------
(* Properties                                                              *)

TypeOK ==
    /\ ready \in Seq(Tasks) /\ incoming \in Seq(Tasks)
    /\ {hasQuit, event, ping, made, first} \subseteq BOOLEAN
    /\ sched \in {"check", "wait", "clear", "pop", "execute", "calls", "ping",
                  "set", "end", "done"}
    /\ running \in Tasks \cup {NoTask}
    /\ hub \in {"expired", "pong", "drain", "return", "setExpired",
                "set", "done"}
    /\ waiting \subseteq Workers \cup {"later"} /\ hand \subseteq waiting
    /\ watched \subseteq Workers \cup {"later"}
    /\ readable \subseteq Workers \cup {"later"} /\ due \subseteq Workers
    /\ caller \in [Callers -> {"idle", "set", "append", "ping"}]

Occurrences(t, q) == Cardinality({k \in 1 .. Len(q) : q[k] = t})

(* In how many places a task is                                            *)
Places(t) ==
    Occurrences(t, ready) + Occurrences(t, incoming)
    + Cardinality({s \in {"running"} : running = t})
    + Cardinality({t} \cap waiting)
    + Cardinality({s \in {"started"} : t = "later" /\ Occurrences("start", ready) > 0})
    + Cardinality({s \in {"starting"} : t = "later" /\ running = "start"})

(* No task is ever scheduled twice or lost between the threads (the        *)
(* assertions in fast_schedule and in _select hold): a task that has been  *)
(* started is in exactly one place.                                        *)
OnePlace ==
    \A t \in Tasks \ {"start"} : Places(t) = IF t = "later" /\ ~ made THEN 0 ELSE 1

(* The functions given to callLater are executed once each, in order, and  *)
(* all of them in the end, without help from any timeout.                  *)
CallsExecuted ==
    /\ [](IsPrefix(executed, called))
    /\ \A n \in 1 .. MaxCalls : Len(called) >= n ~> (Len(executed) >= n \/ hasQuit)

(* No wake-up is lost: a task that may run runs, whatever happens between  *)
(* an append and the event or ping that goes with it.                      *)
Wakes ==
    \A t \in Tasks :
      (t \in Range(ready) \/ t \in readable \/ t \in due)
        ~> (running = t \/ hasQuit)

(* After quit both threads end.                                            *)
Quits == hasQuit ~> (sched = "done" /\ hub = "done")
=============================================================================
