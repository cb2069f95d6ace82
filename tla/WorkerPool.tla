----------------------------- MODULE WorkerPool -----------------------------
(***************************************************************************)
(* The pool of worker threads that plays tournament simulations:             *)
(* src/src/workers/worker-pool.ts, with the threads of                        *)
(* src/src/workers/pool-tournament-worker.ts.                                 *)
(*                                                                         *)
(* The handlers of the pool run in one thread and do not await, so each is    *)
(* one action. They are bound to a slot, not to a thread: what a replaced     *)
(* thread still sends acts on the slot's new one.                             *)
(***************************************************************************)
EXTENDS Naturals, Sequences, FiniteSets

CONSTANTS Tasks,        \* the simulations the service dispatches
          Size,         \* slots of the pool
          MaxIncidents, \* bound on crashes of threads and heartbeat timeouts
          NoTask        \* currentTaskId = null

ASSUME WorkerPoolAssumption ==
  Size \in Nat /\ MaxIncidents \in Nat /\ NoTask \notin Tasks

Slots == 1 .. Size

\* An incident replaces a thread twice at most.
Workers == 1 .. (Size + 2 * MaxIncidents)

VARIABLES
  slot,            \* the fields of each WorkerSlot
  queue,           \* tasks waiting for an idle slot
  task,            \* the promise of each task; "inflight" is in inflightTasks
  isShuttingDown,
  thread,          \* each Worker thread
  home,            \* the slot the handlers of a thread are bound to
  doing,           \* the "run" messages a thread has still to answer
  outbox,          \* events of a thread that the pool has not handled
  spawned,         \* threads made so far
  incidents

poolVars   == <<slot, queue, task, isShuttingDown>>
threadVars == <<thread, home, doing, outbox, spawned, incidents>>
vars == <<poolVars, threadVars>>

TaskStates == {"new", "queued", "inflight", "resolved", "rejected"}
Statuses   == {"starting", "idle", "busy"}

Ready         == [type |-> "ready", task |-> NoTask]
Answer(ok, t) == [type |-> IF ok THEN "result" ELSE "error", task |-> t]
Crashed       == [type |-> "crash", task |-> NoTask]    \* the 'error' event
Exited        == [type |-> "exit", task |-> NoTask]

Fresh(w) == [worker |-> w, status |-> "starting", task |-> NoTask]

Alive(w) == thread[w] \in {"booting", "running"}

Init ==
  /\ slot = [s \in Slots |-> Fresh(s)]
  /\ queue = <<>>
  /\ task = [t \in Tasks |-> "new"]
  /\ isShuttingDown = FALSE
  /\ thread = [w \in Workers |-> IF w \in Slots THEN "booting" ELSE "unborn"]
  /\ home = [w \in Workers |-> IF w \in Slots THEN w ELSE 0]
  /\ doing = [w \in Workers |-> <<>>]
  /\ outbox = [w \in Workers |-> <<>>]
  /\ spawned = Size /\ incidents = 0

-----------------------------------------------------------------------------
(* Dispatch *)

\* assignTask: a "run" message to a thread that is dead is lost.
Assign(s, t) ==
  /\ slot' = [slot EXCEPT ![s].status = "busy", ![s].task = t]
  /\ doing' = [w \in Workers |-> IF w = slot[s].worker /\ Alive(w)
                                 THEN Append(doing[w], t) ELSE doing[w]]

IdleSlots == {s \in Slots : slot[s].status = "idle"}

Dispatch(t) ==
  /\ task[t] = "new"
  /\ \/ /\ isShuttingDown
        /\ task' = [task EXCEPT ![t] = "rejected"]
        /\ UNCHANGED <<slot, queue, doing>>
     \/ /\ ~isShuttingDown /\ IdleSlots # {}
        /\ \E s \in IdleSlots : (\A u \in IdleSlots : s <= u) /\ Assign(s, t)
        /\ task' = [task EXCEPT ![t] = "inflight"]
        /\ UNCHANGED queue
     \/ /\ ~isShuttingDown /\ IdleSlots = {}
        /\ queue' = Append(queue, t)
        /\ task' = [task EXCEPT ![t] = "queued"]
        /\ UNCHANGED <<slot, doing>>
  /\ UNCHANGED <<isShuttingDown, thread, home, outbox, spawned, incidents>>

\* freeSlot and tryDispatchFromQueue: slot s takes the next task, or is idle with
\* currentTaskId = current; settled is what has become of the tasks before.
NextTask_Idles(s, current, settled) ==   \* mutant: tryDispatchFromQueue forgotten
  /\ slot' = [slot EXCEPT ![s].status = "idle", ![s].task = current]
  /\ task' = settled
  /\ UNCHANGED <<queue, doing>>
NextTask(s, current, settled) ==
  \/ /\ queue = <<>>
     /\ slot' = [slot EXCEPT ![s].status = "idle", ![s].task = current]
     /\ task' = settled
     /\ UNCHANGED <<queue, doing>>
  \/ /\ queue # <<>>
     /\ Assign(s, Head(queue))
     /\ queue' = Tail(queue)
     /\ task' = [settled EXCEPT ![Head(queue)] = "inflight"]

-----------------------------------------------------------------------------
(* What the pool hears of thread w *)

Takes(w, type) ==
  /\ outbox[w] # <<>> /\ Head(outbox[w]).type = type
  /\ outbox' = [outbox EXCEPT ![w] = Tail(@)]

ReadyReceived(w) ==
  /\ Takes(w, "ready")
  /\ NextTask(home[w], slot[home[w]].task, task)
  /\ UNCHANGED <<isShuttingDown, thread, home, spawned, incidents>>

\* Only a task that is in flight is settled; the slot is freed in any case.
Settled(t, outcome) ==
  IF t # NoTask /\ task[t] = "inflight" THEN [task EXCEPT ![t] = outcome] ELSE task

AnswerReceived(w) ==
  /\ \/ Takes(w, "result") /\ NextTask(home[w], NoTask, Settled(Head(outbox[w]).task, "resolved"))
     \/ Takes(w, "error") /\ NextTask(home[w], NoTask, Settled(Head(outbox[w]).task, "rejected"))
  /\ UNCHANGED <<isShuttingDown, thread, home, spawned, incidents>>

\* handleWorkerCrash and replaceWorkerInSlot; the threads of killed are terminated.
CrashSettles_Nothing(s) == task   \* mutant: the task in flight is forgotten
CrashSettles(s) == Settled(slot[s].task, "rejected")

Replace(s, killed) ==
  /\ task' = CrashSettles(s)
  /\ spawned' = spawned + 1
  /\ slot' = [slot EXCEPT ![s] = Fresh(spawned')]
  /\ thread' = [w \in Workers |-> IF w = spawned' THEN "booting"
                                  ELSE IF w \in killed THEN "dead" ELSE thread[w]]
  /\ home' = [home EXCEPT ![spawned'] = s]
  /\ UNCHANGED <<queue, isShuttingDown>>

CrashReceived(w) ==
  /\ Takes(w, "crash") \/ Takes(w, "exit")
  /\ IF isShuttingDown
     THEN UNCHANGED <<poolVars, thread, home, spawned>>
     ELSE Replace(home[w], {})
  /\ UNCHANGED <<doing, incidents>>

\* worker.terminate(): the threads of killed end, and the pool will hear of it.
Terminate(killed) ==
  /\ doing' = [w \in Workers |-> IF w \in killed THEN <<>> ELSE doing[w]]
  /\ outbox' = [w \in Workers |-> IF w \in killed THEN Append(outbox[w], Exited) ELSE outbox[w]]

\* checkHeartbeats: the thread of a busy slot was silent for too long.
HeartbeatTimeout(s) ==
  LET killed == {w \in Workers : w = slot[s].worker /\ Alive(w)}
  IN  /\ ~isShuttingDown /\ slot[s].status = "busy"
      /\ incidents < MaxIncidents /\ incidents' = incidents + 1
      /\ Terminate(killed) /\ Replace(s, killed)

Abandoned_QueuedOnly == {t \in Tasks : task[t] = "queued"}   \* mutant
Abandoned == {t \in Tasks : task[t] \in {"queued", "inflight"}}

Shutdown ==
  LET killed == {w \in Workers : Alive(w) /\ \E s \in Slots : slot[s].worker = w}
  IN  /\ ~isShuttingDown /\ isShuttingDown' = TRUE
      /\ queue' = <<>>
      /\ task' = [t \in Tasks |-> IF t \in Abandoned THEN "rejected" ELSE task[t]]
      /\ Terminate(killed)
      /\ thread' = [w \in Workers |-> IF w \in killed THEN "dead" ELSE thread[w]]
      /\ UNCHANGED <<slot, home, spawned, incidents>>

-----------------------------------------------------------------------------
(* The threads *)

Boot(w) ==
  /\ thread[w] = "booting"
  /\ thread' = [thread EXCEPT ![w] = "running"]
  /\ outbox' = [outbox EXCEPT ![w] = Append(@, Ready)]
  /\ UNCHANGED <<poolVars, home, doing, spawned, incidents>>

\* The "run" messages are answered one after the other, by result or by error.
Finish(w) ==
  /\ thread[w] = "running" /\ doing[w] # <<>>
  /\ \E ok \in BOOLEAN :
       outbox' = [outbox EXCEPT ![w] = Append(@, Answer(ok, Head(doing[w])))]
  /\ doing' = [doing EXCEPT ![w] = Tail(@)]
  /\ UNCHANGED <<poolVars, thread, home, spawned, incidents>>

\* An uncaught exception is an 'error' event and then an 'exit' event; process.exit
\* with a code other than zero is the latter alone.
Crash(w) ==
  /\ Alive(w) /\ incidents < MaxIncidents
  /\ incidents' = incidents + 1
  /\ thread' = [thread EXCEPT ![w] = "dead"]
  /\ doing' = [doing EXCEPT ![w] = <<>>]
  /\ \E events \in {<<Crashed, Exited>>, <<Exited>>} :
       outbox' = [outbox EXCEPT ![w] = @ \o events]
  /\ UNCHANGED <<poolVars, home, spawned>>

-----------------------------------------------------------------------------
Receive(w) == ReadyReceived(w) \/ AnswerReceived(w) \/ CrashReceived(w)

Next == \/ \E t \in Tasks : Dispatch(t)
        \/ \E s \in Slots : HeartbeatTimeout(s)
        \/ \E w \in Workers : Boot(w) \/ Finish(w) \/ Crash(w) \/ Receive(w)
        \/ Shutdown

\* Threads get to run, a simulation ends, and the pool's event loop is served.
Fairness == \A w \in Workers : WF_vars(Boot(w)) /\ WF_vars(Finish(w)) /\ WF_vars(Receive(w))

Spec     == Init /\ [][Next]_vars
FairSpec == Spec /\ Fairness
-----------------------------------------------------------------------------
(* Properties *)

\* The types of the variables; a busy slot has a task, and the queue holds just
\* the tasks that are queued, once each.
TypeOK ==
  /\ slot \in [Slots -> [worker : Workers, status : Statuses, task : Tasks \union {NoTask}]]
  /\ queue \in Seq(Tasks) /\ task \in [Tasks -> TaskStates]
  /\ isShuttingDown \in BOOLEAN
  /\ thread \in [Workers -> {"unborn", "booting", "running", "dead"}]
  /\ home \in [Workers -> Slots \union {0}]
  /\ doing \in [Workers -> Seq(Tasks)]
  /\ \A s \in Slots : slot[s].status = "busy" => slot[s].task # NoTask
  /\ \A t \in Tasks : (task[t] = "queued") = (\E i \in DOMAIN queue : queue[i] = t)
  /\ \A i, j \in DOMAIN queue : queue[i] = queue[j] => i = j

\* No task waits in the queue while a slot is idle, whatever threads crash and
\* whatever replaced threads still send.
NobodyIdles == queue # <<>> => IdleSlots = {}

\* After shutdown no promise is left open: queued and in-flight tasks, and those
\* dispatched later, are rejected or had been answered.
Open(t) == task[t] \in {"queued", "inflight"}
ShutdownSettlesAll == isShuttingDown => \A t \in Tasks : ~Open(t)

\* The pool hears only of threads that it has in a slot.
NoStrays ==
  \A w \in 1 .. spawned :
    slot[home[w]].worker = w \/ (~Alive(w) /\ outbox[w] = <<>>)

\* worker-pool.ts: in-flight tasks are kept "to resolve/reject on result or crash".
\* As long as there are no strays every task that is dispatched is settled.
TasksSettle ==
  []NoStrays => \A t \in Tasks : Open(t) ~> ~Open(t)
=============================================================================
