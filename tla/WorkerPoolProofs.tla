-------------------------- MODULE WorkerPoolProofs --------------------------
(***************************************************************************)
(* For any pool, any tasks and any number of crashes: no task is queued      *)
(* while a slot is idle, and shutdown leaves no promise open. Neither needs   *)
(* anything of the threads: their events only come in through NextTask,      *)
(* Settled and Replace, so the invariant is about the pool's own fields. It   *)
(* adds that the queue is empty after shutdown, which NextTask relies on.     *)
(***************************************************************************)
EXTENDS WorkerPool, TLAPS

SlotRecord == [worker : Nat, status : Statuses, task : Tasks \union {NoTask}]

PoolType ==
  /\ slot \in [Slots -> SlotRecord]
  /\ queue \in Seq(Tasks) /\ task \in [Tasks -> TaskStates]
  /\ isShuttingDown \in BOOLEAN /\ spawned \in Nat

Drained == isShuttingDown => queue = <<>>

Inv == PoolType /\ Drained /\ NobodyIdles /\ ShutdownSettlesAll

\* Only tasks in flight are settled, and never to an open state.
LEMMA SettledClosesOnly ==
  ASSUME PoolType, NEW t, NEW outcome \in {"resolved", "rejected"}
  PROVE  /\ Settled(t, outcome) \in [Tasks -> TaskStates]
         /\ \A u \in Tasks : Settled(t, outcome)[u] \in {"queued", "inflight"} => Open(u)
BY DEF PoolType, Settled, TaskStates, Open

\* assignTask leaves no other slot idle than before.
LEMMA AssignType ==
  ASSUME PoolType, NEW s, NEW t \in Tasks, Assign(s, t)
  PROVE  /\ slot' \in [Slots -> SlotRecord]
         /\ IdleSlots' \subseteq IdleSlots
<1>1. ASSUME NEW u \in Slots
      PROVE  /\ slot'[u] \in SlotRecord
             /\ slot'[u].status = "idle" => slot[u].status = "idle"
  <2>1. CASE u = s
    BY <2>1 DEF PoolType, Assign, SlotRecord, Statuses
  <2>2. CASE u # s
    BY <2>2 DEF PoolType, Assign
  <2> QED
    BY <2>1, <2>2
<1>2. slot' \in [Slots -> SlotRecord]
  BY <1>1 DEF PoolType, Assign
<1> QED
  BY <1>1, <1>2 DEF IdleSlots

\* freeSlot: the queue is served before a slot is idle.
LEMMA NextTaskInv ==
  ASSUME Inv, NEW s, NEW current, s \in Slots => current \in Tasks \union {NoTask},
         NEW settled \in [Tasks -> TaskStates],
         \A u \in Tasks : settled[u] \in {"queued", "inflight"} => Open(u),
         NextTask(s, current, settled),
         UNCHANGED <<isShuttingDown, spawned>>
  PROVE  Inv'
<1> USE DEF Inv
<1>1. CASE queue = <<>>
  <2>1. /\ slot' = [slot EXCEPT ![s].status = "idle", ![s].task = current]
        /\ task' = settled /\ queue' = <<>>
    BY <1>1 DEF NextTask
  <2>2. ASSUME NEW u \in Slots PROVE slot'[u] \in SlotRecord
    <3>1. CASE u = s
      BY <2>1, <3>1 DEF PoolType, SlotRecord, Statuses
    <3>2. CASE u # s
      BY <2>1, <3>2 DEF PoolType
    <3> QED
      BY <3>1, <3>2
  <2>3. slot' \in [Slots -> SlotRecord]
    BY <2>1, <2>2 DEF PoolType
  <2>4. queue' \in Seq(Tasks) /\ UNCHANGED queue
    BY <1>1, <2>1 DEF PoolType
  <2>5. PoolType'
    BY <2>1, <2>3, <2>4 DEF PoolType
  <2> QED
    BY <2>1, <2>5 DEF Drained, NobodyIdles, ShutdownSettlesAll, Open
<1>2. CASE queue # <<>>
  <2>1. /\ Assign(s, Head(queue)) /\ queue' = Tail(queue)
        /\ task' = [settled EXCEPT ![Head(queue)] = "inflight"]
    BY <1>2 DEF NextTask
  <2>2. Head(queue) \in Tasks /\ Tail(queue) \in Seq(Tasks)
    BY <1>2 DEF PoolType
  <2>3. slot' \in [Slots -> SlotRecord] /\ IdleSlots' = {}
    BY <1>2, <2>1, <2>2, AssignType DEF NobodyIdles
  <2>4. PoolType'
    BY <2>1, <2>2, <2>3 DEF PoolType, TaskStates
  <2>5. ~isShuttingDown'
    BY <1>2 DEF Drained
  <2> QED
    BY <2>3, <2>4, <2>5 DEF Drained, NobodyIdles, ShutdownSettlesAll
<1> QED
  BY <1>1, <1>2

LEMMA ReplaceInv ==
  ASSUME Inv, NEW s, NEW killed, Replace(s, killed), ~isShuttingDown
  PROVE  Inv'
<1>1. /\ task' = Settled(slot[s].task, "rejected")
      /\ spawned' = spawned + 1
      /\ slot' = [slot EXCEPT ![s] = Fresh(spawned')]
      /\ UNCHANGED <<queue, isShuttingDown>>
  BY DEF Replace, CrashSettles
<1>2. task' \in [Tasks -> TaskStates]
  BY <1>1, SettledClosesOnly DEF Inv
<1>3. spawned' \in Nat
  BY <1>1 DEF Inv, PoolType
<1>4. Fresh(spawned') \in SlotRecord /\ Fresh(spawned').status # "idle"
  BY <1>3 DEF Fresh, SlotRecord, Statuses
<1>5. slot' \in [Slots -> SlotRecord] /\ IdleSlots' \subseteq IdleSlots
  BY <1>1, <1>4 DEF Inv, PoolType, IdleSlots
<1> QED
  BY <1>1, <1>2, <1>3, <1>5 DEF Inv, PoolType, Drained, NobodyIdles, ShutdownSettlesAll

LEMMA InitInv == Init => Inv
<1> SUFFICES ASSUME Init PROVE Inv
  OBVIOUS
<1>1. slot \in [Slots -> SlotRecord]
  BY WorkerPoolAssumption DEF Init, Fresh, SlotRecord, Statuses, Slots
<1>2. queue \in Seq(Tasks) /\ task \in [Tasks -> TaskStates]
  BY DEF Init, TaskStates
<1>3. isShuttingDown \in BOOLEAN
  BY Zenon DEF Init
<1>4. PoolType
  BY <1>1, <1>2, <1>3, WorkerPoolAssumption DEF Init, PoolType
<1> QED
  BY <1>4 DEF Init, Inv, Drained, NobodyIdles, ShutdownSettlesAll

LEMMA DispatchInv ==
  ASSUME Inv, NEW t \in Tasks, Dispatch(t)
  PROVE  Inv'
<1> USE DEF Inv
<1>0. UNCHANGED <<isShuttingDown, spawned>>
  BY DEF Dispatch
<1>1. CASE isShuttingDown
  <2>1. task' = [task EXCEPT ![t] = "rejected"] /\ UNCHANGED <<slot, queue>>
    BY <1>1 DEF Dispatch
  <2> QED
    BY <1>0, <1>1, <2>1 DEF PoolType, TaskStates, Drained, NobodyIdles, IdleSlots,
                            ShutdownSettlesAll, Open
<1>2. CASE ~isShuttingDown /\ IdleSlots # {}
  <2>1. PICK s \in IdleSlots : Assign(s, t)
    BY <1>2 DEF Dispatch
  <2>2. task' = [task EXCEPT ![t] = "inflight"] /\ UNCHANGED queue
    BY <1>2 DEF Dispatch
  <2>3. slot' \in [Slots -> SlotRecord]
    BY <2>1, AssignType
  <2> QED
    BY <1>0, <1>2, <2>2, <2>3 DEF PoolType, TaskStates, Drained, NobodyIdles,
                                  ShutdownSettlesAll
<1>3. CASE ~isShuttingDown /\ IdleSlots = {}
  <2>1. /\ queue' = Append(queue, t) /\ task' = [task EXCEPT ![t] = "queued"]
        /\ UNCHANGED slot
    BY <1>3 DEF Dispatch
  <2>2. queue' \in Seq(Tasks)
    BY <2>1 DEF PoolType
  <2> QED
    BY <1>0, <1>3, <2>1, <2>2 DEF PoolType, TaskStates, Drained, NobodyIdles, IdleSlots,
                                  ShutdownSettlesAll
<1> QED
  BY <1>1, <1>2, <1>3

LEMMA ReceiveInv ==
  ASSUME Inv, NEW w \in Workers, Receive(w)
  PROVE  Inv'
<1>1. CASE ReadyReceived(w)
  <2>1. NextTask(home[w], slot[home[w]].task, task) /\ UNCHANGED <<isShuttingDown, spawned>>
    BY <1>1 DEF ReadyReceived
  <2>2. home[w] \in Slots => slot[home[w]].task \in Tasks \union {NoTask}
    BY DEF Inv, PoolType, SlotRecord
  <2>3. task \in [Tasks -> TaskStates] /\ \A u \in Tasks : task[u] \in {"queued", "inflight"} => Open(u)
    BY DEF Inv, PoolType, Open
  <2> QED
    BY <2>1, <2>2, <2>3, NextTaskInv
<1>2. CASE AnswerReceived(w)
  <2>1. PICK outcome \in {"resolved", "rejected"} :
          NextTask(home[w], NoTask, Settled(Head(outbox[w]).task, outcome))
    BY <1>2 DEF AnswerReceived
  <2>2. UNCHANGED <<isShuttingDown, spawned>>
    BY <1>2 DEF AnswerReceived
  <2> DEFINE settled == Settled(Head(outbox[w]).task, outcome)
  <2>3. /\ settled \in [Tasks -> TaskStates]
        /\ \A u \in Tasks : settled[u] \in {"queued", "inflight"} => Open(u)
    BY SettledClosesOnly DEF Inv
  <2> HIDE DEF settled
  <2>4. NextTask(home[w], NoTask, settled)
    BY <2>1 DEF settled
  <2> QED
    BY <2>2, <2>3, <2>4, NextTaskInv
<1>3. CASE CrashReceived(w)
  <2>1. CASE isShuttingDown
    BY <1>3, <2>1 DEF CrashReceived, poolVars, Inv, PoolType, Drained, NobodyIdles,
                      IdleSlots, ShutdownSettlesAll, Open
  <2>2. CASE ~isShuttingDown
    BY <1>3, <2>2, ReplaceInv DEF CrashReceived
  <2> QED
    BY <2>1, <2>2
<1> QED
  BY <1>1, <1>2, <1>3 DEF Receive

LEMMA ShutdownInv ==
  ASSUME Inv, Shutdown
  PROVE  Inv'
<1>1. /\ isShuttingDown' = TRUE /\ queue' = <<>>
      /\ task' = [t \in Tasks |-> IF t \in Abandoned THEN "rejected" ELSE task[t]]
      /\ UNCHANGED <<slot, spawned>>
  BY DEF Shutdown
<1>2. task' \in [Tasks -> TaskStates] /\ \A t \in Tasks : ~Open(t)'
  BY <1>1 DEF Inv, PoolType, Abandoned, Open, TaskStates
<1> QED
  BY <1>1, <1>2 DEF Inv, PoolType, Drained, NobodyIdles, ShutdownSettlesAll

\* Steps of the threads alone, and stuttering, touch no field of the pool.
LEMMA PoolUntouched ==
  ASSUME Inv, UNCHANGED <<poolVars, spawned>>
  PROVE  Inv'
BY DEF poolVars, Inv, PoolType, Drained, NobodyIdles, IdleSlots, ShutdownSettlesAll, Open

LEMMA NextInv == Inv /\ [Next]_vars => Inv'
<1> SUFFICES ASSUME Inv, [Next]_vars PROVE Inv'
  OBVIOUS
<1>1. ASSUME NEW t \in Tasks, Dispatch(t) PROVE Inv'
  BY <1>1, DispatchInv
<1>2. ASSUME NEW s \in Slots, HeartbeatTimeout(s) PROVE Inv'
  BY <1>2, ReplaceInv DEF HeartbeatTimeout
<1>3. ASSUME NEW w \in Workers, Receive(w) PROVE Inv'
  BY <1>3, ReceiveInv
<1>4. ASSUME NEW w \in Workers, Boot(w) \/ Finish(w) \/ Crash(w) PROVE Inv'
  BY <1>4, PoolUntouched DEF Boot, Finish, Crash
<1>5. CASE Shutdown
  BY <1>5, ShutdownInv
<1>6. CASE UNCHANGED vars
  BY <1>6, PoolUntouched DEF vars, threadVars
<1> QED
  BY <1>1, <1>2, <1>3, <1>4, <1>5, <1>6 DEF Next

LEMMA InvHolds == Spec => []Inv
BY InitInv, NextInv, PTL DEF Spec

\* A queued task never waits beside an idle slot.
THEOREM QueueWaitsForBusySlots == Spec => []NobodyIdles
<1>1. Inv => NobodyIdles
  BY DEF Inv
<1> QED
  BY <1>1, InvHolds, PTL

\* No promise stays open after shutdown.
THEOREM ShutdownLeavesNoneOpen == Spec => []ShutdownSettlesAll
<1>1. Inv => ShutdownSettlesAll
  BY DEF Inv
<1> QED
  BY <1>1, InvHolds, PTL
=============================================================================
