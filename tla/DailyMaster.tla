----------------------------- MODULE DailyMaster -----------------------------
(***************************************************************************)
(* The daily Master Tournament: MatchmakingService and                      *)
(* PrizeDistributionService of src/src/modules/matchmaking, under the locks  *)
(* of src/src/common/redis/lock.service.ts.                                 *)
(*                                                                         *)
(* Every server fires every cron job, and each job runs under a lock of its  *)
(* own in Redis, as does the payout of each pod. A lock expires. A server    *)
(* may crash, a query may fail, and Redis may not answer.                    *)
(*                                                                         *)
(* Entries are counted: which of them play in which pod is not stored.       *)
(* podFinished is emitted by no code of the repository: Deliver says what its *)
(* handler may receive.                                                     *)
(***************************************************************************)
EXTENDS Integers, Sequences, FiniteSets, Functions

CONSTANTS Servers,
          Users,        \* how many active premium users have an active bot
          DailyPool,    \* calculateDailyPool
          MinPlayers,   \* MATCHMAKING_CONFIG.MIN_PLAYERS
          PodSize,      \* MATCHMAKING_CONFIG.DEFAULT_POD_SIZE
          Slow,         \* a job may take longer than its lock
          NoJob

\* Bounds on the crashes of servers and the deliveries of podFinished.
CONSTANTS MaxCrashes, MaxDeliveries

ASSUME DailyAssumption ==
  /\ IsFiniteSet(Servers) /\ Users \in Nat
  /\ DailyPool \in Nat /\ MinPlayers \in Nat \ {0, 1} /\ PodSize \in Nat \ {0, 1}
  /\ Slow \in BOOLEAN
  /\ MaxCrashes \in Nat /\ MaxDeliveries \in Nat
  /\ NoJob \notin Servers \X {"create", "lock", "execute", "pay"}

VARIABLES
  clock,      \* the last cron time that was reached
  pc,         \* where each job is
  at,         \* the master, or the pod, a job is about
  count,      \* the entries a lock job read
  todo,       \* the pods an execute job still has to mark
  owner,      \* the locks: the job whose ownerId is stored
  masters,    \* today's rows of tournaments
  pods,       \* their rows of tournament_pods
  paid,       \* the payouts credited for each pod
  crashes, deliveries

jobVars == <<pc, at, count, todo>>
rows    == <<masters, pods, paid>>
bounds  == <<crashes, deliveries>>
vars    == <<clock, jobVars, owner, rows, bounds>>

Crons == {"create", "lock", "execute"}
Jobs  == Servers \X (Crons \union {"pay"})
Kind(j) == j[2]

\* lock:matchmaking:..., and one lock for the payout of each pod.
MaxPods == Cardinality(Servers) * Users
Keys    == (Crons \X {0}) \union ({"pay"} \X (1 .. MaxPods))
Key(j)  == IF Kind(j) = "pay" THEN <<"pay", at[j]>> ELSE <<Kind(j), 0>>
Free    == NoJob

\* Inside the function that runs under the lock.
Body == {"find", "insert", "entries", "cancel", "status", "pods", "pending", "mark",
         "start", "pay"}

Init ==
  /\ clock = "create"
  /\ pc = [j \in Jobs |-> "idle"] /\ at = [j \in Jobs |-> 0]
  /\ count = [j \in Jobs |-> 0] /\ todo = [j \in Jobs |-> {}]
  /\ owner = [k \in Keys |-> Free]
  /\ masters = <<>> /\ pods = <<>> /\ paid = <<>>
  /\ crashes = 0 /\ deliveries = 0

Goto(j, label) == pc' = [pc EXCEPT ![j] = label]

\* The locals of finished jobs are gone.
Ends(js) ==
  /\ pc' = [j \in Jobs |-> IF j \in js THEN "done" ELSE pc[j]]
  /\ at' = [j \in Jobs |-> IF j \in js THEN 0 ELSE at[j]]
  /\ count' = [j \in Jobs |-> IF j \in js THEN 0 ELSE count[j]]
  /\ todo' = [j \in Jobs |-> IF j \in js THEN {} ELSE todo[j]]

-----------------------------------------------------------------------------
(* Cron and events *)

\* 08:00, 20:55 and 21:00: unless it is slow, a job is done, and its lock gone, long
\* before the next time. A job that did not fire will not.
TimePasses ==
  /\ clock # "execute"
  /\ Slow \/ /\ \A j \in Jobs : pc[j] \in {"idle", "done"}
             /\ \A k \in Keys : owner[k] = Free
  /\ clock' = IF clock = "create" THEN "lock" ELSE "execute"
  /\ Ends({j \in Jobs : Kind(j) = clock /\ pc[j] = "idle"})
  /\ UNCHANGED <<owner, rows, bounds>>

Fire(j) ==
  /\ Kind(j) = clock /\ pc[j] = "idle"
  /\ Goto(j, "due")
  /\ UNCHANGED <<clock, at, count, todo, owner, rows, bounds>>

\* podFinished for a pod that was set running, perhaps more than once.
Deliver(j, p) ==
  /\ Kind(j) = "pay" /\ pc[j] \in {"idle", "done"}
  /\ deliveries < MaxDeliveries /\ deliveries' = deliveries + 1
  /\ pods[p].status # "pending"
  /\ Goto(j, "due") /\ at' = [at EXCEPT ![j] = p]
  /\ UNCHANGED <<clock, count, todo, owner, rows, crashes>>

\* A user registers for the master.
Register(m) ==
  /\ masters[m].status = "registering" /\ masters[m].entries < Users
  /\ masters' = [masters EXCEPT ![m].entries = @ + 1]
  /\ UNCHANGED <<clock, jobVars, owner, pods, paid, bounds>>

\* The scheduler of TournamentDirectorService starts a master that is still
\* registering at its scheduled time.
SchedulerStarts(m) ==
  /\ clock = "execute" /\ masters[m].status = "registering"
  /\ masters' = [masters EXCEPT ![m].status =
                   IF masters[m].entries < MinPlayers THEN "cancelled"
                   ELSE "running"]
  /\ UNCHANGED <<clock, jobVars, owner, pods, paid, bounds>>

-----------------------------------------------------------------------------
(* LockService: withLock *)

\* SET NX EX
Acquire(j) ==
  /\ pc[j] = "due" /\ owner[Key(j)] = Free
  /\ owner' = [owner EXCEPT ![Key(j)] = j]
  /\ Goto(j, "find")
  /\ UNCHANGED <<clock, at, count, todo, rows, bounds>>

\* The lock is busy, or Redis does not answer: the job is skipped.
Skip(j) ==
  /\ pc[j] = "due"
  /\ Ends({j})
  /\ UNCHANGED <<clock, owner, rows, bounds>>

\* RELEASE_SCRIPT deletes the key if it still holds this job's ownerId.
Freed_Blindly(k, j) == Free   \* mutant: DEL without the comparison
Freed(k, j) == IF owner[k] = j THEN Free ELSE owner[k]

Release(j) ==
  /\ pc[j] = "release"
  /\ owner' = [owner EXCEPT ![Key(j)] = Freed(Key(j), j)]
  /\ Ends({j})
  /\ UNCHANGED <<clock, rows, bounds>>

\* Redis does not answer: the lock stays until it expires.
ReleaseFails(j) ==
  /\ pc[j] = "release"
  /\ Ends({j})
  /\ UNCHANGED <<clock, owner, rows, bounds>>

\* The time to live is over: of a lock whose job is past its work, or, when Slow,
\* of any.
Expire(k) ==
  /\ owner[k] # Free
  /\ Slow \/ pc[owner[k]] \notin Body
  /\ owner' = [owner EXCEPT ![k] = Free]
  /\ UNCHANGED <<clock, jobVars, rows, bounds>>

\* A query of the job fails: finally releases.
Fails(j) ==
  /\ pc[j] \in Body
  /\ Goto(j, "release")
  /\ UNCHANGED <<clock, at, count, todo, owner, rows, bounds>>

\* A server crashes with all that it was doing.
Crash(s) ==
  /\ crashes < MaxCrashes /\ crashes' = crashes + 1
  /\ Ends({j \in Jobs : j[1] = s /\ pc[j] # "idle"})
  /\ UNCHANGED <<clock, owner, rows, deliveries>>

-----------------------------------------------------------------------------
(* doCreateDailyMasterTournament *)

NoMasterYet_Unchecked == TRUE   \* mutant: not idempotent
NoMasterYet == masters = <<>>

CreateFinds(j) ==
  /\ Kind(j) = "create" /\ pc[j] = "find"
  /\ Goto(j, IF NoMasterYet THEN "insert" ELSE "release")
  /\ UNCHANGED <<clock, at, count, todo, owner, rows, bounds>>

\* One transaction inserts the master and the entries of the users that have a bot.
CreateInserts(j) ==
  /\ pc[j] = "insert"
  /\ \E n \in 0 .. Users :
       masters' = Append(masters, [status |-> "registering", entries |-> n])
  /\ Goto(j, "release")
  /\ UNCHANGED <<clock, at, count, todo, owner, pods, paid, bounds>>

-----------------------------------------------------------------------------
(* doLockAndCreatePods *)

\* findTodaysMasterTournament finds any row of the day, and it must have the status
\* the job expects.
Finds(j, status, next) ==
  /\ pc[j] = "find"
  /\ \/ masters = <<>> /\ Goto(j, "release") /\ UNCHANGED at
     \/ \E m \in DOMAIN masters :
          /\ Goto(j, IF masters[m].status = status THEN next ELSE "release")
          /\ at' = [at EXCEPT ![j] = m]
  /\ UNCHANGED <<clock, count, todo, owner, rows, bounds>>

LockFinds(j) == Kind(j) = "lock" /\ Finds(j, "registering", "entries")

LockReadsEntries(j) ==
  /\ pc[j] = "entries"
  /\ LET n == masters[at[j]].entries
     IN  /\ count' = [count EXCEPT ![j] = n]
         /\ Goto(j, IF n < MinPlayers THEN "cancel" ELSE "status")
  /\ UNCHANGED <<clock, at, todo, owner, rows, bounds>>

\* tournamentRepository.update: the status is overwritten, whatever it was.
LockSetsStatus(j) ==
  /\ pc[j] \in {"cancel", "status"}
  /\ masters' = [masters EXCEPT ![at[j]].status =
                   IF pc[j] = "cancel" THEN "cancelled" ELSE "running"]
  /\ Goto(j, IF pc[j] = "cancel" THEN "release" ELSE "pods")
  /\ UNCHANGED <<clock, at, count, todo, owner, pods, paid, bounds>>

\* calculatePodSplit: as even as can be, no pod of a single player.
CeilDiv(n, k) == (n + k - 1) \div k
PodSplit_Ragged(n) ==   \* mutant: the rest of the players is forgotten
  [i \in 1 .. CeilDiv(n, PodSize) |-> n \div CeilDiv(n, PodSize)]
PodSplit(n) ==
  IF n <= PodSize THEN <<n>>
  ELSE LET k     == CeilDiv(n, PodSize)
           sizes == [i \in 1 .. k |-> (n \div k) + (IF i <= n % k THEN 1 ELSE 0)]
       IN  IF sizes[k] < 2
           THEN [i \in 1 .. k - 1 |-> IF i = k - 1 THEN sizes[i] + sizes[k] ELSE sizes[i]]
           ELSE sizes

\* The pool is split evenly; the first pod has the remainder.
PodPool(k, i) == (DailyPool \div k) + (IF i = 1 THEN DailyPool % k ELSE 0)

\* One transaction inserts all pods.
LockInsertsPods(j) ==
  /\ pc[j] = "pods"
  /\ LET sizes == PodSplit(count[j])
         new   == [i \in DOMAIN sizes |->
                     [master |-> at[j], players |-> sizes[i], status |-> "pending",
                      pool |-> PodPool(Len(sizes), i)]]
     IN  /\ pods' = pods \o new
         /\ paid' = paid \o [i \in DOMAIN sizes |-> 0]
  /\ Goto(j, "release")
  /\ UNCHANGED <<clock, at, count, todo, owner, masters, bounds>>

-----------------------------------------------------------------------------
(* doExecutePods *)

ExecuteFinds(j) == Kind(j) = "execute" /\ Finds(j, "running", "pending")

Pending(m) == {p \in DOMAIN pods : pods[p].master = m /\ pods[p].status = "pending"}

ExecuteReadsPods(j) ==
  /\ pc[j] = "pending"
  /\ todo' = [todo EXCEPT ![j] = Pending(at[j])]
  /\ Goto(j, IF Pending(at[j]) = {} THEN "release" ELSE "mark")
  /\ UNCHANGED <<clock, at, count, owner, rows, bounds>>

ExecuteMarksPod(j) ==
  /\ pc[j] = "mark"
  /\ LET p == CHOOSE q \in todo[j] : \A r \in todo[j] : q <= r
     IN  /\ pods' = [pods EXCEPT ![p].status = "running"]
         /\ todo' = [todo EXCEPT ![j] = @ \ {p}]
         /\ Goto(j, IF todo[j] = {p} THEN "start" ELSE "mark")
  /\ UNCHANGED <<clock, at, count, owner, masters, paid, bounds>>

\* startTournament throws unless the master is registering; the error is logged.
ExecuteStarts(j) ==
  /\ pc[j] = "start"
  /\ IF masters[at[j]].status = "registering"
     THEN masters' = [masters EXCEPT ![at[j]].status = "running"]
     ELSE UNCHANGED masters
  /\ Goto(j, "release")
  /\ UNCHANGED <<clock, at, count, todo, owner, pods, paid, bounds>>

-----------------------------------------------------------------------------
(* handlePodFinished *)

Unpaid_Unchecked(p) == TRUE   \* mutant: a duplicate is paid again
Unpaid(p) == pods[p].status # "finished"

PayFinds(j) ==
  /\ Kind(j) = "pay" /\ pc[j] = "find"
  /\ Goto(j, IF Unpaid(at[j]) /\ pods[at[j]].pool > 0 THEN "pay" ELSE "release")
  /\ UNCHANGED <<clock, at, count, todo, owner, rows, bounds>>

\* One transaction credits the payouts, which add up to the pool, and finishes the pod.
PayPays(j) ==
  /\ pc[j] = "pay"
  /\ paid' = [paid EXCEPT ![at[j]] = @ + pods[at[j]].pool]
  /\ pods' = [pods EXCEPT ![at[j]].status = "finished"]
  /\ Goto(j, "release")
  /\ UNCHANGED <<clock, at, count, todo, owner, masters, bounds>>

-----------------------------------------------------------------------------
Locking(j) == Acquire(j) \/ Skip(j) \/ Release(j) \/ ReleaseFails(j)
Working(j) ==
  \/ CreateFinds(j) \/ CreateInserts(j)
  \/ LockFinds(j) \/ LockReadsEntries(j) \/ LockSetsStatus(j) \/ LockInsertsPods(j)
  \/ ExecuteFinds(j) \/ ExecuteReadsPods(j) \/ ExecuteMarksPod(j) \/ ExecuteStarts(j)
  \/ PayFinds(j) \/ PayPays(j)

Next ==
  \/ TimePasses
  \/ \E j \in Jobs : Fire(j) \/ Locking(j) \/ Working(j) \/ Fails(j)
  \/ \E j \in Jobs, p \in DOMAIN pods : Deliver(j, p)
  \/ \E m \in DOMAIN masters : SchedulerStarts(m) \/ Register(m)
  \/ \E k \in Keys : Expire(k)
  \/ \E s \in Servers : Crash(s)

Spec == Init /\ [][Next]_vars
-----------------------------------------------------------------------------
(* Properties *)

Labels == Body \union {"idle", "due", "release", "done"}

\* The type of every variable.
TypeOK ==
  /\ clock \in Crons
  /\ pc \in [Jobs -> Labels] /\ at \in [Jobs -> Nat] /\ count \in [Jobs -> Nat]
  /\ todo \in [Jobs -> SUBSET Nat] /\ owner \in [Keys -> Jobs \union {Free}]
  /\ masters \in Seq([status : {"registering", "running", "cancelled"}, entries : 0 .. Users])
  /\ pods \in Seq([master : Nat, players : Nat, pool : Nat,
                   status : {"pending", "running", "finished"}])
  /\ paid \in Seq(Nat)
  /\ crashes \in Nat /\ deliveries \in Nat

\* Two servers never do the same job, or pay the same pod, at the same time
\* (docs/CHANGELOG.md, "Distributed Locking"), although locks expire, releases are
\* late, and servers crash.
JobsExclude ==
  \A i, j \in Jobs : i # j /\ pc[i] \in Body /\ pc[j] \in Body => Key(i) # Key(j)

\* A day has one Master Tournament, however many servers fire the job.
OneMaster == Len(masters) <= 1

\* The pods seat no more players than the master has entries, and none sits alone.
PodsSeatEntries ==
  \A m \in DOMAIN masters :
    /\ SumFunction([p \in DOMAIN pods |->
                      IF pods[p].master = m THEN pods[p].players ELSE 0])
         <= masters[m].entries
    /\ \A p \in DOMAIN pods : pods[p].master = m => pods[p].players >= 2

\* The daily pool is given out once: to the pods together exactly, and no pod pays
\* more than its share, however often its end is reported, whichever server
\* crashes or fails in between.
PoolGivenOnce ==
  /\ pods # <<>> => SumFunction([p \in DOMAIN pods |-> pods[p].pool]) = DailyPool
  /\ \A p \in DOMAIN pods : paid[p] <= pods[p].pool
=============================================================================
