---------------------------- MODULE HandForHand ----------------------------
(***************************************************************************)
(* Hand-for-hand play on the bubble of a tournament: class                  *)
(* BarrierCoordinator of                                                    *)
(* src/src/modules/tournaments/tournament-director.service.ts, the          *)
(* inter-hand hook of the tables, and what the director does to the barrier. *)
(*                                                                         *)
(* A tournament table runs in simulation mode: its loop goes from hand to    *)
(* hand in microtasks and stops only at the barrier or when its game is       *)
(* over, so timers, database replies and setImmediate callbacks (all that    *)
(* the director does) come while no loop runs (AllSuspended).                *)
(***************************************************************************)
EXTENDS Naturals, FiniteSets

CONSTANTS Tables,         \* the tables the tournament starts with
          GamesFail,      \* a hand may throw
          BreaksAtBarrier, \* a table may be broken while it waits at the barrier
          RecoveryThrows  \* the database may fail under the recovery of a table

ASSUME HandForHandAssumption ==
  /\ IsFiniteSet(Tables)
  /\ GamesFail \in BOOLEAN /\ BreaksAtBarrier \in BOOLEAN /\ RecoveryThrows \in BOOLEAN

\* Bound on the timeout callbacks that are under way at once.
MaxRecoveries == 2

VARIABLES
  up,           \* the process runs
  running,      \* ActiveTournament.running
  tables,       \* the keys of ActiveTournament.tables
  handForHand,  \* handForHandMode
  checkedIn,    \* BarrierCoordinator.checkedIn
  timer,        \* timeoutHandle is armed
  recoveries,   \* timeout callbacks suspended in onStuckTables
  loop,         \* where each table's game loop is
  hooked,       \* the tables whose game has an interHandHook
  played,       \* a hand was completed: the director has had an event to handle
  hands         \* hands of each table in this round (2: two or more); only observed

barrierVars == <<checkedIn, timer>>
vars == <<up, running, tables, handForHand, checkedIn, timer, recoveries, loop,
          hooked, played, hands>>

\* A loop waits at the barrier ("waiting"), is over ("finished", "error"), was
\* told to stop ("stopped"), or has a setImmediate(startGame) due ("starting").
Loops == {"starting", "playing", "waiting", "finished", "error", "stopped"}

Waiting(t)   == loop[t] = "waiting"
\* Timers, replies and setImmediate callbacks run.
AllSuspended == up /\ \A t \in Tables : loop[t] # "playing"

NewRound   == [t \in Tables |-> 0]
OneMore(t) == [hands EXCEPT ![t] = IF @ < 2 THEN @ + 1 ELSE 2]

Init ==
  /\ up = TRUE /\ running = TRUE /\ tables = Tables
  /\ handForHand = FALSE
  /\ checkedIn = {} /\ timer = FALSE /\ recoveries = 0
  /\ loop = [t \in Tables |-> "starting"]
  /\ hooked = Tables /\ played = FALSE
  /\ hands = NewRound

-----------------------------------------------------------------------------
(* The barrier *)

\* The tables whose games go on.
Going == {t \in tables : loop[t] \in {"starting", "playing", "waiting"}}

\* release: every waiter goes on with its loop, which ends if the game was
\* stopped meanwhile, and a new round begins.
Resumed == [t \in Tables |->
              IF ~Waiting(t) THEN loop[t]
              ELSE IF t \in tables THEN "playing" ELSE "stopped"]

Release ==
  /\ checkedIn' = {} /\ timer' = FALSE
  /\ loop' = Resumed
  /\ hands' = NewRound

\* checkIn: the first table of a round arms the timeout, the last one releases
\* the others and goes on itself.
ArmsTimer_Second(now) == Cardinality(now) = 2   \* mutant
ArmsTimer(now) == Cardinality(now) = 1
EverybodyIn_OneShort(now) == Cardinality(now) + 1 >= Cardinality(tables)   \* mutant
EverybodyIn(now) == Cardinality(now) >= Cardinality(tables)

CheckIn(t) ==
  LET now == checkedIn \union {t}
  IN  IF EverybodyIn(now) THEN Release
      ELSE /\ checkedIn' = now
           /\ timer' = (timer \/ ArmsTimer(now))
           /\ loop' = [loop EXCEPT ![t] = "waiting"]
           /\ hands' = OneMore(t)

\* The timeout fires: its callback logs the stuck tables and recovers the
\* errored ones, with awaits.
TimeoutFires ==
  /\ AllSuspended /\ timer /\ recoveries < MaxRecoveries
  /\ timer' = FALSE /\ recoveries' = recoveries + 1
  /\ UNCHANGED <<up, running, tables, handForHand, checkedIn, loop, hooked, played, hands>>

\* The callback is done with the recovery and releases whatever round is on.
AfterRecovery_LogsOnly == UNCHANGED <<barrierVars, loop, hands>>   \* mutant
AfterRecovery == Release

TimeoutReleases ==
  /\ AllSuspended /\ recoveries > 0
  /\ recoveries' = recoveries - 1
  /\ AfterRecovery
  /\ UNCHANGED <<up, running, tables, handForHand, hooked, played>>

\* breakTable is outside the try of checkAndRecoverErroredGames: when its
\* database calls fail, the promise of the callback is rejected with nobody to
\* catch it, and the process ends.
TimeoutThrows ==
  /\ AllSuspended /\ recoveries > 0 /\ RecoveryThrows
  /\ \E t \in tables : loop[t] = "error" /\ tables # {t}
  /\ up' = FALSE
  /\ UNCHANGED <<recoveries, running, tables, handForHand, checkedIn, timer, loop, hooked, played, hands>>

-----------------------------------------------------------------------------
(* The tables *)

StartGame(t) ==
  /\ AllSuspended /\ loop[t] = "starting"
  /\ loop' = [loop EXCEPT ![t] = "playing"]
  /\ UNCHANGED <<up, running, tables, handForHand, barrierVars, recoveries, hooked, played, hands>>

\* A hand is over and the hook runs.
HandEnds(t) ==
  /\ loop[t] = "playing"
  /\ played' = TRUE
  /\ IF handForHand /\ t \in hooked
     THEN CheckIn(t)
     ELSE hands' = OneMore(t) /\ UNCHANGED <<barrierVars, loop>>
  /\ UNCHANGED <<up, running, tables, handForHand, recoveries, hooked>>

GameOver(t) ==
  /\ loop[t] = "playing"
  /\ loop' = [loop EXCEPT ![t] = "finished"]
  /\ UNCHANGED <<up, running, tables, handForHand, barrierVars, recoveries, hooked, played, hands>>

HandThrows(t) ==
  /\ GamesFail
  /\ loop[t] = "playing"
  /\ loop' = [loop EXCEPT ![t] = "error"]
  /\ UNCHANGED <<up, running, tables, handForHand, barrierVars, recoveries, hooked, played, hands>>

-----------------------------------------------------------------------------
(* The director *)

\* checkHandForHandTransition: on at the bubble with more than one table, and
\* off again when the bubble is over, which releases the barrier.
HandForHandOn ==
  /\ AllSuspended /\ running /\ played /\ ~handForHand /\ Cardinality(tables) > 1
  /\ handForHand' = TRUE /\ hands' = NewRound
  /\ UNCHANGED <<up, running, tables, barrierVars, recoveries, loop, hooked, played>>

HandForHandOff_NoRelease ==   \* mutant: the held tables are forgotten
  /\ AllSuspended /\ running /\ handForHand
  /\ handForHand' = FALSE
  /\ UNCHANGED <<up, running, tables, barrierVars, loop, recoveries, hooked, played, hands>>
HandForHandOff ==
  /\ AllSuspended /\ running /\ handForHand
  /\ handForHand' = FALSE /\ Release
  /\ UNCHANGED <<up, running, tables, recoveries, hooked, played>>

\* checkAndRecoverErroredGames: a new game with the players of the errored one.
\* It gets no interHandHook.
Recover(t) ==
  /\ AllSuspended /\ (running \/ recoveries > 0)
  /\ t \in tables /\ loop[t] = "error"
  /\ loop' = [loop EXCEPT ![t] = "starting"]
  /\ hooked' = hooked \ {t}
  /\ hands' = [hands EXCEPT ![t] = 0]
  /\ UNCHANGED <<up, running, tables, handForHand, barrierVars, recoveries, played>>

\* breakTable, for a table with fewer than two players left: the table goes, and
\* with its player others may start a game again that was over.
BreakTable(t) ==
  /\ AllSuspended /\ (running \/ recoveries > 0)
  /\ t \in tables /\ tables # {t}
  /\ loop[t] \in {"finished", "error"} \/ (BreaksAtBarrier /\ Waiting(t))
  /\ tables' = tables \ {t}
  /\ \E restarted \in SUBSET {u \in tables \ {t} : loop[u] = "finished"} :
        /\ loop' = [u \in Tables |-> IF u \in restarted THEN "starting" ELSE loop[u]]
        /\ hands' = [u \in Tables |-> IF u \in restarted THEN 0 ELSE hands[u]]
  /\ UNCHANGED <<up, running, handForHand, barrierVars, recoveries, hooked, played>>

\* finishTournament and stop release the barrier first; hand-for-hand mode
\* stays as it is.
Finish ==
  /\ AllSuspended /\ running
  /\ running' = FALSE /\ Release
  /\ UNCHANGED <<up, tables, handForHand, recoveries, hooked, played>>

\* finishTournament, after its database calls: the games stop.
CloseTables ==
  /\ AllSuspended /\ ~running /\ tables # {}
  /\ tables' = {}
  /\ UNCHANGED <<up, running, handForHand, barrierVars, recoveries, loop, hooked, played, hands>>

-----------------------------------------------------------------------------
TableStep(t) == StartGame(t) \/ HandEnds(t) \/ GameOver(t) \/ HandThrows(t)
Director == \/ TimeoutFires \/ TimeoutReleases \/ TimeoutThrows
            \/ HandForHandOn \/ HandForHandOff \/ Finish \/ CloseTables
            \/ \E t \in Tables : Recover(t) \/ BreakTable(t)

Next == Director \/ \E t \in Tables : TableStep(t)

\* A hand ends, and a game that never pauses ends some day. Whenever all loops
\* are suspended again the event loop comes round to a timer that is due and to
\* a callback whose database calls have answered or failed.
Fairness ==
  /\ SF_vars(TimeoutFires) /\ SF_vars(TimeoutReleases \/ TimeoutThrows)
  /\ \A t \in Tables : WF_vars(HandEnds(t)) /\ WF_vars(GameOver(t))

Spec     == Init /\ [][Next]_vars
FairSpec == Spec /\ Fairness
-----------------------------------------------------------------------------
(* Properties *)

\* The type of every variable; a table that waits is in the current round, and an
\* armed timeout belongs to a round.
TypeOK ==
  /\ up \in BOOLEAN /\ running \in BOOLEAN /\ played \in BOOLEAN /\ handForHand \in BOOLEAN /\ timer \in BOOLEAN
  /\ tables \subseteq Tables /\ checkedIn \subseteq Tables /\ hooked \subseteq Tables
  /\ recoveries \in 0 .. MaxRecoveries
  /\ loop \in [Tables -> Loops]
  /\ hands \in [Tables -> 0 .. 2]
  /\ \A t \in Tables : Waiting(t) => t \in checkedIn
  /\ timer => checkedIn # {}

\* checkHandForHandTransition: "unblock any tables held at the now-stale barrier".
\* Whatever fails, no table is held and no round is open once the bubble is over.
HeldOnlyOnBubble ==
  ~handForHand => checkedIn = {} /\ ~timer /\ \A t \in Tables : ~Waiting(t)

\* The barrier cannot hold a table for ever: while one waits, the timeout is
\* armed or its callback is about to release.
SomebodyReleases ==
  (\E t \in Tables : Waiting(t)) => timer \/ recoveries > 0

\* On the bubble a table completes one hand in a round, and goes on to the next one
\* when no table whose game goes on still owes its hand.
OneHandEach(t) ==
  HandEnds(t) => /\ hands[t] = 0
                 /\ hands'[t] = 0 => \A u \in Going : u = t \/ hands[u] > 0

\* docs/EDGE_CASES.md, "Hand-for-Hand Play": "No new hands until all complete". It is
\* so as long as every game has its hook, which a recovered one has not, and the round
\* counts no table that was broken.
InStep ==
  [][handForHand /\ running /\ tables \subseteq hooked /\ checkedIn \subseteq tables
       => \A t \in Tables : OneHandEach(t)]_vars

\* checkIn: "all tables block until every table has checked in (or the 30-second
\* safety timeout fires)": a table that waits goes on, whichever tables never come,
\* unless the process ends.
WaitersGoOn == \A t \in Tables : Waiting(t) ~> (~Waiting(t) \/ ~up)
=============================================================================
