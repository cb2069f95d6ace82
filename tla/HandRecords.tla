---------------------------- MODULE HandRecords ----------------------------
(* The records of one game: GameDataPersistenceService and                    *)
(* HandStatsProcessorService, fed by the events of the game loop. The loop    *)
(* does not wait for a handler: the handlers of several hands run at once,    *)
(* each statement of theirs an await, and the rows of game_players and games  *)
(* stay locked until the transaction that updated them ends. A crash takes    *)
(* the handlers, the caches and the statistics not yet flushed; the recovered *)
(* game may play again hands that were already recorded.                      *)
EXTENDS Naturals, FiniteSets, Functions

CONSTANTS
  NumBots,        \* the bots are 1 .. NumBots, in the order of their ids
  FindAttempts,   \* how often onHandComplete looks for the row of the hand
  MaxHand,        \* bound: the hand number the game gets to
  MaxCrashes,     \* bound: crashes of the server
  MaxFailures     \* bound: statements that fail

ASSUME NumBotsAssumption == NumBots \in Nat \ {0}
ASSUME MaxHandAssumption == MaxHand \in Nat
ASSUME AttemptsAssumption == FindAttempts \in Nat \ {0}

VARIABLES
  play,        \* the game loop: its handNumber, and where it is
  start,       \* start[h]: the onHandStarted of hand h
  complete,    \* complete[h]: the onHandComplete of hand h
  finish,      \* onGameFinished
  cached,      \* handIdCache
  statusCached,\* gameStatusCache has the game as running
  hands,       \* hands[h]: the row of hand h, and whether finished_at is set
  game,        \* the row of the game: its status and total_hands
  handsPlayed, \* game_players.hands_played
  handsWon,    \* game_players.hands_won
  locks,       \* locks[r]: the hand whose transaction holds row r, or 0
  pending,     \* pendingStats of HandStatsProcessorService: hands per bot
  batch,       \* the part of a flush that is not yet stored
  botStats,    \* bot_stats.total_hands
  crashes, failures

loopVars  == <<play>>
taskVars  == <<start, complete, finish>>
cacheVars == <<cached, statusCached>>
rowVars   == <<hands, game, handsPlayed, handsWon, locks>>
statVars  == <<pending, batch, botStats>>
vars == <<loopVars, taskVars, cacheVars, rowVars, statVars, crashes, failures>>

Hands   == 1 .. MaxHand
Bots    == 1 .. NumBots
GameRow == NumBots + 1   \* locked after the players
Rows    == 1 .. GameRow
NoTask  == [at |-> "none"]
Zero    == [b \in Bots |-> 0]
NoBatch == Zero

StartTasks    == {NoTask} \cup [at : {"status", "insert"}]
CompleteTasks ==
  {NoTask} \cup
  [at : {"find", "check", "lock", "commit", "publish"}, winner : Bots,
   tries : 0 .. FindAttempts, next : 1 .. GameRow + 1]
FinishTasks   == {NoTask} \cup [at : {"status", "players"}, left : SUBSET Bots]

Init ==
  /\ play = [hand |-> 0, at |-> "between"]
  /\ start = [h \in Hands |-> NoTask] /\ complete = [h \in Hands |-> NoTask]
  /\ finish = NoTask
  /\ cached = {} /\ statusCached = FALSE
  /\ hands = [h \in Hands |-> "none"]
  /\ game = [status |-> "waiting", total |-> 0]
  /\ handsPlayed = Zero /\ handsWon = Zero /\ locks = [r \in Rows |-> 0]
  /\ pending = Zero /\ batch = NoBatch /\ botStats = Zero
  /\ crashes = 0 /\ failures = 0

Finalized == {h \in Hands : hands[h] = "final"}

-----------------------------------------------------------------------------
(* The game loop emits; a handler runs up to its first await at once *)

HandStarted ==
  LET h == play.hand + 1 IN
  /\ play.at = "between" /\ h \in Hands
  /\ play' = [hand |-> h, at |-> "hand"]
  /\ start' = [start EXCEPT ![h] =
       [at |-> IF statusCached THEN "insert" ELSE "status"]]
  /\ UNCHANGED <<complete, finish, cacheVars, rowVars, statVars, crashes, failures>>

HandCompleted ==
  LET h == play.hand IN
  /\ play.at = "hand" /\ play' = [play EXCEPT !.at = "between"]
  /\ \E w \in Bots :
       complete' = [complete EXCEPT ![h] =
         [at |-> IF h \in cached THEN "check" ELSE "find",
          winner |-> w, tries |-> 0, next |-> 1]]
  /\ UNCHANGED <<start, finish, cacheVars, rowVars, statVars, crashes, failures>>

GameFinished ==
  /\ play.at = "between" /\ play.hand > 0
  /\ play' = [play EXCEPT !.at = "over"]
  /\ finish' = [at |-> "status", left |-> Bots]
  /\ UNCHANGED <<start, complete, cacheVars, rowVars, statVars, crashes, failures>>

-----------------------------------------------------------------------------
(* onHandStarted *)

\* The row of the game is updated by a statement of its own.
StartMarks(h) ==
  /\ start[h].at = "status" /\ locks[GameRow] = 0
  /\ game' = [game EXCEPT !.status = "running"] /\ statusCached' = TRUE
  /\ start' = [start EXCEPT ![h].at = "insert"]
  /\ UNCHANGED <<loopVars, complete, finish, cached, hands, handsPlayed, handsWon,
                 locks, statVars, crashes, failures>>

\* One transaction inserts the hand and its players. A hand that is there
\* already violates the unique key: the handler ends and caches nothing.
StartInserts(h) ==
  /\ start[h].at = "insert"
  /\ IF hands[h] = "none"
     THEN hands' = [hands EXCEPT ![h] = "open"] /\ cached' = cached \cup {h}
     ELSE UNCHANGED <<hands, cached>>
  /\ start' = [start EXCEPT ![h] = NoTask]
  /\ UNCHANGED <<loopVars, complete, finish, statusCached, game, handsPlayed, handsWon,
                 locks, statVars, crashes, failures>>

-----------------------------------------------------------------------------
(* onHandComplete *)

CompleteStep(h, t) ==
  /\ complete' = [complete EXCEPT ![h] = t]
  /\ UNCHANGED <<loopVars, start, finish, statusCached, statVars, crashes, failures>>

\* The row is looked for a few times, and the hand is skipped without it.
CompleteFinds(h) ==
  LET t == complete[h] IN
  /\ t.at = "find"
  /\ CompleteStep(h,
       IF hands[h] # "none" THEN [t EXCEPT !.at = "check", !.tries = 0]
       ELSE IF t.tries + 1 < FindAttempts THEN [t EXCEPT !.tries = @ + 1]
       ELSE NoTask)
  /\ UNCHANGED <<cached, rowVars>>

\* The order in which a completion locks the rows: the players by id, then the
\* game, whoever won.
LockOrder_WinnerFirst(w) ==   \* mutant: hands_won first, then hands_played
  [i \in Rows |-> IF i = 1 THEN w ELSE IF i <= w THEN i - 1 ELSE i]
LockOrder(w) == [i \in Rows |-> i]

AlreadyFinal_Unchecked(h) == FALSE   \* mutant: finished_at is not looked at
AlreadyFinal(h) == hands[h] = "final"

\* A hand that was finalized before is not counted again.
CompleteChecks(h) ==
  LET t == complete[h] IN
  /\ t.at = "check"
  /\ IF AlreadyFinal(h)
     THEN CompleteStep(h, NoTask) /\ cached' = cached \ {h}
     ELSE CompleteStep(h, [t EXCEPT !.at = "lock"]) /\ UNCHANGED cached
  /\ UNCHANGED rowVars

NextRow(t) == LockOrder(t.winner)[t.next]

\* The update of the next row waits for the transaction that holds it.
CompleteLocks(h) ==
  LET t == complete[h] IN
  /\ t.at = "lock" /\ locks[NextRow(t)] = 0
  /\ locks' = [locks EXCEPT ![NextRow(t)] = h]
  /\ CompleteStep(h, [t EXCEPT !.next = @ + 1,
                               !.at = IF t.next = GameRow THEN "commit" ELSE "lock"])
  /\ UNCHANGED <<cached, hands, game, handsPlayed, handsWon>>

ReleasedBy(h) == [r \in Rows |-> IF locks[r] = h THEN 0 ELSE locks[r]]

\* The increments are relative, and take effect when the transaction commits.
CompleteCommits(h) ==
  LET t == complete[h] IN
  /\ t.at = "commit"
  /\ hands' = [hands EXCEPT ![h] = "final"]
  /\ handsPlayed' = [b \in Bots |-> handsPlayed[b] + 1]
  /\ handsWon' = [handsWon EXCEPT ![t.winner] = @ + 1]
  /\ game' = [game EXCEPT !.total = @ + 1]
  /\ locks' = ReleasedBy(h)
  /\ CompleteStep(h, [t EXCEPT !.at = "publish"])
  /\ UNCHANGED cached

\* hand.stats.ready, which the statistics processor handles at once.
CompletePublishes(h) ==
  /\ complete[h].at = "publish"
  /\ pending' = [b \in Bots |-> pending[b] + 1]
  /\ cached' = cached \ {h} /\ complete' = [complete EXCEPT ![h] = NoTask]
  /\ UNCHANGED <<loopVars, start, finish, statusCached, rowVars, batch, botStats,
                 crashes, failures>>

-----------------------------------------------------------------------------
(* onGameFinished: single statements, the players in the order of their chips *)

FinishMarks ==
  /\ finish.at = "status" /\ locks[GameRow] = 0
  /\ game' = [status |-> "finished", total |-> play.hand]
  /\ finish' = [finish EXCEPT !.at = "players"]
  /\ UNCHANGED <<loopVars, start, complete, cacheVars, hands, handsPlayed, handsWon,
                 locks, statVars, crashes, failures>>

FinishPlayer(b) ==
  /\ finish.at = "players" /\ b \in finish.left /\ locks[b] = 0
  /\ IF finish.left = {b}
     THEN finish' = NoTask /\ statusCached' = FALSE
     ELSE finish' = [finish EXCEPT !.left = @ \ {b}] /\ UNCHANGED statusCached
  /\ UNCHANGED <<loopVars, start, complete, cached, rowVars, statVars, crashes, failures>>

-----------------------------------------------------------------------------
(* flushStats *)

\* The map is swapped for an empty one before the first statement.
FlushBegins ==
  /\ batch = NoBatch /\ pending # Zero
  /\ batch' = pending /\ pending' = Zero
  /\ UNCHANGED <<loopVars, taskVars, cacheVars, rowVars, botStats, crashes, failures>>

\* The bots of the batch, in the order of the map.
FirstOf(b) == batch[b] > 0 /\ \A c \in Bots : c < b => batch[c] = 0

\* upsertBotStats of one bot.
FlushUpserts(b) ==
  /\ FirstOf(b)
  /\ botStats' = [botStats EXCEPT ![b] = @ + batch[b]]
  /\ batch' = [batch EXCEPT ![b] = 0]
  /\ UNCHANGED <<loopVars, taskVars, cacheVars, rowVars, pending, crashes, failures>>

AfterFailedFlush_Requeued(p) == [b \in Bots |-> p[b] + batch[b]]   \* mutant
AfterFailedFlush(p) == p

\* A statement fails, or only its answer is lost: the rest of the batch is dropped.
FlushFails(b) ==
  /\ FirstOf(b) /\ failures < MaxFailures /\ failures' = failures + 1
  /\ \/ UNCHANGED botStats
     \/ botStats' = [botStats EXCEPT ![b] = @ + batch[b]]
  /\ pending' = AfterFailedFlush(pending) /\ batch' = NoBatch
  /\ UNCHANGED <<loopVars, taskVars, cacheVars, rowVars, crashes>>

-----------------------------------------------------------------------------
(* Failures *)

\* A statement of a handler fails: its transaction is rolled back, the error is
\* logged, and the handler ends.
StartFails(h) ==
  /\ start[h] # NoTask /\ failures < MaxFailures /\ failures' = failures + 1
  /\ start' = [start EXCEPT ![h] = NoTask]
  /\ UNCHANGED <<loopVars, complete, finish, cacheVars, rowVars, statVars, crashes>>

CompleteFails(h) ==
  /\ complete[h].at \in {"find", "check", "lock", "commit"}
  /\ failures < MaxFailures /\ failures' = failures + 1
  /\ complete' = [complete EXCEPT ![h] = NoTask] /\ locks' = ReleasedBy(h)
  /\ UNCHANGED <<loopVars, start, finish, cacheVars, hands, game, handsPlayed, handsWon,
                 statVars, crashes>>

FinishFails ==
  /\ finish # NoTask /\ failures < MaxFailures /\ failures' = failures + 1
  /\ finish' = NoTask
  /\ UNCHANGED <<loopVars, start, complete, cacheVars, rowVars, statVars, crashes>>

\* The server dies; the database rolls back what was not committed.
Crash ==
  /\ crashes < MaxCrashes /\ crashes' = crashes + 1
  /\ play' = [play EXCEPT !.at = IF @ = "over" THEN "over" ELSE "down"]
  /\ start' = [h \in Hands |-> NoTask] /\ complete' = [h \in Hands |-> NoTask]
  /\ finish' = NoTask /\ locks' = [r \in Rows |-> 0]
  /\ cached' = {} /\ statusCached' = FALSE
  /\ pending' = Zero /\ batch' = NoBatch
  /\ UNCHANGED <<hands, game, handsPlayed, handsWon, botStats, failures>>

\* cleanupOrphanedGames closes the row of the game before recovery, and the game
\* goes on from a snapshot of this hand or of an earlier one.
Restart ==
  /\ play.at = "down"
  /\ game' = [game EXCEPT !.status = IF @ = "running" THEN "finished" ELSE @]
  /\ \E h \in 0 .. play.hand : play' = [hand |-> h, at |-> "between"]
  /\ UNCHANGED <<taskVars, cacheVars, hands, handsPlayed, handsWon, locks, statVars,
                 crashes, failures>>

-----------------------------------------------------------------------------
StartSteps(h)    == StartMarks(h) \/ StartInserts(h)
CompleteSteps(h) == CompleteFinds(h) \/ CompleteChecks(h) \/ CompleteLocks(h)
                      \/ CompleteCommits(h) \/ CompletePublishes(h)
FinishSteps      == FinishMarks \/ \E b \in Bots : FinishPlayer(b)
Flush            == FlushBegins \/ \E b \in Bots : FlushUpserts(b)

Next ==
  \/ HandStarted \/ HandCompleted \/ GameFinished
  \/ \E h \in Hands : StartSteps(h) \/ CompleteSteps(h) \/ StartFails(h) \/ CompleteFails(h)
  \/ FinishSteps \/ FinishFails \/ Flush \/ Crash \/ Restart
  \/ \E b \in Bots : FlushFails(b)

Spec == Init /\ [][Next]_vars

-----------------------------------------------------------------------------
(* Properties *)

\* Every variable has the type of what it models; a completion works on the row
\* of its hand only when there is one, and only a transaction holds rows.
TypeOK ==
  /\ play.hand \in 0 .. MaxHand /\ play.at \in {"between", "hand", "over", "down"}
  /\ \A h \in Hands : start[h] \in StartTasks /\ complete[h] \in CompleteTasks
  /\ finish \in FinishTasks
  /\ \A h \in Hands :
       complete[h].at \in {"check", "lock", "commit", "publish"} => hands[h] # "none"
  /\ \A h \in cached : hands[h] # "none"
  /\ statusCached \in BOOLEAN
  /\ hands \in [Hands -> {"none", "open", "final"}]
  /\ game.status \in {"waiting", "running", "finished"} /\ game.total \in Nat
  /\ \A r \in Rows : locks[r] # 0 => complete[locks[r]].at \in {"lock", "commit"}
  /\ pending \in [Bots -> Nat] /\ batch \in [Bots -> Nat] /\ botStats \in [Bots -> Nat]

\* A hand counts once, for every player, for one winner and for the game, however
\* often it is played again after a crash and however its handlers interleave.
HandsCountOnce ==
  /\ \A b \in Bots : handsPlayed[b] = Cardinality(Finalized)
  /\ SumFunction(handsWon) = Cardinality(Finalized)
  /\ play.at # "over" => game.total = Cardinality(Finalized)

\* The statistics of a bot never count a hand twice, when a flush fails half
\* way, or when its last statement was stored and the answer was lost.
StatsNeverOvercount ==
  \A b \in Bots : botStats[b] + batch[b] + pending[b] <= Cardinality(Finalized)

\* Completions of several hands never wait for each other's rows in a circle:
\* among any of them, one can go on.
WaitsFor(h) == locks[NextRow(complete[h])]
NoDeadlock ==
  \A S \in (SUBSET Hands) \ {{}} :
    ~ \A h \in S : complete[h].at = "lock" /\ WaitsFor(h) \in S
=============================================================================
