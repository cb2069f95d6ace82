---------------------------- MODULE GameRecovery ----------------------------
(* The games of one table and the snapshots they are recovered from:          *)
(* LiveGameManagerService's registry, watchdog and recoverFromSnapshot, the   *)
(* hot snapshots of GameHotStateService in Redis, and GameRecoveryService,    *)
(* at start-up and for stuck games.                                           *)
(*                                                                            *)
(* A loop is a GameInstance whose startGame has not returned. A hand is       *)
(* reduced to what a snapshot keeps of it: the stacks, what each bot has in   *)
(* the pot, and who left. Redis runs the commands of its one connection in    *)
(* the order they were issued; the game does not wait for them.               *)
EXTENDS Naturals, Sequences, FiniteSets, Functions

CONSTANTS
  Bots,
  GameIds,         \* rows of the games table
  BuyIn,           \* BuyIn[b]: the chips b sits down with
  Loops,           \* bound: loops alive at a time
  MaxStake,        \* bound: chips a bot puts in one pot
  MaxWire,         \* bound: Redis commands in flight
  MaxFaults,       \* bound: crashes, stalls, lost commands, leaves, closings
  None

ASSUME BuyInAssumption == IsFiniteSet(Bots) /\ BuyIn \in [Bots -> Nat \ {0}]
ASSUME BoundsAssumption == MaxStake \in Nat /\ MaxWire \in Nat /\ MaxFaults \in Nat

VARIABLES
  loop,       \* the instance a loop runs, or None
  live,       \* liveGames.get(tableId), or None
  wire,       \* the Redis commands issued and not yet executed
  hot,        \* game:hot:<gameId> in Redis
  boot,       \* the candidates of attemptAutoRecovery, or None before it ran
  finished,   \* ghost: the games that emitted game.finished
  played,     \* ghost: the games that were created
  faults      \* ghost: the faults so far, and whether a bot left or the table closed

vars == <<loop, live, wire, hot, boot, finished, played, faults>>

Snapshots == [game : GameIds, chips : [Bots -> Nat],
              bets : [Bots -> Nat], left : SUBSET Bots]
Instances == [game : GameIds, chips : [Bots -> Nat],
              bets : [Bots -> Nat], left : SUBSET Bots, pending : SUBSET Bots,
              expected : Int, at : {"top", "hand", "error", "finished"},
              running : BOOLEAN]
Commands  == [op : {"set"}, snap : Snapshots]
               \cup [op : {"get", "del"}, game : GameIds]

\* None is none of the things it stands in for.
ASSUME NoneAssumption ==
  None \notin Loops /\ None \notin Instances /\ None \notin Snapshots /\ None # {}

Zero     == [b \in Bots |-> 0]
Total    == SumFunction(BuyIn)
InPlay(g) == SumFunction(g.chips) + SumFunction(g.bets)
Playable(g) == {b \in Bots : g.chips[b] > 0 /\ b \notin g.left}
Alive    == {l \in Loops : loop[l] # None}
NewLoop  == CHOOSE l \in Loops : l \notin Alive

Init ==
  /\ loop = [l \in Loops |-> None] /\ live = None /\ wire = <<>>
  /\ hot = [g \in GameIds |-> None] /\ boot = {}
  /\ finished = {} /\ played = {} /\ faults = {}

Ghosts == <<finished, played, faults>>

\* Commands are appended to the connection's queue, in the order of issue.
Issue(c) == Len(wire) < MaxWire /\ wire' = Append(wire, c)

Fault(f) ==
  /\ f \notin faults /\ Cardinality(faults) < MaxFaults
  /\ faults' = faults \cup {f}

-----------------------------------------------------------------------------
(* A game *)

\* createGame, the bots' addPlayer and startGame, on a table without a game. As a
\* bound, a second game is created only while a start-up recovery is under way.
CreateGame(g) ==
  /\ live = None /\ Alive # Loops /\ g \notin played
  /\ played = {} \/ boot # {}
  /\ loop' = [loop EXCEPT ![NewLoop] =
       [game |-> g, chips |-> BuyIn, bets |-> Zero, left |-> {},
        pending |-> {}, expected |-> Total, at |-> "top", running |-> TRUE]]
  /\ live' = NewLoop /\ played' = played \cup {g}
  /\ UNCHANGED <<wire, hot, boot, finished, faults>>

\* The loop of a game that was stopped returns when its hand is over.
LoopReturns(l) ==
  /\ l \in Alive /\ loop[l].at = "top" /\ ~loop[l].running
  /\ loop' = [loop EXCEPT ![l] = None]
  /\ UNCHANGED <<live, wire, hot, boot, Ghosts>>

AtTop(l) == l \in Alive /\ loop[l].at = "top" /\ loop[l].running

\* game.finished makes the hot state service delete the snapshot.
FinishIssues_Nothing(g) == UNCHANGED wire   \* mutant: the listener is missing
FinishIssues(g) == Issue([op |-> "del", game |-> g])

\* Fewer than two playable bots: the loop breaks and leaves running set.
FinishGame(l) ==
  /\ AtTop(l) /\ Cardinality(Playable(loop[l])) < 2
  /\ loop' = [loop EXCEPT ![l].at = "finished"]
  /\ FinishIssues(loop[l].game)
  /\ finished' = finished \cup {loop[l].game}
  /\ UNCHANGED <<live, hot, boot, played, faults>>

\* A bot puts chips in the pot.
PutIn(g, b, n) == [g EXCEPT !.chips[b] = @ - n, !.bets[b] = @ + n]

\* playHand up to the first action: a blind is posted, no snapshot is written.
BeginHand(l) ==
  /\ AtTop(l) /\ Cardinality(Playable(loop[l])) >= 2
  /\ \E b \in Playable(loop[l]) :
       loop' = [loop EXCEPT ![l] = [PutIn(@, b, 1) EXCEPT !.at = "hand"]]
  /\ UNCHANGED <<live, wire, hot, boot, Ghosts>>

\* buildHotStateSnapshot
Snapshot(g) == [game |-> g.game, chips |-> g.chips,
                bets |-> g.bets, left |-> g.left]

\* A bot adds chips, or none, and emitPlayerAction writes the hot snapshot.
\* A stopped game plays its hand to the end.
Act(l, b, n) ==
  /\ l \in Alive /\ loop[l].at = "hand"
  /\ b \notin loop[l].left /\ n <= loop[l].chips[b]
  /\ loop[l].bets[b] + n <= MaxStake
  /\ LET g == PutIn(loop[l], b, n)
     IN  loop' = [loop EXCEPT ![l] = g] /\ Issue([op |-> "set", snap |-> Snapshot(g)])
  /\ UNCHANGED <<live, hot, boot, Ghosts>>

\* removePlayer: in mid-hand the chips are taken away when the hand is over.
Without(g, b) ==
  IF g.at = "hand" THEN [g EXCEPT !.left = @ \cup {b}, !.pending = @ \cup {b}]
  ELSE [g EXCEPT !.left = @ \cup {b}, !.expected = @ - g.chips[b], !.chips[b] = 0]

RemovePlayer(b) ==
  /\ live # None /\ b \notin loop[live].left /\ Fault("leave")
  /\ loop' = [loop EXCEPT ![live] = Without(@, b)]
  /\ UNCHANGED <<live, wire, hot, boot, finished, played>>

\* drainPendingMutations: removePlayerImmediate for the bots that left.
Drained(g) ==
  LET takes == [b \in Bots |-> IF b \in g.pending THEN g.chips[b] + g.bets[b] ELSE 0]
  IN  [g EXCEPT !.expected = @ - SumFunction(takes), !.pending = {},
                !.chips = [b \in Bots |-> IF b \in g.pending THEN 0 ELSE @[b]]]

\* assertChipConservation
ChipsAddUp(g) == InPlay(g) = g.expected

\* The catch of startGame: the game stops in error, and startGame returns. The
\* instance is looked at again only while the registry holds it.
Failed(l, g) ==
  [loop EXCEPT ![l] =
     IF live = l THEN [g EXCEPT !.running = FALSE, !.at = "error"] ELSE None]

PaidTo(g, w) == [g EXCEPT !.chips[w] = @ + SumFunction(g.bets), !.bets = Zero]

\* The pot is paid out, the deferred removals are applied, the chips counted.
EndHand(l) ==
  /\ l \in Alive /\ loop[l].at = "hand"
  /\ \E w \in {b \in Bots \ loop[l].left : loop[l].chips[b] + loop[l].bets[b] > 0} :
       LET over == Drained(PaidTo(loop[l], w))
       IN  loop' = IF ChipsAddUp(over)
                   THEN [loop EXCEPT ![l] = [over EXCEPT !.at = "top"]]
                   ELSE Failed(l, over)
  /\ UNCHANGED <<live, wire, hot, boot, Ghosts>>

\* Something a hand calls throws.
HandThrows(l) ==
  /\ l \in Alive /\ loop[l].at = "hand"
  /\ loop' = Failed(l, Drained(loop[l]))
  /\ UNCHANGED <<live, wire, hot, boot, Ghosts>>

-----------------------------------------------------------------------------
(* The watchdog, checkGameHeartbeats *)

\* The registry drops the game and game.stuck asks Redis for its snapshot.
DeclareStuck(l) ==
  /\ live' = None
  /\ Issue([op |-> "get", game |-> loop[l].game])

Watched_RunningOnly(g) == g.running /\ g.at = "error"   \* mutant: stopped games are skipped first
Watched(g) == ~g.running /\ g.at = "error"

FindErrored ==
  /\ live # None /\ Watched(loop[live])
  /\ DeclareStuck(live)
  /\ loop' = [loop EXCEPT ![live] = None]
  /\ UNCHANGED <<hot, boot, Ghosts>>

\* A finished game is silent, and still counts as running.
FindFinished ==
  /\ live # None /\ loop[live].at = "finished"
  /\ DeclareStuck(live)
  /\ loop' = [loop EXCEPT ![live] = None]
  /\ UNCHANGED <<hot, boot, Ghosts>>

Stopped(g) == [g EXCEPT !.running = FALSE]

\* Two minutes without an action: the game is told to stop, and is still in the
\* middle of its hand.
FindSilent ==
  /\ live # None /\ loop[live].running /\ loop[live].at \in {"top", "hand"}
  /\ Fault("stall")
  /\ DeclareStuck(live)
  /\ loop' = [loop EXCEPT ![live] = Stopped(@)]
  /\ UNCHANGED <<hot, boot, finished, played>>

\* removeGame and removeGameSync: an operator closes the table.
RemoveGame ==
  /\ live # None /\ live' = None /\ Fault("close")
  /\ loop' = [loop EXCEPT ![live] =
       IF @.at \in {"error", "finished"} THEN None ELSE Stopped(@)]
  /\ UNCHANGED <<wire, hot, boot, finished, played>>

-----------------------------------------------------------------------------
(* Recovery *)

Refunded_PotForgotten(s) == s.chips   \* mutant: the pot is not given back
Refunded(s) == [b \in Bots |-> s.chips[b] + s.bets[b]]

\* recoverFromSnapshot, then startGame: the bets are refunded and the hand is
\* given up. The stack of a bot that left is not expected, and stays in place.
Recovered(s) ==
  [game |-> s.game, chips |-> Refunded(s), bets |-> Zero,
   left |-> s.left, pending |-> {},
   expected |-> SumFunction([b \in Bots |->
                  s.bets[b] + (IF b \in s.left THEN 0 ELSE s.chips[b])]),
   at |-> "top", running |-> TRUE]

TableFree_Unchecked == TRUE   \* mutant: liveGames.has is not asked
TableFree == live = None

\* game.recovery.start
Recover(s) ==
  IF TableFree
  THEN /\ Alive # Loops
       /\ loop' = [loop EXCEPT ![NewLoop] = Recovered(s)] /\ live' = NewLoop
  ELSE UNCHANGED <<loop, live>>

\* What a command does. The reply to a get recovers the stuck game, or gives it
\* up when there is no snapshot.
Serve(c) ==
  \/ /\ c.op = "set" /\ hot' = [hot EXCEPT ![c.snap.game] = c.snap]
     /\ UNCHANGED <<loop, live>>
  \/ /\ c.op = "del" /\ hot' = [hot EXCEPT ![c.game] = None]
     /\ UNCHANGED <<loop, live>>
  \/ /\ c.op = "get" /\ hot[c.game] # None /\ Recover(hot[c.game])
     /\ UNCHANGED hot
  \/ /\ c.op = "get" /\ hot[c.game] = None
     /\ UNCHANGED <<hot, loop, live>>

\* Redis executes the commands one after the other.
RedisServes ==
  /\ wire # <<>> /\ wire' = Tail(wire) /\ Serve(Head(wire))
  /\ UNCHANGED <<boot, Ghosts>>

\* A command fails; writes are only logged, and a failed get finds nothing.
RedisFails ==
  /\ wire # <<>> /\ wire' = Tail(wire) /\ Fault("lost")
  /\ UNCHANGED <<loop, live, hot, boot, finished, played>>

\* The server dies, with the commands it has not sent, and comes up again.
Crash ==
  /\ Fault("crash")
  /\ loop' = [l \in Loops |-> None] /\ live' = None /\ wire' = <<>> /\ boot' = None
  /\ UNCHANGED <<hot, finished, played>>

\* scanActiveHotStates, some seconds after start-up.
ScanHotStates ==
  /\ boot = None
  /\ boot' = {hot[g] : g \in {g \in GameIds : hot[g] # None}}
  /\ UNCHANGED <<loop, live, wire, hot, Ghosts>>

\* validateActivePlayers: a bot that is all in does not count.
Valid(s) == Cardinality({b \in Bots \ s.left : s.chips[b] > 0}) >= 2

\* A candidate is recovered, or left to expire in Redis.
TryCandidate ==
  /\ boot \notin {None, {}}
  /\ \E s \in boot :
       /\ boot' = boot \ {s}
       /\ IF Valid(s) THEN Recover(s) ELSE UNCHANGED <<loop, live>>
  /\ UNCHANGED <<wire, hot, Ghosts>>

-----------------------------------------------------------------------------
LoopSteps(l) == EndHand(l) \/ LoopReturns(l) \/ FinishGame(l)

Recoveries == FindErrored \/ FindFinished \/ RedisServes \/ ScanHotStates \/ TryCandidate

Next ==
  \/ \E l \in Loops : \/ LoopSteps(l) \/ BeginHand(l) \/ HandThrows(l)
                      \/ \E b \in Bots, n \in {0, 1} : Act(l, b, n)
  \/ Recoveries \/ FindSilent \/ RemoveGame \/ RedisFails \/ Crash
  \/ \E g \in GameIds : CreateGame(g)
  \/ \E b \in Bots : RemovePlayer(b)

Spec == Init /\ [][Next]_vars

\* Hands end, Redis answers, and the watchdog's interval fires. Nothing is assumed of
\* callers, of the bots, of the recovery at start-up or of faults.
Fairness ==
  WF_vars(\E l \in Loops : LoopSteps(l)) /\ WF_vars(FindErrored) /\ WF_vars(RedisServes)
FairSpec == Spec /\ Fairness

-----------------------------------------------------------------------------
(* Properties *)

\* Every variable has the type of what it models, the registry holds a loop
\* that is there, and no stack or pot is ever below zero.
TypeOK ==
  /\ loop \in [Loops -> Instances \cup {None}]
  /\ \A l \in Alive : loop[l].pending \subseteq loop[l].left
  /\ live \in Alive \cup {None}
  /\ wire \in Seq(Commands) /\ Len(wire) <= MaxWire
  /\ hot \in [GameIds -> Snapshots \cup {None}]
  /\ boot = None \/ boot \in SUBSET Snapshots
  /\ finished \subseteq GameIds /\ played \subseteq GameIds

\* Whatever the watchdog, the start-up recovery and an operator do at the same
\* time, a game that runs is the one in the registry: no table has two games.
RunningIsRegistered == \A l \in Alive : loop[l].running => live = l

\* Until a bot leaves, all the chips of the game are in its stacks and its pot
\* and the conservation check expects them: recovery neither makes nor loses
\* chips, wherever in a hand the snapshot was taken.
ChipsSurvive ==
  \A l \in Alive : loop[l].left = {} => InPlay(loop[l]) = Total /\ loop[l].expected = Total

\* A game that has finished is played again only when the server died or a
\* write was lost, or when a loop that was given up wrote after its successor:
\* the watchdog takes a finished game for stuck, and finds no snapshot.
FinishedStaysFinished ==
  [][\A l \in Loops :
       loop[l] = None /\ loop'[l] # None /\ loop'[l].game \in finished =>
         faults \intersect {"crash", "lost", "stall"} # {}]_vars

\* A game in error whose snapshot is in Redis runs again, unless the server
\* dies, a command fails or the table is closed first.
ErroredGame == live # None /\ loop[live].at = "error" /\ hot[loop[live].game] # None
ErroredGameRecovers ==
  ErroredGame ~> \/ live # None /\ loop[live].running
                 \/ faults \intersect {"crash", "lost", "close"} # {}
=============================================================================
