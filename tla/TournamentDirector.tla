-------------------------- MODULE TournamentDirector --------------------------
(***************************************************************************)
(* A tournament of many tables: class ActiveTournament of                   *)
(* src/src/modules/tournaments/tournament-director.service.ts, from start   *)
(* to finishTournament.                                                     *)
(*                                                                         *)
(* The director hears of every completed hand and of every game that is     *)
(* over. Its handlers await the database and Redis, so several of them are   *)
(* under way at once; an action runs one handler from one await to the next. *)
(*                                                                         *)
(* Tables of a new tournament run in simulation mode: a game that has begun  *)
(* is played to its end before any reply reaches the director. Interleaved    *)
(* stands for games that play at the same time as the director acts: games    *)
(* recovered after a restart, whose sleeps are timers, and games released     *)
(* together from the barrier, whose microtasks alternate.                    *)
(***************************************************************************)
EXTENDS Naturals, FiniteSets, Functions, SequencesExt

CONSTANTS Bots,           \* the entrants
          Seating,        \* the tables of createInitialTables: a sequence of sets of bots
          StartingChips,  \* config.starting_chips
          SeatsPerTable,  \* config.players_per_table
          Interleaved     \* games and director alternate

\* Bounds on the players of a hand, on the hands, and on those that bust nobody (the
\* blinds rise).
CONSTANTS HandSizes, MaxHands, MaxQuietHands

ASSUME DirectorAssumption ==
  /\ IsFiniteSet(Bots)
  /\ Seating \in Seq(SUBSET Bots)
  /\ StartingChips \in Nat \ {0} /\ SeatsPerTable \in Nat
  /\ HandSizes \subseteq Nat \ {0, 1}
  /\ MaxHands \in Nat /\ MaxQuietHands \in Nat
  /\ Interleaved \in BOOLEAN

\* The snake gives every bot one seat, and no table more than players_per_table.
ASSUME SeatingAssumption ==
  /\ UNION {Seating[t] : t \in DOMAIN Seating} = Bots
  /\ \A t \in DOMAIN Seating : Cardinality(Seating[t]) <= SeatsPerTable
  /\ \A t, u \in DOMAIN Seating : t # u => Seating[t] \cap Seating[u] = {}

VARIABLES
  made,       \* tables created so far by createInitialTables
  tables,     \* the keys of ActiveTournament.tables, in order of creation
  game,       \* the GameInstance of each table
  active,     \* activeBots
  bustOrder,  \* the bots of bustOrder
  snapshot,   \* chipSnapshot
  busting,    \* handlers inside checkForBustedPlayers: the bots they still have to store
  syncing,    \* handlers inside syncChipsToDatabase and checkBlindLevelAdvance
  balancer,   \* the handler that holds balancingInProgress
  running,    \* ActiveTournament.running
  paying,     \* the places finishTournament still has to store
  dbStatus,   \* the tournament's row
  dbPlace,    \* finish_position of each entry (0: none)
  hands,      \* hands so far
  quiet       \* those that busted nobody

handlers == <<busting, syncing>>
counts   == <<hands, quiet>>
database == <<dbStatus, dbPlace>>
vars == <<made, tables, game, active, bustOrder, snapshot, handlers, balancer,
          running, paying, database, counts>>

TableIds == 1 .. Len(Seating)
None     == [b \in Bots |-> 0]

\* A game loop has not begun ("none"), is due by setImmediate, goes on between
\* two hands ("running"), plays a hand, or is over.
Loops  == {"none", "due", "running", "hand", "finished", "error"}
NoGame == [seated |-> {}, gone |-> {}, chips |-> None, bets |-> None,
           pending |-> <<>>, loop |-> "none"]
Idle   == [pc |-> "off"]

Playable(g) == {b \in g.seated \ g.gone : g.chips[b] > 0}
Size(t)     == Cardinality(Playable(game[t]))

\* Replies, timers and setImmediate callbacks are served.
DirectorsTurn == Interleaved \/ \A t \in TableIds : game[t].loop # "running"

Init ==
  /\ made = 0 /\ tables = {} /\ game = [t \in TableIds |-> NoGame]
  /\ active = Bots /\ bustOrder = <<>> /\ snapshot = None
  /\ busting = <<>> /\ syncing = 0 /\ balancer = Idle
  /\ running = TRUE /\ paying = <<>>
  /\ dbStatus = "running" /\ dbPlace = None /\ hands = 0 /\ quiet = 0

-----------------------------------------------------------------------------
(* Calls into a table: GameInstance.addPlayer and removePlayer *)

RemoveNow_StaysSeated(g, b) == [g EXCEPT !.chips[b] = 0]   \* mutant
RemoveNow(g, b) == [g EXCEPT !.gone = @ \union {b}, !.chips[b] = 0]
\* A bot that left the table is reconnected to its old entry, whatever it brings.
\* A second bot starts a game that has not begun.
AddNow_FreshStack(g, b, stack) ==   \* mutant: the stack it brings is not looked at
  [g EXCEPT !.seated = @ \union {b}, !.gone = @ \ {b}, !.chips[b] = StartingChips,
            !.loop = IF @ = "none" /\ g.seated # g.gone THEN "due" ELSE @]
AddNow(g, b, stack) ==
  IF b \in g.seated THEN [g EXCEPT !.gone = @ \ {b}]
  ELSE [g EXCEPT !.seated = @ \union {b}, !.chips[b] = stack,
                 !.loop = IF @ = "none" /\ g.seated # g.gone THEN "due" ELSE @]

\* Both are deferred to the end of a hand; a bot that leaves is out of the hand at once.
Removed(g, b) ==
  IF g.loop = "hand"
  THEN [g EXCEPT !.gone = @ \union {b}, !.pending = Append(@, <<"remove", b, 0>>)]
  ELSE RemoveNow(g, b)
Added(g, b, stack) ==
  IF g.loop = "hand" THEN [g EXCEPT !.pending = Append(@, <<"add", b, stack>>)]
  ELSE AddNow(g, b, stack)
Drained(g) ==
  FoldLeft(LAMBDA h, m : IF m[1] = "add" THEN AddNow(h, m[2], m[3]) ELSE RemoveNow(h, m[2]),
           [g EXCEPT !.pending = <<>>], g.pending)

-----------------------------------------------------------------------------
(* The end of the tournament *)

\* finishTournament up to its first await: the winner is appended, and the places
\* to be stored are counted from the end of bustOrder.
FinalPlaces_AsBusted(order) == order   \* mutant: not reversed
FinalPlaces(order) == Reverse(order)

FinishTournament ==
  IF ~running THEN UNCHANGED <<running, bustOrder, paying>>
  ELSE /\ running' = FALSE
       /\ \E winner \in IF active = {} THEN {<<>>} ELSE {<<b>> : b \in active} :
            bustOrder' = bustOrder \o winner
       /\ paying' = [i \in DOMAIN bustOrder' |-> <<FinalPlaces(bustOrder')[i], i>>]

\* One setEntryPayout is answered.
PayoutStored ==
  /\ DirectorsTurn /\ paying # <<>>
  /\ dbPlace' = [dbPlace EXCEPT ![Head(paying)[1]] = Head(paying)[2]]
  /\ paying' = Tail(paying)
  /\ UNCHANGED <<made, tables, game, active, bustOrder, snapshot, handlers, balancer,
                 running, dbStatus, counts>>

Closed(t) == [game[t] EXCEPT !.loop = IF @ = "hand" THEN "hand" ELSE "none"]

\* updateStatus(finished), then all tables are finalized and stopped.
TournamentFinished ==
  /\ DirectorsTurn /\ ~running /\ paying = <<>> /\ dbStatus = "running"
  /\ dbStatus' = "finished" /\ tables' = {}
  /\ game' = [t \in TableIds |-> Closed(t)]
  /\ UNCHANGED <<made, active, bustOrder, snapshot, handlers, balancer, running,
                 paying, dbPlace, counts>>

-----------------------------------------------------------------------------
(* checkTableBalancing *)

SmallestOf(S) == CHOOSE t \in S : \A u \in S : Size(t) < Size(u) \/ (Size(t) = Size(u) /\ u <= t)
LargestOf(S)  == CHOOSE t \in S : \A u \in S : Size(t) > Size(u) \/ (Size(t) = Size(u) /\ u <= t)
FreeSeats_OneMore(t) == IF Size(t) <= SeatsPerTable THEN SeatsPerTable + 1 - Size(t) ELSE 0 \* mutant
FreeSeats(t)  == IF Size(t) < SeatsPerTable THEN SeatsPerTable - Size(t) ELSE 0
SeatsOutside(t) == FoldFunction(+, 0, [u \in tables \ {t} |-> FreeSeats(u)])

\* A handler of a hand looks once more whether one bot is left; the other handlers
\* end with the balancing.
HandlerEnds(ofHand) ==
  IF ofHand /\ Cardinality(active) <= 1 THEN FinishTournament
  ELSE UNCHANGED <<running, bustOrder, paying>>

BalancingBusy == balancer.pc # "off"   \* balancingInProgress

\* breakTable up to its first await, when the other tables have the seats.
StartsBreaking(t, ofHand) ==
  /\ Size(t) <= SeatsOutside(t)
  /\ balancer' = [pc |-> "break", ofHand |-> ofHand, from |-> t,
                  bots |-> Playable(game[t]), others |-> tables \ {t}]

\* movePlayerForBalancing up to its first await: the biggest stack is to move.
StartsMoving(from, to, ofHand) ==
  \E b \in Playable(game[from]) :
    /\ \A c \in Playable(game[from]) : game[from].chips[c] <= game[from].chips[b]
    /\ balancer' = [pc |-> "move", ofHand |-> ofHand, from |-> from, to |-> to, bot |-> b,
                    stack |-> game[from].chips[b]]

Unbalanced(small, large) == Size(large) > Size(small) + 1

\* The sizes are read, and a table to break or a bot to move is chosen, without
\* an await.
CheckTableBalancing(ofHand) ==
  LET small == SmallestOf(tables)
      large == LargestOf(tables)
  IN  \/ /\ Cardinality(tables) > 1 /\ ~BalancingBusy
         /\ IF Size(small) < 2 THEN StartsBreaking(small, ofHand)
            ELSE Unbalanced(small, large) /\ StartsMoving(large, small, ofHand)
         /\ UNCHANGED <<running, bustOrder, paying>>
      \/ /\ Cardinality(tables) > 1 /\ ~BalancingBusy =>
              IF Size(small) < 2 THEN Size(small) > SeatsOutside(small)
              ELSE ~Unbalanced(small, large)
         /\ UNCHANGED balancer /\ HandlerEnds(ofHand)

\* movePlayerForBalancing once Redis has answered: the bot leaves, and joins with
\* the stack it had before.
MovePlayer ==
  /\ DirectorsTurn /\ balancer.pc = "move"
  /\ game' = [game EXCEPT ![balancer.from] = Removed(@, balancer.bot),
                          ![balancer.to] = Added(@, balancer.bot, balancer.stack)]
  /\ balancer' = [balancer EXCEPT !.pc = "store"]
  /\ UNCHANGED <<made, tables, active, bustOrder, snapshot, handlers, running, paying,
                 database, counts>>

\* The seat and the audit record are stored; the handler goes on.
MoveStored ==
  /\ DirectorsTurn /\ balancer.pc = "store"
  /\ balancer' = Idle /\ HandlerEnds(balancer.ofHand)
  /\ UNCHANGED <<made, tables, game, active, snapshot, handlers, database, counts>>

\* The tables a bot of a broken table may go to: the fewest bots, a seat free.
Targets(others) ==
  LET free == {u \in others : FreeSeats(u) > 0}
  IN  {u \in free : \A v \in free : Size(u) <= Size(v)}

\* The games that were over and have two bots again are started again.
Restarted_None(others) == game   \* mutant: the restart is forgotten
Restarted(others) ==
  [t \in TableIds |->
     IF t \in others /\ game[t].loop = "finished" /\ Size(t) >= 2
     THEN [game[t] EXCEPT !.loop = "due"] ELSE game[t]]

\* breakTable goes on with its next bot, or ends, and its handler with it. Without a
\* table for the bot it throws.
NextMover ==
  IF balancer.bots # {} /\ Targets(balancer.others) = {}
  THEN balancer' = Idle /\ UNCHANGED <<running, bustOrder, paying>>
  ELSE IF balancer.bots # {}
  THEN /\ \E b \in balancer.bots, u \in Targets(balancer.others) :
            balancer' = [pc |-> "seat", ofHand |-> balancer.ofHand, from |-> balancer.from,
                         to |-> u, bot |-> b, bots |-> balancer.bots \ {b},
                         others |-> balancer.others]
       /\ UNCHANGED <<running, bustOrder, paying>>
  ELSE balancer' = Idle /\ HandlerEnds(balancer.ofHand)

Stopped(g) == [g EXCEPT !.loop = IF @ = "hand" THEN "hand" ELSE "none"]

\* The table is stored as broken; it goes, and its bots follow one by one.
BreakTable ==
  /\ DirectorsTurn /\ balancer.pc = "break"
  /\ tables' = tables \ {balancer.from}
  /\ NextMover
  /\ game' = [(IF balancer.bots = {} THEN Restarted(balancer.others) ELSE game)
                 EXCEPT ![balancer.from] = Stopped(@)]
  /\ UNCHANGED <<made, active, snapshot, handlers, database, counts>>

\* Redis has the new seat: the bot joins its new table with the stack it has.
SeatMover ==
  /\ DirectorsTurn /\ balancer.pc = "seat"
  /\ game' = [game EXCEPT ![balancer.to] =
                 Added(@, balancer.bot, game[balancer.from].chips[balancer.bot])]
  /\ balancer' = [balancer EXCEPT !.pc = "seated"]
  /\ UNCHANGED <<made, tables, active, bustOrder, snapshot, handlers, running, paying,
                 database, counts>>

MoverStored ==
  /\ DirectorsTurn /\ balancer.pc = "seated"
  /\ NextMover
  /\ game' = IF balancer.bots = {} THEN Restarted(balancer.others) ELSE game
  /\ UNCHANGED <<made, tables, active, snapshot, handlers, database, counts>>

-----------------------------------------------------------------------------
(* checkForBustedPlayers *)

\* The entries without chips of the bots still in.
Chipless_AlmostBroke(games) ==   \* mutant: a bot with one chip cannot go on
  UNION {{<<b, t>> : b \in {c \in games[t].seated : games[t].chips[c] <= 1 /\ c \in active}}
           : t \in tables}
Chipless(games) ==
  UNION {{<<b, t>> : b \in {c \in games[t].seated : games[t].chips[c] = 0 /\ c \in active}}
           : t \in tables}

\* They are ordered by the stack before the hand, and bots with equal stacks share
\* the better place. The places are counted from the bots out so far.
BustLists(entries, stacks) ==
  {s \in SetToSeqs(entries) :
     \A i, j \in DOMAIN s : i < j => stacks[s[i][1]] >= stacks[s[j][1]]}
Place(s, i, stacks) ==
  Cardinality(Bots) - Len(bustOrder) - Len(s) + 1
    + Cardinality({j \in DOMAIN s : stacks[s[j][1]] > stacks[s[i][1]]})

\* One bot of the list is out: it is recorded and taken from its table before the
\* database is told.
OutOfActive(b) == active \ {b}
Busts(bust, games) ==
  /\ bustOrder' = Append(bustOrder, bust.bot)
  /\ active' = OutOfActive(bust.bot)
  /\ game' = [games EXCEPT ![bust.table] = Removed(games[bust.table], bust.bot)]

\* One entry is stored; the next one of the list is out, or the handler goes on.
BustStored(h) ==
  /\ DirectorsTurn /\ h \in DOMAIN busting
  /\ LET list == busting[h].list
         now  == busting[h].now
         bust == list[now]
     IN  /\ dbPlace' = [dbPlace EXCEPT ![bust.bot] = bust.place]
         /\ IF now < Len(list)
            THEN /\ Busts(list[now + 1], game)
                 /\ busting' = [busting EXCEPT ![h].now = now + 1]
                 /\ UNCHANGED <<syncing, snapshot, running, paying>>
            ELSE /\ busting' = RemoveAt(busting, h)
                 /\ snapshot' = [b \in Bots |-> IF \E i \in DOMAIN list : list[i].bot = b
                                                THEN 0 ELSE snapshot[b]]
                 /\ IF Cardinality(active) <= 1
                    THEN FinishTournament /\ UNCHANGED syncing
                    ELSE syncing' = syncing + 1 /\ UNCHANGED <<running, bustOrder, paying>>
                 /\ UNCHANGED <<active, game>>
  /\ UNCHANGED <<made, tables, balancer, dbStatus, counts>>

\* The stacks and the blind level are stored; the tables are balanced.
ChipsSynced ==
  /\ DirectorsTurn /\ syncing > 0
  /\ syncing' = syncing - 1
  /\ CheckTableBalancing(TRUE)
  /\ UNCHANGED <<made, tables, game, active, snapshot, busting, database, counts>>

\* handleHandComplete up to its first await, for a hand that left the tables as
\* in games and began with the given stacks.
HandComplete(t, games, stacks) ==
  LET out == Chipless(games)
  IN  IF ~running \/ t \notin tables
      THEN game' = games /\ UNCHANGED <<active, bustOrder, handlers, running, paying>>
      ELSE IF out # {}
      THEN \E s \in BustLists(out, stacks) :
             LET list == [i \in DOMAIN s |-> [bot |-> s[i][1], table |-> s[i][2],
                                              place |-> Place(s, i, stacks)]]
             IN  /\ Busts(list[1], games)
                 /\ busting' = Append(busting, [list |-> list, now |-> 1])
                 /\ UNCHANGED <<syncing, running, paying>>
      ELSE /\ game' = games
           /\ IF Cardinality(active) <= 1 THEN FinishTournament /\ UNCHANGED syncing
              ELSE syncing' = syncing + 1 /\ UNCHANGED <<running, bustOrder, paying>>
           /\ UNCHANGED <<active, busting>>

-----------------------------------------------------------------------------
(* The tables *)

\* createTable: the game is made and its bots sit down; it is due.
CreateTable ==
  /\ DirectorsTurn /\ made < Len(Seating)
  /\ LET t == made + 1
     IN  /\ made' = t /\ tables' = tables \union {t}
         /\ game' = [game EXCEPT ![t] =
              [@ EXCEPT !.seated = Seating[t],
                        !.loop = IF Cardinality(Seating[t]) > 1 THEN "due" ELSE "none",
                        !.chips = [b \in Bots |-> IF b \in Seating[t] THEN StartingChips ELSE 0]]]
  /\ UNCHANGED <<active, bustOrder, snapshot, handlers, balancer, running, paying,
                 database, counts>>

StartGame(t) ==
  /\ DirectorsTurn /\ game[t].loop = "due"
  /\ game' = [game EXCEPT ![t].loop = "running"]
  /\ UNCHANGED <<made, tables, active, bustOrder, snapshot, handlers, balancer, running,
                 paying, database, counts>>

Smaller(m, n) == IF m <= n THEN m ELSE n

\* A hand: its players go all in, each for what another one can match; one of
\* them wins, from each of the others at most what it put in itself.
HandBegun(g, ps) ==
  LET put(b) == IF b \notin ps THEN 0
                ELSE Smaller(g.chips[b], Max({g.chips[c] : c \in ps \ {b}}))
  IN  [g EXCEPT !.chips = [b \in Bots |-> g.chips[b] - put(b)],
                !.bets  = [b \in Bots |-> put(b)], !.loop = "hand"]

HandEnded(g, w) ==
  LET lost(b) == IF b \in g.gone THEN g.bets[b] ELSE Smaller(g.bets[b], g.bets[w])
      pot     == FoldFunction(+, 0, [b \in Bots \ {w} |-> lost(b)])
  IN  Drained([g EXCEPT !.chips = [b \in Bots |->
                            IF b = w THEN g.chips[b] + g.bets[w] + pot
                            ELSE g.chips[b] + (g.bets[b] - lost(b))],
                        !.bets = None, !.loop = "running"])

\* The bots in a hand, and those of them that can win it.
InHand(g)  == {b \in Bots : g.bets[b] > 0}
Winners(g) == InHand(g) \ g.gone

\* Or all of them tie, and take their bets back.
Outcomes(g) ==
  {HandEnded(g, w) : w \in Winners(g)}
    \union (IF InHand(g) \subseteq Winners(g)
            THEN {Drained([g EXCEPT !.chips = [b \in Bots |-> g.chips[b] + g.bets[b]],
                                    !.bets = None, !.loop = "running"])}
            ELSE {})

Snapshot(g) == [b \in Bots |-> IF b \in Playable(g) THEN g.chips[b] ELSE snapshot[b]]

\* Hands are counted when they begin, and when they are over without a bust.
Counted == hands' = hands + 1 /\ hands' <= MaxHands
CountedQuiet(t, g) ==
  /\ quiet' = IF \E b \in Playable(game[t]) \union InHand(game[t]) : g.chips[b] = 0
              THEN quiet ELSE quiet + 1
  /\ quiet' <= MaxQuietHands

\* A hand in which no handler gets a turn.
PlayHand(t) ==
  /\ game[t].loop = "running"
  /\ \E ps \in SUBSET Playable(game[t]) :
       /\ Cardinality(ps) \in HandSizes
       /\ \E g \in Outcomes(HandBegun(game[t], ps)) :
            /\ Counted /\ CountedQuiet(t, g)
            /\ snapshot' = Snapshot(game[t])
            /\ HandComplete(t, [game EXCEPT ![t] = g], snapshot')
  /\ UNCHANGED <<made, tables, balancer, database>>

BeginHand(t) ==
  /\ Interleaved /\ game[t].loop = "running"
  /\ \E ps \in SUBSET Playable(game[t]) :
       /\ Cardinality(ps) \in HandSizes
       /\ game' = [game EXCEPT ![t] = HandBegun(@, ps)]
  /\ snapshot' = Snapshot(game[t]) /\ Counted
  /\ UNCHANGED <<made, tables, active, bustOrder, handlers, balancer, running, paying,
                 database, quiet>>

EndHand(t) ==
  /\ game[t].loop = "hand"
  /\ \E g \in Outcomes(game[t]) :
       /\ CountedQuiet(t, g)
       /\ HandComplete(t, [game EXCEPT ![t] = g], snapshot)
  /\ UNCHANGED <<made, tables, snapshot, balancer, database, hands>>

\* All players of the hand were removed: it throws.
HandThrows(t) ==
  /\ game[t].loop = "hand" /\ Winners(game[t]) = {}
  /\ game' = [game EXCEPT ![t] = [Drained(@) EXCEPT !.loop = "error"]]
  /\ UNCHANGED <<made, tables, active, bustOrder, snapshot, handlers, balancer, running,
                 paying, database, counts>>

\* The loop ends, and handleGameFinished balances the tables without an await.
GameOver(t) ==
  /\ game[t].loop = "running" /\ Size(t) < 2
  /\ game' = [game EXCEPT ![t].loop = "finished"]
  /\ IF ~running \/ t \notin tables
     THEN UNCHANGED <<balancer, running, bustOrder, paying>>
     ELSE IF Cardinality(active) <= 1 THEN FinishTournament /\ UNCHANGED balancer
     ELSE CheckTableBalancing(FALSE)
  /\ UNCHANGED <<made, tables, active, snapshot, handlers, database, counts>>

\* startSafetyNet: every 30 seconds.
Understaffed == Cardinality(tables) > 1 /\ \E t \in tables : Size(t) < 2
SafetyNet ==
  /\ DirectorsTurn /\ running /\ made = Len(Seating)
  /\ IF Cardinality(active) <= 1 THEN FinishTournament /\ UNCHANGED balancer
     ELSE Understaffed /\ CheckTableBalancing(FALSE)
  /\ UNCHANGED <<made, tables, game, active, snapshot, handlers, database, counts>>

-----------------------------------------------------------------------------
Director == \/ CreateTable \/ ChipsSynced
            \/ MovePlayer \/ MoveStored \/ BreakTable \/ SeatMover \/ MoverStored
            \/ SafetyNet \/ PayoutStored \/ TournamentFinished
            \/ \E h \in DOMAIN busting : BustStored(h)

TableStep(t) == StartGame(t) \/ PlayHand(t) \/ GameOver(t)

Next == Director \/ \E t \in TableIds : TableStep(t)

InterleavedNext ==
  Next \/ \E t \in TableIds : BeginHand(t) \/ EndHand(t) \/ HandThrows(t)

\* Replies arrive, timers fire, callbacks run, and a game goes on to its end.
Fairness == WF_vars(Director) /\ \A t \in TableIds : WF_vars(TableStep(t))

Spec            == Init /\ [][Next]_vars
FairSpec        == Spec /\ Fairness
InterleavedSpec == Init /\ [][InterleavedNext]_vars
-----------------------------------------------------------------------------
(* Properties *)

\* The type of every variable; one handler at a time holds balancingInProgress.
TypeOK ==
  /\ made \in 0 .. Len(Seating) /\ tables \subseteq 1 .. made
  /\ game \in [TableIds -> [seated : SUBSET Bots, gone : SUBSET Bots, chips : [Bots -> Nat],
                            bets : [Bots -> Nat], loop : Loops,
                            pending : Seq({"add", "remove"} \X Bots \X Nat)]]
  /\ active \subseteq Bots /\ bustOrder \in Seq(Bots)
  /\ snapshot \in [Bots -> Nat] /\ dbPlace \in [Bots -> Int]
  /\ syncing \in Nat /\ hands \in Nat /\ quiet \in Nat
  /\ running \in BOOLEAN /\ dbStatus \in {"running", "finished"}

\* The chips at the tables of the tournament and of the bots on their way.
AtTables == FoldFunction(+, 0, [t \in tables |->
              FoldFunction(+, 0, game[t].chips) + FoldFunction(+, 0, game[t].bets)])
OnTheWay == IF balancer.pc \notin {"seat", "seated"} THEN {}
            ELSE balancer.bots \union (IF balancer.pc = "seat" THEN {balancer.bot} ELSE {})
Carried  == FoldFunction(+, 0, [b \in OnTheWay |-> game[balancer.from].chips[b]])
StillToSit == UNION {Seating[t] : t \in made + 1 .. Len(Seating)}

\* Every bot's chips are at a table, on their way with it, or still to be handed out
\* (docs/GAME_RULES.md, "Chip Conservation"), while tables are created, broken and
\* balanced by handlers that overlap. The run that checks it begins with two tables of
\* almost equal size: from them no bot is moved for balancing.
AllChips == AtTables + Carried + StartingChips * Cardinality(StillToSit)
TournamentChips == dbStatus = "running" => AllChips = StartingChips * Cardinality(Bots)

\* Chips are made or lost only when a bot joins a table with a stack that is not the one
\* it leaves: movePlayerForBalancing brings the stack it read before Redis was asked, and
\* a bot that was at the table before finds its old entry there.
StaleMove ==
  \/ /\ MovePlayer
     /\ \/ balancer.stack # game[balancer.from].chips[balancer.bot]
        \/ balancer.bot \in game[balancer.to].seated
  \/ SeatMover /\ balancer.bot \in game[balancer.to].seated
ChipsKept == [][dbStatus' = "running" /\ ~StaleMove => AllChips' = AllChips]_vars

\* A bot that is still in is never at two places, two tables or one table and on its
\* way, whichever handlers break and balance tables at the same time.
AtPlaces(b) == Cardinality({t \in tables : b \in game[t].seated \ game[t].gone})
                 + (IF b \in OnTheWay \union StillToSit THEN 1 ELSE 0)
OneTable == dbStatus = "running" => \A b \in active : AtPlaces(b) <= 1

\* A seat that was free when a move was planned is still free when the bot arrives. It
\* holds while tables are counted between hands: in a hand, a bot that is all in does not
\* count, and its seat looks free.
SeatsRespected == \A t \in tables : Size(t) <= SeatsPerTable

\* A bot is eliminated only when it has no chips left at any table (docs/CHANGELOG.md,
\* "Formal Seat Status State Machine": "Only when `chips === 0`"), whatever happens
\* between the test and its turn in the list. Not so a bot that was moved for
\* balancing: it is gone from the table it left, and its entry there has no chips.
EliminatedOnlyAtZero ==
  [][dbStatus = "running" =>
       \A b \in active \ active' :
         (\A t \in TableIds : b \notin game[t].gone) =>
            \A t \in tables : game'[t].chips[b] = 0]_vars

\* When the tournament is over its first place is stored for the bot that won all
\* the chips, although places are stored by handlers that overlap with the end; and
\* every entry has a place when no bot was recorded out twice, nor is to be. (A place
\* need not be unique: a handler of a bust that is answered late overwrites the one
\* that finishTournament stored. And handlers that overlap list the same bot more than
\* once: then the bots out are counted too high, and a place can come out as 0.)
ListedOnce(list) == \A i, j \in DOMAIN list : list[i].bot = list[j].bot => i = j
OutOnce == IsInjective(bustOrder) /\ \A h \in DOMAIN busting : ListedOnce(busting[h].list)
WinnerIsFirst ==
  dbStatus = "finished" =>
    /\ \A b \in active : dbPlace[b] = 1
    /\ OutOnce => \A b \in Bots : dbPlace[b] # 0

\* A tournament ends, although all its events may arrive while other handlers are
\* under way, and whichever of them sees the last bot.
TournamentEnds == <>(dbStatus = "finished")
=============================================================================
