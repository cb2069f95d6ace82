----------------------------- MODULE PokerTable -----------------------------
(***************************************************************************)
(* A poker table: class GameInstance of                                     *)
(* src/src/services/game/live-game-manager.service.ts with the pots of      *)
(* src/src/domain/betting.ts.                                               *)
(*                                                                         *)
(* The game loop (startGame, playHand, bettingRoundLoop, awardPot,          *)
(* showdown) is one thread of control; pc says where it is. An action runs   *)
(* one iteration of one of its loops. Other callers (the tournament         *)
(* director, the table and bot endpoints) add, remove and reactivate bots    *)
(* while the loop is suspended at an await, never in between.               *)
(*                                                                         *)
(* Cards are abstracted to a ranking of the bots, drawn at showdown. Hand    *)
(* numbers, logs, events and the public state are left out.                 *)
(***************************************************************************)
EXTENDS BettingRound, Sequences, Functions

CONSTANTS SmallBlind,   \* config.smallBlind
          Ante,         \* config.ante
          BuyIns,       \* the stacks bots arrive with
          MaxStrikes,   \* MAX_STRIKES
          Live,         \* sleeps are timers (FALSE: simulationMode, microtasks)
          HandForHand,  \* the inter-hand hook waits at the barrier
          MaxPending    \* bound on the deferred mutations of one hand

ASSUME TableAssumption ==
  /\ SmallBlind \in Nat /\ Ante \in Nat
  /\ BuyIns \subseteq Nat \ {0}
  /\ MaxStrikes \in Nat \ {0}
  /\ Live \in BOOLEAN /\ HandForHand \in BOOLEAN
  /\ MaxPending \in Nat
  /\ IsFiniteSet(Bots)

VARIABLES
  players,         \* the seats in order; an entry is never spliced out
  dealerIndex,     \* 1-based
  chips, seatStatus, strikes, folded, allIn,   \* GamePlayer, per bot
  totalBets,       \* potManager.playerTotalBets
  pc, street,      \* where the loop is; 0 pre-flop .. 3 river
  round,           \* bettingRound
  cur, itersLeft,  \* currentIndex, maxIterations
  rank,            \* the hand strengths of this showdown
  level, dead, payouts,  \* the pots still to settle and what was awarded
  running, status, handInProgress, pendingMutations, expectedTotalChips,
  starts           \* setImmediate(startGame) callbacks not yet run

seatVars   == <<players, dealerIndex>>
playerVars == <<chips, seatStatus, strikes, folded, allIn>>
handVars   == <<totalBets, street, round, cur, itersLeft>>
potVars    == <<rank, level, dead, payouts>>
gameVars   == <<running, status, handInProgress, pendingMutations,
                expectedTotalChips, starts>>
vars == <<seatVars, playerVars, handVars, potVars, gameVars, pc>>

Statuses  == {"active", "sitting_out", "eliminated"}
Mutations == [op : {"add"}, bot : Bots, chips : BuyIns, at : Nat]
               \union [op : {"remove"}, bot : Bots]

-----------------------------------------------------------------------------
(* Seats *)

Seats           == 1 .. Len(players)
Seated          == {players[i] : i \in Seats}
Disconnected(b) == seatStatus[b] = "eliminated"
Playable        == {b \in Seated : chips[b] > 0 /\ ~Disconnected(b)}
ActivePlayers   == {b \in Seated : ~folded[b] /\ ~Disconnected(b)}
SeatOf(b)       == CHOOSE i \in Seats : players[i] = b

\* The k-th seat clockwise from seat i, for k up to the number of seats.
Clockwise(i, k) == IF i + k <= Len(players) THEN i + k ELSE i + k - Len(players)

\* The first seat clockwise from i whose bot passes, the seat next to i when
\* none does: the bounded search of nextActiveIndex and of the dealer's advance.
FirstSeatAfter(i, passes) ==
  LET hits == {k \in Seats : players[Clockwise(i, k)] \in passes}
  IN  IF hits = {} THEN Clockwise(i, 1)
      ELSE Clockwise(i, CHOOSE k \in hits : \A j \in hits : k <= j)

CanStillAct(stacks, out) ==
  {b \in Seated : ~out[b] /\ stacks[b] # 0 /\ ~Disconnected(b)}
NextActive_Stays(i) == i   \* mutant: the turn is not passed on
NextActive(i) == FirstSeatAfter(i, CanStillAct(chips, folded))

-----------------------------------------------------------------------------
(* Chips *)

Zero       == [b \in Bots |-> 0]
Nobody     == [b \in Bots |-> FALSE]
InStacks   == SumFunction(chips)
InPot      == SumFunction(totalBets)
TotalChips == InStacks + InPot

\* drops the betting round: bettingRound = null
CloseRound == round' = NewRound

Init ==
  /\ players = <<>> /\ dealerIndex = 1
  /\ chips = Zero /\ strikes = Zero /\ folded = Nobody /\ allIn = Nobody
  /\ seatStatus = [b \in Bots |-> "active"]
  /\ totalBets = Zero
  /\ pc = "idle" /\ street = 0 /\ round = NewRound /\ cur = 1 /\ itersLeft = 0
  /\ rank = Zero /\ level = 0 /\ dead = 0 /\ payouts = Zero
  /\ running = FALSE /\ status = "waiting" /\ handInProgress = FALSE
  /\ pendingMutations = <<>> /\ expectedTotalChips = 0 /\ starts = 0

-----------------------------------------------------------------------------
(* Seating: addPlayerImmediate, removePlayerImmediate and their deferral *)

\* The loop is suspended at an await that other code can run in. In simulation
\* mode every sleep is a resolved promise, which no other task gets in front of.
AtAwait ==
  \/ pc = "idle"
  \/ Live /\ pc \in {"acted", "street", "award", "reveal", "sleep"}
  \/ HandForHand /\ pc = "hook"

\* addPlayer and removePlayer push a closure while a hand is played.
MutationsDefer_Never == FALSE   \* mutant: applied at once
MutationsDefer == handInProgress

Reconnect(b) ==
  /\ b \in Seated /\ Disconnected(b)
  /\ seatStatus' = [seatStatus EXCEPT ![b] = "active"]
  /\ strikes' = [strikes EXCEPT ![b] = 0]
  /\ UNCHANGED <<seatVars, chips, folded, allIn, expectedTotalChips, starts>>

\* insertAt is 0-based: the button moves with its bot when it sits at or after it.
ButtonAfterInsert_Strict(at) ==   \* mutant: insertAt < dealerIndex
  IF at + 1 < dealerIndex THEN dealerIndex + 1 ELSE dealerIndex
ButtonAfterInsert(at) == IF at < dealerIndex THEN dealerIndex + 1 ELSE dealerIndex

Insert(b, at) ==
  IF at < Len(players)
  THEN /\ players' = SubSeq(players, 1, at) \o <<b>>
                       \o SubSeq(players, at + 1, Len(players))
       /\ dealerIndex' = ButtonAfterInsert(at)
  ELSE players' = Append(players, b) /\ UNCHANGED dealerIndex

CanSit_Always(b) == TRUE   \* mutant: the bot is not looked up
CanSit(b) == b \notin Seated

SitDown(b, stack, at) ==
  /\ CanSit(b)
  /\ Insert(b, at)
  /\ chips' = [chips EXCEPT ![b] = stack]
  /\ folded' = [folded EXCEPT ![b] = TRUE]
  /\ allIn' = [allIn EXCEPT ![b] = FALSE]
  /\ strikes' = [strikes EXCEPT ![b] = 0]
  /\ seatStatus' = [seatStatus EXCEPT ![b] = "active"]
  /\ expectedTotalChips' = expectedTotalChips + stack
  /\ starts' = IF /\ ~running /\ status # "finished"
                  /\ \E s \in Seated : ~Disconnected(s)
               THEN starts + 1 ELSE starts

AddPlayerImmediate(b, stack, at) == Reconnect(b) \/ SitDown(b, stack, at)

TakesAway_PotOnly(b) == totalBets[b]   \* mutant: the stack forgotten
TakesAway(b) == chips[b] + totalBets[b]

RemovePlayerImmediate(b) ==
  /\ b \in Seated
  /\ seatStatus' = [seatStatus EXCEPT ![b] = "eliminated"]
  /\ expectedTotalChips' = expectedTotalChips - TakesAway(b)
  /\ chips' = [chips EXCEPT ![b] = 0]
  /\ UNCHANGED <<seatVars, strikes, folded, allIn, starts>>

AddPlayer(b, stack, at) ==
  /\ AtAwait
  /\ IF MutationsDefer
     THEN /\ Len(pendingMutations) < MaxPending
          /\ pendingMutations' = Append(pendingMutations,
               [op |-> "add", bot |-> b, chips |-> stack, at |-> at])
          /\ UNCHANGED <<seatVars, playerVars, expectedTotalChips, starts>>
     ELSE AddPlayerImmediate(b, stack, at) /\ UNCHANGED pendingMutations
  /\ UNCHANGED <<handVars, potVars, pc, running, status, handInProgress>>

RemovePlayer(b) ==
  /\ AtAwait
  /\ b \in Seated
  /\ IF MutationsDefer
     THEN /\ Len(pendingMutations) < MaxPending
          /\ seatStatus' = [seatStatus EXCEPT ![b] = "eliminated"]
          /\ pendingMutations' = Append(pendingMutations,
                                        [op |-> "remove", bot |-> b])
          /\ UNCHANGED <<seatVars, chips, strikes, folded, allIn,
                         expectedTotalChips, starts>>
     ELSE RemovePlayerImmediate(b) /\ UNCHANGED pendingMutations
  /\ UNCHANGED <<handVars, potVars, pc, running, status, handInProgress>>

ReactivatePlayer(b) ==
  /\ AtAwait
  /\ b \in Seated /\ seatStatus[b] = "sitting_out"
  /\ seatStatus' = [seatStatus EXCEPT ![b] = "active"]
  /\ strikes' = [strikes EXCEPT ![b] = 0]
  /\ UNCHANGED <<seatVars, chips, folded, allIn, handVars, potVars, gameVars, pc>>

-----------------------------------------------------------------------------
(* startGame: the loop around the hands *)

\* A sleep of a live game is a timer, later than the callbacks already queued.
Wakes == Live => starts = 0

\* The setImmediate callback of addPlayerImmediate runs and, unless the game
\* already runs or is over, starts the loop.
StartGame ==
  /\ AtAwait /\ starts > 0
  /\ starts' = starts - 1
  /\ IF ~running /\ status # "finished"
     THEN running' = TRUE /\ status' = "running" /\ pc' = "top"
     ELSE UNCHANGED <<running, status, pc>>
  /\ UNCHANGED <<seatVars, playerVars, handVars, potVars, handInProgress,
                 pendingMutations, expectedTotalChips>>

\* The loop comes round: at once when it starts, after a sleep between two hands.
AtLoopTop == pc = "top" \/ (pc = "sleep" /\ Wakes)

\* Fewer than two bots can play: the loop ends, and running stays set.
FinishGame ==
  /\ AtLoopTop /\ running
  /\ Cardinality(Playable) < 2
  /\ status' = "finished" /\ pc' = "idle"
  /\ UNCHANGED <<seatVars, playerVars, handVars, potVars, running,
                 handInProgress, pendingMutations, expectedTotalChips, starts>>

\* playHand up to its first betting round: reset, antes, blinds.
BeginHand ==
  /\ AtLoopTop /\ running
  /\ Cardinality(Playable) >= 2
  /\ LET out    == [b \in Bots |-> chips[b] = 0 \/ Disconnected(b)]
         ante   == [b \in Bots |-> IF b \in Seated /\ ~out[b]
                                   THEN Lesser(chips[b], Ante) ELSE 0]
         afterAnte == [b \in Bots |-> chips[b] - ante[b]]
         dealt  == {b \in Seated : ~out[b]}
         next(i) == FirstSeatAfter(i, CanStillAct(afterAnte, out))
         sbSeat == IF Cardinality(dealt) = 2 THEN dealerIndex ELSE next(dealerIndex)
         bbSeat == next(sbSeat)
         sb     == players[sbSeat]
         bb     == players[bbSeat]
         sbAmt  == Lesser(afterAnte[sb], SmallBlind)
         bbAmt  == Lesser(afterAnte[bb], BigBlind)
         blind  == [b \in Bots |-> (IF b = sb THEN sbAmt ELSE 0)
                                    + (IF b = bb THEN bbAmt ELSE 0)]
         stacks == [b \in Bots |-> afterAnte[b] - blind[b]]
     IN  /\ folded' = out
         /\ chips' = stacks
         /\ allIn' = [b \in Bots |->
                        \/ b \in dealt \union {sb, bb} /\ stacks[b] = 0
                        \/ b = sb /\ afterAnte[b] = sbAmt]
         /\ totalBets' = [b \in Bots |-> ante[b] + blind[b]]
         /\ round' = [NewRound EXCEPT
                        !.maxBet = BigBlind,
                        !.bets = [b \in Bots |-> IF b = bb THEN bbAmt
                                                 ELSE IF b = sb THEN sbAmt ELSE 0]]
         /\ cur' = FirstSeatAfter(bbSeat, CanStillAct(stacks, out))
  /\ handInProgress' = TRUE
  /\ street' = 0 /\ itersLeft' = 4 * Len(players) /\ pc' = "act"
  /\ UNCHANGED <<seatVars, seatStatus, strikes, potVars, running, status,
                 pendingMutations, expectedTotalChips, starts>>

-----------------------------------------------------------------------------
(* bettingRoundLoop *)

RoundComplete == BettingComplete(round, Seated, chips, folded, allIn)
Iterating     == pc = "act" /\ ~RoundComplete /\ itersLeft > 0
Actor         == players[cur]

CountIteration_Forgotten == UNCHANGED itersLeft   \* mutant
CountIteration == itersLeft' = itersLeft - 1

\* The loop moves on without an await.
MoveOn(out) == cur' = FirstSeatAfter(cur, CanStillAct(chips, out))

SkipSeat ==
  /\ Iterating
  /\ folded[Actor] \/ allIn[Actor]
  /\ MoveOn(folded)
  /\ CountIteration
  /\ UNCHANGED <<seatVars, playerVars, totalBets, street, round, potVars,
                 gameVars, pc>>

\* A ghost checks when it can and folds otherwise, with no await.
GhostActs ==
  /\ Iterating
  /\ ~folded[Actor] /\ ~allIn[Actor] /\ seatStatus[Actor] = "sitting_out"
  /\ folded' = [folded EXCEPT ![Actor] = ~CanCheck(round, Actor)]
  /\ round' = Answered(round, Actor)
  /\ MoveOn(folded')
  /\ CountIteration
  /\ UNCHANGED <<seatVars, chips, seatStatus, strikes, allIn, totalBets, street,
                 potVars, gameVars, pc>>

BotToAct ==
  /\ Iterating
  /\ ~folded[Actor] /\ ~allIn[Actor] /\ seatStatus[Actor] # "sitting_out"

\* What every action of a bot does after applyAction: the loop sleeps.
ActionApplied ==
  /\ pc' = "acted" /\ CountIteration
  /\ UNCHANGED <<seatVars, cur, street, potVars, gameVars>>

\* getPlayerActionSafe: the strategy answered.
StrategyAnswers ==
  /\ strikes' = [strikes EXCEPT ![Actor] = 0]
  /\ UNCHANGED seatStatus

PutIn(amount) ==
  /\ chips' = [chips EXCEPT ![Actor] = @ - amount]
  /\ totalBets' = [totalBets EXCEPT ![Actor] = @ + amount]
  /\ allIn' = [allIn EXCEPT ![Actor] = @ \/ chips[Actor] = amount]
  /\ UNCHANGED folded

CheckOrFold ==
  /\ folded' = [folded EXCEPT ![Actor] = ~CanCheck(round, Actor)]
  /\ round' = Answered(round, Actor)
  /\ UNCHANGED <<chips, allIn, totalBets>>

\* A strategy checks only when it can, and folds only when it cannot.
BotChecksOrFolds ==
  BotToAct /\ StrategyAnswers /\ CheckOrFold /\ ActionApplied

BotCalls ==
  /\ BotToAct /\ StrategyAnswers
  /\ ~CanCheck(round, Actor)
  /\ PutIn(CallAmount(round, Actor, chips[Actor]))
  /\ round' = Called(round, Actor, chips[Actor])
  /\ ActionApplied

\* The raises a strategy asks for: the minimum up to all it has, or all_in,
\* which asks for maxRaise however small.
RaiseAmounts ==
  LET maxRaise == chips[Actor] - CallAmount(round, Actor, chips[Actor])
  IN  {maxRaise} \union round.lastDelta .. maxRaise

BotRaises(asked) ==
  /\ BotToAct /\ StrategyAnswers
  /\ asked \in RaiseAmounts
  /\ LET stack == chips[Actor]
         by    == NormalizedRaise(round, Actor, stack, asked)
     IN  IF RaiseIsValid(round, Actor, stack, by)
         THEN /\ PutIn(RaiseAdds(round, Actor, stack, by))
              /\ round' = Raised(round, Actor, stack, by, Seated)
         ELSE /\ folded' = [folded EXCEPT ![Actor] = TRUE]
              /\ round' = Answered(round, Actor)
              /\ UNCHANGED <<chips, allIn, totalBets>>
  /\ ActionApplied

\* getPlayerActionSafe: the strategy threw; the third strike in a row sits the
\* bot out, and the bot checks or folds.
StrategyFails ==
  /\ BotToAct
  /\ strikes' = [strikes EXCEPT ![Actor] = Lesser(@ + 1, MaxStrikes)]
  /\ seatStatus' = [seatStatus EXCEPT ![Actor] =
                      IF strikes'[Actor] >= MaxStrikes /\ @ = "active"
                      THEN "sitting_out" ELSE @]
  /\ CheckOrFold
  /\ ActionApplied

\* The sleep after an action is over.
NextTurn ==
  /\ pc = "acted" /\ Wakes
  /\ pc' = "act" /\ cur' = NextActive(cur)
  /\ UNCHANGED <<seatVars, playerVars, totalBets, street, round, itersLeft,
                 potVars, gameVars>>

-----------------------------------------------------------------------------
(* The rest of playHand *)

RoundOver == pc = "act" /\ (RoundComplete \/ itersLeft = 0)

\* More than one bot is left: deal the next street and sleep.
NextStreet ==
  /\ RoundOver /\ Cardinality(ActivePlayers) > 1 /\ street < 3
  /\ CloseRound /\ street' = street + 1 /\ pc' = "street"
  /\ cur' = 1 /\ itersLeft' = 0
  /\ UNCHANGED <<seatVars, playerVars, totalBets, potVars, gameVars>>

BeginStreet ==
  /\ pc = "street" /\ Wakes
  /\ cur' = NextActive(dealerIndex) /\ itersLeft' = 4 * Len(players)
  /\ pc' = "act"
  /\ UNCHANGED <<seatVars, playerVars, totalBets, street, round, potVars, gameVars>>

\* awardPot: the bot that is left takes everything, then the loop sleeps.
AwardPot ==
  /\ RoundOver /\ Cardinality(ActivePlayers) = 1
  /\ chips' = [b \in Bots |-> IF b \in ActivePlayers THEN chips[b] + InPot
                              ELSE chips[b]]
  /\ totalBets' = Zero
  /\ CloseRound /\ street' = 0 /\ cur' = 1 /\ itersLeft' = 0 /\ pc' = "award"
  /\ UNCHANGED <<seatVars, seatStatus, strikes, folded, allIn, potVars, gameVars>>

\* awardPot with nobody left: activePlayers()[0] is undefined, the hand throws.
AwardPotThrows ==
  /\ RoundOver /\ ActivePlayers = {}
  /\ CloseRound /\ street' = 0 /\ cur' = 1 /\ itersLeft' = 0
  /\ pc' = "crash" /\ handInProgress' = FALSE
  /\ UNCHANGED <<seatVars, playerVars, totalBets, potVars, running, status,
                 pendingMutations, expectedTotalChips, starts>>

-----------------------------------------------------------------------------
(* showdown: the pots of calculatePots, settled from the highest level down *)

Levels          == {t \in {totalBets[b] : b \in Seated} : t > 0}
HighestOf(S)    == IF S = {} THEN 0 ELSE CHOOSE x \in S : \A y \in S : y <= x
LevelBelow(l)   == HighestOf({t \in Levels : t < l})
Contributors(l) == {b \in Seated : totalBets[b] >= l}
Eligible_AnyLevel(l) == {b \in Seated : ~folded[b]}   \* mutant: total >= level dropped
Eligible(l)     == {b \in Contributors(l) : ~folded[b]}
Slice_OfEligible(l) == (l - LevelBelow(l)) * Cardinality(Eligible(l))   \* mutant
Slice(l)        == (l - LevelBelow(l)) * Cardinality(Contributors(l))

\* The rankings the cards can produce: the bots in the hand, best last, with ties.
Rankings ==
  {r \in [Bots -> 0 .. Cardinality(Bots)] :
     /\ \A b \in Bots : r[b] = 0 <=> b \notin ActivePlayers
     /\ \A b \in ActivePlayers : r[b] > 1 => \E c \in Bots : r[c] = r[b] - 1}

Showdown ==
  /\ RoundOver /\ Cardinality(ActivePlayers) > 1 /\ street = 3
  /\ rank' \in Rankings
  /\ level' = HighestOf(Levels) /\ dead' = 0 /\ payouts' = Zero
  /\ CloseRound /\ street' = 0 /\ cur' = 1 /\ itersLeft' = 0 /\ pc' = "settle"
  /\ UNCHANGED <<seatVars, playerVars, totalBets, gameVars>>

\* determineWinners, in seat order.
Best(S)   == {b \in S : \A c \in S : rank[c] <= rank[b]}
First(S)  == CHOOSE b \in S : \A c \in S : SeatOf(b) <= SeatOf(c)

\* A pot is shared equally; what is left over goes to the first winner.
Share_NoOddChips(pot, winners, b) ==   \* mutant: the remainder is dropped
  IF b \notin winners THEN 0 ELSE pot \div Cardinality(winners)
Share(pot, winners, b) ==
  IF b \notin winners THEN 0
  ELSE (pot \div Cardinality(winners))
         + (IF b = First(winners) THEN pot % Cardinality(winners) ELSE 0)

\* The bots a pot is contested by: every bot in the hand when none is eligible.
Contenders(l) ==
  IF Eligible(l) \intersect ActivePlayers # {}
  THEN Eligible(l) \intersect ActivePlayers ELSE ActivePlayers

\* A level all of whose contributors folded is dead money of the pot below it.
SettlePot ==
  /\ pc = "settle"
  /\ LET below == LevelBelow(level)
         pot   == Slice(level) + dead
     IN  /\ IF Eligible(level) = {} /\ below > 0
            THEN dead' = pot /\ UNCHANGED payouts
            ELSE /\ dead' = 0
                 /\ payouts' = [b \in Bots |->
                      payouts[b] + Share(pot, Best(Contenders(level)), b)]
         /\ level' = below
         /\ pc' = IF below = 0 THEN "reveal" ELSE "settle"
  /\ UNCHANGED <<seatVars, playerVars, handVars, rank, gameVars>>

-----------------------------------------------------------------------------
(* The end of a hand *)

HandOver ==
  /\ pc' = "drain" /\ handInProgress' = FALSE
  /\ UNCHANGED <<seatVars, seatStatus, strikes, folded, allIn, street, round, cur,
                 itersLeft, running, status, pendingMutations,
                 expectedTotalChips, starts>>

\* After the cards were revealed the winnings are paid.
Distribute ==
  /\ pc = "reveal" /\ Wakes
  /\ chips' = [b \in Bots |-> chips[b] + payouts[b]]
  /\ totalBets' = Zero
  /\ rank' = Zero /\ level' = 0 /\ dead' = 0 /\ payouts' = Zero
  /\ HandOver

PotAwarded ==
  /\ pc = "award" /\ Wakes
  /\ HandOver
  /\ UNCHANGED <<chips, totalBets, potVars>>

\* startGame drains after a hand, and in its catch.
DrainPoints_NotInCatch == {"drain"}   \* mutant
DrainPoints == {"drain", "crash"}

\* drainPendingMutations, one mutation a step; one that throws is dropped.
Drain ==
  /\ pc \in DrainPoints /\ pendingMutations # <<>>
  /\ pendingMutations' = Tail(pendingMutations)
  /\ LET m == Head(pendingMutations)
     IN  IF m.op = "remove" THEN RemovePlayerImmediate(m.bot)
         ELSE \/ AddPlayerImmediate(m.bot, m.chips, m.at)
              \/ /\ m.bot \in Seated /\ ~Disconnected(m.bot)
                 /\ UNCHANGED <<seatVars, playerVars, expectedTotalChips, starts>>
  /\ UNCHANGED <<handVars, potVars, pc, running, status, handInProgress>>

\* assertChipConservation
CheckChips ==
  /\ pc = "drain" /\ pendingMutations = <<>>
  /\ pc' = IF TotalChips = expectedTotalChips THEN "hook" ELSE "crash"
  /\ UNCHANGED <<seatVars, playerVars, handVars, potVars, gameVars>>

\* The catch of startGame, once the deferred mutations are drained.
GameFails ==
  /\ pc = "crash" /\ pendingMutations = <<>>
  /\ running' = FALSE /\ status' = "error" /\ pc' = "idle"
  /\ UNCHANGED <<seatVars, playerVars, handVars, potVars, handInProgress,
                 pendingMutations, expectedTotalChips, starts>>

\* The inter-hand hook returns; the button moves to the next bot with chips.
AdvanceDealer ==
  /\ pc = "hook"
  /\ dealerIndex' = FirstSeatAfter(dealerIndex, Playable) /\ pc' = "sleep"
  /\ UNCHANGED <<players, playerVars, handVars, potVars, gameVars>>

-----------------------------------------------------------------------------
BotActs == BotChecksOrFolds \/ BotCalls \/ StrategyFails
             \/ \E n \in RaiseAmounts : BotRaises(n)

Hand == BeginHand \/ SkipSeat \/ GhostActs \/ (BotToAct /\ BotActs) \/ NextTurn
          \/ NextStreet \/ BeginStreet \/ AwardPot \/ AwardPotThrows
          \/ Showdown \/ SettlePot \/ Distribute \/ PotAwarded

Loop == FinishGame \/ Hand \/ Drain \/ CheckChips \/ GameFails \/ AdvanceDealer

Callers == \/ \E b \in Bots : RemovePlayer(b) \/ ReactivatePlayer(b)
           \/ \E b \in Bots, stack \in BuyIns, at \in 0 .. Len(players) :
                AddPlayer(b, stack, at)

Next == Loop \/ StartGame \/ Callers

Spec == Init /\ [][Next]_vars

\* Timers fire and promises resolve: the loop is never suspended for ever, and
\* a setImmediate callback runs. Nothing is assumed of the callers.
Fairness == WF_vars(Loop) /\ WF_vars(StartGame)
FairSpec == Spec /\ Fairness

\* Nobody touches a table whose game is in error.
LiveNext == Loop \/ StartGame \/ (status # "error" /\ Callers)
LiveSpec == Init /\ [][LiveNext]_vars /\ Fairness
-----------------------------------------------------------------------------
(* Properties *)

Streets  == 0 .. 3
Controls == {"idle", "top", "act", "acted", "street", "award", "reveal",
             "settle", "drain", "crash", "hook", "sleep"}

\* Every variable has the type of the field it models, and the seats hold
\* distinct bots: addPlayerImmediate never seats a bot twice.
TypeOK ==
  /\ players \in Seq(Bots)
  /\ \A i, j \in Seats : players[i] = players[j] => i = j
  /\ dealerIndex \in Nat \ {0}
  /\ chips \in [Bots -> Int] /\ totalBets \in [Bots -> Int]
  /\ seatStatus \in [Bots -> Statuses] /\ strikes \in [Bots -> 0 .. MaxStrikes]
  /\ folded \in [Bots -> BOOLEAN] /\ allIn \in [Bots -> BOOLEAN]
  /\ pc \in Controls /\ street \in Streets
  /\ round \in Rounds
  /\ cur \in Nat \ {0} /\ itersLeft \in Nat
  /\ rank \in [Bots -> Nat] /\ payouts \in [Bots -> Int]
  /\ level \in Int /\ dead \in Int
  /\ running \in BOOLEAN /\ handInProgress \in BOOLEAN
  /\ status \in {"waiting", "running", "finished", "error"}
  /\ pendingMutations \in Seq(Mutations)
  /\ expectedTotalChips \in Int /\ starts \in Nat

\* Chips are neither made nor lost while bots join, leave in mid-hand, and win:
\* what assertChipConservation tests between hands holds at every step, until
\* a hand throws.
ChipConservation ==
  pc # "crash" /\ status # "error" => TotalChips = expectedTotalChips

\* The pots of calculatePots, with the dead money merged down and the odd chips
\* given out, award exactly what was bet.
PotsCoverBets == pc = "reveal" => SumFunction(payouts) = InPot

\* A bot wins from each bot that is still in the hand at most what it put in itself,
\* and a bot that folded wins nothing: calculatePots makes a bot eligible for its own
\* levels only. The chips of a bot that folded or left can all go to one winner, those
\* above every other bet included: the cap of bettingRoundLoop may end a street before
\* the last raise was answered, and the raiser folds on the next one.
Forfeits(c) == folded[c] \/ Disconnected(c)
CanWinFrom(b, c) == IF Forfeits(c) THEN totalBets[c] ELSE Lesser(totalBets[c], totalBets[b])
SidePotCap ==
  pc = "reveal" =>
    \A b \in Bots :
      /\ payouts[b] <= SumFunction([c \in Bots |-> CanWinFrom(b, c)])
      /\ payouts[b] > 0 => ~folded[b]

\* A hand never throws and never fails the conservation check: the catch of
\* startGame is not reached.
HandNeverThrows == pc # "crash"

\* bettingRoundLoop asks a bot for an action only when it still owes one: it
\* has not answered the current bet, or has not matched it.
ActsOnlyWhenOwed ==
  [][pc = "act" /\ pc' = "acted" =>
       Actor \notin round.acted \/ ~CanCheck(round, Actor)]_vars

\* While a hand is played nobody takes a seat, leaves one or moves the button:
\* the indices the loop keeps over its awaits stay valid.
SeatingFrozenMidHand ==
  [][handInProgress /\ handInProgress' => UNCHANGED seatVars]_vars

\* A bot seated in front of the button does not take the button from its bot.
ButtonStaysWithBot ==
  [][players # <<>> /\ players' # players =>
       players'[dealerIndex'] = players[dealerIndex]]_vars

\* A table promises what ChipLedger says of the stacks and the pot.
Ledger     == INSTANCE ChipLedger WITH stack <- chips, staked <- totalBets
LedgerSpec == Ledger!Spec

\* Every hand ends, whatever the bots do and whoever leaves: the iteration cap
\* of bettingRoundLoop ends a street that nobody can end.
HandEnds == handInProgress ~> ~handInProgress

\* A deferred join or leave is applied, also when the hand throws.
MutationsDrained == pendingMutations # <<>> ~> pendingMutations = <<>>
=============================================================================
