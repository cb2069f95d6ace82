---------------------------- MODULE BettingRound ----------------------------
(***************************************************************************)
(* One street of betting: src/src/domain/betting.ts, class BettingRound.    *)
(* A round is a record                                                      *)
(*   bets      what each bot has put in on this street (betsThisRound)       *)
(*   maxBet    the bet to match (currentMaxBet)                              *)
(*   lastDelta the smallest legal raise (lastRaiseDelta)                     *)
(*   acted     the bots that answered maxBet (actedPlayers)                  *)
(*   full      the last raise was a full one (lastRaiseWasFull)              *)
(*   reopened  the bots the last full raise reopened the betting for         *)
(* Neither the raises of the street nor the last raiser is kept: applyAction *)
(* counts them, but only canReraise and getValidActionsForPlayer read them,   *)
(* which no caller in src uses.                                               *)
(* The stack of the acting bot belongs to the table, and is a parameter.     *)
(***************************************************************************)
EXTENDS Integers, FiniteSets

CONSTANTS Bots,      \* the bots that may ever sit at the table
          BigBlind   \* the big blind, the smallest bet of a street

ASSUME BigBlindAssumption == BigBlind \in Nat \ {0}

Lesser(m, n)  == IF m < n THEN m ELSE n
Greater(m, n) == IF m > n THEN m ELSE n

NoBets == [b \in Bots |-> 0]

NewRound == [bets |-> NoBets, maxBet |-> 0, lastDelta |-> BigBlind,
             acted |-> {}, full |-> TRUE, reopened |-> {}]

Rounds == [bets : [Bots -> Int], maxBet : Int, lastDelta : Int,
           acted : SUBSET Bots, full : BOOLEAN, reopened : SUBSET Bots]

-----------------------------------------------------------------------------
ToCall(r, b)            == r.maxBet - r.bets[b]
CallAmount(r, b, stack) == Lesser(ToCall(r, b), stack)
CanCheck(r, b)          == r.bets[b] >= r.maxBet

\* applyAction, "fold" and "check": the bot has answered, nothing is added.
Answered(r, b) == [r EXCEPT !.acted = @ \union {b}]

\* applyAction, "call".
Called(r, b, stack) ==
  [Answered(r, b) EXCEPT !.bets[b] = @ + CallAmount(r, b, stack)]

\* applyAction, "raise": the delta rule, which an all-in for less escapes.
RaiseIsValid(r, b, stack, by) ==
  /\ by > 0
  /\ \/ by >= r.lastDelta
     \/ stack <= ToCall(r, b) + by

\* applyAction, "raise": what the raise adds, and the round it leaves.
RaiseAdds_NotCapped(r, b, stack, by) == ToCall(r, b) + by   \* mutant
RaiseAdds(r, b, stack, by) == Lesser(ToCall(r, b) + by, stack)

Raised(r, b, stack, by, seated) ==
  LET newBet == r.bets[b] + RaiseAdds(r, b, stack, by)
      delta  == newBet - r.maxBet
      isFull == delta >= r.lastDelta
  IN  IF delta <= 0
      THEN [r EXCEPT !.bets[b] = newBet]
      ELSE [bets      |-> [r.bets EXCEPT ![b] = newBet],
            maxBet    |-> newBet,
            lastDelta |-> IF isFull THEN Greater(BigBlind, delta) ELSE r.lastDelta,
            acted     |-> {b},
            full      |-> isFull,
            reopened  |-> IF isFull THEN seated \ {b} ELSE r.reopened]

\* normalizeRaiseAction: a raise below the minimum is snapped up to it, or is
\* an all-in when the stack cannot pay for the minimum. The all_in action asks
\* for maxRaise = stack - toCall, and takes the second branch when that is short.
NormalizedRaise(r, b, stack, by) ==
  LET toCall == CallAmount(r, b, stack)
  IN  IF by >= r.lastDelta THEN by
      ELSE IF stack >= toCall + r.lastDelta THEN r.lastDelta
      ELSE Greater(1, stack - toCall)

\* isBettingComplete: at most one bot is left, or every bot that can still act
\* has acted and matched. A disconnected bot that has not folded counts.
BettingComplete(r, seated, stacks, folded, allIn) ==
  LET canAct == {b \in seated : ~folded[b] /\ ~allIn[b] /\ stacks[b] > 0}
  IN  \/ Cardinality({b \in seated : ~folded[b]}) <= 1
      \/ \A b \in canAct : b \in r.acted /\ r.bets[b] >= r.maxBet
=============================================================================
