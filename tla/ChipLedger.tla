----------------------------- MODULE ChipLedger -----------------------------
(***************************************************************************)
(* What a poker table promises about chips, whatever the hands are like:    *)
(* a bot brings chips in and takes its stack out between hands only, a hand  *)
(* moves chips of a bot from its stack to the pot, and the pot goes back to  *)
(* the stacks in one step that neither makes nor loses a chip.               *)
(***************************************************************************)
EXTENDS Integers, Functions

CONSTANTS Bots, BuyIns

VARIABLES stack,   \* what each bot has in front of it
          staked   \* what each bot has in the pot

vars == <<stack, staked>>

NoStakes == [b \in Bots |-> 0]

Init == stack = [b \in Bots |-> 0] /\ staked = NoStakes

Join(b) ==
  /\ staked = NoStakes /\ stack[b] = 0
  /\ \E n \in BuyIns : stack' = [stack EXCEPT ![b] = n]
  /\ UNCHANGED staked

Leave(b) ==
  /\ staked = NoStakes
  /\ stack' = [stack EXCEPT ![b] = 0]
  /\ UNCHANGED staked

Stake ==
  \A b \in Bots : /\ staked'[b] >= staked[b]
                  /\ stack'[b] >= 0
                  /\ stack'[b] + staked'[b] = stack[b] + staked[b]

Settle ==
  /\ staked # NoStakes /\ staked' = NoStakes
  /\ \A b \in Bots : stack'[b] >= stack[b]
  /\ SumFunction(stack') = SumFunction(stack) + SumFunction(staked)

Next == Stake \/ Settle \/ \E b \in Bots : Join(b) \/ Leave(b)

Spec == Init /\ [][Next]_vars
=============================================================================
