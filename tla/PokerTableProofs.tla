--------------------------- MODULE PokerTableProofs ---------------------------
(***************************************************************************)
(* Theorems about PokerTable, for any number of bots, any stacks, blinds and *)
(* ante, any seats and any order of joins and leaves.  First the seats: the  *)
(* types, the button, the removals.  Then the chips: the inductive invariant *)
(* behind chip conservation, the pots, and the stacks that never go below    *)
(* zero.  Last the turn: in a simulated table nobody is asked for an answer   *)
(* it does not owe.                                                         *)
(***************************************************************************)
EXTENDS PokerTable, SumLemmas, SequenceTheorems

-----------------------------------------------------------------------------
(* Searching the seats *)

\* A non-empty set of natural numbers has a least element.
LEMMA LeastExists ==
  ASSUME NEW H \in SUBSET Nat, H # {}
  PROVE  \E k \in H : \A j \in H : k <= j
<1>1. PICK k \in H : \A j \in H : ~(<<j, k>> \in OpToRel(<, Nat))
      BY NatLessThanWellFounded, WFMin
<1>2. ASSUME NEW j \in H PROVE k <= j
  <2>1. j < k => <<j, k>> \in OpToRel(<, Nat)
        BY DEF OpToRel
  <2>2. ~(j < k)
        BY <1>1, <2>1
  <2>3. j \in Nat /\ k \in Nat
        OBVIOUS
  <2> QED BY <2>2, <2>3
<1> QED BY <1>2

\* The search of nextActiveIndex ends at a seat of the table.
LEMMA FirstSeatAfterIsSeat ==
  ASSUME players \in Seq(Bots), players # <<>>, NEW i \in Seats, NEW passes
  PROVE  FirstSeatAfter(i, passes) \in Seats
<1> DEFINE hits == {k \in Seats : players[Clockwise(i, k)] \in passes}
<1>1. Len(players) \in Nat \ {0}
      OBVIOUS
<1>2. \A k \in Seats : Clockwise(i, k) \in Seats
      BY <1>1 DEF Clockwise, Seats
<1>3. CASE hits = {}
      BY <1>1, <1>2, <1>3 DEF FirstSeatAfter, Seats
<1>4. CASE hits # {}
  <2>1. hits \in SUBSET Nat
        BY <1>1 DEF Seats
  <2>2. (CHOOSE k \in hits : \A j \in hits : k <= j) \in hits
    <3> HIDE DEF hits
    <3> QED BY <1>4, <2>1, LeastExists
  <2> QED BY <1>2, <1>4, <2>2 DEF FirstSeatAfter
<1> QED BY <1>3, <1>4

-----------------------------------------------------------------------------
(* The invariant that makes the types inductive *)

HandControls == {"act", "acted", "street", "award", "reveal", "settle"}

\* handInProgress is set exactly while playHand runs, and running while the
\* loop of startGame does.
Control ==
  /\ handInProgress <=> pc \in HandControls
  /\ pc # "idle" => running

\* The button and the turn are at seats of the table, once it has any.
SeatsInRange ==
  /\ dealerIndex \in Seats \/ (players = <<>> /\ dealerIndex = 1)
  /\ pc \notin {"idle", "top"} => players # <<>>
  /\ pc \in {"act", "acted"} => cur \in Seats

TypeInv == TypeOK /\ Control /\ SeatsInRange

-----------------------------------------------------------------------------
(* Types of the expressions the actions use *)

LEMMA PotIsInt ==
  ASSUME TypeOK
  PROVE  InPot \in Int /\ InStacks \in Int
BY TableAssumption, SumIsInt DEF TypeOK, InPot, InStacks

LEMMA SeatedAreBots ==
  ASSUME TypeOK
  PROVE  Seated \subseteq Bots /\ \A i \in Seats : players[i] \in Bots
<1>1. players \in Seq(Bots)
      BY DEF TypeOK
<1>2. \A i \in Seats : players[i] \in Bots
      BY <1>1 DEF Seats
<1> QED BY <1>2 DEF Seated

LEMMA SeatedAreFinite ==
  ASSUME TypeOK, NEW S \in SUBSET Seated
  PROVE  IsFiniteSet(S) /\ Cardinality(S) \in Nat /\ (S # {} => Cardinality(S) > 0)
<1>1. S \in SUBSET Bots
      BY SeatedAreBots
<1>2. IsFiniteSet(S)
      BY <1>1, TableAssumption, FS_Subset
<1> QED BY <1>2, FS_CardinalityType, FS_EmptySet

\* Splicing one element into a sequence.
Spliced(s, at, b) == SubSeq(s, 1, at) \o <<b>> \o SubSeq(s, at + 1, Len(s))

LEMMA SplicedIn ==
  ASSUME NEW S, NEW s \in Seq(S), NEW b \in S, NEW at \in Nat, at < Len(s)
  PROVE  /\ Spliced(s, at, b) \in Seq(S)
         /\ Len(Spliced(s, at, b)) = Len(s) + 1
         /\ \A i \in 1 .. Len(s) + 1 :
               Spliced(s, at, b)[i] =
                  IF i <= at THEN s[i] ELSE IF i = at + 1 THEN b ELSE s[i - 1]
<1> DEFINE n == Len(s)
           p == SubSeq(s, 1, at)
           q == SubSeq(s, at + 1, n)
           pb == p \o <<b>>
           t == pb \o q
<1>1. n \in Nat /\ \A i \in 1 .. n : s[i] \in S
      OBVIOUS
<1>2. /\ p \in Seq(S) /\ Len(p) = at
      /\ \A i \in 1 .. at : p[i] = s[i]
  <2>1. \A i \in 1 .. at : s[i] \in S
        BY <1>1
  <2>2. /\ p \in Seq(S)
        /\ Len(p) = IF 1 <= at THEN at - 1 + 1 ELSE 0
        /\ \A i \in 1 .. at - 1 + 1 : p[i] = s[1 + i - 1]
        BY <2>1, SubSeqProperties
  <2> HIDE DEF p
  <2> QED BY <2>2
<1>3. /\ q \in Seq(S) /\ Len(q) = n - at
      /\ \A i \in 1 .. n - at : q[i] = s[at + i]
  <2>1. \A i \in at + 1 .. n : s[i] \in S
        BY <1>1
  <2>2. /\ q \in Seq(S)
        /\ Len(q) = IF at + 1 <= n THEN n - (at + 1) + 1 ELSE 0
        /\ \A i \in 1 .. n - (at + 1) + 1 : q[i] = s[at + 1 + i - 1]
        BY <1>1, <2>1, SubSeqProperties
  <2> HIDE DEF q
  <2> QED BY <1>1, <2>2
<1> HIDE DEF p, q
<1>4. /\ pb \in Seq(S) /\ Len(pb) = at + 1
      /\ \A i \in 1 .. at + 1 : pb[i] = IF i <= at THEN p[i] ELSE b
  <2>1. <<b>> \in Seq(S) /\ Len(<<b>>) = 1 /\ <<b>>[1] = b
        OBVIOUS
  <2>2. /\ pb \in Seq(S) /\ Len(pb) = at + 1
        /\ \A i \in 1 .. at + 1 : pb[i] = IF i <= at THEN p[i] ELSE <<b>>[i - at]
        BY <1>2, <2>1, ConcatProperties
  <2> HIDE DEF pb
  <2> QED BY <2>1, <2>2
<1> HIDE DEF pb
<1>5. /\ t \in Seq(S) /\ Len(t) = Len(pb) + Len(q)
      /\ \A i \in 1 .. Len(pb) + Len(q) :
            t[i] = IF i <= Len(pb) THEN pb[i] ELSE q[i - Len(pb)]
      BY <1>3, <1>4, ConcatProperties
<1> HIDE DEF t, n
<1>6. at < n
      BY DEF n
<1>7. Len(t) = n + 1
      BY <1>1, <1>3, <1>4, <1>5
<1>8. ASSUME NEW i \in 1 .. n + 1
      PROVE  t[i] = IF i <= at THEN s[i] ELSE IF i = at + 1 THEN b ELSE s[i - 1]
  <2>1. t[i] = IF i <= at + 1 THEN pb[i] ELSE q[i - (at + 1)]
        BY <1>1, <1>3, <1>4, <1>5
  <2>2. CASE i <= at + 1
    <3>1. t[i] = IF i <= at THEN p[i] ELSE b
          BY <1>1, <1>4, <2>1, <2>2
    <3> QED BY <1>1, <1>2, <2>2, <3>1
  <2>3. CASE ~(i <= at + 1)
    <3>1. i - (at + 1) \in 1 .. n - at /\ at + (i - (at + 1)) = i - 1
          BY <1>1, <1>6, <2>3
    <3>2. q[i - (at + 1)] = s[i - 1]
          BY <1>3, <3>1
    <3>3. ~(i <= at) /\ i # at + 1
          BY <1>1, <2>3
    <3> QED BY <2>1, <2>3, <3>2, <3>3
  <2> QED BY <2>2, <2>3
<1>9. t = Spliced(s, at, b)
      BY DEF t, pb, p, q, n, Spliced
<1> QED BY <1>5, <1>7, <1>8, <1>9 DEF n

\* A bot is inserted at its place, and the button stays at a seat.
LEMMA InsertSeats ==
  ASSUME TypeOK, SeatsInRange, NEW b \in Bots, NEW at \in Nat,
         b \notin Seated, Insert(b, at)
  PROVE  /\ players' \in Seq(Bots) /\ players' # <<>>
         /\ \A i, j \in 1 .. Len(players') : players'[i] = players'[j] => i = j
         /\ dealerIndex' \in 1 .. Len(players')
<1> DEFINE n == Len(players)
<1>1. n \in Nat /\ \A i \in 1 .. n : players[i] \in Bots /\ players[i] # b
  <2>1. players \in Seq(Bots)
        BY DEF TypeOK
  <2> QED BY <2>1 DEF Seated, Seats
<1>2. \A i, j \in 1 .. n : players[i] = players[j] => i = j
      BY DEF TypeOK, Seats
<1>3. CASE at < n
  <2>1. /\ players' = SubSeq(players, 1, at) \o <<b>> \o SubSeq(players, at + 1, n)
        /\ dealerIndex' = ButtonAfterInsert(at)
        BY <1>3 DEF Insert
  <2>2. /\ players' \in Seq(Bots) /\ Len(players') = n + 1
        /\ \A i \in 1 .. n + 1 :
              players'[i] = IF i <= at THEN players[i]
                            ELSE IF i = at + 1 THEN b ELSE players[i - 1]
    <3>1. players \in Seq(Bots)
          BY DEF TypeOK
    <3>2. players' = Spliced(players, at, b)
          BY <2>1 DEF Spliced
    <3> QED BY <1>3, <3>1, <3>2, SplicedIn
  <2>4. ASSUME NEW i \in 1 .. n + 1, NEW j \in 1 .. n + 1, players'[i] = players'[j]
        PROVE  i = j
    <3> DEFINE old(k) == IF k <= at THEN k ELSE k - 1
    <3>1. \A k \in 1 .. n + 1 : k # at + 1 =>
             /\ old(k) \in 1 .. n
             /\ players'[k] = players[old(k)]
          BY <1>1, <1>3, <2>2
    <3>2. players'[at + 1] = b
          BY <1>1, <1>3, <2>2
    <3>3. CASE i = at + 1 \/ j = at + 1
          BY <1>1, <2>4, <3>1, <3>2, <3>3
    <3>4. CASE i # at + 1 /\ j # at + 1
      <4>1. old(i) = old(j)
        <5> HIDE DEF old
        <5> QED BY <1>2, <2>4, <3>1, <3>4
      <4> QED BY <1>1, <3>4, <4>1
    <3> QED BY <3>3, <3>4
  <2>5. dealerIndex \in 1 .. n
        BY <1>1, <1>3 DEF SeatsInRange, Seats
  <2>6. dealerIndex' \in 1 .. n + 1
        BY <1>1, <2>1, <2>5 DEF ButtonAfterInsert
  <2> QED BY <1>1, <2>2, <2>4, <2>6
<1>4. CASE ~(at < n)
  <2>1. players' = Append(players, b) /\ dealerIndex' = dealerIndex
        BY <1>4 DEF Insert
  <2>2. players' \in Seq(Bots) /\ Len(players') = n + 1
        BY <2>1 DEF TypeOK
  <2>3. \A i \in 1 .. n + 1 : players'[i] = IF i <= n THEN players[i] ELSE b
        BY SMTT(60), <1>1, <2>1 DEF TypeOK
  <2>4. \A i, j \in 1 .. n + 1 : players'[i] = players'[j] => i = j
        BY <1>1, <1>2, <2>3
  <2>5. dealerIndex' \in 1 .. n + 1
        BY <1>1, <2>1 DEF SeatsInRange, Seats
  <2> QED BY <1>1, <2>2, <2>4, <2>5
<1> QED BY <1>3, <1>4

-----------------------------------------------------------------------------
(* What the operators of BettingRound return *)

LEMMA NewRoundType == NewRound \in Rounds
BY BigBlindAssumption DEF NewRound, Rounds, NoBets

LEMMA CallAmountType ==
  ASSUME NEW r \in Rounds, NEW b \in Bots, NEW stack \in Int
  PROVE  CallAmount(r, b, stack) \in Int /\ ToCall(r, b) \in Int
BY DEF CallAmount, ToCall, Lesser, Rounds

LEMMA AnsweredType ==
  ASSUME NEW r \in Rounds, NEW b \in Bots
  PROVE  Answered(r, b) \in Rounds
BY DEF Answered, Rounds

LEMMA CalledType ==
  ASSUME NEW r \in Rounds, NEW b \in Bots, NEW stack \in Int
  PROVE  Called(r, b, stack) \in Rounds
<1>1. CallAmount(r, b, stack) \in Int
      BY CallAmountType
<1> DEFINE a == Answered(r, b)
<1>2. a \in Rounds
      BY AnsweredType
<1>3. Called(r, b, stack) = [a EXCEPT !.bets[b] = @ + CallAmount(r, b, stack)]
      BY DEF Called
<1> HIDE DEF a
<1> QED BY <1>1, <1>2, <1>3 DEF Rounds

LEMMA RaiseType ==
  ASSUME NEW r \in Rounds, NEW b \in Bots, NEW stack \in Int, NEW by \in Int
  PROVE  RaiseAdds(r, b, stack, by) \in Int /\ NormalizedRaise(r, b, stack, by) \in Int
<1>1. CallAmount(r, b, stack) \in Int /\ ToCall(r, b) \in Int
      BY CallAmountType
<1>2. r.lastDelta \in Int
      BY DEF Rounds
<1> QED BY <1>1, <1>2 DEF RaiseAdds, NormalizedRaise, Lesser, Greater

LEMMA RaisedType ==
  ASSUME NEW r \in Rounds, NEW b \in Bots, NEW stack \in Int, NEW by \in Int,
         NEW seated \in SUBSET Bots
  PROVE  Raised(r, b, stack, by, seated) \in Rounds
<1>1. RaiseAdds(r, b, stack, by) \in Int
      BY RaiseType
<1> QED BY <1>1, BigBlindAssumption DEF Raised, Rounds, Greater

-----------------------------------------------------------------------------
(* What the operators of the showdown return *)

LEMMA HighestOfLevels ==
  ASSUME TypeOK, NEW S \in SUBSET Levels
  PROVE  /\ HighestOf(S) \in Int
         /\ S # {} => HighestOf(S) \in S /\ \A y \in S : y <= HighestOf(S)
<1>1. CASE S = {}
      BY <1>1 DEF HighestOf
<1>2. CASE S # {}
  <2> DEFINE B == {b \in Seated : totalBets[b] \in S}
  <2>1. /\ totalBets \in [Bots -> Int] /\ Seated \subseteq Bots
        /\ \A t \in S : \E b \in Seated : t = totalBets[b]
        BY SeatedAreBots DEF TypeOK, Levels
  <2>2. B \in SUBSET Bots /\ B # {}
        BY <1>2, <2>1
  <2>3. PICK b \in B : \A c \in B : totalBets[c] <= totalBets[b]
    <3> HIDE DEF B
    <3> QED BY <2>1, <2>2, GreatestExists, TableAssumption
  <2>4. totalBets[b] \in S /\ \A y \in S : y <= totalBets[b]
        BY <2>1, <2>3
  <2>5. HighestOf(S) = CHOOSE x \in S : \A y \in S : y <= x
        BY <1>2 DEF HighestOf
  <2>6. HighestOf(S) \in S /\ \A y \in S : y <= HighestOf(S)
        BY <2>4, <2>5
  <2> QED BY <2>1, <2>6
<1> QED BY <1>1, <1>2

LEMMA LevelBelowType ==
  ASSUME TypeOK, NEW l \in Int
  PROVE  LevelBelow(l) \in Int
BY HighestOfLevels DEF LevelBelow

LEMMA SliceType ==
  ASSUME TypeOK, NEW l \in Int
  PROVE  Slice(l) \in Int
<1>1. LevelBelow(l) \in Int
      BY LevelBelowType
<1>2. Cardinality(Contributors(l)) \in Nat
      BY SeatedAreFinite DEF Contributors
<1> QED BY <1>1, <1>2 DEF Slice

LEMMA ShareType ==
  ASSUME TypeOK, NEW pot \in Int, NEW W \in SUBSET Seated, NEW b
  PROVE  Share(pot, W, b) \in Int
<1>1. CASE b \notin W
      BY <1>1 DEF Share
<1>2. CASE b \in W
  <2>1. Cardinality(W) \in Nat /\ Cardinality(W) > 0
        BY <1>2, SeatedAreFinite
  <2>2. pot \div Cardinality(W) \in Int /\ pot % Cardinality(W) \in Int
        BY <2>1
  <2> QED BY <1>2, <2>2 DEF Share
<1> QED BY <1>1, <1>2

LEMMA BestAreSeated ==
  ASSUME NEW l
  PROVE  Best(Contenders(l)) \subseteq Seated
BY DEF Best, Contenders, Eligible, Contributors, ActivePlayers

-----------------------------------------------------------------------------
(* Type correctness *)

\* The variables whose type a seating operation or a deferred one can disturb.
LEMMA SitDownKeepsTypes ==
  ASSUME TypeInv, NEW b \in Bots, NEW stack \in BuyIns, NEW at \in Nat,
         SitDown(b, stack, at),
         UNCHANGED <<handVars, potVars, pc, running, status, handInProgress>>,
         ~handInProgress, pendingMutations' \in Seq(Mutations)
  PROVE  TypeInv'
<1> USE DEF TypeInv
<1>1. /\ players' \in Seq(Bots) /\ players' # <<>>
      /\ \A i, j \in 1 .. Len(players') : players'[i] = players'[j] => i = j
      /\ dealerIndex' \in 1 .. Len(players')
      BY InsertSeats DEF SitDown, CanSit
<1>2. stack \in Nat
      BY TableAssumption
<1>3. TypeOK'
  <2>1. dealerIndex' \in Nat \ {0}
        BY <1>1
  <2>2. chips' \in [Bots -> Int] /\ expectedTotalChips' \in Int
        BY <1>2 DEF SitDown, TypeOK
  <2>3. /\ seatStatus' \in [Bots -> Statuses] /\ strikes' \in [Bots -> 0 .. MaxStrikes]
        /\ folded' \in [Bots -> BOOLEAN] /\ allIn' \in [Bots -> BOOLEAN]
        /\ starts' \in Nat
        BY TableAssumption DEF SitDown, TypeOK, Statuses
  <2> QED BY <1>1, <2>1, <2>2, <2>3 DEF TypeOK, handVars, potVars, Seats
<1>4. pc \notin HandControls
      BY DEF Control
<1>5. Control' /\ SeatsInRange'
      BY <1>1, <1>4 DEF Control, SeatsInRange, Seats, HandControls
<1> QED BY <1>3, <1>5

LEMMA ReconnectKeepsTypes ==
  ASSUME TypeInv, NEW b \in Bots, Reconnect(b),
         UNCHANGED <<handVars, potVars, pc, running, status, handInProgress>>,
         pendingMutations' \in Seq(Mutations)
  PROVE  TypeInv'
<1> USE DEF TypeInv
<1>1. seatStatus' \in [Bots -> Statuses] /\ strikes' \in [Bots -> 0 .. MaxStrikes]
      BY TableAssumption DEF Reconnect, TypeOK, Statuses
<1>2. TypeOK'
      BY <1>1 DEF Reconnect, TypeOK, handVars, potVars, seatVars, Seats
<1>3. Control' /\ SeatsInRange'
      BY DEF Reconnect, Control, SeatsInRange, seatVars, handVars, Seats
<1> QED BY <1>2, <1>3

LEMMA RemoveKeepsTypes ==
  ASSUME TypeInv, NEW b \in Bots, RemovePlayerImmediate(b),
         UNCHANGED <<handVars, potVars, pc, running, status, handInProgress>>,
         pendingMutations' \in Seq(Mutations)
  PROVE  TypeInv'
<1> USE DEF TypeInv
<1>1. TakesAway(b) \in Int
      BY DEF TakesAway, TypeOK
<1>2. /\ seatStatus' \in [Bots -> Statuses] /\ chips' \in [Bots -> Int]
      /\ expectedTotalChips' \in Int
      BY <1>1 DEF RemovePlayerImmediate, TypeOK, Statuses
<1>3. TypeOK'
      BY <1>2 DEF RemovePlayerImmediate, TypeOK, handVars, potVars, seatVars, Seats
<1>4. Control' /\ SeatsInRange'
      BY DEF RemovePlayerImmediate, Control, SeatsInRange, seatVars, handVars, Seats
<1> QED BY <1>3, <1>4

LEMMA DeferredType ==
  ASSUME TypeOK, NEW m \in Mutations
  PROVE  Append(pendingMutations, m) \in Seq(Mutations)
<1>1. pendingMutations \in Seq(Mutations)
      BY DEF TypeOK
<1> QED BY <1>1

LEMMA InitTypes == Init => TypeInv
<1> SUFFICES ASSUME Init PROVE TypeInv
    OBVIOUS
<1>1. TypeOK
  <2>1. /\ players \in Seq(Bots) /\ Seats = {} /\ dealerIndex \in Nat \ {0}
        /\ cur \in Nat \ {0} /\ itersLeft \in Nat
        BY DEF Init, Seats
  <2>2. /\ chips \in [Bots -> Int] /\ totalBets \in [Bots -> Int]
        /\ strikes \in [Bots -> 0 .. MaxStrikes]
        /\ rank \in [Bots -> Nat] /\ payouts \in [Bots -> Int]
        BY TableAssumption DEF Init, Zero
  <2>3. /\ seatStatus \in [Bots -> Statuses]
        /\ folded \in [Bots -> BOOLEAN] /\ allIn \in [Bots -> BOOLEAN]
        BY DEF Init, Nobody, Statuses
  <2>4. pc \in Controls /\ street \in Streets /\ round \in Rounds
        BY NewRoundType DEF Init, Controls, Streets
  <2>5. /\ level \in Int /\ dead \in Int
        /\ expectedTotalChips \in Int /\ starts \in Nat
        BY DEF Init
  <2>7. /\ running \in BOOLEAN /\ handInProgress \in BOOLEAN
        /\ status \in {"waiting", "running", "finished", "error"}
        BY DEF Init
  <2>6. pendingMutations \in Seq(Mutations)
        BY EmptySeq DEF Init
  <2> QED BY <2>1, <2>2, <2>3, <2>4, <2>5, <2>6, <2>7 DEF TypeOK
<1>2. Control /\ SeatsInRange
      BY DEF Init, Control, SeatsInRange, HandControls
<1> QED BY <1>1, <1>2 DEF TypeInv

LEMMA CallersKeepTypes ==
  ASSUME TypeInv, Callers
  PROVE  TypeInv'
<1>1. ASSUME NEW b \in Bots, RemovePlayer(b) PROVE TypeInv'
  <2>1. CASE MutationsDefer
    <3>1. [op |-> "remove", bot |-> b] \in Mutations
          BY DEF Mutations
    <3>2. seatStatus' \in [Bots -> Statuses]
          BY <1>1, <2>1 DEF RemovePlayer, TypeInv, TypeOK, Statuses
    <3>a. pendingMutations' \in Seq(Mutations)
          BY <1>1, <2>1, <3>1, DeferredType DEF RemovePlayer, TypeInv
    <3>3. TypeOK'
          BY <1>1, <2>1, <3>2, <3>a
          DEF RemovePlayer, TypeInv, TypeOK, handVars, potVars, seatVars, Seats
    <3>4. Control' /\ SeatsInRange'
          BY <1>1, <2>1
          DEF RemovePlayer, TypeInv, Control, SeatsInRange, handVars, seatVars, Seats
    <3> QED BY <3>3, <3>4 DEF TypeInv
  <2>2. CASE ~MutationsDefer
        BY <1>1, <2>2, RemoveKeepsTypes DEF RemovePlayer, TypeInv, TypeOK
  <2> QED BY <2>1, <2>2
<1>2. ASSUME NEW b \in Bots, ReactivatePlayer(b) PROVE TypeInv'
  <2>1. /\ seatStatus' \in [Bots -> Statuses] /\ strikes' \in [Bots -> 0 .. MaxStrikes]
        BY <1>2, TableAssumption DEF ReactivatePlayer, TypeInv, TypeOK, Statuses
  <2>2. TypeOK'
        BY <1>2, <2>1
        DEF ReactivatePlayer, TypeInv, TypeOK, handVars, potVars, seatVars, gameVars, Seats
  <2>3. Control' /\ SeatsInRange'
        BY <1>2
        DEF ReactivatePlayer, TypeInv, Control, SeatsInRange, handVars, seatVars, gameVars, Seats
  <2> QED BY <2>2, <2>3 DEF TypeInv
<1>3. ASSUME NEW b \in Bots, NEW stack \in BuyIns, NEW at \in 0 .. Len(players),
             AddPlayer(b, stack, at)
      PROVE  TypeInv'
  <2>1. at \in Nat
        OBVIOUS
  <2>2. CASE MutationsDefer
    <3>1. [op |-> "add", bot |-> b, chips |-> stack, at |-> at] \in Mutations
          BY <2>1 DEF Mutations
    <3>2. pendingMutations' \in Seq(Mutations)
          BY <1>3, <2>2, <3>1, DeferredType DEF AddPlayer, TypeInv
    <3>3. TypeOK'
          BY <1>3, <2>2, <3>2
          DEF AddPlayer, TypeInv, TypeOK, handVars, potVars, seatVars, playerVars, Seats
    <3>4. Control' /\ SeatsInRange'
          BY <1>3, <2>2
          DEF AddPlayer, TypeInv, Control, SeatsInRange, handVars, seatVars, Seats
    <3> QED BY <3>3, <3>4 DEF TypeInv
  <2>3. CASE ~MutationsDefer
    <3>1. pendingMutations' \in Seq(Mutations)
          BY <1>3, <2>3 DEF AddPlayer, TypeInv, TypeOK
    <3>2. CASE SitDown(b, stack, at)
          BY <1>3, <2>1, <2>3, <3>1, <3>2, SitDownKeepsTypes DEF AddPlayer, MutationsDefer
    <3>3. CASE Reconnect(b)
          BY <1>3, <3>1, <3>3, ReconnectKeepsTypes DEF AddPlayer
    <3> QED BY <1>3, <2>3, <3>2, <3>3 DEF AddPlayer, AddPlayerImmediate
  <2> QED BY <2>2, <2>3
<1> QED BY <1>1, <1>2, <1>3 DEF Callers

\* An action that leaves the seats alone keeps the seats in range when it keeps
\* the button and the turn.
LEMMA LoopKeepsTypes ==
  ASSUME TypeInv, FinishGame \/ NextTurn \/ NextStreet \/ BeginStreet
                    \/ AwardPotThrows \/ CheckChips \/ GameFails \/ AdvanceDealer
                    \/ PotAwarded \/ StartGame
  PROVE  TypeInv'
<1> USE DEF TypeInv, seatVars, playerVars, handVars, potVars, gameVars
<1>1. CASE FinishGame
  <2>1. TypeOK' BY <1>1 DEF FinishGame, TypeOK, Seats, Controls
  <2>2. Control' /\ SeatsInRange'
        BY <1>1 DEF FinishGame, AtLoopTop, Control, SeatsInRange, Seats, HandControls
  <2> QED BY <2>1, <2>2
<1>2. CASE StartGame
  <2>1. starts' \in Nat
        BY <1>2 DEF StartGame, TypeOK
  <2>2. TypeOK' BY <1>2, <2>1 DEF StartGame, TypeOK, Seats, Controls
  <2>3. Control' /\ SeatsInRange'
        BY <1>2 DEF StartGame, AtAwait, Control, SeatsInRange, Seats, HandControls
  <2> QED BY <2>2, <2>3
<1>3. CASE NextTurn
  <2>1. cur' \in Seats
        BY <1>3, FirstSeatAfterIsSeat DEF NextTurn, NextActive, TypeOK, SeatsInRange
  <2>2. cur' \in Nat \ {0}
        BY <2>1 DEF Seats
  <2>3. TypeOK' BY <1>3, <2>2 DEF NextTurn, TypeOK, Seats, Controls
  <2>4. Control' /\ SeatsInRange'
        BY <1>3, <2>1 DEF NextTurn, Control, SeatsInRange, Seats, HandControls
  <2> QED BY <2>3, <2>4
<1>4. CASE NextStreet
  <2>1. street' \in Streets /\ itersLeft' \in Nat /\ cur' \in Nat \ {0} /\ round' \in Rounds
        BY <1>4, NewRoundType DEF NextStreet, TypeOK, Streets, CloseRound
  <2>2. TypeOK' BY <1>4, <2>1 DEF NextStreet, TypeOK, Seats, Controls
  <2>3. Control' /\ SeatsInRange'
        BY <1>4 DEF NextStreet, RoundOver, Control, SeatsInRange, Seats, HandControls
  <2> QED BY <2>2, <2>3
<1>5. CASE BeginStreet
  <2>1. dealerIndex \in Seats
        BY <1>5 DEF BeginStreet, SeatsInRange
  <2>2. cur' \in Seats
        BY <1>5, <2>1, FirstSeatAfterIsSeat DEF BeginStreet, NextActive, TypeOK, SeatsInRange
  <2>3. cur' \in Nat \ {0} /\ itersLeft' \in Nat
    <3>1. Len(players) \in Nat
          BY DEF TypeOK
    <3> QED BY <1>5, <2>2, <3>1 DEF Seats, BeginStreet
  <2>4. TypeOK' BY <1>5, <2>3 DEF BeginStreet, TypeOK, Seats, Controls
  <2>5. Control' /\ SeatsInRange'
        BY <1>5, <2>2 DEF BeginStreet, Control, SeatsInRange, Seats, HandControls
  <2> QED BY <2>4, <2>5
<1>6. CASE AwardPotThrows
  <2>1. street' \in Streets /\ itersLeft' \in Nat /\ cur' \in Nat \ {0} /\ round' \in Rounds
        BY <1>6, NewRoundType DEF AwardPotThrows, Streets, CloseRound
  <2>2. TypeOK' BY <1>6, <2>1 DEF AwardPotThrows, TypeOK, Seats, Controls
  <2>3. Control' /\ SeatsInRange'
        BY <1>6 DEF AwardPotThrows, RoundOver, Control, SeatsInRange, Seats, HandControls
  <2> QED BY <2>2, <2>3
<1>7. CASE CheckChips
  <2>1. TypeOK' BY <1>7 DEF CheckChips, TypeOK, Seats, Controls
  <2>2. Control' /\ SeatsInRange'
        BY <1>7 DEF CheckChips, Control, SeatsInRange, Seats, HandControls
  <2> QED BY <2>1, <2>2
<1>8. CASE GameFails
  <2>1. TypeOK' BY <1>8 DEF GameFails, TypeOK, Seats, Controls
  <2>2. Control' /\ SeatsInRange'
        BY <1>8 DEF GameFails, Control, SeatsInRange, Seats, HandControls
  <2> QED BY <2>1, <2>2
<1>9. CASE AdvanceDealer
  <2>1. dealerIndex \in Seats /\ players # <<>>
        BY <1>9 DEF AdvanceDealer, SeatsInRange
  <2>2. dealerIndex' \in Seats
        BY <1>9, <2>1, FirstSeatAfterIsSeat DEF AdvanceDealer, TypeOK
  <2>3. dealerIndex' \in Nat \ {0}
        BY <2>2 DEF Seats
  <2>4. TypeOK' BY <1>9, <2>3 DEF AdvanceDealer, TypeOK, Seats, Controls
  <2>5. Control' /\ SeatsInRange'
        BY <1>9, <2>2 DEF AdvanceDealer, Control, SeatsInRange, Seats, HandControls
  <2> QED BY <2>4, <2>5
<1>10. CASE PotAwarded
  <2>1. TypeOK' BY <1>10 DEF PotAwarded, HandOver, TypeOK, Seats, Controls
  <2>2. Control' /\ SeatsInRange'
        BY <1>10 DEF PotAwarded, HandOver, Control, SeatsInRange, Seats, HandControls
  <2> QED BY <2>1, <2>2
<1> QED BY <1>1, <1>2, <1>3, <1>4, <1>5, <1>6, <1>7, <1>8, <1>9, <1>10

\* The actions of bettingRoundLoop.
LEMMA BettingKeepsTypes ==
  ASSUME TypeInv,
         \/ SkipSeat \/ GhostActs \/ (BotToAct /\ BotActs)
  PROVE  TypeInv'
<1> USE DEF TypeInv, seatVars, playerVars, handVars, potVars, gameVars
<1>1. /\ Iterating /\ cur \in Seats /\ players # <<>>
      /\ Actor \in Bots /\ round \in Rounds /\ chips[Actor] \in Int
      /\ itersLeft \in Nat \ {0}
  <2>1. Iterating
        BY DEF SkipSeat, GhostActs, BotToAct
  <2>2. cur \in Seats /\ players # <<>>
        BY <2>1 DEF Iterating, SeatsInRange
  <2>3. Actor \in Bots
        BY <2>2, SeatedAreBots DEF Actor
  <2> QED BY <2>1, <2>2, <2>3 DEF TypeOK, Iterating
<1> DEFINE a == Actor
<1>2. CheckOrFold => folded' \in [Bots -> BOOLEAN] /\ round' \in Rounds
      BY <1>1, AnsweredType DEF CheckOrFold, TypeOK, CanCheck
<1>3. ASSUME NEW amount \in Int, PutIn(amount)
      PROVE  /\ chips' \in [Bots -> Int] /\ totalBets' \in [Bots -> Int]
             /\ allIn' \in [Bots -> BOOLEAN] /\ folded' = folded
  <2>a. /\ chips' = [chips EXCEPT ![Actor] = @ - amount]
        /\ totalBets' = [totalBets EXCEPT ![Actor] = @ + amount]
        /\ folded' = folded
        BY <1>3 DEF PutIn
  <2>b. chips \in [Bots -> Int] /\ totalBets \in [Bots -> Int]
        BY DEF TypeOK
  <2>1. chips' \in [Bots -> Int] /\ totalBets' \in [Bots -> Int] /\ folded' = folded
        BY <1>1, <2>a, <2>b
  <2>2. allIn \in [Bots -> BOOLEAN]
        BY DEF TypeOK
  <2> DEFINE e == allIn[Actor] \/ chips[Actor] = amount
  <2>3. e \in BOOLEAN
        OBVIOUS
  <2>4. allIn' = [allIn EXCEPT ![Actor] = e]
        BY <1>3 DEF PutIn
  <2> HIDE DEF e
  <2>5. allIn' \in [Bots -> BOOLEAN]
        BY <2>2, <2>3, <2>4
  <2> QED BY <2>1, <2>5
<1>4. CountIteration => itersLeft' \in Nat
      BY <1>1 DEF CountIteration
<1>5. \A passes : FirstSeatAfter(cur, passes) \in Seats
      BY <1>1, FirstSeatAfterIsSeat DEF TypeOK
<1>6. Seats \subseteq Nat \ {0}
      BY DEF Seats
<1>7. CASE SkipSeat
  <2>1. cur' \in Seats /\ itersLeft' \in Nat
        BY <1>4, <1>5, <1>7 DEF SkipSeat, MoveOn
  <2>2. TypeOK' BY <1>6, <1>7, <2>1 DEF SkipSeat, TypeOK, Seats
  <2>3. Control' /\ SeatsInRange'
        BY <1>7, <2>1 DEF SkipSeat, Control, SeatsInRange, Seats
  <2> QED BY <2>2, <2>3
<1>8. CASE GhostActs
  <2>1. cur' \in Seats /\ itersLeft' \in Nat
        BY <1>4, <1>5, <1>8 DEF GhostActs, MoveOn
  <2>2. folded' \in [Bots -> BOOLEAN] /\ round' \in Rounds
        BY <1>1, <1>8, AnsweredType DEF GhostActs, TypeOK, CanCheck
  <2>3. TypeOK' BY <1>6, <1>8, <2>1, <2>2 DEF GhostActs, TypeOK, Seats
  <2>4. Control' /\ SeatsInRange'
        BY <1>8, <2>1 DEF GhostActs, Control, SeatsInRange, Seats
  <2> QED BY <2>3, <2>4
<1>9. ASSUME ActionApplied,
             /\ chips' \in [Bots -> Int] /\ totalBets' \in [Bots -> Int]
             /\ allIn' \in [Bots -> BOOLEAN] /\ folded' \in [Bots -> BOOLEAN]
             /\ round' \in Rounds
             /\ seatStatus' \in [Bots -> Statuses]
             /\ strikes' \in [Bots -> 0 .. MaxStrikes]
      PROVE  TypeInv'
  <2>1. itersLeft' \in Nat
        BY <1>4, <1>9 DEF ActionApplied
  <2>2. TypeOK' BY <1>9, <2>1 DEF ActionApplied, TypeOK, Seats, Controls
  <2>3. Control' /\ SeatsInRange'
        BY <1>1, <1>9
        DEF ActionApplied, Iterating, Control, SeatsInRange, Seats, HandControls
  <2> QED BY <2>2, <2>3
<1>10. StrategyAnswers => /\ seatStatus' \in [Bots -> Statuses]
                          /\ strikes' \in [Bots -> 0 .. MaxStrikes]
  <2>1. 0 \in 0 .. MaxStrikes
        BY TableAssumption
  <2>2. strikes \in [Bots -> 0 .. MaxStrikes] /\ seatStatus \in [Bots -> Statuses]
        BY DEF TypeOK
  <2> QED BY <2>1, <2>2 DEF StrategyAnswers
<1>11. CASE BotChecksOrFolds
  <2>1. /\ chips' \in [Bots -> Int] /\ totalBets' \in [Bots -> Int]
        /\ allIn' \in [Bots -> BOOLEAN]
        BY <1>11 DEF BotChecksOrFolds, CheckOrFold, TypeOK
  <2> QED BY <1>2, <1>9, <1>10, <1>11, <2>1 DEF BotChecksOrFolds
<1>12. CASE BotCalls
  <2>1. CallAmount(round, Actor, chips[Actor]) \in Int
        BY <1>1, CallAmountType
  <2>2. round' \in Rounds
        BY <1>1, <1>12, CalledType DEF BotCalls
  <2>3. folded \in [Bots -> BOOLEAN]
        BY DEF TypeOK
  <2> QED BY <1>3, <1>9, <1>10, <1>12, <2>1, <2>2, <2>3 DEF BotCalls
<1>13. CASE StrategyFails
  <2>1. /\ chips' \in [Bots -> Int] /\ totalBets' \in [Bots -> Int]
        /\ allIn' \in [Bots -> BOOLEAN]
        BY <1>13 DEF StrategyFails, CheckOrFold, TypeOK
  <2> DEFINE next == Lesser(strikes[Actor] + 1, MaxStrikes)
  <2>0. strikes \in [Bots -> 0 .. MaxStrikes] /\ MaxStrikes \in Nat
        BY TableAssumption DEF TypeOK
  <2>a. strikes[Actor] \in 0 .. MaxStrikes
        BY <1>1, <2>0
  <2>b. next \in 0 .. MaxStrikes
        BY <2>0, <2>a DEF Lesser
  <2>c. strikes' = [strikes EXCEPT ![Actor] = next]
        BY <1>13 DEF StrategyFails
  <2> HIDE DEF next
  <2>2. strikes' \in [Bots -> 0 .. MaxStrikes]
        BY <2>0, <2>b, <2>c
  <2>3. seatStatus' \in [Bots -> Statuses]
        BY <1>1, <1>13 DEF StrategyFails, TypeOK, Statuses
  <2> QED BY <1>2, <1>9, <1>13, <2>1, <2>2, <2>3 DEF StrategyFails
<1>14. ASSUME NEW n \in RaiseAmounts, BotRaises(n) PROVE TypeInv'
  <2>1. CallAmount(round, Actor, chips[Actor]) \in Int
        BY <1>1, CallAmountType
  <2>2. n \in Int
        BY <1>1, <1>14, <2>1 DEF RaiseAmounts
  <2> DEFINE by == NormalizedRaise(round, Actor, chips[Actor], n)
  <2>3. by \in Int /\ RaiseAdds(round, Actor, chips[Actor], by) \in Int
        BY <1>1, <2>2, RaiseType
  <2>4. Raised(round, Actor, chips[Actor], by, Seated) \in Rounds
        BY <1>1, <2>3, RaisedType, SeatedAreBots
  <2>5. folded \in [Bots -> BOOLEAN] /\ allIn \in [Bots -> BOOLEAN]
        /\ chips \in [Bots -> Int] /\ totalBets \in [Bots -> Int]
        BY DEF TypeOK
  <2>6. /\ StrategyAnswers /\ ActionApplied
        /\ IF RaiseIsValid(round, Actor, chips[Actor], by)
           THEN /\ PutIn(RaiseAdds(round, Actor, chips[Actor], by))
                /\ round' = Raised(round, Actor, chips[Actor], by, Seated)
           ELSE /\ folded' = [folded EXCEPT ![Actor] = TRUE]
                /\ round' = Answered(round, Actor)
                /\ UNCHANGED <<chips, allIn, totalBets>>
        BY <1>14 DEF BotRaises
  <2> HIDE DEF by
  <2>7. CASE RaiseIsValid(round, Actor, chips[Actor], by)
        BY <1>3, <1>9, <1>10, <2>3, <2>4, <2>5, <2>6, <2>7
  <2>8. CASE ~RaiseIsValid(round, Actor, chips[Actor], by)
    <3>1. folded' \in [Bots -> BOOLEAN] /\ round' \in Rounds
          BY <1>1, <2>5, <2>6, <2>8, AnsweredType
    <3> QED BY <1>9, <1>10, <2>5, <2>6, <2>8, <3>1
  <2> QED BY <2>7, <2>8
<1> QED BY <1>7, <1>8, <1>11, <1>12, <1>13, <1>14 DEF BotActs

\* The start of a hand, and the pots at its end.
LEMMA BeginHandKeepsTypes ==
  ASSUME TypeInv, BeginHand
  PROVE  TypeInv'
<1> USE DEF TypeInv
<1>1. /\ players # <<>> /\ dealerIndex \in Seats
      /\ chips \in [Bots -> Int] /\ Len(players) \in Nat
  <2>1. Cardinality(Playable) >= 2
        BY DEF BeginHand
  <2>2. Playable # {}
        BY <2>1, FS_EmptySet
  <2>3. Seats # {}
        BY <2>2 DEF Playable, Seated
  <2>4. players \in Seq(Bots) /\ chips \in [Bots -> Int]
        BY DEF TypeOK
  <2>5. Len(players) \in Nat
        BY <2>4
  <2>6. Len(players) # 0
        BY <2>3, <2>5 DEF Seats
  <2>7. players # <<>>
        BY <2>6
  <2>8. dealerIndex \in Seats
        BY <2>7 DEF SeatsInRange
  <2> QED BY <2>4, <2>5, <2>7, <2>8
<1>2. \A i \in Seats : \A passes : FirstSeatAfter(i, passes) \in Seats
      BY <1>1, FirstSeatAfterIsSeat DEF TypeOK
<1> DEFINE out    == [b \in Bots |-> chips[b] = 0 \/ Disconnected(b)]
           ante   == [b \in Bots |-> IF b \in Seated /\ ~out[b]
                                     THEN Lesser(chips[b], Ante) ELSE 0]
           afterAnte == [b \in Bots |-> chips[b] - ante[b]]
           dealt  == {b \in Seated : ~out[b]}
           next(i) == FirstSeatAfter(i, CanStillAct(afterAnte, out))
           sbSeat == IF Cardinality(dealt) = 2 THEN dealerIndex ELSE next(dealerIndex)
           bbSeat == next(sbSeat)
           sb     == players[sbSeat]
           bb     == players[bbSeat]
           sbAmt  == Lesser(afterAnte[sb], SmallBlind)
           bbAmt  == Lesser(afterAnte[bb], BigBlind)
           blind  == [b \in Bots |-> (IF b = sb THEN sbAmt ELSE 0)
                                      + (IF b = bb THEN bbAmt ELSE 0)]
           stacks == [b \in Bots |-> afterAnte[b] - blind[b]]
           lastSeat == FirstSeatAfter(bbSeat, CanStillAct(stacks, out))
<1>3. /\ folded' = out
      /\ chips' = stacks
      /\ allIn' = [b \in Bots |->
                     \/ b \in dealt \union {sb, bb} /\ stacks[b] = 0
                     \/ b = sb /\ afterAnte[b] = sbAmt]
      /\ totalBets' = [b \in Bots |-> ante[b] + blind[b]]
      /\ round' = [NewRound EXCEPT
                     !.maxBet = BigBlind,
                     !.bets = [b \in Bots |-> IF b = bb THEN bbAmt
                                              ELSE IF b = sb THEN sbAmt ELSE 0]]
      /\ cur' = lastSeat
      /\ handInProgress' = TRUE
      /\ street' = 0 /\ itersLeft' = 4 * Len(players) /\ pc' = "act"
      /\ UNCHANGED <<seatVars, seatStatus, strikes, potVars, running, status,
                     pendingMutations, expectedTotalChips, starts>>
      BY DEF BeginHand
<1>4. out \in [Bots -> BOOLEAN]
      OBVIOUS
<1>5. ante \in [Bots -> Int]
      BY <1>1, TableAssumption DEF Lesser
<1>6. afterAnte \in [Bots -> Int]
      BY <1>1, <1>5
<1>7. sbSeat \in Seats /\ bbSeat \in Seats /\ lastSeat \in Seats
  <2>1. sbSeat \in Seats
        BY <1>1, <1>2
  <2>2. bbSeat \in Seats
        BY <1>2, <2>1
  <2> QED BY <1>2, <2>1, <2>2
<1> HIDE DEF out, ante, afterAnte, sbSeat, bbSeat, lastSeat
<1>8. sb \in Bots /\ bb \in Bots
      BY <1>7, SeatedAreBots
<1>9. sbAmt \in Int /\ bbAmt \in Int
      BY <1>6, <1>8, TableAssumption, BigBlindAssumption DEF Lesser
<1> HIDE DEF sb, bb, sbAmt, bbAmt
<1>10. blind \in [Bots -> Int]
       BY <1>9
<1> HIDE DEF blind
<1>11. stacks \in [Bots -> Int]
       BY <1>6, <1>10
<1>12. totalBets' \in [Bots -> Int]
       BY <1>3, <1>5, <1>10
<1>13. round' \in Rounds
  <2>1. NewRound \in Rounds /\ BigBlind \in Int
        BY NewRoundType, BigBlindAssumption
  <2>2. [b \in Bots |-> IF b = bb THEN bbAmt ELSE IF b = sb THEN sbAmt ELSE 0] \in [Bots -> Int]
        BY <1>9
  <2> QED BY <1>3, <2>1, <2>2 DEF Rounds
<1> HIDE DEF stacks
<1>14. folded' \in [Bots -> BOOLEAN] /\ allIn' \in [Bots -> BOOLEAN]
       BY <1>3, <1>4
<1>15. /\ cur' \in Seats /\ cur' \in Nat \ {0}
       /\ street' \in Streets /\ itersLeft' \in Nat
       BY <1>1, <1>3, <1>7 DEF Seats, Streets
<1>16. TypeOK'
       BY <1>3, <1>11, <1>12, <1>13, <1>14, <1>15
       DEF TypeOK, seatVars, potVars, Seats, Controls
<1>17. running
       BY DEF BeginHand
<1>18. Control' /\ SeatsInRange'
       BY <1>1, <1>3, <1>15, <1>17
       DEF Control, SeatsInRange, Seats, HandControls, seatVars
<1> QED BY <1>16, <1>18

LEMMA SettlingKeepsTypes ==
  ASSUME TypeInv, AwardPot \/ Showdown \/ SettlePot \/ Distribute
  PROVE  TypeInv'
<1> USE DEF TypeInv, seatVars, playerVars, handVars, potVars, gameVars
<1>1. /\ chips \in [Bots -> Int] /\ payouts \in [Bots -> Int]
      /\ level \in Int /\ dead \in Int /\ InPot \in Int
      BY PotIsInt DEF TypeOK
<1>2. Zero \in [Bots -> Int] /\ Zero \in [Bots -> Nat]
      BY DEF Zero
<1>3. CASE AwardPot
  <2>1. chips' \in [Bots -> Int] /\ totalBets' \in [Bots -> Int]
        BY <1>1, <1>2, <1>3 DEF AwardPot
  <2>2. street' \in Streets /\ itersLeft' \in Nat /\ cur' \in Nat \ {0} /\ round' \in Rounds
        BY <1>3, NewRoundType DEF AwardPot, Streets, CloseRound
  <2>3. TypeOK' BY <1>3, <2>1, <2>2 DEF AwardPot, TypeOK, Seats, Controls
  <2>4. Control' /\ SeatsInRange'
        BY <1>3 DEF AwardPot, RoundOver, Control, SeatsInRange, Seats, HandControls
  <2> QED BY <2>3, <2>4
<1>4. CASE Showdown
  <2>1. rank' \in [Bots -> Nat]
    <3>1. rank' \in [Bots -> 0 .. Cardinality(Bots)]
          BY <1>4 DEF Showdown, Rankings
    <3>2. 0 .. Cardinality(Bots) \subseteq Nat
          BY TableAssumption, FS_CardinalityType
    <3> QED BY <3>1, <3>2
  <2>2. level' \in Int /\ dead' \in Int /\ payouts' \in [Bots -> Int]
        BY <1>2, <1>4, HighestOfLevels DEF Showdown
  <2>3. street' \in Streets /\ itersLeft' \in Nat /\ cur' \in Nat \ {0} /\ round' \in Rounds
        BY <1>4, NewRoundType DEF Showdown, Streets, CloseRound
  <2>4. TypeOK' BY <1>4, <2>1, <2>2, <2>3 DEF Showdown, TypeOK, Seats, Controls
  <2>5. Control' /\ SeatsInRange'
        BY <1>4 DEF Showdown, RoundOver, Control, SeatsInRange, Seats, HandControls
  <2> QED BY <2>4, <2>5
<1>5. CASE SettlePot
  <2> DEFINE pot == Slice(level) + dead
             W == Best(Contenders(level))
  <2>1. pot \in Int /\ LevelBelow(level) \in Int
        BY <1>1, SliceType, LevelBelowType
  <2> HIDE DEF pot
  <2>2. \A b \in Bots : Share(pot, W, b) \in Int
        BY <2>1, ShareType, BestAreSeated
  <2> HIDE DEF W
  <2>3. /\ level' = LevelBelow(level)
        /\ \/ dead' = pot /\ payouts' = payouts
           \/ /\ dead' = 0
              /\ payouts' = [b \in Bots |-> payouts[b] + Share(pot, W, b)]
        /\ pc' \in {"reveal", "settle"} /\ pc = "settle"
        /\ UNCHANGED <<seatVars, playerVars, handVars, rank, gameVars>>
        BY <1>5 DEF SettlePot, pot, W
  <2>4. payouts' \in [Bots -> Int] /\ dead' \in Int /\ level' \in Int
        BY <1>1, <2>1, <2>2, <2>3
  <2>5. TypeOK' BY <2>3, <2>4 DEF TypeOK, Seats, Controls
  <2>6. Control' /\ SeatsInRange'
        BY <2>3 DEF Control, SeatsInRange, Seats, HandControls
  <2> QED BY <2>5, <2>6
<1>6. CASE Distribute
  <2>1. chips' \in [Bots -> Int] /\ totalBets' \in [Bots -> Int]
        BY <1>1, <1>2, <1>6 DEF Distribute
  <2>2. /\ rank' \in [Bots -> Nat] /\ payouts' \in [Bots -> Int]
        /\ level' \in Int /\ dead' \in Int
        BY <1>2, <1>6 DEF Distribute
  <2>3. TypeOK' BY <1>6, <2>1, <2>2 DEF Distribute, HandOver, TypeOK, Seats, Controls
  <2>4. Control' /\ SeatsInRange'
        BY <1>6 DEF Distribute, HandOver, Control, SeatsInRange, Seats, HandControls
  <2> QED BY <2>3, <2>4
<1> QED BY <1>3, <1>4, <1>5, <1>6

LEMMA DrainKeepsTypes ==
  ASSUME TypeInv, Drain
  PROVE  TypeInv'
<1>1. pendingMutations \in Seq(Mutations) /\ pendingMutations # <<>>
      BY DEF TypeInv, TypeOK, Drain
<1>2. Head(pendingMutations) \in Mutations /\ Tail(pendingMutations) \in Seq(Mutations)
      BY <1>1
<1>3. pendingMutations' \in Seq(Mutations)
      BY <1>2 DEF Drain
<1>4. ~handInProgress
      BY DEF Drain, DrainPoints, TypeInv, Control, HandControls
<1> DEFINE m == Head(pendingMutations)
<1>5. CASE m.op = "remove"
  <2>1. m.bot \in Bots
        BY <1>2 DEF Mutations
  <2>2. RemovePlayerImmediate(m.bot)
        BY <1>5 DEF Drain
  <2> QED BY <1>3, <2>1, <2>2, RemoveKeepsTypes DEF Drain
<1>6. CASE m.op # "remove"
  <2>1. m.bot \in Bots /\ m.chips \in BuyIns /\ m.at \in Nat
        BY <1>2, <1>6 DEF Mutations
  <2>2. \/ AddPlayerImmediate(m.bot, m.chips, m.at)
        \/ UNCHANGED <<seatVars, playerVars, expectedTotalChips, starts>>
        BY <1>6 DEF Drain
  <2>3. UNCHANGED <<handVars, potVars, pc, running, status, handInProgress>>
        BY DEF Drain
  <2> HIDE DEF m
  <2>4. CASE SitDown(m.bot, m.chips, m.at)
        BY <1>3, <1>4, <2>1, <2>3, <2>4, SitDownKeepsTypes
  <2>5. CASE Reconnect(m.bot)
        BY <1>3, <2>1, <2>3, <2>5, ReconnectKeepsTypes
  <2>6. CASE UNCHANGED <<seatVars, playerVars, expectedTotalChips, starts>>
    <3>1. TypeOK'
          BY <1>3, <2>3, <2>6
          DEF TypeInv, TypeOK, seatVars, playerVars, handVars, potVars, Seats
    <3>2. Control' /\ SeatsInRange'
          BY <2>3, <2>6 DEF TypeInv, Control, SeatsInRange, seatVars, handVars, Seats
    <3> QED BY <3>1, <3>2 DEF TypeInv
  <2> QED BY <2>2, <2>4, <2>5, <2>6 DEF AddPlayerImmediate
<1> QED BY <1>5, <1>6

LEMMA StutterKeepsTypes ==
  ASSUME TypeInv, UNCHANGED vars
  PROVE  TypeInv'
<1>1. TypeOK'
      BY DEF TypeInv, TypeOK, vars, seatVars, playerVars, handVars, potVars, gameVars, Seats
<1>2. Control' /\ SeatsInRange'
      BY DEF TypeInv, Control, SeatsInRange, vars, seatVars, handVars, gameVars, Seats
<1> QED BY <1>1, <1>2 DEF TypeInv

LEMMA NextKeepsTypes == TypeInv /\ [Next]_vars => TypeInv'
BY CallersKeepTypes, LoopKeepsTypes, BettingKeepsTypes, BeginHandKeepsTypes,
   SettlingKeepsTypes, DrainKeepsTypes, StutterKeepsTypes
   DEF Next, Loop, Hand

\* In every behaviour of a table every variable has its type, no bot sits twice,
\* and the button and the turn are at seats of the table.
THEOREM TypeCorrectness == Spec => [](TypeOK /\ SeatsInRange)
<1>1. TypeInv => TypeOK /\ SeatsInRange
      BY DEF TypeInv
<1> QED BY <1>1, InitTypes, NextKeepsTypes, PTL DEF Spec

-----------------------------------------------------------------------------
(* The seats while a hand is played *)

\* No join, leave or other call moves a seat or the button during a hand, for any
\* number of deferred calls and in any order.
THEOREM SeatingIsFrozen == Spec => SeatingFrozenMidHand
<1>1. TypeInv /\ [Next]_vars => (handInProgress /\ handInProgress' => UNCHANGED seatVars)
  <2> SUFFICES ASSUME TypeInv, [Next]_vars, handInProgress, handInProgress'
               PROVE  UNCHANGED seatVars
      OBVIOUS
  <2>1. pc \in HandControls
        BY DEF TypeInv, Control
  <2>2. CASE UNCHANGED vars
        BY <2>2 DEF vars
  <2>3. CASE Callers
        BY <2>3
        DEF Callers, RemovePlayer, ReactivatePlayer, AddPlayer, MutationsDefer
  <2>4. CASE Loop
        BY <2>1, <2>4
        DEF Loop, Hand, FinishGame, BeginHand, SkipSeat, GhostActs, BotActs,
            BotChecksOrFolds, BotCalls, BotRaises, StrategyFails, ActionApplied,
            NextTurn, NextStreet, BeginStreet, AwardPot, AwardPotThrows, Showdown,
            SettlePot, Distribute, PotAwarded, HandOver, Drain, DrainPoints,
            CheckChips, GameFails, AdvanceDealer, HandControls
  <2>5. CASE StartGame
        BY <2>5 DEF StartGame
  <2> QED BY <2>2, <2>3, <2>4, <2>5 DEF Next
<1> QED BY <1>1, InitTypes, NextKeepsTypes, PTL DEF Spec, SeatingFrozenMidHand

-----------------------------------------------------------------------------
(* The button *)

\* The button follows its bot over a bot that is inserted in front of it.
LEMMA InsertKeepsButton ==
  ASSUME TypeOK, SeatsInRange, players # <<>>, NEW b \in Bots, NEW at \in Nat, Insert(b, at)
  PROVE  players'[dealerIndex'] = players[dealerIndex]
<1> DEFINE n == Len(players)
<1>1. players \in Seq(Bots) /\ n \in Nat
      BY DEF TypeOK
<1>2. dealerIndex \in 1 .. n
      BY DEF SeatsInRange, Seats
<1>3. CASE at < n
  <2>1. players' = Spliced(players, at, b) /\ dealerIndex' = ButtonAfterInsert(at)
        BY <1>3 DEF Insert, Spliced
  <2>2. \A i \in 1 .. n + 1 : players'[i] = IF i <= at THEN players[i]
                                            ELSE IF i = at + 1 THEN b ELSE players[i - 1]
        BY <1>1, <1>3, <2>1, SplicedIn
  <2>3. CASE at < dealerIndex
    <3>1. dealerIndex' = dealerIndex + 1
          BY <2>1, <2>3 DEF ButtonAfterInsert
    <3>2. /\ dealerIndex + 1 \in 1 .. n + 1 /\ ~(dealerIndex + 1 <= at)
          /\ dealerIndex + 1 # at + 1 /\ (dealerIndex + 1) - 1 = dealerIndex
          BY <1>1, <1>2, <2>3
    <3> QED BY <2>2, <3>1, <3>2
  <2>4. CASE ~(at < dealerIndex)
    <3>1. dealerIndex' = dealerIndex
          BY <2>1, <2>4 DEF ButtonAfterInsert
    <3>2. dealerIndex \in 1 .. n + 1 /\ dealerIndex <= at
          BY <1>1, <1>2, <2>4
    <3> QED BY <2>2, <3>1, <3>2
  <2> QED BY <2>3, <2>4
<1>4. CASE ~(at < n)
  <2>1. players' = Append(players, b) /\ dealerIndex' = dealerIndex
        BY <1>4 DEF Insert
  <2> QED BY <1>1, <1>2, <2>1
<1> QED BY <1>3, <1>4

\* Whoever sits down, and wherever, the button stays with the bot that has it.
THEOREM ButtonStays == Spec => ButtonStaysWithBot
<1>1. ASSUME TypeInv, [Next]_vars, players # <<>>, players' # players
      PROVE  players'[dealerIndex'] = players[dealerIndex]
  <2> USE DEF seatVars
  <2>1. TypeOK /\ SeatsInRange
        BY <1>1 DEF TypeInv
  <2>2. ASSUME NEW b \in Bots, NEW stack, NEW at \in Nat, AddPlayerImmediate(b, stack, at)
        PROVE  players'[dealerIndex'] = players[dealerIndex]
        BY <1>1, <2>1, <2>2, InsertKeepsButton DEF AddPlayerImmediate, Reconnect, SitDown
  <2>3. CASE UNCHANGED vars
        BY <1>1, <2>3 DEF vars
  <2>4. CASE Callers
    <3>1. ASSUME NEW b \in Bots, NEW stack \in BuyIns, NEW at \in 0 .. Len(players),
                 AddPlayer(b, stack, at)
          PROVE  players'[dealerIndex'] = players[dealerIndex]
          BY <1>1, <2>2, <3>1 DEF AddPlayer
    <3>2. ASSUME NEW b \in Bots, RemovePlayer(b) \/ ReactivatePlayer(b)
          PROVE  FALSE
          BY <1>1, <3>2 DEF RemovePlayer, RemovePlayerImmediate, ReactivatePlayer
    <3> QED BY <2>4, <3>1, <3>2 DEF Callers
  <2>5. CASE Drain
    <3> DEFINE m == Head(pendingMutations)
    <3>1. m \in Mutations
      <4>1. pendingMutations \in Seq(Mutations) /\ pendingMutations # <<>>
            BY <2>1, <2>5 DEF TypeOK, Drain
      <4> QED BY <4>1
    <3>2. m.op # "remove" /\ AddPlayerImmediate(m.bot, m.chips, m.at)
          BY <1>1, <2>5 DEF Drain, RemovePlayerImmediate
    <3>3. m.bot \in Bots /\ m.at \in Nat
          BY <3>1, <3>2 DEF Mutations
    <3> HIDE DEF m
    <3> QED BY <2>2, <3>2, <3>3
  <2>6. CASE Loop /\ ~Drain
        BY <1>1, <2>6
        DEF Loop, Hand, FinishGame, BeginHand, SkipSeat, GhostActs, BotActs,
            BotChecksOrFolds, BotCalls, BotRaises, StrategyFails, ActionApplied,
            NextTurn, NextStreet, BeginStreet, AwardPot, AwardPotThrows, Showdown,
            SettlePot, Distribute, PotAwarded, HandOver, CheckChips, GameFails, AdvanceDealer
  <2>7. CASE StartGame
        BY <1>1, <2>7 DEF StartGame
  <2> QED BY <1>1, <2>3, <2>4, <2>5, <2>6, <2>7 DEF Next
<1> QED BY <1>1, InitTypes, NextKeepsTypes, PTL DEF Spec, ButtonStaysWithBot


-----------------------------------------------------------------------------
(* The inductive invariant *)

BettingControls  == {"act", "acted", "street"}
ShowdownControls == {"settle", "reveal"}
\* The controls at which chips are in the pot.
PotControls      == BettingControls \union ShowdownControls

\* A hand threw: the chips of its pot are in nobody's stack any more.
Broken == pc = "crash" \/ status = "error"

RemovalPending(b) ==
  \E i \in DOMAIN pendingMutations :
     pendingMutations[i].op = "remove" /\ pendingMutations[i].bot = b

\* Deferred calls exist only around a hand, and the callbacks of addPlayer have run
\* when the first hand of a live game is over: a game in error stays so.
LoopState ==
  /\ pc # "idle" => status = "running"
  /\ pendingMutations # <<>> => pc \in HandControls \union {"drain", "crash"}
  /\ ~Live => pendingMutations = <<>>
  /\ Live /\ pc \in {"drain", "hook", "sleep", "crash"} => starts = 0
  /\ status = "error" => pc = "idle" /\ starts = 0 /\ ~running
  /\ status = "finished" => running

\* No other task ran since the hand began.
Undisturbed == ~Live \/ (starts > 0 /\ pc = "act")

\* Somebody is left to award the pot to, unless bots were removed meanwhile.
SomebodyLeft ==
  /\ pc \in PotControls /\ Undisturbed =>
       /\ ActivePlayers # {}
       /\ \A b \in Seated : Disconnected(b) => folded[b]
  /\ pc = "settle" => ActivePlayers # {}
  /\ ~Live => ~Broken

Conserved == ~Broken => TotalChips = expectedTotalChips

\* Only seated bots have chips.
OnlySeated ==
  ~Broken => \A b \in Bots \ Seated : chips[b] = 0 /\ totalBets[b] = 0 /\ payouts[b] = 0

\* A bot that left has no chips, or its removal is still to be applied.
Gone ==
  ~Broken => \A b \in Bots : Disconnected(b) =>
                RemovalPending(b) \/ (chips[b] = 0 /\ (pc \in PotControls => folded[b]))

\* Out of a hand nothing is in the pot and nobody is overdrawn for good.
NoPot ==
  ~Broken /\ pc \notin PotControls =>
     /\ totalBets = Zero
     /\ \A b \in Bots : chips[b] >= 0 \/ RemovalPending(b)

\* The bot that posted both blinds from one stack, when an ante left no other bot
\* a chip: its bet pays for what it is overdrawn by, above every other bet.
Overdrawn(x) ==
  /\ ~folded[x] /\ 0 <= totalBets[x] + chips[x]
  /\ \A b \in Bots \ {x} : chips[b] = 0 /\ totalBets[b] <= totalBets[x] + chips[x]

InThePot ==
  pc \in PotControls =>
     /\ \A b \in Bots : totalBets[b] >= 0
     /\ \A x \in Bots : chips[x] < 0 => Overdrawn(x)
     /\ Ante = 0 => \A x \in Bots : chips[x] >= 0

\* The bets of a street are part of the bets of the hand.
StreetBets ==
  pc \in BettingControls =>
     /\ round.maxBet >= 0
     /\ \A b \in Bots : 0 <= round.bets[b] /\ round.bets[b] <= totalBets[b]

\* The chips of the levels up to l, which calculatePots has still to settle.
Unsettled(l) == SumFunction([c \in Bots |-> Lesser(totalBets[c], l)])

Settling ==
  pc = "settle" =>
     /\ level = 0 \/ level \in Levels
     /\ dead >= 0
     /\ SumFunction(payouts) + dead + Unsettled(level) = InPot

Winnings ==
  pc \in ShowdownControls =>
     \A b \in Bots : payouts[b] >= 0 /\ (payouts[b] > 0 => ~folded[b])

\* What a bot can win at most, and what of it is in the levels up to l.
MayWin(b)        == SumFunction([c \in Bots |-> CanWinFrom(b, c)])
StillToWin(b, l) == SumFunction([c \in Bots |-> Lesser(CanWinFrom(b, c), l)])

WithinCap ==
  pc = "settle" =>
     \A b \in Bots :
        ~folded[b] => payouts[b] + dead + StillToWin(b, level) <= MayWin(b)

\* The highest pot is the overdrawn bot's alone, and makes up for what it lacks.
OverdraftPaid ==
  pc \in ShowdownControls =>
     \A x \in Bots : chips[x] < 0 =>
        \/ RemovalPending(x)
        \/ pc = "settle" /\ level = totalBets[x]
        \/ payouts[x] + chips[x] >= 0

ChipInv ==
  /\ TypeInv /\ LoopState /\ SomebodyLeft
  /\ Conserved /\ OnlySeated /\ Gone /\ NoPot /\ InThePot /\ StreetBets
  /\ Settling /\ Winnings /\ WithinCap /\ OverdraftPaid
  /\ PotsCoverBets /\ SidePotCap

-----------------------------------------------------------------------------
(* The pots *)

LEMMA StakesNat ==
  ASSUME TypeOK, InThePot, pc \in PotControls
  PROVE  /\ IsFiniteSet(Bots) /\ totalBets \in [Bots -> Int]
         /\ \A b \in Bots : totalBets[b] >= 0
BY TableAssumption DEF TypeOK, InThePot

LEMMA LevelFacts ==
  ASSUME TypeOK, NEW l \in Int, l = 0 \/ l \in Levels
  PROVE  /\ l >= 0 /\ LevelBelow(l) \in Int /\ 0 <= LevelBelow(l) /\ LevelBelow(l) <= l
         /\ LevelBelow(l) = 0 \/ LevelBelow(l) \in Levels
         /\ l > 0 => LevelBelow(l) < l
         /\ \A t \in Levels : t < l => t <= LevelBelow(l)
<1> DEFINE S == {t \in Levels : t < l}
<1>1. \A t \in Levels : t \in Int /\ t > 0
      BY SeatedAreBots DEF Levels, TypeOK
<1>2. S \in SUBSET Levels /\ LevelBelow(l) = HighestOf(S)
      BY DEF LevelBelow
<1>3. /\ HighestOf(S) \in Int
      /\ S # {} => HighestOf(S) \in S /\ \A y \in S : y <= HighestOf(S)
      BY <1>2, HighestOfLevels
<1>4. CASE S = {}
  <2>1. LevelBelow(l) = 0
        BY <1>2, <1>4 DEF HighestOf
  <2> QED BY <1>1, <1>4, <2>1
<1>5. CASE S # {}
  <2>1. LevelBelow(l) \in Levels /\ LevelBelow(l) < l
        BY <1>2, <1>3, <1>5
  <2> QED BY <1>1, <1>2, <1>3, <1>5, <2>1
<1> QED BY <1>4, <1>5

\* What each bot has in the levels from the next lower one up to l.
LEMMA BetsBetween ==
  ASSUME TypeOK, NEW l \in Int, l = 0 \/ l \in Levels, NEW c \in Bots, totalBets[c] >= 0,
         c \notin Seated => totalBets[c] = 0
  PROVE  /\ c \in Contributors(l) =>
              /\ Lesser(totalBets[c], l) = l
              /\ Lesser(totalBets[c], LevelBelow(l)) = LevelBelow(l)
         /\ c \notin Contributors(l) => totalBets[c] <= LevelBelow(l) /\ totalBets[c] <= l
<1>1. totalBets[c] \in Int /\ l \in Int
      BY DEF TypeOK
<1>2. /\ l >= 0 /\ LevelBelow(l) \in Int /\ 0 <= LevelBelow(l) /\ LevelBelow(l) <= l
      /\ \A t \in Levels : t < l => t <= LevelBelow(l)
      BY LevelFacts
<1>3. CASE c \in Contributors(l)
  <2>1. totalBets[c] >= l
        BY <1>3 DEF Contributors
  <2> QED BY <1>1, <1>2, <1>3, <2>1 DEF Lesser
<1>4. CASE c \notin Contributors(l)
  <2>1. CASE c \in Seated
    <3>1. totalBets[c] < l
          BY <1>1, <1>4, <2>1 DEF Contributors
    <3>2. totalBets[c] = 0 \/ totalBets[c] \in Levels
          BY <1>1, <2>1 DEF Levels
    <3> QED BY <1>1, <1>2, <1>4, <3>1, <3>2
  <2>2. CASE c \notin Seated
        BY <1>2, <1>4, <2>2
  <2> QED BY <2>1, <2>2
<1> QED BY <1>3, <1>4

LEMMA ContributorsAreBots ==
  ASSUME TypeOK, NEW l
  PROVE  Contributors(l) \in SUBSET Bots /\ Contributors(l) \in SUBSET Seated
         /\ Cardinality(Contributors(l)) \in Nat
BY SeatedAreBots, SeatedAreFinite DEF Contributors

\* The pot of a level is the difference of a sum over the bots that a contributor
\* counts for in full, and that others count for equally above and below.
LEMMA SliceIsDifference ==
  ASSUME TypeOK, NEW l \in Int, l = 0 \/ l \in Levels, NEW f \in [Bots -> Int],
         \A c \in Contributors(l) : f[c] >= l,
         \A c \in Bots \ Contributors(l) : f[c] <= LevelBelow(l)
  PROVE  SumFunction([c \in Bots |-> Lesser(f[c], l)])
           = SumFunction([c \in Bots |-> Lesser(f[c], LevelBelow(l))]) + Slice(l)
<1> DEFINE below == LevelBelow(l)
           v == l - below
           S == Contributors(l)
           upper == [c \in Bots |-> Lesser(f[c], l)]
           lower == [c \in Bots |-> Lesser(f[c], below)]
           part == [c \in Bots |-> IF c \in S THEN v ELSE 0]
<1>1. below \in Int /\ below <= l /\ v \in Int
      BY LevelFacts
<1>2. IsFiniteSet(Bots)
      BY TableAssumption
<1>3. S \in SUBSET Bots
      BY ContributorsAreBots
<1>4. SumFunction(part) = v * Cardinality(S)
  <2> HIDE DEF v, S
  <2> QED BY <1>1, <1>2, <1>3, SumOfIndicator
<1>5. Slice(l) = v * Cardinality(S)
      BY DEF Slice
<1> HIDE DEF v
<1>6. v = l - below
      BY DEF v
<1>7. upper \in [Bots -> Int] /\ lower \in [Bots -> Int] /\ part \in [Bots -> Int]
  <2> HIDE DEF below, S
  <2> QED BY <1>1 DEF Lesser
<1>8. ASSUME NEW c \in Bots PROVE upper[c] = lower[c] + part[c]
  <2>1. f[c] \in Int
        OBVIOUS
  <2>2. upper[c] = Lesser(f[c], l) /\ lower[c] = Lesser(f[c], below)
        /\ part[c] = IF c \in S THEN v ELSE 0
        OBVIOUS
  <2>3. CASE c \in S
    <3>1. f[c] >= l
          BY <2>3
    <3> HIDE DEF upper, lower, part, S, below
    <3> QED BY <1>1, <1>6, <2>1, <2>2, <2>3, <3>1 DEF Lesser
  <2>4. CASE c \notin S
    <3>1. f[c] <= below
          BY <2>4
    <3> HIDE DEF upper, lower, part, S, below
    <3> QED BY <1>1, <2>1, <2>2, <2>4, <3>1 DEF Lesser
  <2> QED BY <2>3, <2>4
<1> HIDE DEF upper, lower, part
<1>9. SumFunction(upper) = SumFunction(lower) + SumFunction(part)
      BY <1>2, <1>7, <1>8, SumAdds
<1> QED BY <1>4, <1>5, <1>9 DEF upper, lower

LEMMA FirstIsWinner ==
  ASSUME TypeOK, NEW W \in SUBSET Seated, W # {}
  PROVE  First(W) \in W
<1> DEFINE H == {SeatOf(b) : b \in W}
<1>1. \A b \in W : SeatOf(b) \in Seats
  <2>1. \A b \in Seated : \E i \in Seats : players[i] = b
        BY DEF Seated
  <2> QED BY <2>1 DEF SeatOf
<1>2. Seats \subseteq Nat
      BY DEF Seats
<1>3. H \in SUBSET Nat /\ H # {}
      BY <1>1, <1>2
<1>4. \E k \in H : \A j \in H : k <= j
  <2> HIDE DEF H
  <2> QED BY <1>3, LeastExists
<1>5. \E b \in W : \A c \in W : SeatOf(b) <= SeatOf(c)
      BY <1>4
<1> QED BY <1>5 DEF First

LEMMA Division ==
  ASSUME NEW p \in Int, NEW n \in Nat, n > 0
  PROVE  /\ p \div n \in Int /\ p % n \in Nat /\ (p \div n) * n + (p % n) = p
         /\ p >= 0 => p \div n >= 0
OBVIOUS

\* The shares of a pot are not negative, and add up to the pot: the odd chips go to
\* one of the winners.
LEMMA SharesAddUp ==
  ASSUME TypeOK, NEW pot \in Int, pot >= 0, NEW W \in SUBSET Seated, W # {}
  PROVE  /\ \A b \in Bots : Share(pot, W, b) \in Int /\ Share(pot, W, b) >= 0
         /\ \A b \in Bots : Share(pot, W, b) <= pot
         /\ SumFunction([b \in Bots |-> Share(pot, W, b)]) = pot
<1> DEFINE n == Cardinality(W)
           q == pot \div n
           r == pot % n
           w == First(W)
           even == [b \in Bots |-> IF b \in W THEN q ELSE 0]
           odd == [b \in Bots |-> IF b = w THEN r ELSE 0]
           share == [b \in Bots |-> Share(pot, W, b)]
<1>1. n \in Nat /\ n > 0
      BY SeatedAreFinite
<1>2. q \in Int /\ r \in Nat /\ q >= 0 /\ q * n + r = pot
  <2> HIDE DEF n
  <2> QED BY <1>1, Division
<1>3. w \in W
      BY FirstIsWinner
<1>4. W \in SUBSET Bots /\ w \in Bots /\ IsFiniteSet(Bots)
      BY <1>3, SeatedAreBots, TableAssumption
<1>5. \A b \in Bots : Share(pot, W, b) = IF b \notin W THEN 0
                                         ELSE q + (IF b = w THEN r ELSE 0)
      BY DEF Share
<1>6. SumFunction(even) = q * n
  <2> HIDE DEF q
  <2> QED BY <1>2, <1>4, SumOfIndicator
<1> HIDE DEF q, r, w, n
<1>7. SumFunction(odd) = r
      BY <1>2, <1>4, SumOfPoint
<1>8. /\ even \in [Bots -> Int] /\ odd \in [Bots -> Int] /\ share \in [Bots -> Int]
      /\ \A b \in Bots : share[b] >= 0 /\ share[b] = even[b] + odd[b]
      BY <1>2, <1>3, <1>5
<1>9. \A b \in Bots : share[b] = Share(pot, W, b)
      OBVIOUS
<1> HIDE DEF even, odd, share
<1>10. SumFunction(share) = SumFunction(even) + SumFunction(odd)
       BY <1>4, <1>8, SumAdds
<1>11. SumFunction(share) = pot
  <2>1. q * n \in Int
        BY <1>1, <1>2
  <2> QED BY <1>2, <1>6, <1>7, <1>10, <2>1
<1>12. \A b \in Bots : share[b] <= SumFunction(share)
       BY <1>4, <1>8, SumAtLeastPoint
<1>13. \A b \in Bots : Share(pot, W, b) \in Int /\ Share(pot, W, b) >= 0
                       /\ Share(pot, W, b) <= pot
       BY <1>8, <1>9, <1>11, <1>12
<1>14. SumFunction([b \in Bots |-> Share(pot, W, b)]) = pot
       BY <1>11 DEF share
<1> QED BY <1>13, <1>14

LEMMA BestExist ==
  ASSUME TypeOK, NEW S \in SUBSET Seated, S # {}
  PROVE  Best(S) # {} /\ Best(S) \subseteq S
<1>1. /\ rank \in [Bots -> Int] /\ S \in SUBSET Bots /\ IsFiniteSet(Bots)
      BY SeatedAreBots, TableAssumption DEF TypeOK
<1>2. \E b \in S : \A c \in S : rank[c] <= rank[b]
      BY <1>1, GreatestExists
<1> QED BY <1>2 DEF Best

-----------------------------------------------------------------------------
(* What the actions have in common *)

\* Steps that touch no chips.
LEMMA ChipsStay ==
  ASSUME ChipInv, ~Broken' => ~Broken, pc' \in PotControls <=> pc \in PotControls,
         UNCHANGED <<players, chips, seatStatus, folded, totalBets, pendingMutations,
                     expectedTotalChips>>
  PROVE  Conserved' /\ Gone' /\ NoPot' /\ InThePot' /\ (payouts' = payouts => OnlySeated')
<1>1. Conserved'
      BY DEF ChipInv, Conserved, TotalChips, InStacks, InPot
<1>2. Gone' /\ NoPot'
      BY DEF ChipInv, Gone, NoPot, Disconnected, RemovalPending
<1>3. InThePot'
      BY DEF ChipInv, InThePot, Overdrawn
<1>4. payouts' = payouts => OnlySeated'
      BY DEF ChipInv, OnlySeated, Seated, Seats
<1> QED BY <1>1, <1>2, <1>3, <1>4

\* What is said of the showdown is said of nothing else.
LEMMA OutOfShowdown ==
  ASSUME pc' \notin ShowdownControls
  PROVE  /\ Settling' /\ Winnings' /\ WithinCap' /\ OverdraftPaid'
         /\ PotsCoverBets' /\ SidePotCap'
BY DEF ShowdownControls, Settling, Winnings, WithinCap, OverdraftPaid, PotsCoverBets,
       SidePotCap

LEMMA OutOfHand ==
  ASSUME pc' \notin PotControls
  PROVE  /\ StreetBets'
         /\ (~Live => ~Broken') => SomebodyLeft'
BY DEF PotControls, BettingControls, ShowdownControls, StreetBets, SomebodyLeft

\* A game that is not broken, at each control but the idle one.
LEMMA NotBroken ==
  ASSUME ChipInv, pc # "idle", pc # "crash"
  PROVE  ~Broken /\ running /\ status = "running"
BY DEF ChipInv, LoopState, Broken, TypeInv, Control

LEMMA ChipInvInit == Init => ChipInv
<1> SUFFICES ASSUME Init PROVE ChipInv
    OBVIOUS
<1>1. /\ pc = "idle" /\ status = "waiting" /\ pendingMutations = <<>> /\ starts = 0
      /\ chips = Zero /\ totalBets = Zero /\ payouts = Zero /\ expectedTotalChips = 0
      /\ seatStatus = [b \in Bots |-> "active"] /\ ~Broken
      BY DEF Init, Broken
<1>2. TypeInv
      BY InitTypes
<1>3. LoopState /\ SomebodyLeft /\ InThePot /\ StreetBets
      BY <1>1 DEF LoopState, SomebodyLeft, InThePot, StreetBets, PotControls,
                  BettingControls, ShowdownControls
<1>4. Conserved
  <2>1. InStacks = 0 /\ InPot = 0
        BY <1>1, SumOfZero, TableAssumption DEF InStacks, InPot, Zero
  <2> QED BY <1>1, <2>1 DEF Conserved, TotalChips
<1>5. OnlySeated /\ Gone /\ NoPot
      BY <1>1 DEF OnlySeated, Gone, NoPot, Zero, Disconnected
<1>6. Settling /\ Winnings /\ WithinCap /\ OverdraftPaid /\ PotsCoverBets /\ SidePotCap
      BY <1>1 DEF Settling, Winnings, WithinCap, OverdraftPaid, PotsCoverBets, SidePotCap,
                  ShowdownControls
<1> QED BY <1>2, <1>3, <1>4, <1>5, <1>6 DEF ChipInv

-----------------------------------------------------------------------------
(* The steps of the loop between the bets *)

LEMMA FinishGameKeepsChips ==
  ASSUME ChipInv, TypeInv', FinishGame
  PROVE  ChipInv'
<1> USE DEF seatVars, playerVars, handVars, potVars, gameVars
<1>1. /\ pc \in {"top", "sleep"} /\ running /\ pc' = "idle" /\ status' = "finished"
      /\ UNCHANGED <<seatVars, playerVars, handVars, potVars, running, pendingMutations,
                     expectedTotalChips, starts>>
      BY DEF FinishGame, AtLoopTop
<1>2. ~Broken /\ ~Broken'
      BY <1>1, NotBroken DEF Broken
<1>3. pc \notin PotControls /\ pc' \notin PotControls /\ pc' \notin ShowdownControls
      BY <1>1 DEF PotControls, BettingControls, ShowdownControls
<1>4. LoopState'
      BY <1>1 DEF ChipInv, LoopState, HandControls
<1> QED BY <1>1, <1>2, <1>3, <1>4, ChipsStay, OutOfShowdown, OutOfHand DEF ChipInv

LEMMA StartGameKeepsChips ==
  ASSUME ChipInv, TypeInv', StartGame
  PROVE  ChipInv'
<1> USE DEF seatVars, playerVars, handVars, potVars, gameVars
<1>1. /\ AtAwait /\ starts > 0 /\ starts' = starts - 1
      /\ \/ /\ ~running /\ status # "finished"
            /\ running' = TRUE /\ status' = "running" /\ pc' = "top"
         \/ UNCHANGED <<running, status, pc>>
      /\ UNCHANGED <<seatVars, playerVars, handVars, potVars, pendingMutations,
                     expectedTotalChips>>
      BY DEF StartGame
<1>2. starts \in Nat
      BY DEF ChipInv, TypeInv, TypeOK
<1>3. ~Broken /\ ~Broken'
      BY <1>1 DEF ChipInv, LoopState, Broken, AtAwait
<1>4. CASE UNCHANGED <<running, status, pc>>
  <2>1. LoopState'
        BY <1>1, <1>2, <1>4 DEF ChipInv, LoopState
  <2>2. pc # "act" /\ pc # "settle"
        BY <1>1 DEF AtAwait
  <2>3. SomebodyLeft'
        BY <1>1, <1>3, <1>4, <2>2
        DEF ChipInv, SomebodyLeft, Undisturbed, ActivePlayers, Seated, Seats, Disconnected
  <2>4. StreetBets'
        BY <1>1, <1>4 DEF ChipInv, StreetBets
  <2>5. Settling' /\ Winnings' /\ WithinCap' /\ OverdraftPaid'
        BY <1>1, <1>4, <2>2
        DEF ChipInv, Settling, Winnings, WithinCap, OverdraftPaid, RemovalPending
  <2>6. PotsCoverBets' /\ SidePotCap'
        BY <1>1, <1>4
        DEF ChipInv, PotsCoverBets, SidePotCap, InPot, CanWinFrom, Forfeits, Disconnected
  <2> QED BY <1>1, <1>3, <1>4, <2>1, <2>3, <2>4, <2>5, <2>6, ChipsStay DEF ChipInv
<1>5. CASE ~running /\ running' = TRUE /\ status' = "running" /\ pc' = "top"
  <2>1. pc = "idle"
        BY <1>5 DEF ChipInv, TypeInv, Control
  <2>2. pc \notin PotControls /\ pc' \notin PotControls /\ pc' \notin ShowdownControls
        BY <1>5, <2>1 DEF PotControls, BettingControls, ShowdownControls
  <2>3. LoopState'
        BY <1>1, <1>5, <2>1 DEF ChipInv, LoopState, HandControls
  <2> QED BY <1>1, <1>3, <2>2, <2>3, ChipsStay, OutOfShowdown, OutOfHand DEF ChipInv
<1> QED BY <1>1, <1>4, <1>5

LEMMA HandEndKeepsChips ==
  ASSUME ChipInv, TypeInv', CheckChips \/ AdvanceDealer \/ PotAwarded
  PROVE  ChipInv'
<1> USE DEF seatVars, playerVars, handVars, potVars, gameVars
<1>1. /\ pc \in {"drain", "hook", "award"} /\ pc' \in {"drain", "hook", "sleep", "crash"}
      /\ UNCHANGED <<players, playerVars, handVars, potVars, running, status,
                     pendingMutations, expectedTotalChips, starts>>
      BY DEF CheckChips, AdvanceDealer, PotAwarded, HandOver
<1>2. ~Broken /\ status = "running"
      BY <1>1, NotBroken
<1>3. pc' # "crash"
  <2>1. TotalChips = expectedTotalChips
        BY <1>2 DEF ChipInv, Conserved
  <2> QED BY <2>1 DEF CheckChips, AdvanceDealer, PotAwarded, HandOver
<1>4. ~Broken'
      BY <1>1, <1>2, <1>3 DEF Broken
<1>5. pc \notin PotControls /\ pc' \notin PotControls /\ pc' \notin ShowdownControls
      BY <1>1 DEF PotControls, BettingControls, ShowdownControls
<1>6. LoopState'
  <2>1. Live => starts = 0
        BY DEF CheckChips, AdvanceDealer, PotAwarded, Wakes, ChipInv, LoopState
  <2>2. pendingMutations' # <<>> => pc' = "drain"
        BY <1>1 DEF CheckChips, AdvanceDealer, PotAwarded, HandOver, ChipInv, LoopState,
                    HandControls
  <2> QED BY <1>1, <1>2, <2>1, <2>2 DEF ChipInv, LoopState
<1> QED BY <1>1, <1>2, <1>4, <1>5, <1>6, ChipsStay, OutOfShowdown, OutOfHand DEF ChipInv

LEMMA FailuresKeepChips ==
  ASSUME ChipInv, TypeInv', GameFails \/ AwardPotThrows
  PROVE  ChipInv'
<1> USE DEF seatVars, playerVars, handVars, potVars, gameVars
<1>1. CASE GameFails
  <2>1. /\ pc = "crash" /\ pc' = "idle" /\ status' = "error" /\ running' = FALSE
        /\ pendingMutations' = <<>> /\ starts' = starts
        BY <1>1 DEF GameFails
  <2>2. Live /\ starts = 0
        BY <2>1 DEF ChipInv, SomebodyLeft, LoopState, Broken
  <2>3. Broken' /\ pc' \notin PotControls /\ pc' \notin ShowdownControls
        BY <2>1 DEF Broken, PotControls, BettingControls, ShowdownControls
  <2>4. LoopState'
        BY <2>1, <2>2 DEF LoopState
  <2>5. Conserved' /\ OnlySeated' /\ Gone' /\ NoPot' /\ InThePot'
        BY <2>3 DEF Conserved, OnlySeated, Gone, NoPot, InThePot
  <2> QED BY <2>2, <2>3, <2>4, <2>5, OutOfShowdown, OutOfHand DEF ChipInv
<1>2. CASE AwardPotThrows
  <2>1. /\ pc = "act" /\ ActivePlayers = {} /\ pc' = "crash"
        /\ UNCHANGED <<pendingMutations, status, running, starts>>
        BY <1>2 DEF AwardPotThrows, RoundOver
  <2>2. ~Undisturbed
        BY <2>1 DEF ChipInv, SomebodyLeft, PotControls, BettingControls
  <2>3. Live /\ starts = 0
        BY <2>1, <2>2 DEF Undisturbed, ChipInv, TypeInv, TypeOK
  <2>4. Broken' /\ pc' \notin PotControls /\ pc' \notin ShowdownControls
        BY <2>1 DEF Broken, PotControls, BettingControls, ShowdownControls
  <2>5. LoopState'
        BY <2>1, <2>3 DEF ChipInv, LoopState
  <2>6. Conserved' /\ OnlySeated' /\ Gone' /\ NoPot' /\ InThePot'
        BY <2>4 DEF Conserved, OnlySeated, Gone, NoPot, InThePot
  <2> QED BY <2>3, <2>4, <2>5, <2>6, OutOfShowdown, OutOfHand DEF ChipInv
<1> QED BY <1>1, <1>2

LEMMA StreetsKeepChips ==
  ASSUME ChipInv, TypeInv', NextTurn \/ NextStreet \/ BeginStreet
  PROVE  ChipInv'
<1> USE DEF seatVars, playerVars, handVars, potVars, gameVars
<1>1. /\ pc \in BettingControls /\ pc' \in {"act", "street"}
      /\ UNCHANGED <<players, playerVars, totalBets, potVars, running, status,
                     pendingMutations, expectedTotalChips, starts>>
      BY DEF NextTurn, NextStreet, BeginStreet, RoundOver, BettingControls
<1>2. ~Broken /\ status = "running"
      BY <1>1, NotBroken DEF BettingControls
<1>3. ~Broken' /\ pc \in PotControls /\ pc' \in PotControls /\ pc' \notin ShowdownControls
      BY <1>1, <1>2 DEF Broken, PotControls, BettingControls, ShowdownControls
<1>4. LoopState'
      BY <1>1, <1>2 DEF ChipInv, LoopState, HandControls
<1>5. SomebodyLeft'
  <2>1. Undisturbed' => ~Live
        BY <1>1 DEF NextTurn, NextStreet, BeginStreet, Wakes, Undisturbed, ChipInv, TypeInv,
                    TypeOK
  <2>2. UNCHANGED <<ActivePlayers, Seated, seatStatus, folded>>
        BY <1>1 DEF ActivePlayers, Seated, Seats, Disconnected
  <2> QED BY <1>1, <1>3, <2>1, <2>2
          DEF ChipInv, SomebodyLeft, Undisturbed, Disconnected
<1>6. StreetBets'
  <2>1. \/ round' = round
        \/ round' = NewRound
        BY DEF NextTurn, NextStreet, BeginStreet, CloseRound
  <2>2. \A b \in Bots : totalBets[b] >= 0
        BY <1>3 DEF ChipInv, InThePot
  <2>3. NewRound.maxBet = 0 /\ \A b \in Bots : NewRound.bets[b] = 0
        BY DEF NewRound, NoBets
  <2> QED BY <1>1, <2>1, <2>2, <2>3 DEF ChipInv, StreetBets
<1> QED BY <1>1, <1>2, <1>3, <1>4, <1>5, <1>6, ChipsStay, OutOfShowdown DEF ChipInv

-----------------------------------------------------------------------------
(* The bets *)

\* While the betting goes on nobody is overdrawn, and the acting bot is not the last.
LEMMA Bettors ==
  ASSUME ChipInv, Iterating
  PROVE  /\ pc = "act" /\ ~Broken /\ status = "running"
         /\ Actor \in Seated /\ Actor \in Bots
         /\ \A b \in Bots : chips[b] >= 0 /\ chips[b] \in Int
         /\ ~folded[Actor] => \E c \in Seated : c # Actor /\ ~folded[c]
<1>1. pc = "act" /\ ~RoundComplete
      BY DEF Iterating
<1>2. ~Broken /\ status = "running"
      BY <1>1, NotBroken
<1>3. cur \in Seats
      BY <1>1 DEF ChipInv, TypeInv, SeatsInRange
<1>4. TypeOK
      BY DEF ChipInv, TypeInv
<1>5. Actor \in Seated /\ Actor \in Bots /\ Seated \subseteq Bots
      BY <1>3, <1>4, SeatedAreBots DEF Actor, Seated
<1>6. /\ ~(Cardinality({b \in Seated : ~folded[b]}) <= 1)
      /\ \E b \in Seated : chips[b] > 0
      BY <1>1 DEF RoundComplete, BettingComplete
<1>7. ASSUME NEW x \in Bots, chips[x] < 0 PROVE FALSE
  <2>1. \A b \in Bots \ {x} : chips[b] = 0
        BY <1>1, <1>7 DEF ChipInv, InThePot, Overdrawn, PotControls, BettingControls
  <2>2. PICK b \in Seated : chips[b] > 0
        BY <1>6
  <2>3. chips[x] \in Int /\ chips[b] \in Int /\ b \in Bots
        BY <1>4, <1>5 DEF TypeOK
  <2>4. b # x
        BY <1>7, <2>2, <2>3
  <2> QED BY <2>1, <2>2, <2>3, <2>4
<1>8. \A b \in Bots : chips[b] >= 0 /\ chips[b] \in Int
      BY <1>4, <1>7 DEF TypeOK
<1>9. ASSUME ~folded[Actor], \A c \in Seated : c # Actor => folded[c]
      PROVE  FALSE
  <2>1. {b \in Seated : ~folded[b]} = {Actor}
        BY <1>5, <1>9
  <2>2. Cardinality({b \in Seated : ~folded[b]}) = 1
        BY <2>1, FS_Singleton
  <2> QED BY <1>6, <2>2
<1> QED BY <1>1, <1>2, <1>5, <1>8, <1>9

\* A step of the betting: the acting bot folds or not, and puts amount in the pot.
BettingStep(amount) ==
  /\ pc' \in {"act", "acted"}
  /\ chips' = [chips EXCEPT ![Actor] = chips[Actor] - amount]
  /\ totalBets' = [totalBets EXCEPT ![Actor] = totalBets[Actor] + amount]
  /\ \A b \in Bots : Disconnected(b)' <=> Disconnected(b)
  /\ \A b \in Bots \ {Actor} : folded'[b] = folded[b]
  /\ folded[Actor] => amount = 0 /\ folded'[Actor]
  /\ UNCHANGED <<players, payouts, running, status, pendingMutations,
                 expectedTotalChips, starts>>

LEMMA BettingStepKeepsChips ==
  ASSUME ChipInv, TypeInv', StreetBets', Iterating, NEW amount \in Int,
         amount <= chips[Actor], totalBets[Actor] + amount >= 0, BettingStep(amount)
  PROVE  ChipInv'
<1> DEFINE a == Actor
<1>1. /\ pc = "act" /\ ~Broken /\ status = "running" /\ a \in Seated /\ a \in Bots
      /\ \A b \in Bots : chips[b] >= 0 /\ chips[b] \in Int
      /\ ~folded[a] => \E c \in Seated : c # a /\ ~folded[c]
      BY Bettors
<1>2. /\ chips \in [Bots -> Int] /\ totalBets \in [Bots -> Int] /\ Seated \subseteq Bots
      /\ IsFiniteSet(Bots)
      BY SeatedAreBots, TableAssumption DEF ChipInv, TypeInv, TypeOK
<1>3. /\ pc' \in {"act", "acted"} /\ ~Broken' /\ pc \in PotControls /\ pc' \in PotControls
      /\ pc' \notin ShowdownControls /\ Seated' = Seated
      BY <1>1 DEF BettingStep, Broken, PotControls, BettingControls, ShowdownControls,
                  Seated, Seats
<1>4. /\ \A b \in Bots : chips'[b] = IF b = a THEN chips[a] - amount ELSE chips[b]
      /\ \A b \in Bots : totalBets'[b] = IF b = a THEN totalBets[a] + amount ELSE totalBets[b]
      BY <1>1, <1>2 DEF BettingStep
<1>5. LoopState'
      BY <1>1, <1>3 DEF ChipInv, LoopState, HandControls, BettingStep
<1>6. SomebodyLeft'
  <2>1. SUFFICES ASSUME Undisturbed'
                 PROVE  /\ ActivePlayers' # {}
                        /\ \A b \in Seated : Disconnected(b)' => folded'[b]
        BY <1>3 DEF SomebodyLeft
  <2>2. Undisturbed
        BY <1>1, <2>1 DEF Undisturbed, BettingStep
  <2>3. ActivePlayers # {} /\ \A b \in Seated : Disconnected(b) => folded[b]
        BY <1>3, <2>2 DEF ChipInv, SomebodyLeft
  <2>4. \A b \in Seated : Disconnected(b)' => folded'[b]
        BY <1>2, <2>3 DEF BettingStep
  <2>5. CASE folded[a]
    <3>1. PICK c \in ActivePlayers : TRUE
          BY <2>3
    <3>2. c \in Seated /\ c \in Bots /\ c # a /\ ~folded[c] /\ ~Disconnected(c)
          BY <1>2, <2>5, <3>1 DEF ActivePlayers
    <3>3. ~folded'[c] /\ ~Disconnected(c)'
          BY <3>2 DEF BettingStep
    <3>4. c \in ActivePlayers'
          BY <1>3, <3>2, <3>3 DEF ActivePlayers
    <3> QED BY <2>4, <3>4
  <2>6. CASE ~folded[a]
    <3>1. PICK c \in Seated : c # a /\ ~folded[c]
          BY <1>1, <2>6
    <3>2. ~Disconnected(c) /\ c \in Bots
          BY <1>2, <2>3, <3>1
    <3>3. ~folded'[c] /\ ~Disconnected(c)'
          BY <3>1, <3>2 DEF BettingStep
    <3>4. c \in ActivePlayers'
          BY <1>3, <3>1, <3>3 DEF ActivePlayers
    <3> QED BY <2>4, <3>4
  <2> QED BY <2>5, <2>6
<1>7. Conserved'
  <2> DEFINE n == chips[a] - amount
             m == totalBets[a] + amount
  <2>a. /\ chips' = [chips EXCEPT ![a] = n] /\ n \in Int
        /\ totalBets' = [totalBets EXCEPT ![a] = m] /\ m \in Int
        BY <1>1, <1>2 DEF BettingStep
  <2>b. n = chips[a] - amount /\ m = totalBets[a] + amount
        OBVIOUS
  <2> HIDE DEF n, m, a
  <2>1. SumFunction(chips') = SumFunction(chips) + (n - chips[a])
        BY <1>1, <1>2, <2>a, SumUpdate
  <2>2. SumFunction(totalBets') = SumFunction(totalBets) + (m - totalBets[a])
        BY <1>1, <1>2, <2>a, SumUpdate
  <2>3. SumFunction(chips) \in Int /\ SumFunction(totalBets) \in Int
        /\ chips[a] \in Int /\ totalBets[a] \in Int
        BY <1>1, <1>2, SumIsInt
  <2>4. SumFunction(chips') + SumFunction(totalBets')
          = SumFunction(chips) + SumFunction(totalBets)
        BY <2>1, <2>2, <2>3, <2>a, <2>b
  <2>5. expectedTotalChips' = expectedTotalChips
        BY DEF BettingStep
  <2> QED BY <1>1, <2>4, <2>5 DEF ChipInv, Conserved, TotalChips, InStacks, InPot
<1>8. OnlySeated'
      BY <1>1, <1>3, <1>4 DEF ChipInv, OnlySeated, BettingStep
<1>9. Gone'
  <2>1. ASSUME NEW b \in Bots, Disconnected(b)'
        PROVE  RemovalPending(b)' \/ (chips'[b] = 0 /\ folded'[b])
    <3>1. Disconnected(b) /\ pendingMutations' = pendingMutations
          BY <2>1 DEF BettingStep
    <3>2. RemovalPending(b) \/ (chips[b] = 0 /\ folded[b])
          BY <1>1, <1>3, <3>1 DEF ChipInv, Gone
    <3>3. CASE RemovalPending(b)
          BY <3>1, <3>3 DEF RemovalPending
    <3>4. CASE chips[b] = 0 /\ folded[b]
      <4>1. CASE b = a
            BY <1>4, <3>4, <4>1 DEF BettingStep
      <4>2. CASE b # a
            BY <1>4, <3>4, <4>2 DEF BettingStep
      <4> QED BY <4>1, <4>2
    <3> QED BY <3>2, <3>3, <3>4
  <2> QED BY <2>1 DEF Gone
<1>10. NoPot'
       BY <1>3 DEF NoPot
<1>11. InThePot'
  <2>1. \A b \in Bots : totalBets[b] >= 0
        BY <1>3 DEF ChipInv, InThePot
  <2>2. \A b \in Bots : totalBets'[b] >= 0 /\ chips'[b] >= 0 /\ chips'[b] \in Int
        BY <1>1, <1>4, <2>1
  <2> QED BY <2>2 DEF InThePot
<1> QED BY <1>3, <1>5, <1>6, <1>7, <1>8, <1>9, <1>10, <1>11, OutOfShowdown DEF ChipInv

\* The bets of the street follow what is put in.
LEMMA StreetBetsFollow ==
  ASSUME ChipInv, Iterating, NEW amount \in Int, BettingStep(amount),
         round.bets[Actor] + amount >= 0, round'.maxBet >= 0,
         round'.bets = [round.bets EXCEPT ![Actor] = round.bets[Actor] + amount]
  PROVE  StreetBets' /\ totalBets[Actor] + amount >= 0
<1> DEFINE a == Actor
<1>1. /\ a \in Bots /\ pc = "act"
      BY Bettors
<1>2. /\ round.bets \in [Bots -> Int] /\ totalBets \in [Bots -> Int]
      BY DEF ChipInv, TypeInv, TypeOK, Rounds
<1>3. \A b \in Bots : 0 <= round.bets[b] /\ round.bets[b] <= totalBets[b]
      BY <1>1 DEF ChipInv, StreetBets, BettingControls
<1>4. /\ \A b \in Bots : round'.bets[b] = IF b = a THEN round.bets[a] + amount ELSE round.bets[b]
      /\ \A b \in Bots : totalBets'[b] = IF b = a THEN totalBets[a] + amount ELSE totalBets[b]
      BY <1>1, <1>2 DEF BettingStep
<1>5. \A b \in Bots : 0 <= round'.bets[b] /\ round'.bets[b] <= totalBets'[b]
      BY <1>1, <1>2, <1>3, <1>4
<1>6. totalBets[a] + amount >= 0
      BY <1>1, <1>2, <1>3
<1> QED BY <1>5, <1>6 DEF StreetBets

\* What the operators of BettingRound do to the bets.
LEMMA AnsweredBets ==
  ASSUME NEW r \in Rounds, NEW b \in Bots
  PROVE  Answered(r, b).bets = r.bets /\ Answered(r, b).maxBet = r.maxBet
BY DEF Answered, Rounds

LEMMA CalledBets ==
  ASSUME NEW r \in Rounds, NEW b \in Bots, NEW stack \in Int
  PROVE  /\ Called(r, b, stack).bets
              = [r.bets EXCEPT ![b] = r.bets[b] + CallAmount(r, b, stack)]
         /\ Called(r, b, stack).maxBet = r.maxBet
<1> DEFINE a == Answered(r, b)
<1>1. a \in Rounds /\ a.bets = r.bets /\ a.maxBet = r.maxBet
      BY AnsweredBets, AnsweredType
<1>2. Called(r, b, stack) = [a EXCEPT !.bets[b] = @ + CallAmount(r, b, stack)]
      BY DEF Called
<1> HIDE DEF a
<1> QED BY CallAmountType, <1>1, <1>2 DEF Rounds

LEMMA RaisedBets ==
  ASSUME NEW r \in Rounds, NEW b \in Bots, NEW stack \in Int, NEW by \in Int,
         NEW seated, r.maxBet >= 0
  PROVE  /\ Raised(r, b, stack, by, seated).bets
              = [r.bets EXCEPT ![b] = r.bets[b] + RaiseAdds(r, b, stack, by)]
         /\ Raised(r, b, stack, by, seated).maxBet >= 0
<1> DEFINE newBet == r.bets[b] + RaiseAdds(r, b, stack, by)
<1>1. newBet \in Int /\ r.maxBet \in Int
      BY RaiseType DEF Rounds
<1>2. CASE newBet - r.maxBet <= 0
  <2>1. Raised(r, b, stack, by, seated) = [r EXCEPT !.bets[b] = newBet]
        BY <1>2 DEF Raised
  <2> HIDE DEF newBet
  <2>2. /\ Raised(r, b, stack, by, seated).bets = [r.bets EXCEPT ![b] = newBet]
        /\ Raised(r, b, stack, by, seated).maxBet = r.maxBet
        BY <2>1 DEF Rounds
  <2> QED BY <2>2 DEF newBet
<1>3. CASE ~(newBet - r.maxBet <= 0)
  <2>1. /\ Raised(r, b, stack, by, seated).bets = [r.bets EXCEPT ![b] = newBet]
        /\ Raised(r, b, stack, by, seated).maxBet = newBet
        BY <1>3 DEF Raised
  <2>2. newBet >= 0
    <3> HIDE DEF newBet
    <3> QED BY <1>1, <1>3
  <2> QED BY <2>1, <2>2
<1> QED BY <1>2, <1>3

LEMMA BettingKeepsChips ==
  ASSUME ChipInv, TypeInv',
         \/ SkipSeat \/ GhostActs \/ (BotToAct /\ BotActs)
  PROVE  ChipInv'
<1> USE DEF seatVars, playerVars, handVars, potVars, gameVars
<1> DEFINE a == Actor
<1>1. Iterating
      BY DEF SkipSeat, GhostActs, BotToAct
<1>2. /\ pc = "act" /\ a \in Bots /\ a \in Seated /\ chips[a] >= 0
      BY <1>1, Bettors
<1>3. /\ chips \in [Bots -> Int] /\ totalBets \in [Bots -> Int]
      /\ folded \in [Bots -> BOOLEAN] /\ seatStatus \in [Bots -> Statuses]
      /\ round \in Rounds /\ round.bets \in [Bots -> Int]
      /\ round.maxBet \in Int /\ round.lastDelta \in Int
      BY DEF ChipInv, TypeInv, TypeOK, Rounds
<1>4. /\ round.maxBet >= 0 /\ round.bets[a] >= 0 /\ totalBets[a] >= 0
  <2>1. round.maxBet >= 0 /\ 0 <= round.bets[a] /\ round.bets[a] <= totalBets[a]
        BY <1>2 DEF ChipInv, StreetBets, BettingControls
  <2>2. round.bets[a] \in Int /\ totalBets[a] \in Int
        BY <1>2, <1>3
  <2> QED BY <2>1, <2>2
\* An action that puts in nothing.
<1>5. ASSUME pc' \in {"act", "acted"}, round'.bets = round.bets, round'.maxBet = round.maxBet,
             folded[a] => folded'[a],
             \A b \in Bots \ {a} : folded'[b] = folded[b],
             \A b \in Bots : Disconnected(b)' <=> Disconnected(b),
             UNCHANGED <<players, chips, totalBets, payouts, running, status,
                         pendingMutations, expectedTotalChips, starts>>
      PROVE  ChipInv'
  <2>1. chips[a] - 0 = chips[a] /\ totalBets[a] + 0 = totalBets[a]
        /\ round.bets[a] + 0 = round.bets[a]
        BY <1>2, <1>3
  <2>2. /\ chips' = [chips EXCEPT ![a] = chips[a] - 0]
        /\ totalBets' = [totalBets EXCEPT ![a] = totalBets[a] + 0]
        /\ round'.bets = [round.bets EXCEPT ![a] = round.bets[a] + 0]
        BY <1>2, <1>3, <1>5, <2>1
  <2>3. BettingStep(0)
        BY <1>5, <2>2 DEF BettingStep
  <2>4. StreetBets' /\ totalBets[a] + 0 >= 0
        BY <1>1, <1>4, <1>5, <2>1, <2>2, <2>3, StreetBetsFollow
  <2> QED BY <1>1, <1>2, <2>3, <2>4, BettingStepKeepsChips
\* An action that puts in some of the stack.
<1>6. ASSUME NEW amount \in Int, PutIn(amount), ~folded[a], amount <= chips[a],
             round.bets[a] + amount >= 0, round'.maxBet >= 0,
             round'.bets = [round.bets EXCEPT ![a] = round.bets[a] + amount],
             StrategyAnswers, ActionApplied
      PROVE  ChipInv'
  <2>1. /\ chips' = [chips EXCEPT ![a] = chips[a] - amount]
        /\ totalBets' = [totalBets EXCEPT ![a] = totalBets[a] + amount]
        /\ folded' = folded
        BY <1>6 DEF PutIn
  <2>2. BettingStep(amount)
        BY <1>6, <2>1 DEF BettingStep, ActionApplied, StrategyAnswers, Disconnected
  <2>3. StreetBets' /\ totalBets[a] + amount >= 0
        BY <1>1, <1>6, <2>2, StreetBetsFollow
  <2> QED BY <1>1, <1>6, <2>2, <2>3, BettingStepKeepsChips
<1>7. Answered(round, a).bets = round.bets /\ Answered(round, a).maxBet = round.maxBet
      BY <1>2, <1>3, AnsweredBets
<1>8. CASE SkipSeat
      BY <1>5, <1>8, <1>2 DEF SkipSeat, Disconnected
<1>9. CASE GhostActs
      BY <1>3, <1>5, <1>7, <1>9, <1>2 DEF GhostActs, Disconnected
<1>10. CASE BotToAct /\ BotChecksOrFolds
       BY <1>3, <1>5, <1>7, <1>10, <1>2
       DEF BotToAct, BotChecksOrFolds, CheckOrFold, ActionApplied, StrategyAnswers, Disconnected
<1>11. CASE BotToAct /\ StrategyFails
  <2>1. \A b \in Bots : Disconnected(b)' <=> Disconnected(b)
        BY <1>2, <1>3, <1>11 DEF StrategyFails, Disconnected, Statuses
  <2> QED BY <1>3, <1>5, <1>7, <1>11, <1>2, <2>1
          DEF BotToAct, StrategyFails, CheckOrFold, ActionApplied
<1>12. CASE BotToAct /\ BotCalls
  <2> DEFINE amount == CallAmount(round, a, chips[a])
  <2>1. /\ amount \in Int /\ amount <= chips[a] /\ amount >= 0
    <3>1. ~CanCheck(round, a) /\ chips[a] \in Int /\ round.bets[a] \in Int
          BY <1>2, <1>3, <1>12 DEF BotCalls
    <3> QED BY <1>2, <1>3, <3>1 DEF CallAmount, ToCall, Lesser, CanCheck
  <2>2. /\ round'.bets = [round.bets EXCEPT ![a] = round.bets[a] + amount]
        /\ round'.maxBet = round.maxBet
    <3>1. chips[a] \in Int
          BY <1>2, <1>3
    <3>2. /\ Called(round, a, chips[a]).bets
               = [round.bets EXCEPT ![a] = round.bets[a] + CallAmount(round, a, chips[a])]
          /\ Called(round, a, chips[a]).maxBet = round.maxBet
          BY <1>2, <1>3, <3>1, CalledBets
    <3>3. round' = Called(round, a, chips[a])
          BY <1>12 DEF BotCalls
    <3> QED BY <3>2, <3>3
  <2>3. PutIn(amount) /\ ~folded[a] /\ StrategyAnswers /\ ActionApplied
        BY <1>12 DEF BotToAct, BotCalls
  <2> HIDE DEF amount
  <2>4. round.bets[a] + amount >= 0
        BY <1>2, <1>3, <1>4, <2>1
  <2> QED BY <1>4, <1>6, <2>1, <2>2, <2>3, <2>4
<1>13. ASSUME NEW n \in RaiseAmounts, BotToAct, BotRaises(n) PROVE ChipInv'
  <2> DEFINE by == NormalizedRaise(round, a, chips[a], n)
             amount == RaiseAdds(round, a, chips[a], by)
  <2>1. n \in Int
    <3>1. CallAmount(round, a, chips[a]) \in Int /\ chips[a] \in Int
          BY <1>2, <1>3, CallAmountType
    <3> QED BY <1>3, <1>13, <3>1 DEF RaiseAmounts
  <2>2. by \in Int /\ amount \in Int
        BY <1>2, <1>3, <2>1, RaiseType
  <2>3. /\ StrategyAnswers /\ ActionApplied /\ ~folded[a]
        /\ \/ /\ RaiseIsValid(round, a, chips[a], by)
              /\ PutIn(amount)
              /\ round' = Raised(round, a, chips[a], by, Seated)
           \/ /\ folded' = [folded EXCEPT ![a] = TRUE]
              /\ round' = Answered(round, a)
              /\ UNCHANGED <<chips, allIn, totalBets>>
        BY <1>13 DEF BotToAct, BotRaises
  <2>4. CASE RaiseIsValid(round, a, chips[a], by) /\ PutIn(amount)
             /\ round' = Raised(round, a, chips[a], by, Seated)
    <3>1. by > 0
          BY <2>4 DEF RaiseIsValid
    <3>3. chips[a] \in Int /\ round.bets[a] \in Int
          BY <1>2, <1>3
    <3> HIDE DEF by
    <3>4. amount <= chips[a] /\ round.bets[a] + amount >= 0
          BY <1>2, <1>3, <1>4, <2>2, <3>1, <3>3 DEF RaiseAdds, ToCall, Lesser
    <3>5. /\ round'.bets = [round.bets EXCEPT ![a] = round.bets[a] + amount]
          /\ round'.maxBet >= 0
      <4> DEFINE r2 == Raised(round, a, chips[a], by, Seated)
      <4>1. /\ r2.bets = [round.bets EXCEPT
                            ![a] = round.bets[a] + RaiseAdds(round, a, chips[a], by)]
            /\ r2.maxBet >= 0
            BY <1>2, <1>3, <1>4, <2>2, <3>3, RaisedBets
      <4>2. round' = r2
            BY <2>4
      <4> QED BY <4>1, <4>2
    <3> HIDE DEF amount
    <3> QED BY <1>6, <2>2, <2>3, <2>4, <3>4, <3>5
  <2>5. CASE /\ folded' = [folded EXCEPT ![a] = TRUE]
             /\ round' = Answered(round, a)
             /\ UNCHANGED <<chips, allIn, totalBets>>
    <3> HIDE DEF by, amount
    <3> QED BY <1>2, <1>3, <1>5, <1>7, <2>3, <2>5
            DEF ActionApplied, StrategyAnswers, Disconnected
  <2> HIDE DEF by, amount
  <2> QED BY <2>3, <2>4, <2>5
<1> QED BY <1>8, <1>9, <1>10, <1>11, <1>12, <1>13 DEF BotActs

-----------------------------------------------------------------------------
(* The showdown *)

LEMMA WinTypes ==
  ASSUME TypeOK, \A b \in Bots : totalBets[b] >= 0
  PROVE  \A b, c \in Bots : /\ CanWinFrom(b, c) \in Int /\ CanWinFrom(b, c) >= 0
                            /\ CanWinFrom(b, c) <= totalBets[c]
<1>1. \A b \in Bots : totalBets[b] \in Int
      BY DEF TypeOK
<1> QED BY <1>1 DEF CanWinFrom, Lesser

\* Capping values at a higher level gives a higher sum, and capping gives a lower one.
LEMMA CappedSums ==
  ASSUME NEW f \in [Bots -> Int], \A c \in Bots : f[c] >= 0,
         NEW l \in Int, NEW m \in Int, 0 <= l, l <= m
  PROVE  /\ SumFunction([c \in Bots |-> Lesser(f[c], l)]) \in Int
         /\ SumFunction([c \in Bots |-> Lesser(f[c], m)]) \in Int
         /\ SumFunction([c \in Bots |-> Lesser(f[c], l)])
              <= SumFunction([c \in Bots |-> Lesser(f[c], m)])
         /\ SumFunction([c \in Bots |-> Lesser(f[c], m)]) <= SumFunction(f)
         /\ SumFunction(f) \in Int /\ SumFunction(f) >= 0
         /\ l = 0 => SumFunction([c \in Bots |-> Lesser(f[c], l)]) = 0
<1> DEFINE lo == [c \in Bots |-> Lesser(f[c], l)]
           hi == [c \in Bots |-> Lesser(f[c], m)]
<1>1. IsFiniteSet(Bots)
      BY TableAssumption
<1>2. /\ lo \in [Bots -> Int] /\ hi \in [Bots -> Int]
      /\ \A c \in Bots : lo[c] <= hi[c] /\ hi[c] <= f[c]
      /\ l = 0 => lo = [c \in Bots |-> 0]
  <2>1. \A c \in Bots : f[c] \in Int
        OBVIOUS
  <2>2. \A c \in Bots : /\ Lesser(f[c], l) \in Int /\ Lesser(f[c], m) \in Int
                        /\ Lesser(f[c], l) <= Lesser(f[c], m) /\ Lesser(f[c], m) <= f[c]
                        /\ l = 0 => Lesser(f[c], l) = 0
        BY <2>1 DEF Lesser
  <2> QED BY <2>2
<1>3. f \in [Bots -> Nat]
  <2>1. \A c \in Bots : f[c] \in Nat
        OBVIOUS
  <2> QED BY <2>1
<1> HIDE DEF lo, hi
<1>4. SumFunction(lo) \in Int /\ SumFunction(hi) \in Int /\ SumFunction(f) \in Int
      BY <1>1, <1>2, SumIsInt
<1>5. SumFunction(lo) <= SumFunction(hi) /\ SumFunction(hi) <= SumFunction(f)
      BY <1>1, <1>2, SumMonotone
<1>6. SumFunction(f) \in Nat
      BY <1>1, <1>3, SumIsNat
<1>7. l = 0 => SumFunction(lo) = 0
      BY <1>1, <1>2, SumOfZero
<1> QED BY <1>4, <1>5, <1>6, <1>7 DEF lo, hi

LEMMA ShowdownKeepsChips ==
  ASSUME ChipInv, TypeInv', Showdown
  PROVE  ChipInv'
<1> USE DEF seatVars, playerVars, gameVars
<1>1. /\ pc = "act" /\ pc' = "settle" /\ Cardinality(ActivePlayers) > 1
      /\ level' = HighestOf(Levels) /\ dead' = 0 /\ payouts' = Zero
      /\ UNCHANGED <<players, chips, seatStatus, folded, totalBets, running, status,
                     pendingMutations, expectedTotalChips, starts>>
      BY DEF Showdown, RoundOver
<1>2. ~Broken /\ status = "running"
      BY <1>1, NotBroken
<1>3. ~Broken' /\ pc \in PotControls /\ pc' \in PotControls
      BY <1>1, <1>2 DEF Broken, PotControls, BettingControls, ShowdownControls
<1>4. /\ totalBets \in [Bots -> Int] /\ chips \in [Bots -> Int] /\ TypeOK
      /\ IsFiniteSet(Bots) /\ Seated \subseteq Bots
      BY SeatedAreBots, TableAssumption DEF ChipInv, TypeInv, TypeOK
<1>5. \A b \in Bots : totalBets[b] >= 0
      BY <1>3 DEF ChipInv, InThePot
<1>6. /\ level' \in Int /\ level' >= 0 /\ (level' = 0 \/ level' \in Levels)
      /\ \A t \in Levels : t <= level'
  <2>1. \A t \in Levels : t \in Int /\ t > 0
        BY <1>4 DEF Levels
  <2>2. CASE Levels = {}
        BY <1>1, <2>2 DEF HighestOf
  <2>3. CASE Levels # {}
    <3>1. level' \in Levels /\ \A t \in Levels : t <= level'
          BY <1>1, <1>4, <2>3, HighestOfLevels
    <3> QED BY <2>1, <3>1
  <2> QED BY <2>2, <2>3
<1>7. \A b \in Bots : totalBets[b] <= level'
  <2> TAKE b \in Bots
  <2>1. CASE b \in Seated /\ totalBets[b] > 0
        BY <1>6, <2>1 DEF Levels
  <2>2. CASE ~(totalBets[b] > 0)
        BY <1>4, <1>6, <2>2
  <2>3. CASE b \notin Seated
        BY <1>2, <1>6, <2>3 DEF ChipInv, OnlySeated
  <2> QED BY <2>1, <2>2, <2>3
<1>8. LoopState'
      BY <1>1, <1>2 DEF ChipInv, LoopState, HandControls
<1>9. SomebodyLeft'
  <2>1. ActivePlayers # {}
        BY <1>1, FS_EmptySet
  <2>2. UNCHANGED <<ActivePlayers, Seated, seatStatus, folded>>
        BY <1>1 DEF ActivePlayers, Seated, Seats, Disconnected
  <2> QED BY <1>1, <1>3, <2>1, <2>2
          DEF ChipInv, SomebodyLeft, Undisturbed, Disconnected
<1>10. Conserved' /\ Gone' /\ NoPot' /\ InThePot'
       BY <1>1, <1>2, <1>3, ChipsStay
<1>11. OnlySeated'
       BY <1>1, <1>2 DEF ChipInv, OnlySeated, Seated, Seats, Zero
<1>12. StreetBets' /\ PotsCoverBets' /\ SidePotCap'
       BY <1>1 DEF StreetBets, BettingControls, PotsCoverBets, SidePotCap
<1>13. Settling'
  <2>1. [c \in Bots |-> Lesser(totalBets[c], level')] = totalBets
        BY <1>4, <1>6, <1>7 DEF Lesser
  <2>2. Unsettled(level)' = InPot
        BY <1>1, <2>1 DEF Unsettled, InPot
  <2>3. SumFunction(payouts') = 0
        BY <1>1, <1>4, SumOfZero DEF Zero
  <2>4. InPot' = InPot /\ InPot \in Int
        BY <1>1, <1>4, PotIsInt DEF InPot
  <2>5. Levels' = Levels
        BY <1>1 DEF Levels, Seated, Seats
  <2> QED BY <1>1, <1>6, <2>2, <2>3, <2>4, <2>5 DEF Settling
<1>14. Winnings'
       BY <1>1 DEF Winnings, Zero
<1>15. WithinCap'
  <2> SUFFICES ASSUME NEW b \in Bots
               PROVE  (payouts[b] + dead + StillToWin(b, level) <= MayWin(b))'
      BY DEF WithinCap
  <2> DEFINE f == [c \in Bots |-> CanWinFrom(b, c)]
  <2>1. f \in [Bots -> Int] /\ \A c \in Bots : f[c] >= 0
        BY <1>4, <1>5, WinTypes
  <2>2. SumFunction([c \in Bots |-> Lesser(f[c], level')]) <= SumFunction(f)
        /\ SumFunction([c \in Bots |-> Lesser(f[c], level')]) \in Int
    <3> HIDE DEF f
    <3> QED BY <1>6, <2>1, CappedSums
  <2>3. \A c \in Bots : CanWinFrom(b, c)' = CanWinFrom(b, c)
        BY <1>1 DEF CanWinFrom, Forfeits, Disconnected
  <2>4. MayWin(b)' = SumFunction(f)
        BY <2>3 DEF MayWin
  <2>5. StillToWin(b, level)' = SumFunction([c \in Bots |-> Lesser(f[c], level')])
        BY <2>3 DEF StillToWin
  <2>6. payouts'[b] = 0 /\ dead' = 0
        BY <1>1 DEF Zero
  <2> HIDE DEF f
  <2> QED BY <2>2, <2>4, <2>5, <2>6
<1>16. OverdraftPaid'
  <2> SUFFICES ASSUME NEW x \in Bots, chips[x] < 0
               PROVE  level' = totalBets[x]
      BY <1>1 DEF OverdraftPaid
  <2>1. Overdrawn(x)
        BY <1>3 DEF ChipInv, InThePot
  <2>2. x \in Seated
        BY <1>2 DEF ChipInv, OnlySeated
  <2>3. chips[x] \in Int /\ totalBets[x] \in Int /\ totalBets[x] > 0
        BY <1>4, <2>1 DEF Overdrawn
  <2>4. totalBets[x] \in Levels
        BY <2>2, <2>3 DEF Levels
  <2>5. level' \in Levels
        BY <1>6, <2>3, <2>4
  <2>6. PICK b \in Seated : level' = totalBets[b]
        BY <2>5 DEF Levels
  <2>7. totalBets[b] <= totalBets[x]
        BY <1>4, <2>1, <2>3 DEF Overdrawn
  <2> QED BY <1>6, <2>3, <2>4, <2>6, <2>7
<1> QED BY <1>8, <1>9, <1>10, <1>11, <1>12, <1>13, <1>14, <1>15, <1>16 DEF ChipInv

\* What is true when a pot is settled.
LEMMA PotFacts ==
  ASSUME ChipInv, pc = "settle"
  PROVE  /\ TypeOK /\ IsFiniteSet(Bots) /\ Seated \subseteq Bots
         /\ totalBets \in [Bots -> Int] /\ payouts \in [Bots -> Int]
         /\ \A b \in Bots : totalBets[b] >= 0 /\ payouts[b] >= 0
         /\ \A b \in Bots : b \notin Seated => totalBets[b] = 0
         /\ level \in Int /\ (level = 0 \/ level \in Levels) /\ dead \in Int /\ dead >= 0
         /\ LevelBelow(level) \in Int /\ 0 <= LevelBelow(level) /\ LevelBelow(level) <= level
         /\ ActivePlayers # {} /\ ActivePlayers \subseteq Seated /\ ~Broken
<1>1. pc \in PotControls /\ pc \in ShowdownControls
      BY DEF PotControls, ShowdownControls
<1>2. ~Broken
      BY NotBroken
<1>3. /\ TypeOK /\ totalBets \in [Bots -> Int] /\ payouts \in [Bots -> Int]
      /\ level \in Int /\ dead \in Int
      BY DEF ChipInv, TypeInv, TypeOK
<1>4. \A b \in Bots : totalBets[b] >= 0 /\ payouts[b] >= 0
      BY <1>1 DEF ChipInv, InThePot, Winnings
<1>5. (level = 0 \/ level \in Levels) /\ dead >= 0
      BY DEF ChipInv, Settling
<1>6. \A b \in Bots : b \notin Seated => totalBets[b] = 0
      BY <1>2 DEF ChipInv, OnlySeated
<1>7. ActivePlayers # {} /\ ActivePlayers \subseteq Seated
      BY DEF ChipInv, SomebodyLeft, ActivePlayers
<1> QED BY <1>2, <1>3, <1>4, <1>5, <1>6, <1>7, LevelFacts, SeatedAreBots, TableAssumption

\* The pot of a level, with the dead money, is what is unsettled above the next level.
LEMMA PotIsUnsettled ==
  ASSUME ChipInv, pc = "settle"
  PROVE  /\ Unsettled(level) = Unsettled(LevelBelow(level)) + Slice(level)
         /\ Slice(level) \in Int /\ Slice(level) >= 0
         /\ Unsettled(level) \in Int /\ Unsettled(LevelBelow(level)) \in Int
         /\ LevelBelow(level) = 0 => Unsettled(LevelBelow(level)) = 0
<1> DEFINE below == LevelBelow(level)
<1>1. /\ TypeOK /\ totalBets \in [Bots -> Int] /\ level \in Int
      /\ (level = 0 \/ level \in Levels)
      /\ \A b \in Bots : totalBets[b] >= 0 /\ (b \notin Seated => totalBets[b] = 0)
      /\ below \in Int /\ 0 <= below /\ below <= level
      BY PotFacts
<1>2. \A c \in Contributors(level) : totalBets[c] >= level
      BY DEF Contributors
<1>3. \A c \in Bots \ Contributors(level) : totalBets[c] <= below
      BY <1>1, BetsBetween
<1>4. Unsettled(level) = Unsettled(below) + Slice(level)
      BY <1>1, <1>2, <1>3, SliceIsDifference DEF Unsettled
<1>5. Slice(level) \in Int
      BY <1>1, SliceType
<1>6. /\ Unsettled(level) \in Int /\ Unsettled(below) \in Int
      /\ Unsettled(below) <= Unsettled(level)
      /\ below = 0 => Unsettled(below) = 0
  <2> HIDE DEF below
  <2> QED BY <1>1, CappedSums DEF Unsettled
<1> QED BY <1>4, <1>5, <1>6

\* For a bot that contributed to the level, or when everybody who did has forfeited,
\* the whole pot of the level is within what the bot may win.
LEMMA PotIsWinnable ==
  ASSUME ChipInv, pc = "settle", NEW b \in Bots,
         \/ totalBets[b] >= level
         \/ \A c \in Contributors(level) : Forfeits(c)
  PROVE  StillToWin(b, level) = StillToWin(b, LevelBelow(level)) + Slice(level)
<1> DEFINE below == LevelBelow(level)
           f == [c \in Bots |-> CanWinFrom(b, c)]
<1>1. /\ TypeOK /\ totalBets \in [Bots -> Int] /\ level \in Int
      /\ (level = 0 \/ level \in Levels)
      /\ \A c \in Bots : totalBets[c] >= 0 /\ (c \notin Seated => totalBets[c] = 0)
      /\ below \in Int
      BY PotFacts
<1>2. /\ \A c \in Bots : f[c] \in Int /\ f[c] <= totalBets[c]
      /\ f \in [Bots -> Int]
      BY <1>1, WinTypes
<1>3. Contributors(level) \in SUBSET Bots
      BY <1>1, ContributorsAreBots
<1>4. \A c \in Contributors(level) : f[c] >= level
  <2> TAKE c \in Contributors(level)
  <2>1. c \in Bots /\ totalBets[c] >= level /\ totalBets[c] \in Int /\ totalBets[b] \in Int
        BY <1>1, <1>3 DEF Contributors
  <2>2. f[c] = IF Forfeits(c) THEN totalBets[c] ELSE Lesser(totalBets[c], totalBets[b])
        BY <2>1 DEF CanWinFrom
  <2>3. CASE Forfeits(c)
        BY <2>1, <2>2, <2>3
  <2>4. CASE ~Forfeits(c)
    <3>1. totalBets[b] >= level
          BY <2>4
    <3> HIDE DEF f
    <3> QED BY <2>1, <2>2, <2>4, <3>1 DEF Lesser
  <2> QED BY <2>3, <2>4
<1>5. \A c \in Bots \ Contributors(level) : f[c] <= below
  <2> TAKE c \in Bots \ Contributors(level)
  <2>1. totalBets[c] <= below /\ totalBets[c] \in Int
        BY <1>1, BetsBetween
  <2>2. f[c] \in Int /\ f[c] <= totalBets[c]
        BY <1>2
  <2> HIDE DEF f, below
  <2> QED BY <1>1, <2>1, <2>2
<1>6. SumFunction([c \in Bots |-> Lesser(f[c], level)])
        = SumFunction([c \in Bots |-> Lesser(f[c], below)]) + Slice(level)
  <2> HIDE DEF f
  <2> QED BY <1>1, <1>2, <1>4, <1>5, SliceIsDifference
<1>7. /\ StillToWin(b, level) = SumFunction([c \in Bots |-> Lesser(f[c], level)])
      /\ StillToWin(b, below) = SumFunction([c \in Bots |-> Lesser(f[c], below)])
      BY DEF StillToWin
<1> QED BY <1>6, <1>7

LEMMA StillToWinFacts ==
  ASSUME ChipInv, pc = "settle", NEW b \in Bots
  PROVE  /\ StillToWin(b, level) \in Int /\ StillToWin(b, LevelBelow(level)) \in Int
         /\ StillToWin(b, LevelBelow(level)) <= StillToWin(b, level)
         /\ LevelBelow(level) = 0 => StillToWin(b, LevelBelow(level)) = 0
         /\ MayWin(b) \in Int /\ MayWin(b) >= 0
<1> DEFINE below == LevelBelow(level)
           f == [c \in Bots |-> CanWinFrom(b, c)]
<1>1. /\ TypeOK /\ level \in Int /\ \A c \in Bots : totalBets[c] >= 0
      /\ below \in Int /\ 0 <= below /\ below <= level
      BY PotFacts
<1>2. f \in [Bots -> Int] /\ \A c \in Bots : f[c] >= 0
      BY <1>1, WinTypes
<1>3. /\ StillToWin(b, level) = SumFunction([c \in Bots |-> Lesser(f[c], level)])
      /\ StillToWin(b, below) = SumFunction([c \in Bots |-> Lesser(f[c], below)])
      /\ MayWin(b) = SumFunction(f)
      BY DEF StillToWin, MayWin
<1> HIDE DEF f, below
<1>4. /\ StillToWin(b, level) \in Int /\ StillToWin(b, below) \in Int
      /\ StillToWin(b, below) <= StillToWin(b, level)
      /\ below = 0 => StillToWin(b, below) = 0
      /\ MayWin(b) \in Int /\ MayWin(b) >= 0
      BY <1>1, <1>2, <1>3, CappedSums
<1> QED BY <1>4 DEF below

\* The winners of a pot: seated bots that have not folded; each contributed to the
\* level, unless everybody who did has forfeited.
LEMMA WinnersOfPot ==
  ASSUME ChipInv, pc = "settle"
  PROVE  /\ Best(Contenders(level)) # {} /\ Best(Contenders(level)) \subseteq Seated
         /\ \A b \in Best(Contenders(level)) :
              /\ b \in ActivePlayers /\ ~folded[b]
              /\ \/ totalBets[b] >= level
                 \/ \A c \in Contributors(level) : Forfeits(c)
<1> DEFINE C == Contenders(level)
<1>1. TypeOK /\ ActivePlayers # {} /\ ActivePlayers \subseteq Seated
      BY PotFacts
<1>2. C # {} /\ C \subseteq Seated /\ C \subseteq ActivePlayers
      BY <1>1 DEF Contenders
<1>3. Best(C) # {} /\ Best(C) \subseteq C
      BY <1>1, <1>2, BestExist
<1>4. \A b \in C : \/ totalBets[b] >= level
                   \/ \A c \in Contributors(level) : Forfeits(c)
  <2>1. CASE Eligible(level) \intersect ActivePlayers # {}
        BY <2>1 DEF Contenders, Eligible, Contributors
  <2>2. CASE Eligible(level) \intersect ActivePlayers = {}
        BY <2>2 DEF Eligible, Contributors, ActivePlayers, Forfeits
  <2> QED BY <2>1, <2>2
<1>5. \A b \in ActivePlayers : ~folded[b]
      BY DEF ActivePlayers
<1> HIDE DEF C
<1>6. /\ Best(C) # {} /\ Best(C) \subseteq Seated
      /\ \A b \in Best(C) :
              /\ b \in ActivePlayers /\ ~folded[b]
              /\ \/ totalBets[b] >= level
                 \/ \A c \in Contributors(level) : Forfeits(c)
      BY <1>2, <1>3, <1>4, <1>5
<1> QED BY <1>6 DEF C

\* The highest pot goes to the overdrawn bot, and covers what it lacks.
LEMMA OverdraftCovered ==
  ASSUME ChipInv, pc = "settle", NEW x \in Bots, chips[x] < 0, level = totalBets[x]
  PROVE  /\ Eligible(level) # {}
         /\ \/ RemovalPending(x)
            \/ \A pot \in Int : pot >= Slice(level) =>
                   Share(pot, Best(Contenders(level)), x) + chips[x] >= 0
<1> DEFINE below == LevelBelow(level)
<1>1. /\ TypeOK /\ Seated \subseteq Bots /\ totalBets \in [Bots -> Int]
      /\ \A b \in Bots : totalBets[b] >= 0 /\ (b \notin Seated => totalBets[b] = 0)
      /\ level \in Int /\ (level = 0 \/ level \in Levels)
      /\ below \in Int /\ below <= level /\ ~Broken
      BY PotFacts
<1>2. pc \in PotControls /\ chips \in [Bots -> Int]
      BY <1>1 DEF PotControls, ShowdownControls, TypeOK
<1>3. Overdrawn(x)
      BY <1>2 DEF ChipInv, InThePot
<1>4. /\ chips[x] \in Int /\ totalBets[x] \in Int /\ ~folded[x]
      /\ 0 <= totalBets[x] + chips[x] /\ totalBets[x] > 0
      /\ \A b \in Bots \ {x} : totalBets[b] <= totalBets[x] + chips[x]
      BY <1>1, <1>2, <1>3 DEF Overdrawn
<1>5. x \in Seated
      BY <1>1 DEF ChipInv, OnlySeated
<1>6. x \in Eligible(level)
      BY <1>4, <1>5 DEF Eligible, Contributors
<1>7. Contributors(level) = {x}
  <2>1. ASSUME NEW b \in Contributors(level), b # x PROVE FALSE
    <3>1. b \in Bots /\ totalBets[b] >= level /\ totalBets[b] \in Int
          BY <1>1 DEF Contributors
    <3>2. totalBets[b] <= totalBets[x] + chips[x]
          BY <1>4, <2>1, <3>1
    <3> QED BY <1>4, <3>1, <3>2
  <2> QED BY <1>6, <2>1 DEF Eligible
<1>8. below <= totalBets[x] + chips[x]
  <2>1. below = 0 \/ below \in Levels
        BY <1>1, LevelFacts
  <2>2. CASE below = 0
        BY <1>4, <2>2
  <2>3. CASE below \in Levels
    <3>1. PICK b \in Seated : below = totalBets[b]
          BY <2>3 DEF Levels
    <3>2. level > 0 => below < level
          BY <1>1, LevelFacts
    <3>3. b # x
          BY <1>1, <1>4, <3>1, <3>2
    <3> QED BY <1>1, <1>4, <3>1, <3>3
  <2> QED BY <2>1, <2>2, <2>3
<1>9. Slice(level) = level - below
  <2>1. Cardinality({x}) = 1
        BY FS_Singleton
  <2>2. Slice(level) = (level - below) * 1
        BY <1>7, <2>1 DEF Slice
  <2> HIDE DEF below
  <2> QED BY <1>1, <2>2
<1>10. CASE x \notin ActivePlayers
  <2>1. Disconnected(x)
        BY <1>4, <1>5, <1>10 DEF ActivePlayers
  <2>2. RemovalPending(x)
        BY <1>1, <1>2, <1>4, <2>1 DEF ChipInv, Gone
  <2> QED BY <1>6, <2>2
<1>11. CASE x \in ActivePlayers
  <2>1. Contenders(level) = {x}
        BY <1>6, <1>7, <1>11 DEF Contenders, Eligible
  <2>2. rank[x] \in Int
        BY <1>1 DEF TypeOK
  <2>3. Best(Contenders(level)) = {x}
        BY <2>1, <2>2 DEF Best
  <2>4. ASSUME NEW pot \in Int, pot >= Slice(level)
        PROVE  Share(pot, {x}, x) + chips[x] >= 0
    <3>1. Cardinality({x}) = 1 /\ pot \div 1 = pot /\ pot % 1 = 0
          BY FS_Singleton
    <3>2. Share(pot, {x}, x) = pot
          BY <3>1 DEF Share
    <3> HIDE DEF below
    <3> QED BY <1>1, <1>4, <1>8, <1>9, <2>4, <3>2
  <2> QED BY <1>6, <2>3, <2>4
<1> QED BY <1>10, <1>11

LEMMA SettlePotKeepsChips ==
  ASSUME ChipInv, TypeInv', SettlePot
  PROVE  ChipInv'
<1> USE DEF seatVars, playerVars, handVars, gameVars
<1> DEFINE below == LevelBelow(level)
           pot == Slice(level) + dead
           W == Best(Contenders(level))
<1>1. /\ pc = "settle" /\ level' = below
      /\ pc' = IF below = 0 THEN "reveal" ELSE "settle"
      /\ \/ Eligible(level) = {} /\ below > 0 /\ dead' = pot /\ payouts' = payouts
         \/ /\ dead' = 0
            /\ payouts' = [b \in Bots |-> payouts[b] + Share(pot, W, b)]
      /\ UNCHANGED <<players, chips, seatStatus, folded, totalBets, running, status,
                     pendingMutations, expectedTotalChips, starts>>
      BY DEF SettlePot
<1>2. /\ TypeOK /\ IsFiniteSet(Bots) /\ Seated \subseteq Bots
      /\ totalBets \in [Bots -> Int] /\ payouts \in [Bots -> Int]
      /\ \A b \in Bots : totalBets[b] >= 0 /\ payouts[b] >= 0
      /\ level \in Int /\ (level = 0 \/ level \in Levels) /\ dead \in Int /\ dead >= 0
      /\ below \in Int /\ 0 <= below /\ below <= level
      /\ ActivePlayers # {} /\ ~Broken
      BY <1>1, PotFacts
<1>3. /\ Unsettled(level) = Unsettled(below) + Slice(level)
      /\ Slice(level) \in Int /\ Slice(level) >= 0
      /\ Unsettled(level) \in Int /\ Unsettled(below) \in Int
      /\ below = 0 => Unsettled(below) = 0
      BY <1>1, PotIsUnsettled
<1>4. pot \in Int /\ pot >= 0 /\ pot >= Slice(level)
      BY <1>2, <1>3
<1>5. /\ W # {} /\ W \subseteq Seated
      /\ \A b \in W : /\ ~folded[b]
                      /\ \/ totalBets[b] >= level
                         \/ \A c \in Contributors(level) : Forfeits(c)
      BY <1>1, WinnersOfPot
<1>6. /\ \A b \in Bots : /\ Share(pot, W, b) \in Int /\ Share(pot, W, b) >= 0
                         /\ Share(pot, W, b) <= pot
      /\ \A b \in Bots : b \notin W => Share(pot, W, b) = 0
      /\ SumFunction([b \in Bots |-> Share(pot, W, b)]) = pot
  <2>1. \A b \in Bots : b \notin W => Share(pot, W, b) = 0
        BY DEF Share
  <2> HIDE DEF pot, W
  <2> QED BY <1>2, <1>4, <1>5, <2>1, SharesAddUp
<1>7. \A b \in Bots :
        /\ StillToWin(b, level) \in Int /\ StillToWin(b, below) \in Int
        /\ StillToWin(b, below) <= StillToWin(b, level)
        /\ below = 0 => StillToWin(b, below) = 0
        /\ MayWin(b) \in Int /\ MayWin(b) >= 0
      BY <1>1, StillToWinFacts
<1>8. pot = Slice(level) + dead
      OBVIOUS
<1>9. /\ pc \in PotControls /\ pc' \in PotControls /\ pc' \notin BettingControls
      /\ pc' \in ShowdownControls /\ pc \in ShowdownControls /\ ~Broken' /\ pc' # "act"
      BY <1>1, <1>2 DEF Broken, PotControls, BettingControls, ShowdownControls
<1>10. /\ UNCHANGED <<ActivePlayers, Seated, Levels, InPot>>
       /\ \A b \in Bots : Disconnected(b)' = Disconnected(b)
       /\ \A b \in Bots : RemovalPending(b)' = RemovalPending(b)
       BY <1>1 DEF ActivePlayers, Seated, Seats, Disconnected, Levels, InPot, RemovalPending
<1>11. /\ Unsettled(level)' = Unsettled(below)
       /\ \A b \in Bots : /\ StillToWin(b, level)' = StillToWin(b, below)
                          /\ MayWin(b)' = MayWin(b)
  <2>1. \A b, c \in Bots : CanWinFrom(b, c)' = CanWinFrom(b, c)
        BY <1>1 DEF CanWinFrom, Forfeits, Disconnected
  <2> HIDE DEF below
  <2> QED BY <1>1, <2>1 DEF Unsettled, StillToWin, MayWin
\* What both outcomes of the step leave.
<1>12. /\ \A b \in Bots : payouts'[b] \in Int /\ payouts'[b] >= payouts[b]
       /\ \A b \in Bots : payouts'[b] > payouts[b] => b \in W
       /\ dead' \in Int /\ dead' >= 0
       /\ SumFunction(payouts') + dead' = SumFunction(payouts) + pot
       /\ SumFunction(payouts') \in Int /\ SumFunction(payouts) \in Int
  <2>1. SumFunction(payouts) \in Int
        BY <1>2, SumIsInt
  <2>2. CASE dead' = pot /\ payouts' = payouts
    <3> HIDE DEF pot
    <3> QED BY <1>2, <1>4, <2>1, <2>2
  <2>3. CASE /\ dead' = 0
             /\ payouts' = [b \in Bots |-> payouts[b] + Share(pot, W, b)]
    <3> DEFINE share == [b \in Bots |-> Share(pot, W, b)]
    <3> HIDE DEF pot, W
    <3>1. /\ share \in [Bots -> Int] /\ payouts' \in [Bots -> Int]
          /\ \A b \in Bots : payouts'[b] = payouts[b] + share[b]
          BY <1>2, <1>6, <2>3
    <3>2. SumFunction(payouts') = SumFunction(payouts) + SumFunction(share)
      <4> HIDE DEF share
      <4> QED BY <1>2, <3>1, SumAdds
    <3>3. SumFunction(payouts') = SumFunction(payouts) + pot
          BY <1>6, <3>2
    <3>4. \A b \in Bots : payouts[b] \in Int /\ share[b] = Share(pot, W, b)
          BY <1>2
    <3> QED BY <1>4, <1>6, <2>1, <2>3, <3>1, <3>3, <3>4
  <2> QED BY <1>1, <2>2, <2>3
\* What remains of the cap of each bot in the hand.
<1>13. ASSUME NEW b \in Bots, ~folded[b]
       PROVE  payouts'[b] + dead' + StillToWin(b, below) <= MayWin(b)
  <2>1. payouts[b] + dead + StillToWin(b, level) <= MayWin(b)
        BY <1>1, <1>13 DEF ChipInv, WithinCap
  <2>2. payouts[b] \in Int
        BY <1>2
  <2>3. CASE Eligible(level) = {} /\ dead' = pot /\ payouts' = payouts
    <3>1. \A c \in Contributors(level) : Forfeits(c)
          BY <2>3 DEF Eligible, Forfeits
    <3>2. StillToWin(b, level) = StillToWin(b, below) + Slice(level)
          BY <1>1, <3>1, PotIsWinnable
    <3> HIDE DEF pot, below
    <3> QED BY <1>2, <1>3, <1>7, <1>8, <2>1, <2>2, <2>3, <3>2
  <2>4. CASE /\ dead' = 0
             /\ payouts' = [c \in Bots |-> payouts[c] + Share(pot, W, c)]
    <3>1. payouts'[b] = payouts[b] + Share(pot, W, b)
          BY <2>4
    <3>2. CASE b \in W
      <4>1. StillToWin(b, level) = StillToWin(b, below) + Slice(level)
            BY <1>1, <1>5, <3>2, PotIsWinnable
      <4> HIDE DEF pot, below, W
      <4> QED BY <1>2, <1>3, <1>6, <1>7, <1>8, <2>1, <2>2, <2>4, <3>1, <4>1
    <3>3. CASE b \notin W
      <4>1. Share(pot, W, b) = 0
            BY <1>6, <3>3
      <4> HIDE DEF pot, below, W
      <4> QED BY <1>2, <1>7, <2>1, <2>2, <2>4, <3>1, <4>1
    <3> QED BY <3>2, <3>3
  <2> QED BY <1>1, <2>3, <2>4
<1>14. LoopState'
       BY <1>1, <1>9 DEF ChipInv, LoopState, HandControls, Broken
<1>15. SomebodyLeft'
       BY <1>1, <1>2, <1>9, <1>10 DEF ChipInv, SomebodyLeft, Undisturbed
<1>16. Conserved' /\ Gone' /\ NoPot' /\ InThePot'
       BY <1>1, <1>2, <1>9, ChipsStay
<1>17. OnlySeated'
  <2>1. \A b \in Bots \ Seated : payouts'[b] = payouts[b]
        BY <1>2, <1>5, <1>12
  <2> QED BY <1>1, <1>2, <1>10, <2>1 DEF ChipInv, OnlySeated
<1>18. StreetBets'
       BY <1>9 DEF StreetBets
<1>19. SumFunction(payouts') + dead' + Unsettled(level)' = InPot'
  <2>1. SumFunction(payouts) + dead + Unsettled(level) = InPot
        BY <1>1 DEF ChipInv, Settling
  <2>2. InPot \in Int
        BY <1>2, PotIsInt
  <2> HIDE DEF pot, below
  <2> QED BY <1>2, <1>3, <1>8, <1>10, <1>11, <1>12, <2>1, <2>2
<1>20. Settling'
  <2>1. below = 0 \/ below \in Levels
        BY <1>2, LevelFacts
  <2> QED BY <1>1, <1>10, <1>12, <1>19, <2>1 DEF Settling
<1>21. \A b \in Bots : payouts'[b] >= 0 /\ (payouts'[b] > 0 => ~folded[b])
  <2> TAKE b \in Bots
  <2>1. payouts[b] >= 0 /\ (payouts[b] > 0 => ~folded[b]) /\ payouts[b] \in Int
        BY <1>2, <1>9 DEF ChipInv, Winnings
  <2>2. CASE payouts'[b] > payouts[b]
        BY <1>5, <1>12, <2>1, <2>2
  <2>3. CASE ~(payouts'[b] > payouts[b])
        BY <1>12, <2>1, <2>3
  <2> QED BY <2>2, <2>3
<1>22. Winnings'
       BY <1>1, <1>21 DEF Winnings
<1>23. WithinCap'
       BY <1>1, <1>11, <1>13 DEF WithinCap
<1>24. OverdraftPaid'
  <2> SUFFICES ASSUME NEW x \in Bots, chips[x] < 0
               PROVE  RemovalPending(x) \/ payouts'[x] + chips[x] >= 0
      BY <1>1, <1>10 DEF OverdraftPaid
  <2>1. \/ RemovalPending(x) \/ level = totalBets[x]
        \/ payouts[x] + chips[x] >= 0
        BY <1>9 DEF ChipInv, OverdraftPaid
  <2>2. chips[x] \in Int /\ payouts[x] \in Int
        BY <1>2 DEF TypeOK
  <2>3. CASE payouts[x] + chips[x] >= 0
        BY <1>12, <2>2, <2>3
  <2>4. CASE level = totalBets[x]
    <3>1. /\ Eligible(level) # {}
          /\ \/ RemovalPending(x)
             \/ \A p \in Int : p >= Slice(level) => Share(p, W, x) + chips[x] >= 0
          BY <1>1, <2>4, OverdraftCovered
    <3>2. payouts'[x] = payouts[x] + Share(pot, W, x)
          BY <1>1, <3>1
    <3> HIDE DEF pot, W
    <3>3. CASE ~RemovalPending(x)
      <4>1. Share(pot, W, x) + chips[x] >= 0
            BY <1>4, <3>1, <3>3
      <4>2. Share(pot, W, x) \in Int /\ payouts[x] >= 0
            BY <1>2, <1>6
      <4> QED BY <2>2, <3>2, <4>1, <4>2
    <3> QED BY <3>3
  <2> QED BY <2>1, <2>3, <2>4
<1>25. PotsCoverBets'
  <2> SUFFICES ASSUME pc' = "reveal" PROVE SumFunction(payouts') = InPot'
      BY DEF PotsCoverBets
  <2>1. below = 0 /\ dead' = 0
        BY <1>1
  <2>2. Unsettled(level)' = 0
        BY <1>3, <1>11, <2>1
  <2> QED BY <1>12, <1>19, <2>1, <2>2
<1>26. SidePotCap'
  <2> SUFFICES ASSUME pc' = "reveal", NEW b \in Bots
               PROVE  payouts'[b] <= MayWin(b)
      BY <1>1, <1>11, <1>21 DEF SidePotCap, MayWin
  <2>1. below = 0 /\ dead' = 0
        BY <1>1
  <2>2. StillToWin(b, below) = 0 /\ MayWin(b) \in Int /\ MayWin(b) >= 0
        BY <1>7, <2>1
  <2>3. payouts'[b] \in Int
        BY <1>12
  <2>4. CASE ~folded[b]
    <3>1. payouts'[b] + dead' + StillToWin(b, below) <= MayWin(b)
          BY <1>13, <2>4
    <3> HIDE DEF below
    <3> QED BY <2>1, <2>2, <2>3, <3>1
  <2>5. CASE folded[b]
        BY <1>21, <2>2, <2>3, <2>5
  <2> QED BY <2>4, <2>5
<1> QED BY <1>14, <1>15, <1>16, <1>17, <1>18, <1>20, <1>22, <1>23, <1>24, <1>25, <1>26
        DEF ChipInv

-----------------------------------------------------------------------------
(* The pot goes back to the stacks *)

LEMMA AwardPotKeepsChips ==
  ASSUME ChipInv, TypeInv', AwardPot
  PROVE  ChipInv'
<1> USE DEF seatVars, playerVars, potVars, gameVars
<1>1. /\ pc = "act" /\ pc' = "award" /\ Cardinality(ActivePlayers) = 1
      /\ chips' = [b \in Bots |-> IF b \in ActivePlayers THEN chips[b] + InPot ELSE chips[b]]
      /\ totalBets' = Zero
      /\ UNCHANGED <<players, seatStatus, folded, payouts, running, status,
                     pendingMutations, expectedTotalChips, starts>>
      BY DEF AwardPot, RoundOver
<1>2. ~Broken /\ status = "running"
      BY <1>1, NotBroken
<1>3. /\ ~Broken' /\ pc \in PotControls /\ pc' \notin PotControls
      /\ pc' \notin ShowdownControls
      BY <1>1, <1>2 DEF Broken, PotControls, BettingControls, ShowdownControls
<1>4. /\ totalBets \in [Bots -> Int] /\ chips \in [Bots -> Int] /\ InPot \in Int
      /\ IsFiniteSet(Bots) /\ Seated \subseteq Bots
      /\ ActivePlayers \subseteq Seated /\ IsFiniteSet(ActivePlayers)
      BY SeatedAreBots, SeatedAreFinite, PotIsInt, TableAssumption
      DEF ChipInv, TypeInv, TypeOK, ActivePlayers
<1>5. PICK w : ActivePlayers = {w}
      BY <1>1, <1>4, FS_Singleton
<1>6. w \in Bots
      BY <1>4, <1>5
<1> DEFINE n == chips[w] + InPot
<1>7. chips' = [chips EXCEPT ![w] = n] /\ n \in Int
  <2>1. n \in Int
        BY <1>4, <1>6
  <2>2. \A b \in Bots : b \in ActivePlayers <=> b = w
        BY <1>5
  <2>3. chips' = [b \in Bots |-> IF b = w THEN n ELSE chips[b]]
        BY <1>1, <2>2, Zenon
  <2> HIDE DEF n
  <2> QED BY <1>4, <1>6, <2>1, <2>3
<1>8. Conserved'
  <2>1. n - chips[w] = InPot
        BY <1>4, <1>6
  <2> HIDE DEF n
  <2>2. SumFunction(chips') = SumFunction(chips) + (n - chips[w])
        BY <1>4, <1>6, <1>7, SumUpdate
  <2>3. SumFunction(totalBets') = 0
        BY <1>1, <1>4, SumOfZero DEF Zero
  <2>4. SumFunction(chips) + SumFunction(totalBets) = expectedTotalChips
        BY <1>2 DEF ChipInv, Conserved, TotalChips, InStacks, InPot
  <2>5. SumFunction(chips) \in Int
        BY <1>4, SumIsInt
  <2>6. SumFunction(chips') + SumFunction(totalBets') = expectedTotalChips'
        BY <1>1, <1>4, <2>1, <2>2, <2>3, <2>4, <2>5 DEF InPot
  <2> QED BY <2>6 DEF Conserved, TotalChips, InStacks, InPot
<1>9. LoopState'
      BY <1>1, <1>2 DEF ChipInv, LoopState, HandControls
<1>10. OnlySeated'
       BY <1>1, <1>2, <1>4 DEF ChipInv, OnlySeated, Seated, Seats, Zero
<1>11. \A b \in Bots : RemovalPending(b)' = RemovalPending(b)
       BY <1>1 DEF RemovalPending
<1>12. Gone'
  <2>1. \A b \in Bots : Disconnected(b)' => b \notin ActivePlayers /\ Disconnected(b)
        BY <1>1 DEF ActivePlayers, Disconnected
  <2> QED BY <1>1, <1>2, <1>3, <1>11, <2>1 DEF ChipInv, Gone
<1>13. NoPot'
  <2> SUFFICES ASSUME NEW b \in Bots PROVE chips'[b] >= 0 \/ RemovalPending(b)
      BY <1>1, <1>11 DEF NoPot, Zero
  <2>1. chips[b] \in Int /\ totalBets[b] \in Int /\ \A c \in Bots : totalBets[c] >= 0
        BY <1>3, <1>4 DEF ChipInv, InThePot
  <2>2. totalBets[b] <= InPot
        BY <1>4, <2>1, SumAtLeastPoint DEF InPot
  <2>3. CASE chips[b] >= 0
        BY <1>1, <1>4, <2>1, <2>2, <2>3
  <2>4. CASE chips[b] < 0
    <3>1. Overdrawn(b) /\ b \in Seated
          BY <1>2, <1>3, <2>4 DEF ChipInv, InThePot, OnlySeated
    <3>2. CASE b \in ActivePlayers
          BY <1>1, <1>4, <2>1, <2>2, <3>1, <3>2 DEF Overdrawn
    <3>3. CASE b \notin ActivePlayers
      <4>1. Disconnected(b) /\ ~folded[b]
            BY <3>1, <3>3 DEF ActivePlayers, Overdrawn
      <4> QED BY <1>2, <1>3, <4>1 DEF ChipInv, Gone
    <3> QED BY <3>2, <3>3
  <2> QED BY <2>1, <2>3, <2>4
<1>14. InThePot'
       BY <1>3 DEF InThePot
<1> QED BY <1>3, <1>8, <1>9, <1>10, <1>12, <1>13, <1>14, OutOfShowdown, OutOfHand DEF ChipInv

LEMMA DistributeKeepsChips ==
  ASSUME ChipInv, TypeInv', Distribute
  PROVE  ChipInv'
<1> USE DEF seatVars, playerVars
<1>1. /\ pc = "reveal" /\ pc' = "drain" /\ (Live => starts = 0)
      /\ chips' = [b \in Bots |-> chips[b] + payouts[b]]
      /\ totalBets' = Zero /\ payouts' = Zero
      /\ UNCHANGED <<players, seatStatus, folded, running, status,
                     pendingMutations, expectedTotalChips, starts>>
      BY DEF Distribute, HandOver, Wakes
<1>2. ~Broken /\ status = "running"
      BY <1>1, NotBroken
<1>3. /\ ~Broken' /\ pc \in PotControls /\ pc' \notin PotControls
      /\ pc' \notin ShowdownControls /\ pc \in ShowdownControls
      BY <1>1, <1>2 DEF Broken, PotControls, BettingControls, ShowdownControls
<1>4. /\ totalBets \in [Bots -> Int] /\ chips \in [Bots -> Int] /\ payouts \in [Bots -> Int]
      /\ IsFiniteSet(Bots) /\ chips' \in [Bots -> Int]
      BY TableAssumption DEF ChipInv, TypeInv, TypeOK
<1>5. \A b \in Bots : payouts[b] >= 0 /\ (payouts[b] > 0 => ~folded[b])
      BY <1>3 DEF ChipInv, Winnings
<1>6. Conserved'
  <2>1. SumFunction(chips') = SumFunction(chips) + SumFunction(payouts)
        BY <1>1, <1>4, SumAdds
  <2>2. SumFunction(totalBets') = 0
        BY <1>1, <1>4, SumOfZero DEF Zero
  <2>3. SumFunction(payouts) = SumFunction(totalBets)
        BY <1>1 DEF ChipInv, PotsCoverBets, InPot
  <2>4. SumFunction(chips) + SumFunction(totalBets) = expectedTotalChips
        BY <1>2 DEF ChipInv, Conserved, TotalChips, InStacks, InPot
  <2>5. SumFunction(chips) \in Int /\ SumFunction(totalBets) \in Int
        BY <1>4, SumIsInt
  <2>6. SumFunction(chips') + SumFunction(totalBets') = expectedTotalChips'
        BY <1>1, <2>1, <2>2, <2>3, <2>4, <2>5
  <2> QED BY <2>6 DEF Conserved, TotalChips, InStacks, InPot
<1>7. LoopState'
      BY <1>1, <1>2 DEF ChipInv, LoopState, HandControls
<1>8. OnlySeated'
  <2>1. Seated' = Seated
        BY <1>1 DEF Seated, Seats
  <2> SUFFICES ASSUME NEW b \in Bots, b \notin Seated
               PROVE  chips'[b] = 0 /\ totalBets'[b] = 0 /\ payouts'[b] = 0
      BY <2>1 DEF OnlySeated
  <2>2. chips[b] = 0 /\ payouts[b] = 0 /\ chips'[b] = chips[b] + payouts[b]
        BY <1>1, <1>2, <1>4 DEF ChipInv, OnlySeated
  <2> QED BY <1>1, <2>2 DEF Zero
<1>9. \A b \in Bots : RemovalPending(b)' = RemovalPending(b)
      BY <1>1 DEF RemovalPending
<1>10. Gone'
  <2> SUFFICES ASSUME NEW b \in Bots, Disconnected(b)'
               PROVE  RemovalPending(b) \/ chips'[b] = 0
      BY <1>3, <1>9 DEF Gone
  <2>1. RemovalPending(b) \/ (chips[b] = 0 /\ folded[b])
        BY <1>1, <1>2, <1>3 DEF ChipInv, Gone, Disconnected
  <2>2. payouts[b] \in Int /\ chips'[b] = chips[b] + payouts[b]
        BY <1>1, <1>4
  <2> QED BY <1>5, <2>1, <2>2
<1>11. NoPot'
  <2> SUFFICES ASSUME NEW b \in Bots PROVE chips'[b] >= 0 \/ RemovalPending(b)
      BY <1>1, <1>9 DEF NoPot, Zero
  <2>1. /\ chips[b] \in Int /\ payouts[b] \in Int /\ payouts[b] >= 0
        /\ chips'[b] = chips[b] + payouts[b]
        BY <1>1, <1>4, <1>5
  <2>2. chips[b] < 0 => RemovalPending(b) \/ payouts[b] + chips[b] >= 0
        BY <1>1, <1>3 DEF ChipInv, OverdraftPaid
  <2> QED BY <2>1, <2>2
<1>12. InThePot'
       BY <1>3 DEF InThePot
<1> QED BY <1>3, <1>6, <1>7, <1>8, <1>10, <1>11, <1>12, OutOfShowdown, OutOfHand DEF ChipInv

-----------------------------------------------------------------------------
(* The callers, and the calls deferred to the end of a hand *)

\* A bot sits down among the others.
LEMMA SeatedAfterInsert ==
  ASSUME TypeOK, NEW b \in Bots, NEW at \in Nat, Insert(b, at)
  PROVE  Seated \union {b} \subseteq Seated'
<1> DEFINE n == Len(players)
<1>1. players \in Seq(Bots) /\ n \in Nat
      BY DEF TypeOK
<1>2. CASE at < n
  <2>1. players' = Spliced(players, at, b)
        BY <1>2 DEF Insert, Spliced
  <2>2. /\ Len(players') = n + 1
        /\ \A i \in 1 .. n + 1 :
              players'[i] = IF i <= at THEN players[i]
                            ELSE IF i = at + 1 THEN b ELSE players[i - 1]
        BY <1>1, <1>2, <2>1, SplicedIn
  <2>3. b \in Seated'
    <3>1. at + 1 \in 1 .. n + 1 /\ players'[at + 1] = b
          BY <1>1, <1>2, <2>2
    <3> QED BY <2>2, <3>1 DEF Seated, Seats
  <2>4. ASSUME NEW i \in Seats PROVE players[i] \in Seated'
    <3>1. i \in 1 .. n
          BY DEF Seats
    <3> DEFINE j == IF i <= at THEN i ELSE i + 1
    <3>2. j \in 1 .. n + 1 /\ players'[j] = players[i]
          BY <1>1, <1>2, <2>2, <3>1
    <3> HIDE DEF j
    <3> QED BY <2>2, <3>2 DEF Seated, Seats
  <2> QED BY <2>3, <2>4 DEF Seated
<1>3. CASE ~(at < n)
  <2>1. players' = Append(players, b)
        BY <1>3 DEF Insert
  <2>2. /\ Len(players') = n + 1 /\ players'[n + 1] = b
        /\ \A i \in 1 .. n : players'[i] = players[i]
        BY <1>1, <2>1
  <2> QED BY <1>1, <2>2 DEF Seated, Seats
<1> QED BY <1>2, <1>3

\* What the calls between two hands have in common.
CalledBetweenHands ==
  /\ ~Broken /\ pc \notin PotControls
  /\ UNCHANGED <<pc, totalBets, payouts, running, status>>

LEMMA RemovalKeepsChips ==
  ASSUME ChipInv, TypeInv', LoopState', CalledBetweenHands,
         NEW r \in Bots, RemovePlayerImmediate(r),
         \A c \in Bots \ {r} : RemovalPending(c) => RemovalPending(c)'
  PROVE  ChipInv'
<1> USE DEF seatVars
<1>1. /\ ~Broken /\ ~Broken' /\ pc \notin PotControls /\ pc' \notin PotControls
      /\ pc' \notin ShowdownControls /\ pc' = pc
      /\ UNCHANGED <<totalBets, payouts, players>>
      /\ chips' = [chips EXCEPT ![r] = 0]
      /\ seatStatus' = [seatStatus EXCEPT ![r] = "eliminated"]
      /\ expectedTotalChips' = expectedTotalChips - (chips[r] + totalBets[r])
      BY DEF CalledBetweenHands, Broken, PotControls, RemovePlayerImmediate, TakesAway
<1>2. /\ chips \in [Bots -> Int] /\ expectedTotalChips \in Int /\ IsFiniteSet(Bots)
      /\ seatStatus \in [Bots -> Statuses]
      BY TableAssumption DEF ChipInv, TypeInv, TypeOK
<1>3. totalBets = Zero /\ totalBets[r] = 0
      BY <1>1 DEF ChipInv, NoPot, Zero
<1>4. Conserved'
  <2> DEFINE n == 0
  <2>a. chips' = [chips EXCEPT ![r] = n] /\ n \in Int /\ n = 0
        BY <1>1
  <2> HIDE DEF n
  <2>1. SumFunction(chips') = SumFunction(chips) + (n - chips[r])
        BY <1>2, <2>a, SumUpdate
  <2>2. SumFunction(totalBets) = 0
        BY <1>2, <1>3, SumOfZero DEF Zero
  <2>3. SumFunction(chips) + SumFunction(totalBets) = expectedTotalChips
        BY <1>1 DEF ChipInv, Conserved, TotalChips, InStacks, InPot
  <2>4. SumFunction(chips) \in Int /\ chips[r] \in Int
        BY <1>2, SumIsInt
  <2>5. SumFunction(chips') + SumFunction(totalBets') = expectedTotalChips'
        BY <1>1, <1>2, <1>3, <2>a, <2>1, <2>2, <2>3, <2>4
  <2> QED BY <2>5 DEF Conserved, TotalChips, InStacks, InPot
<1>5. OnlySeated'
      BY <1>1, <1>2 DEF ChipInv, OnlySeated, Seated, Seats
<1>6. Gone'
      BY <1>1, <1>2 DEF ChipInv, Gone, Disconnected
<1>7. NoPot'
      BY <1>1, <1>2, <1>3 DEF ChipInv, NoPot
<1>8. InThePot'
      BY <1>1 DEF InThePot
<1> QED BY <1>1, <1>4, <1>5, <1>6, <1>7, <1>8, OutOfShowdown, OutOfHand DEF ChipInv

LEMMA SitDownKeepsChips ==
  ASSUME ChipInv, TypeInv', LoopState', CalledBetweenHands,
         NEW b \in Bots, NEW stack \in BuyIns, NEW at \in Nat, SitDown(b, stack, at),
         \A c \in Bots : RemovalPending(c) => RemovalPending(c)'
  PROVE  ChipInv'
<1>1. /\ ~Broken /\ ~Broken' /\ pc \notin PotControls /\ pc' \notin PotControls
      /\ pc' \notin ShowdownControls /\ pc' = pc
      /\ UNCHANGED <<totalBets, payouts>>
      /\ chips' = [chips EXCEPT ![b] = stack]
      /\ seatStatus' = [seatStatus EXCEPT ![b] = "active"]
      /\ expectedTotalChips' = expectedTotalChips + stack /\ b \notin Seated
      BY DEF CalledBetweenHands, Broken, PotControls, SitDown, CanSit
<1>2. /\ chips \in [Bots -> Int] /\ expectedTotalChips \in Int /\ IsFiniteSet(Bots)
      /\ seatStatus \in [Bots -> Statuses] /\ stack \in Nat
      BY TableAssumption DEF ChipInv, TypeInv, TypeOK
<1>3. totalBets = Zero /\ chips[b] = 0
      BY <1>1 DEF ChipInv, NoPot, OnlySeated
<1>4. Conserved'
  <2>a. stack \in Int /\ chips' = [chips EXCEPT ![b] = stack]
        BY <1>1, <1>2
  <2>1. SumFunction(chips') = SumFunction(chips) + (stack - chips[b])
        BY <1>2, <2>a, SumUpdate
  <2>2. SumFunction(chips) + SumFunction(totalBets) = expectedTotalChips
        BY <1>1 DEF ChipInv, Conserved, TotalChips, InStacks, InPot
  <2>3. SumFunction(chips) \in Int /\ SumFunction(totalBets) \in Int
        BY <1>2, <1>3, SumIsInt, SumOfZero DEF Zero
  <2>4. SumFunction(chips') + SumFunction(totalBets') = expectedTotalChips'
        BY <1>1, <1>2, <1>3, <2>1, <2>2, <2>3
  <2> QED BY <2>4 DEF Conserved, TotalChips, InStacks, InPot
<1>5. OnlySeated'
  <2>1. Seated \union {b} \subseteq Seated'
        BY SeatedAfterInsert DEF ChipInv, TypeInv, SitDown
  <2> QED BY <1>1, <1>2, <2>1 DEF ChipInv, OnlySeated
<1>6. Gone'
      BY <1>1, <1>2 DEF ChipInv, Gone, Disconnected
<1>7. NoPot'
      BY <1>1, <1>2, <1>3 DEF ChipInv, NoPot
<1>8. InThePot'
      BY <1>1 DEF InThePot
<1> QED BY <1>1, <1>4, <1>5, <1>6, <1>7, <1>8, OutOfShowdown, OutOfHand DEF ChipInv

LEMMA ReconnectKeepsChips ==
  ASSUME ChipInv, TypeInv', LoopState', CalledBetweenHands,
         UNCHANGED <<players, chips, expectedTotalChips>>,
         \A c \in Bots : Disconnected(c)' => Disconnected(c),
         \A c \in Bots : RemovalPending(c) => RemovalPending(c)'
  PROVE  ChipInv'
<1>1. /\ ~Broken /\ ~Broken' /\ pc \notin PotControls /\ pc' \notin PotControls
      /\ pc' \notin ShowdownControls /\ pc' = pc
      /\ UNCHANGED <<totalBets, payouts>>
      BY DEF CalledBetweenHands, Broken, PotControls
<1>2. Conserved'
      BY <1>1 DEF ChipInv, Conserved, TotalChips, InStacks, InPot
<1>3. OnlySeated'
      BY <1>1 DEF ChipInv, OnlySeated, Seated, Seats
<1>4. Gone' /\ NoPot' /\ InThePot'
      BY <1>1 DEF ChipInv, Gone, NoPot, InThePot
<1> QED BY <1>1, <1>2, <1>3, <1>4, OutOfShowdown, OutOfHand DEF ChipInv

\* A call that moves no chips, made at an await of the loop: a deferred join or leave,
\* or a bot that sits in again.
LEMMA CallKeepsChips ==
  ASSUME ChipInv, TypeInv', LoopState', AtAwait,
         UNCHANGED <<players, chips, folded, totalBets, payouts, round, level, dead, pc,
                     running, status, expectedTotalChips, starts>>,
         \A c \in Bots : Disconnected(c)' => Disconnected(c) \/ RemovalPending(c)',
         \A c \in Bots : Disconnected(c) => Disconnected(c)',
         \A c \in Bots : RemovalPending(c) => RemovalPending(c)'
  PROVE  ChipInv'
<1>1. (Broken <=> Broken') /\ pc' = pc /\ Seated' = Seated /\ pc # "act" /\ pc # "settle"
      BY DEF Broken, Seated, Seats, AtAwait
<1>2. Conserved' /\ OnlySeated'
      BY <1>1 DEF ChipInv, Conserved, OnlySeated, TotalChips, InStacks, InPot
<1>3. Gone' /\ NoPot'
      BY <1>1 DEF ChipInv, Gone, NoPot
<1>4. InThePot' /\ StreetBets' /\ Settling' /\ WithinCap'
      BY <1>1 DEF ChipInv, InThePot, Overdrawn, StreetBets, Settling, WithinCap
<1>5. Winnings' /\ OverdraftPaid' /\ PotsCoverBets'
      BY <1>1 DEF ChipInv, Winnings, OverdraftPaid, PotsCoverBets, InPot
<1>6. SomebodyLeft'
  <2>1. pc \in PotControls => Live
        BY DEF AtAwait, PotControls, BettingControls, ShowdownControls
  <2> QED BY <1>1, <2>1 DEF ChipInv, SomebodyLeft, Undisturbed
<1>7. SidePotCap'
  <2> SUFFICES ASSUME pc = "reveal", NEW b \in Bots
               PROVE  /\ payouts'[b] <= MayWin(b)'
                      /\ payouts'[b] > 0 => ~folded'[b]
      BY <1>1 DEF SidePotCap, MayWin
  <2>1. payouts[b] <= MayWin(b) /\ (payouts[b] > 0 => ~folded[b])
        BY DEF ChipInv, SidePotCap, MayWin
  <2> DEFINE f == [c \in Bots |-> CanWinFrom(b, c)]
             g == [c \in Bots |-> CanWinFrom(b, c)']
  <2>2. /\ totalBets \in [Bots -> Int] /\ totalBets' \in [Bots -> Int] /\ IsFiniteSet(Bots)
        /\ payouts[b] \in Int
        BY TableAssumption DEF ChipInv, TypeInv, TypeOK
  <2>3. f \in [Bots -> Int] /\ g \in [Bots -> Int]
        BY <2>2 DEF CanWinFrom, Lesser
  <2>4. ASSUME NEW c \in Bots PROVE f[c] <= g[c]
    <3>1. /\ Forfeits(c) => Forfeits(c)'
          /\ totalBets[c] \in Int /\ totalBets[b] \in Int
          /\ Lesser(totalBets[c], totalBets[b]) <= totalBets[c]
          BY <2>2 DEF Forfeits, Lesser
    <3>2. f[c] = CanWinFrom(b, c) /\ g[c] = CanWinFrom(b, c)'
          OBVIOUS
    <3> QED BY <3>1, <3>2 DEF CanWinFrom, Lesser
  <2> HIDE DEF f, g
  <2>5. SumFunction(f) <= SumFunction(g)
        BY <2>2, <2>3, <2>4, SumMonotone
  <2>6. SumFunction(f) \in Int /\ SumFunction(g) \in Int
        BY <2>2, <2>3, SumIsInt
  <2>7. MayWin(b) = SumFunction(f) /\ MayWin(b)' = SumFunction(g)
        BY DEF MayWin, f, g
  <2> QED BY <2>1, <2>2, <2>5, <2>6, <2>7
<1> QED BY <1>2, <1>3, <1>4, <1>5, <1>6, <1>7 DEF ChipInv

\* A deferred call joins the others.
LEMMA DeferredLast ==
  ASSUME TypeOK, NEW m \in Mutations, pendingMutations' = Append(pendingMutations, m)
  PROVE  /\ \A c \in Bots : RemovalPending(c) => RemovalPending(c)'
         /\ m.op = "remove" => RemovalPending(m.bot)'
<1>1. pendingMutations \in Seq(Mutations)
      BY DEF TypeOK
<1> DEFINE n == Len(pendingMutations)
<1>2. /\ n \in Nat /\ DOMAIN pendingMutations = 1 .. n
      /\ DOMAIN pendingMutations' = 1 .. n + 1 /\ pendingMutations'[n + 1] = m
      /\ \A i \in 1 .. n : pendingMutations'[i] = pendingMutations[i]
      BY <1>1
<1> HIDE DEF n
<1>3. n + 1 \in DOMAIN pendingMutations'
         /\ \A i \in DOMAIN pendingMutations : i \in DOMAIN pendingMutations'
      BY <1>2
<1> QED BY <1>2, <1>3 DEF RemovalPending

\* A deferred call that is no removal of bot c is applied, and the others are kept.
LEMMA DeferredFirst ==
  ASSUME TypeOK, pendingMutations # <<>>, pendingMutations' = Tail(pendingMutations)
  PROVE  /\ Head(pendingMutations) \in Mutations
         /\ \A c \in Bots : RemovalPending(c) =>
               \/ RemovalPending(c)'
               \/ /\ Head(pendingMutations).op = "remove"
                  /\ Head(pendingMutations).bot = c
<1>1. pendingMutations \in Seq(Mutations)
      BY DEF TypeOK
<1> DEFINE n == Len(pendingMutations)
<1>2. /\ n \in Nat /\ n > 0 /\ DOMAIN pendingMutations = 1 .. n
      /\ DOMAIN pendingMutations' = 1 .. n - 1
      /\ \A i \in 1 .. n - 1 : pendingMutations'[i] = pendingMutations[i + 1]
      /\ Head(pendingMutations) = pendingMutations[1]
      /\ Head(pendingMutations) \in Mutations
      BY <1>1
<1> HIDE DEF n
<1>3. ASSUME NEW c \in Bots, RemovalPending(c)
      PROVE  \/ RemovalPending(c)'
             \/ /\ Head(pendingMutations).op = "remove"
                /\ Head(pendingMutations).bot = c
  <2>1. PICK i \in 1 .. n :
           pendingMutations[i].op = "remove" /\ pendingMutations[i].bot = c
        BY <1>2, <1>3 DEF RemovalPending
  <2>2. CASE i = 1
        BY <1>2, <2>1, <2>2
  <2>3. CASE i # 1
    <3>1. i - 1 \in 1 .. n - 1 /\ (i - 1) + 1 = i
          BY <1>2, <2>3
    <3>2. pendingMutations'[i - 1] = pendingMutations[i]
          BY <1>2, <3>1
    <3> QED BY <1>2, <2>1, <3>1, <3>2 DEF RemovalPending
  <2> QED BY <2>2, <2>3
<1> QED BY <1>2, <1>3

LEMMA AddPlayerImmediateKeepsChips ==
  ASSUME ChipInv, TypeInv', LoopState', CalledBetweenHands,
         NEW b \in Bots, NEW stack \in BuyIns, NEW at \in Nat,
         AddPlayerImmediate(b, stack, at),
         \A c \in Bots : RemovalPending(c) => RemovalPending(c)'
  PROVE  ChipInv'
<1>1. CASE Reconnect(b)
  <2>1. UNCHANGED <<players, chips, expectedTotalChips>>
        BY <1>1 DEF Reconnect, seatVars
  <2>2. seatStatus' = [seatStatus EXCEPT ![b] = "active"]
        BY <1>1 DEF Reconnect
  <2>3. \A c \in Bots : Disconnected(c)' => Disconnected(c)
        BY <2>2 DEF Disconnected, ChipInv, TypeInv, TypeOK
  <2> QED BY <2>1, <2>3, ReconnectKeepsChips
<1>2. CASE SitDown(b, stack, at)
      BY <1>2, SitDownKeepsChips
<1> QED BY <1>1, <1>2 DEF AddPlayerImmediate

LEMMA AddPlayerKeepsChips ==
  ASSUME ChipInv, TypeInv', status # "error",
         NEW b \in Bots, NEW stack \in BuyIns, NEW at \in Nat, AddPlayer(b, stack, at)
  PROVE  ChipInv'
<1> USE DEF handVars, potVars, seatVars, playerVars
<1>1. /\ AtAwait /\ UNCHANGED <<totalBets, round, level, dead, payouts, pc, running, status>>
      BY DEF AddPlayer
<1>2. TypeOK
      BY DEF ChipInv, TypeInv
<1>3. CASE MutationsDefer
  <2> DEFINE m == [op |-> "add", bot |-> b, chips |-> stack, at |-> at]
  <2>1. /\ pendingMutations' = Append(pendingMutations, m) /\ m \in Mutations
        /\ UNCHANGED <<players, chips, folded, seatStatus, expectedTotalChips, starts>>
        BY <1>3 DEF AddPlayer, Mutations
  <2> HIDE DEF m
  <2>2. \A c \in Bots : RemovalPending(c) => RemovalPending(c)'
        BY <1>2, <2>1, DeferredLast
  <2>3. Live /\ pc \in HandControls
        BY <1>1, <1>3 DEF MutationsDefer, ChipInv, TypeInv, Control, AtAwait, HandControls
  <2>4. LoopState'
        BY <1>1, <2>1, <2>3 DEF ChipInv, LoopState
  <2> QED BY <1>1, <2>1, <2>2, <2>4, CallKeepsChips DEF Disconnected
<1>4. CASE ~MutationsDefer
  <2>1. AddPlayerImmediate(b, stack, at) /\ UNCHANGED pendingMutations
        BY <1>4 DEF AddPlayer
  <2>2. pc \notin HandControls
        BY <1>4 DEF MutationsDefer, ChipInv, TypeInv, Control
  <2>3. CalledBetweenHands
        BY <1>1, <2>2 DEF CalledBetweenHands, Broken, AtAwait, PotControls, HandControls,
                          BettingControls, ShowdownControls
  <2>4. starts' = starts \/ ~running
        BY <2>1 DEF AddPlayerImmediate, Reconnect, SitDown
  <2>5. LoopState'
        BY <1>1, <2>1, <2>4 DEF ChipInv, LoopState, TypeInv, Control
  <2>6. \A c \in Bots : RemovalPending(c) => RemovalPending(c)'
        BY <2>1 DEF RemovalPending
  <2> QED BY <2>1, <2>3, <2>5, <2>6, AddPlayerImmediateKeepsChips
<1> QED BY <1>3, <1>4

LEMMA RemovePlayerKeepsChips ==
  ASSUME ChipInv, TypeInv', status # "error", NEW b \in Bots, RemovePlayer(b)
  PROVE  ChipInv'
<1> USE DEF handVars, potVars, seatVars
<1>1. /\ AtAwait /\ UNCHANGED <<totalBets, round, level, dead, payouts, pc, running, status>>
      BY DEF RemovePlayer
<1>2. TypeOK /\ seatStatus \in [Bots -> Statuses]
      BY DEF ChipInv, TypeInv, TypeOK
<1>3. CASE MutationsDefer
  <2> DEFINE m == [op |-> "remove", bot |-> b]
  <2>1. /\ pendingMutations' = Append(pendingMutations, m) /\ m \in Mutations
        /\ m.op = "remove" /\ m.bot = b
        /\ seatStatus' = [seatStatus EXCEPT ![b] = "eliminated"]
        /\ UNCHANGED <<players, chips, folded, expectedTotalChips, starts>>
        BY <1>3 DEF RemovePlayer, Mutations
  <2> HIDE DEF m
  <2>2. /\ \A c \in Bots : RemovalPending(c) => RemovalPending(c)'
        /\ RemovalPending(b)'
        BY <1>2, <2>1, DeferredLast
  <2>3. Live /\ pc \in HandControls
        BY <1>1, <1>3 DEF MutationsDefer, ChipInv, TypeInv, Control, AtAwait, HandControls
  <2>4. LoopState'
        BY <1>1, <2>1, <2>3 DEF ChipInv, LoopState
  <2>5. /\ \A c \in Bots : Disconnected(c)' => Disconnected(c) \/ RemovalPending(c)'
        /\ \A c \in Bots : Disconnected(c) => Disconnected(c)'
        BY <1>2, <2>1, <2>2 DEF Disconnected
  <2> QED BY <1>1, <2>1, <2>2, <2>4, <2>5, CallKeepsChips
<1>4. CASE ~MutationsDefer
  <2>1. RemovePlayerImmediate(b) /\ UNCHANGED pendingMutations
        BY <1>4 DEF RemovePlayer
  <2>2. pc \notin HandControls
        BY <1>4 DEF MutationsDefer, ChipInv, TypeInv, Control
  <2>3. CalledBetweenHands
        BY <1>1, <2>2 DEF CalledBetweenHands, Broken, AtAwait, PotControls, HandControls,
                          BettingControls, ShowdownControls
  <2>4. starts' = starts
        BY <2>1 DEF RemovePlayerImmediate
  <2>5. LoopState'
        BY <1>1, <2>1, <2>4 DEF ChipInv, LoopState
  <2>6. \A c \in Bots : RemovalPending(c) => RemovalPending(c)'
        BY <2>1 DEF RemovalPending
  <2> QED BY <2>1, <2>3, <2>5, <2>6, RemovalKeepsChips
<1> QED BY <1>3, <1>4

LEMMA ReactivatePlayerKeepsChips ==
  ASSUME ChipInv, TypeInv', NEW b \in Bots, ReactivatePlayer(b)
  PROVE  ChipInv'
<1> USE DEF handVars, potVars, seatVars, gameVars
<1>1. /\ AtAwait
      /\ UNCHANGED <<players, chips, folded, totalBets, payouts, round, level, dead, pc,
                     running, status, expectedTotalChips, starts, pendingMutations>>
      /\ seatStatus[b] = "sitting_out"
      /\ seatStatus' = [seatStatus EXCEPT ![b] = "active"]
      BY DEF ReactivatePlayer
<1>2. \A c \in Bots : /\ Disconnected(c)' <=> Disconnected(c)
                      /\ RemovalPending(c)' <=> RemovalPending(c)
      BY <1>1 DEF Disconnected, RemovalPending, ChipInv, TypeInv, TypeOK
<1>3. LoopState'
      BY <1>1 DEF ChipInv, LoopState
<1> QED BY <1>1, <1>2, <1>3, CallKeepsChips

LEMMA DrainKeepsChips ==
  ASSUME ChipInv, TypeInv', Drain
  PROVE  ChipInv'
<1> USE DEF handVars, potVars, seatVars, playerVars
<1> DEFINE m == Head(pendingMutations)
<1>1. /\ pc \in {"drain", "crash"} /\ pendingMutations # <<>>
      /\ pendingMutations' = Tail(pendingMutations)
      /\ UNCHANGED <<totalBets, round, level, dead, payouts, pc, running, status>>
      /\ \/ m.op = "remove" /\ RemovePlayerImmediate(m.bot)
         \/ m.op # "remove" /\ AddPlayerImmediate(m.bot, m.chips, m.at)
         \/ m.op # "remove" /\ UNCHANGED <<players, seatStatus, chips, expectedTotalChips, starts>>
      BY DEF Drain, DrainPoints
<1>2. /\ TypeOK /\ m \in Mutations
      /\ \A c \in Bots : RemovalPending(c) =>
            RemovalPending(c)' \/ (m.op = "remove" /\ m.bot = c)
      BY <1>1, DeferredFirst DEF ChipInv, TypeInv
<1>3. /\ m.bot \in Bots
      /\ m.op # "remove" => m.chips \in BuyIns /\ m.at \in Nat
      BY <1>2 DEF Mutations
<1> HIDE DEF m
<1>4. running
      BY <1>1 DEF ChipInv, TypeInv, Control
<1>5. starts' = starts
      BY <1>1, <1>4 DEF AddPlayerImmediate, Reconnect, SitDown, RemovePlayerImmediate
<1>6. Live
      BY <1>1 DEF ChipInv, LoopState
<1>7. LoopState'
      BY <1>1, <1>5, <1>6 DEF ChipInv, LoopState
<1>8. CASE pc = "crash"
  <2>1. Broken' /\ pc' \notin PotControls /\ pc' \notin ShowdownControls
        BY <1>1, <1>8 DEF Broken, PotControls, BettingControls, ShowdownControls
  <2>2. Conserved' /\ OnlySeated' /\ Gone' /\ NoPot' /\ InThePot'
        BY <2>1 DEF Conserved, OnlySeated, Gone, NoPot, InThePot
  <2> QED BY <1>6, <1>7, <2>1, <2>2, OutOfShowdown, OutOfHand DEF ChipInv
<1>9. CASE pc = "drain"
  <2>1. CalledBetweenHands
    <3>1. ~Broken
          BY <1>9, NotBroken
    <3> QED BY <1>1, <1>9, <3>1 DEF CalledBetweenHands, PotControls, BettingControls,
                                     ShowdownControls
  <2>2. CASE m.op = "remove"
        BY <1>1, <1>2, <1>3, <1>7, <2>1, <2>2, RemovalKeepsChips
  <2>3. CASE m.op # "remove"
    <3>1. \A c \in Bots : RemovalPending(c) => RemovalPending(c)'
          BY <1>2, <2>3
    <3>2. CASE AddPlayerImmediate(m.bot, m.chips, m.at)
          BY <1>3, <1>7, <2>1, <2>3, <3>1, <3>2, AddPlayerImmediateKeepsChips
    <3>3. CASE UNCHANGED <<players, seatStatus, chips, expectedTotalChips, starts>>
          BY <1>7, <2>1, <3>1, <3>3, ReconnectKeepsChips DEF Disconnected
    <3> QED BY <1>1, <2>3, <3>2, <3>3
  <2> QED BY <2>2, <2>3
<1> QED BY <1>1, <1>8, <1>9

-----------------------------------------------------------------------------
(* The antes and the blinds *)

\* A search that comes back to its own seat found no other bot.
LEMMA SearchComesBack ==
  ASSUME players \in Seq(Bots), NEW i \in Seats, Len(players) >= 2, NEW passes,
         FirstSeatAfter(i, passes) = i
  PROVE  \A j \in Seats : j # i => players[j] \notin passes
<1> DEFINE n == Len(players)
           hits == {k \in Seats : players[Clockwise(i, k)] \in passes}
<1>1. n \in Nat /\ n >= 2 /\ Seats = 1 .. n /\ i \in 1 .. n
      BY DEF Seats
<1>2. \A k \in 1 .. n - 1 : Clockwise(i, k) # i
      BY <1>1 DEF Clockwise
<1>3. SUFFICES ASSUME NEW j \in Seats, j # i, players[j] \in passes PROVE FALSE
      OBVIOUS
<1> DEFINE d == IF j > i THEN j - i ELSE j - i + n
<1>4. d \in 1 .. n - 1 /\ Clockwise(i, d) = j
      BY <1>1, <1>3 DEF Clockwise
<1>5. d \in hits
      BY <1>1, <1>3, <1>4
<1> DEFINE m == CHOOSE k \in hits : \A l \in hits : k <= l
<1>6. m \in hits /\ m <= d
  <2>1. hits \in SUBSET Nat /\ hits # {}
        BY <1>1, <1>5
  <2>2. \E k \in hits : \A l \in hits : k <= l
    <3> HIDE DEF hits
    <3> QED BY <2>1, LeastExists
  <2> HIDE DEF hits, d
  <2>3. m \in hits /\ \A l \in hits : m <= l
        BY <2>2
  <2> HIDE DEF m
  <2> QED BY <1>5, <2>3
<1>7. FirstSeatAfter(i, passes) = Clockwise(i, m)
      BY <1>5 DEF FirstSeatAfter
<1>8. m \in 1 .. n
      BY <1>1, <1>6
<1> HIDE DEF m, d, hits
<1>9. m \in 1 .. n - 1
      BY <1>1, <1>4, <1>6, <1>8
<1> QED BY <1>2, <1>7, <1>9

\* Before a hand every bot that can play is dealt in, and the others have no chips.
LEMMA BeforeHand ==
  ASSUME ChipInv, AtLoopTop, running, Cardinality(Playable) >= 2
  PROVE  /\ ~Broken /\ status = "running" /\ pendingMutations = <<>> /\ totalBets = Zero
         /\ \A b \in Bots : chips[b] \in Int /\ chips[b] >= 0
         /\ \A b \in Bots : Disconnected(b) \/ b \notin Seated => chips[b] = 0
         /\ \A x \in Bots : \E b \in Playable : b # x
         /\ Playable \subseteq Seated /\ dealerIndex \in Seats /\ Len(players) >= 2
<1>1. pc \in {"top", "sleep"}
      BY DEF AtLoopTop
<1>2. ~Broken /\ status = "running"
      BY <1>1, NotBroken
<1>3. pendingMutations = <<>> /\ pc \notin PotControls
      BY <1>1 DEF ChipInv, LoopState, HandControls, PotControls, BettingControls,
                  ShowdownControls
<1>4. \A b \in Bots : ~RemovalPending(b)
      BY <1>3 DEF RemovalPending
<1>5. /\ TypeOK /\ chips \in [Bots -> Int] /\ players \in Seq(Bots) /\ Seated \subseteq Bots
      BY SeatedAreBots DEF ChipInv, TypeInv, TypeOK
<1>6. totalBets = Zero /\ \A b \in Bots : chips[b] \in Int /\ chips[b] >= 0
      BY <1>2, <1>3, <1>4, <1>5 DEF ChipInv, NoPot
<1>7. \A b \in Bots : Disconnected(b) \/ b \notin Seated => chips[b] = 0
      BY <1>2, <1>4 DEF ChipInv, Gone, OnlySeated
<1>8. Playable \subseteq Seated
      BY DEF Playable
<1>9. \A x \in Bots : \E b \in Playable : b # x
  <2> SUFFICES ASSUME NEW x \in Bots, \A b \in Playable : b = x PROVE FALSE
      OBVIOUS
  <2>1. Playable = {} \/ Playable = {x}
        OBVIOUS
  <2>2. Cardinality(Playable) = 0 \/ Cardinality(Playable) = 1
        BY <2>1, FS_EmptySet, FS_Singleton
  <2> QED BY <2>2
<1>10. \E b \in Playable : TRUE
  <2> SUFFICES ASSUME Playable = {} PROVE FALSE
      OBVIOUS
  <2> QED BY FS_EmptySet
<1>11. PICK b \in Playable : TRUE
       BY <1>10
<1>12. b \in Bots
       BY <1>5, <1>8
<1>13. PICK c \in Playable : c # b
       BY <1>9, <1>12
<1>14. PICK i \in Seats, j \in Seats : players[i] = b /\ players[j] = c
       BY <1>8, <1>13 DEF Seated
<1>15. Len(players) >= 2 /\ players # <<>>
       BY <1>5, <1>13, <1>14 DEF Seats
<1>16. dealerIndex \in Seats
       BY <1>15 DEF ChipInv, TypeInv, SeatsInRange
<1> QED BY <1>2, <1>3, <1>6, <1>7, <1>8, <1>9, <1>15, <1>16

\* No bet of a street is above the bet to match.
MatchedBets ==
  pc \in BettingControls => \A b \in Bots : round.bets[b] <= round.maxBet

LEMMA BeginHandKeepsChips ==
  ASSUME ChipInv, TypeInv', BeginHand
  PROVE  /\ ChipInv'
         /\ \A b \in Bots : chips'[b] + totalBets'[b] = chips[b]
         /\ SmallBlind <= BigBlind => MatchedBets'
<1> USE DEF seatVars, potVars
<1> DEFINE out == [b \in Bots |-> chips[b] = 0 \/ Disconnected(b)]
           ante == [b \in Bots |-> IF b \in Seated /\ ~out[b]
                                   THEN Lesser(chips[b], Ante) ELSE 0]
           afterAnte == [b \in Bots |-> chips[b] - ante[b]]
           dealt == {b \in Seated : ~out[b]}
           can == CanStillAct(afterAnte, out)
           sbSeat == IF Cardinality(dealt) = 2 THEN dealerIndex
                     ELSE FirstSeatAfter(dealerIndex, can)
           bbSeat == FirstSeatAfter(sbSeat, can)
           sb == players[sbSeat]
           bb == players[bbSeat]
           sbAmt == Lesser(afterAnte[sb], SmallBlind)
           bbAmt == Lesser(afterAnte[bb], BigBlind)
           blind == [b \in Bots |-> (IF b = sb THEN sbAmt ELSE 0)
                                      + (IF b = bb THEN bbAmt ELSE 0)]
           stacks == [b \in Bots |-> afterAnte[b] - blind[b]]
           bets == [b \in Bots |-> IF b = bb THEN bbAmt ELSE IF b = sb THEN sbAmt ELSE 0]
<1>1. /\ AtLoopTop /\ running /\ Cardinality(Playable) >= 2
      /\ folded' = out /\ chips' = stacks
      /\ totalBets' = [b \in Bots |-> ante[b] + blind[b]]
      /\ round' = [NewRound EXCEPT !.maxBet = BigBlind, !.bets = bets]
      /\ pc' = "act"
      /\ UNCHANGED <<players, seatStatus, payouts, running, status, pendingMutations,
                     expectedTotalChips, starts>>
      BY DEF BeginHand
<1>2. /\ ~Broken /\ status = "running" /\ pendingMutations = <<>> /\ totalBets = Zero
      /\ \A b \in Bots : chips[b] \in Int /\ chips[b] >= 0
      /\ \A b \in Bots : Disconnected(b) \/ b \notin Seated => chips[b] = 0
      /\ \A x \in Bots : \E b \in Playable : b # x
      /\ Playable \subseteq Seated /\ dealerIndex \in Seats /\ Len(players) >= 2
      BY <1>1, BeforeHand
<1>3. /\ players \in Seq(Bots) /\ players # <<>> /\ Seated \subseteq Bots
      /\ \A i \in Seats : players[i] \in Bots /\ players[i] \in Seated
      /\ \A i, j \in Seats : players[i] = players[j] => i = j
      /\ IsFiniteSet(Bots) /\ Ante \in Nat /\ SmallBlind \in Nat /\ BigBlind \in Nat
  <2>1. /\ TypeOK /\ players \in Seq(Bots)
        /\ \A i, j \in Seats : players[i] = players[j] => i = j
        BY DEF ChipInv, TypeInv, TypeOK
  <2>2. Seated \subseteq Bots /\ \A i \in Seats : players[i] \in Bots /\ players[i] \in Seated
        BY <2>1, SeatedAreBots DEF Seated
  <2>3. players # <<>>
        BY <1>2, <2>1
  <2> QED BY <2>1, <2>2, <2>3, TableAssumption, BigBlindAssumption
<1>4. ~Broken' /\ pc' \in PotControls /\ pc' \notin ShowdownControls /\ Seated' = Seated
      BY <1>1, <1>2 DEF Broken, PotControls, BettingControls, ShowdownControls, Seated, Seats
<1>5. sbSeat \in Seats /\ bbSeat \in Seats
  <2>1. sbSeat \in Seats
        BY <1>2, <1>3, FirstSeatAfterIsSeat
  <2> HIDE DEF sbSeat
  <2> QED BY <1>3, <2>1, FirstSeatAfterIsSeat
<1>6. sb \in Bots /\ bb \in Bots
      BY <1>3, <1>5
<1>7. \A b \in Bots : /\ out[b] <=> chips[b] = 0
                      /\ ante[b] = Lesser(chips[b], Ante)
                      /\ afterAnte[b] = chips[b] - ante[b]
                      /\ blind[b] = (IF b = sb THEN sbAmt ELSE 0) + (IF b = bb THEN bbAmt ELSE 0)
                      /\ chips'[b] = afterAnte[b] - blind[b]
                      /\ totalBets'[b] = ante[b] + blind[b]
                      /\ folded'[b] <=> out[b]
                      /\ bets[b] = IF b = bb THEN bbAmt ELSE IF b = sb THEN sbAmt ELSE 0
  <2>1. ASSUME NEW b \in Bots
        PROVE  (out[b] <=> chips[b] = 0) /\ ante[b] = Lesser(chips[b], Ante)
    <3>1. out[b] <=> chips[b] = 0
          BY <1>2
    <3>2. ante[b] = IF b \in Seated /\ ~out[b] THEN Lesser(chips[b], Ante) ELSE 0
          OBVIOUS
    <3> HIDE DEF out, ante
    <3>3. chips[b] = 0 => Lesser(chips[b], Ante) = 0
          BY <1>3 DEF Lesser
    <3> QED BY <1>2, <3>1, <3>2, <3>3
  <2> HIDE DEF sbAmt, bbAmt, sb, bb
  <2> QED BY <1>1, <2>1
<1>8. \A b \in can : ~out[b] /\ afterAnte[b] # 0
      BY DEF CanStillAct
<1>9. \A b \in Bots : b \in Seated /\ ~out[b] /\ afterAnte[b] # 0 => b \in can
      BY DEF CanStillAct
<1>10. sb = bb => \A b \in Bots \ {sb} : b \notin can
  <2> SUFFICES ASSUME sb = bb, NEW b \in Bots \ {sb}, b \in can PROVE FALSE
      OBVIOUS
  <2>1. sbSeat = bbSeat
        BY <1>3, <1>5
  <2>2. \A j \in Seats : j # sbSeat => players[j] \notin can
    <3> HIDE DEF sbSeat, can
    <3> QED BY <1>2, <1>3, <1>5, <2>1, SearchComesBack
  <2>3. b \in Seated
        BY DEF CanStillAct
  <2>4. PICK j \in Seats : players[j] = b
        BY <2>3 DEF Seated
  <2> QED BY <2>2, <2>4
<1> HIDE DEF out, ante, afterAnte, can, sbSeat, bbSeat, sb, bb, blind, stacks, bets
<1>11. /\ sbAmt \in Int /\ bbAmt \in Int /\ sbAmt >= 0 /\ bbAmt >= 0
       /\ sbAmt <= afterAnte[sb] /\ bbAmt <= afterAnte[bb]
       /\ sbAmt <= SmallBlind /\ bbAmt <= BigBlind
       /\ \A b \in Bots : /\ ante[b] \in Int /\ 0 <= ante[b] /\ ante[b] <= chips[b]
                          /\ ante[b] <= Ante /\ (ante[b] = chips[b] \/ ante[b] = Ante)
                          /\ afterAnte[b] \in Int /\ afterAnte[b] >= 0
  <2>1. ASSUME NEW b \in Bots
        PROVE  /\ ante[b] \in Int /\ 0 <= ante[b] /\ ante[b] <= chips[b]
               /\ ante[b] <= Ante /\ (ante[b] = chips[b] \/ ante[b] = Ante)
               /\ afterAnte[b] \in Int /\ afterAnte[b] >= 0
    <3>1. chips[b] \in Int /\ chips[b] >= 0 /\ ante[b] = Lesser(chips[b], Ante)
          /\ afterAnte[b] = chips[b] - ante[b]
          BY <1>2, <1>7
    <3> QED BY <1>3, <3>1 DEF Lesser
  <2>2. /\ afterAnte[sb] \in Int /\ afterAnte[sb] >= 0
        /\ afterAnte[bb] \in Int /\ afterAnte[bb] >= 0
        BY <1>6, <2>1
  <2> QED BY <1>3, <2>1, <2>2 DEF Lesser
<1> HIDE DEF sbAmt, bbAmt
<1>12. \A b \in Bots : /\ chips'[b] \in Int /\ totalBets'[b] \in Int
                       /\ chips'[b] + totalBets'[b] = chips[b]
                       /\ blind[b] \in Int /\ blind[b] >= 0 /\ totalBets'[b] >= blind[b]
  <2> SUFFICES ASSUME NEW b \in Bots
               PROVE  /\ chips'[b] \in Int /\ totalBets'[b] \in Int
                      /\ chips'[b] + totalBets'[b] = chips[b]
                      /\ blind[b] \in Int /\ blind[b] >= 0 /\ totalBets'[b] >= blind[b]
      OBVIOUS
  <2>1. blind[b] \in Int /\ blind[b] >= 0
        BY <1>7, <1>11
  <2>2. /\ ante[b] \in Int /\ ante[b] >= 0 /\ afterAnte[b] = chips[b] - ante[b]
        /\ chips'[b] = afterAnte[b] - blind[b] /\ totalBets'[b] = ante[b] + blind[b]
        /\ chips[b] \in Int
        BY <1>2, <1>7, <1>11
  <2> HIDE DEF out
  <2> QED BY <2>1, <2>2
\* A bot without chips posts nothing.
<1>13. \A b \in Bots : chips[b] = 0 => chips'[b] = 0 /\ totalBets'[b] = 0 /\ folded'[b]
  <2> SUFFICES ASSUME NEW b \in Bots, chips[b] = 0
               PROVE  chips'[b] = 0 /\ totalBets'[b] = 0
      BY <1>7
  <2>1. ante[b] = 0 /\ afterAnte[b] = 0
        BY <1>7, <1>11
  <2>2. blind[b] = 0
        BY <1>7, <1>11, <2>1
  <2>3. chips'[b] = afterAnte[b] - blind[b] /\ totalBets'[b] = ante[b] + blind[b]
        BY <1>7
  <2> QED BY <2>1, <2>2, <2>3
\* Only a bot that posts both blinds can be overdrawn.
<1>14. ASSUME NEW x \in Bots, chips'[x] < 0
       PROVE  Overdrawn(x)' /\ Ante # 0
  <2>1. /\ chips'[x] = afterAnte[x] - blind[x] /\ afterAnte[x] \in Int
        /\ blind[x] = (IF x = sb THEN sbAmt ELSE 0) + (IF x = bb THEN bbAmt ELSE 0)
        BY <1>7, <1>11
  <2>2. x = sb /\ x = bb
        BY <1>11, <1>14, <2>1
  <2>3. afterAnte[x] > 0
        BY <1>11, <1>14, <2>1, <2>2
  <2>4. chips[x] \in Int /\ chips[x] = afterAnte[x] + ante[x] /\ chips[x] > Ante
    <3>1. /\ chips[x] \in Int /\ ante[x] \in Int /\ afterAnte[x] = chips[x] - ante[x]
          /\ ante[x] = chips[x] \/ ante[x] = Ante
          BY <1>2, <1>7, <1>11
    <3> QED BY <2>3, <3>1
  <2>5. ~folded'[x]
        BY <1>3, <1>7, <2>4
  <2>6. \A b \in Bots \ {x} : afterAnte[b] = 0 /\ chips[b] = ante[b]
    <3> SUFFICES ASSUME NEW b \in Bots \ {x} PROVE afterAnte[b] = 0 /\ chips[b] = ante[b]
        OBVIOUS
    <3>1. b \notin can
          BY <1>10, <2>2
    <3>2. /\ chips[b] \in Int /\ ante[b] \in Int /\ afterAnte[b] = chips[b] - ante[b]
          BY <1>2, <1>7, <1>11
    <3>3. CASE b \in Seated /\ ~out[b]
      <4>1. afterAnte[b] = 0
            BY <1>9, <3>1, <3>3
      <4> QED BY <3>2, <4>1
    <3>4. CASE b \notin Seated \/ out[b]
      <4>1. chips[b] = 0
            BY <1>2, <1>7, <3>4
      <4>2. ante[b] = 0
            BY <1>11, <4>1
      <4> QED BY <3>2, <4>1, <4>2
    <3> QED BY <3>3, <3>4
  <2>7. \A b \in Bots \ {x} : chips'[b] = 0 /\ totalBets'[b] <= Ante
    <3> SUFFICES ASSUME NEW b \in Bots \ {x} PROVE chips'[b] = 0 /\ totalBets'[b] <= Ante
        OBVIOUS
    <3>1. blind[b] = 0
          BY <1>7, <2>2
    <3>2. chips'[b] = afterAnte[b] - blind[b] /\ totalBets'[b] = ante[b] + blind[b]
          BY <1>7
    <3> QED BY <1>3, <1>11, <2>6, <3>1, <3>2
  <2>8. totalBets'[x] + chips'[x] = chips[x]
        BY <1>12
  <2>9. Overdrawn(x)'
    <3>1. \A b \in Bots \ {x} : totalBets'[b] <= totalBets'[x] + chips'[x]
          BY <1>3, <1>12, <2>4, <2>7, <2>8
    <3> QED BY <1>2, <2>5, <2>7, <2>8, <3>1 DEF Overdrawn
  <2>10. Ante # 0
    <3> SUFFICES ASSUME Ante = 0 PROVE FALSE
        OBVIOUS
    <3>1. PICK b \in Playable : b # x
          BY <1>2
    <3>2. b \in Bots /\ chips[b] > 0
          BY <1>2, <1>3, <3>1 DEF Playable
    <3> QED BY <1>2, <1>11, <2>6, <3>1, <3>2
  <2> QED BY <2>9, <2>10
<1>15. InThePot'
  <2>1. \A b \in Bots : totalBets'[b] >= 0
        BY <1>12
  <2>2. \A x \in Bots : chips'[x] < 0 => Overdrawn(x)'
        BY <1>14
  <2>3. Ante = 0 => \A x \in Bots : chips'[x] >= 0
        BY <1>12, <1>14
  <2> QED BY <2>1, <2>2, <2>3 DEF InThePot
<1>16. StreetBets'
  <2>1. round'.maxBet = BigBlind /\ round'.bets = bets
        BY <1>1 DEF NewRound
  <2>2. ASSUME NEW b \in Bots PROVE 0 <= bets[b] /\ bets[b] <= totalBets'[b]
    <3>1. /\ bets[b] = IF b = bb THEN bbAmt ELSE IF b = sb THEN sbAmt ELSE 0
          /\ blind[b] = (IF b = sb THEN sbAmt ELSE 0) + (IF b = bb THEN bbAmt ELSE 0)
          /\ totalBets'[b] \in Int /\ blind[b] \in Int /\ totalBets'[b] >= blind[b]
          BY <1>7, <1>12
    <3>2. 0 <= bets[b] /\ bets[b] <= blind[b] /\ bets[b] \in Int
          BY <1>11, <3>1
    <3> QED BY <3>1, <3>2
  <2> QED BY <1>3, <2>1, <2>2 DEF StreetBets
<1>17. Conserved'
  <2>1. /\ chips \in [Bots -> Int] /\ chips' \in [Bots -> Int] /\ totalBets' \in [Bots -> Int]
        /\ IsFiniteSet(Bots)
        BY TableAssumption DEF ChipInv, TypeInv, TypeOK
  <2>a. \A b \in Bots : chips[b] = chips'[b] + totalBets'[b]
        BY <1>12
  <2>2. SumFunction(chips) = SumFunction(chips') + SumFunction(totalBets')
        BY <2>a, <2>1, SumAdds
  <2>3. SumFunction(totalBets) = 0
        BY <1>2, <1>3, SumOfZero DEF Zero
  <2>4. SumFunction(chips) + SumFunction(totalBets) = expectedTotalChips
        BY <1>2 DEF ChipInv, Conserved, TotalChips, InStacks, InPot
  <2>5. SumFunction(chips) \in Int
        BY <1>3, <2>1, SumIsInt
  <2>6. SumFunction(chips') + SumFunction(totalBets') = expectedTotalChips'
        BY <1>1, <2>2, <2>3, <2>4, <2>5
  <2> QED BY <2>6 DEF Conserved, TotalChips, InStacks, InPot
<1>18. OnlySeated'
      BY <1>1, <1>2, <1>4, <1>13 DEF ChipInv, OnlySeated
<1>19. Gone'
  <2>1. \A b \in Bots : Disconnected(b)' => chips[b] = 0
        BY <1>1, <1>2 DEF Disconnected
  <2> QED BY <1>13, <2>1 DEF Gone
<1>20. SomebodyLeft'
  <2>1. PICK b \in Playable : TRUE
        BY <1>2, <1>6
  <2>2. b \in Bots /\ b \in Seated /\ chips[b] > 0 /\ ~Disconnected(b) /\ chips[b] \in Int
        BY <1>2, <1>3, <2>1 DEF Playable
  <2>3. ~folded'[b]
        BY <1>7, <2>2
  <2>4. b \in ActivePlayers'
        BY <1>1, <1>4, <2>2, <2>3 DEF ActivePlayers, Disconnected
  <2>5. \A c \in Seated : Disconnected(c)' => folded'[c]
        BY <1>1, <1>2, <1>3, <1>13 DEF Disconnected
  <2> QED BY <1>1, <1>4, <2>4, <2>5 DEF SomebodyLeft
<1>21. LoopState'
      BY <1>1, <1>2 DEF ChipInv, LoopState
<1>22. NoPot'
      BY <1>4 DEF NoPot
<1>23. ChipInv'
       BY <1>4, <1>15, <1>16, <1>17, <1>18, <1>19, <1>20, <1>21, <1>22, OutOfShowdown
       DEF ChipInv
<1>24. SmallBlind <= BigBlind => MatchedBets'
  <2> SUFFICES ASSUME SmallBlind <= BigBlind, NEW b \in Bots
               PROVE  round'.bets[b] <= round'.maxBet
      BY DEF MatchedBets
  <2>1. round'.maxBet = BigBlind /\ round'.bets = bets
        BY <1>1 DEF NewRound
  <2>2. bets[b] = IF b = bb THEN bbAmt ELSE IF b = sb THEN sbAmt ELSE 0
        BY <1>7
  <2> QED BY <1>3, <1>11, <2>1, <2>2
<1> QED BY <1>12, <1>23, <1>24

-----------------------------------------------------------------------------
(* Every step *)

LEMMA StutterKeepsChips ==
  ASSUME ChipInv, TypeInv', UNCHANGED vars
  PROVE  ChipInv'
<1> USE DEF vars, seatVars, playerVars, handVars, potVars, gameVars
<1>1. (Broken <=> Broken') /\ Seated' = Seated /\ ActivePlayers' = ActivePlayers
      BY DEF Broken, Seated, Seats, ActivePlayers, Disconnected
<1>2. LoopState' /\ SomebodyLeft'
      BY <1>1 DEF ChipInv, LoopState, SomebodyLeft, Undisturbed, Disconnected
<1>3. StreetBets' /\ WithinCap'
      BY DEF ChipInv, StreetBets, WithinCap, StillToWin, MayWin, CanWinFrom, Forfeits,
             Disconnected
<1>4. Settling'
      BY <1>1 DEF ChipInv, Settling, Levels, Unsettled, InPot
<1>5. Winnings' /\ OverdraftPaid'
      BY DEF ChipInv, Winnings, OverdraftPaid, RemovalPending
<1>6. PotsCoverBets' /\ SidePotCap'
      BY DEF ChipInv, PotsCoverBets, SidePotCap, InPot, CanWinFrom, Forfeits, Disconnected
<1> QED BY <1>1, <1>2, <1>3, <1>4, <1>5, <1>6, ChipsStay DEF ChipInv

LEMMA LiveNextKeepsChips == ChipInv /\ [LiveNext]_vars => ChipInv'
<1> SUFFICES ASSUME ChipInv, [LiveNext]_vars PROVE ChipInv'
    OBVIOUS
<1>1. TypeInv'
      BY NextKeepsTypes DEF ChipInv, LiveNext, Next
<1>2. CASE Hand
      BY <1>1, <1>2, BeginHandKeepsChips, BettingKeepsChips, StreetsKeepChips,
         AwardPotKeepsChips, FailuresKeepChips, ShowdownKeepsChips, SettlePotKeepsChips,
         DistributeKeepsChips, HandEndKeepsChips
         DEF Hand
<1>3. CASE FinishGame \/ Drain \/ CheckChips \/ GameFails \/ AdvanceDealer
      BY <1>1, <1>3, FinishGameKeepsChips, DrainKeepsChips, HandEndKeepsChips,
         FailuresKeepChips
<1>4. CASE StartGame
      BY <1>1, <1>4, StartGameKeepsChips
<1>5. CASE status # "error" /\ Callers
  <2>1. ASSUME NEW b \in Bots, RemovePlayer(b) \/ ReactivatePlayer(b) PROVE ChipInv'
        BY <1>1, <1>5, <2>1, RemovePlayerKeepsChips, ReactivatePlayerKeepsChips
  <2>2. ASSUME NEW b \in Bots, NEW stack \in BuyIns, NEW at \in 0 .. Len(players),
               AddPlayer(b, stack, at)
        PROVE  ChipInv'
        BY <1>1, <1>5, <2>2, AddPlayerKeepsChips
  <2> QED BY <1>5, <2>1, <2>2 DEF Callers
<1>6. CASE UNCHANGED vars
      BY <1>1, <1>6, StutterKeepsChips
<1> QED BY <1>2, <1>3, <1>4, <1>5, <1>6 DEF LiveNext, Loop

\* Without timers a game never is in error, so that every step is one of LiveNext.
LEMMA SimulatedSteps ==
  ASSUME ~Live
  PROVE  ChipInv /\ [Next]_vars => [LiveNext]_vars
BY DEF ChipInv, SomebodyLeft, Broken, Next, LiveNext

-----------------------------------------------------------------------------
(* Theorems *)

\* Chips are neither made nor lost by the hands of a live table, whatever the bots bet
\* and whenever bots join and leave, until a hand throws.
THEOREM ChipsConserved == LiveSpec => []ChipConservation
<1>1. ChipInv => ChipConservation
      BY DEF ChipInv, Conserved, Broken, ChipConservation
<1> QED BY <1>1, ChipInvInit, LiveNextKeepsChips, PTL DEF LiveSpec

\* The pots of a live table award exactly what was bet, and no bot wins more from another
\* than the bets of the two make its own, even when bots leave during the showdown.
THEOREM PotsOfLiveTable == LiveSpec => [](PotsCoverBets /\ SidePotCap)
<1>1. ChipInv => PotsCoverBets /\ SidePotCap
      BY DEF ChipInv
<1> QED BY <1>1, ChipInvInit, LiveNextKeepsChips, PTL DEF LiveSpec

\* In simulation mode, and so in the tables of a simulated tournament, the chips are
\* conserved and the pots are those bets too.
THEOREM SimulatedTable ==
  ASSUME ~Live
  PROVE  Spec => [](ChipConservation /\ PotsCoverBets /\ SidePotCap)
<1>1. ChipInv => ChipConservation /\ PotsCoverBets /\ SidePotCap
      BY DEF ChipInv, Conserved, Broken, ChipConservation
<1>2. ChipInv /\ [Next]_vars => ChipInv'
      BY SimulatedSteps, LiveNextKeepsChips
<1> QED BY <1>1, <1>2, ChipInvInit, PTL DEF Spec

\* In simulation mode no hand throws: the pot always has a bot to go to, and the chips
\* always add up.
THEOREM HandsNeverThrow ==
  ASSUME ~Live
  PROVE  Spec => []HandNeverThrows
<1>1. ChipInv => HandNeverThrows
      BY DEF ChipInv, SomebodyLeft, Broken, HandNeverThrows
<1>2. ChipInv /\ [Next]_vars => ChipInv'
      BY SimulatedSteps, LiveNextKeepsChips
<1> QED BY <1>1, <1>2, ChipInvInit, PTL DEF Spec

\* Between two hands nobody owes chips: the bot that posts both blinds from one stack
\* gets back at least what it is overdrawn by.
BetweenHands == pc \in {"top", "hook", "sleep"} \/ (pc = "idle" /\ status # "error")

THEOREM NobodyOverdrawn == LiveSpec => [](BetweenHands => \A b \in Bots : chips[b] >= 0)
<1>1. ChipInv => (BetweenHands => \A b \in Bots : chips[b] >= 0)
  <2> SUFFICES ASSUME ChipInv, BetweenHands, NEW b \in Bots PROVE chips[b] >= 0
      OBVIOUS
  <2>1. ~Broken /\ pc \notin PotControls /\ pc \notin HandControls \union {"drain", "crash"}
        BY DEF BetweenHands, ChipInv, LoopState, Broken, PotControls, BettingControls,
               ShowdownControls, HandControls
  <2>2. pendingMutations = <<>>
        BY <2>1 DEF ChipInv, LoopState
  <2>3. ~RemovalPending(b)
        BY <2>2 DEF RemovalPending
  <2> QED BY <2>1, <2>3 DEF ChipInv, NoPot
<1> QED BY <1>1, ChipInvInit, LiveNextKeepsChips, PTL DEF LiveSpec

-----------------------------------------------------------------------------
(* The promise of ChipLedger *)

\* What a step of a hand does to the ledger.
Stakes == \A b \in Bots : /\ totalBets'[b] >= totalBets[b]
                          /\ chips'[b] + totalBets'[b] = chips[b] + totalBets[b]

\* A raise leaves no bet above the bet to match.
LEMMA RaisedIsMatched ==
  ASSUME NEW r \in Rounds, NEW b \in Bots, NEW stack \in Int, NEW by \in Int, NEW seated,
         \A c \in Bots : r.bets[c] <= r.maxBet, NEW c \in Bots
  PROVE  Raised(r, b, stack, by, seated).bets[c] <= Raised(r, b, stack, by, seated).maxBet
<1> DEFINE newBet == r.bets[b] + RaiseAdds(r, b, stack, by)
<1>1. /\ newBet \in Int /\ r.maxBet \in Int /\ r.bets \in [Bots -> Int]
      /\ r.bets[c] \in Int /\ r.bets[c] <= r.maxBet
      BY RaiseType DEF Rounds
<1>2. CASE newBet - r.maxBet <= 0
  <2>1. Raised(r, b, stack, by, seated) = [r EXCEPT !.bets[b] = newBet]
        BY <1>2 DEF Raised
  <2> HIDE DEF newBet
  <2>2. /\ Raised(r, b, stack, by, seated).bets = [r.bets EXCEPT ![b] = newBet]
        /\ Raised(r, b, stack, by, seated).maxBet = r.maxBet
        BY <2>1 DEF Rounds
  <2> QED BY <1>1, <1>2, <2>2
<1>3. CASE ~(newBet - r.maxBet <= 0)
  <2>1. /\ Raised(r, b, stack, by, seated).bets = [r.bets EXCEPT ![b] = newBet]
        /\ Raised(r, b, stack, by, seated).maxBet = newBet
        BY <1>3 DEF Raised
  <2> HIDE DEF newBet
  <2> QED BY <1>1, <1>3, <2>1
<1> QED BY <1>2, <1>3

\* Every action of a bot moves chips of its stack to the pot, and none back.
LEMMA BettingStakes ==
  ASSUME ChipInv, MatchedBets, SkipSeat \/ GhostActs \/ (BotToAct /\ BotActs)
  PROVE  Stakes /\ MatchedBets'
<1> USE DEF seatVars, playerVars, handVars, potVars, gameVars
<1> DEFINE a == Actor
<1>1. /\ pc = "act" /\ a \in Bots /\ a \in Seated /\ chips[a] >= 0
      BY Bettors DEF SkipSeat, GhostActs, BotToAct
<1>2. /\ chips \in [Bots -> Int] /\ totalBets \in [Bots -> Int]
      /\ round \in Rounds /\ round.bets \in [Bots -> Int]
      /\ round.maxBet \in Int /\ round.lastDelta \in Int
      BY DEF ChipInv, TypeInv, TypeOK, Rounds
<1>3. \A c \in Bots : round.bets[c] <= round.maxBet
      BY <1>1 DEF MatchedBets, BettingControls
<1> USE DEF Stakes, MatchedBets
\* An action that puts in nothing.
<1>4. ASSUME round'.bets = round.bets, round'.maxBet = round.maxBet,
             UNCHANGED <<chips, totalBets>>
      PROVE  Stakes /\ MatchedBets'
      BY <1>2, <1>3, <1>4
\* An action that puts in some of the stack.
<1>5. ASSUME NEW amount \in Int, PutIn(amount), amount >= 0,
             \A c \in Bots : round'.bets[c] <= round'.maxBet
      PROVE  Stakes /\ MatchedBets'
  <2>1. /\ chips' = [chips EXCEPT ![a] = chips[a] - amount]
        /\ totalBets' = [totalBets EXCEPT ![a] = totalBets[a] + amount]
        BY <1>5 DEF PutIn
  <2>2. ASSUME NEW b \in Bots
        PROVE  /\ totalBets'[b] >= totalBets[b]
               /\ chips'[b] + totalBets'[b] = chips[b] + totalBets[b]
    <3>1. /\ chips'[b] = IF b = a THEN chips[a] - amount ELSE chips[b]
          /\ totalBets'[b] = IF b = a THEN totalBets[a] + amount ELSE totalBets[b]
          /\ chips[b] \in Int /\ totalBets[b] \in Int
          BY <1>1, <1>2, <2>1
    <3> QED BY <1>5, <3>1
  <2> QED BY <1>5, <2>2
<1>6. Answered(round, a).bets = round.bets /\ Answered(round, a).maxBet = round.maxBet
      BY <1>1, <1>2, AnsweredBets
<1> HIDE DEF Stakes, MatchedBets
<1>7. CASE SkipSeat
      BY <1>4, <1>7 DEF SkipSeat
<1>8. CASE GhostActs
      BY <1>4, <1>6, <1>8 DEF GhostActs
<1>9. CASE BotToAct /\ (BotChecksOrFolds \/ StrategyFails)
      BY <1>4, <1>6, <1>9 DEF BotChecksOrFolds, StrategyFails, CheckOrFold
<1>10. CASE BotToAct /\ BotCalls
  <2> DEFINE amount == CallAmount(round, a, chips[a])
  <2>1. amount \in Int /\ amount >= 0 /\ amount <= round.maxBet - round.bets[a]
    <3>1. ~CanCheck(round, a) /\ chips[a] \in Int /\ round.bets[a] \in Int
          BY <1>1, <1>2, <1>10 DEF BotCalls
    <3> QED BY <1>1, <1>2, <3>1 DEF CallAmount, ToCall, Lesser, CanCheck
  <2>2. PutIn(amount) /\ round' = Called(round, a, chips[a])
        BY <1>10 DEF BotCalls
  <2>3. chips[a] \in Int
        BY <1>1, <1>2
  <2>4. /\ round'.bets = [round.bets EXCEPT ![a] = round.bets[a] + amount]
        /\ round'.maxBet = round.maxBet
        BY <1>1, <1>2, <2>2, <2>3, CalledBets
  <2> HIDE DEF amount
  <2>5. \A c \in Bots : round'.bets[c] <= round'.maxBet
    <3> SUFFICES ASSUME NEW c \in Bots PROVE round'.bets[c] <= round'.maxBet
        OBVIOUS
    <3>1. /\ round'.bets[c] = IF c = a THEN round.bets[a] + amount ELSE round.bets[c]
          /\ round.bets[a] \in Int
          BY <1>1, <1>2, <2>4
    <3> QED BY <1>2, <1>3, <2>1, <2>4, <3>1
  <2> QED BY <1>5, <2>1, <2>2, <2>5
<1>11. ASSUME NEW n \in RaiseAmounts, BotToAct, BotRaises(n)
       PROVE  Stakes /\ MatchedBets'
  <2> DEFINE by == NormalizedRaise(round, a, chips[a], n)
             amount == RaiseAdds(round, a, chips[a], by)
  <2>1. n \in Int
    <3>1. CallAmount(round, a, chips[a]) \in Int /\ chips[a] \in Int
          BY <1>1, <1>2, CallAmountType
    <3> QED BY <1>2, <1>11, <3>1 DEF RaiseAmounts
  <2>2. by \in Int /\ amount \in Int /\ chips[a] \in Int
        BY <1>1, <1>2, <2>1, RaiseType
  <2>3. \/ /\ RaiseIsValid(round, a, chips[a], by)
           /\ PutIn(amount)
           /\ round' = Raised(round, a, chips[a], by, Seated)
        \/ round' = Answered(round, a) /\ UNCHANGED <<chips, totalBets>>
        BY <1>11 DEF BotRaises
  <2>4. CASE RaiseIsValid(round, a, chips[a], by) /\ PutIn(amount)
             /\ round' = Raised(round, a, chips[a], by, Seated)
    <3>1. by > 0
          BY <2>4 DEF RaiseIsValid
    <3> HIDE DEF by
    <3>2. round.bets[a] \in Int /\ round.bets[a] <= round.maxBet
          BY <1>1, <1>2, <1>3
    <3>3. amount >= 0
          BY <1>1, <1>2, <2>2, <3>1, <3>2 DEF RaiseAdds, ToCall, Lesser
    <3>4. \A c \in Bots : round'.bets[c] <= round'.maxBet
          BY <1>1, <1>2, <1>3, <2>2, <2>4, RaisedIsMatched
    <3> HIDE DEF amount
    <3> QED BY <1>5, <2>2, <2>4, <3>3, <3>4
  <2>5. CASE round' = Answered(round, a) /\ UNCHANGED <<chips, totalBets>>
        BY <1>4, <1>6, <2>5
  <2> HIDE DEF by, amount
  <2> QED BY <2>3, <2>4, <2>5
<1> QED BY <1>7, <1>8, <1>9, <1>10, <1>11 DEF BotActs
LEMMA LedgerSums == \A f : Ledger!SumFunction(f) = SumFunction(f)
BY DEF SumFunction, SumFunctionOnSet, FoldFunctionOnSet, MapThenFoldSet,
       Ledger!SumFunction, Ledger!SumFunctionOnSet, Ledger!FoldFunctionOnSet,
       Ledger!MapThenFoldSet

LEMMA PotReturned ==
  ASSUME TypeOK, TypeOK', NEW d \in [Bots -> Int], \A b \in Bots : d[b] >= 0,
         \A b \in Bots : totalBets[b] >= 0, SumFunction(d) = SumFunction(totalBets),
         totalBets' = Zero, \A b \in Bots : chips'[b] = chips[b] + d[b]
  PROVE  [Ledger!Next]_(Ledger!vars)
<1>1. /\ chips \in [Bots -> Int] /\ chips' \in [Bots -> Int] /\ totalBets \in [Bots -> Int]
      /\ IsFiniteSet(Bots)
      BY TableAssumption DEF TypeOK
<1>2. CASE totalBets = Zero
  <2>1. SumFunction(d) = 0
        BY <1>1, <1>2, SumOfZero DEF Zero
  <2>2. \A b \in Bots : d[b] <= 0
        BY <1>1, <2>1, SumAtLeastPoint
  <2>3. \A b \in Bots : chips'[b] = chips[b]
    <3> SUFFICES ASSUME NEW b \in Bots PROVE chips'[b] = chips[b]
        OBVIOUS
    <3>1. d[b] \in Int /\ chips[b] \in Int
          BY <1>1
    <3> QED BY <2>2, <3>1
  <2>4. chips' = chips
        BY <1>1, <2>3
  <2> QED BY <1>2, <2>4 DEF Ledger!vars
<1>3. CASE totalBets # Zero
  <2>1. SumFunction(chips') = SumFunction(chips) + SumFunction(d)
        BY <1>1, SumAdds
  <2>2. \A b \in Bots : chips'[b] >= chips[b]
        BY <1>1
  <2>3. /\ Ledger!SumFunction(chips') = SumFunction(chips')
        /\ Ledger!SumFunction(chips) = SumFunction(chips)
        /\ Ledger!SumFunction(totalBets) = SumFunction(totalBets)
        BY LedgerSums
  <2> QED BY <1>3, <2>1, <2>2, <2>3 DEF Ledger!Next, Ledger!Settle, Ledger!NoStakes, Zero
<1> QED BY <1>2, <1>3

\* A step between two bets, or between two hands, that moves no chips.
LEMMA QuietSteps ==
  ASSUME MatchedBets, \A b \in Bots : NewRound.bets[b] <= NewRound.maxBet,
         \/ FinishGame \/ StartGame \/ CheckChips \/ GameFails \/ AdvanceDealer
         \/ PotAwarded \/ NextTurn \/ NextStreet \/ BeginStreet \/ AwardPotThrows
         \/ Showdown \/ SettlePot \/ (\E b \in Bots : ReactivatePlayer(b))
         \/ UNCHANGED vars
  PROVE  MatchedBets' /\ UNCHANGED <<chips, totalBets>>
<1> USE DEF vars, seatVars, playerVars, handVars, potVars, gameVars, MatchedBets,
            BettingControls
<1>1. CASE FinishGame \/ CheckChips \/ GameFails \/ AdvanceDealer \/ PotAwarded
      BY <1>1 DEF FinishGame, CheckChips, GameFails, AdvanceDealer, PotAwarded, HandOver
<1>2. CASE StartGame
      BY <1>2 DEF StartGame
<1>3. CASE NextTurn \/ NextStreet \/ BeginStreet
      BY <1>3 DEF NextTurn, NextStreet, BeginStreet, CloseRound
<1>4. CASE AwardPotThrows \/ Showdown \/ SettlePot
      BY <1>4 DEF AwardPotThrows, Showdown, SettlePot
<1>5. CASE \E b \in Bots : ReactivatePlayer(b)
      BY <1>5 DEF ReactivatePlayer
<1>6. CASE UNCHANGED vars
      BY <1>6
<1> QED BY <1>1, <1>2, <1>3, <1>4, <1>5, <1>6

LEMMA StepsFollowLedger ==
  ASSUME ~Live, Ante = 0, SmallBlind <= BigBlind, ChipInv, MatchedBets, [Next]_vars
  PROVE  MatchedBets' /\ [Ledger!Next]_(Ledger!vars)
<1> USE DEF Ledger!vars
<1>1. ChipInv' /\ TypeInv' /\ TypeOK /\ TypeOK'
      BY SimulatedSteps, LiveNextKeepsChips DEF ChipInv, TypeInv
<1>2. ~Broken /\ pendingMutations = <<>>
      BY DEF ChipInv, SomebodyLeft, LoopState
<1>3. /\ chips \in [Bots -> Int] /\ totalBets \in [Bots -> Int] /\ IsFiniteSet(Bots)
      /\ chips' \in [Bots -> Int] /\ totalBets' \in [Bots -> Int] /\ payouts \in [Bots -> Int]
      BY <1>1, TableAssumption DEF ChipInv, TypeInv, TypeOK
<1>4. \A b \in Bots : NewRound.bets[b] <= NewRound.maxBet
      BY DEF NewRound, NoBets
\* Nobody is overdrawn where no ante is posted.
<1>5. ASSUME Stakes, pc' \in PotControls PROVE Ledger!Next
  <2>1. \A b \in Bots : chips'[b] >= 0
        BY <1>1, <1>5 DEF ChipInv, InThePot
  <2> QED BY <1>5, <2>1 DEF Stakes, Ledger!Next, Ledger!Stake
<1>6. CASE BeginHand
  <2>1. /\ \A b \in Bots : chips'[b] + totalBets'[b] = chips[b]
        /\ MatchedBets' /\ totalBets = Zero /\ pc' \in PotControls
        BY <1>1, <1>6, BeginHandKeepsChips, BeforeHand
        DEF BeginHand, PotControls, BettingControls
  <2>2. \A b \in Bots : totalBets'[b] >= 0
        BY <1>1, <2>1 DEF ChipInv, InThePot
  <2>3. Stakes
        BY <1>3, <2>1, <2>2 DEF Stakes, Zero
  <2> QED BY <1>5, <2>1, <2>3
<1>7. CASE SkipSeat \/ GhostActs \/ (BotToAct /\ BotActs)
  <2>1. Stakes /\ MatchedBets'
        BY <1>7, BettingStakes
  <2>2. pc' \in PotControls
        BY <1>7 DEF SkipSeat, GhostActs, BotActs, BotChecksOrFolds, BotCalls, BotRaises,
                    StrategyFails, ActionApplied, Iterating, gameVars, PotControls,
                    BettingControls
  <2> QED BY <1>5, <2>1, <2>2
<1>8. CASE AwardPot
  <2>1. /\ pc = "act" /\ pc' = "award" /\ Cardinality(ActivePlayers) = 1
        /\ chips' = [b \in Bots |-> IF b \in ActivePlayers THEN chips[b] + InPot ELSE chips[b]]
        /\ totalBets' = Zero
        BY <1>8 DEF AwardPot, RoundOver
  <2>2. MatchedBets'
        BY <2>1 DEF MatchedBets, BettingControls
  <2>3. /\ ActivePlayers \subseteq Bots /\ IsFiniteSet(ActivePlayers) /\ InPot \in Int
        BY <1>1, SeatedAreBots, SeatedAreFinite, PotIsInt DEF ActivePlayers
  <2>4. PICK w : ActivePlayers = {w}
        BY <2>1, <2>3, FS_Singleton
  <2>5. w \in Bots /\ \A b \in Bots : totalBets[b] >= 0
        BY <2>1, <2>3, <2>4 DEF ChipInv, InThePot, PotControls, BettingControls
  <2>6. InPot >= 0
    <3>1. totalBets[w] <= InPot
          BY <1>3, <2>5, SumAtLeastPoint DEF InPot
    <3> QED BY <1>3, <2>3, <2>5, <3>1
  <2> DEFINE d == [b \in Bots |-> IF b = w THEN InPot ELSE 0]
  <2>7. SumFunction(d) = SumFunction(totalBets)
    <3> DEFINE v == InPot
    <3> HIDE DEF v
    <3>1. v \in Int
          BY <2>3 DEF v
    <3>2. SumFunction([b \in Bots |-> IF b = w THEN v ELSE 0]) = v
          BY <1>3, <2>5, <3>1, SumOfPoint
    <3> QED BY <3>2 DEF v, InPot
  <2>8. /\ d \in [Bots -> Int]
        /\ \A b \in Bots : d[b] >= 0 /\ chips'[b] = chips[b] + d[b]
        BY <1>3, <2>1, <2>3, <2>4, <2>6
  <2> HIDE DEF d
  <2> QED BY <1>1, <2>1, <2>2, <2>5, <2>7, <2>8, PotReturned
<1>9. CASE Distribute
  <2>1. /\ pc = "reveal" /\ pc' = "drain" /\ totalBets' = Zero
        /\ chips' = [b \in Bots |-> chips[b] + payouts[b]]
        BY <1>9 DEF Distribute, HandOver
  <2>2. MatchedBets'
        BY <2>1 DEF MatchedBets, BettingControls
  <2>3. /\ \A b \in Bots : payouts[b] >= 0 /\ totalBets[b] >= 0
        /\ SumFunction(payouts) = SumFunction(totalBets)
        BY <2>1 DEF ChipInv, Winnings, InThePot, PotsCoverBets, InPot, PotControls,
                    ShowdownControls
  <2>4. \A b \in Bots : chips'[b] = chips[b] + payouts[b]
        BY <2>1
  <2> QED BY <1>1, <1>3, <2>1, <2>2, <2>3, <2>4, PotReturned
<1>10. CASE \E b \in Bots, stack \in BuyIns, at \in 0 .. Len(players) : AddPlayer(b, stack, at)
  <2>1. PICK b \in Bots, stack \in BuyIns, at \in 0 .. Len(players) : AddPlayer(b, stack, at)
        BY <1>10
  <2>2. /\ pc \in {"idle", "hook"} /\ pc' = pc /\ totalBets' = totalBets
        BY <2>1 DEF AddPlayer, AtAwait, handVars
  <2>3. MatchedBets' /\ totalBets = Zero
        BY <1>2, <2>2 DEF MatchedBets, BettingControls, ChipInv, NoPot, PotControls,
                          ShowdownControls
  <2>4. ~handInProgress
        BY <2>2 DEF ChipInv, TypeInv, Control, HandControls
  <2>5. CASE Reconnect(b)
        BY <2>2, <2>3, <2>5 DEF Reconnect
  <2>6. CASE SitDown(b, stack, at)
    <3>1. chips[b] = 0 /\ chips' = [chips EXCEPT ![b] = stack]
          BY <1>2, <2>6 DEF SitDown, CanSit, ChipInv, OnlySeated
    <3>2. Ledger!Join(b)
          BY <2>2, <2>3, <3>1 DEF Ledger!Join, Ledger!NoStakes, Zero
    <3> QED BY <2>3, <3>2 DEF Ledger!Next
  <2> QED BY <2>1, <2>4, <2>5, <2>6 DEF AddPlayer, MutationsDefer, AddPlayerImmediate
<1>11. CASE \E b \in Bots : RemovePlayer(b)
  <2>1. PICK b \in Bots : RemovePlayer(b)
        BY <1>11
  <2>2. /\ pc \in {"idle", "hook"} /\ pc' = pc /\ totalBets' = totalBets
        BY <2>1 DEF RemovePlayer, AtAwait, handVars
  <2>3. MatchedBets' /\ totalBets = Zero
        BY <1>2, <2>2 DEF MatchedBets, BettingControls, ChipInv, NoPot, PotControls,
                          ShowdownControls
  <2>4. ~handInProgress
        BY <2>2 DEF ChipInv, TypeInv, Control, HandControls
  <2>5. chips' = [chips EXCEPT ![b] = 0]
        BY <2>1, <2>4 DEF RemovePlayer, MutationsDefer, RemovePlayerImmediate
  <2>6. Ledger!Leave(b)
        BY <2>2, <2>3, <2>5 DEF Ledger!Leave, Ledger!NoStakes, Zero
  <2> QED BY <2>3, <2>6 DEF Ledger!Next
<1>12. ~Drain
       BY <1>2 DEF Drain
<1>13. CASE \/ FinishGame \/ StartGame \/ CheckChips \/ GameFails \/ AdvanceDealer
            \/ PotAwarded \/ NextTurn \/ NextStreet \/ BeginStreet \/ AwardPotThrows
            \/ Showdown \/ SettlePot \/ (\E b \in Bots : ReactivatePlayer(b))
            \/ UNCHANGED vars
  <2>1. MatchedBets' /\ UNCHANGED <<chips, totalBets>>
        BY <1>4, <1>13, QuietSteps
  <2> QED BY <2>1
<1> QED BY <1>6, <1>7, <1>8, <1>9, <1>10, <1>11, <1>12, <1>13 DEF Next, Loop, Hand, Callers

\* A simulated table keeps the promise of ChipLedger: chips come and go between hands,
\* a hand only moves them to the pot, and the pot goes back to the stacks in one step. An
\* ante can overdraw a stack for the time of a hand, and a small blind above the big one
\* lets a raise take chips back, so the promise is for tables with neither.
THEOREM ImplementsLedger ==
  ASSUME ~Live, Ante = 0, SmallBlind <= BigBlind
  PROVE  Spec => LedgerSpec
<1> DEFINE Inv == ChipInv /\ MatchedBets
<1>1. Init => Inv /\ Ledger!Init
  <2> SUFFICES ASSUME Init PROVE Inv /\ Ledger!Init
      OBVIOUS
  <2>1. MatchedBets
        BY DEF Init, MatchedBets, BettingControls
  <2>2. Ledger!Init
        BY DEF Init, Zero, Ledger!Init, Ledger!NoStakes
  <2> QED BY <2>1, <2>2, ChipInvInit
<1>2. Inv /\ [Next]_vars => Inv' /\ [Ledger!Next]_(Ledger!vars)
  <2> SUFFICES ASSUME Inv, [Next]_vars
               PROVE  Inv' /\ [Ledger!Next]_(Ledger!vars)
      OBVIOUS
  <2>1. ChipInv'
        BY SimulatedSteps, LiveNextKeepsChips
  <2> QED BY <2>1, StepsFollowLedger
<1> QED BY <1>1, <1>2, PTL DEF Spec, LedgerSpec, Ledger!Spec
-----------------------------------------------------------------------------
(* The turn *)

\* The bots that may act, and those of them that owe nothing to the current bet.
MayAct  == {b \in Seated : ~folded[b] /\ ~allIn[b] /\ chips[b] # 0}
Settled == {b \in round.acted : round.bets[b] >= round.maxBet}

\* Clockwise from a seat, whoever comes after a bot of acting that is settled is settled.
SettledLast(i, first, acting, settled) ==
  \A j, k \in first .. first + Len(players) - 1 :
    j < k /\ players[Clockwise(i, j)] \in acting \cap settled
          /\ players[Clockwise(i, k)] \in acting
    => players[Clockwise(i, k)] \in settled

\* The bot whose turn it is comes first before it acts, and last when it has; and a bot
\* without chips is all in, so that it is not asked.
TurnInv ==
  /\ pc \in BettingControls => \A b \in Seated : ~folded[b] /\ chips[b] = 0 => allIn[b]
  /\ pc = "act"    => SettledLast(cur, 0, MayAct, Settled)
  /\ pc = "acted"  => SettledLast(cur, 1, MayAct, Settled)
  /\ pc = "street" => round.acted = {}

\* Each seat is as many seats clockwise from i as its number says, less that of i.
LEMMA Around ==
  ASSUME players \in Seq(Bots), NEW i \in Seats, NEW j \in Seats
  PROVE  \E k \in 0 .. Len(players) - 1 : Clockwise(i, k) = j /\ (k = 0 <=> j = i)
<1> DEFINE d == IF j >= i THEN j - i ELSE j - i + Len(players)
<1>1. Len(players) \in Nat /\ Seats = 1 .. Len(players)
      BY DEF Seats
<1>2. d \in 0 .. Len(players) - 1 /\ Clockwise(i, d) = j /\ (d = 0 <=> j = i)
      BY <1>1 DEF Clockwise
<1> QED BY <1>2

\* Before the first answer of a street nobody is settled.
LEMMA NobodySettled ==
  ASSUME NEW i, NEW first, NEW acting, NEW settled, settled = {}
  PROVE  SettledLast(i, first, acting, settled)
<1>1. \A b : b \notin settled
      OBVIOUS
<1> QED BY <1>1, Zenon DEF SettledLast

\* When the bot in turn is settled, so is every bot that may act.
LEMMA AllSettled ==
  ASSUME players \in Seq(Bots), NEW i \in Seats, NEW acting, NEW settled,
         SettledLast(i, 0, acting, settled), players[i] \in acting \cap settled,
         NEW b \in Seated, b \in acting
  PROVE  b \in settled
<1>1. PICK j \in Seats : players[j] = b
      BY DEF Seated
<1>2. PICK k \in 0 .. Len(players) - 1 : Clockwise(i, k) = j /\ (k = 0 <=> j = i)
      BY <1>1, Around
<1>3. CASE k = 0
      BY <1>1, <1>2, <1>3
<1>4. CASE k # 0
  <2>1. /\ Len(players) \in Nat /\ i \in 1 .. Len(players)
        /\ 0 \in 0 .. 0 + Len(players) - 1 /\ k \in 0 .. 0 + Len(players) - 1 /\ 0 < k
        BY <1>2, <1>4 DEF Seats
  <2>2. Clockwise(i, 0) = i
        BY <2>1 DEF Clockwise
  <2> QED BY <1>1, <1>2, <2>1, <2>2 DEF SettledLast
<1> QED BY <1>3, <1>4

\* A bot acts: it is settled or out, and the others are as before, or all owe a raise.
LEMMA TurnTaken ==
  ASSUME players \in Seq(Bots), \A j, k \in Seats : players[j] = players[k] => j = k,
         NEW i \in Seats, NEW acting, NEW settled, NEW acting2, NEW settled2,
         SettledLast(i, 0, acting, settled),
         players[i] \in acting2 => players[i] \in settled2,
         \A b \in Seated : b # players[i] /\ b \in acting2 => b \in acting,
         \/ \A b \in Seated : b # players[i] => (b \in settled2 <=> b \in settled)
         \/ \A b \in Seated : b # players[i] => b \notin settled2
  PROVE  SettledLast(i, 1, acting2, settled2)
<1> DEFINE n == Len(players)
           at(k) == players[Clockwise(i, k)]
<1>1. n \in Nat /\ Seats = 1 .. n /\ i \in 1 .. n
      BY DEF Seats
<1>2. ASSUME NEW k \in 1 .. n - 1 PROVE at(k) \in Seated /\ at(k) # players[i]
  <2>1. Clockwise(i, k) \in Seats /\ Clockwise(i, k) # i
        BY <1>1, <1>2 DEF Clockwise
  <2> QED BY <2>1 DEF Seated
<1>3. Clockwise(i, n) = i
      BY <1>1 DEF Clockwise
<1>4. SUFFICES ASSUME NEW j \in 1 .. n, NEW k \in 1 .. n, j < k,
                      at(j) \in acting2 \cap settled2, at(k) \in acting2
               PROVE  at(k) \in settled2
      BY <1>1 DEF SettledLast
<1>5. CASE k = n
      BY <1>3, <1>4, <1>5
<1>6. CASE k # n
  <2>1. j \in 1 .. n - 1 /\ k \in 1 .. n - 1
        BY <1>1, <1>4, <1>6
  <2>2. /\ at(j) \in Seated /\ at(j) # players[i] /\ at(k) \in Seated /\ at(k) # players[i]
        BY <1>2, <2>1
  <2>3. at(j) \in acting /\ at(k) \in acting
        BY <1>4, <2>2
  <2>4. j \in 0 .. 0 + n - 1 /\ k \in 0 .. 0 + n - 1
        BY <1>1, <2>1
  <2>5. at(j) \in settled => at(k) \in settled
        BY <1>4, <2>3, <2>4 DEF SettledLast
  <2> HIDE DEF at
  <2> QED BY <1>4, <2>2, <2>5
<1> QED BY <1>5, <1>6

\* The turn passes to the next seat that may act, over seats that may not.
LEMMA TurnPasses ==
  ASSUME players \in Seq(Bots), players # <<>>, NEW i \in Seats, NEW acting, NEW settled,
         NEW passes, acting \subseteq passes, SettledLast(i, 1, acting, settled)
  PROVE  SettledLast(FirstSeatAfter(i, passes), 0, acting, settled)
<1> DEFINE n == Len(players)
           hits == {k \in Seats : players[Clockwise(i, k)] \in passes}
           next == FirstSeatAfter(i, passes)
<1>1. n \in Nat /\ n > 0 /\ Seats = 1 .. n /\ i \in 1 .. n
      BY DEF Seats
<1>2. PICK m \in 1 .. n : /\ next = Clockwise(i, m)
                          /\ \A k \in 1 .. m - 1 : players[Clockwise(i, k)] \notin passes
  <2>1. CASE hits = {}
    <3>1. next = Clockwise(i, 1) /\ 1 \in 1 .. n /\ \A k \in 1 .. 1 - 1 : FALSE
          BY <1>1, <2>1 DEF FirstSeatAfter
    <3> QED BY <3>1
  <2>2. CASE hits # {}
    <3> DEFINE m == CHOOSE k \in hits : \A j \in hits : k <= j
    <3>1. next = Clockwise(i, m)
          BY <2>2 DEF FirstSeatAfter
    <3>2. hits \in SUBSET Nat
          BY <1>1
    <3>3. m \in hits /\ \A j \in hits : m <= j
      <4> HIDE DEF hits
      <4>1. \E k \in hits : \A j \in hits : k <= j
            BY <2>2, <3>2, LeastExists
      <4> QED BY <4>1
    <3> HIDE DEF m, next
    <3>4. m \in 1 .. n
          BY <1>1, <3>3
    <3>5. \A k \in 1 .. m - 1 : k \notin hits /\ k \in Seats
          BY <1>1, <3>3, <3>4
    <3> QED BY <3>1, <3>4, <3>5
  <2> QED BY <2>1, <2>2
<1> HIDE DEF next, hits
<1>3. ASSUME NEW d \in 0 .. n - 1, players[Clockwise(next, d)] \in acting
      PROVE  d + m \in 1 .. n /\ Clockwise(next, d) = Clockwise(i, d + m)
  <2>1. Clockwise(next, d) = IF m + d <= n THEN Clockwise(i, m + d) ELSE Clockwise(i, m + d - n)
        BY <1>1, <1>2 DEF Clockwise
  <2>2. CASE m + d <= n
        BY <1>1, <2>1, <2>2
  <2>3. CASE ~(m + d <= n)
    <3>1. m + d - n \in 1 .. m - 1
          BY <1>1, <2>3
    <3>2. players[Clockwise(i, m + d - n)] \notin passes
          BY <1>2, <3>1
    <3> QED BY <1>3, <2>1, <2>3, <3>2
  <2> QED BY <2>2, <2>3
<1>4. SUFFICES ASSUME NEW j \in 0 .. n - 1, NEW k \in 0 .. n - 1, j < k,
                      players[Clockwise(next, j)] \in acting \cap settled,
                      players[Clockwise(next, k)] \in acting
               PROVE  players[Clockwise(next, k)] \in settled
      BY <1>1 DEF SettledLast, next
<1>5. /\ j + m \in 1 .. 1 + n - 1 /\ Clockwise(next, j) = Clockwise(i, j + m)
      /\ k + m \in 1 .. 1 + n - 1 /\ Clockwise(next, k) = Clockwise(i, k + m)
      /\ j + m < k + m
      BY <1>1, <1>3, <1>4
<1> QED BY <1>4, <1>5 DEF SettledLast

\* A bot that may act is in its seat and has chips, so that the turn does not skip it.
LEMMA TurnFinds ==
  ASSUME ChipInv, ~Live, pc \in BettingControls
  PROVE  MayAct \subseteq CanStillAct(chips, folded)
<1>1. \A b \in Seated : Disconnected(b) => folded[b]
      BY DEF ChipInv, SomebodyLeft, Undisturbed, PotControls
<1> QED BY <1>1 DEF MayAct, CanStillAct

\* What is left to show when the bot in turn has acted.
Acts(b) ==
  /\ \A c \in Bots \ {b} : /\ chips'[c] = chips[c] /\ folded'[c] = folded[c]
                           /\ allIn'[c] = allIn[c]
  /\ ~folded'[b] /\ chips'[b] = 0 => allIn'[b]
  /\ ~folded'[b] /\ ~allIn'[b] /\ chips'[b] # 0 => b \in Settled'
  /\ \/ \A c \in Bots \ {b} : c \in Settled' <=> c \in Settled
     \/ \A c \in Bots \ {b} : c \notin Settled'
  /\ players' = players

LEMMA ActedInTurn ==
  ASSUME ChipInv, TurnInv, pc = "act", Acts(Actor)
  PROVE  /\ SettledLast(cur, 1, MayAct', Settled')
         /\ \A b \in Seated : ~folded'[b] /\ chips'[b] = 0 => allIn'[b]
         /\ Seated' = Seated
<1>1. /\ players \in Seq(Bots) /\ \A j, k \in Seats : players[j] = players[k] => j = k
      /\ Seated \subseteq Bots /\ cur \in Seats
      BY SeatedAreBots DEF ChipInv, TypeInv, TypeOK, SeatsInRange
<1>2. Seated' = Seated
      BY DEF Acts, Seated, Seats
<1>3. \A b \in Seated : ~folded[b] /\ chips[b] = 0 => allIn[b]
      BY DEF TurnInv, BettingControls
<1>4. \A b \in Seated : ~folded'[b] /\ chips'[b] = 0 => allIn'[b]
      BY <1>1, <1>3 DEF Acts
<1>5. players[cur] \in MayAct' => players[cur] \in Settled'
      BY DEF MayAct, Acts, Actor
<1>6. \A b \in Seated : b # players[cur] /\ b \in MayAct' => b \in MayAct
      BY <1>1, <1>2 DEF MayAct, Acts, Actor
<1>7. \/ \A b \in Seated : b # players[cur] => (b \in Settled' <=> b \in Settled)
      \/ \A b \in Seated : b # players[cur] => b \notin Settled'
      BY <1>1 DEF Acts, Actor
<1>8. SettledLast(cur, 0, MayAct, Settled)
      BY DEF TurnInv
<1> HIDE DEF TurnInv
<1>9. SettledLast(cur, 1, MayAct', Settled')
      BY <1>1, <1>5, <1>6, <1>7, <1>8, TurnTaken
<1> QED BY <1>2, <1>4, <1>9

\* An answer without chips: the bot folds, or it matched the bet.
LEMMA AnswerActs ==
  ASSUME TypeOK, NEW b \in Bots, round' = Answered(round, b), UNCHANGED <<chips, allIn, players>>,
         \A c \in Bots \ {b} : folded'[c] = folded[c],
         folded'[b] \/ CanCheck(round, b), chips[b] = 0 => folded'[b] \/ allIn[b]
  PROVE  Acts(b)
<1>1. /\ round'.bets = round.bets /\ round'.maxBet = round.maxBet
      /\ round'.acted = round.acted \union {b} /\ round.acted \subseteq Bots
      BY DEF TypeOK, Rounds, Answered
<1>2. \A c \in Bots \ {b} : c \in Settled' <=> c \in Settled
      BY <1>1 DEF Settled
<1>3. CanCheck(round, b) => b \in Settled'
      BY <1>1 DEF Settled, CanCheck
<1> QED BY <1>2, <1>3 DEF Acts

\* A bet: the bot matches the bet to match, or it is all in.
LEMMA BetActs ==
  ASSUME TypeOK, NEW b \in Bots, b = Actor, NEW amount \in Int, PutIn(amount), players' = players,
         amount = chips[b] \/ b \in Settled',
         \/ \A c \in Bots \ {b} : c \in Settled' <=> c \in Settled
         \/ \A c \in Bots \ {b} : c \notin Settled'
  PROVE  Acts(b)
<1>1. /\ chips \in [Bots -> Int] /\ allIn \in [Bots -> BOOLEAN] /\ folded' = folded
      /\ chips' = [chips EXCEPT ![b] = chips[b] - amount]
      /\ allIn' = [allIn EXCEPT ![b] = allIn[b] \/ chips[b] = amount]
      BY DEF TypeOK, PutIn
<1>2. \A c \in Bots \ {b} : chips'[c] = chips[c] /\ allIn'[c] = allIn[c]
      BY <1>1
<1>3. /\ chips'[b] = chips[b] - amount /\ chips[b] \in Int
      /\ allIn'[b] = (allIn[b] \/ chips[b] = amount)
      BY <1>1
<1>4. chips'[b] = 0 => allIn'[b]
  <2>1. chips'[b] = 0 => chips[b] = amount
        BY <1>3
  <2> QED BY <1>3, <2>1, Zenon
<1>5. chips'[b] # 0 => b \in Settled'
      BY <1>3
<1> QED BY <1>1, <1>2, <1>4, <1>5 DEF Acts

LEMMA CallActs ==
  ASSUME TypeOK, NEW b \in Bots, b = Actor, BotCalls, players' = players
  PROVE  Acts(b)
<1> DEFINE amount == CallAmount(round, b, chips[b])
<1>1. /\ round \in Rounds /\ chips[b] \in Int /\ round.bets \in [Bots -> Int]
      /\ round.maxBet \in Int /\ round.acted \subseteq Bots /\ round.bets[b] \in Int
      BY DEF TypeOK, Rounds
<1>2. amount \in Int /\ amount = Lesser(round.maxBet - round.bets[b], chips[b])
      BY <1>1, CallAmountType DEF CallAmount, ToCall
<1>3. PutIn(amount) /\ round' = Called(round, b, chips[b])
      BY DEF BotCalls
<1>4. /\ round'.bets = [round.bets EXCEPT ![b] = round.bets[b] + amount]
      /\ round'.maxBet = round.maxBet
      BY <1>1, <1>3, CalledBets
<1>5. round'.acted = round.acted \union {b}
      BY <1>1, <1>3 DEF Called, Answered, Rounds
<1> HIDE DEF amount
<1>6. \A c \in Bots \ {b} : round'.bets[c] = round.bets[c]
      BY <1>1, <1>4
<1>7. round'.bets[b] = round.bets[b] + amount
      BY <1>1, <1>4
<1>8. amount # chips[b] => amount = round.maxBet - round.bets[b]
      BY <1>2 DEF Lesser
<1>9. amount = chips[b] \/ b \in Settled'
      BY <1>1, <1>2, <1>4, <1>5, <1>7, <1>8 DEF Settled
<1>10. \A c \in Bots \ {b} : c \in Settled' <=> c \in Settled
      BY <1>4, <1>5, <1>6 DEF Settled
<1> QED BY <1>2, <1>3, <1>9, <1>10, BetActs

LEMMA RaiseActs ==
  ASSUME TypeOK, NEW b \in Bots, b = Actor, NEW by \in Int, players' = players,
         RaiseIsValid(round, b, chips[b], by), PutIn(RaiseAdds(round, b, chips[b], by)),
         round' = Raised(round, b, chips[b], by, Seated)
  PROVE  Acts(b)
<1> DEFINE amount == RaiseAdds(round, b, chips[b], by)
           newBet == round.bets[b] + amount
<1>1. /\ round \in Rounds /\ chips[b] \in Int /\ round.bets \in [Bots -> Int]
      /\ round.maxBet \in Int /\ round.acted \subseteq Bots /\ round.bets[b] \in Int /\ by > 0
      BY DEF TypeOK, Rounds, RaiseIsValid
<1>2. /\ amount \in Int /\ newBet \in Int
      /\ amount = Lesser(round.maxBet - round.bets[b] + by, chips[b])
  <2>1. amount = Lesser(round.maxBet - round.bets[b] + by, chips[b])
        BY DEF RaiseAdds, ToCall
  <2>2. amount \in Int
        BY <1>1, RaiseType
  <2> HIDE DEF amount
  <2> QED BY <1>1, <2>1, <2>2
<1>3. CASE newBet - round.maxBet <= 0
  <2>1. round' = [round EXCEPT !.bets[b] = newBet]
        BY <1>3 DEF Raised
  <2> HIDE DEF newBet
  <2>2. /\ round'.bets = [round.bets EXCEPT ![b] = newBet]
        /\ round'.maxBet = round.maxBet /\ round'.acted = round.acted
        BY <1>1, <2>1 DEF Rounds
  <2>3. \A c \in Bots \ {b} : round'.bets[c] = round.bets[c]
        BY <1>1, <2>2
  <2>4. \A c \in Bots \ {b} : c \in Settled' <=> c \in Settled
        BY <2>2, <2>3 DEF Settled
  <2>5. amount = chips[b]
        BY <1>1, <1>2, <1>3 DEF Lesser, newBet
  <2> HIDE DEF amount
  <2>6. PutIn(amount)
        BY DEF amount
  <2> QED BY <1>2, <2>4, <2>5, <2>6, BetActs
<1>4. CASE ~(newBet - round.maxBet <= 0)
  <2>1. /\ round'.bets = [round.bets EXCEPT ![b] = newBet]
        /\ round'.maxBet = newBet /\ round'.acted = {b}
        BY <1>4 DEF Raised
  <2> HIDE DEF newBet
  <2>2. round'.bets[b] = newBet
        BY <1>1, <2>1
  <2>3. b \in Settled' /\ \A c \in Bots \ {b} : c \notin Settled'
        BY <1>2, <2>1, <2>2 DEF Settled
  <2> HIDE DEF amount
  <2>4. PutIn(amount)
        BY DEF amount
  <2> QED BY <1>2, <2>3, <2>4, BetActs
<1> QED BY <1>3, <1>4

\* The steps of bettingRoundLoop keep the order of the answers.
LEMMA BettingInTurn ==
  ASSUME ChipInv, ~Live, TurnInv, BotToAct, BotActs
  PROVE  TurnInv'
<1> USE DEF seatVars
<1> DEFINE b == Actor
<1>1. /\ pc = "act" /\ b \in Bots /\ ~folded[b] /\ ~allIn[b] /\ TypeOK
      /\ b \in Seated /\ chips[b] \in Int
      BY Bettors DEF BotToAct, ChipInv, TypeInv
<1>2. chips[b] = 0 => allIn[b]
      BY <1>1 DEF TurnInv, BettingControls
<1>3. /\ round \in Rounds /\ folded \in [Bots -> BOOLEAN]
      BY <1>1 DEF TypeOK
<1>4. pc' = "acted" /\ cur' = cur /\ players' = players
      BY DEF BotActs, BotChecksOrFolds, BotCalls, BotRaises, StrategyFails, ActionApplied
<1>5. ASSUME BotChecksOrFolds \/ StrategyFails PROVE Acts(b)
  <2>1. CheckOrFold
        BY <1>5 DEF BotChecksOrFolds, StrategyFails
  <2>2. /\ folded' = [folded EXCEPT ![b] = ~CanCheck(round, b)]
        /\ round' = Answered(round, b) /\ UNCHANGED <<chips, allIn>>
        BY <2>1 DEF CheckOrFold
  <2>3. /\ folded'[b] = ~CanCheck(round, b)
        /\ \A c \in Bots \ {b} : folded'[c] = folded[c]
        BY <1>1, <1>3, <2>2, Zenon
  <2> HIDE DEF b
  <2>4. (folded'[b] \/ CanCheck(round, b)) /\ (chips[b] = 0 => folded'[b] \/ allIn[b])
        BY <1>2, <2>3, Zenon
  <2> QED BY <1>1, <1>4, <2>2, <2>3, <2>4, AnswerActs
<1>6. ASSUME BotCalls PROVE Acts(b)
      BY <1>1, <1>4, <1>6, CallActs
<1>7. ASSUME NEW n \in RaiseAmounts, BotRaises(n) PROVE Acts(b)
  <2> DEFINE by == NormalizedRaise(round, b, chips[b], n)
  <2>1. by \in Int
    <3>1. CallAmount(round, b, chips[b]) \in Int /\ round.lastDelta \in Int
          BY <1>1, <1>3, CallAmountType DEF Rounds
    <3>2. n \in Int
          BY <1>1, <1>7, <3>1 DEF RaiseAmounts
    <3> QED BY <1>1, <1>3, <3>2, RaiseType
  <2>2. \/ /\ RaiseIsValid(round, b, chips[b], by)
           /\ PutIn(RaiseAdds(round, b, chips[b], by))
           /\ round' = Raised(round, b, chips[b], by, Seated)
        \/ /\ folded' = [folded EXCEPT ![b] = TRUE] /\ round' = Answered(round, b)
           /\ UNCHANGED <<chips, allIn>>
        BY <1>7 DEF BotRaises
  <2> HIDE DEF by
  <2>3. CASE /\ RaiseIsValid(round, b, chips[b], by)
             /\ PutIn(RaiseAdds(round, b, chips[b], by))
             /\ round' = Raised(round, b, chips[b], by, Seated)
        BY <1>1, <1>4, <2>1, <2>3, RaiseActs
  <2>4. CASE /\ folded' = [folded EXCEPT ![b] = TRUE] /\ round' = Answered(round, b)
             /\ UNCHANGED <<chips, allIn>>
    <3>1. folded'[b] /\ \A c \in Bots \ {b} : folded'[c] = folded[c]
          BY <1>1, <1>3, <2>4, Zenon
    <3> HIDE DEF b
    <3> QED BY <1>1, <1>4, <2>4, <3>1, AnswerActs
  <2> QED BY <2>2, <2>3, <2>4
<1>8. Acts(Actor)
      BY <1>5, <1>6, <1>7 DEF BotActs
<1>9. /\ SettledLast(cur, 1, MayAct', Settled')
      /\ \A c \in Seated : ~folded'[c] /\ chips'[c] = 0 => allIn'[c]
      /\ Seated' = Seated
      BY <1>1, <1>8, ActedInTurn
<1>10. SettledLast(cur, 1, MayAct, Settled)'
      BY <1>4, <1>9 DEF SettledLast, Clockwise
<1> QED BY <1>4, <1>9, <1>10 DEF TurnInv

\* A step of the loop that has no await: the seat in turn is not asked, and the turn
\* passes at once.
LEMMA PassedInTurn ==
  ASSUME ChipInv, ChipInv', ~Live, TurnInv, SkipSeat \/ GhostActs
  PROVE  TurnInv'
<1> USE DEF seatVars, playerVars
<1> DEFINE b == Actor
<1>1. /\ pc = "act" /\ pc' = "act" /\ b \in Bots /\ TypeOK /\ b \in Seated
      /\ players' = players /\ chips' = chips /\ allIn' = allIn /\ seatStatus' = seatStatus
      BY Bettors DEF SkipSeat, GhostActs, ChipInv, TypeInv
<1>2. /\ folded \in [Bots -> BOOLEAN] /\ round \in Rounds
      BY <1>1 DEF TypeOK
<1>3. chips[b] = 0 => folded[b] \/ allIn[b]
      BY <1>1, Zenon DEF TurnInv, BettingControls
<1>4. ASSUME GhostActs PROVE Acts(b)
  <2>1. /\ folded' = [folded EXCEPT ![b] = ~CanCheck(round, b)]
        /\ round' = Answered(round, b) /\ ~folded[b]
        BY <1>4 DEF GhostActs
  <2>2. /\ folded'[b] = ~CanCheck(round, b)
        /\ \A c \in Bots \ {b} : folded'[c] = folded[c]
        BY <1>1, <1>2, <2>1, Zenon
  <2> HIDE DEF b
  <2>3. (folded'[b] \/ CanCheck(round, b)) /\ (chips[b] = 0 => folded'[b] \/ allIn[b])
        BY <1>3, <2>1, <2>2, Zenon
  <2> QED BY <1>1, <2>1, <2>2, <2>3, AnswerActs
<1>5. ASSUME SkipSeat PROVE Acts(b)
  <2>1. (folded[b] \/ allIn[b]) /\ folded' = folded /\ round' = round
        BY <1>5 DEF SkipSeat
  <2>2. \A c \in Bots \ {b} : c \in Settled' <=> c \in Settled
        BY <2>1 DEF Settled
  <2>3. ~folded'[b] /\ ~allIn'[b] => FALSE
        BY <1>1, <2>1
  <2> HIDE DEF b
  <2>4. chips'[b] = 0 /\ ~folded'[b] => allIn'[b]
        BY <1>1, <1>3, <2>1
  <2> QED BY <1>1, <2>1, <2>2, <2>3, <2>4 DEF Acts
<1>6. Acts(Actor)
      BY <1>4, <1>5
<1>7. /\ SettledLast(cur, 1, MayAct', Settled')
      /\ \A c \in Seated : ~folded'[c] /\ chips'[c] = 0 => allIn'[c]
      /\ Seated' = Seated
      BY <1>1, <1>6, ActedInTurn
<1>8. cur' = FirstSeatAfter(cur, CanStillAct(chips', folded'))
      BY <1>1 DEF SkipSeat, GhostActs, MoveOn
<1>9. MayAct' \subseteq CanStillAct(chips, folded)'
  <2>1. \A c \in Seated' : Disconnected(c)' => folded'[c]
        BY <1>1 DEF ChipInv, SomebodyLeft, Undisturbed, PotControls, BettingControls
  <2> QED BY <2>1 DEF MayAct, CanStillAct
<1>10. CanStillAct(chips, folded)' = CanStillAct(chips', folded')
      BY <1>1, <1>7 DEF CanStillAct, Disconnected
<1>11. SettledLast(cur', 0, MayAct', Settled')
  <2>1. players \in Seq(Bots) /\ cur \in Seats /\ players # <<>>
        BY <1>1 DEF TypeOK, ChipInv, TypeInv, SeatsInRange
  <2> QED BY <1>7, <1>8, <1>9, <1>10, <2>1, TurnPasses
<1>12. SettledLast(cur, 0, MayAct, Settled)'
      BY <1>1, <1>11 DEF SettledLast, Clockwise
<1> QED BY <1>1, <1>7, <1>12 DEF TurnInv

LEMMA NextTurnInTurn ==
  ASSUME ChipInv, ~Live, TurnInv, NextTurn
  PROVE  TurnInv'
<1> USE DEF seatVars, playerVars
<1>1. /\ pc = "acted" /\ pc' = "act" /\ cur' = NextActive(cur)
      /\ UNCHANGED <<players, chips, folded, allIn, round>>
      BY DEF NextTurn
<1>2. Seated' = Seated
      BY <1>1 DEF Seated, Seats
<1>3. MayAct' = MayAct /\ Settled' = Settled
      BY <1>1, <1>2 DEF MayAct, Settled
<1>4. SettledLast(cur', 0, MayAct, Settled)
  <2>1. players \in Seq(Bots) /\ cur \in Seats /\ players # <<>>
        BY <1>1 DEF ChipInv, TypeInv, TypeOK, SeatsInRange
  <2>2. SettledLast(cur, 1, MayAct, Settled) /\ MayAct \subseteq CanStillAct(chips, folded)
        BY <1>1, TurnFinds DEF TurnInv, BettingControls
  <2> QED BY <1>1, <2>1, <2>2, TurnPasses DEF NextActive
<1>5. SettledLast(cur, 0, MayAct, Settled)'
      BY <1>1, <1>3, <1>4 DEF SettledLast, Clockwise
<1>6. \A b \in Seated' : ~folded'[b] /\ chips'[b] = 0 => allIn'[b]
      BY <1>1, <1>2 DEF TurnInv, BettingControls
<1> QED BY <1>1, <1>5, <1>6 DEF TurnInv

LEMMA StreetsInTurn ==
  ASSUME TurnInv, NextStreet \/ BeginStreet
  PROVE  TurnInv'
<1> USE DEF seatVars, playerVars
<1>1. /\ pc \in BettingControls /\ UNCHANGED <<players, chips, folded, allIn>>
      BY DEF NextStreet, BeginStreet, RoundOver, BettingControls
<1>2. Seated' = Seated
      BY <1>1 DEF Seated, Seats
<1>3. \A b \in Seated' : ~folded'[b] /\ chips'[b] = 0 => allIn'[b]
      BY <1>1, <1>2 DEF TurnInv
<1>4. CASE NextStreet
  <2>1. pc' = "street" /\ round'.acted = {}
        BY <1>4 DEF NextStreet, CloseRound, NewRound
  <2> QED BY <1>3, <2>1 DEF TurnInv
<1>5. CASE BeginStreet
  <2>1. pc' = "act" /\ round'.acted = {}
        BY <1>5 DEF BeginStreet, TurnInv
  <2>2. Settled' = {}
        BY <2>1 DEF Settled
  <2>3. SettledLast(cur', 0, MayAct', Settled')
        BY <2>2, NobodySettled
  <2>4. SettledLast(cur, 0, MayAct, Settled)'
        BY <1>1, <2>3 DEF SettledLast, Clockwise
  <2> QED BY <1>3, <2>1, <2>4 DEF TurnInv
<1> QED BY <1>4, <1>5

\* A hand begins with nobody's answer; a bot that the blinds took all of is all in.
LEMMA BeginHandInTurn ==
  ASSUME ChipInv, BeginHand
  PROVE  TurnInv'
<1> USE DEF seatVars
<1>1. pc' = "act" /\ round'.acted = {} /\ players' = players
      BY DEF BeginHand, NewRound
<1>2. Settled' = {} /\ Seated' = Seated
      BY <1>1 DEF Settled, Seated, Seats
<1>3. SettledLast(cur', 0, MayAct', Settled')
      BY <1>2, NobodySettled
<1>5. SettledLast(cur, 0, MayAct, Settled)'
      BY <1>1, <1>3 DEF SettledLast, Clockwise
<1>4. \A b \in Seated' : ~folded'[b] /\ chips'[b] = 0 => allIn'[b]
  <2> DEFINE out == [b \in Bots |-> chips[b] = 0 \/ Disconnected(b)]
             ante == [b \in Bots |-> IF b \in Seated /\ ~out[b]
                                     THEN Lesser(chips[b], Ante) ELSE 0]
             afterAnte == [b \in Bots |-> chips[b] - ante[b]]
             dealt == {b \in Seated : ~out[b]}
             next(i) == FirstSeatAfter(i, CanStillAct(afterAnte, out))
             sbSeat == IF Cardinality(dealt) = 2 THEN dealerIndex ELSE next(dealerIndex)
             bbSeat == next(sbSeat)
             sb == players[sbSeat]
             bb == players[bbSeat]
             sbAmt == Lesser(afterAnte[sb], SmallBlind)
             bbAmt == Lesser(afterAnte[bb], BigBlind)
             blind == [b \in Bots |-> (IF b = sb THEN sbAmt ELSE 0)
                                        + (IF b = bb THEN bbAmt ELSE 0)]
             stacks == [b \in Bots |-> afterAnte[b] - blind[b]]
  <2>1. /\ folded' = out /\ chips' = stacks
        /\ allIn' = [b \in Bots |-> \/ b \in dealt \union {sb, bb} /\ stacks[b] = 0
                                    \/ b = sb /\ afterAnte[b] = sbAmt]
        BY DEF BeginHand
  <2>2. Seated \subseteq Bots
        BY SeatedAreBots DEF ChipInv, TypeInv
  <2>3. \A b \in Bots : b \in dealt /\ chips'[b] = 0 => allIn'[b]
    <3> HIDE DEF dealt, stacks, sb, bb, afterAnte, sbAmt
    <3> QED BY <2>1
  <2> QED BY <1>2, <2>1, <2>2, <2>3
<1> QED BY <1>1, <1>4, <1>5 DEF TurnInv

\* The other steps leave the betting, or find the table outside of a hand.
LEMMA OthersInTurn ==
  ASSUME ChipInv, ~Live, TurnInv,
         \/ FinishGame \/ AwardPot \/ AwardPotThrows \/ Showdown \/ SettlePot \/ Distribute
         \/ PotAwarded \/ Drain \/ CheckChips \/ GameFails \/ AdvanceDealer
         \/ StartGame \/ Callers \/ UNCHANGED vars
  PROVE  TurnInv'
<1> USE DEF seatVars, playerVars, handVars, potVars, gameVars
<1>1. CASE UNCHANGED vars
      BY <1>1 DEF vars, TurnInv, MayAct, Settled, SettledLast, Clockwise, Seated, Seats
<1>2. CASE Callers \/ Drain
  <2>1. pc \notin BettingControls /\ pc' = pc
        BY <1>2 DEF Callers, AddPlayer, RemovePlayer, ReactivatePlayer, AtAwait, Drain, DrainPoints,
                    BettingControls
  <2> QED BY <2>1 DEF TurnInv, BettingControls
<1>3. CASE StartGame
  <2>1. pc' \notin BettingControls
        BY <1>3 DEF StartGame, AtAwait, BettingControls
  <2> QED BY <2>1 DEF TurnInv, BettingControls
<1>4. CASE \/ FinishGame \/ AwardPot \/ AwardPotThrows \/ Showdown \/ SettlePot \/ Distribute
           \/ PotAwarded \/ CheckChips \/ GameFails \/ AdvanceDealer
  <2>1. pc' \notin BettingControls
        BY <1>4 DEF FinishGame, AwardPot, AwardPotThrows, Showdown, SettlePot, Distribute,
                    PotAwarded, HandOver, CheckChips, GameFails, AdvanceDealer, BettingControls
  <2> QED BY <2>1 DEF TurnInv, BettingControls
<1> QED BY <1>1, <1>2, <1>3, <1>4

\* No bot is asked that has answered the bet and matched it: then all others had, too.
LEMMA AskedWhenOwed ==
  ASSUME ChipInv, TurnInv, BotToAct
  PROVE  Actor \notin round.acted \/ ~CanCheck(round, Actor)
<1> SUFFICES ASSUME Actor \in round.acted, CanCheck(round, Actor) PROVE FALSE
    OBVIOUS
<1>1. /\ pc = "act" /\ Actor \in Seated /\ ~folded[Actor] /\ ~allIn[Actor] /\ Iterating
      BY Bettors DEF BotToAct
<1>2. Actor \in MayAct /\ Actor \in Settled
      BY <1>1 DEF TurnInv, BettingControls, MayAct, Settled, CanCheck
<1>3. players \in Seq(Bots) /\ cur \in Seats /\ Actor = players[cur]
      BY <1>1 DEF ChipInv, TypeInv, TypeOK, SeatsInRange, Actor
<1>4. \A b \in Seated : b \in MayAct => b \in Settled
      BY <1>1, <1>2, <1>3, AllSettled DEF TurnInv
<1>5. PICK b \in Seated : ~folded[b] /\ ~allIn[b] /\ chips[b] > 0
                          /\ ~(b \in round.acted /\ round.bets[b] >= round.maxBet)
      BY <1>1 DEF Iterating, RoundComplete, BettingComplete
<1>6. chips[b] # 0
  <2>1. chips[b] \in Int
        BY <1>5, SeatedAreBots DEF ChipInv, TypeInv, TypeOK
  <2> QED BY <1>5, <2>1
<1> QED BY <1>4, <1>5, <1>6 DEF MayAct, Settled

\* A simulated table asks a bot only for an answer it owes, whoever raised, went all in for
\* less or was skipped: the turn goes round by nextActiveIndex and the street ends by
\* isBettingComplete, and the two agree. In a live table they need not, since a bot that
\* was removed in mid-hand is skipped and still waited for.
THEOREM AskedOnlyWhenOwed ==
  ASSUME ~Live
  PROVE  Spec => ActsOnlyWhenOwed
<1> DEFINE Inv == ChipInv /\ TurnInv
<1>1. Init => Inv
  <2> SUFFICES ASSUME Init PROVE Inv
      OBVIOUS
  <2>1. TurnInv
        BY DEF Init, TurnInv, BettingControls
  <2> QED BY <2>1, ChipInvInit
<1>2. Inv /\ [Next]_vars => Inv'
  <2> SUFFICES ASSUME Inv, [Next]_vars PROVE Inv'
      OBVIOUS
  <2>1. ChipInv'
        BY SimulatedSteps, LiveNextKeepsChips
  <2>2. TurnInv'
        BY <2>1, BettingInTurn, PassedInTurn, NextTurnInTurn, StreetsInTurn, BeginHandInTurn,
           OthersInTurn DEF Next, Loop, Hand
  <2> QED BY <2>1, <2>2
<1>3. Inv /\ [Next]_vars => [pc = "act" /\ pc' = "acted" =>
                               Actor \notin round.acted \/ ~CanCheck(round, Actor)]_vars
  <2> SUFFICES ASSUME Inv, Next, pc = "act", pc' = "acted"
               PROVE  Actor \notin round.acted \/ ~CanCheck(round, Actor)
      OBVIOUS
  <2>1. BotToAct
        BY DEF Next, Loop, Hand, FinishGame, BeginHand, SkipSeat, GhostActs, NextTurn, NextStreet,
               BeginStreet, AwardPot, AwardPotThrows, Showdown, SettlePot, Distribute, PotAwarded,
               HandOver, Drain, DrainPoints, CheckChips, GameFails, AdvanceDealer, StartGame,
               Callers, AddPlayer, RemovePlayer, ReactivatePlayer, gameVars
  <2> QED BY <2>1, AskedWhenOwed
<1> QED BY <1>1, <1>2, <1>3, PTL DEF Spec, ActsOnlyWhenOwed
=============================================================================
