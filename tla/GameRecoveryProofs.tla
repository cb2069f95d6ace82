------------------------- MODULE GameRecoveryProofs --------------------------
(***************************************************************************)
(* Theorems about GameRecovery, for any bots, any stacks, any number of      *)
(* games, loops, commands in flight and faults: a table has one game that    *)
(* runs, recovery keeps the chips, and a game that has finished stays so.    *)
(***************************************************************************)
EXTENDS GameRecovery, SumLemmas, SequenceTheorems

-----------------------------------------------------------------------------
(* The inductive invariants *)

\* The chips of a game or of a snapshot of it, while nobody has left.
Whole(s) == s.left = {} => InPlay(s) = Total

\* A game has all its chips; between hands they are all in the stacks, which is
\* where the blind of the next is taken.
GameOK(g) ==
  /\ Whole(g)
  /\ g.left = {} => g.expected = Total
  /\ g.at = "top" => g.bets = Zero

\* So has every copy of it that a recovery may start from.
CopiesOK ==
  /\ \A g \in GameIds : hot[g] # None => Whole(hot[g])
  /\ \A i \in 1 .. Len(wire) : wire[i].op = "set" => Whole(wire[i].snap)
  /\ boot = None \/ \A s \in boot : Whole(s)

ChipsInv == CopiesOK /\ \A l \in Alive : GameOK(loop[l])

\* Nothing has happened that may bring a finished game back.
Calm == faults \intersect {"crash", "lost", "stall"} = {}

IsSet(c, g) == c.op = "set" /\ c.snap.game = g
IsGet(c, g) == c.op = "get" /\ c.game = g
IsDel(c, g) == c.op = "del" /\ c.game = g

\* A game has one loop, or one request for its snapshot, and is known as played.
OneOfEach ==
  /\ \A l \in Alive : loop[l].game \in played
  /\ \A l, k \in Alive : loop[l].game = loop[k].game => l = k
  /\ \A l \in Alive : \A i \in 1 .. Len(wire) : ~IsGet(wire[i], loop[l].game)
  /\ \A i, k \in 1 .. Len(wire) :
       \A g \in GameIds : IsGet(wire[i], g) /\ IsGet(wire[k], g) => i = k
  /\ \A i \in 1 .. Len(wire) : wire[i].op = "get" => wire[i].game \in played

\* The snapshot of g is gone and none is on its way.
Gone(g) == hot[g] = None /\ \A i \in 1 .. Len(wire) : ~IsSet(wire[i], g)

\* Its deletion is on its way: before it nobody asks, after it nobody writes.
Going(g) ==
  \E d \in 1 .. Len(wire) :
    /\ IsDel(wire[d], g)
    /\ \A i \in 1 .. Len(wire) : /\ IsGet(wire[i], g) => i > d
                                 /\ IsSet(wire[i], g) => i < d

\* Nobody plays a finished game, or finds a snapshot of it.
FinishedIsOver ==
  /\ finished \subseteq played
  /\ \A l \in Alive : loop[l].game \in finished => loop[l].at = "finished"
  /\ \A g \in finished : Gone(g) \/ Going(g)

\* The invariant behind FinishedStaysFinished.
FinishedInv ==
  /\ \A g \in GameIds : hot[g] # None => hot[g].game = g
  /\ boot # {} => "crash" \in faults
  /\ Calm => OneOfEach /\ FinishedIsOver

-----------------------------------------------------------------------------
(* Types *)

LEMMA InitTyped == Init => TypeOK
<1> SUFFICES ASSUME Init PROVE TypeOK
    OBVIOUS
<1>1. wire \in Seq(Commands) /\ Len(wire) <= MaxWire
      BY BoundsAssumption DEF Init
<1>2. loop \in [Loops -> Instances \cup {None}] /\ Alive = {}
      BY DEF Init, Alive
<1> QED BY <1>1, <1>2 DEF Init, TypeOK

\* What is alive is a game, and a new loop takes the place of none.
LEMMA AliveIsInstance ==
  ASSUME TypeOK, NEW l \in Alive
  PROVE  l \in Loops /\ loop[l] \in Instances /\ loop[l].pending \subseteq loop[l].left
BY DEF TypeOK, Alive

LEMMA NewLoopIsFree ==
  ASSUME Alive # Loops
  PROVE  NewLoop \in Loops /\ NewLoop \notin Alive
<1>1. \E l \in Loops : l \notin Alive
      BY DEF Alive
<1> QED BY <1>1 DEF NewLoop

\* The registry after one loop was given a new value: a game, or none.
LEMMA LoopsTyped ==
  ASSUME TypeOK, NEW l \in Loops, NEW g \in Instances \cup {None},
         g # None => g.pending \subseteq g.left,
         loop' = [loop EXCEPT ![l] = g]
  PROVE  /\ loop' \in [Loops -> Instances \cup {None}]
         /\ \A k \in Alive' : loop'[k].pending \subseteq loop'[k].left
         /\ Alive' = IF g = None THEN Alive \ {l} ELSE Alive \cup {l}
         /\ \A k \in Loops : loop'[k] = IF k = l THEN g ELSE loop[k]
<1>1. loop' \in [Loops -> Instances \cup {None}]
      BY DEF TypeOK
<1>2. \A k \in Loops : loop'[k] = IF k = l THEN g ELSE loop[k]
      BY DEF TypeOK
<1>3. Alive' = IF g = None THEN Alive \ {l} ELSE Alive \cup {l}
      BY <1>2 DEF Alive
<1>4. \A k \in Alive' : loop'[k].pending \subseteq loop'[k].left
      BY <1>2 DEF TypeOK, Alive
<1> QED BY <1>1, <1>2, <1>3, <1>4

\* A command joins the queue.
LEMMA Issued ==
  ASSUME wire \in Seq(Commands), NEW c \in Commands, Issue(c)
  PROVE  /\ wire' \in Seq(Commands) /\ Len(wire') <= MaxWire
         /\ Len(wire) \in Nat /\ Len(wire') = Len(wire) + 1
         /\ \A i \in 1 .. Len(wire) : wire'[i] = wire[i]
         /\ wire'[Len(wire')] = c
BY BoundsAssumption DEF Issue

\* The first command leaves it.
LEMMA Served ==
  ASSUME wire \in Seq(Commands), wire # <<>>, wire' = Tail(wire)
  PROVE  /\ wire' \in Seq(Commands)
         /\ Len(wire) \in Nat \ {0} /\ Len(wire') = Len(wire) - 1
         /\ \A i \in 1 .. Len(wire') : wire'[i] = wire[i + 1]
         /\ Head(wire) = wire[1] /\ Head(wire) \in Commands
<1>1. Len(wire) \in Nat \ {0}
      OBVIOUS
<1>2. \A i \in 1 .. Len(wire') : wire'[i] = wire[i + 1]
      OBVIOUS
<1> QED BY <1>1, <1>2

-----------------------------------------------------------------------------
(* What the steps of a game do to it *)

\* The game of loop l goes on as g.
Moves(l, g) ==
  /\ g \in Instances /\ g.pending \subseteq g.left /\ GameOK(g)
  /\ g.game = loop[l].game /\ (g.running => loop[l].running)
  /\ loop' = [loop EXCEPT ![l] = g]

\* Nobody tells it to stop, and it is in error only when it is left so.
Goes(l, g) ==
  g.at = "error" \/ (loop[l].at # "error" /\ g.running = loop[l].running)

\* The loop of l is over.
Drops(l) == loop' = [loop EXCEPT ![l] = None]

LEMMA GameTypes ==
  ASSUME NEW g \in Instances
  PROVE  /\ g.game \in GameIds /\ g.chips \in [Bots -> Nat] /\ g.bets \in [Bots -> Nat]
         /\ g.chips \in [Bots -> Int] /\ g.bets \in [Bots -> Int]
         /\ g.left \in SUBSET Bots /\ g.pending \in SUBSET Bots
         /\ g.expected \in Int /\ g.at \in {"top", "hand", "error", "finished"}
         /\ g.running \in BOOLEAN
         /\ SumFunction(g.chips) \in Nat /\ SumFunction(g.bets) \in Nat
<1>1. /\ g.game \in GameIds /\ g.chips \in [Bots -> Nat] /\ g.bets \in [Bots -> Nat]
      /\ g.left \in SUBSET Bots /\ g.pending \in SUBSET Bots
      /\ g.expected \in Int /\ g.at \in {"top", "hand", "error", "finished"}
      /\ g.running \in BOOLEAN
      BY DEF Instances
<1>2. g.chips \in [Bots -> Int] /\ g.bets \in [Bots -> Int]
      BY <1>1
<1>3. SumFunction(g.chips) \in Nat /\ SumFunction(g.bets) \in Nat
      BY <1>1, SumIsNat, BuyInAssumption
<1> QED BY <1>1, <1>2, <1>3

\* What moves from a stack to the pot is still in play.
LEMMA PutsIn ==
  ASSUME NEW g \in Instances, NEW b \in Bots, NEW n \in Nat, n <= g.chips[b],
         NEW h, h = PutIn(g, b, n)
  PROVE  /\ h \in Instances /\ InPlay(h) = InPlay(g)
         /\ h.left = g.left /\ h.pending = g.pending /\ h.expected = g.expected
         /\ h.game = g.game /\ h.running = g.running /\ h.at = g.at
<1> DEFINE u == g.chips[b] - n
           v == g.bets[b] + n
           chips == [g.chips EXCEPT ![b] = u]
           bets  == [g.bets EXCEPT ![b] = v]
<1>1. u \in Nat /\ v \in Nat /\ u = g.chips[b] - n /\ v = g.bets[b] + n
      BY GameTypes
<1>2. h.chips = chips /\ h.bets = bets
      BY DEF PutIn, Instances
<1>3. /\ h.left = g.left /\ h.pending = g.pending /\ h.expected = g.expected
      /\ h.game = g.game /\ h.running = g.running /\ h.at = g.at
      BY DEF PutIn, Instances
<1> HIDE DEF u, v
<1>4. chips \in [Bots -> Nat] /\ bets \in [Bots -> Nat]
      BY <1>1, GameTypes
<1>5. h \in Instances
  <2>1. h = [g EXCEPT !.chips = chips, !.bets = bets]
        BY <1>1 DEF PutIn, Instances
  <2> HIDE DEF chips, bets
  <2> QED BY <1>4, <2>1 DEF Instances
<1>6. SumFunction(chips) = SumFunction(g.chips) + (u - g.chips[b])
      BY <1>1, GameTypes, SumUpdate, BuyInAssumption
<1>7. SumFunction(bets) = SumFunction(g.bets) + (v - g.bets[b])
      BY <1>1, GameTypes, SumUpdate, BuyInAssumption
<1> HIDE DEF chips, bets
<1>8. g.chips[b] \in Int /\ g.bets[b] \in Int
      BY GameTypes
<1>9. SumFunction(g.chips) \in Int /\ SumFunction(g.bets) \in Int
      BY GameTypes
<1> QED BY <1>1, <1>2, <1>3, <1>5, <1>6, <1>7, <1>8, <1>9 DEF InPlay

LEMMA ZeroSums == Zero \in [Bots -> Nat] /\ SumFunction(Zero) = 0 /\ Total \in Nat
<1>1. SumFunction(Zero) = 0
      BY SumOfZero, BuyInAssumption DEF Zero
<1>2. BuyIn \in [Bots -> Nat]
      BY BuyInAssumption
<1>3. Total \in Nat
      BY <1>2, SumIsNat, BuyInAssumption DEF Total
<1> QED BY <1>1, <1>3 DEF Zero

\* A hand begins: the blind is the only chip of the pot.
LEMMA BeginHandMoves ==
  ASSUME TypeOK, ChipsInv, NEW l \in Loops, BeginHand(l)
  PROVE  \E g : Moves(l, g) /\ Goes(l, g) /\ g.at = "hand" /\ loop[l].at = "top" /\ l \in Alive
<1>1. l \in Alive /\ loop[l].at = "top" /\ loop[l] \in Instances /\ GameOK(loop[l])
      BY DEF BeginHand, AtTop, ChipsInv, TypeOK, Alive
<1>2. PICK b \in Playable(loop[l]) :
         loop' = [loop EXCEPT ![l] = [PutIn(@, b, 1) EXCEPT !.at = "hand"]]
      BY DEF BeginHand
<1> DEFINE h == PutIn(loop[l], b, 1)
           g == [h EXCEPT !.at = "hand"]
<1>3. b \in Bots /\ 1 <= loop[l].chips[b]
      BY <1>1, <1>2, GameTypes DEF Playable
<1>4. loop' = [loop EXCEPT ![l] = g]
      BY <1>1, <1>2, AliveIsInstance DEF TypeOK
<1>5. /\ h \in Instances /\ InPlay(h) = InPlay(loop[l])
      /\ h.left = loop[l].left /\ h.pending = loop[l].pending
      /\ h.expected = loop[l].expected
      /\ h.game = loop[l].game /\ h.running = loop[l].running
      BY <1>1, <1>3, PutsIn
<1> HIDE DEF h
<1>6. /\ g \in Instances /\ g.chips = h.chips /\ g.bets = h.bets
      /\ g.left = h.left /\ g.pending = h.pending /\ g.expected = h.expected
      /\ g.game = h.game /\ g.running = h.running /\ g.at = "hand"
      BY <1>5 DEF Instances
<1> HIDE DEF g
<1>7. GameOK(g)
      BY <1>1, <1>5, <1>6 DEF GameOK, Whole, InPlay
<1>8. g.pending \subseteq g.left
      BY <1>1, <1>5, <1>6, AliveIsInstance
<1> QED BY <1>1, <1>4, <1>5, <1>6, <1>7, <1>8 DEF Moves, Goes

\* A game finishes, or a bot acts.
LEMMA FinishGameMoves ==
  ASSUME TypeOK, ChipsInv, NEW l \in Loops, FinishGame(l)
  PROVE  \E g : /\ Moves(l, g) /\ Goes(l, g) /\ g.at = "finished" /\ l \in Alive
                /\ loop[l].at = "top" /\ loop[l].running
<1>1. /\ l \in Alive /\ loop[l].at = "top" /\ loop[l].running
      /\ loop[l] \in Instances /\ GameOK(loop[l])
      BY AliveIsInstance DEF FinishGame, AtTop, ChipsInv
<1> DEFINE g == [loop[l] EXCEPT !.at = "finished"]
<1>2. loop' = [loop EXCEPT ![l] = g]
      BY <1>1 DEF FinishGame, TypeOK
<1>3. /\ g \in Instances /\ g.chips = loop[l].chips /\ g.bets = loop[l].bets
      /\ g.left = loop[l].left /\ g.pending = loop[l].pending
      /\ g.expected = loop[l].expected /\ g.game = loop[l].game
      /\ g.running = loop[l].running /\ g.at = "finished"
      BY <1>1 DEF Instances
<1> HIDE DEF g
<1>4. GameOK(g)
      BY <1>1, <1>3 DEF GameOK, Whole, InPlay
<1>5. g.pending \subseteq g.left
      BY <1>1, <1>3, AliveIsInstance
<1> QED BY <1>1, <1>2, <1>3, <1>4, <1>5 DEF Moves, Goes

LEMMA ActMoves ==
  ASSUME TypeOK, ChipsInv, NEW l \in Loops, NEW b \in Bots, NEW n \in {0, 1}, Act(l, b, n)
  PROVE  \E g : /\ Moves(l, g) /\ Goes(l, g) /\ g.at = "hand"
                /\ l \in Alive /\ loop[l].at = "hand"
                /\ Issue([op |-> "set", snap |-> Snapshot(g)])
<1>1. /\ l \in Alive /\ loop[l].at = "hand" /\ loop[l] \in Instances /\ GameOK(loop[l])
      /\ n <= loop[l].chips[b] /\ n \in Nat
      BY AliveIsInstance DEF Act, ChipsInv
<1> DEFINE g == PutIn(loop[l], b, n)
<1>2. loop' = [loop EXCEPT ![l] = g] /\ Issue([op |-> "set", snap |-> Snapshot(g)])
      BY DEF Act
<1>3. /\ g \in Instances /\ InPlay(g) = InPlay(loop[l])
      /\ g.left = loop[l].left /\ g.pending = loop[l].pending
      /\ g.expected = loop[l].expected
      /\ g.game = loop[l].game /\ g.running = loop[l].running /\ g.at = loop[l].at
      BY <1>1, PutsIn
<1> HIDE DEF g
<1>4. GameOK(g)
      BY <1>1, <1>3 DEF GameOK, Whole
<1>5. g.pending \subseteq g.left
      BY <1>1, <1>3, AliveIsInstance
<1> QED BY <1>1, <1>2, <1>3, <1>4, <1>5 DEF Moves, Goes

\* A bot leaves: its chips are no longer expected, now or when the hand is over.
LEMMA RemovePlayerMoves ==
  ASSUME TypeOK, ChipsInv, NEW b \in Bots, RemovePlayer(b)
  PROVE  \E g : Moves(live, g) /\ Goes(live, g) /\ g.at = loop[live].at /\ live \in Alive
<1>1. /\ live \in Alive /\ loop[live] \in Instances /\ GameOK(loop[live])
      BY AliveIsInstance DEF RemovePlayer, ChipsInv, TypeOK
<1> DEFINE G == loop[live]
           g == Without(G, b)
<1>2. loop' = [loop EXCEPT ![live] = g]
      BY <1>1, AliveIsInstance DEF RemovePlayer, TypeOK
<1>3. /\ G.left \cup {b} \in SUBSET Bots /\ G.pending \cup {b} \in SUBSET Bots
      /\ G.expected - G.chips[b] \in Int
      /\ [G.chips EXCEPT ![b] = 0] \in [Bots -> Nat]
      /\ G.pending \subseteq G.left
      BY <1>1, GameTypes, AliveIsInstance
<1>4. /\ g \in Instances /\ g.left = G.left \cup {b}
      /\ g.pending \subseteq g.left /\ g.bets = G.bets
      /\ g.game = G.game /\ g.running = G.running /\ g.at = G.at
  <2>1. CASE G.at = "hand"
        BY <1>1, <1>3, <2>1 DEF Instances, Without
  <2>2. CASE G.at # "hand"
    <3>1. g = [G EXCEPT !.left = G.left \cup {b}, !.expected = G.expected - G.chips[b],
                        !.chips = [G.chips EXCEPT ![b] = 0]]
          BY <1>1, <2>2 DEF Instances, Without
    <3> HIDE DEF g
    <3> QED BY <1>1, <1>3, <3>1 DEF Instances
  <2> QED BY <2>1, <2>2
<1> HIDE DEF g
<1>5. GameOK(g)
      BY <1>1, <1>4 DEF GameOK, Whole
<1> QED BY <1>1, <1>2, <1>4, <1>5 DEF Moves, Goes

\* The deferred removals: while nobody has left there are none.
LEMMA DrainedGame ==
  ASSUME NEW g \in Instances, g.pending \subseteq g.left
  PROVE  /\ Drained(g) \in Instances /\ Drained(g).pending = {}
         /\ Drained(g).left = g.left /\ Drained(g).bets = g.bets
         /\ Drained(g).game = g.game /\ Drained(g).running = g.running
         /\ Drained(g).at = g.at
         /\ g.left = {} => Drained(g).chips = g.chips /\ Drained(g).expected = g.expected
<1> DEFINE takes == [b \in Bots |-> IF b \in g.pending THEN g.chips[b] + g.bets[b] ELSE 0]
           chips == [b \in Bots |-> IF b \in g.pending THEN 0 ELSE g.chips[b]]
           n == SumFunction(takes)
           h == [g EXCEPT !.expected = g.expected - n, !.pending = {}, !.chips = chips]
<1>1. takes \in [Bots -> Nat] /\ chips \in [Bots -> Nat]
      BY GameTypes
<1>2. n \in Nat
  <2> HIDE DEF takes
  <2> QED BY <1>1, SumIsNat, BuyInAssumption
<1>3. ASSUME g.left = {} PROVE n = 0 /\ chips = g.chips
  <2>1. takes = [b \in Bots |-> 0] /\ chips = g.chips
        BY <1>3, GameTypes
  <2>2. n = 0
        BY <2>1, SumOfZero, BuyInAssumption
  <2> QED BY <2>1, <2>2
<1>4. Drained(g) = h
      BY DEF Drained, Instances
<1> HIDE DEF n, chips, takes
<1>5. g.expected \in Int /\ g.expected - n \in Int
      BY <1>2, GameTypes
<1>6. /\ h \in Instances /\ h.pending = {} /\ h.chips = chips
      /\ h.left = g.left /\ h.bets = g.bets /\ h.game = g.game
      /\ h.running = g.running /\ h.at = g.at /\ h.expected = g.expected - n
      BY <1>1, <1>5 DEF Instances
<1> HIDE DEF h
<1> QED BY <1>3, <1>4, <1>5, <1>6

\* The pot goes to a winner.
LEMMA PaidGame ==
  ASSUME NEW g \in Instances, NEW w \in Bots
  PROVE  /\ PaidTo(g, w) \in Instances /\ InPlay(PaidTo(g, w)) = InPlay(g)
         /\ PaidTo(g, w).bets = Zero
         /\ PaidTo(g, w).left = g.left /\ PaidTo(g, w).pending = g.pending
         /\ PaidTo(g, w).game = g.game /\ PaidTo(g, w).running = g.running
         /\ PaidTo(g, w).expected = g.expected
<1> DEFINE n == SumFunction(g.bets)
           v == g.chips[w] + n
           chips == [g.chips EXCEPT ![w] = v]
           h == [g EXCEPT !.chips = chips, !.bets = Zero]
<1>1. n \in Nat /\ g.chips[w] \in Nat /\ v = g.chips[w] + n
      BY GameTypes
<1>2. PaidTo(g, w) = h
      BY DEF PaidTo, Instances
<1> HIDE DEF v, n
<1>3. v \in Nat
      BY <1>1
<1>4. chips \in [Bots -> Nat]
      BY <1>3, GameTypes
<1>5. SumFunction(chips) = SumFunction(g.chips) + (v - g.chips[w])
      BY <1>3, GameTypes, SumUpdate, BuyInAssumption
<1> HIDE DEF chips
<1>6. /\ h \in Instances /\ h.chips = chips /\ h.bets = Zero
      /\ h.left = g.left /\ h.pending = g.pending /\ h.game = g.game
      /\ h.running = g.running /\ h.expected = g.expected
      BY <1>4, ZeroSums DEF Instances
<1> HIDE DEF h
<1>7. InPlay(h) = InPlay(g)
  <2>1. SumFunction(g.chips) \in Int
        BY GameTypes
  <2> QED BY <1>1, <1>3, <1>5, <1>6, <2>1, ZeroSums DEF InPlay, n
<1> QED BY <1>2, <1>6, <1>7

\* What a hand leaves behind when it fails: a game in error, or nothing.
LEMMA FailedGame ==
  ASSUME TypeOK, NEW l \in Alive, NEW g \in Instances, g.pending \subseteq g.left,
         Whole(g), g.left = {} => g.expected = Total,
         g.game = loop[l].game, loop' = Failed(l, g)
  PROVE  (Drops(l) /\ live # l) \/ \E h : Moves(l, h) /\ Goes(l, h) /\ h.at = "error"
<1>1. CASE live # l
      BY <1>1 DEF Failed, Drops
<1>2. CASE live = l
  <2> DEFINE h == [g EXCEPT !.running = FALSE, !.at = "error"]
  <2>1. loop' = [loop EXCEPT ![l] = h]
        BY <1>2 DEF Failed
  <2>2. /\ h \in Instances /\ h.chips = g.chips /\ h.bets = g.bets
        /\ h.left = g.left /\ h.pending = g.pending /\ h.expected = g.expected
        /\ h.game = g.game /\ h.running = FALSE /\ h.at = "error"
        BY DEF Instances
  <2> HIDE DEF h
  <2>3. GameOK(h)
        BY <2>2 DEF GameOK, Whole, InPlay
  <2> QED BY <2>1, <2>2, <2>3 DEF Moves, Goes
<1> QED BY <1>1, <1>2

\* A hand ends: its pot is paid, or the count of the chips stops the game.
LEMMA EndHandMoves ==
  ASSUME TypeOK, ChipsInv, NEW l \in Loops, EndHand(l)
  PROVE  /\ l \in Alive /\ loop[l].at = "hand"
         /\ (Drops(l) /\ live # l) \/ \E g : Moves(l, g) /\ Goes(l, g) /\ g.at \in {"top", "error"}
<1>1. /\ l \in Alive /\ loop[l].at = "hand" /\ loop[l] \in Instances /\ GameOK(loop[l])
      /\ loop[l].pending \subseteq loop[l].left
      BY AliveIsInstance DEF EndHand, ChipsInv
<1>2. PICK w \in Bots :
        loop' = IF ChipsAddUp(Drained(PaidTo(loop[l], w)))
                THEN [loop EXCEPT ![l] = [Drained(PaidTo(loop[l], w)) EXCEPT !.at = "top"]]
                ELSE Failed(l, Drained(PaidTo(loop[l], w)))
      BY DEF EndHand
<1> DEFINE paid == PaidTo(loop[l], w)
           over == Drained(paid)
<1>3. /\ paid \in Instances /\ InPlay(paid) = InPlay(loop[l]) /\ paid.bets = Zero
      /\ paid.left = loop[l].left /\ paid.pending = loop[l].pending
      /\ paid.game = loop[l].game /\ paid.running = loop[l].running
      /\ paid.expected = loop[l].expected
      BY <1>1, PaidGame
<1> HIDE DEF paid
<1>4. /\ over \in Instances /\ over.pending = {} /\ over.left = loop[l].left
      /\ over.bets = Zero /\ over.game = loop[l].game /\ over.running = loop[l].running
      /\ loop[l].left = {} => over.chips = paid.chips /\ over.expected = loop[l].expected
      BY <1>1, <1>3, DrainedGame
<1>5. loop' = IF ChipsAddUp(over) THEN [loop EXCEPT ![l] = [over EXCEPT !.at = "top"]]
              ELSE Failed(l, over)
      BY <1>2 DEF paid
<1> HIDE DEF over
<1>6. Whole(over) /\ (over.left = {} => over.expected = Total)
      BY <1>1, <1>3, <1>4 DEF GameOK, Whole, InPlay
<1>7. CASE ~ChipsAddUp(over)
  <2>1. loop' = Failed(l, over)
        BY <1>5, <1>7
  <2> QED BY <1>1, <1>4, <1>6, <2>1, FailedGame
<1>8. CASE ChipsAddUp(over)
  <2> DEFINE h == [over EXCEPT !.at = "top"]
  <2>1. loop' = [loop EXCEPT ![l] = h]
        BY <1>5, <1>8
  <2>2. /\ h \in Instances /\ h.chips = over.chips /\ h.bets = over.bets
        /\ h.left = over.left /\ h.pending = over.pending /\ h.expected = over.expected
        /\ h.game = over.game /\ h.running = over.running /\ h.at = "top"
        BY <1>4 DEF Instances
  <2> HIDE DEF h
  <2>3. GameOK(h)
        BY <1>4, <1>6, <2>2 DEF GameOK, Whole, InPlay
  <2>4. Moves(l, h) /\ Goes(l, h)
        BY <1>1, <1>4, <2>1, <2>2, <2>3 DEF Moves, Goes
  <2> QED BY <1>1, <2>2, <2>4
<1> QED BY <1>7, <1>8

LEMMA HandThrowsMoves ==
  ASSUME TypeOK, ChipsInv, NEW l \in Loops, HandThrows(l)
  PROVE  /\ l \in Alive /\ loop[l].at = "hand"
         /\ (Drops(l) /\ live # l) \/ \E g : Moves(l, g) /\ Goes(l, g) /\ g.at = "error"
<1>1. /\ l \in Alive /\ loop[l].at = "hand" /\ loop[l] \in Instances /\ GameOK(loop[l])
      /\ loop[l].pending \subseteq loop[l].left
      BY AliveIsInstance DEF HandThrows, ChipsInv
<1> DEFINE over == Drained(loop[l])
<1>2. loop' = Failed(l, over)
      BY DEF HandThrows
<1>3. /\ over \in Instances /\ over.pending = {} /\ over.left = loop[l].left
      /\ over.bets = loop[l].bets /\ over.game = loop[l].game
      /\ loop[l].left = {} =>
           over.chips = loop[l].chips /\ over.expected = loop[l].expected
      BY <1>1, DrainedGame
<1> HIDE DEF over
<1>4. Whole(over) /\ (over.left = {} => over.expected = Total)
      BY <1>1, <1>3 DEF GameOK, Whole, InPlay
<1>5. over.pending \subseteq over.left
      BY <1>3
<1> QED BY <1>1, <1>2, <1>3, <1>4, <1>5, FailedGame

\* The watchdog or an operator tells a game to stop.
LEMMA StopMoves ==
  ASSUME TypeOK, ChipsInv, NEW l \in Alive, loop' = [loop EXCEPT ![l] = Stopped(@)]
  PROVE  \E g : Moves(l, g) /\ g.at = loop[l].at /\ ~g.running
<1>1. /\ l \in Loops /\ loop[l] \in Instances /\ GameOK(loop[l])
      /\ loop[l].pending \subseteq loop[l].left
      BY AliveIsInstance DEF ChipsInv
<1> DEFINE g == Stopped(loop[l])
<1>2. loop' = [loop EXCEPT ![l] = g]
      BY <1>1 DEF TypeOK
<1>3. /\ g \in Instances /\ g.chips = loop[l].chips /\ g.bets = loop[l].bets
      /\ g.left = loop[l].left /\ g.pending = loop[l].pending
      /\ g.expected = loop[l].expected /\ g.game = loop[l].game
      /\ g.running = FALSE /\ g.at = loop[l].at
      BY <1>1 DEF Instances, Stopped
<1> HIDE DEF g
<1>4. GameOK(g)
      BY <1>1, <1>3 DEF GameOK, Whole, InPlay
<1> QED BY <1>1, <1>2, <1>3, <1>4 DEF Moves

-----------------------------------------------------------------------------
(* The registry and its loops *)

\* What recoverFromSnapshot makes of a snapshot.
LEMMA RecoveredGame ==
  ASSUME NEW s \in Snapshots, Whole(s)
  PROVE  /\ Recovered(s) \in Instances /\ GameOK(Recovered(s))
         /\ Recovered(s).pending \subseteq Recovered(s).left
         /\ Recovered(s).game = s.game /\ Recovered(s).at = "top" /\ Recovered(s).running
<1> DEFINE e == [b \in Bots |-> s.bets[b] + (IF b \in s.left THEN 0 ELSE s.chips[b])]
           n == SumFunction(e)
           r == Refunded(s)
<1>1. /\ s.game \in GameIds /\ s.left \in SUBSET Bots
      /\ s.chips \in [Bots -> Nat] /\ s.bets \in [Bots -> Nat]
      /\ s.chips \in [Bots -> Int] /\ s.bets \in [Bots -> Int]
      BY DEF Snapshots
<1>2. e \in [Bots -> Nat] /\ r \in [Bots -> Nat]
      BY <1>1 DEF Refunded
<1>3. r \in [Bots -> Int] /\ \A b \in Bots : r[b] = s.chips[b] + s.bets[b]
      BY <1>1 DEF Refunded
<1>4. s.left = {} => e = r
      BY <1>1 DEF Refunded
<1>5. Recovered(s) = [game |-> s.game, chips |-> r, bets |-> Zero, left |-> s.left,
                      pending |-> {}, expected |-> n, at |-> "top", running |-> TRUE]
      BY DEF Recovered
<1> HIDE DEF r, e
<1>6. n \in Nat /\ SumFunction(r) \in Nat
      BY <1>2, SumIsNat, BuyInAssumption
<1>7. SumFunction(r) = SumFunction(s.chips) + SumFunction(s.bets)
      BY <1>1, <1>3, SumAdds, BuyInAssumption
<1>8. s.left = {} => SumFunction(r) = Total /\ n = Total
      BY <1>4, <1>7 DEF Whole, InPlay
<1> HIDE DEF n
<1>9. Recovered(s) \in Instances
      BY <1>1, <1>2, <1>5, <1>6, ZeroSums DEF Instances
<1>10. GameOK(Recovered(s))
      BY <1>5, <1>6, <1>8, ZeroSums DEF GameOK, Whole, InPlay
<1> QED BY <1>5, <1>9, <1>10

\* A new game of createGame.
NewGame(g) ==
  [game |-> g, chips |-> BuyIn, bets |-> Zero, left |-> {},
   pending |-> {}, expected |-> Total, at |-> "top", running |-> TRUE]

LEMMA CreatedGame ==
  ASSUME NEW g \in GameIds
  PROVE  NewGame(g) \in Instances /\ GameOK(NewGame(g))
<1>1. BuyIn \in [Bots -> Nat]
      BY BuyInAssumption
<1>2. NewGame(g) \in Instances
      BY <1>1, ZeroSums DEF Instances, NewGame
<1>3. InPlay(NewGame(g)) = Total
      BY ZeroSums DEF InPlay, NewGame, Total
<1> QED BY <1>2, <1>3 DEF GameOK, Whole, NewGame

\* What the proof says of the loops and of the registry.
LoopsOK ==
  /\ loop \in [Loops -> Instances \cup {None}]
  /\ \A l \in Alive : loop[l].pending \subseteq loop[l].left /\ GameOK(loop[l])
  /\ live \in Alive \cup {None}
  /\ live # None => loop[live].running \/ loop[live].at = "error"
  /\ RunningIsRegistered

\* A game goes on, in the registry or not; if it runs it stays there.
LEMMA MoveKeeps ==
  ASSUME TypeOK, LoopsOK, NEW l \in Alive, NEW g, Moves(l, g),
         (live' = live /\ Goes(l, g)) \/ (live' = None /\ ~g.running /\ live = l)
  PROVE  /\ LoopsOK' /\ Alive' = Alive
         /\ \A k \in Loops : loop'[k] = IF k = l THEN g ELSE loop[k]
<1>1. l \in Loops /\ g \in Instances /\ g # None
      BY NoneAssumption DEF Moves, Alive
<1>2. /\ loop' \in [Loops -> Instances \cup {None}]
      /\ \A k \in Alive' : loop'[k].pending \subseteq loop'[k].left
      /\ Alive' = Alive
      /\ \A k \in Loops : loop'[k] = IF k = l THEN g ELSE loop[k]
  <2>1. g.pending \subseteq g.left /\ loop' = [loop EXCEPT ![l] = g]
        BY DEF Moves
  <2>2. /\ loop' \in [Loops -> Instances \cup {None}]
        /\ \A k \in Alive' : loop'[k].pending \subseteq loop'[k].left
        /\ Alive' = Alive \cup {l}
        /\ \A k \in Loops : loop'[k] = IF k = l THEN g ELSE loop[k]
        BY <1>1, <2>1, LoopsTyped
  <2> QED BY <2>2
<1>3. \A k \in Alive : k \in Loops
      BY DEF Alive
<1>4. \A k \in Alive' : GameOK(loop'[k])
      BY <1>2, <1>3 DEF LoopsOK, Moves
<1>5. live' \in Alive' \cup {None}
      BY <1>2 DEF LoopsOK
<1>6. RunningIsRegistered'
  <2> SUFFICES ASSUME NEW k \in Alive, loop'[k].running PROVE live' = k
      BY <1>2 DEF RunningIsRegistered
  <2>1. loop[k].running /\ (k = l => g.running)
        BY <1>2, <1>3 DEF Moves
  <2>2. live = k
        BY <2>1 DEF LoopsOK, RunningIsRegistered
  <2> QED BY <2>1, <2>2
<1>7. \A k \in Alive' : loop'[k].pending \subseteq loop'[k].left /\ GameOK(loop'[k])
      BY <1>2, <1>4
<1>9. live' # None => loop'[live'].running \/ loop'[live'].at = "error"
  <2>1. live' # None => live' = live /\ live \in Loops /\ Goes(l, g)
        BY <1>3 DEF LoopsOK
  <2> QED BY <1>2, <2>1 DEF LoopsOK, Goes
<1>8. LoopsOK'
  <2> USE <1>2, <1>5, <1>6, <1>7, <1>9
  <2> QED BY DEF LoopsOK, GameOK, Whole, InPlay, Total, Zero
<1> QED BY <1>2, <1>8

\* A loop ends: one that does not run, or the one the registry drops.
LEMMA DropKeeps ==
  ASSUME TypeOK, LoopsOK, NEW l \in Alive, Drops(l),
         (live' = live /\ live # l) \/ (live' = None /\ live = l)
  PROVE  /\ LoopsOK' /\ Alive' = Alive \ {l}
         /\ \A k \in Loops : loop'[k] = IF k = l THEN None ELSE loop[k]
<1>1. l \in Loops
      BY DEF Alive
<1>2. /\ loop' \in [Loops -> Instances \cup {None}]
      /\ \A k \in Alive' : loop'[k].pending \subseteq loop'[k].left
      /\ Alive' = Alive \ {l}
      /\ \A k \in Loops : loop'[k] = IF k = l THEN None ELSE loop[k]
      BY <1>1, LoopsTyped DEF Drops
<1>3. \A k \in Alive' : k \in Alive /\ k # l /\ loop'[k] = loop[k]
      BY <1>2 DEF Alive
<1>4. \A k \in Alive' : loop'[k].pending \subseteq loop'[k].left /\ GameOK(loop'[k])
      BY <1>2, <1>3 DEF LoopsOK
<1>5. live' \in Alive' \cup {None}
      BY <1>2 DEF LoopsOK
<1>6. RunningIsRegistered'
      BY <1>3 DEF LoopsOK, RunningIsRegistered
<1>8. live' # None => loop'[live'].running \/ loop'[live'].at = "error"
      BY <1>2, <1>3, <1>5 DEF LoopsOK
<1>7. LoopsOK'
  <2> USE <1>2, <1>4, <1>5, <1>6, <1>8
  <2> QED BY DEF LoopsOK, GameOK, Whole, InPlay, Total, Zero
<1> QED BY <1>2, <1>7

\* A game starts where there is none.
LEMMA StartKeeps ==
  ASSUME TypeOK, LoopsOK, live = None, Alive # Loops,
         NEW g \in Instances, g.pending \subseteq g.left, GameOK(g), g.running,
         loop' = [loop EXCEPT ![NewLoop] = g], live' = NewLoop
  PROVE  /\ LoopsOK' /\ Alive' = Alive \cup {NewLoop} /\ NewLoop \notin Alive
         /\ NewLoop \in Loops
         /\ \A k \in Loops : loop'[k] = IF k = NewLoop THEN g ELSE loop[k]
<1> DEFINE n == NewLoop
<1>1. n \in Loops /\ n \notin Alive /\ g # None
      BY NewLoopIsFree, NoneAssumption
<1>2. loop' = [loop EXCEPT ![n] = g] /\ live' = n
      OBVIOUS
<1> HIDE DEF n
<1>3. /\ loop' \in [Loops -> Instances \cup {None}]
      /\ \A k \in Alive' : loop'[k].pending \subseteq loop'[k].left
      /\ Alive' = Alive \cup {n}
      /\ \A k \in Loops : loop'[k] = IF k = n THEN g ELSE loop[k]
      BY <1>1, <1>2, LoopsTyped
<1>4. \A k \in Alive : k \in Loops /\ ~loop[k].running /\ loop'[k] = loop[k]
  <2>1. \A k \in Alive : k \in Loops /\ loop'[k] = loop[k]
        BY <1>1, <1>3 DEF Alive
  <2>2. \A k \in Alive : k # None
        BY NoneAssumption DEF Alive
  <2> QED BY <2>1, <2>2 DEF LoopsOK, RunningIsRegistered
<1>5. \A k \in Alive' : loop'[k].pending \subseteq loop'[k].left /\ GameOK(loop'[k])
      BY <1>1, <1>3, <1>4 DEF LoopsOK
<1>6. RunningIsRegistered'
      BY <1>2, <1>3, <1>4 DEF RunningIsRegistered
<1>7. LoopsOK'
  <2>1. live' \in Alive' \cup {None}
        BY <1>2, <1>3
  <2>2. loop'[live'].running
        BY <1>1, <1>2, <1>3
  <2> USE <1>3, <1>5, <1>6, <2>1, <2>2
  <2> QED BY DEF LoopsOK, GameOK, Whole, InPlay, Total, Zero
<1> QED BY <1>1, <1>3, <1>7 DEF n

LEMMA LoopsUntouched ==
  ASSUME LoopsOK, UNCHANGED <<loop, live>>
  PROVE  LoopsOK'
BY DEF LoopsOK, Alive, RunningIsRegistered, GameOK, Whole, InPlay, Total, Zero

\* A snapshot is recovered from, or its table is taken.
LEMMA RecoverKeeps ==
  ASSUME TypeOK, LoopsOK, NEW s \in Snapshots, Whole(s), Recover(s)
  PROVE  LoopsOK'
<1>1. CASE TableFree
      BY <1>1, StartKeeps, RecoveredGame DEF Recover, TableFree
<1>2. CASE ~TableFree
  <2>1. loop' = loop /\ live' = live
        BY <1>2 DEF Recover
  <2> QED BY <2>1 DEF LoopsOK, Alive, RunningIsRegistered, GameOK, Whole, InPlay, Total, Zero
<1> QED BY <1>1, <1>2

-----------------------------------------------------------------------------
(* The commands and the snapshots *)

\* The invariant, by what it speaks of.
RecoveryInv == TypeOK /\ LoopsOK /\ CopiesOK

LEMMA CommandTypes ==
  ASSUME NEW c \in Commands
  PROVE  /\ c.op \in {"set", "get", "del"}
         /\ c.op = "set" => c.snap \in Snapshots /\ c.snap.game \in GameIds
         /\ c.op # "set" => c.game \in GameIds
<1>1. CASE c \in [op : {"set"}, snap : Snapshots]
  <2>1. c.op = "set" /\ c.snap \in Snapshots
        BY <1>1
  <2>2. c.snap.game \in GameIds
        BY <2>1 DEF Snapshots
  <2> QED BY <2>1, <2>2
<1>2. CASE c \in [op : {"get", "del"}, game : GameIds]
  <2>1. c.op \in {"get", "del"} /\ c.game \in GameIds
        BY <1>2
  <2> QED BY <2>1
<1> QED BY <1>1, <1>2 DEF Commands

LEMMA CommandsMade ==
  /\ \A g \in GameIds : /\ [op |-> "get", game |-> g] \in Commands
                        /\ [op |-> "del", game |-> g] \in Commands
  /\ \A s \in Snapshots : [op |-> "set", snap |-> s] \in Commands
BY DEF Commands

\* The snapshot of a game is whole when the game is.
LEMMA SnapshotTaken ==
  ASSUME NEW g \in Instances, GameOK(g)
  PROVE  Snapshot(g) \in Snapshots /\ Whole(Snapshot(g)) /\ Snapshot(g).game = g.game
<1>1. Snapshot(g) \in Snapshots /\ Snapshot(g).game = g.game
      BY GameTypes DEF Snapshot, Snapshots
<1>2. Whole(Snapshot(g))
      BY DEF Snapshot, GameOK, Whole, InPlay
<1> QED BY <1>1, <1>2

\* What the proof says of the copies, which an issued command does not disturb.
LEMMA IssueKeeps ==
  ASSUME RecoveryInv, NEW c \in Commands, Issue(c), c.op = "set" => Whole(c.snap),
         UNCHANGED <<hot, boot>>
  PROVE  wire' \in Seq(Commands) /\ Len(wire') <= MaxWire /\ CopiesOK'
<1>1. /\ wire' \in Seq(Commands) /\ Len(wire') <= MaxWire
      /\ Len(wire) \in Nat /\ Len(wire') = Len(wire) + 1
      /\ \A i \in 1 .. Len(wire) : wire'[i] = wire[i]
      /\ wire'[Len(wire')] = c
      BY Issued DEF RecoveryInv, TypeOK
<1>2. ASSUME NEW i \in 1 .. Len(wire'), wire'[i].op = "set" PROVE Whole(wire'[i].snap)
  <2>1. i \in 1 .. Len(wire) \/ i = Len(wire')
        BY <1>1
  <2> QED BY <1>1, <1>2, <2>1 DEF RecoveryInv, CopiesOK
<1>3. /\ \A g \in GameIds : hot'[g] # None => Whole(hot'[g])
      /\ boot' = None \/ \A s \in boot' : Whole(s)
      BY DEF RecoveryInv, CopiesOK
<1>4. CopiesOK'
  <2> USE <1>2, <1>3
  <2> QED BY DEF CopiesOK, Whole, InPlay, Total
<1> QED BY <1>1, <1>4

\* Nor one that is executed, or lost, or forgotten with all the others.
LEMMA ServeKeeps ==
  ASSUME RecoveryInv, wire # <<>>, wire' = Tail(wire), UNCHANGED boot,
         \A g \in GameIds : hot'[g] # None => Whole(hot'[g])
  PROVE  wire' \in Seq(Commands) /\ Len(wire') <= MaxWire /\ CopiesOK'
<1>1. /\ wire' \in Seq(Commands)
      /\ Len(wire) \in Nat \ {0} /\ Len(wire') = Len(wire) - 1
      /\ \A i \in 1 .. Len(wire') : wire'[i] = wire[i + 1]
      BY Served DEF RecoveryInv, TypeOK
<1>2. Len(wire') <= MaxWire
      BY <1>1, BoundsAssumption DEF RecoveryInv, TypeOK
<1>3. ASSUME NEW i \in 1 .. Len(wire'), wire'[i].op = "set" PROVE Whole(wire'[i].snap)
  <2>1. i + 1 \in 1 .. Len(wire) /\ wire'[i] = wire[i + 1]
        BY <1>1
  <2> QED BY <1>3, <2>1 DEF RecoveryInv, CopiesOK
<1>4. boot' = None \/ \A s \in boot' : Whole(s)
      BY DEF RecoveryInv, CopiesOK
<1>5. CopiesOK'
  <2> USE <1>3, <1>4
  <2> QED BY DEF CopiesOK, Whole, InPlay, Total
<1> QED BY <1>1, <1>2, <1>5

\* A game that moves keeps what is said of the loops, and RecoveryInv when the
\* commands and the snapshots are left alone.
LEMMA LoopStepKeeps ==
  ASSUME RecoveryInv, LoopsOK', UNCHANGED <<wire, hot, boot>>,
         finished' \subseteq GameIds, played' \subseteq GameIds
  PROVE  RecoveryInv'
<1>1. CopiesOK'
      BY DEF RecoveryInv, CopiesOK, Whole, InPlay, Total
<1>2. TypeOK'
      BY DEF RecoveryInv, TypeOK, LoopsOK, Alive
<1> QED BY <1>1, <1>2 DEF RecoveryInv

-----------------------------------------------------------------------------
(* Every step keeps the games whole and one of them in the registry *)

LEMMA InitSafe == Init => RecoveryInv
<1> SUFFICES ASSUME Init PROVE RecoveryInv
    OBVIOUS
<1>1. Alive = {} /\ Len(wire) = 0 /\ live = None
      BY DEF Init, Alive
<1>2. LoopsOK
  <2>1. loop \in [Loops -> Instances \cup {None}]
        BY DEF Init
  <2> QED BY <1>1, <2>1 DEF LoopsOK, RunningIsRegistered
<1>3. CopiesOK
  <2>1. \A g \in GameIds : hot[g] = None
        BY DEF Init
  <2>2. boot = {}
        BY DEF Init
  <2> QED BY <1>1, <2>1, <2>2 DEF CopiesOK
<1> QED BY <1>2, <1>3, InitTyped DEF RecoveryInv

\* What the lemmas about a step start from.
LEMMA InvParts ==
  ASSUME RecoveryInv
  PROVE  /\ TypeOK /\ LoopsOK /\ CopiesOK /\ ChipsInv
         /\ finished \subseteq GameIds /\ played \subseteq GameIds
BY DEF RecoveryInv, LoopsOK, ChipsInv, TypeOK

\* The steps of a hand that leave Redis alone.
LEMMA HandSafe ==
  ASSUME RecoveryInv, NEW l \in Loops,
         BeginHand(l) \/ EndHand(l) \/ HandThrows(l)
  PROVE  RecoveryInv'
<1>1. live' = live /\ UNCHANGED <<wire, hot, boot, finished, played>>
      BY DEF BeginHand, EndHand, HandThrows, Ghosts
<1>2. /\ l \in Alive
      /\ (Drops(l) /\ live # l) \/ \E g : Moves(l, g) /\ Goes(l, g)
  <2>1. CASE BeginHand(l)
        BY <2>1, InvParts, BeginHandMoves
  <2>2. CASE EndHand(l)
        BY <2>2, InvParts, EndHandMoves
  <2>3. CASE HandThrows(l)
        BY <2>3, InvParts, HandThrowsMoves
  <2> QED BY <2>1, <2>2, <2>3
<1>3. ASSUME NEW g, Moves(l, g), Goes(l, g) PROVE LoopsOK'
      BY <1>1, <1>2, <1>3, InvParts, MoveKeeps
<1>4. ASSUME Drops(l), live # l PROVE LoopsOK'
      BY <1>1, <1>2, <1>4, InvParts, DropKeeps
<1>5. LoopsOK'
      BY <1>2, <1>3, <1>4
<1> QED BY <1>1, <1>5, InvParts, LoopStepKeeps

\* A loop returns, a bot leaves, or the table is closed.
LEMMA LeavingSafe ==
  ASSUME RecoveryInv,
         \/ \E l \in Loops : LoopReturns(l)
         \/ \E b \in Bots : RemovePlayer(b)
         \/ RemoveGame
  PROVE  RecoveryInv'
<1>1. UNCHANGED <<wire, hot, boot, finished, played>>
      BY DEF LoopReturns, RemovePlayer, RemoveGame, Ghosts
<1>2. ASSUME NEW l \in Loops, LoopReturns(l) PROVE LoopsOK'
  <2>1. l \in Alive /\ Drops(l) /\ live' = live
        BY <1>2 DEF LoopReturns, Drops
  <2>2. loop[l].at = "top" /\ ~loop[l].running
        BY <1>2 DEF LoopReturns
  <2>3. live # l
    <3>1. l # None
          BY NoneAssumption
    <3> QED BY <2>2, <3>1, InvParts DEF LoopsOK
  <2> QED BY <2>1, <2>3, InvParts, DropKeeps
<1>3. ASSUME NEW b \in Bots, RemovePlayer(b) PROVE LoopsOK'
  <2>1. PICK g : Moves(live, g) /\ Goes(live, g) /\ live \in Alive
        BY <1>3, InvParts, RemovePlayerMoves
  <2>2. live' = live
        BY <1>3 DEF RemovePlayer
  <2> QED BY <2>1, <2>2, InvParts, MoveKeeps
<1>4. ASSUME RemoveGame PROVE LoopsOK'
  <2>1. live \in Alive /\ live \in Loops /\ live' = None
        BY <1>4, InvParts DEF RemoveGame, LoopsOK, Alive
  <2>2. CASE loop[live].at \in {"error", "finished"}
    <3>1. Drops(live)
          BY <1>4, <2>1, <2>2, InvParts DEF RemoveGame, Drops, TypeOK
    <3> QED BY <2>1, <3>1, InvParts, DropKeeps
  <2>3. CASE loop[live].at \notin {"error", "finished"}
    <3>1. loop' = [loop EXCEPT ![live] = Stopped(@)]
          BY <1>4, <2>1, <2>3, InvParts DEF RemoveGame, TypeOK
    <3>2. PICK g : Moves(live, g) /\ ~g.running
          BY <2>1, <3>1, InvParts, StopMoves
    <3> QED BY <2>1, <3>2, InvParts, MoveKeeps
  <2> QED BY <2>2, <2>3
<1>5. LoopsOK'
      BY <1>2, <1>3, <1>4
<1> QED BY <1>1, <1>5, InvParts, LoopStepKeeps

\* The steps that issue a command: an action, the end of a game, the watchdog.
LEMMA IssueStepKeeps ==
  ASSUME RecoveryInv, LoopsOK', NEW c \in Commands, Issue(c),
         c.op = "set" => Whole(c.snap), UNCHANGED <<hot, boot>>,
         finished' \subseteq GameIds, played' \subseteq GameIds
  PROVE  RecoveryInv'
<1>1. wire' \in Seq(Commands) /\ Len(wire') <= MaxWire /\ CopiesOK'
      BY IssueKeeps
<1>2. TypeOK'
      BY <1>1 DEF RecoveryInv, TypeOK, LoopsOK, Alive
<1> QED BY <1>1, <1>2 DEF RecoveryInv

LEMMA ActSafe ==
  ASSUME RecoveryInv, NEW l \in Loops, NEW b \in Bots, NEW n \in {0, 1}, Act(l, b, n)
  PROVE  RecoveryInv'
<1>1. live' = live /\ UNCHANGED <<hot, boot, finished, played>>
      BY DEF Act, Ghosts
<1>2. PICK g : /\ Moves(l, g) /\ Goes(l, g) /\ l \in Alive
               /\ Issue([op |-> "set", snap |-> Snapshot(g)])
      BY InvParts, ActMoves
<1>3. LoopsOK'
      BY <1>1, <1>2, InvParts, MoveKeeps
<1> DEFINE c == [op |-> "set", snap |-> Snapshot(g)]
<1>4. Snapshot(g) \in Snapshots /\ Whole(Snapshot(g))
      BY <1>2, SnapshotTaken DEF Moves
<1>5. c \in Commands /\ c.op = "set" /\ c.snap = Snapshot(g)
      BY <1>4, CommandsMade
<1>6. Issue(c)
      BY <1>2
<1> HIDE DEF c
<1> QED BY <1>1, <1>3, <1>4, <1>5, <1>6, InvParts, IssueStepKeeps

LEMMA FinishGameSafe ==
  ASSUME RecoveryInv, NEW l \in Loops, FinishGame(l)
  PROVE  RecoveryInv'
<1>1. live' = live /\ UNCHANGED <<hot, boot, played>>
      BY DEF FinishGame
<1>2. PICK g : Moves(l, g) /\ Goes(l, g) /\ l \in Alive
      BY InvParts, FinishGameMoves
<1>3. LoopsOK'
      BY <1>1, <1>2, InvParts, MoveKeeps
<1>4. loop[l].game \in GameIds
      BY <1>2, InvParts, AliveIsInstance, GameTypes
<1> DEFINE c == [op |-> "del", game |-> loop[l].game]
<1>5. c \in Commands /\ c.op = "del" /\ Issue(c)
      BY <1>4, CommandsMade DEF FinishGame, FinishIssues
<1>6. finished' \subseteq GameIds
      BY <1>4, InvParts DEF FinishGame
<1> HIDE DEF c
<1> QED BY <1>1, <1>3, <1>5, <1>6, InvParts, IssueStepKeeps

\* The watchdog gives a game up and asks for its snapshot.
LEMMA WatchdogSafe ==
  ASSUME RecoveryInv, FindErrored \/ FindFinished \/ FindSilent
  PROVE  RecoveryInv'
<1>1. /\ DeclareStuck(live) /\ live # None
      /\ UNCHANGED <<hot, boot, finished, played>>
      BY DEF FindErrored, FindFinished, FindSilent, Ghosts
<1>2. live \in Alive /\ live' = None
      BY <1>1, InvParts DEF LoopsOK, DeclareStuck
<1>3. LoopsOK'
  <2>1. CASE FindErrored \/ FindFinished
    <3>1. Drops(live)
          BY <2>1 DEF FindErrored, FindFinished, Drops
    <3> QED BY <1>2, <3>1, InvParts, DropKeeps
  <2>2. CASE FindSilent
    <3>1. loop' = [loop EXCEPT ![live] = Stopped(@)]
          BY <2>2 DEF FindSilent
    <3>2. PICK g : Moves(live, g) /\ ~g.running
          BY <1>2, <3>1, InvParts, StopMoves
    <3> QED BY <1>2, <3>2, InvParts, MoveKeeps
  <2> QED BY <2>1, <2>2
<1>4. loop[live].game \in GameIds
      BY <1>2, InvParts, AliveIsInstance, GameTypes
<1> DEFINE c == [op |-> "get", game |-> loop[live].game]
<1>5. c \in Commands /\ c.op = "get" /\ Issue(c)
      BY <1>1, <1>4, CommandsMade DEF DeclareStuck
<1> HIDE DEF c
<1> QED BY <1>1, <1>3, <1>5, InvParts, IssueStepKeeps

\* A game is created.
LEMMA CreateGameSafe ==
  ASSUME RecoveryInv, NEW g \in GameIds, CreateGame(g)
  PROVE  RecoveryInv'
<1>1. /\ live = None /\ Alive # Loops /\ live' = NewLoop
      /\ loop' = [loop EXCEPT ![NewLoop] = NewGame(g)]
      /\ played' = played \cup {g} /\ UNCHANGED <<wire, hot, boot, finished>>
      BY DEF CreateGame, NewGame
<1>2. NewGame(g).pending \subseteq NewGame(g).left /\ NewGame(g).running
      BY DEF NewGame
<1>3. LoopsOK'
      BY <1>1, <1>2, CreatedGame, InvParts, StartKeeps
<1> QED BY <1>1, <1>3, InvParts, LoopStepKeeps

\* Redis executes a command, or does not.
LEMMA RedisSafe ==
  ASSUME RecoveryInv, RedisServes \/ RedisFails
  PROVE  RecoveryInv'
<1>1. /\ wire # <<>> /\ wire' = Tail(wire) /\ UNCHANGED <<boot, finished, played>>
      BY DEF RedisServes, RedisFails, Ghosts
<1> DEFINE c == Head(wire)
<1>2. c \in Commands /\ c = wire[1] /\ 1 \in 1 .. Len(wire)
      BY <1>1, Served, InvParts DEF TypeOK
<1>3. c.op = "set" => Whole(c.snap)
      BY <1>2, InvParts DEF CopiesOK
<1>4. Serve(c) \/ UNCHANGED <<loop, live, hot>>
      BY DEF RedisServes, RedisFails
<1> HIDE DEF c
<1>5. hot \in [GameIds -> Snapshots \cup {None}] /\ \A g \in GameIds : hot[g] # None => Whole(hot[g])
      BY InvParts DEF TypeOK, CopiesOK
<1>6. /\ LoopsOK' /\ hot' \in [GameIds -> Snapshots \cup {None}]
      /\ \A g \in GameIds : hot'[g] # None => Whole(hot'[g])
  <2>1. ASSUME UNCHANGED <<loop, live>> PROVE LoopsOK'
        BY <2>1, InvParts, LoopsUntouched
  <2>2. CASE c.op = "set" /\ hot' = [hot EXCEPT ![c.snap.game] = c.snap] /\ UNCHANGED <<loop, live>>
        BY <1>2, <1>3, <1>5, <2>1, <2>2, CommandTypes
  <2>3. CASE c.op = "del" /\ hot' = [hot EXCEPT ![c.game] = None] /\ UNCHANGED <<loop, live>>
        BY <1>2, <1>5, <2>1, <2>3, CommandTypes
  <2>4. CASE c.op = "get" /\ hot[c.game] # None /\ Recover(hot[c.game]) /\ UNCHANGED hot
    <3>1. hot[c.game] \in Snapshots /\ Whole(hot[c.game])
          BY <1>2, <1>5, <2>4, CommandTypes
    <3>2. LoopsOK'
          BY <2>4, <3>1, InvParts, RecoverKeeps
    <3> QED BY <1>5, <2>4, <3>2
  <2>5. CASE UNCHANGED <<loop, live, hot>>
        BY <1>5, <2>1, <2>5
  <2> QED BY <1>4, <2>2, <2>3, <2>4, <2>5 DEF Serve
<1>7. wire' \in Seq(Commands) /\ Len(wire') <= MaxWire /\ CopiesOK'
      BY <1>1, <1>6, ServeKeeps
<1>8. TypeOK'
      BY <1>1, <1>6, <1>7, InvParts DEF TypeOK, LoopsOK, Alive
<1> QED BY <1>6, <1>7, <1>8 DEF RecoveryInv

\* The server dies, and comes up again.
LEMMA CrashSafe ==
  ASSUME RecoveryInv, Crash
  PROVE  RecoveryInv'
<1>1. /\ loop' = [l \in Loops |-> None] /\ live' = None /\ wire' = <<>> /\ boot' = None
      /\ UNCHANGED <<hot, finished, played>>
      BY DEF Crash
<1>2. Alive' = {} /\ Len(wire') = 0
      BY <1>1 DEF Alive
<1>3. LoopsOK'
      BY <1>1, <1>2 DEF LoopsOK, RunningIsRegistered
<1>4. CopiesOK'
      BY <1>1, <1>2, InvParts DEF CopiesOK, Whole, InPlay, Total
<1>5. TypeOK'
  <2>1. wire' \in Seq(Commands) /\ Len(wire') <= MaxWire
        BY <1>1, BoundsAssumption
  <2>2. loop' \in [Loops -> Instances \cup {None}] /\ live' \in Alive' \cup {None}
        BY <1>1
  <2> QED BY <1>1, <1>2, <2>1, <2>2, InvParts DEF TypeOK
<1> QED BY <1>3, <1>4, <1>5 DEF RecoveryInv

\* It reads the snapshots, and recovers one after the other.
LEMMA BootSafe ==
  ASSUME RecoveryInv, ScanHotStates \/ TryCandidate
  PROVE  RecoveryInv'
<1>1. UNCHANGED <<wire, hot, finished, played>>
      BY DEF ScanHotStates, TryCandidate, Ghosts
<1>2. /\ LoopsOK' /\ boot' \in SUBSET Snapshots /\ \A s \in boot' : Whole(s)
  <2>1. CASE ScanHotStates
    <3>1. boot' = {hot[g] : g \in {g \in GameIds : hot[g] # None}} /\ UNCHANGED <<loop, live>>
          BY <2>1 DEF ScanHotStates
    <3>2. LoopsOK'
          BY <3>1, InvParts, LoopsUntouched
    <3>3. \A s \in boot' : s \in Snapshots /\ Whole(s)
          BY <3>1, InvParts DEF TypeOK, CopiesOK
    <3> QED BY <3>2, <3>3
  <2>2. CASE TryCandidate
    <3>1. PICK s \in boot : /\ boot' = boot \ {s}
                            /\ IF Valid(s) THEN Recover(s) ELSE UNCHANGED <<loop, live>>
          BY <2>2 DEF TryCandidate
    <3>2. boot \in SUBSET Snapshots /\ \A t \in boot : Whole(t)
          BY <2>2, InvParts DEF TryCandidate, TypeOK, CopiesOK
    <3>3. CASE Recover(s)
      <4>1. LoopsOK'
            BY <3>1, <3>2, <3>3, InvParts, RecoverKeeps
      <4> QED BY <3>1, <3>2, <4>1
    <3>4. CASE UNCHANGED <<loop, live>>
      <4>1. LoopsOK'
            BY <3>4, InvParts, LoopsUntouched
      <4> QED BY <3>1, <3>2, <4>1
    <3> QED BY <3>1, <3>3, <3>4
  <2> QED BY <2>1, <2>2
<1>3. CopiesOK'
      BY <1>1, <1>2, InvParts DEF CopiesOK, Whole, InPlay, Total
<1>4. TypeOK'
      BY <1>1, <1>2, InvParts DEF TypeOK, LoopsOK, Alive
<1> QED BY <1>2, <1>3, <1>4 DEF RecoveryInv

LEMMA StepSafe == RecoveryInv /\ [Next]_vars => RecoveryInv'
<1> SUFFICES ASSUME RecoveryInv, [Next]_vars PROVE RecoveryInv'
    OBVIOUS
<1>1. CASE UNCHANGED vars
  <2>1. UNCHANGED <<loop, live, wire, hot, boot, finished, played>>
        BY <1>1 DEF vars
  <2>2. LoopsOK'
        BY <2>1, InvParts, LoopsUntouched
  <2> QED BY <2>1, <2>2, InvParts, LoopStepKeeps
<1>2. ASSUME NEW l \in Loops,
             \/ LoopSteps(l) \/ BeginHand(l) \/ HandThrows(l)
             \/ \E b \in Bots, n \in {0, 1} : Act(l, b, n)
      PROVE  RecoveryInv'
      BY <1>2, HandSafe, LeavingSafe, ActSafe, FinishGameSafe DEF LoopSteps
<1>3. CASE Recoveries
      BY <1>3, WatchdogSafe, RedisSafe, BootSafe DEF Recoveries
<1>4. CASE FindSilent \/ RemoveGame \/ RedisFails \/ Crash
      BY <1>4, WatchdogSafe, LeavingSafe, RedisSafe, CrashSafe
<1>5. CASE \E g \in GameIds : CreateGame(g)
      BY <1>5, CreateGameSafe
<1>6. CASE \E b \in Bots : RemovePlayer(b)
      BY <1>6, LeavingSafe
<1> QED BY <1>1, <1>2, <1>3, <1>4, <1>5, <1>6 DEF Next

-----------------------------------------------------------------------------
(* Theorems *)

\* Whatever the watchdog, the start-up recovery, an operator and the faults do, and in
\* whatever order: a game that runs is the one in the registry, so that a table never
\* has two games at once.
THEOREM OneGameRuns == Spec => []RunningIsRegistered
<1>1. RecoveryInv => RunningIsRegistered
      BY DEF RecoveryInv, LoopsOK
<1> QED BY <1>1, InitSafe, StepSafe, PTL DEF Spec

\* However often a game is recovered, and from whatever moment of a hand: while nobody
\* has left it, the chips the bots sat down with are all in its stacks and its pot.
THEOREM RecoveryKeepsChips == Spec => []ChipsSurvive
<1>1. RecoveryInv => ChipsSurvive
      BY DEF RecoveryInv, LoopsOK, GameOK, Whole, ChipsSurvive
<1> QED BY <1>1, InitSafe, StepSafe, PTL DEF Spec

-----------------------------------------------------------------------------
(* A finished game stays finished *)

\* The loops after a step that starts none.
Continues ==
  \A k \in Alive' : /\ k \in Alive /\ loop'[k].game = loop[k].game
                    /\ loop[k].at = "finished" => loop'[k].at = "finished"

LEMMA MoveContinues ==
  ASSUME RecoveryInv, NEW l \in Alive, NEW g, Moves(l, g),
         loop[l].at = "finished" => g.at = "finished"
  PROVE  Continues
<1>1. /\ l \in Loops /\ g \in Instances /\ g # None /\ g.pending \subseteq g.left
      /\ loop' = [loop EXCEPT ![l] = g] /\ g.game = loop[l].game
      BY NoneAssumption DEF Moves, Alive
<1>2. /\ Alive' = Alive \cup {l}
      /\ \A k \in Loops : loop'[k] = IF k = l THEN g ELSE loop[k]
      BY <1>1, InvParts, LoopsTyped
<1>3. \A k \in Alive : k \in Loops
      BY DEF Alive
<1> QED BY <1>1, <1>2, <1>3 DEF Continues

LEMMA DropContinues ==
  ASSUME RecoveryInv, NEW l \in Loops, Drops(l)
  PROVE  Continues
<1>1. /\ Alive' = Alive \ {l}
      /\ \A k \in Loops : loop'[k] = IF k = l THEN None ELSE loop[k]
      BY InvParts, LoopsTyped DEF Drops
<1>2. \A k \in Alive : k \in Loops
      BY DEF Alive
<1> QED BY <1>1, <1>2 DEF Continues

\* The steps of the loops, the watchdog and the operator start none.
LEMMA LoopStepContinues ==
  ASSUME RecoveryInv, NEW l \in Loops,
         \/ BeginHand(l) \/ EndHand(l) \/ HandThrows(l) \/ LoopReturns(l) \/ FinishGame(l)
         \/ \E b \in Bots, n \in {0, 1} : Act(l, b, n)
  PROVE  Continues
<1>1. CASE LoopReturns(l)
      BY <1>1, DropContinues DEF LoopReturns, Drops
<1>2. CASE BeginHand(l)
  <2>1. PICK g : Moves(l, g) /\ loop[l].at = "top" /\ l \in Alive
        BY <1>2, InvParts, BeginHandMoves
  <2> QED BY <2>1, MoveContinues
<1>3. CASE EndHand(l)
  <2>1. /\ l \in Alive /\ loop[l].at = "hand"
        /\ Drops(l) \/ \E g : Moves(l, g)
        BY <1>3, InvParts, EndHandMoves
  <2> QED BY <2>1, MoveContinues, DropContinues
<1>4. CASE HandThrows(l)
  <2>1. /\ l \in Alive /\ loop[l].at = "hand"
        /\ Drops(l) \/ \E g : Moves(l, g)
        BY <1>4, InvParts, HandThrowsMoves
  <2> QED BY <2>1, MoveContinues, DropContinues
<1>5. CASE FinishGame(l)
  <2>1. PICK g : Moves(l, g) /\ g.at = "finished" /\ l \in Alive
        BY <1>5, InvParts, FinishGameMoves
  <2> QED BY <2>1, MoveContinues
<1>6. ASSUME NEW b \in Bots, NEW n \in {0, 1}, Act(l, b, n) PROVE Continues
  <2>1. PICK g : Moves(l, g) /\ loop[l].at = "hand" /\ l \in Alive
        BY <1>6, InvParts, ActMoves
  <2> QED BY <2>1, MoveContinues
<1> QED BY <1>1, <1>2, <1>3, <1>4, <1>5, <1>6

LEMMA OutsideContinues ==
  ASSUME RecoveryInv,
         \/ FindErrored \/ FindFinished \/ FindSilent \/ RemoveGame
         \/ \E b \in Bots : RemovePlayer(b)
         \/ Crash \/ UNCHANGED loop
  PROVE  Continues
<1>1. CASE FindErrored \/ FindFinished
  <2>1. live \in Loops /\ Drops(live)
        BY <1>1, InvParts DEF FindErrored, FindFinished, Drops, LoopsOK, Alive
  <2> QED BY <2>1, DropContinues
<1>2. ASSUME live \in Alive, loop' = [loop EXCEPT ![live] = Stopped(@)] PROVE Continues
  <2>1. PICK g : Moves(live, g) /\ g.at = loop[live].at
        BY <1>2, InvParts, StopMoves
  <2> QED BY <1>2, <2>1, MoveContinues
<1>3. CASE FindSilent
      BY <1>2, <1>3, InvParts DEF FindSilent, LoopsOK
<1>4. CASE RemoveGame
  <2>1. live \in Alive /\ live \in Loops
        BY <1>4, InvParts DEF RemoveGame, LoopsOK, Alive
  <2>2. CASE loop[live].at \in {"error", "finished"}
    <3>1. Drops(live)
          BY <1>4, <2>1, <2>2, InvParts DEF RemoveGame, Drops, TypeOK
    <3> QED BY <2>1, <3>1, DropContinues
  <2>3. CASE loop[live].at \notin {"error", "finished"}
    <3>1. loop' = [loop EXCEPT ![live] = Stopped(@)]
          BY <1>4, <2>1, <2>3, InvParts DEF RemoveGame, TypeOK
    <3> QED BY <1>2, <2>1, <3>1
  <2> QED BY <2>2, <2>3
<1>5. ASSUME NEW b \in Bots, RemovePlayer(b) PROVE Continues
  <2>1. PICK g : Moves(live, g) /\ g.at = loop[live].at /\ live \in Alive
        BY <1>5, InvParts, RemovePlayerMoves
  <2> QED BY <2>1, MoveContinues
<1>6. CASE Crash
      BY <1>6 DEF Crash, Alive, Continues
<1>7. CASE UNCHANGED loop
      BY <1>7 DEF Alive, Continues
<1> QED BY <1>1, <1>3, <1>4, <1>5, <1>6, <1>7

LEMMA WireTypes ==
  ASSUME RecoveryInv
  PROVE  /\ wire \in Seq(Commands) /\ Len(wire) \in Nat
         /\ \A i \in 1 .. Len(wire) : wire[i] \in Commands
<1>1. wire \in Seq(Commands)
      BY InvParts DEF TypeOK
<1> QED BY <1>1

\* Nothing is issued, nobody finishes.
LEMMA QuietKeeps ==
  ASSUME RecoveryInv, OneOfEach, FinishedIsOver, Continues,
         UNCHANGED <<wire, hot, finished, played>>
  PROVE  OneOfEach' /\ FinishedIsOver'
<1>1. OneOfEach'
      BY DEF OneOfEach, Continues, IsGet
<1>2. FinishedIsOver'
      BY DEF FinishedIsOver, Continues, Gone, Going, IsGet, IsSet, IsDel
<1> QED BY <1>1, <1>2

\* The queue after a command was issued.
LEMMA Queue ==
  ASSUME RecoveryInv, NEW c \in Commands, Issue(c)
  PROVE  /\ Len(wire) \in Nat /\ Len(wire') = Len(wire) + 1 /\ wire'[Len(wire')] = c
         /\ \A i \in 1 .. Len(wire) : wire'[i] = wire[i]
         /\ \A i \in 1 .. Len(wire') : \/ i \in 1 .. Len(wire) /\ wire'[i] = wire[i]
                                       \/ i = Len(wire') /\ wire'[i] = c
<1>1. /\ Len(wire) \in Nat /\ Len(wire') = Len(wire) + 1
      /\ \A i \in 1 .. Len(wire) : wire'[i] = wire[i]
      /\ wire'[Len(wire')] = c
      BY WireTypes, Issued
<1> QED BY <1>1

\* A command that does not write it leaves a finished game finished.
LEMMA StillOver ==
  ASSUME RecoveryInv, NEW c \in Commands, Issue(c), UNCHANGED hot,
         NEW g, ~IsSet(c, g), Gone(g) \/ Going(g)
  PROVE  Gone(g)' \/ Going(g)'
<1>1. /\ Len(wire) \in Nat /\ Len(wire') = Len(wire) + 1
      /\ \A i \in 1 .. Len(wire) : wire'[i] = wire[i]
      /\ \A i \in 1 .. Len(wire') : \/ i \in 1 .. Len(wire) /\ wire'[i] = wire[i]
                                    \/ i = Len(wire') /\ wire'[i] = c
      BY Queue
<1>2. \A i \in 1 .. Len(wire') : IsSet(wire'[i], g) => i \in 1 .. Len(wire) /\ IsSet(wire[i], g)
      BY <1>1 DEF IsSet
<1>3. CASE Gone(g)
      BY <1>2, <1>3 DEF Gone, IsSet
<1>4. CASE Going(g)
  <2>1. PICK d \in 1 .. Len(wire) :
          /\ IsDel(wire[d], g)
          /\ \A i \in 1 .. Len(wire) : /\ IsGet(wire[i], g) => i > d
                                       /\ IsSet(wire[i], g) => i < d
        BY <1>4 DEF Going
  <2>2. d \in 1 .. Len(wire') /\ IsDel(wire'[d], g) /\ d < Len(wire')
        BY <1>1, <2>1
  <2>3. \A i \in 1 .. Len(wire') : /\ IsGet(wire'[i], g) => i > d
                                   /\ IsSet(wire'[i], g) => i < d
        BY <1>1, <1>2, <2>1, <2>2
  <2> QED BY <2>2, <2>3 DEF Going, IsGet, IsSet, IsDel
<1> QED BY <1>3, <1>4

\* A snapshot is written of a game that has not finished.
LEMMA WriteKeeps ==
  ASSUME RecoveryInv, OneOfEach, FinishedIsOver, Continues,
         UNCHANGED <<hot, finished, played>>,
         NEW c \in Commands, Issue(c), c.op = "set", c.snap.game \notin finished
  PROVE  OneOfEach' /\ FinishedIsOver'
<1>1. /\ Len(wire) \in Nat /\ Len(wire') = Len(wire) + 1
      /\ \A i \in 1 .. Len(wire) : wire'[i] = wire[i]
      /\ wire'[Len(wire')] = c
      BY WireTypes, Issued
<1>2. \A i \in 1 .. Len(wire') : \A g : IsGet(wire'[i], g) =>
         i \in 1 .. Len(wire) /\ IsGet(wire[i], g)
      BY <1>1 DEF IsGet
<1>3. OneOfEach'
  <2>1. \A i \in 1 .. Len(wire') : wire'[i].op = "get" =>
           i \in 1 .. Len(wire) /\ wire'[i] = wire[i]
        BY <1>1
  <2>2. /\ \A l \in Alive' : loop'[l].game \in played'
        /\ \A l, k \in Alive' : loop'[l].game = loop'[k].game => l = k
        /\ \A l \in Alive' : \A i \in 1 .. Len(wire') : ~IsGet(wire'[i], loop'[l].game)
        BY <1>2 DEF OneOfEach, Continues
  <2>3. /\ \A i, k \in 1 .. Len(wire') :
             \A g \in GameIds : IsGet(wire'[i], g) /\ IsGet(wire'[k], g) => i = k
        /\ \A i \in 1 .. Len(wire') : wire'[i].op = "get" => wire'[i].game \in played'
        BY <1>2, <2>1 DEF OneOfEach
  <2> QED BY <2>2, <2>3 DEF OneOfEach, IsGet
<1>4. \A g \in finished : Gone(g)' \/ Going(g)'
      BY StillOver DEF FinishedIsOver, IsSet
<1>5. FinishedIsOver'
      BY <1>4 DEF FinishedIsOver, Continues
<1> QED BY <1>3, <1>5

\* A snapshot is asked for, of a game whose loop is gone.
LEMMA AskKeeps ==
  ASSUME RecoveryInv, OneOfEach, FinishedIsOver, Continues,
         UNCHANGED <<hot, finished, played>>,
         NEW c \in Commands, Issue(c), c.op = "get", c.game \in played,
         \A i \in 1 .. Len(wire) : ~IsGet(wire[i], c.game),
         \A k \in Alive' : loop[k].game # c.game
  PROVE  OneOfEach' /\ FinishedIsOver'
<1>1. /\ Len(wire) \in Nat /\ Len(wire') = Len(wire) + 1 /\ wire'[Len(wire')] = c
      /\ \A i \in 1 .. Len(wire) : wire'[i] = wire[i]
      BY Queue
<1>2. \A i \in 1 .. Len(wire') : \/ i \in 1 .. Len(wire) /\ wire'[i] = wire[i]
                                 \/ i = Len(wire') /\ wire'[i] = c
      BY Queue
<1>3. OneOfEach'
  <2>1. /\ \A l \in Alive' : loop'[l].game \in played'
        /\ \A l, k \in Alive' : loop'[l].game = loop'[k].game => l = k
        BY DEF OneOfEach, Continues
  <2>2. \A l \in Alive' : \A i \in 1 .. Len(wire') : ~IsGet(wire'[i], loop'[l].game)
        BY <1>2 DEF OneOfEach, Continues, IsGet
  <2>3. \A i, k \in 1 .. Len(wire') :
             \A g \in GameIds : IsGet(wire'[i], g) /\ IsGet(wire'[k], g) => i = k
        BY <1>2 DEF OneOfEach, IsGet
  <2>4. \A i \in 1 .. Len(wire') : wire'[i].op = "get" => wire'[i].game \in played'
        BY <1>2 DEF OneOfEach
  <2> QED BY <2>1, <2>2, <2>3, <2>4 DEF OneOfEach, IsGet
<1>4. \A g \in finished : Gone(g)' \/ Going(g)'
      BY StillOver DEF FinishedIsOver, IsSet
<1>5. FinishedIsOver'
      BY <1>4 DEF FinishedIsOver, Continues
<1> QED BY <1>3, <1>5

\* A game finishes: its deletion is the last that is said of it.
LEMMA FinishKeeps ==
  ASSUME RecoveryInv, OneOfEach, FinishedIsOver, Continues,
         UNCHANGED <<hot, played>>,
         NEW c \in Commands, Issue(c), c.op = "del", c.game \in played,
         finished' = finished \cup {c.game},
         \A i \in 1 .. Len(wire) : ~IsGet(wire[i], c.game),
         \A k \in Alive' : loop[k].game = c.game => loop'[k].at = "finished"
  PROVE  OneOfEach' /\ FinishedIsOver'
<1>1. /\ Len(wire) \in Nat /\ Len(wire') = Len(wire) + 1 /\ wire'[Len(wire')] = c
      /\ \A i \in 1 .. Len(wire) : wire'[i] = wire[i]
      BY Queue
<1>2. \A i \in 1 .. Len(wire') : \/ i \in 1 .. Len(wire) /\ wire'[i] = wire[i]
                                 \/ i = Len(wire') /\ wire'[i] = c
      BY Queue
<1>3. OneOfEach'
  <2>1. /\ \A l \in Alive' : loop'[l].game \in played'
        /\ \A l, k \in Alive' : loop'[l].game = loop'[k].game => l = k
        BY DEF OneOfEach, Continues
  <2>2. \A l \in Alive' : \A i \in 1 .. Len(wire') : ~IsGet(wire'[i], loop'[l].game)
        BY <1>2 DEF OneOfEach, Continues, IsGet
  <2>3. \A i, k \in 1 .. Len(wire') :
             \A g \in GameIds : IsGet(wire'[i], g) /\ IsGet(wire'[k], g) => i = k
        BY <1>2 DEF OneOfEach, IsGet
  <2>4. \A i \in 1 .. Len(wire') : wire'[i].op = "get" => wire'[i].game \in played'
        BY <1>2 DEF OneOfEach
  <2> QED BY <2>1, <2>2, <2>3, <2>4 DEF OneOfEach, IsGet
<1>4. \A g \in finished : Gone(g)' \/ Going(g)'
      BY StillOver DEF FinishedIsOver, IsSet
<1>5. Going(c.game)'
  <2> DEFINE d == Len(wire')
  <2>1. d \in 1 .. Len(wire') /\ IsDel(wire'[d], c.game)
        BY <1>1 DEF IsDel
  <2>2. \A i \in 1 .. Len(wire') : /\ IsGet(wire'[i], c.game) => i > d
                                   /\ IsSet(wire'[i], c.game) => i < d
        BY <1>1, <1>2 DEF IsGet, IsSet
  <2> QED BY <2>1, <2>2 DEF Going, IsGet, IsSet, IsDel
<1>6. FinishedIsOver'
  <2>1. \A k \in Alive' : loop'[k].game \in finished' => loop'[k].at = "finished"
        BY DEF FinishedIsOver, Continues
  <2> QED BY <1>4, <1>5, <2>1 DEF FinishedIsOver
<1> QED BY <1>3, <1>6

\* A game starts that has not finished, has no loop and is asked for no more.
LEMMA StartOver ==
  ASSUME RecoveryInv, OneOfEach, FinishedIsOver,
         NEW n \in Loops, n \notin Alive, NEW g,
         Alive' = Alive \cup {n},
         \A k \in Loops : loop'[k] = IF k = n THEN g ELSE loop[k],
         g.game \in played', played \subseteq played', g.game \notin finished,
         \A k \in Alive : loop[k].game # g.game,
         \A i \in 1 .. Len(wire') : ~IsGet(wire'[i], g.game)
  PROVE  /\ \A l \in Alive' : loop'[l].game \in played'
         /\ \A l, k \in Alive' : loop'[l].game = loop'[k].game => l = k
         /\ (\A l \in Alive : \A i \in 1 .. Len(wire') : ~IsGet(wire'[i], loop[l].game))
              => \A l \in Alive' : \A i \in 1 .. Len(wire') : ~IsGet(wire'[i], loop'[l].game)
         /\ \A l \in Alive' : loop'[l].game \in finished => loop'[l].at = "finished"
<1>1. \A k \in Alive : k \in Loops /\ k # n /\ loop'[k] = loop[k]
      BY DEF Alive
<1>2. loop'[n] = g
      OBVIOUS
<1> QED BY <1>1, <1>2 DEF OneOfEach, FinishedIsOver

LEMMA CreateGameOver ==
  ASSUME RecoveryInv, OneOfEach, FinishedIsOver, NEW g \in GameIds, CreateGame(g)
  PROVE  /\ OneOfEach' /\ FinishedIsOver'
         /\ \A l \in Loops : loop[l] = None /\ loop'[l] # None => loop'[l].game \notin finished
<1>1. /\ live = None /\ Alive # Loops /\ live' = NewLoop /\ g \notin played
      /\ loop' = [loop EXCEPT ![NewLoop] = NewGame(g)]
      /\ played' = played \cup {g} /\ UNCHANGED <<wire, hot, boot, finished>>
      BY DEF CreateGame, NewGame
<1>2. /\ NewGame(g).pending \subseteq NewGame(g).left /\ NewGame(g).running
      /\ NewGame(g).game = g
      BY DEF NewGame
<1> DEFINE n == NewLoop
           h == NewGame(g)
<1>3. /\ n \in Loops /\ n \notin Alive /\ Alive' = Alive \cup {n}
      /\ \A k \in Loops : loop'[k] = IF k = n THEN h ELSE loop[k]
      BY <1>1, <1>2, CreatedGame, InvParts, StartKeeps
<1>4. /\ h.game = g /\ g \notin finished
      /\ \A k \in Alive : loop[k].game # g
      /\ \A i \in 1 .. Len(wire') : ~IsGet(wire'[i], g)
      BY <1>1, <1>2 DEF OneOfEach, FinishedIsOver, IsGet
<1> HIDE DEF n, h
<1>5. /\ \A l \in Alive' : loop'[l].game \in played'
      /\ \A l, k \in Alive' : loop'[l].game = loop'[k].game => l = k
      /\ \A l \in Alive' : \A i \in 1 .. Len(wire') : ~IsGet(wire'[i], loop'[l].game)
      /\ \A l \in Alive' : loop'[l].game \in finished => loop'[l].at = "finished"
  <2>1. \A l \in Alive : \A i \in 1 .. Len(wire') : ~IsGet(wire'[i], loop[l].game)
        BY <1>1 DEF OneOfEach
  <2>2. h.game \in played' /\ played \subseteq played'
        BY <1>1, <1>4
  <2> QED BY <1>3, <1>4, <2>1, <2>2, StartOver
<1>6. OneOfEach'
      BY <1>1, <1>5 DEF OneOfEach, IsGet
<1>7. FinishedIsOver'
      BY <1>1, <1>5 DEF FinishedIsOver, Gone, Going, IsGet, IsSet, IsDel
<1>8. \A l \in Loops : loop[l] = None /\ loop'[l] # None => loop'[l].game \notin finished
      BY <1>3, <1>4
<1> QED BY <1>6, <1>7, <1>8

\* Redis executes a command.
LEMMA ServesOver ==
  ASSUME RecoveryInv, OneOfEach, FinishedIsOver,
         \A g \in GameIds : hot[g] # None => hot[g].game = g, RedisServes
  PROVE  /\ OneOfEach' /\ FinishedIsOver'
         /\ \A l \in Loops : loop[l] = None /\ loop'[l] # None => loop'[l].game \notin finished
<1> DEFINE c == Head(wire)
<1>1. /\ wire # <<>> /\ wire' = Tail(wire) /\ Serve(c) /\ UNCHANGED <<boot, finished, played>>
      BY DEF RedisServes, Ghosts
<1>2. /\ Len(wire) \in Nat \ {0} /\ Len(wire') = Len(wire) - 1
      /\ \A i \in 1 .. Len(wire') : wire'[i] = wire[i + 1] /\ i + 1 \in 1 .. Len(wire)
      /\ c = wire[1] /\ c \in Commands /\ 1 \in 1 .. Len(wire)
      BY <1>1, WireTypes, Served
<1> HIDE DEF c
\* The rest of the queue.
<1>3. /\ \A l \in Alive : \A i \in 1 .. Len(wire') : ~IsGet(wire'[i], loop[l].game)
      /\ \A i \in 1 .. Len(wire') : wire'[i].op = "get" => wire'[i].game \in played'
      BY <1>1, <1>2 DEF OneOfEach
<1>4. \A i, k \in 1 .. Len(wire') :
         \A g \in GameIds : IsGet(wire'[i], g) /\ IsGet(wire'[k], g) => i = k
  <2> TAKE i, k \in 1 .. Len(wire')
  <2> TAKE g \in GameIds
  <2> HAVE IsGet(wire'[i], g) /\ IsGet(wire'[k], g)
  <2>1. i + 1 = k + 1
        BY <1>2 DEF OneOfEach
  <2> QED BY <2>1
<1>5. c.op = "get" => \A i \in 1 .. Len(wire') : ~IsGet(wire'[i], c.game)
  <2> SUFFICES ASSUME c.op = "get", NEW i \in 1 .. Len(wire'), IsGet(wire'[i], c.game)
               PROVE  FALSE
      OBVIOUS
  <2>1. c.game \in GameIds /\ IsGet(wire[1], c.game) /\ IsGet(wire[i + 1], c.game)
        BY <1>2, CommandTypes DEF IsGet
  <2>2. 1 = i + 1
        BY <1>2, <2>1 DEF OneOfEach
  <2> QED BY <2>2
\* What is finished is on its way out, or gone.
<1>6. ASSUME NEW g \in finished, UNCHANGED hot \/ c.op # "get" PROVE Gone(g)' \/ Going(g)'
  <2>0. g \in GameIds /\ hot \in [GameIds -> Snapshots \cup {None}]
        BY InvParts DEF TypeOK
  <2>1. CASE Gone(g)
    <3>1. \A i \in 1 .. Len(wire') : ~IsSet(wire'[i], g)
          BY <1>2, <2>1 DEF Gone
    <3>2. ~IsSet(c, g)
          BY <1>2, <2>1 DEF Gone
    <3>3. hot'[g] = None
          BY <1>1, <1>2, <2>0, <2>1, <3>2, CommandTypes DEF Serve, Gone, IsSet
    <3> QED BY <3>1, <3>3 DEF Gone, IsSet
  <2>2. CASE Going(g)
    <3>1. PICK d \in 1 .. Len(wire) :
            /\ IsDel(wire[d], g)
            /\ \A i \in 1 .. Len(wire) : /\ IsGet(wire[i], g) => i > d
                                         /\ IsSet(wire[i], g) => i < d
          BY <2>2 DEF Going
    <3>2. CASE d = 1
      <4>1. c.op = "del" /\ c.game = g
            BY <1>2, <3>1, <3>2 DEF IsDel
      <4>2. hot'[g] = None
            BY <1>1, <2>0, <4>1 DEF Serve
      <4>3. \A i \in 1 .. Len(wire') : ~IsSet(wire'[i], g)
            BY <1>2, <3>1, <3>2
      <4> QED BY <4>2, <4>3 DEF Gone, IsSet
    <3>3. CASE d # 1
      <4>1. d - 1 \in 1 .. Len(wire') /\ wire'[d - 1] = wire[d]
            BY <1>2, <3>1, <3>3
      <4>2. \A i \in 1 .. Len(wire') : /\ IsGet(wire'[i], g) => i > d - 1
                                       /\ IsSet(wire'[i], g) => i < d - 1
            BY SMTT(60), <1>2, <3>1
      <4> QED BY <3>1, <4>1, <4>2 DEF Going, IsGet, IsSet, IsDel
    <3> QED BY <3>2, <3>3
  <2> QED BY <2>1, <2>2 DEF FinishedIsOver
<1>7. \A g \in finished : Gone(g)' \/ Going(g)'
      BY <1>1, <1>6 DEF Serve
<1>8. CASE UNCHANGED loop
  <2>1. Alive' = Alive
        BY <1>8 DEF Alive
  <2>2. OneOfEach'
        BY <1>1, <1>3, <1>4, <1>8, <2>1 DEF OneOfEach, IsGet
  <2>3. FinishedIsOver'
        BY <1>1, <1>7, <1>8, <2>1 DEF FinishedIsOver
  <2> QED BY <1>8, <2>2, <2>3
<1>9. ASSUME c.op = "get", hot[c.game] # None, TableFree, Recover(hot[c.game])
      PROVE  /\ OneOfEach' /\ FinishedIsOver'
             /\ \A l \in Loops :
                  loop[l] = None /\ loop'[l] # None => loop'[l].game \notin finished
  <2> DEFINE s == hot[c.game]
             n == NewLoop
             h == Recovered(s)
  <2>1. c.game \in GameIds /\ s \in Snapshots /\ Whole(s) /\ s.game = c.game
        BY <1>2, <1>9, InvParts, CommandTypes DEF TypeOK, CopiesOK
  <2>2. /\ h \in Instances /\ GameOK(h) /\ h.pending \subseteq h.left
        /\ h.game = c.game /\ h.running
        BY <2>1, RecoveredGame
  <2>3. /\ live = None /\ Alive # Loops /\ live' = NewLoop
        /\ loop' = [loop EXCEPT ![NewLoop] = h]
        BY <1>9 DEF Recover, TableFree
  <2> HIDE DEF h, s
  <2>4. /\ n \in Loops /\ n \notin Alive /\ Alive' = Alive \cup {n}
        /\ \A k \in Loops : loop'[k] = IF k = n THEN h ELSE loop[k]
        BY <2>2, <2>3, InvParts, StartKeeps
  <2> HIDE DEF n
  <2>5. IsGet(wire[1], c.game)
        BY <1>2, <1>9 DEF IsGet
  <2>6. c.game \notin finished
    <3>1. ~Gone(c.game)
          BY <1>9 DEF Gone
    <3>2. ~Going(c.game)
          BY <1>2, <2>5 DEF Going
    <3> QED BY <3>1, <3>2 DEF FinishedIsOver
  <2>7. c.game \in played' /\ \A k \in Alive : loop[k].game # c.game
        BY <1>1, <1>2, <1>9, <2>5 DEF OneOfEach
  <2>8. /\ \A l \in Alive' : loop'[l].game \in played'
        /\ \A l, k \in Alive' : loop'[l].game = loop'[k].game => l = k
        /\ \A l \in Alive' : \A i \in 1 .. Len(wire') : ~IsGet(wire'[i], loop'[l].game)
        /\ \A l \in Alive' : loop'[l].game \in finished => loop'[l].at = "finished"
    <3>1. played \subseteq played'
          BY <1>1
    <3> QED BY <1>3, <1>5, <1>9, <2>2, <2>4, <2>6, <2>7, <3>1, StartOver
  <2>9. OneOfEach'
        BY <1>1, <1>3, <1>4, <2>8 DEF OneOfEach, IsGet
  <2>10. FinishedIsOver'
        BY <1>1, <1>7, <2>8 DEF FinishedIsOver
  <2> QED BY <2>2, <2>4, <2>6, <2>9, <2>10
<1> QED BY <1>1, <1>8, <1>9 DEF Serve, Recover

\* The steps that start no game.
LEMMA OtherOver ==
  ASSUME RecoveryInv, OneOfEach, FinishedIsOver,
         \/ \E l \in Loops : \/ LoopSteps(l) \/ BeginHand(l) \/ HandThrows(l)
                             \/ \E b \in Bots, n \in {0, 1} : Act(l, b, n)
         \/ FindErrored \/ FindFinished \/ RemoveGame \/ UNCHANGED vars
         \/ \E b \in Bots : RemovePlayer(b)
  PROVE  Continues /\ OneOfEach' /\ FinishedIsOver'
<1>1. Continues
      BY LoopStepContinues, OutsideContinues DEF LoopSteps, vars
<1>2. ASSUME NEW l \in Loops, FinishGame(l) PROVE OneOfEach' /\ FinishedIsOver'
  <2> DEFINE c == [op |-> "del", game |-> loop[l].game]
  <2>1. /\ l \in Alive /\ loop[l].at = "top" /\ Issue(c)
        /\ UNCHANGED <<hot, played>> /\ finished' = finished \cup {c.game}
        BY <1>2 DEF FinishGame, AtTop, FinishIssues
  <2>2. c \in Commands /\ c.op = "del" /\ c.game = loop[l].game
        BY <2>1, CommandsMade, InvParts, AliveIsInstance, GameTypes
  <2> HIDE DEF c
  <2>3. /\ c.game \in played /\ \A i \in 1 .. Len(wire) : ~IsGet(wire[i], c.game)
        BY <2>1, <2>2 DEF OneOfEach
  <2>4. loop'[l].at = "finished"
        BY <1>2, <2>1, InvParts, AliveIsInstance DEF FinishGame, TypeOK, Instances
  <2>5. \A k \in Alive' : loop[k].game = c.game => loop'[k].at = "finished"
        BY <1>1, <2>1, <2>2, <2>4 DEF OneOfEach, Continues
  <2> QED BY <1>1, <2>1, <2>2, <2>3, <2>5, FinishKeeps
<1>3. ASSUME NEW l \in Loops, NEW b \in Bots, NEW n \in {0, 1}, Act(l, b, n)
      PROVE  OneOfEach' /\ FinishedIsOver'
  <2>1. PICK g : /\ Moves(l, g) /\ l \in Alive /\ loop[l].at = "hand"
                 /\ Issue([op |-> "set", snap |-> Snapshot(g)])
        BY <1>3, InvParts, ActMoves
  <2> DEFINE c == [op |-> "set", snap |-> Snapshot(g)]
  <2>2. /\ Snapshot(g) \in Snapshots /\ Snapshot(g).game = loop[l].game
        BY <2>1, SnapshotTaken DEF Moves
  <2>3. c \in Commands /\ c.op = "set" /\ c.snap.game = loop[l].game /\ Issue(c)
        BY <2>1, <2>2, CommandsMade
  <2> HIDE DEF c
  <2>4. loop[l].game \notin finished
        BY <2>1 DEF FinishedIsOver
  <2>5. UNCHANGED <<hot, finished, played>>
        BY <1>3 DEF Act, Ghosts
  <2> QED BY <1>1, <2>3, <2>4, <2>5, WriteKeeps
<1>4. ASSUME FindErrored \/ FindFinished PROVE OneOfEach' /\ FinishedIsOver'
  <2> DEFINE c == [op |-> "get", game |-> loop[live].game]
  <2>1. /\ live # None /\ Issue(c) /\ Drops(live) /\ UNCHANGED <<hot, finished, played>>
        BY <1>4 DEF FindErrored, FindFinished, DeclareStuck, Drops, Ghosts
  <2>2. live \in Alive /\ live \in Loops
        BY <2>1, InvParts DEF LoopsOK, Alive
  <2>3. c \in Commands /\ c.op = "get" /\ c.game = loop[live].game
        BY <2>2, CommandsMade, InvParts, AliveIsInstance, GameTypes
  <2> HIDE DEF c
  <2>4. /\ c.game \in played /\ \A i \in 1 .. Len(wire) : ~IsGet(wire[i], c.game)
        BY <2>2, <2>3 DEF OneOfEach
  <2>5. Alive' = Alive \ {live}
        BY <2>1, <2>2, InvParts, LoopsTyped DEF Drops
  <2>6. \A k \in Alive' : loop[k].game # c.game
        BY <2>2, <2>3, <2>5 DEF OneOfEach
  <2> QED BY <1>1, <2>1, <2>3, <2>4, <2>6, AskKeeps
<1>5. ASSUME UNCHANGED <<wire, hot, finished, played>> PROVE OneOfEach' /\ FinishedIsOver'
      BY <1>1, <1>5, QuietKeeps
<1> QED BY <1>1, <1>2, <1>3, <1>4, <1>5
        DEF LoopSteps, BeginHand, EndHand, HandThrows, LoopReturns, RemoveGame, RemovePlayer,
            Ghosts, vars

\* Before the first crash there are no candidates, and no calm step hides a fault.
LEMMA FinishedStep == RecoveryInv /\ FinishedInv /\ [Next]_vars => FinishedInv'
<1> SUFFICES ASSUME RecoveryInv, FinishedInv, [Next]_vars PROVE FinishedInv'
    OBVIOUS
<1>1. faults \subseteq faults'
      BY DEF Next, LoopSteps, Recoveries, LoopReturns, FinishGame, BeginHand, Act, EndHand,
             HandThrows, FindErrored, FindFinished, FindSilent, RemoveGame, RedisServes,
             RedisFails, Crash, ScanHotStates, TryCandidate, CreateGame, RemovePlayer,
             Fault, Ghosts, vars
<1>2. \A g \in GameIds : hot'[g] # None => hot'[g].game = g
  <2>1. CASE UNCHANGED hot
        BY <2>1 DEF FinishedInv
  <2>2. CASE RedisServes
    <3> DEFINE c == Head(wire)
    <3>1. Serve(c) /\ c \in Commands
          BY <2>2, WireTypes, Served DEF RedisServes
    <3>2. hot \in [GameIds -> Snapshots \cup {None}]
          BY InvParts DEF TypeOK
    <3> HIDE DEF c
    <3> QED BY <3>1, <3>2, CommandTypes DEF Serve, FinishedInv
  <2> QED BY <2>1, <2>2
          DEF Next, LoopSteps, Recoveries, LoopReturns, FinishGame, BeginHand, Act, EndHand,
              HandThrows, FindErrored, FindFinished, FindSilent, RemoveGame,
              RedisFails, Crash, ScanHotStates, TryCandidate, CreateGame, RemovePlayer, vars
<1>3. boot' # {} => "crash" \in faults'
  <2>1. CASE UNCHANGED boot
        BY <1>1, <2>1 DEF FinishedInv
  <2>2. CASE Crash
        BY <2>2 DEF Crash, Fault
  <2>3. CASE ScanHotStates \/ TryCandidate
        BY <1>1, <2>3, NoneAssumption DEF ScanHotStates, TryCandidate, FinishedInv
  <2> QED BY <2>1, <2>2, <2>3
          DEF Next, LoopSteps, Recoveries, LoopReturns, FinishGame, BeginHand, Act, EndHand,
              HandThrows, FindErrored, FindFinished, FindSilent, RemoveGame, RedisServes,
              RedisFails, CreateGame, RemovePlayer, Ghosts, vars
<1>4. ASSUME Calm' PROVE OneOfEach' /\ FinishedIsOver'
  <2>1. OneOfEach /\ FinishedIsOver
        BY <1>1, <1>4 DEF FinishedInv, Calm
  <2>2. ~Crash /\ ~FindSilent /\ ~RedisFails
        BY <1>4 DEF Crash, FindSilent, RedisFails, Fault, Calm
  <2>3. ~ScanHotStates /\ ~TryCandidate
        BY <1>1, <1>4, NoneAssumption DEF FinishedInv, Calm, ScanHotStates, TryCandidate
  <2>4. CASE \E g \in GameIds : CreateGame(g)
        BY <2>1, <2>4, CreateGameOver
  <2>5. CASE RedisServes
        BY <2>1, <2>5, ServesOver DEF FinishedInv
  <2> QED BY <2>1, <2>2, <2>3, <2>4, <2>5, OtherOver DEF Next, Recoveries
<1> QED BY <1>2, <1>3, <1>4 DEF FinishedInv

LEMMA InitFinished == Init => FinishedInv
<1> SUFFICES ASSUME Init PROVE FinishedInv
    OBVIOUS
<1>1. Alive = {} /\ Len(wire) = 0 /\ boot = {} /\ finished = {} /\ \A g \in GameIds : hot[g] = None
      BY DEF Init, Alive
<1> QED BY <1>1 DEF FinishedInv, OneOfEach, FinishedIsOver

\* A loop that starts does not play a finished game, while nothing has failed.
LEMMA NoFinishedGameStarts ==
  ASSUME RecoveryInv, FinishedInv, [Next]_vars,
         NEW l \in Loops, loop[l] = None, loop'[l] # None, loop'[l].game \in finished
  PROVE  faults \intersect {"crash", "lost", "stall"} # {}
<1> SUFFICES ASSUME Calm PROVE FALSE
    BY DEF Calm
<1>1. OneOfEach /\ FinishedIsOver
      BY DEF FinishedInv
<1>2. ~TryCandidate
      BY DEF FinishedInv, Calm, TryCandidate
<1>3. CASE Continues
      BY <1>3 DEF Continues, Alive
<1>4. CASE \E g \in GameIds : CreateGame(g)
      BY <1>1, <1>4, CreateGameOver
<1>5. CASE RedisServes
      BY <1>1, <1>5, ServesOver DEF FinishedInv
<1>6. CASE RedisFails \/ ScanHotStates \/ UNCHANGED vars
      BY <1>3, <1>6, OutsideContinues DEF RedisFails, ScanHotStates, vars
<1>7. CASE FindErrored \/ FindFinished \/ FindSilent \/ RemoveGame \/ Crash
           \/ \E b \in Bots : RemovePlayer(b)
      BY <1>3, <1>7, OutsideContinues
<1>8. ASSUME NEW k \in Loops,
             \/ LoopSteps(k) \/ BeginHand(k) \/ HandThrows(k)
             \/ \E b \in Bots, n \in {0, 1} : Act(k, b, n)
      PROVE  FALSE
      BY <1>3, <1>8, LoopStepContinues DEF LoopSteps
<1> QED BY <1>2, <1>4, <1>5, <1>6, <1>7, <1>8 DEF Next, Recoveries

\* A game that has finished is never played again, however the watchdog's searches, the
\* writes of other games and their deletions follow one another, unless the server died,
\* a command was lost or a loop was given up before it was done.
THEOREM FinishedGamesStayFinished == Spec => FinishedStaysFinished
<1>1. RecoveryInv /\ FinishedInv /\ [Next]_vars =>
        [\A l \in Loops :
           loop[l] = None /\ loop'[l] # None /\ loop'[l].game \in finished =>
             faults \intersect {"crash", "lost", "stall"} # {}]_vars
      BY NoFinishedGameStarts
<1> QED BY <1>1, InitSafe, StepSafe, InitFinished, FinishedStep, PTL
        DEF Spec, FinishedStaysFinished

=============================================================================
