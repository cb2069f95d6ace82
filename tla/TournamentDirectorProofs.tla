---------------------- MODULE TournamentDirectorProofs ----------------------
(***************************************************************************)
(* What holds of a tournament of any number of bots and tables. While games  *)
(* play and the handlers of the director overlap, every bot is at one table   *)
(* at most (OneTable), and the winner is stored first (WinnerIsFirst). While   *)
(* no handler gets a turn inside a hand, no table is overfilled               *)
(* (SeatsRespected), nobody is out with chips (EliminatedOnlyAtZero), and no  *)
(* step but a stale move makes or loses chips (ChipsKept); so a tournament of *)
(* two even tables keeps its chips (TournamentChips).                          *)
(***************************************************************************)
EXTENDS TournamentDirector, SumLemmas, SequenceTheorems

-----------------------------------------------------------------------------
(* Games *)

Changes == {"add", "remove"} \X Bots \X Nat
Games == [seated : SUBSET Bots, gone : SUBSET Bots, chips : [Bots -> Nat],
          bets : [Bots -> Nat], loop : Loops, pending : Seq(Changes)]

\* The bots that sit at a table, and those that join it at the end of its hand.
Sitting(g) == g.seated \ g.gone
Coming(g)  == {b \in Bots : \E i \in DOMAIN g.pending :
                              g.pending[i][1] = "add" /\ g.pending[i][2] = b}
Held(g)    == Sitting(g) \union Coming(g)

\* Joins and leaves wait only while a hand is played.
GameOK(g) == g \in Games /\ (g.loop # "hand" => g.pending = <<>>)

\* No bot comes to the table, and none of those that come is seated twice.
Follows(h, g) ==
  /\ GameOK(h)
  /\ g.loop = "none" => h.loop = "none"
  /\ Held(h) \subseteq Held(g) /\ Coming(h) \subseteq Coming(g)
  /\ Sitting(g) \cap Coming(g) = {} => Sitting(h) \cap Coming(h) = {}

LEMMA FollowsItself ==
  ASSUME NEW g, GameOK(g)
  PROVE  Follows(g, g)
BY DEF Follows

LEMMA FollowsOn ==
  ASSUME NEW g, NEW h, NEW k, Follows(h, g), Follows(k, h)
  PROVE  Follows(k, g)
BY DEF Follows

\* A change of the loop, the chips and the bets moves nobody.
LEMMA FollowsByLoop ==
  ASSUME NEW g, GameOK(g), NEW h \in Games,
         h.seated = g.seated, h.gone = g.gone, h.pending = g.pending,
         g.loop = "none" => h.loop = "none",
         h.loop # "hand" => h.pending = <<>>
  PROVE  Follows(h, g)
<1>1. Sitting(h) = Sitting(g)
      BY DEF Sitting
<1>2. Coming(h) = Coming(g)
      BY DEF Coming
<1> QED BY <1>1, <1>2 DEF Follows, GameOK, Held

\* A table whose pending changes are none has nobody coming.
LEMMA NobodyComing ==
  ASSUME NEW g, g.pending = <<>>
  PROVE  Coming(g) = {}
BY DEF Coming

\* A bot that is taken from its table at once.
LEMMA RemoveNowFollows ==
  ASSUME NEW g, GameOK(g), NEW b \in Bots
  PROVE  /\ RemoveNow(g, b) \in Games
         /\ RemoveNow(g, b).pending = g.pending
         /\ RemoveNow(g, b).loop = g.loop
         /\ Sitting(RemoveNow(g, b)) = Sitting(g) \ {b}
<1>1. g \in Games
      BY DEF GameOK
<1> DEFINE c == [g.chips EXCEPT ![b] = 0]
           s == g.gone \union {b}
<1>2. c \in [Bots -> Nat] /\ s \in SUBSET Bots
      BY <1>1 DEF Games
<1>3. RemoveNow(g, b) = [g EXCEPT !.gone = s, !.chips = c]
      BY <1>1 DEF RemoveNow, Games
<1> HIDE DEF c, s
<1>4. RemoveNow(g, b) = [seated |-> g.seated, gone |-> s, chips |-> c, bets |-> g.bets,
                         pending |-> g.pending, loop |-> g.loop]
      BY <1>1, <1>3 DEF Games
<1> QED BY <1>1, <1>2, <1>4 DEF Games, Sitting, s

LEMMA RemovedFollows ==
  ASSUME NEW g, GameOK(g), NEW b \in Bots
  PROVE  /\ Follows(Removed(g, b), g)
         /\ b \notin Sitting(Removed(g, b))
         /\ Removed(g, b).loop = g.loop
         /\ Coming(Removed(g, b)) = Coming(g)
<1> DEFINE h == Removed(g, b)
<1>0. g \in Games
      BY DEF GameOK
<1>1. CASE g.loop = "hand"
  <2>1. h = [seated |-> g.seated, gone |-> g.gone \union {b},
             chips |-> g.chips, bets |-> g.bets,
             pending |-> Append(g.pending, <<"remove", b, 0>>), loop |-> g.loop]
        BY <1>0, <1>1 DEF Removed, Games
  <2>2. <<"remove", b, 0>> \in Changes
        BY DEF Changes
  <2>3. g.pending \in Seq(Changes)
        BY <1>0 DEF Games
  <2>4. Append(g.pending, <<"remove", b, 0>>) \in Seq(Changes)
        BY <2>2, <2>3
  <2>5. h \in Games
        BY <1>0, <2>1, <2>4 DEF Games
  <2>6. Sitting(h) = Sitting(g) \ {b}
        BY <2>1 DEF Sitting
  <2>7. Coming(h) = Coming(g)
    <3>1. /\ DOMAIN Append(g.pending, <<"remove", b, 0>>)
                = DOMAIN g.pending \union {Len(g.pending) + 1}
          /\ \A i \in DOMAIN g.pending : Append(g.pending, <<"remove", b, 0>>)[i] = g.pending[i]
          /\ Append(g.pending, <<"remove", b, 0>>)[Len(g.pending) + 1] = <<"remove", b, 0>>
          BY <2>2, <2>3
    <3>2. <<"remove", b, 0>>[1] # "add"
          OBVIOUS
    <3> QED BY <2>1, <3>1, <3>2 DEF Coming
  <2>8. h.loop = g.loop
        BY <2>1
  <2> HIDE DEF h
  <2>9. Follows(h, g)
        BY <1>1, <2>5, <2>6, <2>7, <2>8 DEF Follows, GameOK, Held
  <2> QED BY <2>6, <2>7, <2>8, <2>9 DEF h
<1>2. CASE g.loop # "hand"
  <2>1. h = RemoveNow(g, b)
        BY <1>2 DEF Removed
  <2>2. g.pending = <<>>
        BY <1>2 DEF GameOK
  <2>3. Coming(g) = {} /\ Coming(h) = {}
        BY <2>1, <2>2, RemoveNowFollows, NobodyComing
  <2> QED BY <1>2, <2>1, <2>2, <2>3, RemoveNowFollows DEF Follows, GameOK, Held
<1> QED BY <1>1, <1>2

\* A bot that joins a table at once.
LEMMA AddNowSeats ==
  ASSUME NEW g, g \in Games, NEW b \in Bots, NEW stack \in Nat
  PROVE  /\ AddNow(g, b, stack) \in Games
         /\ AddNow(g, b, stack).pending = g.pending
         /\ g.loop # "none" => AddNow(g, b, stack).loop = g.loop
         /\ AddNow(g, b, stack).loop \in {g.loop, "due"}
         /\ Sitting(AddNow(g, b, stack)) \subseteq Sitting(g) \union {b}
<1> DEFINE h == AddNow(g, b, stack)
<1>1. CASE b \in g.seated
  <2>1. h = [seated |-> g.seated, gone |-> g.gone \ {b}, chips |-> g.chips,
             bets |-> g.bets, pending |-> g.pending, loop |-> g.loop]
        BY <1>1 DEF AddNow, Games
  <2> QED BY <2>1 DEF Games, Sitting
<1>2. CASE b \notin g.seated
  <2> DEFINE l == IF g.loop = "none" /\ g.seated # g.gone THEN "due" ELSE g.loop
             c == [g.chips EXCEPT ![b] = stack]
  <2>1. h = [seated |-> g.seated \union {b}, gone |-> g.gone, chips |-> c,
             bets |-> g.bets, pending |-> g.pending, loop |-> l]
        BY <1>2 DEF AddNow, Games
  <2>2. c \in [Bots -> Nat]
        BY DEF Games
  <2>3. l \in Loops /\ l \in {g.loop, "due"} /\ (g.loop # "none" => l = g.loop)
        BY DEF Games, Loops
  <2> HIDE DEF l, c
  <2> QED BY <2>1, <2>2, <2>3 DEF Games, Sitting
<1> QED BY <1>1, <1>2

LEMMA AddedSeats ==
  ASSUME NEW g, GameOK(g), NEW b \in Bots, NEW stack \in Nat
  PROVE  /\ GameOK(Added(g, b, stack))
         /\ Held(Added(g, b, stack)) \subseteq Held(g) \union {b}
         /\ Coming(Added(g, b, stack)) \subseteq Coming(g) \union {b}
         /\ Sitting(g) \cap Coming(g) = {} /\ b \notin Held(g)
              => Sitting(Added(g, b, stack)) \cap Coming(Added(g, b, stack)) = {}
<1> DEFINE h == Added(g, b, stack)
<1>0. g \in Games
      BY DEF GameOK
<1>1. CASE g.loop = "hand"
  <2> DEFINE m == <<"add", b, stack>>
  <2>1. h = [seated |-> g.seated, gone |-> g.gone, chips |-> g.chips, bets |-> g.bets,
             pending |-> Append(g.pending, m), loop |-> g.loop]
        BY <1>0, <1>1 DEF Added, Games
  <2>2. m \in Changes /\ m[2] = b
        BY DEF Changes
  <2>3. g.pending \in Seq(Changes)
        BY <1>0 DEF Games
  <2> HIDE DEF m
  <2>4. Append(g.pending, m) \in Seq(Changes)
        BY <2>2, <2>3
  <2>5. h \in Games
        BY <1>0, <2>1, <2>4 DEF Games
  <2>6. Sitting(h) = Sitting(g)
        BY <2>1 DEF Sitting
  <2>7. Coming(h) \subseteq Coming(g) \union {b}
    <3>1. /\ DOMAIN Append(g.pending, m) = DOMAIN g.pending \union {Len(g.pending) + 1}
          /\ \A i \in DOMAIN g.pending : Append(g.pending, m)[i] = g.pending[i]
          /\ Append(g.pending, m)[Len(g.pending) + 1] = m
          BY <2>2, <2>3
    <3> QED BY <2>1, <2>2, <3>1 DEF Coming
  <2>8. h.loop = "hand"
        BY <1>1, <2>1
  <2> HIDE DEF h
  <2> QED BY <2>5, <2>6, <2>7, <2>8 DEF GameOK, Held, h
<1>2. CASE g.loop # "hand"
  <2>1. h = AddNow(g, b, stack)
        BY <1>2 DEF Added
  <2>2. g.pending = <<>>
        BY <1>2 DEF GameOK
  <2> HIDE DEF h
  <2>3. h \in Games /\ h.pending = <<>> /\ Sitting(h) \subseteq Sitting(g) \union {b}
        BY <1>0, <2>1, <2>2, AddNowSeats
  <2>4. Coming(h) = {}
        BY <2>3, NobodyComing
  <2> QED BY <2>3, <2>4 DEF GameOK, Held, h
<1> QED BY <1>1, <1>2
-----------------------------------------------------------------------------
(* The changes that wait for the end of a hand: FoldLeft recurses over the     *)
(* subsets of the positions, and applies the one at the greatest last.         *)

Applied(h, m) == IF m[1] = "add" THEN AddNow(h, m[2], m[3]) ELSE RemoveNow(h, m[2])
LastTurn(g, f, s) ==
  IF s = {} THEN [g EXCEPT !.pending = <<>>]
  ELSE Applied(f[s \ {Max(s)}], g.pending[Max(s)])

\* The games that may come out, of a hand that some changes are left to.
DrainedGames(g) ==
  {h \in Games : h.pending = <<>> /\ h.loop = g.loop /\ Sitting(h) \subseteq Held(g)}

\* A set of positions has a last one.
LEMMA LastPosition ==
  ASSUME NEW n \in Nat, NEW s \in SUBSET (1 .. n), s # {}
  PROVE  Max(s) \in s
<1> DEFINE f == [i \in 1 .. n |-> i]
<1>1. IsFiniteSet(1 .. n)
      BY FS_Interval
<1>2. f \in [1 .. n -> Int]
      OBVIOUS
<1>3. \E i \in s : \A j \in s : f[j] <= f[i]
  <2> HIDE DEF f
  <2> QED BY <1>1, <1>2, GreatestExists
<1>4. \E i \in s : \A j \in s : i >= j
      BY <1>3
<1> QED BY <1>4 DEF Max

\* So is the game without any change.
LEMMA ClearedStays ==
  ASSUME NEW g \in Games
  PROVE  [g EXCEPT !.pending = <<>>] \in DrainedGames(g)
<1> DEFINE h == [g EXCEPT !.pending = <<>>]
<1>1. /\ h.seated = g.seated /\ h.gone = g.gone
      /\ h.loop = g.loop /\ h.pending = <<>>
      BY DEF Games
<1>2. <<>> \in Seq(Changes)
      OBVIOUS
<1>3. h \in Games
      BY <1>2 DEF Games
<1>4. Sitting(h) = Sitting(g)
      BY <1>1 DEF Sitting
<1>5. h.pending = <<>> /\ h.loop = g.loop
      BY <1>1
<1> HIDE DEF h
<1> QED BY <1>3, <1>4, <1>5 DEF DrainedGames, Held, h

\* Each change leads from such a game to another one.
LEMMA AppliedStays ==
  ASSUME NEW g \in Games, g.loop # "none", NEW h \in DrainedGames(g), NEW i \in DOMAIN g.pending
  PROVE  Applied(h, g.pending[i]) \in DrainedGames(g)
<1> DEFINE m == g.pending[i]
<1>1. m \in Changes
      BY DEF Games
<1>2. m[1] \in {"add", "remove"} /\ m[2] \in Bots /\ m[3] \in Nat
      BY <1>1 DEF Changes
<1>3. h \in Games /\ h.pending = <<>> /\ h.loop = g.loop /\ Sitting(h) \subseteq Held(g)
      BY DEF DrainedGames
<1>4. CASE m[1] = "add"
  <2>1. m[2] \in Coming(g)
        BY <1>2, <1>4 DEF Coming
  <2> DEFINE k == AddNow(h, m[2], m[3])
  <2>2. /\ k \in Games /\ k.pending = <<>> /\ k.loop = g.loop
        /\ Sitting(k) \subseteq Sitting(h) \union {m[2]}
    <3> HIDE DEF m
    <3> QED BY <1>2, <1>3, AddNowSeats
  <2>3. Applied(h, m) = k
        BY <1>4 DEF Applied
  <2>4. k \in DrainedGames(g)
    <3> HIDE DEF k, m
    <3> QED BY <1>3, <2>1, <2>2 DEF DrainedGames, Held
  <2> QED BY <2>3, <2>4
<1>5. CASE m[1] # "add"
  <2> DEFINE k == RemoveNow(h, m[2])
  <2>1. GameOK(h)
        BY <1>3 DEF GameOK
  <2>2. k \in Games /\ k.pending = <<>> /\ k.loop = g.loop /\ Sitting(k) \subseteq Sitting(h)
    <3> HIDE DEF m
    <3> QED BY <1>2, <1>3, <2>1, RemoveNowFollows
  <2>3. Applied(h, m) = k
        BY <1>5 DEF Applied
  <2>4. k \in DrainedGames(g)
    <3> HIDE DEF k, m
    <3> QED BY <1>3, <2>2 DEF DrainedGames
  <2> QED BY <2>3, <2>4
<1> QED BY <1>4, <1>5

\* A function that satisfies the recursion exists.
LEMMA DrainExists ==
  ASSUME NEW g \in Games, g.loop # "none"
  PROVE  \E f \in [SUBSET DOMAIN g.pending -> DrainedGames(g)] :
            f = [s \in SUBSET DOMAIN g.pending |-> LastTurn(g, f, s)]
<1> DEFINE D == DOMAIN g.pending
           Q == DrainedGames(g)
           Small(n) == {s \in SUBSET D : Cardinality(s) <= n}
           T == {n \in Nat : \E f \in [Small(n) -> Q] :
                                \A s \in Small(n) : f[s] = LastTurn(g, f, s)}
<1>l. g.pending \in Seq(Changes)
      BY DEF Games
<1>d. Len(g.pending) \in Nat /\ D = 1 .. Len(g.pending)
      BY <1>l
<1>f. IsFiniteSet(D)
      BY <1>d, FS_Interval
<1>a. \A s \in SUBSET D : s # {} => Max(s) \in s
      BY <1>d, LastPosition
<1>b. \A s \in SUBSET D : IsFiniteSet(s) /\ Cardinality(s) \in Nat
      BY <1>f, FS_Subset, FS_CardinalityType
<1>c. \A s \in SUBSET D : \A x \in s : Cardinality(s \ {x}) = Cardinality(s) - 1
      BY <1>b, FS_RemoveElement
<1>e. [g EXCEPT !.pending = <<>>] \in Q
      BY ClearedStays
<1>1. 0 \in T
  <2>1. Small(0) = {{}}
        BY <1>b, FS_EmptySet
  <2> DEFINE f == [s \in {{}} |-> [g EXCEPT !.pending = <<>>]]
  <2>2. f \in [Small(0) -> Q]
    <3> HIDE DEF Q
    <3> QED BY <1>e, <2>1
  <2>3. \A s \in Small(0) : f[s] = LastTurn(g, f, s)
        BY <2>1 DEF LastTurn
  <2> HIDE DEF f, Small, Q
  <2> QED BY <2>2, <2>3
<1>2. ASSUME NEW n \in Nat, n \in T PROVE n + 1 \in T
  <2>1. PICK f \in [Small(n) -> Q] : \A s \in Small(n) : f[s] = LastTurn(g, f, s)
        BY <1>2
  <2> DEFINE k == [s \in Small(n + 1) |-> LastTurn(g, f, s)]
  <2>2. \A s \in Small(n + 1) : s # {} => s \ {Max(s)} \in Small(n)
    <3> SUFFICES ASSUME NEW s \in Small(n + 1), s # {}
                 PROVE  s \ {Max(s)} \in Small(n)
        OBVIOUS
    <3>1. Max(s) \in s /\ Cardinality(s) \in Nat
          BY <1>a, <1>b
    <3>2. Cardinality(s \ {Max(s)}) = Cardinality(s) - 1
          BY <1>c, <3>1
    <3> QED BY <3>1, <3>2
  <2>3. \A s \in Small(n) : s \in Small(n + 1)
        BY <1>b
  <2>4. \A s \in Small(n + 1) : LastTurn(g, f, s) \in Q
    <3> TAKE s \in Small(n + 1)
    <3>1. CASE s = {}
      <4>1. LastTurn(g, f, s) = [g EXCEPT !.pending = <<>>]
            BY <3>1 DEF LastTurn
      <4> HIDE DEF Q
      <4> QED BY <1>e, <4>1
    <3>2. CASE s # {}
      <4>1. s \ {Max(s)} \in Small(n) /\ Max(s) \in D
            BY <1>a, <2>2, <3>2
      <4>2. f[s \ {Max(s)}] \in Q
        <5> HIDE DEF Q, Small
        <5> QED BY <2>1, <4>1
      <4>3. LastTurn(g, f, s) = Applied(f[s \ {Max(s)}], g.pending[Max(s)])
            BY <3>2 DEF LastTurn
      <4> QED BY <4>1, <4>2, <4>3, AppliedStays
    <3> QED BY <3>1, <3>2
  <2>5. \A s \in Small(n) : k[s] = f[s]
        BY <2>1, <2>3
  <2>6. \A s \in Small(n + 1) : k[s] = LastTurn(g, k, s)
    <3> TAKE s \in Small(n + 1)
    <3>1. k[s] = LastTurn(g, f, s)
          OBVIOUS
    <3>2. CASE s = {}
          BY <3>1, <3>2 DEF LastTurn
    <3>3. CASE s # {}
      <4>1. k[s \ {Max(s)}] = f[s \ {Max(s)}]
            BY <2>2, <2>5, <3>3
      <4> HIDE DEF k
      <4> QED BY <3>1, <3>3, <4>1 DEF LastTurn
    <3> QED BY <3>2, <3>3
  <2>7. k \in [Small(n + 1) -> Q]
    <3> HIDE DEF Q, Small
    <3> QED BY <2>4
  <2>8. \E f1 \in [Small(n + 1) -> Q] :
           \A s \in Small(n + 1) : f1[s] = LastTurn(g, f1, s)
    <3> HIDE DEF k, Small, Q
    <3> QED BY <2>6, <2>7
  <2> HIDE DEF k, Small, Q
  <2> QED BY <2>8
<1>3. Cardinality(D) \in T
  <2>1. Cardinality(D) \in Nat
        BY <1>b
  <2> HIDE DEF T
  <2> QED BY <1>1, <1>2, <2>1, NumberInduction
<1>4. Small(Cardinality(D)) = SUBSET D
      BY <1>f, FS_Subset, <1>b
<1>5. PICK f \in [SUBSET D -> Q] : \A s \in SUBSET D : f[s] = LastTurn(g, f, s)
  <2> HIDE DEF Q, Small
  <2> QED BY <1>3, <1>4
<1>6. f = [s \in SUBSET D |-> LastTurn(g, f, s)]
  <2> HIDE DEF Q
  <2> QED BY <1>5
<1> QED BY <1>5, <1>6

\* The changes of a hand seat nobody but those that were to come.
LEMMA DrainedStays ==
  ASSUME NEW g \in Games, g.loop # "none"
  PROVE  Drained(g) \in DrainedGames(g)
<1> DEFINE D == DOMAIN g.pending
           Q == DrainedGames(g)
           iter == CHOOSE f : f = [s \in SUBSET D |-> LastTurn(g, f, s)]
<1>1. iter = [s \in SUBSET D |-> LastTurn(g, iter, s)]
      BY DrainExists
<1>2. Drained(g) = iter[D]
      BY DEF Drained, FoldLeft, MapThenFoldSet, LastTurn, Applied
<1>3. \A s \in SUBSET D : iter[s] = LastTurn(g, iter, s)
      BY <1>1
<1>l. g.pending \in Seq(Changes)
      BY DEF Games
<1>d. Len(g.pending) \in Nat /\ D = 1 .. Len(g.pending)
      BY <1>l
<1>f. IsFiniteSet(D)
      BY <1>d, FS_Interval
<1>a. \A s \in SUBSET D : s # {} => Max(s) \in s
      BY <1>d, LastPosition
<1>e. LastTurn(g, iter, {}) \in Q
      BY ClearedStays DEF LastTurn
<1> DEFINE T == {s \in SUBSET D : iter[s] \in Q}
<1>4. ASSUME NEW s \in SUBSET D, \A x \in s : s \ {x} \in T
      PROVE  s \in T
  <2> HIDE DEF iter
  <2>1. CASE s = {}
        BY <1>3, <1>e, <2>1
  <2>2. CASE s # {}
    <3>1. Max(s) \in s
          BY <1>a, <2>2
    <3>2. iter[s \ {Max(s)}] \in Q
          BY <1>4, <3>1
    <3>3. iter[s] = Applied(iter[s \ {Max(s)}], g.pending[Max(s)])
          BY <1>3, <2>2 DEF LastTurn
    <3>4. iter[s] \in Q
          BY <3>1, <3>2, <3>3, AppliedStays
    <3> QED BY <3>4
  <2> QED BY <2>1, <2>2
<1>5. SUBSET D \subseteq T
  <2> HIDE DEF T
  <2>1. Inductive(D, T)
        BY <1>4 DEF Inductive
  <2> QED BY <1>f, <2>1, SubsetInduction
<1> HIDE DEF iter
<1> QED BY <1>2, <1>5

LEMMA DrainedFollows ==
  ASSUME NEW g \in Games, NEW k, Held(g) \subseteq Held(k), k.loop # "none", g.loop # "none"
  PROVE  Follows(Drained(g), k)
<1>1. Drained(g) \in DrainedGames(g)
      BY DrainedStays
<1> DEFINE h == Drained(g)
<1>2. h \in Games /\ h.pending = <<>> /\ Sitting(h) \subseteq Held(g)
      BY <1>1 DEF DrainedGames
<1> HIDE DEF h
<1>3. Coming(h) = {}
      BY <1>2, NobodyComing
<1>4. Held(h) \subseteq Held(k)
      BY <1>2, <1>3 DEF Held
<1>5. Follows(h, k)
      BY <1>2, <1>3, <1>4 DEF Follows, GameOK
<1> QED BY <1>5 DEF h
-----------------------------------------------------------------------------
(* Hands *)

\* What a player of a hand puts in, a number no greater than its stack.
LEMMA HandBegunFollows ==
  ASSUME NEW g, GameOK(g), g.loop = "running", NEW ps \in SUBSET Playable(g),
         Cardinality(ps) \in HandSizes
  PROVE  Follows(HandBegun(g, ps), g) /\ HandBegun(g, ps).loop = "hand"
<1> DEFINE M(b) == Max({g.chips[c] : c \in ps \ {b}})
           put(b) == IF b \notin ps THEN 0 ELSE Smaller(g.chips[b], M(b))
           stacks == [b \in Bots |-> g.chips[b] - put(b)]
           bets   == [b \in Bots |-> put(b)]
<1>1. /\ g \in Games /\ g.chips \in [Bots -> Nat] /\ ps \subseteq Bots
      /\ IsFiniteSet(Bots)
      BY DirectorAssumption DEF GameOK, Games, Playable
<1>2. \A b \in ps : M(b) \in Nat
  <2> TAKE b \in ps
  <2>1. ps \ {b} # {}
    <3>1. SUFFICES ASSUME ps = {b} PROVE FALSE
          OBVIOUS
    <3>2. Cardinality(ps) = 1
          BY <3>1, FS_Singleton
    <3> QED BY <3>2, DirectorAssumption
  <2>2. g.chips \in [Bots -> Int] /\ ps \ {b} \in SUBSET Bots
        BY <1>1
  <2>3. \E d \in ps \ {b} : \A c \in ps \ {b} : g.chips[c] <= g.chips[d]
        BY <1>1, <2>1, <2>2, GreatestExists
  <2>4. \A c \in ps \ {b} : g.chips[c] \in Nat
        BY <1>1
  <2>5. \E x \in {g.chips[c] : c \in ps \ {b}} :
           \A y \in {g.chips[c] : c \in ps \ {b}} : x >= y
        BY <2>3, <2>4
  <2>6. M(b) \in {g.chips[c] : c \in ps \ {b}}
        BY <2>5 DEF Max
  <2> QED BY <2>4, <2>6
<1>3. \A b \in Bots : put(b) \in Nat /\ put(b) <= g.chips[b]
  <2> TAKE b \in Bots
  <2>1. g.chips[b] \in Nat
        BY <1>1
  <2>2. CASE b \notin ps
        BY <2>1, <2>2
  <2>3. CASE b \in ps
    <3>1. M(b) \in Nat
          BY <1>2, <2>3
    <3>2. put(b) = Smaller(g.chips[b], M(b))
          BY <2>3
    <3> HIDE DEF M, put
    <3> QED BY <2>1, <3>1, <3>2 DEF Smaller
  <2> QED BY <2>2, <2>3
<1>4. HandBegun(g, ps) = [g EXCEPT !.chips = stacks, !.bets = bets, !.loop = "hand"]
      BY DEF HandBegun
<1> HIDE DEF M, put
<1>5. stacks \in [Bots -> Nat] /\ bets \in [Bots -> Nat]
  <2>1. \A b \in Bots : g.chips[b] - put(b) \in Nat
    <3> TAKE b \in Bots
    <3>1. g.chips[b] \in Nat /\ put(b) \in Nat /\ put(b) <= g.chips[b]
          BY <1>1, <1>3
    <3> QED BY <3>1
  <2> QED BY <1>3, <2>1
<1> HIDE DEF stacks, bets
<1> DEFINE h == HandBegun(g, ps)
<1>6. h = [seated |-> g.seated, gone |-> g.gone, chips |-> stacks, bets |-> bets,
           loop |-> "hand", pending |-> g.pending]
      BY <1>1, <1>4 DEF Games
<1>7. h \in Games
      BY <1>1, <1>5, <1>6 DEF Games, Loops
<1>8. h.seated = g.seated /\ h.gone = g.gone /\ h.pending = g.pending /\ h.loop = "hand"
      BY <1>6
<1> HIDE DEF h
<1>9. Follows(h, g)
      BY <1>7, <1>8, FollowsByLoop
<1> QED BY <1>8, <1>9 DEF h

\* The fold of the pot is a sum.
LEMMA FoldIsSum ==
  ASSUME NEW f
  PROVE  FoldFunction(+, 0, f) = SumFunction(f)
BY DEF FoldFunction, SumFunction, SumFunctionOnSet, FoldFunctionOnSet, MapThenFoldSet

\* The game once the pot is paid, before the changes that waited.
Paid(g, stacks) == [g EXCEPT !.chips = stacks, !.bets = None, !.loop = "running"]

LEMMA PaidFollows ==
  ASSUME NEW g \in Games, g.loop = "hand", NEW stacks \in [Bots -> Nat]
  PROVE  Follows(Drained(Paid(g, stacks)), g)
<1> DEFINE h == Paid(g, stacks)
<1>1. None \in [Bots -> Nat]
      BY DEF None
<1>2. "running" \in Loops
      BY DEF Loops
<1>3. h \in Games
      BY <1>1, <1>2 DEF Paid, Games
<1>4. h.seated = g.seated /\ h.gone = g.gone /\ h.pending = g.pending /\ h.loop = "running"
      BY DEF Paid, Games
<1> HIDE DEF h
<1>5. Held(h) = Held(g)
      BY <1>4 DEF Held, Sitting, Coming
<1> QED BY <1>3, <1>4, <1>5, DrainedFollows DEF h

\* What a winner gets is what the others lose.
PotPaid(stacks, chips, bets, w, lost) ==
  /\ w \in Bots /\ lost \in [Bots \ {w} -> Int]
  /\ stacks \in [Bots -> Int] /\ chips \in [Bots -> Int] /\ bets \in [Bots -> Int]
  /\ stacks[w] = chips[w] + bets[w] + SumFunction(lost)
  /\ \A b \in Bots \ {w} : stacks[b] = chips[b] + (bets[b] - lost[b])

LEMMA PotIsLost ==
  ASSUME NEW stacks, NEW chips, NEW bets, NEW w, NEW lost, PotPaid(stacks, chips, bets, w, lost)
  PROVE  SumFunction(stacks) = SumFunction(chips) + SumFunction(bets)
<1> DEFINE pot   == SumFunction(lost)
           lose  == [b \in Bots |-> IF b = w THEN 0 ELSE lost[b]]
           gain  == [b \in Bots |-> IF b = w THEN pot ELSE 0]
           total == [b \in Bots |-> chips[b] + bets[b]]
           both  == [b \in Bots |-> stacks[b] + lose[b]]
<1>1. IsFiniteSet(Bots) /\ IsFiniteSet(Bots \ {w})
      BY DirectorAssumption, FS_Subset
<1> HIDE DEF pot
<1>s. /\ w \in Bots /\ lost \in [Bots \ {w} -> Int]
      /\ stacks \in [Bots -> Int] /\ chips \in [Bots -> Int] /\ bets \in [Bots -> Int]
      /\ stacks[w] = chips[w] + bets[w] + pot
      /\ \A b \in Bots \ {w} : stacks[b] = chips[b] + (bets[b] - lost[b])
      BY DEF pot, PotPaid
<1>2. pot \in Int
      BY <1>1, <1>s, SumIsInt DEF pot
<1>3. /\ lose \in [Bots -> Int] /\ lose[w] = 0
      /\ \A b \in Bots \ {w} : lose[b] = lost[b]
      BY <1>s
<1>4. gain \in [Bots -> Int] /\ gain[w] = pot /\ \A b \in Bots : b # w => gain[b] = 0
      BY <1>2, <1>s
<1>5. \A b \in Bots : total[b] = chips[b] + bets[b]
      OBVIOUS
<1>t. total \in [Bots -> Int]
      BY <1>s
<1> HIDE DEF lose, gain, total
<1>6. \A b \in Bots : both[b] = stacks[b] + lose[b]
      OBVIOUS
<1>b. both \in [Bots -> Int]
      BY <1>3, <1>s
<1> HIDE DEF both
<1>7. \A b \in Bots : both[b] = total[b] + gain[b]
  <2> TAKE b \in Bots
  <2>1. chips[b] \in Int /\ bets[b] \in Int
        BY <1>s
  <2>2. CASE b = w
        BY <1>2, <1>3, <1>4, <1>5, <1>6, <1>s, <2>1, <2>2
  <2>3. CASE b # w
    <3>1. b \in Bots \ {w} /\ lost[b] \in Int
          BY <1>s, <2>3
    <3> QED BY <1>s, <1>3, <1>4, <1>5, <1>6, <2>1, <2>3, <3>1
  <2> QED BY <2>2, <2>3
<1>8. pot = SumFunction(lose)
  <2> DEFINE o == Bots \ {w}
  <2>1. /\ o \in SUBSET Bots /\ lost \in [o -> Int] /\ lose \in [Bots -> Int]
        /\ \A b \in o : lose[b] = lost[b]
        /\ \A b \in Bots \ o : lose[b] = 0
        BY <1>3, <1>s
  <2> HIDE DEF o
  <2>2. SumFunction(lost) = SumFunction(lose)
        BY <1>1, <2>1, SumOfPart
  <2> QED BY <2>2 DEF pot
<1>9. SumFunction(gain) = pot
      BY <1>1, <1>4, <1>s, SumAtPoint
<1>10. SumFunction(both) = SumFunction(stacks) + SumFunction(lose)
  <2>1. stacks \in [Bots -> Int] /\ lose \in [Bots -> Int]
        BY <1>3, <1>s
  <2> QED BY <1>1, <1>6, <1>b, <2>1, SumAdds
<1>11. SumFunction(both) = SumFunction(total) + SumFunction(gain)
  <2>1. gain \in [Bots -> Int] /\ total \in [Bots -> Int]
        BY <1>4, <1>t
  <2> QED BY <1>1, <1>7, <1>b, <2>1, SumAdds
<1>12. SumFunction(total) = SumFunction(chips) + SumFunction(bets)
  <2>1. chips \in [Bots -> Int] /\ bets \in [Bots -> Int]
        BY <1>s
  <2>2. /\ \A b \in Bots : total[b] = chips[b] + bets[b]
        /\ IsFiniteSet(Bots)
        BY <1>1, <1>5
  <2> QED BY <1>t, <2>1, <2>2, SumAdds
<1>13. SumFunction(stacks) \in Int /\ SumFunction(total) \in Int
      BY <1>1, <1>t, <1>s, SumIsInt
<1>14. SumFunction(stacks) + pot = SumFunction(total) + pot
      BY <1>8, <1>9, <1>10, <1>11
<1>15. \A m, n \in Int : m + pot = n + pot => m = n
      BY <1>2
<1> QED BY <1>12, <1>13, <1>14, <1>15

\* A hand ends with its chips paid out and its changes applied.
LEMMA OutcomePaid ==
  ASSUME NEW g \in Games, NEW h \in Outcomes(g)
  PROVE  \E stacks \in [Bots -> Nat] :
           /\ h = Drained(Paid(g, stacks))
           /\ \A b \in Bots : g.bets[b] = 0 => stacks[b] = g.chips[b]
           /\ SumFunction(stacks) = SumFunction(g.chips) + SumFunction(g.bets)
<1> DEFINE Found(stacks) == /\ h = Drained(Paid(g, stacks))
                            /\ \A b \in Bots : g.bets[b] = 0 => stacks[b] = g.chips[b]
                            /\ SumFunction(stacks) = SumFunction(g.chips) + SumFunction(g.bets)
<1>0. g.chips \in [Bots -> Nat] /\ g.bets \in [Bots -> Nat] /\ IsFiniteSet(Bots)
      BY DirectorAssumption DEF Games
<1>1. ASSUME NEW w \in Winners(g), h = HandEnded(g, w)
      PROVE  \E stacks \in [Bots -> Nat] : Found(stacks)
  <2>1. w \in Bots /\ g.bets[w] > 0
        BY DEF Winners, InHand
  <2> DEFINE lost(b) == IF b \in g.gone THEN g.bets[b] ELSE Smaller(g.bets[b], g.bets[w])
             losses  == [b \in Bots \ {w} |-> lost(b)]
             pot     == FoldFunction(+, 0, losses)
             stacks  == [b \in Bots |-> IF b = w THEN g.chips[b] + g.bets[w] + pot
                                        ELSE g.chips[b] + (g.bets[b] - lost(b))]
  <2>2. \A b \in Bots : lost(b) \in Nat /\ lost(b) <= g.bets[b]
    <3> TAKE b \in Bots
    <3>1. g.bets[b] \in Nat /\ g.bets[w] \in Nat
          BY <1>0, <2>1
    <3> QED BY <3>1 DEF Smaller
  <2>3. HandEnded(g, w) = Drained(Paid(g, stacks))
        BY DEF HandEnded, Paid
  <2>4. losses \in [Bots \ {w} -> Nat] /\ IsFiniteSet(Bots \ {w})
        BY <1>0, <2>2, FS_Subset
  <2>5. pot \in Nat
    <3> HIDE DEF losses
    <3>1. pot = SumFunction(losses)
          BY FoldIsSum
    <3> QED BY <2>4, <3>1, SumIsNat
  <2> HIDE DEF lost, pot
  <2>6. stacks \in [Bots -> Nat]
    <3>1. ASSUME NEW b \in Bots
          PROVE  (IF b = w THEN g.chips[b] + g.bets[w] + pot
                  ELSE g.chips[b] + (g.bets[b] - lost(b))) \in Nat
      <4>1. /\ g.chips[b] \in Nat /\ g.bets[b] \in Nat /\ g.bets[w] \in Nat
            /\ lost(b) \in Nat /\ lost(b) <= g.bets[b]
            BY <1>0, <2>1, <2>2
      <4> QED BY <2>5, <4>1
    <3> QED BY <3>1
  <2>7. \A b \in Bots : g.bets[b] = 0 => stacks[b] = g.chips[b]
    <3> TAKE b \in Bots
    <3> HAVE g.bets[b] = 0
    <3>1. b # w /\ lost(b) \in Nat /\ lost(b) <= 0 /\ g.chips[b] \in Nat
          BY <1>0, <2>1, <2>2
    <3>2. stacks[b] = g.chips[b] + (g.bets[b] - lost(b))
          BY <3>1
    <3> QED BY <3>1, <3>2
  <2>8. SumFunction(stacks) = SumFunction(g.chips) + SumFunction(g.bets)
    <3>1. pot = SumFunction(losses)
      <4> HIDE DEF losses
      <4> QED BY FoldIsSum DEF pot
    <3>2. /\ stacks[w] = g.chips[w] + g.bets[w] + pot
          /\ \A b \in Bots \ {w} : stacks[b] = g.chips[b] + (g.bets[b] - losses[b])
          BY <2>1
    <3>3. losses \in [Bots \ {w} -> Int] /\ stacks \in [Bots -> Int]
      <4> HIDE DEF losses, stacks
      <4> QED BY <2>4, <2>6
    <3>4. g.chips \in [Bots -> Int] /\ g.bets \in [Bots -> Int]
          BY <1>0
    <3> HIDE DEF losses, stacks
    <3>5. PotPaid(stacks, g.chips, g.bets, w, losses)
          BY <2>1, <3>1, <3>2, <3>3, <3>4 DEF PotPaid
    <3> QED BY <3>5, PotIsLost
  <2> HIDE DEF stacks
  <2> QED BY <1>1, <2>3, <2>6, <2>7, <2>8
<1>2. ASSUME h = Drained([g EXCEPT !.chips = [b \in Bots |-> g.chips[b] + g.bets[b]],
                                   !.bets = None, !.loop = "running"])
      PROVE  \E stacks \in [Bots -> Nat] : Found(stacks)
  <2> DEFINE stacks == [b \in Bots |-> g.chips[b] + g.bets[b]]
  <2>1. stacks \in [Bots -> Nat]
    <3>1. \A b \in Bots : g.chips[b] \in Nat /\ g.bets[b] \in Nat
          BY <1>0
    <3> QED BY <3>1
  <2>2. h = Drained(Paid(g, stacks))
        BY <1>2 DEF Paid
  <2>3. \A b \in Bots : g.bets[b] = 0 => stacks[b] = g.chips[b]
        BY <1>0
  <2>4. SumFunction(stacks) = SumFunction(g.chips) + SumFunction(g.bets)
    <3>1. /\ g.chips \in [Bots -> Int] /\ g.bets \in [Bots -> Int] /\ stacks \in [Bots -> Int]
          /\ \A b \in Bots : stacks[b] = g.chips[b] + g.bets[b]
          BY <1>0, <2>1
    <3> HIDE DEF stacks
    <3> QED BY <1>0, <3>1, SumAdds
  <2> HIDE DEF stacks
  <2> QED BY <2>1, <2>2, <2>3, <2>4
<1> QED BY <1>1, <1>2 DEF Outcomes

LEMMA OutcomeFollows ==
  ASSUME NEW g \in Games, g.loop = "hand", NEW h \in Outcomes(g)
  PROVE  Follows(h, g)
<1>1. PICK stacks \in [Bots -> Nat] : h = Drained(Paid(g, stacks))
      BY OutcomePaid
<1> QED BY <1>1, PaidFollows

\* A hand without players that are left throws, with its changes applied.
LEMMA ThrownFollows ==
  ASSUME NEW g \in Games, g.loop = "hand"
  PROVE  Follows([Drained(g) EXCEPT !.loop = "error"], g)
<1>1. Follows(Drained(g), g)
      BY DrainedFollows
<1>2. Drained(g) \in DrainedGames(g)
      BY DrainedStays
<1> DEFINE h == Drained(g)
           k == [h EXCEPT !.loop = "error"]
<1>3. h \in Games /\ h.pending = <<>> /\ h.loop = "hand"
      BY <1>2 DEF DrainedGames
<1> HIDE DEF h
<1>4. "error" \in Loops
      BY DEF Loops
<1>5. k \in Games
      BY <1>3, <1>4 DEF Games
<1>6. k.seated = h.seated /\ k.gone = h.gone /\ k.pending = h.pending /\ k.loop = "error"
      BY <1>3 DEF Games
<1> HIDE DEF k
<1>7. GameOK(h)
      BY <1>3 DEF GameOK
<1>8. Follows(k, h)
      BY <1>3, <1>5, <1>6, <1>7, FollowsByLoop
<1>9. Follows(h, g)
      BY <1>1 DEF h
<1>10. Follows(k, g)
      BY <1>8, <1>9, FollowsOn
<1> QED BY <1>10 DEF h, k

\* A loop that is set, and nothing else.
LEMMA LoopFollows ==
  ASSUME NEW g, GameOK(g), NEW l \in Loops, g.loop = "none" => l = "none",
         l # "hand" => g.pending = <<>>
  PROVE  Follows([g EXCEPT !.loop = l], g)
<1> DEFINE h == [g EXCEPT !.loop = l]
<1>1. g \in Games
      BY DEF GameOK
<1>2. h \in Games
      BY <1>1 DEF Games
<1>3. h.seated = g.seated /\ h.gone = g.gone /\ h.pending = g.pending /\ h.loop = l
      BY <1>1 DEF Games
<1> HIDE DEF h
<1>4. Follows(h, g)
      BY <1>2, <1>3, FollowsByLoop
<1> QED BY <1>4 DEF h
-----------------------------------------------------------------------------
(* The types of the state, and what a step may do to them *)

Busted  == [bot : Bots, table : TableIds, place : Int]
Handler == [list : Seq(Busted), now : Nat]

HandlersOK == /\ busting \in Seq(Handler)
              /\ \A h \in DOMAIN busting : busting[h].now \in DOMAIN busting[h].list

\* The stages of the balancer, of m tables.
Breaking(m) == [pc : {"break"}, ofHand : BOOLEAN, from : 1 .. m, bots : SUBSET Bots,
                others : SUBSET (1 .. m)]
Moving(m)   == [pc : {"move", "store"}, ofHand : BOOLEAN, from : 1 .. m, to : 1 .. m,
                bot : Bots, stack : Nat]
Seats(m)    == [pc : {"seat", "seated"}, ofHand : BOOLEAN, from : 1 .. m, to : 1 .. m,
                bot : Bots, bots : SUBSET Bots, others : SUBSET (1 .. m)]

BalancerOK ==
  /\ balancer \in {Idle} \union Breaking(made) \union Moving(made) \union Seats(made)
  /\ balancer.pc \in {"move", "store"} => balancer.from # balancer.to
  /\ balancer.pc = "seat" => balancer.bot \notin balancer.bots

PayingOK == paying \in Seq(Bots \X (Nat \ {0}))
EndTyped == running \in BOOLEAN /\ bustOrder \in Seq(Bots) /\ PayingOK

RestOK ==
  /\ made \in 0 .. Len(Seating) /\ tables \subseteq 1 .. made
  /\ active \subseteq Bots
  /\ snapshot \in [Bots -> Nat] /\ dbPlace \in [Bots -> Int]
  /\ syncing \in Nat /\ hands \in Nat /\ quiet \in Nat
  /\ dbStatus \in {"running", "finished"}
  /\ HandlersOK /\ BalancerOK /\ EndTyped

\* The games of the tables; one that is not made yet has not begun.
GamesOK == /\ game \in [TableIds -> Games]
           /\ \A t \in TableIds : GameOK(game[t]) /\ (t > made => game[t].loop = "none")

Base == RestOK /\ GamesOK

\* The games that follow those of the tables.
AllFollow(games) == /\ games \in [TableIds -> Games]
                    /\ \A t \in TableIds : Follows(games[t], game[t])

LEMMA GamesStay ==
  ASSUME GamesOK
  PROVE  AllFollow(game)
BY FollowsItself DEF GamesOK, AllFollow

LEMMA OneGameFollows ==
  ASSUME GamesOK, NEW t \in TableIds, NEW h, Follows(h, game[t])
  PROVE  AllFollow([game EXCEPT ![t] = h])
<1>1. h \in Games
      BY DEF Follows, GameOK
<1> QED BY <1>1, FollowsItself DEF GamesOK, AllFollow

\* A bot is taken from one of the tables.
LEMMA BustFollows ==
  ASSUME NEW games, AllFollow(games), NEW t \in TableIds, NEW b \in Bots
  PROVE  AllFollow([games EXCEPT ![t] = Removed(games[t], b)])
<1>1. Follows(games[t], game[t]) /\ GameOK(games[t])
      BY DEF AllFollow, Follows
<1>2. Follows(Removed(games[t], b), games[t])
      BY <1>1, RemovedFollows
<1>3. Follows(Removed(games[t], b), game[t])
      BY <1>1, <1>2, FollowsOn
<1> DEFINE h == Removed(games[t], b)
<1> HIDE DEF h
<1>4. h \in Games /\ Follows(h, game[t])
      BY <1>3 DEF h, Follows, GameOK
<1>5. AllFollow([games EXCEPT ![t] = h])
      BY <1>4 DEF AllFollow
<1> QED BY <1>5 DEF h

\* Games that follow are games, also of the tables that are not made.
LEMMA FollowingGamesOK ==
  ASSUME GamesOK, AllFollow(game'), made' = made
  PROVE  GamesOK'
BY DEF GamesOK, AllFollow, Follows

-----------------------------------------------------------------------------
(* The operations on the types *)

LEMMA FinishTyped ==
  ASSUME RestOK, FinishTournament
  PROVE  EndTyped'
<1>1. running \in BOOLEAN /\ bustOrder \in Seq(Bots) /\ PayingOK /\ active \subseteq Bots
      BY DEF RestOK, EndTyped
<1>2. CASE ~running
      BY <1>1, <1>2 DEF FinishTournament, EndTyped, PayingOK
<1>3. CASE running
  <2>1. running' = FALSE
        BY <1>3 DEF FinishTournament
  <2>2. PICK w \in IF active = {} THEN {<<>>} ELSE {<<b>> : b \in active} :
                bustOrder' = bustOrder \o w
        BY <1>3 DEF FinishTournament
  <2>3. w \in Seq(Bots)
    <3>1. CASE active = {}
          BY <2>2, <3>1
    <3>2. CASE active # {}
      <4>1. PICK b \in active : w = <<b>>
            BY <2>2, <3>2
      <4> QED BY <1>1, <4>1
    <3> QED BY <3>1, <3>2
  <2>4. bustOrder' \in Seq(Bots)
        BY <1>1, <2>2, <2>3
  <2>5. paying' = [i \in DOMAIN bustOrder' |-> <<FinalPlaces(bustOrder')[i], i>>]
        BY <1>3 DEF FinishTournament
  <2> DEFINE n == Len(bustOrder')
  <2>6. n \in Nat /\ DOMAIN bustOrder' = 1 .. n
        BY <2>4
  <2>7. \A i \in 1 .. n : FinalPlaces(bustOrder')[i] \in Bots
    <3> TAKE i \in 1 .. n
    <3>1. n - i + 1 \in 1 .. n
          BY <2>6
    <3>2. FinalPlaces(bustOrder')[i] = bustOrder'[n - i + 1]
          BY DEF FinalPlaces, Reverse
    <3> QED BY <2>4, <3>1, <3>2
  <2>8. \A i \in 1 .. n : <<FinalPlaces(bustOrder')[i], i>> \in Bots \X (Nat \ {0})
        BY <2>6, <2>7
  <2> HIDE DEF n
  <2>9. paying' \in [1 .. n -> Bots \X (Nat \ {0})]
        BY <2>5, <2>6, <2>8
  <2>10. paying' \in Seq(Bots \X (Nat \ {0}))
        BY <2>6, <2>9
  <2> QED BY <2>1, <2>4, <2>10 DEF EndTyped, PayingOK
<1> QED BY <1>1, <1>2, <1>3

LEMMA EndTypedStays ==
  ASSUME EndTyped, UNCHANGED <<running, bustOrder, paying>>
  PROVE  EndTyped'
BY DEF EndTyped, PayingOK

LEMMA HandlerEndsTyped ==
  ASSUME RestOK, NEW x, HandlerEnds(x)
  PROVE  EndTyped'
BY FinishTyped, EndTypedStays DEF HandlerEnds, RestOK

\* The number of bots at a table.
LEMMA SizeIsNat ==
  ASSUME GamesOK, NEW t \in TableIds
  PROVE  /\ Playable(game[t]) \subseteq Bots /\ IsFiniteSet(Playable(game[t]))
         /\ Size(t) \in Nat
<1>1. Playable(game[t]) \subseteq Bots
      BY DEF Playable, GamesOK, Games
<1>2. IsFiniteSet(Playable(game[t]))
      BY <1>1, DirectorAssumption, FS_Subset
<1> QED BY <1>1, <1>2, FS_CardinalityType DEF Size

\* Of some tables one has the fewest bots, and of those the greatest number; one the most.
LEMMA ExtremesExist ==
  ASSUME GamesOK, NEW S \in SUBSET TableIds, S # {}
  PROVE  SmallestOf(S) \in S /\ LargestOf(S) \in S
<1> DEFINE id  == [t \in TableIds |-> t]
           siz == [t \in TableIds |-> Size(t)]
           neg == [t \in TableIds |-> 0 - Size(t)]
<1>1. IsFiniteSet(TableIds) /\ TableIds \subseteq Nat
      BY DirectorAssumption, FS_Interval DEF TableIds
<1>2. \A t \in TableIds : Size(t) \in Nat
      BY SizeIsNat
<1>3. /\ id \in [TableIds -> Int] /\ siz \in [TableIds -> Int] /\ neg \in [TableIds -> Int]
      BY <1>1, <1>2
<1>4. \E t \in S : \A u \in S : Size(t) < Size(u) \/ (Size(t) = Size(u) /\ u <= t)
  <2>1. PICK m \in S : \A u \in S : neg[u] <= neg[m]
    <3> HIDE DEF neg
    <3> QED BY <1>1, <1>3, GreatestExists
  <2> DEFINE R == {t \in S : Size(t) = Size(m)}
  <2>2. m \in R /\ R \in SUBSET TableIds
        OBVIOUS
  <2>3. PICK t \in R : \A u \in R : id[u] <= id[t]
    <3> HIDE DEF id, R
    <3> QED BY <1>1, <1>3, <2>2, GreatestExists
  <2>4. ASSUME NEW u \in S PROVE Size(t) < Size(u) \/ (Size(t) = Size(u) /\ u <= t)
    <3>1. Size(t) = Size(m) /\ Size(m) \in Nat /\ Size(u) \in Nat
          BY <1>2, <2>3
    <3>2. Size(m) <= Size(u)
      <4>1. neg[u] <= neg[m] /\ neg[u] = 0 - Size(u) /\ neg[m] = 0 - Size(m)
            BY <2>1
      <4> HIDE DEF neg
      <4> QED BY <3>1, <4>1
    <3>3. Size(u) = Size(m) => u <= t
      <4>1. ASSUME Size(u) = Size(m) PROVE u <= t
        <5>1. u \in R
              BY <4>1
        <5> QED BY <2>3, <5>1
      <4> QED BY <4>1
    <3> QED BY <3>1, <3>2, <3>3
  <2> QED BY <2>3, <2>4
<1>5. \E t \in S : \A u \in S : Size(t) > Size(u) \/ (Size(t) = Size(u) /\ u <= t)
  <2>1. PICK m \in S : \A u \in S : siz[u] <= siz[m]
    <3> HIDE DEF siz
    <3> QED BY <1>1, <1>3, GreatestExists
  <2> DEFINE R == {t \in S : Size(t) = Size(m)}
  <2>2. m \in R /\ R \in SUBSET TableIds
        OBVIOUS
  <2>3. PICK t \in R : \A u \in R : id[u] <= id[t]
    <3> HIDE DEF id, R
    <3> QED BY <1>1, <1>3, <2>2, GreatestExists
  <2>4. ASSUME NEW u \in S PROVE Size(t) > Size(u) \/ (Size(t) = Size(u) /\ u <= t)
    <3>1. Size(t) = Size(m) /\ Size(m) \in Nat /\ Size(u) \in Nat
          BY <1>2, <2>3
    <3>2. Size(u) <= Size(m)
          BY <2>1
    <3>3. Size(u) = Size(m) => u <= t
      <4>1. ASSUME Size(u) = Size(m) PROVE u <= t
        <5>1. u \in R
              BY <4>1
        <5> QED BY <2>3, <5>1
      <4> QED BY <4>1
    <3> QED BY <3>1, <3>2, <3>3
  <2> QED BY <2>3, <2>4
<1> QED BY <1>4, <1>5 DEF SmallestOf, LargestOf

\* A table that gives up a bot for balance is not the one that gets it.
LEMMA BalancingTables ==
  ASSUME RestOK, GamesOK, Cardinality(tables) > 1
  PROVE  /\ SmallestOf(tables) \in tables /\ LargestOf(tables) \in tables
         /\ Unbalanced(SmallestOf(tables), LargestOf(tables))
              => SmallestOf(tables) # LargestOf(tables)
<1>1. tables \subseteq TableIds
      BY DirectorAssumption DEF RestOK, TableIds
<1>2. tables # {}
  <2>1. SUFFICES ASSUME tables = {} PROVE FALSE
        OBVIOUS
  <2>2. Cardinality(tables) = 0
        BY <2>1, FS_EmptySet
  <2> QED BY <2>2
<1>3. SmallestOf(tables) \in tables /\ LargestOf(tables) \in tables
      BY <1>1, <1>2, ExtremesExist
<1>4. Size(SmallestOf(tables)) \in Nat
      BY <1>1, <1>3, SizeIsNat
<1>5. ASSUME Unbalanced(SmallestOf(tables), LargestOf(tables)),
             SmallestOf(tables) = LargestOf(tables)
      PROVE  FALSE
      BY <1>4, <1>5 DEF Unbalanced
<1> QED BY <1>3, <1>5
\* What checkTableBalancing starts: nothing, or the breaking of a table, or a move of
\* one bot between two tables.
StartsBreak(x) ==
  \E t \in tables :
    balancer' = [pc |-> "break", ofHand |-> x, from |-> t, bots |-> Playable(game[t]),
                 others |-> tables \ {t}]
StartsMove(x) ==
  \E t, u \in tables : \E b \in Playable(game[t]) :
    /\ t # u
    /\ balancer' = [pc |-> "move", ofHand |-> x, from |-> t, to |-> u, bot |-> b,
                    stack |-> game[t].chips[b]]

LEMMA BalancingCases ==
  ASSUME RestOK, GamesOK, NEW x, CheckTableBalancing(x)
  PROVE  \/ balancer' = balancer /\ HandlerEnds(x)
         \/ /\ UNCHANGED <<running, bustOrder, paying>>
            /\ balancer.pc = "off"
            /\ StartsBreak(x) \/ StartsMove(x)
<1> DEFINE small == SmallestOf(tables)
           large == LargestOf(tables)
<1>1. CASE /\ Cardinality(tables) > 1 /\ ~BalancingBusy
           /\ IF Size(small) < 2 THEN StartsBreaking(small, x)
              ELSE Unbalanced(small, large) /\ StartsMoving(large, small, x)
           /\ UNCHANGED <<running, bustOrder, paying>>
  <2>1. /\ small \in tables /\ large \in tables
        /\ Unbalanced(small, large) => small # large
        BY <1>1, BalancingTables
  <2>2. balancer.pc = "off"
        BY <1>1 DEF BalancingBusy
  <2> HIDE DEF small, large
  <2>3. CASE Size(small) < 2
    <3>1. StartsBreaking(small, x)
          BY <1>1, <2>3
    <3>2. StartsBreak(x)
          BY <2>1, <3>1 DEF StartsBreaking, StartsBreak
    <3> QED BY <1>1, <2>2, <3>2
  <2>4. CASE ~(Size(small) < 2)
    <3>1. small # large /\ StartsMoving(large, small, x)
          BY <1>1, <2>1, <2>4
    <3>2. StartsMove(x)
          BY <2>1, <3>1 DEF StartsMoving, StartsMove
    <3> QED BY <1>1, <2>2, <3>2
  <2> QED BY <2>3, <2>4
<1>2. CASE UNCHANGED balancer /\ HandlerEnds(x)
      BY <1>2
<1> HIDE DEF small, large
<1> QED BY <1>1, <1>2 DEF CheckTableBalancing, small, large

LEMMA BalancingTyped ==
  ASSUME RestOK, GamesOK, NEW x \in BOOLEAN, CheckTableBalancing(x), made' = made
  PROVE  BalancerOK' /\ EndTyped'
<1>0. BalancerOK /\ EndTyped /\ tables \subseteq 1 .. made /\ made \in 0 .. Len(Seating)
      BY DEF RestOK
<1>1. CASE balancer' = balancer /\ HandlerEnds(x)
  <2>1. EndTyped'
        BY <1>1, HandlerEndsTyped
  <2> QED BY <1>0, <1>1, <2>1 DEF BalancerOK
<1>2. CASE UNCHANGED <<running, bustOrder, paying>> /\ StartsBreak(x)
  <2>1. EndTyped'
        BY <1>0, <1>2, EndTypedStays
  <2>2. PICK t \in tables :
             balancer' = [pc |-> "break", ofHand |-> x, from |-> t,
                          bots |-> Playable(game[t]), others |-> tables \ {t}]
        BY <1>2 DEF StartsBreak
  <2>3. t \in TableIds
        BY <1>0, DirectorAssumption DEF TableIds
  <2>4. Playable(game[t]) \subseteq Bots
        BY <2>3, SizeIsNat
  <2>5. balancer' \in Breaking(made)
        BY <1>0, <2>2, <2>4 DEF Breaking
  <2> QED BY <2>1, <2>2, <2>5 DEF BalancerOK
<1>3. CASE UNCHANGED <<running, bustOrder, paying>> /\ StartsMove(x)
  <2>1. EndTyped'
        BY <1>0, <1>3, EndTypedStays
  <2>a. PICK t \in tables, u \in tables : \E b \in Playable(game[t]) :
             /\ t # u
             /\ balancer' = [pc |-> "move", ofHand |-> x, from |-> t, to |-> u, bot |-> b,
                             stack |-> game[t].chips[b]]
        BY <1>3 DEF StartsMove
  <2>2. PICK b \in Playable(game[t]) :
             /\ t # u
             /\ balancer' = [pc |-> "move", ofHand |-> x, from |-> t, to |-> u, bot |-> b,
                             stack |-> game[t].chips[b]]
        BY <2>a
  <2>3. t \in TableIds
        BY <1>0, DirectorAssumption DEF TableIds
  <2>4. b \in Bots
        BY <2>3, SizeIsNat
  <2>5. game[t].chips[b] \in Nat
        BY <2>3, <2>4 DEF GamesOK, Games
  <2>6. balancer' \in Moving(made)
        BY <1>0, <2>2, <2>4, <2>5 DEF Moving
  <2> QED BY <2>1, <2>2, <2>6 DEF BalancerOK
<1> QED BY <1>1, <1>2, <1>3, BalancingCases

\* breakTable with its next bot.
SeatsNext ==
  \E b \in balancer.bots, u \in balancer.others :
    balancer' = [pc |-> "seat", ofHand |-> balancer.ofHand, from |-> balancer.from,
                 to |-> u, bot |-> b, bots |-> balancer.bots \ {b},
                 others |-> balancer.others]

LEMMA MoverCases ==
  ASSUME NextMover
  PROVE  \/ balancer' = Idle /\ UNCHANGED <<running, bustOrder, paying>>
         \/ balancer' = Idle /\ HandlerEnds(balancer.ofHand)
         \/ SeatsNext /\ UNCHANGED <<running, bustOrder, paying>>
<1>1. Targets(balancer.others) \subseteq balancer.others
      BY DEF Targets
<1> QED BY <1>1 DEF NextMover, SeatsNext

LEMMA IdleOK ==
  ASSUME balancer' = Idle
  PROVE  BalancerOK'
BY DEF BalancerOK, Idle

LEMMA MoverTyped ==
  ASSUME RestOK, NextMover, balancer.pc \in {"break", "seated"}, made' = made
  PROVE  BalancerOK' /\ EndTyped'
<1>0. BalancerOK /\ EndTyped
      BY DEF RestOK
<1>1. CASE balancer' = Idle /\ UNCHANGED <<running, bustOrder, paying>>
      BY <1>0, <1>1, IdleOK, EndTypedStays
<1>2. CASE balancer' = Idle /\ HandlerEnds(balancer.ofHand)
      BY <1>2, IdleOK, HandlerEndsTyped
<1>3. CASE SeatsNext /\ UNCHANGED <<running, bustOrder, paying>>
  <2>1. EndTyped'
        BY <1>0, <1>3, EndTypedStays
  <2>2. balancer \in Breaking(made) \union Seats(made)
        BY <1>0 DEF BalancerOK, Idle, Moving
  <2>3. PICK b \in balancer.bots, u \in balancer.others :
             balancer' = [pc |-> "seat", ofHand |-> balancer.ofHand, from |-> balancer.from,
                          to |-> u, bot |-> b, bots |-> balancer.bots \ {b},
                          others |-> balancer.others]
        BY <1>3 DEF SeatsNext
  <2>4. /\ balancer.ofHand \in BOOLEAN /\ balancer.from \in 1 .. made
        /\ balancer.bots \subseteq Bots /\ balancer.others \subseteq 1 .. made
        BY <2>2 DEF Breaking, Seats
  <2>5. balancer' \in Seats(made)
        BY <2>3, <2>4 DEF Seats
  <2> QED BY <2>1, <2>3, <2>5 DEF BalancerOK
<1> QED BY <1>1, <1>2, <1>3, MoverCases

-----------------------------------------------------------------------------
(* Handlers of completed hands *)

\* The bots that a completed hand leaves without chips, in an order.
LEMMA ListsOfBusts ==
  ASSUME NEW games, NEW stacks, RestOK, NEW s \in BustLists(Chipless(games), stacks),
         Chipless(games) # {}
  PROVE  /\ s \in Seq(Bots \X TableIds) /\ 1 \in DOMAIN s
         /\ DOMAIN s = 1 .. Len(s) /\ Len(s) \in Nat
         /\ \A i \in DOMAIN s : /\ s[i][1] \in active /\ s[i][2] \in tables
                                /\ s[i][1] \in games[s[i][2]].seated
                                /\ games[s[i][2]].chips[s[i][1]] = 0
<1> DEFINE out == Chipless(games)
           n == Cardinality(out)
<1>1. tables \subseteq TableIds /\ active \subseteq Bots
      BY DirectorAssumption DEF RestOK, TableIds
<1>2. \A e \in out : /\ e \in Bots \X TableIds /\ e[1] \in active /\ e[2] \in tables
                     /\ e[1] \in games[e[2]].seated /\ games[e[2]].chips[e[1]] = 0
      BY <1>1 DEF Chipless
<1>3. IsFiniteSet(TableIds)
      BY DirectorAssumption, FS_Interval DEF TableIds
<1>4. IsFiniteSet(Bots \X TableIds)
      BY <1>3, DirectorAssumption, FS_Product
<1>5. out \subseteq Bots \X TableIds
      BY <1>2
<1>6. IsFiniteSet(out)
      BY <1>4, <1>5, FS_Subset
<1>7. n \in Nat /\ n # 0
      BY <1>6, FS_CardinalityType, FS_EmptySet
<1>8. s \in [1 .. n -> out]
      BY DEF BustLists, SetToSeqs
<1> HIDE DEF n, out
<1>9. s \in [1 .. n -> Bots \X TableIds]
      BY <1>5, <1>8
<1>10. s \in Seq(Bots \X TableIds) /\ 1 \in DOMAIN s /\ DOMAIN s = 1 .. n /\ Len(s) = n
      BY <1>7, <1>9
<1>11. \A i \in DOMAIN s : s[i] \in out
      BY <1>8
<1> QED BY <1>2, <1>7, <1>10, <1>11

\* The places are numbers.
LEMMA PlaceIsInt ==
  ASSUME RestOK, NEW s \in Seq(Bots \X TableIds), NEW i, NEW stacks
  PROVE  Place(s, i, stacks) \in Int
<1> DEFINE better == {j \in DOMAIN s : stacks[s[j][1]] > stacks[s[i][1]]}
<1>1. Cardinality(Bots) \in Nat
      BY DirectorAssumption, FS_CardinalityType
<1>2. Len(bustOrder) \in Nat /\ Len(s) \in Nat
      BY DEF RestOK, EndTyped
<1>3. IsFiniteSet(better)
  <2>1. better \subseteq DOMAIN s
        OBVIOUS
  <2>2. DOMAIN s = 1 .. Len(s)
        OBVIOUS
  <2>3. IsFiniteSet(1 .. Len(s))
        BY <1>2, FS_Interval
  <2> HIDE DEF better
  <2> QED BY <2>1, <2>2, <2>3, FS_Subset
<1>4. Cardinality(better) \in Nat
      BY <1>3, FS_CardinalityType
<1> HIDE DEF better
<1>5. Place(s, i, stacks)
        = Cardinality(Bots) - Len(bustOrder) - Len(s) + 1 + Cardinality(better)
      BY DEF Place, better
<1> QED BY <1>1, <1>2, <1>4, <1>5

\* The list of a handler.
ListOf(s, stacks) == [i \in DOMAIN s |-> [bot |-> s[i][1], table |-> s[i][2],
                                          place |-> Place(s, i, stacks)]]

LEMMA ListTyped ==
  ASSUME RestOK, NEW s \in Seq(Bots \X TableIds), NEW stacks
  PROVE  ListOf(s, stacks) \in Seq(Busted)
<1>1. \A i \in 1 .. Len(s) : s[i] \in Bots \X TableIds
      OBVIOUS
<1>2. \A i \in 1 .. Len(s) :
        [bot |-> s[i][1], table |-> s[i][2], place |-> Place(s, i, stacks)] \in Busted
      BY <1>1, PlaceIsInt DEF Busted
<1>3. ListOf(s, stacks) \in [1 .. Len(s) -> Busted] /\ Len(s) \in Nat
      BY <1>2 DEF ListOf
<1> QED BY <1>3

\* The cases of handleHandComplete.
Ignored(t, games) ==
  /\ ~running \/ t \notin tables
  /\ game' = games
  /\ UNCHANGED <<active, bustOrder, handlers, running, paying>>
Listed(games, stacks) ==
  /\ running /\ Chipless(games) # {}
  /\ \E s \in BustLists(Chipless(games), stacks) :
       /\ Busts(ListOf(s, stacks)[1], games)
       /\ busting' = Append(busting, [list |-> ListOf(s, stacks), now |-> 1])
       /\ UNCHANGED <<syncing, running, paying>>
Nobody(games) ==
  /\ running /\ game' = games
  /\ IF Cardinality(active) <= 1 THEN FinishTournament /\ UNCHANGED syncing
     ELSE syncing' = syncing + 1 /\ UNCHANGED <<running, bustOrder, paying>>
  /\ UNCHANGED <<active, busting>>

LEMMA HandCompleteCases ==
  ASSUME NEW t, NEW games, NEW stacks, HandComplete(t, games, stacks)
  PROVE  Ignored(t, games) \/ Listed(games, stacks) \/ Nobody(games)
BY DEF HandComplete, Ignored, Listed, Nobody, ListOf

\* What a handler that goes on leaves: its types, and the games.
LEMMA HandCompleteTyped ==
  ASSUME RestOK, NEW t, NEW games, NEW stacks, HandComplete(t, games, stacks),
         AllFollow(games)
  PROVE  /\ HandlersOK' /\ EndTyped' /\ active' \subseteq Bots /\ syncing' \in Nat
         /\ AllFollow(game')
<1>0. HandlersOK /\ EndTyped /\ active \subseteq Bots /\ syncing \in Nat
      BY DEF RestOK
<1>1. CASE Ignored(t, games)
  <2>1. EndTyped'
        BY <1>0, <1>1, EndTypedStays DEF Ignored
  <2>2. HandlersOK'
        BY <1>0, <1>1 DEF Ignored, HandlersOK, handlers
  <2> QED BY <1>0, <1>1, <2>1, <2>2 DEF Ignored, handlers
<1>2. CASE Listed(games, stacks)
  <2>1. PICK s \in BustLists(Chipless(games), stacks) :
             /\ Busts(ListOf(s, stacks)[1], games)
             /\ busting' = Append(busting, [list |-> ListOf(s, stacks), now |-> 1])
             /\ UNCHANGED <<syncing, running, paying>>
        BY <1>2 DEF Listed
  <2>2. /\ s \in Seq(Bots \X TableIds) /\ 1 \in DOMAIN s
        /\ s[1][1] \in active
        BY <1>2, <2>1, ListsOfBusts DEF Listed
  <2> DEFINE list == ListOf(s, stacks)
  <2>3. list \in Seq(Busted)
        BY <2>2, ListTyped
  <2>4. DOMAIN list = DOMAIN s
        BY DEF ListOf
  <2> HIDE DEF list
  <2>5. list[1] \in Busted /\ 1 \in DOMAIN list
        BY <2>2, <2>3, <2>4
  <2>6. list[1].bot \in Bots /\ list[1].table \in TableIds
        BY <2>5 DEF Busted
  <2>7. /\ bustOrder' = Append(bustOrder, list[1].bot) /\ active' = active \ {list[1].bot}
        /\ game' = [games EXCEPT ![list[1].table] = Removed(games[list[1].table], list[1].bot)]
        BY <2>1 DEF Busts, OutOfActive, list
  <2>8. AllFollow(game')
        BY <2>6, <2>7, BustFollows
  <2>9. HandlersOK'
    <3> DEFINE h == [list |-> list, now |-> 1]
    <3>1. h \in Handler /\ h.now \in DOMAIN h.list
          BY <2>3, <2>5 DEF Handler
    <3>2. busting' = Append(busting, h)
          BY <2>1 DEF list
    <3> HIDE DEF h
    <3> QED BY <1>0, <3>1, <3>2 DEF HandlersOK
  <2>10. EndTyped'
        BY <1>0, <2>1, <2>6, <2>7 DEF EndTyped, PayingOK
  <2> QED BY <1>0, <2>1, <2>7, <2>8, <2>9, <2>10
<1>3. CASE Nobody(games)
  <2>1. EndTyped'
    <3>1. CASE Cardinality(active) <= 1
          BY <1>3, <3>1, FinishTyped DEF Nobody
    <3>2. CASE ~(Cardinality(active) <= 1)
          BY <1>0, <1>3, <3>2, EndTypedStays DEF Nobody
    <3> QED BY <3>1, <3>2
  <2>2. syncing' \in Nat
    <3>1. syncing' = syncing \/ syncing' = syncing + 1
          BY <1>3 DEF Nobody
    <3> QED BY <1>0, <3>1
  <2>3. HandlersOK'
        BY <1>0, <1>3 DEF Nobody, HandlersOK
  <2> QED BY <1>0, <1>3, <2>1, <2>2, <2>3 DEF Nobody
<1> QED BY <1>1, <1>2, <1>3, HandCompleteCases
-----------------------------------------------------------------------------
(* The actions on the types *)

LEMMA HandlersKept ==
  ASSUME HandlersOK, busting' = busting
  PROVE  HandlersOK'
BY DEF HandlersOK

LEMMA BalancerKept ==
  ASSUME BalancerOK, balancer' = balancer, made' = made
  PROVE  BalancerOK'
BY DEF BalancerOK

\* The parts of the types.
LEMMA RestParts ==
  ASSUME RestOK
  PROVE  /\ made \in 0 .. Len(Seating) /\ tables \subseteq 1 .. made /\ active \subseteq Bots
         /\ snapshot \in [Bots -> Nat] /\ dbPlace \in [Bots -> Int]
         /\ syncing \in Nat /\ hands \in Nat /\ quiet \in Nat
         /\ dbStatus \in {"running", "finished"}
         /\ HandlersOK /\ BalancerOK /\ EndTyped
         /\ tables \subseteq TableIds /\ Len(Seating) \in Nat /\ made \in Nat
BY DirectorAssumption DEF RestOK, TableIds

LEMMA InitBase ==
  ASSUME Init
  PROVE  Base
<1>1. None \in [Bots -> Nat] /\ None \in [Bots -> Int]
      BY DEF None
<1>2. Len(Seating) \in Nat
      BY DirectorAssumption
<1>3. HandlersOK /\ BalancerOK /\ EndTyped
      BY DEF Init, HandlersOK, BalancerOK, Idle, EndTyped, PayingOK
<1>4. RestOK
      BY <1>1, <1>2, <1>3 DEF Init, RestOK
<1>5. <<>> \in Seq(Changes) /\ "none" \in Loops
      BY DEF Loops
<1>6. NoGame \in Games
      BY <1>1, <1>5 DEF NoGame, Games
<1>7. NoGame.loop = "none" /\ NoGame.pending = <<>>
      BY DEF NoGame
<1> HIDE DEF NoGame
<1>8. GamesOK
      BY <1>6, <1>7 DEF Init, GamesOK, GameOK
<1> QED BY <1>4, <1>8 DEF Base

LEMMA PayoutStoredTyped ==
  ASSUME Base, PayoutStored
  PROVE  Base' /\ AllFollow(game')
<1>1. RestOK /\ GamesOK
      BY DEF Base
<1>2. AllFollow(game') /\ GamesOK'
      BY <1>1, GamesStay, FollowingGamesOK DEF PayoutStored
<1>3. paying \in Seq(Bots \X (Nat \ {0})) /\ paying # <<>>
      BY <1>1, RestParts DEF PayoutStored, EndTyped, PayingOK
<1>4. Head(paying) \in Bots \X (Nat \ {0}) /\ Tail(paying) \in Seq(Bots \X (Nat \ {0}))
      BY <1>3
<1>5. Head(paying)[1] \in Bots /\ Head(paying)[2] \in Int
      BY <1>4
<1>6. dbPlace' \in [Bots -> Int]
  <2> DEFINE b == Head(paying)[1]
             p == Head(paying)[2]
  <2>1. dbPlace' = [dbPlace EXCEPT ![b] = p]
        BY DEF PayoutStored
  <2> HIDE DEF b, p
  <2> QED BY <1>1, <2>1, <1>5, RestParts DEF b, p
<1>7. EndTyped'
      BY <1>1, <1>4, RestParts DEF PayoutStored, EndTyped, PayingOK
<1>8. HandlersOK' /\ BalancerOK'
      BY <1>1, RestParts, HandlersKept, BalancerKept DEF PayoutStored, handlers
<1>9. RestOK'
      BY <1>1, <1>6, <1>7, <1>8 DEF RestOK, PayoutStored, handlers, counts
<1> QED BY <1>2, <1>9 DEF Base

\* A loop that is closed, wherever its game is.
LEMMA StoppedFollows ==
  ASSUME NEW g, GameOK(g)
  PROVE  Follows([g EXCEPT !.loop = IF @ = "hand" THEN "hand" ELSE "none"], g)
<1> DEFINE l == IF g.loop = "hand" THEN "hand" ELSE "none"
<1>1. l \in Loops /\ (g.loop = "none" => l = "none") /\ (l # "hand" => g.pending = <<>>)
      BY DEF GameOK, Loops
<1>2. Follows([g EXCEPT !.loop = l], g)
  <2> HIDE DEF l
  <2> QED BY <1>1, LoopFollows
<1> QED BY <1>2

LEMMA TournamentFinishedTyped ==
  ASSUME Base, TournamentFinished
  PROVE  Base' /\ AllFollow(game')
<1>1. RestOK /\ GamesOK
      BY DEF Base
<1>2. \A t \in TableIds : Follows(Closed(t), game[t])
      BY <1>1, StoppedFollows DEF Closed, GamesOK
<1>3. game' = [t \in TableIds |-> Closed(t)]
      BY DEF TournamentFinished
<1>4. AllFollow(game')
      BY <1>2, <1>3 DEF AllFollow, Follows, GameOK
<1>5. GamesOK'
      BY <1>1, <1>4, FollowingGamesOK DEF TournamentFinished
<1>6. HandlersOK' /\ BalancerOK' /\ EndTyped'
      BY <1>1, RestParts, HandlersKept, BalancerKept, EndTypedStays
      DEF TournamentFinished, handlers
<1>7. RestOK'
      BY <1>1, <1>6 DEF RestOK, TournamentFinished, handlers, counts
<1> QED BY <1>4, <1>5, <1>7 DEF Base

LEMMA MoveStoredTyped ==
  ASSUME Base, MoveStored
  PROVE  Base' /\ AllFollow(game')
<1>1. RestOK /\ GamesOK
      BY DEF Base
<1>2. AllFollow(game') /\ GamesOK'
      BY <1>1, GamesStay, FollowingGamesOK DEF MoveStored
<1>3. HandlersOK' /\ BalancerOK' /\ EndTyped'
      BY <1>1, RestParts, HandlersKept, IdleOK, HandlerEndsTyped DEF MoveStored, handlers
<1>4. RestOK'
      BY <1>1, <1>3 DEF RestOK, MoveStored, handlers, counts, database
<1> QED BY <1>2, <1>4 DEF Base

LEMMA RestartedFollows ==
  ASSUME GamesOK, NEW S
  PROVE  AllFollow(Restarted(S))
<1>1. ASSUME NEW t \in TableIds
      PROVE  Follows(Restarted(S)[t], game[t])
  <2>1. GameOK(game[t])
        BY DEF GamesOK
  <2>2. CASE t \in S /\ game[t].loop = "finished" /\ Size(t) >= 2
    <3>1. Restarted(S)[t] = [game[t] EXCEPT !.loop = "due"]
          BY <2>2 DEF Restarted
    <3>2. Follows([game[t] EXCEPT !.loop = "due"], game[t])
          BY <2>1, <2>2, LoopFollows DEF GameOK, Loops
    <3> QED BY <3>1, <3>2
  <2>3. CASE ~(t \in S /\ game[t].loop = "finished" /\ Size(t) >= 2)
    <3>1. Restarted(S)[t] = game[t]
          BY <2>3 DEF Restarted
    <3> QED BY <2>1, <3>1, FollowsItself
  <2> QED BY <2>2, <2>3
<1>2. Restarted(S) = [t \in TableIds |-> Restarted(S)[t]]
      BY DEF Restarted
<1> QED BY <1>1, <1>2 DEF AllFollow, Follows, GameOK

\* The tables of the balancer's stages.
LEMMA BalancerParts ==
  ASSUME RestOK
  PROVE  /\ balancer.pc \in {"break", "move", "store", "seat", "seated"} =>
              /\ balancer.ofHand \in BOOLEAN
              /\ balancer.from \in 1 .. made /\ balancer.from \in TableIds
         /\ balancer.pc \in {"break", "seat", "seated"} =>
              balancer.bots \subseteq Bots /\ balancer.others \subseteq 1 .. made
         /\ balancer.pc \in {"move", "store", "seat", "seated"} =>
              /\ balancer.to \in 1 .. made /\ balancer.to \in TableIds
              /\ balancer.bot \in Bots
         /\ balancer.pc \in {"move", "store"} =>
              balancer.stack \in Nat /\ balancer.from # balancer.to
         /\ balancer.pc = "seat" => balancer.bot \notin balancer.bots
         /\ balancer.pc \in {"off", "break", "move", "store", "seat", "seated"}
<1>1. BalancerOK /\ 1 .. made \subseteq TableIds
      BY RestParts DEF TableIds
<1>2. balancer \in {Idle} \union Breaking(made) \union Moving(made) \union Seats(made)
      BY <1>1 DEF BalancerOK
<1>3. CASE balancer = Idle
      BY <1>3 DEF Idle
<1>4. CASE balancer \in Breaking(made)
      BY <1>1, <1>4 DEF Breaking
<1>5. CASE balancer \in Moving(made)
      BY <1>1, <1>5 DEF Moving, BalancerOK
<1>6. CASE balancer \in Seats(made)
      BY <1>1, <1>6 DEF Seats, BalancerOK
<1> QED BY <1>2, <1>3, <1>4, <1>5, <1>6

LEMMA BreakTableTyped ==
  ASSUME Base, BreakTable
  PROVE  Base' /\ AllFollow(game')
<1>1. RestOK /\ GamesOK
      BY DEF Base
<1> DEFINE f  == balancer.from
           gs == IF balancer.bots = {} THEN Restarted(balancer.others) ELSE game
<1>2. balancer.pc = "break" /\ f \in TableIds /\ NextMover /\ tables' = tables \ {f}
      BY <1>1, BalancerParts DEF BreakTable
<1>3. AllFollow(gs)
      BY <1>1, RestartedFollows, GamesStay
<1>4. game' = [gs EXCEPT ![f] = Stopped(gs[f])]
      BY DEF BreakTable
<1> HIDE DEF gs, f
<1>5. AllFollow(game')
  <2>1. GameOK(gs[f]) /\ Follows(gs[f], game[f])
        BY <1>2, <1>3 DEF AllFollow, Follows
  <2>2. Follows(Stopped(gs[f]), gs[f])
        BY <2>1, StoppedFollows DEF Stopped
  <2> DEFINE h == Stopped(gs[f])
  <2> HIDE DEF h
  <2>3. Follows(h, game[f]) /\ h \in Games
        BY <2>1, <2>2, FollowsOn DEF h, Follows, GameOK
  <2>4. game' = [gs EXCEPT ![f] = h]
        BY <1>4 DEF h
  <2> QED BY <1>2, <1>3, <2>3, <2>4 DEF AllFollow
<1>6. GamesOK'
      BY <1>1, <1>5, FollowingGamesOK DEF BreakTable
<1>7. BalancerOK' /\ EndTyped' /\ HandlersOK'
      BY <1>1, <1>2, MoverTyped, RestParts, HandlersKept DEF BreakTable, handlers
<1>8. RestOK'
      BY <1>1, <1>2, <1>7 DEF RestOK, BreakTable, handlers, counts, database
<1> QED BY <1>5, <1>6, <1>8 DEF Base

LEMMA MoverStoredTyped ==
  ASSUME Base, MoverStored
  PROVE  Base' /\ AllFollow(game')
<1>1. RestOK /\ GamesOK
      BY DEF Base
<1>2. AllFollow(game')
      BY <1>1, RestartedFollows, GamesStay DEF MoverStored
<1>3. GamesOK'
      BY <1>1, <1>2, FollowingGamesOK DEF MoverStored
<1>4. BalancerOK' /\ EndTyped' /\ HandlersOK'
      BY <1>1, MoverTyped, RestParts, HandlersKept DEF MoverStored, handlers
<1>5. RestOK'
      BY <1>1, <1>4 DEF RestOK, MoverStored, handlers, counts, database
<1> QED BY <1>2, <1>3, <1>5 DEF Base

LEMMA ChipsSyncedTyped ==
  ASSUME Base, ChipsSynced
  PROVE  Base' /\ AllFollow(game')
<1>1. RestOK /\ GamesOK
      BY DEF Base
<1>2. AllFollow(game') /\ GamesOK'
      BY <1>1, GamesStay, FollowingGamesOK DEF ChipsSynced
<1>3. BalancerOK' /\ EndTyped' /\ HandlersOK'
      BY <1>1, BalancingTyped, RestParts, HandlersKept DEF ChipsSynced
<1>4. syncing' \in Nat
      BY <1>1, RestParts DEF ChipsSynced
<1>5. RestOK'
      BY <1>1, <1>3, <1>4 DEF RestOK, ChipsSynced, counts, database
<1> QED BY <1>2, <1>5 DEF Base

LEMMA SafetyNetTyped ==
  ASSUME Base, SafetyNet
  PROVE  Base' /\ AllFollow(game')
<1>1. RestOK /\ GamesOK
      BY DEF Base
<1>2. AllFollow(game') /\ GamesOK'
      BY <1>1, GamesStay, FollowingGamesOK DEF SafetyNet
<1>3. HandlersOK'
      BY <1>1, RestParts, HandlersKept DEF SafetyNet, handlers
<1>4. BalancerOK' /\ EndTyped'
  <2>1. CASE Cardinality(active) <= 1
        BY <1>1, <2>1, FinishTyped, RestParts, BalancerKept DEF SafetyNet
  <2>2. CASE ~(Cardinality(active) <= 1)
    <3>1. CheckTableBalancing(FALSE) /\ made' = made
          BY <2>2 DEF SafetyNet
    <3> QED BY <1>1, <3>1, BalancingTyped
  <2> QED BY <2>1, <2>2
<1>5. RestOK'
      BY <1>1, <1>3, <1>4 DEF RestOK, SafetyNet, counts, database, handlers
<1> QED BY <1>2, <1>5 DEF Base

LEMMA GameOverTyped ==
  ASSUME Base, NEW t \in TableIds, GameOver(t)
  PROVE  Base' /\ AllFollow(game')
<1>1. RestOK /\ GamesOK
      BY DEF Base
<1>2. AllFollow(game') /\ GamesOK'
  <2>1. GameOK(game[t]) /\ game[t].loop = "running"
        BY <1>1 DEF GamesOK, GameOver
  <2>2. Follows([game[t] EXCEPT !.loop = "finished"], game[t])
        BY <2>1, LoopFollows DEF GameOK, Loops
  <2>3. game' = [game EXCEPT ![t] = [game[t] EXCEPT !.loop = "finished"]]
        BY DEF GameOver
  <2>4. AllFollow(game')
        BY <1>1, <2>2, <2>3, OneGameFollows
  <2> QED BY <1>1, <2>4, FollowingGamesOK DEF GameOver
<1>3. HandlersOK'
      BY <1>1, RestParts, HandlersKept DEF GameOver, handlers
<1>4. BalancerOK' /\ EndTyped'
  <2>1. CASE ~running \/ t \notin tables
        BY <1>1, <2>1, RestParts, EndTypedStays, BalancerKept DEF GameOver
  <2>2. CASE ~(~running \/ t \notin tables) /\ Cardinality(active) <= 1
        BY <1>1, <2>2, FinishTyped, RestParts, BalancerKept DEF GameOver
  <2>3. CASE ~(~running \/ t \notin tables) /\ ~(Cardinality(active) <= 1)
    <3>1. CheckTableBalancing(FALSE) /\ made' = made
          BY <2>3 DEF GameOver
    <3> QED BY <1>1, <3>1, BalancingTyped
  <2> QED BY <2>1, <2>2, <2>3
<1>5. RestOK'
      BY <1>1, <1>3, <1>4 DEF RestOK, GameOver, counts, database, handlers
<1> QED BY <1>2, <1>5 DEF Base

LEMMA StartGameTyped ==
  ASSUME Base, NEW t \in TableIds, StartGame(t)
  PROVE  Base' /\ AllFollow(game')
<1>1. RestOK /\ GamesOK
      BY DEF Base
<1>2. AllFollow(game') /\ GamesOK'
  <2>1. GameOK(game[t]) /\ game[t].loop = "due"
        BY <1>1 DEF GamesOK, StartGame
  <2>2. Follows([game[t] EXCEPT !.loop = "running"], game[t])
        BY <2>1, LoopFollows DEF GameOK, Loops
  <2>3. game' = [game EXCEPT ![t] = [game[t] EXCEPT !.loop = "running"]]
        BY DEF StartGame
  <2>4. AllFollow(game')
        BY <1>1, <2>2, <2>3, OneGameFollows
  <2> QED BY <1>1, <2>4, FollowingGamesOK DEF StartGame
<1>3. HandlersOK' /\ BalancerOK' /\ EndTyped'
      BY <1>1, RestParts, HandlersKept, BalancerKept, EndTypedStays DEF StartGame, handlers
<1>4. RestOK'
      BY <1>1, <1>3 DEF RestOK, StartGame, counts, database, handlers
<1> QED BY <1>2, <1>4 DEF Base
\* The snapshot of the stacks.
LEMMA SnapshotTyped ==
  ASSUME RestOK, NEW g \in Games
  PROVE  Snapshot(g) \in [Bots -> Nat]
BY RestParts DEF Snapshot, Games

LEMMA QuietTyped ==
  ASSUME RestOK, NEW t, NEW g, CountedQuiet(t, g)
  PROVE  quiet' \in Nat
<1>1. quiet' = quiet \/ quiet' = quiet + 1
      BY DEF CountedQuiet
<1> QED BY <1>1, RestParts

\* The tables of a hand.
LEMMA HandFollows ==
  ASSUME GamesOK, NEW t \in TableIds, game[t].loop = "running",
         NEW ps \in SUBSET Playable(game[t]), Cardinality(ps) \in HandSizes,
         NEW g \in Outcomes(HandBegun(game[t], ps))
  PROVE  Follows(g, game[t])
<1>1. Follows(HandBegun(game[t], ps), game[t]) /\ HandBegun(game[t], ps).loop = "hand"
      BY HandBegunFollows DEF GamesOK
<1> DEFINE h == HandBegun(game[t], ps)
<1>2. h \in Games
      BY <1>1 DEF Follows, GameOK
<1> HIDE DEF h
<1>3. Follows(g, h)
      BY <1>1, <1>2, OutcomeFollows DEF h
<1>4. Follows(h, game[t])
      BY <1>1 DEF h
<1> QED BY <1>3, <1>4, FollowsOn

LEMMA PlayHandTyped ==
  ASSUME Base, NEW t \in TableIds, PlayHand(t)
  PROVE  Base' /\ AllFollow(game')
<1>1. RestOK /\ GamesOK
      BY DEF Base
<1>2. PICK ps \in SUBSET Playable(game[t]) :
           /\ Cardinality(ps) \in HandSizes
           /\ \E g \in Outcomes(HandBegun(game[t], ps)) :
                /\ Counted /\ CountedQuiet(t, g)
                /\ snapshot' = Snapshot(game[t])
                /\ HandComplete(t, [game EXCEPT ![t] = g], snapshot')
      BY DEF PlayHand
<1>3. PICK g \in Outcomes(HandBegun(game[t], ps)) :
           /\ Counted /\ CountedQuiet(t, g)
           /\ snapshot' = Snapshot(game[t])
           /\ HandComplete(t, [game EXCEPT ![t] = g], snapshot')
      BY <1>2
<1>4. Follows(g, game[t])
      BY <1>1, <1>2, HandFollows DEF PlayHand
<1>5. AllFollow([game EXCEPT ![t] = g])
      BY <1>1, <1>4, OneGameFollows
<1>6. /\ HandlersOK' /\ EndTyped' /\ active' \subseteq Bots /\ syncing' \in Nat
      /\ AllFollow(game')
      BY <1>1, <1>3, <1>5, HandCompleteTyped
<1>7. GamesOK'
      BY <1>1, <1>6, FollowingGamesOK DEF PlayHand
<1>8. BalancerOK'
      BY <1>1, RestParts, BalancerKept DEF PlayHand
<1>9. snapshot' \in [Bots -> Nat]
      BY <1>1, <1>3, SnapshotTyped DEF GamesOK
<1>10. quiet' \in Nat /\ hands' \in Nat
      BY <1>1, <1>3, QuietTyped, RestParts DEF Counted
<1>11. RestOK'
      BY <1>1, <1>6, <1>8, <1>9, <1>10 DEF RestOK, PlayHand, database
<1> QED BY <1>6, <1>7, <1>11 DEF Base

LEMMA BeginHandTyped ==
  ASSUME Base, NEW t \in TableIds, BeginHand(t)
  PROVE  Base' /\ AllFollow(game')
<1>1. RestOK /\ GamesOK
      BY DEF Base
<1>2. PICK ps \in SUBSET Playable(game[t]) :
           /\ Cardinality(ps) \in HandSizes
           /\ game' = [game EXCEPT ![t] = HandBegun(game[t], ps)]
      BY DEF BeginHand
<1>3. Follows(HandBegun(game[t], ps), game[t])
      BY <1>1, <1>2, HandBegunFollows DEF GamesOK, BeginHand
<1>4. AllFollow(game')
      BY <1>1, <1>2, <1>3, OneGameFollows
<1>5. GamesOK'
      BY <1>1, <1>4, FollowingGamesOK DEF BeginHand
<1>6. HandlersOK' /\ BalancerOK' /\ EndTyped'
      BY <1>1, RestParts, HandlersKept, BalancerKept, EndTypedStays DEF BeginHand, handlers
<1>7. snapshot' \in [Bots -> Nat] /\ hands' \in Nat
      BY <1>1, SnapshotTyped, RestParts DEF BeginHand, GamesOK, Counted
<1>8. RestOK'
      BY <1>1, <1>6, <1>7 DEF RestOK, BeginHand, database, handlers
<1> QED BY <1>4, <1>5, <1>8 DEF Base

LEMMA EndHandTyped ==
  ASSUME Base, NEW t \in TableIds, EndHand(t)
  PROVE  Base' /\ AllFollow(game')
<1>1. RestOK /\ GamesOK
      BY DEF Base
<1>2. PICK g \in Outcomes(game[t]) :
           /\ CountedQuiet(t, g)
           /\ HandComplete(t, [game EXCEPT ![t] = g], snapshot)
      BY DEF EndHand
<1>3. Follows(g, game[t])
      BY <1>1, <1>2, OutcomeFollows DEF EndHand, GamesOK
<1>4. AllFollow([game EXCEPT ![t] = g])
      BY <1>1, <1>3, OneGameFollows
<1>5. /\ HandlersOK' /\ EndTyped' /\ active' \subseteq Bots /\ syncing' \in Nat
      /\ AllFollow(game')
      BY <1>1, <1>2, <1>4, HandCompleteTyped
<1>6. GamesOK'
      BY <1>1, <1>5, FollowingGamesOK DEF EndHand
<1>7. BalancerOK' /\ quiet' \in Nat
      BY <1>1, <1>2, RestParts, BalancerKept, QuietTyped DEF EndHand
<1>8. RestOK'
      BY <1>1, <1>5, <1>7 DEF RestOK, EndHand, database
<1> QED BY <1>5, <1>6, <1>8 DEF Base

LEMMA HandThrowsTyped ==
  ASSUME Base, NEW t \in TableIds, HandThrows(t)
  PROVE  Base' /\ AllFollow(game')
<1>1. RestOK /\ GamesOK
      BY DEF Base
<1>2. Follows([Drained(game[t]) EXCEPT !.loop = "error"], game[t])
      BY <1>1, ThrownFollows DEF HandThrows, GamesOK
<1>3. game' = [game EXCEPT ![t] = [Drained(game[t]) EXCEPT !.loop = "error"]]
      BY DEF HandThrows
<1>4. AllFollow(game')
      BY <1>1, <1>2, <1>3, OneGameFollows
<1>5. GamesOK'
      BY <1>1, <1>4, FollowingGamesOK DEF HandThrows
<1>6. HandlersOK' /\ BalancerOK' /\ EndTyped'
      BY <1>1, RestParts, HandlersKept, BalancerKept, EndTypedStays DEF HandThrows, handlers
<1>7. RestOK'
      BY <1>1, <1>6 DEF RestOK, HandThrows, database, handlers, counts
<1> QED BY <1>4, <1>5, <1>7 DEF Base

\* A handler that is taken from the sequence leaves the others.
LEMMA OthersRemain ==
  ASSUME NEW S, NEW s \in Seq(S), NEW h \in DOMAIN s
  PROVE  /\ RemoveAt(s, h) \in Seq(S)
         /\ \A i \in DOMAIN RemoveAt(s, h) : \E j \in DOMAIN s : RemoveAt(s, h)[i] = s[j]
         /\ \A j \in DOMAIN s : j # h => \E i \in DOMAIN RemoveAt(s, h) : RemoveAt(s, h)[i] = s[j]
<1> DEFINE a == SubSeq(s, 1, h - 1)
           b == SubSeq(s, h + 1, Len(s))
<1>1. h \in 1 .. Len(s) /\ Len(s) \in Nat
      OBVIOUS
<1>2. a \in Seq(S) /\ Len(a) = h - 1 /\ \A i \in 1 .. h - 1 : a[i] = s[i]
      BY <1>1
<1>3. b \in Seq(S) /\ Len(b) = Len(s) - h /\ \A i \in 1 .. Len(s) - h : b[i] = s[h + i]
      BY <1>1
<1> HIDE DEF a, b
<1>4. RemoveAt(s, h) = a \o b
      BY DEF RemoveAt, a, b
<1>5. a \o b \in Seq(S) /\ Len(a \o b) = Len(s) - 1
      BY <1>1, <1>2, <1>3
<1>c. \A i \in 1 .. Len(a) + Len(b) :
        (a \o b)[i] = IF i <= Len(a) THEN a[i] ELSE b[i - Len(a)]
      BY <1>2, <1>3, ConcatProperties
<1>6. ASSUME NEW i \in DOMAIN (a \o b) PROVE \E j \in DOMAIN s : (a \o b)[i] = s[j]
  <2>1. i \in 1 .. Len(s) - 1
        BY <1>5
  <2>2. CASE i <= h - 1
    <3>1. (a \o b)[i] = s[i] /\ i \in DOMAIN s
          BY <1>1, <1>2, <1>3, <2>1, <2>2
    <3> QED BY <3>1
  <2>3. CASE ~(i <= h - 1)
    <3>1. i - (h - 1) \in 1 .. Len(s) - h
          BY <1>1, <2>1, <2>3
    <3>2. (a \o b)[i] = b[i - (h - 1)]
      <4>1. a \in Seq(S) /\ b \in Seq(S) /\ Len(a) = h - 1 /\ Len(b) = Len(s) - h
            BY <1>2, <1>3
      <4>2. i \in 1 .. Len(a) + Len(b) /\ i > Len(a)
            BY <1>1, <2>1, <2>3, <4>1
      <4>3. (a \o b)[i] = b[i - Len(a)]
            BY <1>c, <4>1, <4>2
      <4> QED BY <4>1, <4>3
    <3>3. b[i - (h - 1)] = s[h + (i - (h - 1))]
          BY <1>3, <3>1
    <3>4. h + (i - (h - 1)) = i + 1 /\ i + 1 \in DOMAIN s
          BY <1>1, <2>1
    <3>5. b[i - (h - 1)] = s[i + 1] /\ i + 1 \in DOMAIN s
          BY <3>3, <3>4
    <3> QED BY <3>2, <3>5
  <2> QED BY <2>2, <2>3
<1>7. ASSUME NEW j \in DOMAIN s, j # h PROVE \E i \in DOMAIN (a \o b) : (a \o b)[i] = s[j]
  <2>1. j \in 1 .. Len(s)
        OBVIOUS
  <2>2. DOMAIN (a \o b) = 1 .. Len(s) - 1
        BY <1>5
  <2>3. CASE j < h
    <3>1. j \in 1 .. h - 1 /\ j \in 1 .. Len(s) - 1
          BY <1>1, <2>1, <2>3
    <3>2. (a \o b)[j] = s[j]
          BY <1>1, <1>2, <1>3, <3>1
    <3> QED BY <2>2, <3>1, <3>2
  <2>4. CASE ~(j < h)
    <3>0. Len(s) \in Nat /\ h \in 1 .. Len(s) /\ j \in 1 .. Len(s) /\ j # h
          BY <1>1, <1>7, <2>1
    <3> DEFINE i == j - 1
    <3>1. i \in 1 .. Len(s) - 1 /\ i = j - 1
          BY <3>0, <2>4
    <3> HIDE DEF i
    <3>2. i > h - 1 /\ i - (h - 1) \in 1 .. Len(s) - h /\ h + (i - (h - 1)) = j
          BY <3>0, <2>4, <3>1
    <3>3. (a \o b)[i] = b[i - (h - 1)]
      <4>1. a \in Seq(S) /\ b \in Seq(S) /\ Len(a) = h - 1 /\ Len(b) = Len(s) - h
            BY <1>2, <1>3
      <4>2. i \in 1 .. Len(a) + Len(b) /\ i > Len(a)
            BY <1>1, <3>1, <3>2, <4>1
      <4>3. (a \o b)[i] = IF i <= Len(a) THEN a[i] ELSE b[i - Len(a)]
            BY <1>c, <4>2
      <4>4. ~(i <= Len(a))
            BY <4>1, <4>2
      <4> QED BY <4>1, <4>3, <4>4
    <3>4. b[i - (h - 1)] = s[j]
          BY <1>3, <3>2
    <3> QED BY <2>2, <3>1, <3>3, <3>4
  <2> QED BY <2>3, <2>4
<1> QED BY <1>4, <1>5, <1>6, <1>7

\* The cases of a stored bust: the next bot of the list is out, or the handler goes on.
NextBust(h) ==
  LET list == busting[h].list
      now  == busting[h].now
  IN  /\ now < Len(list)
      /\ Busts(list[now + 1], game)
      /\ busting' = [busting EXCEPT ![h].now = now + 1]
      /\ UNCHANGED <<syncing, snapshot, running, paying>>
LastBust(h) ==
  LET list == busting[h].list
  IN  /\ busting[h].now >= Len(list)
      /\ busting' = RemoveAt(busting, h)
      /\ snapshot' = [b \in Bots |-> IF \E i \in DOMAIN list : list[i].bot = b
                                     THEN 0 ELSE snapshot[b]]
      /\ \/ FinishTournament /\ UNCHANGED syncing /\ Cardinality(active) <= 1
         \/ syncing' = syncing + 1 /\ UNCHANGED <<running, bustOrder, paying>>
      /\ UNCHANGED <<active, game>>
StoresPlace(h) ==
  LET bust == busting[h].list[busting[h].now]
  IN  dbPlace' = [dbPlace EXCEPT ![bust.bot] = bust.place]

\* What is known of a handler.
LEMMA HandlerParts ==
  ASSUME RestOK, NEW h \in DOMAIN busting
  PROVE  /\ busting[h].list \in Seq(Busted) /\ busting[h].now \in Nat
         /\ busting[h].now \in DOMAIN busting[h].list
         /\ DOMAIN busting[h].list = 1 .. Len(busting[h].list)
         /\ Len(busting[h].list) \in Nat
         /\ \A i \in DOMAIN busting[h].list :
              /\ busting[h].list[i].bot \in Bots /\ busting[h].list[i].table \in TableIds
              /\ busting[h].list[i].place \in Int
<1>1. HandlersOK
      BY RestParts
<1>2. busting[h] \in Handler
      BY <1>1 DEF HandlersOK
<1>3. busting[h].list \in Seq(Busted) /\ busting[h].now \in Nat
      BY <1>2 DEF Handler
<1>4. busting[h].now \in DOMAIN busting[h].list
      BY <1>1 DEF HandlersOK
<1> DEFINE list == busting[h].list
<1> HIDE DEF list
<1>5. list \in Seq(Busted)
      BY <1>3 DEF list
<1>6. \A i \in DOMAIN list : list[i] \in Busted
      BY <1>5
<1>7. DOMAIN list = 1 .. Len(list) /\ Len(list) \in Nat
      BY <1>5
<1> QED BY <1>3, <1>4, <1>6, <1>7 DEF list, Busted

LEMMA BustCases ==
  ASSUME RestOK, NEW h \in DOMAIN busting, BustStored(h)
  PROVE  StoresPlace(h) /\ (NextBust(h) \/ LastBust(h))
<1>1. busting[h].now \in Nat /\ Len(busting[h].list) \in Nat
      BY HandlerParts
<1> DEFINE list == busting[h].list
           now  == busting[h].now
<1>2. /\ dbPlace' = [dbPlace EXCEPT ![list[now].bot] = list[now].place]
      /\ IF now < Len(list)
         THEN /\ Busts(list[now + 1], game)
              /\ busting' = [busting EXCEPT ![h].now = now + 1]
              /\ UNCHANGED <<syncing, snapshot, running, paying>>
         ELSE /\ busting' = RemoveAt(busting, h)
              /\ snapshot' = [b \in Bots |-> IF \E i \in DOMAIN list : list[i].bot = b
                                             THEN 0 ELSE snapshot[b]]
              /\ IF Cardinality(active) <= 1
                 THEN FinishTournament /\ UNCHANGED syncing
                 ELSE syncing' = syncing + 1 /\ UNCHANGED <<running, bustOrder, paying>>
              /\ UNCHANGED <<active, game>>
      BY Zenon DEF BustStored
<1>3. StoresPlace(h)
      BY <1>2 DEF StoresPlace
<1>4. ASSUME now < Len(list) PROVE NextBust(h)
      BY <1>2, <1>4, Zenon DEF NextBust
<1>5. ASSUME ~(now < Len(list)) PROVE LastBust(h)
  <2>1. now >= Len(list)
        BY <1>1, <1>5
  <2> QED BY <1>2, <1>5, <2>1, Zenon DEF LastBust
<1> QED BY <1>3, <1>4, <1>5

LEMMA BustStoredTyped ==
  ASSUME Base, NEW h \in DOMAIN busting, BustStored(h)
  PROVE  Base' /\ AllFollow(game')
<1>1. RestOK /\ GamesOK
      BY DEF Base
<1> DEFINE list == busting[h].list
           now  == busting[h].now
<1>2. /\ list \in Seq(Busted) /\ now \in Nat /\ now \in 1 .. Len(list) /\ Len(list) \in Nat
      /\ \A i \in 1 .. Len(list) : /\ list[i].bot \in Bots /\ list[i].table \in TableIds
                                   /\ list[i].place \in Int
      BY <1>1, HandlerParts
<1>3. StoresPlace(h) /\ (NextBust(h) \/ LastBust(h))
      BY <1>1, BustCases
<1>4. dbPlace' \in [Bots -> Int]
  <2> DEFINE b == list[now].bot
             p == list[now].place
  <2>1. dbPlace' = [dbPlace EXCEPT ![b] = p]
        BY <1>3 DEF StoresPlace
  <2>2. b \in Bots /\ p \in Int
        BY <1>2
  <2> HIDE DEF b, p
  <2> QED BY <1>1, <2>1, <2>2, RestParts
<1>5. BalancerOK'
      BY <1>1, RestParts, BalancerKept DEF BustStored
<1>6. CASE NextBust(h)
  <2> DEFINE bust == list[now + 1]
  <2>1. now + 1 \in 1 .. Len(list)
        BY <1>2, <1>6 DEF NextBust
  <2>2. bust.bot \in Bots /\ bust.table \in TableIds
        BY <1>2, <2>1
  <2>3. /\ bustOrder' = Append(bustOrder, bust.bot) /\ active' = active \ {bust.bot}
        /\ game' = [game EXCEPT ![bust.table] = Removed(game[bust.table], bust.bot)]
        /\ busting' = [busting EXCEPT ![h].now = now + 1]
        /\ UNCHANGED <<syncing, snapshot, running, paying>>
        BY <1>6 DEF NextBust, Busts, OutOfActive
  <2> HIDE DEF bust
  <2>4. AllFollow(game')
        BY <1>1, <2>2, <2>3, GamesStay, BustFollows
  <2>5. GamesOK'
        BY <1>1, <2>4, FollowingGamesOK DEF BustStored
  <2>6. EndTyped'
        BY <1>1, <2>2, <2>3, RestParts DEF EndTyped, PayingOK
  <2>7. HandlersOK'
    <3> DEFINE k == [busting[h] EXCEPT !.now = now + 1]
    <3>1. busting[h] \in Handler /\ busting \in Seq(Handler)
          BY <1>1, RestParts DEF HandlersOK
    <3>2. k \in Handler /\ k.list = list /\ k.now = now + 1
      <4> DEFINE r == busting[h]
                 n == now + 1
      <4>1. r \in Handler /\ n \in Nat
            BY <1>2, <3>1
      <4> HIDE DEF r, n
      <4>2. /\ [r EXCEPT !.now = n] \in Handler /\ [r EXCEPT !.now = n].list = r.list
            /\ [r EXCEPT !.now = n].now = n
            BY <4>1 DEF Handler
      <4> QED BY <4>2 DEF r, n
    <3>3. busting' = [busting EXCEPT ![h] = k]
          BY <2>3
    <3> HIDE DEF k
    <3>4. busting' \in Seq(Handler) /\ DOMAIN busting' = DOMAIN busting
          BY <3>1, <3>2, <3>3
    <3>5. \A i \in DOMAIN busting : busting'[i] = IF i = h THEN k ELSE busting[i]
          BY <3>1, <3>3
    <3>6. k.now \in DOMAIN k.list
          BY <1>2, <2>1, <3>2
    <3>7. \A i \in DOMAIN busting : busting[i].now \in DOMAIN busting[i].list
          BY <1>1, RestParts DEF HandlersOK
    <3>8. \A i \in DOMAIN busting' : busting'[i].now \in DOMAIN busting'[i].list
          BY <3>4, <3>5, <3>6, <3>7
    <3> QED BY <3>4, <3>8 DEF HandlersOK
  <2>8. RestOK'
        BY <1>1, <1>4, <1>5, <2>3, <2>6, <2>7 DEF RestOK, BustStored, counts
  <2> QED BY <2>4, <2>5, <2>8 DEF Base
<1>7. CASE LastBust(h)
  <2>1. AllFollow(game')
        BY <1>1, <1>7, GamesStay DEF LastBust
  <2>2. GamesOK'
        BY <1>1, <2>1, FollowingGamesOK DEF BustStored
  <2>3. EndTyped'
    <3>1. CASE FinishTournament
          BY <1>1, <3>1, FinishTyped
    <3>2. CASE UNCHANGED <<running, bustOrder, paying>>
          BY <1>1, <3>2, RestParts, EndTypedStays
    <3> QED BY <1>7, <3>1, <3>2 DEF LastBust
  <2>4. snapshot' \in [Bots -> Nat]
        BY <1>1, <1>7, RestParts DEF LastBust
  <2>5. syncing' \in Nat
    <3>1. syncing' = syncing \/ syncing' = syncing + 1
          BY <1>7 DEF LastBust
    <3> QED BY <1>1, <3>1, RestParts
  <2>6. HandlersOK'
    <3>1. HandlersOK /\ busting' = RemoveAt(busting, h)
          BY <1>1, <1>7, RestParts DEF LastBust
    <3> QED BY <3>1, OthersRemain DEF HandlersOK
  <2>7. RestOK'
        BY <1>1, <1>4, <1>5, <1>7, <2>3, <2>4, <2>5, <2>6
        DEF RestOK, BustStored, LastBust, counts
  <2> QED BY <2>1, <2>2, <2>7 DEF Base
<1> QED BY <1>3, <1>6, <1>7
-----------------------------------------------------------------------------
(* The actions that seat a bot *)

\* The new game of a table.
LEMMA CreatedSeats ==
  ASSUME Base, CreateTable
  PROVE  /\ made + 1 \in TableIds /\ made' = made + 1 /\ tables' = tables \union {made + 1}
         /\ game' = [game EXCEPT ![made + 1] = game'[made + 1]]
         /\ GameOK(game'[made + 1]) /\ Sitting(game'[made + 1]) \subseteq Seating[made + 1]
         /\ Coming(game'[made + 1]) = {}
<1> DEFINE t == made + 1
           g == game[t]
           l == IF Cardinality(Seating[t]) > 1 THEN "due" ELSE "none"
           c == [b \in Bots |-> IF b \in Seating[t] THEN StartingChips ELSE 0]
           h == [g EXCEPT !.seated = Seating[t], !.loop = l, !.chips = c]
<1>1. /\ RestOK /\ GamesOK /\ made \in Nat /\ Len(Seating) \in Nat
      BY RestParts DEF Base
<1>2. made < Len(Seating) /\ made' = t /\ tables' = tables \union {t}
      BY DEF CreateTable
<1>3. t \in TableIds /\ t > made
      BY <1>1, <1>2 DEF TableIds
<1>4. game' = [game EXCEPT ![t] = h]
      BY DEF CreateTable
<1>5. g \in Games /\ g.pending = <<>>
      BY <1>1, <1>3 DEF GamesOK, GameOK
<1>6. Seating[t] \in SUBSET Bots
      BY <1>3, DirectorAssumption DEF TableIds
<1>7. c \in [Bots -> Nat]
      BY DirectorAssumption
<1>8. l \in Loops /\ l # "hand"
      BY DEF Loops
<1> HIDE DEF t, g, l, c
<1>9. h \in Games
      BY <1>5, <1>6, <1>7, <1>8 DEF Games
<1>10. h.seated = Seating[t] /\ h.loop = l /\ h.pending = g.pending
      BY <1>5 DEF Games
<1> HIDE DEF h
<1>11. Coming(h) = {}
      BY <1>5, <1>10, NobodyComing
<1>12. game'[t] = h
      BY <1>1, <1>3, <1>4 DEF GamesOK
<1>13. Sitting(h) \subseteq Seating[t]
      BY <1>10 DEF Sitting
<1>14. GameOK(h)
      BY <1>5, <1>9, <1>10 DEF GameOK
<1>15. game' = [game EXCEPT ![t] = game'[t]]
      BY <1>4, <1>12
<1> QED BY <1>2, <1>3, <1>11, <1>12, <1>13, <1>14, <1>15 DEF t

LEMMA CreateTableTyped ==
  ASSUME Base, CreateTable
  PROVE  Base'
<1> DEFINE t == made + 1
           h == game'[t]
<1>1. /\ RestOK /\ GamesOK /\ made \in Nat /\ Len(Seating) \in Nat /\ tables \subseteq 1 .. made
      BY RestParts DEF Base
<1>2. /\ t \in TableIds /\ made' = t /\ tables' = tables \union {t}
      /\ game' = [game EXCEPT ![t] = h] /\ GameOK(h)
      BY CreatedSeats
<1>4. GamesOK'
  <2> HIDE DEF h, t
  <2>1. h \in Games
        BY <1>2 DEF GameOK
  <2>2. game' \in [TableIds -> Games]
        BY <1>1, <1>2, <2>1 DEF GamesOK
  <2>3. ASSUME NEW u \in TableIds
        PROVE  GameOK(game'[u]) /\ (u > made' => game'[u].loop = "none")
    <3>1. u \in Nat
          BY DEF TableIds
    <3>2. CASE u = t
          BY <1>1, <1>2, <3>1, <3>2 DEF GamesOK
    <3>3. CASE u # t
      <4>1. game'[u] = game[u]
            BY <1>1, <1>2, <3>3 DEF GamesOK
      <4>2. u > made' => u > made
            BY <1>1, <1>2, <3>1 DEF t
      <4> QED BY <1>1, <4>1, <4>2 DEF GamesOK
    <3> QED BY <3>2, <3>3
  <2> QED BY <2>2, <2>3 DEF GamesOK
<1>5. BalancerOK'
  <2>1. BalancerOK /\ balancer' = balancer
        BY <1>1, RestParts DEF CreateTable
  <2>2. 1 .. made \subseteq 1 .. made'
        BY <1>1, <1>2
  <2>3. /\ Breaking(made) \subseteq Breaking(made') /\ Moving(made) \subseteq Moving(made')
        /\ Seats(made) \subseteq Seats(made')
        BY <2>2 DEF Breaking, Moving, Seats
  <2> QED BY <2>1, <2>3 DEF BalancerOK
<1>6. HandlersOK' /\ EndTyped'
      BY <1>1, RestParts, HandlersKept, EndTypedStays DEF CreateTable, handlers
<1>7. made' \in 0 .. Len(Seating) /\ tables' \subseteq 1 .. made'
      BY <1>1, <1>2 DEF TableIds
<1> HIDE DEF t, h
<1>8. RestOK'
      BY <1>1, <1>5, <1>6, <1>7 DEF RestOK, CreateTable, handlers, database, counts
<1> QED BY <1>4, <1>8 DEF Base

\* The two games of a move.
LEMMA MovePlayerGames ==
  ASSUME Base, MovePlayer
  PROVE  LET f == balancer.from
             u == balancer.to
             b == balancer.bot
         IN  /\ balancer.pc = "move" /\ balancer'.pc = "store"
             /\ f \in TableIds /\ u \in TableIds /\ f # u /\ u <= made /\ b \in Bots
             /\ balancer.stack \in Nat
             /\ game'[f] = Removed(game[f], b)
             /\ game'[u] = Added(game[u], b, balancer.stack)
             /\ \A t \in TableIds : t \notin {f, u} => game'[t] = game[t]
             /\ game' = [t \in TableIds |-> game'[t]]
<1> DEFINE f == balancer.from
           u == balancer.to
           b == balancer.bot
<1>1. RestOK /\ GamesOK /\ made \in Nat
      BY RestParts DEF Base
<1>2. /\ balancer.pc = "move" /\ f \in TableIds /\ u \in TableIds /\ u \in 1 .. made /\ f # u
      /\ b \in Bots /\ balancer.stack \in Nat
      BY <1>1, BalancerParts DEF MovePlayer
<1>3. balancer \in Moving(made)
      BY <1>1, <1>2, RestParts DEF BalancerOK, Idle, Breaking, Seats
<1>4. balancer'.pc = "store"
      BY <1>3 DEF MovePlayer, Moving
<1>5. game' = [game EXCEPT ![f] = Removed(game[f], b),
                           ![u] = Added(@, b, balancer.stack)]
      BY DEF MovePlayer
<1> DEFINE h == Removed(game[f], b)
           k == Added(game[u], b, balancer.stack)
<1>6. game' = [[game EXCEPT ![f] = h] EXCEPT ![u] = k]
      BY <1>1, <1>2, <1>5 DEF GamesOK
<1> HIDE DEF f, u, h, k
<1>7. /\ game'[f] = h /\ game'[u] = k /\ game' = [t \in TableIds |-> game'[t]]
      /\ \A t \in TableIds : t \notin {f, u} => game'[t] = game[t]
      BY <1>1, <1>2, <1>6 DEF GamesOK
<1> QED BY <1>1, <1>2, <1>4, <1>7 DEF f, u, h, k

\* Joins keep the games that are not made.
LEMMA JoinedGamesOK ==
  ASSUME Base, made' = made, game' = [t \in TableIds |-> game'[t]],
         NEW u \in TableIds, u <= made, GameOK(game'[u]),
         \A t \in TableIds : t # u => Follows(game'[t], game[t])
  PROVE  GamesOK'
<1>1. GamesOK /\ made \in Nat
      BY RestParts DEF Base
<1>2. \A t \in TableIds : GameOK(game'[t])
      BY DEF Follows
<1>3. ASSUME NEW t \in TableIds, t > made PROVE game'[t].loop = "none"
  <2>1. t # u
        BY <1>1, <1>3 DEF TableIds
  <2> QED BY <1>1, <1>3, <2>1 DEF Follows, GamesOK
<1>4. game' \in [TableIds -> Games]
      BY <1>2 DEF GameOK
<1> QED BY <1>2, <1>3, <1>4 DEF GamesOK

LEMMA MovePlayerTyped ==
  ASSUME Base, MovePlayer
  PROVE  Base'
<1> DEFINE f == balancer.from
           u == balancer.to
           b == balancer.bot
<1>1. RestOK /\ GamesOK
      BY DEF Base
<1>2. /\ balancer.pc = "move" /\ balancer'.pc = "store"
      /\ f \in TableIds /\ u \in TableIds /\ f # u /\ u <= made /\ b \in Bots
      /\ balancer.stack \in Nat
      /\ game'[f] = Removed(game[f], b)
      /\ game'[u] = Added(game[u], b, balancer.stack)
      /\ \A t \in TableIds : t \notin {f, u} => game'[t] = game[t]
      /\ game' = [t \in TableIds |-> game'[t]]
      BY MovePlayerGames
<1>3. \A t \in TableIds : GameOK(game[t])
      BY <1>1 DEF GamesOK
<1>4. GameOK(game'[u])
      BY <1>2, <1>3, AddedSeats
<1>5. ASSUME NEW t \in TableIds, t # u PROVE Follows(game'[t], game[t])
      BY <1>2, <1>3, <1>5, RemovedFollows, FollowsItself
<1>6. GamesOK'
  <2>1. made' = made
        BY DEF MovePlayer
  <2> HIDE DEF u
  <2> QED BY <1>2, <1>4, <1>5, <2>1, JoinedGamesOK
<1>7. BalancerOK'
  <2>1. balancer \in Moving(made) /\ balancer.from # balancer.to
        BY <1>1, <1>2, RestParts DEF BalancerOK, Idle, Breaking, Seats
  <2>2. balancer' = [balancer EXCEPT !.pc = "store"] /\ made' = made
        BY DEF MovePlayer
  <2>3. /\ balancer' \in Moving(made') /\ balancer'.from = balancer.from
        /\ balancer'.to = balancer.to
        BY <2>1, <2>2 DEF Moving
  <2> QED BY <1>2, <2>1, <2>3 DEF BalancerOK
<1>8. HandlersOK' /\ EndTyped'
      BY <1>1, RestParts, HandlersKept, EndTypedStays DEF MovePlayer, handlers
<1>9. RestOK'
      BY <1>1, <1>7, <1>8 DEF RestOK, MovePlayer, handlers, database, counts
<1> QED BY <1>6, <1>9 DEF Base

\* The game of a bot's new table.
LEMMA SeatMoverGames ==
  ASSUME Base, SeatMover
  PROVE  LET u == balancer.to
             b == balancer.bot
         IN  /\ balancer.pc = "seat" /\ balancer'.pc = "seated" /\ balancer'.bots = balancer.bots
             /\ balancer \in Seats(made) /\ balancer' \in Seats(made)
             /\ u \in TableIds /\ u <= made /\ b \in Bots /\ b \notin balancer.bots
             /\ GameOK(game'[u])
             /\ Held(game'[u]) \subseteq Held(game[u]) \union {b}
             /\ Sitting(game[u]) \cap Coming(game[u]) = {} /\ b \notin Held(game[u])
                  => Sitting(game'[u]) \cap Coming(game'[u]) = {}
             /\ \A t \in TableIds : t # u => game'[t] = game[t]
             /\ game' = [t \in TableIds |-> game'[t]]
<1> DEFINE f == balancer.from
           u == balancer.to
           b == balancer.bot
           s == game[f].chips[b]
<1>1. RestOK /\ GamesOK /\ made \in Nat
      BY RestParts DEF Base
<1>2. /\ balancer.pc = "seat" /\ f \in TableIds /\ u \in TableIds /\ u \in 1 .. made
      /\ b \in Bots /\ b \notin balancer.bots
      BY <1>1, BalancerParts DEF SeatMover
<1>3. balancer \in Seats(made)
      BY <1>1, <1>2, RestParts DEF BalancerOK, Idle, Breaking, Moving
<1>4. /\ balancer'.pc = "seated" /\ balancer'.bots = balancer.bots
      /\ balancer' \in Seats(made)
      BY <1>3 DEF SeatMover, Seats
<1>5. s \in Nat
      BY <1>1, <1>2 DEF GamesOK, Games
<1>6. game' = [game EXCEPT ![u] = Added(game[u], b, s)]
      BY DEF SeatMover
<1>7. GameOK(game[u])
      BY <1>1, <1>2 DEF GamesOK
<1> HIDE DEF u, b, s
<1>8. /\ game'[u] = Added(game[u], b, s) /\ game' = [t \in TableIds |-> game'[t]]
      /\ \A t \in TableIds : t # u => game'[t] = game[t]
      BY <1>1, <1>2, <1>6 DEF GamesOK
<1>9. /\ GameOK(game'[u])
      /\ Held(game'[u]) \subseteq Held(game[u]) \union {b}
      /\ Sitting(game[u]) \cap Coming(game[u]) = {} /\ b \notin Held(game[u])
           => Sitting(game'[u]) \cap Coming(game'[u]) = {}
      BY <1>2, <1>5, <1>7, <1>8, AddedSeats
<1> QED BY <1>1, <1>2, <1>3, <1>4, <1>8, <1>9 DEF u, b

LEMMA SeatMoverTyped ==
  ASSUME Base, SeatMover
  PROVE  Base'
<1> DEFINE u == balancer.to
<1>1. RestOK /\ GamesOK
      BY DEF Base
<1>2. /\ balancer'.pc = "seated" /\ balancer' \in Seats(made)
      /\ u \in TableIds /\ u <= made /\ GameOK(game'[u])
      /\ \A t \in TableIds : t # u => game'[t] = game[t]
      /\ game' = [t \in TableIds |-> game'[t]]
      BY SeatMoverGames
<1>3. GamesOK'
  <2>1. made' = made
        BY DEF SeatMover
  <2>2. \A t \in TableIds : t # u => Follows(game'[t], game[t])
        BY <1>1, <1>2, FollowsItself DEF GamesOK
  <2> HIDE DEF u
  <2> QED BY <1>2, <2>1, <2>2, JoinedGamesOK
<1>4. BalancerOK'
      BY <1>2 DEF BalancerOK, SeatMover
<1>5. HandlersOK' /\ EndTyped'
      BY <1>1, RestParts, HandlersKept, EndTypedStays DEF SeatMover, handlers
<1>6. RestOK'
      BY <1>1, <1>4, <1>5 DEF RestOK, SeatMover, handlers, database, counts
<1> QED BY <1>3, <1>6 DEF Base

\* The steps that seat no bot, and those that do.
SeatsABot == CreateTable \/ MovePlayer \/ SeatMover

LEMMA StepTyped ==
  ASSUME Base, [InterleavedNext]_vars
  PROVE  Base' /\ (~SeatsABot => AllFollow(game'))
<1>1. CASE UNCHANGED vars
  <2>1. RestOK /\ GamesOK
        BY DEF Base
  <2>2. HandlersOK' /\ BalancerOK' /\ EndTyped'
        BY <1>1, <2>1, RestParts, HandlersKept, BalancerKept, EndTypedStays DEF vars, handlers
  <2>3. AllFollow(game') /\ GamesOK'
        BY <1>1, <2>1, GamesStay, FollowingGamesOK DEF vars
  <2>4. RestOK'
        BY <1>1, <2>1, <2>2 DEF RestOK, vars, handlers, database, counts
  <2> QED BY <2>3, <2>4 DEF Base
<1>2. CASE Director
  <2>1. CASE CreateTable
        BY <2>1, CreateTableTyped DEF SeatsABot
  <2>2. CASE ChipsSynced
        BY <2>2, ChipsSyncedTyped
  <2>3. CASE MovePlayer
        BY <2>3, MovePlayerTyped DEF SeatsABot
  <2>4. CASE MoveStored
        BY <2>4, MoveStoredTyped
  <2>5. CASE BreakTable
        BY <2>5, BreakTableTyped
  <2>6. CASE SeatMover
        BY <2>6, SeatMoverTyped DEF SeatsABot
  <2>7. CASE MoverStored
        BY <2>7, MoverStoredTyped
  <2>8. CASE SafetyNet
        BY <2>8, SafetyNetTyped
  <2>9. CASE PayoutStored
        BY <2>9, PayoutStoredTyped
  <2>10. CASE TournamentFinished
        BY <2>10, TournamentFinishedTyped
  <2>11. CASE \E h \in DOMAIN busting : BustStored(h)
        BY <2>11, BustStoredTyped
  <2> QED BY <1>2, <2>1, <2>2, <2>3, <2>4, <2>5, <2>6, <2>7, <2>8, <2>9, <2>10, <2>11
          DEF Director
<1>3. ASSUME NEW t \in TableIds,
             TableStep(t) \/ BeginHand(t) \/ EndHand(t) \/ HandThrows(t)
      PROVE  Base' /\ AllFollow(game')
  <2>1. CASE StartGame(t)
        BY <2>1, StartGameTyped
  <2>2. CASE PlayHand(t)
        BY <2>2, PlayHandTyped
  <2>3. CASE GameOver(t)
        BY <2>3, GameOverTyped
  <2>4. CASE BeginHand(t)
        BY <2>4, BeginHandTyped
  <2>5. CASE EndHand(t)
        BY <2>5, EndHandTyped
  <2>6. CASE HandThrows(t)
        BY <2>6, HandThrowsTyped
  <2> QED BY <1>3, <2>1, <2>2, <2>3, <2>4, <2>5, <2>6 DEF TableStep
<1> QED BY <1>1, <1>2, <1>3 DEF InterleavedNext, Next

LEMMA BaseTyped ==
  ASSUME Base
  PROVE  TypeOK
<1>1. RestOK /\ GamesOK
      BY DEF Base
<1>2. game \in [TableIds -> Games]
      BY <1>1 DEF GamesOK
<1>3. game \in [TableIds -> [seated : SUBSET Bots, gone : SUBSET Bots, chips : [Bots -> Nat],
                             bets : [Bots -> Nat], loop : Loops,
                             pending : Seq({"add", "remove"} \X Bots \X Nat)]]
      BY <1>2 DEF Games, Changes
<1> QED BY <1>1, <1>3 DEF TypeOK, RestOK, EndTyped

\* Games that are played between two turns of the director are a case of games that go
\* on meanwhile: what holds of those holds of these.
LEMMA PlayedAtOnce == Spec => InterleavedSpec
<1>1. [Next]_vars => [InterleavedNext]_vars
      BY DEF InterleavedNext
<1> QED BY <1>1, PTL DEF Spec, InterleavedSpec

\* Every variable has its type, games that alternate with the director included:
\* stacks and bets are never negative, whatever order handlers and hands end in.
THEOREM DirectorTypes == InterleavedSpec => []TypeOK
<1>1. Init => Base
      BY InitBase
<1>2. Base /\ [InterleavedNext]_vars => Base'
      BY StepTyped
<1>3. Base => TypeOK
      BY BaseTyped
<1> QED BY <1>1, <1>2, <1>3, PTL DEF InterleavedSpec
-----------------------------------------------------------------------------
(* A bot is at one table at most *)

\* The bots that the balancer is about to take from a table.
Planned == IF balancer.pc = "break" THEN balancer.bots
           ELSE IF balancer.pc = "move" THEN {balancer.bot} ELSE {}

\* No bot is held twice, by a table or two, nor before it sat down.
TablesApart ==
  /\ \A t \in tables : Sitting(game[t]) \cap Coming(game[t]) = {}
  /\ \A t, u \in tables : t # u => Held(game[t]) \cap Held(game[u]) = {}
  /\ \A t \in tables : StillToSit \cap Held(game[t]) = {}

\* A bot on its way is at no table, and one that is about to leave only at its own.
WayApart ==
  /\ \A t \in tables : OnTheWay \cap Held(game[t]) = {}
  /\ \A t \in tables : t # balancer.from => Planned \cap Held(game[t]) = {}
  /\ balancer.pc = "move" => balancer.bot \notin Coming(game[balancer.from])
  /\ StillToSit \cap (OnTheWay \union Planned) = {}

Apart == dbStatus = "running" => TablesApart /\ WayApart

LEMMA TablesStayApart ==
  ASSUME Base, TablesApart, AllFollow(game'), made' = made, tables' \subseteq tables
  PROVE  TablesApart'
<1>1. tables \subseteq TableIds
      BY RestParts DEF Base
<1>2. \A t \in tables' : /\ t \in tables
                         /\ Held(game'[t]) \subseteq Held(game[t])
                         /\ Sitting(game[t]) \cap Coming(game[t]) = {}
                              => Sitting(game'[t]) \cap Coming(game'[t]) = {}
      BY <1>1 DEF AllFollow, Follows
<1>3. StillToSit' = StillToSit
      BY DEF StillToSit
<1> QED BY <1>2, <1>3, Zenon DEF TablesApart

LEMMA WayStaysApart ==
  ASSUME Base, WayApart, AllFollow(game'), made' = made, tables' \subseteq tables,
         balancer' = balancer
  PROVE  WayApart'
<1>1. tables \subseteq TableIds /\ (balancer.pc = "move" => balancer.from \in TableIds)
      BY RestParts, BalancerParts DEF Base
<1>2. /\ \A t \in tables' : t \in tables /\ Held(game'[t]) \subseteq Held(game[t])
      /\ balancer.pc = "move" => Coming(game'[balancer.from]) \subseteq Coming(game[balancer.from])
      BY <1>1 DEF AllFollow, Follows
<1>3. StillToSit' = StillToSit /\ OnTheWay' = OnTheWay /\ Planned' = Planned
      BY DEF StillToSit, OnTheWay, Planned
<1> QED BY <1>2, <1>3, Zenon DEF WayApart

\* A balancer that is done, or only stores.
LEMMA NobodyOnTheWay ==
  ASSUME balancer'.pc \in {"off", "store"}
  PROVE  WayApart'
<1>1. OnTheWay' = {} /\ Planned' = {}
      BY DEF OnTheWay, Planned
<1>2. balancer'.pc # "move"
      OBVIOUS
<1> QED BY <1>1, <1>2 DEF WayApart

LEMMA EndingApart ==
  ASSUME balancer' = Idle
  PROVE  WayApart'
BY NobodyOnTheWay DEF Idle

\* The balancer starts with bots that sit at a table.
LEMMA StartApart ==
  ASSUME Base, TablesApart, AllFollow(game'), made' = made, tables' = tables, NEW x,
         StartsBreak(x) \/ StartsMove(x)
  PROVE  WayApart'
<1>1. tables \subseteq TableIds
      BY RestParts DEF Base
<1>2. StillToSit' = StillToSit
      BY DEF StillToSit
<1>3. \A t \in tables : /\ Held(game'[t]) \subseteq Held(game[t])
                        /\ Coming(game'[t]) \subseteq Coming(game[t])
      BY <1>1 DEF AllFollow, Follows
<1>4. \A t \in tables : Playable(game[t]) \subseteq Sitting(game[t])
      BY DEF Playable, Sitting
<1>5. CASE StartsBreak(x)
  <2>1. PICK t \in tables :
               balancer' = [pc |-> "break", ofHand |-> x, from |-> t,
                            bots |-> Playable(game[t]), others |-> tables \ {t}]
        BY <1>5 DEF StartsBreak
  <2>2. OnTheWay' = {} /\ Planned' = Playable(game[t]) /\ balancer'.from = t
        /\ balancer'.pc = "break"
        BY <2>1 DEF OnTheWay, Planned
  <2>3. Playable(game[t]) \subseteq Held(game[t])
        BY <1>4 DEF Held
  <2> QED BY <1>2, <1>3, <2>2, <2>3 DEF WayApart, TablesApart
<1>6. CASE StartsMove(x)
  <2>1. PICK t \in tables, u \in tables : \E b \in Playable(game[t]) :
             /\ t # u
             /\ balancer' = [pc |-> "move", ofHand |-> x, from |-> t, to |-> u, bot |-> b,
                             stack |-> game[t].chips[b]]
        BY <1>6 DEF StartsMove
  <2>2. PICK b \in Playable(game[t]) :
             /\ t # u
             /\ balancer' = [pc |-> "move", ofHand |-> x, from |-> t, to |-> u, bot |-> b,
                             stack |-> game[t].chips[b]]
        BY <2>1
  <2>3. OnTheWay' = {} /\ Planned' = {b} /\ balancer'.from = t /\ balancer'.bot = b
        /\ balancer'.pc = "move"
        BY <2>2 DEF OnTheWay, Planned
  <2>4. b \in Held(game[t]) /\ b \notin Coming(game[t])
        BY <1>4 DEF Held, TablesApart
  <2> QED BY <1>2, <1>3, <2>3, <2>4 DEF WayApart, TablesApart
<1> QED BY <1>5, <1>6

LEMMA BalancingApart ==
  ASSUME Base, TablesApart, WayApart, AllFollow(game'), made' = made, tables' = tables,
         NEW x, CheckTableBalancing(x)
  PROVE  WayApart'
<1>1. \/ balancer' = balancer
      \/ StartsBreak(x) \/ StartsMove(x)
      BY BalancingCases DEF Base
<1>2. CASE balancer' = balancer
      BY <1>2, WayStaysApart
<1>3. CASE StartsBreak(x) \/ StartsMove(x)
      BY <1>3, StartApart
<1> QED BY <1>1, <1>2, <1>3

\* The bots of a broken table set out one by one.
LEMMA MoverApart ==
  ASSUME Base, AllFollow(game'), made' = made, tables' \subseteq tables, NextMover,
         \A t \in tables' : balancer.bots \cap Held(game[t]) = {},
         StillToSit \cap balancer.bots = {}
  PROVE  WayApart'
<1>1. tables \subseteq TableIds
      BY RestParts DEF Base
<1>2. \A t \in tables' : Held(game'[t]) \subseteq Held(game[t])
      BY <1>1 DEF AllFollow, Follows
<1>3. balancer' = Idle \/ SeatsNext
      BY MoverCases
<1>4. CASE balancer' = Idle
      BY <1>4, EndingApart
<1>5. CASE SeatsNext
  <2>1. PICK b \in balancer.bots, u \in balancer.others :
             balancer' = [pc |-> "seat", ofHand |-> balancer.ofHand, from |-> balancer.from,
                          to |-> u, bot |-> b, bots |-> balancer.bots \ {b},
                          others |-> balancer.others]
        BY <1>5 DEF SeatsNext
  <2>2. /\ OnTheWay' = (balancer.bots \ {b}) \union {b} /\ Planned' = {}
        /\ balancer'.pc = "seat"
        BY <2>1 DEF OnTheWay, Planned
  <2>3. OnTheWay' = balancer.bots
        BY <2>2
  <2>4. StillToSit' = StillToSit
        BY DEF StillToSit
  <2> QED BY <1>2, <2>2, <2>3, <2>4 DEF WayApart
<1> QED BY <1>3, <1>4, <1>5

LEMMA BreakTableApart ==
  ASSUME Base, TablesApart, WayApart, BreakTable
  PROVE  TablesApart' /\ WayApart'
<1>1. AllFollow(game') /\ made' = made /\ tables' = tables \ {balancer.from}
      /\ NextMover /\ balancer.pc = "break"
      BY BreakTableTyped DEF BreakTable
<1>2. Planned = balancer.bots
      BY <1>1 DEF Planned
<1>3. /\ \A t \in tables' : balancer.bots \cap Held(game[t]) = {}
      /\ StillToSit \cap balancer.bots = {}
      BY <1>1, <1>2 DEF WayApart
<1> QED BY <1>1, <1>3, TablesStayApart, MoverApart

LEMMA MoverStoredApart ==
  ASSUME Base, TablesApart, WayApart, MoverStored
  PROVE  TablesApart' /\ WayApart'
<1>1. AllFollow(game') /\ made' = made /\ tables' = tables
      /\ NextMover /\ balancer.pc = "seated"
      BY MoverStoredTyped DEF MoverStored
<1>2. OnTheWay = balancer.bots
      BY <1>1 DEF OnTheWay
<1>3. /\ \A t \in tables' : balancer.bots \cap Held(game[t]) = {}
      /\ StillToSit \cap balancer.bots = {}
      BY <1>1, <1>2 DEF WayApart
<1> QED BY <1>1, <1>3, TablesStayApart, MoverApart

LEMMA SeatMoverApart ==
  ASSUME Base, TablesApart, WayApart, SeatMover
  PROVE  TablesApart' /\ WayApart'
<1> DEFINE u == balancer.to
           b == balancer.bot
<1>1. /\ balancer.pc = "seat" /\ balancer'.pc = "seated" /\ balancer'.bots = balancer.bots
      /\ u \in TableIds /\ b \in Bots /\ b \notin balancer.bots
      /\ Held(game'[u]) \subseteq Held(game[u]) \union {b}
      /\ Sitting(game[u]) \cap Coming(game[u]) = {} /\ b \notin Held(game[u])
           => Sitting(game'[u]) \cap Coming(game'[u]) = {}
      /\ \A t \in TableIds : t # u => game'[t] = game[t]
      BY SeatMoverGames
<1>2. made' = made /\ tables' = tables /\ tables \subseteq TableIds
      BY RestParts DEF Base, SeatMover
<1>3. StillToSit' = StillToSit /\ OnTheWay = balancer.bots \union {b}
      /\ OnTheWay' = balancer.bots /\ Planned' = {} /\ balancer'.pc # "move"
      BY <1>1, <1>2 DEF StillToSit, OnTheWay, Planned
<1> HIDE DEF u, b
<1>4. \A t \in tables : b \notin Held(game[t]) /\ balancer.bots \cap Held(game[t]) = {}
      BY <1>3 DEF WayApart
<1>5. b \notin StillToSit /\ StillToSit \cap balancer.bots = {}
      BY <1>3 DEF WayApart
<1>6. \A t \in tables : Held(game'[t]) \subseteq Held(game[t]) \union (IF t = u THEN {b} ELSE {})
      BY <1>1, <1>2
<1>7. TablesApart'
  <2>1. \A t \in tables : Sitting(game'[t]) \cap Coming(game'[t]) = {}
        BY <1>1, <1>2, <1>4 DEF TablesApart
  <2>2. \A t, v \in tables : t # v => Held(game'[t]) \cap Held(game'[v]) = {}
        BY <1>4, <1>6 DEF TablesApart
  <2>3. \A t \in tables : StillToSit \cap Held(game'[t]) = {}
        BY <1>5, <1>6 DEF TablesApart
  <2> QED BY <1>2, <1>3, <2>1, <2>2, <2>3 DEF TablesApart
<1>8. WayApart'
  <2>1. \A t \in tables : balancer.bots \cap Held(game'[t]) = {}
        BY <1>1, <1>4, <1>6
  <2> QED BY <1>2, <1>3, <1>5, <2>1 DEF WayApart
<1> QED BY <1>7, <1>8

LEMMA MovePlayerApart ==
  ASSUME Base, TablesApart, WayApart, MovePlayer
  PROVE  TablesApart' /\ WayApart'
<1> DEFINE f == balancer.from
           u == balancer.to
           b == balancer.bot
           s == balancer.stack
<1>1. /\ balancer.pc = "move" /\ balancer'.pc = "store"
      /\ f \in TableIds /\ u \in TableIds /\ f # u /\ b \in Bots /\ s \in Nat
      /\ game'[f] = Removed(game[f], b)
      /\ game'[u] = Added(game[u], b, s)
      /\ \A t \in TableIds : t \notin {f, u} => game'[t] = game[t]
      BY MovePlayerGames
<1>2. /\ made' = made /\ tables' = tables /\ tables \subseteq TableIds
      /\ \A t \in TableIds : GameOK(game[t])
      BY RestParts DEF Base, MovePlayer, GamesOK
<1>3. StillToSit' = StillToSit
      BY <1>2 DEF StillToSit
<1>4. Planned = {b}
      BY <1>1 DEF Planned
<1>5. /\ \A t \in tables : t # f => b \notin Held(game[t])
      /\ b \notin Coming(game[f]) /\ b \notin StillToSit
      BY <1>1, <1>4 DEF WayApart
<1> HIDE DEF f, u, b, s
<1>6. /\ Held(game'[f]) \subseteq Held(game[f]) /\ b \notin Held(game'[f])
      /\ Sitting(game[f]) \cap Coming(game[f]) = {}
           => Sitting(game'[f]) \cap Coming(game'[f]) = {}
      BY <1>1, <1>2, <1>5, RemovedFollows DEF Follows, Held
<1>7. /\ Held(game'[u]) \subseteq Held(game[u]) \union {b}
      /\ Sitting(game[u]) \cap Coming(game[u]) = {} /\ b \notin Held(game[u])
           => Sitting(game'[u]) \cap Coming(game'[u]) = {}
      BY <1>1, <1>2, AddedSeats
<1>8. \A t \in tables : /\ t # u => Held(game'[t]) \subseteq Held(game[t]) /\ b \notin Held(game'[t])
                        /\ Held(game'[t]) \subseteq Held(game[t]) \union {b}
  <2> TAKE t \in tables
  <2>1. CASE t = u
        BY <1>1, <1>7, <2>1
  <2>2. CASE t = f
        BY <1>6, <2>2
  <2>3. CASE t \notin {f, u}
        BY <1>1, <1>2, <1>5, <2>3
  <2> QED BY <2>1, <2>2, <2>3
<1>9. TablesApart'
  <2>1. \A t \in tables : Sitting(game'[t]) \cap Coming(game'[t]) = {}
    <3> TAKE t \in tables
    <3>1. CASE t = u
          BY <1>1, <1>5, <1>7, <3>1 DEF TablesApart
    <3>2. CASE t = f
          BY <1>6, <3>2 DEF TablesApart
    <3>3. CASE t \notin {f, u}
          BY <1>1, <1>2, <3>3 DEF TablesApart
    <3> QED BY <3>1, <3>2, <3>3
  <2>2. \A t, v \in tables : t # v => Held(game'[t]) \cap Held(game'[v]) = {}
        BY <1>8 DEF TablesApart
  <2>3. \A t \in tables : StillToSit \cap Held(game'[t]) = {}
        BY <1>5, <1>8 DEF TablesApart
  <2> QED BY <1>2, <1>3, <2>1, <2>2, <2>3 DEF TablesApart
<1>10. WayApart'
      BY <1>1, NobodyOnTheWay
<1> QED BY <1>9, <1>10

\* The bots of the next table are those that sit down, and they sit down once.
LEMMA NextToSit ==
  ASSUME Base, CreateTable
  PROVE  /\ StillToSit = Seating[made + 1] \union StillToSit'
         /\ Seating[made + 1] \cap StillToSit' = {}
<1> DEFINE n == made + 1
<1>1. n \in TableIds /\ made' = n
      BY CreatedSeats
<1>2. made \in Nat /\ Len(Seating) \in Nat
      BY RestParts DEF Base
<1>3. StillToSit = Seating[n] \union StillToSit'
  <2>1. made + 1 .. Len(Seating) = {n} \union ((n + 1) .. Len(Seating))
        BY <1>1, <1>2 DEF TableIds
  <2>2. StillToSit' = UNION {Seating[t] : t \in (n + 1) .. Len(Seating)}
        BY <1>1 DEF StillToSit
  <2>3. StillToSit = UNION {Seating[t] : t \in {n} \union ((n + 1) .. Len(Seating))}
        BY <2>1 DEF StillToSit
  <2> HIDE DEF n
  <2> QED BY <2>2, <2>3
<1>4. Seating[n] \cap StillToSit' = {}
  <2>1. DOMAIN Seating = 1 .. Len(Seating) /\ n \in 1 .. Len(Seating)
        BY <1>1, DirectorAssumption DEF TableIds
  <2>2. \A t \in (n + 1) .. Len(Seating) : t \in DOMAIN Seating /\ t # n
        BY <1>2, <2>1
  <2>3. \A t \in (n + 1) .. Len(Seating) : Seating[t] \cap Seating[n] = {}
        BY <2>1, <2>2, SeatingAssumption
  <2>4. StillToSit' = UNION {Seating[t] : t \in (n + 1) .. Len(Seating)}
        BY <1>1 DEF StillToSit
  <2> HIDE DEF n
  <2> QED BY <2>3, <2>4
<1> QED BY <1>3, <1>4

LEMMA CreateTableApart ==
  ASSUME Base, TablesApart, WayApart, CreateTable
  PROVE  TablesApart' /\ WayApart'
<1> DEFINE n == made + 1
<1>1. /\ n \in TableIds /\ made' = n /\ tables' = tables \union {n}
      /\ game' = [game EXCEPT ![n] = game'[n]]
      /\ Sitting(game'[n]) \subseteq Seating[n] /\ Coming(game'[n]) = {}
      BY CreatedSeats
<1>2. /\ made \in Nat /\ Len(Seating) \in Nat /\ tables \subseteq 1 .. made /\ tables \subseteq TableIds
      /\ balancer' = balancer
      /\ balancer.pc = "move" => balancer.from \in TableIds /\ balancer.from \in 1 .. made
      /\ game \in [TableIds -> Games]
      BY RestParts, BalancerParts DEF Base, CreateTable, GamesOK
<1>3. StillToSit = Seating[n] \union StillToSit' /\ Seating[n] \cap StillToSit' = {}
      BY NextToSit
<1>4. Seating[n] \cap StillToSit' = {}
      BY <1>3
<1>5. n \notin tables /\ \A t \in tables : game'[t] = game[t]
  <2>1. n \notin 1 .. made
        BY <1>2
  <2> HIDE DEF n
  <2> QED BY <1>1, <1>2, <2>1
<1>6. OnTheWay' = OnTheWay /\ Planned' = Planned
      BY <1>2 DEF OnTheWay, Planned
<1>7. balancer.pc = "move" => game'[balancer.from] = game[balancer.from]
  <2>1. balancer.pc = "move" => balancer.from # n
        BY <1>2
  <2> HIDE DEF n
  <2> QED BY <1>1, <1>2, <2>1
<1> HIDE DEF n
<1>8. Held(game'[n]) \subseteq Seating[n]
      BY <1>1 DEF Held
<1>9. TablesApart'
  <2>1. \A t \in tables' : Sitting(game'[t]) \cap Coming(game'[t]) = {}
        BY <1>1, <1>5 DEF TablesApart
  <2>2. \A t, v \in tables' : t # v => Held(game'[t]) \cap Held(game'[v]) = {}
        BY <1>1, <1>3, <1>5, <1>8 DEF TablesApart
  <2>3. \A t \in tables' : StillToSit' \cap Held(game'[t]) = {}
        BY <1>1, <1>3, <1>4, <1>5, <1>8 DEF TablesApart
  <2> QED BY <2>1, <2>2, <2>3 DEF TablesApart
<1>10. WayApart'
  <2>1. \A t \in tables' : OnTheWay \cap Held(game'[t]) = {}
        BY <1>1, <1>3, <1>5, <1>8 DEF WayApart
  <2>2. \A t \in tables' : t # balancer.from => Planned \cap Held(game'[t]) = {}
        BY <1>1, <1>3, <1>5, <1>8 DEF WayApart
  <2>3. balancer.pc = "move" => balancer.bot \notin Coming(game'[balancer.from])
        BY <1>7 DEF WayApart
  <2>4. StillToSit' \cap (OnTheWay \union Planned) = {}
        BY <1>3 DEF WayApart
  <2> QED BY <1>2, <1>6, <2>1, <2>2, <2>3, <2>4 DEF WayApart
<1> QED BY <1>9, <1>10

\* The actions that do not touch the balancer, nor the tables of the tournament.
LEMMA OthersApart ==
  ASSUME Base, TablesApart, WayApart, AllFollow(game'),
         UNCHANGED <<made, tables, balancer>>
  PROVE  TablesApart' /\ WayApart'
BY TablesStayApart, WayStaysApart

LEMMA InitApart ==
  ASSUME Init
  PROVE  Apart
BY DEF Init, Apart, TablesApart, WayApart, OnTheWay, Planned, Idle

LEMMA StepApart ==
  ASSUME Base, Apart, [InterleavedNext]_vars
  PROVE  Apart'
<1> SUFFICES ASSUME dbStatus' = "running" PROVE TablesApart' /\ WayApart'
    BY DEF Apart
<1>1. ASSUME dbStatus' = dbStatus PROVE TablesApart /\ WayApart
      BY <1>1 DEF Apart
<1>2. ~SeatsABot => AllFollow(game')
      BY StepTyped
<1>3. CASE UNCHANGED vars
  <2>1. dbStatus' = dbStatus /\ UNCHANGED <<made, tables, balancer>>
        BY <1>3 DEF vars, database
  <2>2. AllFollow(game')
        BY <1>3, GamesStay DEF Base, vars
  <2> QED BY <1>1, <2>1, <2>2, OthersApart
<1>4. CASE Director
  <2>1. CASE CreateTable
        BY <1>1, <2>1, CreateTableApart DEF CreateTable, database
  <2>2. CASE ChipsSynced
    <3>1. AllFollow(game') /\ UNCHANGED <<made, tables>> /\ dbStatus' = dbStatus
          BY <2>2, ChipsSyncedTyped DEF ChipsSynced, database
    <3> QED BY <1>1, <2>2, <3>1, TablesStayApart, BalancingApart DEF ChipsSynced
  <2>3. CASE MovePlayer
        BY <1>1, <2>3, MovePlayerApart DEF MovePlayer, database
  <2>4. CASE MoveStored
    <3>1. /\ AllFollow(game') /\ UNCHANGED <<made, tables>> /\ dbStatus' = dbStatus
          /\ balancer' = Idle
          BY <2>4, MoveStoredTyped DEF MoveStored, database
    <3> QED BY <1>1, <3>1, TablesStayApart, EndingApart
  <2>5. CASE BreakTable
        BY <1>1, <2>5, BreakTableApart DEF BreakTable, database
  <2>6. CASE SeatMover
        BY <1>1, <2>6, SeatMoverApart DEF SeatMover, database
  <2>7. CASE MoverStored
        BY <1>1, <2>7, MoverStoredApart DEF MoverStored, database
  <2>8. CASE SafetyNet
    <3>1. AllFollow(game') /\ UNCHANGED <<made, tables>> /\ dbStatus' = dbStatus
          BY <2>8, SafetyNetTyped DEF SafetyNet, database
    <3>2. CASE Cardinality(active) <= 1
          BY <1>1, <2>8, <3>1, <3>2, OthersApart DEF SafetyNet
    <3>3. CASE ~(Cardinality(active) <= 1)
          BY <1>1, <2>8, <3>1, <3>3, TablesStayApart, BalancingApart DEF SafetyNet
    <3> QED BY <3>2, <3>3
  <2>9. CASE PayoutStored
    <3>1. AllFollow(game') /\ UNCHANGED <<made, tables, balancer>> /\ dbStatus' = dbStatus
          BY <2>9, PayoutStoredTyped DEF PayoutStored
    <3> QED BY <1>1, <3>1, OthersApart
  <2>10. CASE TournamentFinished
        BY <2>10 DEF TournamentFinished
  <2>11. CASE \E h \in DOMAIN busting : BustStored(h)
    <3>1. AllFollow(game') /\ UNCHANGED <<made, tables, balancer>> /\ dbStatus' = dbStatus
          BY <2>11, BustStoredTyped DEF BustStored
    <3> QED BY <1>1, <3>1, OthersApart
  <2> QED BY <1>4, <2>1, <2>2, <2>3, <2>4, <2>5, <2>6, <2>7, <2>8, <2>9, <2>10, <2>11
          DEF Director
<1>5. ASSUME NEW t \in TableIds,
             TableStep(t) \/ BeginHand(t) \/ EndHand(t) \/ HandThrows(t)
      PROVE  TablesApart' /\ WayApart'
  <2>1. CASE StartGame(t)
    <3>1. AllFollow(game') /\ UNCHANGED <<made, tables, balancer>> /\ dbStatus' = dbStatus
          BY <2>1, StartGameTyped DEF StartGame, database
    <3> QED BY <1>1, <3>1, OthersApart
  <2>2. CASE PlayHand(t)
    <3>1. AllFollow(game') /\ UNCHANGED <<made, tables, balancer>> /\ dbStatus' = dbStatus
          BY <2>2, PlayHandTyped DEF PlayHand, database
    <3> QED BY <1>1, <3>1, OthersApart
  <2>3. CASE GameOver(t)
    <3>1. AllFollow(game') /\ UNCHANGED <<made, tables>> /\ dbStatus' = dbStatus
          BY <2>3, GameOverTyped DEF GameOver, database
    <3>2. CASE balancer' = balancer
          BY <1>1, <3>1, <3>2, OthersApart
    <3>3. CASE CheckTableBalancing(FALSE)
          BY <1>1, <3>1, <3>3, TablesStayApart, BalancingApart
    <3> QED BY <2>3, <3>2, <3>3 DEF GameOver
  <2>4. CASE BeginHand(t)
    <3>1. AllFollow(game') /\ UNCHANGED <<made, tables, balancer>> /\ dbStatus' = dbStatus
          BY <2>4, BeginHandTyped DEF BeginHand, database
    <3> QED BY <1>1, <3>1, OthersApart
  <2>5. CASE EndHand(t)
    <3>1. AllFollow(game') /\ UNCHANGED <<made, tables, balancer>> /\ dbStatus' = dbStatus
          BY <2>5, EndHandTyped DEF EndHand, database
    <3> QED BY <1>1, <3>1, OthersApart
  <2>6. CASE HandThrows(t)
    <3>1. AllFollow(game') /\ UNCHANGED <<made, tables, balancer>> /\ dbStatus' = dbStatus
          BY <2>6, HandThrowsTyped DEF HandThrows, database
    <3> QED BY <1>1, <3>1, OthersApart
  <2> QED BY <1>5, <2>1, <2>2, <2>3, <2>4, <2>5, <2>6 DEF TableStep
<1> QED BY <1>3, <1>4, <1>5 DEF InterleavedNext, Next

\* Apart from each other, the tables hold a bot once.
LEMMA ApartOnce ==
  ASSUME Base, Apart
  PROVE  OneTable
<1> SUFFICES ASSUME dbStatus = "running", NEW b \in active PROVE AtPlaces(b) <= 1
    BY DEF OneTable
<1>1. TablesApart /\ WayApart
      BY DEF Apart
<1> DEFINE at == {t \in tables : b \in game[t].seated \ game[t].gone}
<1>2. \A t \in at : t \in tables /\ b \in Held(game[t])
      BY DEF Held, Sitting
<1>3. \A t, u \in at : t = u
      BY <1>1, <1>2 DEF TablesApart
<1>4. b \in OnTheWay \union StillToSit => at = {}
      BY <1>1, <1>2 DEF TablesApart, WayApart
<1>5. AtPlaces(b) = Cardinality(at) + (IF b \in OnTheWay \union StillToSit THEN 1 ELSE 0)
      BY DEF AtPlaces
<1> HIDE DEF at
<1>6. CASE at = {}
  <2>1. Cardinality(at) = 0
        BY <1>6, FS_EmptySet
  <2> QED BY <1>5, <2>1
<1>7. CASE at # {}
  <2>1. PICK t \in at : TRUE
        BY <1>7
  <2>2. at = {t}
        BY <1>3, <2>1
  <2>3. Cardinality(at) = 1
        BY <2>2, FS_Singleton
  <2> QED BY <1>4, <1>5, <1>7, <2>3
<1> QED BY <1>6, <1>7

\* A bot is never at two tables, nor at one and on its way to another, while games are
\* played and tables are broken and balanced at the same time.
THEOREM NeverAtTwoTables == InterleavedSpec => []OneTable
<1>1. Init => Base /\ Apart
      BY InitBase, InitApart
<1>2. Base /\ Apart /\ [InterleavedNext]_vars => (Base /\ Apart)'
      BY StepTyped, StepApart
<1>3. Base /\ Apart => OneTable
      BY ApartOnce
<1> QED BY <1>1, <1>2, <1>3, PTL DEF InterleavedSpec
-----------------------------------------------------------------------------
(* The end of the tournament, and the places *)

OutBots == {bustOrder[i] : i \in DOMAIN bustOrder}

\* A bot is in or out, and while the tournament goes on not both; a bot whose place is
\* being stored is not in.
InOrOut ==
  /\ running => OutBots \cap active = {}
  /\ Bots = active \union OutBots
  /\ \A h \in DOMAIN busting : busting[h].list[busting[h].now].bot \notin active

EndStored == /\ running => paying = <<>> /\ dbStatus = "running"
             /\ dbStatus = "finished" => paying = <<>> /\ ~running

\* The winner's place is stored, or will be; and it is the first.
WinnerPaid ==
  ~running => \A w \in active :
     /\ dbPlace[w] = 1 \/ \E i \in DOMAIN paying : paying[i][1] = w
     /\ \A i \in DOMAIN paying : paying[i][1] = w => paying[i][2] = 1

\* What a handler has stored is recorded, in the order of its list: a bot listed twice is
\* recorded twice.
ListRecorded ==
  \A h \in DOMAIN busting :
    /\ \A i \in 1 .. busting[h].now : busting[h].list[i].bot \in OutBots
    /\ \A i, j \in 1 .. busting[h].now :
         i < j /\ busting[h].list[i].bot = busting[h].list[j].bot => ~IsInjective(bustOrder)

\* Each bot out counts once: places are counted down to the first.
PlacesCounted ==
  OutOnce => \A h \in DOMAIN busting : \A i \in DOMAIN busting[h].list :
                busting[h].list[i].place >= 1

AllPaid ==
  OutOnce /\ ~running =>
     \A b \in Bots : dbPlace[b] # 0 \/ \E i \in DOMAIN paying : paying[i][1] = b

EndInv == InOrOut /\ EndStored /\ WinnerPaid /\ ListRecorded /\ PlacesCounted /\ AllPaid

LEMMA InitEnd ==
  ASSUME Init
  PROVE  EndInv
BY DEF Init, EndInv, InOrOut, OutBots, EndStored, WinnerPaid, ListRecorded, PlacesCounted, AllPaid

LEMMA EndKept ==
  ASSUME EndInv, UNCHANGED <<active, bustOrder, busting, running, paying, dbStatus, dbPlace>>
  PROVE  EndInv'
<1>1. OutBots' = OutBots /\ (OutOnce' <=> OutOnce)
      BY DEF OutBots, OutOnce
<1>2. InOrOut' /\ EndStored' /\ WinnerPaid'
      BY <1>1 DEF EndInv, InOrOut, EndStored, WinnerPaid
<1>3. ListRecorded' /\ PlacesCounted' /\ AllPaid'
      BY <1>1 DEF EndInv, ListRecorded, PlacesCounted, AllPaid
<1> QED BY <1>2, <1>3 DEF EndInv

\* bustOrder grows: by one bot, or not at all.
Grows == bustOrder' = bustOrder \/ \E b \in Bots : bustOrder' = Append(bustOrder, b)

LEMMA OrderGrows ==
  ASSUME Base, Grows
  PROVE  /\ OutBots \subseteq OutBots'
         /\ IsInjective(bustOrder') => IsInjective(bustOrder)
<1>1. bustOrder \in Seq(Bots)
      BY DEF Base, RestOK, EndTyped
<1>2. CASE bustOrder' = bustOrder
      BY <1>2 DEF OutBots
<1>3. CASE \E b \in Bots : bustOrder' = Append(bustOrder, b)
  <2>1. PICK b \in Bots : bustOrder' = Append(bustOrder, b)
        BY <1>3
  <2>2. \A i \in DOMAIN bustOrder : i \in DOMAIN bustOrder' /\ bustOrder'[i] = bustOrder[i]
        BY <1>1, <2>1
  <2> QED BY <2>2 DEF OutBots, IsInjective
<1> QED BY <1>2, <1>3 DEF Grows

\* A bot that is recorded again.
LEMMA RecordedAgain ==
  ASSUME Base, NEW b \in Bots, bustOrder' = Append(bustOrder, b)
  PROVE  /\ OutBots' = OutBots \union {b}
         /\ b \in OutBots => ~IsInjective(bustOrder')
<1>1. bustOrder \in Seq(Bots)
      BY DEF Base, RestOK, EndTyped
<1> DEFINE n == Len(bustOrder)
<1>2. /\ n \in Nat /\ DOMAIN bustOrder = 1 .. n /\ DOMAIN bustOrder' = 1 .. n + 1
      /\ \A i \in 1 .. n : bustOrder'[i] = bustOrder[i]
      /\ bustOrder'[n + 1] = b
      BY <1>1
<1>3. DOMAIN bustOrder' = DOMAIN bustOrder \union {n + 1} /\ n + 1 \notin DOMAIN bustOrder
      BY <1>2
<1> HIDE DEF n
<1>4. OutBots' = OutBots \union {b}
      BY <1>2, <1>3 DEF OutBots
<1>5. ASSUME b \in OutBots, IsInjective(bustOrder') PROVE FALSE
  <2>1. PICK i \in DOMAIN bustOrder : bustOrder[i] = b
        BY <1>5 DEF OutBots
  <2>2. bustOrder'[i] = bustOrder'[n + 1]
        BY <1>2, <2>1
  <2> QED BY <1>3, <1>5, <2>1, <2>2 DEF IsInjective
<1> QED BY <1>4, <1>5

\* The handlers of a step are handlers from before, and the list of one that is gone is
\* recorded to its end.
OnlyOldHandlers ==
  /\ \A k \in DOMAIN busting' : \E h \in DOMAIN busting : busting'[k] = busting[h]
  /\ \A h \in DOMAIN busting : \/ \E k \in DOMAIN busting' : busting'[k] = busting[h]
                               \/ busting[h].now = Len(busting[h].list)

LEMMA OnceBefore ==
  ASSUME Base, EndInv, Grows, OnlyOldHandlers, OutOnce'
  PROVE  OutOnce
<1>1. IsInjective(bustOrder)
      BY OrderGrows DEF OutOnce
<1>2. ASSUME NEW h \in DOMAIN busting PROVE ListedOnce(busting[h].list)
  <2>1. CASE \E k \in DOMAIN busting' : busting'[k] = busting[h]
        BY <2>1 DEF OutOnce
  <2>2. CASE busting[h].now = Len(busting[h].list)
    <3>1. DOMAIN busting[h].list = 1 .. busting[h].now /\ busting[h].now \in Nat
          BY <2>2, HandlerParts DEF Base
    <3>2. \A i, j \in DOMAIN busting[h].list :
             i < j => busting[h].list[i].bot # busting[h].list[j].bot
          BY <1>1, <3>1 DEF EndInv, ListRecorded
    <3>3. \A i, j \in DOMAIN busting[h].list :
             busting[h].list[i].bot = busting[h].list[j].bot => i = j
      <4> TAKE i, j \in DOMAIN busting[h].list
      <4> HAVE busting[h].list[i].bot = busting[h].list[j].bot
      <4>1. ~(i < j) /\ ~(j < i)
            BY <3>2
      <4> QED BY <3>1, <4>1
    <3> QED BY <3>3 DEF ListedOnce
  <2> QED BY <2>1, <2>2 DEF OnlyOldHandlers
<1> QED BY <1>1, <1>2 DEF OutOnce

\* The tournament ends with one bot left, or none.
Ends == FinishTournament /\ Cardinality(active) <= 1

LEMMA EndingRecords ==
  ASSUME Base, EndInv, Ends, running
  PROVE  /\ running' = FALSE /\ Grows
         /\ bustOrder' \in Seq(Bots) /\ OutBots' = Bots
         /\ DOMAIN paying' = 1 .. Len(bustOrder') /\ Len(bustOrder') \in Nat
         /\ \A i \in DOMAIN paying' :
              /\ Len(bustOrder') - i + 1 \in DOMAIN bustOrder'
              /\ paying'[i][1] = bustOrder'[Len(bustOrder') - i + 1] /\ paying'[i][2] = i
         /\ \A w \in active : \A j \in DOMAIN bustOrder' :
              bustOrder'[j] = w <=> j = Len(bustOrder')
<1>1. /\ bustOrder \in Seq(Bots) /\ active \subseteq Bots
      /\ OutBots \cap active = {} /\ Bots = active \union OutBots
      BY DEF Base, RestOK, EndTyped, EndInv, InOrOut
<1>2. /\ running' = FALSE
      /\ \E w \in IF active = {} THEN {<<>>} ELSE {<<b>> : b \in active} :
            bustOrder' = bustOrder \o w
      /\ paying' = [i \in DOMAIN bustOrder' |-> <<FinalPlaces(bustOrder')[i], i>>]
      BY DEF Ends, FinishTournament
<1>3. /\ Grows /\ OutBots' = Bots
      /\ \A w \in active : \A j \in DOMAIN bustOrder' :
           bustOrder'[j] = w <=> j = Len(bustOrder')
  <2>1. CASE active = {}
    <3>1. bustOrder' = bustOrder
          BY <1>1, <1>2, <2>1
    <3> QED BY <1>1, <2>1, <3>1 DEF Grows, OutBots
  <2>2. CASE active # {}
    <3>1. PICK b \in active : bustOrder' = bustOrder \o <<b>>
          BY <1>2, <2>2
    <3>2. b \in Bots /\ b \notin OutBots
          BY <1>1
    <3>3. bustOrder' = Append(bustOrder, b)
          BY <1>1, <3>1, <3>2
    <3>4. active = {b}
      <4>1. SUFFICES ASSUME NEW c \in active, c # b PROVE FALSE
            OBVIOUS
      <4>2. IsFiniteSet(active)
            BY <1>1, DirectorAssumption, FS_Subset
      <4>3. Cardinality(active) \in Nat /\ Cardinality({b, c}) <= Cardinality(active)
            BY <4>2, FS_CardinalityType, FS_Subset
      <4>4. Cardinality({b, c}) = 2
        <5>1. IsFiniteSet({b}) /\ Cardinality({b}) = 1
              BY FS_Singleton
        <5>2. Cardinality({b} \union {c}) = Cardinality({b}) + 1
              BY <4>1, <5>1, FS_AddElement
        <5>3. {b} \union {c} = {b, c}
              OBVIOUS
        <5> QED BY <5>1, <5>2, <5>3
      <4> QED BY <4>3, <4>4 DEF Ends
    <3>5. OutBots' = OutBots \union {b}
          BY <3>2, <3>3, RecordedAgain
    <3> DEFINE n == Len(bustOrder)
    <3>6. /\ n \in Nat /\ DOMAIN bustOrder' = 1 .. n + 1 /\ Len(bustOrder') = n + 1
          /\ \A i \in 1 .. n : bustOrder'[i] = bustOrder[i] /\ i \in DOMAIN bustOrder
          /\ bustOrder'[n + 1] = b
          BY <1>1, <3>2, <3>3
    <3> HIDE DEF n
    <3>7. \A j \in DOMAIN bustOrder' : bustOrder'[j] = b <=> j = Len(bustOrder')
      <4> TAKE j \in DOMAIN bustOrder'
      <4>1. CASE j = n + 1
            BY <3>6, <4>1
      <4>2. CASE j # n + 1
        <5>1. j \in 1 .. n
              BY <3>6, <4>2
        <5>2. bustOrder'[j] \in OutBots
              BY <3>6, <5>1 DEF OutBots
        <5> QED BY <3>2, <3>6, <4>2, <5>2
      <4> QED BY <4>1, <4>2
    <3> QED BY <1>1, <3>2, <3>3, <3>4, <3>5, <3>7 DEF Grows
  <2> QED BY <2>1, <2>2
<1>4. bustOrder' \in Seq(Bots)
      BY <1>1, <1>3 DEF Grows
<1> DEFINE n == Len(bustOrder')
<1>5. n \in Nat /\ DOMAIN bustOrder' = 1 .. n
      BY <1>4
<1>6. DOMAIN paying' = 1 .. n
      BY <1>2, <1>5
<1>7. ASSUME NEW i \in 1 .. n
      PROVE  /\ n - i + 1 \in DOMAIN bustOrder'
             /\ paying'[i][1] = bustOrder'[n - i + 1] /\ paying'[i][2] = i
  <2>1. n - i + 1 \in 1 .. n
        BY <1>5
  <2>2. FinalPlaces(bustOrder')[i] = bustOrder'[n - i + 1]
        BY DEF FinalPlaces, Reverse
  <2>3. paying'[i] = <<FinalPlaces(bustOrder')[i], i>>
        BY <1>2, <1>5
  <2> QED BY <1>5, <2>1, <2>2, <2>3
<1> QED BY <1>2, <1>3, <1>4, <1>5, <1>6, <1>7
\* A step that stores places of bots out, takes handlers from the sequence, and may end
\* the tournament.
LEMMA EndStepKeeps ==
  ASSUME Base, EndInv, OnlyOldHandlers,
         UNCHANGED <<running, bustOrder, paying>> \/ Ends,
         active' = active, dbStatus' = dbStatus,
         \A b \in active : dbPlace'[b] = dbPlace[b],
         OutOnce => \A b \in Bots : dbPlace[b] # 0 => dbPlace'[b] # 0
  PROVE  EndInv'
<1>1. active \subseteq Bots /\ running \in BOOLEAN /\ bustOrder \in Seq(Bots)
      BY DEF Base, RestOK, EndTyped
<1>2. \/ UNCHANGED <<running, bustOrder, paying>>
      \/ Ends /\ running
      BY DEF Ends, FinishTournament
<1>3. Grows
      BY <1>2, EndingRecords DEF Grows
<1>4. OutBots \subseteq OutBots' /\ (IsInjective(bustOrder') => IsInjective(bustOrder))
      BY <1>3, OrderGrows
<1>5. OutOnce' => OutOnce
      BY <1>3, OnceBefore
<1>6. ListRecorded'
  <2>1. ASSUME NEW k \in DOMAIN busting'
        PROVE  /\ \A i \in 1 .. busting'[k].now : busting'[k].list[i].bot \in OutBots'
               /\ \A i, j \in 1 .. busting'[k].now :
                    i < j /\ busting'[k].list[i].bot = busting'[k].list[j].bot
                      => ~IsInjective(bustOrder')
    <3>1. PICK h \in DOMAIN busting : busting'[k] = busting[h]
          BY DEF OnlyOldHandlers
    <3> QED BY <1>4, <3>1 DEF EndInv, ListRecorded
  <2> QED BY <2>1 DEF ListRecorded
<1>7. PlacesCounted'
  <2>1. ASSUME OutOnce', NEW k \in DOMAIN busting'
        PROVE  \A i \in DOMAIN busting'[k].list : busting'[k].list[i].place >= 1
    <3>1. PICK h \in DOMAIN busting : busting'[k] = busting[h]
          BY DEF OnlyOldHandlers
    <3> QED BY <1>5, <2>1, <3>1 DEF EndInv, PlacesCounted
  <2> QED BY <2>1 DEF PlacesCounted
<1>8. \A k \in DOMAIN busting' : busting'[k].list[busting'[k].now].bot \notin active
      BY DEF OnlyOldHandlers, EndInv, InOrOut
<1>9. CASE UNCHANGED <<running, bustOrder, paying>>
  <2>1. OutBots' = OutBots
        BY <1>9 DEF OutBots
  <2>2. InOrOut' /\ EndStored'
        BY <1>8, <1>9, <2>1 DEF EndInv, InOrOut, EndStored
  <2>3. WinnerPaid'
        BY <1>9 DEF EndInv, WinnerPaid
  <2>4. AllPaid'
        BY <1>5, <1>9 DEF EndInv, AllPaid
  <2> QED BY <1>6, <1>7, <2>2, <2>3, <2>4 DEF EndInv
<1>10. CASE Ends /\ running
  <2> DEFINE n == Len(bustOrder')
  <2>1. /\ running' = FALSE
        /\ bustOrder' \in Seq(Bots) /\ OutBots' = Bots
        /\ DOMAIN paying' = 1 .. n /\ n \in Nat
        /\ \A i \in DOMAIN paying' :
             /\ n - i + 1 \in DOMAIN bustOrder'
             /\ paying'[i][1] = bustOrder'[n - i + 1] /\ paying'[i][2] = i
        /\ \A w \in active : \A j \in DOMAIN bustOrder' : bustOrder'[j] = w <=> j = n
        BY <1>10, EndingRecords
  <2> HIDE DEF n
  <2>2. dbStatus' # "finished"
        BY <1>10 DEF EndInv, EndStored
  <2>3. InOrOut' /\ EndStored'
        BY <1>1, <1>8, <2>1, <2>2 DEF InOrOut, EndStored
  <2>4. DOMAIN bustOrder' = 1 .. n
        BY <2>1 DEF n
  <2>5. \A b \in Bots : \E i \in DOMAIN paying' : paying'[i][1] = b
    <3> TAKE b \in Bots
    <3>1. PICK j \in DOMAIN bustOrder' : bustOrder'[j] = b
          BY <2>1 DEF OutBots
    <3>2. PICK i \in 1 .. n : n - i + 1 = j
      <4>1. n - j + 1 \in 1 .. n /\ n - (n - j + 1) + 1 = j
            BY <2>1, <2>4
      <4> QED BY <4>1
    <3>3. paying'[i][1] = bustOrder'[j]
          BY <2>1, <3>2
    <3> QED BY <2>1, <3>1, <3>2, <3>3
  <2>6. \A w \in active : \A i \in DOMAIN paying' : paying'[i][1] = w => paying'[i][2] = 1
    <3> TAKE w \in active
    <3> TAKE i \in DOMAIN paying'
    <3> HAVE paying'[i][1] = w
    <3>1. /\ n - i + 1 \in DOMAIN bustOrder' /\ bustOrder'[n - i + 1] = w
          /\ paying'[i][2] = i
          BY <2>1
    <3>2. n - i + 1 = n
          BY <2>1, <3>1
    <3>3. i = 1
          BY <2>1, <3>2
    <3> QED BY <3>1, <3>3
  <2>7. WinnerPaid' /\ AllPaid'
        BY <1>1, <2>5, <2>6 DEF WinnerPaid, AllPaid
  <2> QED BY <1>6, <1>7, <2>3, <2>7 DEF EndInv
<1> QED BY <1>2, <1>9, <1>10

\* Steps of the balancer and of the tables, that may end the tournament.
LEMMA EndStep ==
  ASSUME Base, EndInv, UNCHANGED <<running, bustOrder, paying>> \/ Ends,
         UNCHANGED <<active, dbStatus, dbPlace, busting>>
  PROVE  EndInv'
<1>1. OnlyOldHandlers
      BY DEF OnlyOldHandlers
<1> QED BY <1>1, EndStepKeeps

LEMMA BalancingEnds ==
  ASSUME Base, NEW x, CheckTableBalancing(x)
  PROVE  UNCHANGED <<running, bustOrder, paying>> \/ Ends
<1>1. HandlerEnds(x) \/ UNCHANGED <<running, bustOrder, paying>>
      BY BalancingCases DEF Base
<1> QED BY <1>1 DEF HandlerEnds, Ends

LEMMA MoverEnds ==
  ASSUME NextMover
  PROVE  UNCHANGED <<running, bustOrder, paying>> \/ Ends
BY MoverCases DEF HandlerEnds, Ends

\* A place of the final list is stored.
LEMMA PayoutStoredEnd ==
  ASSUME Base, EndInv, PayoutStored
  PROVE  EndInv'
<1>1. /\ dbPlace \in [Bots -> Int] /\ paying \in Seq(Bots \X (Nat \ {0})) /\ paying # <<>>
      /\ active \subseteq Bots
      BY DEF Base, RestOK, EndTyped, PayingOK, PayoutStored
<1> DEFINE b == paying[1][1]
           p == paying[1][2]
           n == Len(paying)
<1>2. /\ b \in Bots /\ p \in Nat /\ p # 0 /\ Head(paying) = paying[1]
      /\ n \in Nat /\ n > 0 /\ DOMAIN paying = 1 .. n
      /\ DOMAIN Tail(paying) = 1 .. n - 1 /\ \A i \in 1 .. n - 1 : Tail(paying)[i] = paying[i + 1]
      BY <1>1
<1>3. /\ dbPlace' = [dbPlace EXCEPT ![b] = p] /\ paying' = Tail(paying)
      /\ UNCHANGED <<active, bustOrder, busting, running, dbStatus>>
      BY <1>2 DEF PayoutStored, handlers
<1>4. OutBots' = OutBots /\ (OutOnce' <=> OutOnce) /\ ~running
      BY <1>1, <1>3 DEF OutBots, OutOnce, EndInv, EndStored
<1>5. \A c \in Bots : dbPlace'[c] = IF c = b THEN p ELSE dbPlace[c]
      BY <1>1, <1>3
<1>6. b = paying[1][1] /\ p = paying[1][2]
      OBVIOUS
<1> HIDE DEF b, p, n
<1>7. /\ \A i \in DOMAIN paying' : i + 1 \in DOMAIN paying /\ paying'[i] = paying[i + 1]
      /\ \A i \in DOMAIN paying : i # 1 => i - 1 \in DOMAIN paying' /\ paying'[i - 1] = paying[i]
      /\ 1 \in DOMAIN paying
      BY <1>2, <1>3
<1>8. InOrOut'
      BY <1>3, <1>4 DEF EndInv, InOrOut
<1>9. EndStored'
      BY <1>1, <1>3, <1>4 DEF EndInv, EndStored
<1>10. WinnerPaid'
  <2>1. ASSUME NEW w \in active
        PROVE  /\ dbPlace'[w] = 1 \/ \E i \in DOMAIN paying' : paying'[i][1] = w
               /\ \A i \in DOMAIN paying' : paying'[i][1] = w => paying'[i][2] = 1
    <3>1. /\ dbPlace[w] = 1 \/ \E i \in DOMAIN paying : paying[i][1] = w
          /\ \A i \in DOMAIN paying : paying[i][1] = w => paying[i][2] = 1
          BY <1>4 DEF EndInv, WinnerPaid
    <3>2. \A i \in DOMAIN paying' : paying'[i][1] = w => paying'[i][2] = 1
          BY <1>7, <3>1
    <3>3. CASE w = b
          BY <1>1, <1>5, <1>6, <1>7, <3>1, <3>2, <3>3
    <3>4. CASE w # b
      <4>1. CASE dbPlace[w] = 1
            BY <1>1, <1>5, <3>2, <3>4, <4>1
      <4>2. CASE \E i \in DOMAIN paying : paying[i][1] = w
        <5>1. PICK i \in DOMAIN paying : paying[i][1] = w
              BY <4>2
        <5>2. i # 1
              BY <1>6, <3>4, <5>1
        <5> QED BY <1>7, <3>2, <5>1, <5>2
      <4> QED BY <3>1, <4>1, <4>2
    <3> QED BY <3>3, <3>4
  <2> QED BY <1>3, <2>1 DEF WinnerPaid
<1>11. ListRecorded' /\ PlacesCounted'
      BY <1>3, <1>4 DEF EndInv, ListRecorded, PlacesCounted
<1>12. AllPaid'
  <2>1. ASSUME OutOnce, NEW c \in Bots
        PROVE  dbPlace'[c] # 0 \/ \E i \in DOMAIN paying' : paying'[i][1] = c
    <3>1. dbPlace[c] # 0 \/ \E i \in DOMAIN paying : paying[i][1] = c
          BY <1>4, <2>1 DEF EndInv, AllPaid
    <3>2. CASE c = b
          BY <1>2, <1>5, <3>2
    <3>3. CASE c # b
      <4>1. CASE dbPlace[c] # 0
            BY <1>5, <3>3, <4>1
      <4>2. CASE \E i \in DOMAIN paying : paying[i][1] = c
        <5>1. PICK i \in DOMAIN paying : paying[i][1] = c
              BY <4>2
        <5>2. i # 1
              BY <1>6, <3>3, <5>1
        <5> QED BY <1>7, <5>1, <5>2
      <4> QED BY <3>1, <4>1, <4>2
    <3> QED BY <3>2, <3>3
  <2> QED BY <1>4, <2>1 DEF AllPaid
<1> QED BY <1>8, <1>9, <1>10, <1>11, <1>12 DEF EndInv

LEMMA TournamentFinishedEnd ==
  ASSUME EndInv, TournamentFinished
  PROVE  EndInv'
<1>1. /\ ~running /\ paying = <<>>
      /\ UNCHANGED <<active, bustOrder, busting, running, paying, dbPlace>>
      BY DEF TournamentFinished, handlers
<1>2. OutBots' = OutBots /\ (OutOnce' <=> OutOnce)
      BY <1>1 DEF OutBots, OutOnce
<1>3. InOrOut' /\ EndStored' /\ WinnerPaid'
      BY <1>1, <1>2 DEF EndInv, InOrOut, EndStored, WinnerPaid
<1>4. ListRecorded' /\ PlacesCounted' /\ AllPaid'
      BY <1>1, <1>2 DEF EndInv, ListRecorded, PlacesCounted, AllPaid
<1> QED BY <1>3, <1>4 DEF EndInv
\* The place that is stored is the place of a bot that is out.
LEMMA StoredPlaceIsOut ==
  ASSUME Base, EndInv, NEW h \in DOMAIN busting, StoresPlace(h)
  PROVE  /\ \A b \in active : dbPlace'[b] = dbPlace[b]
         /\ OutOnce => \A b \in Bots : dbPlace[b] # 0 => dbPlace'[b] # 0
<1> DEFINE list == busting[h].list
           now  == busting[h].now
           c == list[now].bot
           p == list[now].place
<1>1. /\ now \in DOMAIN list /\ c \in Bots /\ p \in Int /\ c \notin active
      /\ OutOnce => p >= 1
      /\ dbPlace \in [Bots -> Int] /\ active \subseteq Bots
      BY HandlerParts DEF Base, RestOK, EndInv, InOrOut, PlacesCounted
<1>2. dbPlace' = [dbPlace EXCEPT ![c] = p]
      BY DEF StoresPlace
<1> HIDE DEF c, p
<1>3. \A b \in Bots : dbPlace'[b] = IF b = c THEN p ELSE dbPlace[b]
      BY <1>1, <1>2
<1> QED BY <1>1, <1>3

LEMMA LastBustEnd ==
  ASSUME Base, EndInv, NEW h \in DOMAIN busting, StoresPlace(h), LastBust(h), dbStatus' = dbStatus
  PROVE  EndInv'
<1>1. busting' = RemoveAt(busting, h) /\ active' = active
      /\ (UNCHANGED <<running, bustOrder, paying>> \/ Ends)
      BY DEF LastBust, Ends
<1>2. busting \in Seq(Handler)
      BY DEF Base, RestOK, HandlersOK
<1>3. busting[h].now = Len(busting[h].list)
  <2>1. /\ busting[h].now \in 1 .. Len(busting[h].list) /\ Len(busting[h].list) \in Nat
        /\ busting[h].now >= Len(busting[h].list)
        BY HandlerParts DEF Base, LastBust
  <2> QED BY <2>1
<1>4. OnlyOldHandlers
      BY <1>1, <1>2, <1>3, OthersRemain DEF OnlyOldHandlers
<1> QED BY <1>1, <1>4, StoredPlaceIsOut, EndStepKeeps

LEMMA NextBustEnd ==
  ASSUME Base, EndInv, NEW h \in DOMAIN busting, StoresPlace(h), NextBust(h), dbStatus' = dbStatus
  PROVE  EndInv'
<1> DEFINE list == busting[h].list
           now  == busting[h].now
           b    == list[now + 1].bot
<1>1. /\ list \in Seq(Busted) /\ now \in Nat /\ now \in 1 .. Len(list) /\ Len(list) \in Nat
      /\ DOMAIN list = 1 .. Len(list) /\ now + 1 \in 1 .. Len(list) /\ b \in Bots
  <2>1. /\ list \in Seq(Busted) /\ now \in Nat /\ now \in 1 .. Len(list) /\ Len(list) \in Nat
        /\ DOMAIN list = 1 .. Len(list) /\ now < Len(list)
        BY HandlerParts DEF Base, NextBust
  <2>2. now + 1 \in 1 .. Len(list)
        BY <2>1
  <2>3. b \in Bots
        BY <2>1, <2>2, HandlerParts DEF Base
  <2> QED BY <2>1, <2>2, <2>3
<1>2. /\ bustOrder' = Append(bustOrder, b) /\ active' = active \ {b}
      /\ busting' = [busting EXCEPT ![h].now = now + 1]
      /\ UNCHANGED <<running, paying>>
      BY DEF NextBust, Busts, OutOfActive
<1>3. /\ DOMAIN busting' = DOMAIN busting
      /\ \A k \in DOMAIN busting : k # h => busting'[k] = busting[k]
      /\ busting'[h].list = list /\ busting'[h].now = now + 1
  <2>1. busting \in Seq(Handler)
        BY DEF Base, RestOK, HandlersOK
  <2>2. busting[h] \in Handler
        BY <2>1
  <2>3. busting' = [busting EXCEPT ![h] = [busting[h] EXCEPT !.now = now + 1]]
        BY <1>2
  <2>4. busting'[h] = [busting[h] EXCEPT !.now = now + 1]
        BY <2>1, <2>3
  <2> QED BY <2>1, <2>2, <2>3, <2>4 DEF Handler
<1>4. Grows
      BY <1>1, <1>2 DEF Grows
<1>5. /\ OutBots' = OutBots \union {b} /\ (b \in OutBots => ~IsInjective(bustOrder'))
      /\ IsInjective(bustOrder') => IsInjective(bustOrder)
      BY <1>1, <1>2, <1>4, RecordedAgain, OrderGrows
<1>6. OutOnce' => OutOnce
      BY <1>3, <1>5 DEF OutOnce
<1>7. active' \subseteq active /\ active \subseteq Bots
      BY <1>2 DEF Base, RestOK
<1>8. list[now + 1].bot = b
      OBVIOUS
<1> HIDE DEF b
<1>9. InOrOut'
  <2>1. \A k \in DOMAIN busting' : busting'[k].list[busting'[k].now].bot \notin active'
    <3> TAKE k \in DOMAIN busting'
    <3>1. CASE k = h
          BY <1>2, <1>3, <1>8, <3>1
    <3>2. CASE k # h
          BY <1>3, <1>7, <3>2 DEF EndInv, InOrOut
    <3> QED BY <3>1, <3>2
  <2>2. running' => OutBots' \cap active' = {}
        BY <1>2, <1>5 DEF EndInv, InOrOut
  <2>3. Bots = active' \union OutBots'
        BY <1>1, <1>2, <1>5 DEF EndInv, InOrOut
  <2> QED BY <2>1, <2>2, <2>3 DEF InOrOut
<1>10. EndStored'
      BY <1>2 DEF EndInv, EndStored
<1>11. WinnerPaid'
      BY <1>2, <1>7, StoredPlaceIsOut DEF EndInv, WinnerPaid
<1>12. ListRecorded'
  <2>1. ASSUME NEW k \in DOMAIN busting'
        PROVE  /\ \A i \in 1 .. busting'[k].now : busting'[k].list[i].bot \in OutBots'
               /\ \A i, j \in 1 .. busting'[k].now :
                    i < j /\ busting'[k].list[i].bot = busting'[k].list[j].bot
                      => ~IsInjective(bustOrder')
    <3>1. CASE k # h
          BY <1>3, <1>5, <3>1 DEF EndInv, ListRecorded
    <3>2. CASE k = h
      <4>1. /\ \A i \in 1 .. now : list[i].bot \in OutBots
            /\ \A i, j \in 1 .. now : i < j /\ list[i].bot = list[j].bot
                                        => ~IsInjective(bustOrder)
            BY DEF EndInv, ListRecorded
      <4>2. /\ \A i \in 1 .. now + 1 : i \in 1 .. now \/ i = now + 1
            /\ \A i, j \in 1 .. now + 1 :
                 i < j => i \in 1 .. now /\ (j \in 1 .. now \/ j = now + 1)
            BY <1>1
      <4>3. \A i \in 1 .. now + 1 : list[i].bot \in OutBots'
            BY <1>5, <1>8, <4>1, <4>2
      <4>4. \A i, j \in 1 .. now + 1 : i < j /\ list[i].bot = list[j].bot
                                         => ~IsInjective(bustOrder')
            BY <1>5, <1>8, <4>1, <4>2
      <4> HIDE DEF list, now
      <4> QED BY <1>3, <3>2, <4>3, <4>4
    <3> QED BY <3>1, <3>2
  <2> QED BY <2>1 DEF ListRecorded
<1>13. PlacesCounted'
      BY <1>3, <1>6 DEF EndInv, PlacesCounted
<1>14. AllPaid'
      BY <1>2, <1>6, StoredPlaceIsOut DEF EndInv, AllPaid
<1> QED BY <1>9, <1>10, <1>11, <1>12, <1>13, <1>14 DEF EndInv

\* Bots that are out and bots of a list that are still in are not more than all.
LEMMA PlacesSuffice ==
  ASSUME Base, EndInv, running, IsInjective(bustOrder), NEW stacks,
         NEW s \in Seq(Bots \X TableIds), \A i \in DOMAIN s : s[i][1] \in active,
         \A i, j \in DOMAIN s : s[i][1] = s[j][1] => i = j,
         NEW k
  PROVE  Place(s, k, stacks) >= 1
<1> DEFINE n == Len(bustOrder)
           m == Len(s)
           f == [i \in 1 .. n + m |-> IF i <= n THEN bustOrder[i] ELSE s[i - n][1]]
           better == {j \in DOMAIN s : stacks[s[j][1]] > stacks[s[k][1]]}
<1>1. /\ bustOrder \in Seq(Bots) /\ active \subseteq Bots /\ OutBots \cap active = {}
      BY DEF Base, RestOK, EndTyped, EndInv, InOrOut
<1>2. /\ n \in Nat /\ m \in Nat /\ DOMAIN bustOrder = 1 .. n /\ DOMAIN s = 1 .. m
      BY <1>1
<1>3. \A i \in 1 .. n + m : /\ i <= n => i \in 1 .. n /\ f[i] = bustOrder[i] /\ f[i] \in OutBots
                            /\ ~(i <= n) => i - n \in 1 .. m /\ f[i] = s[i - n][1]
                                            /\ f[i] \in active
  <2> SUFFICES ASSUME NEW i \in 1 .. n + m
               PROVE  /\ i <= n => i \in 1 .. n /\ f[i] = bustOrder[i] /\ f[i] \in OutBots
                      /\ ~(i <= n) => i - n \in 1 .. m /\ f[i] = s[i - n][1] /\ f[i] \in active
      OBVIOUS
  <2>1. f[i] = IF i <= n THEN bustOrder[i] ELSE s[i - n][1]
        OBVIOUS
  <2> HIDE DEF f, n, m
  <2>2. CASE i <= n
    <3>1. i \in 1 .. n
          BY <1>2, <2>2
    <3> QED BY <1>2, <2>1, <2>2, <3>1 DEF OutBots
  <2>3. CASE ~(i <= n)
    <3>1. i - n \in 1 .. m
          BY <1>2, <2>3
    <3> QED BY <1>2, <2>1, <2>3, <3>1
  <2> QED BY <2>2, <2>3
<1>4. OutBots \subseteq Bots
      BY <1>1 DEF OutBots
<1>5. f \in [1 .. n + m -> Bots]
  <2>1. \A i \in 1 .. n + m : f[i] \in Bots
        BY <1>1, <1>3, <1>4
  <2> QED BY <2>1
<1>6. \A i, j \in 1 .. n + m : f[i] = f[j] => i = j
  <2> SUFFICES ASSUME NEW i \in 1 .. n + m, NEW j \in 1 .. n + m, f[i] = f[j]
               PROVE  i = j
      OBVIOUS
  <2> HIDE DEF f
  <2>1. CASE i <= n /\ j <= n
    <3>1. bustOrder[i] = bustOrder[j] /\ i \in DOMAIN bustOrder /\ j \in DOMAIN bustOrder
          BY <1>2, <1>3, <2>1
    <3> QED BY <3>1 DEF IsInjective
  <2>2. CASE ~(i <= n) /\ ~(j <= n)
    <3>1. s[i - n][1] = s[j - n][1] /\ i - n \in DOMAIN s /\ j - n \in DOMAIN s
          BY <1>2, <1>3, <2>2
    <3>2. i - n = j - n
          BY <3>1
    <3> QED BY <1>2, <3>2
  <2>3. CASE i <= n /\ ~(j <= n)
    <3>1. f[i] \in OutBots /\ f[j] \in active
          BY <1>3, <2>3
    <3> QED BY <1>1, <3>1
  <2>4. CASE ~(i <= n) /\ j <= n
    <3>1. f[j] \in OutBots /\ f[i] \in active
          BY <1>3, <2>4
    <3> QED BY <1>1, <3>1
  <2> QED BY <2>1, <2>2, <2>3, <2>4
<1>7. IsFiniteSet(1 .. n + m) /\ Cardinality(1 .. n + m) = n + m
  <2> HIDE DEF n, m
  <2> DEFINE k1 == n + m
  <2>1. k1 \in Nat /\ 1 \in Int /\ k1 \in Int
        BY <1>2
  <2> HIDE DEF k1
  <2>2. IsFiniteSet(1 .. k1) /\ Cardinality(1 .. k1) = IF 1 > k1 THEN 0 ELSE k1 - 1 + 1
        BY <2>1, FS_Interval
  <2>3. IsFiniteSet(1 .. k1) /\ Cardinality(1 .. k1) = k1
        BY <2>1, <2>2
  <2> QED BY <2>3 DEF k1
<1>8. Cardinality(Bots) \in Nat /\ IsFiniteSet(Bots)
      BY DirectorAssumption, FS_CardinalityType
<1>9. n + m <= Cardinality(Bots)
  <2> HIDE DEF f
  <2>0. n + m \in Nat
        BY <1>2
  <2> HIDE DEF n, m
  <2>1. SUFFICES ASSUME Cardinality(Bots) < n + m PROVE FALSE
        BY <2>0, <1>8
  <2>2. \E i, j \in 1 .. n + m : i # j /\ f[i] = f[j]
    <3> DEFINE D == 1 .. n + m
    <3>1. IsFiniteSet(D) /\ Cardinality(Bots) < Cardinality(D) /\ f \in [D -> Bots]
          BY <1>5, <1>7, <2>1
    <3> HIDE DEF D
    <3>2. \E i, j \in D : i # j /\ f[i] = f[j]
          BY <1>8, <3>1, FS_PigeonHole
    <3> QED BY <3>2 DEF D
  <2> QED BY <1>6, <2>2
<1>10. Cardinality(better) \in Nat
  <2>1. better \subseteq 1 .. m
        BY <1>2
  <2>2. IsFiniteSet(1 .. m)
        BY <1>2, FS_Interval
  <2> HIDE DEF better
  <2> QED BY <2>1, <2>2, FS_Subset, FS_CardinalityType
<1>11. Place(s, k, stacks) = Cardinality(Bots) - n - m + 1 + Cardinality(better)
      BY DEF Place
<1> HIDE DEF n, m, better, f
<1> QED BY <1>2, <1>8, <1>9, <1>10, <1>11

LEMMA ListedEnd ==
  ASSUME Base, EndInv, NEW games, NEW stacks, Listed(games, stacks),
         UNCHANGED <<dbStatus, dbPlace>>
  PROVE  EndInv'
<1>1. PICK s \in BustLists(Chipless(games), stacks) :
           /\ Busts(ListOf(s, stacks)[1], games)
           /\ busting' = Append(busting, [list |-> ListOf(s, stacks), now |-> 1])
           /\ UNCHANGED <<syncing, running, paying>>
      BY DEF Listed
<1>2. /\ s \in Seq(Bots \X TableIds) /\ 1 \in DOMAIN s
      /\ \A i \in DOMAIN s : s[i][1] \in active
      BY <1>1, ListsOfBusts DEF Base, Listed
<1> DEFINE list == ListOf(s, stacks)
           b    == list[1].bot
           H    == [list |-> list, now |-> 1]
           n    == Len(busting)
<1>3. /\ DOMAIN list = DOMAIN s
      /\ \A i \in DOMAIN s : list[i].bot = s[i][1] /\ list[i].place = Place(s, i, stacks)
      BY DEF ListOf
<1>4. b \in active /\ b \in Bots /\ active \subseteq Bots
      BY <1>2, <1>3 DEF Base, RestOK
<1>5. /\ bustOrder' = Append(bustOrder, b) /\ active' = active \ {b}
      /\ running /\ UNCHANGED <<running, paying>>
      BY <1>1 DEF Busts, OutOfActive, Listed
<1>6. /\ H.list = list /\ H.now = 1
      OBVIOUS
<1>7. busting \in Seq(Handler)
      BY DEF Base, RestOK, HandlersOK
<1> HIDE DEF list, H
<1>8. H \in Handler
  <2>1. list \in Seq(Busted)
        BY <1>2, ListTyped DEF Base, list
  <2> QED BY <2>1 DEF H, Handler
<1>9. /\ DOMAIN busting' = DOMAIN busting \union {n + 1}
      /\ \A k \in DOMAIN busting : busting'[k] = busting[k]
      /\ busting'[n + 1] = H
  <2>1. busting' = Append(busting, H)
        BY <1>1 DEF H, list
  <2> QED BY <1>7, <1>8, <2>1
<1> HIDE DEF n
<1>10. Grows
      BY <1>4, <1>5 DEF Grows
<1>11. /\ OutBots' = OutBots \union {b}
       /\ IsInjective(bustOrder') => IsInjective(bustOrder)
      BY <1>4, <1>5, <1>10, RecordedAgain, OrderGrows
<1>12. OutOnce' => OutOnce
      BY <1>9, <1>11 DEF OutOnce
<1>13. InOrOut'
  <2>1. \A k \in DOMAIN busting' : busting'[k].list[busting'[k].now].bot \notin active'
    <3> TAKE k \in DOMAIN busting'
    <3>1. CASE k = n + 1
          BY <1>5, <1>6, <1>9, <3>1
    <3>2. CASE k # n + 1
          BY <1>5, <1>9, <3>2 DEF EndInv, InOrOut
    <3> QED BY <3>1, <3>2
  <2>2. OutBots' \cap active' = {} /\ Bots = active' \union OutBots'
        BY <1>4, <1>5, <1>11 DEF EndInv, InOrOut
  <2> QED BY <2>1, <2>2 DEF InOrOut
<1>14. EndStored' /\ WinnerPaid' /\ AllPaid'
      BY <1>5 DEF EndInv, EndStored, WinnerPaid, AllPaid
<1>15. ListRecorded'
  <2>1. ASSUME NEW k \in DOMAIN busting'
        PROVE  /\ \A i \in 1 .. busting'[k].now : busting'[k].list[i].bot \in OutBots'
               /\ \A i, j \in 1 .. busting'[k].now :
                    i < j /\ busting'[k].list[i].bot = busting'[k].list[j].bot
                      => ~IsInjective(bustOrder')
    <3>1. CASE k = n + 1
      <4>1. \A i \in 1 .. 1 : i = 1
            OBVIOUS
      <4>2. \A i, j \in 1 .. 1 : ~(i < j)
            OBVIOUS
      <4>3. busting'[k].now = 1 /\ busting'[k].list[1].bot \in OutBots'
            BY <1>6, <1>9, <1>11, <3>1
      <4> QED BY <4>1, <4>2, <4>3
    <3>2. CASE k # n + 1
          BY <1>9, <1>11, <3>2 DEF EndInv, ListRecorded
    <3> QED BY <3>1, <3>2
  <2> QED BY <2>1 DEF ListRecorded
<1>16. PlacesCounted'
  <2>1. ASSUME OutOnce', NEW k \in DOMAIN busting', NEW i \in DOMAIN busting'[k].list
        PROVE  busting'[k].list[i].place >= 1
    <3>1. CASE k # n + 1
          BY <1>9, <1>12, <2>1, <3>1 DEF EndInv, PlacesCounted
    <3>2. CASE k = n + 1
      <4>1. i \in DOMAIN s /\ busting'[k].list[i].place = Place(s, i, stacks)
            BY <1>3, <1>6, <1>9, <3>2
      <4>2. ListedOnce(list) /\ IsInjective(bustOrder)
            BY <1>6, <1>9, <1>11, <2>1 DEF OutOnce
      <4>3. \A j, l \in DOMAIN s : s[j][1] = s[l][1] => j = l
            BY <1>3, <4>2 DEF ListedOnce
      <4>4. Place(s, i, stacks) >= 1
            BY <1>2, <1>5, <4>2, <4>3, PlacesSuffice
      <4> QED BY <4>1, <4>4
    <3> QED BY <3>1, <3>2
  <2> QED BY <2>1 DEF PlacesCounted
<1> QED BY <1>13, <1>14, <1>15, <1>16 DEF EndInv

LEMMA HandCompleteEnd ==
  ASSUME Base, EndInv, NEW t, NEW games, NEW stacks, HandComplete(t, games, stacks),
         UNCHANGED <<dbStatus, dbPlace>>
  PROVE  EndInv'
<1>1. CASE Ignored(t, games)
      BY <1>1, EndKept DEF Ignored, handlers
<1>2. CASE Listed(games, stacks)
      BY <1>2, ListedEnd
<1>3. CASE Nobody(games)
  <2>1. UNCHANGED <<running, bustOrder, paying>> \/ Ends
        BY <1>3 DEF Nobody, Ends
  <2>2. UNCHANGED <<active, dbStatus, dbPlace, busting>>
        BY <1>3 DEF Nobody
  <2> QED BY <2>1, <2>2, EndStep
<1> QED BY <1>1, <1>2, <1>3, HandCompleteCases

LEMMA StepEnd ==
  ASSUME Base, EndInv, [InterleavedNext]_vars
  PROVE  EndInv'
<1>1. CASE UNCHANGED vars
      BY <1>1, EndKept DEF vars, handlers, database
<1>2. CASE Director
  <2>1. CASE CreateTable
        BY <2>1, EndKept DEF CreateTable, handlers, database
  <2>2. CASE ChipsSynced
        BY <2>2, BalancingEnds, EndStep DEF ChipsSynced, database
  <2>3. CASE MovePlayer
        BY <2>3, EndKept DEF MovePlayer, handlers, database
  <2>4. CASE MoveStored
    <3>1. UNCHANGED <<running, bustOrder, paying>> \/ Ends
          BY <2>4 DEF MoveStored, HandlerEnds, Ends
    <3> QED BY <2>4, <3>1, EndStep DEF MoveStored, handlers, database
  <2>5. CASE BreakTable
        BY <2>5, MoverEnds, EndStep DEF BreakTable, handlers, database
  <2>6. CASE SeatMover
        BY <2>6, EndKept DEF SeatMover, handlers, database
  <2>7. CASE MoverStored
        BY <2>7, MoverEnds, EndStep DEF MoverStored, handlers, database
  <2>8. CASE SafetyNet
    <3>1. UNCHANGED <<running, bustOrder, paying>> \/ Ends
          BY <2>8, BalancingEnds DEF SafetyNet, Ends
    <3> QED BY <2>8, <3>1, EndStep DEF SafetyNet, handlers, database
  <2>9. CASE PayoutStored
        BY <2>9, PayoutStoredEnd
  <2>10. CASE TournamentFinished
        BY <2>10, TournamentFinishedEnd
  <2>11. ASSUME NEW h \in DOMAIN busting, BustStored(h) PROVE EndInv'
    <3>1. StoresPlace(h) /\ (NextBust(h) \/ LastBust(h)) /\ dbStatus' = dbStatus
          BY <2>11, BustCases DEF Base, BustStored
    <3> QED BY <3>1, NextBustEnd, LastBustEnd
  <2> QED BY <1>2, <2>1, <2>2, <2>3, <2>4, <2>5, <2>6, <2>7, <2>8, <2>9, <2>10, <2>11
          DEF Director
<1>3. ASSUME NEW t \in TableIds,
             TableStep(t) \/ BeginHand(t) \/ EndHand(t) \/ HandThrows(t)
      PROVE  EndInv'
  <2>1. CASE StartGame(t)
        BY <2>1, EndKept DEF StartGame, handlers, database
  <2>2. CASE PlayHand(t)
    <3>1. PICK games, stacks : HandComplete(t, games, stacks)
          BY <2>2 DEF PlayHand
    <3> QED BY <2>2, <3>1, HandCompleteEnd DEF PlayHand, database
  <2>3. CASE GameOver(t)
    <3>1. UNCHANGED <<running, bustOrder, paying>> \/ Ends
          BY <2>3, BalancingEnds DEF GameOver, Ends
    <3> QED BY <2>3, <3>1, EndStep DEF GameOver, handlers, database
  <2>4. CASE BeginHand(t)
        BY <2>4, EndKept DEF BeginHand, handlers, database
  <2>5. CASE EndHand(t)
    <3>1. PICK games, stacks : HandComplete(t, games, stacks)
          BY <2>5 DEF EndHand
    <3> QED BY <2>5, <3>1, HandCompleteEnd DEF EndHand, database
  <2>6. CASE HandThrows(t)
        BY <2>6, EndKept DEF HandThrows, handlers, database
  <2> QED BY <1>3, <2>1, <2>2, <2>3, <2>4, <2>5, <2>6 DEF TableStep
<1> QED BY <1>1, <1>2, <1>3 DEF InterleavedNext, Next

LEMMA EndGivesWinner ==
  ASSUME EndInv
  PROVE  WinnerIsFirst
<1> SUFFICES ASSUME dbStatus = "finished"
             PROVE  /\ \A b \in active : dbPlace[b] = 1
                    /\ OutOnce => \A b \in Bots : dbPlace[b] # 0
    BY DEF WinnerIsFirst
<1>1. paying = <<>> /\ ~running
      BY DEF EndInv, EndStored
<1>2. DOMAIN paying = {}
      BY <1>1
<1> QED BY <1>1, <1>2 DEF EndInv, WinnerPaid, AllPaid

\* When a tournament is over, the bot that is left has the first place, however many
\* handlers stored places while it ended; and every bot has a place when none was
\* recorded out twice.
THEOREM TheWinnerIsFirst == InterleavedSpec => []WinnerIsFirst
<1>1. Init => Base /\ EndInv
      BY InitBase, InitEnd
<1>2. Base /\ EndInv /\ [InterleavedNext]_vars => (Base /\ EndInv)'
      BY StepTyped, StepEnd
<1>3. EndInv => WinnerIsFirst
      BY EndGivesWinner
<1> QED BY <1>1, <1>2, <1>3, PTL DEF InterleavedSpec
-----------------------------------------------------------------------------
(* Games that are played between two turns of the director *)

\* A game between two hands: nobody is to join or leave later, and a bot that does not
\* sit at the table has no chips there.
Calm(g) ==
  /\ g \in Games /\ g.loop # "hand" /\ g.pending = <<>> /\ g.bets = None
  /\ g.gone \subseteq g.seated
  /\ \A b \in Bots : b \notin Sitting(g) => g.chips[b] = 0

\* Nobody comes to the table, and nobody gets chips that had none.
Shrinks(h, g) ==
  /\ Calm(h) /\ h.seated = g.seated /\ g.gone \subseteq h.gone
  /\ Playable(h) \subseteq Playable(g)

\* Nor does one of less than two bots that can play lose it.
Stays(h, g) ==
  /\ Shrinks(h, g)
  /\ Cardinality(Playable(g)) < 2 => Playable(h) = Playable(g)

\* A bot comes to the table, and finds the chips of the others, or its own, as they were.
Joins(h, g, b) ==
  /\ Calm(h) /\ h.seated = g.seated \union {b} /\ h.gone = g.gone \ {b}
  /\ Playable(h) \subseteq Playable(g) \union {b}
  /\ \A c \in g.seated : h.chips[c] = g.chips[c]

LEMMA StaysItself ==
  ASSUME NEW g, Calm(g)
  PROVE  Stays(g, g)
BY DEF Stays, Shrinks

LEMMA StaysOn ==
  ASSUME NEW g, NEW h, NEW k, Stays(h, g), Stays(k, h)
  PROVE  Stays(k, g)
BY DEF Stays, Shrinks

LEMMA StaysByLoop ==
  ASSUME NEW g, Calm(g), NEW h \in Games, h.loop # "hand",
         h.seated = g.seated, h.gone = g.gone, h.chips = g.chips, h.bets = g.bets,
         h.pending = g.pending
  PROVE  Stays(h, g) /\ Playable(h) = Playable(g)
<1>1. Sitting(h) = Sitting(g)
      BY DEF Sitting
<1>2. Playable(h) = Playable(g)
      BY DEF Playable
<1>3. Calm(h)
      BY <1>1 DEF Calm
<1> QED BY <1>2, <1>3 DEF Stays, Shrinks

LEMMA LoopCalm ==
  ASSUME NEW g, Calm(g), NEW l \in Loops, l # "hand"
  PROVE  LET h == [g EXCEPT !.loop = l]
         IN  Stays(h, g) /\ Playable(h) = Playable(g) /\ h.gone = g.gone /\ h.chips = g.chips
<1> DEFINE h == [g EXCEPT !.loop = l]
<1>1. g \in Games
      BY DEF Calm
<1>2. h = [seated |-> g.seated, gone |-> g.gone, chips |-> g.chips, bets |-> g.bets,
           loop |-> l, pending |-> g.pending]
      BY <1>1 DEF Games
<1>3. h \in Games
      BY <1>1, <1>2 DEF Games
<1>4. h.seated = g.seated /\ h.gone = g.gone /\ h.chips = g.chips /\ h.bets = g.bets
      /\ h.pending = g.pending /\ h.loop = l
      BY <1>2
<1> HIDE DEF h
<1>5. Stays(h, g) /\ Playable(h) = Playable(g)
      BY <1>3, <1>4, StaysByLoop
<1> QED BY <1>4, <1>5 DEF h

LEMMA BrokeStays ==
  ASSUME NEW g, NEW h, Calm(g), Shrinks(h, g), NEW b \in g.seated, g.chips[b] = 0
  PROVE  b \in h.seated /\ h.chips[b] = 0
<1>1. b \in Bots /\ h.chips[b] \in Nat
      BY DEF Calm, Shrinks, Games
<1>2. CASE b \notin Sitting(h)
      BY <1>1, <1>2 DEF Shrinks, Calm
<1>3. CASE b \in Sitting(h)
  <2>1. h.chips[b] > 0 => b \in Playable(g)
        BY <1>3 DEF Sitting, Playable, Shrinks
  <2>2. b \notin Playable(g)
        BY DEF Playable
  <2> QED BY <1>1, <2>1, <2>2 DEF Shrinks
<1> QED BY <1>2, <1>3 DEF Shrinks

\* A bot that leaves takes its chips away.
LEMMA RemovedCalm ==
  ASSUME NEW g, Calm(g), NEW b \in g.seated
  PROVE  LET h == Removed(g, b)
         IN  /\ Shrinks(h, g) /\ (g.chips[b] = 0 => Stays(h, g))
             /\ Sitting(h) = Sitting(g) \ {b}
<1> DEFINE h == Removed(g, b)
           c == [g.chips EXCEPT ![b] = 0]
<1>1. g \in Games /\ b \in Bots /\ g.chips \in [Bots -> Nat] /\ g.loop # "hand"
      BY DEF Calm, Games
<1>2. h = [g EXCEPT !.gone = @ \union {b}, !.chips = c]
      BY <1>1 DEF Removed, RemoveNow, Games
<1>3. h = [seated |-> g.seated, gone |-> g.gone \union {b}, chips |-> c, bets |-> g.bets,
           loop |-> g.loop, pending |-> g.pending]
      BY <1>1, <1>2 DEF Games
<1>4. c \in [Bots -> Nat] /\ c[b] = 0 /\ \A d \in Bots : d # b => c[d] = g.chips[d]
      BY <1>1
<1> HIDE DEF c
<1>5. h.seated = g.seated /\ h.gone = g.gone \union {b} /\ h.chips = c /\ h.bets = g.bets
      /\ h.loop = g.loop /\ h.pending = g.pending /\ h \in Games
      BY <1>1, <1>3, <1>4 DEF Games
<1> HIDE DEF h
<1>6. Sitting(h) = Sitting(g) \ {b}
      BY <1>5 DEF Sitting
<1>7. Playable(h) = Playable(g) \ {b}
      BY <1>1, <1>4, <1>5 DEF Playable, Games
<1>8. Calm(h)
  <2>1. \A d \in Bots : d \notin Sitting(h) => c[d] = 0
        BY <1>4, <1>6 DEF Calm
  <2> QED BY <1>5, <2>1 DEF Calm
<1>9. Shrinks(h, g)
      BY <1>5, <1>7, <1>8 DEF Shrinks
<1>10. g.chips[b] = 0 => Playable(h) = Playable(g)
      BY <1>7 DEF Playable
<1>11. g.chips[b] = 0 => Stays(h, g)
      BY <1>9, <1>10 DEF Stays
<1> QED BY <1>6, <1>9, <1>11 DEF h

LEMMA AddedCalm ==
  ASSUME NEW g, Calm(g), NEW b \in Bots, NEW stack \in Nat
  PROVE  Joins(Added(g, b, stack), g, b)
<1> DEFINE h == Added(g, b, stack)
<1>1. g \in Games /\ g.chips \in [Bots -> Nat] /\ g.loop # "hand" /\ g.pending = <<>>
      BY DEF Calm, Games
<1>2. h = AddNow(g, b, stack)
      BY <1>1 DEF Added
<1>3. h \in Games /\ h.pending = <<>> /\ h.loop # "hand"
      BY <1>1, <1>2, AddNowSeats
<1>4. CASE b \in g.seated
  <2>1. h = [seated |-> g.seated, gone |-> g.gone \ {b}, chips |-> g.chips,
             bets |-> g.bets, pending |-> g.pending, loop |-> g.loop]
        BY <1>1, <1>2, <1>4 DEF AddNow, Games
  <2>2. h.seated = g.seated /\ h.gone = g.gone \ {b} /\ h.chips = g.chips /\ h.bets = g.bets
        BY <2>1
  <2> HIDE DEF h
  <2>3. Sitting(g) \subseteq Sitting(h)
        BY <2>2 DEF Sitting
  <2>4. Calm(h)
        BY <1>3, <2>2, <2>3 DEF Calm
  <2>5. Playable(h) \subseteq Playable(g) \union {b}
        BY <2>2 DEF Playable
  <2>6. Joins(h, g, b)
        BY <1>4, <2>2, <2>4, <2>5 DEF Joins
  <2> QED BY <2>6 DEF h
<1>5. CASE b \notin g.seated
  <2> DEFINE l == IF g.loop = "none" /\ g.seated # g.gone THEN "due" ELSE g.loop
             c == [g.chips EXCEPT ![b] = stack]
  <2>1. h = [seated |-> g.seated \union {b}, gone |-> g.gone, chips |-> c,
             bets |-> g.bets, pending |-> g.pending, loop |-> l]
        BY <1>1, <1>2, <1>5 DEF AddNow, Games
  <2>2. \A d \in Bots : d # b => c[d] = g.chips[d]
        BY <1>1
  <2> HIDE DEF l, c
  <2>3. h.seated = g.seated \union {b} /\ h.gone = g.gone /\ h.chips = c /\ h.bets = g.bets
        BY <2>1
  <2> HIDE DEF h
  <2>4. b \notin g.gone /\ g.gone \subseteq g.seated /\ g.seated \subseteq Bots
        BY <1>1, <1>5 DEF Calm, Games
  <2>5. Sitting(h) = Sitting(g) \union {b}
        BY <2>3, <2>4 DEF Sitting
  <2>6. \A d \in Bots : d \notin Sitting(h) => h.chips[d] = 0
        BY <2>2, <2>3, <2>5 DEF Calm
  <2>7. Calm(h)
        BY <1>3, <2>3, <2>4, <2>6 DEF Calm
  <2>8. Playable(h) \subseteq Playable(g) \union {b}
        BY <2>2, <2>3, <2>4 DEF Playable
  <2>9. \A d \in g.seated : h.chips[d] = g.chips[d]
        BY <1>5, <2>2, <2>3, <2>4
  <2>10. h.gone = g.gone \ {b}
        BY <2>3, <2>4
  <2>11. Joins(h, g, b)
        BY <2>3, <2>7, <2>8, <2>9, <2>10 DEF Joins
  <2> QED BY <2>11 DEF h
<1> QED BY <1>4, <1>5

LEMMA DrainedNothing ==
  ASSUME NEW g \in Games, g.loop # "none", g.pending = <<>>
  PROVE  Drained(g) = g
<1> DEFINE D == DOMAIN g.pending
           iter == CHOOSE f : f = [s \in SUBSET D |-> LastTurn(g, f, s)]
<1>1. iter = [s \in SUBSET D |-> LastTurn(g, iter, s)]
      BY DrainExists
<1>2. Drained(g) = iter[D]
      BY DEF Drained, FoldLeft, MapThenFoldSet, LastTurn, Applied
<1>3. D = {}
      OBVIOUS
<1> HIDE DEF iter
<1>4. iter[D] = LastTurn(g, iter, D)
      BY <1>1
<1>5. LastTurn(g, iter, D) = [g EXCEPT !.pending = <<>>]
      BY <1>3 DEF LastTurn
<1> DEFINE h == [g EXCEPT !.pending = <<>>]
<1>6. h = [seated |-> g.seated, gone |-> g.gone, chips |-> g.chips, bets |-> g.bets,
           loop |-> g.loop, pending |-> g.pending]
      BY DEF Games
<1>7. g = [seated |-> g.seated, gone |-> g.gone, chips |-> g.chips, bets |-> g.bets,
           loop |-> g.loop, pending |-> g.pending]
      BY DEF Games
<1>8. h = g
      BY <1>6, <1>7
<1> QED BY <1>2, <1>4, <1>5, <1>8

LEMMA PaidGame ==
  ASSUME NEW g \in Games, NEW stacks \in [Bots -> Nat]
  PROVE  LET p == Paid(g, stacks)
         IN  /\ p \in Games
             /\ p.seated = g.seated /\ p.gone = g.gone /\ p.chips = stacks /\ p.bets = None
             /\ p.pending = g.pending /\ p.loop = "running"
<1> DEFINE p == Paid(g, stacks)
<1>1. None \in [Bots -> Nat] /\ "running" \in Loops
      BY DEF None, Loops
<1>2. p \in Games
      BY <1>1 DEF Paid, Games
<1>3. /\ p.seated = g.seated /\ p.gone = g.gone /\ p.chips = stacks /\ p.bets = None
      /\ p.pending = g.pending /\ p.loop = "running"
      BY DEF Paid, Games
<1> QED BY <1>2, <1>3

\* A hand leaves the seats as they are; who does not play in it keeps its chips, and the
\* others share theirs.
LEMMA HandCalm ==
  ASSUME NEW g, Calm(g), g.loop = "running", NEW ps \in SUBSET Playable(g),
         Cardinality(ps) \in HandSizes, NEW h \in Outcomes(HandBegun(g, ps))
  PROVE  /\ Stays(h, g) /\ h.gone = g.gone /\ h.loop = "running"
         /\ SumFunction(h.chips) = SumFunction(g.chips)
<1> DEFINE k == HandBegun(g, ps)
           put(b) == IF b \notin ps THEN 0
                     ELSE Smaller(g.chips[b], Max({g.chips[c] : c \in ps \ {b}}))
           bets == [b \in Bots |-> put(b)]
           rest == [b \in Bots |-> g.chips[b] - put(b)]
<1>1. /\ g \in Games /\ GameOK(g) /\ g.chips \in [Bots -> Nat] /\ ps \subseteq Playable(g)
      /\ Playable(g) \subseteq Bots /\ g.pending = <<>>
      BY DEF Calm, GameOK, Games, Playable
<1>2. k \in Games /\ k.loop = "hand"
      BY <1>1, HandBegunFollows DEF Follows, GameOK
<1>3. k = [g EXCEPT !.chips = rest, !.bets = bets, !.loop = "hand"]
      BY DEF HandBegun
<1>4. \A b \in Bots : b \notin ps => bets[b] = 0 /\ rest[b] = g.chips[b]
      BY <1>1
<1>s. /\ rest \in [Bots -> Int] /\ bets \in [Bots -> Int]
      /\ \A b \in Bots : g.chips[b] = rest[b] + bets[b]
  <2>1. k.chips = rest /\ k.bets = bets
        BY <1>1, <1>3 DEF Games
  <2>2. \A b \in Bots : rest[b] \in Nat /\ bets[b] \in Nat /\ rest[b] = g.chips[b] - bets[b]
    <3>1. \A b \in Bots : rest[b] = g.chips[b] - bets[b]
          OBVIOUS
    <3>2. rest \in [Bots -> Nat] /\ bets \in [Bots -> Nat]
      <4> HIDE DEF rest, bets, k
      <4> QED BY <1>2, <2>1 DEF Games
    <3> HIDE DEF rest, bets
    <3> QED BY <3>1, <3>2
  <2>3. rest = [b \in Bots |-> rest[b]] /\ bets = [b \in Bots |-> bets[b]]
        OBVIOUS
  <2> HIDE DEF rest, bets
  <2>4. ASSUME NEW b \in Bots PROVE g.chips[b] = rest[b] + bets[b]
    <3>1. g.chips[b] \in Nat
          BY <1>1
    <3> QED BY <2>2, <3>1
  <2> QED BY <2>2, <2>3, <2>4
<1> HIDE DEF bets, rest
<1>5. k = [seated |-> g.seated, gone |-> g.gone, chips |-> rest, bets |-> bets,
           loop |-> "hand", pending |-> g.pending]
      BY <1>1, <1>3 DEF Games
<1>6. k.seated = g.seated /\ k.gone = g.gone /\ k.chips = rest /\ k.bets = bets
      /\ k.pending = <<>>
      BY <1>1, <1>5
<1> HIDE DEF k
<1>7. PICK stacks \in [Bots -> Nat] :
           /\ h = Drained(Paid(k, stacks))
           /\ \A b \in Bots : k.bets[b] = 0 => stacks[b] = k.chips[b]
           /\ SumFunction(stacks) = SumFunction(k.chips) + SumFunction(k.bets)
      BY <1>2, OutcomePaid DEF k
<1> DEFINE p == Paid(k, stacks)
<1>8. /\ p \in Games
      /\ p.seated = g.seated /\ p.gone = g.gone /\ p.chips = stacks /\ p.bets = None
      /\ p.pending = <<>> /\ p.loop = "running"
      BY <1>2, <1>6, PaidGame
<1> HIDE DEF p
<1>12. h = p
      BY <1>7, <1>8, DrainedNothing DEF p
<1>13. \A b \in Bots : b \notin ps => stacks[b] = g.chips[b]
      BY <1>4, <1>6, <1>7
<1>14. Sitting(p) = Sitting(g) /\ ps \subseteq Sitting(g)
      BY <1>1, <1>8 DEF Sitting, Playable
<1>15. Calm(p)
  <2>1. \A b \in Bots : b \notin Sitting(p) => stacks[b] = 0
        BY <1>13, <1>14 DEF Calm
  <2> QED BY <1>8, <2>1 DEF Calm
<1>16. Playable(p) \subseteq Playable(g)
  <2> SUFFICES ASSUME NEW b \in Playable(p) PROVE b \in Playable(g)
      OBVIOUS
  <2>1. b \in g.seated \ g.gone /\ stacks[b] > 0
        BY <1>8 DEF Playable
  <2>2. b \in Bots
        BY <2>1, <1>1 DEF Games
  <2>3. CASE b \in ps
        BY <1>1, <2>3
  <2>4. CASE b \notin ps
        BY <1>13, <2>1, <2>2, <2>4 DEF Playable
  <2> QED BY <2>3, <2>4
<1>17. ~(Cardinality(Playable(g)) < 2)
  <2>1. IsFiniteSet(Playable(g))
        BY <1>1, DirectorAssumption, FS_Subset
  <2>2. /\ Cardinality(Playable(g)) \in Nat /\ Cardinality(ps) \in Nat
        /\ Cardinality(ps) <= Cardinality(Playable(g))
        BY <2>1, FS_Subset, FS_CardinalityType
  <2>3. Cardinality(ps) # 0 /\ Cardinality(ps) # 1
        BY DirectorAssumption
  <2> QED BY <2>2, <2>3
<1>18. SumFunction(stacks) = SumFunction(g.chips)
  <2> DEFINE c == g.chips
  <2>1. /\ c \in [Bots -> Int] /\ IsFiniteSet(Bots)
        /\ \A b \in Bots : c[b] = rest[b] + bets[b]
        BY <1>1, <1>s, DirectorAssumption
  <2> HIDE DEF c
  <2>2. SumFunction(c) = SumFunction(rest) + SumFunction(bets)
        BY <1>s, <2>1, SumAdds
  <2> QED BY <1>6, <1>7, <2>2 DEF c
<1> QED BY <1>8, <1>12, <1>15, <1>16, <1>17, <1>18 DEF Stays, Shrinks
-----------------------------------------------------------------------------
(* Between two turns of the director *)

\* No hand is played, and a table that is not made yet is empty.
TablesCalm ==
  \A t \in TableIds : Calm(game[t]) /\ (t > made => game[t].seated = {})

\* The entries that handlers have still to record.
Waiting ==
  {e \in Busted : \E h \in DOMAIN busting : \E i \in DOMAIN busting[h].list :
                     i > busting[h].now /\ busting[h].list[i] = e}

\* A bot that waits to be recorded has no chips at its table; and when that table was
\* broken, it sits at no other, nor is on its way to one.
LeftBehind(e) == e.bot \in active /\ e.table \notin tables /\ e.bot \notin game[e.table].gone
EntryOK(e) ==
  /\ e.bot \in game[e.table].seated /\ game[e.table].chips[e.bot] = 0
  /\ dbStatus = "running" /\ LeftBehind(e) =>
       e.bot \notin OnTheWay /\ \A u \in tables : e.bot \notin Sitting(game[u])
ListedBroke == \A e \in Waiting : EntryOK(e)

NotYetSeated ==
  dbStatus = "running" => \A t \in TableIds : StillToSit \cap game[t].seated = {}

SeatsHeld == \A t \in TableIds : Size(t) <= SeatsPerTable

\* What was chosen when balancing began still fits when it goes on: all bots of a table
\* to break that can play, a bot that still sits at its table, a free seat, and tables
\* that are still there.
BreakFits == balancer.pc = "break" =>
  balancer.bots = Playable(game[balancer.from]) /\ Cardinality(balancer.bots) < 2
MoveFits == balancer.pc = "move" =>
  /\ balancer.bot \in game[balancer.from].seated
  /\ balancer.bot \in active => balancer.bot \in Sitting(game[balancer.from])
RoomLeft == balancer.pc \in {"move", "seat"} => Size(balancer.to) < SeatsPerTable
TablesThere == dbStatus = "running" =>
  /\ balancer.pc = "break" => /\ balancer.from \in tables
                              /\ balancer.others \subseteq tables \ {balancer.from}
  /\ balancer.pc \in {"seat", "seated"} => balancer.others \subseteq tables
  /\ balancer.pc \in {"move", "seat"} => balancer.to \in tables
  /\ balancer.pc = "move" => balancer.from \in tables
PlanFits == BreakFits /\ MoveFits /\ RoomLeft /\ TablesThere

Between == TablesCalm /\ ListedBroke /\ NotYetSeated /\ SeatsHeld /\ PlanFits

\* Games that lose bots and chips only, and of which none below two that can play.
AllStay(games) == /\ games = [t \in TableIds |-> games[t]]
                  /\ \A t \in TableIds : Stays(games[t], game[t])

LEMMA GamesStayCalm ==
  ASSUME Base, TablesCalm
  PROVE  AllStay(game)
BY StaysItself DEF AllStay, TablesCalm, Base, GamesOK

LEMMA OneStays ==
  ASSUME Base, TablesCalm, NEW t \in TableIds, NEW h, Stays(h, game[t])
  PROVE  AllStay([game EXCEPT ![t] = h])
<1> DEFINE games == [game EXCEPT ![t] = h]
<1>1. /\ games = [u \in TableIds |-> games[u]] /\ games[t] = h
      /\ \A u \in TableIds : u # t => games[u] = game[u]
      BY DEF Base, GamesOK
<1> HIDE DEF games
<1>2. \A u \in TableIds : Stays(games[u], game[u])
      BY <1>1, GamesStayCalm DEF AllStay
<1>3. AllStay(games)
      BY <1>1, <1>2 DEF AllStay
<1> QED BY <1>3 DEF games

\* A bust of a bot without chips leaves the others where they are.
LEMMA BustStays ==
  ASSUME Base, TablesCalm, NEW games, AllStay(games), NEW t \in TableIds,
         NEW b \in games[t].seated, games[t].chips[b] = 0, NEW after,
         after = [u \in TableIds |-> after[u]], after[t] = Removed(games[t], b),
         \A u \in TableIds : u # t => after[u] = games[u]
  PROVE  /\ AllStay(after)
         /\ b \notin Sitting(after[t])
         /\ \A u \in TableIds, c \in Bots :
              c # b /\ c \in Sitting(games[u]) => c \in Sitting(after[u])
<1> DEFINE g == games[t]
           h == Removed(games[t], b)
<1>1. Calm(g) /\ Stays(g, game[t])
      BY DEF AllStay, Stays, Shrinks
<1>2. Stays(h, g) /\ Sitting(h) = Sitting(g) \ {b}
      BY <1>1, RemovedCalm
<1> HIDE DEF h
<1>3. Stays(h, game[t])
      BY <1>1, <1>2, StaysOn
<1>4. /\ after = [u \in TableIds |-> after[u]] /\ after[t] = h
      /\ \A u \in TableIds : u # t => after[u] = games[u]
      BY DEF h
<1>5. \A u \in TableIds : Stays(after[u], game[u])
      BY <1>3, <1>4 DEF AllStay
<1>6. ASSUME NEW u \in TableIds, NEW c \in Bots, c # b, c \in Sitting(games[u])
      PROVE  c \in Sitting(after[u])
      BY <1>2, <1>4, <1>6
<1> QED BY <1>2, <1>4, <1>5, <1>6 DEF AllStay

LEMMA CalmStays ==
  ASSUME TablesCalm, AllStay(game'), made' = made
  PROVE  TablesCalm'
BY DEF TablesCalm, AllStay, Stays, Shrinks

LEMMA SizesStay ==
  ASSUME Base, AllStay(game'), NEW t \in TableIds
  PROVE  /\ Size(t) \in Nat /\ Cardinality(Playable(game'[t])) \in Nat
         /\ Cardinality(Playable(game'[t])) <= Size(t)
<1>1. Playable(game'[t]) \subseteq Playable(game[t])
      BY DEF AllStay, Stays, Shrinks
<1>2. IsFiniteSet(Playable(game[t])) /\ Size(t) \in Nat
      BY SizeIsNat DEF Base
<1> QED BY <1>1, <1>2, FS_Subset, FS_CardinalityType DEF Size

LEMMA SeatsStay ==
  ASSUME Base, SeatsHeld, AllStay(game')
  PROVE  SeatsHeld'
<1>1. SeatsPerTable \in Nat
      BY DirectorAssumption
<1>2. ASSUME NEW t \in TableIds PROVE Cardinality(Playable(game'[t])) <= SeatsPerTable
      BY <1>1, SizesStay DEF SeatsHeld
<1> QED BY <1>2 DEF SeatsHeld, Size

LEMMA UnseatedStay ==
  ASSUME NotYetSeated, AllStay(game'), made' = made, dbStatus' = "running" => dbStatus = "running"
  PROVE  NotYetSeated'
<1>1. StillToSit' = StillToSit
      BY DEF StillToSit
<1> QED BY <1>1 DEF NotYetSeated, AllStay, Stays, Shrinks

LEMMA EntryStays ==
  ASSUME Base, TablesCalm, AllStay(game'), UNCHANGED <<tables, dbStatus>>,
         active' \subseteq active, OnTheWay' \subseteq OnTheWay,
         NEW e \in Busted, EntryOK(e)
  PROVE  EntryOK(e)'
<1>1. /\ e.table \in TableIds /\ tables \subseteq TableIds
      BY RestParts DEF Base, Busted
<1>2. \A t \in TableIds : Calm(game[t]) /\ Shrinks(game'[t], game[t])
      BY DEF TablesCalm, AllStay, Stays
<1>3. e.bot \in game'[e.table].seated /\ game'[e.table].chips[e.bot] = 0
      BY <1>1, <1>2, BrokeStays DEF EntryOK
<1>4. LeftBehind(e)' => LeftBehind(e)
      BY <1>1, <1>2 DEF LeftBehind, Shrinks
<1>5. \A u \in tables : Sitting(game'[u]) \subseteq Sitting(game[u])
      BY <1>1, <1>2 DEF Sitting, Shrinks
<1> QED BY <1>3, <1>4, <1>5 DEF EntryOK

LEMMA WaitingStay ==
  ASSUME Base, TablesCalm, ListedBroke, AllStay(game'), UNCHANGED <<tables, dbStatus>>,
         active' \subseteq active, OnTheWay' \subseteq OnTheWay, Waiting' \subseteq Waiting
  PROVE  ListedBroke'
<1>1. \A e \in Waiting' : e \in Busted /\ EntryOK(e)
      BY DEF ListedBroke, Waiting
<1>2. ASSUME NEW e \in Waiting' PROVE EntryOK(e)'
      BY <1>1, <1>2, EntryStays
<1> QED BY <1>2 DEF ListedBroke

LEMMA SameWaiting ==
  ASSUME busting' = busting
  PROVE  Waiting' = Waiting
BY DEF Waiting

LEMMA PlanStays ==
  ASSUME Base, PlanFits, AllStay(game'), balancer' = balancer,
         dbStatus' = "running" => dbStatus = "running" /\ tables' = tables,
         active' \subseteq active,
         \A t \in TableIds, b \in active' : b \in Sitting(game[t]) => b \in Sitting(game'[t])
  PROVE  PlanFits'
<1>1. /\ balancer.pc \in {"break", "move"} => balancer.from \in TableIds
      /\ balancer.pc \in {"move", "seat"} => balancer.to \in TableIds
      BY BalancerParts DEF Base
<1>2. \A t \in TableIds : Stays(game'[t], game[t])
      BY DEF AllStay
<1>3. BreakFits'
  <2> SUFFICES ASSUME balancer.pc = "break"
               PROVE  /\ balancer.bots = Playable(game'[balancer.from])
                      /\ Cardinality(balancer.bots) < 2
      BY DEF BreakFits
  <2> QED BY <1>1, <1>2 DEF PlanFits, BreakFits, Stays
<1>4. MoveFits'
  <2> SUFFICES ASSUME balancer.pc = "move"
               PROVE  /\ balancer.bot \in game'[balancer.from].seated
                      /\ balancer.bot \in active' => balancer.bot \in Sitting(game'[balancer.from])
      BY DEF MoveFits
  <2> QED BY <1>1, <1>2 DEF PlanFits, MoveFits, Stays, Shrinks
<1>5. RoomLeft'
  <2> SUFFICES ASSUME balancer.pc \in {"move", "seat"}
               PROVE  Cardinality(Playable(game'[balancer.to])) < SeatsPerTable
      BY DEF RoomLeft, Size
  <2>1. SeatsPerTable \in Nat /\ Size(balancer.to) < SeatsPerTable
        BY DirectorAssumption DEF PlanFits, RoomLeft
  <2> QED BY <1>1, <2>1, SizesStay
<1>6. TablesThere'
      BY DEF PlanFits, TablesThere
<1> QED BY <1>3, <1>4, <1>5, <1>6 DEF PlanFits

LEMMA SameWay ==
  ASSUME balancer' = balancer
  PROVE  OnTheWay' = OnTheWay
BY DEF OnTheWay

LEMMA QuietStep ==
  ASSUME Base, Between, AllStay(game'), UNCHANGED <<made, tables, dbStatus, balancer>>,
         active' \subseteq active, Waiting' \subseteq Waiting,
         \A t \in TableIds, b \in active' : b \in Sitting(game[t]) => b \in Sitting(game'[t])
  PROVE  Between'
<1>1. TablesCalm' /\ SeatsHeld' /\ NotYetSeated' /\ PlanFits'
      BY CalmStays, SeatsStay, UnseatedStay, PlanStays DEF Between
<1>2. ListedBroke'
      BY WaitingStay, SameWay DEF Between
<1> QED BY <1>1, <1>2 DEF Between
\* The games of a table before and after its loop went on, or was stopped.
Waits(h, g) == Stays(h, g) /\ Playable(h) = Playable(g) /\ Sitting(h) = Sitting(g)
LoopsOnly(games) == /\ games = [t \in TableIds |-> games[t]]
                    /\ \A t \in TableIds : Waits(games[t], game[t])

LEMMA LoopWaits ==
  ASSUME NEW g, Calm(g), NEW l \in Loops, l # "hand"
  PROVE  Waits([g EXCEPT !.loop = l], g)
BY LoopCalm DEF Waits, Stays, Shrinks, Sitting

LEMMA WaitsItself ==
  ASSUME NEW g, Calm(g)
  PROVE  Waits(g, g)
BY StaysItself DEF Waits

LEMMA WaitsOn ==
  ASSUME NEW g, NEW h, NEW k, Waits(h, g), Waits(k, h)
  PROVE  Waits(k, g)
BY StaysOn DEF Waits

LEMMA LoopsStay ==
  ASSUME NEW games, LoopsOnly(games)
  PROVE  /\ AllStay(games)
         /\ \A t \in TableIds : /\ Playable(games[t]) = Playable(game[t])
                                /\ Sitting(games[t]) = Sitting(game[t])
BY DEF LoopsOnly, AllStay, Waits

LEMMA NoLoop ==
  ASSUME Base, TablesCalm
  PROVE  LoopsOnly(game)
BY WaitsItself DEF LoopsOnly, TablesCalm, Base, GamesOK

LEMMA OneLoop ==
  ASSUME Base, TablesCalm, NEW t \in TableIds, NEW h, Waits(h, game[t]),
         NEW games, games = [game EXCEPT ![t] = h]
  PROVE  LoopsOnly(games)
<1>1. /\ games = [u \in TableIds |-> games[u]] /\ games[t] = h
      /\ \A u \in TableIds : u # t => games[u] = game[u]
      BY DEF Base, GamesOK
<1>2. \A u \in TableIds : Waits(games[u], game[u])
      BY <1>1, NoLoop DEF LoopsOnly
<1> QED BY <1>1, <1>2 DEF LoopsOnly

LEMMA LoopsRestarted ==
  ASSUME Base, TablesCalm, NEW S
  PROVE  LoopsOnly(Restarted(S))
<1>1. ASSUME NEW t \in TableIds
      PROVE  Waits(Restarted(S)[t], game[t])
  <2>1. Calm(game[t])
        BY DEF TablesCalm
  <2>2. CASE t \in S /\ game[t].loop = "finished" /\ Size(t) >= 2
    <3>1. Restarted(S)[t] = [game[t] EXCEPT !.loop = "due"]
          BY <2>2 DEF Restarted
    <3>2. Waits([game[t] EXCEPT !.loop = "due"], game[t])
          BY <2>1, LoopWaits DEF Loops
    <3> QED BY <3>1, <3>2
  <2>3. CASE ~(t \in S /\ game[t].loop = "finished" /\ Size(t) >= 2)
    <3>1. Restarted(S)[t] = game[t]
          BY <2>3 DEF Restarted
    <3> QED BY <2>1, <3>1, WaitsItself
  <2> QED BY <2>2, <2>3
<1>2. Restarted(S) = [t \in TableIds |-> Restarted(S)[t]]
      BY DEF Restarted
<1> QED BY <1>1, <1>2 DEF LoopsOnly

LEMMA StoppedWaits ==
  ASSUME NEW g, Calm(g)
  PROVE  Waits([g EXCEPT !.loop = IF @ = "hand" THEN "hand" ELSE "none"], g)
<1> DEFINE l == IF g.loop = "hand" THEN "hand" ELSE "none"
<1>1. l \in Loops /\ l # "hand"
      BY DEF Calm, Loops
<1>2. Waits([g EXCEPT !.loop = l], g)
  <2> HIDE DEF l
  <2> QED BY <1>1, LoopWaits
<1> QED BY <1>2

LEMMA BalancingPlans ==
  ASSUME Base, NEW x, CheckTableBalancing(x)
  PROVE  \/ balancer' = balancer
         \/ \E t \in tables :
              /\ Size(t) < 2 /\ Size(t) <= SeatsOutside(t) /\ balancer.pc = "off"
              /\ balancer' = [pc |-> "break", ofHand |-> x, from |-> t,
                              bots |-> Playable(game[t]), others |-> tables \ {t}]
         \/ \E t, u \in tables : \E b \in Playable(game[t]) :
              /\ Size(u) + 1 < Size(t) /\ Size(u) >= 2 /\ balancer.pc = "off"
              /\ Cardinality(tables) > 1
              /\ balancer' = [pc |-> "move", ofHand |-> x, from |-> t, to |-> u, bot |-> b,
                              stack |-> game[t].chips[b]]
<1> DEFINE small == SmallestOf(tables)
           large == LargestOf(tables)
<1>0. RestOK /\ GamesOK /\ tables \subseteq TableIds
      BY RestParts DEF Base
<1>1. CASE /\ Cardinality(tables) > 1 /\ ~BalancingBusy
           /\ IF Size(small) < 2 THEN StartsBreaking(small, x)
              ELSE Unbalanced(small, large) /\ StartsMoving(large, small, x)
           /\ UNCHANGED <<running, bustOrder, paying>>
  <2>1. small \in tables /\ large \in tables
        BY <1>0, <1>1, BalancingTables
  <2>2. Size(small) \in Nat /\ Size(large) \in Nat
        BY <1>0, <2>1, SizeIsNat
  <2> HIDE DEF small, large
  <2>3. CASE Size(small) < 2
    <3>1. StartsBreaking(small, x) /\ balancer.pc = "off"
          BY <1>1, <2>3 DEF BalancingBusy
    <3> QED BY <2>1, <2>3, <3>1 DEF StartsBreaking
  <2>4. CASE ~(Size(small) < 2)
    <3>1. Unbalanced(small, large) /\ StartsMoving(large, small, x)
          BY <1>1, <2>4
    <3>2. Size(small) + 1 < Size(large) /\ Size(small) >= 2
          BY <2>2, <2>4, <3>1 DEF Unbalanced
    <3>3. balancer.pc = "off" /\ Cardinality(tables) > 1
          BY <1>1 DEF BalancingBusy
    <3> QED BY <2>1, <3>1, <3>2, <3>3 DEF StartsMoving
  <2> QED BY <2>3, <2>4
<1>2. CASE UNCHANGED balancer /\ HandlerEnds(x)
      BY <1>2
<1> HIDE DEF small, large
<1> QED BY <1>1, <1>2 DEF CheckTableBalancing, small, large

\* A handler that ends, or plans to break a table or to move a bot.
LEMMA PlanStarts ==
  ASSUME Base, Between, LoopsOnly(game'), UNCHANGED <<made, tables, dbStatus, active, busting>>,
         NEW x, balancer' = balancer \/ CheckTableBalancing(x)
  PROVE  Between'
<1>1. /\ AllStay(game') /\ Waiting' = Waiting
      /\ \A t \in TableIds : /\ Playable(game'[t]) = Playable(game[t])
                             /\ Sitting(game'[t]) = Sitting(game[t])
      BY LoopsStay, SameWaiting
<1>2. CASE balancer' = balancer
      BY <1>1, <1>2, QuietStep
<1>3. TablesCalm' /\ SeatsHeld' /\ NotYetSeated'
      BY <1>1, CalmStays, SeatsStay, UnseatedStay DEF Between
<1>4. tables \subseteq TableIds
      BY RestParts DEF Base
<1>5. ASSUME NEW t \in tables, Size(t) < 2,
             balancer' = [pc |-> "break", ofHand |-> x, from |-> t,
                          bots |-> Playable(game[t]), others |-> tables \ {t}]
      PROVE  Between'
  <2>1. /\ balancer'.pc = "break" /\ balancer'.from = t /\ balancer'.others = tables \ {t}
        /\ balancer'.bots = Playable(game[t])
        BY <1>5
  <2>2. OnTheWay' = {}
        BY <2>1 DEF OnTheWay
  <2>3. ListedBroke'
        BY <1>1, <2>2, WaitingStay DEF Between
  <2>4. BreakFits'
        BY <1>1, <1>4, <1>5, <2>1 DEF BreakFits, Size
  <2>5. MoveFits' /\ RoomLeft' /\ TablesThere'
        BY <2>1 DEF MoveFits, RoomLeft, TablesThere
  <2> QED BY <1>3, <2>3, <2>4, <2>5 DEF Between, PlanFits
<1>6. ASSUME NEW t \in tables, NEW u \in tables, NEW b \in Playable(game[t]),
             Size(u) + 1 < Size(t),
             balancer' = [pc |-> "move", ofHand |-> x, from |-> t, to |-> u, bot |-> b,
                          stack |-> game[t].chips[b]]
      PROVE  Between'
  <2>1. /\ balancer'.pc = "move" /\ balancer'.from = t /\ balancer'.to = u
        /\ balancer'.bot = b
        BY <1>6
  <2>2. OnTheWay' = {}
        BY <2>1 DEF OnTheWay
  <2>3. ListedBroke'
        BY <1>1, <2>2, WaitingStay DEF Between
  <2>4. MoveFits'
    <3>1. b \in Sitting(game'[t]) /\ b \in game'[t].seated
          BY <1>1, <1>4 DEF Playable, Sitting
    <3> QED BY <2>1, <3>1 DEF MoveFits
  <2>5. RoomLeft'
    <3>1. Size(t) <= SeatsPerTable /\ Size(t) \in Nat /\ Size(u) \in Nat /\ SeatsPerTable \in Nat
          BY <1>4, SizeIsNat, DirectorAssumption DEF Base, Between, SeatsHeld
    <3>2. Cardinality(Playable(game'[u])) = Size(u)
          BY <1>1, <1>4 DEF Size
    <3>3. Cardinality(Playable(game'[u])) < SeatsPerTable
          BY <1>6, <3>1, <3>2
    <3> QED BY <2>1, <3>3 DEF RoomLeft, Size
  <2>6. BreakFits' /\ TablesThere'
        BY <2>1 DEF BreakFits, TablesThere
  <2> QED BY <1>3, <2>3, <2>4, <2>5, <2>6 DEF Between, PlanFits
<1> QED BY <1>2, <1>5, <1>6, BalancingPlans

LEMMA MoverPlans ==
  ASSUME Base, NextMover, balancer.pc \in {"break", "seated"}
  PROVE  \/ balancer' = Idle
         \/ \E b \in balancer.bots, u \in balancer.others :
              /\ Size(u) < SeatsPerTable
              /\ balancer' = [pc |-> "seat", ofHand |-> balancer.ofHand, from |-> balancer.from,
                              to |-> u, bot |-> b, bots |-> balancer.bots \ {b},
                              others |-> balancer.others]
<1>1. \A u \in Targets(balancer.others) : u \in balancer.others /\ FreeSeats(u) > 0
      BY DEF Targets
<1>2. ASSUME NEW u, FreeSeats(u) > 0 PROVE Size(u) < SeatsPerTable
      BY <1>2 DEF FreeSeats
<1> QED BY <1>1, <1>2 DEF NextMover

\* A table is broken, or a bot of a broken table was seated: the next one follows.
LEMMA MoverBetween ==
  ASSUME Base, Apart, Between, LoopsOnly(game'), UNCHANGED <<made, dbStatus, active, busting>>,
         NextMover,
         \/ balancer.pc = "break" /\ tables' = tables \ {balancer.from}
         \/ balancer.pc = "seated" /\ tables' = tables
  PROVE  Between'
<1>1. /\ AllStay(game') /\ Waiting' = Waiting
      /\ \A t \in TableIds : /\ Playable(game'[t]) = Playable(game[t])
                             /\ Sitting(game'[t]) = Sitting(game[t])
      BY LoopsStay, SameWaiting
<1>2. TablesCalm' /\ SeatsHeld' /\ NotYetSeated'
      BY <1>1, CalmStays, SeatsStay, UnseatedStay DEF Between
<1>3. /\ tables \subseteq TableIds /\ tables' \subseteq tables /\ balancer.from \in TableIds
      /\ balancer.others \subseteq TableIds /\ balancer.pc \in {"break", "seated"}
  <2>1. balancer.from \in TableIds /\ balancer.others \subseteq 1 .. made
        BY BalancerParts DEF Base
  <2>2. 1 .. made \subseteq TableIds /\ tables \subseteq TableIds
        BY RestParts DEF Base, TableIds
  <2> QED BY <2>1, <2>2
<1>4. PlanFits' /\ OnTheWay' \subseteq balancer.bots
  <2>1. CASE balancer' = Idle
    <3>1. balancer'.pc = "off"
          BY <2>1 DEF Idle
    <3> QED BY <3>1 DEF PlanFits, BreakFits, MoveFits, RoomLeft, TablesThere, OnTheWay
  <2>2. ASSUME NEW b \in balancer.bots, NEW u \in balancer.others, Size(u) < SeatsPerTable,
               balancer' = [pc |-> "seat", ofHand |-> balancer.ofHand, from |-> balancer.from,
                            to |-> u, bot |-> b, bots |-> balancer.bots \ {b},
                            others |-> balancer.others]
        PROVE  PlanFits' /\ OnTheWay' \subseteq balancer.bots
    <3>1. /\ balancer'.pc = "seat" /\ balancer'.to = u /\ balancer'.bot = b
          /\ balancer'.bots = balancer.bots \ {b} /\ balancer'.others = balancer.others
          BY <2>2
    <3>2. OnTheWay' \subseteq balancer.bots
          BY <3>1 DEF OnTheWay
    <3>3. Cardinality(Playable(game'[u])) < SeatsPerTable
          BY <1>1, <1>3, <2>2 DEF Size
    <3>4. RoomLeft'
          BY <3>1, <3>3 DEF RoomLeft, Size
    <3>5. TablesThere'
          BY <3>1 DEF Between, PlanFits, TablesThere
    <3>6. BreakFits' /\ MoveFits'
          BY <3>1 DEF BreakFits, MoveFits
    <3> QED BY <3>2, <3>4, <3>5, <3>6 DEF PlanFits
  <2> QED BY <1>3, <2>1, <2>2, MoverPlans
<1>5. ASSUME NEW e \in Waiting PROVE EntryOK(e)'
  <2>1. e \in Busted /\ EntryOK(e) /\ e.table \in TableIds
        BY DEF Between, ListedBroke, Waiting, Busted
  <2>2. \A t \in TableIds : /\ Calm(game[t]) /\ Shrinks(game'[t], game[t]) /\ Calm(game'[t])
                            /\ game'[t].seated = game[t].seated
        BY <1>1 DEF Between, TablesCalm, AllStay, Stays, Shrinks
  <2>3. e.bot \in game'[e.table].seated /\ game'[e.table].chips[e.bot] = 0
        BY <2>1, <2>2, BrokeStays DEF EntryOK
  <2>4. ASSUME dbStatus = "running", e.bot \in active, e.table \notin tables',
               e.bot \notin game'[e.table].gone
        PROVE  e.bot \notin OnTheWay' /\ \A u \in tables' : e.bot \notin Sitting(game'[u])
    <3>1. e.bot \in Sitting(game[e.table])
          BY <1>1, <2>1, <2>3, <2>4 DEF Sitting
    <3>2. e.bot \notin game[e.table].gone
          BY <3>1 DEF Sitting
    <3>3. CASE e.table \in tables
      <4>1. balancer.pc = "break" /\ e.table = balancer.from /\ tables' = tables \ {e.table}
            BY <2>4, <3>3
      <4>2. balancer.bots = Playable(game[e.table])
            BY <4>1 DEF Between, PlanFits, BreakFits
      <4>3. e.bot \notin balancer.bots
            BY <2>1, <4>2 DEF EntryOK, Playable
      <4>4. \A u \in tables' : e.bot \notin Sitting(game[u])
            BY <2>4, <3>1, <3>3, <4>1 DEF Apart, TablesApart, Held
      <4> QED BY <1>1, <1>3, <1>4, <4>3, <4>4
    <3>4. CASE e.table \notin tables
      <4>1. e.bot \notin OnTheWay /\ \A u \in tables : e.bot \notin Sitting(game[u])
            BY <2>1, <2>4, <3>2, <3>4 DEF EntryOK, LeftBehind
      <4>2. e.bot \notin balancer.bots
        <5>1. CASE balancer.pc = "seated"
              BY <4>1, <5>1 DEF OnTheWay
        <5>2. CASE balancer.pc = "break"
          <6>1. balancer.from \in tables /\ balancer.bots = Playable(game[balancer.from])
                BY <2>4, <5>2 DEF Between, PlanFits, TablesThere, BreakFits
          <6> QED BY <4>1, <6>1 DEF Playable, Sitting
        <5> QED BY <1>3, <5>1, <5>2
      <4> QED BY <1>1, <1>3, <1>4, <4>1, <4>2
    <3> QED BY <3>3, <3>4
  <2> QED BY <2>3, <2>4 DEF EntryOK, LeftBehind
<1>6. ListedBroke'
      BY <1>1, <1>5 DEF ListedBroke
<1> QED BY <1>2, <1>4, <1>6 DEF Between
\* A bot comes to a table, from another one or from its way.
LEMMA JoinBetween ==
  ASSUME Base, Between, UNCHANGED <<made, tables, dbStatus, active, busting>>,
         game' = [t \in TableIds |-> game'[t]],
         NEW u \in TableIds, u <= made, NEW b \in Bots, Joins(game'[u], game[u], b),
         \A t \in TableIds : t # u => Shrinks(game'[t], game[t]),
         Size(u) < SeatsPerTable, OnTheWay' \subseteq OnTheWay,
         dbStatus = "running" => u \in tables /\ b \notin StillToSit,
         \A e \in Waiting : dbStatus = "running" /\ LeftBehind(e) => e.bot # b
  PROVE  TablesCalm' /\ ListedBroke' /\ NotYetSeated' /\ SeatsHeld'
<1>1. /\ tables \subseteq TableIds /\ made \in Nat /\ SeatsPerTable \in Nat
      /\ \A t \in TableIds : Calm(game[t])
      BY RestParts, DirectorAssumption DEF Base, Between, TablesCalm
<1>2. TablesCalm'
  <2>1. \A t \in TableIds : Calm(game'[t])
        BY DEF Shrinks, Joins
  <2>2. \A t \in TableIds : t > made => t # u
        BY <1>1 DEF TableIds
  <2>3. \A t \in TableIds : t > made => game'[t].seated = {}
        BY <2>2 DEF Between, TablesCalm, Shrinks
  <2> QED BY <2>1, <2>3 DEF TablesCalm
<1>3. ASSUME NEW t \in TableIds PROVE Cardinality(Playable(game'[t])) <= SeatsPerTable
  <2>1. /\ IsFiniteSet(Playable(game[t])) /\ Size(t) \in Nat /\ Size(t) <= SeatsPerTable
        BY SizeIsNat DEF Base, Between, SeatsHeld
  <2>2. CASE t # u
    <3>1. Playable(game'[t]) \subseteq Playable(game[t])
          BY <2>2 DEF Shrinks
    <3>2. /\ Cardinality(Playable(game'[t])) <= Size(t)
          /\ Cardinality(Playable(game'[t])) \in Nat
          BY <2>1, <3>1, FS_Subset, FS_CardinalityType DEF Size
    <3> QED BY <1>1, <2>1, <3>2
  <2>3. CASE t = u
    <3> DEFINE P == Playable(game[t]) \union {b}
    <3>1. /\ IsFiniteSet(P) /\ Cardinality(P) \in Nat
          /\ Cardinality(P) = Size(t) \/ Cardinality(P) = Size(t) + 1
          BY <2>1, FS_AddElement, FS_CardinalityType DEF Size
    <3>2. Playable(game'[t]) \subseteq P
          BY <2>3 DEF Joins
    <3> HIDE DEF P
    <3>3. /\ Cardinality(Playable(game'[t])) \in Nat
          /\ Cardinality(Playable(game'[t])) <= Cardinality(P)
          BY <3>1, <3>2, FS_Subset, FS_CardinalityType
    <3> QED BY <1>1, <2>1, <2>3, <3>1, <3>3
  <2> QED BY <2>2, <2>3
<1>4. SeatsHeld'
      BY <1>3 DEF SeatsHeld, Size
<1>5. NotYetSeated'
  <2>1. StillToSit' = StillToSit
        BY DEF StillToSit
  <2> QED BY <2>1 DEF Between, NotYetSeated, Shrinks, Joins
<1>6. ASSUME NEW e \in Waiting PROVE EntryOK(e)'
  <2>1. e \in Busted /\ EntryOK(e) /\ e.table \in TableIds
        BY DEF Between, ListedBroke, Waiting, Busted
  <2>2. e.bot \in game'[e.table].seated /\ game'[e.table].chips[e.bot] = 0
    <3>1. CASE e.table = u
          BY <2>1, <3>1 DEF EntryOK, Joins
    <3>2. CASE e.table # u
          BY <1>1, <2>1, <3>2, BrokeStays DEF EntryOK
    <3> QED BY <3>1, <3>2
  <2>3. ASSUME dbStatus = "running", LeftBehind(e)'
        PROVE  e.bot \notin OnTheWay' /\ \A v \in tables : e.bot \notin Sitting(game'[v])
    <3>1. u \in tables /\ e.table # u
          BY <2>3 DEF LeftBehind
    <3>2. LeftBehind(e)
          BY <2>1, <2>3, <3>1 DEF LeftBehind, Shrinks
    <3>3. e.bot \notin OnTheWay /\ (\A v \in tables : e.bot \notin Sitting(game[v])) /\ e.bot # b
          BY <2>1, <2>3, <3>2 DEF EntryOK
    <3>4. ASSUME NEW v \in tables PROVE e.bot \notin Sitting(game'[v])
      <4>1. CASE v = u
            BY <3>3, <4>1 DEF Joins, Sitting
      <4>2. CASE v # u
            BY <1>1, <3>3, <4>2 DEF Shrinks, Sitting
      <4> QED BY <4>1, <4>2
    <3> QED BY <3>3, <3>4
  <2> QED BY <2>2, <2>3 DEF EntryOK
<1>7. Waiting' = Waiting
      BY SameWaiting
<1>8. ListedBroke'
      BY <1>6, <1>7 DEF ListedBroke
<1> QED BY <1>2, <1>4, <1>5, <1>8

LEMMA MovePlayerBetween ==
  ASSUME Base, Apart, Between, MovePlayer
  PROVE  Between'
<1> DEFINE f == balancer.from
           u == balancer.to
           b == balancer.bot
<1>1. /\ balancer.pc = "move" /\ balancer'.pc = "store"
      /\ f \in TableIds /\ u \in TableIds /\ f # u /\ u <= made /\ b \in Bots
      /\ balancer.stack \in Nat
      /\ game'[f] = Removed(game[f], b)
      /\ game'[u] = Added(game[u], b, balancer.stack)
      /\ \A t \in TableIds : t \notin {f, u} => game'[t] = game[t]
      /\ game' = [t \in TableIds |-> game'[t]]
      BY MovePlayerGames
<1>2. UNCHANGED <<made, tables, dbStatus, active, busting>>
      BY DEF MovePlayer, database, handlers
<1>3. \A t \in TableIds : Calm(game[t])
      BY DEF Between, TablesCalm
<1>4. b \in game[f].seated /\ (b \in active => b \in Sitting(game[f]))
      BY <1>1 DEF Between, PlanFits, MoveFits
<1>5. Joins(game'[u], game[u], b)
      BY <1>1, <1>3, AddedCalm
<1>6. \A t \in TableIds : t # u => Shrinks(game'[t], game[t])
      BY <1>1, <1>3, <1>4, RemovedCalm, StaysItself DEF Stays
<1>7. Size(u) < SeatsPerTable
      BY <1>1 DEF Between, PlanFits, RoomLeft
<1>8. OnTheWay' = {}
      BY <1>1 DEF OnTheWay
<1>9. dbStatus = "running" => u \in tables /\ f \in tables
      BY <1>1 DEF Between, PlanFits, TablesThere
<1>10. dbStatus = "running" => b \notin StillToSit
  <2>1. Planned = {b}
        BY <1>1 DEF Planned
  <2> QED BY <2>1 DEF Apart, WayApart
<1>11. ASSUME NEW e \in Waiting, dbStatus = "running", LeftBehind(e)
       PROVE  e.bot # b
  <2>1. EntryOK(e)
        BY DEF Between, ListedBroke
  <2>2. e.bot \in active /\ e.bot \notin Sitting(game[f])
        BY <1>9, <1>11, <2>1 DEF EntryOK, LeftBehind
  <2> QED BY <1>4, <2>2
<1> HIDE DEF f, u, b
<1>12. TablesCalm' /\ ListedBroke' /\ NotYetSeated' /\ SeatsHeld'
      BY <1>1, <1>2, <1>5, <1>6, <1>7, <1>8, <1>9, <1>10, <1>11, JoinBetween
<1>13. PlanFits'
      BY <1>1 DEF PlanFits, BreakFits, MoveFits, RoomLeft, TablesThere
<1> QED BY <1>12, <1>13 DEF Between

LEMMA SeatMoverBetween ==
  ASSUME Base, Apart, Between, SeatMover
  PROVE  Between'
<1> DEFINE f == balancer.from
           u == balancer.to
           b == balancer.bot
           h == Added(game[u], b, game[f].chips[b])
<1>1. /\ balancer.pc = "seat" /\ balancer'.pc = "seated" /\ balancer'.bots = balancer.bots
      /\ u \in TableIds /\ u <= made /\ b \in Bots /\ balancer \in Seats(made)
      /\ \A t \in TableIds : t # u => game'[t] = game[t]
      /\ game' = [t \in TableIds |-> game'[t]]
      BY SeatMoverGames
<1>2. UNCHANGED <<made, tables, dbStatus, active, busting>>
      BY DEF SeatMover, database, handlers
<1>3. \A t \in TableIds : Calm(game[t])
      BY DEF Between, TablesCalm
<1>4. game'[u] = h
  <2> HIDE DEF h
  <2>1. game' = [game EXCEPT ![u] = h]
        BY DEF SeatMover, h
  <2> QED BY <1>1, <2>1 DEF Base, GamesOK
<1>5. game[f].chips[b] \in Nat
  <2>1. f \in TableIds
        BY <1>1, BalancerParts DEF Base
  <2> QED BY <1>1, <1>3, <2>1 DEF Calm, Games
<1>6. Joins(game'[u], game[u], b)
      BY <1>1, <1>3, <1>4, <1>5, AddedCalm
<1>7. \A t \in TableIds : t # u => Shrinks(game'[t], game[t])
      BY <1>1, <1>3, StaysItself DEF Stays
<1>8. Size(u) < SeatsPerTable
      BY <1>1 DEF Between, PlanFits, RoomLeft
<1>9. OnTheWay' \subseteq OnTheWay /\ b \in OnTheWay
      BY <1>1 DEF OnTheWay
<1>10. dbStatus = "running" => u \in tables /\ b \notin StillToSit
      BY <1>1, <1>9 DEF Between, PlanFits, TablesThere, Apart, WayApart
<1>11. ASSUME NEW e \in Waiting, dbStatus = "running", LeftBehind(e)
       PROVE  e.bot # b
      BY <1>9, <1>11 DEF Between, ListedBroke, EntryOK
<1>12. balancer'.others = balancer.others
      BY <1>1 DEF SeatMover, Seats
<1> HIDE DEF f, u, b, h
<1>13. TablesCalm' /\ ListedBroke' /\ NotYetSeated' /\ SeatsHeld'
      BY <1>1, <1>2, <1>6, <1>7, <1>8, <1>9, <1>10, <1>11, JoinBetween
<1>14. PlanFits'
      BY <1>1, <1>2, <1>12 DEF Between, PlanFits, BreakFits, MoveFits, RoomLeft, TablesThere
<1> QED BY <1>13, <1>14 DEF Between

LEMMA CreatedCalm ==
  ASSUME Base, TablesCalm, CreateTable
  PROVE  LET n == made + 1
         IN  /\ Calm(game'[n]) /\ game'[n].seated = Seating[n] /\ n > made
             /\ Cardinality(Playable(game'[n])) <= SeatsPerTable
<1> DEFINE n == made + 1
           g == game[n]
           l == IF Cardinality(Seating[n]) > 1 THEN "due" ELSE "none"
           c == [b \in Bots |-> IF b \in Seating[n] THEN StartingChips ELSE 0]
           h == [g EXCEPT !.seated = Seating[n], !.loop = l, !.chips = c]
<1>1. n \in TableIds /\ made \in Nat /\ Len(Seating) \in Nat
      BY CreatedSeats, RestParts DEF Base
<1>2. game' = [game EXCEPT ![n] = h]
      BY DEF CreateTable
<1>3. n > made /\ n \in DOMAIN Seating
      BY <1>1, DirectorAssumption DEF TableIds
<1>4. Calm(g) /\ g.seated = {}
      BY <1>1, <1>3 DEF TablesCalm
<1>5. g \in Games /\ g.gone = {} /\ g.pending = <<>> /\ g.bets = None
      BY <1>4 DEF Calm
<1>6. Seating[n] \in SUBSET Bots
      BY <1>3, DirectorAssumption
<1>7. c \in [Bots -> Nat] /\ \A b \in Bots : b \notin Seating[n] => c[b] = 0
      BY DirectorAssumption
<1>8. l \in Loops /\ l # "hand"
      BY DEF Loops
<1> HIDE DEF n, g, l, c
<1>9. h \in Games
      BY <1>5, <1>6, <1>7, <1>8 DEF Games
<1>10. /\ h.seated = Seating[n] /\ h.gone = {} /\ h.chips = c /\ h.loop = l
       /\ h.pending = <<>> /\ h.bets = None
      BY <1>5 DEF Games
<1> HIDE DEF h
<1>11. game'[n] = h
      BY <1>1, <1>2 DEF Base, GamesOK
<1>12. Sitting(h) = Seating[n]
      BY <1>10 DEF Sitting
<1>13. Calm(h)
      BY <1>7, <1>8, <1>9, <1>10, <1>12 DEF Calm
<1>14. Cardinality(Playable(h)) <= SeatsPerTable
  <2>1. IsFiniteSet(Seating[n]) /\ Playable(h) \subseteq Seating[n]
        BY <1>6, <1>10, DirectorAssumption, FS_Subset DEF Playable
  <2>2. /\ Cardinality(Playable(h)) \in Nat /\ Cardinality(Seating[n]) \in Nat
        /\ Cardinality(Playable(h)) <= Cardinality(Seating[n])
        BY <2>1, FS_Subset, FS_CardinalityType
  <2>3. Cardinality(Seating[n]) <= SeatsPerTable /\ SeatsPerTable \in Nat
        BY <1>3, SeatingAssumption, DirectorAssumption
  <2> QED BY <2>2, <2>3
<1> QED BY <1>3, <1>10, <1>11, <1>13, <1>14 DEF n

LEMMA CreateTableBetween ==
  ASSUME Base, Between, CreateTable
  PROVE  Between'
<1> DEFINE n == made + 1
<1>1. /\ n \in TableIds /\ made' = n /\ tables' = tables \union {n}
      /\ game' = [game EXCEPT ![n] = game'[n]]
      BY CreatedSeats
<1>2. /\ Calm(game'[n]) /\ game'[n].seated = Seating[n] /\ n > made
      /\ Cardinality(Playable(game'[n])) <= SeatsPerTable
      BY CreatedCalm DEF Between
<1>3. /\ tables \subseteq TableIds /\ tables \subseteq 1 .. made /\ made \in Nat
      /\ UNCHANGED <<active, busting, balancer, dbStatus>>
      BY RestParts DEF Base, CreateTable, database, handlers
<1>4. /\ balancer.pc \in {"break", "move"} => balancer.from \in TableIds /\ balancer.from <= made
      /\ balancer.pc \in {"move", "seat"} => balancer.to \in TableIds /\ balancer.to <= made
  <2>1. /\ balancer.pc \in {"break", "move"} => balancer.from \in 1 .. made
        /\ balancer.pc \in {"move", "seat"} => balancer.to \in 1 .. made
        BY BalancerParts DEF Base
  <2>2. \A t \in 1 .. made : t \in TableIds /\ t <= made
        BY RestParts DEF Base, TableIds
  <2> QED BY <2>1, <2>2
<1>5. \A t \in TableIds : t <= made => t # n
      BY <1>3 DEF TableIds
<1>6. \A t \in TableIds : t > n => t > made
      BY <1>3 DEF TableIds
<1>7. StillToSit = Seating[n] \union StillToSit' /\ Seating[n] \cap StillToSit' = {}
      BY NextToSit
<1> HIDE DEF n
<1>8. \A t \in TableIds : t # n => game'[t] = game[t]
      BY <1>1, <1>3 DEF Base, GamesOK
<1>9. TablesCalm'
  <2>1. \A t \in TableIds : t > n => t # n /\ t > made
        BY <1>1, <1>6 DEF TableIds
  <2>2. \A t \in TableIds : t > n => game'[t].seated = {}
        BY <1>8, <2>1 DEF Between, TablesCalm
  <2>3. \A t \in TableIds : Calm(game'[t])
        BY <1>2, <1>8 DEF Between, TablesCalm
  <2> QED BY <1>1, <2>2, <2>3 DEF TablesCalm
<1>10. SeatsHeld'
      BY <1>2, <1>8 DEF Between, SeatsHeld, Size
<1>11. NotYetSeated'
  <2> SUFFICES ASSUME dbStatus = "running", NEW t \in TableIds
               PROVE  StillToSit' \cap game'[t].seated = {}
      BY <1>3 DEF NotYetSeated
  <2>1. CASE t = n
        BY <1>2, <1>7, <2>1
  <2>2. CASE t # n
        BY <1>7, <1>8, <2>2 DEF Between, NotYetSeated
  <2> QED BY <2>1, <2>2
<1>12. OnTheWay' = OnTheWay /\ Waiting' = Waiting
      BY <1>3, SameWay, SameWaiting
<1>13. ASSUME NEW e \in Waiting PROVE EntryOK(e)'
  <2>1. e \in Busted /\ EntryOK(e) /\ e.table \in TableIds
        BY DEF Between, ListedBroke, Waiting, Busted
  <2>2. e.table # n
    <3>1. game[n].seated = {}
          BY <1>1, <1>2 DEF Between, TablesCalm
    <3> QED BY <2>1, <3>1 DEF EntryOK
  <2>3. game'[e.table] = game[e.table]
        BY <1>8, <2>1, <2>2
  <2>4. ASSUME dbStatus = "running", LeftBehind(e)'
        PROVE  e.bot \notin OnTheWay' /\ \A v \in tables' : e.bot \notin Sitting(game'[v])
    <3>1. LeftBehind(e)
          BY <1>1, <1>3, <2>3, <2>4 DEF LeftBehind
    <3>2. e.bot \notin OnTheWay /\ \A v \in tables : e.bot \notin Sitting(game[v])
          BY <2>1, <2>4, <3>1 DEF EntryOK
    <3>3. e.bot \notin Seating[n]
          BY <1>7, <2>1, <2>4 DEF EntryOK, Between, NotYetSeated
    <3>4. e.bot \notin Sitting(game'[n])
          BY <1>2, <3>3 DEF Sitting
    <3>5. \A v \in tables : v \in TableIds /\ (v # n => game'[v] = game[v])
          BY <1>3, <1>8
    <3> QED BY <1>1, <1>12, <3>2, <3>4, <3>5
  <2> QED BY <1>3, <2>1, <2>3, <2>4 DEF EntryOK
<1>14. ListedBroke'
      BY <1>12, <1>13 DEF ListedBroke
<1>15. PlanFits'
  <2>1. BreakFits' /\ MoveFits'
        BY <1>3, <1>4, <1>5, <1>8 DEF Between, PlanFits, BreakFits, MoveFits
  <2>2. RoomLeft'
        BY <1>3, <1>4, <1>5, <1>8 DEF Between, PlanFits, RoomLeft, Size
  <2>3. TablesThere'
        BY <1>1, <1>3 DEF Between, PlanFits, TablesThere
  <2> QED BY <2>1, <2>2, <2>3 DEF PlanFits
<1> QED BY <1>9, <1>10, <1>11, <1>14, <1>15 DEF Between
\* A handler stores what it has: then the next of its entries is recorded, or none is left.
LEMMA NextBustWaiting ==
  ASSUME Base, NEW h \in DOMAIN busting, NextBust(h)
  PROVE  /\ Waiting' \subseteq Waiting
         /\ busting[h].list[busting[h].now + 1] \in Waiting
<1>1. /\ busting[h].list \in Seq(Busted) /\ busting[h].now \in Nat
      /\ DOMAIN busting[h].list = 1 .. Len(busting[h].list) /\ Len(busting[h].list) \in Nat
      BY HandlerParts DEF Base
<1> DEFINE n == busting[h].now + 1
<1>2. /\ n \in DOMAIN busting[h].list /\ n > busting[h].now
      BY <1>1 DEF NextBust
<1>3. busting' = [busting EXCEPT ![h].now = n]
      BY DEF NextBust
<1>4. busting \in Seq(Handler)
      BY DEF Base, RestOK, HandlersOK
<1>5. /\ DOMAIN busting' = DOMAIN busting
      /\ \A k \in DOMAIN busting : busting'[k].list = busting[k].list
                                  /\ (k # h => busting'[k].now = busting[k].now)
      /\ busting'[h].now = n
  <2>1. busting[h] \in Handler
        BY <1>4
  <2> HIDE DEF n
  <2> QED BY <1>3, <1>4, <2>1 DEF Handler
<1>6. busting[h].list[n] \in Waiting
  <2>1. busting[h].list[n] \in Busted
        BY <1>1, <1>2
  <2> HIDE DEF n
  <2> QED BY <1>2, <2>1 DEF Waiting
<1>7. ASSUME NEW e \in Waiting' PROVE e \in Waiting
  <2>1. PICK k \in DOMAIN busting' : \E i \in DOMAIN busting'[k].list :
                                        i > busting'[k].now /\ busting'[k].list[i] = e
        BY <1>7 DEF Waiting
  <2>2. PICK i \in DOMAIN busting'[k].list : i > busting'[k].now /\ busting'[k].list[i] = e
        BY <2>1
  <2>3. e \in Busted /\ k \in DOMAIN busting /\ i \in DOMAIN busting[k].list
        /\ busting[k].list[i] = e
        BY <1>5, <1>7, <2>2 DEF Waiting
  <2>4. i > busting[k].now
    <3>1. CASE k = h
      <4>1. i \in Nat /\ i > busting[h].now + 1
            BY <1>1, <1>5, <2>2, <2>3, <3>1
      <4> QED BY <1>1, <3>1, <4>1
    <3>2. CASE k # h
          BY <1>5, <2>2, <2>3, <3>2
    <3> QED BY <3>1, <3>2
  <2> QED BY <2>3, <2>4 DEF Waiting
<1> QED BY <1>6, <1>7

LEMMA LastBustWaiting ==
  ASSUME Base, NEW h \in DOMAIN busting, LastBust(h)
  PROVE  Waiting' \subseteq Waiting
<1>1. busting \in Seq(Handler) /\ busting' = RemoveAt(busting, h)
      BY DEF Base, RestOK, HandlersOK, LastBust
<1>2. \A k \in DOMAIN busting' : \E j \in DOMAIN busting : busting'[k] = busting[j]
      BY <1>1, OthersRemain
<1> QED BY <1>2 DEF Waiting

LEMMA BustStoredBetween ==
  ASSUME Base, Between, NEW h \in DOMAIN busting, BustStored(h)
  PROVE  Between' /\ AllStay(game')
<1>1. UNCHANGED <<made, tables, dbStatus, balancer>>
      BY DEF BustStored
<1>2. CASE NextBust(h)
  <2> DEFINE e == busting[h].list[busting[h].now + 1]
  <2>1. Waiting' \subseteq Waiting /\ e \in Waiting
        BY <1>2, NextBustWaiting
  <2>2. /\ active' = active \ {e.bot}
        /\ game' = [game EXCEPT ![e.table] = Removed(game[e.table], e.bot)]
        BY <1>2 DEF NextBust, Busts, OutOfActive
  <2> HIDE DEF e
  <2>3. e.table \in TableIds /\ EntryOK(e) /\ active \subseteq Bots
        BY <2>1 DEF Between, ListedBroke, Waiting, Busted, Base, RestOK
  <2>4. AllStay(game)
        BY GamesStayCalm DEF Between
  <2>5. /\ AllStay(game')
        /\ \A u \in TableIds, c \in Bots :
              c # e.bot /\ c \in Sitting(game[u]) => c \in Sitting(game'[u])
    <3>1. e.bot \in game[e.table].seated /\ game[e.table].chips[e.bot] = 0
          BY <2>3 DEF EntryOK
    <3>2. TablesCalm
          BY DEF Between
    <3> DEFINE t == e.table
               b == e.bot
    <3>3. /\ t \in TableIds /\ b \in game[t].seated /\ game[t].chips[b] = 0
          /\ game' = [game EXCEPT ![t] = Removed(game[t], b)]
          BY <2>2, <2>3, <3>1
    <3> HIDE DEF t, b
    <3>4. /\ game' = [u \in TableIds |-> game'[u]] /\ game'[t] = Removed(game[t], b)
          /\ \A u \in TableIds : u # t => game'[u] = game[u]
          BY <3>3 DEF Base, GamesOK
    <3>5. /\ AllStay(game')
          /\ \A u \in TableIds, c \in Bots :
                c # b /\ c \in Sitting(game[u]) => c \in Sitting(game'[u])
          BY <2>4, <3>2, <3>3, <3>4, BustStays
    <3> QED BY <3>5 DEF b
  <2> QED BY <1>1, <2>1, <2>2, <2>3, <2>5, QuietStep
<1>3. CASE LastBust(h)
  <2>1. Waiting' \subseteq Waiting /\ game' = game /\ active' = active
        BY <1>3, LastBustWaiting DEF LastBust
  <2>2. AllStay(game')
        BY <2>1, GamesStayCalm DEF Between
  <2> QED BY <1>1, <2>1, <2>2, QuietStep
<1> QED BY <1>2, <1>3, BustCases DEF Base

\* A hand was played, and left the tables as in games.
LEMMA HandCompleteBetween ==
  ASSUME Base, Between, NEW t, NEW games, NEW stacks, HandComplete(t, games, stacks),
         AllStay(games), \A u \in TableIds : games[u].gone = game[u].gone,
         UNCHANGED <<made, tables, dbStatus, balancer>>
  PROVE  Between' /\ AllStay(game')
<1>1. \A u \in TableIds : Sitting(games[u]) = Sitting(game[u])
      BY DEF AllStay, Stays, Shrinks, Sitting
<1>2. CASE game' = games /\ active' = active /\ busting' = busting
      BY <1>1, <1>2, SameWaiting, QuietStep
<1>3. CASE Listed(games, stacks)
  <2>1. PICK s \in BustLists(Chipless(games), stacks) :
             /\ Busts(ListOf(s, stacks)[1], games)
             /\ busting' = Append(busting, [list |-> ListOf(s, stacks), now |-> 1])
        BY <1>3 DEF Listed
  <2>2. /\ s \in Seq(Bots \X TableIds) /\ 1 \in DOMAIN s
        /\ DOMAIN s = 1 .. Len(s) /\ Len(s) \in Nat
        /\ \A i \in DOMAIN s : /\ s[i][1] \in active /\ s[i][2] \in tables
                               /\ s[i][1] \in games[s[i][2]].seated
                               /\ games[s[i][2]].chips[s[i][1]] = 0
        BY <1>3, <2>1, ListsOfBusts DEF Listed, Base
  <2> DEFINE list == ListOf(s, stacks)
  <2>3. DOMAIN list = DOMAIN s /\ \A i \in DOMAIN s : list[i].bot = s[i][1]
                                                      /\ list[i].table = s[i][2]
        BY DEF ListOf
  <2>4. tables \subseteq TableIds /\ active \subseteq Bots /\ busting \in Seq(Handler)
        /\ list \in Seq(Busted)
        BY <2>2, RestParts, ListTyped DEF Base, HandlersOK
  <2>5. /\ active' = active \ {list[1].bot}
        /\ game' = [games EXCEPT ![list[1].table] = Removed(games[list[1].table], list[1].bot)]
        BY <2>1 DEF Busts, OutOfActive
  <2>6. busting' = Append(busting, [list |-> list, now |-> 1])
        BY <2>1
  <2> HIDE DEF list
  <2>7. /\ AllStay(game')
        /\ \A u \in TableIds, c \in Bots :
              c # list[1].bot /\ c \in Sitting(games[u]) => c \in Sitting(game'[u])
    <3>1. /\ list[1].table \in TableIds /\ list[1].bot \in games[list[1].table].seated
          /\ games[list[1].table].chips[list[1].bot] = 0
          BY <2>2, <2>3, <2>4
    <3>2. TablesCalm
          BY DEF Between
    <3> DEFINE v == list[1].table
               b == list[1].bot
    <3>3. /\ v \in TableIds /\ b \in games[v].seated /\ games[v].chips[b] = 0
          /\ game' = [games EXCEPT ![v] = Removed(games[v], b)]
          BY <2>5, <3>1
    <3> HIDE DEF v, b
    <3>4. /\ game' = [u \in TableIds |-> game'[u]] /\ game'[v] = Removed(games[v], b)
          /\ \A u \in TableIds : u # v => game'[u] = games[u]
          BY <3>3 DEF AllStay
    <3>5. /\ AllStay(game')
          /\ \A u \in TableIds, c \in Bots :
                c # b /\ c \in Sitting(games[u]) => c \in Sitting(game'[u])
          BY <3>2, <3>3, <3>4, BustStays
    <3> QED BY <3>5 DEF b
  <2>8. TablesCalm' /\ SeatsHeld' /\ NotYetSeated'
        BY <2>7, CalmStays, SeatsStay, UnseatedStay DEF Between
  <2>9. PlanFits'
        BY <1>1, <2>4, <2>5, <2>7, PlanStays DEF Between
  <2>10. ASSUME NEW e \in Waiting'
         PROVE  e \in Waiting \/ \E i \in DOMAIN s : e = list[i]
    <3> DEFINE r == [list |-> list, now |-> 1]
    <3>1. PICK k \in DOMAIN busting' : \E i \in DOMAIN busting'[k].list :
                                          i > busting'[k].now /\ busting'[k].list[i] = e
          BY <2>10 DEF Waiting
    <3>2. e \in Busted
          BY <2>10 DEF Waiting
    <3>3. r.list = list
          OBVIOUS
    <3> HIDE DEF r
    <3>4. busting' = Append(busting, r)
          BY <2>6 DEF r
    <3>5. (k \in DOMAIN busting /\ busting'[k] = busting[k]) \/ busting'[k] = r
          BY <2>4, <3>4
    <3> QED BY <2>3, <3>1, <3>2, <3>3, <3>5 DEF Waiting
  <2>11. ASSUME NEW e \in Waiting' PROVE EntryOK(e)'
    <3>1. CASE e \in Waiting
      <4>1. e \in Busted /\ EntryOK(e)
            BY <3>1 DEF Between, ListedBroke, Waiting
      <4>2. OnTheWay' = OnTheWay /\ active' \subseteq active
            BY <2>5, SameWay
      <4> QED BY <2>7, <4>1, <4>2, EntryStays DEF Between
    <3>2. ASSUME NEW i \in DOMAIN s, e = list[i] PROVE EntryOK(e)'
      <4>1. /\ e.bot \in games[e.table].seated /\ games[e.table].chips[e.bot] = 0
            /\ e.table \in tables /\ e.table \in TableIds
            BY <2>2, <2>3, <2>4, <3>2
      <4>2. e.bot \in game'[e.table].seated /\ game'[e.table].chips[e.bot] = 0
        <5>1. /\ Calm(game'[e.table]) /\ Calm(games[e.table])
              /\ game'[e.table].seated = games[e.table].seated
              BY <2>7, <4>1 DEF AllStay, Stays, Shrinks
        <5>2. Shrinks(game'[e.table], games[e.table])
          <6> DEFINE t1 == list[1].table
          <6>1. /\ t1 \in TableIds /\ list[1].bot \in games[t1].seated
                BY <2>2, <2>3, <2>4
          <6>2. Calm(games[t1]) /\ DOMAIN games = TableIds
                BY <6>1 DEF AllStay, Stays, Shrinks
          <6>3. Shrinks(Removed(games[t1], list[1].bot), games[t1])
                BY <6>1, <6>2, RemovedCalm
          <6> HIDE DEF t1
          <6>4. CASE e.table = t1
            <7>1. game'[t1] = Removed(games[t1], list[1].bot)
                  BY <2>5, <6>1, <6>2 DEF t1
            <7> QED BY <6>3, <6>4, <7>1
          <6>5. CASE e.table # t1
            <7>1. game'[e.table] = games[e.table]
                  BY <2>5, <4>1, <6>2, <6>5 DEF t1
            <7> QED BY <5>1, <7>1 DEF Shrinks
          <6> QED BY <6>4, <6>5
        <5> QED BY <4>1, <5>1, <5>2, BrokeStays
      <4> QED BY <4>1, <4>2 DEF EntryOK, LeftBehind
    <3> QED BY <2>10, <3>1, <3>2
  <2>12. ListedBroke'
        BY <2>11 DEF ListedBroke
  <2> QED BY <2>7, <2>8, <2>9, <2>12 DEF Between
<1>4. CASE Ignored(t, games)
      BY <1>2, <1>4 DEF Ignored, handlers
<1>5. CASE Nobody(games)
      BY <1>2, <1>5 DEF Nobody
<1> QED BY <1>3, <1>4, <1>5, HandCompleteCases

LEMMA PlayHandBetween ==
  ASSUME Base, Between, NEW t \in TableIds, PlayHand(t)
  PROVE  Between' /\ AllStay(game')
<1>1. PICK ps \in SUBSET Playable(game[t]) :
           /\ Cardinality(ps) \in HandSizes
           /\ \E g \in Outcomes(HandBegun(game[t], ps)) :
                HandComplete(t, [game EXCEPT ![t] = g], snapshot')
      BY DEF PlayHand
<1>2. PICK g \in Outcomes(HandBegun(game[t], ps)) :
           HandComplete(t, [game EXCEPT ![t] = g], snapshot')
      BY <1>1
<1> DEFINE games == [game EXCEPT ![t] = g]
<1>3. Stays(g, game[t]) /\ g.gone = game[t].gone
      BY <1>1, HandCalm DEF PlayHand, Between, TablesCalm
<1>4. AllStay(games)
      BY <1>3, OneStays DEF Between
<1>5. \A u \in TableIds : games[u].gone = game[u].gone
      BY <1>3 DEF Base, GamesOK
<1>6. UNCHANGED <<made, tables, dbStatus, balancer>>
      BY DEF PlayHand, database
<1> HIDE DEF games
<1>7. HandComplete(t, games, snapshot')
      BY <1>2 DEF games
<1> QED BY <1>4, <1>5, <1>6, <1>7, HandCompleteBetween
LEMMA InitBetween ==
  ASSUME Init
  PROVE  Between
<1>1. /\ NoGame \in Games
      /\ NoGame.seated = {} /\ NoGame.gone = {} /\ NoGame.chips = None /\ NoGame.bets = None
      /\ NoGame.pending = <<>> /\ NoGame.loop = "none"
      BY DEF NoGame, None, Games, Loops
<1>2. Calm(NoGame) /\ Playable(NoGame) = {}
      BY <1>1 DEF Calm, Sitting, Playable, None
<1>3. \A t \in TableIds : game[t] = NoGame
      BY DEF Init
<1>4. TablesCalm
      BY <1>1, <1>2, <1>3 DEF TablesCalm
<1>5. Waiting = {}
      BY DEF Waiting, Init
<1>6. SeatsHeld
  <2>1. SeatsPerTable \in Nat /\ Cardinality({}) = 0
        BY FS_EmptySet, DirectorAssumption
  <2>2. \A t \in TableIds : Playable(game[t]) = {}
        BY <1>2, <1>3
  <2>3. \A t \in TableIds : Cardinality(Playable(game[t])) <= SeatsPerTable
        BY <2>1, <2>2
  <2> QED BY <2>3 DEF SeatsHeld, Size
<1>7. PlanFits
      BY DEF Init, Idle, PlanFits, BreakFits, MoveFits, RoomLeft, TablesThere
<1>8. NotYetSeated
      BY <1>1, <1>3 DEF NotYetSeated
<1> QED BY <1>4, <1>5, <1>6, <1>7, <1>8 DEF Between, ListedBroke

\* A step of the database only: a place or a move was stored.
LEMMA StoredBetween ==
  ASSUME Base, Between, UNCHANGED <<made, tables, game, active, busting, dbStatus>>,
         balancer' = balancer \/ balancer' = Idle
  PROVE  Between'
<1>1. AllStay(game') /\ Waiting' = Waiting
      BY GamesStayCalm, SameWaiting DEF Between
<1>2. CASE balancer' = balancer
      BY <1>1, <1>2, QuietStep
<1>3. CASE balancer' = Idle
  <2>1. balancer'.pc = "off"
        BY <1>3 DEF Idle
  <2>2. OnTheWay' \subseteq OnTheWay
        BY <2>1 DEF OnTheWay
  <2>3. TablesCalm' /\ SeatsHeld' /\ NotYetSeated' /\ ListedBroke'
        BY <1>1, <2>2, CalmStays, SeatsStay, UnseatedStay, WaitingStay DEF Between
  <2>4. PlanFits'
        BY <2>1 DEF PlanFits, BreakFits, MoveFits, RoomLeft, TablesThere
  <2> QED BY <2>3, <2>4 DEF Between
<1> QED BY <1>2, <1>3

LEMMA BreakTableBetween ==
  ASSUME Base, Apart, Between, BreakTable
  PROVE  Between'
<1> DEFINE f == balancer.from
           r == IF balancer.bots = {} THEN Restarted(balancer.others) ELSE game
<1>1. balancer.pc = "break" /\ f \in TableIds /\ NextMover /\ tables' = tables \ {f}
      BY BalancerParts DEF Base, BreakTable
<1>2. LoopsOnly(r)
      BY LoopsRestarted, NoLoop DEF Between
<1>3. game' = [r EXCEPT ![f] = Stopped(r[f])]
      BY DEF BreakTable
<1> HIDE DEF r
<1>4. LoopsOnly(game')
  <2> DEFINE h == Stopped(r[f])
  <2>1. Waits(r[f], game[f]) /\ Calm(r[f])
        BY <1>1, <1>2 DEF LoopsOnly, Waits, Stays, Shrinks
  <2>2. Waits(h, r[f])
        BY <2>1, StoppedWaits DEF Stopped
  <2> HIDE DEF h
  <2>3. Waits(h, game[f])
        BY <2>1, <2>2, WaitsOn
  <2>4. game' = [r EXCEPT ![f] = h]
        BY <1>3 DEF h
  <2> HIDE DEF f
  <2>5. /\ game' = [t \in TableIds |-> game'[t]] /\ game'[f] = h
        /\ \A t \in TableIds : t # f => game'[t] = r[t]
        BY <1>1, <1>2, <2>4 DEF LoopsOnly
  <2>6. \A t \in TableIds : Waits(game'[t], game[t])
        BY <1>2, <2>3, <2>5 DEF LoopsOnly
  <2> QED BY <2>5, <2>6 DEF LoopsOnly
<1>5. UNCHANGED <<made, dbStatus, active, busting>>
      BY DEF BreakTable, handlers, database
<1> QED BY <1>1, <1>4, <1>5, MoverBetween

LEMMA MoverStoredBetween ==
  ASSUME Base, Apart, Between, MoverStored
  PROVE  Between'
<1>1. LoopsOnly(game')
      BY LoopsRestarted, NoLoop DEF Between, MoverStored
<1>2. UNCHANGED <<made, dbStatus, active, busting>> /\ tables' = tables
      BY DEF MoverStored, handlers, database
<1>3. balancer.pc = "seated" /\ NextMover
      BY DEF MoverStored
<1> QED BY <1>1, <1>2, <1>3, MoverBetween

LEMMA FinishedBetween ==
  ASSUME Base, Between, TournamentFinished
  PROVE  Between'
<1>1. /\ UNCHANGED <<made, active, busting, balancer>> /\ dbStatus' = "finished"
      /\ game' = [t \in TableIds |-> Closed(t)]
      BY DEF TournamentFinished, handlers
<1>2. LoopsOnly(game')
  <2>1. \A t \in TableIds : Waits(game'[t], game[t])
        BY <1>1, StoppedWaits DEF Closed, Between, TablesCalm
  <2>2. game' = [t \in TableIds |-> game'[t]]
        BY <1>1
  <2> QED BY <2>1, <2>2 DEF LoopsOnly
<1>3. /\ AllStay(game')
      /\ \A t \in TableIds : Sitting(game'[t]) = Sitting(game[t])
      BY <1>2, LoopsStay
<1>4. TablesCalm' /\ SeatsHeld' /\ NotYetSeated' /\ PlanFits'
      BY <1>1, <1>3, CalmStays, SeatsStay, UnseatedStay, PlanStays DEF Between
<1>5. Waiting' = Waiting
      BY <1>1, SameWaiting
<1>6. ASSUME NEW e \in Waiting PROVE EntryOK(e)'
  <2>1. e.table \in TableIds /\ e.bot \in game[e.table].seated /\ game[e.table].chips[e.bot] = 0
        BY DEF Between, ListedBroke, EntryOK, Waiting, Busted
  <2>2. Calm(game[e.table]) /\ Shrinks(game'[e.table], game[e.table])
        BY <1>3, <2>1 DEF Between, TablesCalm, AllStay, Stays
  <2>3. e.bot \in game'[e.table].seated /\ game'[e.table].chips[e.bot] = 0
        BY <2>1, <2>2, BrokeStays
  <2> QED BY <1>1, <2>3 DEF EntryOK
<1>7. ListedBroke'
      BY <1>5, <1>6 DEF ListedBroke
<1> QED BY <1>4, <1>7 DEF Between

LEMMA StepBetween ==
  ASSUME Base, Apart, Between, [Next]_vars
  PROVE  Between'
<1>1. CASE UNCHANGED vars
      BY <1>1, StoredBetween DEF vars, handlers, database
<1>2. CASE Director
  <2>1. CASE CreateTable
        BY <2>1, CreateTableBetween
  <2>2. CASE ChipsSynced
    <3>1. UNCHANGED <<made, tables, game, dbStatus, active, busting>>
          BY <2>2 DEF ChipsSynced, database
    <3>2. LoopsOnly(game')
          BY <3>1, NoLoop DEF Between
    <3> QED BY <2>2, <3>1, <3>2, PlanStarts DEF ChipsSynced
  <2>3. CASE MovePlayer
        BY <2>3, MovePlayerBetween
  <2>4. CASE MoveStored
        BY <2>4, StoredBetween DEF MoveStored, handlers, database
  <2>5. CASE BreakTable
        BY <2>5, BreakTableBetween
  <2>6. CASE SeatMover
        BY <2>6, SeatMoverBetween
  <2>7. CASE MoverStored
        BY <2>7, MoverStoredBetween
  <2>8. CASE SafetyNet
    <3>1. UNCHANGED <<made, tables, game, dbStatus, active, busting>>
          BY <2>8 DEF SafetyNet, handlers, database
    <3>2. balancer' = balancer \/ CheckTableBalancing(FALSE)
          BY <2>8 DEF SafetyNet
    <3>3. LoopsOnly(game')
          BY <3>1, NoLoop DEF Between
    <3> QED BY <3>1, <3>2, <3>3, PlanStarts
  <2>9. CASE PayoutStored
        BY <2>9, StoredBetween DEF PayoutStored, handlers
  <2>10. CASE TournamentFinished
        BY <2>10, FinishedBetween
  <2>11. CASE \E h \in DOMAIN busting : BustStored(h)
        BY <2>11, BustStoredBetween
  <2> QED BY <1>2, <2>1, <2>2, <2>3, <2>4, <2>5, <2>6, <2>7, <2>8, <2>9, <2>10, <2>11
          DEF Director
<1>3. ASSUME NEW t \in TableIds, TableStep(t)
      PROVE  Between'
  <2>1. CASE StartGame(t) \/ GameOver(t)
    <3>1. PICK l \in Loops : l # "hand" /\ game' = [game EXCEPT ![t] = [game[t] EXCEPT !.loop = l]]
          BY <2>1 DEF StartGame, GameOver, Loops
    <3>2. LoopsOnly(game')
      <4> DEFINE h == [game[t] EXCEPT !.loop = l]
      <4>1. Waits(h, game[t])
            BY <3>1, LoopWaits DEF Between, TablesCalm
      <4>2. game' = [game EXCEPT ![t] = h]
            BY <3>1
      <4> HIDE DEF h
      <4> QED BY <4>1, <4>2, OneLoop DEF Between
    <3>3. UNCHANGED <<made, tables, dbStatus, active, busting>>
          BY <2>1 DEF StartGame, GameOver, handlers, database
    <3>4. balancer' = balancer \/ CheckTableBalancing(FALSE)
          BY <2>1 DEF StartGame, GameOver
    <3> QED BY <3>2, <3>3, <3>4, PlanStarts
  <2>2. CASE PlayHand(t)
        BY <2>2, PlayHandBetween
  <2> QED BY <1>3, <2>1, <2>2 DEF TableStep
<1> QED BY <1>1, <1>2, <1>3 DEF Next

LEMMA BetweenInv == Spec => [](Base /\ Apart /\ Between)
<1>1. Init => Base /\ Apart /\ Between
      BY InitBase, InitApart, InitBetween
<1>2. Base /\ Apart /\ Between /\ [Next]_vars => (Base /\ Apart /\ Between)'
  <2> SUFFICES ASSUME Base, Apart, Between, [Next]_vars
               PROVE  (Base /\ Apart /\ Between)'
      OBVIOUS
  <2>1. [InterleavedNext]_vars
        BY DEF InterleavedNext
  <2> QED BY <2>1, StepTyped, StepApart, StepBetween
<1> QED BY <1>1, <1>2, PTL DEF Spec

\* No table ever has more bots that can play than seats, although tables are counted
\* before the moves that fill them, and busts and moves are stored meanwhile.
THEOREM NoTableOverfilled == Spec => []SeatsRespected
<1>1. Base /\ Apart /\ Between => SeatsRespected
      BY RestParts DEF Base, Between, SeatsHeld, SeatsRespected
<1> QED BY <1>1, BetweenInv, PTL
-----------------------------------------------------------------------------
(* Who is out has no chips *)

\* A bot that sits at a table when it is out, and has left none, has no chips anywhere.
LEMMA OutWithoutChips ==
  ASSUME Base, Apart, AllStay(game'), dbStatus = "running", NEW b \in Bots, NEW t \in TableIds,
         b \in game[t].seated, \A u \in TableIds : b \notin game[u].gone,
         t \notin tables => \A u \in tables : b \notin Sitting(game[u]),
         b \notin Sitting(game'[t])
  PROVE  \A u \in tables : game'[u].chips[b] = 0
<1> SUFFICES ASSUME NEW u \in tables PROVE game'[u].chips[b] = 0
    OBVIOUS
<1>1. u \in TableIds
      BY RestParts DEF Base
<1>2. Calm(game'[u]) /\ Sitting(game'[u]) \subseteq Sitting(game[u])
      BY <1>1 DEF AllStay, Stays, Shrinks, Sitting
<1>3. b \notin Sitting(game'[u])
  <2>1. CASE u = t
        BY <2>1
  <2>2. CASE u # t
    <3>1. b \in Sitting(game[t])
          BY DEF Sitting
    <3>2. t \in tables => b \notin Sitting(game[u])
          BY <2>2, <3>1 DEF Apart, TablesApart, Held
    <3> QED BY <1>2, <3>2
  <2> QED BY <2>1, <2>2
<1> QED BY <1>2, <1>3 DEF Calm

LEMMA NextBustBroke ==
  ASSUME Base, Apart, Between, NEW h \in DOMAIN busting, BustStored(h), dbStatus = "running",
         NEW b \in active \ active', \A u \in TableIds : b \notin game[u].gone
  PROVE  \A u \in tables : game'[u].chips[b] = 0
<1> DEFINE e == busting[h].list[busting[h].now + 1]
<1>1. NextBust(h)
      BY BustCases DEF Base, LastBust
<1>2. e \in Waiting
      BY <1>1, NextBustWaiting
<1>3. /\ active' = active \ {e.bot}
      /\ game' = [game EXCEPT ![e.table] = Removed(game[e.table], e.bot)]
      BY <1>1 DEF NextBust, Busts, OutOfActive
<1> HIDE DEF e
<1> DEFINE t == e.table
<1>4. t \in TableIds /\ EntryOK(e) /\ e.bot = b /\ b \in Bots
      BY <1>2, <1>3, RestParts DEF Between, ListedBroke, Waiting, Busted, Base
<1>5. /\ b \in game[t].seated
      /\ t \notin tables => \A u \in tables : b \notin Sitting(game[u])
      BY <1>4 DEF EntryOK, LeftBehind
<1>6. AllStay(game')
      BY BustStoredBetween
<1>7. b \notin Sitting(game'[t])
  <2>1. Calm(game[t])
        BY <1>4 DEF Between, TablesCalm
  <2>2. Sitting(Removed(game[t], b)) = Sitting(game[t]) \ {b}
        BY <1>5, <2>1, RemovedCalm
  <2>3. game'[t] = Removed(game[t], b)
        BY <1>3, <1>4 DEF Base, GamesOK
  <2> QED BY <2>2, <2>3
<1> HIDE DEF t
<1> QED BY <1>4, <1>5, <1>6, <1>7, OutWithoutChips
LEMMA HandBroke ==
  ASSUME Base, Apart, Between, NEW t \in TableIds, PlayHand(t), dbStatus = "running",
         NEW b \in active \ active', \A u \in TableIds : b \notin game[u].gone
  PROVE  \A u \in tables : game'[u].chips[b] = 0
<1>1. PICK ps \in SUBSET Playable(game[t]) :
           /\ Cardinality(ps) \in HandSizes
           /\ \E g \in Outcomes(HandBegun(game[t], ps)) :
                HandComplete(t, [game EXCEPT ![t] = g], snapshot')
      BY DEF PlayHand
<1>2. PICK g \in Outcomes(HandBegun(game[t], ps)) :
           HandComplete(t, [game EXCEPT ![t] = g], snapshot')
      BY <1>1
<1> DEFINE games == [game EXCEPT ![t] = g]
           stacks == snapshot'
<1>3. Stays(g, game[t])
      BY <1>1, HandCalm DEF PlayHand, Between, TablesCalm
<1>4. AllStay(games)
      BY <1>3, OneStays DEF Between
<1>5. HandComplete(t, games, stacks)
      BY <1>2
<1> HIDE DEF games, stacks
<1>6. Listed(games, stacks)
      BY <1>5, HandCompleteCases DEF Ignored, Nobody
<1>7. PICK s \in BustLists(Chipless(games), stacks) : Busts(ListOf(s, stacks)[1], games)
      BY <1>6 DEF Listed
<1>8. /\ 1 \in DOMAIN s /\ s[1][1] \in active /\ s[1][2] \in tables
      /\ s[1][1] \in games[s[1][2]].seated
      BY <1>6, <1>7, ListsOfBusts DEF Listed, Base
<1> DEFINE v == s[1][2]
           c == s[1][1]
<1>9. ListOf(s, stacks)[1].bot = c /\ ListOf(s, stacks)[1].table = v
      BY <1>8 DEF ListOf
<1>10. active' = active \ {c} /\ game' = [games EXCEPT ![v] = Removed(games[v], c)]
      BY <1>7, <1>9 DEF Busts, OutOfActive
<1>11. v \in TableIds /\ v \in tables /\ b \in Bots
      BY <1>8, RestParts DEF Base
<1>12. c \in games[v].seated
      BY <1>8
<1> HIDE DEF v, c
<1>13. c = b
      BY <1>10
<1>14. AllStay(game')
      BY PlayHandBetween
<1>15. b \in game[v].seated
      BY <1>4, <1>11, <1>12, <1>13 DEF AllStay, Stays, Shrinks
<1>16. b \notin Sitting(game'[v])
  <2>1. Calm(games[v])
        BY <1>4, <1>11 DEF AllStay, Stays, Shrinks
  <2>2. Sitting(Removed(games[v], b)) = Sitting(games[v]) \ {b}
        BY <1>12, <1>13, <2>1, RemovedCalm
  <2>3. game'[v] = Removed(games[v], b)
        BY <1>4, <1>10, <1>11, <1>13 DEF AllStay
  <2> QED BY <2>2, <2>3
<1> QED BY <1>11, <1>14, <1>15, <1>16, OutWithoutChips

\* Only these two steps take a bot out.
LEMMA StepOutBroke ==
  ASSUME Base, Apart, Between, Next, dbStatus = "running",
         NEW b \in active \ active', \A u \in TableIds : b \notin game[u].gone
  PROVE  \A u \in tables : game'[u].chips[b] = 0
<1>1. CASE Director
  <2>1. PICK h \in DOMAIN busting : BustStored(h)
        BY <1>1 DEF Director, CreateTable, ChipsSynced, MovePlayer, MoveStored, BreakTable,
           SeatMover, MoverStored, SafetyNet, PayoutStored, TournamentFinished
  <2> QED BY <2>1, NextBustBroke
<1>2. ASSUME NEW t \in TableIds, TableStep(t)
      PROVE  \A u \in tables : game'[u].chips[b] = 0
  <2>1. PlayHand(t)
        BY <1>2 DEF TableStep, StartGame, GameOver
  <2> QED BY <2>1, HandBroke
<1> QED BY <1>1, <1>2 DEF Next

\* A bot that was never moved is out only when it has no chips at any table: what was
\* true when its bust was listed still is when its turn in the list comes.
THEOREM OutOnlyWithoutChips == Spec => EliminatedOnlyAtZero
<1>1. Base /\ Apart /\ Between /\ [Next]_vars =>
        [dbStatus = "running" =>
           \A b \in active \ active' :
             (\A t \in TableIds : b \notin game[t].gone) =>
                \A t \in tables : game'[t].chips[b] = 0]_vars
  <2> SUFFICES ASSUME Base, Apart, Between, Next, dbStatus = "running",
                      NEW b \in active \ active', \A t \in TableIds : b \notin game[t].gone
               PROVE  \A t \in tables : game'[t].chips[b] = 0
      OBVIOUS
  <2> QED BY StepOutBroke
<1> QED BY <1>1, BetweenInv, PTL DEF Spec, EliminatedOnlyAtZero
-----------------------------------------------------------------------------
(* Chips *)

\* The chips at some tables, as a sum over all of them.
ChipsOf(g) == SumFunction(g.chips)
ChipsAt(S, games) == SumFunction([t \in TableIds |-> IF t \in S THEN ChipsOf(games[t]) ELSE 0])

LEMMA ChipsAreInt ==
  ASSUME NEW g \in Games
  PROVE  ChipsOf(g) \in Int
<1>1. g.chips \in [Bots -> Int] /\ IsFiniteSet(Bots)
      BY DirectorAssumption DEF Games
<1> QED BY <1>1, SumIsInt DEF ChipsOf

LEMMA TableIdsFinite == IsFiniteSet(TableIds)
<1>1. Len(Seating) \in Nat
      BY DirectorAssumption
<1> QED BY <1>1, FS_Interval DEF TableIds

\* Between hands the bets are none.
LEMMA ChipsOnTables ==
  ASSUME NEW S \in SUBSET TableIds, NEW games, \A t \in TableIds : Calm(games[t])
  PROVE  FoldFunction(+, 0, [t \in S |-> FoldFunction(+, 0, games[t].chips)
                                         + FoldFunction(+, 0, games[t].bets)])
           = ChipsAt(S, games)
<1> DEFINE part == [t \in S |-> FoldFunction(+, 0, games[t].chips)
                               + FoldFunction(+, 0, games[t].bets)]
           whole == [t \in TableIds |-> IF t \in S THEN ChipsOf(games[t]) ELSE 0]
<1>1. ASSUME NEW t \in TableIds
      PROVE  /\ ChipsOf(games[t]) \in Int
             /\ FoldFunction(+, 0, games[t].chips) + FoldFunction(+, 0, games[t].bets)
                  = ChipsOf(games[t])
  <2>1. games[t] \in Games /\ games[t].bets = None
        BY DEF Calm
  <2>2. ChipsOf(games[t]) \in Int
        BY <2>1, ChipsAreInt
  <2>3. FoldFunction(+, 0, games[t].chips) = ChipsOf(games[t])
        BY FoldIsSum DEF ChipsOf
  <2>4. FoldFunction(+, 0, games[t].bets) = 0
    <3>1. SumFunction([b \in Bots |-> 0]) = 0
          BY DirectorAssumption, SumOfZero
    <3> QED BY <2>1, <3>1, FoldIsSum DEF None
  <2> DEFINE m == FoldFunction(+, 0, games[t].chips)
             n == FoldFunction(+, 0, games[t].bets)
  <2>5. m = ChipsOf(games[t]) /\ n = 0
        BY <2>3, <2>4
  <2> HIDE DEF m, n
  <2>6. m + n = ChipsOf(games[t])
        BY <2>2, <2>5
  <2> QED BY <2>2, <2>6 DEF m, n
<1>2. \A t \in S : part[t] = ChipsOf(games[t])
      BY <1>1
<1>3. part = [t \in S |-> part[t]]
      OBVIOUS
<1> HIDE DEF part
<1>4. part \in [S -> Int]
      BY <1>1, <1>2, <1>3
<1>5. whole \in [TableIds -> Int]
  <2> DEFINE c(t) == ChipsOf(games[t])
  <2>1. \A t \in TableIds : c(t) \in Int
        BY <1>1
  <2> HIDE DEF c
  <2>2. [t \in TableIds |-> IF t \in S THEN c(t) ELSE 0] \in [TableIds -> Int]
        BY <2>1
  <2> QED BY <2>2 DEF c
<1>6. (\A t \in S : whole[t] = part[t]) /\ (\A t \in TableIds \ S : whole[t] = 0)
      BY <1>2
<1> HIDE DEF whole
<1>7. SumFunction(part) = SumFunction(whole)
      BY <1>4, <1>5, <1>6, TableIdsFinite, SumOfPart
<1>8. FoldFunction(+, 0, part) = SumFunction(part)
      BY FoldIsSum
<1> QED BY <1>7, <1>8 DEF ChipsAt, part, whole

\* One bot at most is on its way from a broken table, which is stopped, and a seat is free
\* for it.
OneMover ==
  /\ balancer.pc \in {"seat", "seated"} => balancer.bots = {}
  /\ balancer.pc = "seat" => balancer.from \notin tables /\ game[balancer.from].loop = "none"
  /\ balancer.pc = "break" /\ balancer.bots # {} =>
       \E u \in balancer.others : Size(u) < SeatsPerTable

ChipsOnTheWay == IF balancer.pc = "seat" THEN game[balancer.from].chips[balancer.bot] ELSE 0

LEMMA ChipsCounted ==
  Base /\ TablesCalm /\ OneMover =>
     AllChips = ChipsAt(tables, game) + ChipsOnTheWay + StartingChips * Cardinality(StillToSit)
<1> SUFFICES ASSUME Base, TablesCalm, OneMover
             PROVE  AllChips = ChipsAt(tables, game) + ChipsOnTheWay
                                 + StartingChips * Cardinality(StillToSit)
    OBVIOUS
<1>1. AtTables = ChipsAt(tables, game)
  <2>1. tables \in SUBSET TableIds
        BY RestParts DEF Base
  <2> QED BY <2>1, ChipsOnTables DEF TablesCalm, AtTables
<1>2. Carried = ChipsOnTheWay
  <2> DEFINE f == game[balancer.from].chips
             way == [b \in OnTheWay |-> f[b]]
  <2>1. Carried = SumFunction(way)
    <3>1. Carried = FoldFunction(+, 0, way)
          BY DEF Carried
    <3> HIDE DEF way
    <3> QED BY <3>1, FoldIsSum
  <2>2. CASE balancer.pc = "seat"
    <3>1. OnTheWay = {balancer.bot}
          BY <2>2 DEF OnTheWay, OneMover
    <3>2. f[balancer.bot] \in Int
      <4>1. balancer.from \in TableIds /\ balancer.bot \in Bots
            BY <2>2, BalancerParts DEF Base
      <4> QED BY <4>1 DEF TablesCalm, Calm, Games
    <3> DEFINE b == balancer.bot
    <3>3. IsFiniteSet({b})
          BY FS_Singleton
    <3>4. /\ way \in [{b} -> Int] /\ way[b] = f[b]
          /\ \A c \in {b} : c # b => way[c] = 0
          BY <3>1, <3>2
    <3> HIDE DEF way, f
    <3>5. SumFunction(way) = way[b]
          BY <3>3, <3>4, SumAtPoint
    <3> QED BY <2>1, <2>2, <3>4, <3>5 DEF f, ChipsOnTheWay
  <2>3. CASE balancer.pc # "seat"
    <3>1. OnTheWay = {}
          BY <2>3 DEF OnTheWay, OneMover
    <3>2. way = [b \in {} |-> 0]
          BY <3>1
    <3>3. SumFunction([b \in {} |-> 0]) = 0
          BY FS_EmptySet, SumOfZero
    <3> QED BY <2>1, <2>3, <3>2, <3>3 DEF ChipsOnTheWay
  <2> QED BY <2>2, <2>3
<1> QED BY <1>1, <1>2 DEF AllChips

LEMMA ChipsCountedNext ==
  (Base /\ TablesCalm /\ OneMover =>
     AllChips = ChipsAt(tables, game) + ChipsOnTheWay + StartingChips * Cardinality(StillToSit))'
BY ChipsCounted, PTL
\* A game with the chips it had, each where it was unless a hand was played; and one that
\* was stopped is as it was left.
Keeps(h, g) == /\ ChipsOf(h) = ChipsOf(g)
               /\ g.loop # "running" => h.chips = g.chips
               /\ g.loop = "none" => h.loop = "none"
AllKeep(games) == \A t \in TableIds : Keeps(games[t], game[t])
SameLoops(games) == \A t \in TableIds : games[t].loop = game[t].loop

LEMMA KeepsItself ==
  ASSUME NEW g
  PROVE  Keeps(g, g)
BY DEF Keeps

LEMMA KeepsOn ==
  ASSUME NEW g, NEW h, NEW k, Keeps(h, g), k.chips = h.chips, k.loop = h.loop \/ k.loop = "none"
  PROVE  Keeps(k, g)
BY DEF Keeps, ChipsOf

LEMMA LoopKeeps ==
  ASSUME NEW g, Calm(g), NEW l \in Loops, l # "hand", g.loop = "none" => l = "none"
  PROVE  Keeps([g EXCEPT !.loop = l], g)
<1> DEFINE h == [g EXCEPT !.loop = l]
<1>1. h.chips = g.chips /\ h.loop = l
      BY DEF Calm, Games
<1> HIDE DEF h
<1>2. Keeps(h, g)
      BY <1>1 DEF Keeps, ChipsOf
<1> QED BY <1>2 DEF h

LEMMA StoppedKeeps ==
  ASSUME NEW g, Calm(g)
  PROVE  Keeps([g EXCEPT !.loop = IF @ = "hand" THEN "hand" ELSE "none"], g)
<1> DEFINE l == IF g.loop = "hand" THEN "hand" ELSE "none"
<1>1. l \in Loops /\ l = "none"
      BY DEF Calm, Loops
<1>2. Keeps([g EXCEPT !.loop = l], g)
  <2> HIDE DEF l
  <2> QED BY <1>1, LoopKeeps
<1> QED BY <1>2

LEMMA RemovedChips ==
  ASSUME NEW g, Calm(g), NEW b \in g.seated
  PROVE  LET h == Removed(g, b)
         IN  h.chips = [g.chips EXCEPT ![b] = 0] /\ h.loop = g.loop
<1>1. g \in Games /\ b \in Bots /\ g.loop # "hand"
      BY DEF Calm, Games
<1> DEFINE h == [g EXCEPT !.gone = @ \union {b}, !.chips[b] = 0]
<1>2. Removed(g, b) = h
      BY <1>1 DEF Removed, RemoveNow
<1>3. h.chips = [g.chips EXCEPT ![b] = 0] /\ h.loop = g.loop
      BY <1>1 DEF Games
<1> QED BY <1>2, <1>3

LEMMA BustKeeps ==
  ASSUME NEW games, AllKeep(games), NEW t \in TableIds, Calm(games[t]),
         NEW b \in games[t].seated, games[t].chips[b] = 0, NEW after,
         after[t] = Removed(games[t], b), \A u \in TableIds : u # t => after[u] = games[u]
  PROVE  AllKeep(after) /\ \A u \in TableIds : after[u].loop = games[u].loop
<1> DEFINE g == games[t]
           c == g.chips
<1>1. b \in Bots /\ c \in [Bots -> Nat]
      BY DEF Calm, Games
<1>2. after[t].chips = [c EXCEPT ![b] = 0] /\ after[t].loop = g.loop
      BY RemovedChips
<1>3. [c EXCEPT ![b] = 0] = c
  <2>1. c[b] = 0
        OBVIOUS
  <2> HIDE DEF c
  <2> QED BY <1>1, <2>1
<1>4. after[t].chips = games[t].chips /\ after[t].loop = games[t].loop
      BY <1>2, <1>3
<1> HIDE DEF g, c
<1>5. Keeps(after[t], game[t])
      BY <1>4, KeepsOn DEF AllKeep
<1> QED BY <1>4, <1>5 DEF AllKeep

LEMMA GamesKeep ==
  ASSUME game' = game
  PROVE  AllKeep(game')
BY KeepsItself DEF AllKeep

LEMMA RestartedKeeps ==
  ASSUME TablesCalm, NEW S
  PROVE  AllKeep(Restarted(S))
<1> SUFFICES ASSUME NEW t \in TableIds PROVE Keeps(Restarted(S)[t], game[t])
    BY DEF AllKeep
<1>1. Calm(game[t])
      BY DEF TablesCalm
<1>2. CASE t \in S /\ game[t].loop = "finished" /\ Size(t) >= 2
  <2>1. Restarted(S)[t] = [game[t] EXCEPT !.loop = "due"]
        BY <1>2 DEF Restarted
  <2>2. Keeps([game[t] EXCEPT !.loop = "due"], game[t])
        BY <1>1, <1>2, LoopKeeps DEF Loops
  <2> QED BY <2>1, <2>2
<1>3. CASE ~(t \in S /\ game[t].loop = "finished" /\ Size(t) >= 2)
  <2>1. Restarted(S)[t] = game[t]
        BY <1>3 DEF Restarted
  <2> QED BY <2>1, KeepsItself
<1> QED BY <1>2, <1>3

LEMMA BustStoredKeeps ==
  ASSUME Base, Between, NEW h \in DOMAIN busting, BustStored(h)
  PROVE  AllKeep(game') /\ SameLoops(game')
<1>1. CASE NextBust(h)
  <2> DEFINE e == busting[h].list[busting[h].now + 1]
             t == e.table
             b == e.bot
  <2>1. e \in Waiting
        BY <1>1, NextBustWaiting
  <2>2. game' = [game EXCEPT ![t] = Removed(game[t], b)]
        BY <1>1 DEF NextBust, Busts
  <2> HIDE DEF e
  <2>3. t \in TableIds /\ b \in game[t].seated /\ game[t].chips[b] = 0
        BY <2>1 DEF Between, ListedBroke, EntryOK, Waiting, Busted
  <2>4. AllKeep(game) /\ Calm(game[t])
        BY <2>3, KeepsItself DEF AllKeep, Between, TablesCalm
  <2> HIDE DEF t, b
  <2>5. game'[t] = Removed(game[t], b) /\ \A u \in TableIds : u # t => game'[u] = game[u]
        BY <2>2, <2>3 DEF Base, GamesOK
  <2> QED BY <2>3, <2>4, <2>5, BustKeeps DEF SameLoops
<1>2. CASE LastBust(h)
      BY <1>2, GamesKeep DEF LastBust, SameLoops
<1> QED BY <1>1, <1>2, BustCases DEF Base

LEMMA HandCompleteKeeps ==
  ASSUME Base, NEW t, NEW games, NEW stacks, HandComplete(t, games, stacks),
         AllStay(games), AllKeep(games)
  PROVE  AllKeep(game') /\ \A u \in TableIds : game'[u].loop = games[u].loop
<1>1. CASE game' = games
      BY <1>1
<1>2. CASE Listed(games, stacks)
  <2>1. PICK s \in BustLists(Chipless(games), stacks) : Busts(ListOf(s, stacks)[1], games)
        BY <1>2 DEF Listed
  <2>2. /\ 1 \in DOMAIN s /\ s[1][2] \in tables
        /\ s[1][1] \in games[s[1][2]].seated /\ games[s[1][2]].chips[s[1][1]] = 0
        BY <1>2, <2>1, ListsOfBusts DEF Listed, Base
  <2> DEFINE v == s[1][2]
             b == s[1][1]
  <2>3. ListOf(s, stacks)[1].bot = b /\ ListOf(s, stacks)[1].table = v
        BY <2>2 DEF ListOf
  <2>4. game' = [games EXCEPT ![v] = Removed(games[v], b)]
        BY <2>1, <2>3 DEF Busts
  <2>5. v \in TableIds /\ b \in games[v].seated /\ games[v].chips[b] = 0
        BY <2>2, RestParts DEF Base
  <2> HIDE DEF v, b
  <2>6. /\ Calm(games[v]) /\ game'[v] = Removed(games[v], b)
        /\ \A u \in TableIds : u # v => game'[u] = games[u]
        BY <2>4, <2>5 DEF AllStay, Stays, Shrinks
  <2> QED BY <2>5, <2>6, BustKeeps
<1> QED BY <1>1, <1>2, HandCompleteCases DEF Ignored, Nobody

LEMMA PlayHandKeeps ==
  ASSUME Base, Between, NEW t \in TableIds, PlayHand(t)
  PROVE  AllKeep(game') /\ SameLoops(game')
<1>1. PICK ps \in SUBSET Playable(game[t]) :
           /\ Cardinality(ps) \in HandSizes
           /\ \E g \in Outcomes(HandBegun(game[t], ps)) :
                HandComplete(t, [game EXCEPT ![t] = g], snapshot')
      BY DEF PlayHand
<1>2. PICK g \in Outcomes(HandBegun(game[t], ps)) :
           HandComplete(t, [game EXCEPT ![t] = g], snapshot')
      BY <1>1
<1> DEFINE games == [game EXCEPT ![t] = g]
           stacks == snapshot'
<1>3. game[t].loop = "running" /\ Calm(game[t])
      BY DEF PlayHand, Between, TablesCalm
<1>4. /\ Stays(g, game[t]) /\ SumFunction(g.chips) = SumFunction(game[t].chips)
      /\ g.loop = "running"
      BY <1>1, <1>3, HandCalm
<1>5. Keeps(g, game[t])
      BY <1>3, <1>4 DEF Keeps, ChipsOf
<1>6. AllStay(games)
      BY <1>4, OneStays DEF Between
<1>7. AllKeep(games) /\ SameLoops(games)
  <2>1. games[t] = g /\ \A u \in TableIds : u # t => games[u] = game[u]
        BY DEF Base, GamesOK
  <2> HIDE DEF games
  <2> QED BY <1>3, <1>4, <1>5, <2>1, KeepsItself DEF AllKeep, SameLoops
<1>8. HandComplete(t, games, stacks)
      BY <1>2
<1> HIDE DEF games, stacks
<1> QED BY <1>6, <1>7, <1>8, HandCompleteKeeps DEF SameLoops
\* All chips, as these sums count them.
Tally == ChipsAt(tables, game) + ChipsOnTheWay + StartingChips * Cardinality(StillToSit)

LEMMA ChipsAtIsInt ==
  ASSUME NEW S, NEW games, \A t \in TableIds : games[t] \in Games
  PROVE  /\ ChipsAt(S, games) \in Int
         /\ [t \in TableIds |-> IF t \in S THEN ChipsOf(games[t]) ELSE 0] \in [TableIds -> Int]
<1> DEFINE f == [t \in TableIds |-> IF t \in S THEN ChipsOf(games[t]) ELSE 0]
<1>1. f \in [TableIds -> Int]
      BY ChipsAreInt
<1> HIDE DEF f
<1>2. SumFunction(f) \in Int
      BY <1>1, TableIdsFinite, SumIsInt
<1> QED BY <1>1, <1>2 DEF ChipsAt, f

LEMMA ChipsAtKept ==
  ASSUME NEW S, NEW games, NEW after,
         \A t \in TableIds : t \in S => ChipsOf(after[t]) = ChipsOf(games[t])
  PROVE  ChipsAt(S, after) = ChipsAt(S, games)
<1>1. [t \in TableIds |-> IF t \in S THEN ChipsOf(after[t]) ELSE 0]
        = [t \in TableIds |-> IF t \in S THEN ChipsOf(games[t]) ELSE 0]
      OBVIOUS
<1> QED BY <1>1 DEF ChipsAt

\* One more table.
LEMMA ChipsAtOneMore ==
  ASSUME NEW S, NEW R, NEW t \in TableIds, t \notin R, S = R \union {t},
         NEW games, \A u \in TableIds : games[u] \in Games
  PROVE  ChipsAt(S, games) = ChipsAt(R, games) + ChipsOf(games[t])
<1> DEFINE c(u) == ChipsOf(games[u])
           all  == [u \in TableIds |-> IF u \in S THEN c(u) ELSE 0]
           rest == [u \in TableIds |-> IF u \in R THEN c(u) ELSE 0]
           one  == [u \in TableIds |-> IF u = t THEN c(u) ELSE 0]
<1>1. \A u \in TableIds : c(u) \in Int
      BY ChipsAreInt
<1>2. ChipsAt(S, games) = SumFunction(all) /\ ChipsAt(R, games) = SumFunction(rest)
      BY DEF ChipsAt
<1> HIDE DEF c
<1>3. all \in [TableIds -> Int] /\ rest \in [TableIds -> Int] /\ one \in [TableIds -> Int]
      BY <1>1
<1>4. \A u \in TableIds : all[u] = rest[u] + one[u]
      BY <1>1
<1>5. one[t] = c(t) /\ \A u \in TableIds : u # t => one[u] = 0
      OBVIOUS
<1> HIDE DEF all, rest, one
<1>6. SumFunction(all) = SumFunction(rest) + SumFunction(one)
      BY <1>3, <1>4, TableIdsFinite, SumAdds
<1>7. SumFunction(one) = c(t)
      BY <1>3, <1>5, TableIdsFinite, SumAtPoint
<1> QED BY <1>2, <1>6, <1>7 DEF c

LEMMA SameTally ==
  ASSUME AllKeep(game'), UNCHANGED <<made, tables>>, ChipsOnTheWay' = ChipsOnTheWay
  PROVE  Tally' = Tally
<1>1. ChipsAt(tables, game') = ChipsAt(tables, game)
      BY ChipsAtKept DEF AllKeep, Keeps
<1>2. StillToSit' = StillToSit
      BY DEF StillToSit
<1> QED BY <1>1, <1>2 DEF Tally

\* The bot on its way and the seat that is free for it, when games lose bots only.
LEMMA MoverStays ==
  ASSUME Base, OneMover, AllStay(game'), AllKeep(game'), balancer' = balancer,
         tables' \subseteq tables
  PROVE  OneMover' /\ ChipsOnTheWay' = ChipsOnTheWay
<1>1. /\ balancer.pc = "seat" => balancer.from \in TableIds
      /\ balancer.pc = "break" => balancer.others \subseteq TableIds
  <2>1. 1 .. made \subseteq TableIds
        BY RestParts DEF Base, TableIds
  <2> QED BY <2>1, BalancerParts DEF Base
<1>2. ASSUME balancer.pc = "seat"
      PROVE  /\ balancer.from \notin tables' /\ game'[balancer.from].loop = "none"
             /\ game'[balancer.from].chips = game[balancer.from].chips
      BY <1>1, <1>2 DEF OneMover, AllKeep, Keeps
<1>3. ASSUME balancer.pc = "break", balancer.bots # {}
      PROVE  \E u \in balancer.others : Cardinality(Playable(game'[u])) < SeatsPerTable
  <2>1. PICK u \in balancer.others : Size(u) < SeatsPerTable
        BY <1>3 DEF OneMover
  <2>2. SeatsPerTable \in Nat /\ u \in TableIds
        BY <1>1, <1>3, DirectorAssumption
  <2> QED BY <2>1, <2>2, SizesStay
<1>4. OneMover'
      BY <1>2, <1>3 DEF OneMover, Size
<1> QED BY <1>2, <1>4 DEF ChipsOnTheWay

LEMMA QuietChips ==
  ASSUME Base, OneMover, AllStay(game'), AllKeep(game'), UNCHANGED <<made, tables, balancer>>
  PROVE  OneMover' /\ Tally' = Tally
BY MoverStays, SameTally

\* A seat is free at another table when the others have the seats.
LEMMA SeatOutside ==
  ASSUME Base, NEW t \in tables, Playable(game[t]) # {}, Size(t) <= SeatsOutside(t)
  PROVE  \E u \in tables \ {t} : Size(u) < SeatsPerTable
<1> SUFFICES ASSUME \A u \in tables \ {t} : ~(Size(u) < SeatsPerTable) PROVE FALSE
    OBVIOUS
<1> DEFINE others == tables \ {t}
           free == [u \in others |-> FreeSeats(u)]
<1>1. tables \subseteq TableIds
      BY RestParts DEF Base
<1>2. IsFiniteSet(others)
      BY <1>1, TableIdsFinite, FS_Subset
<1>3. free = [u \in others |-> 0]
      BY DEF FreeSeats
<1>4. SeatsOutside(t) = SumFunction(free)
  <2>1. SeatsOutside(t) = FoldFunction(+, 0, free)
        BY DEF SeatsOutside
  <2> HIDE DEF free
  <2> QED BY <2>1, FoldIsSum
<1>5. SumFunction([u \in others |-> 0]) = 0
  <2> HIDE DEF others
  <2> QED BY <1>2, SumOfZero
<1>6. SeatsOutside(t) = 0
      BY <1>3, <1>4, <1>5
<1>7. IsFiniteSet(Playable(game[t])) /\ Size(t) \in Nat
      BY <1>1, SizeIsNat DEF Base
<1>8. Size(t) # 0
      BY <1>7, FS_EmptySet DEF Size
<1> QED BY <1>6, <1>7, <1>8

LEMMA PlanChips ==
  ASSUME Base, OneMover, LoopsOnly(game'), AllKeep(game'), UNCHANGED <<made, tables>>,
         NEW x, balancer' = balancer \/ CheckTableBalancing(x)
  PROVE  OneMover' /\ Tally' = Tally
<1>1. /\ AllStay(game') /\ tables \subseteq TableIds
      /\ \A t \in TableIds : Playable(game'[t]) = Playable(game[t])
      BY LoopsStay, RestParts DEF Base
<1>2. CASE balancer' = balancer
      BY <1>1, <1>2, QuietChips
<1>3. ASSUME NEW t \in tables, Size(t) <= SeatsOutside(t), balancer.pc = "off",
             balancer' = [pc |-> "break", ofHand |-> x, from |-> t,
                          bots |-> Playable(game[t]), others |-> tables \ {t}]
      PROVE  OneMover' /\ Tally' = Tally
  <2>1. /\ balancer'.pc = "break" /\ balancer'.bots = Playable(game[t])
        /\ balancer'.others = tables \ {t}
        BY <1>3
  <2>2. ChipsOnTheWay' = ChipsOnTheWay
        BY <1>3, <2>1 DEF ChipsOnTheWay
  <2>3. ASSUME Playable(game[t]) # {}
        PROVE  \E u \in tables \ {t} : Cardinality(Playable(game'[u])) < SeatsPerTable
    <3>1. PICK u \in tables \ {t} : Size(u) < SeatsPerTable
          BY <1>3, <2>3, SeatOutside
    <3> QED BY <1>1, <3>1 DEF Size
  <2>4. OneMover'
        BY <2>1, <2>3 DEF OneMover, Size
  <2> QED BY <2>2, <2>4, SameTally
<1>4. ASSUME NEW t \in tables, NEW u \in tables, NEW b \in Playable(game[t]),
             balancer.pc = "off",
             balancer' = [pc |-> "move", ofHand |-> x, from |-> t, to |-> u, bot |-> b,
                          stack |-> game[t].chips[b]]
      PROVE  OneMover' /\ Tally' = Tally
  <2>1. balancer'.pc = "move"
        BY <1>4
  <2>2. ChipsOnTheWay' = ChipsOnTheWay
        BY <1>4, <2>1 DEF ChipsOnTheWay
  <2> QED BY <2>1, <2>2, SameTally DEF OneMover
<1> QED BY <1>2, <1>3, <1>4, BalancingPlans
\* The chips of a game, by the bots that can play.
LEMMA ChipsOfFew ==
  ASSUME NEW g, Calm(g)
  PROVE  /\ Playable(g) = {} => ChipsOf(g) = 0
         /\ \A b \in Bots : Playable(g) = {b} => ChipsOf(g) = g.chips[b]
<1> DEFINE c == g.chips
<1>1. c \in [Bots -> Int] /\ \A b \in Bots : b \notin Playable(g) => c[b] = 0
  <2>1. c \in [Bots -> Nat] /\ \A b \in Bots : b \notin Sitting(g) => c[b] = 0
        BY DEF Calm, Games
  <2>2. \A b \in Bots : b \in Sitting(g) /\ b \notin Playable(g) => ~(c[b] > 0)
        BY DEF Sitting, Playable
  <2> HIDE DEF c
  <2>3. \A b \in Bots : c[b] \in Nat
        BY <2>1
  <2>4. \A b \in Bots : b \notin Playable(g) => c[b] = 0
        BY <2>1, <2>2, <2>3
  <2> QED BY <2>1, <2>4
<1>2. ChipsOf(g) = SumFunction(c) /\ IsFiniteSet(Bots)
      BY DirectorAssumption DEF ChipsOf
<1> HIDE DEF c
<1>3. ASSUME Playable(g) = {} PROVE SumFunction(c) = 0
  <2>1. c = [b \in Bots |-> 0]
        BY <1>1, <1>3
  <2> QED BY <1>2, <2>1, SumOfZero
<1>4. ASSUME NEW b \in Bots, Playable(g) = {b} PROVE SumFunction(c) = c[b]
  <2>1. \A d \in Bots : d # b => c[d] = 0
        BY <1>1, <1>4
  <2> QED BY <1>1, <1>2, <2>1, SumAtPoint
<1> QED BY <1>2, <1>3, <1>4 DEF c

\* A bot that joins finds no entry there, and brings its stack.
LEMMA AddedChips ==
  ASSUME NEW g, Calm(g), NEW b \in Bots, b \notin g.seated, NEW stack \in Nat
  PROVE  ChipsOf(Added(g, b, stack)) = ChipsOf(g) + stack
<1> DEFINE c == g.chips
           h == Added(g, b, stack)
<1>1. g \in Games /\ c \in [Bots -> Int] /\ g.loop # "hand" /\ c[b] = 0
      BY DEF Calm, Games, Sitting
<1>2. h.chips = [c EXCEPT ![b] = stack]
  <2>1. h = [g EXCEPT !.seated = @ \union {b}, !.chips[b] = stack,
                      !.loop = IF @ = "none" /\ g.seated # g.gone THEN "due" ELSE @]
        BY <1>1 DEF Added, AddNow
  <2> QED BY <1>1, <2>1 DEF Games
<1> HIDE DEF c, h
<1>f. IsFiniteSet(Bots) /\ stack \in Int
      BY DirectorAssumption
<1>3. SumFunction([c EXCEPT ![b] = stack]) = SumFunction(c) + (stack - c[b])
      BY <1>1, <1>f, SumUpdate
<1>4. SumFunction(c) \in Int
      BY <1>1, <1>f, SumIsInt
<1>5. SumFunction(c) + (stack - c[b]) = SumFunction(c) + stack
      BY <1>1, <1>4
<1> QED BY <1>2, <1>3, <1>5 DEF ChipsOf, c, h

\* A bot that leaves takes its stack.
LEMMA RemovedStack ==
  ASSUME NEW g, Calm(g), NEW b \in g.seated
  PROVE  ChipsOf(g) = ChipsOf(Removed(g, b)) + g.chips[b]
<1> DEFINE c == g.chips
           h == Removed(g, b)
<1>1. c \in [Bots -> Int] /\ b \in Bots
      BY DEF Calm, Games
<1>2. h.chips = [c EXCEPT ![b] = 0]
      BY RemovedChips
<1> HIDE DEF c, h
<1>f. IsFiniteSet(Bots) /\ 0 \in Int
      BY DirectorAssumption
<1>3. SumFunction([c EXCEPT ![b] = 0]) = SumFunction(c) + (0 - c[b])
      BY <1>1, <1>f, SumUpdate
<1>4. SumFunction(c) \in Int /\ c[b] \in Int
      BY <1>1, <1>f, SumIsInt
<1>5. SumFunction(c) = (SumFunction(c) + (0 - c[b])) + c[b]
      BY <1>4
<1> QED BY <1>2, <1>3, <1>5 DEF ChipsOf, c, h

\* A table with a free seat is a target for the bot of a broken one.
LEMMA TargetExists ==
  ASSUME Base, NEW S \in SUBSET TableIds, NEW u \in S, Size(u) < SeatsPerTable
  PROVE  Targets(S) # {}
<1> DEFINE free == {v \in S : FreeSeats(v) > 0}
           f == [v \in TableIds |-> 0 - Size(v)]
<1>1. \A v \in TableIds : Size(v) \in Nat
      BY SizeIsNat DEF Base
<1>2. u \in free
      BY <1>1, DirectorAssumption DEF FreeSeats
<1>3. f \in [TableIds -> Int] /\ free \in SUBSET TableIds
      BY <1>1
<1> HIDE DEF f, free
<1>4. PICK v \in free : \A w \in free : f[w] <= f[v]
      BY <1>2, <1>3, TableIdsFinite, GreatestExists
<1>5. \A w \in free : Size(v) <= Size(w)
  <2>1. \A w \in free : f[w] = 0 - Size(w) /\ Size(w) \in Nat /\ w \in TableIds
        BY <1>1, <1>3 DEF f
  <2> QED BY <1>4, <2>1
<1> QED BY <1>4, <1>5 DEF Targets, free
\* A broken table is stopped with the chips it has.
LEMMA BreakTableKeeps ==
  ASSUME Base, TablesCalm, BreakTable
  PROVE  LET f == balancer.from
         IN  /\ AllKeep(game') /\ game'[f].loop = "none"
             /\ balancer.bots # {} => game'[f].chips = game[f].chips
<1> DEFINE f == balancer.from
           r == IF balancer.bots = {} THEN Restarted(balancer.others) ELSE game
<1>1. f \in TableIds
      BY BalancerParts DEF Base, BreakTable
<1>2. LoopsOnly(r) /\ AllKeep(r)
      BY LoopsRestarted, NoLoop, RestartedKeeps, KeepsItself DEF AllKeep
<1>3. game' = [r EXCEPT ![f] = Stopped(r[f])]
      BY DEF BreakTable
<1>4. balancer.bots # {} => r[f] = game[f]
      OBVIOUS
<1> HIDE DEF f, r
<1> DEFINE g == r[f]
           h == Stopped(g)
<1>5. Calm(g)
      BY <1>1, <1>2 DEF LoopsOnly, Waits, Stays, Shrinks
<1>7. h.chips = g.chips /\ h.loop = "none"
      BY <1>5 DEF Stopped, Calm, Games
<1>8. game' = [r EXCEPT ![f] = h]
      BY <1>3
<1> HIDE DEF h
<1>9. game'[f] = h /\ \A t \in TableIds : t # f => game'[t] = r[t]
      BY <1>1, <1>2, <1>8 DEF LoopsOnly
<1>10. Keeps(h, game[f])
      BY <1>1, <1>2, <1>7, KeepsOn DEF AllKeep
<1>11. AllKeep(game')
      BY <1>2, <1>9, <1>10 DEF AllKeep
<1> QED BY <1>4, <1>7, <1>9, <1>11 DEF f

\* A table is broken: the one bot that can play takes all its chips along.
LEMMA BreakTableChips ==
  ASSUME Base, Apart, Between, OneMover, BreakTable
  PROVE  OneMover' /\ (dbStatus = "running" => Tally' = Tally)
<1> DEFINE f == balancer.from
<1>1. /\ balancer.pc = "break" /\ NextMover /\ tables' = tables \ {f} /\ f \in TableIds
      /\ made' = made /\ f \notin tables'
      BY BalancerParts DEF Base, BreakTable
<1>2. /\ AllKeep(game') /\ game'[f].loop = "none"
      /\ balancer.bots # {} => game'[f].chips = game[f].chips
      BY BreakTableKeeps DEF Between
<1>3. balancer.bots = Playable(game[f]) /\ Cardinality(balancer.bots) < 2
      BY <1>1 DEF Between, PlanFits, BreakFits
<1>4. balancer.bots # {} => \E b \in Bots : balancer.bots = {b}
  <2>1. IsFiniteSet(balancer.bots) /\ balancer.bots \subseteq Bots
        BY <1>1, BalancerParts, DirectorAssumption, FS_Subset DEF Base
  <2>2. ASSUME NEW b \in balancer.bots PROVE balancer.bots \ {b} = {}
    <3>1. /\ IsFiniteSet(balancer.bots \ {b}) /\ Cardinality(balancer.bots) \in Nat
          /\ Cardinality(balancer.bots \ {b}) = Cardinality(balancer.bots) - 1
          BY <2>1, FS_RemoveElement, FS_CardinalityType
    <3>2. Cardinality(balancer.bots \ {b}) \in Nat
          BY <3>1, FS_CardinalityType
    <3>3. Cardinality(balancer.bots \ {b}) = 0
          BY <1>3, <3>1, <3>2
    <3> QED BY <3>1, <3>3, FS_EmptySet
  <2> QED BY <2>1, <2>2
<1>5. Calm(game[f])
      BY <1>1 DEF Between, TablesCalm
<1>6. \/ balancer' = Idle /\ ChipsOf(game[f]) = 0
      \/ \E b \in Bots, u \in balancer.others :
            /\ balancer' = [pc |-> "seat", ofHand |-> balancer.ofHand, from |-> f,
                            to |-> u, bot |-> b, bots |-> {}, others |-> balancer.others]
            /\ ChipsOf(game[f]) = game[f].chips[b] /\ balancer.bots # {}
  <2>1. CASE balancer.bots = {}
    <3>1. balancer' = Idle
          BY <1>1, <2>1 DEF NextMover
    <3>2. ChipsOf(game[f]) = 0
          BY <1>3, <1>5, <2>1, ChipsOfFew
    <3> QED BY <3>1, <3>2
  <2>2. CASE balancer.bots # {}
    <3>1. PICK b \in Bots : balancer.bots = {b}
          BY <1>4, <2>2
    <3>2. ChipsOf(game[f]) = game[f].chips[b]
          BY <1>3, <1>5, <3>1, ChipsOfFew
    <3>3. Targets(balancer.others) # {}
      <4>1. PICK u \in balancer.others : Size(u) < SeatsPerTable
            BY <1>1, <2>2 DEF OneMover
      <4>2. balancer.others \in SUBSET TableIds
            BY <1>1, BalancerParts, RestParts DEF Base, TableIds
      <4> QED BY <4>1, <4>2, TargetExists
    <3>4. PICK c \in balancer.bots, u \in Targets(balancer.others) :
             balancer' = [pc |-> "seat", ofHand |-> balancer.ofHand, from |-> balancer.from,
                          to |-> u, bot |-> c, bots |-> balancer.bots \ {c},
                          others |-> balancer.others]
          BY <1>1, <2>2, <3>3 DEF NextMover
    <3>5. c = b /\ balancer.bots \ {c} = {} /\ u \in balancer.others
          BY <3>1 DEF Targets
    <3> QED BY <2>2, <3>1, <3>2, <3>4, <3>5
  <2> QED BY <2>1, <2>2
<1> HIDE DEF f
<1>7. ChipsOnTheWay = 0 /\ ChipsOnTheWay' = ChipsOf(game[f])
  <2>1. ChipsOnTheWay = 0
        BY <1>1 DEF ChipsOnTheWay
  <2>2. CASE balancer' = Idle /\ ChipsOf(game[f]) = 0
        BY <2>1, <2>2 DEF ChipsOnTheWay, Idle
  <2>3. ASSUME NEW b \in Bots, NEW u \in balancer.others,
               balancer' = [pc |-> "seat", ofHand |-> balancer.ofHand, from |-> f,
                            to |-> u, bot |-> b, bots |-> {}, others |-> balancer.others],
               ChipsOf(game[f]) = game[f].chips[b], balancer.bots # {}
        PROVE  ChipsOnTheWay' = ChipsOf(game[f])
    <3>1. balancer'.pc = "seat" /\ balancer'.from = f /\ balancer'.bot = b
          BY <2>3
    <3> QED BY <1>2, <2>3, <3>1 DEF ChipsOnTheWay
  <2> QED BY <1>6, <2>1, <2>2, <2>3
<1>8. OneMover'
  <2>1. /\ balancer'.pc \in {"off", "seat"}
        /\ balancer'.pc = "seat" => balancer'.bots = {} /\ balancer'.from = f
        BY <1>6 DEF Idle
  <2> QED BY <1>1, <1>2, <2>1 DEF OneMover
<1>9. ASSUME dbStatus = "running" PROVE Tally' = Tally
  <2>1. f \in tables /\ tables = tables' \union {f}
        BY <1>1, <1>9 DEF Between, PlanFits, TablesThere, f
  <2>2. \A u \in TableIds : game[u] \in Games
        BY DEF Base, GamesOK
  <2>3. ChipsAt(tables, game) = ChipsAt(tables', game) + ChipsOf(game[f])
        BY <1>1, <2>1, <2>2, ChipsAtOneMore
  <2>4. ChipsAt(tables', game') = ChipsAt(tables', game)
        BY <1>2, ChipsAtKept DEF AllKeep, Keeps
  <2>5. ChipsAt(tables', game) \in Int /\ ChipsOf(game[f]) \in Int
        BY <1>1, <2>2, ChipsAtIsInt, ChipsAreInt
  <2>6. StillToSit' = StillToSit
        BY <1>1 DEF StillToSit
  <2>7. ChipsAt(tables', game') + ChipsOnTheWay' = ChipsAt(tables, game) + ChipsOnTheWay
        BY <1>7, <2>3, <2>4, <2>5
  <2> QED BY <2>6, <2>7 DEF Tally
<1> QED BY <1>8, <1>9
\* The one bot of the broken table was the last one to move.
LEMMA MoverStoredChips ==
  ASSUME Base, Between, OneMover, MoverStored
  PROVE  OneMover' /\ Tally' = Tally
<1>1. balancer.pc = "seated" /\ balancer.bots = {} /\ NextMover /\ UNCHANGED <<made, tables>>
      BY DEF MoverStored, OneMover
<1>2. game' = Restarted(balancer.others) /\ balancer'.pc = "off"
      BY <1>1 DEF MoverStored, NextMover, Idle
<1>3. AllKeep(game')
      BY <1>2, RestartedKeeps DEF Between
<1>4. ChipsOnTheWay' = ChipsOnTheWay
      BY <1>1, <1>2 DEF ChipsOnTheWay
<1>5. OneMover'
      BY <1>2 DEF OneMover
<1> QED BY <1>1, <1>3, <1>4, <1>5, SameTally

\* A step of the database only.
LEMMA StoredChips ==
  ASSUME Base, Between, OneMover, UNCHANGED <<made, tables, game>>,
         balancer' = balancer \/ (balancer.pc = "store" /\ balancer' = Idle)
  PROVE  OneMover' /\ Tally' = Tally
<1>1. AllStay(game') /\ AllKeep(game')
      BY GamesStayCalm, GamesKeep DEF Between
<1>2. CASE balancer' = balancer
      BY <1>1, <1>2, QuietChips
<1>3. CASE balancer.pc = "store" /\ balancer' = Idle
  <2>1. balancer'.pc = "off"
        BY <1>3 DEF Idle
  <2>2. ChipsOnTheWay' = ChipsOnTheWay
        BY <1>3, <2>1 DEF ChipsOnTheWay
  <2> QED BY <1>1, <2>1, <2>2, SameTally DEF OneMover
<1> QED BY <1>2, <1>3

LEMMA FinishedChips ==
  ASSUME Base, Between, OneMover, TournamentFinished
  PROVE  OneMover'
<1>1. /\ balancer' = balancer /\ tables' = {}
      /\ game' = [t \in TableIds |-> Closed(t)]
      BY DEF TournamentFinished
<1>2. \A t \in TableIds : Stays(game'[t], game[t]) /\ Keeps(game'[t], game[t])
      BY <1>1, StoppedWaits, StoppedKeeps DEF Closed, Between, TablesCalm, Waits
<1>3. AllStay(game') /\ AllKeep(game')
      BY <1>1, <1>2 DEF AllStay, AllKeep
<1> QED BY <1>1, <1>3, MoverStays

\* A bot of a broken table joins another one that it was not at before.
LEMMA SeatMoverChips ==
  ASSUME Base, Apart, Between, OneMover, SeatMover
  PROVE  OneMover' /\ (dbStatus = "running" /\ ~StaleMove => Tally' = Tally)
<1> DEFINE f == balancer.from
           u == balancer.to
           b == balancer.bot
<1>1. /\ balancer.pc = "seat" /\ balancer'.pc = "seated" /\ balancer'.bots = balancer.bots
      /\ u \in TableIds /\ b \in Bots /\ f \in TableIds
      /\ \A t \in TableIds : t # u => game'[t] = game[t]
      BY SeatMoverGames, BalancerParts DEF Base
<1>2. OneMover'
      BY <1>1 DEF OneMover
<1>3. ASSUME dbStatus = "running", ~StaleMove
      PROVE  Tally' = Tally
  <2>1. u \in tables /\ f \notin tables /\ b \notin game[u].seated
        BY <1>1, <1>3 DEF Between, PlanFits, TablesThere, OneMover, StaleMove
  <2>2. /\ \A t \in TableIds : Calm(game[t]) /\ game[t] \in Games
        /\ game[f].chips[b] \in Nat
        BY <1>1 DEF Between, TablesCalm, Calm, Games
  <2> DEFINE h == Added(game[u], b, game[f].chips[b])
  <2>3. game'[u] = h
    <3> HIDE DEF h
    <3>1. game' = [game EXCEPT ![u] = h]
          BY DEF SeatMover, h
    <3> QED BY <1>1, <3>1 DEF Base, GamesOK
  <2>4. ChipsOf(game'[u]) = ChipsOf(game[u]) + game[f].chips[b]
        BY <1>1, <2>1, <2>2, <2>3, AddedChips
  <2>5. TablesCalm'
        BY SeatMoverBetween DEF Between
  <2>6. \A t \in TableIds : game'[t] \in Games
        BY <2>5 DEF TablesCalm, Calm
  <2> DEFINE R == tables \ {u}
  <2> HIDE DEF f, u, b, h
  <2>7. u \notin R /\ tables = R \union {u}
        BY <2>1
  <2> HIDE DEF R
  <2>8. /\ ChipsAt(tables, game) = ChipsAt(R, game) + ChipsOf(game[u])
        /\ ChipsAt(tables, game') = ChipsAt(R, game') + ChipsOf(game'[u])
        BY <1>1, <2>2, <2>6, <2>7, ChipsAtOneMore
  <2>9. ChipsAt(R, game') = ChipsAt(R, game)
        BY <1>1, <2>7, ChipsAtKept
  <2>10. ChipsAt(R, game) \in Int /\ ChipsOf(game[u]) \in Int
        BY <1>1, <2>2, ChipsAtIsInt, ChipsAreInt
  <2>11. ChipsOnTheWay = game[f].chips[b] /\ ChipsOnTheWay' = 0
        BY <1>1 DEF ChipsOnTheWay, f, b
  <2>12. ChipsAt(tables, game') + ChipsOnTheWay' = ChipsAt(tables, game) + ChipsOnTheWay
        BY <2>2, <2>4, <2>8, <2>9, <2>10, <2>11
  <2>13. tables' = tables /\ StillToSit' = StillToSit
        BY DEF SeatMover, StillToSit
  <2> QED BY <2>12, <2>13 DEF Tally
<1> QED BY <1>2, <1>3

\* A bot is moved with the stack it has, to a table that it was not at before.
LEMMA MovePlayerChips ==
  ASSUME Base, Apart, Between, OneMover, MovePlayer
  PROVE  OneMover' /\ (dbStatus = "running" /\ ~StaleMove => Tally' = Tally)
<1> DEFINE f == balancer.from
           u == balancer.to
           b == balancer.bot
<1>1. /\ balancer.pc = "move" /\ balancer'.pc = "store"
      /\ f \in TableIds /\ u \in TableIds /\ f # u /\ b \in Bots /\ balancer.stack \in Nat
      /\ game'[f] = Removed(game[f], b)
      /\ game'[u] = Added(game[u], b, balancer.stack)
      /\ \A t \in TableIds : t \notin {f, u} => game'[t] = game[t]
      BY MovePlayerGames
<1>2. OneMover'
      BY <1>1 DEF OneMover
<1>3. ASSUME dbStatus = "running", ~StaleMove
      PROVE  Tally' = Tally
  <2>1. /\ u \in tables /\ f \in tables /\ b \notin game[u].seated /\ b \in game[f].seated
        /\ balancer.stack = game[f].chips[b]
        BY <1>1, <1>3 DEF Between, PlanFits, MoveFits, TablesThere, StaleMove
  <2>2. \A t \in TableIds : Calm(game[t]) /\ game[t] \in Games
        BY DEF Between, TablesCalm, Calm
  <2>3. TablesCalm'
        BY MovePlayerBetween DEF Between
  <2>4. \A t \in TableIds : game'[t] \in Games
        BY <2>3 DEF TablesCalm, Calm
  <2>5. ChipsOf(game'[u]) = ChipsOf(game[u]) + balancer.stack
        BY <1>1, <2>1, <2>2, AddedChips
  <2>6. ChipsOf(game[f]) = ChipsOf(game'[f]) + balancer.stack
        BY <1>1, <2>1, <2>2, RemovedStack
  <2> DEFINE R == tables \ {f, u}
             Q == R \union {f}
  <2> HIDE DEF f, u, b
  <2>7. f \notin R /\ u \notin Q /\ tables = Q \union {u}
        BY <1>1, <2>1
  <2>8. \A t \in TableIds : t \in R => game'[t] = game[t]
        BY <1>1
  <2> HIDE DEF R
  <2>9. /\ ChipsAt(Q, game) = ChipsAt(R, game) + ChipsOf(game[f])
        /\ ChipsAt(Q, game') = ChipsAt(R, game') + ChipsOf(game'[f])
        BY <1>1, <2>2, <2>4, <2>7, ChipsAtOneMore
  <2> HIDE DEF Q
  <2>10. /\ ChipsAt(tables, game) = ChipsAt(Q, game) + ChipsOf(game[u])
         /\ ChipsAt(tables, game') = ChipsAt(Q, game') + ChipsOf(game'[u])
         BY <1>1, <2>2, <2>4, <2>7, ChipsAtOneMore
  <2>11. ChipsAt(R, game') = ChipsAt(R, game)
         BY <2>8, ChipsAtKept
  <2>12. /\ ChipsAt(R, game) \in Int /\ ChipsOf(game[u]) \in Int /\ ChipsOf(game[f]) \in Int
         /\ ChipsOf(game'[f]) \in Int
         BY <1>1, <2>2, <2>4, ChipsAtIsInt, ChipsAreInt
  <2>13. ChipsAt(tables, game') = ChipsAt(tables, game)
         BY <1>1, <2>5, <2>6, <2>9, <2>10, <2>11, <2>12
  <2>14. tables' = tables /\ StillToSit' = StillToSit
         BY DEF MovePlayer, StillToSit
  <2>15. ChipsOnTheWay' = ChipsOnTheWay
         BY <1>1 DEF ChipsOnTheWay
  <2> QED BY <2>13, <2>14, <2>15 DEF Tally
<1> QED BY <1>2, <1>3
\* The bots of a new table have their starting chips.
LEMMA CreatedChips ==
  ASSUME Base, TablesCalm, CreateTable
  PROVE  ChipsOf(game'[made + 1]) = StartingChips * Cardinality(Seating[made + 1])
<1> DEFINE n == made + 1
           c == [b \in Bots |-> IF b \in Seating[n] THEN StartingChips ELSE 0]
           l == IF Cardinality(Seating[n]) > 1 THEN "due" ELSE "none"
           h == [game[n] EXCEPT !.seated = Seating[n], !.loop = l, !.chips = c]
<1>1. n \in TableIds
      BY CreatedSeats
<1>2. game' = [game EXCEPT ![n] = h]
      BY DEF CreateTable
<1>3. Seating[n] \in SUBSET Bots /\ StartingChips \in Int /\ IsFiniteSet(Bots)
  <2>1. n \in DOMAIN Seating
        BY <1>1, DirectorAssumption DEF TableIds
  <2> QED BY <2>1, DirectorAssumption
<1>4. h.chips = c
  <2> HIDE DEF c, l
  <2> QED BY <1>1 DEF TablesCalm, Calm, Games
<1> HIDE DEF n, h
<1>5. game'[n] = h
      BY <1>1, <1>2 DEF Base, GamesOK
<1>6. SumFunction(c) = StartingChips * Cardinality(Seating[n])
      BY <1>3, SumOfIndicator
<1> HIDE DEF c
<1> QED BY <1>4, <1>5, <1>6 DEF ChipsOf, n

LEMMA CreateTableChips ==
  ASSUME Base, Between, OneMover, CreateTable
  PROVE  OneMover' /\ Tally' = Tally
<1> DEFINE n == made + 1
<1>1. /\ n \in TableIds /\ made' = n /\ tables' = tables \union {n}
      /\ game' = [game EXCEPT ![n] = game'[n]] /\ balancer' = balancer
      BY CreatedSeats DEF CreateTable
<1>2. made \in Nat /\ tables \subseteq 1 .. made /\ n \notin 1 .. made
      BY RestParts DEF Base
<1>3. /\ balancer.pc = "seat" => balancer.from \in 1 .. made
      /\ balancer.pc = "break" => balancer.others \subseteq 1 .. made
      BY BalancerParts DEF Base
<1>4. ChipsOf(game'[n]) = StartingChips * Cardinality(Seating[n])
      BY CreatedChips DEF Between
<1>5. StillToSit = Seating[n] \union StillToSit' /\ Seating[n] \cap StillToSit' = {}
      BY NextToSit
<1>6. TablesCalm'
      BY CreateTableBetween DEF Between
<1>7. Seating[n] \in SUBSET Bots /\ StillToSit' \subseteq Bots
  <2>1. n \in DOMAIN Seating /\ DOMAIN Seating = TableIds
        BY <1>1, DirectorAssumption DEF TableIds
  <2>2. StillToSit = UNION {Seating[t] : t \in n .. Len(Seating)}
        BY DEF StillToSit
  <2>3. \A t \in n .. Len(Seating) : t \in DOMAIN Seating
        BY <1>1, <1>2, <2>1 DEF TableIds
  <2>4. \A t \in DOMAIN Seating : Seating[t] \subseteq Bots
        BY DirectorAssumption
  <2>5. StillToSit \subseteq Bots
        BY <2>2, <2>3, <2>4
  <2> QED BY <1>5, <2>1, <2>4, <2>5
<1> HIDE DEF n
<1>8. \A t \in TableIds : t # n => game'[t] = game[t]
      BY <1>1 DEF Base, GamesOK
<1>9. OneMover'
  <2>1. \A t \in 1 .. made : t \in TableIds /\ t # n
        BY <1>2, RestParts DEF Base, TableIds
  <2>2. \A t \in 1 .. made : game'[t] = game[t]
        BY <1>8, <2>1
  <2>3. ASSUME balancer.pc = "seat"
        PROVE  balancer.from \notin tables' /\ game'[balancer.from].loop = "none"
        BY <1>1, <1>3, <2>1, <2>2, <2>3 DEF OneMover
  <2>4. ASSUME balancer.pc = "break", balancer.bots # {}
        PROVE  \E u \in balancer.others : Cardinality(Playable(game'[u])) < SeatsPerTable
        BY <1>3, <2>2, <2>4 DEF OneMover, Size
  <2> QED BY <1>1, <2>3, <2>4 DEF OneMover, Size
<1>10. ChipsOnTheWay' = ChipsOnTheWay
  <2>1. balancer.pc = "seat" => game'[balancer.from] = game[balancer.from]
    <3>1. \A t \in 1 .. made : t \in TableIds /\ t # n
          BY <1>2, RestParts DEF Base, TableIds
    <3> QED BY <1>3, <1>8, <3>1
  <2> QED BY <1>1, <2>1 DEF ChipsOnTheWay
<1>11. ChipsAt(tables', game') = ChipsAt(tables, game) + StartingChips * Cardinality(Seating[n])
  <2>1. n \notin tables /\ \A t \in TableIds : game'[t] \in Games
        BY <1>2, <1>6 DEF TablesCalm, Calm
  <2>2. ChipsAt(tables', game') = ChipsAt(tables, game') + ChipsOf(game'[n])
        BY <1>1, <2>1, ChipsAtOneMore
  <2>3. \A t \in TableIds : t \in tables => game'[t] = game[t]
        BY <1>8, <2>1
  <2>4. ChipsAt(tables, game') = ChipsAt(tables, game)
        BY <2>3, ChipsAtKept
  <2> QED BY <1>4, <2>2, <2>4
<1>12. /\ Cardinality(StillToSit) = Cardinality(Seating[n]) + Cardinality(StillToSit')
       /\ Cardinality(Seating[n]) \in Nat /\ Cardinality(StillToSit') \in Nat
  <2>1. IsFiniteSet(Seating[n]) /\ IsFiniteSet(StillToSit')
        BY <1>7, DirectorAssumption, FS_Subset
  <2> DEFINE S == Seating[n]
             R == StillToSit'
  <2>2. S \cap R = {} /\ StillToSit = S \union R /\ IsFiniteSet(S) /\ IsFiniteSet(R)
        BY <1>5, <2>1
  <2> HIDE DEF S, R
  <2>3. Cardinality(S) \in Nat /\ Cardinality(R) \in Nat
        BY <2>2, FS_CardinalityType
  <2>4. Cardinality(S \union R) = Cardinality(S) + Cardinality(R) - Cardinality(S \cap R)
        BY <2>2, FS_Union
  <2>5. Cardinality(S \cap R) = 0
        BY <2>2, FS_EmptySet
  <2>6. Cardinality(S \union R) = Cardinality(S) + Cardinality(R)
        BY <2>3, <2>4, <2>5
  <2> QED BY <2>2, <2>3, <2>6 DEF S, R
<1>13. Tally' = Tally
  <2>1. StartingChips \in Nat
        BY DirectorAssumption
  <2>2. ChipsAt(tables, game) \in Int
        BY ChipsAtIsInt DEF Base, GamesOK
  <2>3. ChipsOnTheWay \in Int
    <3>1. balancer.pc = "seat" => balancer.from \in TableIds /\ balancer.bot \in Bots
          BY BalancerParts DEF Base
    <3> QED BY <3>1 DEF ChipsOnTheWay, Base, GamesOK, Games
  <2> DEFINE a == ChipsAt(tables, game)
             w == ChipsOnTheWay
             x == Cardinality(Seating[n])
             y == Cardinality(StillToSit')
             p == StartingChips * x
             q == StartingChips * y
  <2>4. StartingChips * (x + y) = p + q /\ p \in Int /\ q \in Int
    <3>1. x \in Int /\ y \in Int /\ StartingChips \in Int
          BY <1>12, <2>1
    <3> HIDE DEF x, y
    <3> QED BY <3>1
  <2>5. /\ a \in Int /\ w \in Int
        /\ Tally = a + w + StartingChips * (x + y)
        /\ Tally' = (a + p) + w + q
        BY <1>10, <1>11, <1>12, <2>2, <2>3 DEF Tally
  <2> HIDE DEF a, w, x, y, p, q
  <2>6. (a + p) + w + q = a + w + (p + q)
        BY <2>4, <2>5
  <2> QED BY <2>4, <2>5, <2>6
<1> QED BY <1>9, <1>13

LEMMA InitChips ==
  ASSUME Init
  PROVE  OneMover /\ AllChips = StartingChips * Cardinality(Bots)
<1>1. Base /\ TablesCalm
      BY InitBase, InitBetween DEF Between
<1>2. tables = {} /\ made = 0 /\ balancer.pc = "off"
      BY DEF Init, Idle
<1>3. OneMover /\ ChipsOnTheWay = 0
      BY <1>2 DEF OneMover, ChipsOnTheWay
<1>4. ChipsAt(tables, game) = 0
  <2>1. SumFunction([t \in TableIds |-> 0]) = 0
        BY TableIdsFinite, SumOfZero
  <2>2. [t \in TableIds |-> IF t \in tables THEN ChipsOf(game[t]) ELSE 0] = [t \in TableIds |-> 0]
        BY <1>2
  <2> QED BY <2>1, <2>2 DEF ChipsAt
<1>5. StillToSit = Bots
  <2>1. DOMAIN Seating = 1 .. Len(Seating)
        BY DirectorAssumption
  <2>2. StillToSit = UNION {Seating[t] : t \in DOMAIN Seating}
        BY <1>2, <2>1 DEF StillToSit
  <2> QED BY <2>2, SeatingAssumption
<1>6. StartingChips * Cardinality(Bots) \in Int
      BY DirectorAssumption, FS_CardinalityType
<1>7. AllChips = ChipsAt(tables, game) + ChipsOnTheWay + StartingChips * Cardinality(StillToSit)
      BY <1>1, <1>3, ChipsCounted
<1> QED BY <1>3, <1>4, <1>5, <1>6, <1>7
\* Every step but those that bring another stack keeps the chips.
LEMMA StepTally ==
  ASSUME Base, Apart, Between, OneMover, [Next]_vars
  PROVE  OneMover' /\ (dbStatus' = "running" /\ [~StaleMove]_vars => Tally' = Tally)
<1>1. CASE UNCHANGED vars
      BY <1>1, StoredChips DEF vars
<1>2. CASE Director
  <2>1. CASE CreateTable
        BY <2>1, CreateTableChips
  <2>2. CASE ChipsSynced
    <3>1. UNCHANGED <<made, tables, game>>
          BY <2>2 DEF ChipsSynced
    <3>2. LoopsOnly(game') /\ AllKeep(game')
          BY <3>1, NoLoop, GamesKeep DEF Between
    <3> QED BY <2>2, <3>1, <3>2, PlanChips DEF ChipsSynced
  <2>3. CASE MovePlayer
    <3>1. dbStatus' = dbStatus /\ balancer' # balancer
          BY <2>3, MovePlayerGames DEF MovePlayer, database
    <3>2. [~StaleMove]_vars => ~StaleMove
          BY <3>1 DEF vars
    <3> QED BY <2>3, <3>1, <3>2, MovePlayerChips
  <2>4. CASE MoveStored
        BY <2>4, StoredChips DEF MoveStored
  <2>5. CASE BreakTable
    <3>1. dbStatus' = dbStatus
          BY <2>5 DEF BreakTable, database
    <3> QED BY <2>5, <3>1, BreakTableChips
  <2>6. CASE SeatMover
    <3>1. dbStatus' = dbStatus /\ balancer' # balancer
          BY <2>6, SeatMoverGames DEF SeatMover, database
    <3>2. [~StaleMove]_vars => ~StaleMove
          BY <3>1 DEF vars
    <3> QED BY <2>6, <3>1, <3>2, SeatMoverChips
  <2>7. CASE MoverStored
        BY <2>7, MoverStoredChips
  <2>8. CASE SafetyNet
    <3>1. UNCHANGED <<made, tables, game>>
          BY <2>8 DEF SafetyNet
    <3>2. balancer' = balancer \/ CheckTableBalancing(FALSE)
          BY <2>8 DEF SafetyNet
    <3>3. LoopsOnly(game') /\ AllKeep(game')
          BY <3>1, NoLoop, GamesKeep DEF Between
    <3> QED BY <3>1, <3>2, <3>3, PlanChips
  <2>9. CASE PayoutStored
        BY <2>9, StoredChips DEF PayoutStored
  <2>10. CASE TournamentFinished
    <3>1. dbStatus' # "running"
          BY <2>10 DEF TournamentFinished
    <3> QED BY <2>10, <3>1, FinishedChips
  <2>11. ASSUME NEW h \in DOMAIN busting, BustStored(h)
         PROVE  OneMover' /\ Tally' = Tally
    <3>1. AllStay(game') /\ AllKeep(game')
          BY <2>11, BustStoredBetween, BustStoredKeeps
    <3>2. UNCHANGED <<made, tables, balancer>>
          BY <2>11 DEF BustStored
    <3> QED BY <3>1, <3>2, QuietChips
  <2> QED BY <1>2, <2>1, <2>2, <2>3, <2>4, <2>5, <2>6, <2>7, <2>8, <2>9, <2>10, <2>11
          DEF Director
<1>3. ASSUME NEW t \in TableIds, TableStep(t)
      PROVE  OneMover' /\ Tally' = Tally
  <2>1. CASE StartGame(t) \/ GameOver(t)
    <3>1. PICK l \in Loops : /\ l # "hand" /\ game[t].loop # "none"
                             /\ game' = [game EXCEPT ![t] = [game[t] EXCEPT !.loop = l]]
          BY <2>1 DEF StartGame, GameOver, Loops
    <3> DEFINE h == [game[t] EXCEPT !.loop = l]
    <3>2. Waits(h, game[t]) /\ Keeps(h, game[t])
          BY <3>1, LoopWaits, LoopKeeps DEF Between, TablesCalm
    <3>3. game' = [game EXCEPT ![t] = h]
          BY <3>1
    <3> HIDE DEF h
    <3>4. LoopsOnly(game')
          BY <3>2, <3>3, OneLoop DEF Between
    <3>5. AllKeep(game')
      <4>1. game'[t] = h /\ \A u \in TableIds : u # t => game'[u] = game[u]
            BY <3>3 DEF Base, GamesOK
      <4> QED BY <3>2, <4>1, KeepsItself DEF AllKeep
    <3>6. UNCHANGED <<made, tables>>
          BY <2>1 DEF StartGame, GameOver
    <3>7. balancer' = balancer \/ CheckTableBalancing(FALSE)
          BY <2>1 DEF StartGame, GameOver
    <3> QED BY <3>4, <3>5, <3>6, <3>7, PlanChips
  <2>2. CASE PlayHand(t)
    <3>1. AllStay(game') /\ AllKeep(game')
          BY <2>2, PlayHandBetween, PlayHandKeeps
    <3>2. UNCHANGED <<made, tables, balancer>>
          BY <2>2 DEF PlayHand
    <3> QED BY <3>1, <3>2, QuietChips
  <2> QED BY <1>3, <2>1, <2>2 DEF TableStep
<1> QED BY <1>1, <1>2, <1>3 DEF Next

LEMMA StepChips ==
  Base /\ Apart /\ Between /\ OneMover /\ [Next]_vars
  => /\ (Base /\ Apart /\ Between /\ OneMover)'
     /\ dbStatus' = "running" /\ [~StaleMove]_vars => AllChips' = AllChips
<1> SUFFICES ASSUME Base, Apart, Between, OneMover, [Next]_vars
             PROVE  /\ (Base /\ Apart /\ Between /\ OneMover)'
                    /\ dbStatus' = "running" /\ [~StaleMove]_vars => AllChips' = AllChips
    OBVIOUS
<1>1. [InterleavedNext]_vars
      BY DEF InterleavedNext
<1>2. Base' /\ Apart' /\ Between'
      BY <1>1, StepTyped, StepApart, StepBetween
<1>3. OneMover' /\ (dbStatus' = "running" /\ [~StaleMove]_vars => Tally' = Tally)
      BY StepTally
<1>4. AllChips = Tally
      BY ChipsCounted DEF Tally, Between
<1>5. AllChips' = Tally'
      BY <1>2, <1>3, ChipsCountedNext DEF Tally, Between
<1> QED BY <1>2, <1>3, <1>4, <1>5

LEMMA StatusStays ==
  ASSUME [Next]_vars, dbStatus' = "running"
  PROVE  dbStatus = "running"
<1>1. CASE UNCHANGED vars
      BY <1>1 DEF vars, database
<1>2. CASE Director
  <2>1. ~TournamentFinished
        BY DEF TournamentFinished
  <2> QED BY <1>2, <2>1 DEF Director, CreateTable, ChipsSynced, MovePlayer, MoveStored,
             BreakTable, SeatMover, MoverStored, SafetyNet, PayoutStored, BustStored, database
<1>3. ASSUME NEW t \in TableIds, TableStep(t)
      PROVE  dbStatus = "running"
      BY <1>3 DEF TableStep, StartGame, PlayHand, GameOver, database
<1> QED BY <1>1, <1>2, <1>3 DEF Next

\* Chips are made or lost only where a bot joins a table with a stack that is not the one
\* it left, whatever handlers and tables do meanwhile: by the moves of balancing, and by
\* nothing else.
THEOREM ChipsLostByStaleMovesOnly == Spec => ChipsKept
<1>1. Init => Base /\ Apart /\ Between /\ OneMover
      BY InitBase, InitApart, InitBetween, InitChips
<1>2. Base /\ Apart /\ Between /\ OneMover /\ [Next]_vars
        => (Base /\ Apart /\ Between /\ OneMover)'
      BY StepChips
<1>3. Base /\ Apart /\ Between /\ OneMover /\ [Next]_vars
        => [dbStatus' = "running" /\ ~StaleMove => AllChips' = AllChips]_vars
      BY StepChips
<1> QED BY <1>1, <1>2, <1>3, PTL DEF Spec, ChipsKept

\* While no bot is moved with another stack than its own, every chip that was handed out
\* is at a table, on its way, or still to be handed out.
THEOREM ChipsConserved == Spec /\ [][~StaleMove]_vars => []TournamentChips
<1> DEFINE Inv == Base /\ Apart /\ Between /\ OneMover /\ TournamentChips
<1>1. Init => Inv
      BY InitBase, InitApart, InitBetween, InitChips DEF TournamentChips
<1>2. Inv /\ [Next]_vars /\ [~StaleMove]_vars => Inv'
  <2> SUFFICES ASSUME Base, Apart, Between, OneMover, TournamentChips,
                      [Next]_vars, [~StaleMove]_vars
               PROVE  Inv'
      OBVIOUS
  <2>1. /\ (Base /\ Apart /\ Between /\ OneMover)'
        /\ dbStatus' = "running" => AllChips' = AllChips
        BY StepChips
  <2>2. dbStatus' = "running" => dbStatus = "running"
        BY StatusStays
  <2>3. TournamentChips'
        BY <2>1, <2>2 DEF TournamentChips
  <2> QED BY <2>1, <2>3
<1>3. Inv => TournamentChips
      OBVIOUS
<1> HIDE DEF Inv
<1> QED BY <1>1, <1>2, <1>3, PTL DEF Spec
-----------------------------------------------------------------------------
(* Two tables *)

\* Two tables of almost equal size, as the snake seats them, whose games are played out
\* before the director goes on.
TwoEvenTables ==
  /\ ~Interleaved /\ Len(Seating) <= 2
  /\ \A t, u \in DOMAIN Seating : Cardinality(Seating[t]) <= Cardinality(Seating[u]) + 1

\* While none of them is broken, each has its first bots: the game is not begun, or it is
\* over, but for one that is played just now.
FirstTables == tables = 1 .. made => \A t \in tables :
  /\ game[t].seated = Seating[t] /\ game[t].loop # "error"
  /\ game[t].loop \in {"none", "due"} => \A b \in Seating[t] : game[t].chips[b] = StartingChips
  /\ game[t].loop = "finished" => Size(t) < 2

\* So no bot is moved for balancing, and the bot of a broken table is new at the other.
NoMove == balancer.pc \notin {"move", "store"}
OneBreak ==
  /\ balancer.pc \in {"seat", "seated"} => balancer.from \notin tables
  /\ balancer.pc = "seat" =>
       /\ balancer.bot \in game[balancer.from].seated
       /\ \A t \in {balancer.from, balancer.to} : game[t].seated = Seating[t]
PairInv == dbStatus = "running" => FirstTables /\ NoMove /\ OneBreak

LEMMA TwoTables ==
  ASSUME Base, TwoEvenTables, NEW t \in tables, NEW u \in tables, t # u
  PROVE  /\ tables = {t, u} /\ tables = 1 .. made
         /\ t \in DOMAIN Seating /\ u \in DOMAIN Seating
<1>1. /\ tables \subseteq 1 .. made /\ made \in Nat /\ made <= 2
      /\ tables \subseteq DOMAIN Seating
  <2>1. /\ made \in 0 .. Len(Seating) /\ tables \subseteq 1 .. made /\ Len(Seating) \in Nat
        /\ tables \subseteq TableIds
        BY RestParts DEF Base
  <2>2. DOMAIN Seating = TableIds
        BY DirectorAssumption DEF TableIds
  <2> QED BY <2>1, <2>2 DEF TwoEvenTables
<1>2. \A v \in 1 .. made : v = 1 \/ v = 2
      BY <1>1
<1>3. {t, u} = {1, 2}
      BY <1>1, <1>2
<1>4. made = 2 /\ 1 .. made = {1, 2}
      BY <1>1
<1>5. tables = {1, 2}
      BY <1>1, <1>3, <1>4
<1> QED BY <1>1, <1>3, <1>4, <1>5

LEMMA FreshTable ==
  ASSUME Base, TablesCalm, FirstTables, tables = 1 .. made, NEW t \in tables,
         game[t].loop \in {"none", "due"}
  PROVE  Playable(game[t]) = Seating[t]
<1>1. /\ Calm(game[t]) /\ game[t].seated = Seating[t]
      /\ \A b \in Seating[t] : game[t].chips[b] = StartingChips
      BY RestParts DEF Base, TablesCalm, FirstTables
<1>2. \A b \in Seating[t] : b \in Bots /\ game[t].chips[b] > 0
      BY <1>1, DirectorAssumption DEF Calm, Games
<1>3. \A b \in Seating[t] : b \in Sitting(game[t])
      BY <1>1, <1>2 DEF Calm
<1> QED BY <1>1, <1>2, <1>3 DEF Playable, Sitting

\* Two tables of which none is played are even, or one is over.
LEMMA NoMovePlanned ==
  ASSUME Base, TablesCalm, FirstTables, TwoEvenTables, NEW x, CheckTableBalancing(x),
         DirectorsTurn \/ \E v \in tables : Size(v) < 2
  PROVE  \/ balancer' = balancer
         \/ balancer.pc = "off" /\ balancer'.pc = "break"
<1> SUFFICES ASSUME NEW t \in tables, NEW u \in tables, Size(u) + 1 < Size(t), Size(u) >= 2
             PROVE  FALSE
    BY BalancingPlans
<1>1. /\ tables \subseteq TableIds
      /\ \A v \in tables : Size(v) \in Nat /\ Calm(game[v])
      BY RestParts, SizeIsNat DEF Base, TablesCalm
<1>2. t # u
      BY <1>1
<1>3. /\ tables = {t, u} /\ tables = 1 .. made
      /\ t \in DOMAIN Seating /\ u \in DOMAIN Seating
      BY <1>2, TwoTables
<1>4. \A v \in tables : ~(Size(v) < 2)
      BY <1>1, <1>3
<1>5. \A v \in tables : game[v].loop \in {"none", "due"}
  <2>1. \A v \in tables : game[v].loop \in Loops \ {"hand", "running"}
        BY <1>1, <1>4 DEF DirectorsTurn, TwoEvenTables, Calm, Games
  <2> QED BY <1>3, <1>4, <2>1 DEF FirstTables, Loops
<1>6. Size(t) = Cardinality(Seating[t]) /\ Size(u) = Cardinality(Seating[u])
      BY <1>3, <1>5, FreshTable DEF Size
<1>7. Size(t) <= Size(u) + 1
      BY <1>3, <1>6 DEF TwoEvenTables
<1> QED BY <1>1, <1>7

LEMMA FirstKept ==
  ASSUME Base, FirstTables, UNCHANGED <<made, tables>>,
         AllStay(game'), AllKeep(game'), SameLoops(game')
  PROVE  FirstTables'
<1> SUFFICES ASSUME tables = 1 .. made, NEW t \in tables
             PROVE  /\ game'[t].seated = Seating[t] /\ game'[t].loop # "error"
                    /\ game'[t].loop \in {"none", "due"} =>
                          \A b \in Seating[t] : game'[t].chips[b] = StartingChips
                    /\ game'[t].loop = "finished" => Cardinality(Playable(game'[t])) < 2
    BY DEF FirstTables, Size
<1>1. t \in TableIds
      BY RestParts DEF Base
<1>2. /\ game'[t].seated = game[t].seated /\ game'[t].loop = game[t].loop
      /\ game[t].loop # "running" => game'[t].chips = game[t].chips
      BY <1>1 DEF AllStay, Stays, Shrinks, AllKeep, Keeps, SameLoops
<1>3. game[t].loop = "finished" => Cardinality(Playable(game'[t])) < 2
      BY <1>1, SizesStay DEF FirstTables
<1> QED BY <1>2, <1>3 DEF FirstTables

LEMMA PairKept ==
  ASSUME Base, PairInv, UNCHANGED <<made, tables>>, dbStatus' = dbStatus,
         \A t \in TableIds : game'[t].seated = game[t].seated,
         balancer' = balancer \/ balancer'.pc \in {"off", "break"},
         dbStatus = "running" => FirstTables'
  PROVE  PairInv'
<1> SUFFICES ASSUME dbStatus = "running" PROVE NoMove' /\ OneBreak'
    BY DEF PairInv
<1>1. NoMove /\ OneBreak
      BY DEF PairInv
<1>2. CASE balancer' = balancer
  <2>1. balancer.pc = "seat" => balancer.from \in TableIds /\ balancer.to \in TableIds
        BY BalancerParts DEF Base
  <2>2. NoMove'
        BY <1>1, <1>2 DEF NoMove
  <2>3. OneBreak'
        BY <1>1, <1>2, <2>1 DEF OneBreak
  <2> QED BY <2>2, <2>3
<1>3. CASE balancer'.pc \in {"off", "break"}
      BY <1>3 DEF NoMove, OneBreak
<1> QED BY <1>2, <1>3

\* A game that goes on, or is over.
LEMMA FirstLoop ==
  ASSUME Base, TablesCalm, FirstTables, UNCHANGED <<made, tables>>, NEW t \in TableIds,
         NEW l \in Loops, l # "hand",
         l = "running" \/ (l = "finished" /\ Size(t) < 2),
         game' = [game EXCEPT ![t] = [game[t] EXCEPT !.loop = l]]
  PROVE  FirstTables' /\ \A u \in TableIds : game'[u].seated = game[u].seated
<1> DEFINE h == [game[t] EXCEPT !.loop = l]
<1>1. /\ h.seated = game[t].seated /\ h.chips = game[t].chips /\ h.loop = l
      /\ Playable(h) = Playable(game[t])
  <2>1. game[t] \in Games
        BY DEF Base, GamesOK
  <2> QED BY <2>1 DEF Games, Playable
<1>2. game'[t] = h /\ \A u \in TableIds : u # t => game'[u] = game[u]
      BY DEF Base, GamesOK
<1> HIDE DEF h
<1>3. ASSUME tables = 1 .. made, NEW u \in tables
      PROVE  /\ game'[u].seated = Seating[u] /\ game'[u].loop # "error"
             /\ game'[u].loop \in {"none", "due"} =>
                   \A b \in Seating[u] : game'[u].chips[b] = StartingChips
             /\ game'[u].loop = "finished" => Cardinality(Playable(game'[u])) < 2
  <2>1. u \in TableIds
        BY RestParts DEF Base
  <2>2. CASE u = t
        BY <1>1, <1>2, <1>3, <2>2 DEF FirstTables, Size
  <2>3. CASE u # t
        BY <1>2, <1>3, <2>1, <2>3 DEF FirstTables, Size
  <2> QED BY <2>2, <2>3
<1>4. FirstTables'
      BY <1>3 DEF FirstTables, Size
<1>5. \A u \in TableIds : game'[u].seated = game[u].seated
      BY <1>1, <1>2
<1> QED BY <1>4, <1>5
LEMMA PairTableStep ==
  ASSUME Base, Between, PairInv, TwoEvenTables, NEW t \in TableIds, TableStep(t)
  PROVE  PairInv'
<1>1. UNCHANGED <<made, tables, dbStatus>> /\ TablesCalm
      BY DEF TableStep, StartGame, PlayHand, GameOver, database, Between
<1>2. CASE StartGame(t)
  <2>1. /\ game' = [game EXCEPT ![t] = [game[t] EXCEPT !.loop = "running"]]
        /\ balancer' = balancer
        BY <1>2 DEF StartGame
  <2>2. dbStatus = "running" => FirstTables'
        BY <1>1, <2>1, FirstLoop DEF Loops, PairInv
  <2>3. \A u \in TableIds : game'[u].seated = game[u].seated
        BY <2>1 DEF Base, GamesOK, Games
  <2> QED BY <1>1, <2>1, <2>2, <2>3, PairKept
<1>3. CASE PlayHand(t)
  <2>1. AllStay(game') /\ AllKeep(game') /\ SameLoops(game') /\ balancer' = balancer
        BY <1>3, PlayHandBetween, PlayHandKeeps DEF PlayHand
  <2>2. dbStatus = "running" => FirstTables'
        BY <1>1, <2>1, FirstKept DEF PairInv
  <2>3. \A u \in TableIds : game'[u].seated = game[u].seated
        BY <2>1 DEF AllStay, Stays, Shrinks
  <2> QED BY <1>1, <2>1, <2>2, <2>3, PairKept
<1>4. CASE GameOver(t)
  <2>1. /\ game' = [game EXCEPT ![t] = [game[t] EXCEPT !.loop = "finished"]] /\ Size(t) < 2
        /\ balancer' = balancer \/ (t \in tables /\ CheckTableBalancing(FALSE))
        BY <1>4 DEF GameOver
  <2>2. dbStatus = "running" => FirstTables'
        BY <1>1, <2>1, FirstLoop DEF Loops, PairInv
  <2>3. \A u \in TableIds : game'[u].seated = game[u].seated
        BY <2>1 DEF Base, GamesOK, Games
  <2>4. dbStatus = "running" => balancer' = balancer \/ balancer'.pc = "break"
        BY <1>1, <2>1, NoMovePlanned DEF PairInv
  <2> QED BY <1>1, <2>2, <2>3, <2>4, PairKept DEF PairInv
<1> QED BY <1>2, <1>3, <1>4 DEF TableStep

LEMMA PairCreateTable ==
  ASSUME Base, Between, PairInv, CreateTable
  PROVE  PairInv'
<1> SUFFICES ASSUME dbStatus = "running" PROVE FirstTables' /\ NoMove' /\ OneBreak'
    BY DEF PairInv, CreateTable, database
<1> DEFINE n == made + 1
           l == IF Cardinality(Seating[n]) > 1 THEN "due" ELSE "none"
           c == [b \in Bots |-> IF b \in Seating[n] THEN StartingChips ELSE 0]
           h == [game[n] EXCEPT !.seated = Seating[n], !.loop = l, !.chips = c]
<1>1. /\ n \in TableIds /\ made' = n /\ tables' = tables \union {n} /\ balancer' = balancer
      /\ made \in Nat /\ tables \subseteq 1 .. made /\ tables \subseteq TableIds
      BY CreatedSeats, RestParts DEF Base, CreateTable
<1>2. game' = [game EXCEPT ![n] = h]
      BY DEF CreateTable
<1>3. /\ h.seated = Seating[n] /\ h.loop \in {"none", "due"}
      /\ \A b \in Seating[n] : h.chips[b] = StartingChips
  <2>1. game[n] \in Games /\ l \in {"none", "due"}
        BY <1>1 DEF Base, GamesOK
  <2>2. \A b \in Seating[n] : c[b] = StartingChips
    <3>1. n \in DOMAIN Seating
          BY <1>1, DirectorAssumption DEF TableIds
    <3>2. Seating[n] \subseteq Bots
          BY <3>1, DirectorAssumption
    <3> QED BY <3>2
  <2> HIDE DEF l, c
  <2>3. h.seated = Seating[n] /\ h.loop = l /\ h.chips = c
        BY <2>1 DEF Games
  <2> QED BY <2>1, <2>2, <2>3
<1> HIDE DEF h
<1>4. \A t \in 1 .. made : t # n /\ t \in TableIds
      BY <1>1, RestParts DEF Base, TableIds
<1>5. n \notin tables /\ (tables \union {n} = 1 .. n => tables = 1 .. made)
  <2>1. \A t \in 1 .. made : t \in 1 .. n
        BY <1>1
  <2> QED BY <1>1, <1>4, <2>1
<1> HIDE DEF n
<1>6. game'[n] = h /\ \A t \in TableIds : t # n => game'[t] = game[t]
      BY <1>1, <1>2 DEF Base, GamesOK
<1>7. FirstTables /\ NoMove /\ OneBreak
      BY DEF PairInv
<1>8. FirstTables'
  <2> SUFFICES ASSUME tables' = 1 .. made', NEW t \in tables'
               PROVE  /\ game'[t].seated = Seating[t] /\ game'[t].loop # "error"
                      /\ game'[t].loop \in {"none", "due"} =>
                            \A b \in Seating[t] : game'[t].chips[b] = StartingChips
                      /\ game'[t].loop = "finished" => Cardinality(Playable(game'[t])) < 2
      BY DEF FirstTables, Size
  <2>1. CASE t = n
        BY <1>3, <1>6, <2>1
  <2>2. CASE t # n
    <3>1. t \in tables /\ tables = 1 .. made /\ game'[t] = game[t]
          BY <1>1, <1>5, <1>6, <2>2
    <3> QED BY <1>7, <3>1 DEF FirstTables, Size
  <2> QED BY <2>1, <2>2
<1>9. NoMove'
      BY <1>1, <1>7 DEF NoMove
<1>10. OneBreak'
  <2>1. /\ balancer.pc \in {"seat", "seated"} => balancer.from \in 1 .. made
        /\ balancer.pc = "seat" => balancer.to \in 1 .. made
        BY BalancerParts DEF Base
  <2>2. \A t \in 1 .. made : game'[t] = game[t] /\ t # n
        BY <1>4, <1>6
  <2> QED BY <1>1, <1>7, <2>1, <2>2 DEF OneBreak
<1> QED BY <1>8, <1>9, <1>10

\* The table that is broken is one of the first two, and its bot goes to the other.
LEMMA PairBreakTable ==
  ASSUME Base, Between, PairInv, TwoEvenTables, BreakTable
  PROVE  PairInv'
<1> SUFFICES ASSUME dbStatus = "running" PROVE FirstTables' /\ NoMove' /\ OneBreak'
    BY DEF PairInv, BreakTable, database
<1> DEFINE f == balancer.from
<1>1. /\ balancer.pc = "break" /\ NextMover /\ tables' = tables \ {f} /\ f \in TableIds
      /\ made' = made /\ f \in 1 .. made /\ f \notin tables'
      BY BalancerParts DEF Base, BreakTable
<1>2. /\ f \in tables /\ balancer.others \subseteq tables \ {f}
      /\ balancer.bots = Playable(game[f])
      BY <1>1 DEF Between, PlanFits, TablesThere, BreakFits
<1>3. FirstTables'
      BY <1>1 DEF FirstTables
<1>4. \A t \in TableIds : game'[t].seated = game[t].seated
  <2> DEFINE r == IF balancer.bots = {} THEN Restarted(balancer.others) ELSE game
  <2>1. LoopsOnly(r)
        BY LoopsRestarted, NoLoop DEF Between
  <2>2. \A t \in TableIds : r[t].seated = game[t].seated /\ r[t] \in Games
        BY <2>1 DEF LoopsOnly, Waits, Stays, Shrinks, Calm
  <2>3. game' = [r EXCEPT ![f] = Stopped(r[f])]
        BY DEF BreakTable
  <2> HIDE DEF r, f
  <2>4. Stopped(r[f]).seated = r[f].seated
        BY <1>1, <2>2 DEF Stopped, Games
  <2>5. game'[f] = Stopped(r[f]) /\ \A t \in TableIds : t # f => game'[t] = r[t]
        BY <1>1, <2>1, <2>3 DEF LoopsOnly
  <2> QED BY <2>2, <2>4, <2>5
<1> HIDE DEF f
<1>5. CASE balancer' = Idle
      BY <1>3, <1>5 DEF NoMove, OneBreak, Idle
<1>6. ASSUME NEW b \in balancer.bots, NEW u \in balancer.others,
             balancer' = [pc |-> "seat", ofHand |-> balancer.ofHand, from |-> balancer.from,
                          to |-> u, bot |-> b, bots |-> balancer.bots \ {b},
                          others |-> balancer.others]
      PROVE  NoMove' /\ OneBreak'
  <2>1. /\ balancer'.pc = "seat" /\ balancer'.from = f /\ balancer'.to = u /\ balancer'.bot = b
        BY <1>6 DEF f
  <2>2. u \in tables /\ u # f
        BY <1>2
  <2>3. tables = 1 .. made
        BY <1>2, <2>2, TwoTables
  <2>4. game[f].seated = Seating[f] /\ game[u].seated = Seating[u]
        BY <1>2, <2>2, <2>3 DEF PairInv, FirstTables
  <2>5. u \in TableIds /\ b \in game[f].seated
        BY <1>2, <2>2, RestParts DEF Base, Playable
  <2> QED BY <1>1, <1>4, <2>1, <2>4, <2>5 DEF NoMove, OneBreak
<1>7. \/ balancer' = Idle
      \/ \E b \in balancer.bots, u \in balancer.others :
            balancer' = [pc |-> "seat", ofHand |-> balancer.ofHand, from |-> balancer.from,
                         to |-> u, bot |-> b, bots |-> balancer.bots \ {b},
                         others |-> balancer.others]
      BY <1>1, MoverPlans
<1> QED BY <1>3, <1>5, <1>6, <1>7

LEMMA PairStep ==
  ASSUME Base, Between, OneMover, PairInv, TwoEvenTables, [Next]_vars
  PROVE  PairInv'
<1>0. TablesCalm
      BY DEF Between
<1>1. CASE UNCHANGED vars
      BY <1>1 DEF vars, database, PairInv, FirstTables, NoMove, OneBreak, Size
<1>2. CASE Director
  <2>1. CASE CreateTable
        BY <2>1, PairCreateTable
  <2>2. CASE ChipsSynced \/ SafetyNet
    <3>1. UNCHANGED <<made, tables, game, dbStatus>> /\ DirectorsTurn
          BY <2>2 DEF ChipsSynced, SafetyNet, database
    <3>2. \/ balancer' = balancer
          \/ CheckTableBalancing(TRUE) \/ CheckTableBalancing(FALSE)
          BY <2>2 DEF ChipsSynced, SafetyNet
    <3>3. dbStatus = "running" => balancer' = balancer \/ balancer'.pc = "break"
          BY <1>0, <3>1, <3>2, NoMovePlanned DEF PairInv
    <3>4. dbStatus = "running" => FirstTables'
          BY <3>1 DEF PairInv, FirstTables, Size
    <3> QED BY <3>1, <3>3, <3>4, PairKept DEF PairInv
  <2>3. CASE MovePlayer \/ MoveStored
    <3>1. dbStatus' = dbStatus /\ balancer.pc \in {"move", "store"}
          BY <2>3 DEF MovePlayer, MoveStored, database
    <3> QED BY <3>1 DEF PairInv, NoMove
  <2>4. CASE BreakTable
        BY <2>4, PairBreakTable
  <2>5. CASE SeatMover
    <3>1. /\ balancer.pc = "seat" /\ balancer'.pc = "seated" /\ balancer'.from = balancer.from
          /\ UNCHANGED <<made, tables, dbStatus>>
          BY <2>5, SeatMoverGames DEF SeatMover, Seats, database
    <3>2. balancer.from \in 1 .. made /\ balancer.from \notin tables
          BY <3>1, BalancerParts DEF Base, OneMover
    <3> QED BY <3>1, <3>2 DEF PairInv, FirstTables, NoMove, OneBreak
  <2>6. CASE MoverStored
    <3>1. /\ balancer.pc = "seated" /\ balancer'.pc = "off"
          /\ UNCHANGED <<made, tables, dbStatus>>
          BY <2>6 DEF MoverStored, OneMover, NextMover, Idle, database
    <3>2. /\ balancer.from \in 1 .. made
          /\ dbStatus = "running" => balancer.from \notin tables
          BY <3>1, BalancerParts DEF Base, PairInv, OneBreak
    <3> QED BY <3>1, <3>2 DEF PairInv, FirstTables, NoMove, OneBreak
  <2>7. CASE PayoutStored
        BY <2>7 DEF PayoutStored, PairInv, FirstTables, NoMove, OneBreak, Size
  <2>8. CASE TournamentFinished
        BY <2>8 DEF TournamentFinished, PairInv
  <2>9. ASSUME NEW h \in DOMAIN busting, BustStored(h)
        PROVE  PairInv'
    <3>1. AllStay(game') /\ AllKeep(game') /\ SameLoops(game')
          BY <2>9, BustStoredBetween, BustStoredKeeps
    <3>2. UNCHANGED <<made, tables, balancer, dbStatus>>
          BY <2>9 DEF BustStored
    <3>3. dbStatus = "running" => FirstTables'
          BY <3>1, <3>2, FirstKept DEF PairInv
    <3>4. \A u \in TableIds : game'[u].seated = game[u].seated
          BY <3>1 DEF AllStay, Stays, Shrinks
    <3> QED BY <3>2, <3>3, <3>4, PairKept
  <2> QED BY <1>2, <2>1, <2>2, <2>3, <2>4, <2>5, <2>6, <2>7, <2>8, <2>9 DEF Director
<1>3. ASSUME NEW t \in TableIds, TableStep(t)
      PROVE  PairInv'
      BY <1>3, PairTableStep
<1> QED BY <1>1, <1>2, <1>3 DEF Next

LEMMA PairNotStale ==
  ASSUME Base, Between, OneMover, PairInv, dbStatus = "running"
  PROVE  ~StaleMove
<1>1. ~MovePlayer
      BY DEF PairInv, NoMove, MovePlayer
<1>2. ASSUME SeatMover PROVE balancer.bot \notin game[balancer.to].seated
  <2>1. balancer.pc = "seat"
        BY <1>2 DEF SeatMover
  <2>2. /\ balancer.from \notin tables /\ balancer.to \in tables
        /\ balancer.from \in TableIds /\ balancer.to \in TableIds
        BY <2>1, BalancerParts DEF Base, OneMover, Between, PlanFits, TablesThere
  <2>3. /\ balancer.bot \in game[balancer.from].seated
        /\ game[balancer.from].seated = Seating[balancer.from]
        /\ game[balancer.to].seated = Seating[balancer.to]
        BY <2>1 DEF PairInv, OneBreak
  <2>4. TableIds = DOMAIN Seating
        BY DirectorAssumption DEF TableIds
  <2>5. Seating[balancer.from] \cap Seating[balancer.to] = {}
        BY <2>2, <2>4, SeatingAssumption
  <2> QED BY <2>3, <2>5
<1> QED BY <1>1, <1>2 DEF StaleMove

\* From two tables of almost equal size that are played out one after the other no chip
\* is ever lost: no bot is moved for balancing, and the bot of the broken table finds no
\* old entry at the other.
THEOREM TwoTablesKeepChips ==
  ASSUME TwoEvenTables
  PROVE  Spec => []TournamentChips
<1> DEFINE Inv == Base /\ Apart /\ Between /\ OneMover /\ PairInv /\ TournamentChips
<1>1. Init => Inv
  <2> SUFFICES ASSUME Init PROVE Inv
      OBVIOUS
  <2>1. PairInv
        BY DEF Init, Idle, PairInv, FirstTables, NoMove, OneBreak
  <2> QED BY <2>1, InitBase, InitApart, InitBetween, InitChips DEF TournamentChips
<1>2. Inv /\ [Next]_vars => Inv'
  <2> SUFFICES ASSUME Base, Apart, Between, OneMover, PairInv, TournamentChips, [Next]_vars
               PROVE  Inv'
      OBVIOUS
  <2>1. dbStatus' = "running" => dbStatus = "running"
        BY StatusStays
  <2>2. dbStatus' = "running" => [~StaleMove]_vars
        BY <2>1, PairNotStale
  <2>3. /\ (Base /\ Apart /\ Between /\ OneMover)'
        /\ dbStatus' = "running" => AllChips' = AllChips
        BY <2>2, StepChips
  <2>4. PairInv'
        BY PairStep
  <2>5. TournamentChips'
        BY <2>1, <2>3 DEF TournamentChips
  <2> QED BY <2>3, <2>4, <2>5
<1>3. Inv => TournamentChips
      OBVIOUS
<1> HIDE DEF Inv
<1> QED BY <1>1, <1>2, <1>3, PTL DEF Spec
=============================================================================
