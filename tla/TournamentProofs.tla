-------------------------- MODULE TournamentProofs --------------------------
(***************************************************************************)
(* Two components of a tournament.                                          *)
(*                                                                         *)
(* HandForHand, for every set of tables and whatever fails: a table that is  *)
(* held at the barrier has somebody to release it, no table is held once the  *)
(* bubble is over, and on the bubble each table plays one hand in a round.     *)
(* BarrierInv adds to TypeOK that an open round (checkedIn # {}) has an armed  *)
(* timeout or a timeout callback under way, and that there is none without    *)
(* hand-for-hand mode; RoundInv adds what a table in each state has played.    *)
(*                                                                         *)
(* TournamentLifecycle, for every set of bots and any number of overlapping  *)
(* requests and restarts: a running tournament is played, and overlapping    *)
(* registrations exceed max_players only so far.  LifecycleInv adds to the    *)
(* type what the label of a request says of its record, whom a running        *)
(* tournament rests on, and the entries that the requests under way may still *)
(* write (ClaimsFit).                                                        *)
(***************************************************************************)
EXTENDS HandForHand, TournamentLifecycle, SumLemmas

-----------------------------------------------------------------------------
(* HandForHand: the barrier releases whom it holds                            *)

RoundHasReleaser == checkedIn # {} => timer \/ recoveries > 0
RoundOnBubble    == checkedIn # {} => handForHand

BarrierInv == TypeOK /\ RoundHasReleaser /\ RoundOnBubble

\* Release leaves no round, no timeout and no table that waits.
LEMMA ReleaseEndsRound ==
  ASSUME TypeOK, Release
  PROVE  /\ checkedIn' = {} /\ timer' = FALSE
         /\ loop' \in [Tables -> Loops]
         /\ hands' \in [Tables -> 0 .. 2]
         /\ \A t \in Tables : loop'[t] # "waiting"
BY DEF TypeOK, Release, Resumed, Waiting, Loops, NewRound

\* checkIn: a round that stays open is armed by its first table, and only the
\* table that checks in starts to wait.
LEMMA CheckInKeepsRound ==
  ASSUME BarrierInv, NEW t \in Tables, CheckIn(t), handForHand, UNCHANGED <<recoveries, handForHand>>
  PROVE  /\ checkedIn' \subseteq Tables /\ timer' \in BOOLEAN
         /\ loop' \in [Tables -> Loops]
         /\ hands' \in [Tables -> 0 .. 2]
         /\ \A u \in Tables : loop'[u] = "waiting" => u \in checkedIn'
         /\ timer' => checkedIn' # {}
         /\ RoundHasReleaser' /\ RoundOnBubble'
<1> DEFINE now == checkedIn \union {t}
<1>1. CASE EverybodyIn(now)
  <2>1. Release
    BY <1>1 DEF CheckIn
  <2> QED
    BY <2>1, ReleaseEndsRound DEF BarrierInv, RoundHasReleaser, RoundOnBubble
<1>2. CASE ~EverybodyIn(now)
  <2>1. /\ checkedIn' = now
        /\ timer' = (timer \/ ArmsTimer(now))
        /\ loop' = [loop EXCEPT ![t] = "waiting"]
        /\ hands' = OneMore(t)
    BY <1>2 DEF CheckIn
  <2>2. checkedIn = {} => ArmsTimer(now)
    <3> SUFFICES ASSUME checkedIn = {} PROVE Cardinality(now) = 1
      BY DEF ArmsTimer
    <3> now = {t}
      OBVIOUS
    <3> QED
      BY FS_Singleton
  <2>3. hands' \in [Tables -> 0 .. 2]
    BY <2>1 DEF OneMore, BarrierInv, TypeOK
  <2>4. timer' \in BOOLEAN /\ (timer => timer') /\ (ArmsTimer(now) => timer')
    BY <2>1 DEF BarrierInv, TypeOK, ArmsTimer
  <2>5. /\ checkedIn' \subseteq Tables /\ checkedIn' # {}
        /\ loop' \in [Tables -> Loops]
        /\ \A u \in Tables : loop'[u] = "waiting" => u \in checkedIn'
    BY <2>1 DEF BarrierInv, TypeOK, Loops, Waiting
  <2>6. RoundHasReleaser'
    BY <2>2, <2>4 DEF BarrierInv, RoundHasReleaser
  <2> QED
    BY <2>3, <2>4, <2>5, <2>6 DEF RoundOnBubble
<1> QED
  BY <1>1, <1>2

LEMMA BarrierInitInv == Init => BarrierInv
<1> SUFFICES ASSUME Init PROVE BarrierInv
  OBVIOUS
<1>1. /\ up \in BOOLEAN /\ running \in BOOLEAN /\ played \in BOOLEAN
      /\ handForHand \in BOOLEAN /\ timer \in BOOLEAN /\ checkedIn = {} /\ ~timer
      /\ tables \subseteq Tables /\ hooked \subseteq Tables
  BY Zenon DEF Init
<1>2. recoveries \in 0 .. MaxRecoveries /\ hands \in [Tables -> 0 .. 2]
  BY DEF Init, MaxRecoveries, NewRound
<1>3. loop \in [Tables -> Loops] /\ \A t \in Tables : loop[t] # "waiting"
  BY DEF Init, Loops
<1> QED
  BY <1>1, <1>2, <1>3 DEF BarrierInv, TypeOK, RoundHasReleaser, RoundOnBubble, Waiting

\* Steps that change no loop, or only loops that do not wait before or after.
LEMMA TimeoutInv ==
  ASSUME BarrierInv, TimeoutFires \/ TimeoutReleases \/ TimeoutThrows
  PROVE  BarrierInv'
<1> USE DEF BarrierInv, TypeOK, RoundHasReleaser, RoundOnBubble, Waiting
<1>0. /\ recoveries \in Nat
      /\ recoveries < MaxRecoveries => recoveries + 1 \in 0 .. MaxRecoveries /\ recoveries + 1 > 0
      /\ recoveries > 0 => recoveries - 1 \in 0 .. MaxRecoveries
  BY DEF MaxRecoveries
<1>1. CASE TimeoutFires
  <2>1. /\ recoveries' = recoveries + 1 /\ recoveries < MaxRecoveries /\ ~timer'
        /\ UNCHANGED <<up, running, tables, handForHand, checkedIn, loop, hooked, played, hands>>
    BY <1>1 DEF TimeoutFires
  <2>2. timer' \in BOOLEAN
    BY <1>1, Zenon DEF TimeoutFires
  <2>3. recoveries' \in 0 .. MaxRecoveries /\ recoveries' > 0
    BY <1>0, <2>1
  <2> QED
    BY <2>1, <2>2, <2>3
<1>2. CASE TimeoutReleases
  <2>1. Release
    BY <1>2 DEF TimeoutReleases, AfterRecovery
  <2>2. /\ recoveries' \in 0 .. MaxRecoveries
        /\ UNCHANGED <<up, running, tables, handForHand, hooked, played>>
    BY <1>0, <1>2 DEF TimeoutReleases
  <2>3. timer' \in BOOLEAN
    BY <2>1, Zenon DEF Release
  <2> QED
    BY <2>1, <2>2, <2>3, ReleaseEndsRound
<1>3. CASE TimeoutThrows
  BY <1>3 DEF TimeoutThrows
<1> QED
  BY <1>1, <1>2, <1>3

LEMMA TableInv ==
  ASSUME BarrierInv, NEW t \in Tables, TableStep(t)
  PROVE  BarrierInv'
<1>1. CASE HandEnds(t)
  <2>1. CASE handForHand /\ t \in hooked
    <3>1. CheckIn(t) /\ played' = TRUE
          /\ UNCHANGED <<up, running, tables, handForHand, recoveries, hooked>>
      BY <1>1, <2>1 DEF HandEnds
    <3> QED
      BY <2>1, <3>1, CheckInKeepsRound DEF BarrierInv, TypeOK, Waiting
  <2>2. CASE ~(handForHand /\ t \in hooked)
    BY <1>1, <2>2 DEF HandEnds, barrierVars, OneMore, BarrierInv, TypeOK, RoundHasReleaser,
                      RoundOnBubble, Waiting
  <2> QED
    BY <2>1, <2>2
<1>2. CASE StartGame(t) \/ GameOver(t) \/ HandThrows(t)
  BY <1>2 DEF StartGame, GameOver, HandThrows, barrierVars, BarrierInv, TypeOK,
              RoundHasReleaser, RoundOnBubble, Waiting, Loops
<1> QED
  BY <1>1, <1>2 DEF TableStep

LEMMA DirectorInv ==
  ASSUME BarrierInv,
         \/ HandForHandOn \/ HandForHandOff \/ Finish \/ CloseTables
         \/ \E t \in Tables : Recover(t) \/ BreakTable(t)
  PROVE  BarrierInv'
<1> USE DEF BarrierInv, TypeOK, RoundHasReleaser, RoundOnBubble, Waiting, barrierVars
<1>1. CASE HandForHandOn
  BY <1>1 DEF HandForHandOn, NewRound
<1>2. CASE HandForHandOff
  BY <1>2, ReleaseEndsRound DEF HandForHandOff
<1>3. CASE Finish
  BY <1>3, ReleaseEndsRound DEF Finish
<1>4. CASE CloseTables
  BY <1>4 DEF CloseTables
<1>5. ASSUME NEW t \in Tables, Recover(t) PROVE BarrierInv'
  BY <1>5 DEF Recover, Loops
<1>6. ASSUME NEW t \in Tables, BreakTable(t) PROVE BarrierInv'
  <2>1. /\ tables' \subseteq Tables
        /\ UNCHANGED <<up, running, handForHand, checkedIn, timer, recoveries, hooked, played>>
    BY <1>6 DEF BreakTable
  <2>2. PICK restarted \in SUBSET {u \in tables \ {t} : loop[u] = "finished"} :
          /\ loop' = [u \in Tables |-> IF u \in restarted THEN "starting" ELSE loop[u]]
          /\ hands' = [u \in Tables |-> IF u \in restarted THEN 0 ELSE hands[u]]
    BY <1>6 DEF BreakTable
  <2>3. /\ loop' \in [Tables -> Loops]
        /\ hands' \in [Tables -> 0 .. 2]
        /\ \A u \in Tables : loop'[u] = "waiting" => loop[u] = "waiting"
    BY <2>2 DEF Loops
  <2> QED
    BY <2>1, <2>3
<1> QED
  BY <1>1, <1>2, <1>3, <1>4, <1>5, <1>6

LEMMA BarrierNextInv == BarrierInv /\ [Next]_vars => BarrierInv'
<1> SUFFICES ASSUME BarrierInv, [Next]_vars PROVE BarrierInv'
  OBVIOUS
<1>1. CASE Next
  BY <1>1, TimeoutInv, TableInv, DirectorInv DEF Next, Director
<1>2. CASE UNCHANGED vars
  BY <1>2 DEF vars, BarrierInv, TypeOK, RoundHasReleaser, RoundOnBubble, Waiting
<1> QED
  BY <1>1, <1>2

LEMMA BarrierInvHolds == Spec => []BarrierInv
BY BarrierInitInv, BarrierNextInv, PTL DEF Spec

\* The barrier never holds a table that nothing would release: whichever tables
\* fail, break or never come, the timeout is armed or its callback under way.
THEOREM BarrierHasReleaser == Spec => []SomebodyReleases
<1>1. BarrierInv => SomebodyReleases
  BY DEF BarrierInv, TypeOK, RoundHasReleaser, SomebodyReleases
<1> QED
  BY <1>1, BarrierInvHolds, PTL

\* Once the bubble is over no table is held and no round is open.
THEOREM BubbleOverReleasesAll == Spec => []HeldOnlyOnBubble
<1>1. BarrierInv => HeldOnlyOnBubble
  BY DEF BarrierInv, TypeOK, RoundOnBubble, HeldOnlyOnBubble
<1> QED
  BY <1>1, BarrierInvHolds, PTL

\* A table that has checked in waits, and has its hand; a table that plays is one of the
\* tournament's; and on the bubble it still owes the hand it plays.
CheckedInWait   == \A t \in checkedIn : Waiting(t) /\ hands[t] > 0
PlayingAtTables == running => \A t \in Tables : loop[t] \in {"starting", "playing"} => t \in tables
OwesItsHand     == handForHand /\ running =>
  \A t \in hooked : loop[t] \in {"starting", "playing"} => hands[t] = 0

RoundInv == BarrierInv /\ CheckedInWait /\ PlayingAtTables /\ OwesItsHand

\* Release: those that go on are tables of the tournament, and all of them owe a hand.
LEMMA ReleaseKeepsRound ==
  ASSUME RoundInv, Release, UNCHANGED tables, running' => running, hooked' = hooked
  PROVE  CheckedInWait' /\ PlayingAtTables' /\ OwesItsHand'
<1>1. /\ checkedIn' = {} /\ loop' = Resumed /\ hands' = NewRound
      BY DEF Release
<1>2. hooked \subseteq Tables /\ loop \in [Tables -> Loops]
      BY DEF RoundInv, BarrierInv, TypeOK
<1>3. \A t \in Tables : hands'[t] = 0
      BY <1>1 DEF NewRound
<1>4. ASSUME running, NEW t \in Tables, loop'[t] \in {"starting", "playing"}
      PROVE  t \in tables
  <2>1. loop'[t] = IF ~Waiting(t) THEN loop[t]
                   ELSE IF t \in tables THEN "playing" ELSE "stopped"
        BY <1>1 DEF Resumed
  <2>2. CASE Waiting(t)
        BY <1>4, <2>1, <2>2
  <2>3. CASE ~Waiting(t)
        BY <1>4, <2>1, <2>3 DEF RoundInv, PlayingAtTables
  <2> QED BY <2>2, <2>3
<1>5. CheckedInWait'
      BY <1>1 DEF CheckedInWait
<1>6. PlayingAtTables'
      BY <1>4 DEF PlayingAtTables
<1>7. OwesItsHand'
      BY <1>2, <1>3 DEF OwesItsHand
<1> QED BY <1>5, <1>6, <1>7

\* A step that changes one loop, of a table that does not wait, and no count but its own.
LEMMA OneLoopMoves ==
  ASSUME RoundInv, NEW t \in Tables, ~Waiting(t), NEW l \in Loops, NEW n \in 0 .. 2,
         loop' = [loop EXCEPT ![t] = l], hands' = [hands EXCEPT ![t] = n],
         checkedIn' = checkedIn, UNCHANGED <<tables, running, handForHand>>,
         hooked' \subseteq hooked,
         l \in {"starting", "playing"} /\ running => t \in tables,
         l \in {"starting", "playing"} /\ t \in hooked' /\ handForHand /\ running => n = 0
  PROVE  CheckedInWait' /\ PlayingAtTables' /\ OwesItsHand'
<1>1. /\ hooked \subseteq Tables /\ checkedIn \subseteq Tables /\ t \notin checkedIn
      /\ loop \in [Tables -> Loops] /\ hands \in [Tables -> 0 .. 2]
      BY DEF RoundInv, BarrierInv, TypeOK, CheckedInWait
<1>2. /\ loop'[t] = l /\ hands'[t] = n
      /\ \A u \in Tables : u # t => loop'[u] = loop[u] /\ hands'[u] = hands[u]
      BY <1>1
<1>3. CheckedInWait'
      BY <1>1, <1>2 DEF RoundInv, CheckedInWait, Waiting
<1>4. PlayingAtTables'
      BY <1>2 DEF RoundInv, PlayingAtTables
<1>5. OwesItsHand'
  <2> SUFFICES ASSUME handForHand, running, NEW u \in hooked', loop'[u] \in {"starting", "playing"}
               PROVE  hands'[u] = 0
      BY DEF OwesItsHand
  <2>1. u \in hooked /\ u \in Tables
        BY <1>1
  <2>2. CASE u = t
        BY <1>2, <2>2
  <2>3. CASE u # t
        BY <1>2, <2>1, <2>3 DEF RoundInv, OwesItsHand
  <2> QED BY <2>2, <2>3
<1> QED BY <1>3, <1>4, <1>5

LEMMA HandEndsInRound ==
  ASSUME RoundInv, NEW t \in Tables, HandEnds(t)
  PROVE  CheckedInWait' /\ PlayingAtTables' /\ OwesItsHand'
<1>1. /\ loop[t] = "playing" /\ ~Waiting(t)
      /\ UNCHANGED <<running, tables, handForHand, hooked>>
      BY DEF HandEnds, Waiting
<1>2. /\ hooked \subseteq Tables /\ checkedIn \subseteq Tables /\ t \notin checkedIn
      /\ loop \in [Tables -> Loops] /\ hands \in [Tables -> 0 .. 2]
      BY <1>1 DEF RoundInv, BarrierInv, TypeOK, CheckedInWait
<1> DEFINE n == IF hands[t] < 2 THEN hands[t] + 1 ELSE 2
<1>3. OneMore(t) = [hands EXCEPT ![t] = n] /\ n \in 0 .. 2 /\ n > 0
      BY <1>2 DEF OneMore
<1> HIDE DEF n
<1>4. CASE handForHand /\ t \in hooked /\ EverybodyIn(checkedIn \union {t})
  <2>1. Release
        BY <1>4 DEF HandEnds, CheckIn
  <2> QED BY <1>1, <2>1, ReleaseKeepsRound
<1>5. CASE handForHand /\ t \in hooked /\ ~EverybodyIn(checkedIn \union {t})
  <2>1. /\ checkedIn' = checkedIn \union {t}
        /\ loop' = [loop EXCEPT ![t] = "waiting"] /\ hands' = [hands EXCEPT ![t] = n]
        BY <1>3, <1>5 DEF HandEnds, CheckIn
  <2>2. /\ loop'[t] = "waiting" /\ hands'[t] = n
        /\ \A u \in Tables : u # t => loop'[u] = loop[u] /\ hands'[u] = hands[u]
        BY <1>2, <2>1
  <2>3. CheckedInWait'
    <3> SUFFICES ASSUME NEW u \in checkedIn' PROVE loop'[u] = "waiting" /\ hands'[u] > 0
        BY DEF CheckedInWait, Waiting
    <3>1. CASE u = t
          BY <1>3, <2>2, <3>1
    <3>2. CASE u # t
          BY <1>2, <2>1, <2>2, <3>2 DEF RoundInv, CheckedInWait, Waiting
    <3> QED BY <3>1, <3>2
  <2>4. PlayingAtTables'
        BY <1>1, <2>2 DEF RoundInv, PlayingAtTables
  <2>5. OwesItsHand'
        BY <1>1, <1>2, <2>2 DEF RoundInv, OwesItsHand
  <2> QED BY <2>3, <2>4, <2>5
<1>6. CASE ~(handForHand /\ t \in hooked)
  <2>1. /\ hands' = [hands EXCEPT ![t] = n] /\ loop' = loop /\ checkedIn' = checkedIn
        BY <1>3, <1>6 DEF HandEnds, barrierVars
  <2>2. loop' = [loop EXCEPT ![t] = "playing"] /\ "playing" \in Loops
        BY <1>1, <1>2, <2>1 DEF Loops
  <2>3. t \in tables \/ ~running
        BY <1>1 DEF RoundInv, PlayingAtTables
  <2>4. hands'[t] = n /\ \A u \in Tables : u # t => hands'[u] = hands[u]
        BY <1>2, <2>1
  <2>5. CheckedInWait'
        BY <1>2, <2>1, <2>4 DEF RoundInv, CheckedInWait, Waiting
  <2>6. PlayingAtTables'
        BY <1>1, <2>1 DEF RoundInv, PlayingAtTables
  <2>7. OwesItsHand'
        BY <1>1, <1>2, <1>6, <2>1, <2>4 DEF RoundInv, OwesItsHand
  <2> QED BY <2>5, <2>6, <2>7
<1> QED BY <1>4, <1>5, <1>6

LEMMA LoopsInRound ==
  ASSUME RoundInv, NEW t \in Tables,
         StartGame(t) \/ GameOver(t) \/ HandThrows(t) \/ Recover(t)
  PROVE  CheckedInWait' /\ PlayingAtTables' /\ OwesItsHand'
<1>1. /\ loop \in [Tables -> Loops] /\ hands \in [Tables -> 0 .. 2] /\ hooked \subseteq Tables
      /\ hands[t] \in 0 .. 2 /\ hands = [hands EXCEPT ![t] = hands[t]] /\ 0 \in 0 .. 2
      BY DEF RoundInv, BarrierInv, TypeOK
<1>2. {"starting", "playing", "finished", "error"} \subseteq Loops
      BY DEF Loops
<1>3. CASE StartGame(t)
  <2>1. /\ loop[t] = "starting" /\ ~Waiting(t) /\ loop' = [loop EXCEPT ![t] = "playing"]
        /\ checkedIn' = checkedIn /\ hands' = hands
        /\ UNCHANGED <<tables, running, handForHand, hooked>>
        BY <1>3 DEF StartGame, Waiting, barrierVars
  <2>2. /\ running => t \in tables
        /\ t \in hooked /\ handForHand /\ running => hands[t] = 0
        BY <2>1 DEF RoundInv, PlayingAtTables, OwesItsHand
  <2> QED BY <1>1, <1>2, <2>1, <2>2, OneLoopMoves
<1>4. CASE GameOver(t)
  <2>1. /\ ~Waiting(t) /\ loop' = [loop EXCEPT ![t] = "finished"]
        /\ checkedIn' = checkedIn /\ hands' = hands
        /\ UNCHANGED <<tables, running, handForHand, hooked>>
        BY <1>4 DEF GameOver, Waiting, barrierVars
  <2> QED BY <1>1, <1>2, <2>1, OneLoopMoves
<1>5. CASE HandThrows(t)
  <2>1. /\ ~Waiting(t) /\ loop' = [loop EXCEPT ![t] = "error"]
        /\ checkedIn' = checkedIn /\ hands' = hands
        /\ UNCHANGED <<tables, running, handForHand, hooked>>
        BY <1>5 DEF HandThrows, Waiting, barrierVars
  <2> QED BY <1>1, <1>2, <2>1, OneLoopMoves
<1>6. CASE Recover(t)
  <2>1. /\ ~Waiting(t) /\ loop' = [loop EXCEPT ![t] = "starting"] /\ t \in tables
        /\ checkedIn' = checkedIn /\ hands' = [hands EXCEPT ![t] = 0]
        /\ hooked' \subseteq hooked /\ UNCHANGED <<tables, running, handForHand>>
        BY <1>6 DEF Recover, Waiting, barrierVars
  <2> QED BY <1>1, <1>2, <2>1, OneLoopMoves
<1> QED BY <1>3, <1>4, <1>5, <1>6

LEMMA BreakInRound ==
  ASSUME RoundInv, NEW t \in Tables, BreakTable(t)
  PROVE  CheckedInWait' /\ PlayingAtTables' /\ OwesItsHand'
<1>1. /\ loop[t] \notin {"starting", "playing"} /\ tables' = tables \ {t}
      /\ checkedIn' = checkedIn /\ UNCHANGED <<running, handForHand, hooked>>
      BY DEF BreakTable, Waiting, barrierVars
<1>2. /\ hooked \subseteq Tables /\ checkedIn \subseteq Tables /\ tables \subseteq Tables
      BY DEF RoundInv, BarrierInv, TypeOK
<1>3. PICK restarted \in SUBSET {u \in tables \ {t} : loop[u] = "finished"} :
        /\ loop' = [u \in Tables |-> IF u \in restarted THEN "starting" ELSE loop[u]]
        /\ hands' = [u \in Tables |-> IF u \in restarted THEN 0 ELSE hands[u]]
      BY DEF BreakTable
<1>4. \A u \in restarted : u \in tables \ {t} /\ loop[u] = "finished" /\ hands'[u] = 0
      BY <1>2, <1>3
<1>5. \A u \in Tables : u \notin restarted => loop'[u] = loop[u] /\ hands'[u] = hands[u]
      BY <1>3
<1>6. CheckedInWait'
      BY <1>1, <1>2, <1>4, <1>5 DEF RoundInv, CheckedInWait, Waiting
<1>7. PlayingAtTables'
      BY <1>1, <1>4, <1>5 DEF RoundInv, PlayingAtTables
<1>8. OwesItsHand'
      BY <1>1, <1>2, <1>4, <1>5 DEF RoundInv, OwesItsHand
<1> QED BY <1>6, <1>7, <1>8

LEMMA DirectorInRound ==
  ASSUME RoundInv, Director
  PROVE  CheckedInWait' /\ PlayingAtTables' /\ OwesItsHand'
<1>1. CASE TimeoutFires \/ TimeoutThrows
      BY <1>1 DEF TimeoutFires, TimeoutThrows, RoundInv, CheckedInWait, PlayingAtTables,
                  OwesItsHand, Waiting
<1>2. CASE TimeoutReleases
  <2>1. Release /\ UNCHANGED <<tables, running, hooked>>
        BY <1>2 DEF TimeoutReleases, AfterRecovery
  <2> QED BY <2>1, ReleaseKeepsRound
<1>3. CASE HandForHandOn
  <2>1. /\ ~handForHand /\ hands' = NewRound /\ UNCHANGED <<checkedIn, loop, tables, running, hooked>>
        BY <1>3 DEF HandForHandOn, barrierVars
  <2>2. checkedIn = {} /\ hooked \subseteq Tables
        BY <2>1 DEF RoundInv, BarrierInv, RoundOnBubble, TypeOK
  <2>3. \A t \in Tables : hands'[t] = 0
        BY <2>1 DEF NewRound
  <2>4. CheckedInWait' /\ OwesItsHand'
        BY <2>1, <2>2, <2>3 DEF CheckedInWait, OwesItsHand
  <2>5. PlayingAtTables'
        BY <2>1 DEF RoundInv, PlayingAtTables
  <2> QED BY <2>4, <2>5
<1>4. CASE HandForHandOff
  <2>1. Release /\ UNCHANGED <<tables, running, hooked>>
        BY <1>4 DEF HandForHandOff
  <2> QED BY <2>1, ReleaseKeepsRound
<1>5. CASE Finish
  <2>1. Release /\ (running' => running) /\ UNCHANGED <<tables, hooked>>
        BY <1>5 DEF Finish
  <2> QED BY <2>1, ReleaseKeepsRound
<1>6. CASE CloseTables
  <2>1. ~running' /\ UNCHANGED <<checkedIn, loop, hands>>
        BY <1>6 DEF CloseTables, barrierVars
  <2> QED BY <2>1 DEF RoundInv, CheckedInWait, PlayingAtTables, OwesItsHand, Waiting
<1>7. ASSUME NEW t \in Tables, Recover(t) \/ BreakTable(t)
      PROVE  CheckedInWait' /\ PlayingAtTables' /\ OwesItsHand'
      BY <1>7, LoopsInRound, BreakInRound
<1> QED BY <1>1, <1>2, <1>3, <1>4, <1>5, <1>6, <1>7 DEF Director

LEMMA RoundNextInv == RoundInv /\ [Next]_vars => RoundInv'
<1> SUFFICES ASSUME RoundInv, [Next]_vars PROVE RoundInv'
    OBVIOUS
<1>1. BarrierInv'
      BY BarrierNextInv DEF RoundInv
<1>2. CASE Next
  <2>1. ASSUME NEW t \in Tables, TableStep(t)
        PROVE  CheckedInWait' /\ PlayingAtTables' /\ OwesItsHand'
        BY <2>1, HandEndsInRound, LoopsInRound DEF TableStep
  <2> QED BY <1>1, <1>2, <2>1, DirectorInRound DEF Next, RoundInv
<1>3. CASE UNCHANGED vars
      BY <1>1, <1>3 DEF vars, RoundInv, CheckedInWait, PlayingAtTables, OwesItsHand, Waiting
<1> QED BY <1>2, <1>3

LEMMA RoundInitInv == Init => RoundInv
<1> SUFFICES ASSUME Init PROVE RoundInv
    OBVIOUS
<1>1. BarrierInv
      BY BarrierInitInv
<1>2. checkedIn = {} /\ tables = Tables /\ hooked \subseteq Tables /\ hands = NewRound
      BY DEF Init
<1> QED BY <1>1, <1>2 DEF RoundInv, CheckedInWait, PlayingAtTables, OwesItsHand, NewRound

\* The last table of a round finds all others of the tournament waiting with their hand.
LEMMA LastComesIn ==
  ASSUME RoundInv, handForHand, running, tables \subseteq hooked, checkedIn \subseteq tables,
         NEW t \in Tables, HandEnds(t)
  PROVE  /\ hands[t] = 0
         /\ hands'[t] = 0 => \A u \in Going : u = t \/ hands[u] > 0
<1>1. loop[t] = "playing" /\ t \in tables /\ t \in hooked /\ CheckIn(t)
      BY DEF RoundInv, PlayingAtTables, HandEnds
<1>2. hands[t] = 0
      BY <1>1 DEF RoundInv, OwesItsHand
<1> DEFINE now == checkedIn \union {t}
<1>3. CASE EverybodyIn(now)
  <2>1. IsFiniteSet(tables) /\ now \subseteq tables
        BY <1>1, HandForHandAssumption, FS_Subset DEF RoundInv, BarrierInv, TypeOK
  <2>2. IsFiniteSet(now) /\ Cardinality(now) \in Nat /\ Cardinality(tables) \in Nat
        BY <2>1, FS_Subset, FS_CardinalityType
  <2>3. Cardinality(now) >= Cardinality(tables)
        BY <1>3 DEF EverybodyIn
  <2>4. Cardinality(now) = Cardinality(tables)
        BY <2>1, <2>2, <2>3, FS_Subset
  <2>5. now = tables
        BY <2>1, <2>4, FS_Subset
  <2>6. \A u \in checkedIn : hands[u] > 0
        BY DEF RoundInv, CheckedInWait
  <2> QED BY <1>2, <2>5, <2>6 DEF Going
<1>4. CASE ~EverybodyIn(now)
  <2>1. hands' = OneMore(t) /\ hands \in [Tables -> 0 .. 2]
        BY <1>1, <1>4 DEF CheckIn, RoundInv, BarrierInv, TypeOK
  <2>2. hands'[t] = 1
        BY <1>2, <2>1 DEF OneMore
  <2> QED BY <1>2, <2>2
<1> QED BY <1>3, <1>4

\* On the bubble a table completes one hand in a round, and no round ends while a table
\* whose game goes on owes its hand, however the timeouts, recoveries and breaks of other
\* tables are interleaved: as long as every game has its hook and the round counts no
\* table that was broken.
THEOREM BubbleKeepsInStep == Spec => InStep
<1>1. Spec => []RoundInv
      BY RoundInitInv, RoundNextInv, PTL DEF Spec
<1>2. RoundInv /\ [Next]_vars
        => [handForHand /\ running /\ tables \subseteq hooked /\ checkedIn \subseteq tables
              => \A t \in Tables : OneHandEach(t)]_vars
      BY LastComesIn DEF OneHandEach
<1> QED BY <1>1, <1>2, PTL DEF Spec, InStep

-----------------------------------------------------------------------------
(* TournamentLifecycle: a running tournament is played                        *)

\* A start that maps its director keeps the number of an existing one.
LaunchHasDirector ==
  \A s \in Slots : req[s].pc = "launch" => req[s].left \in DOMAIN directors

\* RunningIsPlayed, with the weakest witness made exact: recoverRunningTournaments
\* will recover the tournament only while it has no director.
SomebodyPlays ==
  status = "running" =>
    \/ \E d \in DOMAIN directors : directors[d] # "over"
    \/ \E s \in Slots : req[s].pc \in {"map", "launch", "undo", "recover"}
    \/ mapped = 0 /\ \E s \in Slots : req[s].pc = "find"

\* What the label of a request says of the rest of it.
RequestOK(s, r) ==
  /\ r.pc \in {"read", "write", "slots", "fill"} => s[1] = "entry"
  /\ r.pc = "read" => /\ r.op \in DOMAIN Reads /\ r.read \in 1 .. Len(Reads[r.op])
                      /\ r.bot \in Bots
  /\ r.pc = "write" => r.op \in Adds \union Removes /\ r.bot \in Bots
  /\ r.pc = "fill" => r.left <= MaxPlayers
  /\ r.fresh \subseteq System

RequestsOK == \A s \in Slots : RequestOK(s, req[s])

\* The entries a request may still write although it counts no more: the one it saw room
\* for, and those of the slots it found free.
Claim(r) == CASE r.pc = "write" /\ r.op \in Adds -> 1
              [] r.pc = "read" /\ r.op = "auto" /\ r.read = 4 -> 1
              [] r.pc = "fill" -> r.left
              [] OTHER -> 0

Claims(q) == [i \in 1 .. Parallel |-> Claim(q[<<"entry", i>>])]

ClaimsFit == EntryCount + SumFunction(Claims(req)) <= Parallel * MaxPlayers

LifecycleInv ==
  /\ LifecycleTypeOK
  /\ LaunchHasDirector /\ SomebodyPlays
  /\ RequestsOK /\ ClaimsFit

Req == [op : Ops, pc : Labels, read : Nat, bot : Bots \union {NoBot},
        left : Nat, fresh : SUBSET Bots]

\* A request comes to the record r and the others stay as they are.
Move(s, r) == /\ s \in Slots /\ r \in Req /\ RequestOK(s, r)
              /\ req' = [req EXCEPT ![s] = r]

LEMMA ReadsFacts ==
  /\ DOMAIN Reads = {"register", "admin", "auto", "unregister", "remove", "inject"}
  /\ Len(Reads["register"]) = 2 /\ Len(Reads["admin"]) = 2 /\ Len(Reads["auto"]) = 4
  /\ Len(Reads["unregister"]) = 2 /\ Len(Reads["remove"]) = 1 /\ Len(Reads["inject"]) = 1
BY DEF Reads

LEMMA IdleOK == Idle \in Req /\ \A s : RequestOK(s, Idle) /\ Claim(Idle) = 0
BY DEF Idle, Req, RequestOK, Claim, Labels, Ops

LEMMA EntrySlot ==
  ASSUME NEW s \in Slots, s[1] = "entry"
  PROVE  \E i \in 1 .. Parallel : s = <<"entry", i>>
BY DEF Slots

LEMMA ParallelFinite == IsFiniteSet(1 .. Parallel) /\ Cardinality(1 .. Parallel) = Parallel
BY LifecycleAssumption, FS_Interval

\* Every claim is one that max_players bounds.
LEMMA ClaimBounds ==
  ASSUME NEW s \in Slots, NEW r \in Req, RequestOK(s, r)
  PROVE  Claim(r) \in 0 .. MaxPlayers
BY LifecycleAssumption DEF Claim, RequestOK, Req

LEMMA ClaimsType ==
  ASSUME LifecycleInv
  PROVE  Claims(req) \in [1 .. Parallel -> 0 .. MaxPlayers]
<1> SUFFICES ASSUME NEW i \in 1 .. Parallel PROVE Claim(req[<<"entry", i>>]) \in 0 .. MaxPlayers
  BY DEF Claims
<1>1. <<"entry", i>> \in Slots
  BY DEF Slots
<1>2. req[<<"entry", i>>] \in Req /\ RequestOK(<<"entry", i>>, req[<<"entry", i>>])
  BY <1>1 DEF LifecycleInv, LifecycleTypeOK, Req, RequestsOK
<1> QED
  BY <1>1, <1>2, ClaimBounds

\* A request that moves on changes the sum of the claims by its own.
LEMMA MoveClaims ==
  ASSUME LifecycleInv, NEW s, NEW r, Move(s, r)
  PROVE  /\ req' \in [Slots -> Req] /\ RequestsOK'
         /\ SumFunction(Claims(req)) \in Int
         /\ s[1] = "entry" => SumFunction(Claims(req)') =
                                SumFunction(Claims(req)) + (Claim(r) - Claim(req[s]))
         /\ s[1] # "entry" => Claims(req)' = Claims(req)
<1>1. req \in [Slots -> Req] /\ s \in Slots /\ r \in Req /\ req' = [req EXCEPT ![s] = r]
  BY DEF LifecycleInv, LifecycleTypeOK, Req, Move
<1>2. req' \in [Slots -> Req] /\ RequestsOK'
  BY <1>1 DEF RequestsOK, LifecycleInv, Move, RequestOK
<1>3. Claims(req) \in [1 .. Parallel -> Int]
  BY ClaimsType, LifecycleAssumption
<1>4. SumFunction(Claims(req)) \in Int
  BY <1>3, SumIsInt, ParallelFinite
<1>5. ASSUME s[1] = "entry"
      PROVE  SumFunction(Claims(req)') = SumFunction(Claims(req)) + (Claim(r) - Claim(req[s]))
  <2>1. PICK i \in 1 .. Parallel : s = <<"entry", i>>
    BY <1>1, <1>5, EntrySlot
  <2>2. \A j \in 1 .. Parallel : <<"entry", j>> \in Slots /\ (<<"entry", j>> = s => j = i)
    BY <2>1 DEF Slots
  <2>3. \A j \in 1 .. Parallel : req'[<<"entry", j>>] = IF j = i THEN r ELSE req[<<"entry", j>>]
    BY <1>1, <2>1, <2>2
  <2>4. Claims(req)' = [Claims(req) EXCEPT ![i] = Claim(r)]
    BY <2>3 DEF Claims
  <2>5. Claim(r) \in Int /\ Claims(req)[i] = Claim(req[s])
    BY <1>1, <2>1, ClaimBounds, LifecycleAssumption DEF Move, Claims
  <2> DEFINE c == Claims(req)
             v == Claim(r)
  <2>6. IsFiniteSet(1 .. Parallel) /\ c \in [1 .. Parallel -> Int] /\ v \in Int
    BY <1>3, <2>5, ParallelFinite
  <2> HIDE DEF c, v
  <2>7. SumFunction([c EXCEPT ![i] = v]) = SumFunction(c) + (v - c[i])
    BY <2>6, SumUpdate
  <2> QED
    BY <2>4, <2>5, <2>7 DEF c, v
<1>6. ASSUME s[1] # "entry" PROVE Claims(req)' = Claims(req)
  <2>1. \A j \in 1 .. Parallel : <<"entry", j>> \in Slots /\ <<"entry", j>> # s
    BY <1>6 DEF Slots
  <2> QED
    BY <1>1, <2>1 DEF Claims
<1> QED
  BY <1>2, <1>4, <1>5, <1>6

LEMMA EntryCountIsNat ==
  ASSUME LifecycleTypeOK
  PROVE  EntryCount \in Nat
BY SumIsNat, LifecycleAssumption DEF LifecycleTypeOK, EntryCount

\* One more or one less row of a bot is one more or one less entry.
LEMMA EntryCountChanges ==
  ASSUME LifecycleTypeOK, NEW b \in Bots, NEW n \in Nat,
         entries' = [entries EXCEPT ![b] = n]
  PROVE  /\ EntryCount' = EntryCount + (n - entries[b])
         /\ entries' \in [Bots -> Nat] /\ EntryCount \in Nat
<1>1. entries \in [Bots -> Int] /\ entries \in [Bots -> Nat] /\ n \in Int /\ IsFiniteSet(Bots)
  BY LifecycleAssumption DEF LifecycleTypeOK
<1>2. SumFunction([entries EXCEPT ![b] = n]) = SumFunction(entries) + (n - entries[b])
  BY <1>1, SumUpdate
<1> QED
  BY <1>1, <1>2, EntryCountIsNat DEF EntryCount

\* The claims of the others leave room for the one that counts the entries now.
LEMMA OthersClaims ==
  ASSUME LifecycleInv, NEW s \in Slots, s[1] = "entry"
  PROVE  SumFunction(Claims(req)) <= (Parallel - 1) * MaxPlayers + Claim(req[s])
<1> DEFINE D == 1 .. Parallel
           full == [d \in D |-> MaxPlayers]
<1>1. PICK i \in 1 .. Parallel : s = <<"entry", i>>
  BY EntrySlot
<1>2. Claims(req) \in [D -> 0 .. MaxPlayers] /\ Claims(req)[i] = Claim(req[s])
  BY <1>1, ClaimsType DEF Claims
<1>3. SumFunction(full) = MaxPlayers * Parallel
  <2>1. full = [d \in D |-> IF d \in D THEN MaxPlayers ELSE 0]
    OBVIOUS
  <2>2. MaxPlayers \in Int /\ D \in SUBSET D /\ IsFiniteSet(D) /\ Cardinality(D) = Parallel
    BY LifecycleAssumption, ParallelFinite
  <2> HIDE DEF D
  <2>3. SumFunction([d \in D |-> IF d \in D THEN MaxPlayers ELSE 0]) = MaxPlayers * Cardinality(D)
    BY <2>2, SumOfIndicator
  <2> QED
    BY <2>1, <2>2, <2>3
<1>4. full \in [D -> Int] /\ full[i] = MaxPlayers /\ IsFiniteSet(D) /\ i \in D
  BY LifecycleAssumption, ParallelFinite
<1> DEFINE v == Claim(req[s])
           c == Claims(req)
           most == [full EXCEPT ![i] = v]
<1>5. v \in Int /\ c \in [D -> Int] /\ most \in [D -> Int] /\ \A d \in D : c[d] <= most[d]
  <2>1. v \in 0 .. MaxPlayers
    BY <1>1, <1>2
  <2> HIDE DEF v, c
  <2>2. c \in [D -> 0 .. MaxPlayers] /\ c[i] = v
    BY <1>2 DEF v, c
  <2> QED
    BY <2>1, <2>2, LifecycleAssumption
<1> HIDE DEF D, full, v, c
<1>6. SumFunction(most) = SumFunction(full) + (v - full[i])
  BY ZenonT(60), <1>4, <1>5, SumUpdate
<1> HIDE DEF most
<1>7. SumFunction(c) <= SumFunction(most)
  BY <1>4, <1>5, SumMonotone
<1>8. SumFunction(c) \in Int /\ SumFunction(most) \in Int
  BY <1>4, <1>5, SumIsInt
<1>9. SumFunction(most) = MaxPlayers * Parallel + (v - MaxPlayers)
  BY <1>3, <1>4, <1>6
<1>10. MaxPlayers * Parallel + (v - MaxPlayers) = (Parallel - 1) * MaxPlayers + v
  BY <1>5, LifecycleAssumption
<1> QED
  BY <1>7, <1>8, <1>9, <1>10 DEF c, v

\* The labels of the requests that may be what RunningIsPlayed rests on.
Playing == {"map", "launch", "undo", "recover", "find"}

LEMMA RequestType ==
  ASSUME LifecycleInv, NEW s \in Slots
  PROVE  req[s] \in Req /\ RequestOK(s, req[s]) /\ req \in [Slots -> Req]
BY DEF LifecycleInv, LifecycleTypeOK, Req, RequestsOK

LEMMA EndsMove ==
  ASSUME LifecycleInv, NEW s \in Slots, Ends(s)
  PROVE  Move(s, Idle)
BY IdleOK DEF Move, Ends

LEMMA GotoMove ==
  ASSUME LifecycleInv, NEW s \in Slots, NEW label \in Labels \ {"read", "write", "slots", "fill"},
         Goto(s, label)
  PROVE  \E r : Move(s, r) /\ r.pc = label /\ Claim(r) = 0 /\ r.left = req[s].left
<1> DEFINE r == [req[s] EXCEPT !.pc = label]
<1>1. req[s] \in Req /\ RequestOK(s, req[s]) /\ req \in [Slots -> Req]
  BY RequestType
<1>2. r \in Req /\ r.pc = label /\ r.left = req[s].left /\ r.fresh = req[s].fresh
  BY <1>1 DEF Req
<1>3. req' = [req EXCEPT ![s] = r]
  BY <1>1 DEF Goto
<1>4. RequestOK(s, r) /\ Claim(r) = 0
  BY <1>1, <1>2 DEF RequestOK, Claim
<1> QED
  BY <1>2, <1>3, <1>4 DEF Move

\* A step that writes neither the row nor the directors, of a request on which
\* nothing rests, keeps what is said of them.
LEMMA StillPlayed ==
  ASSUME LifecycleInv, NEW s, NEW r, Move(s, r), req[s].pc \notin Playing, r.pc # "launch",
         UNCHANGED <<status, directors, mapped>>
  PROVE  LaunchHasDirector' /\ SomebodyPlays'
<1>1. /\ s \in Slots /\ req' \in [Slots -> Req]
      /\ req'[s] = r /\ \A t \in Slots \ {s} : req'[t] = req[t]
  BY MoveClaims DEF Move, LifecycleInv, LifecycleTypeOK, Req
<1> QED
  BY <1>1 DEF LaunchHasDirector, SomebodyPlays, Playing, LifecycleInv

LEMMA ClaimsKept ==
  ASSUME LifecycleInv, NEW s, NEW r, Move(s, r), entries' = entries,
         s[1] = "entry" => Claim(r) <= Claim(req[s])
  PROVE  ClaimsFit'
<1>1. s \in Slots /\ req[s] \in Req /\ RequestOK(s, req[s]) /\ r \in Req /\ RequestOK(s, r)
  BY RequestType DEF Move
<1>2. Claim(r) \in Int /\ Claim(req[s]) \in Int
  BY <1>1, ClaimBounds, LifecycleAssumption
<1>3. EntryCount' = EntryCount /\ EntryCount \in Nat
  BY EntryCountIsNat DEF EntryCount, LifecycleInv
<1>4. SumFunction(Claims(req)) \in Int /\ SumFunction(Claims(req)') <= SumFunction(Claims(req))
  BY <1>2, MoveClaims
<1>5. EntryCount + SumFunction(Claims(req)) <= Parallel * MaxPlayers /\ Parallel * MaxPlayers \in Int
  BY LifecycleAssumption DEF LifecycleInv, ClaimsFit
<1>6. SumFunction(Claims(req)') \in Int
  BY <1>2, <1>4, MoveClaims
<1> HIDE DEF Claims
<1>7. EntryCount' + SumFunction(Claims(req)') <= Parallel * MaxPlayers
  BY <1>3, <1>4, <1>5, <1>6
<1> QED
  BY <1>7 DEF ClaimsFit

LEMMA QuietMove ==
  ASSUME LifecycleInv, NEW s, NEW r, Move(s, r), req[s].pc \notin Playing, r.pc # "launch",
         s[1] = "entry" => Claim(r) <= Claim(req[s]),
         UNCHANGED <<status, entries, directors, mapped>>,
         requests' \in Nat, restarts' \in Nat
  PROVE  LifecycleInv'
<1>1. LaunchHasDirector' /\ SomebodyPlays' /\ ClaimsFit'
  BY StillPlayed, ClaimsKept
<1>2. RequestsOK' /\ req' \in [Slots -> Req]
  BY MoveClaims
<1> QED
  BY <1>1, <1>2 DEF LifecycleInv, LifecycleTypeOK, Req

\* The bounded counters of requests and restarts are numbers.
LEMMA CountersStep ==
  ASSUME LifecycleInv
  PROVE  requests \in Nat /\ requests + 1 \in Nat /\ restarts \in Nat /\ restarts + 1 \in Nat
BY DEF LifecycleInv, LifecycleTypeOK

-----------------------------------------------------------------------------
(* Requests for entries                                                       *)

LEMMA AskKeeps ==
  ASSUME LifecycleInv, NEW s \in Slots, NEW b \in Bots, NEW op \in DOMAIN Reads, Ask(s, op, b)
  PROVE  LifecycleInv'
<1> DEFINE r == [Idle EXCEPT !.op = op, !.pc = "read", !.read = 1, !.bot = b]
<1>1. /\ r \in Req /\ r.pc = "read" /\ r.op = op /\ r.read = 1 /\ r.bot = b /\ r.fresh = {}
  BY DEF Req, Idle, Labels, Ops
<1>2. s[1] = "entry" /\ req' = [req EXCEPT ![s] = r] /\ req[s] = Idle /\ requests' = requests + 1
      /\ UNCHANGED <<status, entries, directors, mapped, restarts>>
  BY DEF Ask
<1>3. 1 \in 1 .. Len(Reads[op])
  BY SMTT(60), ReadsFacts
<1>4. Move(s, r) /\ Claim(r) = 0
  BY <1>1, <1>2, <1>3 DEF Move, RequestOK, Claim
<1>5. Claim(req[s]) = 0 /\ req[s].pc = "off"
  BY <1>2, IdleOK DEF Idle
<1> HIDE DEF r
<1>6. requests' \in Nat /\ restarts' \in Nat
  BY <1>2, CountersStep
<1> QED
  BY <1>1, <1>2, <1>4, <1>5, <1>6, QuietMove DEF Playing

\* register, adminRegisterBot and tryRegisterBot count the entries in a read, and write
\* only when there was room.
LEMMA CountedBeforeWritten ==
  ASSUME NEW op \in Adds, NEW n \in 1 .. Len(Reads[op]), "room" \notin Reads[op][n]
  PROVE  /\ n = Len(Reads[op]) => op = "auto" /\ n = 4
         /\ op = "auto" => n # 3
<1>1. CASE op = "register"
  <2>1. n = 1 \/ n = 2
    BY <1>1, ReadsFacts
  <2> QED
    BY <1>1, <2>1, ReadsFacts DEF Reads
<1>2. CASE op = "admin"
  <2>1. n = 1 \/ n = 2
    BY <1>2, ReadsFacts
  <2> QED
    BY <1>2, <2>1, ReadsFacts DEF Reads
<1>3. CASE op = "auto"
  BY <1>3, ReadsFacts DEF Reads
<1> QED
  BY <1>1, <1>2, <1>3 DEF Adds

LEMMA ChecksKeeps ==
  ASSUME LifecycleInv, NEW s \in Slots, Checks(s)
  PROVE  LifecycleInv'
<1> DEFINE q == req[s]
           r == [q EXCEPT !.read = @ + 1,
                          !.pc = IF q.read < Len(Reads[q.op]) THEN "read" ELSE "write"]
<1>1. /\ q \in Req /\ RequestOK(s, q) /\ req \in [Slots -> Req]
      /\ q.pc = "read" /\ q.op \in Adds \union Removes
      /\ UNCHANGED <<status, entries, directors, mapped, requests, restarts>>
  BY RequestType DEF Checks, At
<1>2. /\ s[1] = "entry" /\ q.op \in DOMAIN Reads /\ q.read \in 1 .. Len(Reads[q.op]) /\ q.bot \in Bots
      /\ q.fresh \subseteq System
  BY <1>1 DEF RequestOK
<1>3. requests' \in Nat /\ restarts' \in Nat
  BY <1>1, CountersStep
<1>4. Claim(q) \in Nat
  BY <1>1, ClaimBounds, LifecycleAssumption
<1>5. CASE Ends(s)
  <2>1. Move(s, Idle) /\ Claim(Idle) = 0 /\ Idle.pc = "off"
    BY <1>5, EndsMove, IdleOK DEF Idle
  <2>2. Claim(Idle) <= Claim(req[s]) /\ req[s].pc \notin Playing
    BY <1>1, <1>4, <2>1 DEF Playing
  <2> QED
    BY <1>1, <1>3, <2>1, <2>2, QuietMove
<1>6. CASE req' = [req EXCEPT ![s].read = @ + 1,
                              ![s].pc = IF q.read < Len(Reads[q.op]) THEN "read" ELSE "write"]
           /\ \A check \in Reads[q.op][q.read] : Passes(check, q.bot)
  <2>1. req' = [req EXCEPT ![s] = r]
    BY <1>1, <1>6
  <2>2. /\ r \in Req /\ r.op = q.op /\ r.read = q.read + 1 /\ r.bot = q.bot /\ r.fresh = q.fresh
        /\ r.pc = IF q.read < Len(Reads[q.op]) THEN "read" ELSE "write"
    <3> HIDE DEF q
    <3>1. q.read + 1 \in Nat /\ {"read", "write"} \subseteq Labels
      BY <1>1 DEF Req, Labels
    <3> QED
      BY <1>1, <3>1 DEF Req
  <2>3. Len(Reads[q.op]) \in Nat
    BY <1>2, ReadsFacts
  <2>4. Move(s, r) /\ r.pc # "launch"
    BY <1>1, <1>2, <2>1, <2>2, <2>3 DEF Move, RequestOK
  <2>5. Claim(r) \in {0, 1} /\ (Claim(r) = 1 => q.op \in Adds)
    BY <1>1, <2>2 DEF Claim, Adds
  <2>6. CASE Claim(r) <= Claim(q)
    BY <1>1, <1>3, <2>4, <2>6, QuietMove DEF Playing
  <2>7. CASE ~(Claim(r) <= Claim(q))
    <3>1. Claim(r) = 1 /\ Claim(q) = 0 /\ q.op \in Adds
      BY <1>4, <2>5, <2>7
    <3>2. "room" \in Reads[q.op][q.read]
      <4> SUFFICES ASSUME "room" \notin Reads[q.op][q.read] PROVE FALSE
        OBVIOUS
      <4>1. /\ q.read = Len(Reads[q.op]) => q.op = "auto" /\ q.read = 4
            /\ q.op = "auto" => q.read # 3
        BY <1>2, <3>1, CountedBeforeWritten
      <4>2. ~(q.op = "auto" /\ q.read = 4)
        BY <1>1, <3>1 DEF Claim
      <4>3. q.read < Len(Reads[q.op])
        BY <1>2, <2>3, <4>1, <4>2
      <4>4. r.pc = "read" /\ ~(q.op = "auto" /\ q.read + 1 = 4)
        BY <1>2, <2>2, <2>3, <4>1, <4>3
      <4> QED
        BY <2>2, <3>1, <4>4 DEF Claim
    <3>3. SlotsLeft > 0
      BY <1>6, <3>2 DEF Passes
    <3>4. EntryCount' = EntryCount /\ EntryCount \in Nat /\ EntryCount <= MaxPlayers - 1
      BY <1>1, <3>3, EntryCountIsNat, LifecycleAssumption DEF SlotsLeft, EntryCount, LifecycleInv
    <3>5. /\ SumFunction(Claims(req)') = SumFunction(Claims(req)) + 1
          /\ SumFunction(Claims(req)) <= (Parallel - 1) * MaxPlayers
          /\ SumFunction(Claims(req)) \in Int
      BY <1>2, <2>4, <3>1, MoveClaims, OthersClaims, LifecycleAssumption
    <3>6. (Parallel - 1) * MaxPlayers + MaxPlayers = Parallel * MaxPlayers
          /\ (Parallel - 1) * MaxPlayers \in Int /\ MaxPlayers \in Nat
      BY LifecycleAssumption
    <3>7. ClaimsFit'
      BY <3>4, <3>5, <3>6 DEF ClaimsFit
    <3>8. LaunchHasDirector' /\ SomebodyPlays'
      BY <1>1, <2>4, StillPlayed DEF Playing
    <3>9. RequestsOK' /\ req' \in [Slots -> Req]
      BY <2>4, MoveClaims
    <3> QED
      BY <1>1, <3>7, <3>8, <3>9 DEF LifecycleInv, LifecycleTypeOK, Req
  <2> QED
    BY <2>6, <2>7
<1> QED
  BY <1>5, <1>6 DEF Checks

\* A request that writes rows keeps the invariant when its claim pays for them.
LEMMA PaidMove ==
  ASSUME LifecycleInv, NEW s, NEW r, Move(s, r), s[1] = "entry",
         req[s].pc \notin Playing, r.pc # "launch",
         NEW b \in Bots, NEW n \in Nat, entries' = [entries EXCEPT ![b] = n],
         n - entries[b] <= Claim(req[s]) - Claim(r),
         UNCHANGED <<status, directors, mapped, requests, restarts>>
  PROVE  LifecycleInv'
<1>1. LaunchHasDirector' /\ SomebodyPlays'
  BY StillPlayed
<1>2. RequestsOK' /\ req' \in [Slots -> Req]
  BY MoveClaims
<1>3. /\ SumFunction(Claims(req)') = SumFunction(Claims(req)) + (Claim(r) - Claim(req[s]))
      /\ SumFunction(Claims(req)) \in Int
  BY MoveClaims
<1>4. /\ EntryCount' = EntryCount + (n - entries[b]) /\ EntryCount \in Nat
      /\ entries' \in [Bots -> Nat]
  BY EntryCountChanges DEF LifecycleInv
<1>5. /\ EntryCount + SumFunction(Claims(req)) <= Parallel * MaxPlayers
      /\ Parallel * MaxPlayers \in Int
  BY LifecycleAssumption DEF LifecycleInv, ClaimsFit
<1>6. Claim(r) \in Int /\ Claim(req[s]) \in Int /\ entries[b] \in Nat
  <2>1. s \in Slots /\ req[s] \in Req /\ RequestOK(s, req[s]) /\ r \in Req /\ RequestOK(s, r)
    BY RequestType DEF Move
  <2> QED
    BY <2>1, ClaimBounds, LifecycleAssumption DEF LifecycleInv, LifecycleTypeOK
<1> HIDE DEF Claims
<1>7. EntryCount' + SumFunction(Claims(req)') <= Parallel * MaxPlayers
  BY <1>3, <1>4, <1>5, <1>6
<1>8. ClaimsFit'
  BY <1>7 DEF ClaimsFit
<1> QED
  BY <1>1, <1>2, <1>4, <1>8 DEF LifecycleInv, LifecycleTypeOK, Req

LEMMA WritesKeeps ==
  ASSUME LifecycleInv, NEW s \in Slots, Writes(s)
  PROVE  LifecycleInv'
<1> DEFINE b == req[s].bot
<1>1. /\ req[s] \in Req /\ RequestOK(s, req[s]) /\ req[s].pc = "write" /\ s[1] = "entry"
      /\ req[s].op \in Adds \union Removes /\ b \in Bots
  BY RequestType DEF Writes, At, RequestOK
<1>2. Move(s, Idle) /\ Claim(Idle) = 0 /\ Idle.pc = "off"
  BY EndsMove, IdleOK DEF Writes, Idle
<1>3. UNCHANGED <<status, directors, mapped, requests, restarts>> /\ entries[b] \in Nat
  BY <1>1 DEF Writes, LifecycleInv, LifecycleTypeOK
<1>4. PICK d \in {0, 1} :
        entries' = [entries EXCEPT ![b] =
                      IF req[s].op \in Adds THEN @ + 1 ELSE Deleted(@, d)]
  BY DEF Writes
<1> DEFINE n == IF req[s].op \in Adds THEN entries[b] + 1 ELSE Deleted(entries[b], d)
<1>5. entries' = [entries EXCEPT ![b] = n]
  BY <1>4
<1>6. Claim(req[s]) = IF req[s].op \in Adds THEN 1 ELSE 0
  BY <1>1 DEF Claim
<1>7. n \in Nat /\ n - entries[b] <= Claim(req[s]) - Claim(Idle)
  <2>1. Deleted(entries[b], d) \in Nat /\ Deleted(entries[b], d) <= entries[b]
    BY <1>3 DEF Deleted
  <2> HIDE DEF b
  <2> QED
    BY <1>2, <1>3, <1>6, <2>1
<1>8. req[s].pc \notin Playing
  BY <1>1 DEF Playing
<1> HIDE DEF n, b
<1> QED
  BY <1>1, <1>2, <1>3, <1>5, <1>7, <1>8, PaidMove

LEMMA InjectKeeps ==
  ASSUME LifecycleInv, NEW s \in Slots, InjectChecks(s) \/ InjectCounts(s) \/ InjectFills(s)
  PROVE  LifecycleInv'
<1> DEFINE q == req[s]
<1>1. q \in Req /\ RequestOK(s, q) /\ req \in [Slots -> Req] /\ Claim(q) \in Nat
  BY RequestType, ClaimBounds, LifecycleAssumption
<1>2. requests \in Nat /\ restarts \in Nat
  BY CountersStep
<1>3. s[1] = "entry" /\ q.pc \in {"read", "slots", "fill"} /\ q.pc \notin Playing
  BY <1>1 DEF InjectChecks, InjectCounts, InjectFills, At, RequestOK, Playing
<1>4. ASSUME Ends(s), UNCHANGED <<status, entries, directors, mapped, requests, restarts>>
      PROVE  LifecycleInv'
  <2>1. Move(s, Idle) /\ Claim(Idle) = 0 /\ Idle.pc = "off"
    BY <1>4, EndsMove, IdleOK DEF Idle
  <2>2. Claim(Idle) <= Claim(req[s])
    BY <1>1, <2>1
  <2> QED
    BY <1>2, <1>3, <1>4, <2>1, <2>2, QuietMove
<1>5. CASE InjectChecks(s)
  <2>1. CASE Goto(s, "slots")
    <3> DEFINE r == [q EXCEPT !.pc = "slots"]
    <3>1. r \in Req /\ r.pc = "slots" /\ r.fresh = q.fresh /\ req' = [req EXCEPT ![s] = r]
      BY <1>1, <2>1 DEF Goto, Req, Labels
    <3>2. Move(s, r) /\ Claim(r) = 0
      BY <1>1, <1>3, <3>1 DEF Move, RequestOK, Claim
    <3>3. UNCHANGED <<status, entries, directors, mapped, requests, restarts>>
      BY <1>5 DEF InjectChecks
    <3>4. Claim(r) <= Claim(req[s])
      BY <1>1, <3>2
    <3> HIDE DEF r, q
    <3> QED
      BY <1>2, <1>3, <3>1, <3>2, <3>3, <3>4, QuietMove DEF q
  <2> QED
    BY <1>4, <1>5, <2>1 DEF InjectChecks
<1>6. CASE InjectCounts(s)
  <2>1. CASE Ends(s)
    BY <1>4, <1>6, <2>1 DEF InjectCounts
  <2>2. CASE ~Ends(s)
    <3>1. PICK n \in 1 .. SlotsLeft :
            req' = [req EXCEPT ![s].pc = "fill", ![s].left = n,
                               ![s].fresh = {b \in System : entries[b] = 0}]
      BY <1>6, <2>2 DEF InjectCounts
    <3> DEFINE free == {b \in System : entries[b] = 0}
               r == [q EXCEPT !.pc = "fill", !.left = n, !.fresh = free]
    <3>2. q.pc = "slots" /\ UNCHANGED <<status, entries, directors, mapped, requests, restarts>>
      BY <1>6 DEF InjectCounts, At
    <3>3. /\ EntryCount' = EntryCount /\ EntryCount \in Nat
          /\ n \in Nat /\ EntryCount + n <= MaxPlayers
      BY <3>2, EntryCountIsNat, LifecycleAssumption DEF SlotsLeft, EntryCount, LifecycleInv
    <3>4. /\ r \in Req /\ r.pc = "fill" /\ r.left = n /\ r.fresh \subseteq System
          /\ req' = [req EXCEPT ![s] = r]
      BY <1>1, <3>1, <3>3, LifecycleAssumption DEF Req, Labels
    <3>5. Move(s, r) /\ Claim(r) = n /\ Claim(q) = 0
      BY <1>3, <3>2, <3>3, <3>4, LifecycleAssumption DEF Move, RequestOK, Claim
    <3> HIDE DEF r
    <3>6. /\ SumFunction(Claims(req)') = SumFunction(Claims(req)) + n
          /\ SumFunction(Claims(req)) <= (Parallel - 1) * MaxPlayers
          /\ SumFunction(Claims(req)) \in Int
      BY <1>3, <3>3, <3>5, MoveClaims, OthersClaims, LifecycleAssumption
    <3>7. (Parallel - 1) * MaxPlayers + MaxPlayers = Parallel * MaxPlayers
          /\ (Parallel - 1) * MaxPlayers \in Int /\ MaxPlayers \in Nat
      BY LifecycleAssumption
    <3>8. ClaimsFit'
      BY <3>3, <3>6, <3>7 DEF ClaimsFit
    <3>9. LaunchHasDirector' /\ SomebodyPlays'
      BY <1>3, <3>2, <3>4, <3>5, StillPlayed
    <3>10. RequestsOK' /\ req' \in [Slots -> Req]
      BY <3>5, MoveClaims
    <3> QED
      BY <3>2, <3>8, <3>9, <3>10 DEF LifecycleInv, LifecycleTypeOK, Req
  <2> QED
    BY <2>1, <2>2
<1>7. CASE InjectFills(s)
  <2> DEFINE pool == IF q.fresh = {} THEN System ELSE q.fresh
  <2>1. q.pc = "fill" /\ UNCHANGED <<status, directors, mapped, requests, restarts>>
    BY <1>7 DEF InjectFills, At
  <2>2. CASE pool = {} \/ q.left = 0
    BY <1>4, <1>7, <2>1, <2>2 DEF InjectFills
  <2>3. CASE ~(pool = {} \/ q.left = 0)
    <3>1. PICK b \in pool :
            /\ entries' = [entries EXCEPT ![b] = @ + 1]
            /\ req' = [req EXCEPT ![s].left = @ - 1, ![s].fresh = @ \ {b}]
      BY <1>7, <2>3 DEF InjectFills
    <3> DEFINE r == [q EXCEPT !.left = @ - 1, !.fresh = @ \ {b}]
    <3>2. b \in Bots /\ q.fresh \subseteq System /\ q.left \in Nat \ {0} /\ q.left <= MaxPlayers
      BY <1>1, <2>1, <2>3, LifecycleAssumption DEF RequestOK, Req
    <3>3. /\ r \in Req /\ r.pc = "fill" /\ r.left = q.left - 1 /\ r.fresh = q.fresh \ {b}
          /\ req' = [req EXCEPT ![s] = r]
      <4>1. q.left - 1 \in Nat
        BY <3>2
      <4> HIDE DEF q
      <4>2. r \in Req /\ r.pc = q.pc /\ r.left = q.left - 1 /\ r.fresh = q.fresh \ {b}
        BY <1>1, <4>1 DEF Req
      <4> QED
        BY <1>1, <2>1, <3>1, <4>2 DEF q
    <3>4. Move(s, r) /\ Claim(r) = q.left - 1 /\ Claim(q) = q.left
      BY <1>3, <2>1, <3>2, <3>3, LifecycleAssumption DEF Move, RequestOK, Claim
    <3>5. entries[b] \in Nat /\ entries[b] + 1 \in Nat
      BY <3>2 DEF LifecycleInv, LifecycleTypeOK
    <3>6. (entries[b] + 1) - entries[b] <= Claim(req[s]) - Claim(r)
      BY <3>2, <3>4, <3>5
    <3> DEFINE n == entries[b] + 1
    <3>7. entries' = [entries EXCEPT ![b] = n] /\ n \in Nat /\ n - entries[b] <= Claim(req[s]) - Claim(r)
      BY <3>1, <3>5, <3>6
    <3> HIDE DEF n, r, q, pool
    <3> QED
      BY <1>3, <2>1, <3>2, <3>3, <3>4, <3>7, PaidMove DEF q
  <2> QED
    BY <2>2, <2>3
<1> QED
  BY <1>5, <1>6, <1>7

-----------------------------------------------------------------------------
(* Starts, cancellations, recoveries and the ends of directors                *)

Statuses == {"registering", "running", "finished", "cancelled", "error"}
Phases   == {"starting", "playing", "over"}

\* A step of a request that writes no entry: what is left to show of it.
LEMMA RowMove ==
  ASSUME LifecycleInv, NEW s, NEW r, Move(s, r), Claim(r) = 0, entries' = entries,
         status' \in Statuses, directors' \in Seq(Phases), mapped' \in 0 .. Len(directors'),
         requests' \in Nat, restarts' \in Nat,
         LaunchHasDirector', SomebodyPlays'
  PROVE  LifecycleInv'
<1>1. Claim(req[s]) \in Nat
  BY RequestType, ClaimBounds, LifecycleAssumption DEF Move
<1>2. ClaimsFit'
  BY <1>1, ClaimsKept
<1>3. RequestsOK' /\ req' \in [Slots -> Req]
  BY MoveClaims
<1>4. entries' \in [Bots -> Nat]
  BY DEF LifecycleInv, LifecycleTypeOK
<1> QED
  BY <1>2, <1>3, <1>4 DEF LifecycleInv, LifecycleTypeOK, Req, Statuses, Phases

LEMMA RowTypes ==
  ASSUME LifecycleInv
  PROVE  /\ status \in Statuses /\ directors \in Seq(Phases) /\ mapped \in 0 .. Len(directors)
         /\ requests \in Nat /\ requests + 1 \in Nat /\ restarts \in Nat
         /\ LaunchHasDirector /\ SomebodyPlays
BY DEF LifecycleInv, LifecycleTypeOK, Statuses, Phases

\* What the requests of the others are after a move.
LEMMA MoveLeavesOthers ==
  ASSUME LifecycleInv, NEW s, NEW r, Move(s, r)
  PROVE  s \in Slots /\ req'[s] = r /\ \A t \in Slots \ {s} : req'[t] = req[t]
BY RequestType DEF Move

LEMMA AsksKeep ==
  ASSUME LifecycleInv, NEW s \in Slots, Sweep(s) \/ StartAsked(s) \/ CancelAsked(s)
  PROVE  LifecycleInv'
<1>1. PICK op \in Ops, label \in {"list", "row", "cancel"} :
        req' = [req EXCEPT ![s] = [Idle EXCEPT !.op = op, !.pc = label]]
  BY DEF Sweep, StartAsked, CancelAsked, Ops
<1> DEFINE r == [Idle EXCEPT !.op = op, !.pc = label]
<1>2. r \in Req /\ r.pc = label /\ r.fresh = {}
  BY DEF Req, Idle, Labels, Ops
<1>3. Move(s, r) /\ Claim(r) = 0
  BY <1>1, <1>2 DEF Move, RequestOK, Claim
<1>4. req[s] = Idle /\ requests' \in {requests, requests + 1}
      /\ UNCHANGED <<status, entries, directors, mapped, restarts>>
  BY DEF Sweep, StartAsked, CancelAsked
<1>5. Claim(r) <= Claim(req[s]) /\ req[s].pc \notin Playing
  BY <1>3, <1>4, IdleOK DEF Idle, Playing
<1>6. requests' \in Nat /\ restarts' \in Nat
  BY <1>4, CountersStep
<1> HIDE DEF r
<1> QED
  BY <1>2, <1>3, <1>4, <1>5, <1>6, QuietMove

\* checkScheduledTournaments and startTournament, as long as they only read.
LEMMA ReadsKeep ==
  ASSUME LifecycleInv, NEW s \in Slots,
         SweepCounts(s) \/ StartReadsRow(s) \/ StartReadsEntries(s) \/ StartEnds(s)
  PROVE  LifecycleInv'
<1>1. /\ UNCHANGED <<status, entries, directors, mapped, requests, restarts>>
      /\ req[s].pc \notin Playing
  BY DEF SweepCounts, StartReadsRow, StartReadsEntries, StartEnds, At, Playing
<1>2. \/ Ends(s)
      \/ \E label \in {"undo", "row", "end", "entries", "run"} : Goto(s, label)
  BY DEF SweepCounts, StartReadsRow, StartReadsEntries, StartEnds, WhenTooFew
<1>3. \E r : Move(s, r) /\ r.pc # "launch" /\ Claim(r) = 0
  <2>1. CASE Ends(s)
    BY <2>1, EndsMove, IdleOK DEF Idle
  <2>2. ASSUME NEW label \in {"undo", "row", "end", "entries", "run"}, Goto(s, label)
        PROVE  \E r : Move(s, r) /\ r.pc # "launch" /\ Claim(r) = 0
    <3>1. label \in Labels \ {"read", "write", "slots", "fill"}
      BY DEF Labels
    <3> QED
      BY <2>2, <3>1, GotoMove
  <2> QED
    BY <1>2, <2>1, <2>2
<1>4. PICK r : Move(s, r) /\ r.pc # "launch" /\ Claim(r) = 0
  BY <1>3
<1>5. Claim(r) <= Claim(req[s]) /\ requests' \in Nat /\ restarts' \in Nat
  BY <1>1, <1>4, RequestType, ClaimBounds, LifecycleAssumption, CountersStep
<1> QED
  BY <1>1, <1>4, <1>5, QuietMove

\* startTournament, from the row that it marks to the director that plays or failed.
LEMMA StartKeeps ==
  ASSUME LifecycleInv, NEW s \in Slots,
         StartMarks(s) \/ StartMaps(s) \/ StartLaunches(s) \/ StartFails(s)
  PROVE  LifecycleInv'
<1> USE RowTypes
<1>1. CASE StartMarks(s)
  <2>1. /\ status' = "running" /\ Goto(s, "map")
        /\ UNCHANGED <<entries, directors, mapped, requests, restarts>>
    BY <1>1 DEF StartMarks
  <2>2. PICK r : Move(s, r) /\ r.pc = "map" /\ Claim(r) = 0
    BY <2>1, GotoMove DEF Labels
  <2>3. LaunchHasDirector' /\ SomebodyPlays'
    BY <2>1, <2>2, MoveLeavesOthers DEF LaunchHasDirector, SomebodyPlays
  <2> QED
    BY <2>1, <2>2, <2>3, RowMove DEF Statuses
<1>2. CASE StartMaps(s)
  <2> DEFINE n == Len(directors) + 1
             r == [req[s] EXCEPT !.pc = "launch", !.left = n]
  <2>1. /\ directors' = Append(directors, "starting") /\ mapped' = Len(directors')
        /\ req' = [req EXCEPT ![s].pc = "launch", ![s].left = Len(directors')]
        /\ UNCHANGED <<status, entries, requests, restarts>>
    BY <1>2 DEF StartMaps
  <2>2. /\ directors' \in Seq(Phases) /\ Len(directors') = n /\ n \in Nat \ {0}
        /\ DOMAIN directors' = 1 .. n /\ DOMAIN directors \subseteq DOMAIN directors'
        /\ directors'[n] = "starting"
    BY <2>1 DEF Phases
  <2>3. /\ req[s] \in Req /\ RequestOK(s, req[s]) /\ req \in [Slots -> Req]
    BY RequestType
  <2>4. r \in Req /\ r.pc = "launch" /\ r.left = n /\ r.fresh = req[s].fresh
    BY <2>2, <2>3 DEF Req, Labels
  <2>5. req' = [req EXCEPT ![s] = r]
    BY <2>1, <2>2, <2>3
  <2>6. Move(s, r) /\ Claim(r) = 0
    BY <2>3, <2>4, <2>5 DEF Move, RequestOK, Claim
  <2> HIDE DEF r
  <2>7. LaunchHasDirector'
    <3> SUFFICES ASSUME NEW t \in Slots, req'[t].pc = "launch"
                 PROVE  req'[t].left \in DOMAIN directors'
      BY DEF LaunchHasDirector
    <3>1. CASE t = s
      BY <2>2, <2>4, <2>6, <3>1, MoveLeavesOthers
    <3>2. CASE t # s
      BY <2>2, <2>6, <3>2, MoveLeavesOthers DEF LaunchHasDirector
    <3> QED
      BY <3>1, <3>2
  <2>8. SomebodyPlays'
    <3>1. n \in DOMAIN directors' /\ directors'[n] # "over"
      BY <2>2
    <3> QED
      BY <3>1 DEF SomebodyPlays
  <2>9. mapped' \in 0 .. Len(directors')
    BY <2>1, <2>2
  <2> QED
    BY <2>1, <2>2, <2>6, <2>7, <2>8, <2>9, RowMove
<1>3. CASE StartLaunches(s)
  <2> DEFINE d == req[s].left
  <2>1. /\ directors' = [directors EXCEPT ![d] = "playing"] /\ Ends(s) /\ req[s].pc = "launch"
        /\ UNCHANGED <<status, entries, mapped, requests, restarts>>
    BY <1>3 DEF StartLaunches, At
  <2>2. d \in DOMAIN directors
    BY <2>1 DEF LaunchHasDirector
  <2>3. /\ directors' \in Seq(Phases) /\ Len(directors') = Len(directors)
        /\ DOMAIN directors' = DOMAIN directors /\ directors'[d] = "playing"
    BY <2>1, <2>2, RowTypes DEF Phases
  <2>4. Move(s, Idle) /\ Claim(Idle) = 0 /\ Idle.pc = "off"
    BY <2>1, EndsMove, IdleOK DEF Idle
  <2>5. LaunchHasDirector'
    BY <2>3, <2>4, MoveLeavesOthers DEF LaunchHasDirector
  <2>6. SomebodyPlays'
    BY <2>2, <2>3 DEF SomebodyPlays
  <2>7. /\ status' \in Statuses /\ mapped' \in 0 .. Len(directors')
        /\ requests' \in Nat /\ restarts' \in Nat /\ entries' = entries
    BY <2>1, <2>3
  <2> QED
    BY <2>3, <2>4, <2>5, <2>6, <2>7, RowMove
<1>4. CASE StartFails(s)
  <2> DEFINE d == req[s].left
  <2>1. /\ directors' = [directors EXCEPT ![d] = "over"] /\ mapped' = 0 /\ Goto(s, "undo")
        /\ req[s].pc = "launch" /\ UNCHANGED <<status, entries, requests, restarts>>
    BY <1>4 DEF StartFails, At
  <2>2. d \in DOMAIN directors
    BY <2>1 DEF LaunchHasDirector
  <2>3. /\ directors' \in Seq(Phases) /\ Len(directors') = Len(directors)
        /\ DOMAIN directors' = DOMAIN directors
    BY <2>1, <2>2, RowTypes DEF Phases
  <2>4. PICK r : Move(s, r) /\ r.pc = "undo" /\ Claim(r) = 0
    BY <2>1, GotoMove DEF Labels
  <2>5. LaunchHasDirector'
    BY <2>3, <2>4, MoveLeavesOthers DEF LaunchHasDirector
  <2>6. SomebodyPlays'
    BY <2>4, MoveLeavesOthers DEF SomebodyPlays
  <2>7. /\ status' \in Statuses /\ mapped' \in 0 .. Len(directors')
        /\ requests' \in Nat /\ restarts' \in Nat /\ entries' = entries
    BY <2>1, <2>3
  <2> QED
    BY <2>3, <2>4, <2>5, <2>6, <2>7, RowMove
<1> QED
  BY <1>1, <1>2, <1>3, <1>4

\* The rows that are cancelled, and the recovery after a restart.
LEMMA UndoesKeep ==
  ASSUME LifecycleInv, NEW s \in Slots,
         StartUndone(s) \/ CancelWrites(s) \/ RecoverFinds(s) \/ Recovers(s)
  PROVE  LifecycleInv'
<1> USE RowTypes
<1>1. ASSUME StartUndone(s) \/ CancelWrites(s) PROVE LifecycleInv'
  <2>1. status' = "cancelled" /\ Ends(s) /\ UNCHANGED <<entries, directors, mapped, requests, restarts>>
    BY <1>1 DEF StartUndone, CancelWrites
  <2>2. Move(s, Idle) /\ Claim(Idle) = 0 /\ Idle.pc = "off"
    BY <2>1, EndsMove, IdleOK DEF Idle
  <2>3. LaunchHasDirector' /\ SomebodyPlays'
    BY <2>1, <2>2, MoveLeavesOthers DEF LaunchHasDirector, SomebodyPlays
  <2> QED
    BY <2>1, <2>2, <2>3, RowMove DEF Statuses
<1>2. CASE RecoverFinds(s)
  <2>1. /\ req[s].pc = "find" /\ UNCHANGED <<status, entries, directors, mapped, requests, restarts>>
        /\ IF status = "running" /\ mapped = 0 THEN Goto(s, "recover") ELSE Ends(s)
    BY <1>2 DEF RecoverFinds, At, NoDirector
  <2>2. CASE status = "running" /\ mapped = 0
    <3>1. PICK r : Move(s, r) /\ r.pc = "recover" /\ Claim(r) = 0
      BY <2>1, <2>2, GotoMove DEF Labels
    <3>2. LaunchHasDirector' /\ SomebodyPlays'
      BY <2>1, <3>1, MoveLeavesOthers DEF LaunchHasDirector, SomebodyPlays
    <3> QED
      BY <2>1, <3>1, <3>2, RowMove
  <2>3. CASE ~(status = "running" /\ mapped = 0)
    <3>1. Move(s, Idle) /\ Claim(Idle) = 0 /\ Idle.pc = "off"
      BY <2>1, <2>3, EndsMove, IdleOK DEF Idle
    <3>2. LaunchHasDirector'
      BY <2>1, <3>1, MoveLeavesOthers DEF LaunchHasDirector
    <3>3. SomebodyPlays'
      BY <2>1, <2>3, <3>1, MoveLeavesOthers DEF SomebodyPlays
    <3> QED
      BY <2>1, <3>1, <3>2, <3>3, RowMove
  <2> QED
    BY <2>2, <2>3
<1>3. CASE Recovers(s)
  <2> DEFINE n == Len(directors) + 1
  <2>1. /\ directors' = Append(directors, "playing") /\ mapped' = Len(directors') /\ Ends(s)
        /\ UNCHANGED <<status, entries, requests, restarts>>
    BY <1>3 DEF Recovers
  <2>2. /\ directors' \in Seq(Phases) /\ Len(directors') = n /\ n \in Nat \ {0}
        /\ DOMAIN directors' = 1 .. n /\ DOMAIN directors \subseteq DOMAIN directors'
        /\ directors'[n] = "playing"
    BY <2>1 DEF Phases
  <2>3. Move(s, Idle) /\ Claim(Idle) = 0 /\ Idle.pc = "off"
    BY <2>1, EndsMove, IdleOK DEF Idle
  <2>4. LaunchHasDirector'
    BY <2>2, <2>3, MoveLeavesOthers DEF LaunchHasDirector
  <2>5. SomebodyPlays'
    <3>1. n \in DOMAIN directors' /\ directors'[n] # "over"
      BY <2>2
    <3> QED
      BY <3>1 DEF SomebodyPlays
  <2>6. mapped' \in 0 .. Len(directors')
    BY <2>1, <2>2
  <2> QED
    BY <2>1, <2>2, <2>3, <2>4, <2>5, <2>6, RowMove
<1> QED
  BY <1>1, <1>2, <1>3

\* What changes no request keeps the claims.
LEMMA ClaimsStand ==
  ASSUME LifecycleInv, UNCHANGED <<entries, req>>
  PROVE  ClaimsFit' /\ RequestsOK' /\ req' \in [Slots -> Req] /\ entries' \in [Bots -> Nat]
BY DEF LifecycleInv, LifecycleTypeOK, ClaimsFit, RequestsOK, RequestOK, Claims, EntryCount, Req

LEMMA DirectorKeeps ==
  ASSUME LifecycleInv, NEW d \in DOMAIN directors, Ending(d)
  PROVE  LifecycleInv'
<1>1. /\ directors' = [directors EXCEPT ![d] = "over"] /\ status' \in {"finished", "error"}
      /\ mapped' \in {0, mapped} /\ UNCHANGED <<entries, req, requests, restarts>>
  BY DEF Ending, DirectorFinishes, DirectorErrs
<1>2. /\ directors' \in Seq(Phases) /\ Len(directors') = Len(directors)
      /\ DOMAIN directors' = DOMAIN directors
  BY <1>1, RowTypes DEF Phases
<1>3. LaunchHasDirector' /\ SomebodyPlays'
  BY <1>1, <1>2, RowTypes DEF LaunchHasDirector, SomebodyPlays
<1> QED
  BY <1>1, <1>2, <1>3, ClaimsStand, RowTypes DEF LifecycleInv, LifecycleTypeOK, Phases, Req

LEMMA ResetKeeps ==
  ASSUME LifecycleInv, ResetDevState
  PROVE  LifecycleInv'
<1>1. status' = "cancelled" /\ requests' = requests + 1
      /\ UNCHANGED <<entries, req, directors, mapped, restarts>>
  BY DEF ResetDevState
<1>2. LaunchHasDirector' /\ SomebodyPlays'
  BY <1>1, RowTypes DEF LaunchHasDirector, SomebodyPlays
<1> QED
  BY <1>1, <1>2, ClaimsStand, RowTypes DEF LifecycleInv, LifecycleTypeOK, Phases, Req

\* Nothing is claimed by requests that are idle or find the running tournaments.
LEMMA NothingClaimed ==
  ASSUME LifecycleInv, entries' = entries,
         req' \in [Slots -> Req], \A s \in Slots : Claim(req'[s]) = 0
  PROVE  ClaimsFit'
<1>1. Claims(req)' = [i \in 1 .. Parallel |-> 0]
  <2>1. \A i \in 1 .. Parallel : <<"entry", i>> \in Slots
    BY DEF Slots
  <2> QED
    BY <2>1 DEF Claims
<1>2. SumFunction(Claims(req)') = 0
  BY <1>1, SumOfZero, ParallelFinite
<1>3. SumFunction(Claims(req)) \in Nat
  <2>1. Claims(req) \in [1 .. Parallel -> Nat]
    BY ClaimsType, LifecycleAssumption
  <2> QED
    BY <2>1, SumIsNat, ParallelFinite
<1>4. EntryCount' = EntryCount /\ EntryCount \in Nat
  BY EntryCountIsNat DEF EntryCount, LifecycleInv
<1>5. EntryCount + SumFunction(Claims(req)) <= Parallel * MaxPlayers /\ Parallel * MaxPlayers \in Int
  BY LifecycleAssumption DEF LifecycleInv, ClaimsFit
<1> HIDE DEF Claims
<1>6. EntryCount' + SumFunction(Claims(req)') <= Parallel * MaxPlayers
  BY <1>2, <1>3, <1>4, <1>5
<1> QED
  BY <1>6 DEF ClaimsFit

LEMMA RestartKeeps ==
  ASSUME LifecycleInv, Restart
  PROVE  LifecycleInv'
<1> DEFINE boot == <<"boot", 1>>
           r == [Idle EXCEPT !.pc = "find"]
<1>1. /\ req' = [s \in Slots |-> IF s = boot THEN r ELSE Idle]
      /\ directors' = <<>> /\ mapped' = 0 /\ restarts' = restarts + 1
      /\ UNCHANGED <<status, entries, requests>>
  BY DEF Restart, AtBoot
<1>2. r \in Req /\ r.pc = "find" /\ r.fresh = {} /\ Claim(r) = 0 /\ \A s : RequestOK(s, r)
  BY DEF Req, Idle, Labels, Ops, RequestOK, Claim
<1>3. boot \in Slots
  BY DEF Slots
<1>4. /\ req' \in [Slots -> Req] /\ RequestsOK'
      /\ \A s \in Slots : Claim(req'[s]) = 0
      /\ req'[boot].pc = "find" /\ \A s \in Slots : req'[s].pc # "launch"
  <2>1. Idle.pc = "off"
    BY DEF Idle
  <2> HIDE DEF r
  <2> QED
    BY <1>1, <1>2, <1>3, <2>1, IdleOK DEF RequestsOK
<1>5. ClaimsFit'
  BY <1>1, <1>4, NothingClaimed
<1>6. LaunchHasDirector' /\ SomebodyPlays'
  BY <1>1, <1>3, <1>4 DEF LaunchHasDirector, SomebodyPlays
<1>7. directors' \in Seq(Phases) /\ mapped' \in 0 .. Len(directors')
  BY <1>1
<1>8. restarts' \in Nat /\ entries' \in [Bots -> Nat] /\ status' \in Statuses /\ requests' \in Nat
  BY <1>1, RowTypes, CountersStep DEF LifecycleInv, LifecycleTypeOK
<1> QED
  BY <1>4, <1>5, <1>6, <1>7, <1>8 DEF LifecycleInv, LifecycleTypeOK, Phases, Statuses, Req

LEMMA LifecycleInitInv == LifecycleInit => LifecycleInv
<1> SUFFICES ASSUME LifecycleInit PROVE LifecycleInv
  OBVIOUS
<1>1. /\ entries = [b \in Bots |-> 0] /\ req = [s \in Slots |-> Idle]
      /\ status = "registering" /\ directors = <<>> /\ mapped = 0 /\ requests = 0 /\ restarts = 0
  BY DEF LifecycleInit
<1>2. LifecycleTypeOK
  <2>1. req \in [Slots -> Req] /\ entries \in [Bots -> Nat]
    BY <1>1, IdleOK
  <2> QED
    BY <1>1, <2>1 DEF LifecycleTypeOK, Req
<1>3. RequestsOK /\ LaunchHasDirector /\ SomebodyPlays
  <2>1. Idle.pc = "off" /\ \A s \in Slots : req[s] = Idle
    BY <1>1 DEF Idle
  <2> QED
    BY <1>1, <2>1, IdleOK DEF RequestsOK, LaunchHasDirector, SomebodyPlays
<1>4. ClaimsFit
  <2>1. Claims(req) = [i \in 1 .. Parallel |-> 0]
    <3>1. \A i \in 1 .. Parallel : <<"entry", i>> \in Slots
      BY DEF Slots
    <3> QED
      BY <1>1, <3>1, IdleOK DEF Claims
  <2>2. SumFunction(Claims(req)) = 0 /\ EntryCount = 0
    BY <1>1, <2>1, SumOfZero, ParallelFinite, LifecycleAssumption DEF EntryCount
  <2>3. Parallel * MaxPlayers \in Nat
    BY LifecycleAssumption
  <2> QED
    BY <2>2, <2>3 DEF ClaimsFit
<1> QED
  BY <1>2, <1>3, <1>4 DEF LifecycleInv

LEMMA LifecycleNextInv == LifecycleInv /\ [LifecycleNext]_lifecycleVars => LifecycleInv'
<1> SUFFICES ASSUME LifecycleInv, [LifecycleNext]_lifecycleVars PROVE LifecycleInv'
  OBVIOUS
<1>1. ASSUME NEW s \in Slots, NEW b \in Bots, NEW op \in DOMAIN Reads, Ask(s, op, b)
      PROVE  LifecycleInv'
  BY <1>1, AskKeeps
<1>2. ASSUME NEW s \in Slots, EntryStep(s) PROVE LifecycleInv'
  BY <1>2, ChecksKeeps, WritesKeeps, InjectKeeps DEF EntryStep
<1>3. ASSUME NEW s \in Slots, StarterStep(s) \/ CancelAsked(s) \/ CancelWrites(s) \/ StartAsked(s)
      PROVE  LifecycleInv'
  BY <1>3, AsksKeep, ReadsKeep, StartKeeps, UndoesKeep DEF StarterStep
<1>4. ASSUME NEW d \in DOMAIN directors, Ending(d) PROVE LifecycleInv'
  BY <1>4, DirectorKeeps
<1>5. CASE ResetDevState \/ Restart
  BY <1>5, ResetKeeps, RestartKeeps
<1>6. CASE UNCHANGED lifecycleVars
  <2>1. UNCHANGED <<status, entries, req, directors, mapped, requests, restarts>>
    BY <1>6 DEF lifecycleVars
  <2>2. LaunchHasDirector' /\ SomebodyPlays'
    BY <2>1, RowTypes DEF LaunchHasDirector, SomebodyPlays
  <2> QED
    BY <2>1, <2>2, ClaimsStand, RowTypes DEF LifecycleInv, LifecycleTypeOK, Statuses, Phases, Req
<1> QED
  BY <1>1, <1>2, <1>3, <1>4, <1>5, <1>6 DEF LifecycleNext

LEMMA LifecycleInvHolds == LifecycleSpec => []LifecycleInv
BY LifecycleInitInv, LifecycleNextInv, PTL DEF LifecycleSpec

\* However many bots, restarts and overlapping registrations, sweeps, starts and
\* cancellations: a tournament whose row says running has a director that is not over, or a
\* start or a recovery under way.
THEOREM RunningTournamentIsPlayed == LifecycleSpec => []RunningIsPlayed
<1>1. LifecycleInv => RunningIsPlayed
  BY DEF LifecycleInv, SomebodyPlays, RunningIsPlayed
<1> QED
  BY <1>1, LifecycleInvHolds, PTL

\* Registrations that check, await and write take a tournament over max_players, but never
\* further than one of max_players for each request that may be under way; and not at all
\* when they come one at a time.
THEOREM CapacityBounded == LifecycleSpec => []CapacityKept
<1>1. LifecycleInv => CapacityKept
  <2> SUFFICES ASSUME LifecycleInv PROVE CapacityKept
    OBVIOUS
  <2>1. Claims(req) \in [1 .. Parallel -> Nat]
    BY ClaimsType, LifecycleAssumption
  <2>2. SumFunction(Claims(req)) \in Nat
    BY <2>1, SumIsNat, ParallelFinite
  <2>3. EntryCount \in Nat /\ Parallel * MaxPlayers \in Nat
    BY EntryCountIsNat, LifecycleAssumption DEF LifecycleInv
  <2> QED
    BY <2>2, <2>3 DEF LifecycleInv, ClaimsFit, CapacityKept
<1> QED
  BY <1>1, LifecycleInvHolds, PTL
=============================================================================
