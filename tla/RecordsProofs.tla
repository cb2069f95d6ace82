--------------------------- MODULE RecordsProofs ----------------------------
(***************************************************************************)
(* The records of hands: how they come into the database, and how they go   *)
(* from there to the archive.                                               *)
(*                                                                         *)
(* HandRecords, for any number of bots and hands, and any number of crashes  *)
(* and failing statements: transactions of several hands never wait for each *)
(* other in a circle, a hand counts once, and the statistics count none      *)
(* twice. A completion works on the row of its own hand (Work), so a hand    *)
(* that is being counted is not final. It holds only rows below the one it    *)
(* asks for next (Locks): along a chain of waiting completions the rows       *)
(* asked for go up, which a circle cannot. What was counted but not yet       *)
(* handed on to the statistics is what completions are still to publish      *)
(* (Counts).                                                                *)
(*                                                                         *)
(* Archive, for any number of hands and servers, any page and batch size and  *)
(* any number of faults: no hand is lost, and every hand can be read. Jobs    *)
(* overlap, so nothing is said of the lock. What holds them together is the   *)
(* object: a job that has not seen it has read a table nobody has pruned,     *)
(* page for page (Complete), and one that writes it has read every hand. So   *)
(* the object is whole as soon as it is there, the address is only stored     *)
(* after it, and only then are hands deleted.                                *)
(***************************************************************************)
EXTENDS HandRecords, Archive, SumLemmas


Publishing == {h \in Hands : complete[h].at = "publish"}

Types ==
  /\ play \in [hand : 0 .. MaxHand, at : {"between", "hand", "over", "down"}]
  /\ complete \in [Hands -> CompleteTasks]
  /\ finish \in FinishTasks
  /\ hands \in [Hands -> {"none", "open", "final"}]
  /\ game.total \in Nat
  /\ handsPlayed \in [Bots -> Nat] /\ handsWon \in [Bots -> Nat]
  /\ pending \in [Bots -> Nat] /\ batch \in [Bots -> Nat] /\ botStats \in [Bots -> Nat]

\* A hand has a completion only when it was played by this server.
Work ==
  /\ \A h \in Hands :
       complete[h].at # "none" =>
         /\ h <= play.hand /\ play.at # "down"
         /\ h = play.hand => play.at # "hand"
  /\ \A h \in Hands : complete[h].at \in {"check", "lock", "commit"} => hands[h] # "none"
  /\ \A h \in Hands : complete[h].at \in {"lock", "commit"} => hands[h] = "open"
  /\ play.at = "hand" => play.hand \in Hands
  /\ finish.at # "none" => play.at = "over"
  /\ cached \subseteq {h \in Hands : hands[h] # "none"}

Locks ==
  /\ locks \in [Rows -> Hands \cup {0}]
  /\ \A r \in Rows : locks[r] # 0 =>
       complete[locks[r]].at \in {"lock", "commit"} /\ r < complete[locks[r]].next
  /\ \A h \in Hands :
       complete[h].at \in {"find", "check", "lock"} => complete[h].next \in Rows

Counts ==
  /\ \A b \in Bots : handsPlayed[b] = Cardinality(Finalized)
  /\ SumFunction(handsWon) = Cardinality(Finalized)
  /\ play.at # "over" => game.total = Cardinality(Finalized)
  /\ \A b \in Bots :
       botStats[b] + batch[b] + pending[b] + Cardinality(Publishing)
         <= Cardinality(Finalized)

Inv == Types /\ Work /\ Locks /\ Counts

-----------------------------------------------------------------------------
(* Finite sets *)

LEMMA FiniteParts ==
  /\ NumBots \in Nat \ {0} /\ MaxHand \in Nat
  /\ IsFiniteSet(Hands) /\ IsFiniteSet(Bots)
  /\ \A T \in SUBSET Hands : IsFiniteSet(T) /\ Cardinality(T) \in Nat
  /\ \A T \in SUBSET Hands : \A h \in Hands \ T : Cardinality(T \cup {h}) = Cardinality(T) + 1
  /\ \A T \in SUBSET Hands : \A h \in T : Cardinality(T \ {h}) = Cardinality(T) - 1
  /\ \A T \in SUBSET Hands : \A U \in SUBSET T : Cardinality(U) <= Cardinality(T)
<1>1. NumBots \in Nat \ {0} /\ MaxHand \in Nat
  BY NumBotsAssumption, MaxHandAssumption
<1>2. IsFiniteSet(Hands) /\ IsFiniteSet(Bots)
  BY <1>1, FS_Interval DEF Hands, Bots
<1>3. ASSUME NEW T \in SUBSET Hands PROVE IsFiniteSet(T) /\ Cardinality(T) \in Nat
  BY <1>2, <1>3, FS_Subset, FS_CardinalityType
<1>4. ASSUME NEW T \in SUBSET Hands, NEW h \in Hands \ T
      PROVE  Cardinality(T \cup {h}) = Cardinality(T) + 1
  BY <1>3, <1>4, FS_AddElement
<1>5. ASSUME NEW T \in SUBSET Hands, NEW h \in T
      PROVE  Cardinality(T \ {h}) = Cardinality(T) - 1
  BY <1>3, <1>5, FS_RemoveElement
<1>6. ASSUME NEW T \in SUBSET Hands, NEW U \in SUBSET T
      PROVE  Cardinality(U) <= Cardinality(T)
  BY <1>3, <1>6, FS_Subset
<1> QED
  BY <1>1, <1>2, <1>3, <1>4, <1>5, <1>6

LEMMA InitInv == Init => Inv
<1> SUFFICES ASSUME Init PROVE Inv
  OBVIOUS
<1>1. Types
  BY FiniteParts DEF Init, Types, CompleteTasks, FinishTasks, NoTask, Zero, NoBatch, Hands
<1>2. Work /\ Locks
  BY DEF Init, Work, Locks, NoTask
<1>3. Finalized = {} /\ Publishing = {}
  BY DEF Init, Finalized, Publishing, NoTask
<1>4. Cardinality(Finalized) = 0 /\ Cardinality(Publishing) = 0
  BY <1>3, FS_EmptySet
<1>5. SumFunction(handsWon) = 0
  BY FiniteParts, SumOfZero DEF Init, Zero
<1>6. Counts
  BY <1>4, <1>5 DEF Init, Counts, Zero, NoBatch
<1> QED
  BY <1>1, <1>2, <1>6 DEF Inv

-----------------------------------------------------------------------------
(* No circle *)

\* Of completions that wait, the one that asks for the highest row waits for none of
\* them.
LEMMA NoCircle == Inv => NoDeadlock
<1> SUFFICES ASSUME Inv, NEW S \in (SUBSET Hands) \ {{}},
                    \A h \in S : complete[h].at = "lock" /\ WaitsFor(h) \in S
             PROVE  FALSE
  BY DEF NoDeadlock
<1> DEFINE asks == [h \in Hands |-> IF complete[h].at = "lock" THEN complete[h].next ELSE 0]
<1>1. asks \in [Hands -> Int]
  BY FiniteParts DEF Inv, Locks, Rows, GameRow
<1>2. PICK top \in S : \A h \in S : asks[h] <= asks[top]
  <2> HIDE DEF asks
  <2> QED
    BY <1>1, FiniteParts, GreatestExists
<1>3. /\ complete[top].at = "lock" /\ complete[top].next \in Rows
      /\ NextRow(complete[top]) = complete[top].next
  BY DEF Inv, Locks, NextRow, LockOrder
<1>4. PICK h \in S : h = locks[complete[top].next]
  BY <1>3 DEF WaitsFor
<1>5. h \in Hands /\ h # 0 /\ complete[h].at = "lock"
  BY FiniteParts DEF Hands
<1>6. complete[top].next < complete[h].next /\ complete[h].next \in Rows
  BY <1>3, <1>4, <1>5 DEF Inv, Locks
<1>7. asks[h] = complete[h].next /\ asks[top] = complete[top].next
  BY <1>3, <1>5
<1>8. asks[h] <= asks[top]
  BY <1>2, <1>4, <1>3 DEF WaitsFor
<1>9. complete[h].next <= complete[top].next
  BY <1>7, <1>8
<1> QED
  BY <1>3, <1>6, <1>9, FiniteParts DEF Rows, GameRow

-----------------------------------------------------------------------------
(* The steps *)

\* What the counts depend on.
LEMMA CountsKept ==
  ASSUME Counts, Publishing' = Publishing,
         UNCHANGED <<hands, handsPlayed, handsWon, pending, batch, botStats>>,
         play'.at # "over" => play.at # "over" /\ game'.total = game.total
  PROVE  Counts'
<1>1. Finalized' = Finalized
  BY DEF Finalized
<1> QED
  BY <1>1 DEF Counts

\* A completion that neither starts nor ends its announcement.
LEMMA PublishingKept ==
  ASSUME complete \in [Hands -> CompleteTasks], NEW h \in Hands, NEW t,
         complete' = [complete EXCEPT ![h] = t],
         complete[h].at # "publish", t.at # "publish"
  PROVE  Publishing' = Publishing
BY DEF Publishing

LEMMA LoopInv ==
  ASSUME Inv, HandStarted \/ HandCompleted \/ GameFinished
  PROVE  Inv'
<1> USE FiniteParts DEF Inv, Hands
<1>1. CASE HandStarted
  <2>1. Types'
    BY <1>1 DEF HandStarted, Types, cacheVars, rowVars, statVars
  <2>2. Work' /\ Locks'
    BY <1>1 DEF HandStarted, Types, Work, Locks, cacheVars, rowVars, statVars
  <2>3. Counts'
    BY <1>1, CountsKept DEF HandStarted, Publishing, cacheVars, rowVars, statVars
  <2> QED BY <2>1, <2>2, <2>3
<1>2. CASE HandCompleted
  <2>1. PICK w \in Bots : complete' = [complete EXCEPT ![play.hand] =
           [at |-> IF play.hand \in cached THEN "check" ELSE "find",
            winner |-> w, tries |-> 0, next |-> 1]]
    BY <1>2 DEF HandCompleted
  <2> DEFINE t == [at |-> IF play.hand \in cached THEN "check" ELSE "find",
                   winner |-> w, tries |-> 0, next |-> 1]
  <2>2. play.hand \in Hands /\ complete[play.hand].at = "none"
    BY <1>2 DEF HandCompleted, Types, Work
  <2>3. t \in CompleteTasks
    BY AttemptsAssumption DEF CompleteTasks, GameRow
  <2>4. t.at \in {"find", "check"} /\ (t.at = "check" => play.hand \in cached)
    OBVIOUS
  <2>11. t.next \in Rows
    BY DEF Rows, GameRow
  <2> HIDE DEF t
  <2>5. complete' = [complete EXCEPT ![play.hand] = t]
    BY <2>1 DEF t
  <2>6. Types'
    BY <1>2, <2>2, <2>3, <2>5 DEF HandCompleted, Types, cacheVars, rowVars, statVars
  <2>7. Work'
    BY <1>2, <2>2, <2>4, <2>5
    DEF HandCompleted, Types, Work, cacheVars, rowVars, statVars
  <2>8. Locks'
    BY <1>2, <2>2, <2>4, <2>5, <2>11
    DEF HandCompleted, Types, Locks, cacheVars, rowVars, statVars
  <2>9. Publishing' = Publishing
    BY <2>2, <2>4, <2>5, PublishingKept DEF Types
  <2>10. Counts'
    BY <1>2, <2>9, CountsKept DEF HandCompleted, cacheVars, rowVars, statVars
  <2> QED BY <2>6, <2>7, <2>8, <2>10
<1>3. CASE GameFinished
  <2>1. Types'
    BY <1>3 DEF GameFinished, Types, FinishTasks, cacheVars, rowVars, statVars
  <2>2. Work' /\ Locks'
    BY <1>3 DEF GameFinished, Types, Work, Locks, cacheVars, rowVars, statVars
  <2>3. Counts'
    BY <1>3, CountsKept DEF GameFinished, Publishing, cacheVars, rowVars, statVars
  <2> QED BY <2>1, <2>2, <2>3
<1> QED BY <1>1, <1>2, <1>3

LEMMA StartInv ==
  ASSUME Inv, NEW h \in Hands, StartMarks(h) \/ StartInserts(h) \/ StartFails(h)
  PROVE  Inv'
<1> USE FiniteParts DEF Inv, Hands, cacheVars, loopVars, statVars, rowVars
<1>1. CASE StartMarks(h)
  <2>1. Types' /\ Work' /\ Locks'
    BY <1>1 DEF StartMarks, Types, Work, Locks
  <2>2. Counts'
    BY <1>1, CountsKept DEF StartMarks, Publishing
  <2> QED BY <2>1, <2>2
<1>2. CASE StartInserts(h)
  <2>1. Types'
    BY <1>2 DEF StartInserts, Types
  <2>2. Work'
    <3>1. CASE hands[h] = "none"
      <4>1. hands' = [hands EXCEPT ![h] = "open"] /\ cached' = cached \cup {h}
        BY <1>2, <3>1 DEF StartInserts
      <4>2. \A g \in Hands : hands[g] # "none" => hands'[g] = hands[g]
        BY <3>1, <4>1 DEF Types
      <4>3. hands'[h] = "open"
        BY <4>1 DEF Types
      <4>4. UNCHANGED <<play, complete, finish>>
        BY <1>2 DEF StartInserts
      <4>5. cached' \subseteq {g \in Hands : hands'[g] # "none"}
        BY <4>1, <4>2, <4>3 DEF Work
      <4> QED BY <4>2, <4>4, <4>5 DEF Work
    <3>2. CASE hands[h] # "none"
      <4>1. UNCHANGED <<play, complete, finish, hands, cached>>
        BY <1>2, <3>2 DEF StartInserts
      <4> QED BY <4>1 DEF Work
    <3> QED BY <3>1, <3>2
  <2>5. Locks'
    BY <1>2 DEF StartInserts, Locks
  <2>3. Finalized' = Finalized /\ Publishing' = Publishing
    BY <1>2 DEF StartInserts, Types, Finalized, Publishing
  <2>4. Counts'
    BY <1>2, <2>3 DEF StartInserts, Counts
  <2> QED BY <2>1, <2>2, <2>4, <2>5
<1>3. CASE StartFails(h)
  <2>1. Types' /\ Work' /\ Locks'
    BY <1>3 DEF StartFails, Types, Work, Locks
  <2>2. Counts'
    BY <1>3, CountsKept DEF StartFails, Publishing
  <2> QED BY <2>1, <2>2
<1> QED BY <1>1, <1>2, <1>3

\* What a step of a completion gives to prove when it changes nothing but the
\* completion and the cache.
LEMMA CompletionMoves ==
  ASSUME Inv, NEW h \in Hands, NEW t \in CompleteTasks, CompleteStep(h, t),
         UNCHANGED rowVars, cached' \subseteq cached,
         complete[h].at \in {"find", "check"},
         t.at \in {"none", "find", "check", "lock"},
         t.at = "check" => hands[h] # "none",
         t.at = "lock" => hands[h] = "open",
         t.at # "none" => t.next = complete[h].next
  PROVE  Inv'
<1> USE FiniteParts DEF Inv, Hands, CompleteStep, loopVars, statVars, rowVars
<1>1. Types'
  BY DEF Types
<1>2. Work'
  BY DEF Types, Work
<1>3. Locks'
  BY DEF Types, Locks
<1>4. Publishing' = Publishing
  BY PublishingKept DEF Types
<1>5. Counts'
  BY <1>4, CountsKept
<1> QED BY <1>1, <1>2, <1>3, <1>5

\* A completion that goes on is a record of these fields.
Working == [at : {"find", "check", "lock", "commit", "publish"}, winner : Bots,
            tries : 0 .. FindAttempts, next : 1 .. GameRow + 1]

LEMMA WorkingTasks ==
  ASSUME NEW c \in CompleteTasks, c.at # "none"
  PROVE  /\ c \in Working
         /\ \A p \in {"find", "check", "lock", "commit", "publish"} :
              [c EXCEPT !.at = p] \in CompleteTasks
<1>1. c \in Working
  BY DEF CompleteTasks, NoTask, Working
<1>2. ASSUME NEW p \in {"find", "check", "lock", "commit", "publish"}
      PROVE  [c EXCEPT !.at = p] \in Working
  BY <1>1 DEF Working
<1> QED BY <1>1, <1>2 DEF CompleteTasks, Working

LEMMA CompleteInv ==
  ASSUME Inv, NEW h \in Hands, CompleteFinds(h) \/ CompleteChecks(h)
  PROVE  Inv'
<1> DEFINE c == complete[h]
<1>1. c \in CompleteTasks
  BY DEF Inv, Types
<1>2. CASE CompleteFinds(h)
  <2> DEFINE t == IF hands[h] # "none" THEN [c EXCEPT !.at = "check", !.tries = 0]
                  ELSE IF c.tries + 1 < FindAttempts THEN [c EXCEPT !.tries = @ + 1]
                  ELSE NoTask
  <2>1. c.at = "find" /\ CompleteStep(h, t) /\ UNCHANGED <<cached, rowVars>>
    BY <1>2 DEF CompleteFinds
  <2>2. c \in Working
    BY <1>1, <2>1, WorkingTasks
  <2>3. t \in CompleteTasks
    <3>1. [c EXCEPT !.at = "check", !.tries = 0] \in Working
      <4>1. 0 \in 0 .. FindAttempts
        BY AttemptsAssumption
      <4> QED BY <2>2, <4>1 DEF Working
    <3>2. ASSUME c.tries + 1 < FindAttempts
          PROVE  [c EXCEPT !.tries = @ + 1] \in Working
      <4>1. c.tries + 1 \in 0 .. FindAttempts
        BY <2>2, <3>2, AttemptsAssumption DEF Working
      <4> QED BY <2>2, <4>1 DEF Working
    <3>3. NoTask \in CompleteTasks /\ Working \subseteq CompleteTasks
      BY DEF CompleteTasks, Working
    <3> QED BY <3>1, <3>2, <3>3
  <2>4. /\ t.at \in {"none", "find", "check"}
        /\ t.at = "check" => hands[h] # "none"
        /\ t.at # "none" => t.next = c.next
    BY <2>1, <2>2 DEF NoTask, Working
  <2> HIDE DEF t
  <2> QED BY <2>1, <2>3, <2>4, CompletionMoves
<1>3. CASE CompleteChecks(h)
  <2>1. c.at = "check" /\ UNCHANGED rowVars
    BY <1>3 DEF CompleteChecks
  <2>2. CASE AlreadyFinal(h)
    <3>1. CompleteStep(h, NoTask) /\ cached' \subseteq cached
      BY <1>3, <2>2 DEF CompleteChecks
    <3>2. NoTask \in CompleteTasks /\ NoTask.at = "none"
      BY DEF NoTask, CompleteTasks
    <3> QED BY <2>1, <3>1, <3>2, CompletionMoves
  <2>3. CASE ~AlreadyFinal(h)
    <3> DEFINE t == [c EXCEPT !.at = "lock"]
    <3>1. CompleteStep(h, t) /\ cached' = cached
      BY <1>3, <2>3 DEF CompleteChecks
    <3>2. t \in CompleteTasks /\ t.at = "lock" /\ t.next = c.next
      <4>1. c \in Working /\ t \in CompleteTasks
        BY <1>1, <2>1, WorkingTasks
      <4> QED BY <4>1 DEF Working
    <3>3. hands[h] = "open"
      BY <2>1, <2>3 DEF Inv, Types, Work, AlreadyFinal
    <3> HIDE DEF t
    <3> QED BY <2>1, <3>1, <3>2, <3>3, CompletionMoves
  <2> QED BY <2>2, <2>3
<1> QED BY <1>2, <1>3

LEMMA LockInv ==
  ASSUME Inv, NEW h \in Hands, CompleteLocks(h)
  PROVE  Inv'
<1> USE FiniteParts DEF Hands
<1> DEFINE c == complete[h]
           t == [c EXCEPT !.next = @ + 1,
                          !.at = IF c.next = GameRow THEN "commit" ELSE "lock"]
<1>1. c \in CompleteTasks /\ c.at = "lock" /\ c.next \in Rows
  BY DEF Inv, Types, Locks, CompleteLocks
<1>2. NextRow(c) = c.next
  BY <1>1 DEF NextRow, LockOrder
<1>3. /\ locks[c.next] = 0 /\ locks' = [locks EXCEPT ![c.next] = h]
      /\ complete' = [complete EXCEPT ![h] = t]
      /\ UNCHANGED <<play, start, finish, cached, statusCached, hands, game, handsPlayed,
                     handsWon, pending, batch, botStats>>
  BY <1>2 DEF CompleteLocks, CompleteStep, loopVars, statVars
<1>4. /\ t \in CompleteTasks /\ t.at \in {"lock", "commit"} /\ t.next = c.next + 1
      /\ t.at = "lock" => t.next \in Rows
  <2>1. c \in Working
    BY <1>1, WorkingTasks
  <2>2. c.next + 1 \in 1 .. GameRow + 1 /\ (c.next # GameRow => c.next + 1 \in Rows)
    BY <1>1 DEF Rows, GameRow
  <2>3. t \in Working
    BY <2>1, <2>2 DEF Working
  <2>4. t.next = c.next + 1 /\ t.at = IF c.next = GameRow THEN "commit" ELSE "lock"
    BY <2>1 DEF Working
  <2> HIDE DEF t
  <2> QED BY <2>2, <2>3, <2>4 DEF CompleteTasks, Working
<1> HIDE DEF t
<1>5. Types'
  BY <1>3, <1>4 DEF Inv, Types
<1>6. Work'
  BY <1>1, <1>3, <1>4 DEF Inv, Types, Work
<1>7. Locks'
  <2>1. locks' \in [Rows -> Hands \cup {0}]
    BY <1>3 DEF Inv, Locks
  <2>2. \A g \in Hands : complete'[g] = IF g = h THEN t ELSE complete[g]
    BY <1>3 DEF Inv, Types
  <2>3. ASSUME NEW r \in Rows, locks'[r] # 0
        PROVE  complete'[locks'[r]].at \in {"lock", "commit"}
               /\ r < complete'[locks'[r]].next
    <3>1. CASE r = c.next
      <4>1. locks'[r] = h /\ r < t.next
        BY <1>1, <1>3, <1>4, <3>1 DEF Inv, Locks, Rows, GameRow
      <4> QED BY <1>4, <2>2, <4>1
    <3>2. CASE r # c.next
      <4>1. locks'[r] = locks[r] /\ locks[r] \in Hands
        BY <1>3, <2>3, <3>2 DEF Inv, Locks
      <4>2. complete[locks[r]].at \in {"lock", "commit"} /\ r < complete[locks[r]].next
        BY <2>3, <4>1 DEF Inv, Locks
      <4>3. CASE locks[r] = h
        <5>1. r < c.next /\ r \in Int /\ c.next \in Int
          BY <1>1, <4>2, <4>3 DEF Rows, GameRow
        <5>2. r < t.next
          BY <1>4, <5>1
        <5> QED BY <1>4, <2>2, <4>1, <4>3, <5>2
      <4>4. CASE locks[r] # h
        BY <2>2, <4>1, <4>2, <4>4
      <4> QED BY <4>3, <4>4
    <3> QED BY <3>1, <3>2
  <2>4. \A g \in Hands :
          complete'[g].at \in {"find", "check", "lock"} => complete'[g].next \in Rows
    BY <1>4, <2>2 DEF Inv, Locks
  <2> QED BY <2>1, <2>3, <2>4 DEF Locks
<1>8. Publishing' = Publishing
  BY <1>1, <1>3, <1>4, PublishingKept DEF Inv, Types
<1>9. Counts'
  BY <1>3, <1>8, CountsKept DEF Inv
<1> QED BY <1>5, <1>6, <1>7, <1>9 DEF Inv

\* What is released when a completion commits or fails.
LEMMA ReleaseInv ==
  ASSUME Inv, NEW h \in Hands, NEW t \in CompleteTasks, t.at \in {"none", "publish"},
         locks' = ReleasedBy(h), complete' = [complete EXCEPT ![h] = t]
  PROVE  Locks'
<1> USE FiniteParts DEF Hands
<1>1. \A g \in Hands : complete'[g] = IF g = h THEN t ELSE complete[g]
  BY DEF Inv, Types
<1>2. locks' \in [Rows -> Hands \cup {0}]
  BY DEF Inv, Locks, ReleasedBy
<1>3. ASSUME NEW r \in Rows, locks'[r] # 0
      PROVE  locks'[r] = locks[r] /\ locks[r] # h /\ locks[r] \in Hands
  BY <1>3 DEF Inv, Locks, ReleasedBy
<1> QED BY <1>1, <1>2, <1>3 DEF Inv, Locks

LEMMA CommitInv ==
  ASSUME Inv, NEW h \in Hands, CompleteCommits(h)
  PROVE  Inv'
<1> USE FiniteParts DEF Hands
<1> DEFINE c == complete[h]
           t == [c EXCEPT !.at = "publish"]
<1>1. c.at = "commit" /\ c \in Working /\ t \in CompleteTasks /\ t.at = "publish"
  <2>1. c.at = "commit" /\ c \in CompleteTasks
    BY DEF Inv, Types, CompleteCommits
  <2> QED BY <2>1, WorkingTasks DEF Working
<1>2. /\ hands' = [hands EXCEPT ![h] = "final"]
      /\ handsPlayed' = [b \in Bots |-> handsPlayed[b] + 1]
      /\ handsWon' = [handsWon EXCEPT ![c.winner] = @ + 1]
      /\ game' = [game EXCEPT !.total = @ + 1]
      /\ locks' = ReleasedBy(h) /\ complete' = [complete EXCEPT ![h] = t]
      /\ UNCHANGED <<play, start, finish, cached, statusCached, pending, batch, botStats>>
  BY DEF CompleteCommits, CompleteStep, loopVars, statVars
<1> HIDE DEF t
<1>3. c.winner \in Bots
  BY <1>1 DEF Working
<1>4. game'.total = game.total + 1
  BY <1>2 DEF Inv, Types
<1>5. Types'
  <2> DEFINE w == c.winner
  <2>1. /\ handsPlayed' \in [Bots -> Nat]
        /\ [handsWon EXCEPT ![w] = handsWon[w] + 1] \in [Bots -> Nat]
    <3>1. w \in Bots /\ handsPlayed \in [Bots -> Nat] /\ handsWon \in [Bots -> Nat]
      BY <1>3 DEF Inv, Types
    <3>2. handsPlayed' = [b \in Bots |-> handsPlayed[b] + 1]
      BY <1>2
    <3> HIDE DEF w
    <3>3. handsPlayed' \in [Bots -> Nat]
      BY <3>1, <3>2
    <3>4. [handsWon EXCEPT ![w] = handsWon[w] + 1] \in [Bots -> Nat]
      BY <3>1
    <3> QED BY <3>3, <3>4
  <2>2. handsWon' \in [Bots -> Nat]
    BY <1>2, <2>1
  <2>3. complete' \in [Hands -> CompleteTasks]
    BY <1>1, <1>2 DEF Inv, Types
  <2>4. hands' \in [Hands -> {"none", "open", "final"}]
    BY <1>2 DEF Inv, Types
  <2>5. game'.total \in Nat
    BY <1>4 DEF Inv, Types
  <2>6. /\ play \in [hand : 0 .. MaxHand, at : {"between", "hand", "over", "down"}]
        /\ finish \in FinishTasks
        /\ pending \in [Bots -> Nat] /\ batch \in [Bots -> Nat] /\ botStats \in [Bots -> Nat]
    BY DEF Inv, Types
  <2> QED BY <1>2, <2>1, <2>2, <2>3, <2>4, <2>5, <2>6 DEF Types
<1>6. hands[h] = "open"
  BY <1>1 DEF Inv, Work
<1>7. Work'
  <2>1. \A g \in Hands : /\ complete'[g] = IF g = h THEN t ELSE complete[g]
                         /\ hands'[g] = IF g = h THEN "final" ELSE hands[g]
    BY <1>2 DEF Inv, Types
  <2>2. \A g \in Hands :
          complete'[g].at # "none" =>
            /\ g <= play.hand /\ play.at # "down"
            /\ g = play.hand => play.at # "hand"
    BY <1>1, <2>1 DEF Inv, Work
  <2>3. \A g \in Hands :
          /\ complete'[g].at \in {"check", "lock", "commit"} => hands'[g] # "none"
          /\ complete'[g].at \in {"lock", "commit"} => hands'[g] = "open"
    BY <1>1, <2>1 DEF Inv, Work
  <2>4. cached' \subseteq {g \in Hands : hands'[g] # "none"}
    BY <1>2, <2>1 DEF Inv, Work
  <2> QED BY <1>2, <2>2, <2>3, <2>4 DEF Inv, Work
<1>8. Locks'
  BY <1>1, <1>2, ReleaseInv
<1>9. Finalized' = Finalized \cup {h} /\ h \in Hands \ Finalized
      /\ Publishing' = Publishing \cup {h} /\ h \in Hands \ Publishing
  BY <1>1, <1>2, <1>6 DEF Inv, Types, Finalized, Publishing
<1>10. /\ Cardinality(Finalized') = Cardinality(Finalized) + 1
       /\ Cardinality(Publishing') = Cardinality(Publishing) + 1
       /\ Cardinality(Finalized) \in Nat /\ Cardinality(Publishing) \in Nat
  BY <1>9 DEF Finalized, Publishing
<1>11. SumFunction(handsWon') = SumFunction(handsWon) + 1
  <2> DEFINE w == c.winner
             v == handsWon[w]
             n == SumFunction(handsWon)
  <2>1. w \in Bots /\ v \in Int /\ v + 1 \in Int /\ handsWon \in [Bots -> Int]
    BY <1>3 DEF Inv, Types
  <2>2. handsWon' = [handsWon EXCEPT ![w] = v + 1]
    BY <1>2
  <2>3. n \in Int
    BY SumIsNat DEF Inv, Types
  <2> HIDE DEF w
  <2>4. SumFunction([handsWon EXCEPT ![w] = v + 1]) = n + ((v + 1) - v)
    BY <2>1, SumUpdate
  <2> HIDE DEF v, n
  <2>5. SumFunction(handsWon') = n + 1
    BY <2>1, <2>2, <2>3, <2>4
  <2> QED BY <2>5 DEF n
<1>12. Counts'
  <2>1. \A b \in Bots : handsPlayed'[b] = Cardinality(Finalized')
    BY <1>2, <1>10 DEF Inv, Counts
  <2>2. \A b \in Bots :
          botStats[b] + batch[b] + pending[b] + (Cardinality(Publishing) + 1)
            <= Cardinality(Finalized) + 1
    BY <1>10 DEF Inv, Counts, Types
  <2> QED BY <1>2, <1>4, <1>10, <1>11, <2>1, <2>2 DEF Inv, Counts
<1> QED BY <1>5, <1>7, <1>8, <1>12 DEF Inv

LEMMA PublishInv ==
  ASSUME Inv, NEW h \in Hands, CompletePublishes(h)
  PROVE  Inv'
<1> USE FiniteParts DEF Hands
<1>1. /\ complete[h].at = "publish" /\ pending' = [b \in Bots |-> pending[b] + 1]
      /\ cached' = cached \ {h} /\ complete' = [complete EXCEPT ![h] = NoTask]
      /\ UNCHANGED <<play, start, finish, statusCached, hands, game, handsPlayed, handsWon,
                     locks, batch, botStats>>
  BY DEF CompletePublishes, loopVars, rowVars
<1>2. Types'
  BY <1>1 DEF Inv, Types, CompleteTasks
<1>3. Work'
  BY <1>1 DEF Inv, Types, Work, NoTask
<1>4. Locks'
  BY <1>1 DEF Inv, Types, Locks, NoTask
<1>5. Finalized' = Finalized /\ Publishing' = Publishing \ {h} /\ h \in Publishing
  BY <1>1 DEF Inv, Types, Finalized, Publishing, NoTask
<1>6. /\ Cardinality(Publishing') = Cardinality(Publishing) - 1
      /\ Cardinality(Publishing) \in Nat /\ Cardinality(Finalized) \in Nat
  BY <1>5 DEF Finalized, Publishing
<1>7. Counts'
  BY <1>1, <1>5, <1>6 DEF Inv, Counts, Types
<1> QED BY <1>2, <1>3, <1>4, <1>7 DEF Inv

LEMMA CompleteFailsInv ==
  ASSUME Inv, NEW h \in Hands, CompleteFails(h)
  PROVE  Inv'
<1> USE FiniteParts DEF Hands
<1>1. /\ complete[h].at \in {"find", "check", "lock", "commit"}
      /\ complete' = [complete EXCEPT ![h] = NoTask] /\ locks' = ReleasedBy(h)
      /\ UNCHANGED <<play, start, finish, cached, statusCached, hands, game, handsPlayed,
                     handsWon, pending, batch, botStats>>
  BY DEF CompleteFails, loopVars, cacheVars, statVars
<1>2. NoTask \in CompleteTasks /\ NoTask.at = "none"
  BY DEF CompleteTasks, NoTask
<1>3. Types'
  BY <1>1, <1>2 DEF Inv, Types
<1>4. Work'
  BY <1>1, <1>2 DEF Inv, Types, Work
<1>5. Locks'
  BY <1>1, <1>2, ReleaseInv
<1>6. Publishing' = Publishing
  BY <1>1, <1>2, PublishingKept DEF Inv, Types
<1>7. Counts'
  BY <1>1, <1>6, CountsKept DEF Inv
<1> QED BY <1>3, <1>4, <1>5, <1>7 DEF Inv

LEMMA FinishInv ==
  ASSUME Inv, FinishSteps \/ FinishFails
  PROVE  Inv'
<1> USE FiniteParts DEF Hands
<1>1. finish.at # "none" => finish \in [at : {"status", "players"}, left : SUBSET Bots]
  BY DEF Inv, Types, FinishTasks, NoTask
<1>2. CASE FinishMarks
  <2>1. /\ finish.at = "status" /\ play.at = "over"
        /\ game'.total = play.hand /\ finish' = [finish EXCEPT !.at = "players"]
        /\ UNCHANGED <<play, start, complete, cached, statusCached, hands, handsPlayed,
                       handsWon, locks, pending, batch, botStats>>
    BY <1>2 DEF FinishMarks, Inv, Work, loopVars, cacheVars, statVars
  <2>2. finish' \in FinishTasks
    BY <1>1, <2>1 DEF FinishTasks
  <2>3. Types'
    BY <2>1, <2>2 DEF Inv, Types
  <2>4. Work' /\ Locks'
    BY <2>1 DEF Inv, Work, Locks
  <2>5. Counts'
    BY <2>1, CountsKept DEF Inv, Publishing
  <2> QED BY <2>3, <2>4, <2>5 DEF Inv
<1>3. ASSUME NEW b \in Bots, FinishPlayer(b)
      PROVE  Inv'
  <2>1. /\ finish.at = "players"
        /\ finish' = NoTask \/ finish' = [finish EXCEPT !.left = @ \ {b}]
        /\ UNCHANGED <<play, start, complete, cached, hands, game, handsPlayed,
                       handsWon, locks, pending, batch, botStats>>
    BY <1>3 DEF FinishPlayer, loopVars, rowVars, statVars
  <2>2. finish' \in FinishTasks
    BY <1>1, <2>1 DEF FinishTasks
  <2>3. Types'
    BY <2>1, <2>2 DEF Inv, Types
  <2>4. Work' /\ Locks'
    BY <2>1 DEF Inv, Work, Locks
  <2>5. Counts'
    BY <2>1, CountsKept DEF Inv, Publishing
  <2> QED BY <2>3, <2>4, <2>5 DEF Inv
<1>4. CASE FinishFails
  <2>1. /\ finish' = NoTask
        /\ UNCHANGED <<play, start, complete, cached, hands, game, handsPlayed,
                       handsWon, locks, pending, batch, botStats>>
    BY <1>4 DEF FinishFails, loopVars, cacheVars, rowVars, statVars
  <2>2. Types' /\ Work' /\ Locks'
    BY <2>1 DEF Inv, Types, Work, Locks, NoTask, FinishTasks
  <2>3. Counts'
    BY <2>1, CountsKept DEF Inv, Publishing
  <2> QED BY <2>2, <2>3 DEF Inv
<1> QED BY <1>2, <1>3, <1>4 DEF FinishSteps

\* A flush moves what is pending towards the database, or loses it.
LEMMA FlushInv ==
  ASSUME Inv,
         UNCHANGED <<play, complete, finish, cached, hands, game, handsPlayed, handsWon, locks>>,
         pending' \in [Bots -> Nat], batch' \in [Bots -> Nat], botStats' \in [Bots -> Nat],
         \A b \in Bots :
           botStats'[b] + batch'[b] + pending'[b] <= botStats[b] + batch[b] + pending[b]
  PROVE  Inv'
<1> USE FiniteParts DEF Hands
<1>1. Types' /\ Work' /\ Locks'
  BY DEF Inv, Types, Work, Locks
<1>2. Finalized' = Finalized /\ Publishing' = Publishing
  BY DEF Finalized, Publishing
<1>3. Cardinality(Finalized) \in Nat /\ Cardinality(Publishing) \in Nat
  BY DEF Finalized, Publishing
<1>4. ASSUME NEW b \in Bots
      PROVE  botStats'[b] + batch'[b] + pending'[b] + Cardinality(Publishing)
               <= Cardinality(Finalized)
  BY <1>3 DEF Inv, Types, Counts
<1>5. Counts'
  BY <1>2, <1>4 DEF Inv, Counts
<1> QED BY <1>1, <1>5 DEF Inv

LEMMA FlushStepInv ==
  ASSUME Inv, Flush \/ \E b \in Bots : FlushFails(b)
  PROVE  Inv'
<1> USE DEF Types, loopVars, taskVars, cacheVars, rowVars
<1>t. Types
  BY DEF Inv
<1>1. CASE FlushBegins
  BY <1>t, <1>1, FlushInv DEF FlushBegins, NoBatch, Zero
<1>2. ASSUME NEW b \in Bots, FlushUpserts(b)
      PROVE  Inv'
  BY <1>t, <1>2, FlushInv DEF FlushUpserts
<1>3. ASSUME NEW b \in Bots, FlushFails(b)
      PROVE  Inv'
  <2>1. /\ botStats' = botStats \/ botStats' = [botStats EXCEPT ![b] = @ + batch[b]]
        /\ pending' = pending /\ batch' = Zero
    BY <1>3 DEF FlushFails, AfterFailedFlush, NoBatch
  <2>2. \A c \in Bots : botStats'[c] <= botStats[c] + batch[c]
    BY <1>t, <2>1
  <2>3. botStats' \in [Bots -> Nat] /\ batch' \in [Bots -> Nat] /\ \A c \in Bots : batch'[c] = 0
    BY <1>t, <2>1 DEF Zero
  <2>4. \A c \in Bots :
          botStats'[c] + batch'[c] + pending'[c] <= botStats[c] + batch[c] + pending[c]
    BY <1>t, <2>1, <2>2, <2>3
  <2> QED BY <1>t, <1>3, <2>1, <2>3, <2>4, FlushInv DEF FlushFails
<1> QED BY <1>1, <1>2, <1>3 DEF Flush

LEMMA RestartInv ==
  ASSUME Inv, Crash \/ Restart
  PROVE  Inv'
<1> USE FiniteParts DEF Hands
<1>1. CASE Crash
  <2>1. /\ play' = [play EXCEPT !.at = IF @ = "over" THEN "over" ELSE "down"]
        /\ complete' = [h \in Hands |-> NoTask] /\ finish' = NoTask
        /\ locks' = [r \in Rows |-> 0] /\ cached' = {}
        /\ pending' = Zero /\ batch' = Zero
        /\ UNCHANGED <<hands, game, handsPlayed, handsWon, botStats>>
    BY <1>1 DEF Crash, NoBatch
  <2>2. Types'
    BY <2>1 DEF Inv, Types, CompleteTasks, FinishTasks, Zero
  <2>3. Work' /\ Locks'
    BY <2>1 DEF Inv, Types, Work, Locks, NoTask
  <2>4. Finalized' = Finalized /\ Publishing' = {}
    BY <2>1 DEF Finalized, Publishing, NoTask
  <2>5. Cardinality(Publishing') = 0 /\ Cardinality(Finalized) \in Nat
        /\ Cardinality(Publishing) \in Nat
    BY <2>4, FS_EmptySet DEF Finalized, Publishing
  <2>6. \A b \in Bots : botStats'[b] + batch'[b] + pending'[b] + Cardinality(Publishing')
                          <= Cardinality(Finalized)
    BY <2>1, <2>5 DEF Inv, Types, Counts, Zero
  <2>7. Counts'
    BY <2>1, <2>4, <2>6 DEF Inv, Types, Counts
  <2> QED BY <2>2, <2>3, <2>7 DEF Inv
<1>2. CASE Restart
  <2>1. PICK g \in 0 .. play.hand : play' = [hand |-> g, at |-> "between"]
    BY <1>2 DEF Restart
  <2>2. /\ play.at = "down" /\ game'.total = game.total
        /\ UNCHANGED <<complete, finish, cached, hands, handsPlayed, handsWon, locks,
                       pending, batch, botStats>>
    BY <1>2 DEF Restart, taskVars, cacheVars, statVars
  <2>3. Types'
    BY <2>1, <2>2 DEF Inv, Types
  <2>4. Work' /\ Locks'
    BY <2>1, <2>2 DEF Inv, Work, Locks
  <2>5. Counts'
    BY <2>1, <2>2, CountsKept DEF Inv, Publishing
  <2> QED BY <2>3, <2>4, <2>5 DEF Inv
<1> QED BY <1>1, <1>2

LEMMA StutterInv ==
  ASSUME Inv, UNCHANGED vars
  PROVE  Inv'
<1> USE DEF vars, loopVars, taskVars, cacheVars, rowVars, statVars
<1>1. Types' /\ Work' /\ Locks'
  BY DEF Inv, Types, Work, Locks
<1>2. Counts'
  BY CountsKept DEF Inv, Publishing
<1> QED BY <1>1, <1>2 DEF Inv

LEMMA NextInv == Inv /\ [Next]_vars => Inv'
BY LoopInv, StartInv, CompleteInv, LockInv, CommitInv, PublishInv, CompleteFailsInv,
   FinishInv, FlushStepInv, RestartInv, StutterInv
DEF Next, StartSteps, CompleteSteps

LEMMA InvHolds == Spec => []Inv
BY InitInv, NextInv, PTL DEF Spec

-----------------------------------------------------------------------------
(* Theorems *)

\* Transactions that finalize hands at the same time lock the rows of the
\* players and of the game in one order: however many run, never do some of them
\* all wait for one another.
THEOREM CompletionsNeverDeadlock == Spec => []NoDeadlock
BY InvHolds, NoCircle, PTL

\* Each finalized hand is counted once for every player, for one winner and for
\* the game, whatever crashes, replays and failing statements come between.
THEOREM EveryHandCountsOnce == Spec => []HandsCountOnce
<1>1. Inv => HandsCountOnce
  BY DEF Inv, Counts, HandsCountOnce
<1> QED BY <1>1, InvHolds, PTL

\* What the statistics of a bot have stored, have in a flush and have pending is
\* never more than the hands that were finalized.
THEOREM StatisticsCountNoneTwice == Spec => []StatsNeverOvercount
<1>1. Inv => StatsNeverOvercount
  <2> SUFFICES ASSUME Inv, NEW b \in Bots
               PROVE  botStats[b] + batch[b] + pending[b] <= Cardinality(Finalized)
    BY DEF StatsNeverOvercount
  <2>1. Cardinality(Publishing) \in Nat /\ Cardinality(Finalized) \in Nat
    BY FiniteParts DEF Publishing, Finalized
  <2> QED BY <2>1 DEF Inv, Types, Counts
<1> QED BY <1>1, InvHolds, PTL

-----------------------------------------------------------------------------
(* Archive *)


Done(n) == {h \in AllHands : h <= n}

\* Until the object is there, a job has read what lies below its offset.
Complete(j) ==
  /\ j.at \in {"page", "details"} => j.read = Done(j.offset)
  /\ j.at = "details" => j.page = Done(j.offset + PageSize) \ Done(j.offset)
  /\ j.at = "exists" => j.read = AllHands

JobInv(j) ==
  /\ j \in Jobs
  /\ j.offset = 0 \/ j.offset >= PageSize
  /\ j.at \in {"idle", "eligible"} => j.read = {} /\ j.offset = 0
  /\ ~stored => Complete(j)
  /\ j.at = "upload" => j.read = AllHands
  /\ j.at \in {"mark", "prune", "delete"} => stored
  /\ j.at \in {"prune", "delete"} => archived

StoreInv ==
  /\ stored \in BOOLEAN /\ archived \in BOOLEAN
  /\ stored => object = AllHands
  /\ ~stored => object = {}
  /\ archived => stored
  /\ db \subseteq AllHands
  /\ db # AllHands => archived

ReaderInv ==
  /\ reader \in {NoRead} \cup [at : {"row", "url", "object", "found"}, hand : AllHands]
  /\ reader.at = "url" => reader.hand \notin db
  /\ reader.at = "object" => archived

JobsInv == DOMAIN job = Servers /\ \A s \in Servers : JobInv(job[s])

ArchiveInv == StoreInv /\ JobsInv /\ job = [s \in Servers |-> job[s]] /\ ReaderInv

-----------------------------------------------------------------------------
(* Pages *)

LEMMA HandsFinite ==
  /\ IsFiniteSet(AllHands) /\ Cardinality(AllHands) = NumHands /\ NumHands \in Nat
  /\ \A n \in 0 .. NumHands : Cardinality(1 .. n) = n
  /\ \A T \in SUBSET AllHands : IsFiniteSet(T) /\ Cardinality(T) \in 0 .. NumHands
<1>1. NumHands \in Nat
  BY SizesAssumption
<1>2. IsFiniteSet(AllHands) /\ Cardinality(AllHands) = NumHands
  BY <1>1, FS_Interval DEF AllHands
<1>3. ASSUME NEW n \in 0 .. NumHands PROVE Cardinality(1 .. n) = n
  BY <1>1, FS_Interval
<1>4. ASSUME NEW T \in SUBSET AllHands
      PROVE  IsFiniteSet(T) /\ Cardinality(T) \in 0 .. NumHands
  BY <1>1, <1>2, <1>4, FS_Subset, FS_CardinalityType
<1> QED
  BY <1>1, <1>2, <1>3, <1>4

\* A set of hands that leaves out only later hands is an initial segment.
LEMMA Initial ==
  ASSUME NEW B \in SUBSET AllHands, \A g \in B, h \in AllHands \ B : g <= h
  PROVE  B = Done(Cardinality(B))
<1> DEFINE m == Cardinality(B)
<1>1. m \in 0 .. NumHands /\ NumHands \in Nat /\ Cardinality(1 .. m) = m
  BY HandsFinite
<1>2. IsFiniteSet(1 .. m) /\ IsFiniteSet(B)
  BY <1>1, HandsFinite, FS_Interval
<1>3. B \subseteq 1 .. m
  <2> SUFFICES ASSUME NEW b \in B, b > m PROVE FALSE
    BY <1>1 DEF AllHands
  <2>1. b \in Nat /\ b <= NumHands
    BY <1>1 DEF AllHands
  <2>2. 1 .. m \subseteq B
    BY <1>1, <2>1 DEF AllHands
  <2>3. 1 .. m = B
    BY <1>1, <1>2, <2>2, FS_Subset
  <2> QED
    BY <2>3, <2>1, <1>1
<1>4. B = 1 .. m
  BY <1>1, <1>2, <1>3, FS_Subset
<1> QED
  BY <1>1, <1>4 DEF Done, AllHands

\* What is sorted by hand_number is sorted by hand, when the numbers differ.
LEMMA SortedIsInitial ==
  ASSUME \A g, h \in AllHands : g < h => Number[g] < Number[h],
         NEW B \in SUBSET AllHands, Sorted(B, AllHands \ B)
  PROVE  \A g \in B, h \in AllHands \ B : g <= h
<1> SUFFICES ASSUME NEW g \in B, NEW h \in AllHands \ B, ~(g <= h) PROVE FALSE
  OBVIOUS
<1>1. h < g /\ g \in AllHands /\ h \in AllHands
  BY HandsFinite DEF AllHands
<1>2. Number[h] < Number[g] /\ Number[g] <= Number[h]
  BY <1>1 DEF Sorted
<1>3. Number[h] \in Nat /\ Number[g] \in Nat
  BY <1>1, NumberAssumption DEF AllHands
<1> QED
  BY <1>2, <1>3

\* A page of a table that nobody prunes holds the hands next after the offset.
LEMMA PageIsNext ==
  ASSUME PagesInOrder, db = AllHands, NEW offset \in Nat, offset = 0 \/ offset >= PageSize,
         NEW before, NEW page, IsPage(before, page, offset)
  PROVE  page = Done(offset + PageSize) \ Done(offset)
<1>1. /\ before \in SUBSET AllHands /\ page \in SUBSET (AllHands \ before)
      /\ Cardinality(before) = Lesser(offset, NumHands)
      /\ Cardinality(page) = Lesser(PageSize, Cardinality(AllHands \ before))
      /\ Sorted(before, AllHands \ before) /\ Sorted(page, AllHands \ (before \cup page))
  BY HandsFinite DEF IsPage
<1>2. /\ IsFiniteSet(before) /\ IsFiniteSet(page)
      /\ Cardinality(AllHands \ before) = NumHands - Cardinality(before)
      /\ Cardinality(before \cup page) = Cardinality(before) + Cardinality(page)
  <2>1. IsFiniteSet(before) /\ IsFiniteSet(page)
    BY <1>1, HandsFinite
  <2>2. AllHands \cap before = before /\ before \cap page = {}
    BY <1>1
  <2>3. Cardinality(AllHands \ before) = NumHands - Cardinality(before)
    <3>1. Cardinality(AllHands \ before) = Cardinality(AllHands) - Cardinality(AllHands \cap before)
      BY HandsFinite, FS_Difference, Zenon
    <3> QED
      BY <3>1, <2>2, HandsFinite
  <2>4. Cardinality(before \cup page)
          = Cardinality(before) + Cardinality(page) - Cardinality(before \cap page)
    BY <2>1, FS_Union
  <2>5. Cardinality(before \cap page) = 0
    BY <2>2, FS_EmptySet
  <2>6. Cardinality(before) \in Nat /\ Cardinality(page) \in Nat
    BY <2>1, FS_CardinalityType
  <2> QED
    BY <2>1, <2>3, <2>4, <2>5, <2>6
<1>3. NumHands \in Nat /\ PageSize \in Nat \ {0}
  BY SizesAssumption
<1>4. CASE \A g, h \in AllHands : g < h => Number[g] < Number[h]
  <2>1. \A g \in before, h \in AllHands \ before : g <= h
    BY <1>1, <1>4, SortedIsInitial
  <2>2. before = Done(Lesser(offset, NumHands))
    BY <1>1, <2>1, Initial
  <2>3. Sorted(before \cup page, AllHands \ (before \cup page))
    BY <1>1 DEF Sorted
  <2>4. before \cup page = Done(Cardinality(before \cup page))
    <3>1. before \cup page \in SUBSET AllHands
      BY <1>1
    <3>2. \A g \in before \cup page, h \in AllHands \ (before \cup page) : g <= h
      BY <1>4, <2>3, <3>1, SortedIsInitial
    <3> QED
      BY <3>1, <3>2, Initial
  <2>5. Cardinality(before \cup page) = Lesser(offset + PageSize, NumHands)
    BY <1>1, <1>2, <1>3 DEF Lesser
  <2>6. before = Done(offset) /\ before \cup page = Done(offset + PageSize)
    BY SMTT(60), <1>3, <2>2, <2>4, <2>5 DEF Done, Lesser, AllHands
  <2> QED
    BY <1>1, <2>6
<1>5. CASE NumHands <= PageSize
  <2>1. CASE offset = 0
    <3>1. before = {} /\ Cardinality(page) = NumHands
      BY <1>1, <1>2, <1>3, <1>5, <2>1, FS_EmptySet DEF Lesser
    <3>2. page = AllHands
      BY <1>1, <3>1, HandsFinite, FS_Subset
    <3> QED
      BY <1>3, <1>5, <2>1, <3>2 DEF Done, AllHands
  <2>2. CASE offset >= PageSize
    <3>1. Cardinality(before) = NumHands
      BY <1>1, <1>3, <1>5, <2>2 DEF Lesser
    <3>2. before = AllHands
      BY <1>1, <3>1, HandsFinite, FS_Subset
    <3>3. page = {}
      BY <1>1, <3>2
    <3>4. Done(offset) = AllHands /\ Done(offset + PageSize) = AllHands
      BY <1>3, <1>5, <2>2 DEF Done, AllHands
    <3> QED
      BY <3>3, <3>4
  <2> QED
    BY <2>1, <2>2
<1> QED
  BY <1>4, <1>5 DEF PagesInOrder

\* A page that is not full is the last one.
LEMMA LastPage ==
  ASSUME NEW offset \in Nat, NEW page,
         page = Done(offset + PageSize) \ Done(offset),
         page = {} \/ Cardinality(page) < PageSize
  PROVE  Done(offset) \cup page = AllHands
<1>1. NumHands \in Nat /\ PageSize \in Nat \ {0}
  BY SizesAssumption
<1> SUFFICES ASSUME NumHands > offset + PageSize PROVE FALSE
  <2>1. CASE NumHands <= offset + PageSize
    BY <1>1, <2>1 DEF Done, AllHands
  <2> QED
    BY <1>1, <2>1
<1>2. page = offset + 1 .. offset + PageSize
  BY <1>1 DEF Done, AllHands
<1>3. Cardinality(page) = PageSize
  <2> DEFINE a == offset + 1
             b == offset + PageSize
  <2>1. a \in Int /\ b \in Int /\ ~(a > b) /\ b - a + 1 = PageSize
    BY <1>1
  <2>2. page = a .. b
    BY <1>2
  <2> HIDE DEF a, b
  <2>3. Cardinality(a .. b) = b - a + 1
    BY <2>1, FS_Interval
  <2> QED
    BY <2>1, <2>2, <2>3
<1>4. offset + 1 \in page
  BY <1>1, <1>2
<1> QED
  BY <1>1, <1>3, <1>4

-----------------------------------------------------------------------------
(* The invariant *)

LEMMA ArchiveInitInv == ArchiveInit => ArchiveInv
<1> SUFFICES ASSUME ArchiveInit PROVE ArchiveInv
  OBVIOUS
<1>1. ASSUME NEW s \in Servers PROVE JobInv(job[s])
  <2>1. job[s] = Idle
    BY DEF ArchiveInit
  <2> QED
    BY <2>1 DEF JobInv, Idle, Jobs, Stages, Complete, AllHands
<1>2. StoreInv
  BY DEF ArchiveInit, StoreInv
<1>3. ReaderInv
  BY DEF ArchiveInit, ReaderInv, NoRead
<1> QED
  BY <1>1, <1>2, <1>3 DEF ArchiveInv, JobsInv, ArchiveInit

\* When nothing about the object and the address is taken back, the other jobs keep
\* their part of the invariant.
LEMMA OthersKeep ==
  ASSUME ArchiveInv, NEW s \in Servers, NEW j, Goes(s, j), JobInv(j)',
         stored' \in BOOLEAN, stored => stored', archived => archived'
  PROVE  JobsInv' /\ (job = [t \in Servers |-> job[t]])'
<1>1. job' = [job EXCEPT ![s] = j] /\ job = [t \in Servers |-> job[t]]
  BY DEF Goes, ArchiveInv
<1>2. ASSUME NEW t \in Servers PROVE JobInv(job[t])'
  <2>1. CASE t = s
    BY <1>1, <2>1 DEF JobInv, Complete
  <2>2. CASE t # s
    <3>1. job'[t] = job[t] /\ JobInv(job[t])
      BY <1>1, <2>2 DEF ArchiveInv, JobsInv
    <3> QED
      BY <3>1 DEF JobInv, Complete, ArchiveInv, StoreInv
  <2> QED
    BY <2>1, <2>2
<1> QED
  BY <1>1, <1>2 DEF JobsInv

\* A step of a job that writes nothing.
LEMMA JobStep ==
  ASSUME ArchiveInv, NEW s \in Servers, NEW j, Goes(s, j), JobInv(j),
         UNCHANGED <<db, archived, stored, object, reader>>
  PROVE  ArchiveInv'
<1>1. JobInv(j)'
  BY DEF JobInv, Complete
<1>2. StoreInv' /\ ReaderInv'
  BY DEF ArchiveInv, StoreInv, ReaderInv
<1>3. stored' \in BOOLEAN /\ (stored => stored') /\ (archived => archived')
  BY DEF ArchiveInv, StoreInv
<1>4. JobsInv' /\ (job = [t \in Servers |-> job[t]])'
  BY <1>1, <1>3, OthersKeep
<1> QED
  BY <1>2, <1>4 DEF ArchiveInv

\* A step of a job that has seen the object, or has just written it.
LEMMA StoredStep ==
  ASSUME ArchiveInv, NEW s \in Servers, NEW j \in Jobs, Goes(s, j), StoreInv', ReaderInv',
         stored', archived => archived',
         j.offset = 0 \/ j.offset >= PageSize,
         j.at \in {"mark", "prune", "delete"}, j.at # "mark" => archived'
  PROVE  ArchiveInv'
<1>1. stored' = TRUE /\ stored' \in BOOLEAN
  BY DEF StoreInv
<1>2. JobInv(j)'
  BY <1>1 DEF JobInv
<1>3. JobsInv' /\ (job = [t \in Servers |-> job[t]])'
  BY <1>1, <1>2, OthersKeep
<1> QED
  BY <1>3 DEF ArchiveInv

LEMMA ReadPageInv ==
  ASSUME PagesInOrder, ArchiveInv, NEW s \in Servers, ReadPage(s)
  PROVE  ArchiveInv'
<1>1. PICK before \in SUBSET db, page \in SUBSET db :
        /\ IsPage(before, page, job[s].offset)
        /\ Goes(s, [job[s] EXCEPT !.at = IF page = {} THEN "exists" ELSE "details",
                                  !.page = page])
  BY DEF ReadPage
<1>2. job[s].at = "page" /\ UNCHANGED <<db, archived, stored, object, reader>>
  BY DEF ReadPage, At
<1>3. JobInv(job[s]) /\ StoreInv
  BY DEF ArchiveInv, JobsInv
<1> DEFINE j == [job[s] EXCEPT !.at = IF page = {} THEN "exists" ELSE "details",
                               !.page = page]
<1>4. j \in Jobs
  BY <1>3 DEF JobInv, Jobs, Stages, StoreInv
<1>5. ASSUME ~stored PROVE Complete(j)
  <2>1. db = AllHands /\ job[s].offset \in Nat
    BY <1>3, <1>5 DEF StoreInv, JobInv, Jobs
  <2>2. page = Done(job[s].offset + PageSize) \ Done(job[s].offset)
    BY <1>1, <1>3, <2>1, PageIsNext DEF JobInv
  <2>3. job[s].read = Done(job[s].offset)
    BY <1>2, <1>3, <1>5 DEF JobInv, Complete
  <2>4. ASSUME page = {} PROVE Done(job[s].offset) = AllHands
    <3>1. Done(job[s].offset) \cup page = AllHands
      BY <2>1, <2>2, <2>4, LastPage
    <3> QED
      BY <2>4, <3>1
  <2>5. /\ j.at = IF page = {} THEN "exists" ELSE "details"
        /\ j.read = job[s].read /\ j.offset = job[s].offset /\ j.page = page
    BY <1>3 DEF JobInv, Jobs
  <2> QED
    BY <2>2, <2>3, <2>4, <2>5 DEF Complete
<1>6. JobInv(j)
  BY <1>2, <1>3, <1>4, <1>5 DEF JobInv, Jobs
<1> QED
  BY <1>1, <1>2, <1>6, JobStep

LEMMA ReadDetailsInv ==
  ASSUME PagesInOrder, ArchiveInv, NEW s \in Servers, ReadDetails(s)
  PROVE  ArchiveInv'
<1> DEFINE old == job[s]
           j == [at |-> IF Cardinality(old.page) < PageSize THEN "exists" ELSE "page",
                 page |-> {}, offset |-> old.offset + PageSize,
                 read |-> old.read \cup (old.page \cap db)]
<1>1. /\ old.at = "details" /\ Goes(s, j)
      /\ UNCHANGED <<db, archived, stored, object, reader>>
  BY DEF ReadDetails, At
<1>2. JobInv(old) /\ StoreInv /\ old.offset \in Nat /\ PageSize \in Nat \ {0}
  BY SizesAssumption DEF ArchiveInv, JobsInv, JobInv, Jobs
<1>3. j \in Jobs /\ j.offset >= PageSize
  BY <1>2 DEF JobInv, Jobs, Stages, StoreInv
<1>4. ASSUME ~stored PROVE Complete(j)
  <2>1. /\ db = AllHands /\ old.read = Done(old.offset)
        /\ old.page = Done(old.offset + PageSize) \ Done(old.offset)
    BY <1>1, <1>2, <1>4 DEF StoreInv, JobInv, Complete
  <2>2. j.read = Done(old.offset + PageSize)
    BY <1>2, <2>1, HandsFinite DEF Done, AllHands
  <2>3. Cardinality(old.page) < PageSize => j.read = AllHands
    <3>1. Cardinality(old.page) < PageSize => Done(old.offset) \cup old.page = AllHands
      BY <1>2, <2>1, LastPage
    <3> QED
      BY <2>1, <3>1 DEF Done
  <2> QED
    BY <2>2, <2>3 DEF Complete
<1>5. JobInv(j)
  BY <1>3, <1>4 DEF JobInv
<1> QED
  BY <1>1, <1>5, JobStep

LEMMA ArchiveNextInv ==
  ASSUME PagesInOrder, ArchiveInv, [ArchiveNext]_archiveVars
  PROVE  ArchiveInv'
<1> USE DEF At, GoesTo
<1> DEFINE Same == UNCHANGED <<db, archived, stored, object, reader>>
<1>0. \A s \in Servers : JobInv(job[s])
  BY DEF ArchiveInv, JobsInv
<1>1. ASSUME NEW s \in Servers, Acquire(s) PROVE ArchiveInv'
  <2>1. Goes(s, [job[s] EXCEPT !.at = "eligible"]) /\ Same
    BY <1>1 DEF Acquire
  <2>2. JobInv([job[s] EXCEPT !.at = "eligible"])
    BY <1>0, <1>1 DEF Acquire, JobInv, Jobs, Stages, Complete
  <2> QED
    BY <2>1, <2>2, JobStep
<1>2. ASSUME NEW s \in Servers, FindEligible(s) PROVE ArchiveInv'
  <2> DEFINE j == [job[s] EXCEPT !.at = IF ~archived /\ db # {} THEN "page" ELSE "release"]
  <2>1. Goes(s, j) /\ Same
    BY <1>2 DEF FindEligible
  <2>2. Done(0) = {}
    BY DEF Done, AllHands
  <2>3. JobInv(j)
    BY <1>0, <1>2, <2>2 DEF FindEligible, JobInv, Jobs, Stages, Complete
  <2> QED
    BY <2>1, <2>3, JobStep
<1>3. ASSUME NEW s \in Servers, CheckStore(s) PROVE ArchiveInv'
  <2> DEFINE j == [job[s] EXCEPT !.at = IF AlreadyStored THEN "mark" ELSE "upload"]
  <2>1. Goes(s, j) /\ Same
    BY <1>3 DEF CheckStore
  <2>2. JobInv(j)
    BY <1>0, <1>3 DEF CheckStore, AlreadyStored, JobInv, Jobs, Stages, Complete
  <2> QED
    BY <2>1, <2>2, JobStep
<1>4. ASSUME NEW s \in Servers, Upload(s) PROVE ArchiveInv'
  <2> DEFINE j == [job[s] EXCEPT !.at = "mark"]
  <2>1. /\ Goes(s, j) /\ stored' = TRUE /\ object' = job[s].read
        /\ UNCHANGED <<db, archived, reader>> /\ job[s].at = "upload"
    BY <1>4 DEF Upload
  <2>2. job[s].read = AllHands
    BY <1>0, <2>1 DEF JobInv
  <2>3. StoreInv' /\ ReaderInv'
    BY <2>1, <2>2 DEF ArchiveInv, StoreInv, ReaderInv
  <2>4. j \in Jobs /\ j.at = "mark" /\ (j.offset = 0 \/ j.offset >= PageSize)
    BY <1>0 DEF JobInv, Jobs, Stages
  <2> QED
    BY <2>1, <2>3, <2>4, StoredStep
<1>5. ASSUME NEW s \in Servers, Mark(s) PROVE ArchiveInv'
  <2> DEFINE j == [job[s] EXCEPT !.at = "prune"]
  <2>1. /\ Goes(s, j) /\ archived' = TRUE /\ UNCHANGED <<db, stored, object, reader>>
        /\ job[s].at = "mark"
    BY <1>5 DEF Mark, MarkAndGoOn
  <2>2. stored
    BY <1>0, <2>1 DEF JobInv
  <2>3. StoreInv' /\ ReaderInv'
    BY <2>1, <2>2 DEF ArchiveInv, StoreInv, ReaderInv
  <2>4. j \in Jobs /\ j.at = "prune" /\ (j.offset = 0 \/ j.offset >= PageSize)
    BY <1>0 DEF JobInv, Jobs, Stages
  <2> QED
    BY <2>1, <2>2, <2>3, <2>4, StoredStep
<1>6. ASSUME NEW s \in Servers, SelectChunk(s) PROVE ArchiveInv'
  <2>1. CASE db = {}
    <3>1. Goes(s, [job[s] EXCEPT !.at = "release"]) /\ Same
      BY <1>6, <2>1 DEF SelectChunk
    <3>2. JobInv([job[s] EXCEPT !.at = "release"])
      BY <1>0, <1>6 DEF SelectChunk, JobInv, Jobs, Stages, Complete
    <3> QED
      BY <3>1, <3>2, JobStep
  <2>2. CASE db # {}
    <3>1. PICK chunk \in SUBSET db : Goes(s, [job[s] EXCEPT !.at = "delete", !.page = chunk])
      BY <1>6, <2>2 DEF SelectChunk
    <3>2. JobInv([job[s] EXCEPT !.at = "delete", !.page = chunk])
      BY <1>0, <1>6 DEF SelectChunk, JobInv, Jobs, Stages, Complete, ArchiveInv, StoreInv
    <3>3. Same
      BY <1>6 DEF SelectChunk
    <3> QED
      BY <3>1, <3>2, <3>3, JobStep
  <2> QED
    BY <2>1, <2>2
<1>7. ASSUME NEW s \in Servers, DeleteChunk(s) PROVE ArchiveInv'
  <2> DEFINE j == [job[s] EXCEPT !.at = "prune", !.page = {}]
  <2>1. /\ Goes(s, j) /\ db' = db \ job[s].page
        /\ UNCHANGED <<archived, stored, object, reader>> /\ job[s].at = "delete"
    BY <1>7 DEF DeleteChunk
  <2>2. stored /\ archived
    BY <1>0, <2>1 DEF JobInv
  <2>3. StoreInv' /\ ReaderInv'
    BY <2>1, <2>2 DEF ArchiveInv, StoreInv, ReaderInv
  <2>4. j \in Jobs /\ j.at = "prune" /\ (j.offset = 0 \/ j.offset >= PageSize)
    BY <1>0 DEF JobInv, Jobs, Stages, AllHands
  <2> QED
    BY <2>1, <2>2, <2>3, <2>4, StoredStep
<1>8. ASSUME NEW s \in Servers, StepFails(s) PROVE ArchiveInv'
  <2>1. Goes(s, [job[s] EXCEPT !.at = "release"]) /\ Same
    BY <1>8 DEF StepFails
  <2>2. JobInv([job[s] EXCEPT !.at = "release"])
    BY <1>0 DEF JobInv, Jobs, Stages, Complete
  <2> QED
    BY <2>1, <2>2, JobStep
<1>9. ASSUME NEW s \in Servers, ServerCrash(s) \/ Release(s) PROVE ArchiveInv'
  <2>1. Goes(s, Idle) /\ Same
    BY <1>9 DEF ServerCrash, Release
  <2>2. JobInv(Idle)
    BY DEF Idle, JobInv, Jobs, Stages, Complete
  <2> QED
    BY <2>1, <2>2, JobStep
<1>10. CASE UNCHANGED archiveVars \/ LockExpires
  BY <1>10 DEF archiveVars, LockExpires, ArchiveInv, StoreInv, JobsInv, JobInv, Complete, ReaderInv
<1>11. ASSUME NEW h \in AllHands, ReadStarts(h) PROVE ArchiveInv'
  BY <1>11 DEF ReadStarts, ArchiveInv, StoreInv, JobsInv, JobInv, Complete, ReaderInv
<1>12. CASE ReadRow
  BY <1>12 DEF ReadRow, ReadGoesTo, ArchiveInv, StoreInv, JobsInv, JobInv, Complete, ReaderInv, NoRead
<1>13. CASE ReadUrl
  BY <1>13 DEF ReadUrl, ReadGoesTo, ArchiveInv, StoreInv, JobsInv, JobInv, Complete, ReaderInv, NoRead
<1>14. CASE ReadObject
  BY <1>14 DEF ReadObject, ReadGoesTo, ArchiveInv, StoreInv, JobsInv, JobInv, Complete, ReaderInv, NoRead
<1> QED
  BY ReadPageInv, ReadDetailsInv, <1>1, <1>2, <1>3, <1>4, <1>5, <1>6, <1>7, <1>8, <1>9,
     <1>10, <1>11, <1>12, <1>13, <1>14 DEF ArchiveNext, Pipeline

LEMMA Invariant ==
  ASSUME PagesInOrder
  PROVE  ArchiveSpec => []ArchiveInv
<1>1. ArchiveInit => ArchiveInv
  BY ArchiveInitInv
<1>2. ArchiveInv /\ [ArchiveNext]_archiveVars => ArchiveInv'
  BY ArchiveNextInv
<1> QED
  BY <1>1, <1>2, PTL DEF ArchiveSpec

-----------------------------------------------------------------------------
(* The theorems *)

\* Hands only leave the database when the object has all of them: two archive jobs,
\* crashes and failures lose no hand (archiveSingleTournament, pruneHandsInChunks).
THEOREM NoHandIsLost ==
  ASSUME PagesInOrder
  PROVE  ArchiveSpec => []PrunedIsStored
<1>1. ArchiveInv => PrunedIsStored
  BY DEF ArchiveInv, StoreInv, PrunedIsStored
<1> QED
  BY <1>1, Invariant, PTL

\* getArchivedHand finds every hand: the address and the object are there before the
\* row is gone.
THEOREM EveryHandReadable ==
  ASSUME PagesInOrder
  PROVE  ArchiveSpec => []HandsReadable
<1>1. ArchiveInv => HandsReadable
  BY DEF ArchiveInv, ReaderInv, HandsReadable, NoRead
<1> QED
  BY <1>1, Invariant, PTL

\* The types of the variables, at every number of hands.
THEOREM TypeCorrect ==
  ASSUME PagesInOrder
  PROVE  ArchiveSpec => []ArchiveTypeOK
<1>1. ArchiveInv => ArchiveTypeOK
  BY DEF ArchiveInv, StoreInv, JobsInv, JobInv, ReaderInv, ArchiveTypeOK
<1> QED
  BY <1>1, Invariant, PTL
=============================================================================
