-------------------------- MODULE DailyMasterProofs --------------------------
(***************************************************************************)
(* Proofs about DailyMaster: when no job outlives its lock, the jobs exclude *)
(* each other, a day has one master, its pods seat its entries, and its pool *)
(* is given out once.                                                       *)
(***************************************************************************)
EXTENDS DailyMaster, SumLemmas, SequenceTheorems

-----------------------------------------------------------------------------
(* Shares *)

\* A function on 1 .. n is a sequence of its values.
LEMMA FunctionIsSeq ==
  ASSUME NEW S, NEW n \in Nat, NEW f \in [1 .. n -> S]
  PROVE  f \in Seq(S) /\ Len(f) = n /\ DOMAIN f = 1 .. n
OBVIOUS

\* The quotient and the rest of a division.
LEMMA Division ==
  ASSUME NEW n \in Nat, NEW k \in Nat \ {0}
  PROVE  /\ n \div k \in Nat /\ n % k \in 0 .. k - 1
         /\ n = k * (n \div k) + (n % k)
OBVIOUS

\* What equal shares, and one more for the members of F, come to.
LEMMA SumOfTwoParts ==
  ASSUME NEW D, IsFiniteSet(D), NEW F \in SUBSET D, NEW q \in Int, NEW e \in Int,
         NEW f \in [D -> Int],
         \A d \in D : f[d] = q + (IF d \in F THEN e ELSE 0)
  PROVE  SumFunction(f) = q * Cardinality(D) + e * Cardinality(F)
<1> DEFINE c == [d \in D |-> IF d \in D THEN q ELSE 0]
           h == [d \in D |-> IF d \in F THEN e ELSE 0]
<1>1. SumFunction(c) = q * Cardinality(D)
      BY SumOfIndicator
<1>2. SumFunction(h) = e * Cardinality(F)
      BY SumOfIndicator
<1>3. /\ c \in [D -> Int] /\ h \in [D -> Int]
      /\ \A d \in D : f[d] = c[d] + h[d]
      OBVIOUS
<1> HIDE DEF c, h
<1>4. SumFunction(f) = SumFunction(c) + SumFunction(h)
      BY <1>3, SumAdds
<1> QED BY <1>1, <1>2, <1>4

\* Of k shares, the first r are larger by e.
LEMMA SumOfShares ==
  ASSUME NEW k \in Nat, NEW q \in Int, NEW r \in 0 .. k, NEW e \in Int
  PROVE  \A f \in [1 .. k -> Int] :
           (\A i \in 1 .. k : f[i] = q + (IF i <= r THEN e ELSE 0))
             => SumFunction(f) = q * k + e * r
<1> SUFFICES ASSUME NEW f \in [1 .. k -> Int],
                    \A i \in 1 .. k : f[i] = q + (IF i <= r THEN e ELSE 0)
             PROVE  SumFunction(f) = q * k + e * r
    OBVIOUS
<1> DEFINE D == 1 .. k
           F == 1 .. r
<1>1. IsFiniteSet(D) /\ Cardinality(D) = k /\ F \in SUBSET D /\ Cardinality(F) = r
      BY FS_Interval
<1>2. \A d \in D : f[d] = q + (IF d \in F THEN e ELSE 0)
      OBVIOUS
<1>3. f \in [D -> Int]
      OBVIOUS
<1> HIDE DEF D, F
<1>4. SumFunction(f) = q * Cardinality(D) + e * Cardinality(F)
  <2>1. \A g \in [D -> Int] : (\A d \in D : g[d] = q + (IF d \in F THEN e ELSE 0))
           => SumFunction(g) = q * Cardinality(D) + e * Cardinality(F)
        BY ZenonT(60), <1>1, SumOfTwoParts
  <2> QED BY <1>2, <1>3, <2>1
<1> QED BY <1>1, <1>4

\* A split seats every player, at least two to a pod.
LEMMA PodSplitSeatsAll ==
  ASSUME NEW n \in Nat, n >= MinPlayers
  PROVE  \E k \in 1 .. n :
           /\ PodSplit(n) \in [1 .. k -> Nat]
           /\ \A i \in 1 .. k : PodSplit(n)[i] >= 2
           /\ SumFunction(PodSplit(n)) = n
<1>1. MinPlayers \in Nat \ {0, 1} /\ PodSize \in Nat \ {0, 1} /\ n >= 2
      BY DailyAssumption
<1>2. CASE n <= PodSize
  <2>1. PodSplit(n) = <<n>>
        BY <1>2 DEF PodSplit
  <2> DEFINE f == <<n>>
             one == 1
             none == 0
  <2>2. one = 1 /\ none = 0
        OBVIOUS
  <2>3. f \in [1 .. one -> Nat] /\ f \in [1 .. one -> Int] /\ \A i \in 1 .. one : f[i] = n
        OBVIOUS
  <2> HIDE DEF f, one, none
  <2>4. SumFunction(f) = n * one + none * none
    <3>0. n \in Int /\ one \in Nat /\ none \in 0 .. one /\ none \in Int
          BY <2>2
    <3>1. \A g \in [1 .. one -> Int] :
            (\A i \in 1 .. one : g[i] = n + (IF i <= none THEN none ELSE 0))
              => SumFunction(g) = n * one + none * none
          BY ZenonT(60), <3>0, SumOfShares
    <3> QED BY <2>2, <2>3, <3>1
  <2>5. PodSplit(n) = f
        BY <2>1 DEF f
  <2>6. one \in 1 .. n /\ n * one + none * none = n /\ \A i \in 1 .. one : f[i] >= 2
        BY <1>1, <2>2, <2>3
  <2> QED BY <2>3, <2>4, <2>5, <2>6
<1>3. CASE ~(n <= PodSize)
  <2> DEFINE k == CeilDiv(n, PodSize)
             q == n \div k
             r == n % k
             sizes == [i \in 1 .. k |-> q + (IF i <= r THEN 1 ELSE 0)]
  <2>1. k \in Nat /\ 2 <= k /\ PodSize * (k - 1) < n /\ k <= n
    <3> DEFINE a == n + PodSize - 1
    <3>1. k = a \div PodSize /\ a \in Nat
          BY <1>1 DEF CeilDiv
    <3>2. k \in Nat /\ a % PodSize \in 0 .. PodSize - 1 /\ a = PodSize * k + (a % PodSize)
          BY ZenonT(60), <1>1, <3>1, Division
    <3> DEFINE rest == a % PodSize
    <3> HIDE DEF k, rest
    <3>3. PodSize * k > n - 1 /\ PodSize * k <= n + PodSize - 1
          BY <1>1, <3>2 DEF rest
    <3>4. k >= 2
      <4>1. CASE k = 0
            BY <1>1, <1>3, <3>3, <4>1
      <4>2. CASE k = 1
            BY <1>1, <1>3, <3>3, <4>2
      <4> QED BY <3>2, <4>1, <4>2
    <3>5. PodSize * (k - 1) = PodSize * k - PodSize
          BY <1>1, <3>2
    <3>6. PodSize * (k - 1) < n
          BY <1>1, <3>2, <3>3, <3>5
    <3>7. PodSize * (k - 1) >= 2 * (k - 1)
          BY <1>1, <3>2, <3>4
    <3>8. k <= n
          BY <1>1, <3>2, <3>4, <3>6, <3>7
    <3> QED BY <3>2, <3>4, <3>6, <3>8
  <2> HIDE DEF k
  <2>a. k \in Nat \ {0}
        BY <2>1
  <2> HIDE DEF sizes
  <2>2. q \in Nat /\ r \in 0 .. k - 1 /\ n = k * q + r
        BY <2>a, Division
  <2> HIDE DEF q, r
  <2> USE DEF sizes
  <2>3. 2 * (k - 1) <= PodSize * (k - 1)
        BY <1>1, <2>1
  <2>4. q >= 1
    <3>1. CASE q = 0
          BY <2>1, <2>2, <3>1
    <3> QED BY <2>2, <3>1
  <2>5. sizes \in [1 .. k -> Nat] /\ sizes \in [1 .. k -> Int] /\ sizes[k] = q
        BY <2>1, <2>2
  <2>6. PodSplit(n) = IF sizes[k] < 2
                      THEN [i \in 1 .. k - 1 |->
                              IF i = k - 1 THEN sizes[i] + sizes[k] ELSE sizes[i]]
                      ELSE sizes
        BY <1>3 DEF PodSplit, k, q, r
  <2>7. \A i \in 1 .. k : sizes[i] = q + (IF i <= r THEN 1 ELSE 0)
        OBVIOUS
  <2> HIDE DEF sizes
  <2>8. CASE q >= 2
    <3>1. PodSplit(n) = sizes
          BY <2>2, <2>5, <2>6, <2>8
    <3>2. SumFunction(sizes) = q * k + 1 * r
      <4>1. q \in Int /\ r \in 0 .. k /\ 1 \in Int /\ k \in Nat
            BY <2>1, <2>2
      <4>2. \A g \in [1 .. k -> Int] :
              (\A i \in 1 .. k : g[i] = q + (IF i <= r THEN 1 ELSE 0))
                => SumFunction(g) = q * k + 1 * r
            BY <4>1, SumOfShares
      <4> QED BY <2>5, <2>7, <4>2
    <3>3. q * k + 1 * r = n
          BY <2>1, <2>2
    <3>4. \A i \in 1 .. k : sizes[i] >= 2
          BY <2>2, <2>7, <2>8
    <3> QED BY SMTT(60), <2>1, <2>5, <3>1, <3>2, <3>3, <3>4
  <2>9. CASE q = 1
    <3>1. n = k + r
          BY <2>1, <2>2, <2>9
    <3>2. 2 * (k - 1) < n
          BY <1>1, <2>1, <2>3
    <3>3. r = k - 1
          BY <2>1, <2>2, <3>1, <3>2
    <3> DEFINE m == k - 1
               merged == [i \in 1 .. m |->
                            IF i = k - 1 THEN sizes[i] + sizes[k] ELSE sizes[i]]
    <3>4. m \in 1 .. n /\ m \in Nat /\ r = m
          BY <2>1, <3>3
    <3>5. \A i \in 1 .. m : sizes[i] = 2
          BY <2>1, <2>7, <2>9, <3>4
    <3>6. /\ merged \in [1 .. m -> Nat] /\ merged \in [1 .. m -> Int]
          /\ \A i \in 1 .. m : merged[i] = IF i = m THEN 3 ELSE 2
          BY <2>1, <2>5, <2>9, <3>5
    <3>7. PodSplit(n) = merged
          BY <2>1, <2>5, <2>6, <2>9
    <3> HIDE DEF merged, m
    <3>8. m - 1 \in 0 .. m /\ \A i \in 1 .. m : merged[i] = 3 + (IF i <= m - 1 THEN -1 ELSE 0)
          BY <3>4, <3>6
    <3>9. SumFunction(merged) = 3 * m + (-1) * (m - 1)
      <4>1. \A g \in [1 .. m -> Int] :
              (\A i \in 1 .. m : g[i] = 3 + (IF i <= m - 1 THEN -1 ELSE 0))
                => SumFunction(g) = 3 * m + (-1) * (m - 1)
            BY <3>4, <3>8, 3 \in Int, -1 \in Int, SumOfShares
      <4> QED BY <3>6, <3>8, <4>1
    <3>10. 3 * m + (-1) * (m - 1) = n
          BY <2>1, <3>1, <3>4 DEF m
    <3>11. \A i \in 1 .. m : merged[i] >= 2
          BY <3>6
    <3> QED BY <3>4, <3>6, <3>7, <3>9, <3>10, <3>11
  <2> QED BY <2>2, <2>4, <2>8, <2>9
<1> QED BY <1>2, <1>3

\* The shares of k pods add up to the daily pool.
LEMMA PodPoolsGiveAll ==
  ASSUME NEW k \in Nat \ {0}
  PROVE  /\ \A i \in 1 .. k : PodPool(k, i) \in Nat
         /\ SumFunction([i \in 1 .. k |-> PodPool(k, i)]) = DailyPool
<1> DEFINE q == DailyPool \div k
           r == DailyPool % k
           f == [i \in 1 .. k |-> PodPool(k, i)]
<1>1. q \in Nat /\ r \in Nat /\ DailyPool = k * q + r
      BY Division, DailyAssumption
<1>2. \A i \in 1 .. k : PodPool(k, i) = q + (IF i = 1 THEN r ELSE 0)
      BY DEF PodPool
<1> HIDE DEF q, r
<1>3. /\ f \in [1 .. k -> Int] /\ 1 \in 0 .. k
      /\ \A i \in 1 .. k : f[i] = q + (IF i <= 1 THEN r ELSE 0)
      BY <1>1, <1>2
<1>4. \A i \in 1 .. k : PodPool(k, i) \in Nat
      BY <1>1, <1>2
<1> HIDE DEF f
<1>5. SumFunction(f) = q * k + r * 1
  <2>1. \A g \in [1 .. k -> Int] : (\A i \in 1 .. k : g[i] = q + (IF i <= 1 THEN r ELSE 0))
          => SumFunction(g) = q * k + r * 1
        BY <1>1, <1>3, q \in Int, r \in Int, SumOfShares
  <2> QED BY <1>3, <2>1
<1>6. q * k + r * 1 = DailyPool
      BY <1>1
<1> QED BY <1>4, <1>5, <1>6 DEF f

-----------------------------------------------------------------------------
(* The inductive invariant *)

Statuses    == {"registering", "running", "cancelled"}
PodStatuses == {"pending", "running", "finished"}
MasterRows  == [status : Statuses, entries : 0 .. Users]
PodRows     == [master : Nat, players : Nat, pool : Nat, status : PodStatuses]

\* A job is inside only while the lock is its own.
Holding == \A j \in Jobs : pc[j] \in Body => owner[Key(j)] = j

\* Each kind of job has its own labels.
Placed(j) ==
  /\ pc[j] = "insert" => Kind(j) = "create"
  /\ pc[j] \in {"entries", "cancel", "status", "pods"} => Kind(j) = "lock"
  /\ pc[j] \in {"pending", "mark", "start"} => Kind(j) = "execute"
  /\ pc[j] = "pay" => Kind(j) = "pay"

\* The jobs of one time are over before the next.
Phase(j) ==
  /\ Kind(j) = "create" /\ clock # "create" => pc[j] = "done"
  /\ Kind(j) = "lock" /\ clock = "create" => pc[j] = "idle"
  /\ Kind(j) = "lock" /\ clock = "execute" => pc[j] = "done"
  /\ Kind(j) = "execute" /\ clock # "execute" => pc[j] = "idle"

\* What a job is about exists.
Target(j) ==
  /\ Kind(j) = "pay" /\ pc[j] \notin {"idle", "done"} =>
       at[j] \in DOMAIN pods /\ pods[at[j]].status # "pending"
  /\ Kind(j) \in {"lock", "execute"} /\ pc[j] \in Body \ {"find"} =>
       at[j] \in DOMAIN masters

\* What a job read is still true when it writes.
Current(j) ==
  /\ pc[j] = "insert" => masters = <<>>
  /\ pc[j] \in {"entries", "cancel", "status"} => masters[at[j]].status = "registering"
  /\ pc[j] = "pods" => masters[at[j]].status # "registering" /\ pods = <<>>
  /\ pc[j] \in {"status", "pods"} => count[j] \in MinPlayers .. masters[at[j]].entries
  /\ pc[j] = "mark" =>
       todo[j] # {} /\ \A p \in todo[j] : p \in DOMAIN pods /\ pods[p].status = "pending"
  /\ pc[j] = "pay" => pods[at[j]].status = "running"

Fits(j) == Placed(j) /\ Phase(j) /\ Target(j) /\ Current(j)

\* Pods are made once registration is closed, and a pod is paid for when it
\* finishes.
PodsAfterwards ==
  /\ (\A m \in DOMAIN masters : masters[m].status = "registering") => pods = <<>>
  /\ Len(pods) <= Users
Payouts ==
  /\ Len(paid) = Len(pods)
  /\ \A p \in DOMAIN pods :
       paid[p] = IF pods[p].status = "finished" THEN pods[p].pool ELSE 0

RowsFit == OneMaster /\ PodsAfterwards /\ Payouts /\ PodsSeatEntries /\ PoolGivenOnce

DailyInv == TypeOK /\ Holding /\ (\A j \in Jobs : Fits(j)) /\ RowsFit

-----------------------------------------------------------------------------
(* Rows *)

LEMMA RowTypes ==
  ASSUME TypeOK
  PROVE  /\ masters \in Seq(MasterRows) /\ DOMAIN masters = 1 .. Len(masters)
         /\ Len(masters) \in Nat
         /\ \A m \in DOMAIN masters : masters[m] \in MasterRows
         /\ pods \in Seq(PodRows) /\ DOMAIN pods = 1 .. Len(pods) /\ Len(pods) \in Nat
         /\ \A p \in DOMAIN pods : pods[p] \in PodRows
         /\ paid \in Seq(Nat) /\ DOMAIN paid = 1 .. Len(paid) /\ Len(paid) \in Nat
         /\ \A p \in DOMAIN paid : paid[p] \in Nat
<1>1. masters \in Seq(MasterRows) /\ pods \in Seq(PodRows) /\ paid \in Seq(Nat)
      BY DEF TypeOK, MasterRows, PodRows, Statuses, PodStatuses
<1> HIDE DEF MasterRows, PodRows
<1>2. /\ DOMAIN masters = 1 .. Len(masters) /\ Len(masters) \in Nat
      /\ \A m \in DOMAIN masters : masters[m] \in MasterRows
      BY <1>1, LenProperties, ElementOfSeq
<1>3. /\ DOMAIN pods = 1 .. Len(pods) /\ Len(pods) \in Nat
      /\ \A p \in DOMAIN pods : pods[p] \in PodRows
      BY <1>1, LenProperties, ElementOfSeq
<1>4. /\ DOMAIN paid = 1 .. Len(paid) /\ Len(paid) \in Nat
      /\ \A p \in DOMAIN paid : paid[p] \in Nat
      BY <1>1, LenProperties, ElementOfSeq
<1> QED BY <1>1, <1>2, <1>3, <1>4

\* One element of a sequence is replaced.
LEMMA ReplaceElement ==
  ASSUME NEW S, NEW s \in Seq(S), NEW i \in DOMAIN s, NEW e \in S
  PROVE  /\ [s EXCEPT ![i] = e] \in Seq(S) /\ Len([s EXCEPT ![i] = e]) = Len(s)
         /\ DOMAIN [s EXCEPT ![i] = e] = DOMAIN s
         /\ \A n \in DOMAIN s : [s EXCEPT ![i] = e][n] = IF n = i THEN e ELSE s[n]
<1>1. DOMAIN s = 1 .. Len(s)
      BY LenProperties
<1> QED BY <1>1, ExceptSeq

\* The status of a master changes, and nothing else of it.
LEMMA MasterStatus ==
  ASSUME TypeOK, NEW m \in DOMAIN masters, NEW v \in Statuses,
         masters' = [masters EXCEPT ![m].status = v]
  PROVE  /\ masters' \in Seq(MasterRows) /\ Len(masters') = Len(masters)
         /\ DOMAIN masters' = DOMAIN masters
         /\ \A i \in DOMAIN masters :
              /\ masters'[i].entries = masters[i].entries
              /\ masters'[i].status = IF i = m THEN v ELSE masters[i].status
<1> DEFINE row == [masters[m] EXCEPT !.status = v]
<1>1. masters[m] \in MasterRows
      BY RowTypes
<1>2. row \in MasterRows /\ row.entries = masters[m].entries /\ row.status = v
      BY <1>1 DEF MasterRows
<1>3. masters' = [masters EXCEPT ![m] = row]
      OBVIOUS
<1> HIDE DEF row, MasterRows
<1>4. masters \in Seq(MasterRows)
      BY RowTypes
<1> QED BY <1>2, <1>3, <1>4, ReplaceElement

\* The status of a pod changes, and nothing else of it.
LEMMA PodStatus ==
  ASSUME TypeOK, NEW p \in DOMAIN pods, NEW v \in PodStatuses,
         pods' = [pods EXCEPT ![p].status = v]
  PROVE  /\ pods' \in Seq(PodRows) /\ Len(pods') = Len(pods)
         /\ DOMAIN pods' = DOMAIN pods
         /\ \A i \in DOMAIN pods :
              /\ pods'[i].master = pods[i].master /\ pods'[i].players = pods[i].players
              /\ pods'[i].pool = pods[i].pool
              /\ pods'[i].status = IF i = p THEN v ELSE pods[i].status
<1> DEFINE row == [pods[p] EXCEPT !.status = v]
<1>1. pods[p] \in PodRows
      BY RowTypes
<1>2. /\ row \in PodRows /\ row.master = pods[p].master /\ row.players = pods[p].players
      /\ row.pool = pods[p].pool /\ row.status = v
      BY <1>1 DEF PodRows
<1>3. pods' = [pods EXCEPT ![p] = row]
      OBVIOUS
<1> HIDE DEF row, PodRows
<1>4. pods \in Seq(PodRows)
      BY RowTypes
<1> QED BY <1>2, <1>3, <1>4, ReplaceElement

-----------------------------------------------------------------------------
(* The locks *)

LEMMA JobFacts ==
  ASSUME NEW j \in Jobs
  PROVE  /\ Kind(j) \in {"create", "lock", "execute", "pay"}
         /\ j[1] \in Servers /\ j # NoJob
BY DailyAssumption DEF Jobs, Kind, Crons

\* A job that is due or running has a lock.
LEMMA KeyIsKey ==
  ASSUME TypeOK, Len(pods) <= Users, NEW j \in Jobs,
         Kind(j) = "pay" => at[j] \in DOMAIN pods
  PROVE  Key(j) \in Keys
<1>1. CASE Kind(j) = "pay"
  <2>1. at[j] \in 1 .. Len(pods) /\ Len(pods) \in Nat
        BY <1>1, RowTypes
  <2> DEFINE n == Cardinality(Servers)
  <2>2. n \in Nat /\ n # 0
        BY JobFacts, DailyAssumption, FS_CardinalityType, FS_EmptySet
  <2> HIDE DEF n
  <2>3. Users \in Nat /\ n * Users >= Users
        BY <2>2, DailyAssumption
  <2>4. at[j] \in 1 .. MaxPods
        BY <2>1, <2>2, <2>3 DEF MaxPods, n
  <2> QED BY <1>1, <2>4 DEF Key, Keys
<1>2. CASE Kind(j) # "pay"
      BY <1>2, JobFacts DEF Key, Keys, Crons
<1> QED BY <1>1, <1>2

\* Two jobs inside have different locks.
LEMMA InsideAlone ==
  ASSUME Holding, NEW i \in Jobs, NEW j \in Jobs,
         pc[i] \in Body, pc[j] \in Body, Key(i) = Key(j)
  PROVE  i = j
BY DEF Holding

\* What a job inside does leaves it inside or lets it go, and moves no lock.
LEMMA WorkingKeepsLocks ==
  ASSUME TypeOK, NEW j \in Jobs, Placed(j), Working(j) \/ Fails(j)
  PROVE  /\ owner' = owner /\ pc[j] \in Body
         /\ \A i \in Jobs : /\ i # j => pc'[i] = pc[i] /\ at'[i] = at[i]
                            /\ Kind(i) = "pay" => at'[i] = at[i]
<1> USE DEF TypeOK, Placed, Goto, Body, rows
<1>1. CASE CreateFinds(j) \/ CreateInserts(j) \/ Fails(j)
      BY <1>1 DEF CreateFinds, CreateInserts, Fails
<1>2. CASE LockFinds(j) \/ ExecuteFinds(j)
      BY <1>2 DEF LockFinds, ExecuteFinds, Finds
<1>3. CASE LockReadsEntries(j) \/ LockSetsStatus(j) \/ LockInsertsPods(j)
      BY <1>3 DEF LockReadsEntries, LockSetsStatus, LockInsertsPods
<1>4. CASE ExecuteReadsPods(j) \/ ExecuteMarksPod(j) \/ ExecuteStarts(j)
      BY <1>4 DEF ExecuteReadsPods, ExecuteMarksPod, ExecuteStarts
<1>5. CASE PayFinds(j) \/ PayPays(j)
      BY <1>5 DEF PayFinds, PayPays
<1> QED BY <1>1, <1>2, <1>3, <1>4, <1>5 DEF Working

\* Nobody is inside without the lock.
LEMMA HoldingKept ==
  ASSUME DailyInv, Slow = FALSE, Next
  PROVE  Holding'
<1> SUFFICES ASSUME NEW i \in Jobs, pc'[i] \in Body
             PROVE  owner'[Key(i)'] = i
    BY DEF Holding
<1> USE DEF DailyInv
<1>1. ASSUME pc[i] \in Body, owner' = owner, Kind(i) = "pay" => at'[i] = at[i]
      PROVE  owner'[Key(i)'] = i
  <2>1. Key(i)' = Key(i)
        BY <1>1 DEF Key
  <2> QED BY <1>1, <2>1 DEF Holding
<1>2. CASE TimePasses
      BY <1>1, <1>2 DEF TimePasses, Ends, Body
<1>3. ASSUME NEW j \in Jobs, Working(j) \/ Fails(j) PROVE owner'[Key(i)'] = i
  <2>1. /\ owner' = owner /\ pc[j] \in Body
        /\ i # j => pc'[i] = pc[i] /\ at'[i] = at[i]
        /\ Kind(i) = "pay" => at'[i] = at[i]
        BY <1>3, WorkingKeepsLocks DEF Fits
  <2> QED BY <1>1, <2>1
<1>4. ASSUME NEW j \in Jobs, Fire(j) \/ Skip(j) \/ ReleaseFails(j)
      PROVE  owner'[Key(i)'] = i
      BY <1>1, <1>4 DEF Fire, Skip, ReleaseFails, Ends, Goto, Body, TypeOK
<1>5. ASSUME NEW j \in Jobs, Acquire(j) PROVE owner'[Key(i)'] = i
  <2>1. Key(i)' = Key(i) /\ Key(j) \in Keys /\ owner[Key(j)] = NoJob
    <3>1. Kind(j) = "pay" => at[j] \in DOMAIN pods
          BY <1>5 DEF Acquire, Fits, Target
    <3> QED BY <1>5, <3>1, KeyIsKey DEF Acquire, Key, Free, RowsFit, PodsAfterwards
  <2>2. owner' = [owner EXCEPT ![Key(j)] = j] /\ owner \in [Keys -> Jobs \union {NoJob}]
        BY <1>5 DEF Acquire, TypeOK, Free
  <2>3. CASE i = j
        BY <2>1, <2>2, <2>3
  <2>4. CASE i # j
    <3>1. pc[i] \in Body
          BY <1>5, <2>4 DEF Acquire, Goto, TypeOK
    <3>2. owner[Key(i)] = i /\ i # NoJob
          BY <3>1, JobFacts DEF Holding
    <3>3. Key(i) # Key(j)
          BY <2>1, <3>2
    <3> QED BY <2>1, <2>2, <3>2, <3>3
  <2> QED BY <2>3, <2>4
<1>6. ASSUME NEW j \in Jobs, Release(j) PROVE owner'[Key(i)'] = i
  <2>1. /\ i # j /\ pc[i] \in Body /\ Key(i)' = Key(i)
        BY <1>6 DEF Release, Ends, Body, Key
  <2>2. owner[Key(i)] = i
        BY <2>1 DEF Holding
  <2>3. owner' = [owner EXCEPT ![Key(j)] = Freed(Key(j), j)]
        BY <1>6 DEF Release
  <2>4. Key(i) = Key(j) => Freed(Key(j), j) = i
        BY <2>1, <2>2 DEF Freed
  <2>5. owner \in [Keys -> Jobs \union {Free}]
        BY DEF TypeOK
  <2>6. Key(j) \in Keys
    <3>1. Kind(j) = "pay" => at[j] \in DOMAIN pods
          BY <1>6 DEF Release, Fits, Target
    <3> QED BY <3>1, KeyIsKey DEF RowsFit, PodsAfterwards
  <2> QED BY <2>1, <2>2, <2>3, <2>4, <2>5, <2>6
<1>7. ASSUME NEW k \in Keys, Expire(k) PROVE owner'[Key(i)'] = i
  <2>1. pc[i] \in Body /\ Key(i)' = Key(i) /\ pc[owner[k]] \notin Body
        /\ owner' = [owner EXCEPT ![k] = Free]
        BY <1>7 DEF Expire, jobVars, Key
  <2>2. owner[Key(i)] = i
        BY <2>1 DEF Holding
  <2>3. Key(i) # k
        BY <2>1, <2>2
  <2> QED BY <2>1, <2>2, <2>3 DEF TypeOK
<1>8. ASSUME NEW s \in Servers, Crash(s) PROVE owner'[Key(i)'] = i
      BY <1>1, <1>8 DEF Crash, Ends, Body
<1>9. ASSUME NEW j \in Jobs, NEW p \in DOMAIN pods, Deliver(j, p)
      PROVE  owner'[Key(i)'] = i
      BY <1>1, <1>9 DEF Deliver, Goto, TypeOK, Body
<1>10. ASSUME NEW m \in DOMAIN masters, SchedulerStarts(m) \/ Register(m)
       PROVE  owner'[Key(i)'] = i
       BY <1>1, <1>10 DEF SchedulerStarts, Register, jobVars
<1> QED BY <1>2, <1>3, <1>4, <1>5, <1>6, <1>7, <1>8, <1>9, <1>10 DEF Next, Locking

-----------------------------------------------------------------------------
(* The pods of a master *)

\* The step that inserts the pods finds none, and seats the entries it counted.
LEMMA PodsInserted ==
  ASSUME DailyInv, NEW j \in Jobs, LockInsertsPods(j)
  PROVE  \E k \in 1 .. count[j] :
           /\ pods' \in Seq(PodRows) /\ Len(pods') = k /\ DOMAIN pods' = 1 .. k
           /\ paid' \in Seq(Nat) /\ Len(paid') = k
           /\ \A p \in 1 .. k : /\ pods'[p].status = "pending"
                                /\ pods'[p].master = at[j]
                                /\ pods'[p].players >= 2
                                /\ paid'[p] = 0 /\ pods'[p].pool \in Nat
           /\ SumFunction([p \in 1 .. k |-> pods'[p].players]) = count[j]
           /\ SumFunction([p \in 1 .. k |-> pods'[p].pool]) = DailyPool
<1> DEFINE n     == count[j]
           sizes == PodSplit(n)
           row(i) == [master |-> at[j], players |-> sizes[i], status |-> "pending",
                      pool |-> PodPool(Len(sizes), i)]
           new   == [i \in DOMAIN sizes |-> row(i)]
           none  == [i \in DOMAIN sizes |-> 0]
<1>1. pc[j] = "pods" /\ pods' = pods \o new /\ paid' = paid \o none
      BY DEF LockInsertsPods
<1>2. pods = <<>> /\ n \in Nat /\ n >= MinPlayers
  <2>1. pods = <<>> /\ count[j] \in MinPlayers .. masters[at[j]].entries /\ count[j] \in Nat
        BY <1>1 DEF DailyInv, Fits, Current, TypeOK
  <2> QED BY <2>1, DailyAssumption
<1>3. paid = <<>>
  <2>1. Len(paid) = 0
        BY <1>2 DEF DailyInv, RowsFit, Payouts
  <2> QED BY <2>1, RowTypes, EmptySeq DEF DailyInv
<1> HIDE DEF n
<1>4. PICK k \in 1 .. n : /\ sizes \in [1 .. k -> Nat]
                          /\ \A i \in 1 .. k : sizes[i] >= 2
                          /\ SumFunction(sizes) = n
      BY <1>2, PodSplitSeatsAll
<1>5. k \in Nat \ {0} /\ at[j] \in Nat
      BY <1>2, <1>4 DEF DailyInv, TypeOK
<1> HIDE DEF sizes
<1>6. Len(sizes) = k /\ DOMAIN sizes = 1 .. k
      BY <1>4, <1>5, FunctionIsSeq
<1>7. \A i \in 1 .. k : row(i) \in PodRows
  <2>1. \A i \in 1 .. k : PodPool(k, i) \in Nat /\ sizes[i] \in Nat
        BY <1>4, <1>5, PodPoolsGiveAll
  <2> QED BY <1>5, <1>6, <2>1 DEF PodRows, PodStatuses
<1>8. new \in [1 .. k -> PodRows] /\ none \in [1 .. k -> Nat]
      BY <1>6, <1>7
<1>9. \A i \in 1 .. k : /\ new[i].status = "pending" /\ new[i].master = at[j]
                        /\ new[i].players = sizes[i] /\ new[i].pool = PodPool(k, i)
                        /\ none[i] = 0
      BY <1>6
<1> HIDE DEF new, none
<1>10. /\ new \in Seq(PodRows) /\ Len(new) = k /\ DOMAIN new = 1 .. k
       /\ none \in Seq(Nat) /\ Len(none) = k
       BY <1>5, <1>8, FunctionIsSeq
<1>11. pods' = new /\ paid' = none
       BY <1>1, <1>2, <1>3, <1>10, ConcatEmptySeq
<1>12. [p \in 1 .. k |-> pods'[p].players] = sizes
       BY <1>4, <1>9, <1>11
<1>13. [p \in 1 .. k |-> pods'[p].pool] = [p \in 1 .. k |-> PodPool(k, p)]
       BY <1>9, <1>11
<1>14. SumFunction([p \in 1 .. k |-> pods'[p].pool]) = DailyPool
       BY <1>5, <1>13, PodPoolsGiveAll
<1>15. \A p \in 1 .. k : /\ pods'[p].status = "pending" /\ pods'[p].master = at[j]
                         /\ pods'[p].players >= 2
                         /\ paid'[p] = 0 /\ pods'[p].pool \in Nat
       BY <1>4, <1>5, <1>9, <1>11, PodPoolsGiveAll
<1>16. SumFunction([p \in 1 .. k |-> pods'[p].players]) = n
       BY <1>4, <1>12
<1> QED BY <1>4, <1>10, <1>11, <1>14, <1>15, <1>16 DEF n

-----------------------------------------------------------------------------
(* Types *)

LEMMA LocalTypes ==
  ASSUME DailyInv, NEW j \in Jobs, Working(j) \/ Fails(j)
  PROVE  /\ pc' \in [Jobs -> Labels] /\ at' \in [Jobs -> Nat]
         /\ count' \in [Jobs -> Nat] /\ todo' \in [Jobs -> SUBSET Nat]
<1> USE DEF DailyInv, TypeOK, Goto, Body, Labels, rows
<1>1. CASE CreateFinds(j) \/ CreateInserts(j) \/ Fails(j)
      BY <1>1 DEF CreateFinds, CreateInserts, Fails
<1>2. CASE LockFinds(j) \/ ExecuteFinds(j)
  <2>1. \A m \in DOMAIN masters : m \in Nat
        BY RowTypes
  <2> QED BY <1>2, <2>1 DEF LockFinds, ExecuteFinds, Finds
<1>3. CASE LockReadsEntries(j)
  <2>1. at[j] \in DOMAIN masters
        BY <1>3 DEF LockReadsEntries, Fits, Target, Placed
  <2>2. masters[at[j]].entries \in Nat
        BY SMTT(60), <2>1, RowTypes, DailyAssumption DEF MasterRows
  <2> QED BY <1>3, <2>2 DEF LockReadsEntries
<1>4. CASE LockSetsStatus(j) \/ LockInsertsPods(j)
      BY <1>4 DEF LockSetsStatus, LockInsertsPods
<1>5. CASE ExecuteReadsPods(j)
  <2>1. Pending(at[j]) \in SUBSET Nat
        BY SMTT(60), RowTypes DEF Pending
  <2> QED BY <1>5, <2>1 DEF ExecuteReadsPods
<1>6. CASE ExecuteMarksPod(j)
      BY <1>6 DEF ExecuteMarksPod
<1>7. CASE ExecuteStarts(j) \/ PayFinds(j) \/ PayPays(j)
      BY <1>7 DEF ExecuteStarts, PayFinds, PayPays
<1> QED BY <1>1, <1>2, <1>3, <1>4, <1>5, <1>6, <1>7 DEF Working

\* The smallest pod that is left to mark.
LEMMA MarksOne ==
  ASSUME TypeOK, NEW j \in Jobs, todo[j] # {}
  PROVE  (CHOOSE q \in todo[j] : \A r \in todo[j] : q <= r) \in todo[j]
<1>1. todo[j] \subseteq Nat
      BY DEF TypeOK
<1>2. \E q \in todo[j] : \A r \in todo[j] : q <= r
  <2> DEFINE T == {n \in Nat : \A m \in 0 .. n : m \notin todo[j]}
  <2>1. SUFFICES ASSUME ~\E q \in todo[j] : \A r \in todo[j] : q <= r
                 PROVE  Nat \subseteq T
        BY <1>1
  <2>2. 0 \in T
        BY <1>1, <2>1
  <2>3. ASSUME NEW n \in Nat, n \in T PROVE n + 1 \in T
        BY <1>1, <2>1, <2>3
  <2> HIDE DEF T
  <2> QED BY <2>2, <2>3, NumberInduction
<1> QED BY <1>2

-----------------------------------------------------------------------------
(* Steps that write rows *)

\* What the invariant says of the rows.
RowsTyped ==
  masters \in Seq(MasterRows) /\ pods \in Seq(PodRows) /\ paid \in Seq(Nat)

\* The sums over the pods depend on their masters, players and pools alone.
LEMMA SumsKept ==
  ASSUME DOMAIN pods' = DOMAIN pods,
         \A p \in DOMAIN pods : /\ pods'[p].master = pods[p].master
                                /\ pods'[p].players = pods[p].players
                                /\ pods'[p].pool = pods[p].pool
  PROVE  /\ SumFunction([p \in DOMAIN pods' |-> pods'[p].pool])
              = SumFunction([p \in DOMAIN pods |-> pods[p].pool])
         /\ \A m : SumFunction([p \in DOMAIN pods' |->
                                  IF pods'[p].master = m THEN pods'[p].players ELSE 0])
              = SumFunction([p \in DOMAIN pods |->
                               IF pods[p].master = m THEN pods[p].players ELSE 0])
<1>1. [p \in DOMAIN pods' |-> pods'[p].pool] = [p \in DOMAIN pods |-> pods[p].pool]
      OBVIOUS
<1>2. ASSUME NEW m
      PROVE  [p \in DOMAIN pods' |-> IF pods'[p].master = m THEN pods'[p].players ELSE 0]
               = [p \in DOMAIN pods |-> IF pods[p].master = m THEN pods[p].players ELSE 0]
      OBVIOUS
<1> QED BY <1>1, <1>2

LEMMA SeatsKept ==
  ASSUME PodsSeatEntries, masters' = masters, DOMAIN pods' = DOMAIN pods,
         \A p \in DOMAIN pods : /\ pods'[p].master = pods[p].master
                                /\ pods'[p].players = pods[p].players
                                /\ pods'[p].pool = pods[p].pool
  PROVE  PodsSeatEntries'
<1> SUFFICES ASSUME NEW m \in DOMAIN masters
             PROVE  /\ SumFunction([p \in DOMAIN pods' |->
                                      IF pods'[p].master = m THEN pods'[p].players ELSE 0])
                         <= masters[m].entries
                    /\ \A p \in DOMAIN pods' :
                         pods'[p].master = m => pods'[p].players >= 2
    BY DEF PodsSeatEntries
<1>1. SumFunction([p \in DOMAIN pods' |->
                     IF pods'[p].master = m THEN pods'[p].players ELSE 0])
        = SumFunction([p \in DOMAIN pods |->
                         IF pods[p].master = m THEN pods[p].players ELSE 0])
      BY SumsKept
<1>2. SumFunction([p \in DOMAIN pods |-> IF pods[p].master = m THEN pods[p].players ELSE 0])
        <= masters[m].entries
      BY DEF PodsSeatEntries
<1>3. \A p \in DOMAIN pods' : pods'[p].master = m => pods'[p].players >= 2
      BY DEF PodsSeatEntries
<1> QED BY <1>1, <1>2, <1>3

\* A job that keeps its locals fits when the rows do not change.
LEMMA OthersFit ==
  ASSUME NEW i \in Jobs, Fits(i), clock' = clock, UNCHANGED rows,
         pc'[i] = pc[i], at'[i] = at[i], count'[i] = count[i], todo'[i] = todo[i]
  PROVE  Fits(i)'
BY DEF Fits, Placed, Phase, Target, Current, rows

\* There is one master at most, and at is it.
LEMMA TheMaster ==
  ASSUME DailyInv
  PROVE  \A m, k \in DOMAIN masters : m = k
BY RowTypes DEF DailyInv, RowsFit, OneMaster

\* A master that leaves registration does not come back to it.
LEMMA MasterStep ==
  ASSUME DailyInv, NEW m \in DOMAIN masters, NEW v \in Statuses,
         masters' = [masters EXCEPT ![m].status = v],
         v # "registering" \/ masters[m].status = "registering",
         UNCHANGED <<pods, paid>>,
         masters[m].status = "registering" => pods = <<>>
  PROVE  RowsTyped' /\ RowsFit'
<1> USE DEF DailyInv
<1>1. /\ masters' \in Seq(MasterRows) /\ Len(masters') = Len(masters)
      /\ DOMAIN masters' = DOMAIN masters
      /\ \A i \in DOMAIN masters :
           /\ masters'[i].entries = masters[i].entries
           /\ masters'[i].status = IF i = m THEN v ELSE masters[i].status
      BY MasterStatus
<1>2. RowsTyped'
      BY <1>1, RowTypes DEF RowsTyped
<1>3. OneMaster'
      BY <1>1 DEF RowsFit, OneMaster
<1>4. PodsAfterwards'
      BY <1>1 DEF RowsFit, PodsAfterwards
<1>5. Payouts'
      BY DEF RowsFit, Payouts
<1>6. PodsSeatEntries'
      BY <1>1 DEF RowsFit, PodsSeatEntries
<1>7. PoolGivenOnce'
      BY DEF RowsFit, PoolGivenOnce
<1> QED BY <1>2, <1>3, <1>4, <1>5, <1>6, <1>7 DEF RowsFit

\* The master is inserted.
LEMMA CreateKeeps ==
  ASSUME DailyInv, NEW j \in Jobs, CreateInserts(j)
  PROVE  RowsTyped' /\ RowsFit' /\ \A i \in Jobs : Fits(i)'
<1> USE DEF DailyInv
<1>1. PICK n \in 0 .. Users :
        masters' = Append(masters, [status |-> "registering", entries |-> n])
      BY DEF CreateInserts
<1> DEFINE row == [status |-> "registering", entries |-> n]
<1>2. pc[j] = "insert" /\ Kind(j) = "create" /\ masters = <<>>
      BY DEF CreateInserts, Fits, Placed, Current
<1>3. row \in MasterRows /\ row.status = "registering" /\ row.entries = n
      BY DEF MasterRows, Statuses
<1>4. masters' = Append(masters, row)
      BY <1>1
<1> HIDE DEF row
<1>5. /\ masters' \in Seq(MasterRows) /\ Len(masters') = 1
      /\ DOMAIN masters' = 1 .. 1 /\ masters'[1] = row
  <2>1. masters \in Seq(MasterRows) /\ Len(masters) = 0
        BY <1>2, RowTypes, EmptySeq
  <2>2. masters' \in Seq(MasterRows) /\ Len(masters') = 1 /\ masters'[1] = row
        BY <1>3, <1>4, <2>1, AppendProperties
  <2> QED BY <2>2, LenProperties
<1>6. pods = <<>> /\ pods' = pods /\ paid' = paid
      BY <1>2 DEF CreateInserts, RowsFit, PodsAfterwards
<1>7. Len(pods) = 0 /\ DOMAIN pods = {}
      BY <1>6, RowTypes
<1>8. RowsTyped'
      BY <1>5, <1>6, RowTypes DEF RowsTyped
<1>9. OneMaster' /\ PodsAfterwards' /\ Payouts' /\ PoolGivenOnce'
      BY <1>5, <1>6 DEF OneMaster, PodsAfterwards, Payouts, PoolGivenOnce, RowsFit
<1>10. PodsSeatEntries'
  <2> SUFFICES ASSUME NEW m \in DOMAIN masters'
               PROVE  SumFunction([p \in DOMAIN pods |->
                        IF pods[p].master = m THEN pods[p].players ELSE 0])
                          <= masters'[m].entries
      BY <1>6, <1>7 DEF PodsSeatEntries
  <2> DEFINE f == [p \in DOMAIN pods |-> IF pods[p].master = m THEN pods[p].players ELSE 0]
             D == DOMAIN pods
  <2>1. f = [p \in D |-> 0] /\ IsFiniteSet(D)
        BY <1>7, FS_EmptySet
  <2>2. SumFunction(f) = 0
        BY <2>1, SumOfZero
  <2>3. masters'[m].entries = n
        BY <1>3, <1>5
  <2> QED BY <2>2, <2>3
<1>11. ASSUME NEW i \in Jobs PROVE Fits(i)'
  <2>1. CASE i = j
        BY <1>2, <2>1 DEF CreateInserts, Goto, TypeOK, Fits, Placed, Phase, Target, Current
  <2>2. CASE i # j
    <3>1. pc'[i] = pc[i] /\ at'[i] = at[i] /\ clock' = clock /\ clock = "create"
          BY <1>2, <2>2 DEF CreateInserts, Goto, TypeOK, Fits, Phase
    <3>2. Kind(i) = "create" => pc[i] \notin Body
      <4>1. pc[i] \notin Body \/ Key(i) # Key(j)
            BY <1>2, <2>2, InsideAlone DEF Body
      <4> QED BY <1>2, <4>1 DEF Key
    <3>3. (Kind(i) # "lock" /\ Kind(i) # "execute") \/ pc[i] = "idle"
          BY <3>1 DEF Fits, Phase
    <3>4. Placed(i)' /\ Phase(i)'
          BY <3>1 DEF Fits, Placed, Phase
    <3>5. Target(i)'
          BY <1>6, <3>1, <3>3 DEF Fits, Target, Body
    <3>6. Current(i)'
          BY <1>2, <1>6, <1>7, <3>1, <3>2, <3>3 DEF Fits, Placed, Target, Current, Body
    <3> QED BY <3>4, <3>5, <3>6 DEF Fits
  <2> QED BY <2>1, <2>2
<1> QED BY <1>8, <1>9, <1>10, <1>11 DEF RowsFit

\* The lock job closes registration, or cancels the master.
LEMMA LockKeeps ==
  ASSUME DailyInv, NEW j \in Jobs, LockSetsStatus(j)
  PROVE  RowsTyped' /\ RowsFit' /\ \A i \in Jobs : Fits(i)'
<1> USE DEF DailyInv
<1> DEFINE m == at[j]
           v == IF pc[j] = "cancel" THEN "cancelled" ELSE "running"
<1>1. /\ pc[j] \in {"cancel", "status"} /\ Kind(j) = "lock" /\ m \in DOMAIN masters
      /\ masters[m].status = "registering"
      BY DEF LockSetsStatus, Fits, Placed, Target, Current, Body
<1>2. v \in Statuses /\ v # "registering" /\ masters' = [masters EXCEPT ![m].status = v]
      /\ clock' = clock /\ UNCHANGED <<pods, paid, at, count, todo>>
      BY DEF LockSetsStatus, Statuses
<1>3. pods = <<>>
      BY <1>1, TheMaster DEF RowsFit, PodsAfterwards
<1>4. RowsTyped' /\ RowsFit'
      BY <1>1, <1>2, <1>3, MasterStep
<1>5. /\ DOMAIN masters' = DOMAIN masters
      /\ \A i \in DOMAIN masters :
           /\ masters'[i].entries = masters[i].entries
           /\ masters'[i].status = IF i = m THEN v ELSE masters[i].status
      BY <1>1, <1>2, MasterStatus
<1>6. pc' = [pc EXCEPT ![j] = IF pc[j] = "cancel" THEN "release" ELSE "pods"]
      BY DEF LockSetsStatus, Goto
<1> HIDE DEF v
<1>7. ASSUME NEW i \in Jobs PROVE Fits(i)'
  <2>1. CASE i = j
    <3>1. Placed(i)' /\ Phase(i)' /\ Target(i)'
          BY <1>1, <1>2, <1>5, <1>6, <2>1 DEF TypeOK, Fits, Placed, Phase, Target, Body
    <3>2. Current(i)'
          BY <1>1, <1>2, <1>3, <1>5, <1>6, <2>1 DEF TypeOK, Fits, Placed, Target, Current
    <3> QED BY <3>1, <3>2 DEF Fits
  <2>2. CASE i # j
    <3>1. pc'[i] = pc[i]
          BY <1>6, <2>2 DEF TypeOK
    <3>2. Kind(i) = "lock" => pc[i] \notin Body
      <4>1. pc[i] \notin Body \/ Key(i) # Key(j)
            BY <1>1, <2>2, InsideAlone DEF Body
      <4> QED BY <1>1, <4>1 DEF Key
    <3>3. pc[i] # "insert"
          BY <1>1 DEF Fits, Placed, Phase, Current
    <3>4. Placed(i)' /\ Phase(i)' /\ Target(i)'
          BY <1>2, <1>5, <3>1 DEF Fits, Placed, Phase, Target
    <3>5. Current(i)'
          BY <1>2, <1>3, <3>1, <3>2, <3>3 DEF Fits, Placed, Target, Current, Body
    <3> QED BY <3>4, <3>5 DEF Fits
  <2> QED BY <2>1, <2>2
<1> QED BY <1>4, <1>7

\* At execution time nobody depends on the status of the master.
LEMMA FitsAtExecution ==
  ASSUME DailyInv, clock = "execute", clock' = clock, UNCHANGED <<pods, paid>>,
         DOMAIN masters' = DOMAIN masters, NEW i \in Jobs,
         at'[i] = at[i], todo'[i] = todo[i],
         pc'[i] = pc[i] \/ (pc[i] = "start" /\ pc'[i] = "release")
  PROVE  Fits(i)'
<1> USE DEF DailyInv
<1>1. Kind(i) \in {"create", "lock"} => pc[i] = "done"
      BY DEF Fits, Phase
<1>2. Placed(i)' /\ Phase(i)' /\ Target(i)'
      BY <1>1 DEF Fits, Placed, Phase, Target, Body
<1>3. Current(i)'
      BY <1>1 DEF Fits, Placed, Current
<1> QED BY <1>2, <1>3 DEF Fits

LEMMA SchedulerKeeps ==
  ASSUME DailyInv, NEW m \in DOMAIN masters, SchedulerStarts(m)
  PROVE  RowsTyped' /\ RowsFit' /\ \A i \in Jobs : Fits(i)'
<1> DEFINE v == IF masters[m].entries < MinPlayers THEN "cancelled" ELSE "running"
<1>1. /\ v \in Statuses /\ masters' = [masters EXCEPT ![m].status = v]
      /\ masters[m].status = "registering" /\ clock = "execute"
      /\ UNCHANGED <<clock, pc, at, count, todo, pods, paid>>
      BY DEF SchedulerStarts, Statuses, jobVars
<1> HIDE DEF v
<1>2. masters[m].status = "registering" => pods = <<>>
      BY TheMaster DEF DailyInv, RowsFit, PodsAfterwards
<1>3. RowsTyped' /\ RowsFit'
      BY <1>1, <1>2, MasterStep
<1>4. DOMAIN masters' = DOMAIN masters
      BY <1>1, MasterStatus DEF DailyInv
<1> QED BY <1>1, <1>3, <1>4, FitsAtExecution

LEMMA StartKeeps ==
  ASSUME DailyInv, NEW j \in Jobs, ExecuteStarts(j)
  PROVE  RowsTyped' /\ RowsFit' /\ \A i \in Jobs : Fits(i)'
<1> DEFINE m == at[j]
<1>1. /\ pc[j] = "start" /\ Kind(j) = "execute" /\ clock = "execute" /\ m \in DOMAIN masters
      /\ UNCHANGED <<clock, at, count, todo, pods, paid>> /\ Goto(j, "release")
      BY DEF ExecuteStarts, DailyInv, Fits, Placed, Phase, Target, Body
<1>2. \A i \in Jobs : pc'[i] = pc[i] \/ (pc[i] = "start" /\ pc'[i] = "release")
      BY <1>1 DEF Goto, DailyInv, TypeOK
<1>3. CASE masters[m].status = "registering"
  <2>1. masters' = [masters EXCEPT ![m].status = "running"] /\ "running" \in Statuses
        BY <1>3 DEF ExecuteStarts, Statuses
  <2>2. masters[m].status = "registering" => pods = <<>>
        BY <1>1, TheMaster DEF DailyInv, RowsFit, PodsAfterwards
  <2>3. RowsTyped' /\ RowsFit'
        BY <1>1, <1>3, <2>1, <2>2, MasterStep
  <2>4. DOMAIN masters' = DOMAIN masters
        BY <1>1, <2>1, MasterStatus DEF DailyInv
  <2> QED BY <1>1, <1>2, <2>3, <2>4, FitsAtExecution
<1>4. CASE masters[m].status # "registering"
  <2>1. masters' = masters
        BY <1>4 DEF ExecuteStarts
  <2>2. RowsTyped' /\ RowsFit'
        BY <1>1, <2>1, RowTypes DEF DailyInv, RowsTyped, RowsFit, OneMaster, PodsAfterwards,
           Payouts, PodsSeatEntries, PoolGivenOnce
  <2> QED BY <1>1, <1>2, <2>1, <2>2, FitsAtExecution
<1> QED BY <1>3, <1>4

\* A user registers: the lock job may have counted the entries before.
LEMMA RegisterKeeps ==
  ASSUME DailyInv, NEW m \in DOMAIN masters, Register(m)
  PROVE  RowsTyped' /\ RowsFit' /\ \A i \in Jobs : Fits(i)'
<1> USE DEF DailyInv
<1> DEFINE row == [masters[m] EXCEPT !.entries = masters[m].entries + 1]
<1>1. /\ masters[m].status = "registering" /\ masters[m].entries < Users
      /\ masters' = [masters EXCEPT ![m] = row]
      /\ UNCHANGED <<clock, pc, at, count, todo, pods, paid>>
      BY DEF Register, jobVars
<1>2. masters[m] \in MasterRows
      BY RowTypes
<1>3. /\ row \in MasterRows /\ row.entries = masters[m].entries + 1
      /\ row.status = "registering" /\ masters[m].entries \in Nat
      BY <1>1, <1>2, DailyAssumption DEF MasterRows
<1> HIDE DEF row
<1>4. /\ masters' \in Seq(MasterRows) /\ Len(masters') = Len(masters)
      /\ DOMAIN masters' = DOMAIN masters
      /\ \A i \in DOMAIN masters : masters'[i] = IF i = m THEN row ELSE masters[i]
      BY <1>1, <1>3, RowTypes, ReplaceElement
<1>5. \A i \in DOMAIN masters :
        /\ masters'[i].status = masters[i].status
        /\ masters[i].entries \in Nat /\ masters'[i].entries \in Nat
        /\ masters'[i].entries >= masters[i].entries
  <2>1. \A i \in DOMAIN masters : masters[i].entries \in Nat
        BY <1>3, TheMaster
  <2> QED BY <1>1, <1>3, <1>4, <2>1
<1>6. pods = <<>>
      BY <1>1, TheMaster DEF RowsFit, PodsAfterwards
<1>7. RowsTyped'
      BY <1>1, <1>4, RowTypes DEF RowsTyped
<1>8. OneMaster' /\ PodsAfterwards' /\ Payouts' /\ PoolGivenOnce'
      BY <1>1, <1>4, <1>5
      DEF RowsFit, OneMaster, PodsAfterwards, Payouts, PoolGivenOnce
<1>9. PodsSeatEntries'
  <2> DEFINE sum(k) == SumFunction([p \in DOMAIN pods |->
                          IF pods[p].master = k THEN pods[p].players ELSE 0])
  <2>1. \A k \in DOMAIN masters : sum(k) = 0
    <3>1. DOMAIN pods = {} /\ IsFiniteSet(DOMAIN pods)
      <4>1. DOMAIN pods = {}
            BY <1>6, RowTypes
      <4> QED BY <4>1, FS_EmptySet
    <3>2. ASSUME NEW k PROVE sum(k) = 0
      <4>1. [p \in DOMAIN pods |-> IF pods[p].master = k THEN pods[p].players ELSE 0]
              = [p \in DOMAIN pods |-> 0]
            BY <3>1
      <4> QED BY <3>1, <4>1, SumOfZero
    <3> QED BY <3>2
  <2>2. DOMAIN pods = {}
        BY <1>6, RowTypes
  <2> HIDE DEF sum
  <2>3. \A k \in DOMAIN masters' : sum(k) <= masters'[k].entries
        BY <1>4, <1>5, <2>1
  <2> QED BY <1>1, <2>2, <2>3 DEF PodsSeatEntries, sum
<1>10. ASSUME NEW i \in Jobs PROVE Fits(i)'
  <2>1. Placed(i)' /\ Phase(i)' /\ Target(i)'
        BY <1>1, <1>4 DEF Fits, Placed, Phase, Target
  <2>2. pc[i] # "insert"
        BY DEF Fits, Current
  <2>3. pc[i] \in {"status", "pods"} =>
          at[i] \in DOMAIN masters /\ count[i] \in MinPlayers .. masters[at[i]].entries
        BY DEF Fits, Placed, Target, Current, Body
  <2>4. pc[i] \in {"status", "pods"} => count[i] \in MinPlayers .. masters'[at[i]].entries
        BY <1>5, <2>3, DailyAssumption
  <2>5. pc[i] \in {"entries", "cancel", "status", "pods"} => at[i] \in DOMAIN masters
        BY DEF Fits, Placed, Target, Body
  <2>6. Current(i)'
        BY <1>1, <1>5, <2>2, <2>4, <2>5 DEF Fits, Current
  <2> QED BY <2>1, <2>6 DEF Fits
<1> QED BY <1>7, <1>8, <1>9, <1>10 DEF RowsFit

\* The pods are inserted: they seat the entries and share the pool.
LEMMA InsertKeeps ==
  ASSUME DailyInv, NEW j \in Jobs, LockInsertsPods(j)
  PROVE  RowsTyped' /\ RowsFit' /\ \A i \in Jobs : Fits(i)'
<1> USE DEF DailyInv
<1> DEFINE m == at[j]
<1>1. /\ pc[j] = "pods" /\ Kind(j) = "lock" /\ m \in DOMAIN masters
      /\ masters[m].status # "registering" /\ pods = <<>>
      /\ count[j] \in MinPlayers .. masters[m].entries /\ clock = "lock"
      /\ UNCHANGED <<clock, masters, at, count, todo>> /\ Goto(j, "release")
  <2>1. pc[j] = "pods" /\ UNCHANGED <<clock, masters, at, count, todo>> /\ Goto(j, "release")
        BY DEF LockInsertsPods
  <2>2. Kind(j) = "lock"
        BY <2>1 DEF Fits, Placed
  <2>3. m \in DOMAIN masters /\ masters[m].status # "registering" /\ pods = <<>>
        /\ count[j] \in MinPlayers .. masters[m].entries
        BY <2>1, <2>2 DEF Fits, Target, Current, Body
  <2>4. clock = "lock"
        BY <2>1, <2>2 DEF Fits, Phase, TypeOK, Crons
  <2> QED BY <2>1, <2>2, <2>3, <2>4
<1>2. PICK k \in 1 .. count[j] :
           /\ pods' \in Seq(PodRows) /\ Len(pods') = k /\ DOMAIN pods' = 1 .. k
           /\ paid' \in Seq(Nat) /\ Len(paid') = k
           /\ \A p \in 1 .. k : /\ pods'[p].status = "pending"
                                /\ pods'[p].master = at[j]
                                /\ pods'[p].players >= 2
                                /\ paid'[p] = 0 /\ pods'[p].pool \in Nat
           /\ SumFunction([p \in 1 .. k |-> pods'[p].players]) = count[j]
           /\ SumFunction([p \in 1 .. k |-> pods'[p].pool]) = DailyPool
      BY PodsInserted
<1>3. masters[m].entries \in 0 .. Users /\ count[j] \in Nat
      BY <1>1, RowTypes DEF MasterRows, TypeOK
<1>4. RowsTyped'
      BY <1>1, <1>2, RowTypes DEF RowsTyped
<1>5. OneMaster' /\ Payouts'
      BY <1>1, <1>2 DEF RowsFit, OneMaster, Payouts
<1>6. PodsAfterwards'
  <2>1. k <= Users
        BY <1>1, <1>2, <1>3, DailyAssumption
  <2> QED BY <1>1, <1>2, <2>1 DEF PodsAfterwards
<1>7. PodsSeatEntries'
  <2>1. \A n \in DOMAIN masters : n = m
        BY <1>1, TheMaster
  <2>2. [p \in DOMAIN pods' |-> IF pods'[p].master = m THEN pods'[p].players ELSE 0]
          = [p \in 1 .. k |-> pods'[p].players]
        BY <1>2
  <2>3. count[j] <= masters[m].entries
        BY <1>1, <1>3, DailyAssumption
  <2>4. SumFunction([p \in DOMAIN pods' |->
                       IF pods'[p].master = m THEN pods'[p].players ELSE 0])
          <= masters'[m].entries
        BY <1>1, <1>2, <2>2, <2>3
  <2>5. \A p \in DOMAIN pods' : pods'[p].players >= 2
        BY <1>2
  <2> QED BY <1>1, <2>1, <2>4, <2>5 DEF PodsSeatEntries
<1>8. PoolGivenOnce'
  <2>1. [p \in DOMAIN pods' |-> pods'[p].pool] = [p \in 1 .. k |-> pods'[p].pool]
        BY <1>2
  <2>2. SumFunction([p \in DOMAIN pods' |-> pods'[p].pool]) = DailyPool
        BY <1>2, <2>1
  <2>3. \A p \in DOMAIN pods' : paid'[p] <= pods'[p].pool
        BY <1>2
  <2> QED BY <2>2, <2>3 DEF PoolGivenOnce
<1>9. ASSUME NEW i \in Jobs PROVE Fits(i)'
  <2>1. pc'[i] = IF i = j THEN "release" ELSE pc[i]
        BY <1>1 DEF Goto, TypeOK
  <2>2. Kind(i) = "lock" => pc'[i] \notin Body
    <3>1. i # j => pc[i] \notin Body \/ Key(i) # Key(j)
          BY <1>1, InsideAlone DEF Body
    <3>2. i # j => pc[i] \notin Body \/ Kind(i) # "lock"
          BY <1>1, <3>1 DEF Key
    <3> QED BY <2>1, <3>2 DEF Body
  <2>3. Kind(i) = "pay" => pc'[i] \in {"idle", "done"}
        BY <1>1, <2>1, DOMAIN pods = {} DEF Fits, Target
  <2>4. Kind(i) = "execute" => pc'[i] = "idle"
        BY <1>1, <2>1 DEF Fits, Phase
  <2>5. Kind(i) = "create" => pc'[i] = "done"
        BY <1>1, <2>1 DEF Fits, Phase
  <2>6. Placed(i)' /\ Phase(i)'
        BY <1>1, <2>1 DEF Fits, Placed, Phase
  <2>7. Target(i)'
        BY <2>2, <2>3, <2>4 DEF Target, Body
  <2>8. Current(i)'
        BY <2>2, <2>3, <2>4, <2>5, <2>6, JobFacts DEF Placed, Current, Body
  <2> QED BY <2>6, <2>7, <2>8 DEF Fits
<1> QED BY <1>4, <1>5, <1>6, <1>7, <1>8, <1>9 DEF RowsFit

\* The execute job sets a pending pod running.
LEMMA MarkKeeps ==
  ASSUME DailyInv, NEW j \in Jobs, ExecuteMarksPod(j)
  PROVE  RowsTyped' /\ RowsFit' /\ \A i \in Jobs : Fits(i)'
<1> USE DEF DailyInv
<1> DEFINE p == CHOOSE q \in todo[j] : \A r \in todo[j] : q <= r
<1>1. /\ pc[j] = "mark" /\ Kind(j) = "execute" /\ clock = "execute"
      /\ todo[j] # {} /\ \A q \in todo[j] : q \in DOMAIN pods /\ pods[q].status = "pending"
      BY DEF ExecuteMarksPod, Fits, Placed, Phase, Current
<1>2. p \in todo[j]
      BY <1>1, MarksOne
<1>3. /\ pods' = [pods EXCEPT ![p].status = "running"]
      /\ todo' = [todo EXCEPT ![j] = todo[j] \ {p}]
      /\ pc' = [pc EXCEPT ![j] = IF todo[j] = {p} THEN "start" ELSE "mark"]
      /\ UNCHANGED <<clock, at, count, masters, paid>>
      BY DEF ExecuteMarksPod, Goto
<1> HIDE DEF p
<1>4. p \in DOMAIN pods /\ pods[p].status = "pending" /\ "running" \in PodStatuses
      BY <1>1, <1>2 DEF PodStatuses
<1>5. /\ pods' \in Seq(PodRows) /\ Len(pods') = Len(pods) /\ DOMAIN pods' = DOMAIN pods
      /\ \A i \in DOMAIN pods :
           /\ pods'[i].master = pods[i].master /\ pods'[i].players = pods[i].players
           /\ pods'[i].pool = pods[i].pool
           /\ pods'[i].status = IF i = p THEN "running" ELSE pods[i].status
      BY <1>3, <1>4, PodStatus
<1>6. pods # <<>> /\ pods' # <<>>
  <2>1. Len(pods) # 0 /\ Len(<<>>) = 0
        BY <1>4, RowTypes
  <2> QED BY <1>5, <2>1
<1>7. RowsTyped'
      BY <1>3, <1>5, RowTypes DEF RowsTyped
<1>8. OneMaster' /\ PodsAfterwards'
      BY <1>3, <1>5, <1>6 DEF RowsFit, OneMaster, PodsAfterwards
<1>9. Payouts'
      BY <1>3, <1>4, <1>5 DEF RowsFit, Payouts
<1>10. PodsSeatEntries'
       BY <1>3, <1>5, SeatsKept DEF RowsFit
<1>11. PoolGivenOnce'
       BY <1>3, <1>5, <1>6, SumsKept DEF RowsFit, PoolGivenOnce
<1>12. ASSUME NEW i \in Jobs PROVE Fits(i)'
  <2>1. Kind(i) \in {"create", "lock"} => pc[i] = "done"
        BY <1>1 DEF Fits, Phase
  <2>2. CASE i = j
    <3>1. pc'[i] \in {"mark", "start"} /\ todo'[i] = todo[j] \ {p}
          /\ (pc'[i] = "mark" => todo[j] # {p})
          BY <1>3, <2>2 DEF TypeOK
    <3>2. Placed(i)' /\ Phase(i)'
          BY <1>1, <1>3, <2>2, <3>1 DEF Placed, Phase
    <3>3. Target(i)'
          BY <1>1, <1>3, <1>5, <2>2, <3>1 DEF Fits, Target, Body
    <3>4. Current(i)'
          BY <1>1, <1>2, <1>5, <2>2, <3>1 DEF Current
    <3> QED BY <3>2, <3>3, <3>4 DEF Fits
  <2>3. CASE i # j
    <3>1. pc'[i] = pc[i] /\ todo'[i] = todo[i] /\ at'[i] = at[i]
          BY <1>3, <2>3 DEF TypeOK
    <3>2. pc[i] # "mark"
      <4>1. pc[i] \notin Body \/ Key(i) # Key(j)
            BY <1>1, <2>3, InsideAlone DEF Body
      <4> QED BY <1>1, <4>1 DEF Key, Body, Fits, Placed
    <3>3. Placed(i)' /\ Phase(i)'
          BY <1>3, <3>1 DEF Fits, Placed, Phase
    <3>4. Target(i)'
          BY <1>3, <1>5, <3>1 DEF Fits, Target
    <3>5. pc[i] = "pay" => at[i] \in DOMAIN pods /\ at[i] # p
          BY <1>4 DEF Fits, Placed, Target
    <3>6. Current(i)'
          BY <1>1, <1>5, <2>1, <3>1, <3>2, <3>5 DEF Fits, Placed, Current
    <3> QED BY <3>3, <3>4, <3>6 DEF Fits
  <2> QED BY <2>2, <2>3
<1> QED BY <1>7, <1>8, <1>9, <1>10, <1>11, <1>12 DEF RowsFit

\* A pod is paid for, once.
LEMMA PayKeeps ==
  ASSUME DailyInv, NEW j \in Jobs, PayPays(j)
  PROVE  RowsTyped' /\ RowsFit' /\ \A i \in Jobs : Fits(i)'
<1> USE DEF DailyInv
<1> DEFINE p == at[j]
<1>1. /\ pc[j] = "pay" /\ Kind(j) = "pay" /\ p \in DOMAIN pods /\ pods[p].status = "running"
      BY DEF PayPays, Fits, Placed, Target, Current
<1>2. /\ pods' = [pods EXCEPT ![p].status = "finished"]
      /\ paid' = [paid EXCEPT ![p] = paid[p] + pods[p].pool]
      /\ pc' = [pc EXCEPT ![j] = "release"]
      /\ UNCHANGED <<clock, at, count, todo, masters>>
      BY DEF PayPays, Goto
<1>3. /\ pods' \in Seq(PodRows) /\ Len(pods') = Len(pods) /\ DOMAIN pods' = DOMAIN pods
      /\ \A i \in DOMAIN pods :
           /\ pods'[i].master = pods[i].master /\ pods'[i].players = pods[i].players
           /\ pods'[i].pool = pods[i].pool
           /\ pods'[i].status = IF i = p THEN "finished" ELSE pods[i].status
      BY <1>1, <1>2, "finished" \in PodStatuses, PodStatus DEF PodStatuses
<1>4. pods # <<>> /\ pods' # <<>>
  <2>1. Len(pods) # 0 /\ Len(<<>>) = 0
        BY <1>1, RowTypes
  <2> QED BY <1>3, <2>1
<1>5. /\ DOMAIN paid = DOMAIN pods /\ paid[p] = 0 /\ \A q \in DOMAIN pods : pods[q].pool \in Nat
      BY <1>1, RowTypes DEF RowsFit, Payouts, PodRows
<1>6. /\ paid' \in Seq(Nat) /\ Len(paid') = Len(paid)
      /\ \A q \in DOMAIN pods : paid'[q] = IF q = p THEN pods[p].pool ELSE paid[q]
  <2>0. paid[p] + pods[p].pool = pods[p].pool
        BY <1>1, <1>5
  <2>1. paid' = [paid EXCEPT ![p] = pods[p].pool]
        BY <1>2, <2>0
  <2> QED BY <1>1, <1>5, <2>1, RowTypes, ReplaceElement
<1>7. RowsTyped'
      BY <1>2, <1>3, <1>6, RowTypes DEF RowsTyped
<1>8. OneMaster' /\ PodsAfterwards'
      BY <1>2, <1>3, <1>4 DEF RowsFit, OneMaster, PodsAfterwards
<1>9. Payouts'
      BY <1>3, <1>6 DEF RowsFit, Payouts
<1>10. PodsSeatEntries'
       BY <1>2, <1>3, SeatsKept DEF RowsFit
<1>11. PoolGivenOnce'
  <2>1. \A q \in DOMAIN pods' : paid'[q] <= pods'[q].pool
        BY <1>3, <1>5, <1>6 DEF RowsFit, PoolGivenOnce
  <2> QED BY <1>3, <1>4, <2>1, SumsKept DEF RowsFit, PoolGivenOnce
<1>12. ASSUME NEW i \in Jobs PROVE Fits(i)'
  <2>1. pc'[i] = IF i = j THEN "release" ELSE pc[i]
        BY <1>2 DEF TypeOK
  <2>2. Placed(i)' /\ Phase(i)'
        BY <1>1, <1>2, <2>1 DEF Fits, Placed, Phase
  <2>3. Target(i)'
        BY <1>1, <1>2, <1>3, <2>1 DEF Fits, Target, Body
  <2>4. i # j /\ pc[i] = "pay" => at[i] \in DOMAIN pods /\ at[i] # p
    <3>1. i # j /\ pc[i] = "pay" => Key(i) # Key(j)
          BY <1>1, InsideAlone DEF Body
    <3>2. pc[i] = "pay" => Kind(i) = "pay" /\ at[i] \in DOMAIN pods
          BY DEF Fits, Placed, Target
    <3> QED BY <1>1, <3>1, <3>2 DEF Key
  <2>5. Current(i)'
        BY <1>1, <1>2, <1>3, <1>4, <2>1, <2>4 DEF Fits, Current
  <2> QED BY <2>2, <2>3, <2>5 DEF Fits
<1> QED BY <1>7, <1>8, <1>9, <1>10, <1>11, <1>12 DEF RowsFit

-----------------------------------------------------------------------------
(* Steps that leave the rows alone *)

\* A job reads, or a query of it fails.
LEMMA ReadKeeps ==
  ASSUME DailyInv, NEW j \in Jobs,
         \/ CreateFinds(j) \/ LockFinds(j) \/ LockReadsEntries(j) \/ ExecuteFinds(j)
         \/ ExecuteReadsPods(j) \/ PayFinds(j) \/ Fails(j)
  PROVE  UNCHANGED <<clock, rows>> /\ \A i \in Jobs : Fits(i)'
<1> USE DEF DailyInv
<1>1. UNCHANGED <<clock, rows>>
      BY DEF CreateFinds, LockFinds, LockReadsEntries, ExecuteFinds, ExecuteReadsPods,
         PayFinds, Fails, Finds
<1>2. ASSUME NEW i \in Jobs, i # j PROVE Fits(i)'
  <2>1. pc'[i] = pc[i] /\ at'[i] = at[i] /\ count'[i] = count[i] /\ todo'[i] = todo[i]
        BY <1>2 DEF CreateFinds, LockFinds, LockReadsEntries, ExecuteFinds, ExecuteReadsPods,
           PayFinds, Fails, Finds, Goto, TypeOK
  <2> QED BY <1>1, <2>1, OthersFit
<1>3. Fits(j)'
  <2> USE DEF Goto, TypeOK, rows
  <2>1. CASE CreateFinds(j)
        BY <2>1 DEF CreateFinds, NoMasterYet, Fits, Placed, Phase, Target, Current
  <2>2. CASE LockFinds(j)
    <3>1. Placed(j)' /\ Phase(j)' /\ Target(j)'
          BY <2>2 DEF LockFinds, Finds, Fits, Placed, Phase, Target, Body
    <3>2. Current(j)'
          BY <2>2 DEF LockFinds, Finds, Current
    <3> QED BY <3>1, <3>2 DEF Fits
  <2>3. CASE LockReadsEntries(j)
    <3>1. at[j] \in DOMAIN masters /\ masters[at[j]].status = "registering"
          /\ Kind(j) = "lock" /\ pc[j] = "entries"
          BY <2>3 DEF LockReadsEntries, Fits, Placed, Target, Current, Body
    <3>2. masters[at[j]].entries \in Nat
          BY <3>1, RowTypes, DailyAssumption DEF MasterRows
    <3>3. Placed(j)' /\ Phase(j)' /\ Target(j)'
          BY <2>3, <3>1 DEF LockReadsEntries, Fits, Placed, Phase, Target, Body
    <3>4. Current(j)'
          BY SMTT(60), <2>3, <3>1, <3>2, DailyAssumption DEF LockReadsEntries, Current
    <3> QED BY <3>3, <3>4 DEF Fits
  <2>4. CASE ExecuteFinds(j)
    <3>1. Placed(j)' /\ Phase(j)' /\ Target(j)'
          BY <2>4 DEF ExecuteFinds, Finds, Fits, Placed, Phase, Target, Body
    <3>2. Current(j)'
          BY <2>4 DEF ExecuteFinds, Finds, Current
    <3> QED BY <3>1, <3>2 DEF Fits
  <2>5. CASE ExecuteReadsPods(j)
    <3>1. Placed(j)' /\ Phase(j)' /\ Target(j)'
          BY <2>5 DEF ExecuteReadsPods, Fits, Placed, Phase, Target, Body
    <3>2. Current(j)'
          BY <2>5 DEF ExecuteReadsPods, Current, Pending
    <3> QED BY <3>1, <3>2 DEF Fits
  <2>6. CASE PayFinds(j)
    <3>1. Kind(j) = "pay" /\ pc[j] = "find"
          /\ at[j] \in DOMAIN pods /\ pods[at[j]].status # "pending"
          BY <2>6 DEF PayFinds, Fits, Target
    <3>2. pods[at[j]].status \in PodStatuses
          BY <3>1, RowTypes DEF PodRows
    <3>3. Placed(j)' /\ Phase(j)' /\ Target(j)'
          BY <2>6, <3>1 DEF PayFinds, Fits, Placed, Phase, Target, Body
    <3>4. Current(j)'
          BY <2>6, <3>1, <3>2 DEF PayFinds, Unpaid, Current, PodStatuses
    <3> QED BY <3>3, <3>4 DEF Fits
  <2>7. CASE Fails(j)
    <3>1. pc[j] # "idle" /\ pc[j] # "done" /\ pc'[j] = "release"
          BY <2>7 DEF Fails, Body
    <3> QED BY <2>7, <3>1 DEF Fails, Fits, Placed, Phase, Target, Current, Body
  <2> QED BY <2>1, <2>2, <2>3, <2>4, <2>5, <2>6, <2>7
<1> QED BY <1>1, <1>2, <1>3

\* Jobs end: they are done, or skipped, or their server crashes.
LEMMA EndsKeeps ==
  ASSUME DailyInv, NEW js, Ends(js), UNCHANGED <<clock, rows>>,
         \A j \in js : j \in Jobs => pc[j] # "idle"
  PROVE  \A i \in Jobs : Fits(i)'
<1> SUFFICES ASSUME NEW i \in Jobs PROVE Fits(i)'
    OBVIOUS
<1> USE DEF DailyInv
<1>1. CASE i \in js
  <2>1. pc'[i] = "done" /\ pc[i] # "idle"
        BY <1>1 DEF Ends
  <2> QED BY <2>1 DEF Fits, Placed, Phase, Target, Current, Body
<1>2. CASE i \notin js
      BY <1>2, OthersFit DEF Ends
<1> QED BY <1>1, <1>2

\* Cron, events and locks.
LEMMA LockingKeeps ==
  ASSUME DailyInv,
         \/ \E j \in Jobs : Fire(j) \/ Locking(j)
         \/ \E j \in Jobs, p \in DOMAIN pods : Deliver(j, p)
         \/ \E k \in Keys : Expire(k)
         \/ \E s \in Servers : Crash(s)
  PROVE  UNCHANGED <<clock, rows>> /\ \A i \in Jobs : Fits(i)'
<1> USE DEF DailyInv
<1>1. ASSUME NEW j \in Jobs, Fire(j)
      PROVE  UNCHANGED <<clock, rows>> /\ \A i \in Jobs : Fits(i)'
  <2>1. Kind(j) = clock /\ pc' = [pc EXCEPT ![j] = "due"] /\ pc[j] = "idle"
        /\ UNCHANGED <<clock, rows, at, count, todo>> /\ clock \in Crons
        BY <1>1 DEF Fire, Goto, TypeOK
  <2>2. Fits(j)'
        BY <2>1 DEF TypeOK, Crons, Fits, Placed, Phase, Target, Current, Body
  <2>3. \A i \in Jobs : i # j => Fits(i)'
        BY <2>1, OthersFit DEF TypeOK
  <2> QED BY <2>1, <2>2, <2>3
<1>2. ASSUME NEW j \in Jobs, Acquire(j)
      PROVE  UNCHANGED <<clock, rows>> /\ \A i \in Jobs : Fits(i)'
  <2>1. pc' = [pc EXCEPT ![j] = "find"] /\ pc[j] = "due"
        /\ UNCHANGED <<clock, rows, at, count, todo>>
        BY <1>2 DEF Acquire, Goto
  <2>2. Fits(j)'
        BY <2>1 DEF TypeOK, Fits, Placed, Phase, Target, Current, Body, rows
  <2>3. \A i \in Jobs : i # j => Fits(i)'
        BY <2>1, OthersFit DEF TypeOK
  <2> QED BY <2>1, <2>2, <2>3
<1>3. ASSUME NEW j \in Jobs, Skip(j) \/ Release(j) \/ ReleaseFails(j)
      PROVE  UNCHANGED <<clock, rows>> /\ \A i \in Jobs : Fits(i)'
      BY <1>3, EndsKeeps DEF Skip, Release, ReleaseFails
<1>4. ASSUME NEW j \in Jobs, NEW p \in DOMAIN pods, Deliver(j, p)
      PROVE  UNCHANGED <<clock, rows>> /\ \A i \in Jobs : Fits(i)'
  <2>1. /\ Kind(j) = "pay" /\ pods[p].status # "pending"
        /\ pc' = [pc EXCEPT ![j] = "due"] /\ at' = [at EXCEPT ![j] = p]
        /\ UNCHANGED <<clock, rows, count, todo>>
        BY <1>4 DEF Deliver, Goto
  <2>2. Fits(j)'
        BY <2>1 DEF TypeOK, Fits, Placed, Phase, Target, Current, Body, rows
  <2>3. \A i \in Jobs : i # j => Fits(i)'
        BY <2>1, OthersFit DEF TypeOK
  <2> QED BY <2>1, <2>2, <2>3
<1>5. ASSUME NEW k \in Keys, Expire(k)
      PROVE  UNCHANGED <<clock, rows>> /\ \A i \in Jobs : Fits(i)'
      BY <1>5, OthersFit DEF Expire, jobVars
<1>6. ASSUME NEW s \in Servers, Crash(s)
      PROVE  UNCHANGED <<clock, rows>> /\ \A i \in Jobs : Fits(i)'
      BY <1>6, EndsKeeps DEF Crash
<1> QED BY <1>1, <1>2, <1>3, <1>4, <1>5, <1>6 DEF Locking

\* The next time comes once the jobs of this one are over.
LEMMA TimeKeeps ==
  ASSUME DailyInv, Slow = FALSE, TimePasses
  PROVE  UNCHANGED rows /\ \A i \in Jobs : Fits(i)'
<1> USE DEF DailyInv
<1>1. /\ UNCHANGED rows /\ clock # "execute"
      /\ clock' = IF clock = "create" THEN "lock" ELSE "execute"
      /\ \A j \in Jobs : pc[j] \in {"idle", "done"}
      /\ \A j \in Jobs : pc'[j] = IF Kind(j) = clock /\ pc[j] = "idle" THEN "done" ELSE pc[j]
      BY DEF TimePasses, Ends
<1>2. ASSUME NEW i \in Jobs PROVE Fits(i)'
  <2>1. pc'[i] \in {"idle", "done"} /\ (Kind(i) = clock => pc'[i] = "done")
        /\ (pc[i] = "done" => pc'[i] = "done")
        /\ (Kind(i) # clock => pc'[i] = pc[i])
        BY <1>1
  <2>2. Phase(i)'
        BY <1>1, <2>1 DEF Fits, Phase, TypeOK, Crons
  <2>3. Placed(i)' /\ Target(i)' /\ Current(i)'
        BY <2>1 DEF Placed, Target, Current, Body
  <2> QED BY <2>2, <2>3 DEF Fits
<1> QED BY <1>1, <1>2

-----------------------------------------------------------------------------
(* The invariant *)

\* Rows that no step wrote are as good as they were.
LEMMA RowsUntouched ==
  ASSUME DailyInv, UNCHANGED rows
  PROVE  RowsTyped' /\ RowsFit'
BY RowTypes DEF DailyInv, rows, RowsTyped, RowsFit, OneMaster, PodsAfterwards, Payouts,
   PodsSeatEntries, PoolGivenOnce

\* The types of what is not a row.
LEMMA OtherTypes ==
  ASSUME DailyInv, Next
  PROVE  /\ clock' \in Crons
         /\ pc' \in [Jobs -> Labels] /\ at' \in [Jobs -> Nat]
         /\ count' \in [Jobs -> Nat] /\ todo' \in [Jobs -> SUBSET Nat]
         /\ owner' \in [Keys -> Jobs \union {Free}]
         /\ crashes' \in Nat /\ deliveries' \in Nat
<1> DEFINE Locals == /\ pc' \in [Jobs -> Labels] /\ at' \in [Jobs -> Nat]
                     /\ count' \in [Jobs -> Nat] /\ todo' \in [Jobs -> SUBSET Nat]
           Others == /\ clock' \in Crons /\ owner' \in [Keys -> Jobs \union {Free}]
                     /\ crashes' \in Nat /\ deliveries' \in Nat
<1>0. /\ clock \in Crons
      /\ pc \in [Jobs -> Labels] /\ at \in [Jobs -> Nat]
      /\ count \in [Jobs -> Nat] /\ todo \in [Jobs -> SUBSET Nat]
      /\ owner \in [Keys -> Jobs \union {Free}]
      /\ crashes \in Nat /\ deliveries \in Nat
      BY DEF DailyInv, TypeOK
<1>e. ASSUME NEW js, Ends(js) PROVE Locals
  <2>1. \A j \in Jobs : /\ pc[j] \in Labels /\ at[j] \in Nat
                        /\ count[j] \in Nat /\ todo[j] \in SUBSET Nat
        BY <1>0
  <2> QED BY <1>e, <2>1 DEF Ends, Labels
<1>1. ASSUME TimePasses PROVE Locals /\ Others
      BY <1>0, <1>1, <1>e DEF TimePasses, bounds, Crons
<1>2. ASSUME NEW j \in Jobs, Working(j) \/ Fails(j) PROVE Locals /\ Others
  <2>1. Locals
        BY <1>2, LocalTypes
  <2>2. UNCHANGED <<clock, owner, crashes, deliveries>>
        BY <1>2 DEF Working, Fails, CreateFinds, CreateInserts, LockFinds, LockReadsEntries,
           LockSetsStatus, LockInsertsPods, ExecuteFinds, ExecuteReadsPods, ExecuteMarksPod,
           ExecuteStarts, PayFinds, PayPays, Finds, bounds
  <2> QED BY <1>0, <2>1, <2>2
<1>3. ASSUME NEW j \in Jobs, Fire(j) PROVE Locals /\ Others
      BY <1>0, <1>3 DEF Fire, Goto, Labels, bounds
<1>4. ASSUME NEW j \in Jobs, Acquire(j) PROVE Locals /\ Others
      BY <1>0, <1>4 DEF Acquire, Goto, Labels, Body, bounds
<1>5. ASSUME NEW j \in Jobs, Skip(j) \/ ReleaseFails(j) PROVE Locals /\ Others
      BY <1>0, <1>5, <1>e DEF Skip, ReleaseFails, bounds
<1>6. ASSUME NEW j \in Jobs, Release(j) PROVE Locals /\ Others
  <2>1. Freed(Key(j), j) \in Jobs \union {Free} \/ Key(j) \notin Keys
        BY <1>0 DEF Freed
  <2>2. owner' \in [Keys -> Jobs \union {Free}]
        BY <1>0, <1>6, <2>1 DEF Release
  <2> QED BY <1>0, <1>6, <1>e, <2>2 DEF Release, bounds
<1>7. ASSUME NEW k \in Keys, Expire(k) PROVE Locals /\ Others
      BY <1>0, <1>7 DEF Expire, jobVars, bounds
<1>8. ASSUME NEW s \in Servers, Crash(s) PROVE Locals /\ Others
      BY <1>0, <1>8, <1>e DEF Crash
<1>9. ASSUME NEW j \in Jobs, NEW p \in DOMAIN pods, Deliver(j, p) PROVE Locals /\ Others
  <2>1. p \in Nat
        BY RowTypes DEF DailyInv
  <2> QED BY <1>0, <1>9, <2>1 DEF Deliver, Goto, Labels
<1>10. ASSUME NEW m \in DOMAIN masters, SchedulerStarts(m) \/ Register(m)
       PROVE  Locals /\ Others
       BY <1>0, <1>10 DEF SchedulerStarts, Register, jobVars, bounds
<1> HIDE DEF Locals, Others
<1> Locals /\ Others
    BY <1>1, <1>2, <1>3, <1>4, <1>5, <1>6, <1>7, <1>8, <1>9, <1>10 DEF Next, Locking
<1> QED BY DEF Locals, Others

\* At the start nothing runs, no lock is taken, and there is no row.
LEMMA InitFits ==
  ASSUME Init
  PROVE  DailyInv
<1> USE DEF Init
<1>1. TypeOK
      BY DailyAssumption DEF TypeOK, Crons, Labels, Free
<1>2. Holding /\ \A j \in Jobs : Fits(j)
      BY DEF Holding, Fits, Placed, Phase, Target, Current, Body
<1>3. DOMAIN masters = {} /\ DOMAIN pods = {} /\ Len(pods) = 0 /\ Len(masters) = 0
      /\ Len(paid) = 0
      OBVIOUS
<1>4. RowsFit
      BY <1>3, DailyAssumption DEF RowsFit, OneMaster, PodsAfterwards, Payouts,
         PodsSeatEntries, PoolGivenOnce
<1> QED BY <1>1, <1>2, <1>4 DEF DailyInv

\* Every step keeps the invariant.
LEMMA NextKeeps ==
  ASSUME DailyInv, Slow = FALSE, Next
  PROVE  DailyInv'
<1> DEFINE Kept == RowsTyped' /\ RowsFit' /\ \A i \in Jobs : Fits(i)'
<1>1. ASSUME TimePasses PROVE Kept
      BY <1>1, TimeKeeps, RowsUntouched
<1>2. ASSUME NEW j \in Jobs, Working(j) \/ Fails(j) PROVE Kept
  <2>1. CASE CreateInserts(j)
        BY <2>1, CreateKeeps
  <2>2. CASE LockSetsStatus(j)
        BY <2>2, LockKeeps
  <2>3. CASE LockInsertsPods(j)
        BY <2>3, InsertKeeps
  <2>4. CASE ExecuteMarksPod(j)
        BY <2>4, MarkKeeps
  <2>5. CASE ExecuteStarts(j)
        BY <2>5, StartKeeps
  <2>6. CASE PayPays(j)
        BY <2>6, PayKeeps
  <2>7. CASE \/ CreateFinds(j) \/ LockFinds(j) \/ LockReadsEntries(j) \/ ExecuteFinds(j)
             \/ ExecuteReadsPods(j) \/ PayFinds(j) \/ Fails(j)
        BY <2>7, ReadKeeps, RowsUntouched
  <2> QED BY <1>2, <2>1, <2>2, <2>3, <2>4, <2>5, <2>6, <2>7 DEF Working
<1>3. ASSUME \/ \E j \in Jobs : Fire(j) \/ Locking(j)
             \/ \E j \in Jobs, p \in DOMAIN pods : Deliver(j, p)
             \/ \E k \in Keys : Expire(k)
             \/ \E s \in Servers : Crash(s)
      PROVE  Kept
      BY <1>3, LockingKeeps, RowsUntouched
<1>4. ASSUME NEW m \in DOMAIN masters, SchedulerStarts(m) PROVE Kept
      BY <1>4, SchedulerKeeps
<1>5. ASSUME NEW m \in DOMAIN masters, Register(m) PROVE Kept
      BY <1>5, RegisterKeeps
<1> HIDE DEF Kept
<1>6. Kept
      BY <1>1, <1>2, <1>3, <1>4, <1>5 DEF Next
<1>7. TypeOK'
      BY <1>6, OtherTypes
      DEF Kept, RowsTyped, TypeOK, MasterRows, PodRows, Statuses, PodStatuses
<1>8. Holding'
      BY HoldingKept
<1> QED BY <1>6, <1>7, <1>8 DEF Kept, DailyInv

\* Stuttering keeps it too.
LEMMA StutterKeeps ==
  ASSUME DailyInv, UNCHANGED vars
  PROVE  DailyInv'
<1> USE DEF vars, jobVars, rows, bounds, DailyInv
<1>1. TypeOK' /\ Holding'
      BY DEF TypeOK, Holding, Key
<1>2. \A j \in Jobs : Fits(j)'
      BY DEF Fits, Placed, Phase, Target, Current
<1>3. RowsFit'
      BY RowsUntouched
<1> QED BY <1>1, <1>2, <1>3

-----------------------------------------------------------------------------
(* What the day promises *)

\* Two servers never do the same job, or pay the same pod, at the same time, whatever
\* crashes, fails or expires, as long as no job outlives its lock (LockService,
\* withLock).
THEOREM DailyJobsExclude ==
  ASSUME Slow = FALSE
  PROVE  Spec => []JobsExclude
<1>1. DailyInv => JobsExclude
      BY InsideAlone DEF DailyInv, JobsExclude
<1>2. DailyInv /\ [Next]_vars => DailyInv'
      BY NextKeeps, StutterKeeps
<1> QED BY <1>1, <1>2, InitFits, PTL DEF Spec

\* A day has one master, whichever servers fire the job and whenever their locks
\* are released (doCreateDailyMasterTournament).
THEOREM OneMasterADay ==
  ASSUME Slow = FALSE
  PROVE  Spec => []OneMaster
<1>1. DailyInv => OneMaster
      BY DEF DailyInv, RowsFit
<1>2. DailyInv /\ [Next]_vars => DailyInv'
      BY NextKeeps, StutterKeeps
<1> QED BY <1>1, <1>2, InitFits, PTL DEF Spec

\* The pods of a day, at least two players to each, seat no more players than its
\* master has entries, for every number of players and every size of a pod
\* (doLockAndCreatePods, calculatePodSplit).
THEOREM MasterSeatsItsEntries ==
  ASSUME Slow = FALSE
  PROVE  Spec => []PodsSeatEntries
<1>1. DailyInv => PodsSeatEntries
      BY DEF DailyInv, RowsFit
<1>2. DailyInv /\ [Next]_vars => DailyInv'
      BY NextKeeps, StutterKeeps
<1> QED BY <1>1, <1>2, InitFits, PTL DEF Spec

\* The pods share the daily pool exactly, and none pays out more than its share,
\* however often its end is reported (doLockAndCreatePods, handlePodFinished).
THEOREM DailyPoolGivenOnce ==
  ASSUME Slow = FALSE
  PROVE  Spec => []PoolGivenOnce
<1>1. DailyInv => PoolGivenOnce
      BY DEF DailyInv, RowsFit
<1>2. DailyInv /\ [Next]_vars => DailyInv'
      BY NextKeeps, StutterKeeps
<1> QED BY <1>1, <1>2, InitFits, PTL DEF Spec

=============================================================================
