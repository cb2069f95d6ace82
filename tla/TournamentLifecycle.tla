------------------------- MODULE TournamentLifecycle -------------------------
(***************************************************************************)
(* A scheduled tournament from its registration to its end:                 *)
(* tournaments.service.ts, bot-auto-registration.service.ts and class        *)
(* TournamentDirectorService of tournament-director.service.ts.              *)
(*                                                                         *)
(* Requests, the scheduler and the recovery after a restart read the         *)
(* database, await, and write what they concluded. An action runs one of     *)
(* them from one await to the next. Requests of different classes always     *)
(* overlap; of entries and of starts, Parallel may. The scheduled time has   *)
(* come: what happens before it is a part of what may happen now.            *)
(***************************************************************************)
EXTENDS Integers, Sequences, FiniteSets, Functions

CONSTANTS Bots,
          System,      \* those that are system bots
          Owner,       \* bot.user_id
          MinPlayers,  \* tournament.min_players
          MaxPlayers,  \* tournament.max_players
          Parallel,    \* how many requests of one class may be under way
          NoBot

\* Bounds on the requests of users and administrators, and on the restarts.
CONSTANTS MaxRequests, MaxRestarts

ASSUME LifecycleAssumption ==
  /\ IsFiniteSet(Bots) /\ System \subseteq Bots /\ NoBot \notin Bots
  /\ DOMAIN Owner = Bots
  /\ MinPlayers \in Nat \ {0, 1} /\ MaxPlayers \in Nat /\ MinPlayers <= MaxPlayers
  /\ Parallel \in Nat \ {0} /\ MaxRequests \in Nat /\ MaxRestarts \in Nat

VARIABLES
  status,     \* tournament.status
  entries,    \* how many rows of tournament_entries each bot has
  req,        \* the requests under way
  directors,  \* the ActiveTournament objects of this process: their phases
  mapped,     \* the one that activeDirectors has (0: none)
  requests, restarts

lifecycleVars == <<status, entries, req, directors, mapped, requests, restarts>>

\* The checks of each request, one set for each of its reads.
Reads == [register   |-> <<{"open"}, {"room", "absent", "owner"}>>,
          admin      |-> <<{"open"}, {"room", "absent"}>>,
          auto       |-> <<{"absent"}, {"open"}, {"room"}, {"owner"}>>,
          unregister |-> <<{"open"}, {"present"}>>,
          remove     |-> <<{"open"}>>,
          inject     |-> <<{"open"}>>]

Adds    == {"register", "admin", "auto"}
Removes == {"unregister", "remove"}
Slots   == ({"entry", "starter"} \X (1 .. Parallel)) \union {<<"cancel", 1>>, <<"boot", 1>>}
Idle    == [op |-> "none", pc |-> "off", read |-> 0, bot |-> NoBot, left |-> 0, fresh |-> {}]

EntryCount == SumFunction(entries)

LifecycleInit ==
  /\ status = "registering" /\ entries = [b \in Bots |-> 0]
  /\ req = [s \in Slots |-> Idle] /\ directors = <<>> /\ mapped = 0
  /\ requests = 0 /\ restarts = 0

At(s, label)   == req[s].pc = label
Goto(s, label) == req' = [req EXCEPT ![s].pc = label]
Ends(s)        == req' = [req EXCEPT ![s] = Idle]

-----------------------------------------------------------------------------
(* register, adminRegisterBot, tryRegisterBot, unregister, leaveAsUser,        *)
(* removeEntry: the checks, each on what was read last, and then the write      *)

\* removeEntry is given the id of an entry.
Ask(s, op, b) ==
  /\ s[1] = "entry" /\ req[s] = Idle
  /\ requests < MaxRequests /\ requests' = requests + 1
  /\ op = "remove" => entries[b] > 0
  /\ req' = [req EXCEPT ![s] = [Idle EXCEPT !.op = op, !.pc = "read", !.read = 1, !.bot = b]]
  /\ UNCHANGED <<status, entries, directors, mapped, restarts>>

SlotsLeft_OneMore == MaxPlayers + 1 - EntryCount   \* mutant
SlotsLeft == MaxPlayers - EntryCount

Passes(check, b) ==
  CASE check = "open"    -> status = "registering"
    [] check = "room"    -> SlotsLeft > 0
    [] check = "absent"  -> entries[b] = 0
    [] check = "present" -> entries[b] > 0
    [] check = "owner"   -> \A c \in Bots : Owner[c] = Owner[b] => entries[c] = 0

Checks(s) ==
  /\ req[s].op \in Adds \union Removes /\ At(s, "read")
  /\ LET r == req[s]
     IN  IF \E check \in Reads[r.op][r.read] : ~Passes(check, r.bot) THEN Ends(s)
         ELSE req' = [req EXCEPT ![s].read = @ + 1,
                                 ![s].pc = IF r.read < Len(Reads[r.op]) THEN "read" ELSE "write"]
  /\ UNCHANGED <<status, entries, directors, mapped, requests, restarts>>

Deleted(n, d) == IF n > 0 THEN n - d ELSE 0

\* createEntry, or deleteEntry of the row found (d = 0: an overlapping request did).
Writes(s) ==
  /\ At(s, "write")
  /\ \E d \in IF Parallel = 1 THEN {1} ELSE {0, 1} :
       entries' = [entries EXCEPT ![req[s].bot] =
                     IF req[s].op \in Adds THEN @ + 1 ELSE Deleted(@, d)]
  /\ Ends(s)
  /\ UNCHANGED <<status, directors, mapped, requests, restarts>>

\* injectSystemBots: once the status was read, the slots that are free, or fewer, are
\* filled, first with system bots that have no entry, then with any, again.
InjectChecks(s) ==
  /\ req[s].op = "inject" /\ At(s, "read")
  /\ IF status = "registering" THEN Goto(s, "slots") ELSE Ends(s)
  /\ UNCHANGED <<status, entries, directors, mapped, requests, restarts>>

InjectCounts(s) ==
  /\ At(s, "slots")
  /\ \/ SlotsLeft <= 0 /\ Ends(s)
     \/ \E n \in 1 .. SlotsLeft :
          req' = [req EXCEPT ![s].pc = "fill", ![s].left = n,
                             ![s].fresh = {b \in System : entries[b] = 0}]
  /\ UNCHANGED <<status, entries, directors, mapped, requests, restarts>>

InjectFills(s) ==
  /\ At(s, "fill")
  /\ LET pool == IF req[s].fresh = {} THEN System ELSE req[s].fresh
     IN  IF pool = {} \/ req[s].left = 0 THEN Ends(s) /\ UNCHANGED entries
         ELSE \E b \in pool :
                /\ entries' = [entries EXCEPT ![b] = @ + 1]
                /\ req' = [req EXCEPT ![s].left = @ - 1, ![s].fresh = @ \ {b}]
  /\ UNCHANGED <<status, directors, mapped, requests, restarts>>

-----------------------------------------------------------------------------
(* cancel and resetDevState: only the row is written *)

CancelAsked(s) ==
  /\ s[1] = "cancel" /\ req[s] = Idle
  /\ requests < MaxRequests /\ requests' = requests + 1
  /\ status \notin {"finished", "cancelled"}
  /\ req' = [req EXCEPT ![s] = [Idle EXCEPT !.op = "cancel", !.pc = "cancel"]]
  /\ UNCHANGED <<status, entries, directors, mapped, restarts>>

CancelWrites(s) ==
  /\ At(s, "cancel")
  /\ status' = "cancelled" /\ Ends(s)
  /\ UNCHANGED <<entries, directors, mapped, requests, restarts>>

ResetDevState ==
  /\ requests < MaxRequests /\ requests' = requests + 1
  /\ status = "registering" /\ status' = "cancelled"
  /\ UNCHANGED <<entries, req, directors, mapped, restarts>>

-----------------------------------------------------------------------------
(* checkScheduledTournaments and startTournament *)

NoDirector == mapped = 0

\* The cron job reads the registering tournaments; the controller calls
\* startTournament at once.
Sweep(s) ==
  /\ s[1] = "starter" /\ req[s] = Idle
  /\ status = "registering" /\ NoDirector
  /\ req' = [req EXCEPT ![s] = [Idle EXCEPT !.op = "sweep", !.pc = "list"]]
  /\ UNCHANGED <<status, entries, directors, mapped, requests, restarts>>

StartAsked(s) ==
  /\ s[1] = "starter" /\ req[s] = Idle
  /\ requests < MaxRequests /\ requests' = requests + 1
  /\ NoDirector
  /\ req' = [req EXCEPT ![s] = [Idle EXCEPT !.op = "start", !.pc = "row"]]
  /\ UNCHANGED <<status, entries, directors, mapped, restarts>>

WhenTooFew_Waits == "end"   \* mutant: left for the next sweep
WhenTooFew == "undo"

SweepCounts(s) ==
  /\ At(s, "list")
  /\ Goto(s, IF EntryCount < MinPlayers THEN WhenTooFew ELSE IF NoDirector THEN "row" ELSE "end")
  /\ UNCHANGED <<status, entries, directors, mapped, requests, restarts>>

StartReadsRow(s) ==
  /\ At(s, "row")
  /\ Goto(s, IF status = "registering" THEN "entries" ELSE "end")
  /\ UNCHANGED <<status, entries, directors, mapped, requests, restarts>>

StartReadsEntries(s) ==
  /\ At(s, "entries")
  /\ Goto(s, IF EntryCount < 2 THEN "end" ELSE "run")
  /\ UNCHANGED <<status, entries, directors, mapped, requests, restarts>>

\* The row says running, whatever it said; then the director is mapped and starts.
StartMarks(s) ==
  /\ At(s, "run")
  /\ status' = "running" /\ Goto(s, "map")
  /\ UNCHANGED <<entries, directors, mapped, requests, restarts>>

StartMaps(s) ==
  /\ At(s, "map")
  /\ directors' = Append(directors, "starting") /\ mapped' = Len(directors')
  /\ req' = [req EXCEPT ![s].pc = "launch", ![s].left = Len(directors')]
  /\ UNCHANGED <<status, entries, requests, restarts>>

\* director.start resolves, or fails.
StartLaunches(s) ==
  /\ At(s, "launch")
  /\ directors' = [directors EXCEPT ![req[s].left] = "playing"]
  /\ Ends(s)
  /\ UNCHANGED <<status, entries, mapped, requests, restarts>>

StartFails(s) ==
  /\ At(s, "launch")
  /\ directors' = [directors EXCEPT ![req[s].left] = "over"]
  /\ mapped' = 0 /\ Goto(s, "undo")
  /\ UNCHANGED <<status, entries, requests, restarts>>

\* Too few players, or the start failed: cancelled.
StartUndone(s) ==
  /\ At(s, "undo")
  /\ status' = "cancelled" /\ Ends(s)
  /\ UNCHANGED <<entries, directors, mapped, requests, restarts>>

StartEnds(s) ==
  /\ At(s, "end") /\ Ends(s)
  /\ UNCHANGED <<status, entries, directors, mapped, requests, restarts>>

-----------------------------------------------------------------------------
(* ActiveTournament, seen from outside *)

\* finishTournament: the director stays in activeDirectors.
DirectorFinishes(d) ==
  /\ directors[d] = "playing"
  /\ directors' = [directors EXCEPT ![d] = "over"] /\ status' = "finished"
  /\ UNCHANGED <<entries, req, mapped, requests, restarts>>

\* handleTournamentError
DirectorErrs(d) ==
  /\ directors[d] = "playing"
  /\ directors' = [directors EXCEPT ![d] = "over"] /\ status' = "error"
  /\ mapped' = 0
  /\ UNCHANGED <<entries, req, requests, restarts>>

\* The process ends; onModuleInit of the next one looks for running tournaments.
AtBoot_NoRecovery == "off"   \* mutant: they are not looked for
AtBoot == "find"

Restart ==
  /\ restarts < MaxRestarts /\ restarts' = restarts + 1
  /\ req' = [s \in Slots |-> IF s = <<"boot", 1>> THEN [Idle EXCEPT !.pc = AtBoot] ELSE Idle]
  /\ directors' = <<>> /\ mapped' = 0
  /\ UNCHANGED <<status, entries, requests>>

\* recoverRunningTournaments: recoverFromDb, whatever tables and seats were stored.
RecoverFinds(s) ==
  /\ At(s, "find")
  /\ IF status = "running" /\ NoDirector THEN Goto(s, "recover") ELSE Ends(s)
  /\ UNCHANGED <<status, entries, directors, mapped, requests, restarts>>

Recovers(s) ==
  /\ At(s, "recover")
  /\ directors' = Append(directors, "playing") /\ mapped' = Len(directors')
  /\ Ends(s)
  /\ UNCHANGED <<status, entries, requests, restarts>>

-----------------------------------------------------------------------------
EntryStep(s)   == Checks(s) \/ Writes(s) \/ InjectChecks(s) \/ InjectCounts(s) \/ InjectFills(s)
StarterStep(s) == Sweep(s) \/ SweepCounts(s) \/ StartReadsRow(s) \/ StartReadsEntries(s)
                    \/ StartMarks(s) \/ StartMaps(s) \/ StartLaunches(s) \/ StartFails(s) \/ StartUndone(s)
                    \/ StartEnds(s) \/ RecoverFinds(s) \/ Recovers(s)
Ending(d)      == DirectorFinishes(d) \/ DirectorErrs(d)

LifecycleNext ==
  \/ \E s \in Slots, b \in Bots, op \in DOMAIN Reads : Ask(s, op, b)
  \/ \E s \in Slots : EntryStep(s) \/ StarterStep(s) \/ CancelAsked(s) \/ CancelWrites(s)
                        \/ StartAsked(s)
  \/ \E d \in DOMAIN directors : Ending(d)
  \/ ResetDevState \/ Restart

LifecycleSpec == LifecycleInit /\ [][LifecycleNext]_lifecycleVars

\* The cron job fires, replies arrive, and a tournament that is played ends.
LifecycleFairness == /\ \A s \in Slots : WF_lifecycleVars(StarterStep(s))
            /\ WF_lifecycleVars(\E d \in DOMAIN directors : Ending(d))
LifecycleFairSpec == LifecycleSpec /\ LifecycleFairness
-----------------------------------------------------------------------------
(* Properties *)

Labels == {"off", "read", "write", "slots", "fill", "list", "row", "entries", "run", "map",
           "launch", "undo", "end", "find", "recover", "cancel"}

Ops == DOMAIN Reads \union {"none", "cancel", "sweep", "start"}

\* The type of every variable; the row has a status of TournamentStatus.
LifecycleTypeOK ==
  /\ status \in {"registering", "running", "finished", "cancelled", "error"}
  /\ entries \in [Bots -> Nat]
  /\ req \in [Slots -> [op : Ops, pc : Labels, read : Nat, bot : Bots \union {NoBot},
                       left : Nat, fresh : SUBSET Bots]]
  /\ directors \in Seq({"starting", "playing", "over"})
  /\ mapped \in 0 .. Len(directors)
  /\ requests \in Nat /\ restarts \in Nat

\* Each request counts the entries before it writes, so requests that overlap take a
\* tournament over max_players: at most as often as there are requests under way, and
\* never when they come one at a time.
CapacityKept == EntryCount <= Parallel * MaxPlayers

\* A tournament whose row says running is played, or is being started or recovered: no
\* crash, failing start or overlapping request leaves it running with nobody to play it.
RunningIsPlayed ==
  status = "running" =>
    \/ \E d \in DOMAIN directors : directors[d] # "over"
    \/ \E s \in Slots : req[s].pc \in {"map", "launch", "undo", "find", "recover"}

\* At its time a tournament starts or is cancelled, whoever registers, leaves and
\* restarts the server meanwhile.
DueTournamentStarts == status = "registering" ~> status # "registering"
=============================================================================
