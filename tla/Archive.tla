------------------------------ MODULE Archive ------------------------------
(* ArchiveService: the hands of an old tournament move from the database to   *)
(* an object store, while an administrator reads them. The cron job of every  *)
(* server runs under a lock whose time to live it never extends, so two jobs  *)
(* may be at work, and a server may die between any two of their steps.       *)
(*                                                                            *)
(* One tournament is modelled: finished, old enough, its hands audited.       *)
EXTENDS Naturals, FiniteSets

CONSTANTS
  NumHands,     \* the hands are 1 .. NumHands
  Number,       \* Number[h] is the hand_number of h, which counts per table
  Servers,
  PageSize,     \* SERIALIZATION_PAGE_SIZE
  BatchSize,    \* deleteBatchSize
  MaxFaults,    \* bound: crashes and failing steps
  None

ASSUME SizesAssumption ==
  NumHands \in Nat /\ PageSize \in Nat \ {0} /\ BatchSize \in Nat \ {0}
ASSUME NumberAssumption == Number \in [1 .. NumHands -> Nat]
ASSUME NoneAssumption == None \notin Servers

VARIABLES
  db,        \* the hands with their rows, players and actions
  archived,  \* is_archived, and archive_url with it
  stored,    \* the object store has the tournament's object
  object,    \* the hands the object has, with their details
  job,       \* job[s]: the archive job of server s
  lock,      \* the server whose job holds lock:archive:daily, or None
  reader,    \* a getArchivedHand
  faults

archiveVars == <<db, archived, stored, object, job, lock, reader, faults>>

AllHands == 1 .. NumHands
Stages  == {"idle", "eligible", "page", "details", "exists", "upload", "mark", "prune",
            "delete", "release"}
Jobs    == [at : Stages, page : SUBSET AllHands, offset : Nat, read : SUBSET AllHands]
Idle    == [at |-> "idle", page |-> {}, offset |-> 0, read |-> {}]
NoRead  == [at |-> "idle", hand |-> 0]

ArchiveInit ==
  /\ db = AllHands /\ archived = FALSE /\ stored = FALSE /\ object = {}
  /\ job = [s \in Servers |-> Idle] /\ lock = None
  /\ reader = NoRead /\ faults = 0

At(s, where) == job[s].at = where
Goes(s, j)   == job' = [job EXCEPT ![s] = j]
GoesTo(s, where) == Goes(s, [job[s] EXCEPT !.at = where])

-----------------------------------------------------------------------------
(* runArchiveCron *)

\* The cron fires; a server that does not get the lock skips the day.
Acquire(s) ==
  /\ At(s, "idle") /\ lock = None
  /\ lock' = s /\ GoesTo(s, "eligible")
  /\ UNCHANGED <<db, archived, stored, object, reader, faults>>

\* The lock's time to live ends while the job is still running, or after the
\* server died with it.
LockExpires ==
  /\ lock # None /\ lock' = None
  /\ UNCHANGED <<db, archived, stored, object, job, reader, faults>>

Release(s) ==
  /\ At(s, "release") /\ Goes(s, Idle)
  /\ lock' = IF lock = s THEN None ELSE lock
  /\ UNCHANGED <<db, archived, stored, object, reader, faults>>

\* findEligibleTournamentIds
FindEligible(s) ==
  /\ At(s, "eligible")
  /\ GoesTo(s, IF ~archived /\ db # {} THEN "page" ELSE "release")
  /\ UNCHANGED <<db, archived, stored, object, lock, reader, faults>>

-----------------------------------------------------------------------------
(* archiveSingleTournament *)

\* The rows that ORDER BY hand_number leaves in front of a page and on it, OFFSET
\* and LIMIT counted over the rows that are there; hands of the same number, of
\* different tables, come in any order.
Lesser(m, n) == IF m < n THEN m ELSE n
Sorted(front, rest) == \A g \in front, h \in rest : Number[g] <= Number[h]
IsPage(before, page, offset) ==
  /\ before \subseteq db /\ page \subseteq db \ before
  /\ Cardinality(before) = Lesser(offset, Cardinality(db))
  /\ Cardinality(page)   = Lesser(PageSize, Cardinality(db \ before))
  /\ Sorted(before, db \ before) /\ Sorted(page, db \ (before \cup page))

ReadPage(s) ==
  /\ At(s, "page")
  /\ \E before, page \in SUBSET db :
       /\ IsPage(before, page, job[s].offset)
       /\ Goes(s, [job[s] EXCEPT !.at = IF page = {} THEN "exists" ELSE "details",
                                 !.page = page])
  /\ UNCHANGED <<db, archived, stored, object, lock, reader, faults>>

\* The players and the actions of the page are read after it; those of a hand
\* deleted in the meantime are gone.
ReadDetails(s) ==
  LET j == job[s] IN
  /\ At(s, "details")
  /\ Goes(s, [at |-> IF Cardinality(j.page) < PageSize THEN "exists" ELSE "page",
              page |-> {}, offset |-> j.offset + PageSize,
              read |-> j.read \cup (j.page \cap db)])
  /\ UNCHANGED <<db, archived, stored, object, lock, reader, faults>>

AlreadyStored_Unchecked == FALSE   \* mutant: the object is always written
AlreadyStored == stored

CheckStore(s) ==
  /\ At(s, "exists")
  /\ GoesTo(s, IF AlreadyStored THEN "mark" ELSE "upload")
  /\ UNCHANGED <<db, archived, stored, object, lock, reader, faults>>

Upload(s) ==
  /\ At(s, "upload")
  /\ stored' = TRUE /\ object' = job[s].read
  /\ GoesTo(s, "mark")
  /\ UNCHANGED <<db, archived, lock, reader, faults>>

MarkAndGoOn_PruneFirst(s) ==   \* mutant: the tournament is marked when all is pruned
  /\ archived' = (db = {})
  /\ GoesTo(s, "prune")
MarkAndGoOn(s) == archived' = TRUE /\ GoesTo(s, "prune")

Mark(s) ==
  /\ At(s, "mark") /\ MarkAndGoOn(s)
  /\ UNCHANGED <<db, stored, object, lock, reader, faults>>

\* pruneHandsInChunks: the ids of any hands that are left, then their deletion,
\* which takes the players and the actions along.
SelectChunk(s) ==
  /\ At(s, "prune")
  /\ IF db = {} THEN GoesTo(s, "release")
     ELSE \E chunk \in SUBSET db :
            /\ Cardinality(chunk) = IF Cardinality(db) < BatchSize
                                    THEN Cardinality(db) ELSE BatchSize
            /\ Goes(s, [job[s] EXCEPT !.at = "delete", !.page = chunk])
  /\ UNCHANGED <<db, archived, stored, object, lock, reader, faults>>

DeleteChunk(s) ==
  /\ At(s, "delete")
  /\ db' = db \ job[s].page
  /\ Goes(s, [job[s] EXCEPT !.at = "prune", !.page = {}])
  /\ UNCHANGED <<archived, stored, object, lock, reader, faults>>

Fault == faults < MaxFaults /\ faults' = faults + 1

\* The step throws: the tournament is given up for the day.
StepFails(s) ==
  /\ ~At(s, "idle") /\ ~At(s, "release") /\ Fault
  /\ GoesTo(s, "release")
  /\ UNCHANGED <<db, archived, stored, object, lock, reader>>

\* The server dies; the lock is left to expire.
ServerCrash(s) ==
  /\ ~At(s, "idle") /\ Fault
  /\ Goes(s, Idle)
  /\ UNCHANGED <<db, archived, stored, object, lock, reader>>

-----------------------------------------------------------------------------
(* getArchivedHand *)

ReadStarts(h) ==
  /\ reader.at \in {"idle", "found"}
  /\ reader' = [at |-> "row", hand |-> h]
  /\ UNCHANGED <<db, archived, stored, object, job, lock, faults>>

ReadGoesTo(where) ==
  /\ reader' = [reader EXCEPT !.at = where]
  /\ UNCHANGED <<db, archived, stored, object, job, lock, faults>>

ReadRow ==
  /\ reader.at = "row"
  /\ ReadGoesTo(IF reader.hand \in db THEN "found" ELSE "url")

ReadUrl ==
  /\ reader.at = "url"
  /\ ReadGoesTo(IF archived THEN "object" ELSE "missing")

\* The object is downloaded and searched.
ReadObject ==
  /\ reader.at = "object"
  /\ ReadGoesTo(IF reader.hand \in object THEN "found" ELSE "missing")

-----------------------------------------------------------------------------
Pipeline(s) ==
  \/ FindEligible(s) \/ ReadPage(s) \/ ReadDetails(s) \/ CheckStore(s) \/ Upload(s)
  \/ Mark(s) \/ SelectChunk(s) \/ DeleteChunk(s) \/ Release(s)

ArchiveNext ==
  \/ \E s \in Servers : Acquire(s) \/ Pipeline(s) \/ StepFails(s) \/ ServerCrash(s)
  \/ LockExpires
  \/ \E h \in AllHands : ReadStarts(h)
  \/ ReadRow \/ ReadUrl \/ ReadObject

ArchiveSpec == ArchiveInit /\ [][ArchiveNext]_archiveVars

-----------------------------------------------------------------------------
(* Properties *)

\* The job and the reader are at one of their steps, about hands there are.
ArchiveTypeOK ==
  /\ db \subseteq AllHands /\ archived \in BOOLEAN
  /\ stored \in BOOLEAN /\ object \subseteq AllHands
  /\ job \in [Servers -> Jobs]
  /\ reader \in {NoRead} \cup [at : {"row", "url", "object", "found", "missing"}, hand : AllHands]

\* The hands of one table have different numbers. Pages over the hands of several
\* tables have no order of their own: a hand may be on two of them and another hand on
\* none, so then all of them must fit on one page (SERIALIZATION_PAGE_SIZE is 500).
PagesInOrder ==
  \/ \A g, h \in AllHands : g < h => Number[g] < Number[h]
  \/ NumHands <= PageSize

\* A hand that was deleted is in the object with its players and actions, also
\* when two jobs overlap, when one of them reads a table the other is pruning,
\* and after any crash (docs/CHANGELOG.md: "then safely prunes detailed records"). It
\* rests on PagesInOrder.
PrunedIsStored == AllHands \ db \subseteq object

\* A hand can be read at any time: whoever misses its row in the database finds
\* the address of the object, and in it the hand with its details.
HandsReadable == reader.at # "missing"
=============================================================================
