---------------------------- MODULE Leaderboards ----------------------------
(***************************************************************************)
(* The leaderboards of apps/api over the results that VerificationBackend  *)
(* commits.  Before a request answers "accepted", placementsFor reads two  *)
(* numbers for every category of its verifier, each behind an await: how   *)
(* many entries beat the submission, then how many entries there are.      *)
(* Other requests commit their results between any two of these reads.     *)
(* GET /leaderboards/:categoryId reads the first rows of one category.     *)
(***************************************************************************)
EXTENDS VerificationBackend, FiniteSets

CONSTANTS CategoryCount,  \* categories of the verifier, in registry order
          Order,          \* [Categories -> {"desc", "asc"}]
          Value,          \* [Submissions -> [Categories -> Nat]], canonical metrics
          BoardLimit      \* the default limit of getLeaderboard

Categories == 1 .. CategoryCount

ASSUME CategoriesAssumption ==
  /\ CategoryCount \in Nat
  /\ Order \in [Categories -> {"desc", "asc"}]
  /\ Value \in [Submissions -> [Categories -> Nat]]
ASSUME LimitAssumption == BoardLimit \in Nat \ {0}

VARIABLES cursor,      \* per request: the category it reads next
          placements   \* per request and category: what it has read, 0 for nothing yet

boardVars == <<cursor, placements>>
allVars == <<vars, boardVars>>

Placement == [placement : Nat, totalEntries : Nat]

BoardTypeOK ==
  /\ cursor \in [Requests -> 1 .. CategoryCount + 1]
  /\ placements \in [Requests -> [Categories -> Placement]]

-----------------------------------------------------------------------------
(* Reads of the store *)

ValueOf(row, c) == Value[row.submission][c]

Better(c, a, b) == IF Order[c] = "desc" THEN a > b ELSE a < b

(* The rows of a category: every verified result carries every category.   *)
Entries == {row \in results : row.verified}

BetterThan(c, value) == {row \in Entries : Better(c, ValueOf(row, c), value)}

(* The in-memory store counts in the rows getLeaderboard returns and so    *)
(* never beyond its limit; the durable store counts in the table.          *)
Counted(n) == IF Durable \/ n <= BoardLimit THEN n ELSE BoardLimit

countBetterThan(c, value) == Counted(Cardinality(BetterThan(c, value)))

totalVerified(c) == Counted(Cardinality(Entries))

(* getLeaderboard: the best rows up to the limit, whichever of the equals  *)
(* at the cut come first.                                                  *)
Leaderboard(c) ==
  {board \in SUBSET Entries :
     /\ Cardinality(board) =
          IF Cardinality(Entries) <= BoardLimit THEN Cardinality(Entries) ELSE BoardLimit
     /\ \A row \in board : BetterThan(c, ValueOf(row, c)) \subseteq board}

-----------------------------------------------------------------------------
BoardInit ==
  /\ Init
  /\ cursor = [r \in Requests |-> 1]
  /\ placements = [r \in Requests |->
                     [c \in Categories |-> [placement |-> 0, totalEntries |-> 0]]]

Reading(r) == requests[r].stage = "placing" /\ cursor[r] \in Categories

Unplaced(r) == placements[r][cursor[r]].placement = 0

(* Bug: whoever ties with the submission beats it, itself included. *)
CountTies(r) ==
  LET c     == cursor[r]
      value == Value[requests[r].submission][c]
  IN /\ Reading(r)
     /\ Unplaced(r)
     /\ placements' = [placements EXCEPT ![r][c].placement =
          Counted(Cardinality({row \in Entries : ~Better(c, value, ValueOf(row, c))})) + 1]
     /\ UNCHANGED <<vars, cursor>>

(* Bug: the order of the category is ignored. *)
CountDescending(r) ==
  LET c     == cursor[r]
      value == Value[requests[r].submission][c]
  IN /\ Reading(r)
     /\ Unplaced(r)
     /\ placements' = [placements EXCEPT ![r][c].placement =
          Counted(Cardinality({row \in Entries : ValueOf(row, c) > value})) + 1]
     /\ UNCHANGED <<vars, cursor>>

(* placement: await store.countBetterThan(category, value) + 1 *)
ReadPlacement(r) ==
  LET c == cursor[r]
  IN /\ Reading(r)
     /\ Unplaced(r)
     /\ placements' = [placements EXCEPT ![r][c].placement =
                         countBetterThan(c, Value[requests[r].submission][c]) + 1]
     /\ UNCHANGED <<vars, cursor>>

(* totalEntries: await store.totalVerified(category) *)
ReadTotal(r) ==
  /\ Reading(r)
  /\ ~Unplaced(r)
  /\ placements' = [placements EXCEPT ![r][cursor[r]].totalEntries = totalVerified(cursor[r])]
  /\ cursor' = [cursor EXCEPT ![r] = @ + 1]
  /\ UNCHANGED vars

(* Every step of the backend; the answer waits for all of its placements.  *)
BackendStep ==
  /\ Next
  /\ \A r \in Requests :
       requests[r].stage = "placing" /\ requests'[r].reply = "accepted" => cursor[r] \notin Categories
  /\ UNCHANGED boardVars

BoardNext ==
  \/ BackendStep
  \/ \E r \in Requests : ReadPlacement(r) \/ ReadTotal(r)

BoardSpec == BoardInit /\ [][BoardNext]_allVars

-----------------------------------------------------------------------------
(* Properties *)

(* "Rank #p of n" is two reads with other commits in between, and still p  *)
(* never exceeds n: every entry counted first, and the submission itself,  *)
(* is counted again.  The one exception is the in-memory store at its      *)
(* limit, which says "#51 of 50" of any result behind the first fifty.     *)
RankIsWithinTotal ==
  \A r \in Requests : \A c \in Categories :
     c < cursor[r] =>
       LET p == placements[r][c]
       IN /\ p.placement >= 1
          /\ \/ p.placement <= p.totalEntries
             \/ /\ ~Durable
                /\ p.placement = BoardLimit + 1
                /\ p.totalEntries = BoardLimit

(* A client that asks again about its accepted submission is never told a  *)
(* better placement than any earlier answer gave: results are only added.  *)
RanksNeverRise ==
  [][\A r, q \in Requests : \A c \in Categories :
       /\ placements[r][c].placement = 0
       /\ placements'[r][c].placement # 0
       /\ placements[q][c].placement # 0
       /\ requests[q].submission = requests[r].submission
       => placements'[r][c].placement >= placements[q][c].placement]_allVars

(* What GET /leaderboards shows agrees with what submitters were told: a   *)
(* placed submission is missing only from a full board, and where it is    *)
(* shown, at least placement - 1 rows of the board beat it.                *)
BoardsAgreeWithRanks ==
  \A r \in Requests : \A c \in Categories :
    placements[r][c].placement # 0 =>
      \A board \in Leaderboard(c) :
        LET own   == {row \in board : row.submission = requests[r].submission}
            ahead == BetterThan(c, Value[requests[r].submission][c]) \cap board
        IN /\ own = {} => Cardinality(board) = BoardLimit
           /\ own # {} => placements[r][c].placement <= Cardinality(ahead) + 1
=============================================================================
