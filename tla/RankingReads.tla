----------------------------- MODULE RankingReads -----------------------------
(***************************************************************************)
(* The two ranking queries of a leaderboard.  Each is several Redis        *)
(* commands: a page of the board (ZREVRANGE) or one score (ZSCORE), two    *)
(* ZCOUNTs for the rank of the score read first, and, for a page, ZCARD.   *)
(* Between them process_event.lua gives points and Redis may lose its      *)
(* data.  Queries share nothing but the board, so one at a time is enough. *)
(***************************************************************************)
EXTENDS Board, Sequences

CONSTANTS Deltas,
          MaxScore,    \* bound: the scores before the first query
          MaxOffset,   \* bound: offsets asked for
          MaxLimit,    \* bound: limits asked for
          MaxMoves,    \* bound: events applied while queries run
          MaxLosses    \* bound: times Redis comes back without the board

ASSUME RankingAssumption ==
  /\ Users \subseteq Nat \ {0} /\ Deltas \subseteq Nat \ {0}
  /\ {MaxScore, MaxOffset, MaxLimit, MaxMoves, MaxLosses} \subseteq Nat

VARIABLES
  board,
  query,     \* the query being served
  answer,    \* the last answer given
  moves, losses,
  during     \* history: board at the query's first command, moves and losses since

vars == <<board, query, answer, moves, losses, during>>

Idle == [pc |-> "idle"]
NoAnswer == [kind |-> "none"]
NoRank == 0     \* UserRankResult.rank = null

Init ==
  /\ board \in [Users -> 0..MaxScore]
  /\ query = Idle
  /\ answer = NoAnswer
  /\ moves = 0 /\ losses = 0
  /\ during = [first |-> board, moves |-> 0, losses |-> 0]

----------------------------------------------------------------------------
(* process_event.lua: ZINCRBY *)
ApplyEvent(u, d) ==
  /\ moves < MaxMoves
  /\ moves' = moves + 1
  /\ board' = [board EXCEPT ![u] = @ + d]
  /\ during' = [during EXCEPT !.moves = @ + 1]
  /\ UNCHANGED <<query, answer, losses>>

LoseBoard ==
  /\ losses < MaxLosses
  /\ losses' = losses + 1
  /\ board' = [u \in Users |-> 0]
  /\ during' = [during EXCEPT !.losses = @ + 1]
  /\ UNCHANGED <<query, answer, moves>>

----------------------------------------------------------------------------
Started == during' = [first |-> board, moves |-> 0, losses |-> 0]

Reply(a) == answer' = a /\ query' = Idle

NothingToRank(page) == page = << >>

(* findTopByLeaderboardId up to its first command: an empty page has no    *)
(* first item to rank.                                                     *)
GetTopRanks(offset, limit) ==
  /\ query = Idle
  /\ LET page == ReverseRange(board, offset, limit)
         ask == [offset |-> offset, users |-> page,
                 scores |-> [k \in DOMAIN page |-> board[page[k]]]]
     IN  query' = IF NothingToRank(page)
                  THEN [pc |-> "total", kind |-> "page", ask |-> ask, rank |-> NoRank]
                  ELSE [pc |-> "greaterOrEqual", kind |-> "page", ask |-> ask]
  /\ answer' = NoAnswer
  /\ Started
  /\ UNCHANGED <<board, moves, losses>>

(* findUserRank: a user without a score is answered at once. *)
GetUserRank(u) ==
  /\ query = Idle
  /\ IF board[u] = 0
     THEN Reply([kind |-> "user", ask |-> [users |-> <<u>>, scores |-> <<0>>], rank |-> NoRank])
     ELSE /\ query' = [pc |-> "greaterOrEqual", kind |-> "user",
                       ask |-> [users |-> <<u>>, scores |-> <<board[u]>>]]
          /\ answer' = NoAnswer
  /\ Started
  /\ UNCHANGED <<board, moves, losses>>

AtLeast(s) == Cardinality({u \in Ranked(board) : board[u] >= s})
Exactly(s) == Cardinality({u \in Ranked(board) : board[u] = s})

(* computeCompetitionRank, first ZCOUNT *)
CountGreaterOrEqual ==
  /\ query.pc = "greaterOrEqual"
  /\ query' = [pc |-> "equal", kind |-> query.kind, ask |-> query.ask,
               ge |-> AtLeast(query.ask.scores[1])]
  /\ UNCHANGED <<board, answer, moves, losses, during>>

RankWithTies(ge, eq) == ge                          \* mutated form of CompetitionRank
CompetitionRank(ge, eq) == ge - eq + 1

(* computeCompetitionRank, second ZCOUNT.  A rank that is not positive is  *)
(* an IllegalArgumentException of the result's constructor: 400.           *)
CountEqual ==
  /\ query.pc = "equal"
  /\ LET rank == CompetitionRank(query.ge, Exactly(query.ask.scores[1]))
     IN  IF rank <= 0
         THEN Reply([kind |-> "refused", ask |-> query.ask, rank |-> rank])
         ELSE IF query.kind = "user"
         THEN Reply([kind |-> "user", ask |-> query.ask, rank |-> rank])
         ELSE /\ query' = [pc |-> "total", kind |-> "page", ask |-> query.ask, rank |-> rank]
              /\ UNCHANGED answer
  /\ UNCHANGED <<board, moves, losses, during>>

(* The ranks of a page: that of the first item was computed, a lower score *)
(* starts the rank of its place in the board.                              *)
PlaceInPage(ask, first) ==                          \* mutated form of PageRanks
  LET rank[k \in DOMAIN ask.users] ==
        IF k = 1 THEN first ELSE IF ask.scores[k] # ask.scores[k - 1] THEN k ELSE rank[k - 1]
  IN  rank
PageRanks(ask, first) ==
  LET rank[k \in DOMAIN ask.users] ==
        IF k = 1 THEN first
        ELSE IF ask.scores[k] # ask.scores[k - 1] THEN ask.offset + k ELSE rank[k - 1]
  IN  rank

Participants == Cardinality(Ranked(board))

(* countParticipants, after the page *)
CountParticipants ==
  /\ query.pc = "total"
  /\ Reply([kind |-> "page", ask |-> query.ask, ranks |-> PageRanks(query.ask, query.rank),
            total |-> Participants])
  /\ UNCHANGED <<board, moves, losses, during>>

Next ==
  \/ \E u \in Users, d \in Deltas : ApplyEvent(u, d)
  \/ LoseBoard
  \/ \E offset \in 0..MaxOffset, limit \in 1..MaxLimit : GetTopRanks(offset, limit)
  \/ \E u \in Users : GetUserRank(u)
  \/ CountGreaterOrEqual \/ CountEqual \/ CountParticipants

Spec == Init /\ [][Next]_vars

----------------------------------------------------------------------------
(* Competition ranking: one more than the users with a higher score.       *)
RankOf(b, s) == 1 + Cardinality({u \in Users : b[u] > s})

(* When nothing wrote to the board while the query ran, the answer is the  *)
(* competition ranking of the board, wherever the page starts, in the      *)
(* middle of a tie or past the end, and is never refused.                  *)
(* (RankingQueryRepositoryAdapter 26-89.)                                  *)
QuietAnswersAreExact ==
  answer # NoAnswer /\ during.moves = 0 /\ during.losses = 0 =>
    LET b == during.first
    IN  \/ /\ answer.kind = "user"
           /\ answer.rank = IF b[answer.ask.users[1]] = 0 THEN NoRank
                            ELSE RankOf(b, b[answer.ask.users[1]])
        \/ /\ answer.kind = "page"
           /\ \A k \in DOMAIN answer.ranks : answer.ranks[k] = RankOf(b, b[answer.ask.users[k]])
           /\ answer.total = Cardinality(Ranked(b))

(* The rank that is computed from the two counts is off by no more than    *)
(* the number of events applied while the query ran.  It is refused only   *)
(* if these were at least as many as the rank.                             *)
(* (RankingQueryRepositoryAdapter 82-89, TopRankItem, UserRankResult.)     *)
CountedRank ==
  CASE answer.kind = "page" -> answer.ranks[1]
    [] OTHER -> answer.rank
OffByTheEventsAtMost ==
  answer # NoAnswer /\ answer.ask.users # << >> /\ answer.ask.scores[1] > 0 /\ during.losses = 0 =>
    LET exact == RankOf(during.first, answer.ask.scores[1])
    IN  CountedRank \in (exact - during.moves)..(exact + during.moves)

(* Only the first score of a page is exposed to what happens between the   *)
(* commands: the ranks below it are those of the board the page was taken  *)
(* from, whatever was written or lost since.                               *)
(* (RankingQueryRepositoryAdapter 49-57.)                                  *)
LowerRanksAreExact ==
  answer.kind = "page" => \A k \in DOMAIN answer.ranks :
    answer.ask.scores[k] # answer.ask.scores[1] =>
      answer.ranks[k] = RankOf(during.first, answer.ask.scores[k])
=============================================================================
