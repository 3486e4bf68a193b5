------------------------------ MODULE Leaderboard ------------------------------
(***************************************************************************)
(* The sorted set behind the leaderboard of an event, as pure operators.   *)
(* Players are numbers: their order is the lexicographic order of their    *)
(* ids, which settles ties.                                                *)
(***************************************************************************)
EXTENDS Integers, FiniteSets

Unranked == -1
Empty(players) == [p \in players |-> Unranked]
Ranked(board) == {p \in DOMAIN board : board[p] # Unranked}

(* ZADD GT: a player keeps the best score. *)
Submit(board, player, score) ==
  [board EXCEPT ![player] = IF score > @ THEN score ELSE @]

Beats_TiesShared(board, p, q) == board[p] > board[q]
Beats(board, p, q) ==
  \/ board[p] > board[q]
  \/ board[p] = board[q] /\ p > q
Ahead(board, q) == {p \in Ranked(board) : Beats(board, p, q)}
Rank(board, p) == Cardinality(Ahead(board, p)) + 1

(* The first n players, each with the rank; 0 for the others. *)
Top(board, n) ==
  [p \in DOMAIN board |-> IF p \in Ranked(board) /\ Rank(board, p) <= n
                          THEN Rank(board, p) ELSE 0]
=============================================================================
