-------------------------------- MODULE Match --------------------------------
(***************************************************************************)
(* What combat_service promises of an online match: the two players share  *)
(* one board, every answer is judged against the match as it is at that    *)
(* moment, and the match is decided once.  A move is one atomic step here; *)
(* RoomMatch has the three queries the code needs for it.                  *)
(***************************************************************************)
EXTENDS Integers

CONSTANTS Cell, Lives, NoWinner

VARIABLES
  open,    \* the cells nobody has filled
  lives,   \* the lives each player has left
  score,   \* the valid moves of each player
  winner   \* the player who won, or NoWinner

Role == {"owner", "guest"}
Other(p) == CHOOSE q \in Role : q # p

Init ==
  /\ open = Cell
  /\ lives = [p \in Role |-> Lives]
  /\ score = [p \in Role |-> 0]
  /\ winner = NoWinner

\* The last cell decides: the higher score wins, a tie goes to who filled it.
Fill(p, c) ==
  /\ open' = open \ {c}
  /\ score' = [score EXCEPT ![p] = @ + 1]
  /\ UNCHANGED lives
  /\ \/ open' # {} /\ UNCHANGED winner
     \/ open' = {} /\ score'[p] >= score[Other(p)] /\ winner' = p
     \/ open' = {} /\ score'[p] < score[Other(p)] /\ winner' = Other(p)

\* Losing the last life loses the match.
Miss(p) ==
  /\ lives' = [lives EXCEPT ![p] = @ - 1]
  /\ winner' = IF lives[p] = 1 THEN Other(p) ELSE winner
  /\ UNCHANGED <<open, score>>

GiveUp(p) ==
  /\ winner' = Other(p)
  /\ UNCHANGED <<open, lives, score>>

Next ==
  /\ winner = NoWinner
  /\ \E p \in Role : (\E c \in Cell : Fill(p, c)) \/ Miss(p) \/ GiveUp(p)

vars == <<open, lives, score, winner>>
Spec == Init /\ [][Next]_vars
=============================================================================
