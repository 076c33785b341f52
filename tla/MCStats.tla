------------------------------- MODULE MCStats -------------------------------
(***************************************************************************)
(* Instances of Stats for TLC: two players on one difficulty.              *)
(***************************************************************************)
EXTENDS Stats, TLC

\* Below ten seconds is quick.
Limit == [d \in Difficulties |-> 10]

Sent(user, mode, result, time) ==
  [user |-> user, difficulty |-> 1, mode |-> mode, result |-> result, time |-> time]

\* One player wins and loses online, the other wins online.
Results == {Sent(1, "online", "win", NoTime), Sent(1, "online", "lose", NoTime),
            Sent(2, "online", "win", NoTime)}

\* The threads are alike.
Alike == Permutations(Handlers)

\* Online wins of which one is quick, and an offline win that is not.
AllResults == {Sent(1, "online", "win", 9), Sent(1, "online", "win", 12),
               Sent(2, "online", "win", NoTime), Sent(1, "offline", "win", 10)}
==============================================================================
