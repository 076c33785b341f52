------------------------------ MODULE Friendship ------------------------------
(***************************************************************************)
(* What user_service promises of friendships: two users have at most one   *)
(* relationship, which one of them asks for, the other one approves, and   *)
(* either may end.  Friends has the queries that the code needs for it.    *)
(***************************************************************************)
CONSTANT User

VARIABLE ties  \* the relationships

Tie(u, v, status) == [from |-> u, to |-> v, status |-> status]

Init == ties = {}

Ask(u, v) ==
  /\ \A t \in ties : {t.from, t.to} # {u, v}
  /\ ties' = ties \union {Tie(u, v, "pending")}

Approve(u, v) ==
  /\ Tie(v, u, "pending") \in ties
  /\ ties' = (ties \ {Tie(v, u, "pending")}) \union {Tie(v, u, "friends")}

Part(u, v) == \E t \in ties : {t.from, t.to} = {u, v} /\ ties' = ties \ {t}

Next == \E u, v \in User : u # v /\ (Ask(u, v) \/ Approve(u, v) \/ Part(u, v))

Spec == Init /\ [][Next]_ties
=============================================================================
