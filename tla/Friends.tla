------------------------------- MODULE Friends -------------------------------
(***************************************************************************)
(* The friendships of user_service: friend_action_api (api_views.py) and   *)
(* the list on the pages that call it (useFriendList.js).                  *)
(*                                                                         *)
(* Daphne serves each request on a thread of its own and no view runs in a *)
(* transaction, so that requests interleave at every query.  rel.save()    *)
(* updates the row and, when the UPDATE has found none, inserts it.        *)
(***************************************************************************)
EXTENDS Naturals

CONSTANTS
  User,     \* the accounts
  Request,  \* the requests that can be in flight at the same time
  MaxRows   \* bound: ids that the sequence gives out

VARIABLES
  rows,    \* the table Relationship
  nextId,  \* the sequence of its primary key
  req,     \* the requests in flight
  list,    \* the ids of the relationships on each user's page
  asked,   \* history: who asked whom with which id
  agreed,  \* history: who approved which id
  clean    \* history: no request that wrote had been overtaken

vars == <<rows, nextId, req, list, asked, agreed, clean>>

\* The id of a row that is not inserted yet is 0.
Relationship == [id : Nat, from : User, to : User, status : {"pending", "friends"}]

Pair(x) == {x.from, x.to}

(***************************************************************************)
(* A request between two queries: the row it is going to write, and        *)
(* whether the relationships of its two users have changed meanwhile.      *)
(***************************************************************************)
Working == [pc : {"creating", "updating", "inserting"}, row : Relationship, overtaken : BOOLEAN]
Idle == [pc |-> "idle"]

Init ==
  /\ rows = {} /\ nextId = 1
  /\ req = [r \in Request |-> Idle]
  /\ list = [u \in User |-> {}]
  /\ asked = {} /\ agreed = {} /\ clean = TRUE

-----------------------------------------------------------------------------
(* What the queries find.                                                  *)

\* Mutant: only the user's own requests are looked for.
MutBetween(u, v) == {x \in rows : x.from = u /\ x.to = v}
Between(u, v) == {x \in rows : Pair(x) = {u, v}}

\* Mutant: either side may approve.
MutApprovable(u, id) == {x \in rows : x.id = id /\ u \in Pair(x)}
Approvable(u, id) == {x \in rows : x.id = id /\ x.to = u}

\* Mutant: the status is named as on the page.
MutApproved(x) == [x EXCEPT !.status = "accepted"]
Approved(x) == [x EXCEPT !.status = "friends"]

-----------------------------------------------------------------------------
(* Reading.                                                                *)

Start(r, pc, row) ==
  /\ req[r] = Idle
  /\ req' = [req EXCEPT ![r] = [pc |-> pc, row |-> row, overtaken |-> FALSE]]

\* "send": there is no relationship of the two users.
Send(r, u, v) ==
  /\ u # v /\ Between(u, v) = {}
  /\ Start(r, "creating", [id |-> 0, from |-> u, to |-> v, status |-> "pending"])
  /\ UNCHANGED <<rows, nextId, list, asked, agreed, clean>>

\* "approve", for anything on the user's list, which may be old.
Approve(r, u, id) ==
  /\ id \in list[u]
  /\ \E x \in Approvable(u, id) : Start(r, "updating", Approved(x))
  /\ agreed' = agreed \union {<<id, u>>}
  /\ UNCHANGED <<rows, nextId, list, asked, clean>>

\* The page shows what there is.
Fetch(u) ==
  /\ list' = [list EXCEPT ![u] = {x.id : x \in {y \in rows : u \in Pair(y)}}]
  /\ UNCHANGED <<rows, nextId, req, asked, agreed, clean>>

-----------------------------------------------------------------------------
(* Writing.                                                                *)

Of(pair, table) == {x \in table : Pair(x) = pair}

Overtaken(table) ==
  [r \in Request |->
    IF req[r] # Idle /\ Of(Pair(req[r].row), table) # Of(Pair(req[r].row), rows)
    THEN [req[r] EXCEPT !.overtaken = TRUE] ELSE req[r]]

\* The request r leaves the table and ends.
Write(r, table) ==
  /\ rows' = table
  /\ req' = [Overtaken(table) EXCEPT ![r] = Idle]
  /\ clean' = (clean /\ ~req[r].overtaken)
  /\ UNCHANGED <<list, agreed>>

\* It ends with an IntegrityError, is lost, or the service restarts.
Fail(r) ==
  /\ req[r] # Idle
  /\ req' = [req EXCEPT ![r] = Idle]
  /\ UNCHANGED <<rows, nextId, list, asked, agreed, clean>>

\* INSERT: the primary key is unique, and unique_together.
Fits(row) == \A x \in rows : x.id # row.id /\ ~(x.from = row.from /\ x.to = row.to)

Create(r) ==
  LET row == [req[r].row EXCEPT !.id = nextId]
  IN  /\ req[r].pc = "creating"
      /\ nextId <= MaxRows /\ nextId' = nextId + 1
      /\ Fits(row) /\ Write(r, rows \union {row})
      /\ asked' = asked \union {<<nextId, row.from, row.to>>}

Update(r) ==
  LET row == req[r].row
      old == {x \in rows : x.id = row.id}
  IN  /\ req[r].pc = "updating"
      /\ \/ old # {} /\ Write(r, (rows \ old) \union {row})
         \/ old = {} /\ req' = [req EXCEPT ![r].pc = "inserting"]
                     /\ UNCHANGED <<rows, list, agreed, clean>>
      /\ UNCHANGED <<nextId, asked>>

Insert(r) ==
  /\ req[r].pc = "inserting"
  /\ Fits(req[r].row) /\ Write(r, rows \union {req[r].row})
  /\ UNCHANGED <<nextId, asked>>

\* "remove" is one DELETE.
Remove(u, id) ==
  /\ id \in list[u]
  /\ \E x \in rows :
       /\ x.id = id /\ u \in Pair(x)
       /\ rows' = rows \ {x} /\ req' = Overtaken(rows \ {x})
  /\ UNCHANGED <<nextId, list, asked, agreed, clean>>

Serve(r) == Create(r) \/ Update(r) \/ Insert(r) \/ Fail(r)

Next ==
  \/ \E r \in Request : Serve(r)
  \/ \E r \in Request, u, v \in User : Send(r, u, v)
  \/ \E r \in Request, u \in User : \E id \in list[u] : Approve(r, u, id)
  \/ \E u \in User : Fetch(u) \/ \E id \in list[u] : Remove(u, id)

Spec == Init /\ [][Next]_vars

-----------------------------------------------------------------------------
(* Properties.                                                             *)

\* The table has unique keys, and the requests and lists are well typed.
TypeOK ==
  /\ rows \subseteq Relationship /\ nextId \in Nat \ {0}
  /\ req \in [Request -> Working \union {Idle}]
  /\ list \in [User -> SUBSET (1..(nextId - 1))]
  /\ asked \subseteq (1..(nextId - 1)) \X User \X User
  /\ agreed \subseteq (1..(nextId - 1)) \X User /\ clean \in BOOLEAN
  /\ \A x \in rows : x.id \in 1..(nextId - 1)
  /\ \A x, y \in rows : x.id = y.id \/ (x.from = y.from /\ x.to = y.to) => x = y

(***************************************************************************)
(* Whatever requests overlap, are lost or come from an old list: users are *)
(* friends only if one of them has asked and the other one has approved    *)
(* just this request, also when the row was deleted and inserted again.    *)
(***************************************************************************)
ConsentGiven ==
  \A x \in rows : /\ <<x.id, x.from, x.to>> \in asked
                  /\ x.status = "friends" => <<x.id, x.to>> \in agreed

Ties == {[from |-> x.from, to |-> x.to, status |-> x.status] : x \in rows}

Promise == INSTANCE Friendship WITH ties <- Ties

(***************************************************************************)
(* Until a request writes that was overtaken, the queries of each request  *)
(* together are one step of a friendship: two users never have two         *)
(* relationships, and one that was ended stays ended until somebody asks   *)
(* again.                                                                  *)
(***************************************************************************)
CleanStepsArePromised == [][clean' => [Promise!Next]_Ties]_rows
=============================================================================
