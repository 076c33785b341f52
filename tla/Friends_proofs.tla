---------------------------- MODULE Friends_proofs ----------------------------
(***************************************************************************)
(* Proofs about Friends, for any users, requests and ids: the keys of the  *)
(* table are unique, nobody becomes a friend without consent, and until a  *)
(* request writes that was overtaken, Friends implements Friendship.       *)
(***************************************************************************)
EXTENDS Friends, TLAPS

Ids == 1..(nextId - 1)

Known(x) == <<x.id, x.from, x.to>> \in asked

\* What a request carries: a new relationship, or one that its target approved.
Carries(q) ==
  /\ q.row.from # q.row.to
  /\ q.pc = "creating" => q.row.status = "pending"
  /\ q.pc # "creating" =>
       Known(q.row) /\ q.row.status = "friends" /\ <<q.row.id, q.row.to>> \in agreed

\* An id stands for one request of one user to another, in the table and in
\* flight, so that a row that is inserted again is the row that was deleted.
Consent ==
  /\ \A a, b \in asked : a[1] = b[1] => a = b
  /\ ConsentGiven
  /\ \A x \in rows : x.from # x.to
  /\ \A r \in Request : req[r] # Idle => Carries(req[r])

Inv == TypeOK /\ Consent

\* A request in flight has a row, and no idle slot has.
LEMMA InFlight ==
  ASSUME TypeOK, NEW r \in Request
  PROVE  /\ req[r] # Idle => req[r] \in Working /\ req[r].row \in Relationship
         /\ req[r].pc \in {"creating", "updating", "inserting"} => req[r] # Idle
  BY DEF TypeOK, Working, Idle

\* The writes of others change nothing of a request but overtaken.
LEMMA OvertakenFields ==
  ASSUME TypeOK, NEW table, NEW x \in Request
  PROVE  LET q == Overtaken(table)[x] IN
         /\ q \in Working \union {Idle}
         /\ q = Idle <=> req[x] = Idle
         /\ q # Idle => q.pc = req[x].pc /\ q.row = req[x].row
         /\ \/ q = req[x] /\ (q # Idle => Of(Pair(q.row), table) = Of(Pair(q.row), rows))
            \/ q # Idle /\ q.overtaken = TRUE
<1> DEFINE q == Overtaken(table)[x]
           changed == req[x] # Idle /\ Of(Pair(req[x].row), table) # Of(Pair(req[x].row), rows)
<1>1. CASE ~changed
  <2>1. q = req[x]
    BY <1>1 DEF Overtaken
  <2>2. QED BY <1>1, <2>1 DEF TypeOK
<1>2. CASE changed
  <2>1. q = [req[x] EXCEPT !.overtaken = TRUE] /\ req[x] \in Working
    BY <1>2, InFlight DEF Overtaken
  <2>2. /\ q \in Working /\ q.pc = req[x].pc /\ q.row = req[x].row /\ q.overtaken = TRUE
    BY <2>1 DEF Working
  <2>3. q # Idle
    BY <2>2 DEF Working, Idle
  <2>4. QED BY <1>2, <2>2, <2>3
<1>3. QED BY <1>1, <1>2

-----------------------------------------------------------------------------
(* Keys and consent.                                                       *)

\* A request is started that carries what it should.
LEMMA StartStep ==
  ASSUME Inv, NEW r \in Request, NEW pc \in {"creating", "updating", "inserting"},
         NEW row \in Relationship, Start(r, pc, row),
         UNCHANGED <<rows, nextId, list, asked>>,
         agreed \subseteq agreed', agreed' \subseteq Ids \X User, clean' \in BOOLEAN,
         row.from # row.to, pc = "creating" => row.status = "pending",
         pc # "creating" => Known(row) /\ row.status = "friends" /\ <<row.id, row.to>> \in agreed'
  PROVE  Inv'
<1> DEFINE new == [pc |-> pc, row |-> row, overtaken |-> FALSE]
<1>1. new \in Working /\ new # Idle
  BY DEF Working, Idle
<1>2. req' = [req EXCEPT ![r] = new]
  BY DEF Start
<1>3. TypeOK'
  BY <1>1, <1>2 DEF Inv, TypeOK, Ids
<1>4. ASSUME NEW x \in Request, req'[x] # Idle PROVE Carries(req[x])'
  <2>1. CASE x = r
    <3>1. req'[x] = new
      BY <1>2, <2>1 DEF Inv, TypeOK
    <3>2. QED BY <3>1 DEF Carries, Known
  <2>2. CASE x # r
    <3>1. req'[x] = req[x] /\ Carries(req[x])
      BY <1>2, <1>4, <2>2 DEF Inv, TypeOK, Consent
    <3>2. QED BY <3>1 DEF Carries, Known
  <2>3. QED BY <2>1, <2>2
<1>5. Consent'
  BY <1>4 DEF Inv, Consent, ConsentGiven
<1>6. QED BY <1>3, <1>5 DEF Inv

\* A table that keeps the keys is left, by the request r or by a DELETE.
LEMMA WriteStep ==
  ASSUME Inv, NEW table \in SUBSET Relationship, rows' = table,
         nextId' \in {nextId, nextId + 1}, UNCHANGED <<list, agreed>>, clean' \in BOOLEAN,
         \A x \in Request : req'[x] \in {Overtaken(table)[x], Idle}, req' = [x \in Request |-> req'[x]],
         asked \subseteq asked', asked' \subseteq (1..(nextId' - 1)) \X User \X User,
         \A a, b \in asked' : a[1] = b[1] => a = b,
         \A x \in table : x.id \in 1..(nextId' - 1),
         \A x, y \in table : x.id = y.id \/ (x.from = y.from /\ x.to = y.to) => x = y,
         \A x \in table : /\ <<x.id, x.from, x.to>> \in asked'
                          /\ x.status = "friends" => <<x.id, x.to>> \in agreed
                          /\ x.from # x.to
  PROVE  Inv'
<1>1. nextId \in Nat \ {0} /\ 1..(nextId - 1) \subseteq 1..(nextId' - 1) /\ nextId' \in Nat \ {0}
  BY DEF Inv, TypeOK
<1>2. req' \in [Request -> Working \union {Idle}]
  <2>1. \A x \in Request : req'[x] \in Working \union {Idle}
    BY OvertakenFields DEF Inv
  <2>2. QED BY <2>1
<1>3. /\ list' \in [User -> SUBSET (1..(nextId' - 1))]
      /\ agreed' \subseteq (1..(nextId' - 1)) \X User
  BY <1>1 DEF Inv, TypeOK
<1>4. TypeOK'
  BY <1>1, <1>2, <1>3 DEF Inv, TypeOK
<1>5. ASSUME NEW x \in Request, req'[x] # Idle PROVE Carries(req[x])'
  <2>1. req'[x].pc = req[x].pc /\ req'[x].row = req[x].row /\ Carries(req[x])
    <3>1. req'[x] = Overtaken(table)[x]
      BY <1>5
    <3> DEFINE q == Overtaken(table)[x]
    <3>2. /\ q = Idle <=> req[x] = Idle
          /\ q # Idle => q.pc = req[x].pc /\ q.row = req[x].row
      BY OvertakenFields DEF Inv
    <3> HIDE DEF q
    <3>3. q # Idle /\ req'[x] = q
      BY <1>5, <3>1 DEF q
    <3>4. QED BY <3>2, <3>3 DEF Inv, Consent
  <2>2. QED BY <2>1 DEF Carries, Known
<1>6. Consent'
  BY <1>5 DEF Consent, ConsentGiven
<1>7. QED BY <1>4, <1>6 DEF Inv

\* The step of each query keeps the keys and the consent.
LEMMA InvStep == Inv /\ [Next]_vars => Inv'
<1> SUFFICES ASSUME Inv, [Next]_vars PROVE Inv'
  OBVIOUS
<1>types. /\ nextId \in Nat \ {0} /\ rows \subseteq Relationship /\ clean \in BOOLEAN
          /\ agreed \subseteq Ids \X User /\ asked \subseteq Ids \X User \X User
          /\ list \in [User -> SUBSET Ids]
  BY DEF Inv, TypeOK, Ids
<1>idle. ASSUME NEW r \in Request, req' = [req EXCEPT ![r] = Idle],
                UNCHANGED <<rows, nextId, list, asked, agreed, clean>>
         PROVE  Inv'
  <2>1. \A x \in Request : req'[x] = Idle \/ req'[x] = req[x]
    BY <1>idle DEF Inv, TypeOK
  <2>2. TypeOK'
    BY <1>idle DEF Inv, TypeOK
  <2>3. Consent'
    BY <1>idle, <2>1 DEF Inv, Consent, ConsentGiven, Carries, Known
  <2>4. QED BY <2>2, <2>3 DEF Inv
<1>written. ASSUME NEW r \in Request, NEW table, Write(r, table)
            PROVE  /\ rows' = table /\ UNCHANGED <<list, agreed>> /\ clean' \in BOOLEAN
                   /\ \A x \in Request : req'[x] \in {Overtaken(table)[x], Idle}
                   /\ req' = [x \in Request |-> req'[x]]
  BY <1>written DEF Write, Overtaken
<1>1. ASSUME NEW r \in Request, NEW u \in User, NEW v \in User, Send(r, u, v) PROVE Inv'
  <2> DEFINE row == [id |-> 0, from |-> u, to |-> v, status |-> "pending"]
  <2>1. row \in Relationship /\ row.from # row.to /\ row.status = "pending"
    BY <1>1 DEF Send, Relationship
  <2>2. Start(r, "creating", row) /\ UNCHANGED <<rows, nextId, list, asked, agreed, clean>>
    BY <1>1 DEF Send
  <2> HIDE DEF row
  <2>3. QED BY <1>types, <2>1, <2>2, StartStep
<1>2. ASSUME NEW r \in Request, NEW u \in User, NEW id \in list[u], Approve(r, u, id) PROVE Inv'
  <2>1. PICK x \in Approvable(u, id) : Start(r, "updating", Approved(x))
    BY <1>2 DEF Approve
  <2>2. x \in rows /\ x.id = id /\ x.to = u /\ x \in Relationship
    BY <1>types DEF Approvable
  <2>3. /\ Approved(x) \in Relationship /\ Approved(x).from = x.from /\ Approved(x).to = x.to
        /\ Approved(x).id = x.id /\ Approved(x).status = "friends"
    BY <2>2 DEF Approved, Relationship
  <2>4. Known(x) /\ x.from # x.to
    BY <2>2 DEF Inv, Consent, ConsentGiven, Known
  <2>5. Known(Approved(x)) /\ Approved(x).from # Approved(x).to
    BY <2>3, <2>4 DEF Known
  <2>6. agreed' = agreed \union {<<id, u>>} /\ UNCHANGED <<rows, nextId, list, asked, clean>>
    BY <1>2 DEF Approve
  <2>7. id \in Ids
    BY <1>types
  <2>8. agreed' \subseteq Ids \X User /\ <<Approved(x).id, Approved(x).to>> \in agreed'
    BY <1>types, <2>2, <2>3, <2>6, <2>7
  <2>9. QED BY <1>types, <2>1, <2>3, <2>5, <2>6, <2>8, StartStep
<1>3. ASSUME NEW u \in User, Fetch(u) PROVE Inv'
  <2>1. {x.id : x \in {y \in rows : u \in Pair(y)}} \subseteq Ids
    BY DEF Inv, TypeOK, Ids
  <2>2. list' \in [User -> SUBSET Ids]
    BY <1>3, <1>types, <2>1 DEF Fetch
  <2>3. UNCHANGED <<rows, nextId, req, asked, agreed, clean>>
    BY <1>3 DEF Fetch
  <2>4. TypeOK'
    BY <2>2, <2>3 DEF Inv, TypeOK, Ids
  <2>5. Consent'
    BY <2>3 DEF Inv, Consent, ConsentGiven, Carries, Known
  <2>6. QED BY <2>4, <2>5 DEF Inv
<1>flight. ASSUME NEW r \in Request, req[r].pc \in {"creating", "updating", "inserting"}
           PROVE  req[r].row \in Relationship /\ Carries(req[r])
  BY <1>flight, InFlight DEF Inv, Consent
<1>4. ASSUME NEW r \in Request, Create(r) PROVE Inv'
  <2> DEFINE row == [req[r].row EXCEPT !.id = nextId]
             new == <<nextId, row.from, row.to>>
  <2>1. /\ nextId' = nextId + 1 /\ Fits(row) /\ Write(r, rows \union {row})
        /\ asked' = asked \union {new} /\ req[r].pc = "creating"
    BY <1>4 DEF Create
  <2>2. /\ row \in Relationship /\ row.id = nextId /\ row.status = "pending"
        /\ row.from # row.to /\ row.from \in User /\ row.to \in User
    BY <1>types, <1>flight, <2>1 DEF Relationship, Carries
  <2> HIDE DEF row
  <2>3. \A x \in rows : x.id \in Ids
    BY DEF Inv, TypeOK, Ids
  <2>4. \A a \in asked : a[1] \in Ids
    BY <1>types
  <2>5. nextId \notin Ids /\ nextId \in 1..(nextId' - 1) /\ Ids \subseteq 1..(nextId' - 1)
    BY <1>types, <2>1 DEF Ids
  <2>6. asked' \subseteq (1..(nextId' - 1)) \X User \X User
    <3>1. asked \subseteq (1..(nextId' - 1)) \X User \X User
      BY <1>types, <2>5
    <3>2. new \in (1..(nextId' - 1)) \X User \X User
      BY <2>2, <2>5
    <3>3. QED BY <2>1, <3>1, <3>2
  <2>7. \A a, b \in asked' : a[1] = b[1] => a = b
    <3>1. new[1] = nextId
      OBVIOUS
    <3>2. QED BY <2>1, <2>4, <2>5, <3>1 DEF Inv, Consent
  <2>8. \A x, y \in rows \union {row} : x.id = y.id \/ (x.from = y.from /\ x.to = y.to) => x = y
    BY <2>1, <2>2, <2>3, <2>5 DEF Fits, Inv, TypeOK
  <2>9. \A x \in rows \union {row} : /\ <<x.id, x.from, x.to>> \in asked'
                                     /\ x.status = "friends" => <<x.id, x.to>> \in agreed
                                     /\ x.from # x.to
    BY <2>1, <2>2 DEF Inv, Consent, ConsentGiven
  <2>10. \A x \in rows \union {row} : x.id \in 1..(nextId' - 1)
    BY <2>2, <2>3, <2>5
  <2>11. rows \union {row} \in SUBSET Relationship
    BY <1>types, <2>2
  <2>12. QED BY <1>written, <2>1, <2>6, <2>7, <2>8, <2>9, <2>10, <2>11, WriteStep
<1>saved. ASSUME NEW r \in Request, req[r].pc \in {"updating", "inserting"},
                 NEW old \in SUBSET rows, Write(r, (rows \ old) \union {req[r].row}),
                 UNCHANGED <<nextId, asked>>,
                 \A x \in rows \ old : x.id # req[r].row.id
                                       /\ ~(x.from = req[r].row.from /\ x.to = req[r].row.to)
          PROVE  Inv'
  <2> DEFINE row == req[r].row
             table == (rows \ old) \union {row}
  <2>1. row \in Relationship /\ row.from # row.to /\ Known(row) /\ <<row.id, row.to>> \in agreed
    BY <1>flight, <1>saved DEF Carries
  <2>2. row.id \in Ids
    BY <1>types, <2>1 DEF Known
  <2>3. \A x, y \in table : x.id = y.id \/ (x.from = y.from /\ x.to = y.to) => x = y
    BY <1>saved DEF Inv, TypeOK
  <2>4. \A x \in table : /\ <<x.id, x.from, x.to>> \in asked
                         /\ x.status = "friends" => <<x.id, x.to>> \in agreed
                         /\ x.from # x.to /\ x.id \in Ids
    BY <2>1, <2>2 DEF Known, Inv, Consent, ConsentGiven, TypeOK, Ids
  <2>5. table \in SUBSET Relationship
    BY <1>types, <2>1
  <2>6. \A a, b \in asked : a[1] = b[1] => a = b
    BY DEF Inv, Consent
  <2> HIDE DEF row
  <2>7. QED BY <1>types, <1>written, <1>saved, <2>3, <2>4, <2>5, <2>6, WriteStep DEF Ids, row
<1>5. ASSUME NEW r \in Request, Update(r) PROVE Inv'
  <2> DEFINE row == req[r].row
             old == {x \in rows : x.id = row.id}
  <2>1. req[r].pc = "updating" /\ UNCHANGED <<nextId, asked>>
    BY <1>5 DEF Update
  <2>2. CASE old # {} /\ Write(r, (rows \ old) \union {row})
    <3>1. PICK z \in rows : z.id = row.id
      BY <2>2
    <3>2. z.from = row.from /\ z.to = row.to
      <4>1. Known(z) /\ Known(row)
        BY <1>flight, <2>1 DEF Inv, Consent, ConsentGiven, Known, Carries
      <4>2. <<z.id, z.from, z.to>> = <<row.id, row.from, row.to>>
        BY <3>1, <4>1 DEF Known, Inv, Consent
      <4>3. QED BY <4>2
    <3>3. \A x \in rows \ old : x.id # row.id /\ ~(x.from = row.from /\ x.to = row.to)
      BY <3>1, <3>2 DEF Inv, TypeOK
    <3>4. QED BY <2>1, <2>2, <3>3, <1>saved
  <2>3. CASE req' = [req EXCEPT ![r].pc = "inserting"] /\ UNCHANGED <<rows, list, agreed, clean>>
    <3>1. req[r] \in Working /\ Carries(req[r])
      BY <1>flight, <2>1, InFlight DEF Inv
    <3>2. req' = [req EXCEPT ![r] = [req[r] EXCEPT !.pc = "inserting"]]
      BY <2>3
    <3>3. [req[r] EXCEPT !.pc = "inserting"] \in Working
      BY <3>1 DEF Working
    <3>4. TypeOK'
      BY <2>1, <2>3, <3>2, <3>3 DEF Inv, TypeOK
    <3>5. ASSUME NEW x \in Request, req'[x] # Idle PROVE Carries(req[x])'
      <4>1. CASE x = r
        <5>1. req'[x].row = req[x].row /\ req'[x].pc = "inserting"
          BY <3>1, <3>2, <4>1 DEF Inv, TypeOK, Working
        <5>2. QED BY <2>1, <2>3, <3>1, <4>1, <5>1 DEF Carries, Known
      <4>2. CASE x # r
        <5>1. req'[x] = req[x]
          BY <3>2, <4>2 DEF Inv, TypeOK
        <5>2. QED BY <2>1, <2>3, <3>5, <5>1 DEF Inv, Consent, Carries, Known
      <4>3. QED BY <4>1, <4>2
    <3>6. Consent'
      BY <2>1, <2>3, <3>5 DEF Inv, Consent, ConsentGiven
    <3>7. QED BY <3>4, <3>6 DEF Inv
  <2>4. QED BY <1>5, <2>2, <2>3 DEF Update
<1>6. ASSUME NEW r \in Request, Insert(r) PROVE Inv'
  <2>1. /\ req[r].pc = "inserting" /\ Write(r, (rows \ {}) \union {req[r].row})
        /\ UNCHANGED <<nextId, asked>> /\ Fits(req[r].row)
    BY <1>6 DEF Insert
  <2>2. \A x \in rows \ {} : x.id # req[r].row.id
                            /\ ~(x.from = req[r].row.from /\ x.to = req[r].row.to)
    BY <2>1 DEF Fits
  <2>3. {} \in SUBSET rows
    OBVIOUS
  <2>4. QED BY <2>1, <2>2, <2>3, <1>saved
<1>7. ASSUME NEW r \in Request, Fail(r) PROVE Inv'
  BY <1>7, <1>idle DEF Fail
<1>8. ASSUME NEW u \in User, NEW id \in list[u], Remove(u, id) PROVE Inv'
  <2>1. PICK x \in rows : rows' = rows \ {x} /\ req' = Overtaken(rows \ {x})
    BY <1>8 DEF Remove
  <2>2. UNCHANGED <<nextId, list, asked, agreed, clean>>
    BY <1>8 DEF Remove
  <2>3. req' = [y \in Request |-> req'[y]] /\ \A y \in Request : req'[y] \in {Overtaken(rows \ {x})[y], Idle}
    BY <2>1 DEF Overtaken
  <2>4. rows \ {x} \in SUBSET Relationship
    BY <1>types
  <2>5. /\ \A y, z \in rows : y.id = z.id \/ (y.from = z.from /\ y.to = z.to) => y = z
        /\ \A y \in rows : /\ <<y.id, y.from, y.to>> \in asked
                           /\ y.status = "friends" => <<y.id, y.to>> \in agreed
                           /\ y.from # y.to /\ y.id \in Ids
        /\ \A a, b \in asked : a[1] = b[1] => a = b
    BY DEF Inv, TypeOK, Consent, ConsentGiven, Ids
  <2>6. /\ nextId' \in {nextId, nextId + 1} /\ clean' \in BOOLEAN
        /\ asked \subseteq asked' /\ asked' \subseteq (1..(nextId' - 1)) \X User \X User
        /\ \A a, b \in asked' : a[1] = b[1] => a = b
    BY <1>types, <2>2, <2>5 DEF Ids
  <2>7. \A y \in rows \ {x} : /\ <<y.id, y.from, y.to>> \in asked'
                              /\ y.status = "friends" => <<y.id, y.to>> \in agreed
                              /\ y.from # y.to /\ y.id \in 1..(nextId' - 1)
    BY <2>2, <2>5 DEF Ids
  <2>8. UNCHANGED <<list, agreed>>
    BY <2>2
  <2>9. QED BY <2>1, <2>3, <2>4, <2>5, <2>6, <2>7, <2>8, WriteStep
<1>9. CASE UNCHANGED vars
  BY <1>9 DEF vars, Inv, TypeOK, Consent, ConsentGiven, Carries, Known
<1>10. QED
  BY <1>1, <1>2, <1>3, <1>4, <1>5, <1>6, <1>7, <1>8, <1>9 DEF Next, Serve

\* An empty table.
LEMMA InitInv == Init => Inv
<1> SUFFICES ASSUME Init PROVE Inv
  OBVIOUS
<1>1. TypeOK
  BY DEF Init, TypeOK
<1>2. Consent
  BY DEF Init, Consent, ConsentGiven
<1>3. QED BY <1>1, <1>2 DEF Inv

\* The keys of the table are unique, and everything is well typed.
THEOREM FriendsTypes == Spec => []TypeOK
<1>1. Inv => TypeOK
  BY DEF Inv
<1>2. QED BY InitInv, InvStep, <1>1, PTL DEF Spec

\* Whatever requests overlap or are lost, a friendship was asked for by the one
\* and approved by the other.
THEOREM FriendsConsent == Spec => []ConsentGiven
<1>1. Inv => ConsentGiven
  BY DEF Inv, Consent
<1>2. QED BY InitInv, InvStep, <1>1, PTL DEF Spec

-----------------------------------------------------------------------------
(* Until a request writes that was overtaken, every step is promised.      *)

\* What a request in flight that was not overtaken relies on.
Current(q) ==
  /\ q.pc = "creating" => Of(Pair(q.row), rows) = {}
  /\ q.pc = "updating" => \E x \in rows : x.id = q.row.id /\ q.row = Approved(x)
  /\ q.pc # "inserting"

CurrentInv == \A r \in Request : req[r] # Idle => req[r].overtaken \/ Current(req[r])

\* The relationship of a row.
TieOf(x) == [from |-> x.from, to |-> x.to, status |-> x.status]

\* A row and its relationship have the same users, who identify them.
LEMMA TieFacts ==
  ASSUME Inv, NEW x \in rows, NEW y \in rows
  PROVE  TieOf(x) = TieOf(y) => x = y
  BY DEF TieOf, Inv, TypeOK

\* A request stays current while the relationships of its users stay.
LEMMA CurrentStays ==
  ASSUME Inv, NEW q \in Working, Current(q),
         Of(Pair(q.row), rows') = Of(Pair(q.row), rows)
  PROVE  Current(q)'
<1>1. q.pc = "creating" => Of(Pair(q.row), rows') = {}
  BY DEF Current
<1>2. ASSUME q.pc = "updating" PROVE \E x \in rows' : x.id = q.row.id /\ q.row = Approved(x)
  <2>1. PICK x \in rows : x.id = q.row.id /\ q.row = Approved(x)
    BY <1>2 DEF Current
  <2>2. q.row.from = x.from /\ q.row.to = x.to
    BY <2>1 DEF Approved, Inv, TypeOK, Relationship
  <2>3. x \in Of(Pair(q.row), rows)
    BY <2>2 DEF Of, Pair
  <2>4. QED BY <2>1, <2>3 DEF Of
<1>3. QED BY <1>1, <1>2 DEF Current

\* What a write or a DELETE leaves of the other requests is overtaken or current.
LEMMA CurrentAfterWrite ==
  ASSUME Inv, CurrentInv, NEW table, rows' = table,
         \A x \in Request : req'[x] \in {Overtaken(table)[x], Idle}
  PROVE  CurrentInv'
<1> SUFFICES ASSUME NEW x \in Request, req'[x] # Idle, ~req'[x].overtaken
             PROVE  Current(req[x])'
  BY DEF CurrentInv
<1> DEFINE q == Overtaken(table)[x]
<1>1. req'[x] = q
  OBVIOUS
<1>2. /\ q \in Working \union {Idle}
      /\ q = Idle <=> req[x] = Idle
      /\ \/ q = req[x] /\ (q # Idle => Of(Pair(q.row), table) = Of(Pair(q.row), rows))
         \/ q # Idle /\ q.overtaken = TRUE
  BY OvertakenFields DEF Inv
<1> HIDE DEF q
<1>3. q = req[x] /\ q # Idle /\ q \in Working /\ Of(Pair(q.row), table) = Of(Pair(q.row), rows)
  BY <1>1, <1>2
<1>4. PICK c \in Working : c = req[x]
  BY <1>3
<1>5. req'[x] = c /\ Of(Pair(c.row), rows') = Of(Pair(c.row), rows)
  BY <1>1, <1>3, <1>4
<1>6. Current(c)
  BY <1>1, <1>3, <1>4 DEF CurrentInv
<1>7. Current(c)'
  BY <1>4, <1>5, <1>6, CurrentStays
<1>8. QED BY <1>5, <1>7 DEF Current

\* A request that is started is current, and so are the others.
LEMMA CurrentAfterStart ==
  ASSUME Inv, CurrentInv, NEW r \in Request, NEW pc, NEW row, Start(r, pc, row), UNCHANGED rows,
         pc \in {"creating", "updating"},
         pc = "creating" => Of(Pair(row), rows) = {},
         pc = "updating" => \E x \in rows : x.id = row.id /\ row = Approved(x)
  PROVE  CurrentInv'
<1> DEFINE new == [pc |-> pc, row |-> row, overtaken |-> FALSE]
<1>1. req' = [req EXCEPT ![r] = new]
  BY DEF Start
<1>2. Current(new)
  BY DEF Current
<1> HIDE DEF new
<1>3. \A x \in Request : req'[x] = IF x = r THEN new ELSE req[x]
  BY <1>1 DEF Inv, TypeOK
<1>4. ASSUME NEW x \in Request, req'[x] # Idle PROVE req'[x].overtaken \/ Current(req[x])'
  BY <1>2, <1>3, <1>4 DEF CurrentInv, Current
<1>5. QED BY <1>4 DEF CurrentInv

\* Every step leaves the requests that are not overtaken current.
LEMMA CurrentStep == Inv /\ CurrentInv /\ [Next]_vars => CurrentInv'
<1> SUFFICES ASSUME Inv, CurrentInv, [Next]_vars PROVE CurrentInv'
  OBVIOUS
<1>written. ASSUME NEW r \in Request, NEW table, Write(r, table) PROVE CurrentInv'
  <2>1. rows' = table /\ \A x \in Request : req'[x] \in {Overtaken(table)[x], Idle}
    BY <1>written DEF Write, Overtaken
  <2>2. QED BY <2>1, CurrentAfterWrite
<1>1. ASSUME NEW r \in Request, NEW u \in User, NEW v \in User, Send(r, u, v) PROVE CurrentInv'
  <2> DEFINE row == [id |-> 0, from |-> u, to |-> v, status |-> "pending"]
  <2>1. Start(r, "creating", row) /\ UNCHANGED rows /\ Between(u, v) = {}
    BY <1>1 DEF Send
  <2>2. Of(Pair(row), rows) = {}
    BY <2>1 DEF Between, Of, Pair
  <2> HIDE DEF row
  <2>3. QED BY <2>1, <2>2, CurrentAfterStart
<1>2. ASSUME NEW r \in Request, NEW u \in User, NEW id \in list[u], Approve(r, u, id)
      PROVE  CurrentInv'
  <2>1. PICK x \in Approvable(u, id) : Start(r, "updating", Approved(x))
    BY <1>2 DEF Approve
  <2>2. x \in rows /\ x \in Relationship /\ UNCHANGED rows
    BY <1>2 DEF Approvable, Approve, Inv, TypeOK
  <2>3. Approved(x).id = x.id
    BY <2>2 DEF Approved, Relationship
  <2>4. \E y \in rows : y.id = Approved(x).id /\ Approved(x) = Approved(y)
    BY <2>2, <2>3
  <2>5. QED BY <2>1, <2>2, <2>4, CurrentAfterStart
<1>same. ASSUME UNCHANGED rows,
                \A x \in Request : req'[x] # Idle => req'[x] = req[x] \/ req'[x].overtaken
         PROVE  CurrentInv'
  <2>1. ASSUME NEW x \in Request, req'[x] # Idle PROVE req'[x].overtaken \/ Current(req[x])'
    BY <1>same, <2>1 DEF CurrentInv, Current
  <2>2. QED BY <2>1 DEF CurrentInv
<1>3. ASSUME NEW u \in User, Fetch(u) PROVE CurrentInv'
  BY <1>3, <1>same DEF Fetch
<1>4. ASSUME NEW r \in Request, Create(r) PROVE CurrentInv'
  BY <1>4, <1>written DEF Create
<1>5. ASSUME NEW r \in Request, Update(r) PROVE CurrentInv'
  <2>1. CASE {x \in rows : x.id = req[r].row.id} # {}
    BY <1>5, <1>written, <2>1 DEF Update
  <2>2. CASE {x \in rows : x.id = req[r].row.id} = {}
    <3>1. req[r].pc = "updating" /\ UNCHANGED rows /\ req' = [req EXCEPT ![r].pc = "inserting"]
      BY <1>5, <2>2 DEF Update
    <3>2. req[r] \in Working /\ req[r] # Idle
      BY <3>1, InFlight DEF Inv
    <3>3. req[r].overtaken
      BY <2>2, <3>1, <3>2 DEF CurrentInv, Current
    <3>4. \A x \in Request : req'[x] = IF x = r THEN [req[r] EXCEPT !.pc = "inserting"] ELSE req[x]
      BY <3>1 DEF Inv, TypeOK
    <3>5. [req[r] EXCEPT !.pc = "inserting"].overtaken
      BY <3>2, <3>3 DEF Working
    <3>6. QED BY <3>1, <3>4, <3>5, <1>same
  <2>3. QED BY <2>1, <2>2
<1>6. ASSUME NEW r \in Request, Insert(r) PROVE CurrentInv'
  BY <1>6, <1>written DEF Insert
<1>7. ASSUME NEW r \in Request, Fail(r) PROVE CurrentInv'
  <2>1. UNCHANGED rows /\ \A x \in Request : req'[x] = IF x = r THEN Idle ELSE req[x]
    BY <1>7 DEF Fail, Inv, TypeOK
  <2>2. QED BY <2>1, <1>same
<1>8. ASSUME NEW u \in User, NEW id \in list[u], Remove(u, id) PROVE CurrentInv'
  <2>1. PICK x \in rows : rows' = rows \ {x} /\ req' = Overtaken(rows \ {x})
    BY <1>8 DEF Remove
  <2>2. QED BY <2>1, CurrentAfterWrite
<1>9. CASE UNCHANGED vars
  BY <1>9, <1>same DEF vars
<1>10. QED
  BY <1>1, <1>2, <1>3, <1>4, <1>5, <1>6, <1>7, <1>8, <1>9 DEF Next, Serve

\* What the step of a request that was not overtaken does is promised.
LEMMA StepIsPromised ==
  ASSUME Inv, CurrentInv, Next, clean', rows' # rows
  PROVE  Promise!Next
<1>types. rows \subseteq Relationship
  BY DEF Inv, TypeOK
<1>ties. /\ Ties = {TieOf(x) : x \in rows}
         /\ Ties' = {TieOf(x) : x \in rows'}
  BY DEF Ties, TieOf
<1>fresh. ASSUME NEW r \in Request, NEW table, Write(r, table), req[r].pc \in {"creating", "updating", "inserting"}
          PROVE  rows' = table /\ Current(req[r]) /\ req[r] \in Working /\ Carries(req[r])
  <2>1. rows' = table /\ ~req[r].overtaken
    BY <1>fresh DEF Write
  <2>2. QED BY <1>fresh, <2>1, InFlight DEF CurrentInv, Inv, Consent
<1>1. ASSUME NEW r \in Request, Create(r) PROVE Promise!Next
  <2> DEFINE old == req[r].row
             row == [old EXCEPT !.id = nextId]
  <2>1. Write(r, rows \union {row}) /\ req[r].pc = "creating"
    BY <1>1 DEF Create
  <2>2. rows' = rows \union {row} /\ Of(Pair(old), rows) = {} /\ old \in Relationship
        /\ old.from # old.to /\ old.status = "pending"
    BY <1>fresh, <2>1 DEF Current, Carries, Working
  <2>3. TieOf(row) = [from |-> old.from, to |-> old.to, status |-> "pending"]
    BY <2>2 DEF TieOf, Relationship
  <2>4. old.from \in User /\ old.to \in User
    BY <2>2 DEF Relationship
  <2> HIDE DEF row, old
  <2>5. \A t \in Ties : {t.from, t.to} # {old.from, old.to}
    BY <1>ties, <2>2 DEF TieOf, Of, Pair
  <2>6. Ties' = Ties \union {TieOf(row)}
    BY <1>ties, <2>2
  <2>7. Promise!Ask(old.from, old.to)
    BY <2>3, <2>5, <2>6 DEF Promise!Ask, Promise!Tie
  <2>8. QED BY <2>2, <2>4, <2>7 DEF Promise!Next
<1>2. ASSUME NEW r \in Request, Update(r) PROVE Promise!Next
  <2> DEFINE row == req[r].row
             old == {x \in rows : x.id = row.id}
  <2>1. Write(r, (rows \ old) \union {row}) /\ req[r].pc = "updating"
    BY <1>2 DEF Update
  <2>2. rows' = (rows \ old) \union {row} /\ row.from # row.to
    BY <1>fresh, <2>1 DEF Carries
  <2>3. PICK x \in rows : x.id = row.id /\ row = Approved(x)
    BY <1>fresh, <2>1 DEF Current
  <2>4. old = {x}
    BY <2>3 DEF Inv, TypeOK
  <2>5. x \in Relationship
    BY <1>types
  <2>6. x.status = "pending"
    <3>1. ASSUME x.status = "friends" PROVE FALSE
      <4>1. row = x
        BY <2>3, <2>5, <3>1 DEF Approved, Relationship
      <4>2. rows' = rows
        BY <2>2, <2>4, <4>1
      <4>3. QED BY <4>2
    <3>2. QED BY <2>5, <3>1 DEF Relationship
  <2>7. /\ TieOf(x) = [from |-> x.from, to |-> x.to, status |-> "pending"]
        /\ TieOf(row) = [from |-> x.from, to |-> x.to, status |-> "friends"]
        /\ row.from = x.from /\ row.to = x.to /\ x.from \in User /\ x.to \in User
    BY <2>3, <2>5, <2>6 DEF TieOf, Approved, Relationship
  <2> HIDE DEF row, old
  <2>8. rows' = (rows \ {x}) \union {row}
    BY <2>2, <2>4
  <2>9. \A y \in rows : TieOf(y) = TieOf(x) => y = x
    BY TieFacts
  <2>10. Ties' = (Ties \ {TieOf(x)}) \union {TieOf(row)}
    BY <1>ties, <2>8, <2>9
  <2>11. TieOf(x) \in Ties
    BY <1>ties
  <2>12. Promise!Approve(x.to, x.from)
    BY <2>7, <2>10, <2>11 DEF Promise!Approve, Promise!Tie
  <2>13. QED BY <2>2, <2>7, <2>12 DEF Promise!Next
<1>3. ASSUME NEW r \in Request, Insert(r) PROVE FALSE
  BY <1>3, <1>fresh DEF Insert, Current
<1>4. ASSUME NEW u \in User, NEW id \in list[u], Remove(u, id) PROVE Promise!Next
  <2>1. PICK x \in rows : rows' = rows \ {x}
    BY <1>4 DEF Remove
  <2>2. x \in Relationship /\ x.from # x.to
    BY <1>types DEF Inv, Consent
  <2>3. \A y \in rows : TieOf(y) = TieOf(x) => y = x
    BY TieFacts
  <2>4. Ties' = Ties \ {TieOf(x)} /\ TieOf(x) \in Ties
    BY <1>ties, <2>1, <2>3
  <2>5. TieOf(x).from = x.from /\ TieOf(x).to = x.to
    BY DEF TieOf
  <2>6. Promise!Part(x.from, x.to)
    BY <2>4, <2>5 DEF Promise!Part
  <2>7. QED BY <2>2, <2>6 DEF Promise!Next, Relationship
<1>5. ASSUME NEW r \in Request, Fail(r) PROVE FALSE
  BY <1>5 DEF Fail
<1>6. ASSUME NEW r \in Request, NEW u \in User, NEW v \in User, Send(r, u, v) PROVE FALSE
  BY <1>6 DEF Send
<1>7. ASSUME NEW r \in Request, NEW u \in User, NEW id \in list[u], Approve(r, u, id) PROVE FALSE
  BY <1>7 DEF Approve
<1>8. ASSUME NEW u \in User, Fetch(u) PROVE FALSE
  BY <1>8 DEF Fetch
<1>9. QED
  BY <1>1, <1>2, <1>3, <1>4, <1>5, <1>6, <1>7, <1>8 DEF Next, Serve

\* Until a request writes that was overtaken, the queries of each request are
\* one step of a friendship.
THEOREM FriendsKeepPromise == Spec => CleanStepsArePromised
<1>1. Init => CurrentInv
  BY DEF Init, CurrentInv
<1>2. Inv /\ CurrentInv /\ [Next]_vars => [clean' => [Promise!Next]_Ties]_rows
  <2> SUFFICES ASSUME Inv, CurrentInv, [Next]_vars, rows' # rows, clean'
               PROVE  Promise!Next
    OBVIOUS
  <2>1. CASE Next
    BY <2>1, StepIsPromised
  <2>2. CASE UNCHANGED vars
    BY <2>2 DEF vars
  <2>3. QED BY <2>1, <2>2
<1>3. QED
  BY InitInv, InvStep, CurrentStep, <1>1, <1>2, PTL DEF Spec, CleanStepsArePromised
=============================================================================
