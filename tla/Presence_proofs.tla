--------------------------- MODULE Presence_proofs ---------------------------
(***************************************************************************)
(* Proofs about the presence of a user, for any sockets and pages.         *)
(***************************************************************************)
EXTENDS Presence, TLAPS

\* Sockets whose consumer has yet to delete the mark, to unset the column, and
\* to say goodbye.
ToDrop == {s \in Socket : pc[s] \in Up \union {"drop"}}
ToUnflag == {s \in Socket : pc[s] \in Up \union {"drop", "grace", "unflag"}}
ToLeave == {s \in Socket : pc[s] \in Up \union Ending}

(***************************************************************************)
(* Whatever says that the user is online, some consumer is going to take   *)
(* it back.  This is what lets a consumer return early: the mark that it   *)
(* finds is one that another consumer has yet to delete.                   *)
(***************************************************************************)
Owed ==
  /\ cache => ToDrop # {}
  /\ is_online => ToUnflag # {}
  /\ \A p \in Page \ deaf : shown[p] => ToLeave # {}

Inv == TypeOK /\ Owed

LEMMA InitInv == Init => Inv
BY DEF Init, Inv, TypeOK, Owed

\* A step of a socket into or within a set keeps the set from being empty.
LEMMA StillOwed ==
  ASSUME TypeOK, NEW s \in Socket, NEW from, NEW to, Goes(s, from, to)
  PROVE  /\ to \in Up \union {"drop"} => ToDrop' # {}
         /\ to \in Up \union {"drop", "grace", "unflag"} => ToUnflag' # {}
         /\ to \in Up \union Ending => ToLeave' # {}
         /\ \A t \in Socket \ {s} : pc'[t] = pc[t]
         /\ pc'[s] = to
<1>1. pc'[s] = to /\ \A t \in Socket \ {s} : pc'[t] = pc[t]
  BY DEF TypeOK, Goes
<1>2. QED
  BY <1>1 DEF ToDrop, ToUnflag, ToLeave

LEMMA UpStep ==
  ASSUME Inv, NEW s \in Socket, Connect(s) \/ Mark(s) \/ Flag(s) \/ Greet(s) \/ Heartbeat(s) \/ Beat(s) \/ Remark(s)
  PROVE  Inv'
<1>1. PICK from, to : Goes(s, from, to) /\ to \in Up
  BY DEF Connect, Mark, Flag, Greet, Heartbeat, Beat, Remark, Up
<1>2. ToDrop' # {} /\ ToUnflag' # {} /\ ToLeave' # {}
  BY <1>1, StillOwed DEF Inv
<1>3. TypeOK'
  BY <1>1 DEF Inv, TypeOK, Goes, Up, Ending, Connect, Mark, Flag, Greet, Heartbeat, Beat, Remark, Broadcast
<1>4. QED
  BY <1>2, <1>3 DEF Inv, Owed

LEMMA EndStep == ASSUME Inv, NEW s \in Socket, End(s) PROVE Inv'
<1>1. Goes(s, "open", "drop")
  BY DEF End
<1>2. ToDrop' # {} /\ ToUnflag' # {} /\ ToLeave' # {}
  BY <1>1, StillOwed DEF Inv, Ending
<1>3. TypeOK'
  BY DEF Inv, TypeOK, Goes, Up, Ending, End
<1>4. QED
  BY <1>2, <1>3 DEF Inv, Owed

LEMMA DropStep == ASSUME Inv, NEW s \in Socket, Drop(s) PROVE Inv'
<1>1. Goes(s, "drop", "grace")
  BY DEF Drop
<1>2. ToUnflag' # {} /\ ToLeave' # {}
  BY <1>1, StillOwed DEF Inv, Ending
<1>3. TypeOK'
  BY DEF Inv, TypeOK, Goes, Up, Ending, Drop
<1>4. QED
  BY <1>2, <1>3 DEF Inv, Owed, Drop

LEMMA CheckStep == ASSUME Inv, NEW s \in Socket, Check(s) PROVE Inv'
<1>1. TypeOK'
  BY DEF Inv, TypeOK, Goes, Up, Ending, Check
<1>2. CASE cache
  <2>1. Goes(s, "grace", "ended")
    BY <1>2 DEF Check
  <2>2. PICK t \in ToDrop : t # s
    <3>1. PICK t \in ToDrop : TRUE
      BY <1>2 DEF Inv, Owed
    <3>2. pc[s] = "grace"
      BY <2>1 DEF Goes
    <3>3. QED
      BY <3>1, <3>2 DEF ToDrop, Up
  <2>3. t \in Socket /\ pc[t] \in Up \union {"drop"} /\ pc'[t] = pc[t]
    BY <2>1, <2>2, StillOwed DEF Inv, ToDrop
  <2>4. ToDrop' # {} /\ ToUnflag' # {} /\ ToLeave' # {}
    BY <2>3 DEF ToDrop, ToUnflag, ToLeave, Ending
  <2>5. QED
    BY <1>1, <2>4 DEF Inv, Owed
<1>3. CASE ~cache
  <2>1. Goes(s, "grace", "unflag") /\ ~cache'
    BY <1>3 DEF Check
  <2>2. ToUnflag' # {} /\ ToLeave' # {}
    BY <2>1, StillOwed DEF Inv, Ending
  <2>3. QED
    BY <1>1, <2>1, <2>2 DEF Inv, Owed
<1>4. QED
  BY <1>2, <1>3

LEMMA UnflagStep == ASSUME Inv, NEW s \in Socket, Unflag(s) PROVE Inv'
<1>1. Goes(s, "unflag", "goodbye") /\ pc[s] = "unflag"
  BY DEF Unflag, Goes
<1>2. ToLeave' # {}
  BY <1>1, StillOwed DEF Inv, Ending
<1>3. TypeOK'
  BY DEF Inv, TypeOK, Goes, Up, Ending, Unflag
<1>4. cache' => ToDrop' # {}
  <2>1. SUFFICES ASSUME cache PROVE ToDrop' # {}
    BY DEF Unflag
  <2>2. PICK t \in ToDrop : t # s
    BY <1>1, <2>1 DEF Inv, Owed, ToDrop, Up
  <2>3. t \in ToDrop'
    BY <1>1, <2>2, StillOwed DEF Inv, ToDrop
  <2>4. QED
    BY <2>3
<1>5. QED
  BY <1>2, <1>3, <1>4 DEF Inv, Owed, Unflag

LEMMA GoodbyeStep == ASSUME Inv, NEW s \in Socket, Goodbye(s) PROVE Inv'
<1>1. Goes(s, "goodbye", "ended") /\ pc[s] = "goodbye"
  BY DEF Goodbye, Goes
<1>2. TypeOK'
  BY DEF Inv, TypeOK, Goes, Up, Ending, Goodbye, Broadcast
<1>3. cache' => ToDrop' # {}
  <2>1. SUFFICES ASSUME cache PROVE ToDrop' # {}
    BY DEF Goodbye
  <2>2. PICK t \in ToDrop : t # s
    BY <1>1, <2>1 DEF Inv, Owed, ToDrop, Up
  <2>3. t \in ToDrop'
    BY <1>1, <2>2, StillOwed DEF Inv, ToDrop
  <2>4. QED
    BY <2>3
<1>4. is_online' => ToUnflag' # {}
  <2>1. SUFFICES ASSUME is_online PROVE ToUnflag' # {}
    BY DEF Goodbye
  <2>2. PICK t \in ToUnflag : t # s
    BY <1>1, <2>1 DEF Inv, Owed, ToUnflag, Up
  <2>3. t \in ToUnflag'
    BY <1>1, <2>2, StillOwed DEF Inv, ToUnflag
  <2>4. QED
    BY <2>3
<1>5. \A p \in Page \ deaf' : ~shown'[p]
  BY DEF Goodbye, Broadcast
<1>6. QED
  BY <1>2, <1>3, <1>4, <1>5 DEF Inv, Owed

\* A page without socket is owed nothing.
LEMMA BreakStep == ASSUME Inv, NEW p \in Page, Break(p) PROVE Inv'
<1>1. ToDrop' = ToDrop /\ ToUnflag' = ToUnflag /\ ToLeave' = ToLeave
  BY DEF Break, ToDrop, ToUnflag, ToLeave
<1>2. QED
  BY <1>1 DEF Inv, TypeOK, Owed, Break

\* A page is told what the column says, and the column is owed more.
LEMMA LoadStep == ASSUME Inv, NEW p \in Page, Load(p) PROVE Inv'
<1>1. pc' = pc /\ cache' = cache /\ is_online' = is_online /\ group' = group
  BY DEF Load
<1>2. shown' \in [Page -> BOOLEAN] /\ deaf' \subseteq Page
  BY DEF Inv, TypeOK, Load
<1>3. \A q \in Page \ deaf' : shown'[q] => is_online \/ (q \notin deaf /\ shown[q])
  BY DEF Inv, TypeOK, Load
<1>4. ToUnflag \subseteq ToLeave
  BY DEF ToUnflag, ToLeave, Ending
<1>5. ToDrop' = ToDrop /\ ToUnflag' = ToUnflag /\ ToLeave' = ToLeave
  BY <1>1 DEF ToDrop, ToUnflag, ToLeave
<1>6. TypeOK'
  BY <1>1, <1>2 DEF Inv, TypeOK
<1>7. Owed'
  BY <1>1, <1>3, <1>4, <1>5 DEF Inv, Owed
<1>8. QED
  BY <1>6, <1>7 DEF Inv

LEMMA InvHolds == Spec => []Inv
<1>1. Inv /\ [Next]_vars => Inv'
  <2> SUFFICES ASSUME Inv, [Next]_vars PROVE Inv'
    OBVIOUS
  <2>1. CASE \E s \in Socket : Connect(s) \/ Heartbeat(s) \/ End(s) \/ Work(s)
    BY <2>1, UpStep, EndStep, DropStep, CheckStep, UnflagStep, GoodbyeStep DEF Work
  <2>2. CASE \E p \in Page : Break(p) \/ Load(p)
    BY <2>2, BreakStep, LoadStep
  <2>3. CASE UNCHANGED vars
    BY <2>3 DEF Inv, TypeOK, Owed, ToDrop, ToUnflag, ToLeave, vars
  <2>4. QED
    BY <2>1, <2>2, <2>3 DEF Next
<1>2. QED
  BY <1>1, InitInv, PTL DEF Spec

\* Consumers, mark, column and pages have their types.
THEOREM PresenceTypes == Spec => []TypeOK
<1>1. Inv => TypeOK
  BY DEF Inv
<1>2. QED
  BY <1>1, InvHolds, PTL

\* disconnect: a user all of whose sockets have ended is offline in the
\* database and on every page that is connected (GoneIsOffline), however many sockets there were
\* and in whatever order their consumers went on.
THEOREM GoneUserIsOffline == Spec => []GoneIsOffline
<1>1. Inv => GoneIsOffline
  BY DEF Inv, Owed, GoneIsOffline, ToUnflag, ToLeave, Up, Ending
<1>2. QED
  BY <1>1, InvHolds, PTL
==============================================================================
