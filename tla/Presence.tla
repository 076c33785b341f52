------------------------------ MODULE Presence ------------------------------
(***************************************************************************)
(* The presence of one user: the sockets that the user's pages open to     *)
(* PresenceConsumer of user_service, the mark in the cache, the is_online  *)
(* column, and what the pages of others show (useOnlineStatus).            *)
(*                                                                         *)
(* A consumer handles one event of its socket at a time; consumers of      *)
(* different sockets interleave at every await.  A tab that is closed, a   *)
(* page that is reloaded and a connection that breaks all end a socket;    *)
(* pages open another one when they please.                                *)
(*                                                                         *)
(* There is no time.  A consumer that finds the mark after its grace       *)
(* period has itself deleted it three seconds before, so the mark is       *)
(* younger than its time to live of 30 seconds and never runs out between  *)
(* being needed and being looked at.  last_seen is left out: it is written *)
(* with is_online and nothing here reads it.                               *)
(***************************************************************************)
EXTENDS FiniteSets

CONSTANTS
  Socket,  \* the connections that the user's pages open
  Page     \* the pages of other users

VARIABLES
  pc,         \* what the consumer of each socket does next
  cache,      \* whether ws_presence_<id> is "online"
  is_online,  \* the column
  group,      \* the sockets in the group online_users
  shown,      \* whether the user is in onlineUsers of each page
  deaf        \* the pages whose own socket is broken

vars == <<pc, cache, is_online, group, shown, deaf>>

\* The socket is connected, and its consumer in connect or receive.
Up == {"mark", "flag", "greet", "open", "beat", "remark"}

\* The socket has ended, and its consumer is in disconnect.
Ending == {"drop", "grace", "unflag", "goodbye"}

\* The consumers, the mark, the column, the group and the pages are well typed.
TypeOK ==
  /\ pc \in [Socket -> {"none", "ended"} \union Up \union Ending]
  /\ cache \in BOOLEAN /\ is_online \in BOOLEAN
  /\ group \subseteq Socket
  /\ shown \in [Page -> BOOLEAN] /\ deaf \subseteq Page

Init ==
  /\ pc = [s \in Socket |-> "none"]
  /\ cache = FALSE /\ is_online = FALSE
  /\ group = {}
  /\ shown = [p \in Page |-> FALSE] /\ deaf = {}

Goes(s, from, to) == pc[s] = from /\ pc' = [pc EXCEPT ![s] = to]

\* broadcast_status: a page whose own socket is broken misses it.
Broadcast(online) == shown' = [p \in Page |-> IF p \in deaf THEN shown[p] ELSE online]

-----------------------------------------------------------------------------
(* connect                                                                 *)

Connect(s) ==
  /\ Goes(s, "none", "mark") /\ group' = group \union {s}
  /\ UNCHANGED <<cache, is_online, shown, deaf>>

Mark(s) ==
  /\ Goes(s, "mark", "flag") /\ cache' = TRUE
  /\ UNCHANGED <<is_online, group, shown, deaf>>

Flag(s) ==
  /\ Goes(s, "flag", "greet") /\ is_online' = TRUE
  /\ UNCHANGED <<cache, group, shown, deaf>>

\* broadcast_status("online")
Greet(s) ==
  /\ Goes(s, "greet", "open") /\ Broadcast(TRUE)
  /\ UNCHANGED <<cache, is_online, group, deaf>>

-----------------------------------------------------------------------------
(* receive: the column is set, and then the mark.                          *)

Heartbeat(s) ==
  /\ Goes(s, "open", "beat")
  /\ UNCHANGED <<cache, is_online, group, shown, deaf>>

\* Mutant: only the mark is renewed.
MutBeat(s) ==
  /\ Goes(s, "beat", "remark")
  /\ UNCHANGED <<cache, is_online, group, shown, deaf>>
Beat(s) ==
  /\ Goes(s, "beat", "remark") /\ is_online' = TRUE
  /\ UNCHANGED <<cache, group, shown, deaf>>

Remark(s) ==
  /\ Goes(s, "remark", "open") /\ cache' = TRUE
  /\ UNCHANGED <<is_online, group, shown, deaf>>

-----------------------------------------------------------------------------
(* disconnect                                                              *)

End(s) ==
  /\ Goes(s, "open", "drop")
  /\ UNCHANGED <<cache, is_online, group, shown, deaf>>

\* Mutant: the mark is left to its time to live.
MutDrop(s) ==
  /\ Goes(s, "drop", "grace")
  /\ UNCHANGED <<cache, is_online, group, shown, deaf>>
Drop(s) ==
  /\ Goes(s, "drop", "grace") /\ cache' = FALSE
  /\ UNCHANGED <<is_online, group, shown, deaf>>

\* After three seconds: another socket has set the mark, and this one returns,
\* without group_discard; or nobody has.
Check(s) ==
  /\ IF cache THEN Goes(s, "grace", "ended") ELSE Goes(s, "grace", "unflag")
  /\ UNCHANGED <<cache, is_online, group, shown, deaf>>

Unflag(s) ==
  /\ Goes(s, "unflag", "goodbye") /\ is_online' = FALSE
  /\ UNCHANGED <<cache, group, shown, deaf>>

\* broadcast_status("offline") and group_discard
Goodbye(s) ==
  /\ Goes(s, "goodbye", "ended")
  /\ Broadcast(FALSE) /\ group' = group \ {s}
  /\ UNCHANGED <<cache, is_online, deaf>>

-----------------------------------------------------------------------------
(* The pages of other users.                                               *)

\* A page's own socket breaks; it goes on showing what it has been told.
Break(p) ==
  /\ deaf' = deaf \union {p}
  /\ UNCHANGED <<pc, cache, is_online, group, shown>>

\* A page is loaded, or connects again, and gets initial_status.
Load(p) ==
  /\ shown' = [shown EXCEPT ![p] = is_online] /\ deaf' = deaf \ {p}
  /\ UNCHANGED <<pc, cache, is_online, group>>

Work(s) ==
  \/ Mark(s) \/ Flag(s) \/ Greet(s) \/ Beat(s) \/ Remark(s)
  \/ Drop(s) \/ Check(s) \/ Unflag(s) \/ Goodbye(s)

Next ==
  \/ \E s \in Socket : Connect(s) \/ Heartbeat(s) \/ End(s) \/ Work(s)
  \/ \E p \in Page : Break(p) \/ Load(p)

Spec == Init /\ [][Next]_vars

\* Consumers go on, and a socket that stays open is heard of every 30 seconds.
\* Nobody has to connect, to end, to break or to load.
Fairness == \A s \in Socket : WF_vars(Work(s)) /\ WF_vars(Heartbeat(s))

FairSpec == Spec /\ Fairness

(***************************************************************************)
(* Properties                                                              *)
(***************************************************************************)

Connected == \E s \in Socket : pc[s] \in Up

\* disconnect: when the last socket has ended and its consumer is done, the
\* user is neither flagged nor shown online, whichever of the consumers found
\* the mark of which other one and returned early, and whenever a page has lost
\* its own socket and connected again.
GoneIsOffline ==
  (\A s \in Socket : pc[s] \in {"none", "ended"}) => ~is_online /\ \A p \in Page \ deaf : ~shown[p]

\* receive: the column of a user who stays connected ends up set for good,
\* although an older socket may unset it after the newer one has set it.
HeartbeatHeals == <>[]Connected => <>[]is_online
=============================================================================
