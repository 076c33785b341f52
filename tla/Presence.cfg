\* Three connections of one user, in one tab after another or in several tabs.
CONSTANTS
  s1 = s1
  s2 = s2
  s3 = s3
  p1 = p1
  p2 = p2
  Socket = {s1, s2, s3}
  Page = {p1, p2}
SPECIFICATION FairSpec
INVARIANT GoneIsOffline
PROPERTY HeartbeatHeals
\* All sockets have ended and nobody loads a page that shows something else.
CHECK_DEADLOCK FALSE
