--------------------------- MODULE MCOnlineSession ---------------------------
(* OnlineSession with one tab of each player, with a second tab of the     *)
(* guest, and with the owner alone.                                        *)
EXTENDS OnlineSession, TLC

CONSTANTS o, g, g2

OneTabEach == o :> Owner @@ g :> Guest
TwoTabs == OneTabEach @@ g2 :> Guest
OnlyOwner == o :> Owner

OwnerTwice == o :> 2 @@ g :> 1
OwnerTwiceTabsOnce == o :> 2 @@ g :> 1 @@ g2 :> 1
OnlyThrice == o :> 3

\* Nothing tells the two tabs of the guest apart.
Tabs == Permutations({g, g2})
=============================================================================
