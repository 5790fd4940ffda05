-------------------------------- MODULE Site --------------------------------
(***************************************************************************)
(* A server and the pages it shows.  A page is made from one read of its   *)
(* artifact with nothing awaited after it, and shares no state with the    *)
(* rest: it is asked for of a server at rest, and answered before another  *)
(* step.                                                                   *)
(***************************************************************************)
EXTENDS Server, View

site == <<server, reply>>

AtRest == /\ boot = Stage("serving", 1) /\ crashes = 0 /\ ~old
          /\ size = [r \in Rows |-> "none"] /\ NoAttempts /\ sweep = "asleep"

PageAsked == /\ AtRest /\ UNCHANGED server
             /\ \E a \in Artifacts : ViewArtifact(a) \/ ViewArtifactRaw(a)

SiteInit == Init /\ reply = NoReply
SiteNext == \/ reply = NoReply /\ Next /\ UNCHANGED reply
            \/ PageAsked
            \/ Sent /\ UNCHANGED server

SiteSpec == SiteInit /\ [][SiteNext]_site /\ Fairness

=============================================================================
