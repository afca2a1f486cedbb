--------------------------- MODULE MCMarketplace ---------------------------
(***************************************************************************)
(* Instances of Marketplace and of Notices for TLC.  A behaviour is one of *)
(* these: part says which, and the variables of the other stay as they     *)
(* start, where no fair action of it is enabled.                           *)
(***************************************************************************)
EXTENDS Marketplace

CONSTANTS r1, r2, u1, Comments, MaxFaults

VARIABLES part, view, stored, work, timer, socket, inbox, shown, load, marking, faults

noticeVars == <<view, stored, work, timer, socket, inbox, shown, load, marking, faults>>
allVars    == <<vars, noticeVars, part>>

Notice == INSTANCE Notices WITH Loads <- Requests

AllInit ==
    /\ part \in {"listing", "notices"} /\ Init /\ Notice!Init
    /\ part = "listing" => view = "bell"

AllNext ==
    /\ part' = part
    /\ \/ part = "listing" /\ Next /\ UNCHANGED noticeVars
       \/ part = "notices" /\ Notice!Next /\ UNCHANGED vars

AllSpec == AllInit /\ [][AllNext]_allVars /\ Fairness /\ Notice!Fairness

\* Notices!PagesCatchUp: bell and comments come to show what is stored.
PagesCatchUp == Notice!PagesCatchUp
=============================================================================
