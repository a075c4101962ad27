--------------------------- MODULE MCFleetClient ---------------------------
(* FleetClient on small instances.                                         *)
EXTENDS FleetClient, TLC

CONSTANTS v1, v2, d1

(* Two vehicles, a driver and two alerts are there.                        *)
MCInitialData ==
    {v1 :> "Available" @@ v2 :> "InTransit" @@ d1 :> "Available"
        @@ 1 :> "new" @@ 2 :> "new"}

(* Requests of these queries may go on after their hooks have left.        *)
MCOutliving == {GetVehicles(""), GetAlerts(FALSE)}
=============================================================================
