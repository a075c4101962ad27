-------------------------- MODULE FleetClientProofs --------------------------
(***************************************************************************)
(* FleetClient proved for any vehicles, drivers, alerts and statuses, any  *)
(* data and any number of clicks and upsets.                               *)
(***************************************************************************)
EXTENDS FleetClient, TLAPS

USE IdsAssumption, CountsAssumption, BoundsAssumption, DataAssumption DEF cacheVars, requestVars

(* The queries of a page, and the one query of any page but the dashboard. *)
LEMMA HooksQueries ==
    ASSUME NEW s \in Screens PROVE Hooks(s) \subseteq Queries /\ Shown(s) = Hooks(s)
<1>1. s.tab \in Tabs /\ s.statusFilter \in Filters /\ s.recentCount \in Counts
      /\ s.showUnacknowledgedOnly \in BOOLEAN /\ s.viewMode \in {"all", "recent"}
  BY DEF Screens
<1>2. DashboardHooks \subseteq Queries
  BY DEF DashboardHooks, Queries, Filters
<1>3. VehicleHook(s) \subseteq Queries /\ DriverHook(s) \subseteq Queries
  BY <1>1 DEF VehicleHook, DriverHook, Queries
<1>4. AllHook(s) \subseteq Queries /\ RecentHook(s) \subseteq Queries
  BY <1>1 DEF AllHook, RecentHook, Queries
<1>5. AllHook(s) \cup RecentHook(s) = {AlertsShown(s)}
  BY <1>1 DEF AllHook, RecentHook, AlertsShown
<1>6. Hooks(s) \subseteq Queries
  BY <1>1, <1>2, <1>3, <1>4 DEF Hooks, Tabs
<1>7. Shown(s) = Hooks(s)
  BY <1>5 DEF Shown, Hooks
<1> QED
  BY <1>6, <1>7

LEMMA OneShown ==
    ASSUME NEW s \in Screens, s.tab # "dashboard"
    PROVE  Shown(s) = {Refetched(s)} /\ Refetched(s) \in Queries
<1>1. PICK q : Shown(s) = {q}
  <2>1. s.tab \in {"vehicles", "drivers", "alerts"}
    BY DEF Screens, Tabs
  <2> QED
    BY <2>1 DEF Shown, Hooks, VehicleHook, DriverHook
<1>2. Refetched(s) = q
  BY <1>1 DEF Refetched
<1>3. Refetched(s) \in Queries
  BY <1>1, <1>2, HooksQueries
<1> QED
  BY <1>1, <1>2, <1>3

LEMMA PageScreen == ASSUME NEW tab \in Tabs PROVE Page(tab) \in Screens
BY DEF Page, Screens, Filters

(* What the gateway answers is of the items it has.                        *)
LEMMA ListedItems ==
    ASSUME NEW q \in Queries
    PROVE  /\ Listed(q) \subseteq Items
           /\ \A x \in Listed(q) : db[x] \notin NotThere
<1>1. CASE q[1] = "vehicles"
  BY <1>1 DEF Listed, WithStatus, There, Items
<1>2. CASE q[1] = "drivers"
  BY <1>2 DEF Listed, WithStatus, There, Items
<1>3. CASE q[1] = "alerts"
  BY <1>3 DEF Listed, There, Items
<1>4. CASE q[1] = "recent"
  <2>1. Listed(q) = Newest(q[2])
    BY <1>4 DEF Listed
  <2> QED
    BY <2>1 DEF Newest, There, Items
<1>5. CASE q[1] \notin {"vehicles", "drivers", "alerts", "recent"}
  BY <1>5 DEF Listed
<1> QED
  BY <1>1, <1>2, <1>3, <1>4, <1>5

(* No trip and no fleet is listed.                                         *)
LEMMA NothingListed ==
    ASSUME NEW q \in {GetActiveTrips, GetFleets} PROVE Answer(q) = NoRows
<1>1. q[1] = "trips" \/ q[1] = "fleets"
  <2>1. CASE q = GetActiveTrips
    BY <2>1 DEF GetActiveTrips
  <2>2. CASE q = GetFleets
    BY <2>2 DEF GetFleets
  <2> QED
    BY <2>1, <2>2
<1>2. Listed(q) = {}
  BY <1>1 DEF Listed
<1> QED
  BY <1>2 DEF Answer, NoRows

LEMMA AskedGood ==
    ASSUME NEW q \in Queries
    PROVE  /\ Asked(q).at \in {"asked", "ran"}
           /\ Asked(q).rows = NoRows
           /\ Asked(q).at = "ran" => Asked(q).rows = Answer(q)
BY NothingListed DEF Asked

-----------------------------------------------------------------------------
(* The parts of the invariant.                                             *)

DataTypes ==
    /\ db \in [Items -> Values]
    /\ \A x \in Items : db[x] \in ValuesOf(x) \cup NotThere
CacheTypes ==
    /\ entity \in [Items -> Values]
    /\ \A x \in Items : entity[x] \in ValuesOf(x) \cup NotThere
    /\ cached \subseteq Queries \ {GetFleets} /\ lists \in [Queries -> SUBSET Items]
FlightTypes ==
    /\ DOMAIN flight = Queries
    /\ \A q \in Queries :
        /\ flight[q].at \in {"idle", "asked", "ran"}
        /\ DOMAIN flight[q].rows \subseteq Items
        /\ \A x \in DOMAIN flight[q].rows : flight[q].rows[x] \in ValuesOf(x)
ViewTypes ==
    /\ screen \in Screens
    /\ attached \subseteq InFlight \cap Hooks(screen)
    /\ failed \subseteq Hooks(screen)
MutsTypes ==
    /\ muts \subseteq Mutations
    /\ \A m \in muts : /\ m.to \in ValuesOf(m.item) \cup {"gone"}
                       /\ m.unmounted = <<>> => m.tab = screen.tab
CountTypes ==
    /\ clicks \in 0 .. MaxEvents /\ upsets \in 0 .. MaxUpsets
    /\ undisturbed \in BOOLEAN

LEMMA TypeParts ==
    TypeOK <=> /\ DataTypes /\ CacheTypes /\ FlightTypes
               /\ ViewTypes /\ MutsTypes /\ CountTypes
BY DEF TypeOK, DataTypes, CacheTypes, FlightTypes, ViewTypes, MutsTypes, CountTypes

LEMMA PartsNext ==
    ASSUME DataTypes', CacheTypes', FlightTypes', ViewTypes', MutsTypes', CountTypes', FetchInv'
    PROVE  IInv'
BY DEF IInv, TypeOK, DataTypes, CacheTypes, FlightTypes, ViewTypes, MutsTypes, CountTypes

(* The mutations in FetchInv, and what it says of one query.               *)
NoneDone == \A m \in muts : m.at # "done"
Good(q) ==
    /\ flight[q].at = "ran" => flight[q].rows = Answer(q)
    /\ flight[q].at = "idle" /\ q \notin failed => q \in cached /\ Rows(q) = Answer(q)

LEMMA FetchParts ==
    FetchInv <=>
        (undisturbed =>
            /\ InFlight \subseteq attached
            /\ \A m \in muts : m.unmounted = <<>>
            /\ NoneDone => \A q \in Shown(screen) : Good(q))
BY DEF FetchInv, NoneDone, Good

LEMMA FetchPartsNext ==
    ASSUME undisturbed' =>
            /\ InFlight' \subseteq attached'
            /\ \A m \in muts' : m.unmounted = <<>>
            /\ NoneDone' => \A q \in Shown(screen)' : Good(q)'
    PROVE  FetchInv'
BY DEF FetchInv, NoneDone, Good

-----------------------------------------------------------------------------
LEMMA InitInv == Init => IInv
<1> SUFFICES ASSUME Init PROVE IInv
  OBVIOUS
<1> USE DEF Init
<1>1. screen \in Screens
  BY PageScreen DEF Tabs
<1>2. Hooks(screen) = DashboardHooks /\ DashboardHooks \subseteq Queries
  BY <1>1, HooksQueries DEF Hooks, Page
<1>3. DataTypes
  <2>1. db \in InitialData
    OBVIOUS
  <2>2. /\ db \in [Items -> Values]
        /\ \A x \in Items : db[x] \in ValuesOf(x) \cup {"absent"}
    BY <2>1, DataAssumption
  <2> QED
    BY <2>2 DEF DataTypes, NotThere
<1>4. CacheTypes
  BY DEF CacheTypes, Values, NotThere
<1>5. FlightTypes
  BY AskedGood DEF FlightTypes, Idle, NoRows
<1>6. InFlight = DashboardHooks
  BY <1>2, AskedGood DEF InFlight, Idle
<1>7. ViewTypes
  BY <1>1, <1>2, <1>6 DEF ViewTypes
<1>8. MutsTypes
  BY DEF MutsTypes
<1>9. CountTypes
  BY DEF CountTypes
<1>10. \A q \in Shown(screen) : Good(q)
  BY <1>1, <1>2, HooksQueries, AskedGood DEF Good
<1>11. FetchInv
  BY <1>6, <1>10, FetchParts
<1> QED
  BY <1>3, <1>4, <1>5, <1>7, <1>8, <1>9, <1>11, TypeParts DEF IInv

-----------------------------------------------------------------------------
(* The queries.                                                            *)

LEMMA AnswerUntouched ==
    ASSUME UNCHANGED db PROVE \A q \in Queries : Answer(q)' = Answer(q)
BY DEF Answer, Listed, WithStatus, Newest, There

(* What Answer and Rows read.                                              *)
LEMMA GoodUntouched ==
    ASSUME NEW q \in Queries, Good(q), flight'[q] = flight[q],
           UNCHANGED <<db, cached, lists, entity>>,
           q \in failed => q \in failed'
    PROVE  Good(q)'
<1>1. Answer(q)' = Answer(q) /\ Rows(q)' = Rows(q)
  BY DEF Answer, Rows, Listed, WithStatus, Newest, There
<1> QED
  BY <1>1 DEF Good

(* A request that has not run yet can only become good.                    *)
LEMMA AskedNext ==
    ASSUME NEW q \in Queries, flight'[q] = Asked(q), UNCHANGED db PROVE Good(q)'
<1>1. Answer(q)' = Answer(q)
  BY DEF Answer, Listed, WithStatus, Newest, There
<1>2. Asked(q)' = Asked(q)
  BY DEF Asked, NoRows
<1> QED
  BY <1>1, <1>2, AskedGood DEF Good

LEMMA RunQueryInv ==
    ASSUME IInv, NEW q \in Queries, RunQuery(q) PROVE IInv'
<1> USE DEF RunQuery
<1>0. DataTypes /\ CacheTypes /\ FlightTypes /\ ViewTypes /\ MutsTypes /\ CountTypes /\ FetchInv
  BY TypeParts DEF IInv
<1>1. \A p \in Queries \ {q} : flight'[p] = flight[p]
  BY <1>0 DEF FlightTypes
<1>2. flight'[q] = [at |-> "ran", rows |-> Answer(q)]
  BY <1>0 DEF FlightTypes
<1>3. DOMAIN Answer(q) \subseteq Items /\ \A x \in DOMAIN Answer(q) : Answer(q)[x] \in ValuesOf(x)
  BY <1>0, ListedItems DEF Answer, DataTypes
<1>4. FlightTypes'
  BY <1>0, <1>1, <1>2, <1>3 DEF FlightTypes
<1>5. InFlight' = InFlight
  BY <1>1, <1>2 DEF InFlight
<1>6. DataTypes' /\ CacheTypes' /\ MutsTypes' /\ CountTypes'
  BY <1>0 DEF DataTypes, CacheTypes, MutsTypes, CountTypes
<1>7. Hooks(screen)' = Hooks(screen) /\ Shown(screen)' = Shown(screen)
  BY DEF Hooks, Shown, VehicleHook, DriverHook, AllHook, RecentHook, AlertsShown
<1>8. ViewTypes'
  BY <1>0, <1>5, <1>7 DEF ViewTypes
<1>9. Answer(q)' = Answer(q)
  BY DEF Answer, Listed, WithStatus, Newest, There
<1>10. Good(q)'
  BY <1>2, <1>9 DEF Good
<1>11. \A p \in Queries \ {q} : Good(p) => Good(p)'
  BY <1>1, GoodUntouched
<1>12. Shown(screen) \subseteq Queries
  BY <1>0, HooksQueries DEF ViewTypes
<1>13. NoneDone' => NoneDone
  BY DEF NoneDone
<1>14. FetchInv'
  BY <1>0, <1>5, <1>7, <1>10, <1>11, <1>12, <1>13, FetchParts, FetchPartsNext
<1> QED
  BY <1>4, <1>6, <1>8, <1>14, PartsNext

LEMMA ScreenUntouched ==
    ASSUME UNCHANGED screen
    PROVE  /\ Hooks(screen)' = Hooks(screen)
           /\ Shown(screen)' = Shown(screen)
           /\ Refetched(screen)' = Refetched(screen)
BY DEF Hooks, Shown, Refetched, VehicleHook, DriverHook, AllHook, RecentHook, AlertsShown

(* While the page is undisturbed, all in flight is for what it shows.      *)
LEMMA InFlightShown ==
    ASSUME ViewTypes, FetchInv, undisturbed PROVE InFlight \subseteq Shown(screen)
BY HooksQueries, FetchParts DEF ViewTypes

(* An answer that is written is what the gateway has; so remains what was. *)
LEMMA ArrivesGood ==
    ASSUME DataTypes, CacheTypes, FlightTypes, NEW q \in Queries, Arrives(q),
           flight[q].rows = Answer(q), NEW p \in Queries, Good(p)
    PROVE  Good(p)'
<1> USE DEF Arrives, Ended
<1>1. \A r \in Queries : Answer(r)' = Answer(r)
  BY AnswerUntouched
<1>2. \A x \in Listed(q) : entity'[x] = db[x]
  BY ListedItems DEF Answer
<1>3. CASE p = q
  <2>1. flight'[q] = Idle /\ q \in cached' /\ lists'[q] = Listed(q)
    BY DEF FlightTypes, CacheTypes, Answer
  <2>2. Rows(q)' = [x \in Listed(q) |-> entity'[x]]
    BY <2>1 DEF Rows
  <2>3. Rows(q)' = Answer(q)
    BY <1>2, <2>2 DEF Answer
  <2> QED
    BY <1>1, <1>3, <2>1, <2>3 DEF Good, Idle
<1>4. CASE p # q
  <2>1. flight'[p] = flight[p] /\ (p \in cached' <=> p \in cached) /\ lists'[p] = lists[p]
    BY <1>4 DEF FlightTypes, CacheTypes
  <2>2. ASSUME p \in cached, Rows(p) = Answer(p) PROVE Rows(p)' = Answer(p)
    <3>1. DOMAIN Rows(p) = lists[p] /\ \A x \in lists[p] : Rows(p)[x] = entity[x]
      BY <2>2 DEF Rows
    <3>2. DOMAIN Answer(p) = Listed(p) /\ \A x \in Listed(p) : Answer(p)[x] = db[x]
      BY DEF Answer
    <3>3. lists[p] = Listed(p) /\ \A x \in Listed(p) : entity[x] = db[x]
      BY <2>2, <3>1, <3>2
    <3>4. \A x \in Listed(p) : entity'[x] = db[x]
      BY <1>2, <3>3, ListedItems DEF Answer
    <3>5. Rows(p)' = [x \in Listed(p) |-> entity'[x]]
      BY <2>1, <2>2, <3>3 DEF Rows
    <3> QED
      BY <3>4, <3>5 DEF Answer
  <2>3. p \notin failed' => p \notin failed
    BY <1>4
  <2> QED
    BY <1>1, <2>1, <2>2, <2>3 DEF Good
<1> QED
  BY <1>3, <1>4

LEMMA EndedTypes ==
    ASSUME FlightTypes, ViewTypes, NEW q \in Queries, Ended(q), UNCHANGED screen,
           failed' \subseteq failed \cup attached
    PROVE  FlightTypes' /\ ViewTypes' /\ InFlight' = InFlight \ {q}
<1> USE DEF Ended
<1>1. flight'[q] = Idle /\ \A p \in Queries \ {q} : flight'[p] = flight[p]
  BY DEF FlightTypes
<1>2. FlightTypes'
  BY <1>1 DEF FlightTypes, Idle, NoRows
<1>3. InFlight' = InFlight \ {q}
  BY <1>1 DEF InFlight, Idle
<1>4. ViewTypes'
  BY <1>3, ScreenUntouched DEF ViewTypes
<1> QED
  BY <1>2, <1>3, <1>4

LEMMA ArrivesInv ==
    ASSUME IInv, NEW q \in Queries, Arrives(q) PROVE IInv'
<1>0. DataTypes /\ CacheTypes /\ FlightTypes /\ ViewTypes /\ MutsTypes /\ CountTypes /\ FetchInv
  BY TypeParts DEF IInv
<1>1. FlightTypes' /\ ViewTypes' /\ InFlight' = InFlight \ {q}
  BY <1>0, EndedTypes DEF Arrives
<1>2. CacheTypes'
  <2>1. \A x \in Items : entity'[x] \in ValuesOf(x) \cup NotThere
    BY <1>0 DEF Arrives, FlightTypes, CacheTypes
  <2>2. entity' \in [Items -> Values]
    BY <2>1 DEF Arrives, ValuesOf, Values
  <2>3. cached' \subseteq Queries \ {GetFleets} /\ lists' \in [Queries -> SUBSET Items]
    BY <1>0 DEF Arrives, FlightTypes, CacheTypes
  <2> QED
    BY <2>1, <2>2, <2>3 DEF CacheTypes
<1>3. DataTypes' /\ MutsTypes' /\ CountTypes'
  BY <1>0 DEF Arrives, DataTypes, MutsTypes, CountTypes
<1>4. ASSUME undisturbed, NoneDone PROVE \A p \in Shown(screen) : Good(p)'
  <2>1. q \in Shown(screen)
    BY <1>0, <1>4, InFlightShown DEF Arrives, InFlight
  <2>2. flight[q].rows = Answer(q)
    BY <1>0, <1>4, <2>1, FetchParts DEF Good, Arrives
  <2>3. Shown(screen) \subseteq Queries
    BY <1>0, HooksQueries DEF ViewTypes
  <2> QED
    BY <1>0, <1>4, <2>2, <2>3, ArrivesGood, FetchParts
<1>5. undisturbed => InFlight' \subseteq attached'
  BY <1>0, <1>1, FetchParts DEF Arrives, Ended
<1>6. FetchInv'
  BY <1>0, <1>4, <1>5, ScreenUntouched, FetchParts, FetchPartsNext DEF Arrives, NoneDone
<1> QED
  BY <1>1, <1>2, <1>3, <1>6, PartsNext

LEMMA DroppedInv ==
    ASSUME IInv, NEW q \in Queries, Dropped(q) PROVE IInv'
<1>0. DataTypes /\ CacheTypes /\ FlightTypes /\ ViewTypes /\ MutsTypes /\ CountTypes /\ FetchInv
  BY TypeParts DEF IInv
<1>1. FlightTypes' /\ ViewTypes'
  BY <1>0, EndedTypes DEF Dropped
<1>2. DataTypes' /\ CacheTypes' /\ MutsTypes' /\ CountTypes'
  BY <1>0 DEF Dropped, DataTypes, CacheTypes, MutsTypes, CountTypes
<1>3. ~undisturbed
  BY <1>0, FetchParts DEF Dropped
<1>4. FetchInv'
  BY <1>3, FetchPartsNext DEF Dropped
<1> QED
  BY <1>1, <1>2, <1>4, PartsNext

(* A query ends in an error, which the page that waits for it shows.       *)
LEMMA ErrorInv ==
    ASSUME IInv, NEW q \in InFlight, Error(q), CountTypes',
           UNCHANGED <<db, screen, cacheVars, muts, undisturbed>>
    PROVE  IInv'
<1> USE DEF Error
<1>0. DataTypes /\ CacheTypes /\ FlightTypes /\ ViewTypes /\ MutsTypes /\ CountTypes /\ FetchInv
  BY TypeParts DEF IInv
<1>1. q \in Queries
  BY DEF InFlight
<1>2. FlightTypes' /\ ViewTypes' /\ InFlight' = InFlight \ {q}
  BY <1>0, <1>1, EndedTypes
<1>3. DataTypes' /\ CacheTypes' /\ MutsTypes'
  BY <1>0 DEF DataTypes, CacheTypes, MutsTypes
<1>4. ASSUME undisturbed, NoneDone PROVE \A p \in Shown(screen) : Good(p)'
  <2>1. Shown(screen) \subseteq Queries
    BY <1>0, HooksQueries DEF ViewTypes
  <2>2. ASSUME NEW p \in Shown(screen), p # q PROVE Good(p)'
    <3>1. flight'[p] = flight[p] /\ (p \in failed => p \in failed')
      BY <1>0, <2>1, <2>2 DEF FlightTypes, Ended
    <3>2. Good(p)
      BY <1>0, <1>4, FetchParts
    <3> QED
      BY <2>1, <3>1, <3>2, GoodUntouched
  <2>3. flight'[q] = Idle /\ q \in failed'
    BY <1>0, <1>1, <1>4, FetchParts DEF FlightTypes, Ended
  <2>4. Good(q)'
    BY <2>3 DEF Good, Idle
  <2> QED
    BY <2>2, <2>4
<1>5. undisturbed => InFlight' \subseteq attached'
  BY <1>0, <1>2, FetchParts DEF Ended
<1>6. FetchInv'
  BY <1>0, <1>4, <1>5, ScreenUntouched, FetchParts, FetchPartsNext DEF NoneDone
<1> QED
  BY <1>2, <1>3, <1>6, PartsNext

-----------------------------------------------------------------------------
(* The views and the refetches.                                            *)

LEMMA FlightChanged ==
    ASSUME FlightTypes, DOMAIN flight' = Queries,
           \A q \in Queries : flight'[q] \in {flight[q], Asked(q), Idle}
    PROVE  FlightTypes'
<1>1. \A q \in Queries : /\ Asked(q).at \in {"idle", "asked", "ran"}
                          /\ DOMAIN Asked(q).rows = {}
  BY AskedGood DEF NoRows
<1>2. Idle.at = "idle" /\ DOMAIN Idle.rows = {}
  BY DEF Idle, NoRows
<1> QED
  BY <1>1, <1>2 DEF FlightTypes

LEMMA QueriesArePairs == \A q \in Queries : q # <<>>
<1> SUFFICES ASSUME NEW q \in Queries PROVE q # <<>>
  OBVIOUS
<1>1. \E a, b : q = <<a, b>>
  BY DEF Queries, GetVehicles, GetDrivers, GetAlerts, GetRecentAlerts, GetActiveTrips, GetFleets
<1> QED
  BY <1>1

LEMMA ShowViewInv ==
    ASSUME IInv, NEW s \in Screens, ShowView(s), MutsTypes', muts = {} => muts' = {}
    PROVE  IInv'
<1> DEFINE missing == Hooks(s) \ cached
<1> USE DEF ShowView
<1>0. DataTypes /\ CacheTypes /\ FlightTypes /\ ViewTypes /\ MutsTypes /\ CountTypes /\ FetchInv
  BY TypeParts DEF IInv
<1>1. /\ DOMAIN flight' = Queries
      /\ \A q \in missing : q \notin InFlight => flight'[q] = Asked(q)
      /\ \A q \in missing : q \in InFlight => flight'[q] = flight[q]
      /\ \A q \in Queries \ missing : flight'[q] \in {flight[q], Idle}
  BY HooksQueries
<1>2. FlightTypes'
  BY <1>0, <1>1, FlightChanged
<1>3. missing \subseteq InFlight'
  BY <1>1, HooksQueries, AskedGood DEF InFlight
<1>4. Hooks(screen)' = Hooks(s) /\ Shown(screen)' = Hooks(s)
  BY HooksQueries
<1>5. ViewTypes'
  BY <1>3, <1>4 DEF ViewTypes
<1>6. DataTypes' /\ CacheTypes'
  BY <1>0 DEF DataTypes, CacheTypes
<1>7. CountTypes'
  BY <1>0 DEF CountTypes, Click
<1>8. ASSUME undisturbed'
      PROVE  /\ InFlight' \subseteq attached' /\ muts' = {}
             /\ \A q \in Hooks(s) : Good(q)'
  <2>1. Quiet /\ missing = Hooks(s)
    BY <1>8
  <2>2. \A q \in Queries \ missing : flight'[q].at = "idle"
    BY <1>1, <2>1 DEF Quiet, InFlight, Idle
  <2>3. InFlight' \subseteq attached'
    BY <2>2 DEF InFlight
  <2>4. \A q \in Hooks(s) : Good(q)'
    BY <1>1, <2>1, HooksQueries, AskedNext DEF Quiet
  <2> QED
    BY <2>1, <2>3, <2>4 DEF Quiet
<1>9. FetchInv'
  BY <1>4, <1>8, FetchPartsNext
<1> QED
  BY <1>2, <1>5, <1>6, <1>7, <1>9, PartsNext

LEMMA SelectTabInv ==
    ASSUME IInv, NEW tab \in Tabs, SelectTab(tab) PROVE IInv'
<1>0. ViewTypes /\ MutsTypes
  BY TypeParts DEF IInv
<1>1. Page(tab) \in Screens /\ Page(tab).tab = tab
  BY PageScreen DEF Page
<1>2. ASSUME NEW m \in muts
      PROVE  Unmount(m) \in Mutations /\ Unmount(m).unmounted # <<>>
             /\ Unmount(m).to = m.to /\ Unmount(m).item = m.item
  <2>1. m \in Mutations
    BY <1>0 DEF MutsTypes
  <2>2. CASE m.unmounted = <<>>
    <3>1. screen.tab # "dashboard"
      BY <1>0, <2>1, <2>2 DEF MutsTypes, Mutations
    <3>2. Refetched(screen) \in Queries /\ (CHOOSE q \in Shown(screen) : TRUE) = Refetched(screen)
      BY <1>0, <3>1, OneShown DEF ViewTypes, Refetched
    <3>3. Unmount(m) = [m EXCEPT !.unmounted = Refetched(screen)]
      BY <2>2, <3>2 DEF Unmount
    <3> QED
      BY <2>1, <3>2, <3>3, QueriesArePairs DEF Mutations
  <2>3. CASE m.unmounted # <<>>
    BY <2>1, <2>3 DEF Unmount
  <2> QED
    BY <2>2, <2>3
<1>3. MutsTypes'
  BY <1>0, <1>2 DEF SelectTab, MutsTypes
<1>4. muts = {} => muts' = {}
  BY DEF SelectTab
<1> QED
  BY <1>1, <1>3, <1>4, ShowViewInv DEF SelectTab

LEMMA ControlInv ==
    ASSUME IInv, NEW s \in Screens, s.tab = screen.tab, Control(s) PROVE IInv'
<1>1. MutsTypes
  BY TypeParts DEF IInv
<1>2. screen' = s /\ UNCHANGED muts
  BY DEF Control, ShowView
<1>3. MutsTypes'
  BY <1>1, <1>2 DEF MutsTypes
<1> QED
  BY <1>2, <1>3, ShowViewInv DEF Control

(* The request of a query is sent or shared.                               *)
LEMMA RefetchTypes ==
    ASSUME FlightTypes, ViewTypes, NEW q \in Queries, Refetch(q), UNCHANGED <<screen, failed>>
    PROVE  /\ FlightTypes' /\ ViewTypes'
           /\ InFlight' = InFlight \cup {q}
           /\ flight'[q] = IF q \in InFlight THEN flight[q] ELSE Asked(q)
           /\ \A p \in Queries \ {q} : flight'[p] = flight[p]
<1>1. /\ flight'[q] = IF q \in InFlight THEN flight[q] ELSE Asked(q)
      /\ \A p \in Queries \ {q} : flight'[p] = flight[p]
      /\ DOMAIN flight' = Queries
  BY DEF Refetch, FlightTypes
<1>2. FlightTypes'
  BY <1>1, FlightChanged
<1>3. InFlight' = InFlight \cup {q}
  BY <1>1, AskedGood DEF InFlight
<1>4. ViewTypes'
  BY <1>3, ScreenUntouched DEF ViewTypes, Refetch
<1> QED
  BY <1>1, <1>2, <1>3, <1>4

LEMMA RefreshInv ==
    ASSUME IInv, NEW tab \in Tabs \ {"dashboard"}, RefreshButton(tab) PROVE IInv'
<1> DEFINE v == Refetched(screen)
<1> USE DEF RefreshButton
<1>0. DataTypes /\ CacheTypes /\ FlightTypes /\ ViewTypes /\ MutsTypes /\ CountTypes /\ FetchInv
  BY TypeParts DEF IInv
<1>1. v \in Queries /\ Shown(screen) = {v} /\ Hooks(screen) = {v}
  BY <1>0, OneShown, HooksQueries DEF ViewTypes
<1>2. /\ FlightTypes' /\ ViewTypes'
      /\ InFlight' = InFlight \cup {v}
      /\ flight'[v] = IF v \in InFlight THEN flight[v] ELSE Asked(v)
  BY <1>0, <1>1, RefetchTypes
<1>3. DataTypes' /\ CacheTypes' /\ MutsTypes'
  BY <1>0 DEF DataTypes, CacheTypes, MutsTypes
<1>4. CountTypes'
  BY <1>0 DEF CountTypes, Click
<1>5. attached' = attached \cup {v}
  BY <1>1 DEF Refetch
<1>6. ASSUME undisturbed', NoneDone'
      PROVE  Good(v)'
  <2>1. CASE v \in InFlight
    <3>1. undisturbed /\ NoneDone
      BY <1>6, <2>1 DEF Quiet, NoneDone
    <3>2. Good(v)
      BY <1>0, <1>1, <3>1, FetchParts
    <3> QED
      BY <1>1, <1>2, <2>1, <3>2, GoodUntouched
  <2>2. CASE v \notin InFlight
    BY <1>1, <1>2, <2>2, AskedNext
  <2> QED
    BY <2>1, <2>2
<1>7. ASSUME undisturbed'
      PROVE  InFlight \subseteq attached /\ \A m \in muts : m.unmounted = <<>>
  <2>1. CASE undisturbed
    BY <1>0, <2>1, FetchParts
  <2>2. CASE Quiet
    BY <2>2 DEF Quiet
  <2> QED
    BY <1>7, <2>1, <2>2
<1>8. FetchInv'
  BY <1>1, <1>2, <1>5, <1>6, <1>7, ScreenUntouched, FetchPartsNext
<1> QED
  BY <1>2, <1>3, <1>4, <1>8, PartsNext

-----------------------------------------------------------------------------
(* The mutations.                                                          *)

LEMMA MutateInv ==
    ASSUME IInv, NEW tab \in Tabs \ {"dashboard"}, NEW x \in Items,
           NEW to \in ValuesOf(x) \cup {"gone"}, Mutate(tab, [item |-> x, to |-> to])
    PROVE  IInv'
<1> DEFINE m == [n |-> clicks, item |-> x, to |-> to, tab |-> tab, at |-> "sent", unmounted |-> <<>>]
<1>0. DataTypes /\ CacheTypes /\ FlightTypes /\ ViewTypes /\ MutsTypes /\ CountTypes /\ FetchInv
  BY TypeParts DEF IInv
<1>1. /\ muts' = muts \cup {m} /\ screen.tab = tab /\ Click
      /\ UNCHANGED <<db, screen, cached, lists, entity, flight, attached, failed, upsets, undisturbed>>
  BY DEF Mutate
<1>2. m \in Mutations
  <2>1. to \in Values
    BY DEF ValuesOf, Values, NotThere
  <2>2. clicks \in 0 .. MaxEvents
    BY <1>0 DEF CountTypes
  <2> QED
    BY <2>1, <2>2 DEF Mutations
<1>3. MutsTypes'
  BY <1>0, <1>1, <1>2 DEF MutsTypes
<1>4. DataTypes' /\ CacheTypes' /\ FlightTypes'
  BY <1>0, <1>1 DEF DataTypes, CacheTypes, FlightTypes
<1>5. InFlight' = InFlight
  BY <1>1 DEF InFlight
<1>6. ViewTypes'
  BY <1>0, <1>1, <1>5, ScreenUntouched DEF ViewTypes
<1>7. CountTypes'
  BY <1>0, <1>1 DEF CountTypes, Click
<1>8. NoneDone' => NoneDone
  BY <1>1 DEF NoneDone
<1>9. \A q \in Shown(screen) : Good(q) => Good(q)'
  BY <1>0, <1>1, HooksQueries, GoodUntouched DEF ViewTypes
<1>10. FetchInv'
  BY <1>0, <1>1, <1>5, <1>8, <1>9, ScreenUntouched, FetchParts, FetchPartsNext
<1> QED
  BY <1>3, <1>4, <1>6, <1>7, <1>10, PartsNext

(* The changes the pages offer are changes of an item to a value it takes. *)
LEMMA RowsActedUpon ==
    ASSUME IInv
    PROVE  /\ \A v \in Vehicles : VehicleDelete(v) => IInv'
           /\ \A v \in Vehicles, st \in Statuses : VehicleStatusChange(v, st) => IInv'
           /\ \A d \in Drivers : DriverDelete(d) => IInv'
           /\ \A d \in Drivers, st \in Statuses : DriverStatusChange(d, st) => IInv'
           /\ \A a \in Alerts : Acknowledge(a) => IInv'
<1>1. \A x \in Vehicles \cup Drivers : x \in Items /\ ValuesOf(x) = Statuses
  BY IdsAssumption DEF Items, ValuesOf
<1>2. \A a \in Alerts : a \in Items /\ "acknowledged" \in ValuesOf(a)
  BY DEF Items, ValuesOf, AlertValues
<1>3. {"vehicles", "drivers", "alerts"} \subseteq Tabs \ {"dashboard"}
  BY DEF Tabs
<1>4. \A v \in Vehicles : VehicleDelete(v) => IInv'
  BY <1>1, <1>3, MutateInv DEF VehicleDelete, DeleteVehicle
<1>5. \A v \in Vehicles, st \in Statuses : VehicleStatusChange(v, st) => IInv'
  BY <1>1, <1>3, MutateInv DEF VehicleStatusChange, UpdateVehicleStatus
<1>6. \A d \in Drivers : DriverDelete(d) => IInv'
  BY <1>1, <1>3, MutateInv DEF DriverDelete, DeleteDriver
<1>7. \A d \in Drivers, st \in Statuses : DriverStatusChange(d, st) => IInv'
  BY <1>1, <1>3, MutateInv DEF DriverStatusChange, UpdateDriverStatus
<1>8. \A a \in Alerts : Acknowledge(a) => IInv'
  BY <1>2, <1>3, MutateInv DEF Acknowledge, AcknowledgeAlert
<1> QED
  BY <1>4, <1>5, <1>6, <1>7, <1>8

(* After a mutation has run, nothing is known of the rows until its        *)
(* refetch.                                                                *)
LEMMA RunMutationInv ==
    ASSUME IInv, NEW m \in muts, RunMutation(m) PROVE IInv'
<1>0. DataTypes /\ CacheTypes /\ FlightTypes /\ ViewTypes /\ MutsTypes /\ CountTypes /\ FetchInv
  BY TypeParts DEF IInv
<1>1. UNCHANGED <<screen, cached, lists, entity, flight, attached, failed, clicks, upsets, undisturbed>>
  BY DEF RunMutation
<1>2. m \in Mutations
  BY <1>0 DEF MutsTypes
<1>3. CacheTypes' /\ FlightTypes' /\ CountTypes'
  BY <1>0, <1>1 DEF CacheTypes, FlightTypes, CountTypes
<1>4. InFlight' = InFlight
  BY <1>1 DEF InFlight
<1>5. ViewTypes'
  BY <1>0, <1>1, <1>4, ScreenUntouched DEF ViewTypes
<1>6. CASE db[m.item] \in NotThere
  <2>1. muts' = (muts \ {m}) \cup {[m EXCEPT !.at = "null"]} /\ db' = db
    BY <1>6 DEF RunMutation
  <2>2. MutsTypes' /\ DataTypes'
    BY <1>0, <1>1, <1>2, <2>1 DEF MutsTypes, Mutations, DataTypes
  <2>3. NoneDone' => NoneDone
    <3>1. m.at # "done"
      BY DEF RunMutation
    <3> QED
      BY <2>1, <3>1 DEF NoneDone
  <2>4. \A k \in muts' : \E l \in muts : k.unmounted = l.unmounted
    BY <1>2, <2>1 DEF Mutations
  <2>5. \A q \in Shown(screen) : Good(q) => Good(q)'
    BY <1>0, <1>1, <2>1, HooksQueries, GoodUntouched DEF ViewTypes
  <2>6. FetchInv'
    BY <1>0, <1>1, <1>4, <2>3, <2>4, <2>5, ScreenUntouched, FetchParts, FetchPartsNext
  <2> QED
    BY <1>3, <1>5, <2>2, <2>6, PartsNext
<1>7. CASE db[m.item] \notin NotThere
  <2>1. /\ muts' = (muts \ {m}) \cup {[m EXCEPT !.at = "done"]}
        /\ db' = [db EXCEPT ![m.item] = m.to]
    BY <1>7 DEF RunMutation
  <2>2. MutsTypes'
    BY <1>0, <1>1, <1>2, <2>1 DEF MutsTypes, Mutations
  <2>3. DataTypes'
    <3>1. m.to \in Values /\ m.item \in Items /\ m.to \in ValuesOf(m.item) \cup NotThere
      BY <1>0, <1>2 DEF MutsTypes, Mutations, NotThere
    <3> QED
      BY <1>0, <2>1, <3>1 DEF DataTypes
  <2>4. ~NoneDone'
    <3>1. [m EXCEPT !.at = "done"] \in muts' /\ [m EXCEPT !.at = "done"].at = "done"
      BY <1>2, <2>1 DEF Mutations
    <3> QED
      BY <3>1 DEF NoneDone
  <2>5. \A k \in muts' : \E l \in muts : k.unmounted = l.unmounted
    BY <1>2, <2>1 DEF Mutations
  <2>6. FetchInv'
    BY <1>0, <1>1, <1>4, <2>4, <2>5, FetchParts, FetchPartsNext
  <2> QED
    BY <1>3, <1>5, <2>2, <2>3, <2>6, PartsNext
<1> QED
  BY <1>6, <1>7

(* The refetch of a mutation brings the page up to date, unless it shares  *)
(* a request that has run before.                                          *)
LEMMA CompletesInv ==
    ASSUME IInv, NEW m \in muts, Completes(m) PROVE IInv'
<1>view. PICK v : v = View(m)
  OBVIOUS
<1>0. DataTypes /\ CacheTypes /\ FlightTypes /\ ViewTypes /\ MutsTypes /\ CountTypes /\ FetchInv
  BY TypeParts DEF IInv
<1>1. /\ muts' = muts \ {m} /\ Refetch(v)
      /\ UNCHANGED <<db, screen, cached, lists, failed, clicks, upsets>>
  BY <1>view DEF Completes
<1>2. m \in Mutations /\ m.item \in Items /\ m.to \in Values
  BY <1>0 DEF MutsTypes, Mutations
<1>3. m.unmounted = <<>> =>
          v \in Queries /\ Shown(screen) = {v} /\ Hooks(screen) = {v}
  <2>1. m.unmounted = <<>> => screen.tab # "dashboard"
    BY <1>0, <1>2 DEF MutsTypes, Mutations
  <2> QED
    BY <1>0, <1>view, <2>1, OneShown, HooksQueries DEF ViewTypes, View
<1>4. v \in Queries
  BY <1>2, <1>3, <1>view DEF Mutations, View
<1>5. /\ FlightTypes' /\ ViewTypes'
      /\ InFlight' = InFlight \cup {v}
      /\ flight'[v] = IF v \in InFlight THEN flight[v] ELSE Asked(v)
  BY <1>0, <1>1, <1>4, RefetchTypes
<1>6. DataTypes' /\ MutsTypes'
  BY <1>0, <1>1 DEF DataTypes, MutsTypes
<1>7. CacheTypes'
  <2>1. entity' = entity \/ (entity' = [entity EXCEPT ![m.item] = m.to] /\ m.to # "gone")
    BY DEF Completes
  <2>2. m.to # "gone" => m.to \in ValuesOf(m.item)
    BY <1>0 DEF MutsTypes
  <2> QED
    BY <1>0, <1>1, <1>2, <2>1, <2>2 DEF CacheTypes
<1>8. undisturbed' = (\/ undisturbed /\ flight[v].at # "ran"
                      \/ InFlight = {} /\ muts = {m} /\ m.unmounted = <<>>)
  BY <1>view DEF Completes
<1>9. CountTypes'
  BY <1>0, <1>1, <1>8 DEF CountTypes
<1>10. ASSUME undisturbed'
       PROVE  /\ InFlight \subseteq attached /\ flight[v].at # "ran"
              /\ \A k \in muts : k.unmounted = <<>>
  <2>1. CASE undisturbed /\ flight[v].at # "ran"
    BY <1>0, <2>1, FetchParts
  <2>2. CASE InFlight = {} /\ muts = {m} /\ m.unmounted = <<>>
    BY <1>4, <2>2 DEF InFlight
  <2> QED
    BY <1>8, <1>10, <2>1, <2>2
<1>11. ASSUME undisturbed'
       PROVE  Shown(screen) = {v} /\ InFlight' \subseteq attached' /\ Good(v)'
  <2>1. Shown(screen) = {v} /\ Hooks(screen) = {v}
    BY <1>3, <1>10, <1>11
  <2>2. attached' = attached \cup {v}
    BY <1>1, <2>1 DEF Refetch
  <2>3. InFlight' \subseteq attached'
    BY <1>5, <1>10, <1>11, <2>2
  <2>4. CASE v \in InFlight
    <3>1. flight'[v].at = "asked"
      BY <1>0, <1>4, <1>5, <1>10, <1>11, <2>4 DEF FlightTypes, InFlight
    <3> QED
      BY <2>1, <2>3, <3>1 DEF Good
  <2>5. CASE v \notin InFlight
    BY <1>1, <1>4, <1>5, <2>1, <2>3, <2>5, AskedNext
  <2> QED
    BY <2>1, <2>3, <2>4, <2>5
<1>12. FetchInv'
  BY <1>1, <1>10, <1>11, ScreenUntouched, FetchPartsNext
<1> QED
  BY <1>5, <1>6, <1>7, <1>9, <1>12, PartsNext

LEMMA UpsetCounted ==
    ASSUME CountTypes, Upset, UNCHANGED clicks, undisturbed' \in BOOLEAN PROVE CountTypes'
<1>1. upsets' \in 0 .. MaxUpsets
  BY BoundsAssumption DEF CountTypes, Upset
<1> QED
  BY <1>1 DEF CountTypes

LEMMA MutationFailsInv ==
    ASSUME IInv, NEW m \in muts, MutationFails(m) PROVE IInv'
<1>0. DataTypes /\ CacheTypes /\ FlightTypes /\ ViewTypes /\ MutsTypes /\ CountTypes
  BY TypeParts DEF IInv
<1> USE DEF MutationFails
<1>1. DataTypes' /\ CacheTypes' /\ FlightTypes' /\ MutsTypes'
  BY <1>0 DEF DataTypes, CacheTypes, FlightTypes, MutsTypes
<1>2. CountTypes'
  BY <1>0, UpsetCounted
<1>3. InFlight' = InFlight
  BY DEF InFlight
<1>4. ViewTypes'
  BY <1>0, <1>3, ScreenUntouched DEF ViewTypes
<1>5. FetchInv'
  BY FetchPartsNext
<1> QED
  BY <1>1, <1>2, <1>4, <1>5, PartsNext

LEMMA OtherChangeInv ==
    ASSUME IInv, NEW x \in Contested, NEW to \in ValuesOf(x) \cup {"gone"}, OtherChange(x, to)
    PROVE  IInv'
<1>0. DataTypes /\ CacheTypes /\ FlightTypes /\ ViewTypes /\ MutsTypes /\ CountTypes
  BY TypeParts DEF IInv
<1> USE DEF OtherChange
<1>1. x \in Items /\ to \in Values /\ to \in ValuesOf(x) \cup NotThere
  BY IdsAssumption DEF Values, ValuesOf, NotThere
<1>2. DataTypes'
  BY <1>0, <1>1 DEF DataTypes
<1>3. CacheTypes' /\ FlightTypes' /\ MutsTypes'
  BY <1>0 DEF CacheTypes, FlightTypes, MutsTypes
<1>4. CountTypes'
  BY <1>0, UpsetCounted
<1>5. InFlight' = InFlight
  BY DEF InFlight
<1>6. ViewTypes'
  BY <1>0, <1>5, ScreenUntouched DEF ViewTypes
<1>7. FetchInv'
  BY FetchPartsNext
<1> QED
  BY <1>2, <1>3, <1>4, <1>6, <1>7, PartsNext

-----------------------------------------------------------------------------
(* Every step of the user, of the network and of others keeps IInv.        *)
LEMMA StepInv == IInv /\ [Next]_vars => IInv'
<1> SUFFICES ASSUME IInv, [Next]_vars PROVE IInv'
  OBVIOUS
<1>0. DataTypes /\ CacheTypes /\ FlightTypes /\ ViewTypes /\ MutsTypes /\ CountTypes /\ FetchInv
  BY TypeParts DEF IInv
<1>1. ASSUME NEW tab \in Tabs, SelectTab(tab) PROVE IInv'
  BY <1>1, SelectTabInv
<1>2. ASSUME NEW f \in Filters, VehicleFilter(f) \/ DriverFilter(f) PROVE IInv'
  <2>1. PICK s : s = [screen EXCEPT !.statusFilter = f]
    OBVIOUS
  <2>2. s \in Screens /\ s.tab = screen.tab
    BY <1>0, <2>1 DEF ViewTypes, Screens
  <2>3. Control(s)
    BY <1>2, <2>1 DEF VehicleFilter, DriverFilter
  <2> QED
    BY <2>2, <2>3, ControlInv
<1>3. ASSUME NEW mode \in {"all", "recent"}, ViewMode(mode) PROVE IInv'
  <2>1. PICK s : s = [screen EXCEPT !.viewMode = mode]
    OBVIOUS
  <2>2. s \in Screens /\ s.tab = screen.tab
    BY <1>0, <2>1 DEF ViewTypes, Screens
  <2>3. Control(s)
    BY <1>3, <2>1 DEF ViewMode
  <2> QED
    BY <2>2, <2>3, ControlInv
<1>4. CASE UnacknowledgedOnly
  <2>1. PICK s : s = [screen EXCEPT !.showUnacknowledgedOnly = ~screen.showUnacknowledgedOnly]
    OBVIOUS
  <2>2. s \in Screens /\ s.tab = screen.tab
    BY <1>0, <2>1 DEF ViewTypes, Screens
  <2>3. Control(s)
    BY <1>4, <2>1 DEF UnacknowledgedOnly
  <2> QED
    BY <2>2, <2>3, ControlInv
<1>5. ASSUME NEW n \in Counts, RecentCount(n) PROVE IInv'
  <2>1. PICK s : s = [screen EXCEPT !.recentCount = n]
    OBVIOUS
  <2>2. s \in Screens /\ s.tab = screen.tab
    BY <1>0, <2>1 DEF ViewTypes, Screens
  <2>3. Control(s)
    BY <1>5, <2>1 DEF RecentCount
  <2> QED
    BY <2>2, <2>3, ControlInv
<1>6. CASE VehicleRefresh \/ DriverRefresh \/ AlertRefresh
  BY <1>6, RefreshInv DEF VehicleRefresh, DriverRefresh, AlertRefresh, Tabs
<1>7. ASSUME NEW v \in Vehicles, VehicleDelete(v) \/ \E s \in Statuses : VehicleStatusChange(v, s)
      PROVE  IInv'
  BY <1>7, RowsActedUpon
<1>8. ASSUME NEW d \in Drivers, DriverDelete(d) \/ \E s \in Statuses : DriverStatusChange(d, s)
      PROVE  IInv'
  BY <1>8, RowsActedUpon
<1>9. ASSUME NEW a \in Alerts, Acknowledge(a) PROVE IInv'
  BY <1>9, RowsActedUpon
<1>10. ASSUME NEW q \in Queries, RunQuery(q) PROVE IInv'
  BY <1>10, RunQueryInv
<1>11. ASSUME NEW q \in Queries, Arrives(q) PROVE IInv'
  BY <1>11, ArrivesInv
<1>12. CASE FleetsRefused
  <2>1. GetFleets \in InFlight
    BY <1>12 DEF FleetsRefused, InFlight, Queries
  <2>2. CountTypes'
    BY <1>0, <1>12 DEF FleetsRefused, CountTypes
  <2> QED
    BY <1>12, <2>1, <2>2, ErrorInv DEF FleetsRefused
<1>13. ASSUME NEW q \in Queries, Dropped(q) PROVE IInv'
  BY <1>13, DroppedInv
<1>14. ASSUME NEW q \in Queries, QueryFails(q) PROVE IInv'
  <2>1. CountTypes'
    <3>1. undisturbed' \in BOOLEAN
      BY <1>0, <1>14 DEF QueryFails, CountTypes
    <3> QED
      BY <1>0, <1>14, <3>1, UpsetCounted DEF QueryFails
  <2> QED
    BY <1>14, <2>1, ErrorInv DEF QueryFails
<1>15. ASSUME NEW m \in muts, RunMutation(m) PROVE IInv'
  BY <1>15, RunMutationInv
<1>16. ASSUME NEW m \in muts, Completes(m) PROVE IInv'
  BY <1>16, CompletesInv
<1>17. ASSUME NEW m \in muts, MutationFails(m) PROVE IInv'
  BY <1>17, MutationFailsInv
<1>18. ASSUME NEW x \in Contested, NEW to \in ValuesOf(x) \cup {"gone"}, OtherChange(x, to)
       PROVE  IInv'
  BY <1>18, OtherChangeInv
<1>19. CASE UNCHANGED vars
  <2> USE <1>19 DEF vars
  <2>1. DataTypes' /\ CacheTypes' /\ FlightTypes' /\ MutsTypes' /\ CountTypes'
    BY <1>0 DEF DataTypes, CacheTypes, FlightTypes, MutsTypes, CountTypes
  <2>2. InFlight' = InFlight
    BY DEF InFlight
  <2>3. ViewTypes'
    BY <1>0, <2>2, ScreenUntouched DEF ViewTypes
  <2>4. \A q \in Shown(screen) : Good(q) => Good(q)'
    BY <1>0, HooksQueries, GoodUntouched DEF ViewTypes
  <2>5. FetchInv'
    BY <1>0, <2>2, <2>4, ScreenUntouched, FetchParts, FetchPartsNext DEF NoneDone
  <2> QED
    BY <2>1, <2>3, <2>5, PartsNext
<1> QED
  BY <1>1, <1>2, <1>3, <1>4, <1>5, <1>6, <1>7, <1>8, <1>9, <1>10, <1>11, <1>12,
     <1>13, <1>14, <1>15, <1>16, <1>17, <1>18, <1>19 DEF Next, NetworkStep

(* IInv holds in every reachable state of the page and the gateway.        *)
THEOREM Invariance == Spec => []IInv
BY InitInv, StepInv, PTL DEF Spec

(* Every variable of the React client keeps its type; no hook waits for a  *)
(* query of another view.                                                  *)
THEOREM TypeCorrect == Spec => []TypeOK
BY Invariance, PTL DEF IInv

(* What the invariant says of a page at rest.                              *)
LEMMA AtRest == IInv => ScreenIsCurrent
<1> SUFFICES ASSUME IInv, undisturbed, Quiet, failed \subseteq {GetFleets}
             PROVE  Content([q \in Shown(screen) |-> Rows(q)])
                        = Content([q \in Shown(screen) |-> Answer(q)])
  BY DEF ScreenIsCurrent
<1>0. CacheTypes /\ FlightTypes /\ ViewTypes /\ FetchInv
  BY TypeParts DEF IInv
<1>1. Shown(screen) \subseteq Queries
  BY <1>0, HooksQueries DEF ViewTypes
<1>2. \A q \in Shown(screen) : Good(q)
  BY <1>0, FetchParts DEF Quiet, NoneDone
<1>3. ASSUME NEW q \in Shown(screen) PROVE Rows(q) = Answer(q)
  <2>1. flight[q].at = "idle"
    BY <1>1 DEF Quiet, InFlight
  <2>2. CASE q \notin failed
    BY <1>2, <2>1, <2>2 DEF Good
  <2>3. CASE q \in failed
    <3>1. q = GetFleets /\ q \notin cached
      BY <1>0, <2>3 DEF CacheTypes
    <3>2. Rows(q) = [x \in {} |-> entity[x]]
      BY <3>1 DEF Rows
    <3>3. Answer(q) = NoRows
      BY <3>1, NothingListed
    <3> QED
      BY <3>2, <3>3 DEF NoRows
  <2> QED
    BY <2>2, <2>3
<1>4. [q \in Shown(screen) |-> Rows(q)] = [q \in Shown(screen) |-> Answer(q)]
  BY <1>3
<1> QED
  BY <1>4

(* The screen of the React client shows what the gateway has whenever it   *)
(* is at rest and nothing has happened that it cannot know of, whatever    *)
(* the user has changed, filtered and refreshed.                           *)
THEOREM ScreenCurrent == Spec => []ScreenIsCurrent
BY Invariance, AtRest, PTL
=============================================================================
