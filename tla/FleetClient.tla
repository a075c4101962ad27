----------------------------- MODULE FleetClient -----------------------------
(***************************************************************************)
(* The React client of the GraphQL gateway: App.tsx and its four pages     *)
(* (FleetDashboard, VehicleList, DriverList, AlertList), the Apollo client *)
(* they read through, and the resolvers that answer.  One user works in    *)
(* one browser tab; others change the data through the same gateway.       *)
(*                                                                         *)
(* Apollo is a library, modelled from what the pages rely on.  It caches   *)
(* for each query the list it returned and for each item its last known    *)
(* value.  A mounted hook reads the cache and sends its query only when    *)
(* the list is missing; refetch() always sends it, unless the same query   *)
(* is in flight, whose answer it then shares.  An answer nobody mounted    *)
(* waits for may be written to the cache or dropped.  The answer of a      *)
(* mutation updates its item; a deletion answers a Boolean and removes     *)
(* nothing.  The gateway runs each request in one step.                    *)
(***************************************************************************)
EXTENDS Naturals, FiniteSets

CONSTANTS
    Vehicles, Drivers,  \* their ids
    Alerts,             \* ids of alerts, a later one is greater
    Statuses,           \* the statuses of vehicles and drivers
    Counts,             \* the lengths AlertList offers for the recent alerts
    DashboardCount,     \* that of the dashboard, 5 in the code
    InitialCount,       \* that AlertList starts with, 10 in the code
    InitialData,        \* what the gateway may hold when the page opens
    MaxEvents,          \* bound: what the user does, and the upsets
    Contested,          \* the items others change
    Outliving,          \* bound: the queries a request of which can outlive
                        \* the wait of its hook
    MaxUpsets           \* bound: upsets, their changes and the requests
                        \* that fail

Items == Vehicles \cup Drivers \cup Alerts

(* An item that is not there has not been created or has been deleted.     *)
NotThere == {"absent", "gone"}
AlertValues == {"new", "acknowledged"}
ValuesOf(x) == IF x \in Alerts THEN AlertValues ELSE Statuses
Values == Statuses \cup AlertValues \cup NotThere

ASSUME IdsAssumption ==
    Alerts \subseteq Nat /\ (Vehicles \cup Drivers) \cap Alerts = {} /\ Contested \subseteq Items
ASSUME CountsAssumption ==
    Counts \subseteq Nat /\ {DashboardCount, InitialCount} \subseteq Counts
ASSUME BoundsAssumption == MaxEvents \in Nat /\ MaxUpsets \in Nat
ASSUME DataAssumption ==
    \A data \in InitialData :
        data \in [Items -> Values] /\ \A x \in Items : data[x] \in ValuesOf(x) \cup {"absent"}

VARIABLES
    db,         \* db[x]: the value of item x at the gateway
    screen,     \* the tab and the state of its page
    cached,     \* the queries whose list the cache holds
    lists,      \* lists[q]: that list
    entity,     \* entity[x]: the value of item x in the cache
    flight,     \* flight[q]: the request of query q: where it is, its answer
    attached,   \* the queries in flight that a mounted hook waits for
    failed,     \* the queries of mounted hooks that have ended in an error
    muts,       \* the mutations under way
    clicks, upsets,     \* counters for the bounds
    undisturbed     \* history: nothing has happened since the page last
                    \* fetched that it cannot know of, see ScreenIsCurrent

cacheVars == <<cached, lists, entity>>
requestVars == <<flight, attached, failed>>
vars == <<db, screen, cacheVars, requestVars, muts, clicks, upsets, undisturbed>>

Tabs == {"dashboard", "vehicles", "drivers", "alerts"}

-----------------------------------------------------------------------------
(* queries.ts and Query.cs: the queries and their answers.                 *)

GetVehicles(status) == <<"vehicles", status>>
GetDrivers(status) == <<"drivers", status>>
GetActiveTrips == <<"trips", "">>
GetAlerts(unacknowledgedOnly) == <<"alerts", unacknowledgedOnly>>
GetRecentAlerts(count) == <<"recent", count>>
GetFleets == <<"fleets", "">>

Filters == {""} \cup Statuses

Queries ==
    {GetVehicles(f) : f \in Filters} \cup {GetDrivers(f) : f \in Filters}
        \cup {GetAlerts(b) : b \in BOOLEAN} \cup {GetRecentAlerts(n) : n \in Counts}
        \cup {GetActiveTrips, GetFleets}

There(set) == {x \in set : db[x] \notin NotThere}

WithStatus(set, status) == {x \in There(set) : status \in {"", db[x]}}

(* The newest n alerts.                                                    *)
Newest(n) ==
    {a \in There(Alerts) : Cardinality({b \in There(Alerts) : b > a}) < n}

Listed(q) ==
    CASE q[1] = "vehicles" -> WithStatus(Vehicles, q[2])
      [] q[1] = "drivers" -> WithStatus(Drivers, q[2])
      [] q[1] = "alerts" -> {a \in There(Alerts) : q[2] => db[a] = "new"}
      [] q[1] = "recent" -> Newest(q[2])
      [] OTHER -> {}

Answer(q) == [x \in Listed(q) |-> db[x]]

-----------------------------------------------------------------------------
(* The pages: which queries their hooks are mounted with.                  *)
(* Small operators come with the slips that a careless change of their     *)
(* code would make; the properties below must notice each of them.         *)

VehicleHook(s) == {GetVehicles(s.statusFilter)}
DriverHook(s) == {GetDrivers(s.statusFilter)}

(* A page is mounted with the initial values of its useState hooks.        *)
Page(tab) ==
    [tab |-> tab,
     statusFilter |-> "",                   \* VehicleList, DriverList
     showUnacknowledgedOnly |-> FALSE, recentCount |-> InitialCount,
     viewMode |-> "all"]                    \* AlertList

DashboardHooks ==
    {GetVehicles(""), GetDrivers(""), GetActiveTrips,
     GetRecentAlerts(DashboardCount), GetFleets}

AllHook(s) ==
    IF s.viewMode = "all" THEN {GetAlerts(s.showUnacknowledgedOnly)} ELSE {}

(* Slip: the skip of the first hook is copied to the second.               *)
RecentHookCopied(s) ==
    IF s.viewMode = "all" THEN {GetRecentAlerts(s.recentCount)} ELSE {}
RecentHook(s) ==
    IF s.viewMode = "recent" THEN {GetRecentAlerts(s.recentCount)} ELSE {}

(* The query of the list a page shows, as AlertList picks it.              *)
AlertsShown(s) ==
    IF s.viewMode = "all"
    THEN GetAlerts(s.showUnacknowledgedOnly) ELSE GetRecentAlerts(s.recentCount)

Hooks(s) ==
    CASE s.tab = "dashboard" -> DashboardHooks
      [] s.tab = "vehicles" -> VehicleHook(s)
      [] s.tab = "drivers" -> DriverHook(s)
      [] s.tab = "alerts" -> AllHook(s) \cup RecentHook(s)

Shown(s) ==
    IF s.tab = "alerts" THEN {AlertsShown(s)} ELSE Hooks(s)

InFlight == {q \in Queries : flight[q].at # "idle"}

(* Nothing is under way.                                                   *)
Quiet == InFlight = {} /\ muts = {}

(* "Loading..." is all there is until every list, or an error, has come;   *)
(* a page with an error shows that alone, but the dashboard, which does    *)
(* not look at errors.                                                     *)
Loading == ~(Shown(screen) \subseteq cached \cup failed)
Drawn == Shown(screen) \subseteq cached \ failed

(* What a page draws from the rows of its queries.                         *)
Stats(rows) ==
    [total |-> Cardinality(DOMAIN rows),
     each |-> [s \in Statuses |-> Cardinality({x \in DOMAIN rows : rows[x] = s})]]

Dashboard(rows) ==
    [vehicles |-> Stats(rows[GetVehicles("")]), drivers |-> Stats(rows[GetDrivers("")]),
     trips |-> rows[GetActiveTrips], alerts |-> rows[GetRecentAlerts(DashboardCount)],
     fleets |-> rows[GetFleets]]

VehicleTable(rows) == rows[GetVehicles(screen.statusFilter)]
DriverTable(rows) == rows[GetDrivers(screen.statusFilter)]
AlertGrid(rows) == rows[AlertsShown(screen)]

Content(rows) ==
    CASE screen.tab = "dashboard" -> Dashboard(rows)
      [] screen.tab = "vehicles" -> VehicleTable(rows)
      [] screen.tab = "drivers" -> DriverTable(rows)
      [] screen.tab = "alerts" -> AlertGrid(rows)

(* The rows the cache has for a query, none if it does not know it.        *)
Rows(q) == [x \in (IF q \in cached THEN lists[q] ELSE {}) |-> entity[x]]

-----------------------------------------------------------------------------
NoRows == [x \in {} |-> "absent"]
Idle == [at |-> "idle", rows |-> NoRows]

(* A query that is sent.  No trip and no fleet changes here, so that it    *)
(* does not matter when those two run.                                     *)
Asked(q) ==
    [at |-> IF q \in {GetActiveTrips, GetFleets} THEN "ran" ELSE "asked", rows |-> NoRows]

Screens ==
    [tab : Tabs, statusFilter : Filters, showUnacknowledgedOnly : BOOLEAN,
     recentCount : Counts, viewMode : {"all", "recent"}]

(* A mutation under way; unmounted is the view it is to fetch again once   *)
(* its page has gone.                                                      *)
Mutations ==
    [n : 0 .. MaxEvents, item : Items, to : Values, tab : Tabs \ {"dashboard"},
     at : {"sent", "done", "null"}, unmounted : Queries \cup {<<>>}]

TypeOK ==
    /\ db \in [Items -> Values] /\ entity \in [Items -> Values]
    /\ \A x \in Items : {db[x], entity[x]} \subseteq ValuesOf(x) \cup NotThere
    /\ screen \in Screens
    /\ cached \subseteq Queries \ {GetFleets} /\ lists \in [Queries -> SUBSET Items]
    /\ DOMAIN flight = Queries
    /\ \A q \in Queries : /\ flight[q].at \in {"idle", "asked", "ran"}
                          /\ DOMAIN flight[q].rows \subseteq Items
                          /\ \A x \in DOMAIN flight[q].rows :
                                flight[q].rows[x] \in ValuesOf(x)
    /\ attached \subseteq InFlight \cap Hooks(screen)
    /\ failed \subseteq Hooks(screen)
    /\ muts \subseteq Mutations
    /\ \A m \in muts : /\ m.to \in ValuesOf(m.item) \cup {"gone"}
                       /\ m.unmounted = <<>> => m.tab = screen.tab
    /\ clicks \in 0 .. MaxEvents /\ upsets \in 0 .. MaxUpsets
    /\ undisturbed \in BOOLEAN

(* The application starts on the dashboard, with an empty cache.           *)
Init ==
    /\ db \in InitialData
    /\ screen = Page("dashboard")
    /\ cached = {}
    /\ lists = [q \in Queries |-> {}]
    /\ entity = [x \in Items |-> "absent"]
    /\ flight = [q \in Queries |-> IF q \in DashboardHooks THEN Asked(q) ELSE Idle]
    /\ attached = DashboardHooks
    /\ failed = {}
    /\ muts = {}
    /\ clicks = 0 /\ upsets = 0
    /\ undisturbed = TRUE

Click == clicks + upsets < MaxEvents /\ clicks' = clicks + 1
Upset == clicks + upsets < MaxEvents /\ upsets < MaxUpsets /\ upsets' = upsets + 1

-----------------------------------------------------------------------------
(* The views of the pages.                                                 *)

(* The page shows another view: hooks send the queries that are not cached *)
(* and stop waiting for all others, whose requests may be aborted.         *)
ShowView(s) ==
    LET missing == Hooks(s) \ cached
    IN  /\ Click
        /\ screen' = s
        /\ flight' = [q \in Queries |->
                          IF q \in missing \ InFlight THEN Asked(q)
                          ELSE IF q \in missing \cup Outliving THEN flight[q] ELSE Idle]
        /\ attached' = missing
        /\ failed' = {}
        /\ undisturbed' = (Quiet /\ missing = Hooks(s))
        /\ UNCHANGED <<db, cacheVars, upsets>>

(* A mutation whose page is unmounted keeps the refetch of its last view.  *)
(* Slip: the pages stay mounted, hidden.                                   *)
UnmountHidden(m) == m
Unmount(m) == IF m.unmounted = <<>>
              THEN [m EXCEPT !.unmounted = CHOOSE q \in Shown(screen) : TRUE] ELSE m

SelectTab(tab) ==
    /\ tab # screen.tab
    /\ ShowView(Page(tab))
    /\ muts' = {Unmount(m) : m \in muts}

(* A control of the page that is drawn changes a state of its hooks.       *)
Control(s) ==
    /\ Drawn
    /\ s # screen
    /\ ShowView(s)
    /\ UNCHANGED muts

VehicleFilter(f) == screen.tab = "vehicles" /\ Control([screen EXCEPT !.statusFilter = f])
DriverFilter(f) == screen.tab = "drivers" /\ Control([screen EXCEPT !.statusFilter = f])

ViewMode(mode) == screen.tab = "alerts" /\ Control([screen EXCEPT !.viewMode = mode])

UnacknowledgedOnly ==
    /\ screen.tab = "alerts" /\ screen.viewMode = "all"
    /\ Control([screen EXCEPT !.showUnacknowledgedOnly = ~screen.showUnacknowledgedOnly])

RecentCount(n) ==
    /\ screen.tab = "alerts" /\ screen.viewMode = "recent"
    /\ Control([screen EXCEPT !.recentCount = n])

(* refetch(): the query is sent, or its request in flight is shared - one  *)
(* that has already run at the gateway brings an answer of the past.       *)
Refetch(q) ==
    /\ flight' = [flight EXCEPT ![q] = IF q \in InFlight THEN flight[q] ELSE Asked(q)]
    /\ attached' = attached \cup ({q} \cap Hooks(screen))

(* The query a page refetches.  Slip: AlertList has one refetch for both   *)
(* of its views.                                                           *)
RefetchedOne(s) ==
    IF s.tab = "alerts" THEN GetAlerts(s.showUnacknowledgedOnly)
    ELSE CHOOSE q \in Shown(s) : TRUE
Refetched(s) == CHOOSE q \in Shown(s) : TRUE

RefreshButton(tab) ==
    /\ screen.tab = tab
    /\ Click
    /\ Drawn
    /\ Refetch(Refetched(screen))
    /\ undisturbed' = (undisturbed \/ Quiet)
    /\ UNCHANGED <<db, screen, cacheVars, failed, muts, upsets>>

VehicleRefresh == RefreshButton("vehicles")
DriverRefresh == RefreshButton("drivers")
AlertRefresh == RefreshButton("alerts")

-----------------------------------------------------------------------------
(* The requests of queries.                                                *)

RunQuery(q) ==
    /\ flight[q].at = "asked"
    /\ flight' = [flight EXCEPT ![q] = [at |-> "ran", rows |-> Answer(q)]]
    /\ UNCHANGED <<db, screen, cacheVars, attached, failed, muts, clicks, upsets, undisturbed>>

Ended(q) ==
    /\ flight' = [flight EXCEPT ![q] = Idle]
    /\ attached' = attached \ {q}

(* The answer is written to the cache, the values of its items too.        *)
Arrives(q) ==
    /\ flight[q].at = "ran"
    /\ q # GetFleets
    /\ cached' = cached \cup {q}
    /\ lists' = [lists EXCEPT ![q] = DOMAIN flight[q].rows]
    /\ entity' = [x \in Items |-> IF x \in DOMAIN flight[q].rows
                                  THEN flight[q].rows[x] ELSE entity[x]]
    /\ Ended(q)
    /\ failed' = failed \ {q}
    /\ UNCHANGED <<db, screen, muts, clicks, upsets, undisturbed>>

(* A request nobody mounted waits for is aborted, or its answer dropped.   *)
Dropped(q) ==
    /\ q \in InFlight \ attached
    /\ Ended(q)
    /\ UNCHANGED <<db, screen, cacheVars, failed, muts, clicks, upsets, undisturbed>>

Error(q) ==
    /\ Ended(q)
    /\ failed' = failed \cup ({q} \cap attached)

(* The gateway has no field "description" on a fleet: GetFleets is refused *)
(* by validation, always.                                                  *)
FleetsRefused ==
    /\ flight[GetFleets].at = "ran"
    /\ Error(GetFleets)
    /\ UNCHANGED <<db, screen, cacheVars, muts, clicks, upsets, undisturbed>>

QueryFails(q) ==
    /\ Upset
    /\ q \in InFlight
    /\ Error(q)
    /\ UNCHANGED <<db, screen, cacheVars, muts, clicks, undisturbed>>

-----------------------------------------------------------------------------
(* The mutations.                                                          *)

(* mutations.ts: an item and what becomes of it.                           *)
UpdateVehicleStatus(v, status) == [item |-> v, to |-> status]
DeleteVehicle(v) == [item |-> v, to |-> "gone"]
UpdateDriverStatus(d, status) == [item |-> d, to |-> status]
DeleteDriver(d) == [item |-> d, to |-> "gone"]
AcknowledgeAlert(a) == [item |-> a, to |-> "acknowledged"]

(* A row, or a card, of the list is acted upon.                            *)
Mutate(tab, mutation) ==
    /\ screen.tab = tab
    /\ Click
    /\ Drawn
    /\ mutation.item \in lists[Refetched(screen)]
    /\ muts' = muts \cup {[n |-> clicks, item |-> mutation.item, to |-> mutation.to,
                           tab |-> tab, at |-> "sent", unmounted |-> <<>>]}
    /\ UNCHANGED <<db, screen, cacheVars, requestVars, upsets, undisturbed>>

VehicleStatusChange(v, status) ==
    entity[v] # status /\ Mutate("vehicles", UpdateVehicleStatus(v, status))
VehicleDelete(v) == Mutate("vehicles", DeleteVehicle(v))
DriverStatusChange(d, status) ==
    entity[d] # status /\ Mutate("drivers", UpdateDriverStatus(d, status))
DriverDelete(d) == Mutate("drivers", DeleteDriver(d))
Acknowledge(a) == entity[a] = "new" /\ Mutate("alerts", AcknowledgeAlert(a))

(* The resolver: an item that is no longer there is not changed, and the   *)
(* answer is null (false for a deletion).                                  *)
RunMutation(m) ==
    /\ m.at = "sent"
    /\ IF db[m.item] \in NotThere
       THEN UNCHANGED db /\ muts' = (muts \ {m}) \cup {[m EXCEPT !.at = "null"]}
       ELSE /\ db' = [db EXCEPT ![m.item] = m.to]
            /\ muts' = (muts \ {m}) \cup {[m EXCEPT !.at = "done"]}
    /\ UNCHANGED <<screen, cacheVars, requestVars, clicks, upsets, undisturbed>>

(* onCompleted, whatever the answer is: the view is fetched again.         *)
View(m) == IF m.unmounted = <<>> THEN Refetched(screen) ELSE m.unmounted

Completes(m) ==
    /\ m.at \in {"done", "null"}
    /\ muts' = muts \ {m}
    /\ entity' = IF m.at = "done" /\ m.to # "gone"
                 THEN [entity EXCEPT ![m.item] = m.to] ELSE entity
    /\ Refetch(View(m))
    /\ undisturbed' = (\/ undisturbed /\ flight[View(m)].at # "ran"
                       \/ InFlight = {} /\ muts = {m} /\ m.unmounted = <<>>)
    /\ UNCHANGED <<db, screen, cached, lists, failed, clicks, upsets>>

(* A mutation fails, before or after it has run: nothing is shown, nothing *)
(* fetched.                                                                *)
MutationFails(m) ==
    /\ Upset
    /\ muts' = muts \ {m}
    /\ undisturbed' = FALSE
    /\ UNCHANGED <<db, screen, cacheVars, requestVars, clicks>>

(* Somebody else creates, changes or deletes an item.                      *)
OtherChange(x, to) ==
    /\ Upset
    /\ db[x] \notin {"gone", to}
    /\ db[x] = "absent" => to # "gone"
    /\ db' = [db EXCEPT ![x] = to]
    /\ undisturbed' = FALSE
    /\ UNCHANGED <<screen, cacheVars, requestVars, muts, clicks>>

-----------------------------------------------------------------------------
NetworkStep(q) == RunQuery(q) \/ Arrives(q) \/ (q = GetFleets /\ FleetsRefused)

Next ==
    \/ \E tab \in Tabs : SelectTab(tab)
    \/ \E f \in Filters : VehicleFilter(f) \/ DriverFilter(f)
    \/ \E mode \in {"all", "recent"} : ViewMode(mode)
    \/ UnacknowledgedOnly
    \/ \E n \in Counts : RecentCount(n)
    \/ VehicleRefresh \/ DriverRefresh \/ AlertRefresh
    \/ \E v \in Vehicles : VehicleDelete(v) \/ \E s \in Statuses : VehicleStatusChange(v, s)
    \/ \E d \in Drivers : DriverDelete(d) \/ \E s \in Statuses : DriverStatusChange(d, s)
    \/ \E a \in Alerts : Acknowledge(a)
    \/ \E q \in Queries : NetworkStep(q) \/ Dropped(q) \/ QueryFails(q)
    \/ \E m \in muts : RunMutation(m) \/ Completes(m) \/ MutationFails(m)
    \/ \E x \in Contested : \E to \in ValuesOf(x) \cup {"gone"} : OtherChange(x, to)

(* The network and the gateway go on while a query is under way; nothing   *)
(* makes the user or others act, or a mutation be answered.                *)
Fairness == WF_vars(\E q \in Queries : NetworkStep(q))

Spec == Init /\ [][Next]_vars /\ Fairness

-----------------------------------------------------------------------------
(* The screen tells the truth once nothing is under way: every list and    *)
(* number it shows is what the gateway would answer now - after the user's *)
(* own changes, overlapping ones too, and whatever was in flight.  What    *)
(* the page cannot know of is left out: a change by others, a failed       *)
(* mutation, a list taken from the cache, a view changed while requests    *)
(* were under way, a refetch that had to share a request already run -     *)
(* until the user, at rest, fetches again.                                 *)
ScreenIsCurrent ==
    undisturbed /\ Quiet /\ failed \subseteq {GetFleets} =>
        Content([q \in Shown(screen) |-> Rows(q)])
            = Content([q \in Shown(screen) |-> Answer(q)])

(* What makes it so: while the page is undisturbed, all that is under way  *)
(* is its own, an answer on its way is still good, and so are the rows     *)
(* drawn - unless a mutation has run whose refetch is yet to come.         *)
FetchInv ==
    undisturbed =>
        /\ InFlight \subseteq attached
        /\ \A m \in muts : m.unmounted = <<>>
        /\ (\A m \in muts : m.at # "done") =>
              \A q \in Shown(screen) :
                  /\ flight[q].at = "ran" => flight[q].rows = Answer(q)
                  /\ flight[q].at = "idle" /\ q \notin failed =>
                        q \in cached /\ Rows(q) = Answer(q)

(* The inductive invariant of FleetClient.                                 *)
IInv == TypeOK /\ FetchInv

(* "Loading..." ends: whatever view is asked for, while requests of other  *)
(* views are under way, are dropped or fail, its lists or errors come.     *)
PageGetsData == Loading ~> ~Loading
=============================================================================
