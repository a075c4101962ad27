# Verification of the API architecture demo

This directory holds TLA+ models of the fleet demo in this repository, the TLC configurations that
check them, and proofs that TLAPS checks. The demo is one ASP.NET gateway (REST, GraphQL, SignalR
hubs, Server-Sent Events) over services that keep their entities in memory, a gRPC sensor service,
an MQTT broker, and five clients. Paths below are relative to the repository's `src/` directory.

## Inventory

| Component | State | Operations | What makes it correct |
|---|---|---|---|
| SSE alert stream (`DemoApi.Gateway/SSE/AlertStreamService.cs`, `Controllers/SseController.cs`) | `_clients`, one unbounded channel per session | subscribe, push, unsubscribe, broadcast, statistics | no session leaks; a session sees every alert once, in order; one leaver costs nobody else an alert; the trigger request tells the truth |
| Entity services (`DemoApi.Application/Services/*.cs`, singletons of `DependencyInjection.cs`) | one `List<T>` each, no lock | list, look up, create, update, delete, status changes | what is created stays until deleted; nothing is listed twice; updates are not torn |
| REST controllers, GraphQL (`Controllers/`, `GraphQL/`) | none | one service call each; status mutations read, change and write back | answers 2xx or 404, null for what is not there, as declared |
| Signaling: hub and roster (`Hubs/SignalingHub.cs`, Angular `signaling.service.ts`, `app.component.ts`) | `_peers`; each tab's peer list, HubConnection and screen | join, leave, disconnect, reconnect | every tab shows exactly the other registered peers; who is shown as in the room can be called |
| WebRTC calls (Angular `webrtc.service.ts`) | a map from peer to RTCPeerConnection, the labels "Connected" | call, offer, answer, candidate, hang up, clean up | a call connects both ends; descriptions reach their own connection; hanging up closes everything |
| Tracking hub and dashboard (`Hubs/TrackingHub.cs`, Blazor `TrackingHubService.cs`, `Dashboard.razor`) | groups per vehicle; a table of positions, 50 alerts | subscribe, send location, broadcast alert, load, reconnect | the last position wins; subscriptions survive a reconnection |
| Chat hub (`Hubs/ChatHub.cs`) | `_connectedUsers`, a plain Dictionary; role groups | join, message, private message, role message, leave | the list of users is exact; a confirmed private message was delivered |
| Vehicle page (Blazor `Vehicles.razor`) | the table and one edit form | load, edit, save, delete | saving changes what the user changed |
| Vue SSE client (`useSSE.js`, `AlertStream.vue`, `AlertTrigger.vue`) | one EventSource, four refs about it, a list of 100 alerts; a form and its outcome | connect, disconnect, reconnect, receive, clear; post one alert or three | the status tells of the one live stream; the list is the newest alerts, none twice; success is said of what succeeded; a lost stream comes back |
| gRPC sensor service (`SensorServiceImpl.cs`) | local to each call | stream, batch, exchange, history | counters agree; the exchange echoes in order |
| MQTT broker, simulators (`MqttBrokerService.cs`, `fleet_simulator.py`, `vehicle_simulator.py`) | topics; threads and a running flag | publish, dispatch, start, stop | every started vehicle ends OFFLINE |
| React GraphQL client (`App.tsx`, `FleetDashboard.tsx`, `VehicleList.tsx`, `DriverList.tsx`, `AlertList.tsx`) | the tab, filters and views of its page; Apollo's cache and requests | choose tab, filter, view; refresh; change, delete, acknowledge | at rest the screen shows what the gateway holds, as far as the page can know; every "Loading..." ends |
| Database seeder, entities, start-up | constants | wiring | nothing of their own |

How they interact: clients call the gateway over HTTP, a SignalR connection or an event stream; every
request runs on a thread of its own and meets the others in the singletons (the lists, the channel
registry, the hubs' dictionaries). Angular tabs talk to each other through the hub and, once
connected, directly. `POST /sse/alerts/test` is the only path from a service to a push: creating an
alert over REST or GraphQL pushes nothing, and the GraphQL subscriptions have no publisher.

What is hard here: threads that meet in unlocked lists and in a registry that is copied before it is
used; hub methods of different connections that interleave at every `await`; connections that break,
are noticed late and come back under another id; browser handlers that are suspended between two
messages; a page that fetches while it changes what it fetches; two users who act at once. Nothing is
persisted, so a crash of the gateway only restarts it empty; there is no crash recovery to model. `PROJECT.json` lists each hazard at its line.

## Modules

### AlertStream and AlertFeed

A session (one `GET /sse/alerts`) walks through `pc[c]`: *new*, *connecting* (registered, writing the
`connected` event), *waiting* and *draining* (the two loops of `ReadAllAsync`), *writing*, *finally*
(before `TryRemove`), *completing* (before `Complete`), *done*. A trigger request walks through
`tpc[a]`: *new*, *saved* (`CreateAsync` done), *writing* (snapshot taken), *ok* or *failed*. Steps are
single accesses to the dictionary, to a channel, or one awaited response write, so every interleaving
of subscribing, leaving and broadcasting is there. `ClientAborts` is the browser going away at any
moment; a write to an aborted response is discarded (`WriteAlert`) or throws (`WriteThrows`).
`written` and `sent` are histories: all that was put in a channel, all that reached the browser.

`AlertFeed` is the promise: a feed of stored alerts per session and a browser that sees it in order.
`AlertStream` implements it with `feed <- written`, `seen <- sent` and a phase computed from the
handler's position (`ImplementsFeed`).

### EntityList and EntityStore

The list of a service, at the grain of `List<T>`: `_items` is a reference (`cur`) to one of the arrays
in `heap`, and a step is one read or write of the reference or of `_size`, one store to an array, or
one bulk copy or search, in the order in which `List<T>` does them. `Add` is `ReadItems`, `ReadSize`,
`Reserve`, `Store`, or, when the array is full, `AddWithResize`, `Grow`, `Install`, `Resize`, `PutLast`.
A look-up reads the size (`Look`), then the reference (`AsSpan`, which throws when the two do not fit)
and walks the slots it got (`Scan`). `Remove` searches again (`IndexOf`), takes one off the size
(`Shrink`, `Decrease`), moves the slots down (`Shift`) and clears the last (`Clear`). A request holds in
`arr`, `num` and `at` what it has read, which other requests make stale. `VehicleService` stands for
the six services, whose storage code is the same. The internals of `List<T>` are external code,
modelled from how the services call it. A request may name any entity whose creation has been
answered, or an unknown id. `settled` is a history: what was listed when last no request was under way.
`EntityStore` is the atomic set that clients rely on.

### SignalingRoom

Tabs, clicks on "Join Room" (each draws a fresh peer id, so the click and the id are one) and SignalR
connections. `hub[t]` is the tab's HubConnection, *stuck* when a failed start or exhausted retries have
left it set but dead; `state[k]` is the connection as the server sees it, *dropped* between the loss and
the server's notice. `Register` runs as Register, Announce, List, Reply; `OnDisconnectedAsync` as
OnDisconnected and SendPeerLeft; `peer[k]` is the peer a running `Register` is about. `wire[k]` keeps the
order of one connection. `Overlap` bounds how many hub methods run at once; with 1 the hub is as if it
had a lock.

`_peers` is a plain `Dictionary` that nobody locks (`SignalingHub.cs:11`). An access lasts until the next
step of its method. While another method is in one of its writes (`Contended`), an access is done, is
without effect, or throws (`Outcomes`): the entry of `Register` is lost, or the invocation fails and the
click with it (`Rejection`); the enumeration of `existingPeers` throws; `OnDisconnectedAsync` does not
remove its entry, or ends without a `PeerLeft`. Of two accesses that overlap it is the later one that
suffers here; which one it is makes no difference to what is claimed. That an enumeration runs into an
entry just emptied and lists nothing, or null, is left out. So under overlap the room promises next to
nothing, and the properties about the roster, ghosts and leaked entries are all of an `Overlap` of 1,
which nothing in the code enforces.

### PeerCall

Peers already in the room call each other. A handler of `webrtc.service.ts` is cut at its awaits: a
connection's `task` says which promise it waits for, and messages are handled in between. `conn` keeps
every RTCPeerConnection ever created, because those that the map has forgotten go on living, and
`entry[p][q]` is the map. Browser ICE is external: two connections can connect when each has set the
other's description and a candidate has got through. The hub only forwards, so sending is one step
(`SendTo`). Whether a peer has its camera on is a constant.

### SseClient

One page of the Vue client, composed with the promise of the gateway:
`Server == INSTANCE AlertFeed WITH Clients <- Sessions`, where each GET of the page's EventSource is a
session of its own. `link[c]` is the browser's end of session c, `eventSource` the session that the
variable of that name holds, and the four refs of `useSSE` are variables under their own names. A step
is one task of the page's event loop (a click, an event, an error), one step of a request at the
gateway, or a fault. The EventSource is the browser's: after a loss it fires `error` and asks again by
itself, after a refusal it fires `error` and stops, after `close()` it delivers nothing. The POSTs of
the form go through the gateway's steps (`Store`, `Snapshot`, `Broadcast`, `Answer`), so that a loss or
a Disconnect can fall between any two; a session the gateway has not yet released may be in a snapshot
together with the page's new one. `OtherPage` is another page that posts. A promise of the form is
fulfilled when the answer is JSON: `triggerTestAlert` does not look at `response.ok`, but the body of
the one error answer there is, a 500, is not JSON. An empty message is no error: the rule that
`TestAlertRequest.Message`, not being nullable, is required admits empty strings, so that such an alert
is stored and broadcast like any other; the model does not tell messages apart.

Three things the model shows that no document of the repository contradicts: `error` is cleared by a click
on Connect only, so that a page that has come back by itself shows "Connected" above "Connection lost.
Retrying..."; `clientId` keeps the id of the lost stream until the next one has connected (`StatusHonest`
speaks of it only while the page is connected); and since no event carries an id, alerts saved between the loss and the new session are
not replayed.

### FleetClient

One tab of the React client, the GraphQL gateway and others who use it. A query is a value (`GetVehicles("")`,
`GetAlerts(TRUE)`, ...), its answer the items it lists with their values; an item has one value, its
status or whether an alert is acknowledged, *absent* before it is created and *gone* after it is
deleted. `screen` holds the tab and the `useState` values of its page, `Hooks(screen)` the queries its
hooks are mounted with. `flight[q]` is the request of a query: *asked* until the gateway runs it, *ran*
until its answer arrives, so an answer can grow old on its way. `attached` are those that a mounted hook
waits for, `failed` the hooks that show an error. A mutation is *sent*, then *done* or *null* (its item
was no longer there), and completes in the page that started it, or, once that is unmounted, with the
refetch of that page's last view.

Apollo is external and modelled from what the pages rely on: lists are cached per query, values per
item; a hook sends its query only when its list is missing; `refetch()` always sends, unless the same
query is in flight, and then shares that answer; the answer of a mutation updates its item, and a
deletion, which answers a Boolean, nothing. An answer that nobody waits for may be written to the cache
or dropped.

## What the runs check

| Run | Instance | Result |
|---|---|---|
| `alert_stream` | 2 sessions, 2 alerts | type and inductive invariant; `RegistryExact`, `NothingLost`, `SavedBeforePushed`, `OthersUnharmed`, `AnswerIsTruthful`; refinement of `AlertFeed`; liveness `EverySubscriberSees`, `LeaverIsReleased`, `TriggerIsAnswered` |
| `alert_stream_e2e` | 1 session, 1 alert | violated: `TriggerSucceeds` |
| `entity_list_serial` | 3 creations, 2 deletions, 2 look-ups, one at a time | inductive invariant `SerialInv`; refinement of `EntityStore` |
| `entity_list_races` | 3 creations, 1 deletion, 1 look-up, three at a time | types and inductive invariant; `SettledSurvive`, `SettledFound` |
| `entity_list_lost` | 2 creations, two at a time | violated: `CreatedPersist` |
| `signaling_room` | 2 tabs, 2 clicks, 3 connections, hub methods one at a time | types and inductive invariants `IInv`, `CalmInv` (with `NoLeakedPeer`); `RosterExact`; liveness `GhostsLeave`, `JoinSettles` |
| `signaling_race` | 2 tabs, 2 clicks, 2 connections, hub methods overlapping | violated: `ListedOnce` |
| `signaling_reconnect` | 1 tab, 1 click, 2 connections | violated: `OnlineIsReachable` |
| `peer_call` | 2 peers with cameras, 2 clicks on Call, one peer may leave or lose its link | type and inductive invariant; `GoneForGood`, `LeaveHangsUp`, `BadgeHonest`; liveness `CallConnects`, `OthersHangUp` |
| `peer_call_crossed` | 2 peers, 2 clicks, nobody leaves | violated: `CallEstablished` |
| `sse_client` | 2 sessions of one page, 2 alerts, a list of 2, batches of 2, 2 faults | types and inductive invariant; `StatusHonest`, `ListIsNewest`, `FormHonest`; liveness `AlertReachesScreen`, `ComesBack` |
| `fleet_client` | 2 vehicles, 1 driver, 2 alerts, 4 clicks or upsets, one of them an upset | types; `ScreenIsCurrent`; liveness `PageGetsData` |

Why these bounds are enough to be interesting:

- Two broadcasts and two sessions give a second writer per channel and a session that leaves while the
  other stays. The safety properties do not depend on the bound: they are proved for any sets.
- `DefaultCapacity` is 1 instead of 4, so that three creations already grow the list three times, and
  all three may run at once, or two of them with a deletion or a look-up. The safety properties do not
  depend on the bounds: they are proved for any requests and any overlap.
- Three connections let one of two tabs drop, come back and still meet the notice of its first
  connection. Two clicks are two joins, or one tab that joins, leaves and joins again.
- `MaxCalls = 2` gives crossed calls, a double click, and a call after another has ended; 2 is the
  least bound at which calls cross. That a connection reaches no third peer (`RightPeer`, a part of
  `IInv`) says little of two peers; three with these bounds and the liveness properties take too long
  for a run that is repeated often, so it rests on the proof, for any number of peers (`NobodyElse`).
  TLC has checked it, outside the listed runs, of three peers, two calls and one who leaves.
- Two sessions are the page's stream before and after a loss (or a Disconnect, or a second click on
  Connect), and the two that one snapshot can hold. With `Cap = 2` and two alerts the list can be in the
  wrong order, and the same alert on it twice; a third alert, which cuts it, is left to the proof: the
  invariants are proved for any bounds, so for a list of 100 as for one that is cut each time.
- `MaxEvents = 4` lets a user change two rows, refresh and switch the page while all of it is under
  way, and `MaxUpsets = 1` puts one failed request, failed mutation or change of somebody else
  (to an item in `Contested`) between them. `Outliving` are the queries whose request may go on
  after its hook has left, one of the dashboard and the vehicle page and one of the alerts; for the others a request
  ends with its hook, as when it is aborted. `DashboardCount` and `InitialCount` differ, as 5 and 10 do.

No run checks deadlock. Every model ends: sessions close, requests are answered, clicks and connection
ids are used up, a page that is left alone is at rest, and a quiet gateway has nothing to do.

### Disagreements between the code and what the repository says

- **A trigger request answers 500 for work it has done** (`alert_stream_e2e`). A session that leaves
  between the snapshot and the write completes its channel; `WriteAsync` faults and `WhenAll` rethrows.
  The end-to-end test expects success. `OthersUnharmed` shows that nobody else misses the alert.
- **A created entity vanishes** (`entity_list_lost`). Two overlapping `Add` calls write the same slot.
  TLC also shows, outside the listed runs, that a deletion that overlaps a creation can list a
  neighbour twice for good, both requests being answered 2xx, since the copy and the clearing of
  `RemoveAt` are separate writes; that two overlapping deletions remove a neighbour of the deleted
  entity; that a look-up overlapping a creation can meet an empty slot and answer 500, and that a burst
  of three creations can leave a hole for good. `SettledSurvive` says what is nevertheless safe:
  creations alone never lose what was there before they began.
- **A peer is listed twice** (`signaling_race`): it is in the `PeersList` and announced by `PeerJoined`.
  The trace needs no damage to the dictionary, only two `Register` calls that overlap.
- **A reconnected tab is in the room, online, and unreachable** (`signaling_reconnect`): nobody
  registers the new connection id.
- **Crossed or repeated calls never connect** (`peer_call_crossed`): the second connection overwrites
  the first in the map, and the answer is looked up by peer id.

Met while modelling, without a run of its own: `GET_FLEETS` (`queries.ts:115`) asks for a field
`description` that `Fleet.cs` does not have, so the gateway refuses the query by validation
(`FleetsRefused` is the only outcome it has in `FleetClient`); the end-to-end test
(`api.spec.ts:266`) expects data. The dashboard draws what came and counts 0 fleets. And
`ScreenIsCurrent` has to leave out a refetch that shares a request already run, whichever mutation it
follows (`Completes` ends `undisturbed`): the page is then claimed to be current only from the next fetch
at rest. A Refresh clicked just before the answer of a mutation comes makes that mutation's refetch share
the older request: the deleted row, or the old status, which the older answer writes over the new one,
stays on the screen until the next Refresh. TLC finds this when the condition on `"ran"` in `Completes`
is dropped.

Some properties carve out what the code gets wrong, and say nothing of it: `CallConnects`, `OthersHangUp`
and `LeaveHangsUp` exclude calls that crossed or were repeated (`Alone`), whose overwritten connections
really stay open; `JoinSettles` counts a rejected click as settled, although after a failed start
every later click is rejected too until the page is reloaded; `RosterExact` supposes one hub method at a
time and patient users.

### Fairness

Fairness is stated for work that has been started, never for users or for failures. `AlertStream`:
each handler and each trigger request runs on, since the thread pool schedules every continuation and
the server cuts a response write that stalls. `SignalingRoom`: hub methods run, SignalR's timeout
notices a dead connection, a message arrives or its link breaks, and a pending start ends; it is
assumed able to fail rather than certain to succeed. `PeerCall`: some step that is possible is taken;
this is weaker than fairness of each kind of step, and enough because each call consists of finitely
many steps. `SseClient`: the gateway accepts a request and pushes what it has stored, the event loop
runs its tasks; nothing makes a POST arrive. `FleetClient`: some request of a query goes on, again the
weaker form: it is enough because no request is sent but by a click or by a mutation that completes, and there are finitely
many of both. `EntityList` has no liveness property, and no fairness.

## Proofs

`AlertStreamProofs`, `EntityListProofs`, `SignalingRoomProofs`, `RosterProofs`, `PeerCallProofs`,
`SseClientProofs` and `FleetClientProofs` contain no assumption beyond the finiteness of the constant sets, the
distinctness of `None`, of `Null` and of the kinds of requests, that an alert's id is no vehicle's, the
types of the bounds and of the initial data. Two hypotheses are stated in the theorems that need them.
`Overlap = 1`, in the theorems about an entity list whose requests do not overlap and about the roster
of a hub whose methods do not; without it they are false (`entity_list_lost`, `signaling_race`).
`Patient`, in those about the roster: a user who clicks again while a join is pending registers a second
id on one connection, and the hub never announces that the first is gone; TLC finds `RosterExact`
violated without it (three clicks of two tabs on two connections).

- **AlertStream.** `RegistryExact` and `NothingLost` are not inductive alone. `IInv` adds `SessionInv`
  (who holds an alert and who can have been cancelled), `TriggerInv` (what a request's local variables
  say at each step) and `BroadcastInv` (a broadcast has written to exactly the channels it has passed,
  but for completed ones, and faulted only if there was one). There is one lemma per conjunct, with a
  step per action, over lemmas on sequences (`MoveHead`, `InjectiveAppend`, `PrefixAppend`,
  `NextOfConcat`). `Invariance` gives `TypeCorrect`, `NoLeak`, `FeedIntegrity`, `SavedFirst`,
  `LeavingHarmsNobody` and `AnswersAreTrue`. `Refinement` shows
  `Spec => ImplementsFeed`: each handler step is a Move, See, Feed or Save of the feed, or a stutter.
- **EntityList.** Two inductive invariants, for the two ways a service is used. With overlaps, `IInv`
  says what `Add` leaves alone: while no deletion has begun there is a k such that the first k slots of
  the list hold what is settled, whatever size a creation has read is at least k, every array that is
  or may become the list's begins with the same k slots, and a look-up has not passed its target among
  them (`SettledInv`). From it follow the action properties `CreationsSpareSettled` and
  `CreationsHideNothing`, for any number of requests at once. Without overlaps, `SerialInv` says what
  the one request under way finds at each of its steps: different entities up to the size, nothing
  behind, but for the slot that an `Add` has reserved or a `RemoveAt` has vacated. `SerialInvariance`
  keeps it across every growth, and `Refinement` maps one step of each request (the store of an `Add`,
  the first write of a `RemoveAt`, the end of a search) to the step of `EntityStore` and all others to
  a stutter.
- **SignalingRoom.** For any number of tabs, connections and clicks and any `Overlap`, lost and throwing
  accesses to the dictionary included, `Invariance` and `TypeCorrect` show what the code relies on
  without looking: a tab that is up has a connection (`LinkUp`), a running method knows the peer it is
  about, and `PeerLeft` is sent only of an entry that was found (`HubInv`). Nothing more is true there: an
  entry can be lost or left behind. `RosterProofs` shows that the roster is right when nothing overlaps. `RosterExact`
  speaks only of rooms at rest; `CalmInv` says what makes it come out so. `ToldInv` is the heart of it: for
  each id, the `PeerJoined` and `PeerLeft` on a tab's wire behind the list it shows, or behind the
  `PeersList` it is about to get, add up to whether the tab should know that id, which is so from the
  announcement to the broadcast of `PeerLeft` (`KnownTo`). It needs that an id is announced once: one
  connection has it in hand (`HoldInv`) and nobody has heard of it before (`FreshInv`); that in turn
  needs a connection to register once, because what it holds is its tab's own and keeps the button away
  (`AwaitInv`), and that the hub's steps belong to one method (`OneAtATime`), so that no access to
  the dictionary goes wrong, no invocation fails (`NothingFails`) and no entry is left behind (`NoLeakedPeer`). The lemmas on wires
  (`ToldJoined`, `ToldLeft`, `ToldHandled`, `ToldReplied`) say what a message more or less does to such a
  list, `TabCases` sorts the steps of a tab into four effects, and one lemma per conjunct goes through
  the actions. `CalmInvariance` and `RosterIsExact` hold for any tabs, clicks and connections.
- **PeerCall.** That a description only ever reaches a connection to the peer it came from
  (`RightPeer`) needs to know what the map and the messages hold: an entry is a connection its owner
  opened to that peer (`EntryInv`), a message carries a description of a connection its sender made
  for the receiver (`MailInv`). That a peer who left never comes back into the map (`GoneForGood`)
  rests on order: `PeerLeft` is the last message from a peer that is no longer registered (`MailInv`),
  so once it is handled nothing from that peer is still to come (`GoneInv`). The lemmas follow the
  code's own helpers: what creating, amending and closing a connection keeps, what sending adds to an
  inbox, and then one step per action for types, entries, mail and `RightPeer`. That leaving closes every
  connection (`LeaveHangsUp`) speaks of connections that the map may have forgotten: `HeldInv` says
  that a connection is closed or in its owner's map unless there was a second call between the two,
  and `LeftInv` that the map of a tab that has left is empty. `BadgeHonest` needs the course of a call:
  `StageInv` (a connection's pending promise and its signaling state agree, and ICE has begun only once
  both descriptions are set), `OfferInv` (an offer that nobody has answered is on the way, or its
  receiver works on it, or it has been abandoned) and `BadgeInv` (who is shown and not known to be gone
  has a negotiated connection that has not failed); the lemmas name what a step can do to a
  connection (it is steady, opened, accepted or repeated) so that each action is one of few cases.
  `Invariance`, `TypeCorrect`, `NobodyElse`, `NoReturn`, `LeavingHangsUp` and `BadgesAreHonest` hold for
  any peers, clicks and leavers.
- **SseClient.** That the page holds the only live stream (`StatusHonest`) is inductive as it stands,
  once the links are typed: each handler that opens a stream closes, or has lost, the one before.
  `FormHonest` needs to know what an answer stands for: a request that has ended has been stored and has
  nothing left to write (`RequestInv`), and while the form waits, what it no longer waits for was
  answered well (`SubmissionInv`). The list is in order (`ListIsNewest`) because
  sessions follow one another: while one is live those before have ended, and those to come are
  unknown to the gateway (`SessionInv`); a session shows a prefix of its feed, which holds each alert
  once, of broadcasts that are done with it (`FeedInv`); and what a session has shown was broadcast
  before the next one subscribed, so that it is never given to a later one (`SeenOnce`). So an alert
  that comes up was pushed after everything on the screen and is none of it (`ListStep`), and
  `unshift` and `pop` put it on top and move the others down (`ShowOnTop`). `FeedEffect` sums up the
  actions by what they do to the feeds, so that each of these parts has four cases. `Invariance`,
  `TypeCorrect`, `StatusIsHonest`, `ListInOrder` and `FormIsHonest` hold for any
  number of sessions, alerts and faults, any cap and any size of a batch.
- **FleetClient.** A page at rest is right because of what holds while it is not at rest (`FetchInv`):
  as long as nothing disturbs it, every request in flight is one the page waits for, an answer on its
  way equals what the gateway would say now, and so do the rows of every query that is not in flight,
  unless some mutation has run whose completion is still to come; its refetch then starts anew. The
  lemmas say what an answer needs to stay good (`GoodUntouched`, `AskedNext`, `ArrivesGood`, where two
  lists share items) and that a page but the dashboard has one query, the one it refetches (`OneShown`);
  then there is one lemma per action. `Invariance`, `TypeCorrect` and `ScreenCurrent` hold for any
  items and statuses, any number of clicks and upsets, any `Contested` and `Outliving`.

Left to TLC: the liveness properties and anything with ENABLED, which this prover does not handle.
Every safety property that a passing run checks is a theorem. `ListedOnce`, which overlapping methods
violate, follows from `RosterExact` when they do not overlap.

Each property has at least one mutant in `PROJECT.json`: a slip of the code, kept as an operator right
before the one it spoils (`UnregisterForgotten` before `Unregister`), that TLC finds the property
violated under. The slips of `EntityList` under overlap are in `List<T>`'s growth and bounds checks (`CopiedEmpty`,
`FitsAlways`), because it is these that the services lean on: their own code is a single call.

## Plan

In order of weight:

1. `EntityRecord`: one entity as a shared object. Field-wise `UpdateAsync`, the status operations of
   trips, deliveries and alerts, the GraphQL status mutations that copy an object onto itself, and the
   edit form of `Vehicles.razor` holding a stale copy. Properties: an update is not torn by another, a
   status history is legal, a saved form changes only what was edited.
2. `LiveTracking`: `TrackingHub`, its groups, `TrackingHubService` and the dashboard's table; load
   overlapping with updates, reconnection, disposal.
3. `ChatRoom`: the roster of `ChatHub` over a plain Dictionary, private messages, role groups; the
   delivery abstraction shared with `SignalingRoom`.
4. `FleetShutdown`: the simulator's threads, the running flag, Ctrl+C, the bounded join, and the topics
   the broker dispatches.
5. `SensorStream`: batch counters and the echoing exchange.

Each gets one passing run on two actors of each kind. The project is kept at a dozen runs, so that it
stays quick to check: a new module's run takes the place of a configuration whose disagreement is
settled. Abstract specifications worth stating: a register per field for `EntityRecord`, the exact
roster for `ChatRoom`.

Proofs planned: the type and safety invariants of the modules above.

## Not modelled, and why

The parts of the plan above are not modelled yet. Of the two browser clients, what no component calls
is left out: `onAlert` and `getSSEStats` of `useSSE.js`, and the queries and mutations of `queries.ts`
and `mutations.ts` that no page uses; so are React's StrictMode, which mounts twice in development only,
and the confirmation of a deletion. The seeder fills an in-memory
database that no service reads. `GreeterService` and the console client are template examples. Entities
and enumerations are records without behaviour. Chat text, payloads, alert texts, positions and random
readings are data that no property depends on.
