------------------------------ MODULE SseClient ------------------------------
(***************************************************************************)
(* The Vue client of the alert stream, one browser page: useSSE.js with    *)
(* the two components that use it, AlertStream.vue (connection, list) and  *)
(* AlertTrigger.vue (the form that posts test alerts), against a gateway   *)
(* that keeps the promise of module AlertFeed.                             *)
(*                                                                         *)
(* Every GET the page's EventSource sends is a session, numbered in the    *)
(* order of the requests; its link is the browser's end of it.  The        *)
(* EventSource itself is the browser's: it opens a new session by itself   *)
(* when it loses one, gives up when it is refused, and delivers no event   *)
(* after close().  A step is one task of the page's event loop, one step   *)
(* of a request at the gateway, or a fault of the network.                 *)
(***************************************************************************)
EXTENDS Naturals, FiniteSets, SequencesExt

CONSTANTS
    MaxSessions,    \* bound: the stream requests of one page
    Alerts,         \* the trigger requests, one alert each
    Cap,            \* the length the list is kept to, 100 in the code
    BatchSize,      \* the alerts of "Send 3 Random", 3 in the code
    MaxFaults       \* bound: the faults of the network

ASSUME MaxSessionsAssumption == MaxSessions \in Nat
ASSUME SizesAssumption ==
    Cap \in Nat \ {0} /\ BatchSize \in Nat \ {0} /\ MaxFaults \in Nat

VARIABLES
    saved, phase, feed, seen,   \* the gateway, see AlertFeed
    req,            \* req[a]: where the POST of alert a stands
    todo,           \* todo[a]: the sessions its broadcast has yet to write to
    link,           \* link[c]: the browser's end of session c
    eventSource,    \* the session of the page's EventSource, 0 for null
    isConnected, connectionState, clientId, error,      \* refs of useSSE
    alerts,         \* ref of useSSE: the list on the screen
    isSubmitting, message,      \* refs of AlertTrigger
    batch,          \* the alerts of the last submission
    waiting,        \* those of them whose promise is still awaited
    faults          \* counter for MaxFaults

serverVars == <<saved, phase, feed, seen, req, todo>>
streamVars == <<link, eventSource, isConnected, connectionState, clientId, error>>
formVars == <<isSubmitting, message, batch, waiting>>
vars == <<serverVars, streamVars, alerts, formVars, faults>>

Sessions == 1 .. MaxSessions

Server == INSTANCE AlertFeed WITH Clients <- Sessions

LinkStates == {"unused", "connecting", "open", "closed"}
Live == {"connecting", "open"}
RequestStates ==
    {"idle", "sent", "saved", "writing", "faulted", "ok", "failed"}

TypeOK ==
    /\ saved \in SUBSET Alerts
    /\ phase \in [Sessions -> Server!Phases]
    /\ feed \in [Sessions -> Seq(Alerts)]
    /\ seen \in [Sessions -> Seq(Alerts)]
    /\ req \in [Alerts -> RequestStates]
    /\ todo \in [Alerts -> SUBSET Sessions]
    /\ link \in [Sessions -> LinkStates]
    /\ eventSource \in {0} \cup Sessions
    /\ isConnected \in BOOLEAN
    /\ connectionState \in {"Disconnected", "Connecting...", "Connected", "Error"}
    /\ clientId \in {0} \cup Sessions
    /\ error \in BOOLEAN
    /\ alerts \in Seq(Alerts) /\ Len(alerts) <= Cap
    /\ isSubmitting \in BOOLEAN
    /\ message \in {"none", "success", "error"}
    /\ batch \in SUBSET Alerts
    /\ waiting \in SUBSET Alerts
    /\ faults \in 0 .. MaxFaults

(* The refs as useSSE creates them: nothing connects before the button is  *)
(* pressed.                                                                *)
InitStream ==
    /\ isConnected = FALSE
    /\ connectionState = "Disconnected"
    /\ clientId = 0
    /\ error = FALSE
    /\ eventSource = 0
    /\ alerts = <<>>

InitForm ==
    /\ isSubmitting = FALSE
    /\ message = "none"

Init ==
    /\ Server!Init
    /\ req = [a \in Alerts |-> "idle"]
    /\ todo = [a \in Alerts |-> {}]
    /\ link = [c \in Sessions |-> "unused"]
    /\ InitStream
    /\ InitForm
    /\ batch = {}
    /\ waiting = {}
    /\ faults = 0

-----------------------------------------------------------------------------
(* useSSE.js and AlertStream.vue: the connection.                          *)
(* Small operators come with the slips that a careless change of their     *)
(* code would make; the properties below must notice each of them.         *)

(* The request an EventSource sends next opens the next session.           *)
Fresh(c) ==
    /\ link[c] = "unused"
    /\ \A d \in Sessions : d < c => link[d] # "unused"

(* close() on the EventSource the page holds, if any.  Slip: connect()     *)
(* drops it without closing it.                                            *)
CloseForgotten(links) == links
Close(links) ==
    [c \in Sessions |-> IF c = eventSource /\ links[c] \in Live
                        THEN "closed" ELSE links[c]]

(* What the page shows of the connection: the status line, the error line, *)
(* and one of two buttons - Connect also while a connection is being made  *)
(* or made again.                                                          *)
StatusLine == [connected |-> isConnected, text |-> connectionState, client |-> clientId]
ErrorShown == error
ConnectShown == ~isConnected
DisconnectShown == isConnected

(* connect().                                                              *)
Connect(c) ==
    /\ ConnectShown
    /\ Fresh(c)
    /\ link' = [Close(link) EXCEPT ![c] = "connecting"]
    /\ error' = FALSE
    /\ connectionState' = "Connecting..."
    /\ eventSource' = c
    /\ UNCHANGED <<serverVars, isConnected, clientId, alerts, formVars, faults>>

(* disconnect(); the button passes by the error, which stays.              *)
Disconnect ==
    /\ DisconnectShown
    /\ link' = [c \in Sessions |-> IF c = eventSource THEN "closed" ELSE link[c]]
    /\ eventSource' = 0
    /\ isConnected' = FALSE
    /\ connectionState' = "Disconnected"
    /\ clientId' = 0
    /\ UNCHANGED <<serverVars, error, alerts, formVars, faults>>

(* The request reaches the gateway, which subscribes the session; the page *)
(* may have closed it by then.                                             *)
Accept(c) ==
    /\ link[c] # "unused"
    /\ Server!Move(c, "away", "open")
    /\ UNCHANGED <<req, todo, streamVars, alerts, formVars, faults>>

(* The 'connected' event, the first of every session.  Slip: the handler   *)
(* is registered for one event only.                                       *)
HandlesConnectedOnce(c) == link[c] = "connecting" /\ clientId = 0
HandlesConnected(c) == link[c] = "connecting"

OnConnected(c) ==
    /\ HandlesConnected(c)
    /\ phase[c] = "open"
    /\ link' = [link EXCEPT ![c] = "open"]
    /\ clientId' = c
    /\ isConnected' = TRUE
    /\ connectionState' = "Connected"
    /\ UNCHANGED <<serverVars, eventSource, error, alerts, formVars, faults>>

(* onerror.  Slip: the page goes on as if connected.                       *)
ConnectedAfterErrorKept == isConnected
ConnectedAfterError == FALSE

OnError ==
    /\ isConnected' = ConnectedAfterError
    /\ connectionState' = "Error"
    /\ error' = TRUE

(* The connection of session c breaks.  The EventSource fires an error and *)
(* asks again: a new session, for no event carries an id.                  *)
ConnectionLost(c, d) ==
    /\ faults < MaxFaults
    /\ link[c] \in Live
    /\ Fresh(d)
    /\ faults' = faults + 1
    /\ link' = [link EXCEPT ![c] = "closed", ![d] = "connecting"]
    /\ eventSource' = IF eventSource = c THEN d ELSE eventSource
    /\ OnError
    /\ UNCHANGED <<serverVars, clientId, alerts, formVars>>

(* The request is answered with an error status: the EventSource gives up. *)
Refused(c) ==
    /\ faults < MaxFaults
    /\ link[c] = "connecting"
    /\ phase[c] = "away"
    /\ faults' = faults + 1
    /\ link' = [link EXCEPT ![c] = "closed"]
    /\ OnError
    /\ UNCHANGED <<serverVars, eventSource, clientId, alerts, formVars>>

(* The gateway notices that the browser has left a session, and ends it.   *)
Release(c) ==
    /\ link[c] = "closed"
    /\ Server!Move(c, "open", "leaving") \/ Server!Move(c, "leaving", "closed")
    /\ UNCHANGED <<req, todo, streamVars, alerts, formVars, faults>>

-----------------------------------------------------------------------------
(* useSSE.js and AlertStream.vue: the list.                                *)

(* unshift(), then pop() beyond the limit.  Slip: the list is filled from  *)
(* the other end.                                                          *)
ShowPushed(list, a) == IF Len(list) < Cap THEN Append(list, a) ELSE list
Show(list, a) ==
    IF Len(list) < Cap THEN <<a>> \o list ELSE <<a>> \o Front(list)

(* An alert event is handled, whichever it is.  Slip: the handler is       *)
(* registered for one event only.                                          *)
HandlesFirst(c) == link[c] = "open" /\ seen[c] = <<>>
Handles(c) == link[c] = "open"

(* The 'alert' event.                                                      *)
OnAlert(c) ==
    /\ Handles(c)
    /\ Server!See(c)
    /\ alerts' = Show(alerts, Last(seen'[c]))
    /\ UNCHANGED <<req, todo, streamVars, formVars, faults>>

(* One card for each alert, keyed by its id.                               *)
Cards == alerts

ClearDisabled == alerts = <<>>

(* clearAlerts().                                                          *)
ClearAlerts ==
    /\ ~ClearDisabled
    /\ alerts' = <<>>
    /\ UNCHANGED <<serverVars, streamVars, formVars, faults>>

-----------------------------------------------------------------------------
(* AlertTrigger.vue: the form, and the POST requests at the gateway.       *)

(* triggerTestAlert() for each alert of a set, whatever its message says:  *)
(* the form does not ask for one, and the gateway takes an empty one too.  *)
TriggerTestAlert(set) ==
    /\ \A a \in set : req[a] = "idle"
    /\ req' = [a \in Alerts |-> IF a \in set THEN "sent" ELSE req[a]]

(* Both buttons are disabled while a submission is under way.              *)
ButtonsDisabled == isSubmitting
MessageShown == message

(* message.value = null.  Slip: the last message stays.                    *)
MessageKept == message
MessageCleared == "none"

Submit(set) ==
    /\ ~ButtonsDisabled
    /\ TriggerTestAlert(set)
    /\ isSubmitting' = TRUE
    /\ message' = MessageCleared
    /\ batch' = set
    /\ waiting' = set
    /\ UNCHANGED <<saved, phase, feed, seen, todo, streamVars, alerts, faults>>

SubmitAlert == \E a \in Alerts : Submit({a})

TriggerMultiple ==
    \E set \in SUBSET Alerts : Cardinality(set) = BatchSize /\ Submit(set)

(* Another page posts an alert.                                            *)
OtherPage(a) ==
    /\ TriggerTestAlert({a})
    /\ UNCHANGED <<saved, phase, feed, seen, todo, streamVars, alerts, formVars, faults>>

(* The gateway stores an alert,                                            *)
Store(a) ==
    /\ req[a] = "sent"
    /\ req' = [req EXCEPT ![a] = "saved"]
    /\ Server!Save(a)
    /\ UNCHANGED <<todo, streamVars, alerts, formVars, faults>>

(* takes the snapshot of its sessions - one that is leaving may or may not *)
(* still be registered -                                                   *)
Snapshot(a) ==
    /\ req[a] = "saved"
    /\ req' = [req EXCEPT ![a] = "writing"]
    /\ \E late \in SUBSET {c \in Sessions : phase[c] = "leaving"} :
          todo' = [todo EXCEPT ![a] = late \cup {c \in Sessions : phase[c] = "open"}]
    /\ UNCHANGED <<saved, phase, feed, seen, streamVars, alerts, formVars, faults>>

(* gives the alert to each of them, or finds its channel completed,        *)
Broadcast(a, c) ==
    /\ req[a] \in {"writing", "faulted"}
    /\ c \in todo[a]
    /\ todo' = [todo EXCEPT ![a] = todo[a] \ {c}]
    /\ \/ /\ Server!Feed(c, a)
          /\ UNCHANGED req
       \/ /\ phase[c] = "closed"
          /\ req' = [req EXCEPT ![a] = "faulted"]
          /\ UNCHANGED <<saved, phase, feed, seen>>
    /\ UNCHANGED <<streamVars, alerts, formVars, faults>>

(* and answers 200, or 500 if it did.                                      *)
Answer(a) ==
    /\ req[a] \in {"writing", "faulted"}
    /\ todo[a] = {}
    /\ req' = [req EXCEPT ![a] = IF req[a] = "writing" THEN "ok" ELSE "failed"]
    /\ UNCHANGED <<saved, phase, feed, seen, todo, streamVars, alerts, formVars, faults>>

(* Promise.all waits for the last promise.  Slip: for any.                 *)
AllDoneAny(a) == TRUE
AllDone(a) == waiting = {a}

(* A promise is fulfilled: the body of the answer is JSON.                 *)
Fulfilled(a) ==
    /\ a \in waiting
    /\ req[a] = "ok"
    /\ waiting' = waiting \ {a}
    /\ IF AllDone(a)
       THEN isSubmitting' = FALSE /\ message' = "success"
       ELSE UNCHANGED <<isSubmitting, message>>
    /\ UNCHANGED <<serverVars, streamVars, alerts, batch, faults>>

(* The first promise that is rejected ends the submission: the others are  *)
(* not waited for, though their requests go on.                            *)
Failed ==
    /\ waiting' = {}
    /\ isSubmitting' = FALSE
    /\ message' = "error"

(* The body of a 500 is not JSON.                                          *)
Rejected(a) ==
    /\ a \in waiting
    /\ req[a] = "failed"
    /\ Failed
    /\ UNCHANGED <<serverVars, streamVars, alerts, batch, faults>>

(* fetch fails: the request may or may not have reached the gateway.       *)
FetchFails(a) ==
    /\ faults < MaxFaults
    /\ a \in waiting
    /\ faults' = faults + 1
    /\ Failed
    /\ UNCHANGED <<serverVars, streamVars, alerts, batch>>

-----------------------------------------------------------------------------
Next ==
    \/ \E c \in Sessions : Connect(c) \/ Accept(c) \/ OnConnected(c)
                            \/ Refused(c) \/ Release(c) \/ OnAlert(c)
    \/ \E c, d \in Sessions : ConnectionLost(c, d)
    \/ Disconnect \/ ClearAlerts
    \/ SubmitAlert \/ TriggerMultiple
    \/ \E a \in Alerts :
        \/ OtherPage(a) \/ Store(a) \/ Snapshot(a) \/ Answer(a)
        \/ Fulfilled(a) \/ Rejected(a) \/ FetchFails(a)
        \/ \E c \in Sessions : Broadcast(a, c)

(* The gateway goes on with what it has begun and answers the requests     *)
(* that reach it; the event loop runs its tasks.  Nothing makes the user,  *)
(* other pages or the faults act, or a POST arrive.                        *)
Fairness ==
    /\ \A c \in Sessions : WF_vars(Accept(c)) /\ WF_vars(OnConnected(c)) /\ WF_vars(OnAlert(c))
    /\ \A a \in Alerts : /\ WF_vars(Snapshot(a))
                         /\ \A c \in Sessions : WF_vars(Broadcast(a, c))

Spec == Init /\ [][Next]_vars /\ Fairness

-----------------------------------------------------------------------------
(* What the status line says is so: "connected" means that there is an     *)
(* open stream, that of the client id it shows; and the page holds the one *)
(* stream that lives, so that Disconnect really ends it - after lost       *)
(* connections, refusals and impatient clicks on Connect alike.            *)
StatusHonest ==
    /\ StatusLine.connected <=> \E c \in Sessions : link[c] = "open"
    /\ StatusLine.connected => StatusLine.client = eventSource /\ StatusLine.text = "Connected"
    /\ StatusLine.text = "Error" => ErrorShown
    /\ \A c \in Sessions : link[c] \in Live => c = eventSource

(* What the gateway pushed to the page, session after session, behind the  *)
(* i-th alert of session c.                                                *)
PushedAfter(c, i) ==
    {seen[c][j] : j \in (i + 1) .. Len(seen[c])}
        \cup UNION {Range(seen[d]) : d \in (c + 1) .. MaxSessions}

(* The list is the newest part, newest first, of what the gateway pushed   *)
(* to the page's sessions one after the other: what stands above a card is *)
(* what came after it.  No alert is in it twice (the v-for is keyed by     *)
(* alert.id), although two sessions of the page may be in the snapshot of  *)
(* one broadcast.                                                          *)
ListIsNewest ==
    /\ \A k \in DOMAIN Cards : \E c \in Sessions : \E i \in DOMAIN seen[c] :
          /\ Cards[k] = seen[c][i]
          /\ {Cards[m] : m \in 1 .. (k - 1)} = PushedAfter(c, i)
    /\ IsInjective(Cards)

(* The buttons of the form are off exactly while an answer is awaited;     *)
(* "Alert triggered successfully!" and "3 alerts triggered!" are said when *)
(* all alerts of the submission are stored and no session that was to get  *)
(* one was missed: one of three that fails is not drowned by the others.   *)
FormHonest ==
    /\ ButtonsDisabled <=> waiting # {}
    /\ MessageShown = "success" => \A a \in batch : a \in saved /\ req[a] = "ok" /\ todo[a] = {}

(* The invariants above say nothing of a submission that is still under    *)
(* way, or of what the answer of a POST stands for; these parts do.        *)
RequestInv ==
    \A a \in Alerts :
        /\ a \in saved <=> req[a] \notin {"idle", "sent"}
        /\ req[a] \notin {"writing", "faulted"} => todo[a] = {}

SubmissionInv ==
    /\ waiting \subseteq batch
    /\ ButtonsDisabled =>
          MessageShown = "none" /\ \A a \in batch \ waiting : req[a] = "ok"

(* The sessions of the page follow one another: when one is made, those    *)
(* before it have ended, and of those to come the gateway knows nothing.   *)
SessionInv ==
    \A c \in Sessions :
        /\ link[c] # "unused" => \A d \in Sessions : d < c => link[d] # "unused"
        /\ link[c] \in Live => \A d \in Sessions : d > c => link[d] = "unused"
        /\ link[c] = "unused" => phase[c] = "away"
        /\ phase[c] = "away" => feed[c] = <<>> /\ \A a \in Alerts : c \notin todo[a]

(* A session is given the alerts of broadcasts that are done with it, each *)
(* once, and shows them from the first.                                    *)
Broadcasting == {"writing", "faulted", "ok", "failed"}

FeedInv ==
    \A c \in Sessions :
        /\ IsInjective(feed[c])
        /\ \A a \in Range(feed[c]) : req[a] \in Broadcasting /\ c \notin todo[a]
        /\ Len(seen[c]) <= Len(feed[c])
        /\ \A i \in DOMAIN seen[c] : seen[c][i] = feed[c][i]

(* What a session has shown was broadcast before the next one subscribed.  *)
SeenOnce ==
    \A d, c \in Sessions : d < c =>
        \A a \in Range(seen[d]) : a \notin Range(feed[c]) /\ c \notin todo[a]

(* The inductive invariant of SseClient.                                   *)
IInv ==
    /\ TypeOK
    /\ StatusHonest
    /\ SessionInv /\ FeedInv /\ SeenOnce /\ ListIsNewest
    /\ RequestInv
    /\ SubmissionInv
    /\ FormHonest

(* An alert stored while the page is connected comes up in the list,       *)
(* unless the connection is lost or ended meanwhile.                       *)
AlertReachesScreen ==
    \A a \in Alerts : \A c \in Sessions :
        (req[a] = "saved" /\ link[c] = "open") ~>
            (a \in Range(Cards) \/ link[c] = "closed")

(* "Automatic reconnection on disconnect" (README:167): after a loss the   *)
(* page is connected again without a click, unless the user chooses        *)
(* otherwise or the gateway refuses: the status does not stay "Error".     *)
ComesBack ==
    LET Retrying == connectionState = "Error" /\ eventSource # 0
    IN  (Retrying /\ link[eventSource] = "connecting")
            ~> (~Retrying \/ link[eventSource] = "closed")
=============================================================================
