---------------------------- MODULE AlertStream ----------------------------
(***************************************************************************)
(* The Server-Sent-Events feed of the gateway: AlertStreamService (the     *)
(* registry of subscriber channels) driven by the two handlers of          *)
(* SseController that change it.  Every GET /sse/alerts request is a       *)
(* session, identified by the fresh GUID GetAlertStream draws for it;      *)
(* every POST /sse/alerts/test request creates and broadcasts one alert,   *)
(* so a request and its alert share one name.                              *)
(*                                                                         *)
(* All handlers run concurrently on the thread pool.  A step below is one  *)
(* access to a shared object (the ConcurrentDictionary, a Channel) or one  *)
(* awaited write to the response.                                          *)
(*                                                                         *)
(* The list that AlertService keeps is the subject of module EntityList;   *)
(* here "saved" only records that CreateAsync has run for an alert.        *)
(***************************************************************************)
EXTENDS Naturals, FiniteSets, SequencesExt

CONSTANTS
    Clients,    \* the SSE sessions, one client id each
    Alerts      \* the trigger requests, one alert each

ASSUME ClientsAssumption == IsFiniteSet(Clients)
ASSUME AlertsAssumption == IsFiniteSet(Alerts)

VARIABLES
    clients,    \* the keys of _clients
    chan,       \* chan[c]: what the channel of session c holds
    closed,     \* closed[c]: Writer.Complete() was called on it
    pc,         \* pc[c]: where the handler GetAlertStream of c stands
    aborted,    \* aborted[c]: the cancellation token of request c has fired
    hand,       \* hand[c]: the alert c has read and is writing, if any
    sent,       \* sent[c]: the alert events that reached the browser of c
    written,    \* written[c]: every alert ever written to the channel of c
    tpc,        \* tpc[a]: where the handler TriggerTestAlert of a stands
    targets,    \* targets[a]: the snapshot _clients.Values the broadcast took
    pending,    \* pending[a]: the targets it has not written to yet
    faulted,    \* faulted[a]: one of its WriteAsync tasks has faulted
    saved       \* the alerts CreateAsync has stored

sessionVars == <<clients, closed, pc, aborted, hand, sent>>
triggerVars == <<tpc, targets, pending, faulted, saved>>
vars == <<sessionVars, chan, written, triggerVars>>

SessionStates == {"new", "connecting", "waiting", "draining", "writing",
                  "finally", "completing", "done"}
TriggerStates == {"new", "saved", "writing", "ok", "failed"}

TypeOK ==
    /\ clients \in SUBSET Clients
    /\ chan \in [Clients -> Seq(Alerts)]
    /\ closed \in [Clients -> BOOLEAN]
    /\ pc \in [Clients -> SessionStates]
    /\ aborted \in [Clients -> BOOLEAN]
    /\ hand \in [Clients -> Seq(Alerts)]
    /\ sent \in [Clients -> Seq(Alerts)]
    /\ written \in [Clients -> Seq(Alerts)]
    /\ tpc \in [Alerts -> TriggerStates]
    /\ targets \in [Alerts -> SUBSET Clients]
    /\ pending \in [Alerts -> SUBSET Clients]
    /\ faulted \in [Alerts -> BOOLEAN]
    /\ saved \in SUBSET Alerts

Init ==
    /\ clients = {}
    /\ chan = [c \in Clients |-> <<>>]
    /\ closed = [c \in Clients |-> FALSE]
    /\ pc = [c \in Clients |-> "new"]
    /\ aborted = [c \in Clients |-> FALSE]
    /\ hand = [c \in Clients |-> <<>>]
    /\ sent = [c \in Clients |-> <<>>]
    /\ written = [c \in Clients |-> <<>>]
    /\ tpc = [a \in Alerts |-> "new"]
    /\ targets = [a \in Alerts |-> {}]
    /\ pending = [a \in Alerts |-> {}]
    /\ faulted = [a \in Alerts |-> FALSE]
    /\ saved = {}

-----------------------------------------------------------------------------
(* GET /sse/alerts: one session.                                           *)
(* Small operators come with the slips that a careless change of their     *)
(* code would make; the properties below must notice each of them.         *)

Goto(c, state) == pc' = [pc EXCEPT ![c] = state]

(* Subscribe: an unbounded channel is created and registered.  The client  *)
(* id is fresh, so TryAdd succeeds.                                        *)
Subscribe(c) ==
    /\ pc[c] = "new"
    /\ clients' = clients \cup {c}
    /\ Goto(c, "connecting")
    /\ UNCHANGED <<closed, aborted, hand, sent, chan, written, triggerVars>>

(* The "connected" event has been written.                                 *)
WriteConnected(c) ==
    /\ pc[c] = "connecting"
    /\ Goto(c, "waiting")
    /\ UNCHANGED <<clients, closed, aborted, hand, sent, chan, written, triggerVars>>

(* A channel is a queue.  Slip: the rest is dropped.                       *)
Read(q) == Head(q)

UnreadDropped(q) == <<>>
Unread(q) == Tail(q)

(* ReadAllAsync hands out the next alert.  Only its outer wait observes    *)
(* the token: the inner TryRead loop goes on after a cancellation, and so  *)
(* does a wait that an alert had already completed.                        *)
TakeAlert(c) ==
    /\ pc[c] \in {"waiting", "draining"}
    /\ chan[c] # <<>>
    /\ hand' = [hand EXCEPT ![c] = <<Read(chan[c])>>]
    /\ chan' = [chan EXCEPT ![c] = Unread(chan[c])]
    /\ Goto(c, "writing")
    /\ UNCHANGED <<clients, closed, aborted, sent, written, triggerVars>>

(* The inner loop found the channel empty and goes back to the wait.       *)
Drained(c) ==
    /\ pc[c] = "draining"
    /\ chan[c] = <<>>
    /\ Goto(c, "waiting")
    /\ UNCHANGED <<clients, closed, aborted, hand, sent, chan, written, triggerVars>>

(* The server discards what is written to an aborted response.             *)
Reaches(c) == ~aborted[c]

(* WriteEventAsync of an alert has finished.                               *)
WriteAlert(c) ==
    /\ pc[c] = "writing"
    /\ sent' = IF Reaches(c)
               THEN [sent EXCEPT ![c] = sent[c] \o hand[c]] ELSE sent
    /\ hand' = [hand EXCEPT ![c] = <<>>]
    /\ Goto(c, "draining")
    /\ UNCHANGED <<clients, closed, aborted, chan, written, triggerVars>>

(* A write to a connection that is gone may also throw: the exception      *)
(* leaves the loop through the finally block.                              *)
WriteThrows(c) ==
    /\ pc[c] \in {"connecting", "writing"}
    /\ aborted[c]
    /\ hand' = [hand EXCEPT ![c] = <<>>]
    /\ Goto(c, "finally")
    /\ UNCHANGED <<clients, closed, aborted, sent, chan, written, triggerVars>>

(* When the wait of ReadAllAsync ends: cancelled, or the channel is        *)
(* completed and empty.  Slips: it polls and gives up; it has no token.    *)
WaitEndsWhenEmpty(c) == aborted[c] \/ chan[c] = <<>>
WaitEndsWithoutToken(c) == closed[c] /\ chan[c] = <<>>
WaitEnds(c) == aborted[c] \/ (closed[c] /\ chan[c] = <<>>)

LeaveLoop(c) ==
    /\ pc[c] = "waiting"
    /\ WaitEnds(c)
    /\ Goto(c, "finally")
    /\ UNCHANGED <<clients, closed, aborted, hand, sent, chan, written, triggerVars>>

UnregisterForgotten(c) == clients
Unregister(c) == clients \ {c}

(* Unsubscribe, first half: TryRemove.  A broadcast that has taken its     *)
(* snapshot can still write to the channel.                                *)
TryRemove(c) ==
    /\ pc[c] = "finally"
    /\ clients' = Unregister(c)
    /\ Goto(c, IF c \in clients THEN "completing" ELSE "done")
    /\ UNCHANGED <<closed, aborted, hand, sent, chan, written, triggerVars>>

(* Unsubscribe, second half: channel.Writer.Complete().                    *)
Complete(c) ==
    /\ pc[c] = "completing"
    /\ closed' = [closed EXCEPT ![c] = TRUE]
    /\ Goto(c, "done")
    /\ UNCHANGED <<clients, aborted, hand, sent, chan, written, triggerVars>>

(* The browser goes away (EventSource.close(), a lost connection): the     *)
(* server cancels the request's token.                                     *)
ClientAborts(c) ==
    /\ pc[c] \notin {"new", "done"}
    /\ ~aborted[c]
    /\ aborted' = [aborted EXCEPT ![c] = TRUE]
    /\ UNCHANGED <<clients, closed, pc, hand, sent, chan, written, triggerVars>>

SessionStep(c) ==
    \/ WriteConnected(c) \/ TakeAlert(c) \/ Drained(c) \/ WriteAlert(c)
    \/ WriteThrows(c) \/ LeaveLoop(c) \/ TryRemove(c) \/ Complete(c)

-----------------------------------------------------------------------------
(* POST /sse/alerts/test: one alert.                                       *)

StoreForgotten(a) == saved
Store(a) == saved \cup {a}

(* The alert is built and AlertService.CreateAsync stores it.              *)
CreateAlert(a) ==
    /\ tpc[a] = "new"
    /\ saved' = Store(a)
    /\ tpc' = [tpc EXCEPT ![a] = "saved"]
    /\ UNCHANGED <<sessionVars, chan, written, targets, pending, faulted>>

(* BroadcastAlertAsync evaluates _clients.Values, a snapshot; WhenAll then *)
(* runs the lazy query over it.                                            *)
TakeSnapshot(a) ==
    /\ tpc[a] = "saved"
    /\ targets' = [targets EXCEPT ![a] = clients]
    /\ pending' = [pending EXCEPT ![a] = clients]
    /\ tpc' = [tpc EXCEPT ![a] = "writing"]
    /\ UNCHANGED <<sessionVars, chan, written, faulted, saved>>

(* An unbounded channel takes an alert at once unless it is completed.     *)
Accepts(c) == ~closed[c]

(* The channels left after the one of c.  Slip: the first fault stops the  *)
(* broadcast.                                                              *)
RemainingNone(a, c) == IF closed[c] THEN {} ELSE pending[a] \ {c}
Remaining(a, c) == pending[a] \ {c}

(* WriteAsync to one channel of the snapshot, in the dictionary's order,   *)
(* which is arbitrary.  On a completed channel the task faults, and the    *)
(* query goes on.                                                          *)
WriteTo(a, c) ==
    /\ tpc[a] = "writing"
    /\ c \in pending[a]
    /\ pending' = [pending EXCEPT ![a] = Remaining(a, c)]
    /\ IF Accepts(c)
       THEN /\ chan' = [chan EXCEPT ![c] = Append(chan[c], a)]
            /\ written' = [written EXCEPT ![c] = Append(written[c], a)]
            /\ UNCHANGED faulted
       ELSE /\ faulted' = [faulted EXCEPT ![a] = TRUE]
            /\ UNCHANGED <<chan, written>>
    /\ UNCHANGED <<sessionVars, tpc, targets, saved>>

(* 200, or 500 when a write has faulted.  Slips: the fault escapes every   *)
(* handler; it is swallowed; it leaves the request hanging.                *)
AnswerEscapes(a) == IF faulted[a] THEN "rethrown" ELSE "ok"
AnswerSwallows(a) == "ok"
AnswerHangs(a) == IF faulted[a] THEN tpc[a] ELSE "ok"
Answer(a) == IF faulted[a] THEN "failed" ELSE "ok"

(* Task.WhenAll completes and the request is answered.                     *)
WhenAll(a) ==
    /\ tpc[a] = "writing"
    /\ pending[a] = {}
    /\ tpc' = [tpc EXCEPT ![a] = Answer(a)]
    /\ UNCHANGED <<sessionVars, chan, written, targets, pending, faulted, saved>>

TriggerStep(a) ==
    \/ TakeSnapshot(a) \/ WhenAll(a)
    \/ \E c \in Clients : WriteTo(a, c)

(* GET /sse/stats reads the registry's size.                               *)
GetClientCount == Cardinality(clients)

-----------------------------------------------------------------------------
Next ==
    \/ \E c \in Clients : Subscribe(c) \/ ClientAborts(c) \/ SessionStep(c)
    \/ \E a \in Alerts : CreateAlert(a) \/ TriggerStep(a)

(* A handler that has started runs on: the thread pool schedules every     *)
(* continuation, and a stalled response write is cut by the server's       *)
(* minimum data rate.  No fairness for requests to arrive or clients to    *)
(* leave.                                                                  *)
Fairness ==
    /\ \A c \in Clients : WF_vars(SessionStep(c))
    /\ \A a \in Alerts : WF_vars(TriggerStep(a))

Spec == Init /\ [][Next]_vars /\ Fairness

-----------------------------------------------------------------------------
Registered == {"connecting", "waiting", "draining", "writing", "finally"}

(* No leaked subscriber (SseController's finally): a session is counted by *)
(* GET /sse/stats exactly while its handler runs, and its channel is       *)
(* completed once the handler has ended.                                   *)
RegistryExact ==
    /\ clients = {c \in Clients : pc[c] \in Registered}
    /\ \A c \in Clients : closed[c] <=> pc[c] = "done"

(* The browser of a live session has seen, in order and without a gap,     *)
(* everything the broadcasts wrote to its channel, but what is still in    *)
(* the handler's hand or in the channel (WriteAsync, ReadAllAsync).        *)
NothingLost ==
    \A c \in Clients :
        ~aborted[c] => written[c] = sent[c] \o hand[c] \o chan[c]

(* After the client has left, what it saw is still a prefix of what was    *)
(* written for it: no event is reordered around the disconnect.            *)
SeenInOrder == \A c \in Clients : IsPrefix(sent[c], written[c])

(* No alert is pushed twice to one session, whatever the number of         *)
(* concurrent broadcasts.                                                  *)
AtMostOnce == \A c \in Clients : IsInjective(written[c])

(* An alert reaches no channel, and so no browser, before AlertService has *)
(* stored it (TriggerTestAlert saves, then broadcasts).                    *)
SavedBeforePushed ==
    \A c \in Clients : Range(written[c]) \subseteq saved

(* One session that leaves during a broadcast does not cost the others     *)
(* their alert: whoever was in the snapshot and stayed has it when the     *)
(* request is answered, with 200 or with 500.                              *)
OthersUnharmed ==
    \A a \in Alerts : tpc[a] \in {"ok", "failed"} =>
        \A c \in targets[a] : ~aborted[c] => a \in Range(written[c])

(* 200 means that every session of the snapshot has the alert in its       *)
(* channel; 500 means that one of them had left, without it.               *)
AnswerIsTruthful ==
    \A a \in Alerts :
        /\ tpc[a] = "ok" => \A c \in targets[a] : a \in Range(written[c])
        /\ tpc[a] = "failed" => \E c \in targets[a] :
                aborted[c] /\ closed[c] /\ a \notin Range(written[c])

(* Every session registered when an alert has been stored gets it pushed   *)
(* to its browser, unless the browser leaves (README: SSE pushes to all    *)
(* Vue clients).                                                           *)
EverySubscriberSees ==
    \A a \in Alerts : \A c \in Clients :
        (tpc[a] = "saved" /\ c \in clients) ~>
            (a \in Range(sent[c]) \/ aborted[c])

(* A session whose client has left ends: it is unregistered and its        *)
(* channel completed, however many alerts are still queued.                *)
LeaverIsReleased ==
    \A c \in Clients : aborted[c] ~> (c \notin clients /\ closed[c])

(* The trigger request is answered, however slow its subscribers are.      *)
TriggerIsAnswered ==
    \A a \in Alerts : a \in saved ~> tpc[a] \in {"ok", "failed"}

(***************************************************************************)
(* The invariants above are not inductive: they say nothing of a handler   *)
(* between two of its steps.  The parts that follow do.                    *)
(***************************************************************************)

(* Only a handler that is writing holds an alert, and it holds one; only a *)
(* session that has started can be cancelled, and only a cancelled session *)
(* leaves the loop.                                                        *)
SessionInv ==
    \A c \in Clients :
        /\ pc[c] = "writing" => Len(hand[c]) = 1
        /\ pc[c] # "writing" => hand[c] = <<>>
        /\ pc[c] = "new" => ~aborted[c]
        /\ pc[c] \in {"finally", "completing", "done"} => aborted[c]

(* What the local variables of a trigger request say at each of its steps. *)
TriggerInv ==
    \A a \in Alerts :
        /\ a \in saved <=> tpc[a] # "new"
        /\ tpc[a] \in {"new", "saved"} => targets[a] = {} /\ ~faulted[a]
        /\ tpc[a] \in {"ok", "failed"} => pending[a] = {}
        /\ tpc[a] = "ok" => ~faulted[a]
        /\ tpc[a] = "failed" => faulted[a]
        /\ pending[a] \subseteq targets[a]
        /\ \A c \in targets[a] : pc[c] # "new"

(* A broadcast has written to the channels it has passed, but to the       *)
(* completed ones; it has faulted only if there was one.                   *)
BroadcastInv ==
    \A a \in Alerts :
        /\ \A c \in Clients :
              a \in Range(written[c]) => c \in targets[a] \ pending[a]
        /\ \A c \in targets[a] \ pending[a] :
              a \in Range(written[c]) \/ (closed[c] /\ faulted[a])
        /\ faulted[a] => \E c \in targets[a] \ pending[a] :
                            closed[c] /\ a \notin Range(written[c])

(* The inductive invariant of AlertStream: every state the handlers can    *)
(* reach together.                                                         *)
IInv ==
    /\ TypeOK
    /\ SessionInv
    /\ RegistryExact
    /\ NothingLost
    /\ SeenInOrder
    /\ TriggerInv
    /\ BroadcastInv
    /\ AtMostOnce

-----------------------------------------------------------------------------
(* The stream implements the promise of AlertFeed: a channel's history is  *)
(* the feed, the events that reached the browser are what it has seen.     *)
phaseBar ==
    [c \in Clients |->
        IF pc[c] = "new" THEN "away"
        ELSE IF closed[c] THEN "closed"
        ELSE IF aborted[c] THEN "leaving" ELSE "open"]

Feed == INSTANCE AlertFeed
            WITH phase <- phaseBar, feed <- written, seen <- sent

ImplementsFeed == Feed!Spec

(* tests/DemoApi.E2E.Tests/tests/api.spec.ts expects POST /sse/alerts/test *)
(* to answer 200 with "Alert triggered and broadcast", whoever listens.    *)
TriggerSucceeds == \A a \in Alerts : tpc[a] # "failed"
=============================================================================
