--------------------------- MODULE SseClientProofs ---------------------------
(***************************************************************************)
(* SseClient proved for any number of sessions and faults, any alerts, any *)
(* length of the list and any size of a submission.                        *)
(***************************************************************************)
EXTENDS SseClient, FiniteSetTheorems, TLAPS

USE MaxSessionsAssumption, SizesAssumption DEF Sessions, StatusLine, ErrorShown, ButtonsDisabled, MessageShown

(* unshift and pop keep the list a list, within its limit.                 *)
LEMMA ShowType ==
    ASSUME NEW list \in Seq(Alerts), Len(list) <= Cap, NEW a \in Alerts
    PROVE  Show(list, a) \in Seq(Alerts) /\ Len(Show(list, a)) <= Cap
<1>1. CASE Len(list) < Cap
  BY <1>1 DEF Show
<1>2. CASE ~(Len(list) < Cap)
  <2>1. Len(list) = Cap
    BY <1>2
  <2>2. Front(list) \in Seq(Alerts) /\ Len(Front(list)) = Cap - 1
    BY <2>1 DEF Front
  <2> QED
    BY <1>2, <2>2 DEF Show
<1> QED
  BY <1>1, <1>2

(* Before the page does anything.                                          *)
LEMMA InitInv == Init => IInv
<1> SUFFICES ASSUME Init PROVE IInv
  OBVIOUS
<1> USE DEF Init, Server!Init, InitStream, InitForm
<1>1. TypeOK
  <2>1. phase \in [Sessions -> Server!Phases]
    BY DEF Server!Phases
  <2>2. Len(alerts) <= Cap /\ alerts \in Seq(Alerts)
    OBVIOUS
  <2>3. feed \in [Sessions -> Seq(Alerts)] /\ seen \in [Sessions -> Seq(Alerts)]
    OBVIOUS
  <2>4. isConnected \in BOOLEAN /\ error \in BOOLEAN /\ isSubmitting \in BOOLEAN
    OBVIOUS
  <2>5. /\ req \in [Alerts -> RequestStates]
        /\ todo \in [Alerts -> SUBSET Sessions]
        /\ link \in [Sessions -> LinkStates]
    BY DEF RequestStates, LinkStates
  <2>6. faults \in 0 .. MaxFaults
    OBVIOUS
  <2>7. /\ eventSource \in {0} \cup Sessions
        /\ connectionState \in {"Disconnected", "Connecting...", "Connected", "Error"}
        /\ clientId \in {0} \cup Sessions
        /\ message \in {"none", "success", "error"}
    OBVIOUS
  <2> QED
    BY <2>1, <2>2, <2>3, <2>4, <2>5, <2>6, <2>7 DEF TypeOK
<1>2. StatusHonest
  BY DEF StatusHonest, Live
<1>3. RequestInv /\ SubmissionInv /\ FormHonest
  BY DEF RequestInv, SubmissionInv, FormHonest
<1>4. SessionInv /\ FeedInv /\ SeenOnce
  BY DEF SessionInv, FeedInv, SeenOnce, Live, Range, IsInjective
<1>5. ListIsNewest
  BY DEF ListIsNewest, Cards, IsInjective
<1> QED
  BY <1>1, <1>2, <1>3, <1>4, <1>5 DEF IInv

(* TypeOK in the parts that a step leaves or changes together.             *)
ServerTypes ==
    /\ saved \in SUBSET Alerts
    /\ phase \in [Sessions -> Server!Phases]
    /\ feed \in [Sessions -> Seq(Alerts)]
    /\ seen \in [Sessions -> Seq(Alerts)]
    /\ req \in [Alerts -> RequestStates]
    /\ todo \in [Alerts -> SUBSET Sessions]
StreamTypes ==
    /\ link \in [Sessions -> LinkStates]
    /\ eventSource \in {0} \cup Sessions
    /\ isConnected \in BOOLEAN
    /\ connectionState \in {"Disconnected", "Connecting...", "Connected", "Error"}
    /\ clientId \in {0} \cup Sessions
    /\ error \in BOOLEAN
ListTypes == alerts \in Seq(Alerts) /\ Len(alerts) <= Cap
FormTypes ==
    /\ isSubmitting \in BOOLEAN
    /\ message \in {"none", "success", "error"}
    /\ batch \in SUBSET Alerts
    /\ waiting \in SUBSET Alerts
FaultTypes == faults \in 0 .. MaxFaults

LEMMA TypeParts ==
    TypeOK <=> ServerTypes /\ StreamTypes /\ ListTypes /\ FormTypes /\ FaultTypes
BY Zenon DEF TypeOK, ServerTypes, StreamTypes, ListTypes, FormTypes, FaultTypes

(* The parts of the invariant: each is about its own variables, but that   *)
(* of the form, which reads the requests too, and that of the feeds, which *)
(* relates what the gateway gave to what the page shows.                   *)
StreamPart == StreamTypes /\ StatusHonest
FormPart == FormTypes /\ RequestInv /\ SubmissionInv /\ FormHonest
FeedPart == SessionInv /\ FeedInv /\ SeenOnce /\ ListIsNewest

LEMMA Parts ==
    IInv <=> ServerTypes /\ StreamPart /\ ListTypes /\ FormPart /\ FaultTypes /\ FeedPart
BY TypeParts, Zenon DEF IInv, StreamPart, FormPart, FeedPart

LEMMA PartsNext ==
    IInv' <=> /\ ServerTypes' /\ StreamPart' /\ ListTypes' /\ FormPart' /\ FaultTypes'
              /\ FeedPart'
BY Zenon DEF IInv, StreamPart, FormPart, FeedPart, TypeOK, ServerTypes, StreamTypes, ListTypes,
    FormTypes, FaultTypes

LEMMA ServerUntouched ==
    ASSUME ServerTypes, UNCHANGED serverVars PROVE ServerTypes'
BY DEF ServerTypes, serverVars

LEMMA StreamUntouched ==
    ASSUME StreamPart, UNCHANGED streamVars PROVE StreamPart'
BY DEF StreamPart, StreamTypes, StatusHonest, streamVars

LEMMA ListUntouched ==
    ASSUME ListTypes, UNCHANGED alerts PROVE ListTypes'
BY DEF ListTypes

LEMMA FormUntouched ==
    ASSUME FormPart, UNCHANGED <<saved, req, todo, formVars>> PROVE FormPart'
BY DEF FormPart, FormTypes, RequestInv, SubmissionInv, FormHonest, formVars

LEMMA FaultsUntouched ==
    ASSUME FaultTypes, UNCHANGED faults PROVE FaultTypes'
BY DEF FaultTypes

-----------------------------------------------------------------------------
(* The connection.                                                         *)

LEMMA ConnectInv ==
    ASSUME StreamPart, NEW c \in Sessions, Connect(c) PROVE StreamPart'
<1>1. StreamTypes'
  BY DEF StreamPart, StreamTypes, Connect, Close, LinkStates
<1>2. ~isConnected /\ \A d \in Sessions : link'[d] # "open"
  BY DEF StreamPart, StreamTypes, StatusHonest, Connect, ConnectShown, Close, Live
<1>3. \A d \in Sessions : link'[d] \in Live => d = c
  BY DEF StreamPart, StreamTypes, StatusHonest, Connect, Close, Live
<1>4. StatusHonest'
  BY <1>2, <1>3 DEF StatusHonest, Connect, Live
<1> QED
  BY <1>1, <1>4 DEF StreamPart

LEMMA DisconnectInv ==
    ASSUME StreamPart, Disconnect PROVE StreamPart'
<1>1. StreamTypes'
  BY DEF StreamPart, StreamTypes, Disconnect, LinkStates
<1>2. \A d \in Sessions : link'[d] \notin Live
  BY DEF StreamPart, StreamTypes, StatusHonest, Disconnect, Live
<1>3. StatusHonest'
  BY <1>2 DEF StatusHonest, Disconnect, Live
<1> QED
  BY <1>1, <1>3 DEF StreamPart

LEMMA OnConnectedInv ==
    ASSUME StreamPart, NEW c \in Sessions, OnConnected(c) PROVE StreamPart'
<1>1. StreamTypes'
  BY DEF StreamPart, StreamTypes, OnConnected, LinkStates
<1>2. c = eventSource
  BY DEF StreamPart, StatusHonest, OnConnected, HandlesConnected, Live
<1>3. StatusHonest'
  BY <1>2 DEF StreamPart, StreamTypes, StatusHonest, OnConnected, Live
<1> QED
  BY <1>1, <1>3 DEF StreamPart

LEMMA ConnectionLostInv ==
    ASSUME StreamPart, NEW c \in Sessions, NEW d \in Sessions, ConnectionLost(c, d)
    PROVE  StreamPart'
<1>1. StreamTypes'
  BY DEF StreamPart, StreamTypes, ConnectionLost, OnError, ConnectedAfterError, LinkStates
<1>2. eventSource = c /\ link[d] = "unused" /\ c # d
  BY DEF StreamPart, StatusHonest, ConnectionLost, Fresh, Live
<1>3. \A e \in Sessions : link'[e] \in Live <=> e = d
  BY <1>2 DEF StreamPart, StreamTypes, StatusHonest, ConnectionLost, Live
<1>4. \A e \in Sessions : link'[e] # "open"
  BY <1>2, <1>3 DEF StreamPart, StreamTypes, ConnectionLost, Live
<1>5. StatusHonest'
  BY <1>2, <1>3, <1>4 DEF StatusHonest, ConnectionLost, OnError, ConnectedAfterError
<1> QED
  BY <1>1, <1>5 DEF StreamPart

LEMMA RefusedInv ==
    ASSUME StreamPart, NEW c \in Sessions, Refused(c) PROVE StreamPart'
<1>1. StreamTypes'
  BY DEF StreamPart, StreamTypes, Refused, OnError, ConnectedAfterError, LinkStates
<1>2. \A d \in Sessions : link'[d] \notin Live
  BY DEF StreamPart, StreamTypes, StatusHonest, Refused, Live
<1>3. StatusHonest'
  BY <1>2 DEF StatusHonest, Refused, OnError, ConnectedAfterError, Live
<1> QED
  BY <1>1, <1>3 DEF StreamPart

(* A fault is counted up to its bound.                                     *)
LEMMA FaultsCounted ==
    ASSUME FaultTypes, faults < MaxFaults, faults' = faults + 1 PROVE FaultTypes'
BY DEF FaultTypes

-----------------------------------------------------------------------------
(* The list.                                                               *)

LEMMA OnAlertInv ==
    ASSUME ServerTypes, ListTypes, NEW c \in Sessions, OnAlert(c)
    PROVE  ServerTypes' /\ ListTypes'
<1> DEFINE a == feed[c][Len(seen[c]) + 1]
<1>1. a \in Alerts
  BY DEF ServerTypes, OnAlert, Server!See
<1>2. seen' = [seen EXCEPT ![c] = Append(seen[c], a)]
  BY DEF OnAlert, Server!See
<1>3. Append(seen[c], a) \in Seq(Alerts) /\ Last(Append(seen[c], a)) = a
  BY <1>1 DEF ServerTypes, Last
<1>4. seen' \in [Sessions -> Seq(Alerts)] /\ Last(seen'[c]) = a
  BY <1>2, <1>3 DEF ServerTypes
<1>5. ServerTypes'
  BY <1>4 DEF ServerTypes, OnAlert, Server!See
<1>6. alerts' = Show(alerts, a)
  BY <1>4 DEF OnAlert
<1>7. ListTypes'
  BY <1>1, <1>6, ShowType DEF ListTypes
<1> QED
  BY <1>5, <1>7

-----------------------------------------------------------------------------
(* The form.                                                               *)

LEMMA SubmitInv ==
    ASSUME ServerTypes, FormPart, NEW set \in SUBSET Alerts, set # {}, Submit(set)
    PROVE  ServerTypes' /\ FormPart'
<1> USE DEF Submit, TriggerTestAlert, MessageCleared
<1>1. ServerTypes'
  BY DEF ServerTypes, RequestStates
<1>2. FormTypes'
  BY DEF FormPart, FormTypes
<1>3. RequestInv'
  BY DEF FormPart, RequestInv
<1>4. SubmissionInv' /\ FormHonest'
  BY DEF SubmissionInv, FormHonest
<1> QED
  BY <1>1, <1>2, <1>3, <1>4 DEF FormPart

LEMMA FulfilledInv ==
    ASSUME FormPart, NEW a \in Alerts, Fulfilled(a) PROVE FormPart'
<1> USE DEF Fulfilled, AllDone, serverVars
<1>1. FormTypes'
  BY DEF FormPart, FormTypes
<1>2. RequestInv'
  BY DEF FormPart, RequestInv
<1>3. /\ isSubmitting /\ waiting' = waiting \ {a} /\ batch' = batch /\ req' = req
      /\ \A b \in batch \ waiting' : req[b] = "ok"
  BY DEF FormPart, FormHonest, SubmissionInv
<1>4. CASE waiting = {a}
  <2>1. waiting' = {} /\ isSubmitting' = FALSE /\ message' = "success"
    BY <1>4
  <2>2. \A b \in batch : b \in saved /\ req[b] = "ok" /\ todo[b] = {}
    BY <1>3, <2>1 DEF FormPart, FormTypes, RequestInv, SubmissionInv
  <2>3. SubmissionInv' /\ FormHonest'
    BY <1>3, <2>1, <2>2 DEF FormPart, SubmissionInv, FormHonest
  <2> QED
    BY <1>1, <1>2, <2>3 DEF FormPart
<1>5. CASE waiting # {a}
  <2>1. waiting' # {} /\ isSubmitting' = isSubmitting /\ message' = message
    BY <1>5
  <2>2. SubmissionInv' /\ FormHonest'
    BY <1>3, <2>1 DEF FormPart, SubmissionInv, FormHonest
  <2> QED
    BY <1>1, <1>2, <2>2 DEF FormPart
<1> QED
  BY <1>4, <1>5

(* Whatever made a promise fail.                                           *)
LEMMA FailedInv ==
    ASSUME FormPart, Failed, UNCHANGED <<saved, req, todo, batch>> PROVE FormPart'
<1>1. FormTypes'
  BY DEF FormPart, FormTypes, Failed
<1>2. RequestInv'
  BY DEF FormPart, RequestInv
<1>3. SubmissionInv' /\ FormHonest'
  BY DEF Failed, FormPart, SubmissionInv, FormHonest
<1> QED
  BY <1>1, <1>2, <1>3 DEF FormPart

-----------------------------------------------------------------------------
(* The gateway.                                                            *)

(* A request is answered "ok" for good, so that what a submission has been *)
(* told stays true.                                                        *)
Advances(a) == req[a] = "ok" => req'[a] = "ok" /\ todo'[a] = {}

LEMMA RequestsAdvance ==
    ASSUME FormPart, RequestInv', UNCHANGED formVars,
           saved \subseteq saved',
           \A a \in Alerts : Advances(a)
    PROVE  FormPart'
<1>1. FormTypes'
  BY DEF FormPart, FormTypes, formVars
<1>2. SubmissionInv'
  BY DEF Advances, FormPart, FormTypes, SubmissionInv, formVars
<1>3. FormHonest'
  BY DEF Advances, FormPart, FormTypes, FormHonest, formVars
<1> QED
  BY <1>1, <1>2, <1>3 DEF FormPart

LEMMA SessionsInv ==
    ASSUME ServerTypes, FormPart, NEW c \in Sessions, Accept(c) \/ Release(c)
    PROVE  ServerTypes' /\ FormPart'
<1>1. ServerTypes'
  BY DEF ServerTypes, Accept, Release, Server!Move, Server!Phases
<1>2. UNCHANGED <<saved, req, todo, formVars>>
  BY DEF Accept, Release, Server!Move
<1> QED
  BY <1>1, <1>2, FormUntouched

LEMMA OtherPageInv ==
    ASSUME ServerTypes, FormPart, NEW a \in Alerts, OtherPage(a)
    PROVE  ServerTypes' /\ FormPart'
<1> USE DEF OtherPage, TriggerTestAlert
<1>1. ServerTypes'
  BY DEF ServerTypes, RequestStates
<1>2. RequestInv'
  BY DEF FormPart, RequestInv
<1>3. \A b \in Alerts : Advances(b)
  BY DEF Advances, FormPart, RequestInv
<1> QED
  BY <1>1, <1>2, <1>3, RequestsAdvance

LEMMA StoreInv ==
    ASSUME ServerTypes, FormPart, NEW a \in Alerts, Store(a)
    PROVE  ServerTypes' /\ FormPart'
<1> USE DEF Store, Server!Save
<1>1. ServerTypes'
  BY DEF ServerTypes, RequestStates
<1>2. RequestInv'
  BY DEF FormPart, RequestInv, ServerTypes
<1>3. \A b \in Alerts : Advances(b)
  BY DEF Advances, FormPart, RequestInv, ServerTypes
<1> QED
  BY <1>1, <1>2, <1>3, RequestsAdvance

LEMMA SnapshotInv ==
    ASSUME ServerTypes, FormPart, NEW a \in Alerts, Snapshot(a)
    PROVE  ServerTypes' /\ FormPart'
<1>1. PICK late \in SUBSET {c \in Sessions : phase[c] = "leaving"} :
          todo' = [todo EXCEPT ![a] = late \cup {c \in Sessions : phase[c] = "open"}]
  BY DEF Snapshot
<1>2. ServerTypes'
  BY <1>1 DEF Snapshot, ServerTypes, RequestStates
<1>3. RequestInv'
  BY <1>1 DEF Snapshot, FormPart, RequestInv, ServerTypes
<1>4. \A b \in Alerts : Advances(b)
  BY <1>1 DEF Advances, Snapshot, FormPart, RequestInv, ServerTypes
<1>5. saved' = saved /\ UNCHANGED formVars
  BY DEF Snapshot
<1> QED
  BY <1>2, <1>3, <1>4, <1>5, RequestsAdvance

LEMMA BroadcastInv ==
    ASSUME ServerTypes, FormPart, NEW a \in Alerts, NEW c \in Sessions, Broadcast(a, c)
    PROVE  ServerTypes' /\ FormPart'
<1> USE DEF Broadcast, Server!Feed
<1>1. ServerTypes'
  <2>1. todo' \in [Alerts -> SUBSET Sessions]
    BY DEF ServerTypes
  <2>2. a \in saved => Append(feed[c], a) \in Seq(Alerts)
    BY DEF ServerTypes
  <2>3. feed' \in [Sessions -> Seq(Alerts)]
    BY <2>2 DEF ServerTypes
  <2>4. req' \in [Alerts -> RequestStates]
    BY DEF ServerTypes, RequestStates
  <2>5. UNCHANGED <<saved, phase, seen>>
    OBVIOUS
  <2> QED
    BY <2>1, <2>3, <2>4, <2>5 DEF ServerTypes
<1>2. RequestInv'
  BY DEF FormPart, RequestInv, ServerTypes
<1>3. \A b \in Alerts : Advances(b)
  BY DEF Advances, FormPart, RequestInv, ServerTypes
<1>4. saved' = saved /\ UNCHANGED formVars
  OBVIOUS
<1> QED
  BY <1>1, <1>2, <1>3, <1>4, RequestsAdvance

LEMMA AnswerInv ==
    ASSUME ServerTypes, FormPart, NEW a \in Alerts, Answer(a)
    PROVE  ServerTypes' /\ FormPart'
<1> USE DEF Answer
<1>1. ServerTypes'
  BY DEF ServerTypes, RequestStates
<1>2. RequestInv'
  BY DEF FormPart, RequestInv, ServerTypes
<1>3. \A b \in Alerts : Advances(b)
  BY DEF Advances, FormPart, RequestInv, ServerTypes
<1> QED
  BY <1>1, <1>2, <1>3, RequestsAdvance

-----------------------------------------------------------------------------
(* The sessions of the page, one after the other.                          *)

(* What a step may do to the links: a session ends, or the next one is     *)
(* asked for and the others have ended.                                    *)
Ends == \A d \in Sessions : /\ link'[d] = "unused" <=> link[d] = "unused"
                            /\ link'[d] \in Live => link[d] \in Live
Begins(c) == /\ Fresh(c) /\ link'[c] = "connecting"
             /\ \A d \in Sessions : d # c => /\ link'[d] = "unused" <=> link[d] = "unused"
                                             /\ link'[d] \notin Live

LEMMA LinkInv ==
    ASSUME SessionInv, UNCHANGED <<phase, feed, todo>>, Ends \/ \E c \in Sessions : Begins(c)
    PROVE  SessionInv'
<1>1. CASE Ends
  BY <1>1 DEF SessionInv, Ends
<1>2. ASSUME NEW c \in Sessions, Begins(c) PROVE SessionInv'
  <2>1. \A d \in Sessions : d > c => link[d] = "unused"
    BY <1>2 DEF Begins, Fresh, SessionInv
  <2>2. \A d \in Sessions : d < c => link'[d] # "unused"
    BY <1>2 DEF Begins, Fresh
  <2>3. \A d \in Sessions : d # c => (link'[d] = "unused" <=> link[d] = "unused") /\ link'[d] \notin Live
    BY <1>2 DEF Begins
  <2>4. link'[c] # "unused"
    BY <1>2 DEF Begins
  <2>5. \A d \in Sessions :
          /\ link'[d] # "unused" => \A e \in Sessions : e < d => link'[e] # "unused"
          /\ link'[d] \in Live => \A e \in Sessions : e > d => link'[e] = "unused"
    BY <2>1, <2>2, <2>3, <2>4 DEF SessionInv
  <2>6. \A d \in Sessions :
          /\ link'[d] = "unused" => phase'[d] = "away"
          /\ phase'[d] = "away" => feed'[d] = <<>> /\ \A a \in Alerts : d \notin todo'[a]
    BY <2>3, <2>4 DEF SessionInv
  <2> QED
    BY <2>5, <2>6 DEF SessionInv
<1> QED
  BY <1>1, <1>2

LEMMA SessionStep ==
    ASSUME TypeOK, StatusHonest, SessionInv, [Next]_vars
    PROVE  SessionInv'
<1>t. link \in [Sessions -> LinkStates]
  BY DEF TypeOK
<1>o. \A c \in Sessions : link[c] \in Live => c = eventSource
  BY DEF StatusHonest
<1>1. ASSUME UNCHANGED <<link, phase, feed, todo>> PROVE SessionInv'
  BY <1>1 DEF SessionInv
<1>2. ASSUME NEW c \in Sessions, Connect(c) PROVE SessionInv'
  <2>1. Begins(c)
    BY <1>2, <1>t, <1>o DEF Connect, Begins, Close, Live, Fresh
  <2> QED
    BY <1>2, <2>1, LinkInv DEF Connect, serverVars
<1>3. ASSUME NEW c \in Sessions, NEW d \in Sessions, ConnectionLost(c, d) PROVE SessionInv'
  <2>1. Begins(d)
    BY <1>3, <1>t, <1>o DEF ConnectionLost, Begins, Live, Fresh
  <2> QED
    BY <1>3, <2>1, LinkInv DEF ConnectionLost, serverVars
<1>4. CASE Disconnect
  <2>1. ConnectShown \/ \E c \in Sessions : link[c] = "open" /\ c = eventSource
    BY <1>o DEF ConnectShown, StatusHonest, Live
  <2>2. Ends
    BY <1>4, <1>t, <2>1 DEF Disconnect, DisconnectShown, ConnectShown, Ends, Live
  <2> QED
    BY <1>4, <2>2, LinkInv DEF Disconnect, serverVars
<1>5. ASSUME NEW c \in Sessions, OnConnected(c) \/ Refused(c) PROVE SessionInv'
  <2>1. Ends
    BY <1>5, <1>t DEF OnConnected, Refused, HandlesConnected, Ends, Live
  <2> QED
    BY <1>5, <2>1, LinkInv DEF OnConnected, Refused, serverVars
<1>6. ASSUME NEW c \in Sessions, Accept(c) \/ Release(c) PROVE SessionInv'
  <2>1. /\ UNCHANGED <<link, feed, todo>> /\ link[c] # "unused"
        /\ \A d \in Sessions : /\ phase'[d] = "away" => phase[d] = "away"
                               /\ d # c => phase'[d] = phase[d]
    BY <1>6 DEF Accept, Release, Server!Move, streamVars, TypeOK
  <2> QED
    BY <2>1 DEF SessionInv
<1>7. ASSUME NEW a \in Alerts, Snapshot(a) PROVE SessionInv'
  <2>1. /\ UNCHANGED <<link, phase, feed>>
        /\ \A b \in Alerts : \A d \in Sessions :
              d \in todo'[b] => d \in todo[b] \/ phase[d] # "away"
    BY <1>7 DEF Snapshot, streamVars, TypeOK
  <2> QED
    BY <2>1 DEF SessionInv
<1>8. ASSUME NEW a \in Alerts, NEW c \in Sessions, Broadcast(a, c) PROVE SessionInv'
  <2>1. /\ UNCHANGED <<link, phase>>
        /\ \A b \in Alerts : todo'[b] \subseteq todo[b]
        /\ c \in todo[a]
        /\ \A d \in Sessions : d # c => feed'[d] = feed[d]
    BY <1>8 DEF Broadcast, Server!Feed, streamVars, TypeOK
  <2>2. phase[c] # "away"
    BY <2>1 DEF SessionInv
  <2> QED
    BY <2>1, <2>2 DEF SessionInv
<1>9. ASSUME NEW c \in Sessions, OnAlert(c) PROVE SessionInv'
  BY <1>1, <1>9 DEF OnAlert, Server!See, streamVars
<1>10. CASE SubmitAlert \/ TriggerMultiple \/ ClearAlerts \/ UNCHANGED vars
  BY <1>1, <1>10 DEF SubmitAlert, TriggerMultiple, ClearAlerts, Submit, vars, streamVars, serverVars
<1>11. ASSUME NEW a \in Alerts,
              \/ OtherPage(a) \/ Store(a) \/ Answer(a)
              \/ Fulfilled(a) \/ Rejected(a) \/ FetchFails(a)
       PROVE  SessionInv'
  BY <1>1, <1>11 DEF OtherPage, Store, Server!Save, Answer, Fulfilled, Rejected,
     FetchFails, streamVars, serverVars
<1> QED
  BY <1>2, <1>3, <1>4, <1>5, <1>6, <1>7, <1>8, <1>9, <1>10, <1>11 DEF Next

-----------------------------------------------------------------------------
(* What the sessions are given and show.                                   *)

(* One more element at the end of a sequence.                              *)
LEMMA Appended ==
    ASSUME NEW S, NEW s \in Seq(S), NEW x \in S
    PROVE  LET t == Append(s, x) IN
           /\ Len(t) = Len(s) + 1 /\ Len(s) \in Nat
           /\ DOMAIN t = 1 .. (Len(s) + 1) /\ DOMAIN s = 1 .. Len(s)
           /\ t[Len(s) + 1] = x
           /\ \A i \in 1 .. Len(s) : t[i] = s[i]
           /\ Range(t) = Range(s) \cup {x}
<1> DEFINE t == Append(s, x)
<1>1. /\ Len(t) = Len(s) + 1 /\ Len(s) \in Nat
      /\ DOMAIN t = 1 .. (Len(s) + 1) /\ DOMAIN s = 1 .. Len(s)
      /\ t[Len(s) + 1] = x
      /\ \A i \in 1 .. Len(s) : t[i] = s[i]
  OBVIOUS
<1>2. \A i : i \in 1 .. (Len(s) + 1) <=> i \in 1 .. Len(s) \/ i = Len(s) + 1
  BY <1>1
<1> HIDE DEF t
<1>3. Range(t) = Range(s) \cup {x}
  BY <1>1, <1>2 DEF Range
<1> QED
  BY <1>1, <1>3 DEF t

(* An alert comes up: the next one of the feed of the only open session.   *)
LEMMA Shown ==
    ASSUME TypeOK, FeedInv, NEW c \in Sessions, OnAlert(c)
    PROVE  LET n == Len(seen[c]) + 1
               a == feed[c][n] IN
           /\ a \in Alerts /\ a \in Range(feed[c]) /\ n \in DOMAIN feed[c] /\ n \in Nat
           /\ seen' = [seen EXCEPT ![c] = Append(seen[c], a)]
           /\ seen[c] \in Seq(Alerts) /\ seen'[c] = Append(seen[c], a)
           /\ \A d \in Sessions : d # c => seen'[d] = seen[d]
           /\ alerts' = Show(alerts, a)
           /\ link[c] = "open"
           /\ UNCHANGED <<phase, feed, req, todo>>
<1> DEFINE n == Len(seen[c]) + 1
           a == feed[c][n]
<1>1. seen[c] \in Seq(Alerts) /\ feed[c] \in Seq(Alerts) /\ seen \in [Sessions -> Seq(Alerts)]
  BY DEF TypeOK
<1>2. Len(seen[c]) < Len(feed[c])
  BY DEF OnAlert, Server!See
<1>3. n \in 1 .. Len(feed[c]) /\ n \in Nat
  BY <1>1, <1>2
<1>4. n \in DOMAIN feed[c] /\ a \in Alerts
  BY <1>1, <1>3
<1>5. a \in Range(feed[c])
  BY <1>4 DEF Range
<1>6. seen' = [seen EXCEPT ![c] = Append(seen[c], a)]
  BY DEF OnAlert, Server!See
<1>7. seen'[c] = Append(seen[c], a) /\ \A d \in Sessions : d # c => seen'[d] = seen[d]
  BY <1>1, <1>6
<1>8. Last(seen'[c]) = a
  BY <1>1, <1>4, <1>7, Appended DEF Last
<1>9. /\ alerts' = Show(alerts, a) /\ link[c] = "open"
      /\ UNCHANGED <<phase, feed, req, todo>>
  BY <1>8 DEF OnAlert, Handles, Server!See
<1> QED
  BY <1>1, <1>3, <1>4, <1>5, <1>6, <1>7, <1>9

(* What changes the feeds, the sessions to write to and what they show.    *)
Given(a, c) ==
    /\ req[a] \in {"writing", "faulted"} /\ c \in todo[a]
    /\ todo' = [todo EXCEPT ![a] = todo[a] \ {c}]
    /\ req'[a] \in Broadcasting /\ \A b \in Alerts : b # a => req'[b] = req[b]
    /\ seen' = seen
    /\ \A d \in Sessions : d # c => feed'[d] = feed[d]
    /\ feed'[c] = feed[c] \/ (a \notin Range(feed[c]) /\ feed'[c] = Append(feed[c], a))

Planned(a) ==
    /\ req[a] = "saved" /\ req'[a] = "writing" /\ \A b \in Alerts : b # a => req'[b] = req[b]
    /\ \A b \in Alerts : b # a => todo'[b] = todo[b]
    /\ UNCHANGED <<feed, seen>>

Still ==
    /\ UNCHANGED <<feed, seen, todo>>
    /\ \A a \in Alerts : req[a] \in Broadcasting => req'[a] \in Broadcasting

LEMMA FeedEffect ==
    ASSUME TypeOK, [Next]_vars
    PROVE  \/ Still
           \/ \E a \in Alerts : Planned(a) \/ \E c \in Sessions : Given(a, c)
           \/ \E c \in Sessions : OnAlert(c)
<1>0. /\ req \in [Alerts -> RequestStates] /\ todo \in [Alerts -> SUBSET Sessions]
      /\ feed \in [Sessions -> Seq(Alerts)]
  BY DEF TypeOK
<1>1. ASSUME UNCHANGED <<feed, seen, todo, req>> PROVE Still
  BY <1>1 DEF Still
<1>2. ASSUME NEW c \in Sessions, NEW d \in Sessions,
             Connect(c) \/ OnConnected(c) \/ Refused(c) \/ ConnectionLost(c, d)
      PROVE  Still
  BY <1>1, <1>2 DEF Connect, OnConnected, Refused, ConnectionLost, serverVars
<1>3. ASSUME NEW c \in Sessions, Accept(c) \/ Release(c) PROVE Still
  BY <1>1, <1>3 DEF Accept, Release, Server!Move
<1>4. CASE Disconnect \/ ClearAlerts \/ UNCHANGED vars
  BY <1>1, <1>4 DEF Disconnect, ClearAlerts, vars, serverVars
<1>5. CASE SubmitAlert \/ TriggerMultiple
  BY <1>0, <1>5 DEF SubmitAlert, TriggerMultiple, Submit, TriggerTestAlert, Still, Broadcasting
<1>6. ASSUME NEW a \in Alerts, OtherPage(a) \/ Store(a) \/ Answer(a) PROVE Still
  BY <1>0, <1>6 DEF OtherPage, TriggerTestAlert, Store, Server!Save, Answer, Still, Broadcasting
<1>7. ASSUME NEW a \in Alerts, Fulfilled(a) \/ Rejected(a) \/ FetchFails(a) PROVE Still
  BY <1>1, <1>7 DEF Fulfilled, Rejected, FetchFails, serverVars
<1>8. ASSUME NEW a \in Alerts, Snapshot(a) PROVE Planned(a)
  BY <1>0, <1>8 DEF Snapshot, Planned
<1>9. ASSUME NEW a \in Alerts, NEW c \in Sessions, Broadcast(a, c) PROVE Given(a, c)
  <2>1. /\ req[a] \in {"writing", "faulted"} /\ c \in todo[a]
        /\ todo' = [todo EXCEPT ![a] = todo[a] \ {c}]
    BY <1>9 DEF Broadcast
  <2>2. CASE Server!Feed(c, a) /\ UNCHANGED req
    BY <1>0, <2>1, <2>2 DEF Server!Feed, Given, Broadcasting, Range, Server!Range
  <2>3. CASE req' = [req EXCEPT ![a] = "faulted"] /\ UNCHANGED <<saved, phase, feed, seen>>
    BY <1>0, <2>1, <2>3 DEF Given, Broadcasting
  <2> QED
    BY <1>9, <2>2, <2>3 DEF Broadcast
<1> QED
  BY <1>2, <1>3, <1>4, <1>5, <1>6, <1>7, <1>8, <1>9 DEF Next

LEMMA FeedStep ==
    ASSUME TypeOK, FeedInv, [Next]_vars
    PROVE  FeedInv'
<1>0. /\ todo \in [Alerts -> SUBSET Sessions] /\ \A c \in Sessions : feed[c] \in Seq(Alerts)
      /\ \A c \in Sessions : seen[c] \in Seq(Alerts)
  BY DEF TypeOK
<1>r. \A c \in Sessions : Range(feed[c]) \subseteq Alerts
  BY <1>0 DEF Range
<1>1. CASE Still
  BY <1>1, <1>r DEF Still, FeedInv
<1>2. ASSUME NEW a \in Alerts, Planned(a) PROVE FeedInv'
  <2>1. \A c \in Sessions : a \notin Range(feed[c])
    BY <1>2 DEF Planned, FeedInv, Broadcasting
  <2> QED
    BY <1>2, <1>r, <2>1 DEF Planned, FeedInv, Broadcasting
<1>3. ASSUME NEW a \in Alerts, NEW c \in Sessions, Given(a, c) PROVE FeedInv'
  <2>1. \A d \in Sessions : \A b \in Range(feed[d]) : req'[b] \in Broadcasting /\ d \notin todo'[b]
    BY <1>0, <1>3, <1>r DEF Given, FeedInv
  <2>2. CASE feed'[c] = feed[c]
    <3>1. \A d \in Sessions : feed'[d] = feed[d] /\ seen'[d] = seen[d]
      BY <1>3, <2>2 DEF Given
    <3> QED
      BY <2>1, <3>1 DEF FeedInv
  <2>3. CASE a \notin Range(feed[c]) /\ feed'[c] = Append(feed[c], a)
    <3> DEFINE n == Len(feed[c]) + 1
    <3>1. /\ Len(feed'[c]) = n /\ Len(feed[c]) \in Nat
          /\ DOMAIN feed'[c] = 1 .. n /\ DOMAIN feed[c] = 1 .. Len(feed[c])
          /\ feed'[c][n] = a
          /\ \A i \in 1 .. Len(feed[c]) : feed'[c][i] = feed[c][i]
          /\ Range(feed'[c]) = Range(feed[c]) \cup {a}
      BY <1>0, <2>3, Appended
    <3>2. \A i \in 1 .. Len(feed[c]) : feed[c][i] # a
      BY <2>3, <3>1 DEF Range
    <3>3. \A i, j \in DOMAIN feed[c] : feed[c][i] = feed[c][j] => i = j
      BY DEF FeedInv, IsInjective
    <3>4. \A i \in 1 .. n : i \in 1 .. Len(feed[c]) \/ i = n
      BY <3>1
    <3>5. IsInjective(feed'[c])
      BY <3>1, <3>2, <3>3, <3>4 DEF IsInjective
    <3>6. \A b \in Range(feed'[c]) : req'[b] \in Broadcasting /\ c \notin todo'[b]
      BY <1>0, <1>3, <2>1, <3>1 DEF Given
    <3>7. seen'[c] = seen[c] /\ Len(seen[c]) <= Len(feed[c]) /\ Len(seen[c]) \in Nat
      BY <1>0, <1>3 DEF Given, FeedInv
    <3>8. DOMAIN seen[c] = 1 .. Len(seen[c]) /\ \A i \in DOMAIN seen[c] : i \in 1 .. Len(feed[c])
      BY <1>0, <3>1, <3>7
    <3>9. /\ Len(seen'[c]) <= Len(feed'[c])
          /\ \A i \in DOMAIN seen'[c] : seen'[c][i] = feed'[c][i]
      BY <3>1, <3>7, <3>8 DEF FeedInv
    <3>10. \A d \in Sessions : d # c => feed'[d] = feed[d] /\ seen'[d] = seen[d]
      BY <1>3 DEF Given
    <3>11. ASSUME NEW d \in Sessions, d # c
           PROVE  /\ IsInjective(feed'[d])
                  /\ \A b \in Range(feed'[d]) : req'[b] \in Broadcasting /\ d \notin todo'[b]
                  /\ Len(seen'[d]) <= Len(feed'[d])
                  /\ \A i \in DOMAIN seen'[d] : seen'[d][i] = feed'[d][i]
      BY <2>1, <3>10, <3>11 DEF FeedInv
    <3> HIDE DEF n
    <3> QED
      BY <3>5, <3>6, <3>9, <3>11 DEF FeedInv
  <2> QED
    BY <1>3, <2>2, <2>3 DEF Given
<1>4. ASSUME NEW c \in Sessions, OnAlert(c) PROVE FeedInv'
  <2> DEFINE n == Len(seen[c]) + 1
             a == feed[c][n]
  <2>1. /\ a \in Alerts /\ n \in DOMAIN feed[c]
        /\ seen'[c] = Append(seen[c], a)
        /\ \A d \in Sessions : d # c => seen'[d] = seen[d]
        /\ UNCHANGED <<feed, req, todo>>
    BY <1>4, Shown
  <2>2. /\ Len(seen'[c]) = n /\ DOMAIN seen'[c] = 1 .. n /\ DOMAIN seen[c] = 1 .. Len(seen[c])
        /\ Len(seen[c]) \in Nat
        /\ seen'[c][n] = a
        /\ \A i \in 1 .. Len(seen[c]) : seen'[c][i] = seen[c][i]
    BY <1>0, <2>1, Appended
  <2>3. n <= Len(feed[c])
    BY <1>0, <2>1
  <2>4. \A i \in 1 .. n : i \in 1 .. Len(seen[c]) \/ i = n
    BY <2>2
  <2> HIDE DEF n
  <2>5. \A i \in DOMAIN seen'[c] : seen'[c][i] = feed'[c][i]
    BY <2>1, <2>2, <2>4 DEF FeedInv
  <2> HIDE DEF a
  <2>6. \A d \in Sessions : Len(seen'[d]) <= Len(feed'[d])
    BY <2>1, <2>2, <2>3 DEF FeedInv
  <2>7. \A d \in Sessions : \A i \in DOMAIN seen'[d] : seen'[d][i] = feed'[d][i]
    BY <2>1, <2>5 DEF FeedInv
  <2>8. \A d \in Sessions :
          /\ IsInjective(feed'[d])
          /\ \A b \in Range(feed'[d]) : req'[b] \in Broadcasting /\ d \notin todo'[b]
    BY <2>1 DEF FeedInv
  <2> QED
    BY <2>6, <2>7, <2>8 DEF FeedInv
<1> QED
  BY <1>1, <1>2, <1>3, <1>4, FeedEffect

LEMMA SeenStep ==
    ASSUME TypeOK, SessionInv, FeedInv, SeenOnce, [Next]_vars
    PROVE  SeenOnce'
<1>0. /\ todo \in [Alerts -> SUBSET Sessions] /\ \A c \in Sessions : feed[c] \in Seq(Alerts)
      /\ \A c \in Sessions : seen[c] \in Seq(Alerts)
  BY DEF TypeOK
<1>s. ASSUME NEW d \in Sessions, NEW b \in Range(seen[d]) PROVE b \in Range(feed[d]) /\ b \in Alerts
  <2>1. PICK i \in DOMAIN seen[d] : seen[d][i] = b
    BY DEF Range
  <2>2. i \in DOMAIN feed[d]
    BY <1>0, <2>1 DEF FeedInv
  <2> QED
    BY <1>0, <2>1, <2>2 DEF FeedInv, Range
<1>1. CASE Still
  BY <1>1 DEF Still, SeenOnce
<1>2. ASSUME NEW a \in Alerts, Planned(a) PROVE SeenOnce'
  <2>1. \A d \in Sessions : a \notin Range(seen[d])
    BY <1>2, <1>s DEF Planned, FeedInv, Broadcasting
  <2> QED
    BY <1>2, <1>s, <2>1 DEF Planned, SeenOnce
<1>3. ASSUME NEW a \in Alerts, NEW c \in Sessions, Given(a, c) PROVE SeenOnce'
  <2>1. \A d \in Sessions : d < c => a \notin Range(seen[d])
    BY <1>3 DEF Given, SeenOnce
  <2>2. \A b \in Alerts : todo'[b] \subseteq todo[b]
    BY <1>0, <1>3 DEF Given
  <2>3. /\ \A e \in Sessions : e # c => feed'[e] = feed[e]
        /\ Range(feed'[c]) \subseteq Range(feed[c]) \cup {a}
    <3>1. Range(Append(feed[c], a)) = Range(feed[c]) \cup {a}
      BY <1>0, Appended
    <3> QED
      BY <1>3, <3>1 DEF Given
  <2>4. seen' = seen
    BY <1>3 DEF Given
  <2> QED
    BY <1>s, <2>1, <2>2, <2>3, <2>4 DEF SeenOnce
<1>4. ASSUME NEW c \in Sessions, OnAlert(c) PROVE SeenOnce'
  <2> DEFINE a == feed[c][Len(seen[c]) + 1]
  <2>1. /\ a \in Alerts
        /\ seen'[c] = Append(seen[c], a)
        /\ \A d \in Sessions : d # c => seen'[d] = seen[d]
        /\ link[c] = "open"
        /\ UNCHANGED <<feed, todo>>
    BY <1>4, Shown
  <2>2. Range(seen'[c]) = Range(seen[c]) \cup {a}
    BY <1>0, <2>1, Appended
  <2>3. \A e \in Sessions : e > c => feed[e] = <<>> /\ \A b \in Alerts : e \notin todo[b]
    BY <2>1 DEF SessionInv, Live
  <2>4. \A e \in Sessions : e > c => a \notin Range(feed[e]) /\ e \notin todo[a]
    BY <2>1, <2>3 DEF Range
  <2> HIDE DEF a
  <2> QED
    BY <2>1, <2>2, <2>4 DEF SeenOnce
<1> QED
  BY <1>1, <1>2, <1>3, <1>4, FeedEffect

-----------------------------------------------------------------------------
(* The list: an alert that comes up is pushed after all others, and is     *)
(* none of them.                                                           *)

(* The new card on top, the others moved down by one.                      *)
OnTop(t, list, a) ==
    /\ 1 \in DOMAIN t /\ t[1] = a
    /\ \A k \in DOMAIN t : k # 1 =>
          /\ k - 1 \in DOMAIN list /\ t[k] = list[k - 1]
          /\ \A m \in 1 .. (k - 1) : m # 1 => m - 1 \in 1 .. (k - 2) /\ t[m] = list[m - 1]
          /\ \A m \in 1 .. (k - 2) : m + 1 \in 1 .. (k - 1) /\ t[m + 1] = list[m]

(* unshift and pop do that.                                                *)
LEMMA ShowOnTop ==
    ASSUME NEW list \in Seq(Alerts), Len(list) <= Cap, NEW a \in Alerts,
           NEW t, t = Show(list, a)
    PROVE  t \in Seq(Alerts) /\ OnTop(t, list, a)
<1>1. PICK n \in Nat : /\ n <= Len(list)
                       /\ t = <<a>> \o [i \in 1 .. n |-> list[i]]
  <2>1. CASE Len(list) < Cap
    <3>1. list = [i \in 1 .. Len(list) |-> list[i]]
      OBVIOUS
    <3> QED
      BY <2>1, <3>1 DEF Show
  <2>2. CASE ~(Len(list) < Cap)
    <3>1. Len(list) = Cap /\ Cap - 1 \in Nat /\ Len(list) - 1 \in Nat
      BY <2>2
    <3>2. Front(list) = [i \in 1 .. (Len(list) - 1) |-> list[i]]
      BY <3>1 DEF Front
    <3> QED
      BY <2>2, <3>1, <3>2 DEF Show
  <2> QED
    BY <2>1, <2>2
<1> DEFINE s == [i \in 1 .. n |-> list[i]]
<1>2. s \in Seq(Alerts) /\ Len(s) = n
  <2>1. \A i \in 1 .. n : list[i] \in Alerts
    BY <1>1
  <2> QED
    BY <2>1
<1>3. /\ t \in Seq(Alerts) /\ DOMAIN t = 1 .. (n + 1)
      /\ t[1] = a /\ \A k \in 1 .. n : t[k + 1] = s[k]
  BY <1>1, <1>2
<1>4. \A k \in 1 .. (n + 1) : k # 1 => k - 1 \in 1 .. n /\ t[k] = list[k - 1]
  <2> SUFFICES ASSUME NEW k \in 1 .. (n + 1), k # 1
               PROVE  k - 1 \in 1 .. n /\ t[k] = list[k - 1]
    OBVIOUS
  <2>1. k - 1 \in 1 .. n /\ (k - 1) + 1 = k
    OBVIOUS
  <2>2. t[k] = s[k - 1]
    BY <1>3, <2>1
  <2> QED
    BY <2>1, <2>2
<1>5. DOMAIN list = 1 .. Len(list) /\ Len(list) \in Nat
  OBVIOUS
<1> HIDE DEF s
<1>6. \A k \in DOMAIN t : k # 1 =>
         /\ k - 1 \in DOMAIN list /\ t[k] = list[k - 1]
         /\ \A m \in 1 .. (k - 1) : m # 1 => m - 1 \in 1 .. (k - 2) /\ t[m] = list[m - 1]
         /\ \A m \in 1 .. (k - 2) : m + 1 \in 1 .. (k - 1) /\ t[m + 1] = list[m]
  <2> SUFFICES ASSUME NEW k \in 1 .. (n + 1), k # 1
               PROVE  /\ k - 1 \in DOMAIN list /\ t[k] = list[k - 1]
                      /\ \A m \in 1 .. (k - 1) : m # 1 => m - 1 \in 1 .. (k - 2) /\ t[m] = list[m - 1]
                      /\ \A m \in 1 .. (k - 2) : m + 1 \in 1 .. (k - 1) /\ t[m + 1] = list[m]
    BY <1>3
  <2>1. k - 1 \in DOMAIN list /\ t[k] = list[k - 1]
    BY <1>1, <1>4, <1>5
  <2>2. \A m \in 1 .. (k - 1) : m \in 1 .. (n + 1) /\ (m # 1 => m - 1 \in 1 .. (k - 2))
    OBVIOUS
  <2>3. \A m \in 1 .. (k - 2) : /\ m + 1 \in 1 .. (k - 1) /\ m + 1 \in 1 .. (n + 1)
                                /\ m + 1 # 1 /\ (m + 1) - 1 = m
    OBVIOUS
  <2>4. \A m \in 1 .. (k - 2) : t[m + 1] = list[m]
    BY <1>4, <2>3
  <2> QED
    BY <1>4, <2>1, <2>2, <2>3, <2>4
<1> QED
  BY <1>3, <1>6 DEF OnTop

(* PushedAfter in the next state.                                          *)
ThenAfter(c, i) ==
    {seen'[c][j] : j \in (i + 1) .. Len(seen'[c])}
        \cup UNION {Range(seen'[d]) : d \in (c + 1) .. MaxSessions}

LEMMA After ==
    \A c, i, x :
        x \in PushedAfter(c, i) <=>
            \/ \E j \in (i + 1) .. Len(seen[c]) : x = seen[c][j]
            \/ \E d \in (c + 1) .. MaxSessions : x \in Range(seen[d])
BY DEF PushedAfter

LEMMA Then ==
    \A c, i, x :
        x \in ThenAfter(c, i) <=>
            \/ \E j \in (i + 1) .. Len(seen'[c]) : x = seen'[c][j]
            \/ \E d \in (c + 1) .. MaxSessions : x \in Range(seen'[d])
BY DEF ThenAfter

LEMMA ListStep ==
    ASSUME TypeOK, SessionInv, FeedInv, SeenOnce, ListIsNewest, [Next]_vars
    PROVE  ListIsNewest'
<1> USE DEF Cards
<1>0. /\ alerts \in Seq(Alerts) /\ Len(alerts) <= Cap
      /\ \A c \in Sessions : feed[c] \in Seq(Alerts) /\ seen[c] \in Seq(Alerts)
  BY DEF TypeOK
<1>1. CASE UNCHANGED <<seen, alerts>>
  <2>1. \A d \in Sessions, i \in Nat : ThenAfter(d, i) = PushedAfter(d, i)
    BY <1>1 DEF ThenAfter, PushedAfter
  <2>2. \A d \in Sessions : seen'[d] = seen[d] /\ DOMAIN seen[d] \subseteq Nat
    BY <1>0, <1>1
  <2>3. \A k \in DOMAIN alerts' : \E d \in Sessions : \E i \in DOMAIN seen'[d] :
          /\ alerts'[k] = seen'[d][i]
          /\ {alerts'[m] : m \in 1 .. (k - 1)} = ThenAfter(d, i)
    <3> SUFFICES ASSUME NEW k \in DOMAIN alerts
                 PROVE  \E d \in Sessions : \E i \in DOMAIN seen[d] :
                          /\ alerts[k] = seen[d][i]
                          /\ {alerts[m] : m \in 1 .. (k - 1)} = ThenAfter(d, i)
      BY <1>1
    <3>1. PICK d \in Sessions : \E i \in DOMAIN seen[d] :
            /\ alerts[k] = seen[d][i]
            /\ {alerts[m] : m \in 1 .. (k - 1)} = PushedAfter(d, i)
      BY DEF ListIsNewest
    <3> QED
      BY <2>1, <2>2, <3>1
  <2> QED
    BY <1>1, <2>3 DEF ListIsNewest, PushedAfter, ThenAfter
<1>2. CASE seen' = seen /\ alerts' = <<>>
  BY <1>2 DEF ListIsNewest, IsInjective
<1>3. ASSUME NEW c \in Sessions, OnAlert(c) PROVE ListIsNewest'
  <2> DEFINE n == Len(seen[c]) + 1
             a == feed[c][n]
  <2>1. /\ a \in Alerts /\ a \in Range(feed[c]) /\ n \in DOMAIN feed[c]
        /\ seen'[c] = Append(seen[c], a)
        /\ \A d \in Sessions : d # c => seen'[d] = seen[d]
        /\ alerts' = Show(alerts, a)
        /\ link[c] = "open"
    BY <1>3, Shown
  <2>2. /\ Len(seen[c]) \in Nat /\ Len(seen'[c]) = n
        /\ DOMAIN seen'[c] = 1 .. n /\ DOMAIN seen[c] = 1 .. Len(seen[c])
        /\ seen'[c][n] = a
        /\ \A i \in 1 .. Len(seen[c]) : seen'[c][i] = seen[c][i]
        /\ Range(seen'[c]) = Range(seen[c]) \cup {a}
    BY <1>0, <2>1, Appended
  (* The sessions to come have shown nothing.                              *)
  <2>3. \A d \in Sessions : d > c => seen[d] = <<>>
    <3> SUFFICES ASSUME NEW d \in Sessions, d > c PROVE seen[d] = <<>>
      OBVIOUS
    <3>1. feed[d] = <<>>
      BY <2>1 DEF SessionInv, Live
    <3>2. Len(seen[d]) <= 0 /\ Len(seen[d]) \in Nat
      BY <1>0, <3>1 DEF FeedInv
    <3> QED
      BY <1>0, <3>2
  (* The alert has not been shown before.                                  *)
  <2>4. \A d \in Sessions : \A i \in DOMAIN seen[d] : seen[d][i] # a
    <3> SUFFICES ASSUME NEW d \in Sessions, NEW i \in DOMAIN seen[d] PROVE seen[d][i] # a
      OBVIOUS
    <3>1. CASE d = c
      <4>1. i \in DOMAIN feed[c] /\ i # n /\ seen[c][i] = feed[c][i]
        BY <1>0, <2>2, <3>1 DEF FeedInv
      <4> QED
        BY <2>1, <3>1, <4>1 DEF FeedInv, IsInjective
    <3>2. CASE d < c
      <4>1. seen[d][i] \in Range(seen[d])
        BY DEF Range
      <4> QED
        BY <2>1, <3>2, <4>1 DEF SeenOnce
    <3>3. CASE d > c
      BY <2>3, <3>3
    <3> QED
      BY <3>1, <3>2, <3>3
  <2>5. \A k \in DOMAIN alerts : alerts[k] # a
    BY <2>4 DEF ListIsNewest
  <2> HIDE DEF n, a
  <2>6. /\ 1 \in DOMAIN alerts' /\ alerts'[1] = a
        /\ \A k \in DOMAIN alerts' : k # 1 =>
              /\ k - 1 \in DOMAIN alerts /\ alerts'[k] = alerts[k - 1]
              /\ \A m \in 1 .. (k - 1) : m # 1 => m - 1 \in 1 .. (k - 2) /\ alerts'[m] = alerts[m - 1]
              /\ \A m \in 1 .. (k - 2) : m + 1 \in 1 .. (k - 1) /\ alerts'[m + 1] = alerts[m]
        /\ alerts' \in Seq(Alerts)
    <3>1. alerts' \in Seq(Alerts) /\ OnTop(alerts', alerts, a)
      BY <1>0, <2>1, ShowOnTop
    <3> QED
      BY <3>1 DEF OnTop
  <2>7. DOMAIN alerts' \subseteq Nat
    BY <2>6
  <2>8. IsInjective(alerts')
    <3> SUFFICES ASSUME NEW k \in DOMAIN alerts', NEW m \in DOMAIN alerts', alerts'[k] = alerts'[m]
                 PROVE  k = m
      BY DEF IsInjective
    <3>1. k = 1 <=> m = 1
      BY <2>5, <2>6
    <3>2. ASSUME k # 1, m # 1 PROVE k - 1 = m - 1
      BY <2>6, <3>2 DEF ListIsNewest, IsInjective
    <3> QED
      BY <2>7, <3>1, <3>2
  (* Nothing has been pushed after it, and it after all others.            *)
  <2>9. ThenAfter(c, n) = {}
    <3>1. (n + 1) .. Len(seen'[c]) = {}
      BY <2>2 DEF n
    <3>2. \A d \in (c + 1) .. MaxSessions : d \in Sessions /\ d > c /\ d # c
      OBVIOUS
    <3>3. \A d \in (c + 1) .. MaxSessions : Range(seen'[d]) = {}
      BY <2>1, <2>3, <3>2 DEF Range
    <3> QED
      BY <3>1, <3>3 DEF ThenAfter
  <2>10. ASSUME NEW d \in Sessions, NEW i \in DOMAIN seen[d]
         PROVE  /\ i \in DOMAIN seen'[d] /\ seen'[d][i] = seen[d][i]
                /\ ThenAfter(d, i) = PushedAfter(d, i) \cup {a}
    <3>0. i \in Nat
      BY <1>0
    <3>1. d <= c
      BY <2>3, <2>10
    <3>2. CASE d = c
      <4>1. \A j : j \in (i + 1) .. n <=> j \in (i + 1) .. Len(seen[c]) \/ j = n
        BY <2>2, <2>10, <3>2 DEF n
      <4>2. \A j \in (i + 1) .. Len(seen[c]) : j \in 1 .. Len(seen[c])
        BY <2>2, <3>0
      <4>3. \A e \in (c + 1) .. MaxSessions : e \in Sessions /\ e # c
        OBVIOUS
      <4>4. \A e \in (c + 1) .. MaxSessions : seen'[e] = seen[e]
        BY <2>1, <4>3
      <4>5. i \in DOMAIN seen'[c] /\ seen'[c][i] = seen[c][i]
        BY <2>2, <2>10, <3>2 DEF n
      <4>6. \A x : x \in ThenAfter(c, i) <=> x \in PushedAfter(c, i) \/ x = a
        BY <2>2, <4>1, <4>2, <4>4, After, Then
      <4>7. ThenAfter(c, i) = PushedAfter(c, i) \cup {a}
        BY <4>6
      <4> QED
        BY <3>2, <4>5, <4>7
    <3>3. CASE d < c
      <4>1. c \in (d + 1) .. MaxSessions /\ \A e \in (d + 1) .. MaxSessions : e \in Sessions
        BY <3>3
      <4>2. \A e \in (d + 1) .. MaxSessions : e # c => seen'[e] = seen[e]
        BY <2>1, <4>1
      <4>3. seen'[d] = seen[d]
        BY <2>1, <3>3
      <4>4. \A x : x \in ThenAfter(d, i) <=> x \in PushedAfter(d, i) \/ x = a
        BY <2>2, <4>1, <4>2, <4>3, After, Then
      <4>5. ThenAfter(d, i) = PushedAfter(d, i) \cup {a}
        BY <4>4
      <4> QED
        BY <4>3, <4>5
    <3> QED
      BY <3>1, <3>2, <3>3
  <2>11. ASSUME NEW k \in DOMAIN alerts'
         PROVE  \E d \in Sessions : \E i \in DOMAIN seen'[d] :
                   /\ alerts'[k] = seen'[d][i]
                   /\ {alerts'[m] : m \in 1 .. (k - 1)} = ThenAfter(d, i)
    <3>1. CASE k = 1
      <4>1. n \in DOMAIN seen'[c] /\ seen'[c][n] = a
        BY <2>2 DEF n
      <4>2. 1 .. (k - 1) = {}
        BY <3>1
      <4> QED
        BY <2>6, <2>9, <3>1, <4>1, <4>2
    <3>2. CASE k # 1
      <4> DEFINE h == k - 1
      <4>1. h \in DOMAIN alerts /\ alerts'[k] = alerts[h]
        BY <2>6, <3>2
      <4>3. h - 1 = k - 2 /\ 1 \in 1 .. (k - 1)
        BY <1>0, <2>6, <2>7, <3>2
      <4> HIDE DEF h
      <4>2. PICK d \in Sessions : \E i \in DOMAIN seen[d] :
              /\ alerts[h] = seen[d][i]
              /\ {alerts[m] : m \in 1 .. (h - 1)} = PushedAfter(d, i)
        BY <4>1 DEF ListIsNewest
      <4>p. PICK i \in DOMAIN seen[d] :
              /\ alerts[h] = seen[d][i]
              /\ {alerts[m] : m \in 1 .. (h - 1)} = PushedAfter(d, i)
        BY <4>2
      <4>4. {alerts'[m] : m \in 1 .. (k - 1)} = {alerts[m] : m \in 1 .. (k - 2)} \cup {a}
        <5>1. alerts'[1] = a
          BY <2>6
        <5>2. /\ \A m \in 1 .. (k - 1) : m # 1 => m - 1 \in 1 .. (k - 2) /\ alerts'[m] = alerts[m - 1]
              /\ \A m \in 1 .. (k - 2) : m + 1 \in 1 .. (k - 1) /\ alerts'[m + 1] = alerts[m]
          BY <2>6, <3>2
        <5>3. ASSUME NEW x
              PROVE  x \in {alerts'[m] : m \in 1 .. (k - 1)}
                        <=> x \in {alerts[m] : m \in 1 .. (k - 2)} \/ x = a
          <6>1. ASSUME NEW m \in 1 .. (k - 1), x = alerts'[m]
                PROVE  x \in {alerts[j] : j \in 1 .. (k - 2)} \/ x = a
            BY <5>1, <5>2, <6>1
          <6>2. ASSUME NEW m \in 1 .. (k - 2), x = alerts[m]
                PROVE  x \in {alerts'[j] : j \in 1 .. (k - 1)}
            BY <5>2, <6>2
          <6>3. ASSUME x = a PROVE x \in {alerts'[j] : j \in 1 .. (k - 1)}
            BY <4>3, <5>1, <6>3
          <6> QED
            BY <6>1, <6>2, <6>3
        <5> QED
          BY <5>3
      <4>5. ThenAfter(d, i) = PushedAfter(d, i) \cup {a}
        BY <2>10
      <4> QED
        BY <2>10, <4>1, <4>p, <4>3, <4>4, <4>5
    <3> QED
      BY <3>1, <3>2
  <2> QED
    BY <2>8, <2>11 DEF ListIsNewest, PushedAfter, ThenAfter
<1>4. UNCHANGED <<seen, alerts>> \/ (seen' = seen /\ alerts' = <<>>) \/ \E c \in Sessions : OnAlert(c)
  <2>1. CASE ClearAlerts
    BY <2>1 DEF ClearAlerts, serverVars
  <2>2. ASSUME NEW c \in Sessions, NEW d \in Sessions,
               \/ Connect(c) \/ Accept(c) \/ OnConnected(c) \/ Refused(c) \/ Release(c)
               \/ ConnectionLost(c, d)
        PROVE  UNCHANGED <<seen, alerts>>
    BY <2>2 DEF Connect, Accept, OnConnected, Refused, Release, ConnectionLost, Server!Move, serverVars
  <2>3. CASE Disconnect \/ SubmitAlert \/ TriggerMultiple \/ UNCHANGED vars
    BY <2>3 DEF Disconnect, SubmitAlert, TriggerMultiple, Submit, vars, serverVars
  <2>4. ASSUME NEW a \in Alerts,
               \/ OtherPage(a) \/ Store(a) \/ Snapshot(a) \/ Answer(a)
               \/ Fulfilled(a) \/ Rejected(a) \/ FetchFails(a) \/ \E c \in Sessions : Broadcast(a, c)
        PROVE  UNCHANGED <<seen, alerts>>
    BY <2>4 DEF OtherPage, Store, Server!Save, Snapshot, Answer, Fulfilled, Rejected,
       FetchFails, Broadcast, Server!Feed, serverVars
  <2> QED
    BY <2>1, <2>2, <2>3, <2>4 DEF Next
<1> QED
  BY <1>1, <1>2, <1>3, <1>4

-----------------------------------------------------------------------------
(* Every step of the page, the gateway and the network keeps IInv.         *)
LEMMA StepInv == IInv /\ [Next]_vars => IInv'
<1> SUFFICES ASSUME IInv, [Next]_vars PROVE IInv'
  OBVIOUS
<1>0. ServerTypes /\ StreamPart /\ ListTypes /\ FormPart /\ FaultTypes
  BY Parts
<1>f. FeedPart'
  BY SessionStep, FeedStep, SeenStep, ListStep DEF IInv, FeedPart
<1> USE <1>f, ServerUntouched, StreamUntouched, ListUntouched, FormUntouched, FaultsUntouched
<1>1. ASSUME NEW c \in Sessions, Connect(c) PROVE IInv'
  BY <1>0, <1>1, ConnectInv, PartsNext DEF Connect, serverVars
<1>2. CASE Disconnect
  BY <1>0, <1>2, DisconnectInv, PartsNext DEF Disconnect, serverVars
<1>3. ASSUME NEW c \in Sessions, OnConnected(c) PROVE IInv'
  BY <1>0, <1>3, OnConnectedInv, PartsNext DEF OnConnected, serverVars
<1>4. ASSUME NEW c \in Sessions, NEW d \in Sessions, ConnectionLost(c, d) PROVE IInv'
  BY <1>0, <1>4, ConnectionLostInv, FaultsCounted, PartsNext DEF ConnectionLost, serverVars
<1>5. ASSUME NEW c \in Sessions, Refused(c) PROVE IInv'
  BY <1>0, <1>5, RefusedInv, FaultsCounted, PartsNext DEF Refused, serverVars
<1>6. ASSUME NEW c \in Sessions, Accept(c) \/ Release(c) PROVE IInv'
  <2>1. UNCHANGED <<streamVars, alerts, faults>>
    BY <1>6 DEF Accept, Release
  <2> QED
    BY <1>0, <1>6, <2>1, SessionsInv, PartsNext
<1>7. ASSUME NEW c \in Sessions, OnAlert(c) PROVE IInv'
  <2>1. UNCHANGED <<saved, req, todo, streamVars, formVars, faults>>
    BY <1>7 DEF OnAlert, Server!See
  <2> QED
    BY <1>0, <1>7, <2>1, OnAlertInv, PartsNext
<1>8. CASE ClearAlerts
  <2>1. ListTypes'
    BY <1>8 DEF ClearAlerts, ListTypes
  <2> QED
    BY <1>0, <1>8, <2>1, PartsNext DEF ClearAlerts, serverVars
<1>9. ASSUME NEW set \in SUBSET Alerts, set # {}, Submit(set) PROVE IInv'
  BY <1>0, <1>9, SubmitInv, PartsNext DEF Submit
<1>10. CASE SubmitAlert
  BY <1>9, <1>10 DEF SubmitAlert
<1>11. CASE TriggerMultiple
  <2>1. PICK set \in SUBSET Alerts : Cardinality(set) = BatchSize /\ Submit(set)
    BY <1>11 DEF TriggerMultiple
  <2>2. set # {}
    BY <2>1, FS_EmptySet
  <2> QED
    BY <1>9, <2>1, <2>2
<1>12. ASSUME NEW a \in Alerts, OtherPage(a) PROVE IInv'
  BY <1>0, <1>12, OtherPageInv, PartsNext DEF OtherPage
<1>13. ASSUME NEW a \in Alerts, Store(a) PROVE IInv'
  BY <1>0, <1>13, StoreInv, PartsNext DEF Store
<1>14. ASSUME NEW a \in Alerts, Snapshot(a) PROVE IInv'
  BY <1>0, <1>14, SnapshotInv, PartsNext DEF Snapshot
<1>15. ASSUME NEW a \in Alerts, NEW c \in Sessions, Broadcast(a, c) PROVE IInv'
  BY <1>0, <1>15, BroadcastInv, PartsNext DEF Broadcast
<1>16. ASSUME NEW a \in Alerts, Answer(a) PROVE IInv'
  BY <1>0, <1>16, AnswerInv, PartsNext DEF Answer
<1>17. ASSUME NEW a \in Alerts, Fulfilled(a) PROVE IInv'
  BY <1>0, <1>17, FulfilledInv, PartsNext DEF Fulfilled
<1>18. ASSUME NEW a \in Alerts, Rejected(a) PROVE IInv'
  BY <1>0, <1>18, FailedInv, PartsNext DEF Rejected, serverVars
<1>19. ASSUME NEW a \in Alerts, FetchFails(a) PROVE IInv'
  BY <1>0, <1>19, FailedInv, FaultsCounted, PartsNext DEF FetchFails, serverVars
<1>20. CASE UNCHANGED vars
  BY <1>0, <1>20, PartsNext DEF vars, serverVars
<1> QED
  BY <1>1, <1>2, <1>3, <1>4, <1>5, <1>6, <1>7, <1>8, <1>10, <1>11, <1>12, <1>13,
     <1>14, <1>15, <1>16, <1>17, <1>18, <1>19, <1>20 DEF Next

(* IInv holds in every reachable state of the page and its gateway.        *)
THEOREM Invariance == Spec => []IInv
BY InitInv, StepInv, PTL DEF Spec

(* Every ref of the Vue client keeps its type, and the list its limit.     *)
THEOREM TypeCorrect == Spec => []TypeOK
BY Invariance, PTL DEF IInv

(* The status line of AlertStream.vue is right, and Disconnect ends the    *)
(* only stream there is, whatever is lost, refused or clicked.             *)
THEOREM StatusIsHonest == Spec => []StatusHonest
BY Invariance, PTL DEF IInv

(* The list of AlertStream.vue is the newest part of what the gateway      *)
(* pushed to the page, in order and without a repetition, over any number  *)
(* of sessions of the page and whatever broadcasts overlap.                *)
THEOREM ListInOrder == Spec => []ListIsNewest
BY Invariance, PTL DEF IInv

(* The buttons of AlertTrigger.vue and its message of success tell the     *)
(* truth about the requests, for submissions of any size.                  *)
THEOREM FormIsHonest == Spec => []FormHonest
BY Invariance, PTL DEF IInv
=============================================================================
