------------------------------ MODULE PeerCall ------------------------------
(***************************************************************************)
(* One peer calls another: the WebrtcService of the Angular tabs creates   *)
(* RTCPeerConnections and exchanges offers, answers and ICE candidates     *)
(* through SignalingHub, while calls cross, buttons are clicked twice,     *)
(* peers leave and signaling links break.                                  *)
(*                                                                         *)
(* Joining is the subject of module SignalingRoom; here the peers are in   *)
(* the room, each under one peer id.  A handler of the tab is cut at its   *)
(* awaits: messages that arrive meanwhile are handled in between.  Of an   *)
(* RTCPeerConnection the model keeps what JSEP tells apart: its signaling  *)
(* state, whose description it has set, and whether ICE can succeed, which *)
(* takes two connections that hold each other's description and one        *)
(* candidate that has got through.  One candidate stands for all.          *)
(***************************************************************************)
EXTENDS Naturals, FiniteSets, Sequences

CONSTANTS
    Peers,      \* the peer ids in the room
    Streaming,  \* those whose camera is on, so that others get an ontrack
    Leavers,    \* bound: those who may leave the room
    Unlucky,    \* bound: those whose signaling link may break
    MaxCalls    \* bound: how often "Call" is clicked, by all together

ASSUME PeersAssumption ==
    IsFiniteSet(Peers) /\ Streaming \cup Leavers \cup Unlucky \subseteq Peers
ASSUME BoundAssumption == MaxCalls \in Nat

VARIABLES
    room,       \* room[p]: in the room, its signaling link cut, or out
    peers,      \* the keys of the hub's _peers dictionary, by peer id
    gone,       \* gone[p]: the peers whose PeerLeft has reached p
    inbox,      \* inbox[p]: messages of the hub on their way to p
    conn,       \* every RTCPeerConnection ever created, by number
    entry,      \* entry[p][q]: peerConnections.get(q) of p, 0 for none
    badge,      \* badge[p]: connectedPeers, shown as "Connected"
    calls       \* how often "Call" was clicked

hubVars == <<peers, inbox>>
tabVars == <<conn, entry, badge>>
vars == <<room, gone, calls, hubVars, tabVars>>

Conns == 1..Len(conn)
Signaling == {"new", "have-local-offer", "have-remote-offer", "stable", "closed"}
Tasks == {"none", "offer", "accept", "answer"}

Connection ==
    [owner : Peers, with : Peers, sig : Signaling, desc : Nat,
     cands : SUBSET Nat, ice : {"new", "connected", "failed"},
     task : Tasks, sdp : Nat, gathered : BOOLEAN]

Kinds == {"Offer", "Answer", "Ice", "PeerLeft"}
Message == [kind : Kinds, from : Peers, sdp : Nat]

TypeOK ==
    /\ room \in [Peers -> {"in", "cut", "out"}]
    /\ peers \in SUBSET Peers
    /\ gone \in [Peers -> SUBSET Peers]
    /\ inbox \in [Peers -> Seq(Message)]
    /\ conn \in Seq(Connection)
    /\ entry \in [Peers -> [Peers -> 0..Len(conn)]]
    /\ badge \in [Peers -> SUBSET Peers]
    /\ calls \in 0..MaxCalls

Init ==
    /\ room = [p \in Peers |-> "in"]
    /\ peers = Peers
    /\ gone = [p \in Peers |-> {}]
    /\ inbox = [p \in Peers |-> <<>>]
    /\ conn = <<>>
    /\ entry = [p \in Peers |-> [q \in Peers |-> 0]]
    /\ badge = [p \in Peers |-> {}]
    /\ calls = 0

-----------------------------------------------------------------------------
(* createPeerConnection: the map's entry is replaced, and what it held is  *)
(* neither closed nor forgotten by its own callbacks.                      *)
CreatePeerConnection(p, q, task, sdp) ==
    /\ conn' = Append(conn,
            [owner |-> p, with |-> q, sig |-> "new", desc |-> 0, cands |-> {},
             ice |-> "new", task |-> task, sdp |-> sdp, gathered |-> FALSE])
    /\ entry' = [entry EXCEPT ![p][q] = Len(conn) + 1]

(* SendOffer, SendAnswer, SendIceCandidate: the target is looked up by its *)
(* peer id, the sender by its connection id.  A sender that is not         *)
(* registered is ignored; for an unknown target the caller gets an Error   *)
(* that no component listens to.  invoke is rejected once stop() has       *)
(* begun.  The hub's answer makes no difference to the tab, so invocation  *)
(* and method are one step; one that a broken link loses is like one made  *)
(* after the link broke.  Slips: the message goes back to the caller; the  *)
(* sender is not checked.                                                  *)
Known(p) == p \in peers /\ room[p] = "in"

SendToCaller(p, kind, q, c) ==
    inbox' = IF Known(p) /\ Known(q)
             THEN [inbox EXCEPT ![p] = Append(@, [kind |-> kind, from |-> p, sdp |-> c])]
             ELSE inbox

SendToUnchecked(p, kind, q, c) ==
    LET from == IF Known(p) THEN p ELSE "null" IN
    inbox' = IF Known(q)
             THEN [inbox EXCEPT ![q] = Append(@, [kind |-> kind, from |-> from, sdp |-> c])]
             ELSE inbox

SendTo(p, kind, q, c) ==
    inbox' = IF Known(p) /\ Known(q)
             THEN [inbox EXCEPT ![q] = Append(@, [kind |-> kind, from |-> p, sdp |-> c])]
             ELSE inbox

(* ontrack: the remote stream is shown as soon as a description with       *)
(* tracks is set, before there is a connection.  An answer has tracks only *)
(* if the offer had some, too.                                             *)
HasTracks(c) ==
    /\ conn[c].with \in Streaming
    /\ conn[c].sdp = 0 => conn[c].owner \in Streaming

OnTrack(c) ==
    badge' = IF HasTracks(c)
             THEN [badge EXCEPT ![conn[c].owner] = @ \cup {conn[c].with}]
             ELSE badge

(* A click on "Call", offered for every listed peer that is not shown as   *)
(* connected.                                                              *)
Call(p, q) ==
    /\ calls < MaxCalls
    /\ room[p] # "out"
    /\ q \notin {p} \cup gone[p] \cup badge[p]
    /\ CreatePeerConnection(p, q, "offer", 0)
    /\ calls' = calls + 1
    /\ UNCHANGED <<room, gone, hubVars, badge>>

(* createOffer and setLocalDescription have resolved; sendOffer.           *)
Offered(c) ==
    /\ conn[c].task = "offer"
    /\ conn' = [conn EXCEPT ![c] = [@ EXCEPT !.sig = "have-local-offer", !.task = "none"]]
    /\ SendTo(conn[c].owner, "Offer", conn[c].with, c)
    /\ UNCHANGED <<room, gone, calls, peers, entry, badge>>

(* handleOffer: setRemoteDescription has resolved.                         *)
Accepted(c) ==
    /\ conn[c].task = "accept"
    /\ conn' = [conn EXCEPT ![c] = [@ EXCEPT !.sig = "have-remote-offer",
                                             !.task = "answer", !.desc = conn[c].sdp]]
    /\ OnTrack(c)
    /\ UNCHANGED <<room, gone, calls, hubVars, entry>>

(* createAnswer and setLocalDescription have resolved; sendAnswer.         *)
(* Slip: the answer is not sent.                                           *)
SendAnswerForgotten(c) == UNCHANGED inbox
SendAnswer(c) == SendTo(conn[c].owner, "Answer", conn[c].with, c)

Answered(c) ==
    /\ conn[c].task = "answer"
    /\ conn' = [conn EXCEPT ![c] = [@ EXCEPT !.sig = "stable", !.task = "none"]]
    /\ SendAnswer(c)
    /\ UNCHANGED <<room, gone, calls, peers, entry, badge>>

(* onicecandidate, once there is a local description.                      *)
Gather(c) ==
    /\ conn[c].sig \in {"have-local-offer", "stable"}
    /\ ~conn[c].gathered
    /\ room[conn[c].owner] # "out"
    /\ conn' = [conn EXCEPT ![c] = [@ EXCEPT !.gathered = TRUE]]
    /\ SendTo(conn[c].owner, "Ice", conn[c].with, c)
    /\ UNCHANGED <<room, gone, calls, peers, entry, badge>>

-----------------------------------------------------------------------------
(* Messages that reach the tab.                                            *)

Arrives(p, kind) ==
    /\ room[p] # "out"
    /\ inbox[p] # <<>>
    /\ Head(inbox[p]).kind = kind
    /\ inbox' = [inbox EXCEPT ![p] = Tail(@)]

From(p) == Head(inbox[p]).from
Sdp(p) == Head(inbox[p]).sdp

OfferReceived(p) ==
    /\ Arrives(p, "Offer")
    /\ CreatePeerConnection(p, From(p), "accept", Sdp(p))
    /\ UNCHANGED <<room, gone, calls, peers, badge>>

(* handleAnswer: setRemoteDescription is rejected in any other state, and  *)
(* nobody handles the rejection.                                           *)
AnswerReceived(p) ==
    /\ Arrives(p, "Answer")
    /\ LET c == entry[p][From(p)] IN
       IF c # 0 /\ conn[c].sig = "have-local-offer"
       THEN /\ conn' = [conn EXCEPT ![c] = [@ EXCEPT !.sig = "stable", !.desc = Sdp(p)]]
            /\ OnTrack(c)
       ELSE UNCHANGED <<conn, badge>>
    /\ UNCHANGED <<room, gone, calls, peers, entry>>

(* handleIceCandidate: addIceCandidate waits for a setRemoteDescription    *)
(* that is under way and is rejected when there is none.                   *)
TakesCandidates(c) == conn[c].sig # "closed" /\ (conn[c].desc # 0 \/ conn[c].task = "accept")

IceReceived(p) ==
    /\ Arrives(p, "Ice")
    /\ LET c == entry[p][From(p)] IN
       IF c # 0 /\ TakesCandidates(c)
       THEN conn' = [conn EXCEPT ![c] = [@ EXCEPT !.cands = conn[c].cands \cup {Sdp(p)}]]
       ELSE UNCHANGED conn
    /\ UNCHANGED <<room, gone, calls, peers, entry, badge>>

(* close() ends every handler that still works on the connection.          *)
Closed(cs) ==
    [c \in Conns |-> IF c \in cs
                     THEN [conn[c] EXCEPT !.sig = "closed", !.task = "none"]
                     ELSE conn[c]]

(* closePeerConnection.  Slips: the entry stays; the connection is not     *)
(* closed.                                                                 *)
WithoutEntryForgotten(p, q) == entry
WithoutEntry(p, q) == [entry EXCEPT ![p][q] = 0]

HungUpForgotten(p, q) == conn
HungUp(p, q) == Closed({entry[p][q]})

PeerLeftReceived(p) ==
    /\ Arrives(p, "PeerLeft")
    /\ gone' = [gone EXCEPT ![p] = @ \cup {From(p)}]
    /\ conn' = HungUp(p, From(p))
    /\ entry' = WithoutEntry(p, From(p))
    /\ UNCHANGED <<room, calls, peers, badge>>

-----------------------------------------------------------------------------
(* Links and leaving.                                                      *)

(* "Leave Room": cleanup closes the connections of the map and stops the   *)
(* signaling link.  Slip: nothing is closed.                               *)
CleanedUpForgotten(p) == conn
CleanedUp(p) == Closed({entry[p][q] : q \in Peers})

Leave(p) ==
    /\ p \in Leavers /\ room[p] # "out"
    /\ room' = [room EXCEPT ![p] = "out"]
    /\ conn' = CleanedUp(p)
    /\ entry' = [entry EXCEPT ![p] = [q \in Peers |-> 0]]
    /\ badge' = [badge EXCEPT ![p] = {}]
    /\ inbox' = [inbox EXCEPT ![p] = <<>>]
    /\ UNCHANGED <<gone, calls, peers>>

(* The link breaks and is re-established under a connection id that is not *)
(* registered (see SignalingRoom).                                         *)
LinkLost(p) ==
    /\ p \in Unlucky /\ room[p] = "in"
    /\ room' = [room EXCEPT ![p] = "cut"]
    /\ inbox' = [inbox EXCEPT ![p] = <<>>]
    /\ UNCHANGED <<gone, calls, peers, tabVars>>

(* OnDisconnectedAsync.  A tab whose own link was cut may miss it.         *)
OnDisconnected(p) ==
    /\ room[p] # "in" /\ p \in peers
    /\ peers' = peers \ {p}
    /\ \E back \in SUBSET {q \in Peers : room[q] = "cut"} :
          inbox' = [q \in Peers |->
                    IF room[q] = "in" \/ q \in back
                    THEN Append(inbox[q], [kind |-> "PeerLeft", from |-> p, sdp |-> 0])
                    ELSE inbox[q]]
    /\ UNCHANGED <<room, gone, calls, tabVars>>

-----------------------------------------------------------------------------
(* ICE.                                                                    *)

Mutual(c) ==
    LET d == conn[c].desc IN
    /\ d # 0 /\ conn[d].desc = c
    /\ conn[c].sig = "stable" /\ conn[d].sig = "stable"

Reachable(c) ==
    Mutual(c) /\ (conn[c].desc \in conn[c].cands \/ c \in conn[conn[c].desc].cands)

(* No message and no handler is under way, and the hub knows who is gone.  *)
Silent ==
    /\ \A p \in Peers : inbox[p] = <<>>
    /\ \A p \in peers : room[p] = "in"
    /\ \A c \in Conns :
          /\ conn[c].task = "none"
          /\ conn[c].sig \in {"have-local-offer", "stable"} =>
                conn[c].gathered \/ room[conn[c].owner] = "out"

CanConnect(c) == conn[c].ice = "new" /\ Reachable(c)

(* The other side has closed, or ICE has timed out, which takes much       *)
(* longer than signaling.                                                  *)
CanFail(c) ==
    /\ conn[c].sig = "stable"
    /\ \/ conn[c].ice = "new" /\ Silent /\ ~Reachable(c)
       \/ conn[c].ice = "connected" /\ ~Mutual(c)

(* onconnectionstatechange: "connected".                                   *)
Connects(c) ==
    /\ CanConnect(c)
    /\ conn' = [conn EXCEPT ![c] = [@ EXCEPT !.ice = "connected"]]
    /\ badge' = [badge EXCEPT ![conn[c].owner] = @ \cup {conn[c].with}]
    /\ UNCHANGED <<room, gone, calls, hubVars, entry>>

(* "disconnected" or "failed".  Slip: it stays shown as connected.         *)
UnbadgedForgotten(c) == badge
Unbadged(c) == [badge EXCEPT ![conn[c].owner] = @ \ {conn[c].with}]

Fails(c) ==
    /\ CanFail(c)
    /\ conn' = [conn EXCEPT ![c] = [@ EXCEPT !.ice = "failed"]]
    /\ badge' = Unbadged(c)
    /\ UNCHANGED <<room, gone, calls, hubVars, entry>>

-----------------------------------------------------------------------------
Receive(p) ==
    OfferReceived(p) \/ AnswerReceived(p) \/ IceReceived(p) \/ PeerLeftReceived(p)

ConnStep(c) ==
    \/ Offered(c) \/ Accepted(c) \/ Answered(c) \/ Gather(c)
    \/ Connects(c) \/ Fails(c)

Work ==
    \/ \E p \in Peers : Receive(p) \/ OnDisconnected(p)
    \/ \E c \in Conns : ConnStep(c)

Next ==
    \/ \E p, q \in Peers : Call(p, q)
    \/ \E p \in Peers : Leave(p) \/ LinkLost(p)
    \/ Work

(* Something that can be done is done: the browser resolves promises and   *)
(* reports ICE's progress, messages on a link that is up arrive, the hub   *)
(* notices a broken link.  This is weaker than fairness of each, but every *)
(* call takes finitely many steps.  Nobody has to click, leave or lose a   *)
(* link.                                                                   *)
Fairness == WF_vars(Work)

Spec == Init /\ [][Next]_vars /\ Fairness

-----------------------------------------------------------------------------
Between(p, q) == {c \in Conns : {conn[c].owner, conn[c].with} = {p, q}}
PairOf(c) == {conn[c].owner, conn[c].with}
Present(c) == \A p \in PairOf(c) : room[p] = "in"

(* No second call between the two: none has crossed it or repeated it.     *)
Alone(c) ==
    Cardinality({d \in Between(conn[c].owner, conn[c].with) : conn[d].sdp = 0}) <= 1

(* A description is only ever set on a connection to the peer it came      *)
(* from, however handlers and messages interleave: nobody talks to a third *)
(* peer by mistake (handleOffer, handleAnswer).  Part of IInv below.       *)
RightPeer ==
    \A c \in Conns : \A d \in {conn[c].desc, conn[c].sdp} \ {0} :
        /\ d \in Conns
        /\ conn[d].owner = conn[c].with
        /\ conn[d].with = conn[c].owner

(* Once PeerLeft has been handled no later message brings the peer back    *)
(* into the map (closePeerConnection; SendOffer before OnDisconnected).    *)
GoneForGood ==
    \A p \in Peers : \A q \in gone[p] : entry[p][q] = 0

(* After "Leave Room" the tab keeps no connection open, unless calls       *)
(* crossed or were repeated: those have left the map (cleanup).            *)
LeaveHangsUp ==
    \A c \in Conns :
        room[conn[c].owner] = "out" /\ Alone(c) => conn[c].sig = "closed"

(* When all is quiet, a peer still listed and shown as "Connected" has a   *)
(* connection (connectedPeers follows remoteStream$ and connectionState$). *)
Decided ==
    Silent /\ \A c \in Conns : ~CanConnect(c) /\ ~CanFail(c)

BadgeHonest ==
    Decided => \A p \in Peers : \A q \in badge[p] \ gone[p] :
        \E c \in Conns : /\ conn[c].owner = p /\ conn[c].with = q
                         /\ conn[c].ice = "connected"

(***************************************************************************)
(* These follow from the inductive invariant IInv, which also says         *)
(* what is on the way and how far each connection has got.                 *)
(***************************************************************************)

(* The map's entry for a peer is a connection to that peer.                *)
EntryInv ==
    \A p, q \in Peers : LET c == entry[p][q] IN
        c # 0 => conn[c].owner = p /\ conn[c].with = q

(* A message carries a description or candidate of a connection that its   *)
(* sender has made for the receiver; PeerLeft is about a peer that is not  *)
(* registered, and the last word from it.                                  *)
MailOf(p) ==
    \A i \in 1..Len(inbox[p]) : LET m == inbox[p][i] IN
        /\ m.sdp # 0 => /\ m.sdp \in Conns
                        /\ conn[m.sdp].owner = m.from /\ conn[m.sdp].with = p
        /\ m.kind = "PeerLeft" => m.from \notin peers
        /\ m.kind = "PeerLeft" => \A j \in (i + 1)..Len(inbox[p]) : inbox[p][j].from # m.from

MailInv == \A p \in Peers : MailOf(p)

(* Who has gone is not registered, and nothing more comes from there.      *)
GoneOf(p) ==
    \A q \in gone[p] :
        /\ q \notin peers
        /\ \A i \in 1..Len(inbox[p]) : inbox[p][i].from # q

GoneInv == \A p \in Peers : GoneOf(p)

(* How far a connection has got: its handler and its signaling state       *)
(* agree, and ICE has begun only once both descriptions were set.          *)
StageInv ==
    \A c \in Conns :
        /\ conn[c].task \in {"offer", "accept"} => conn[c].sig = "new"
        /\ conn[c].task = "answer" <=> conn[c].sig = "have-remote-offer"
        /\ conn[c].ice # "new" => conn[c].sig \in {"stable", "closed"}

(* Who is shown as connected and not known to have gone has a connection   *)
(* that is or will be: a negotiated one that has not failed.               *)
BadgeInv ==
    \A p \in Peers : \A q \in badge[p] \ gone[p] :
        \E c \in Conns : /\ conn[c].owner = p /\ conn[c].with = q
                         /\ conn[c].sig \in {"have-remote-offer", "stable"}
                         /\ conn[c].ice # "failed"

(* An offer is that of a caller's connection, is sent once, and once at    *)
(* most accepted.                                                          *)
Unaccepted(d) ==
    /\ d \in Conns /\ conn[d].sdp = 0 /\ conn[d].task # "offer"
    /\ \A c \in Conns : conn[c].sdp # d

OffersOf(p) ==
    \A i \in 1..Len(inbox[p]) : inbox[p][i].kind = "Offer" =>
        /\ Unaccepted(inbox[p][i].sdp)
        /\ \A j \in 1..Len(inbox[p]) :
              inbox[p][j].kind = "Offer" /\ inbox[p][j].sdp = inbox[p][i].sdp => i = j

AcceptInv ==
    \A c \in Conns :
        /\ conn[c].owner # conn[c].with
        /\ conn[c].task = "offer" => conn[c].sdp = 0
        /\ conn[c].sdp # 0 => /\ conn[conn[c].sdp].sdp = 0
                              /\ conn[conn[c].sdp].task # "offer"
                              /\ \A d \in Conns : conn[d].sdp = conn[c].sdp => c = d

OfferInv == AcceptInv /\ \A p \in Peers : OffersOf(p)

(* A connection is closed or in the map, unless there was a second call.   *)
Repeated(c) ==
    \E d, e \in Between(conn[c].owner, conn[c].with) :
        d # e /\ conn[d].sdp = 0 /\ conn[e].sdp = 0

HeldInv ==
    \A c \in Conns : \/ conn[c].sig = "closed"
                     \/ entry[conn[c].owner][conn[c].with] = c
                     \/ Repeated(c)

(* The map of a tab that has left is empty.                                *)
LeftInv == \A p, q \in Peers : room[p] = "out" => entry[p][q] = 0

IInv ==
    /\ TypeOK
    /\ RightPeer /\ EntryInv /\ MailInv /\ GoneInv /\ GoneForGood
    /\ StageInv /\ BadgeInv
    /\ OfferInv /\ HeldInv /\ LeftInv

Calling(c) == c \in Conns /\ conn[c].task = "offer"
Connected(c) == conn[c].ice = "connected"

(* A single call between two peers who both stay gets them connected, at   *)
(* both ends (README: peer-to-peer connection established).                *)
CallConnects ==
    \A c \in 1..(2 * MaxCalls) :
        Calling(c) ~> (c \in Conns =>
            \/ ~Alone(c) \/ ~Present(c)
            \/ Connected(c) /\ \A d \in Between(conn[c].owner, conn[c].with) : Connected(d))

(* A peer who leaves or is lost is hung up on by everybody who hears of it *)
(* (peerLeft$).                                                            *)
OthersHangUp ==
    \A c \in 1..(2 * MaxCalls) :
        (c \in Conns /\ conn[c].with \notin peers) ~> (c \in Conns =>
            \/ conn[c].sig = "closed" \/ ~Alone(c)
            \/ room[conn[c].owner] # "in")

(* README.md says of a video call: signaling via the hub, "peer-to-peer    *)
(* connection established".                                                *)
CallEstablished ==
    \A c \in 1..(2 * MaxCalls) :
        Calling(c) ~> (c \in Conns =>
            \/ ~Present(c)
            \/ \E d \in Between(conn[c].owner, conn[c].with) : Connected(d))
=============================================================================
