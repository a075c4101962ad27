---------------------------- MODULE SignalingRoom ---------------------------
(***************************************************************************)
(* Who is in the room: SignalingHub (the dictionary of registered peers)   *)
(* and the SignalingService of the Angular tabs (the roster each shows),   *)
(* connected by SignalR connections that drop, are noticed late, and are   *)
(* re-established under a new connection id.                               *)
(*                                                                         *)
(* A click on "Join Room" draws a random peer id (AppComponent.connect),   *)
(* so clicks are named by their peer ids.  A step of the hub is one access *)
(* to the dictionary or one send; a broadcast is one step, since each      *)
(* receiver sees its own copy at some moment of it.  A connection carries  *)
(* its messages in order and runs one invocation at a time (SignalR's      *)
(* default).  Up to its first await (line 52) an invocation runs on the    *)
(* loop that reads the connection, so OnDisconnectedAsync, which follows   *)
(* that loop, may overlap with the rest of Register but not with its start.*)
(*                                                                         *)
(* _peers is a plain Dictionary that nobody locks.  An access to it, once  *)
(* begun, lasts until the next step of its method; another one that falls  *)
(* into a write may be without effect, or throw.                           *)
(***************************************************************************)
EXTENDS Naturals, FiniteSets, SequencesExt

CONSTANTS
    Tabs,       \* browser tabs
    Ids,        \* peer ids, one per click on "Join Room"
    Conns,      \* connection ids
    None,
    Overlap,    \* how many hub methods run at the same time
    Patient     \* users wait for the outcome of a click before the next

ASSUME SetsAssumption == IsFiniteSet(Tabs) /\ IsFiniteSet(Ids) /\ IsFiniteSet(Conns)
ASSUME NoneAssumption == None \notin Tabs \cup Ids \cup Conns
ASSUME EnvAssumption == Overlap \in Nat \ {0} /\ Patient \in BOOLEAN

VARIABLES
    hub,        \* hub[t]: the HubConnection of the tab
    link,       \* link[t]: its connection id while it is up
    shown,      \* shown[t]: isConnected, the room is on the screen
    roster,     \* roster[t][i]: how often peers$ lists i
    click,      \* click[i]: how far the click that drew i has got
    tab,        \* tab[i]: the tab of that click
    wire,       \* wire[k]: messages of the hub on their way to the tab
    calls,      \* calls[k]: Register invocations the hub has not started
    state,      \* state[k]: the connection as the hub's server sees it
    peers,      \* peers[k]: the _peers dictionary, None for no entry
    pc,         \* pc[k]: where the Register invocation of k stands
    peer,       \* peer[k]: the peer that invocation registers
    listed,     \* listed[k]: existingPeers of that invocation
    leaving     \* leaving[k]: the peer id OnDisconnectedAsync has removed

tabVars == <<hub, link, shown, roster, click, tab>>
hubVars == <<peers, pc, peer, listed, leaving>>
vars == <<tabVars, wire, calls, state, hubVars>>

HubStates == {"none", "starting", "up", "reconnecting", "stopping", "stuck"}
ClickStates == {"unused", "starting", "calling", "joined", "failed"}
ConnStates == {"unused", "open", "dropped", "leaving", "closed"}

Message == [kind : {"PeersList"}, ids : SUBSET Ids]
    \cup [kind : {"PeerJoined", "PeerLeft", "Completion", "Rejection"}, id : Ids]

TypeOK ==
    /\ hub \in [Tabs -> HubStates]
    /\ link \in [Tabs -> Conns \cup {None}]
    /\ shown \in [Tabs -> BOOLEAN]
    /\ roster \in [Tabs -> [Ids -> Nat]]
    /\ click \in [Ids -> ClickStates]
    /\ tab \in [Ids -> Tabs \cup {None}]
    /\ wire \in [Conns -> Seq(Message)]
    /\ calls \in [Conns -> Seq(Ids)]
    /\ state \in [Conns -> ConnStates]
    /\ peers \in [Conns -> Ids \cup {None}]
    /\ pc \in [Conns -> {"idle", "announce", "list", "reply", "failed"}]
    /\ peer \in [Conns -> Ids \cup {None}]
    /\ listed \in [Conns -> SUBSET Ids]
    /\ leaving \in [Conns -> Ids \cup {None}]

Nobody == [i \in Ids |-> 0]

Init ==
    /\ hub = [t \in Tabs |-> "none"]
    /\ link = [t \in Tabs |-> None]
    /\ shown = [t \in Tabs |-> FALSE]
    /\ roster = [t \in Tabs |-> Nobody]
    /\ click = [i \in Ids |-> "unused"]
    /\ tab = [i \in Ids |-> None]
    /\ wire = [k \in Conns |-> <<>>]
    /\ calls = [k \in Conns |-> <<>>]
    /\ state = [k \in Conns |-> "unused"]
    /\ peers = [k \in Conns |-> None]
    /\ pc = [k \in Conns |-> "idle"]
    /\ peer = [k \in Conns |-> None]
    /\ listed = [k \in Conns |-> {}]
    /\ leaving = [k \in Conns |-> None]

-----------------------------------------------------------------------------
(* The tab.                                                                *)

Pending(t) == {i \in Ids : tab[i] = t /\ click[i] \in {"starting", "calling"}}

(* register(peerId): invoked on the hub, or rejected at once when the      *)
(* connection is not up.                                                   *)
Invoke(t, i) ==
    IF hub[t] = "up"
    THEN /\ calls' = [calls EXCEPT ![link[t]] = Append(@, i)]
         /\ click' = [click EXCEPT ![i] = "calling"]
    ELSE /\ click' = [click EXCEPT ![i] = "failed"]
         /\ UNCHANGED calls

(* A click on "Join Room": AppComponent.connect, initialize.  connect()    *)
(* returns at once when there is a HubConnection, in whatever state.       *)
Click(t, i) ==
    /\ ~shown[t]
    /\ Patient => Pending(t) = {}
    /\ click[i] = "unused"
    /\ tab' = [tab EXCEPT ![i] = t]
    /\ IF hub[t] = "none"
       THEN /\ hub' = [hub EXCEPT ![t] = "starting"]
            /\ click' = [click EXCEPT ![i] = "starting"]
            /\ UNCHANGED calls
       ELSE Invoke(t, i) /\ UNCHANGED hub
    /\ UNCHANGED <<link, shown, roster, wire, state, hubVars>>

Open(t, k) ==
    /\ state[k] = "unused"
    /\ state' = [state EXCEPT ![k] = "open"]
    /\ link' = [link EXCEPT ![t] = k]
    /\ hub' = [hub EXCEPT ![t] = "up"]

(* hubConnection.start() has succeeded; the click goes on to register.     *)
Started(t, k) ==
    /\ hub[t] = "starting"
    /\ Open(t, k)
    /\ \E i \in Pending(t) :
          /\ click[i] = "starting"
          /\ click' = [click EXCEPT ![i] = "calling"]
          /\ calls' = [calls EXCEPT ![k] = <<i>>]
    /\ UNCHANGED <<shown, roster, tab, wire, hubVars>>

(* The pending clicks of the tab fail: their promises are rejected.  Slip: *)
(* they are left pending.                                                  *)
RejectForgotten(t) == UNCHANGED click
Reject(t) == click' = [i \in Ids |-> IF i \in Pending(t) THEN "failed" ELSE click[i]]

(* start() has failed: hubConnection stays set.                            *)
StartFails(t) ==
    /\ hub[t] = "starting"
    /\ hub' = [hub EXCEPT ![t] = "stuck"]
    /\ Reject(t)
    /\ UNCHANGED <<link, shown, roster, tab, wire, calls, state, hubVars>>

(* The connection is cut under the tab, with what was on the wire.         *)
Cut(t) ==
    /\ link' = [link EXCEPT ![t] = None]
    /\ state' = [state EXCEPT ![link[t]] = "dropped"]
    /\ wire' = [wire EXCEPT ![link[t]] = <<>>]
    /\ Reject(t)

(* withAutomaticReconnect: the room stays on the screen meanwhile.         *)
LinkLost(t) ==
    /\ hub[t] = "up"
    /\ Cut(t)
    /\ hub' = [hub EXCEPT ![t] = "reconnecting"]
    /\ UNCHANGED <<shown, roster, tab, calls, hubVars>>

(* onreconnected: a new connection id, and nothing is registered for it.   *)
Reconnected(t, k) ==
    /\ hub[t] = "reconnecting"
    /\ Open(t, k)
    /\ UNCHANGED <<shown, roster, click, tab, wire, calls, hubVars>>

(* The retries are exhausted: onclose.                                     *)
GivesUp(t) ==
    /\ hub[t] = "reconnecting"
    /\ hub' = [hub EXCEPT ![t] = "stuck"]
    /\ UNCHANGED <<link, shown, roster, click, tab, wire, calls, state, hubVars>>

(* "Leave Room": AppComponent.disconnect and cleanup, which starts stop(). *)
Leave(t) ==
    /\ shown[t]
    /\ shown' = [shown EXCEPT ![t] = FALSE]
    /\ hub' = [hub EXCEPT ![t] = "stopping"]
    /\ IF link[t] # None THEN Cut(t) ELSE UNCHANGED <<link, state, wire, click>>
    /\ UNCHANGED <<roster, tab, calls, hubVars>>

(* stop() has resolved: SignalingService.disconnect ends.                  *)
Stopped(t) ==
    /\ hub[t] = "stopping"
    /\ hub' = [hub EXCEPT ![t] = "none"]
    /\ roster' = [roster EXCEPT ![t] = Nobody]
    /\ UNCHANGED <<link, shown, click, tab, wire, calls, state, hubVars>>

-----------------------------------------------------------------------------
(* The handlers of registerHandlers.                                       *)

ListOf(ids) == [i \in Ids |-> IF i \in ids THEN 1 ELSE 0]

(* Slip: the one who left stays on the list.                               *)
WithoutForgotten(list, id) == list
Without(list, id) == [list EXCEPT ![id] = 0]

Handle(list, m) ==
    CASE m.kind = "PeersList" -> ListOf(m.ids)
      [] m.kind = "PeerJoined" -> [list EXCEPT ![m.id] = @ + 1]
      [] m.kind = "PeerLeft" -> Without(list, m.id)
      [] OTHER -> list

(* The promise of invoke("Register"): connect() goes on, or throws.         *)
Settled(clicks, m) ==
    CASE m.kind = "Completion" -> [clicks EXCEPT ![m.id] = "joined"]
      [] m.kind = "Rejection" -> [clicks EXCEPT ![m.id] = "failed"]
      [] OTHER -> clicks

Deliver(t) ==
    /\ hub[t] = "up"
    /\ wire[link[t]] # <<>>
    /\ LET m == Head(wire[link[t]]) IN
        /\ roster' = [roster EXCEPT ![t] = Handle(@, m)]
        /\ shown' = [shown EXCEPT ![t] = @ \/ m.kind = "Completion"]
        /\ click' = Settled(click, m)
    /\ wire' = [wire EXCEPT ![link[t]] = Tail(@)]
    /\ UNCHANGED <<hub, link, tab, calls, state, hubVars>>

-----------------------------------------------------------------------------
(* SignalingHub.                                                           *)

Busy == {k \in Conns : pc[k] # "idle" \/ state[k] = "leaving"}
Free == Cardinality(Busy) < Overlap

(* Clients.All and Clients.Others: every connection the server has.        *)
Send(ks, m) == wire' = [k \in Conns |->
    IF k \in ks /\ state[k] = "open" THEN Append(wire[k], m) ELSE wire[k]]

(* Another method is writing to the dictionary: what an access may come to *)
(* then.  One that throws has written nothing.                             *)
Contended(k) == \E o \in Conns \ {k} : pc[o] = "announce" \/ state[o] = "leaving"
Outcomes(k) == IF Contended(k) THEN {"done", "lost", "thrown"} ELSE {"done"}

(* Register, first step: the dictionary entry is set.                      *)
Register(k) ==
    /\ pc[k] = "idle" /\ calls[k] # <<>>
    /\ state[k] \in {"open", "dropped"}
    /\ Free
    /\ peer' = [peer EXCEPT ![k] = Head(calls[k])]
    /\ calls' = [calls EXCEPT ![k] = Tail(@)]
    /\ \E outcome \in Outcomes(k) :
        /\ peers' = IF outcome = "done"
                    THEN [peers EXCEPT ![k] = Head(calls[k])] ELSE peers
        /\ pc' = [pc EXCEPT ![k] = IF outcome = "thrown" THEN "failed" ELSE "announce"]
    /\ UNCHANGED <<tabVars, wire, state, listed, leaving>>

(* Clients.Others.SendAsync("PeerJoined").                                 *)
Announce(k) ==
    /\ pc[k] = "announce"
    /\ Send(Conns \ {k}, [kind |-> "PeerJoined", id |-> peer[k]])
    /\ pc' = [pc EXCEPT ![k] = "list"]
    /\ UNCHANGED <<tabVars, calls, state, peers, peer, listed, leaving>>

(* existingPeers = _peers.Values.Where(...).ToList().  Slip: none.         *)
OthersThan(k) == {peers[o] : o \in Conns \ {k}} \ {None}

ExistingPeersEmpty(k) == {}
ExistingPeers(k) == OthersThan(k)

List(k) ==
    /\ pc[k] = "list"
    /\ \E outcome \in Outcomes(k) :
        /\ listed' = [listed EXCEPT ![k] = IF outcome = "thrown" THEN {} ELSE ExistingPeers(k)]
        /\ pc' = [pc EXCEPT ![k] = IF outcome = "thrown" THEN "failed" ELSE "reply"]
    /\ UNCHANGED <<tabVars, wire, calls, state, peers, peer, leaving>>

(* Clients.Caller.SendAsync("PeersList") and the invocation completes, or  *)
(* its exception ends it.                                                  *)
Answer(k) ==
    IF pc[k] = "reply"
    THEN <<[kind |-> "PeersList", ids |-> listed[k]], [kind |-> "Completion", id |-> peer[k]]>>
    ELSE <<[kind |-> "Rejection", id |-> peer[k]]>>

Reply(k) ==
    /\ pc[k] \in {"reply", "failed"}
    /\ wire' = IF state[k] = "open" THEN [wire EXCEPT ![k] = @ \o Answer(k)] ELSE wire
    /\ pc' = [pc EXCEPT ![k] = "idle"]
    /\ peer' = [peer EXCEPT ![k] = None]
    /\ listed' = [listed EXCEPT ![k] = {}]
    /\ UNCHANGED <<tabVars, calls, state, peers, leaving>>

(* OnDisconnectedAsync, once the server has noticed: at once after a       *)
(* stop(), after a timeout otherwise.  Invocations it has not read are     *)
(* dropped.  Slip: the entry is not removed.                               *)
RemovedForgotten(k) == peers
Removed(k) == [peers EXCEPT ![k] = None]

(* Whether there was an entry.  Slip: PeerLeft is sent anyway.             *)
AfterwardsUnchecked(found) == "leaving"
Afterwards(found) == IF found = None THEN "closed" ELSE "leaving"

OnDisconnected(k) ==
    /\ state[k] = "dropped"
    /\ pc[k] # "announce"
    /\ Free
    /\ calls' = [calls EXCEPT ![k] = <<>>]
    /\ \E outcome \in Outcomes(k) :
        LET found == IF outcome = "thrown" THEN None ELSE peers[k] IN
        /\ peers' = IF outcome = "done" THEN Removed(k) ELSE peers
        /\ leaving' = [leaving EXCEPT ![k] = found]
        /\ state' = [state EXCEPT ![k] = Afterwards(found)]
    /\ UNCHANGED <<tabVars, wire, pc, peer, listed>>

(* Clients.All.SendAsync("PeerLeft").                                      *)
SendPeerLeft(k) ==
    /\ state[k] = "leaving"
    /\ Send(Conns, [kind |-> "PeerLeft", id |-> leaving[k]])
    /\ state' = [state EXCEPT ![k] = "closed"]
    /\ leaving' = [leaving EXCEPT ![k] = None]
    /\ UNCHANGED <<tabVars, calls, peers, pc, peer, listed>>

-----------------------------------------------------------------------------
TabStep(t) ==
    \/ \E i \in Ids : Click(t, i)
    \/ \E k \in Conns : Started(t, k) \/ Reconnected(t, k)
    \/ StartFails(t) \/ LinkLost(t) \/ GivesUp(t)
    \/ Leave(t) \/ Stopped(t) \/ Deliver(t)

InvocationStep(k) == Register(k) \/ Announce(k) \/ List(k) \/ Reply(k)
DisconnectStep(k) == OnDisconnected(k) \/ SendPeerLeft(k)

Next ==
    \/ \E t \in Tabs : TabStep(t)
    \/ \E k \in Conns : InvocationStep(k) \/ DisconnectStep(k)

(* The hub's continuations run, a dropped connection is noticed within     *)
(* SignalR's timeout, what is on the wire arrives or the link is lost, and *)
(* start() succeeds or fails.  Nobody has to join, leave or lose a link.   *)
Fairness ==
    /\ \A k \in Conns : WF_vars(InvocationStep(k)) /\ WF_vars(DisconnectStep(k))
    /\ \A t \in Tabs : WF_vars(Deliver(t)) /\ WF_vars(StartFails(t))

Spec == Init /\ [][Next]_vars /\ Fairness

-----------------------------------------------------------------------------
Registered(t) == link[t] # None /\ peers[link[t]] # None

(* Nothing is under way: no hub method runs, no message or invocation is   *)
(* on a wire, every lost connection has been noticed, no tab is between    *)
(* two connections.                                                        *)
Rest ==
    /\ Busy = {}
    /\ \A k \in Conns :
          wire[k] = <<>> /\ calls[k] = <<>> /\ state[k] # "dropped"
    /\ \A t \in Tabs : hub[t] \notin {"starting", "reconnecting", "stopping"}

(* "Send list of existing peers to the new peer", "Notify others about new *)
(* peer": once all is quiet, a registered tab shows the other registered   *)
(* peers, each of them once, and nobody else.                              *)
RosterExact ==
    Rest => \A t \in Tabs :
        Registered(t) => roster[t] = ListOf(OthersThan(link[t]))

(* A peer hears of another one once, from the list or from the notice:     *)
(* once all is quiet no tab shows a peer twice.                            *)
ListedOnce ==
    Rest => \A t \in Tabs : \A i \in Ids : Registered(t) => roster[t][i] <= 1

(* What holds whatever overlaps: every variable has its type, a tab that   *)
(* is up has a connection ...                                              *)
LinkUp == \A t \in Tabs : hub[t] = "up" => link[t] \in Conns

(* ... and the local variables of the hub's methods name peers.  The       *)
(* dictionary does not: its entry may be lost, or be left behind.          *)
HubInv ==
    \A k \in Conns :
        /\ pc[k] # "idle" => state[k] # "unused" /\ peer[k] # None
        /\ state[k] = "leaving" => leaving[k] # None

IInv == TypeOK /\ LinkUp /\ HubInv

(***************************************************************************)
(* RosterExact is true of a hub whose methods do not overlap and of users  *)
(* who wait for the outcome of a click.  It follows from CalmInv, which    *)
(* says what the wires hold: how the list a tab shows, or the PeersList it *)
(* is about to get, and the messages behind it add up to the peers that it *)
(* should know of.                                                         *)
(***************************************************************************)
(* No two hub methods run, so that no access goes wrong.                   *)
OneAtATime ==
    /\ \A k, o \in Busy : k = o
    /\ \A k \in Conns :
        /\ pc[k] # "idle" => state[k] \in {"open", "dropped"} /\ peers[k] = peer[k]
        /\ pc[k] # "failed"
        /\ leaving[k] # None <=> state[k] = "leaving"
        /\ pc[k] = "reply" => listed[k] = OthersThan(k)

(* The dictionary then keeps no entry of a connection that is gone, and no *)
(* invocation fails.                                                       *)
NoLeakedPeer ==
    \A k \in Conns : state[k] \in {"unused", "leaving", "closed"} => peers[k] = None

NothingFails ==
    \A k \in Conns : \A m \in Range(wire[k]) : m.kind # "Rejection"

(* A tab that is up has an open connection of its own; nobody knows        *)
(* anything yet of a connection that is not opened.                        *)
LinkInv ==
    /\ \A t \in Tabs :
        /\ link[t] # None <=> hub[t] = "up"
        /\ link[t] # None => state[link[t]] = "open"
    /\ \A t, u \in Tabs : link[t] = link[u] /\ link[t] # None => t = u
    /\ \A k \in Conns : state[k] = "unused" => wire[k] = <<>> /\ calls[k] = <<>>

(* A peer id is in the hands of one connection: waiting for Register,      *)
(* registered or leaving.  Each connection registers once.                 *)
Holds(k, i) == i \in Range(calls[k]) \/ peers[k] = i \/ leaving[k] = i

HoldInv ==
    /\ \A k, o \in Conns : \A i \in Ids : Holds(k, i) /\ Holds(o, i) => k = o
    /\ \A k \in Conns : calls[k] # <<>> =>
            Len(calls[k]) = 1 /\ peers[k] = None /\ state[k] \in {"open", "dropped"}

(* Before PeerJoined is sent for an id, nobody has heard of it.            *)
Fresh(i) ==
    \/ click[i] \in {"unused", "starting"}
    \/ \E k \in Conns : i \in Range(calls[k]) \/ (pc[k] = "announce" /\ peers[k] = i)

Mentions(m, i) == IF m.kind = "PeersList" THEN i \in m.ids ELSE m.id = i

FreshInv ==
    \A i \in Ids : Fresh(i) =>
        /\ \A k \in Conns :
            /\ \A m \in Range(wire[k]) : ~Mentions(m, i)
            /\ i \notin listed[k]
            /\ click[i] \in {"unused", "starting"} => ~Holds(k, i)
        /\ \A t \in Tabs : roster[t][i] = 0

(* What a tab's connection holds is the tab's own, and while it holds      *)
(* anything the button is not there or a click is pending.                 *)
AwaitInv ==
    \A t \in Tabs : link[t] # None =>
        /\ calls[link[t]] # <<>> \/ peers[link[t]] # None => shown[t] \/ Pending(t) # {}
        /\ \A i \in Ids : Holds(link[t], i) => tab[i] = t
        /\ \A m \in Range(wire[link[t]]) : m.kind = "Completion" => tab[m.id] = t

(* The others that a tab of connection k has been, or is being, told of.   *)
KnownTo(k) ==
    ({peers[o] : o \in {c \in Conns \ {k} : pc[c] # "announce"}}
        \cup {leaving[o] : o \in Conns \ {k}}) \ {None}

(* The messages about i on a wire, behind position n.                      *)
IsAbout(m, i) == m.kind \in {"PeerJoined", "PeerLeft"} /\ m.id = i
About(w, n, i) == {j \in (n + 1) .. Len(w) : IsAbout(w[j], i)}

(* A tab that has the list at position n will have the ids at the end:     *)
(* what it is told of one of them is once that it joined, unless the list  *)
(* has it; and of any other in the end that it left, unless the list has   *)
(* it not.                                                                 *)
Brings(list, w, n, i) ==
    \/ list[i] = 1 /\ About(w, n, i) = {}
    \/ list[i] = 0 /\ \E j \in About(w, n, i) :
            w[j].kind = "PeerJoined" /\ \A l \in About(w, n, i) : l = j

Takes(list, w, n, i) ==
    \/ list[i] = 0 /\ About(w, n, i) = {}
    \/ \E j \in About(w, n, i) :
            w[j].kind = "PeerLeft" /\ \A l \in About(w, n, i) : l <= j

EndsWith(ids, list, w, n) ==
    /\ \A j \in (n + 1) .. Len(w) : w[j].kind # "PeersList"
    /\ \A i \in Ids : IF i \in ids THEN Brings(list, w, n, i) ELSE Takes(list, w, n, i)

Told(ids, list, w) ==
    \/ EndsWith(ids, list, w, 0)
    \/ \E n \in 1 .. Len(w) : w[n].kind = "PeersList" /\ EndsWith(ids, ListOf(w[n].ids), w, n)

ToldInv ==
    \A t \in Tabs : Registered(t) /\ pc[link[t]] = "idle" =>
        Told(KnownTo(link[t]), roster[t], wire[link[t]])

CalmInv ==
    /\ OneAtATime /\ NoLeakedPeer /\ NothingFails
    /\ LinkInv /\ HoldInv /\ FreshInv /\ AwaitInv /\ ToldInv

(* A peer that is no longer registered disappears from every roster.       *)
GhostsLeave ==
    \A t \in Tabs : \A i \in Ids :
        (roster[t][i] > 0 /\ \A k \in Conns : peers[k] # i)
            ~> (roster[t][i] = 0 \/ ~Registered(t))

(* Every click on "Join Room" comes to an end.                             *)
JoinSettles ==
    \A i \in Ids : click[i] \in {"starting", "calling"} ~> click[i] \in {"joined", "failed"}

(* The room is on the screen and the connection is up: others can call.    *)
OnlineIsReachable ==
    Rest => \A t \in Tabs : shown[t] /\ hub[t] = "up" => Registered(t)
=============================================================================
