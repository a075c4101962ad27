------------------------ MODULE SignalingRoomProofs -------------------------
(***************************************************************************)
(* SignalingRoom for any tabs, peer ids and connections, however many hub  *)
(* methods overlap, whatever becomes of their accesses to the dictionary   *)
(* and however impatient the users are: only peer ids travel and are kept. *)
(***************************************************************************)
EXTENDS SignalingRoom, TLAPS

USE DEF Removed, Afterwards, ExistingPeers, Without

(* What is appended to a queue, and what a queue hands out, has its type.  *)
LEMMA QueueTypes ==
    ASSUME NEW S, NEW q \in Seq(S)
    PROVE  /\ \A x \in S : Append(q, x) \in Seq(S)
           /\ q # <<>> => Head(q) \in S /\ Tail(q) \in Seq(S)
OBVIOUS

LEMMA InitIInv == Init => IInv
BY NoneAssumption DEF Init, IInv, TypeOK, LinkUp, HubInv,
    HubStates, ClickStates, ConnStates, Nobody

-----------------------------------------------------------------------------
(* Steps of a tab.                                                         *)

LEMMA HandleTypes ==
    ASSUME NEW list \in [Ids -> Nat], NEW m \in Message
    PROVE  Handle(list, m) \in [Ids -> Nat]
<1>1. CASE m.kind = "PeersList"
  BY <1>1 DEF Handle, ListOf
<1>2. CASE m.kind = "PeerJoined"
  <2>1. Handle(list, m) = [list EXCEPT ![m.id] = list[m.id] + 1] /\ m.id \in Ids
    BY <1>2 DEF Handle, Message
  <2> QED BY <2>1
<1>3. CASE m.kind = "PeerLeft"
  BY <1>3 DEF Handle, Without, Message
<1>4. CASE m.kind \notin {"PeersList", "PeerJoined", "PeerLeft"}
  BY <1>4 DEF Handle
<1> QED BY <1>1, <1>2, <1>3, <1>4

LEMMA TabKeepsType ==
    ASSUME TypeOK, LinkUp, NEW t \in Tabs, TabStep(t)
    PROVE  TypeOK'
<1> USE DEF TypeOK, HubStates, ClickStates, ConnStates, hubVars
<1>1. ASSUME NEW i \in Ids, Click(t, i) PROVE TypeOK'
  <2>1. calls' \in [Conns -> Seq(Ids)]
    <3>1. \A k \in Conns : Append(calls[k], i) \in Seq(Ids)
      BY QueueTypes
    <3>2. [calls EXCEPT ![link[t]] = Append(@, i)] \in [Conns -> Seq(Ids)]
      BY <3>1
    <3> QED BY <1>1, <3>2 DEF Click, Invoke
  <2>2. click' \in [Ids -> ClickStates]
    <3>1. \E c \in ClickStates : click' = [click EXCEPT ![i] = c]
      BY <1>1 DEF Click, Invoke
    <3> QED BY <3>1
  <2>3. hub' \in [Tabs -> HubStates] /\ tab' \in [Ids -> Tabs \cup {None}]
    BY <1>1 DEF Click
  <2>4. UNCHANGED <<link, shown, roster, wire, state, hubVars>>
    BY <1>1 DEF Click
  <2> QED BY <2>1, <2>2, <2>3, <2>4
<1>2. ASSUME NEW k \in Conns, Started(t, k) PROVE TypeOK'
  <2>1. PICK i \in Pending(t) : /\ click' = [click EXCEPT ![i] = "calling"]
                                /\ calls' = [calls EXCEPT ![k] = <<i>>]
    BY <1>2 DEF Started
  <2>2. i \in Ids BY DEF Pending
  <2>3. <<i>> \in Seq(Ids) BY <2>2
  <2>4. calls' \in [Conns -> Seq(Ids)] /\ click' \in [Ids -> ClickStates]
    BY <2>1, <2>2, <2>3
  <2> QED BY <1>2, <2>4 DEF Started, Open
<1>3. ASSUME NEW k \in Conns, Reconnected(t, k) PROVE TypeOK'
  BY <1>3 DEF Reconnected, Open
<1>4. ASSUME StartFails(t) PROVE TypeOK'
  <2>1. click' \in [Ids -> ClickStates]
    BY <1>4 DEF StartFails, Reject
  <2> QED BY <1>4, <2>1 DEF StartFails
<1>5. ASSUME Cut(t) PROVE /\ link' \in [Tabs -> Conns \cup {None}]
                          /\ state' \in [Conns -> ConnStates]
                          /\ wire' \in [Conns -> Seq(Message)]
                          /\ click' \in [Ids -> ClickStates]
  <2>1. wire' \in [Conns -> Seq(Message)]
    <3>1. <<>> \in Seq(Message) OBVIOUS
    <3> QED BY <1>5, <3>1 DEF Cut
  <2>2. click' \in [Ids -> ClickStates]
    BY <1>5 DEF Cut, Reject
  <2>3. link' \in [Tabs -> Conns \cup {None}] /\ state' \in [Conns -> ConnStates]
    BY <1>5 DEF Cut
  <2> QED BY <2>1, <2>2, <2>3
<1>6. ASSUME LinkLost(t) PROVE TypeOK'
  BY <1>5, <1>6 DEF LinkLost
<1>7. ASSUME GivesUp(t) PROVE TypeOK'
  BY <1>7 DEF GivesUp
<1>8. ASSUME Leave(t) PROVE TypeOK'
  BY <1>5, <1>8 DEF Leave
<1>9. ASSUME Stopped(t) PROVE TypeOK'
  BY <1>9 DEF Stopped, Nobody
<1>10. ASSUME Deliver(t) PROVE TypeOK'
  <2> DEFINE m == Head(wire[link[t]])
  <2>1. link[t] \in Conns /\ wire[link[t]] # <<>>
    BY <1>10 DEF Deliver, LinkUp
  <2>2. m \in Message /\ Tail(wire[link[t]]) \in Seq(Message)
    BY <2>1, QueueTypes
  <2>3. wire' \in [Conns -> Seq(Message)]
    BY <1>10, <2>2 DEF Deliver
  <2>4. roster' = [roster EXCEPT ![t] = Handle(roster[t], m)]
    BY <1>10 DEF Deliver
  <2>5. Handle(roster[t], m) \in [Ids -> Nat]
    BY <2>2, HandleTypes
  <2>6. roster' \in [Tabs -> [Ids -> Nat]]
    BY <2>4, <2>5
  <2>7. click' \in [Ids -> ClickStates] /\ shown' \in [Tabs -> BOOLEAN]
    <3>1. click' = Settled(click, m) /\ shown' = [shown EXCEPT ![t] = shown[t] \/ m.kind = "Completion"]
      BY <1>10 DEF Deliver
    <3> HIDE DEF m
    <3> QED BY <3>1 DEF Settled
  <2> QED BY <1>10, <2>3, <2>6, <2>7 DEF Deliver
<1> QED BY <1>1, <1>2, <1>3, <1>4, <1>6, <1>7, <1>8, <1>9, <1>10 DEF TabStep

(* A tab changes no entry of the dictionary and no local variable of the   *)
(* hub; it opens unused connections and cuts its own.                      *)
LEMMA TabFrame ==
    ASSUME TypeOK, NEW t \in Tabs, TabStep(t)
    PROVE  /\ UNCHANGED hubVars
           /\ \A k \in Conns :
                \/ state'[k] = state[k]
                \/ state[k] = "unused" /\ state'[k] = "open"
                \/ k = link[t] /\ state'[k] = "dropped"
<1> USE DEF TypeOK, hubVars, Open, Cut
<1> QED BY DEF TabStep, Click, Started, Reconnected, StartFails, LinkLost,
            GivesUp, Leave, Stopped, Deliver

LEMMA TabKeepsLink ==
    ASSUME TypeOK, LinkUp, NEW t \in Tabs, TabStep(t)
    PROVE  LinkUp'
<1> USE DEF TypeOK, LinkUp, Open, Cut
<1> QED BY DEF TabStep, Click, Started, Reconnected, StartFails, LinkLost,
            GivesUp, Leave, Stopped, Deliver

LEMMA TabKeepsHub ==
    ASSUME TypeOK, HubInv, NEW t \in Tabs, TabStep(t)
    PROVE  HubInv'
<1>1. UNCHANGED <<peers, pc, peer, listed, leaving>>
  BY TabFrame DEF hubVars
<1>2. SUFFICES ASSUME NEW k \in Conns
      PROVE  /\ pc[k] # "idle" => state'[k] # "unused" /\ peer[k] # None
             /\ state'[k] = "leaving" => leaving[k] # None
  BY <1>1 DEF HubInv
<1> QED BY <1>1, TabFrame DEF HubInv

-----------------------------------------------------------------------------
(* Steps of the hub.                                                       *)

LEMMA SendTypes ==
    ASSUME TypeOK, NEW ks, NEW m \in Message, Send(ks, m)
    PROVE  wire' \in [Conns -> Seq(Message)]
<1>1. \A k \in Conns : wire[k] \in Seq(Message) /\ Append(wire[k], m) \in Seq(Message)
  BY QueueTypes DEF TypeOK
<1> QED BY <1>1 DEF Send

LEMMA ReplyTypes ==
    ASSUME TypeOK, HubInv, NEW k \in Conns, Reply(k)
    PROVE  wire' \in [Conns -> Seq(Message)]
<1> DEFINE list == [kind |-> "PeersList", ids |-> listed[k]]
           done == [kind |-> "Completion", id |-> peer[k]]
           failed == [kind |-> "Rejection", id |-> peer[k]]
<1>1. listed[k] \in SUBSET Ids /\ peer[k] \in Ids
  BY DEF TypeOK, HubInv, Reply
<1>2. list \in Message /\ done \in Message /\ failed \in Message
  BY <1>1 DEF Message
<1>3. Answer(k) = IF pc[k] = "reply" THEN <<list, done>> ELSE <<failed>>
  BY DEF Answer
<1> HIDE DEF list, done, failed
<1>4. Answer(k) \in Seq(Message)
  BY <1>2, <1>3
<1>5. CASE state[k] = "open"
  <2>1. wire[k] \o Answer(k) \in Seq(Message)
    BY <1>4 DEF TypeOK
  <2>2. wire' = [wire EXCEPT ![k] = wire[k] \o Answer(k)]
    BY <1>5 DEF Reply
  <2> QED BY <2>1, <2>2 DEF TypeOK
<1>6. CASE state[k] # "open"
  BY <1>6 DEF Reply, TypeOK
<1> QED BY <1>5, <1>6

HubStep(k) == InvocationStep(k) \/ DisconnectStep(k)

LEMMA HubKeepsType ==
    ASSUME TypeOK, HubInv, NEW k \in Conns, HubStep(k)
    PROVE  TypeOK'
<1> USE DEF TypeOK, ConnStates, tabVars
<1>1. ASSUME Register(k) PROVE TypeOK'
  <2>1. Head(calls[k]) \in Ids /\ Tail(calls[k]) \in Seq(Ids)
    BY <1>1, QueueTypes DEF Register
  <2>2. calls' \in [Conns -> Seq(Ids)]
    BY <1>1, <2>1 DEF Register
  <2> QED BY <1>1, <2>1, <2>2 DEF Register
<1>2. ASSUME Announce(k) PROVE TypeOK'
  <2>1. [kind |-> "PeerJoined", id |-> peer[k]] \in Message
    BY <1>2 DEF Announce, HubInv, Message
  <2>2. wire' \in [Conns -> Seq(Message)]
    BY <1>2, <2>1, SendTypes DEF Announce
  <2> QED BY <1>2, <2>2 DEF Announce
<1>3. ASSUME List(k) PROVE TypeOK'
  BY <1>3 DEF List, OthersThan
<1>4. ASSUME Reply(k) PROVE TypeOK'
  <2>1. wire' \in [Conns -> Seq(Message)]
    BY <1>4, ReplyTypes
  <2> QED BY <1>4, <2>1 DEF Reply
<1>5. ASSUME OnDisconnected(k) PROVE TypeOK'
  <2>1. calls' \in [Conns -> Seq(Ids)]
    <3>1. <<>> \in Seq(Ids) OBVIOUS
    <3> QED BY <1>5, <3>1 DEF OnDisconnected
  <2> QED BY <1>5, <2>1 DEF OnDisconnected
<1>6. ASSUME SendPeerLeft(k) PROVE TypeOK'
  <2>1. [kind |-> "PeerLeft", id |-> leaving[k]] \in Message
    BY <1>6 DEF SendPeerLeft, HubInv, Message
  <2>2. wire' \in [Conns -> Seq(Message)]
    BY <1>6, <2>1, SendTypes DEF SendPeerLeft
  <2> QED BY <1>6, <2>2 DEF SendPeerLeft
<1> QED BY <1>1, <1>2, <1>3, <1>4, <1>5, <1>6
        DEF HubStep, InvocationStep, DisconnectStep

(* What a method is about is in its local variables from its first access  *)
(* to the dictionary on, whatever becomes of that access.                  *)
LEMMA HubKeepsRest ==
    ASSUME TypeOK, LinkUp, HubInv, NEW k \in Conns, HubStep(k)
    PROVE  LinkUp' /\ HubInv'
<1> USE DEF TypeOK, ConnStates, tabVars
<1>1. ASSUME Register(k) PROVE LinkUp' /\ HubInv'
  <2>1. Head(calls[k]) # None
    BY <1>1, QueueTypes, NoneAssumption DEF Register
  <2> QED BY <1>1, <2>1 DEF Register, LinkUp, HubInv
<1>2. ASSUME Announce(k) PROVE LinkUp' /\ HubInv'
  BY <1>2 DEF Announce, LinkUp, HubInv
<1>3. ASSUME List(k) PROVE LinkUp' /\ HubInv'
  BY <1>3 DEF List, LinkUp, HubInv
<1>4. ASSUME Reply(k) PROVE LinkUp' /\ HubInv'
  BY <1>4 DEF Reply, LinkUp, HubInv
<1>5. ASSUME OnDisconnected(k) PROVE LinkUp' /\ HubInv'
  BY <1>5 DEF OnDisconnected, LinkUp, HubInv
<1>6. ASSUME SendPeerLeft(k) PROVE LinkUp' /\ HubInv'
  BY <1>6 DEF SendPeerLeft, LinkUp, HubInv
<1> QED BY <1>1, <1>2, <1>3, <1>4, <1>5, <1>6
        DEF HubStep, InvocationStep, DisconnectStep

-----------------------------------------------------------------------------
LEMMA NextKeepsIInv == IInv /\ [Next]_vars => IInv'
<1> SUFFICES ASSUME TypeOK, LinkUp, HubInv, [Next]_vars
             PROVE  TypeOK' /\ LinkUp' /\ HubInv'
  BY DEF IInv
<1>1. ASSUME NEW t \in Tabs, TabStep(t)
      PROVE  TypeOK' /\ LinkUp' /\ HubInv'
  BY <1>1, TabKeepsType, TabKeepsLink, TabKeepsHub
<1>2. ASSUME NEW k \in Conns, InvocationStep(k) \/ DisconnectStep(k)
      PROVE  TypeOK' /\ LinkUp' /\ HubInv'
  BY <1>2, HubKeepsType, HubKeepsRest DEF HubStep
<1>3. CASE UNCHANGED vars
  <2> USE <1>3 DEF vars, tabVars, hubVars
  <2>1. TypeOK' BY DEF TypeOK
  <2>2. LinkUp' /\ HubInv' BY DEF LinkUp, HubInv
  <2> QED BY <2>1, <2>2
<1> QED BY <1>1, <1>2, <1>3 DEF Next

(* The inductive invariant holds of every reachable state, for any tabs,   *)
(* clicks and connections and any overlap of the hub's methods, accesses   *)
(* to the dictionary that are lost or throw included.                      *)
THEOREM Invariance == Spec => []IInv
<1> QED BY InitIInv, NextKeepsIInv, PTL DEF Spec

(* Every variable keeps its type; in particular only peer ids travel in    *)
(* PeersList, PeerJoined, PeerLeft and the outcome of Register, never an   *)
(* empty one, although the dictionary may have lost or kept an entry.      *)
THEOREM TypeCorrect == Spec => []TypeOK
<1>1. IInv => TypeOK BY DEF IInv
<1> QED BY <1>1, Invariance, PTL
=============================================================================
