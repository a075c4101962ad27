--------------------------- MODULE PeerCallProofs ---------------------------
(***************************************************************************)
(* Proofs about PeerCall, for any set of peers and any number of calls:    *)
(* types, the right peer for every description, that a peer that is gone   *)
(* stays gone, that leaving hangs up, and that who is shown as connected   *)
(* is, once all is quiet.                                                  *)
(***************************************************************************)
EXTENDS PeerCall, FiniteSetTheorems, SequenceTheorems, TLAPS

(* The operators that only exist beside a slip of theirs.                  *)
USE DEF SendAnswer, WithoutEntry, HungUp, CleanedUp, Unbadged

-----------------------------------------------------------------------------
(* Sequences.                                                              *)

(* A record replaced in a sequence of connections.                         *)
LEMMA Amended ==
    ASSUME NEW s \in Seq(Connection), NEW c \in 1..Len(s), NEW r \in Connection,
           NEW t, t = [s EXCEPT ![c] = r]
    PROVE  /\ t \in Seq(Connection)
           /\ Len(t) = Len(s)
           /\ t[c] = r
           /\ \A d \in 1..Len(s) : d # c => t[d] = s[d]
<1>1. \A d \in 1..Len(s) : s[d] \in Connection
  OBVIOUS
<1>2. t \in [1..Len(s) -> Connection]
  BY <1>1
<1>3. Len(s) \in Nat
  OBVIOUS
<1>4. t \in Seq(Connection) /\ Len(t) = Len(s)
  BY <1>2, <1>3
<1> QED
  BY <1>4

(* A connection appended to them.                                          *)
LEMMA Extended ==
    ASSUME NEW S, NEW s \in Seq(S), NEW r \in S, NEW t, t = Append(s, r)
    PROVE  /\ t \in Seq(S)
           /\ Len(t) = Len(s) + 1
           /\ t[Len(s) + 1] = r
           /\ \A d \in 1..Len(s) : t[d] = s[d]
  OBVIOUS

(* The head of a queue taken off.                                          *)
LEMMA Taken ==
    ASSUME NEW S, NEW s \in Seq(S), s # <<>>
    PROVE  /\ Head(s) \in S
           /\ Head(s) = s[1]
           /\ 1 \in 1..Len(s)
           /\ Tail(s) \in Seq(S)
           /\ Len(Tail(s)) = Len(s) - 1
           /\ \A i \in 1..Len(Tail(s)) : i + 1 \in 1..Len(s) /\ Tail(s)[i] = s[i + 1]
  OBVIOUS

-----------------------------------------------------------------------------
(* Connections.                                                            *)

(* What a step may do to the connections that are there.                   *)
Kept ==
    /\ conn' \in Seq(Connection)
    /\ Len(conn) <= Len(conn')
    /\ \A c \in Conns : /\ conn'[c].owner = conn[c].owner
                        /\ conn'[c].with = conn[c].with
                        /\ conn'[c].sdp = conn[c].sdp

(* One connection is changed.                                              *)
LEMMA AmendKeeps ==
    ASSUME TypeOK, NEW c \in Conns, NEW r \in Connection,
           r.owner = conn[c].owner, r.with = conn[c].with, r.sdp = conn[c].sdp,
           conn' = [conn EXCEPT ![c] = r]
    PROVE  /\ Kept
           /\ Len(conn') = Len(conn)
           /\ conn'[c] = r
           /\ \A d \in Conns : d # c => conn'[d] = conn[d]
<1>1. conn \in Seq(Connection) /\ c \in 1..Len(conn)
  BY DEF TypeOK, Conns
<1>2. /\ conn' \in Seq(Connection) /\ Len(conn') = Len(conn)
      /\ conn'[c] = r
      /\ \A d \in 1..Len(conn) : d # c => conn'[d] = conn[d]
  BY <1>1, Amended
<1>3. \A d \in Conns : /\ conn'[d].owner = conn[d].owner
                       /\ conn'[d].with = conn[d].with
                       /\ conn'[d].sdp = conn[d].sdp
  <2> TAKE d \in Conns
  <2>1. CASE d = c
    BY <2>1, <1>2
  <2>2. CASE d # c
    BY <2>2, <1>2 DEF Conns
  <2> QED
    BY <2>1, <2>2
<1> QED
  BY <1>1, <1>2, <1>3 DEF Kept, Conns

(* Connections are closed.                                                 *)
LEMMA CloseKeeps ==
    ASSUME TypeOK, NEW cs, conn' = Closed(cs)
    PROVE  /\ Kept
           /\ Len(conn') = Len(conn)
           /\ \A c \in Conns : conn'[c].desc = conn[c].desc
           /\ \A c \in Conns : IF c \in cs
                               THEN /\ conn'[c].sig = "closed" /\ conn'[c].task = "none"
                                    /\ conn'[c].ice = conn[c].ice
                               ELSE conn'[c] = conn[c]
<1>1. \A c \in Conns : conn[c] \in Connection
  BY DEF TypeOK, Conns
<1>2. \A c \in Conns : [conn[c] EXCEPT !.sig = "closed", !.task = "none"] \in Connection
  BY <1>1 DEF Connection, Signaling, Tasks
<1>3. conn' \in [1..Len(conn) -> Connection]
  BY <1>1, <1>2 DEF Closed, Conns
<1>a. Len(conn) \in Nat
  BY DEF TypeOK
<1>4. conn' \in Seq(Connection) /\ Len(conn') = Len(conn)
  BY <1>3, <1>a
<1>5. \A c \in Conns : /\ conn'[c].owner = conn[c].owner
                       /\ conn'[c].with = conn[c].with
                       /\ conn'[c].sdp = conn[c].sdp
                       /\ conn'[c].desc = conn[c].desc
  BY <1>1 DEF Closed, Conns, Connection
<1>6. \A c \in Conns : IF c \in cs
                       THEN /\ conn'[c].sig = "closed" /\ conn'[c].task = "none"
                            /\ conn'[c].ice = conn[c].ice
                       ELSE conn'[c] = conn[c]
  BY <1>1 DEF Closed, Conns, Connection
<1> QED
  BY <1>4, <1>5, <1>6 DEF Kept, TypeOK

(* A connection is created.                                                *)
LEMMA CreateKeeps ==
    ASSUME TypeOK, NEW p \in Peers, NEW q \in Peers, NEW task \in Tasks, NEW sdp \in Nat,
           CreatePeerConnection(p, q, task, sdp)
    PROVE  LET n == Len(conn) + 1 IN
           /\ Kept
           /\ Len(conn') = n
           /\ conn'[n].owner = p /\ conn'[n].with = q
           /\ conn'[n].desc = 0 /\ conn'[n].sdp = sdp
           /\ conn'[n].sig = "new" /\ conn'[n].task = task /\ conn'[n].ice = "new"
           /\ \A c \in Conns : conn'[c] = conn[c]
           /\ entry' = [entry EXCEPT ![p][q] = n]
<1> DEFINE r == [owner |-> p, with |-> q, sig |-> "new", desc |-> 0, cands |-> {},
                 ice |-> "new", task |-> task, sdp |-> sdp, gathered |-> FALSE]
<1>1. r \in Connection
  BY DEF Connection, Signaling, Tasks
<1>2. conn' = Append(conn, r) /\ entry' = [entry EXCEPT ![p][q] = Len(conn) + 1]
  BY DEF CreatePeerConnection
<1>3. conn \in Seq(Connection)
  BY DEF TypeOK
<1>r. /\ r.owner = p /\ r.with = q /\ r.desc = 0 /\ r.sdp = sdp
      /\ r.sig = "new" /\ r.task = task /\ r.ice = "new"
  OBVIOUS
<1> HIDE DEF r
<1>4. /\ conn' \in Seq(Connection) /\ Len(conn') = Len(conn) + 1
      /\ conn'[Len(conn) + 1] = r
      /\ \A c \in 1..Len(conn) : conn'[c] = conn[c]
  BY <1>1, <1>2, <1>3, Extended
<1>5. Kept /\ \A c \in Conns : conn'[c] = conn[c]
  BY <1>3, <1>4 DEF Kept, Conns
<1> QED
  BY <1>r, <1>2, <1>4, <1>5

-----------------------------------------------------------------------------
(* Types of what the hub forwards and of what is taken off a queue.        *)

LEMMA SendTypes ==
    ASSUME TypeOK, NEW p \in Peers, NEW q \in Peers, NEW kind \in Kinds, NEW c \in Nat,
           SendTo(p, kind, q, c)
    PROVE  inbox' \in [Peers -> Seq(Message)]
<1> DEFINE m == [kind |-> kind, from |-> p, sdp |-> c]
<1>1. m \in Message
  BY DEF Message
<1>2. inbox[q] \in Seq(Message)
  BY DEF TypeOK
<1>3. Append(inbox[q], m) \in Seq(Message)
  BY <1>1, <1>2
<1>4. inbox' \in {inbox, [inbox EXCEPT ![q] = Append(inbox[q], m)]}
  BY DEF SendTo
<1> QED
  BY <1>3, <1>4 DEF TypeOK

LEMMA ArriveTypes ==
    ASSUME TypeOK, NEW p \in Peers, NEW kind, Arrives(p, kind)
    PROVE  /\ inbox' \in [Peers -> Seq(Message)]
           /\ From(p) \in Peers /\ Sdp(p) \in Nat
           /\ inbox[p][1].kind = kind
           /\ Head(inbox[p]) = inbox[p][1]
<1>1. inbox[p] \in Seq(Message) /\ inbox[p] # <<>>
  BY DEF TypeOK, Arrives
<1>2. Head(inbox[p]) \in Message /\ Tail(inbox[p]) \in Seq(Message) /\ Head(inbox[p]) = inbox[p][1]
  BY <1>1, Taken
<1> QED
  BY <1>2 DEF Arrives, From, Sdp, Message, TypeOK

(* The parts of TypeOK that most steps leave alone.                        *)
FlatTypes ==
    /\ room' \in [Peers -> {"in", "cut", "out"}]
    /\ peers' \in SUBSET Peers
    /\ gone' \in [Peers -> SUBSET Peers]
    /\ badge' \in [Peers -> SUBSET Peers]
    /\ calls' \in 0..MaxCalls

EntryTypes == entry' \in [Peers -> [Peers -> 0..Len(conn')]]

LEMMA EntryFrame ==
    ASSUME TypeOK, Kept, entry' = entry
    PROVE  EntryTypes
<1>1. 0..Len(conn) \subseteq 0..Len(conn')
  BY DEF TypeOK, Kept
<1> QED
  BY <1>1 DEF TypeOK, EntryTypes

LEMMA EntryRow ==
    ASSUME TypeOK, Kept, NEW p \in Peers, NEW row \in [Peers -> 0..Len(conn')],
           entry' = [entry EXCEPT ![p] = row]
    PROVE  EntryTypes
<1> DEFINE T == [Peers -> 0..Len(conn')]
<1>1. 0..Len(conn) \subseteq 0..Len(conn')
  BY DEF TypeOK, Kept
<1>2. entry \in [Peers -> T]
  BY <1>1 DEF TypeOK
<1>3. row \in T
  OBVIOUS
<1> HIDE DEF T
<1>4. entry' \in [Peers -> T]
  BY <1>2, <1>3
<1> QED
  BY <1>4 DEF EntryTypes, T

LEMMA EntryPut ==
    ASSUME TypeOK, Kept, NEW p \in Peers, NEW q \in Peers, NEW n \in 0..Len(conn'),
           entry' = [entry EXCEPT ![p][q] = n]
    PROVE  EntryTypes
<1> DEFINE row == [entry[p] EXCEPT ![q] = n]
<1>1. 0..Len(conn) \subseteq 0..Len(conn')
  BY DEF TypeOK, Kept
<1>2. entry[p] \in [Peers -> 0..Len(conn')]
  BY <1>1 DEF TypeOK
<1>3. row \in [Peers -> 0..Len(conn')]
  BY <1>2
<1>4. entry' = [entry EXCEPT ![p] = row]
  BY DEF TypeOK
<1> HIDE DEF row
<1> QED
  BY <1>3, <1>4, EntryRow, Zenon

LEMMA ConnTypes ==
    ASSUME TypeOK, NEW c \in Conns
    PROVE  /\ conn[c] \in Connection
           /\ conn[c].owner \in Peers /\ conn[c].with \in Peers
           /\ c \in Nat /\ c # 0
<1>1. conn \in Seq(Connection)
  BY DEF TypeOK
<1>2. conn[c] \in Connection
  BY <1>1 DEF Conns
<1>3. Len(conn) \in Nat
  BY <1>1
<1> QED
  BY <1>2, <1>3 DEF Connection, Conns

(* Every action keeps the types and the identity of the connections.       *)
LEMMA TypeStep == TypeOK /\ [Next]_vars => TypeOK' /\ Kept
<1> SUFFICES ASSUME TypeOK, [Next]_vars PROVE TypeOK' /\ Kept
  OBVIOUS
<1> USE PeersAssumption, BoundAssumption
<1>k. ASSUME UNCHANGED conn PROVE Kept
  BY <1>k DEF Kept, TypeOK
<1>c. \A c \in Conns : /\ conn[c] \in Connection
                       /\ conn[c].owner \in Peers /\ conn[c].with \in Peers
                       /\ c \in Nat
  BY ConnTypes
<1>t. ASSUME FlatTypes, Kept, EntryTypes, inbox' \in [Peers -> Seq(Message)]
      PROVE  TypeOK'
  BY <1>t DEF FlatTypes, Kept, EntryTypes, TypeOK
<1>1. ASSUME NEW p \in Peers, NEW q \in Peers, Call(p, q) PROVE TypeOK' /\ Kept
  <2>1. Kept /\ Len(conn') = Len(conn) + 1 /\ entry' = [entry EXCEPT ![p][q] = Len(conn) + 1]
    BY <1>1, CreateKeeps DEF Call, Tasks
  <2>n. Len(conn) + 1 \in 0..Len(conn')
    BY <2>1 DEF TypeOK
  <2>2. EntryTypes
    BY <2>1, <2>n, EntryPut
  <2>3. FlatTypes /\ inbox' \in [Peers -> Seq(Message)]
    BY <1>1 DEF Call, FlatTypes, hubVars, TypeOK
  <2> QED
    BY <1>t, <2>1, <2>2, <2>3
<1>2. ASSUME NEW c \in Conns, Offered(c) PROVE TypeOK' /\ Kept
  <2> DEFINE r == [conn[c] EXCEPT !.sig = "have-local-offer", !.task = "none"]
  <2>1. r \in Connection /\ r.owner = conn[c].owner /\ r.with = conn[c].with /\ r.sdp = conn[c].sdp
    BY <1>c DEF Connection, Signaling, Tasks
  <2>2. conn' = [conn EXCEPT ![c] = r]
    BY <1>2 DEF Offered
  <2>3. Kept
    <3> HIDE DEF r
    <3> QED BY <2>1, <2>2, AmendKeeps
  <2>4. inbox' \in [Peers -> Seq(Message)]
    BY <1>2, <1>c, SendTypes DEF Offered, Kinds
  <2>5. FlatTypes /\ entry' = entry
    BY <1>2 DEF Offered, FlatTypes, TypeOK
  <2> QED
    BY <1>t, <2>3, <2>4, <2>5, EntryFrame
<1>3. ASSUME NEW c \in Conns, Accepted(c) PROVE TypeOK' /\ Kept
  <2> DEFINE r == [conn[c] EXCEPT !.sig = "have-remote-offer", !.task = "answer", !.desc = conn[c].sdp]
  <2>1. r \in Connection /\ r.owner = conn[c].owner /\ r.with = conn[c].with /\ r.sdp = conn[c].sdp
    BY <1>c DEF Connection, Signaling, Tasks
  <2>2. conn' = [conn EXCEPT ![c] = r]
    BY <1>3 DEF Accepted
  <2>3. Kept
    <3> HIDE DEF r
    <3> QED BY <2>1, <2>2, AmendKeeps
  <2>4. badge' \in [Peers -> SUBSET Peers]
    BY <1>3, <1>c DEF Accepted, OnTrack, TypeOK
  <2>5. FlatTypes /\ entry' = entry /\ inbox' \in [Peers -> Seq(Message)]
    BY <1>3, <2>4 DEF Accepted, FlatTypes, TypeOK, hubVars
  <2> QED
    BY <1>t, <2>3, <2>5, EntryFrame
<1>4. ASSUME NEW c \in Conns, Answered(c) PROVE TypeOK' /\ Kept
  <2> DEFINE r == [conn[c] EXCEPT !.sig = "stable", !.task = "none"]
  <2>1. r \in Connection /\ r.owner = conn[c].owner /\ r.with = conn[c].with /\ r.sdp = conn[c].sdp
    BY <1>c DEF Connection, Signaling, Tasks
  <2>2. conn' = [conn EXCEPT ![c] = r]
    BY <1>4 DEF Answered
  <2>3. Kept
    <3> HIDE DEF r
    <3> QED BY <2>1, <2>2, AmendKeeps
  <2>4. inbox' \in [Peers -> Seq(Message)]
    BY <1>4, <1>c, SendTypes DEF Answered, Kinds
  <2>5. FlatTypes /\ entry' = entry
    BY <1>4 DEF Answered, FlatTypes, TypeOK
  <2> QED
    BY <1>t, <2>3, <2>4, <2>5, EntryFrame
<1>5. ASSUME NEW c \in Conns, Gather(c) PROVE TypeOK' /\ Kept
  <2> DEFINE r == [conn[c] EXCEPT !.gathered = TRUE]
  <2>1. r \in Connection /\ r.owner = conn[c].owner /\ r.with = conn[c].with /\ r.sdp = conn[c].sdp
    BY <1>c DEF Connection
  <2>2. conn' = [conn EXCEPT ![c] = r]
    BY <1>5 DEF Gather
  <2>3. Kept
    <3> HIDE DEF r
    <3> QED BY <2>1, <2>2, AmendKeeps
  <2>4. inbox' \in [Peers -> Seq(Message)]
    BY <1>5, <1>c, SendTypes DEF Gather, Kinds
  <2>5. FlatTypes /\ entry' = entry
    BY <1>5 DEF Gather, FlatTypes, TypeOK
  <2> QED
    BY <1>t, <2>3, <2>4, <2>5, EntryFrame
<1>6. ASSUME NEW p \in Peers, OfferReceived(p) PROVE TypeOK' /\ Kept
  <2>1. inbox' \in [Peers -> Seq(Message)] /\ From(p) \in Peers /\ Sdp(p) \in Nat
    BY <1>6, ArriveTypes DEF OfferReceived
  <2>2. /\ Kept /\ Len(conn') = Len(conn) + 1
        /\ entry' = [entry EXCEPT ![p][From(p)] = Len(conn) + 1]
    BY <1>6, <2>1, CreateKeeps DEF OfferReceived, Tasks
  <2>n. Len(conn) + 1 \in 0..Len(conn')
    BY <2>2 DEF TypeOK
  <2>3. EntryTypes
    BY <2>1, <2>2, <2>n, EntryPut
  <2>4. FlatTypes
    BY <1>6 DEF OfferReceived, FlatTypes, TypeOK
  <2> QED
    BY <1>t, <2>1, <2>2, <2>3, <2>4
<1>7. ASSUME NEW p \in Peers, AnswerReceived(p) PROVE TypeOK' /\ Kept
  <2>1. inbox' \in [Peers -> Seq(Message)] /\ From(p) \in Peers /\ Sdp(p) \in Nat
    BY <1>7, ArriveTypes DEF AnswerReceived
  <2> DEFINE c == entry[p][From(p)]
  <2>2. c \in 0..Len(conn)
    BY <2>1 DEF TypeOK
  <2>3. Kept /\ badge' \in [Peers -> SUBSET Peers]
    <3>1. CASE c # 0 /\ conn[c].sig = "have-local-offer"
      <4> DEFINE r == [conn[c] EXCEPT !.sig = "stable", !.desc = Sdp(p)]
      <4>1. c \in Conns
        BY <3>1, <2>2 DEF Conns, TypeOK
      <4>2. r \in Connection /\ r.owner = conn[c].owner /\ r.with = conn[c].with /\ r.sdp = conn[c].sdp
        BY <4>1, <1>c, <2>1 DEF Connection, Signaling
      <4>3. conn' = [conn EXCEPT ![c] = r] /\ OnTrack(c)
        BY <1>7, <3>1 DEF AnswerReceived
      <4>4. badge' \in [Peers -> SUBSET Peers]
        BY <4>1, <4>3, <1>c DEF OnTrack, TypeOK
      <4>5. Kept
        <5> HIDE DEF r, c
        <5> QED BY <4>1, <4>2, <4>3, AmendKeeps
      <4> QED
        BY <4>4, <4>5
    <3>2. CASE ~(c # 0 /\ conn[c].sig = "have-local-offer")
      BY <3>2, <1>7, <1>k DEF AnswerReceived, TypeOK
    <3> QED
      BY <3>1, <3>2
  <2>4. FlatTypes /\ entry' = entry
    BY <1>7, <2>3 DEF AnswerReceived, FlatTypes, TypeOK
  <2> QED
    BY <1>t, <2>1, <2>3, <2>4, EntryFrame
<1>8. ASSUME NEW p \in Peers, IceReceived(p) PROVE TypeOK' /\ Kept
  <2>1. inbox' \in [Peers -> Seq(Message)] /\ From(p) \in Peers /\ Sdp(p) \in Nat
    BY <1>8, ArriveTypes DEF IceReceived
  <2> DEFINE c == entry[p][From(p)]
  <2>2. c \in 0..Len(conn)
    BY <2>1 DEF TypeOK
  <2>3. Kept
    <3>1. CASE c # 0 /\ TakesCandidates(c)
      <4> DEFINE r == [conn[c] EXCEPT !.cands = conn[c].cands \cup {Sdp(p)}]
      <4>1. c \in Conns
        BY <3>1, <2>2 DEF Conns, TypeOK
      <4>2. r \in Connection /\ r.owner = conn[c].owner /\ r.with = conn[c].with /\ r.sdp = conn[c].sdp
        BY <4>1, <1>c, <2>1 DEF Connection
      <4>3. conn' = [conn EXCEPT ![c] = r]
        BY <1>8, <3>1 DEF IceReceived
      <4> HIDE DEF r, c
      <4> QED
        BY <4>1, <4>2, <4>3, AmendKeeps
    <3>2. CASE ~(c # 0 /\ TakesCandidates(c))
      BY <3>2, <1>8, <1>k DEF IceReceived
    <3> QED
      BY <3>1, <3>2
  <2>4. FlatTypes /\ entry' = entry
    BY <1>8 DEF IceReceived, FlatTypes, TypeOK
  <2> QED
    BY <1>t, <2>1, <2>3, <2>4, EntryFrame
<1>9. ASSUME NEW p \in Peers, PeerLeftReceived(p) PROVE TypeOK' /\ Kept
  <2>1. inbox' \in [Peers -> Seq(Message)] /\ From(p) \in Peers
    BY <1>9, ArriveTypes DEF PeerLeftReceived
  <2>2. Kept /\ Len(conn') = Len(conn)
    BY <1>9, CloseKeeps DEF PeerLeftReceived
  <2>3. EntryTypes
    <3>1. 0 \in 0..Len(conn')
      BY <2>2 DEF TypeOK
    <3> QED
      BY <1>9, <2>1, <2>2, <3>1, EntryPut DEF PeerLeftReceived
  <2>4. FlatTypes
    BY <1>9, <2>1 DEF PeerLeftReceived, FlatTypes, TypeOK
  <2> QED
    BY <1>t, <2>1, <2>2, <2>3, <2>4
<1>10. ASSUME NEW p \in Peers, Leave(p) PROVE TypeOK' /\ Kept
  <2>1. Kept /\ Len(conn') = Len(conn)
    BY <1>10, CloseKeeps DEF Leave
  <2>2. EntryTypes
    <3>1. [q \in Peers |-> 0] \in [Peers -> 0..Len(conn')]
      BY <2>1 DEF TypeOK
    <3>2. entry' = [entry EXCEPT ![p] = [q \in Peers |-> 0]]
      BY <1>10 DEF Leave
    <3> QED
      BY <2>1, <3>1, <3>2, EntryRow, Zenon
  <2>3. FlatTypes /\ inbox' \in [Peers -> Seq(Message)]
    BY <1>10 DEF Leave, FlatTypes, TypeOK
  <2> QED
    BY <1>t, <2>1, <2>2, <2>3
<1>11. ASSUME NEW p \in Peers, LinkLost(p) PROVE TypeOK' /\ Kept
  <2>1. FlatTypes /\ inbox' \in [Peers -> Seq(Message)] /\ entry' = entry /\ conn' = conn
    BY <1>11 DEF LinkLost, FlatTypes, tabVars, TypeOK
  <2> QED
    BY <1>t, <1>k, <2>1, EntryFrame
<1>12. ASSUME NEW p \in Peers, OnDisconnected(p) PROVE TypeOK' /\ Kept
  <2> DEFINE m == [kind |-> "PeerLeft", from |-> p, sdp |-> 0]
  <2>1. \A q \in Peers : inbox[q] \in Seq(Message) /\ Append(inbox[q], m) \in Seq(Message)
    <3>1. m \in Message
      BY DEF Message, Kinds
    <3> HIDE DEF m
    <3> QED
      BY <3>1 DEF TypeOK
  <2>2. inbox' \in [Peers -> Seq(Message)]
    BY <1>12, <2>1 DEF OnDisconnected
  <2>3. FlatTypes /\ entry' = entry /\ conn' = conn
    BY <1>12 DEF OnDisconnected, FlatTypes, tabVars, TypeOK
  <2> QED
    BY <1>t, <1>k, <2>2, <2>3, EntryFrame
<1>13. ASSUME NEW c \in Conns, Connects(c) PROVE TypeOK' /\ Kept
  <2> DEFINE r == [conn[c] EXCEPT !.ice = "connected"]
  <2>1. r \in Connection /\ r.owner = conn[c].owner /\ r.with = conn[c].with /\ r.sdp = conn[c].sdp
    BY <1>c DEF Connection
  <2>2. conn' = [conn EXCEPT ![c] = r]
    BY <1>13 DEF Connects
  <2>3. Kept
    <3> HIDE DEF r
    <3> QED BY <2>1, <2>2, AmendKeeps
  <2>4. FlatTypes /\ entry' = entry /\ inbox' \in [Peers -> Seq(Message)]
    BY <1>13, <1>c DEF Connects, FlatTypes, hubVars, TypeOK
  <2> QED
    BY <1>t, <2>3, <2>4, EntryFrame
<1>14. ASSUME NEW c \in Conns, Fails(c) PROVE TypeOK' /\ Kept
  <2> DEFINE r == [conn[c] EXCEPT !.ice = "failed"]
  <2>1. r \in Connection /\ r.owner = conn[c].owner /\ r.with = conn[c].with /\ r.sdp = conn[c].sdp
    BY <1>c DEF Connection
  <2>2. conn' = [conn EXCEPT ![c] = r]
    BY <1>14 DEF Fails
  <2>3. Kept
    <3> HIDE DEF r
    <3> QED BY <2>1, <2>2, AmendKeeps
  <2>4. FlatTypes /\ entry' = entry /\ inbox' \in [Peers -> Seq(Message)]
    BY <1>14, <1>c DEF Fails, FlatTypes, hubVars, TypeOK
  <2> QED
    BY <1>t, <2>3, <2>4, EntryFrame
<1>15. CASE UNCHANGED vars
  BY <1>15, <1>k DEF vars, hubVars, tabVars, TypeOK
<1> QED
  BY <1>1, <1>2, <1>3, <1>4, <1>5, <1>6, <1>7, <1>8, <1>9, <1>10, <1>11, <1>12, <1>13, <1>14, <1>15
     DEF Next, Work, Receive, ConnStep

-----------------------------------------------------------------------------
(* What a step may do to the messages on their way to one peer.            *)

Untouched(q) == inbox'[q] = inbox[q] /\ gone'[q] = gone[q]
Emptied(q) == inbox'[q] = <<>> /\ gone'[q] = gone[q]

Handled(q) ==
    /\ inbox[q] # <<>>
    /\ inbox'[q] = Tail(inbox[q])
    /\ \/ gone'[q] = gone[q]
       \/ /\ Head(inbox[q]).kind = "PeerLeft"
          /\ gone'[q] = gone[q] \cup {Head(inbox[q]).from}

Posted(q, c, kind) ==
    /\ kind # "PeerLeft"
    /\ conn[c].with = q /\ conn[c].owner \in peers
    /\ kind = "Offer" => conn[c].task = "offer" /\ conn'[c].task = "none"
    /\ inbox'[q] = Append(inbox[q], [kind |-> kind, from |-> conn[c].owner, sdp |-> c])
    /\ gone'[q] = gone[q]

Informed(q, p) ==
    /\ p \in peers /\ p \notin peers'
    /\ inbox'[q] = Append(inbox[q], [kind |-> "PeerLeft", from |-> p, sdp |-> 0])
    /\ gone'[q] = gone[q]

InboxEffect(q) ==
    \/ Untouched(q) \/ Emptied(q) \/ Handled(q)
    \/ \E c \in Conns : \E kind \in Kinds : Posted(q, c, kind)
    \/ \E p \in Peers : Informed(q, p)

(* SendTo on behalf of a connection.                                       *)
LEMMA SendEffect ==
    ASSUME TypeOK, NEW c \in Conns, NEW kind \in Kinds, kind # "PeerLeft",
           SendTo(conn[c].owner, kind, conn[c].with, c), UNCHANGED gone,
           kind = "Offer" => conn[c].task = "offer" /\ conn'[c].task = "none",
           NEW q \in Peers
    PROVE  Untouched(q) \/ Posted(q, c, kind)
<1>1. conn[c].owner \in Peers /\ conn[c].with \in Peers
  BY ConnTypes
<1>2. DOMAIN inbox = Peers
  BY DEF TypeOK
<1> QED
  BY <1>1, <1>2 DEF SendTo, Known, Untouched, Posted

LEMMA InboxStep ==
    ASSUME TypeOK, [Next]_vars
    PROVE  peers' \subseteq peers /\ \A q \in Peers : InboxEffect(q)
<1>d. DOMAIN inbox = Peers /\ DOMAIN gone = Peers
  BY DEF TypeOK
<1>1. ASSUME UNCHANGED <<inbox, gone>> PROVE \A q \in Peers : InboxEffect(q)
  BY <1>1 DEF InboxEffect, Untouched
<1>2. ASSUME NEW c \in Conns, NEW kind \in Kinds, kind # "PeerLeft",
             SendTo(conn[c].owner, kind, conn[c].with, c), UNCHANGED gone,
             kind = "Offer" => conn[c].task = "offer" /\ conn'[c].task = "none"
      PROVE  \A q \in Peers : InboxEffect(q)
  BY <1>2, SendEffect DEF InboxEffect
<1>3. ASSUME NEW p \in Peers, NEW kind, Arrives(p, kind), UNCHANGED gone
      PROVE  \A q \in Peers : InboxEffect(q)
  BY <1>3, <1>d DEF Arrives, InboxEffect, Untouched, Handled
<1>4. ASSUME NEW p \in Peers, NEW q \in Peers, Call(p, q)
      PROVE  peers' \subseteq peers /\ \A o \in Peers : InboxEffect(o)
  BY <1>4, <1>1 DEF Call, hubVars
<1>5. ASSUME NEW c \in Conns, Offered(c) \/ Answered(c) \/ Gather(c)
      PROVE  peers' \subseteq peers /\ \A o \in Peers : InboxEffect(o)
  <2>1. CASE Offered(c)
    <3>1. conn[c].task = "offer" /\ conn'[c].task = "none"
      BY <2>1, ConnTypes DEF Offered, TypeOK, Conns, Connection
    <3> QED
      BY <2>1, <3>1, <1>2 DEF Offered, Kinds
  <2>2. CASE Answered(c) \/ Gather(c)
    BY <2>2, <1>2 DEF Answered, Gather, Kinds
  <2> QED
    BY <1>5, <2>1, <2>2
<1>6. ASSUME NEW c \in Conns, Accepted(c) \/ Connects(c) \/ Fails(c)
      PROVE  peers' \subseteq peers /\ \A o \in Peers : InboxEffect(o)
  BY <1>6, <1>1 DEF Accepted, Connects, Fails, hubVars
<1>7. ASSUME NEW p \in Peers, OfferReceived(p) \/ AnswerReceived(p) \/ IceReceived(p)
      PROVE  peers' \subseteq peers /\ \A o \in Peers : InboxEffect(o)
  BY <1>7, <1>3 DEF OfferReceived, AnswerReceived, IceReceived
<1>8. ASSUME NEW p \in Peers, PeerLeftReceived(p)
      PROVE  peers' \subseteq peers /\ \A o \in Peers : InboxEffect(o)
  <2>1. Handled(p)
    BY <1>8, <1>d DEF PeerLeftReceived, Arrives, From, Handled
  <2>2. \A o \in Peers \ {p} : Untouched(o)
    BY <1>8, <1>d DEF PeerLeftReceived, Arrives, Untouched
  <2> QED
    BY <1>8, <2>1, <2>2 DEF PeerLeftReceived, InboxEffect
<1>9. ASSUME NEW p \in Peers, Leave(p) \/ LinkLost(p)
      PROVE  peers' \subseteq peers /\ \A o \in Peers : InboxEffect(o)
  BY <1>9, <1>d DEF Leave, LinkLost, InboxEffect, Untouched, Emptied
<1>10. ASSUME NEW p \in Peers, OnDisconnected(p)
       PROVE  peers' \subseteq peers /\ \A o \in Peers : InboxEffect(o)
  <2>1. p \in peers /\ peers' = peers \ {p} /\ gone' = gone
    BY <1>10 DEF OnDisconnected
  <2>2. \A o \in Peers : inbox'[o] \in
          {inbox[o], Append(inbox[o], [kind |-> "PeerLeft", from |-> p, sdp |-> 0])}
    BY <1>10 DEF OnDisconnected
  <2>3. \A o \in Peers : Untouched(o) \/ Informed(o, p)
    BY <2>1, <2>2 DEF Untouched, Informed
  <2> QED
    BY <2>1, <2>3 DEF InboxEffect
<1>11. CASE UNCHANGED vars
  BY <1>11, <1>1 DEF vars, hubVars
<1> QED
  BY <1>4, <1>5, <1>6, <1>7, <1>8, <1>9, <1>10, <1>11 DEF Next, Work, Receive, ConnStep

-----------------------------------------------------------------------------
(* The messages on their way.                                              *)
LEMMA MailStep ==
    ASSUME TypeOK, MailInv, [Next]_vars
    PROVE  MailInv'
<1> SUFFICES ASSUME NEW q \in Peers PROVE MailOf(q)'
  BY DEF MailInv
<1>1. MailOf(q) /\ Kept /\ TypeOK'
  BY TypeStep DEF MailInv
<1>2. peers' \subseteq peers /\ InboxEffect(q)
  BY InboxStep
<1>3. inbox[q] \in Seq(Message)
  BY DEF TypeOK
<1>4. \A c \in Conns : /\ c \in Conns'
                       /\ conn'[c].owner = conn[c].owner /\ conn'[c].with = conn[c].with
  BY <1>1 DEF Kept, Conns, TypeOK
<1>5. CASE Untouched(q)
  BY <1>1, <1>2, <1>4, <1>5 DEF Untouched, MailOf
<1>6. CASE Emptied(q)
  BY <1>6 DEF Emptied, MailOf
<1>7. CASE Handled(q)
  <2>1. inbox'[q] = Tail(inbox[q]) /\ inbox[q] # <<>>
    BY <1>7 DEF Handled
  <2>2. /\ Len(Tail(inbox[q])) = Len(inbox[q]) - 1
        /\ \A i \in 1..Len(inbox'[q]) : i + 1 \in 1..Len(inbox[q]) /\ inbox'[q][i] = inbox[q][i + 1]
    BY <1>3, <2>1, Taken
  <2> SUFFICES ASSUME NEW i \in 1..Len(inbox'[q])
               PROVE  LET m == inbox'[q][i] IN
                      /\ m.sdp # 0 => /\ m.sdp \in Conns'
                                      /\ conn'[m.sdp].owner = m.from /\ conn'[m.sdp].with = q
                      /\ m.kind = "PeerLeft" => m.from \notin peers'
                      /\ m.kind = "PeerLeft" =>
                            \A j \in (i + 1)..Len(inbox'[q]) : inbox'[q][j].from # m.from
    BY DEF MailOf
  <2>3. Len(inbox[q]) \in Nat /\ Len(inbox'[q]) = Len(inbox[q]) - 1
    BY <1>3, <2>1, <2>2
  <2>4. \A j \in (i + 1)..Len(inbox'[q]) : /\ j + 1 \in ((i + 1) + 1)..Len(inbox[q])
                                          /\ inbox'[q][j] = inbox[q][j + 1]
    BY <2>2, <2>3
  <2> DEFINE n == inbox[q][i + 1]
  <2>5. /\ n.sdp # 0 => /\ n.sdp \in Conns
                        /\ conn[n.sdp].owner = n.from /\ conn[n.sdp].with = q
        /\ n.kind = "PeerLeft" => n.from \notin peers
        /\ n.kind = "PeerLeft" => \A j \in ((i + 1) + 1)..Len(inbox[q]) : inbox[q][j].from # n.from
    BY <1>1, <2>2 DEF MailOf
  <2>6. inbox'[q][i] = n
    BY <2>2
  <2> HIDE DEF n
  <2>7. n.kind = "PeerLeft" => \A j \in (i + 1)..Len(inbox'[q]) : inbox'[q][j].from # n.from
    BY <2>4, <2>5
  <2> QED
    BY <1>2, <1>4, <2>5, <2>6, <2>7
<1>8. ASSUME NEW c \in Conns, NEW kind \in Kinds, Posted(q, c, kind) PROVE MailOf(q)'
  <2> DEFINE m == [kind |-> kind, from |-> conn[c].owner, sdp |-> c]
  <2>1. m \in Message
    BY ConnTypes DEF Message
  <2>2. /\ m.sdp \in Conns /\ conn[m.sdp].owner = m.from /\ conn[m.sdp].with = q
        /\ m.kind # "PeerLeft" /\ m.from \in peers
        /\ inbox'[q] = Append(inbox[q], m)
    BY <1>8 DEF Posted
  <2> HIDE DEF m
  <2>3. /\ Len(inbox'[q]) = Len(inbox[q]) + 1
        /\ inbox'[q][Len(inbox[q]) + 1] = m
        /\ \A i \in 1..Len(inbox[q]) : inbox'[q][i] = inbox[q][i]
    BY <1>3, <2>1, <2>2, Extended
  <2>4. Len(inbox[q]) \in Nat
    BY <1>3
  <2> QED
    BY <1>1, <1>2, <1>4, <2>2, <2>3, <2>4 DEF MailOf
<1>9. ASSUME NEW p \in Peers, Informed(q, p) PROVE MailOf(q)'
  <2> DEFINE m == [kind |-> "PeerLeft", from |-> p, sdp |-> 0]
  <2>1. m \in Message
    BY DEF Message, Kinds
  <2>2. /\ m.sdp = 0 /\ m.from = p /\ p \in peers /\ p \notin peers'
        /\ inbox'[q] = Append(inbox[q], m)
    BY <1>9 DEF Informed
  <2> HIDE DEF m
  <2>3. /\ Len(inbox'[q]) = Len(inbox[q]) + 1
        /\ inbox'[q][Len(inbox[q]) + 1] = m
        /\ \A i \in 1..Len(inbox[q]) : inbox'[q][i] = inbox[q][i]
    BY <1>3, <2>1, <2>2, Extended
  <2>4. Len(inbox[q]) \in Nat
    BY <1>3
  <2> QED
    BY <1>1, <1>2, <1>4, <2>2, <2>3, <2>4 DEF MailOf
<1> QED
  BY <1>2, <1>5, <1>6, <1>7, <1>8, <1>9 DEF InboxEffect

(* Who has gone.                                                           *)
LEMMA GoneStep ==
    ASSUME TypeOK, MailInv, GoneInv, [Next]_vars
    PROVE  GoneInv'
<1> SUFFICES ASSUME NEW p \in Peers PROVE GoneOf(p)'
  BY DEF GoneInv
<1>1. GoneOf(p) /\ MailOf(p)
  BY DEF GoneInv, MailInv
<1>2. peers' \subseteq peers /\ InboxEffect(p)
  BY InboxStep
<1>3. inbox[p] \in Seq(Message) /\ Len(inbox[p]) \in Nat
  BY DEF TypeOK
<1>4. CASE Untouched(p)
  BY <1>1, <1>2, <1>4 DEF Untouched, GoneOf
<1>5. CASE Emptied(p)
  BY <1>1, <1>2, <1>5 DEF Emptied, GoneOf
<1>6. CASE Handled(p)
  <2>1. inbox'[p] = Tail(inbox[p]) /\ inbox[p] # <<>>
    BY <1>6 DEF Handled
  <2>2. /\ Head(inbox[p]) = inbox[p][1] /\ 1 \in 1..Len(inbox[p])
        /\ Len(inbox'[p]) = Len(inbox[p]) - 1
        /\ \A i \in 1..Len(inbox'[p]) : i + 1 \in 1..Len(inbox[p]) /\ inbox'[p][i] = inbox[p][i + 1]
    BY <1>3, <2>1, Taken
  <2>3. \A i \in 1..Len(inbox'[p]) : i + 1 \in 2..Len(inbox[p])
    BY <1>3, <2>2
  <2>4. CASE gone'[p] = gone[p]
    BY <1>1, <1>2, <2>2, <2>4 DEF GoneOf
  <2>5. CASE /\ Head(inbox[p]).kind = "PeerLeft"
             /\ gone'[p] = gone[p] \cup {Head(inbox[p]).from}
    <3> DEFINE q == inbox[p][1].from
    <3>1. q \notin peers /\ \A j \in (1 + 1)..Len(inbox[p]) : inbox[p][j].from # q
      BY <1>1, <2>2, <2>5 DEF MailOf
    <3>2. \A i \in 1..Len(inbox'[p]) : inbox'[p][i].from # q
      BY <2>2, <2>3, <3>1
    <3> QED
      BY <1>1, <1>2, <2>2, <2>5, <3>1, <3>2 DEF GoneOf
  <2> QED
    BY <1>6, <2>4, <2>5 DEF Handled
<1>7. ASSUME NEW m \in Message, inbox'[p] = Append(inbox[p], m), m.from \in peers, gone'[p] = gone[p]
      PROVE  GoneOf(p)'
  <2>1. /\ Len(inbox'[p]) = Len(inbox[p]) + 1
        /\ inbox'[p][Len(inbox[p]) + 1] = m
        /\ \A i \in 1..Len(inbox[p]) : inbox'[p][i] = inbox[p][i]
    BY <1>3, <1>7, Extended
  <2> QED
    BY <1>1, <1>2, <1>3, <1>7, <2>1 DEF GoneOf
<1>8. ASSUME NEW c \in Conns, NEW kind \in Kinds, Posted(p, c, kind) PROVE GoneOf(p)'
  BY <1>7, <1>8, ConnTypes DEF Posted, Message
<1>9. ASSUME NEW q \in Peers, Informed(p, q) PROVE GoneOf(p)'
  BY <1>7, <1>9 DEF Informed, Message, Kinds
<1> QED
  BY <1>2, <1>4, <1>5, <1>6, <1>8, <1>9 DEF InboxEffect

-----------------------------------------------------------------------------
(* The map of connections.                                                 *)

(* What a step may do to the entries: some are cleared, or a new           *)
(* connection is entered for a peer that has not gone.                     *)
Entered(p, q) ==
    LET n == Len(conn) + 1 IN
    /\ Len(conn') = n
    /\ conn'[n].owner = p /\ conn'[n].with = q /\ conn'[n].desc = 0
    /\ conn'[n].sdp # 0 => /\ conn'[n].sdp \in Conns
                           /\ conn[conn'[n].sdp].owner = q
                           /\ conn[conn'[n].sdp].with = p
    /\ \A c \in Conns : conn'[c] = conn[c]
    /\ entry' = [entry EXCEPT ![p][q] = n]
    /\ q \notin gone[p] /\ gone' = gone

Cleared ==
    \A p, q \in Peers :
        /\ entry'[p][q] \in {entry[p][q], 0}
        /\ q \in gone'[p] \ gone[p] => entry'[p][q] = 0

LEMMA CallEnters ==
    ASSUME TypeOK, NEW p \in Peers, NEW q \in Peers, Call(p, q)
    PROVE  Entered(p, q)
<1>1. CreatePeerConnection(p, q, "offer", 0) /\ q \notin gone[p] /\ gone' = gone
  BY DEF Call
<1> QED
  BY <1>1, CreateKeeps DEF Entered, Tasks

LEMMA OfferEnters ==
    ASSUME TypeOK, MailInv, GoneInv, NEW p \in Peers, OfferReceived(p)
    PROVE  \E q \in Peers : Entered(p, q)
<1>1. /\ From(p) \in Peers /\ Sdp(p) \in Nat
      /\ Head(inbox[p]) = inbox[p][1]
  BY ArriveTypes DEF OfferReceived
<1>2. CreatePeerConnection(p, From(p), "accept", Sdp(p)) /\ gone' = gone
  BY DEF OfferReceived
<1>3. 1 \in 1..Len(inbox[p])
  BY Taken DEF OfferReceived, Arrives, TypeOK
<1>4. From(p) \notin gone[p]
  BY <1>1, <1>3 DEF GoneInv, GoneOf, From
<1>5. Sdp(p) # 0 => /\ Sdp(p) \in Conns
                    /\ conn[Sdp(p)].owner = From(p) /\ conn[Sdp(p)].with = p
  BY <1>1, <1>3 DEF MailInv, MailOf, From, Sdp
<1> QED
  BY <1>1, <1>2, <1>4, <1>5, CreateKeeps DEF Entered, Tasks

LEMMA EntryEffect ==
    ASSUME TypeOK, MailInv, GoneInv, [Next]_vars
    PROVE  Cleared \/ \E p, q \in Peers : Entered(p, q)
<1>1. ASSUME UNCHANGED <<entry, gone>> PROVE Cleared
  BY <1>1 DEF Cleared
<1>4. ASSUME NEW p \in Peers, PeerLeftReceived(p) PROVE Cleared
  <2>1. /\ From(p) \in Peers
        /\ entry' = [entry EXCEPT ![p][From(p)] = 0]
        /\ gone' = [gone EXCEPT ![p] = gone[p] \cup {From(p)}]
    BY <1>4, ArriveTypes DEF PeerLeftReceived
  <2> QED
    BY <2>1 DEF Cleared, TypeOK
<1>5. ASSUME NEW p \in Peers, Leave(p) PROVE Cleared
  BY <1>5 DEF Leave, Cleared, TypeOK
<1>6. ASSUME NEW p \in Peers, AnswerReceived(p) \/ IceReceived(p) \/ LinkLost(p) \/ OnDisconnected(p)
      PROVE  Cleared
  BY <1>6, <1>1 DEF AnswerReceived, IceReceived, LinkLost, OnDisconnected, tabVars
<1>7. ASSUME NEW c \in Conns, ConnStep(c) PROVE Cleared
  BY <1>7, <1>1 DEF ConnStep, Offered, Accepted, Answered, Gather, Connects, Fails
<1>8. CASE UNCHANGED vars
  BY <1>8, <1>1 DEF vars, tabVars
<1> QED
  BY CallEnters, OfferEnters, <1>4, <1>5, <1>6, <1>7, <1>8 DEF Next, Work, Receive

LEMMA EntryStep ==
    ASSUME TypeOK, MailInv, GoneInv, EntryInv, GoneForGood, [Next]_vars
    PROVE  EntryInv' /\ GoneForGood'
<1>1. Kept /\ TypeOK'
  BY TypeStep
<1>2. \A p, q \in Peers : entry[p][q] # 0 => entry[p][q] \in Conns
  BY DEF TypeOK, Conns
<1>3. \A c \in Conns : conn'[c].owner = conn[c].owner /\ conn'[c].with = conn[c].with
  BY <1>1 DEF Kept
<1>4. CASE Cleared
  <2>1. EntryInv'
    BY <1>2, <1>3, <1>4 DEF Cleared, EntryInv
  <2>2. \A p \in Peers : gone'[p] \subseteq Peers
    BY <1>1 DEF TypeOK
  <2>3. GoneForGood'
    BY <1>4, <2>2 DEF Cleared, GoneForGood
  <2> QED
    BY <2>1, <2>3
<1>5. ASSUME NEW p \in Peers, NEW q \in Peers, Entered(p, q)
      PROVE  EntryInv' /\ GoneForGood'
  <2>1. entry'[p][q] = Len(conn) + 1 /\ gone' = gone
    BY <1>5 DEF Entered, TypeOK
  <2>2. \A o, r \in Peers : o # p \/ r # q => entry'[o][r] = entry[o][r]
    BY <1>5 DEF Entered, TypeOK
  <2>3. EntryInv'
    BY <1>2, <1>3, <1>5, <2>1, <2>2 DEF EntryInv, Entered
  <2>4. GoneForGood'
    BY <1>5, <2>1, <2>2 DEF GoneForGood, Entered
  <2> QED
    BY <2>3, <2>4
<1> QED
  BY <1>4, <1>5, EntryEffect

-----------------------------------------------------------------------------
(* Descriptions.                                                           *)

(* A connection that knows a description: from whom it must come.          *)
Rightful(c, d) == d # 0 => /\ d \in Conns
                          /\ conn[d].owner = conn[c].with
                          /\ conn[d].with = conn[c].owner

(* Either nothing is learnt, or one connection sets a description that is  *)
(* its peer's.                                                             *)
Learnt(c) == /\ conn'[c].desc = conn[c].desc \/ Rightful(c, conn'[c].desc)
             /\ conn'[c].sdp = conn[c].sdp

Quiet == Len(conn') = Len(conn) /\ \A c \in Conns : Learnt(c)
New == \E p, q \in Peers : Entered(p, q)

LEMMA RightfulStep ==
    ASSUME TypeOK, RightPeer, EntryInv, MailInv, GoneInv, [Next]_vars
    PROVE  Quiet \/ New
<1>1. ASSUME UNCHANGED conn PROVE Quiet
  BY <1>1 DEF Quiet, Learnt
<1>2. ASSUME NEW cs, conn' = Closed(cs) PROVE Quiet
  BY <1>2, CloseKeeps DEF Quiet, Learnt, Kept
<1>3. ASSUME NEW c \in Conns, NEW r \in Connection, conn' = [conn EXCEPT ![c] = r],
             r.owner = conn[c].owner, r.with = conn[c].with, r.sdp = conn[c].sdp,
             r.desc = conn[c].desc \/ Rightful(c, r.desc)
      PROVE  Quiet
  BY <1>3, AmendKeeps DEF Quiet, Learnt, Kept
<1>c. \A c \in Conns : /\ conn[c] \in Connection
                       /\ conn[c].sdp \in Nat /\ conn[c].desc \in Nat
  BY ConnTypes DEF Connection
<1>5. ASSUME NEW c \in Conns, Offered(c) PROVE Quiet
  <2> DEFINE r == [conn[c] EXCEPT !.sig = "have-local-offer", !.task = "none"]
  <2>1. /\ r \in Connection /\ r.owner = conn[c].owner /\ r.with = conn[c].with
        /\ r.sdp = conn[c].sdp /\ r.desc = conn[c].desc
    BY <1>c DEF Connection, Signaling, Tasks
  <2>2. conn' = [conn EXCEPT ![c] = r]
    BY <1>5 DEF Offered
  <2> HIDE DEF r
  <2> QED
    BY <1>3, <2>1, <2>2
<1>6. ASSUME NEW c \in Conns, Accepted(c) PROVE Quiet
  <2> DEFINE r == [conn[c] EXCEPT !.sig = "have-remote-offer", !.task = "answer", !.desc = conn[c].sdp]
  <2>1. /\ r \in Connection /\ r.owner = conn[c].owner /\ r.with = conn[c].with
        /\ r.sdp = conn[c].sdp /\ r.desc = conn[c].sdp
    BY <1>c DEF Connection, Signaling, Tasks
  <2>2. Rightful(c, conn[c].sdp)
    BY DEF RightPeer, Rightful
  <2>3. conn' = [conn EXCEPT ![c] = r]
    BY <1>6 DEF Accepted
  <2> HIDE DEF r
  <2> QED
    BY <1>3, <2>1, <2>2, <2>3
<1>7. ASSUME NEW c \in Conns, Answered(c) PROVE Quiet
  <2> DEFINE r == [conn[c] EXCEPT !.sig = "stable", !.task = "none"]
  <2>1. /\ r \in Connection /\ r.owner = conn[c].owner /\ r.with = conn[c].with
        /\ r.sdp = conn[c].sdp /\ r.desc = conn[c].desc
    BY <1>c DEF Connection, Signaling, Tasks
  <2>2. conn' = [conn EXCEPT ![c] = r]
    BY <1>7 DEF Answered
  <2> HIDE DEF r
  <2> QED
    BY <1>3, <2>1, <2>2
<1>8. ASSUME NEW c \in Conns, Gather(c) PROVE Quiet
  <2> DEFINE r == [conn[c] EXCEPT !.gathered = TRUE]
  <2>1. /\ r \in Connection /\ r.owner = conn[c].owner /\ r.with = conn[c].with
        /\ r.sdp = conn[c].sdp /\ r.desc = conn[c].desc
    BY <1>c DEF Connection
  <2>2. conn' = [conn EXCEPT ![c] = r]
    BY <1>8 DEF Gather
  <2> HIDE DEF r
  <2> QED
    BY <1>3, <2>1, <2>2
<1>9. ASSUME NEW c \in Conns, Connects(c) PROVE Quiet
  <2> DEFINE r == [conn[c] EXCEPT !.ice = "connected"]
  <2>1. /\ r \in Connection /\ r.owner = conn[c].owner /\ r.with = conn[c].with
        /\ r.sdp = conn[c].sdp /\ r.desc = conn[c].desc
    BY <1>c DEF Connection
  <2>2. conn' = [conn EXCEPT ![c] = r]
    BY <1>9 DEF Connects
  <2> HIDE DEF r
  <2> QED
    BY <1>3, <2>1, <2>2
<1>10. ASSUME NEW c \in Conns, Fails(c) PROVE Quiet
  <2> DEFINE r == [conn[c] EXCEPT !.ice = "failed"]
  <2>1. /\ r \in Connection /\ r.owner = conn[c].owner /\ r.with = conn[c].with
        /\ r.sdp = conn[c].sdp /\ r.desc = conn[c].desc
    BY <1>c DEF Connection
  <2>2. conn' = [conn EXCEPT ![c] = r]
    BY <1>10 DEF Fails
  <2> HIDE DEF r
  <2> QED
    BY <1>3, <2>1, <2>2
<1>11. ASSUME NEW p \in Peers, AnswerReceived(p) PROVE Quiet
  <2> DEFINE c == entry[p][From(p)]
  <2>1. From(p) \in Peers /\ Sdp(p) \in Nat /\ Head(inbox[p]) = inbox[p][1]
    BY <1>11, ArriveTypes DEF AnswerReceived
  <2>2. 1 \in 1..Len(inbox[p])
    BY <1>11, Taken DEF AnswerReceived, Arrives, TypeOK
  <2>3. CASE c # 0 /\ conn[c].sig = "have-local-offer"
    <3> DEFINE r == [conn[c] EXCEPT !.sig = "stable", !.desc = Sdp(p)]
    <3>1. c \in Conns /\ conn[c].owner = p /\ conn[c].with = From(p)
      BY <2>1, <2>3 DEF EntryInv, Conns, TypeOK
    <3>2. /\ r \in Connection /\ r.owner = conn[c].owner /\ r.with = conn[c].with
          /\ r.sdp = conn[c].sdp /\ r.desc = Sdp(p)
      BY <3>1, <1>c, <2>1 DEF Connection, Signaling
    <3>3. Rightful(c, Sdp(p))
      BY <2>1, <2>2, <3>1 DEF MailInv, MailOf, Rightful, From, Sdp
    <3>4. conn' = [conn EXCEPT ![c] = r]
      BY <1>11, <2>3 DEF AnswerReceived
    <3> HIDE DEF r, c
    <3> QED
      BY <1>3, <3>1, <3>2, <3>3, <3>4
  <2>4. CASE ~(c # 0 /\ conn[c].sig = "have-local-offer")
    BY <1>1, <1>11, <2>4 DEF AnswerReceived
  <2> QED
    BY <2>3, <2>4
<1>12. ASSUME NEW p \in Peers, IceReceived(p) PROVE Quiet
  <2> DEFINE c == entry[p][From(p)]
  <2>1. From(p) \in Peers /\ Sdp(p) \in Nat
    BY <1>12, ArriveTypes DEF IceReceived
  <2>2. CASE c # 0 /\ TakesCandidates(c)
    <3> DEFINE r == [conn[c] EXCEPT !.cands = conn[c].cands \cup {Sdp(p)}]
    <3>1. c \in Conns
      BY <2>1, <2>2 DEF Conns, TypeOK
    <3>2. /\ r \in Connection /\ r.owner = conn[c].owner /\ r.with = conn[c].with
          /\ r.sdp = conn[c].sdp /\ r.desc = conn[c].desc
      BY <3>1, <1>c, <2>1 DEF Connection
    <3>3. conn' = [conn EXCEPT ![c] = r]
      BY <1>12, <2>2 DEF IceReceived
    <3> HIDE DEF r, c
    <3> QED
      BY <1>3, <3>1, <3>2, <3>3
  <2>3. CASE ~(c # 0 /\ TakesCandidates(c))
    BY <1>1, <1>12, <2>3 DEF IceReceived
  <2> QED
    BY <2>2, <2>3
<1>14. ASSUME NEW p \in Peers, PeerLeftReceived(p) \/ Leave(p) PROVE Quiet
  BY <1>2, <1>14 DEF PeerLeftReceived, Leave
<1>15. ASSUME NEW p \in Peers, LinkLost(p) \/ OnDisconnected(p) PROVE Quiet
  BY <1>1, <1>15 DEF LinkLost, OnDisconnected, tabVars
<1>16. CASE UNCHANGED vars
  BY <1>1, <1>16 DEF vars, tabVars
<1>17. ASSUME NEW c \in Conns, ConnStep(c) PROVE Quiet
  BY <1>17, <1>5, <1>6, <1>7, <1>8, <1>9, <1>10 DEF ConnStep
<1>18. ASSUME NEW p \in Peers, Receive(p) PROVE Quiet \/ New
  <2>1. CASE OfferReceived(p)
    BY <2>1, OfferEnters DEF New
  <2>2. CASE ~OfferReceived(p)
    BY <2>2, <1>18, <1>11, <1>12, <1>14 DEF Receive
  <2> QED
    BY <2>1, <2>2
<1>19. ASSUME NEW p \in Peers, NEW q \in Peers, Call(p, q) PROVE New
  BY <1>19, CallEnters DEF New
<1> QED
  BY <1>14, <1>15, <1>16, <1>17, <1>18, <1>19 DEF Next, Work

LEMMA RightPeerStep ==
    ASSUME TypeOK, RightPeer, EntryInv, MailInv, GoneInv, [Next]_vars
    PROVE  RightPeer'
<1>1. Kept
  BY TypeStep
<1>2. \A c \in Conns : /\ c \in Conns'
                       /\ conn'[c].owner = conn[c].owner /\ conn'[c].with = conn[c].with
                       /\ conn'[c].sdp = conn[c].sdp
  BY <1>1 DEF Kept, Conns, TypeOK
<1>3. \A c \in Conns : Rightful(c, conn[c].desc) /\ Rightful(c, conn[c].sdp)
  BY DEF RightPeer, Rightful
<1> SUFFICES \A c \in Conns' : Rightful(c, conn[c].desc)' /\ Rightful(c, conn[c].sdp)'
  BY DEF RightPeer, Rightful
<1>4. CASE Len(conn') = Len(conn) /\ \A c \in Conns : Learnt(c)
  <2>1. Conns' = Conns
    BY <1>4 DEF Conns
  <2> QED
    BY <1>2, <1>3, <1>4, <2>1 DEF Learnt, Rightful
<1>5. ASSUME NEW p \in Peers, NEW q \in Peers, Entered(p, q)
      PROVE  \A c \in Conns' : Rightful(c, conn[c].desc)' /\ Rightful(c, conn[c].sdp)'
  <2>1. Conns' = Conns \cup {Len(conn) + 1}
    BY <1>5 DEF Conns, Entered, TypeOK
  <2>2. \A c \in Conns : Rightful(c, conn[c].desc)' /\ Rightful(c, conn[c].sdp)'
    BY <1>2, <1>3, <1>5 DEF Entered, Rightful
  <2>3. ASSUME NEW c, c = Len(conn) + 1
        PROVE  Rightful(c, conn[c].desc)' /\ Rightful(c, conn[c].sdp)'
    BY <1>2, <1>5, <2>3 DEF Entered, Rightful
  <2> QED
    BY <2>1, <2>2, <2>3
<1> QED
  BY <1>4, <1>5, RightfulStep DEF Quiet, New

-----------------------------------------------------------------------------
(* How far a step may take a connection.                                   *)

Stays(c) == /\ conn'[c].sig = conn[c].sig /\ conn'[c].task = conn[c].task
            /\ conn'[c].ice = conn[c].ice

Calls(c) == /\ conn[c].task = "offer" /\ conn'[c].sig = "have-local-offer"
            /\ conn'[c].task = "none" /\ conn'[c].ice = conn[c].ice
Accepts(c) == /\ conn[c].task = "accept" /\ conn'[c].sig = "have-remote-offer"
              /\ conn'[c].task = "answer" /\ conn'[c].ice = conn[c].ice
Replies(c) == /\ conn[c].task = "answer" /\ conn'[c].sig = "stable"
              /\ conn'[c].task = "none" /\ conn'[c].ice = conn[c].ice
Settles(c) == /\ conn[c].sig = "have-local-offer" /\ conn'[c].sig = "stable"
              /\ conn'[c].task = conn[c].task /\ conn'[c].ice = conn[c].ice
Hangs(c) == /\ conn'[c].sig = "closed" /\ conn'[c].task = "none"
            /\ conn'[c].ice = conn[c].ice
            /\ badge'[conn[c].owner] = {} \/ conn[c].with \in gone'[conn[c].owner]
Joins(c) == /\ conn[c].sig = "stable" /\ conn'[c].sig = "stable"
            /\ conn'[c].task = conn[c].task /\ conn'[c].ice = "connected"
Breaks(c) == /\ conn[c].sig = "stable" /\ conn'[c].sig = "stable"
             /\ conn'[c].task = conn[c].task /\ conn'[c].ice = "failed"
             /\ conn[c].with \notin badge'[conn[c].owner]

Moves(c) ==
    \/ Stays(c) \/ Calls(c) \/ Accepts(c) \/ Replies(c) \/ Settles(c)
    \/ Hangs(c) \/ Joins(c) \/ Breaks(c)

(* Who is shown as connected after a step was shown before it, or is the   *)
(* other end of a connection that has just got this far.                   *)
Shows ==
    \A p \in Peers : \A q \in badge'[p] :
        \/ q \in badge[p]
        \/ \E c \in Conns : /\ conn[c].owner = p /\ conn[c].with = q
                            /\ Accepts(c) \/ Settles(c) \/ Joins(c)

Steady == Shows /\ \A c \in Conns : Moves(c)

(* Only one connection moves.                                              *)
LEMMA OneMoves ==
    ASSUME TypeOK, NEW c \in Conns, NEW r \in Connection,
           r.owner = conn[c].owner, r.with = conn[c].with, r.sdp = conn[c].sdp,
           conn' = [conn EXCEPT ![c] = r]
    PROVE  conn'[c] = r /\ \A d \in Conns : d # c => Stays(d)
BY AmendKeeps DEF Stays

(* What ontrack and a connection's state show.                             *)
LEMMA OneShows ==
    ASSUME TypeOK, NEW c \in Conns, Accepts(c) \/ Settles(c) \/ Joins(c),
           badge' = badge \/ badge' = [badge EXCEPT ![conn[c].owner] = @ \cup {conn[c].with}]
    PROVE  Shows
<1>1. conn[c].owner \in Peers /\ badge \in [Peers -> SUBSET Peers]
  BY ConnTypes DEF TypeOK
<1>2. \A p \in Peers : \A q \in badge'[p] :
          q \in badge[p] \/ (p = conn[c].owner /\ q = conn[c].with)
  BY <1>1
<1> QED
  BY <1>2 DEF Shows

LEMMA SteadyConn ==
    ASSUME TypeOK, NEW c \in Conns, ConnStep(c) PROVE Steady
<1>c. /\ conn[c] \in Connection /\ conn[c].owner \in Peers /\ conn[c].with \in Peers
      /\ conn[c].sdp \in Nat /\ conn[c].desc \in Nat
  BY ConnTypes DEF Connection
<1>s. ASSUME badge' = badge PROVE Shows
  BY <1>s DEF Shows
<1>1. CASE Offered(c)
  <2> DEFINE r == [conn[c] EXCEPT !.sig = "have-local-offer", !.task = "none"]
  <2>1. /\ r \in Connection /\ r.owner = conn[c].owner /\ r.with = conn[c].with
        /\ r.sdp = conn[c].sdp
        /\ r.sig = "have-local-offer" /\ r.task = "none" /\ r.ice = conn[c].ice
    BY <1>c DEF Connection, Signaling, Tasks
  <2>2. conn' = [conn EXCEPT ![c] = r] /\ conn[c].task = "offer" /\ badge' = badge
    BY <1>1 DEF Offered
  <2> HIDE DEF r
  <2>3. conn'[c] = r /\ \A d \in Conns : d # c => Stays(d)
    BY <2>1, <2>2, OneMoves
  <2>4. Calls(c)
    BY <2>1, <2>2, <2>3 DEF Calls
  <2> QED
    BY <1>s, <2>2, <2>3, <2>4 DEF Steady, Moves
<1>2. CASE Accepted(c)
  <2> DEFINE r == [conn[c] EXCEPT !.sig = "have-remote-offer", !.task = "answer", !.desc = conn[c].sdp]
  <2>1. /\ r \in Connection /\ r.owner = conn[c].owner /\ r.with = conn[c].with
        /\ r.sdp = conn[c].sdp
        /\ r.sig = "have-remote-offer" /\ r.task = "answer" /\ r.ice = conn[c].ice
    BY <1>c DEF Connection, Signaling, Tasks
  <2>2. /\ conn' = [conn EXCEPT ![c] = r] /\ conn[c].task = "accept"
        /\ badge' = badge \/ badge' = [badge EXCEPT ![conn[c].owner] = @ \cup {conn[c].with}]
    BY <1>2 DEF Accepted, OnTrack
  <2> HIDE DEF r
  <2>3. conn'[c] = r /\ \A d \in Conns : d # c => Stays(d)
    BY <2>1, <2>2, OneMoves
  <2>4. Accepts(c)
    BY <2>1, <2>2, <2>3 DEF Accepts
  <2> QED
    BY <2>2, <2>3, <2>4, OneShows DEF Steady, Moves
<1>3. CASE Answered(c)
  <2> DEFINE r == [conn[c] EXCEPT !.sig = "stable", !.task = "none"]
  <2>1. /\ r \in Connection /\ r.owner = conn[c].owner /\ r.with = conn[c].with
        /\ r.sdp = conn[c].sdp
        /\ r.sig = "stable" /\ r.task = "none" /\ r.ice = conn[c].ice
    BY <1>c DEF Connection, Signaling, Tasks
  <2>2. conn' = [conn EXCEPT ![c] = r] /\ conn[c].task = "answer" /\ badge' = badge
    BY <1>3 DEF Answered
  <2> HIDE DEF r
  <2>3. conn'[c] = r /\ \A d \in Conns : d # c => Stays(d)
    BY <2>1, <2>2, OneMoves
  <2>4. Replies(c)
    BY <2>1, <2>2, <2>3 DEF Replies
  <2> QED
    BY <1>s, <2>2, <2>3, <2>4 DEF Steady, Moves
<1>4. CASE Gather(c)
  <2> DEFINE r == [conn[c] EXCEPT !.gathered = TRUE]
  <2>1. /\ r \in Connection /\ r.owner = conn[c].owner /\ r.with = conn[c].with
        /\ r.sdp = conn[c].sdp
        /\ r.sig = conn[c].sig /\ r.task = conn[c].task /\ r.ice = conn[c].ice
    BY <1>c DEF Connection
  <2>2. conn' = [conn EXCEPT ![c] = r] /\ badge' = badge
    BY <1>4 DEF Gather
  <2> HIDE DEF r
  <2>3. conn'[c] = r /\ \A d \in Conns : d # c => Stays(d)
    BY <2>1, <2>2, OneMoves
  <2>4. Stays(c)
    BY <2>1, <2>3 DEF Stays
  <2> QED
    BY <1>s, <2>2, <2>3, <2>4 DEF Steady, Moves
<1>5. CASE Connects(c)
  <2> DEFINE r == [conn[c] EXCEPT !.ice = "connected"]
  <2>1. /\ r \in Connection /\ r.owner = conn[c].owner /\ r.with = conn[c].with
        /\ r.sdp = conn[c].sdp
        /\ r.sig = conn[c].sig /\ r.task = conn[c].task /\ r.ice = "connected"
    BY <1>c DEF Connection
  <2>2. /\ conn' = [conn EXCEPT ![c] = r] /\ conn[c].sig = "stable"
        /\ badge' = [badge EXCEPT ![conn[c].owner] = @ \cup {conn[c].with}]
    BY <1>5 DEF Connects, CanConnect, Reachable, Mutual
  <2> HIDE DEF r
  <2>3. conn'[c] = r /\ \A d \in Conns : d # c => Stays(d)
    BY <2>1, <2>2, OneMoves
  <2>4. Joins(c)
    BY <2>1, <2>2, <2>3 DEF Joins
  <2> QED
    BY <2>2, <2>3, <2>4, OneShows DEF Steady, Moves
<1>6. CASE Fails(c)
  <2> DEFINE r == [conn[c] EXCEPT !.ice = "failed"]
  <2>1. /\ r \in Connection /\ r.owner = conn[c].owner /\ r.with = conn[c].with
        /\ r.sdp = conn[c].sdp
        /\ r.sig = conn[c].sig /\ r.task = conn[c].task /\ r.ice = "failed"
    BY <1>c DEF Connection
  <2>2. /\ conn' = [conn EXCEPT ![c] = r] /\ conn[c].sig = "stable"
        /\ badge' = [badge EXCEPT ![conn[c].owner] = @ \ {conn[c].with}]
    BY <1>6 DEF Fails, CanFail
  <2> HIDE DEF r
  <2>3. conn'[c] = r /\ \A d \in Conns : d # c => Stays(d)
    BY <2>1, <2>2, OneMoves
  <2>4. Breaks(c)
    BY <1>c, <2>1, <2>2, <2>3 DEF Breaks, TypeOK
  <2>5. Shows
    BY <1>c, <2>2 DEF Shows, TypeOK
  <2> QED
    BY <2>3, <2>4, <2>5 DEF Steady, Moves
<1> QED
  BY <1>1, <1>2, <1>3, <1>4, <1>5, <1>6 DEF ConnStep

LEMMA SteadyStep ==
    ASSUME TypeOK, EntryInv, [Next]_vars PROVE Steady
<1>s. ASSUME badge' = badge PROVE Shows
  BY <1>s DEF Shows
<1>f. ASSUME UNCHANGED <<conn, badge>> PROVE Steady
  BY <1>f, <1>s DEF Steady, Moves, Stays
<1>n. ASSUME NEW p \in Peers, NEW q \in Peers, NEW task \in Tasks, NEW sdp \in Nat,
             CreatePeerConnection(p, q, task, sdp), UNCHANGED badge
      PROVE  Steady
  BY <1>n, <1>s, CreateKeeps DEF Steady, Moves, Stays
<1>e. ASSUME NEW p \in Peers, NEW q \in Peers, entry[p][q] # 0
      PROVE  entry[p][q] \in Conns /\ conn[entry[p][q]].owner = p /\ conn[entry[p][q]].with = q
  BY <1>e DEF TypeOK, Conns, EntryInv
<1>1. ASSUME NEW p \in Peers, NEW q \in Peers, Call(p, q) PROVE Steady
  BY <1>1, <1>n DEF Call, Tasks
<1>2. ASSUME NEW p \in Peers, OfferReceived(p) PROVE Steady
  BY <1>2, <1>n, ArriveTypes DEF OfferReceived, Tasks
<1>3. ASSUME NEW p \in Peers, AnswerReceived(p) PROVE Steady
  <2> DEFINE c == entry[p][From(p)]
             r == [conn[c] EXCEPT !.sig = "stable", !.desc = Sdp(p)]
  <2>1. From(p) \in Peers /\ Sdp(p) \in Nat
    BY <1>3, ArriveTypes DEF AnswerReceived
  <2>2. CASE c # 0 /\ conn[c].sig = "have-local-offer"
    <3>1. c \in Conns
      BY <1>e, <2>1, <2>2
    <3>2. /\ conn' = [conn EXCEPT ![c] = r]
          /\ badge' = badge \/ badge' = [badge EXCEPT ![conn[c].owner] = @ \cup {conn[c].with}]
      BY <1>3, <2>2 DEF AnswerReceived, OnTrack
    <3> HIDE DEF c
    <3>3. /\ r \in Connection /\ r.owner = conn[c].owner /\ r.with = conn[c].with
          /\ r.sdp = conn[c].sdp
          /\ r.sig = "stable" /\ r.task = conn[c].task /\ r.ice = conn[c].ice
      BY <2>1, <3>1, ConnTypes DEF Connection, Signaling
    <3> HIDE DEF r
    <3>4. conn'[c] = r /\ \A d \in Conns : d # c => Stays(d)
      BY <3>1, <3>2, <3>3, OneMoves
    <3>5. Settles(c)
      BY <2>2, <3>3, <3>4 DEF Settles
    <3> QED
      BY <3>1, <3>2, <3>4, <3>5, OneShows DEF Steady, Moves
  <2>3. CASE ~(c # 0 /\ conn[c].sig = "have-local-offer")
    BY <1>3, <1>f, <2>3 DEF AnswerReceived
  <2> QED
    BY <2>2, <2>3
<1>4. ASSUME NEW p \in Peers, IceReceived(p) PROVE Steady
  <2> DEFINE c == entry[p][From(p)]
             r == [conn[c] EXCEPT !.cands = conn[c].cands \cup {Sdp(p)}]
  <2>1. From(p) \in Peers /\ Sdp(p) \in Nat /\ badge' = badge
    BY <1>4, ArriveTypes DEF IceReceived
  <2>2. CASE c # 0 /\ TakesCandidates(c)
    <3>1. c \in Conns
      BY <1>e, <2>1, <2>2
    <3>2. conn' = [conn EXCEPT ![c] = r]
      BY <1>4, <2>2 DEF IceReceived
    <3> HIDE DEF c
    <3>3. /\ r \in Connection /\ r.owner = conn[c].owner /\ r.with = conn[c].with
          /\ r.sdp = conn[c].sdp
          /\ r.sig = conn[c].sig /\ r.task = conn[c].task /\ r.ice = conn[c].ice
      BY <2>1, <3>1, ConnTypes DEF Connection
    <3> HIDE DEF r
    <3>4. conn'[c] = r /\ \A d \in Conns : d # c => Stays(d)
      BY <3>1, <3>2, <3>3, OneMoves
    <3>5. Stays(c)
      BY <3>3, <3>4 DEF Stays
    <3> QED
      BY <1>s, <2>1, <3>4, <3>5 DEF Steady, Moves
  <2>3. CASE ~(c # 0 /\ TakesCandidates(c))
    BY <1>4, <1>f, <2>1, <2>3 DEF IceReceived
  <2> QED
    BY <2>2, <2>3
<1>5. ASSUME NEW p \in Peers, PeerLeftReceived(p) PROVE Steady
  <2>1. /\ From(p) \in Peers /\ badge' = badge
        /\ gone' = [gone EXCEPT ![p] = gone[p] \cup {From(p)}]
        /\ conn' = Closed({entry[p][From(p)]})
    BY <1>5, ArriveTypes DEF PeerLeftReceived
  <2>2. From(p) \in gone'[p]
    BY <2>1 DEF TypeOK
  <2>3. \A c \in Conns : c # 0
    BY ConnTypes
  <2>4. ASSUME NEW c \in Conns, c = entry[p][From(p)] PROVE Hangs(c)
    <3>1. conn[c].owner = p /\ conn[c].with = From(p)
      BY <1>e, <2>1, <2>3, <2>4
    <3>2. conn'[c].sig = "closed" /\ conn'[c].task = "none" /\ conn'[c].ice = conn[c].ice
      BY <2>1, <2>4, CloseKeeps
    <3> QED
      BY <2>2, <3>1, <3>2 DEF Hangs
  <2>5. \A c \in Conns : c # entry[p][From(p)] => Stays(c)
    BY <2>1, CloseKeeps DEF Stays
  <2> QED
    BY <1>s, <2>1, <2>4, <2>5 DEF Steady, Moves
<1>6. ASSUME NEW p \in Peers, Leave(p) PROVE Steady
  <2> DEFINE cs == {entry[p][q] : q \in Peers}
  <2>1. /\ badge' = [badge EXCEPT ![p] = {}]
        /\ conn' = Closed(cs)
    BY <1>6 DEF Leave
  <2>2. badge'[p] = {} /\ \A q \in Peers : q # p => badge'[q] = badge[q]
    BY <2>1 DEF TypeOK
  <2>3. \A c \in Conns : c # 0
    BY ConnTypes
  <2>4. \A c \in cs : c # 0 => c \in Conns /\ conn[c].owner = p
    BY <1>e
  <2> HIDE DEF cs
  <2>5. \A c \in Conns : c \in cs => Hangs(c)
    BY <2>1, <2>2, <2>3, <2>4, CloseKeeps DEF Hangs
  <2>6. \A c \in Conns : c \notin cs => Stays(c)
    BY <2>1, CloseKeeps DEF Stays
  <2>7. Shows
    BY <2>2 DEF Shows
  <2> QED
    BY <2>5, <2>6, <2>7 DEF Steady, Moves
<1>7. ASSUME NEW p \in Peers, LinkLost(p) \/ OnDisconnected(p) PROVE Steady
  BY <1>7, <1>f DEF LinkLost, OnDisconnected, tabVars
<1>8. CASE UNCHANGED vars
  BY <1>8, <1>f DEF vars, tabVars
<1> QED
  BY <1>1, <1>2, <1>3, <1>4, <1>5, <1>6, <1>7, <1>8, SteadyConn DEF Next, Work, Receive

(* What a connection is when it is entered: a caller's, or the answer to   *)
(* the offer at the head of its owner's queue.                             *)
Dialled(p, q) ==
    /\ conn'[Len(conn) + 1].task = "offer" /\ conn'[Len(conn) + 1].sdp = 0
    /\ p # q /\ inbox' = inbox

Picked(p, q) ==
    /\ conn'[Len(conn) + 1].task = "accept"
    /\ inbox[p] # <<>>
    /\ Head(inbox[p]).kind = "Offer" /\ Head(inbox[p]).from = q
    /\ conn'[Len(conn) + 1].sdp = Head(inbox[p]).sdp
    /\ inbox' = [inbox EXCEPT ![p] = Tail(inbox[p])]

Opened(p, q) ==
    /\ Entered(p, q)
    /\ conn'[Len(conn) + 1].sig = "new" /\ conn'[Len(conn) + 1].ice = "new"
    /\ room[p] # "out" /\ room' = room
    /\ Dialled(p, q) \/ Picked(p, q)

LEMMA Growth ==
    ASSUME TypeOK, MailInv, GoneInv, [Next]_vars
    PROVE  Len(conn') = Len(conn) \/ \E p, q \in Peers : Opened(p, q)
<1>a. ASSUME NEW c \in Conns, NEW r \in Connection,
             r.owner = conn[c].owner, r.with = conn[c].with, r.sdp = conn[c].sdp,
             conn' = [conn EXCEPT ![c] = r]
      PROVE  Len(conn') = Len(conn)
  BY <1>a, AmendKeeps
<1>1. ASSUME NEW p \in Peers, NEW q \in Peers, Call(p, q) PROVE Opened(p, q)
  <2>1. /\ CreatePeerConnection(p, q, "offer", 0) /\ Entered(p, q)
        /\ room[p] # "out" /\ p # q /\ inbox' = inbox /\ room' = room
    BY <1>1, CallEnters DEF Call, hubVars
  <2> QED
    BY <2>1, CreateKeeps DEF Opened, Dialled, Tasks
<1>2. ASSUME NEW p \in Peers, OfferReceived(p) PROVE \E q \in Peers : Opened(p, q)
  <2>1. /\ From(p) \in Peers /\ Sdp(p) \in Nat
        /\ CreatePeerConnection(p, From(p), "accept", Sdp(p))
        /\ room[p] # "out" /\ room' = room /\ inbox[p] # <<>>
        /\ Head(inbox[p]).kind = "Offer"
        /\ inbox' = [inbox EXCEPT ![p] = Tail(inbox[p])]
    BY <1>2, ArriveTypes DEF OfferReceived, Arrives
  <2>2. PICK q \in Peers : Entered(p, q)
    BY <1>2, OfferEnters
  <2>3. /\ conn'[Len(conn) + 1].with = From(p) /\ conn'[Len(conn) + 1].sdp = Sdp(p)
        /\ conn'[Len(conn) + 1].sig = "new" /\ conn'[Len(conn) + 1].ice = "new"
        /\ conn'[Len(conn) + 1].task = "accept"
    BY <2>1, CreateKeeps DEF Tasks
  <2>4. q = From(p)
    BY <2>2, <2>3 DEF Entered
  <2> QED
    BY <2>1, <2>2, <2>3, <2>4 DEF Opened, Picked, From, Sdp
<1>3. ASSUME NEW c \in Conns, ConnStep(c) PROVE Len(conn') = Len(conn)
  BY <1>3 DEF ConnStep, Offered, Accepted, Answered, Gather, Connects, Fails, TypeOK, Conns
<1>4. ASSUME NEW p \in Peers, AnswerReceived(p) \/ IceReceived(p)
      PROVE  Len(conn') = Len(conn)
  BY <1>4 DEF AnswerReceived, IceReceived, TypeOK
<1>5. ASSUME NEW p \in Peers, PeerLeftReceived(p) \/ Leave(p)
      PROVE  Len(conn') = Len(conn)
  BY <1>5, CloseKeeps DEF PeerLeftReceived, Leave
<1>6. ASSUME NEW p \in Peers, LinkLost(p) \/ OnDisconnected(p)
      PROVE  Len(conn') = Len(conn)
  BY <1>6 DEF LinkLost, OnDisconnected, tabVars
<1>7. CASE UNCHANGED vars
  BY <1>7 DEF vars, tabVars
<1> QED
  BY <1>1, <1>2, <1>3, <1>4, <1>5, <1>6, <1>7 DEF Next, Work, Receive

(* The connections after a step: those before it, and what it has entered. *)
LEMMA Grown ==
    ASSUME TypeOK, MailInv, GoneInv, [Next]_vars
    PROVE  /\ \A c \in Conns : c \in Conns'
           /\ \A c \in Conns' : \/ c \in Conns
                                \/ /\ c = Len(conn) + 1
                                   /\ \E p, q \in Peers : Opened(p, q)
<1>1. Kept /\ Len(conn) \in Nat
  BY TypeStep DEF TypeOK
<1>2. \A p, q \in Peers : Opened(p, q) => Len(conn') = Len(conn) + 1
  BY DEF Opened, Entered
<1> QED
  BY <1>1, <1>2, Growth DEF Kept, Conns

-----------------------------------------------------------------------------
(* How far a connection has got.                                           *)
LEMMA StageStep ==
    ASSUME TypeOK, EntryInv, MailInv, GoneInv, StageInv, [Next]_vars
    PROVE  StageInv'
<1> SUFFICES ASSUME NEW c \in Conns'
             PROVE  /\ conn'[c].task \in {"offer", "accept"} => conn'[c].sig = "new"
                    /\ conn'[c].task = "answer" <=> conn'[c].sig = "have-remote-offer"
                    /\ conn'[c].ice # "new" => conn'[c].sig \in {"stable", "closed"}
  BY DEF StageInv
<1>1. CASE c \in Conns
  <2>1. Moves(c)
    BY <1>1, SteadyStep DEF Steady
  <2>2. /\ conn[c].task \in {"offer", "accept"} => conn[c].sig = "new"
        /\ conn[c].task = "answer" <=> conn[c].sig = "have-remote-offer"
        /\ conn[c].ice # "new" => conn[c].sig \in {"stable", "closed"}
    BY <1>1 DEF StageInv
  <2> QED
    BY <2>1, <2>2 DEF Moves, Stays, Calls, Accepts, Replies, Settles, Hangs, Joins, Breaks
<1>2. ASSUME c = Len(conn) + 1, NEW p \in Peers, NEW q \in Peers, Opened(p, q)
      PROVE  /\ conn'[c].task \in {"offer", "accept"} => conn'[c].sig = "new"
             /\ conn'[c].task = "answer" <=> conn'[c].sig = "have-remote-offer"
             /\ conn'[c].ice # "new" => conn'[c].sig \in {"stable", "closed"}
  BY <1>2 DEF Opened, Dialled, Picked
<1> QED
  BY <1>1, <1>2, Grown

(* Who is shown as connected.                                              *)
LEMMA BadgeStep ==
    ASSUME TypeOK, EntryInv, MailInv, GoneInv, StageInv, BadgeInv, [Next]_vars
    PROVE  BadgeInv'
<1> DEFINE Live(c) == /\ conn[c].sig \in {"have-remote-offer", "stable"}
                      /\ conn[c].ice # "failed"
<1> SUFFICES ASSUME NEW p \in Peers, NEW q \in badge'[p], q \notin gone'[p]
             PROVE  \E c \in Conns' : conn'[c].owner = p /\ conn'[c].with = q /\ Live(c)'
  BY DEF BadgeInv
<1>1. Steady /\ Kept /\ \A c \in Conns : c \in Conns'
  BY SteadyStep, Grown, TypeStep
<1>2. gone[p] \subseteq gone'[p]
  BY InboxStep DEF InboxEffect, Untouched, Emptied, Handled, Posted, Informed
<1>3. \A c \in Conns : conn'[c].owner = conn[c].owner /\ conn'[c].with = conn[c].with
  BY <1>1 DEF Kept
<1>4. ASSUME NEW c \in Conns, conn[c].owner = p, conn[c].with = q, Live(c)' PROVE
      \E d \in Conns' : conn'[d].owner = p /\ conn'[d].with = q /\ Live(d)'
  BY <1>1, <1>3, <1>4
<1>s. \A c \in Conns :
        /\ conn[c].task \in {"offer", "accept"} => conn[c].sig = "new"
        /\ conn[c].task = "answer" <=> conn[c].sig = "have-remote-offer"
        /\ conn[c].ice # "new" => conn[c].sig \in {"stable", "closed"}
  BY DEF StageInv
<1>5. CASE q \in badge[p]
  <2>1. PICK c \in Conns : conn[c].owner = p /\ conn[c].with = q /\ Live(c)
    BY <1>2, <1>5 DEF BadgeInv
  <2>2. Moves(c)
    BY <1>1 DEF Steady
  <2>3. ~Hangs(c) /\ ~Breaks(c)
    BY <2>1 DEF Hangs, Breaks
  <2>4. Live(c)'
    BY <1>s, <2>1, <2>2, <2>3 DEF Moves, Stays, Calls, Accepts, Replies, Settles, Joins
  <2> QED
    BY <1>4, <2>1, <2>4
<1>6. CASE q \notin badge[p]
  <2>1. PICK c \in Conns : /\ conn[c].owner = p /\ conn[c].with = q
                           /\ Accepts(c) \/ Settles(c) \/ Joins(c)
    BY <1>1, <1>6 DEF Steady, Shows
  <2>2. Live(c)'
    BY <1>s, <2>1 DEF Accepts, Settles, Joins
  <2> QED
    BY <1>4, <2>1, <2>2
<1> QED
  BY <1>5, <1>6

-----------------------------------------------------------------------------
(* Offers.                                                                 *)

(* A connection that has sent its offer, or is not a caller's, never has   *)
(* one to send again.                                                      *)
LEMMA Tasked ==
    ASSUME TypeOK, EntryInv, [Next]_vars, NEW c \in Conns, conn'[c].task = "offer"
    PROVE  conn[c].task = "offer"
<1>1. Moves(c)
  BY SteadyStep DEF Steady
<1> QED
  BY <1>1 DEF Moves, Stays, Calls, Accepts, Replies, Settles, Hangs, Joins, Breaks

(* The offer that is accepted is the head of the owner's queue.            *)
LEMMA PickedOffer ==
    ASSUME TypeOK, MailInv, OfferInv, NEW p \in Peers, NEW q \in Peers,
           Opened(p, q), Picked(p, q)
    PROVE  LET d == conn'[Len(conn) + 1].sdp IN
           /\ Unaccepted(d) /\ d # 0
           /\ conn[d].owner = q /\ conn[d].with = p /\ p # q
           /\ \A i \in 2..Len(inbox[p]) : inbox[p][i].kind = "Offer" => inbox[p][i].sdp # d
<1> DEFINE d == conn'[Len(conn) + 1].sdp
<1>1. inbox[p] \in Seq(Message) /\ inbox[p] # <<>>
  BY DEF TypeOK, Picked
<1>2. /\ Head(inbox[p]) = inbox[p][1] /\ 1 \in 1..Len(inbox[p])
      /\ \A i \in 2..Len(inbox[p]) : i \in 1..Len(inbox[p]) /\ i # 1
  BY <1>1, Taken
<1>3. inbox[p][1].kind = "Offer" /\ inbox[p][1].sdp = d
  BY <1>2 DEF Picked
<1> HIDE DEF d
<1>4. OffersOf(p) /\ AcceptInv
  BY DEF OfferInv
<1>5. /\ Unaccepted(d)
      /\ \A i \in 2..Len(inbox[p]) : inbox[p][i].kind = "Offer" => inbox[p][i].sdp # d
  BY <1>2, <1>3, <1>4 DEF OffersOf
<1>6. d \in Conns /\ d # 0
  BY <1>5, ConnTypes DEF Unaccepted
<1>7. conn[d].owner = q /\ conn[d].with = p
  BY <1>6 DEF Opened, Entered, d
<1>8. p # q
  BY <1>4, <1>6, <1>7 DEF AcceptInv
<1> QED
  BY <1>5, <1>6, <1>7, <1>8 DEF d

LEMMA AcceptStep ==
    ASSUME TypeOK, RightPeer, EntryInv, MailInv, GoneInv, OfferInv, [Next]_vars
    PROVE  AcceptInv'
<1> SUFFICES ASSUME NEW c \in Conns'
             PROVE  /\ conn'[c].owner # conn'[c].with
                    /\ conn'[c].task = "offer" => conn'[c].sdp = 0
                    /\ conn'[c].sdp # 0 =>
                          /\ conn'[conn'[c].sdp].sdp = 0
                          /\ conn'[conn'[c].sdp].task # "offer"
                          /\ \A d \in Conns' : conn'[d].sdp = conn'[c].sdp => c = d
  BY DEF AcceptInv
<1>1. \A e \in Conns : /\ conn'[e].owner = conn[e].owner /\ conn'[e].with = conn[e].with
                       /\ conn'[e].sdp = conn[e].sdp
                       /\ conn'[e].task = "offer" => conn[e].task = "offer"
  BY TypeStep, Tasked DEF Kept
<1>2. \A e \in Conns :
        /\ conn[e].owner # conn[e].with
        /\ conn[e].task = "offer" => conn[e].sdp = 0
        /\ conn[e].sdp # 0 => /\ conn[conn[e].sdp].sdp = 0
                              /\ conn[conn[e].sdp].task # "offer"
                              /\ \A d \in Conns : conn[d].sdp = conn[e].sdp => e = d
        /\ conn[e].sdp # 0 => conn[e].sdp \in Conns
  BY DEF OfferInv, AcceptInv, RightPeer
<1>3. \A e \in Conns' : \/ e \in Conns
                        \/ e = Len(conn) + 1 /\ \E p, q \in Peers : Opened(p, q)
  BY Grown
<1>4. ASSUME NEW p \in Peers, NEW q \in Peers, Opened(p, q), conn'[Len(conn) + 1].sdp # 0
      PROVE  Picked(p, q) /\ Unaccepted(conn'[Len(conn) + 1].sdp) /\ p # q
  BY <1>4, PickedOffer DEF Opened, Dialled
<1>5. CASE c \in Conns
  <2>1. ASSUME NEW d \in Conns', conn'[d].sdp = conn'[c].sdp, conn'[c].sdp # 0 PROVE c = d
    <3>1. CASE d \in Conns
      BY <1>1, <1>2, <1>5, <2>1, <3>1
    <3>2. CASE d = Len(conn) + 1 /\ \E p, q \in Peers : Opened(p, q)
      BY <1>1, <1>4, <1>5, <2>1, <3>2 DEF Unaccepted
    <3> QED
      BY <1>3, <3>1, <3>2
  <2> QED
    BY <1>1, <1>2, <1>5, <2>1
<1>6. ASSUME c = Len(conn) + 1, c \notin Conns, NEW p \in Peers, NEW q \in Peers, Opened(p, q)
      PROVE  /\ conn'[c].owner # conn'[c].with
             /\ conn'[c].task = "offer" => conn'[c].sdp = 0
             /\ conn'[c].sdp # 0 =>
                   /\ conn'[conn'[c].sdp].sdp = 0
                   /\ conn'[conn'[c].sdp].task # "offer"
                   /\ \A d \in Conns' : conn'[d].sdp = conn'[c].sdp => c = d
  <2>1. conn'[c].owner = p /\ conn'[c].with = q
    BY <1>6 DEF Opened, Entered
  <2>2. CASE Dialled(p, q)
    BY <1>6, <2>1, <2>2 DEF Dialled
  <2>3. CASE Picked(p, q)
    <3>1. Unaccepted(conn'[c].sdp) /\ p # q
      BY <1>6, <2>3, PickedOffer
    <3>2. conn'[c].task # "offer"
      BY <1>6, <2>3 DEF Picked
    <3>3. \A d \in Conns' : conn'[d].sdp = conn'[c].sdp => c = d
      BY <1>1, <1>3, <1>6, <3>1 DEF Unaccepted
    <3> QED
      BY <1>1, <2>1, <3>1, <3>2, <3>3 DEF Unaccepted
  <2> QED
    BY <1>6, <2>2, <2>3 DEF Opened
<1> QED
  BY <1>3, <1>5, <1>6

(* An offer that is on its way stays unaccepted unless it is picked.       *)
Awaited(d) ==
    /\ d \in Conns' /\ conn'[d].sdp = 0 /\ conn'[d].task # "offer"
    /\ \A c \in Conns' : conn'[c].sdp # d

LEMMA StillUnaccepted ==
    ASSUME TypeOK, EntryInv, MailInv, GoneInv, [Next]_vars,
           NEW d, Unaccepted(d),
           \A e \in Conns' : e \notin Conns => conn'[e].sdp # d
    PROVE  Awaited(d)
<1>1. d \in Conns'
  BY Grown DEF Unaccepted
<1>2. conn'[d].sdp = 0 /\ conn'[d].task # "offer"
  BY TypeStep, Tasked DEF Unaccepted, Kept
<1>3. \A c \in Conns' : conn'[c].sdp # d
  BY TypeStep DEF Unaccepted, Kept
<1> QED
  BY <1>1, <1>2, <1>3 DEF Awaited

(* Every offer on its way after a step was on its way before, or is being  *)
(* sent by a caller's connection.                                          *)
LEMMA OffersStep ==
    ASSUME TypeOK, EntryInv, MailInv, GoneInv, OfferInv, [Next]_vars, NEW q \in Peers
    PROVE  OffersOf(q)'
<1>1. inbox[q] \in Seq(Message) /\ Len(inbox[q]) \in Nat
  BY DEF TypeOK
<1>2. OffersOf(q) /\ AcceptInv /\ InboxEffect(q) /\ DOMAIN inbox = Peers
  BY InboxStep DEF OfferInv, TypeOK
<1>3. \A e \in Conns' : e \notin Conns =>
          e = Len(conn) + 1 /\ \E o, r \in Peers : Opened(o, r)
  BY Grown
<1>4. ASSUME NEW i \in 1..Len(inbox[q]), inbox[q][i].kind = "Offer"
      PROVE  LET d == inbox[q][i].sdp IN Unaccepted(d) /\ d # 0 /\ conn[d].with = q
  <2>1. Unaccepted(inbox[q][i].sdp)
    BY <1>2, <1>4 DEF OffersOf
  <2>2. inbox[q][i].sdp \in Conns
    BY <2>1 DEF Unaccepted
  <2> QED
    BY <2>1, <2>2, ConnTypes DEF MailInv, MailOf
<1>o. ASSUME \A i \in 1..Len(inbox'[q]) : inbox'[q][i].kind = "Offer" => Awaited(inbox'[q][i].sdp),
             \A i, j \in 1..Len(inbox'[q]) :
                /\ inbox'[q][i].kind = "Offer" /\ inbox'[q][j].kind = "Offer"
                /\ inbox'[q][j].sdp = inbox'[q][i].sdp
                => i = j
      PROVE  OffersOf(q)'
  BY <1>o DEF OffersOf, Unaccepted, Awaited
(* What is picked is not on its way any more.                              *)
<1>5. ASSUME NEW o \in Peers, NEW r \in Peers, Opened(o, r), Picked(o, r)
      PROVE  OffersOf(q)'
  <2> DEFINE x == conn'[Len(conn) + 1].sdp
  <2>1. /\ conn[x].with = o
        /\ \A i \in 2..Len(inbox[o]) : inbox[o][i].kind = "Offer" => inbox[o][i].sdp # x
    BY <1>5, PickedOffer
  <2>2. ASSUME NEW i \in 1..Len(inbox[q]), inbox[q][i].kind = "Offer", inbox[q][i].sdp # x
        PROVE  Awaited(inbox[q][i].sdp)
    BY <1>3, <1>4, <2>2, StillUnaccepted
  <2> HIDE DEF x
  <2>3. CASE q # o
    <3>1. inbox'[q] = inbox[q]
      BY <1>2, <1>5, <2>3 DEF Picked
    <3>2. \A i \in 1..Len(inbox[q]) : inbox[q][i].kind = "Offer" => inbox[q][i].sdp # x
      BY <1>4, <2>1, <2>3
    <3> QED
      BY <1>2, <1>o, <2>2, <3>1, <3>2 DEF OffersOf
  <2>4. CASE q = o
    <3>1. inbox'[q] = Tail(inbox[q]) /\ inbox[q] # <<>>
      BY <1>2, <1>5, <2>4 DEF Picked
    <3>2. /\ Len(inbox'[q]) = Len(inbox[q]) - 1
          /\ \A i \in 1..Len(inbox'[q]) : i + 1 \in 1..Len(inbox[q]) /\ inbox'[q][i] = inbox[q][i + 1]
      BY <1>1, <3>1, Taken
    <3>3. \A i \in 1..Len(inbox'[q]) : i + 1 \in 2..Len(inbox[q])
      BY <1>1, <3>2
    <3>4. \A i \in 1..Len(inbox'[q]) : inbox'[q][i].kind = "Offer" => Awaited(inbox'[q][i].sdp)
      BY <2>1, <2>2, <2>4, <3>2, <3>3
    <3>5. ASSUME NEW i \in 1..Len(inbox'[q]), NEW j \in 1..Len(inbox'[q]),
                 inbox'[q][i].kind = "Offer", inbox'[q][j].kind = "Offer",
                 inbox'[q][j].sdp = inbox'[q][i].sdp
          PROVE  i = j
      <4>1. i + 1 = j + 1
        BY <1>2, <3>2, <3>5 DEF OffersOf
      <4> QED
        BY <4>1
    <3> QED
      BY <1>o, <3>4, <3>5
  <2> QED
    BY <2>3, <2>4
(* Nothing is picked.                                                      *)
<1>6. ASSUME ~\E o, r \in Peers : Opened(o, r) /\ Picked(o, r) PROVE OffersOf(q)'
  <2>1. \A e \in Conns' : e \notin Conns => conn'[e].sdp = 0
    BY <1>3, <1>6 DEF Opened, Dialled
  <2>2. \A i \in 1..Len(inbox[q]) : inbox[q][i].kind = "Offer" => Awaited(inbox[q][i].sdp)
    BY <1>4, <2>1, StillUnaccepted
  <2>3. CASE Untouched(q)
    BY <1>2, <1>o, <2>2, <2>3 DEF Untouched, OffersOf
  <2>4. CASE Emptied(q)
    BY <2>4 DEF Emptied, OffersOf
  <2>5. CASE Handled(q)
    <3>1. inbox'[q] = Tail(inbox[q]) /\ inbox[q] # <<>>
      BY <2>5 DEF Handled
    <3>2. \A i \in 1..Len(inbox'[q]) : i + 1 \in 1..Len(inbox[q]) /\ inbox'[q][i] = inbox[q][i + 1]
      BY <1>1, <3>1, Taken
    <3>3. ASSUME NEW i \in 1..Len(inbox'[q]), NEW j \in 1..Len(inbox'[q]),
                 inbox'[q][i].kind = "Offer", inbox'[q][j].kind = "Offer",
                 inbox'[q][j].sdp = inbox'[q][i].sdp
          PROVE  i = j
      <4>1. i + 1 = j + 1
        BY <1>2, <3>2, <3>3 DEF OffersOf
      <4> QED
        BY <4>1
    <3>4. \A i \in 1..Len(inbox'[q]) : inbox'[q][i].kind = "Offer" => Awaited(inbox'[q][i].sdp)
      BY <2>2, <3>2
    <3> QED
      BY <1>o, <3>3, <3>4
  <2>6. ASSUME NEW m \in Message, inbox'[q] = Append(inbox[q], m),
               m.kind = "Offer" =>
                  /\ Awaited(m.sdp)
                  /\ \A i \in 1..Len(inbox[q]) : inbox[q][i].kind = "Offer" => inbox[q][i].sdp # m.sdp
        PROVE  OffersOf(q)'
    <3>1. /\ Len(inbox'[q]) = Len(inbox[q]) + 1
          /\ inbox'[q][Len(inbox[q]) + 1] = m
          /\ \A i \in 1..Len(inbox[q]) : inbox'[q][i] = inbox[q][i]
      BY <1>1, <2>6, Extended
    <3>2. \A i \in 1..Len(inbox'[q]) : i \in 1..Len(inbox[q]) \/ i = Len(inbox[q]) + 1
      BY <1>1, <3>1
    <3>3. \A i \in 1..Len(inbox'[q]) : inbox'[q][i].kind = "Offer" => Awaited(inbox'[q][i].sdp)
      BY <2>2, <2>6, <3>1, <3>2
    <3>4. ASSUME NEW i \in 1..Len(inbox'[q]), NEW j \in 1..Len(inbox'[q]),
                 inbox'[q][i].kind = "Offer", inbox'[q][j].kind = "Offer",
                 inbox'[q][j].sdp = inbox'[q][i].sdp
          PROVE  i = j
      BY <1>2, <2>6, <3>1, <3>2, <3>4 DEF OffersOf
    <3> QED
      BY <1>o, <3>3, <3>4
  <2>7. ASSUME NEW c \in Conns, NEW kind \in Kinds, Posted(q, c, kind) PROVE OffersOf(q)'
    <3> DEFINE m == [kind |-> kind, from |-> conn[c].owner, sdp |-> c]
    <3>1. /\ m \in Message /\ inbox'[q] = Append(inbox[q], m)
          /\ m.kind = kind /\ m.sdp = c /\ c # 0
          /\ kind = "Offer" => conn[c].task = "offer" /\ conn'[c].task = "none"
      BY <2>7, ConnTypes DEF Posted, Message
    <3> HIDE DEF m
    <3>2. ASSUME kind = "Offer" PROVE Awaited(c)
      <4>1. conn[c].task = "offer" /\ conn'[c].task = "none"
        BY <3>1, <3>2
      <4>2. conn[c].sdp = 0 /\ \A e \in Conns : conn[e].sdp # c
        BY <1>2, <3>1, <4>1 DEF AcceptInv
      <4>3. conn'[c].sdp = 0 /\ \A e \in Conns : conn'[e].sdp # c
        BY <4>2, TypeStep DEF Kept
      <4>4. c \in Conns' /\ \A e \in Conns' : conn'[e].sdp # c
        BY <2>1, <3>1, <4>3, Grown
      <4> QED
        BY <4>1, <4>3, <4>4 DEF Awaited
    <3>3. ASSUME kind = "Offer", NEW i \in 1..Len(inbox[q]), inbox[q][i].kind = "Offer"
          PROVE  inbox[q][i].sdp # c
      BY <1>4, <3>1, <3>3 DEF Unaccepted
    <3> QED
      BY <2>6, <3>1, <3>2, <3>3
  <2>8. ASSUME NEW p \in Peers, Informed(q, p) PROVE OffersOf(q)'
    <3> DEFINE m == [kind |-> "PeerLeft", from |-> p, sdp |-> 0]
    <3>1. m \in Message /\ inbox'[q] = Append(inbox[q], m) /\ m.kind # "Offer"
      BY <2>8 DEF Informed, Message, Kinds
    <3> HIDE DEF m
    <3> QED
      BY <2>6, <3>1
  <2> QED
    BY <1>2, <2>3, <2>4, <2>5, <2>7, <2>8 DEF InboxEffect
<1> QED
  BY <1>5, <1>6

LEMMA OfferStep ==
    ASSUME TypeOK, RightPeer, EntryInv, MailInv, GoneInv, OfferInv, [Next]_vars
    PROVE  OfferInv'
BY AcceptStep, OffersStep DEF OfferInv

-----------------------------------------------------------------------------
(* The map and the connections that are not in it.                         *)

(* What leaves the map without being replaced is closed, and a tab that    *)
(* leaves empties its map.                                                 *)
LEMMA Vacated ==
    ASSUME TypeOK, EntryInv, MailInv, GoneInv, [Next]_vars
    PROVE  /\ \A p, q \in Peers :
                entry[p][q] # 0 /\ entry'[p][q] = 0 => conn'[entry[p][q]].sig = "closed"
           /\ \A p \in Peers : \/ room'[p] # "out" \/ room[p] = "out"
                               \/ \A q \in Peers : entry'[p][q] = 0
<1> DEFINE A == \A p, q \in Peers :
                   entry[p][q] # 0 /\ entry'[p][q] = 0 => conn'[entry[p][q]].sig = "closed"
           B == \A p \in Peers : \/ room'[p] # "out" \/ room[p] = "out"
                                 \/ \A q \in Peers : entry'[p][q] = 0
<1> SUFFICES A /\ B
  OBVIOUS
<1>e. \A p, q \in Peers : entry[p][q] # 0 => entry[p][q] \in Conns
  BY DEF TypeOK, Conns
<1>1. ASSUME UNCHANGED <<entry, room>> PROVE A /\ B
  BY <1>1
<1>3. ASSUME NEW p \in Peers, PeerLeftReceived(p) PROVE A /\ B
  <2>1. /\ From(p) \in Peers /\ room' = room
        /\ entry' = [entry EXCEPT ![p][From(p)] = 0]
        /\ conn' = Closed({entry[p][From(p)]})
    BY <1>3, ArriveTypes DEF PeerLeftReceived
  <2>2. \A o, r \in Peers : entry[o][r] # 0 /\ entry'[o][r] = 0 => o = p /\ r = From(p)
    BY <2>1 DEF TypeOK
  <2>3. \A c \in Conns : c = entry[p][From(p)] => conn'[c].sig = "closed"
    BY <2>1, CloseKeeps
  <2> QED
    BY <1>e, <2>1, <2>2, <2>3
<1>4. ASSUME NEW p \in Peers, Leave(p) PROVE A /\ B
  <2> DEFINE cs == {entry[p][q] : q \in Peers}
  <2>1. /\ room' = [room EXCEPT ![p] = "out"]
        /\ entry' = [entry EXCEPT ![p] = [q \in Peers |-> 0]]
        /\ conn' = Closed(cs)
    BY <1>4 DEF Leave
  <2>2. \A o, r \in Peers : entry[o][r] # 0 /\ entry'[o][r] = 0 => o = p
    BY <2>1 DEF TypeOK
  <2>3. \A r \in Peers : entry[p][r] \in cs
    OBVIOUS
  <2> HIDE DEF cs
  <2>4. \A c \in Conns : c \in cs => conn'[c].sig = "closed"
    BY <2>1, CloseKeeps
  <2>5. A
    BY <1>e, <2>2, <2>3, <2>4
  <2>6. B
    BY <2>1 DEF TypeOK
  <2> QED
    BY <2>5, <2>6
<1>5. ASSUME NEW p \in Peers, AnswerReceived(p) \/ IceReceived(p) PROVE A /\ B
  BY <1>1, <1>5 DEF AnswerReceived, IceReceived
<1>6. ASSUME NEW p \in Peers, LinkLost(p) \/ OnDisconnected(p) PROVE A /\ B
  <2>1. entry' = entry /\ \A o \in Peers : room'[o] = "out" => room[o] = "out"
    BY <1>6 DEF LinkLost, OnDisconnected, tabVars, TypeOK
  <2> QED
    BY <2>1
<1>7. ASSUME NEW c \in Conns, ConnStep(c) PROVE A /\ B
  BY <1>1, <1>7 DEF ConnStep, Offered, Accepted, Answered, Gather, Connects, Fails
<1>8. CASE UNCHANGED vars
  BY <1>1, <1>8 DEF vars, tabVars
<1>9. ASSUME NEW p \in Peers, NEW q \in Peers, Call(p, q) PROVE A /\ B
  <2>1. entry' = [entry EXCEPT ![p][q] = Len(conn) + 1] /\ room' = room
    BY <1>9 DEF Call, CreatePeerConnection
  <2>2. \A o, r \in Peers : entry'[o][r] = 0 => entry[o][r] = 0
    BY <2>1 DEF TypeOK
  <2> QED
    BY <2>1, <2>2
<1>10. ASSUME NEW p \in Peers, OfferReceived(p) PROVE A /\ B
  <2>1. /\ entry' = [entry EXCEPT ![p][From(p)] = Len(conn) + 1]
        /\ room' = room /\ From(p) \in Peers
    BY <1>10, ArriveTypes DEF OfferReceived, CreatePeerConnection
  <2>2. \A o, r \in Peers : entry'[o][r] = 0 => entry[o][r] = 0
    BY <2>1 DEF TypeOK
  <2> QED
    BY <2>1, <2>2
<1> QED
  BY <1>3, <1>4, <1>5, <1>6, <1>7, <1>8, <1>9, <1>10 DEF Next, Work, Receive

(* The map of a tab that has left stays empty.                             *)
LEMMA LeftStep ==
    ASSUME TypeOK, EntryInv, MailInv, GoneInv, LeftInv, [Next]_vars
    PROVE  LeftInv'
<1> SUFFICES ASSUME NEW p \in Peers, NEW q \in Peers, room'[p] = "out" PROVE entry'[p][q] = 0
  BY DEF LeftInv
<1>1. CASE room[p] # "out"
  BY <1>1, Vacated
<1>2. CASE room[p] = "out"
  <2>1. entry[p][q] = 0
    BY <1>2 DEF LeftInv
  <2>2. CASE Cleared
    BY <2>1, <2>2 DEF Cleared
  <2>3. ASSUME NEW o \in Peers, NEW r \in Peers, Opened(o, r) PROVE entry'[p][q] = 0
    <3>1. o # p /\ entry' = [entry EXCEPT ![o][r] = Len(conn) + 1]
      BY <1>2, <2>3 DEF Opened, Entered
    <3> QED
      BY <2>1, <3>1 DEF TypeOK
  <2>4. ASSUME NEW o \in Peers, NEW r \in Peers, Entered(o, r), Len(conn') = Len(conn) PROVE FALSE
    BY <2>4 DEF Entered, TypeOK
  <2> QED
    BY <2>2, <2>3, <2>4, EntryEffect, Growth
<1> QED
  BY <1>1, <1>2

(* A connection that leaves the map unclosed has been replaced by that of  *)
(* a second call.                                                          *)
LEMMA HeldStep ==
    ASSUME TypeOK, RightPeer, EntryInv, MailInv, GoneInv, StageInv, OfferInv, HeldInv, [Next]_vars
    PROVE  HeldInv'
<1> SUFFICES ASSUME NEW c \in Conns', conn'[c].sig # "closed"
             PROVE  entry'[conn'[c].owner][conn'[c].with] = c \/ Repeated(c)'
  BY DEF HeldInv
<1>k. \A d \in Conns : /\ d \in Conns'
                       /\ conn'[d].owner = conn[d].owner /\ conn'[d].with = conn[d].with
                       /\ conn'[d].sdp = conn[d].sdp
  BY TypeStep, Grown DEF Kept
<1>c. \A d \in Conns : conn[d].owner \in Peers /\ conn[d].with \in Peers
  BY ConnTypes
<1>r. ASSUME NEW d \in Conns', NEW e \in Conns', d # e, conn'[d].sdp = 0, conn'[e].sdp = 0,
             {conn'[d].owner, conn'[d].with} = {conn'[c].owner, conn'[c].with},
             {conn'[e].owner, conn'[e].with} = {conn'[c].owner, conn'[c].with}
      PROVE  Repeated(c)'
  BY <1>r DEF Repeated, Between
<1>1. CASE c \notin Conns
  <2>1. PICK p \in Peers, q \in Peers : c = Len(conn) + 1 /\ Opened(p, q)
    BY <1>1, Grown
  <2>2. /\ conn'[c].owner = p /\ conn'[c].with = q
        /\ entry' = [entry EXCEPT ![p][q] = c]
    BY <2>1 DEF Opened, Entered
  <2> QED
    BY <2>2 DEF TypeOK
<1>2. CASE c \in Conns
  <2> DEFINE p == conn[c].owner
             q == conn[c].with
  <2>1. p \in Peers /\ q \in Peers /\ conn'[c].owner = p /\ conn'[c].with = q
    BY <1>2, <1>c, <1>k
  <2>2. conn[c].sig # "closed"
    <3>1. Moves(c)
      BY <1>2, SteadyStep DEF Steady
    <3>2. conn[c].sig = "closed" => conn[c].task = "none" \/ conn[c].task \notin Tasks
      BY <1>2 DEF StageInv, Tasks
    <3>3. conn[c].task \in Tasks
      BY <1>2, ConnTypes DEF Connection
    <3> QED
      BY <3>1, <3>2, <3>3 DEF Moves, Stays, Calls, Accepts, Replies, Settles, Hangs, Joins, Breaks
  <2>3. CASE Repeated(c)
    <3>1. PICK d \in Conns, e \in Conns :
            /\ d # e /\ conn[d].sdp = 0 /\ conn[e].sdp = 0
            /\ {conn[d].owner, conn[d].with} = {p, q}
            /\ {conn[e].owner, conn[e].with} = {p, q}
      BY <2>3 DEF Repeated, Between
    <3> QED
      BY <1>k, <1>r, <2>1, <3>1
  <2>4. CASE entry[p][q] = c
    <3>1. c # 0
      BY <1>2, ConnTypes
    <3>2. CASE Cleared
      <4>1. entry'[p][q] \in {c, 0}
        BY <2>1, <2>4, <3>2 DEF Cleared
      <4>2. entry'[p][q] # 0
        BY <2>1, <2>4, <3>1, Vacated
      <4> QED
        BY <2>1, <4>1, <4>2
    <3>3. ASSUME NEW o \in Peers, NEW s \in Peers, Opened(o, s)
          PROVE  entry'[p][q] = c \/ Repeated(c)'
      <4>1. entry' = [entry EXCEPT ![o][s] = Len(conn) + 1]
        BY <3>3 DEF Opened, Entered
      <4>2. CASE ~(o = p /\ s = q)
        BY <2>1, <2>4, <4>1, <4>2 DEF TypeOK
      <4>3. CASE o = p /\ s = q
        <5> DEFINE n == Len(conn) + 1
        (* The call that c belongs to.                                     *)
        <5>1. PICK d \in Conns : /\ conn[d].sdp = 0 /\ {conn[d].owner, conn[d].with} = {p, q}
                                 /\ d = c \/ d = conn[c].sdp
          <6>1. CASE conn[c].sdp = 0
            BY <1>2, <6>1
          <6>2. CASE conn[c].sdp # 0
            BY <1>2, <6>2 DEF RightPeer, OfferInv, AcceptInv
          <6> QED
            BY <6>1, <6>2
        <5>2. conn'[d].sdp = 0 /\ {conn'[d].owner, conn'[d].with} = {p, q} /\ d \in Conns'
          BY <1>k, <5>1
        <5>3. CASE Dialled(o, s)
          <6>1. conn'[n].sdp = 0 /\ conn'[n].owner = p /\ conn'[n].with = q
            BY <3>3, <4>3, <5>3 DEF Opened, Entered, Dialled
          <6>2. n \in Conns' /\ n # d
            BY <3>3 DEF Opened, Entered, Conns, TypeOK
          <6> HIDE DEF n
          <6> QED
            BY <1>r, <2>1, <5>2, <6>1, <6>2
        <5>4. CASE Picked(o, s)
          <6> DEFINE x == conn'[n].sdp
          <6>1. /\ Unaccepted(x) /\ conn[x].owner = s /\ conn[x].with = o /\ o # s
            BY <3>3, <5>4, PickedOffer
          <6> HIDE DEF x
          <6>2. x \in Conns /\ conn[x].sdp = 0 /\ conn[c].sdp # x /\ c # x
            BY <1>2, <4>3, <6>1 DEF Unaccepted
          <6>3. d # x
            BY <5>1, <6>2
          <6>4. {conn'[x].owner, conn'[x].with} = {p, q} /\ conn'[x].sdp = 0 /\ x \in Conns'
            BY <1>k, <4>3, <6>1, <6>2
          <6> QED
            BY <1>r, <2>1, <5>2, <6>3, <6>4
        <5> QED
          BY <3>3, <5>3, <5>4 DEF Opened
      <4> QED
        BY <4>2, <4>3
    <3>4. ASSUME NEW o \in Peers, NEW s \in Peers, Entered(o, s), Len(conn') = Len(conn) PROVE FALSE
      BY <3>4 DEF Entered, TypeOK
    <3> QED
      BY <2>1, <3>2, <3>3, <3>4, EntryEffect, Growth
  <2> QED
    BY <1>2, <2>2, <2>3, <2>4 DEF HeldInv
<1> QED
  BY <1>1, <1>2

-----------------------------------------------------------------------------
LEMMA InitIInv == Init => IInv
<1> SUFFICES ASSUME Init PROVE IInv
  OBVIOUS
<1>1. conn = <<>> /\ Len(conn) = 0 /\ Conns = {}
  BY DEF Init, Conns
<1>2. TypeOK
  BY <1>1, BoundAssumption DEF Init, TypeOK
<1>3. RightPeer /\ StageInv /\ HeldInv /\ AcceptInv
  BY <1>1 DEF RightPeer, StageInv, HeldInv, AcceptInv
<1>4. EntryInv /\ LeftInv /\ GoneForGood /\ BadgeInv /\ GoneInv
  BY DEF Init, EntryInv, LeftInv, GoneForGood, BadgeInv, GoneInv, GoneOf
<1>5. MailInv /\ OfferInv
  BY <1>3 DEF Init, MailInv, MailOf, OfferInv, OffersOf
<1> QED
  BY <1>1, <1>2, <1>3, <1>4, <1>5 DEF IInv

(* IInv holds in every reachable state, for any set of peers, any bound on *)
(* calls, and whoever leaves or loses its link.                            *)
THEOREM Invariance == Spec => []IInv
<1>1. IInv /\ [Next]_vars => IInv'
  BY TypeStep, RightPeerStep, EntryStep, MailStep, GoneStep, StageStep, BadgeStep,
     OfferStep, HeldStep, LeftStep DEF IInv
<1> QED
  BY InitIInv, <1>1, PTL DEF Spec

(* Every variable keeps its type.                                          *)
THEOREM TypeCorrect == Spec => []TypeOK
<1>1. IInv => TypeOK
  BY DEF IInv
<1> QED
  BY Invariance, <1>1, PTL

(* A description is only ever set on a connection to the peer it came from *)
(* (handleOffer, handleAnswer), however many peers call each other.        *)
THEOREM NobodyElse == Spec => []RightPeer
<1>1. IInv => RightPeer
  BY DEF IInv
<1> QED
  BY Invariance, <1>1, PTL

(* A peer whose PeerLeft has been handled is never in the map again        *)
(* (closePeerConnection).                                                  *)
THEOREM NoReturn == Spec => []GoneForGood
<1>1. IInv => GoneForGood
  BY DEF IInv
<1> QED
  BY Invariance, <1>1, PTL

-----------------------------------------------------------------------------
(* Two calls between the same peers: neither is alone.                     *)
LEMMA RepeatedNotAlone ==
    ASSUME TypeOK, NEW c \in Conns, Repeated(c) PROVE ~Alone(c)
<1> DEFINE S == {d \in Between(conn[c].owner, conn[c].with) : conn[d].sdp = 0}
<1>1. PICK d, e \in Between(conn[c].owner, conn[c].with) :
         d # e /\ conn[d].sdp = 0 /\ conn[e].sdp = 0
  BY DEF Repeated
<1>2. S \subseteq 1..Len(conn) /\ {d, e} \subseteq S
  BY <1>1 DEF Between, Conns
<1>3. IsFiniteSet(S)
  <2>1. 1 \in Int /\ Len(conn) \in Int
    BY DEF TypeOK
  <2>2. IsFiniteSet(1..Len(conn))
    BY <2>1, FS_Interval
  <2> HIDE DEF S
  <2> QED
    BY <1>2, <2>2, FS_Subset
<1>4. Cardinality({d, e}) = 2
  <2>1. IsFiniteSet({d}) /\ Cardinality({d}) = 1
    BY FS_Singleton
  <2>2. Cardinality({d} \cup {e}) = Cardinality({d}) + 1
    BY <1>1, <2>1, FS_AddElement
  <2>3. {d, e} = {d} \cup {e}
    OBVIOUS
  <2> QED
    BY <2>1, <2>2, <2>3
<1>5. Cardinality({d, e}) <= Cardinality(S) /\ Cardinality(S) \in Nat
  <2> HIDE DEF S
  <2> QED
    BY <1>2, <1>3, FS_Subset, FS_CardinalityType
<1>6. Cardinality(S) # 1 /\ Cardinality(S) > 1
  BY <1>4, <1>5
<1> QED
  BY <1>5, <1>6 DEF Alone

(* "Leave Room" closes every connection of the tab, for any number of      *)
(* peers, unless calls crossed or were repeated (cleanup).                 *)
THEOREM LeavingHangsUp == Spec => []LeaveHangsUp
<1>1. IInv => LeaveHangsUp
  <2> SUFFICES ASSUME IInv, NEW c \in Conns, room[conn[c].owner] = "out", Alone(c)
               PROVE  conn[c].sig = "closed"
    BY DEF LeaveHangsUp
  <2>1. TypeOK /\ HeldInv /\ LeftInv
    BY DEF IInv
  <2>2. c # 0 /\ conn[c].owner \in Peers /\ conn[c].with \in Peers
    BY <2>1, ConnTypes
  <2>3. entry[conn[c].owner][conn[c].with] # c
    BY <2>1, <2>2 DEF LeftInv
  <2> QED
    BY <2>1, <2>3, RepeatedNotAlone DEF HeldInv
<1> QED
  BY Invariance, <1>1, PTL

(* Once all is quiet and ICE has decided, whoever is listed and shown as   *)
(* "Connected" has a connection (connectedPeers, onconnectionstatechange), *)
(* for any number of peers and calls.                                      *)
THEOREM BadgesAreHonest == Spec => []BadgeHonest
<1>1. IInv => BadgeHonest
  <2> SUFFICES ASSUME IInv, Decided, NEW p \in Peers, NEW q \in badge[p] \ gone[p]
               PROVE  \E c \in Conns : /\ conn[c].owner = p /\ conn[c].with = q
                                       /\ conn[c].ice = "connected"
    BY DEF BadgeHonest
  <2>1. TypeOK /\ BadgeInv /\ StageInv
    BY DEF IInv
  <2>2. PICK c \in Conns : /\ conn[c].owner = p /\ conn[c].with = q
                           /\ conn[c].sig \in {"have-remote-offer", "stable"}
                           /\ conn[c].ice # "failed"
    BY <2>1 DEF BadgeInv
  <2>3. Silent /\ ~CanConnect(c) /\ ~CanFail(c)
    BY DEF Decided
  <2>4. conn[c].sig = "stable"
    BY <2>1, <2>2, <2>3 DEF Silent, StageInv
  <2>5. conn[c].ice # "new"
    BY <2>3, <2>4 DEF CanConnect, CanFail
  <2>6. conn[c].ice \in {"new", "connected", "failed"}
    BY <2>1, ConnTypes DEF Connection
  <2> QED
    BY <2>2, <2>5, <2>6
<1> QED
  BY Invariance, <1>1, PTL
=============================================================================
