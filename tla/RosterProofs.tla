---------------------------- MODULE RosterProofs -----------------------------
(***************************************************************************)
(* The roster of SignalingRoom for any tabs, peer ids and connections: with*)
(* hub methods that do not overlap and users who wait for the outcome of a *)
(* click, every registered tab ends up with exactly the other peers.       *)
(***************************************************************************)
EXTENDS SignalingRoomProofs, FiniteSetTheorems, SequenceTheorems

USE DEF Removed, Afterwards, ExistingPeers, Without

-----------------------------------------------------------------------------
(* Wires.                                                                  *)

(* One more message at the end.                                            *)
LEMMA Appended ==
    ASSUME NEW S, NEW w \in Seq(S), NEW x \in S, NEW v, v = Append(w, x)
    PROVE  /\ v \in Seq(S) /\ Len(w) \in Nat /\ Len(v) = Len(w) + 1
           /\ v[Len(v)] = x /\ \A j \in 1 .. Len(w) : v[j] = w[j]
OBVIOUS

LEMMA RangeAppended ==
    ASSUME NEW S, NEW w \in Seq(S), NEW x \in S
    PROVE  Range(Append(w, x)) = Range(w) \cup {x}
<1> DEFINE v == Append(w, x)
<1>1. /\ v \in Seq(S) /\ Len(w) \in Nat /\ Len(v) = Len(w) + 1
      /\ v[Len(v)] = x /\ \A j \in 1 .. Len(w) : v[j] = w[j]
      /\ DOMAIN v = 1 .. Len(v) /\ DOMAIN w = 1 .. Len(w)
  OBVIOUS
<1> HIDE DEF v
<1>2. \A j : j \in 1 .. Len(v) <=> j \in 1 .. Len(w) \/ j = Len(v)
  BY <1>1
<1>3. Range(v) = Range(w) \cup {x}
  BY <1>1, <1>2 DEF Range
<1> QED
  BY <1>3 DEF v

(* The first message gone.                                                 *)
LEMMA Handled ==
    ASSUME NEW S, NEW w \in Seq(S), w # <<>>, NEW v, v = Tail(w)
    PROVE  /\ v \in Seq(S) /\ Len(v) \in Nat /\ Len(w) = Len(v) + 1
           /\ w[1] = Head(w) /\ \A j \in 1 .. Len(v) : v[j] = w[j + 1]
           /\ Head(w) \in Range(w) /\ Range(v) \subseteq Range(w)
<1>1. /\ v \in Seq(S) /\ Len(v) \in Nat /\ Len(w) = Len(v) + 1
      /\ w[1] = Head(w) /\ \A j \in 1 .. Len(v) : v[j] = w[j + 1]
      /\ DOMAIN v = 1 .. Len(v) /\ DOMAIN w = 1 .. Len(w)
  OBVIOUS
<1>2. 1 \in 1 .. Len(w) /\ \A j \in 1 .. Len(v) : j + 1 \in 1 .. Len(w)
  BY <1>1
<1>3. Head(w) \in Range(w) /\ Range(v) \subseteq Range(w)
  BY <1>1, <1>2 DEF Range
<1> QED
  BY <1>1, <1>3

(* What joins the messages that a list is followed by.                     *)
LEMMA JoinedAppended ==
    ASSUME NEW w \in Seq(Message), NEW i \in Ids, NEW ids, i \notin ids,
           NEW list, list[i] = 0,
           NEW n \in 0 .. Len(w), EndsWith(ids, list, w, n),
           \A m \in Range(w) : ~Mentions(m, i),
           NEW v, v = Append(w, [kind |-> "PeerJoined", id |-> i])
    PROVE  EndsWith(ids \cup {i}, list, v, n)
<1> DEFINE x == [kind |-> "PeerJoined", id |-> i]
<1>1. x \in Message /\ x.kind = "PeerJoined" /\ x.id = i
  BY DEF Message
<1> HIDE DEF x
<1>2. /\ v \in Seq(Message) /\ Len(w) \in Nat /\ Len(v) = Len(w) + 1
      /\ v[Len(v)] = x /\ \A j \in 1 .. Len(w) : v[j] = w[j]
  BY <1>1, Appended DEF x
<1>3. \A j : j \in (n + 1) .. Len(v) <=> j \in (n + 1) .. Len(w) \/ j = Len(v)
  BY <1>2
<1>4. \A j \in (n + 1) .. Len(w) : j \in 1 .. Len(w) /\ v[j] = w[j]
  BY <1>2
<1>5. \A h \in Ids : h # i => About(v, n, h) = About(w, n, h)
  BY <1>1, <1>2, <1>3, <1>4 DEF About, IsAbout
<1>6. About(w, n, i) = {}
  <2>1. \A j \in 1 .. Len(w) : w[j] \in Range(w)
    BY DEF Range
  <2> QED
    BY <1>4, <2>1 DEF About, IsAbout, Mentions
<1>7. About(v, n, i) = {Len(v)}
  BY <1>1, <1>2, <1>3, <1>4, <1>6 DEF About, IsAbout
<1>8. \A j \in (n + 1) .. Len(v) : v[j].kind # "PeersList"
  BY <1>1, <1>2, <1>3, <1>4 DEF EndsWith
<1>9. Brings(list, v, n, i)
  BY <1>1, <1>2, <1>7 DEF Brings
<1>10. ASSUME NEW h \in Ids, h # i
       PROVE  IF h \in ids THEN Brings(list, v, n, h) ELSE Takes(list, v, n, h)
  <2>1. \A j \in About(w, n, h) : v[j] = w[j]
    BY <1>4 DEF About
  <2>2. CASE h \in ids
    BY <1>5, <1>10, <2>1, <2>2 DEF EndsWith, Brings
  <2>3. CASE h \notin ids
    BY <1>5, <1>10, <2>1, <2>3 DEF EndsWith, Takes
  <2> QED
    BY <2>2, <2>3
<1> QED
  BY <1>8, <1>9, <1>10 DEF EndsWith

LEMMA LeftAppended ==
    ASSUME NEW w \in Seq(Message), NEW i \in Ids, NEW ids, NEW list,
           NEW n \in 0 .. Len(w), EndsWith(ids, list, w, n),
           NEW v, v = Append(w, [kind |-> "PeerLeft", id |-> i])
    PROVE  EndsWith(ids \ {i}, list, v, n)
<1> DEFINE x == [kind |-> "PeerLeft", id |-> i]
<1>1. x \in Message /\ x.kind = "PeerLeft" /\ x.id = i
  BY DEF Message
<1> HIDE DEF x
<1>2. /\ v \in Seq(Message) /\ Len(w) \in Nat /\ Len(v) = Len(w) + 1
      /\ v[Len(v)] = x /\ \A j \in 1 .. Len(w) : v[j] = w[j]
  BY <1>1, Appended DEF x
<1>3. \A j : j \in (n + 1) .. Len(v) <=> j \in (n + 1) .. Len(w) \/ j = Len(v)
  BY <1>2
<1>4. \A j \in (n + 1) .. Len(w) : j \in 1 .. Len(w) /\ v[j] = w[j]
  BY <1>2
<1>5. \A h \in Ids : h # i => About(v, n, h) = About(w, n, h)
  BY <1>1, <1>2, <1>3, <1>4 DEF About, IsAbout
<1>6. Len(v) \in About(v, n, i) /\ v[Len(v)].kind = "PeerLeft"
  BY <1>1, <1>2, <1>3 DEF About, IsAbout
<1>7. \A l \in About(v, n, i) : l <= Len(v)
  BY <1>2 DEF About
<1>8. \A j \in (n + 1) .. Len(v) : v[j].kind # "PeersList"
  BY <1>1, <1>2, <1>3, <1>4 DEF EndsWith
<1>9. Takes(list, v, n, i)
  BY <1>6, <1>7 DEF Takes
<1>10. ASSUME NEW h \in Ids, h # i
       PROVE  IF h \in ids THEN Brings(list, v, n, h) ELSE Takes(list, v, n, h)
  <2>1. \A j \in About(w, n, h) : v[j] = w[j]
    BY <1>4 DEF About
  <2>2. CASE h \in ids
    BY <1>5, <1>10, <2>1, <2>2 DEF EndsWith, Brings
  <2>3. CASE h \notin ids
    BY <1>5, <1>10, <2>1, <2>3 DEF EndsWith, Takes
  <2> QED
    BY <2>2, <2>3
<1> QED
  BY <1>8, <1>9, <1>10 DEF EndsWith

(* The wire moves on by one message, which is before the list.             *)
LEMMA MovedOn ==
    ASSUME NEW w \in Seq(Message), w # <<>>, NEW ids, NEW list,
           NEW n \in 1 .. Len(w), EndsWith(ids, list, w, n),
           NEW v, v = Tail(w)
    PROVE  n - 1 \in 0 .. Len(v) /\ EndsWith(ids, list, v, n - 1)
<1>1. /\ v \in Seq(Message) /\ Len(v) \in Nat /\ Len(w) = Len(v) + 1
      /\ \A j \in 1 .. Len(v) : v[j] = w[j + 1]
  BY Handled
<1>2. /\ n - 1 \in 0 .. Len(v)
      /\ \A j \in ((n - 1) + 1) .. Len(v) : j + 1 \in (n + 1) .. Len(w) /\ v[j] = w[j + 1]
      /\ \A j \in (n + 1) .. Len(w) : j - 1 \in ((n - 1) + 1) .. Len(v) /\ w[j] = v[j - 1]
  <2>1. \A j \in (n + 1) .. Len(w) : j - 1 \in ((n - 1) + 1) .. Len(v) /\ j - 1 \in 1 .. Len(v) /\ (j - 1) + 1 = j
    BY <1>1
  <2> QED
    BY <1>1, <2>1
<1>3. \A h \in Ids :
        /\ \A j \in About(v, n - 1, h) : j + 1 \in About(w, n, h) /\ v[j] = w[j + 1] /\ j \in Int
        /\ \A j \in About(w, n, h) : j - 1 \in About(v, n - 1, h) /\ w[j] = v[j - 1] /\ j \in Int
  BY <1>2 DEF About, IsAbout
<1> DEFINE m == n - 1
<1>4. m \in 0 .. Len(v)
  BY <1>2
<1>5. \A h \in Ids :
        /\ \A j \in About(v, m, h) : j + 1 \in About(w, n, h) /\ v[j] = w[j + 1] /\ j \in Int
        /\ \A j \in About(w, n, h) : j - 1 \in About(v, m, h) /\ w[j] = v[j - 1] /\ j \in Int
  BY <1>3
<1>6. \A j \in (m + 1) .. Len(v) : v[j].kind # "PeersList"
  BY <1>2 DEF EndsWith
<1> HIDE DEF m
<1>7. ASSUME NEW h \in Ids, Brings(list, w, n, h) PROVE Brings(list, v, m, h)
  <2>1. CASE list[h] = 1 /\ About(w, n, h) = {}
    BY <1>5, <2>1 DEF Brings
  <2>2. ASSUME list[h] = 0, NEW j \in About(w, n, h),
               w[j].kind = "PeerJoined", \A l \in About(w, n, h) : l = j
        PROVE  Brings(list, v, m, h)
    <3>1. j - 1 \in About(v, m, h) /\ v[j - 1].kind = "PeerJoined" /\ j \in Int
      BY <1>5, <2>2
    <3>2. \A l \in About(v, m, h) : l + 1 = j /\ l \in Int
      BY <1>5, <2>2
    <3>3. \A l \in About(v, m, h) : l = j - 1
      BY <3>1, <3>2
    <3> QED
      BY <2>2, <3>1, <3>3 DEF Brings
  <2> QED
    BY <1>7, <2>1, <2>2 DEF Brings
<1>8. ASSUME NEW h \in Ids, Takes(list, w, n, h) PROVE Takes(list, v, m, h)
  <2>1. CASE list[h] = 0 /\ About(w, n, h) = {}
    BY <1>5, <2>1 DEF Takes
  <2>2. ASSUME NEW j \in About(w, n, h),
               w[j].kind = "PeerLeft", \A l \in About(w, n, h) : l <= j
        PROVE  Takes(list, v, m, h)
    <3>1. j - 1 \in About(v, m, h) /\ v[j - 1].kind = "PeerLeft" /\ j \in Int
      BY <1>5, <2>2
    <3>2. \A l \in About(v, m, h) : l + 1 <= j /\ l \in Int
      BY <1>5, <2>2
    <3>3. \A l \in About(v, m, h) : l <= j - 1
      BY <3>1, <3>2
    <3> QED
      BY <3>1, <3>3 DEF Takes
  <2> QED
    BY <1>8, <2>1, <2>2 DEF Takes
<1>9. EndsWith(ids, list, v, m)
  BY <1>6, <1>7, <1>8 DEF EndsWith
<1> QED
  BY <1>4, <1>9 DEF m

(* The handlers of registerHandlers.                                       *)
LEMMA Handling ==
    ASSUME NEW list \in [Ids -> Nat], NEW m \in Message, NEW i \in Ids
    PROVE  /\ m.kind = "PeersList" => Handle(list, m) = ListOf(m.ids)
           /\ ~IsAbout(m, i) /\ m.kind # "PeersList" => Handle(list, m)[i] = list[i]
           /\ IsAbout(m, i) /\ m.kind = "PeerJoined" => Handle(list, m)[i] = list[i] + 1
           /\ IsAbout(m, i) /\ m.kind = "PeerLeft" => Handle(list, m)[i] = 0
<1>1. CASE m.kind = "PeersList"
  BY <1>1 DEF Handle, IsAbout
<1>2. CASE m.kind = "PeerJoined"
  <2>1. Handle(list, m) = [list EXCEPT ![m.id] = list[m.id] + 1]
    BY <1>2 DEF Handle
  <2> QED
    BY <1>2, <2>1 DEF IsAbout
<1>3. CASE m.kind = "PeerLeft"
  <2>1. Handle(list, m) = [list EXCEPT ![m.id] = 0]
    BY <1>3 DEF Handle
  <2> QED
    BY <1>3, <2>1 DEF IsAbout
<1>4. CASE m.kind \notin {"PeersList", "PeerJoined", "PeerLeft"}
  BY <1>4 DEF Handle, IsAbout
<1> QED
  BY <1>1, <1>2, <1>3, <1>4

(* A message is handled by the list that it follows.                       *)
LEMMA HandledByList ==
    ASSUME NEW w \in Seq(Message), w # <<>>, NEW ids, NEW list \in [Ids -> Nat],
           EndsWith(ids, list, w, 0), NEW v, v = Tail(w)
    PROVE  EndsWith(ids, Handle(list, Head(w)), v, 0)
<1> DEFINE x == Head(w)
<1>1. /\ v \in Seq(Message) /\ Len(v) \in Nat /\ Len(w) = Len(v) + 1
      /\ w[1] = x /\ \A j \in 1 .. Len(v) : v[j] = w[j + 1]
  BY Handled
<1>2. x \in Message
  OBVIOUS
<1>3. /\ 1 \in 1 .. Len(w) /\ 0 + 1 = 1
      /\ \A j \in 1 .. Len(v) : j + 1 \in 1 .. Len(w) /\ j + 1 # 1 /\ j \in Int
      /\ \A j \in 1 .. Len(w) : j # 1 => j - 1 \in 1 .. Len(v) /\ w[j] = v[j - 1] /\ j \in Int
  BY <1>1
<1>4. x.kind # "PeersList" /\ \A j \in 1 .. Len(v) : v[j].kind # "PeersList"
  BY <1>1, <1>3 DEF EndsWith
<1> HIDE DEF x
<1>5. ASSUME NEW h \in Ids
      PROVE  /\ \A j \in About(v, 0, h) : j + 1 \in About(w, 0, h) /\ v[j] = w[j + 1] /\ j + 1 # 1 /\ j \in Int
             /\ \A j \in About(w, 0, h) : j # 1 => j - 1 \in About(v, 0, h) /\ w[j] = v[j - 1] /\ j \in Int
             /\ 1 \in About(w, 0, h) <=> IsAbout(x, h)
  BY <1>1, <1>3 DEF About, IsAbout
<1>6. ASSUME NEW h \in Ids, Brings(list, w, 0, h) PROVE Brings(Handle(list, x), v, 0, h)
  <2>1. CASE IsAbout(x, h)
    <3>1. x.kind = "PeerJoined" /\ list[h] = 0 /\ About(v, 0, h) = {}
      BY <1>1, <1>5, <1>6, <2>1 DEF Brings
    <3> QED
      BY <1>2, <2>1, <3>1, Handling DEF Brings
  <2>2. CASE ~IsAbout(x, h)
    <3>1. Handle(list, x)[h] = list[h]
      BY <1>2, <1>4, <2>2, Handling
    <3>2. \A j \in About(w, 0, h) : j # 1
      BY <1>5, <2>2
    <3>3. CASE list[h] = 1 /\ About(w, 0, h) = {}
      BY <1>5, <3>1, <3>3 DEF Brings
    <3>4. ASSUME list[h] = 0, NEW j \in About(w, 0, h),
                 w[j].kind = "PeerJoined", \A l \in About(w, 0, h) : l = j
          PROVE  Brings(Handle(list, x), v, 0, h)
      <4>1. j - 1 \in About(v, 0, h) /\ v[j - 1].kind = "PeerJoined" /\ j \in Int
        BY <1>5, <3>2, <3>4
      <4>2. \A l \in About(v, 0, h) : l + 1 = j /\ l \in Int
        BY <1>5, <3>4
      <4>3. \A l \in About(v, 0, h) : l = j - 1
        BY <4>1, <4>2
      <4> QED
        BY <3>1, <3>4, <4>1, <4>3 DEF Brings
    <3> QED
      BY <1>6, <3>3, <3>4 DEF Brings
  <2> QED
    BY <2>1, <2>2
<1>7. ASSUME NEW h \in Ids, Takes(list, w, 0, h) PROVE Takes(Handle(list, x), v, 0, h)
  <2>1. CASE list[h] = 0 /\ About(w, 0, h) = {}
    BY <1>2, <1>4, <1>5, <2>1, Handling DEF Takes
  <2>2. ASSUME NEW j \in About(w, 0, h),
               w[j].kind = "PeerLeft", \A l \in About(w, 0, h) : l <= j
        PROVE  Takes(Handle(list, x), v, 0, h)
    <3>1. CASE j = 1
      <4>1. IsAbout(x, h) /\ x.kind = "PeerLeft"
        BY <1>1, <1>5, <2>2, <3>1
      <4>2. About(v, 0, h) = {}
        <5>1. ASSUME NEW l \in About(v, 0, h) PROVE FALSE
          <6>1. l + 1 <= 1 /\ l \in 1 .. Len(v)
            BY <1>5, <2>2, <3>1, <1>3 DEF About
          <6> QED
            BY <6>1
        <5> QED
          BY <5>1
      <4> QED
        BY <1>2, <4>1, <4>2, Handling DEF Takes
    <3>2. CASE j # 1
      <4>1. j - 1 \in About(v, 0, h) /\ v[j - 1].kind = "PeerLeft" /\ j \in Int
        BY <1>5, <2>2, <3>2
      <4>2. \A l \in About(v, 0, h) : l + 1 <= j /\ l \in Int
        BY <1>5, <2>2
      <4>3. \A l \in About(v, 0, h) : l <= j - 1
        BY <4>1, <4>2
      <4> QED
        BY <4>1, <4>3 DEF Takes
    <3> QED
      BY <3>1, <3>2
  <2> QED
    BY <1>7, <2>1, <2>2 DEF Takes
<1>8. \A j \in (0 + 1) .. Len(v) : v[j].kind # "PeersList"
  BY <1>4
<1>9. EndsWith(ids, Handle(list, x), v, 0)
  BY <1>6, <1>7, <1>8 DEF EndsWith
<1> QED
  BY <1>9 DEF x

(* The same, wherever the list is.                                         *)
LEMMA ToldJoined ==
    ASSUME NEW w \in Seq(Message), NEW i \in Ids, NEW ids, i \notin ids,
           NEW list, list[i] = 0, Told(ids, list, w),
           \A m \in Range(w) : ~Mentions(m, i),
           NEW v, v = Append(w, [kind |-> "PeerJoined", id |-> i])
    PROVE  Told(ids \cup {i}, list, v)
<1>0. [kind |-> "PeerJoined", id |-> i] \in Message
  BY DEF Message
<1>1. Len(w) \in Nat /\ Len(v) = Len(w) + 1 /\ \A j \in 1 .. Len(w) : v[j] = w[j]
  BY <1>0, Appended
<1>2. CASE EndsWith(ids, list, w, 0)
  <2>1. 0 \in 0 .. Len(w)
    BY <1>1
  <2> QED
    BY <1>2, <2>1, JoinedAppended DEF Told
<1>3. ASSUME NEW n \in 1 .. Len(w), w[n].kind = "PeersList", EndsWith(ids, ListOf(w[n].ids), w, n)
      PROVE  Told(ids \cup {i}, list, v)
  <2>1. n \in 0 .. Len(w) /\ n \in 1 .. Len(v) /\ v[n] = w[n]
    BY <1>1
  <2>2. ListOf(w[n].ids)[i] = 0
    <3>1. w[n] \in Range(w)
      BY DEF Range
    <3> QED
      BY <1>3, <3>1 DEF Mentions, ListOf
  <2>3. EndsWith(ids \cup {i}, ListOf(w[n].ids), v, n)
    BY <1>3, <2>1, <2>2, JoinedAppended
  <2> QED
    BY <1>3, <2>1, <2>3 DEF Told
<1> QED
  BY <1>2, <1>3 DEF Told

LEMMA ToldLeft ==
    ASSUME NEW w \in Seq(Message), NEW i \in Ids, NEW ids, NEW list, Told(ids, list, w),
           NEW v, v = Append(w, [kind |-> "PeerLeft", id |-> i])
    PROVE  Told(ids \ {i}, list, v)
<1>0. [kind |-> "PeerLeft", id |-> i] \in Message
  BY DEF Message
<1>1. Len(w) \in Nat /\ Len(v) = Len(w) + 1 /\ \A j \in 1 .. Len(w) : v[j] = w[j]
  BY <1>0, Appended
<1>2. CASE EndsWith(ids, list, w, 0)
  <2>1. 0 \in 0 .. Len(w)
    BY <1>1
  <2> QED
    BY <1>2, <2>1, LeftAppended DEF Told
<1>3. ASSUME NEW n \in 1 .. Len(w), w[n].kind = "PeersList", EndsWith(ids, ListOf(w[n].ids), w, n)
      PROVE  Told(ids \ {i}, list, v)
  <2>1. n \in 0 .. Len(w) /\ n \in 1 .. Len(v) /\ v[n] = w[n]
    BY <1>1
  <2>2. EndsWith(ids \ {i}, ListOf(w[n].ids), v, n)
    BY <1>3, <2>1, LeftAppended
  <2> QED
    BY <1>3, <2>1, <2>2 DEF Told
<1> QED
  BY <1>2, <1>3 DEF Told

LEMMA ToldHandled ==
    ASSUME NEW w \in Seq(Message), w # <<>>, NEW ids, NEW list \in [Ids -> Nat],
           Told(ids, list, w), NEW v, v = Tail(w)
    PROVE  Told(ids, Handle(list, Head(w)), v)
<1>1. /\ Len(v) \in Nat /\ Len(w) = Len(v) + 1
      /\ w[1] = Head(w) /\ \A j \in 1 .. Len(v) : v[j] = w[j + 1]
  BY Handled
<1>2. CASE EndsWith(ids, list, w, 0)
  BY <1>2, HandledByList DEF Told
<1>3. ASSUME NEW n \in 1 .. Len(w), w[n].kind = "PeersList", EndsWith(ids, ListOf(w[n].ids), w, n)
      PROVE  Told(ids, Handle(list, Head(w)), v)
  <2>1. EndsWith(ids, ListOf(w[n].ids), v, n - 1)
    BY <1>3, MovedOn
  <2>2. CASE n = 1
    <3>1. Handle(list, Head(w)) = ListOf(w[n].ids) /\ n - 1 = 0
      BY <1>1, <1>3, <2>2 DEF Handle
    <3> QED
      BY <2>1, <3>1 DEF Told
  <2>3. CASE n # 1
    <3>1. n - 1 \in 1 .. Len(v) /\ (n - 1) + 1 = n
      BY <1>1, <2>3
    <3>2. v[n - 1] = w[n]
      BY <1>1, <3>1
    <3> QED
      BY <1>3, <2>1, <3>1, <3>2 DEF Told
  <2> QED
    BY <2>2, <2>3
<1> QED
  BY <1>2, <1>3 DEF Told

(* The PeersList is sent.                                                  *)
LEMMA ToldReplied ==
    ASSUME NEW w \in Seq(Message), NEW ids \in SUBSET Ids, NEW i \in Ids, NEW list,
           NEW v, v = w \o <<[kind |-> "PeersList", ids |-> ids], [kind |-> "Completion", id |-> i]>>
    PROVE  Told(ids, list, v)
<1> DEFINE x == [kind |-> "PeersList", ids |-> ids]
           y == [kind |-> "Completion", id |-> i]
           n == Len(w) + 1
<1>1. x \in Message /\ x.kind = "PeersList" /\ x.ids = ids
  BY DEF Message
<1>2. y \in Message /\ y.kind = "Completion"
  BY DEF Message
<1> HIDE DEF x, y
<1>3. v = w \o <<x, y>>
  BY DEF x, y
<1>4. Len(w) \in Nat /\ Len(v) = Len(w) + 2 /\ v[Len(w) + 1] = x /\ v[Len(w) + 2] = y
  BY <1>1, <1>2, <1>3
<1>5. n \in 1 .. Len(v) /\ v[n] = x /\ \A j \in (n + 1) .. Len(v) : v[j] = y
  <2>1. \A j \in (n + 1) .. Len(v) : j = Len(w) + 2
    BY <1>4
  <2>2. \A j \in (n + 1) .. Len(v) : v[j] = y
    BY <1>4, <2>1
  <2>3. n \in 1 .. Len(v) /\ v[n] = x
    BY <1>4
  <2> QED
    BY <2>2, <2>3
<1> HIDE DEF n
<1>6. \A h \in Ids : About(v, n, h) = {}
  BY <1>2, <1>5 DEF About, IsAbout
<1>7. EndsWith(ids, ListOf(ids), v, n)
  BY <1>2, <1>5, <1>6 DEF EndsWith, Brings, Takes, ListOf
<1> QED
  BY <1>1, <1>5, <1>7 DEF Told

(* All has been delivered.                                                 *)
LEMMA ToldAll ==
    ASSUME NEW ids, NEW list \in [Ids -> Nat], NEW w, w = <<>>, Told(ids, list, w)
    PROVE  list = ListOf(ids)
<1>1. Len(w) = 0
  OBVIOUS
<1>2. EndsWith(ids, list, w, 0)
  BY <1>1 DEF Told
<1>3. \A h \in Ids : About(w, 0, h) = {}
  BY <1>1 DEF About
<1>4. \A h \in Ids : list[h] = IF h \in ids THEN 1 ELSE 0
  BY <1>2, <1>3 DEF EndsWith, Brings, Takes
<1> QED
  BY <1>4 DEF ListOf

-----------------------------------------------------------------------------
(* The hub does one thing at a time.                                       *)
LEMMA FreeIsIdle ==
    ASSUME Overlap = 1, Free PROVE Busy = {}
<1>1. IsFiniteSet(Busy)
  BY SetsAssumption, FS_Subset DEF Busy
<1>2. Cardinality(Busy) \in Nat /\ Cardinality(Busy) < 1
  BY <1>1, FS_CardinalityType DEF Free
<1> QED
  BY <1>1, <1>2, FS_EmptySet

(* No access to the dictionary falls into another one.                     *)
LEMMA Uncontended ==
    ASSUME Overlap = 1, OneAtATime, NEW k \in Conns,
           Register(k) \/ List(k) \/ OnDisconnected(k)
    PROVE  Outcomes(k) = {"done"}
<1>1. CASE Register(k) \/ OnDisconnected(k)
  <2>1. Busy = {}
    BY <1>1, FreeIsIdle DEF Register, OnDisconnected
  <2> QED
    BY <2>1 DEF Outcomes, Contended, Busy
<1>2. CASE List(k)
  <2>1. pc[k] = "list"
    BY <1>2 DEF List
  <2>2. \A o \in Conns \ {k} : o \notin Busy
    BY <2>1 DEF OneAtATime, Busy
  <2> QED
    BY <2>2 DEF Outcomes, Contended, Busy
<1> QED
  BY <1>1, <1>2

(* What the methods of the hub do then.                                    *)
LEMMA CalmSteps ==
    ASSUME Overlap = 1, OneAtATime, NEW k \in Conns
    PROVE  /\ Register(k) => /\ peers' = [peers EXCEPT ![k] = Head(calls[k])]
                             /\ pc' = [pc EXCEPT ![k] = "announce"]
           /\ Announce(k) => peer[k] = peers[k]
           /\ List(k) => /\ listed' = [listed EXCEPT ![k] = OthersThan(k)]
                         /\ pc' = [pc EXCEPT ![k] = "reply"]
           /\ Reply(k) => pc[k] = "reply" /\ peer[k] = peers[k]
           /\ OnDisconnected(k) =>
                /\ peers' = [peers EXCEPT ![k] = None]
                /\ leaving' = [leaving EXCEPT ![k] = peers[k]]
                /\ state' = [state EXCEPT ![k] = IF peers[k] = None THEN "closed" ELSE "leaving"]
<1>1. ASSUME Register(k) PROVE /\ peers' = [peers EXCEPT ![k] = Head(calls[k])]
                              /\ pc' = [pc EXCEPT ![k] = "announce"]
  <2>1. Outcomes(k) = {"done"}
    BY <1>1, Uncontended
  <2> QED
    BY <1>1, <2>1 DEF Register
<1>2. ASSUME List(k) PROVE /\ listed' = [listed EXCEPT ![k] = OthersThan(k)]
                          /\ pc' = [pc EXCEPT ![k] = "reply"]
  <2>1. Outcomes(k) = {"done"}
    BY <1>2, Uncontended
  <2> QED
    BY <1>2, <2>1 DEF List
<1>3. ASSUME OnDisconnected(k)
      PROVE  /\ peers' = [peers EXCEPT ![k] = None]
             /\ leaving' = [leaving EXCEPT ![k] = peers[k]]
             /\ state' = [state EXCEPT ![k] = IF peers[k] = None THEN "closed" ELSE "leaving"]
  <2>1. Outcomes(k) = {"done"}
    BY <1>3, Uncontended
  <2> QED
    BY <1>3, <2>1 DEF OnDisconnected
<1>4. ASSUME Announce(k) PROVE peer[k] = peers[k]
  BY <1>4 DEF Announce, OneAtATime
<1>5. ASSUME Reply(k) PROVE pc[k] = "reply" /\ peer[k] = peers[k]
  BY <1>5 DEF Reply, OneAtATime
<1> QED
  BY <1>1, <1>2, <1>3, <1>4, <1>5

LEMMA OneAtATimeStep ==
    ASSUME Overlap = 1, TypeOK, LinkInv, OneAtATime, [Next]_vars
    PROVE  OneAtATime'
<1>t. /\ pc \in [Conns -> {"idle", "announce", "list", "reply", "failed"}]
      /\ state \in [Conns -> ConnStates] /\ peers \in [Conns -> Ids \cup {None}]
      /\ leaving \in [Conns -> Ids \cup {None}] /\ listed \in [Conns -> SUBSET Ids]
      /\ calls \in [Conns -> Seq(Ids)] /\ peer \in [Conns -> Ids \cup {None}]
  BY DEF TypeOK
<1>0. \A k \in Conns : k \in Busy <=> pc[k] # "idle" \/ state[k] = "leaving"
  BY DEF Busy
<1>q. \A k, o \in Busy : k = o
  BY DEF OneAtATime
<1>1. ASSUME NEW t \in Tabs, TabStep(t) PROVE OneAtATime'
  <2>1. UNCHANGED <<peers, pc, peer, listed, leaving>>
    BY <1>1, TabFrame DEF hubVars
  <2>2. ASSUME NEW k \in Conns
        PROVE  /\ state'[k] = "leaving" <=> state[k] = "leaving"
               /\ state[k] \in {"open", "dropped"} => state'[k] \in {"open", "dropped"}
    <3>1. \/ state'[k] = state[k]
          \/ state[k] = "unused" /\ state'[k] = "open"
          \/ k = link[t] /\ state'[k] = "dropped"
      BY <1>1, TabFrame
    <3>2. k = link[t] => state[k] = "open"
      BY NoneAssumption DEF LinkInv
    <3> QED
      BY <3>1, <3>2
  <2>3. Busy' = Busy
    BY <2>1, <2>2 DEF Busy
  <2>4. \A k \in Conns : OthersThan(k)' = OthersThan(k)
    BY <2>1 DEF OthersThan
  <2> QED
    BY <2>1, <2>2, <2>3, <2>4 DEF OneAtATime
<1>2. ASSUME NEW k \in Conns, Register(k) PROVE OneAtATime'
  <2>0. Busy = {}
    BY <1>2, FreeIsIdle DEF Register
  <2>2. /\ pc'[k] = "announce" /\ \A o \in Conns : o # k => pc'[o] = "idle"
        /\ peers'[k] = peer'[k]
        /\ UNCHANGED <<state, leaving, listed>> /\ state[k] \in {"open", "dropped"}
    <3>1. peers' = [peers EXCEPT ![k] = Head(calls[k])] /\ pc' = [pc EXCEPT ![k] = "announce"]
      BY <1>2, CalmSteps
    <3> QED
      BY <1>t, <1>0, <1>2, <2>0, <3>1 DEF Register
  <2>3. Busy' = {k}
    BY <1>0, <2>0, <2>2 DEF Busy
  <2> QED
    BY <2>2, <2>3 DEF OneAtATime
<1>3. ASSUME NEW k \in Conns, Announce(k) PROVE OneAtATime'
  <2>1. /\ pc[k] = "announce" /\ pc'[k] = "list" /\ \A o \in Conns : o # k => pc'[o] = pc[o]
        /\ UNCHANGED <<state, leaving, listed, peers, peer>>
    BY <1>t, <1>3 DEF Announce
  <2>2. Busy' = Busy
    BY <2>1 DEF Busy
  <2>3. k \in Busy
    BY <2>1 DEF Busy
  <2>4. \A o \in Conns : pc'[o] # "reply"
    BY <1>0, <1>q, <2>1, <2>3
  <2> QED
    BY <1>q, <2>1, <2>2, <2>4 DEF OneAtATime
<1>4. ASSUME NEW k \in Conns, List(k) PROVE OneAtATime'
  <2>1. /\ pc[k] = "list" /\ pc'[k] = "reply" /\ \A o \in Conns : o # k => pc'[o] = pc[o]
        /\ UNCHANGED <<state, leaving, peers, peer>>
        /\ listed'[k] = OthersThan(k)
    BY <1>t, <1>4, CalmSteps DEF List
  <2>2. Busy' = Busy
    BY <2>1 DEF Busy
  <2>3. k \in Busy
    BY <2>1 DEF Busy
  <2>4. \A o \in Conns : o # k => pc'[o] = "idle"
    BY <1>0, <1>q, <2>1, <2>3
  <2>5. OthersThan(k)' = OthersThan(k)
    BY <2>1 DEF OthersThan
  <2> QED
    BY <1>q, <2>1, <2>2, <2>4, <2>5 DEF OneAtATime
<1>5. ASSUME NEW k \in Conns, Reply(k) PROVE OneAtATime'
  <2>1. /\ pc[k] = "reply" /\ pc'[k] = "idle" /\ \A o \in Conns : o # k => pc'[o] = pc[o]
        /\ UNCHANGED <<state, leaving, peers>>
    BY <1>t, <1>5, CalmSteps DEF Reply
  <2>3. k \in Busy /\ Busy' \subseteq Busy
    BY <2>1 DEF Busy
  <2>4. \A o \in Conns : pc'[o] = "idle"
    BY <1>0, <1>q, <2>1, <2>3
  <2> QED
    BY <1>q, <2>1, <2>3, <2>4 DEF OneAtATime
<1>6. ASSUME NEW k \in Conns, OnDisconnected(k) PROVE OneAtATime'
  <2>0. Busy = {}
    BY <1>6, FreeIsIdle DEF OnDisconnected
  <2>1. /\ \A o \in Conns : pc'[o] = "idle"
        /\ leaving'[k] = peers[k] /\ (state'[k] = "leaving" <=> peers[k] # None)
        /\ \A o \in Conns : o # k => leaving'[o] = leaving[o] /\ state'[o] = state[o] /\ state[o] # "leaving"
    <3>1. /\ peers' = [peers EXCEPT ![k] = None] /\ leaving' = [leaving EXCEPT ![k] = peers[k]]
          /\ state' = [state EXCEPT ![k] = IF peers[k] = None THEN "closed" ELSE "leaving"]
      BY <1>6, CalmSteps
    <3> QED
      BY <1>t, <1>0, <1>6, <2>0, <3>1 DEF OnDisconnected
  <2>2. Busy' \subseteq {k}
    BY <2>1 DEF Busy
  <2> QED
    BY <2>1, <2>2 DEF OneAtATime
<1>7. ASSUME NEW k \in Conns, SendPeerLeft(k) PROVE OneAtATime'
  <2>1. /\ state[k] = "leaving" /\ UNCHANGED <<peers, pc, peer, listed>>
        /\ leaving'[k] = None /\ state'[k] = "closed"
        /\ \A o \in Conns : o # k => leaving'[o] = leaving[o] /\ state'[o] = state[o]
    BY <1>t, <1>7 DEF SendPeerLeft, ConnStates
  <2>2. k \in Busy /\ Busy' \subseteq Busy
    BY <2>1 DEF Busy
  <2>3. \A o \in Conns : pc'[o] = "idle"
    BY <1>0, <1>q, <2>1, <2>2 DEF OneAtATime
  <2> QED
    BY <1>q, <2>1, <2>2, <2>3 DEF OneAtATime
<1>8. CASE UNCHANGED vars
  <2>1. UNCHANGED <<peers, pc, peer, listed, leaving, state>>
    BY <1>8 DEF vars, hubVars
  <2>2. Busy' = Busy /\ \A k \in Conns : OthersThan(k)' = OthersThan(k)
    BY <2>1 DEF Busy, OthersThan
  <2> QED
    BY <2>1, <2>2 DEF OneAtATime
<1> QED
  BY <1>1, <1>2, <1>3, <1>4, <1>5, <1>6, <1>7, <1>8 DEF Next, InvocationStep, DisconnectStep

(* Register sets the entry only while the server still has the connection, *)
(* and the entry goes in the step that ends the connection.                *)
LEMMA NoLeakStep ==
    ASSUME Overlap = 1, TypeOK, OneAtATime, NoLeakedPeer, [Next]_vars
    PROVE  NoLeakedPeer'
<1>t. /\ peers \in [Conns -> Ids \cup {None}] /\ state \in [Conns -> ConnStates]
      /\ leaving \in [Conns -> Ids \cup {None}]
  BY DEF TypeOK
<1>1. ASSUME NEW t \in Tabs, TabStep(t) PROVE NoLeakedPeer'
  <2>1. UNCHANGED peers
    BY <1>1, TabFrame DEF hubVars
  <2> QED
    BY <1>1, <2>1, TabFrame DEF NoLeakedPeer
<1>2. ASSUME NEW k \in Conns, Register(k) PROVE NoLeakedPeer'
  <2>1. /\ state[k] \in {"open", "dropped"} /\ UNCHANGED state
        /\ \A o \in Conns : o # k => peers'[o] = peers[o]
    BY <1>t, <1>2, CalmSteps DEF Register
  <2> QED
    BY <2>1 DEF NoLeakedPeer
<1>3. ASSUME NEW k \in Conns, Announce(k) \/ List(k) \/ Reply(k) PROVE NoLeakedPeer'
  BY <1>3 DEF Announce, List, Reply, NoLeakedPeer
<1>4. ASSUME NEW k \in Conns, OnDisconnected(k) PROVE NoLeakedPeer'
  <2>1. /\ peers'[k] = None
        /\ \A o \in Conns : o # k => peers'[o] = peers[o] /\ state'[o] = state[o]
    BY <1>t, <1>4, CalmSteps
  <2> QED
    BY <2>1 DEF NoLeakedPeer
<1>5. ASSUME NEW k \in Conns, SendPeerLeft(k) PROVE NoLeakedPeer'
  <2>1. /\ state[k] = "leaving" /\ UNCHANGED peers
        /\ \A o \in Conns : o # k => state'[o] = state[o]
    BY <1>t, <1>5 DEF SendPeerLeft
  <2> QED
    BY <2>1 DEF NoLeakedPeer
<1>6. CASE UNCHANGED vars
  BY <1>6 DEF vars, hubVars, NoLeakedPeer
<1> QED
  BY <1>1, <1>2, <1>3, <1>4, <1>5, <1>6 DEF Next, InvocationStep, DisconnectStep

-----------------------------------------------------------------------------
(* The links of the tabs.                                                  *)

(* What each step of a tab does to them.                                   *)
Opens(t, k) ==
    /\ link[t] = None /\ link'[t] = k /\ hub'[t] = "up"
    /\ state[k] = "unused" /\ state'[k] = "open"
    /\ \A u \in Tabs : u # t => link'[u] = link[u] /\ hub'[u] = hub[u]
    /\ \A o \in Conns : o # k => state'[o] = state[o]
    /\ \A o \in Conns : calls'[o] = calls[o] \/ o = k
    /\ UNCHANGED <<wire, roster, shown, tab>>

Cuts(t) ==
    /\ link[t] # None /\ link'[t] = None /\ hub'[t] # "up"
    /\ state'[link[t]] = "dropped" /\ wire'[link[t]] = <<>>
    /\ \A u \in Tabs : u # t => link'[u] = link[u] /\ hub'[u] = hub[u]
    /\ \A o \in Conns : o # link[t] => state'[o] = state[o] /\ wire'[o] = wire[o]
    /\ UNCHANGED <<calls, roster, tab>>
    /\ \A u \in Tabs : u # t => shown'[u] = shown[u]
    /\ Reject(t)

Waits(t) ==
    /\ UNCHANGED <<link, state>>
    /\ hub'[t] = "up" <=> hub[t] = "up"
    /\ \A u \in Tabs : u # t => hub'[u] = hub[u]

LEMMA TabEffect ==
    ASSUME TypeOK, LinkInv, NEW t \in Tabs, TabStep(t)
    PROVE  (\E k \in Conns : Opens(t, k)) \/ Cuts(t) \/ Waits(t)
<1>t. /\ link \in [Tabs -> Conns \cup {None}] /\ hub \in [Tabs -> HubStates]
      /\ state \in [Conns -> ConnStates] /\ wire \in [Conns -> Seq(Message)]
      /\ calls \in [Conns -> Seq(Ids)] /\ shown \in [Tabs -> BOOLEAN]
  BY DEF TypeOK
<1>1. ASSUME NEW i \in Ids, Click(t, i) PROVE Waits(t)
  BY <1>t, <1>1 DEF Click, Waits
<1>2. ASSUME NEW k \in Conns, Started(t, k) \/ Reconnected(t, k) PROVE Opens(t, k)
  <2>1. link[t] = None
    BY <1>2 DEF Started, Reconnected, LinkInv
  <2>2. \A o \in Conns : calls'[o] = calls[o] \/ o = k
    BY <1>t, <1>2 DEF Started, Reconnected
  <2>3. UNCHANGED <<wire, roster, shown, tab>>
    BY <1>2 DEF Started, Reconnected
  <2>4. Open(t, k)
    BY <1>2 DEF Started, Reconnected
  <2> QED
    BY <1>t, <2>1, <2>2, <2>3, <2>4 DEF Open, Opens
<1>3. ASSUME StartFails(t) \/ GivesUp(t) \/ Stopped(t) \/ Deliver(t) PROVE Waits(t)
  BY <1>t, <1>3 DEF StartFails, GivesUp, Stopped, Deliver, Waits
<1>4. ASSUME LinkLost(t) PROVE Cuts(t)
  <2>1. link[t] \in Conns
    BY <1>t, <1>4 DEF LinkLost, LinkInv
  <2> QED
    BY <1>t, <1>4, <2>1, NoneAssumption DEF LinkLost, Cut, Cuts
<1>5. ASSUME Leave(t), link[t] # None PROVE Cuts(t)
  <2>1. link[t] \in Conns
    BY <1>t, <1>5
  <2> QED
    BY <1>t, <1>5, <2>1 DEF Leave, Cut, Cuts
<1>6. ASSUME Leave(t), link[t] = None PROVE Waits(t)
  <2>1. hub[t] # "up"
    BY <1>6 DEF LinkInv
  <2> QED
    BY <1>t, <1>6, <2>1 DEF Leave, Waits
<1> QED
  BY <1>1, <1>2, <1>3, <1>4, <1>5, <1>6 DEF TabStep

LEMMA LinkStep ==
    ASSUME TypeOK, OneAtATime, LinkInv, [Next]_vars
    PROVE  LinkInv'
<1>t. /\ link \in [Tabs -> Conns \cup {None}] /\ hub \in [Tabs -> HubStates]
      /\ state \in [Conns -> ConnStates] /\ wire \in [Conns -> Seq(Message)]
      /\ calls \in [Conns -> Seq(Ids)]
  BY DEF TypeOK
<1>n. \A t \in Tabs : link[t] # None => link[t] \in Conns
  BY <1>t
<1>k. \A k \in Conns : k # None
  BY NoneAssumption
<1>1. ASSUME NEW t \in Tabs, TabStep(t) PROVE LinkInv'
  <2>1. ASSUME NEW k \in Conns, Opens(t, k) PROVE LinkInv'
    <3>1. /\ \A u \in Tabs :
               /\ link'[u] # None <=> hub'[u] = "up"
               /\ link'[u] # None => state'[link'[u]] = "open"
      BY <1>n, <1>k, <2>1 DEF Opens, LinkInv
    <3>2. \A u, v \in Tabs : link'[u] = link'[v] /\ link'[u] # None => u = v
      <4>1. \A u \in Tabs : u # t => link'[u] = link[u] /\ link[u] # k
        BY <1>k, <2>1 DEF Opens, LinkInv
      <4> QED
        BY <2>1, <4>1 DEF Opens, LinkInv
    <3>3. \A o \in Conns : state'[o] = "unused" => wire'[o] = <<>> /\ calls'[o] = <<>>
      BY <2>1 DEF Opens, LinkInv
    <3> QED
      BY <3>1, <3>2, <3>3 DEF LinkInv
  <2>2. CASE Cuts(t)
    <3>1. \A u \in Tabs : u # t => link'[u] = link[u] /\ hub'[u] = hub[u] /\ link[u] # link[t]
      BY <2>2 DEF Cuts, LinkInv
    <3>2. \A u \in Tabs :
               /\ link'[u] # None <=> hub'[u] = "up"
               /\ link'[u] # None => state'[link'[u]] = "open"
      BY <1>n, <2>2, <3>1 DEF Cuts, LinkInv
    <3>3. \A u, v \in Tabs : link'[u] = link'[v] /\ link'[u] # None => u = v
      BY <2>2, <3>1 DEF Cuts, LinkInv
    <3>4. \A o \in Conns : state'[o] = "unused" => wire'[o] = <<>> /\ calls'[o] = <<>>
      BY <2>2 DEF Cuts, LinkInv
    <3> QED
      BY <3>2, <3>3, <3>4 DEF LinkInv
  <2>3. CASE Waits(t)
    <3>1. \A k \in Conns : k # link[t] => wire'[k] = wire[k] /\ calls'[k] = calls[k]
      <4>1. ASSUME NEW i \in Ids, Click(t, i)
            PROVE  \A k \in Conns : k # link[t] => wire'[k] = wire[k] /\ calls'[k] = calls[k]
        BY <1>t, <4>1 DEF Click, Invoke
      <4>2. ASSUME StartFails(t) \/ GivesUp(t) \/ Stopped(t) \/ Deliver(t)
            PROVE  \A k \in Conns : k # link[t] => wire'[k] = wire[k] /\ calls'[k] = calls[k]
        BY <1>t, <4>2 DEF StartFails, GivesUp, Stopped, Deliver
      <4>3. ASSUME LinkLost(t) \/ Leave(t)
            PROVE  \A k \in Conns : k # link[t] => wire'[k] = wire[k] /\ calls'[k] = calls[k]
        BY <1>t, <4>3 DEF LinkLost, Leave, Cut
      <4>4. ASSUME NEW k \in Conns, Started(t, k) \/ Reconnected(t, k) PROVE FALSE
        <5>1. link[t] # k
          BY <1>k, <4>4 DEF Started, Reconnected, Open, LinkInv
        <5> QED
          BY <1>t, <2>3, <4>4, <5>1 DEF Started, Reconnected, Open, Waits
      <4> QED
        BY <1>1, <4>1, <4>2, <4>3, <4>4 DEF TabStep
    <3>2. \A u \in Tabs : hub'[u] = "up" <=> hub[u] = "up"
      BY <2>3 DEF Waits
    <3>3. UNCHANGED <<link, state>>
      BY <2>3 DEF Waits
    <3>4. \A k \in Conns : state[k] = "unused" => k # link[t]
      BY <1>k DEF LinkInv
    <3> QED
      BY <3>1, <3>2, <3>3, <3>4 DEF LinkInv
  <2> QED
    BY <1>1, <2>1, <2>2, <2>3, TabEffect
<1>2. ASSUME UNCHANGED <<link, hub>>,
             NEW k \in Conns,
             \A o \in Conns : o # k => state'[o] = state[o] /\ calls'[o] = calls[o],
             state[k] # "unused" /\ state'[k] # "unused",
             state[k] = "open" => state'[k] = "open",
             \A o \in Conns : state[o] = "unused" => wire'[o] = wire[o]
      PROVE  LinkInv'
  <2>1. \A t \in Tabs : link'[t] # None => state'[link'[t]] = "open"
    BY <1>2, <1>n DEF LinkInv
  <2> QED
    BY <1>2, <2>1 DEF LinkInv
<1>3. ASSUME NEW k \in Conns, InvocationStep(k), pc[k] # "idle" => state[k] # "unused" PROVE LinkInv'
  <2>1. CASE Register(k) \/ List(k)
    BY <1>t, <1>2, <1>3, <2>1 DEF Register, List, tabVars
  <2>2. CASE Announce(k)
    BY <1>t, <1>2, <1>3, <2>2 DEF Announce, Send, tabVars
  <2>3. CASE Reply(k)
    BY <1>t, <1>2, <1>3, <2>3 DEF Reply, tabVars
  <2> QED
    BY <1>3, <2>1, <2>2, <2>3 DEF InvocationStep
<1>4. ASSUME NEW k \in Conns, DisconnectStep(k) PROVE LinkInv'
  <2>1. CASE OnDisconnected(k)
    BY <1>t, <1>2, <2>1 DEF OnDisconnected, tabVars
  <2>2. CASE SendPeerLeft(k)
    BY <1>t, <1>2, <2>2 DEF SendPeerLeft, Send, tabVars
  <2> QED
    BY <1>4, <2>1, <2>2 DEF DisconnectStep
<1>5. CASE UNCHANGED vars
  BY <1>5 DEF vars, tabVars, LinkInv
<1>6. \A k \in Conns : pc[k] # "idle" => state[k] # "unused"
  BY DEF OneAtATime
<1> QED
  BY <1>1, <1>3, <1>4, <1>5, <1>6 DEF Next

-----------------------------------------------------------------------------
(* The steps of a tab, as the connections see them.                        *)

LEMMA ShortRanges ==
    ASSUME NEW x
    PROVE  Range(<<x>>) = {x} /\ Range(<< >>) = {}
<1>1. DOMAIN <<x>> = {1} /\ <<x>>[1] = x /\ DOMAIN << >> = {}
  OBVIOUS
<1> QED
  BY <1>1 DEF Range

HoldsNothing(k) == calls[k] = <<>> /\ peers[k] = None /\ leaving[k] = None

(* The hub's side of nobody's link is touched.                             *)
OthersKeep(t) ==
    \A u \in Tabs : u # t => link'[u] = link[u] /\ shown'[u] = shown[u] /\ roster'[u] = roster[u]

(* What may become of a click.                                             *)
ClickMoves(t) ==
    \A i \in Ids :
        /\ click'[i] \in {"unused", "starting"} => click[i] \in {"unused", "starting"}
        /\ \/ tab'[i] = tab[i] /\ click'[i] = click[i]
           \/ tab'[i] = t /\ (tab[i] = t \/ click[i] = "unused")

Invokes(t, j, k) ==
    /\ HoldsNothing(k) /\ k # None /\ state'[k] = "open"
    /\ link'[t] = k /\ (link[t] = k \/ wire[k] = <<>>)
    /\ click[j] \in {"unused", "starting"} /\ click'[j] = "calling"
    /\ tab'[j] = t /\ \A i \in Ids : i # j => tab'[i] = tab[i]
    /\ calls'[k] = <<j>> /\ \A o \in Conns : o # k => calls'[o] = calls[o]
    /\ UNCHANGED <<wire, roster>>

Reopens(t, k) ==
    /\ HoldsNothing(k) /\ link'[t] = k /\ wire[k] = <<>>
    /\ UNCHANGED <<calls, wire, roster, tab>>

Delivers(t) ==
    /\ link[t] \in Conns /\ wire[link[t]] # <<>>
    /\ roster'[t] = Handle(roster[t], Head(wire[link[t]]))
    /\ wire'[link[t]] = Tail(wire[link[t]])
    /\ \A k \in Conns : k # link[t] => wire'[k] = wire[k]
    /\ shown'[t] \/ (shown'[t] = shown[t] /\ UNCHANGED click)
    /\ UNCHANGED <<link, calls, tab, state>>

Offline(t) ==
    /\ link'[t] = None
    /\ roster'[t] \in {roster[t], Nobody}
    /\ \A k \in Conns : wire'[k] \in {wire[k], <<>>} /\ (k # link[t] => wire'[k] = wire[k])
    /\ UNCHANGED calls

LEMMA InvokeCases ==
    ASSUME Patient, IInv, OneAtATime, NoLeakedPeer, NothingFails, LinkInv, AwaitInv, NEW t \in Tabs,
           (\E i \in Ids : Click(t, i)) \/ \E k \in Conns : Started(t, k)
    PROVE  /\ (\E j \in Ids, k \in Conns : Invokes(t, j, k)) \/ Offline(t)
           /\ OthersKeep(t) /\ ClickMoves(t)
<1>t. /\ link \in [Tabs -> Conns \cup {None}] /\ hub \in [Tabs -> HubStates]
      /\ state \in [Conns -> ConnStates] /\ wire \in [Conns -> Seq(Message)]
      /\ calls \in [Conns -> Seq(Ids)] /\ shown \in [Tabs -> BOOLEAN]
      /\ click \in [Ids -> ClickStates] /\ tab \in [Ids -> Tabs \cup {None}]
      /\ roster \in [Tabs -> [Ids -> Nat]] /\ None \notin Conns
  BY NoneAssumption DEF TypeOK, IInv
<1>1. ASSUME NEW i \in Ids, Click(t, i), hub[t] # "up" PROVE Offline(t) /\ OthersKeep(t) /\ ClickMoves(t)
  <2>1. link[t] = None /\ UNCHANGED <<link, roster, wire, shown, calls>>
    BY <1>1 DEF Click, Invoke, LinkInv
  <2>2. ClickMoves(t)
    <3>1. click[i] = "unused" /\ tab'[i] = t /\ \A j \in Ids : j # i => tab'[j] = tab[j] /\ click'[j] = click[j]
      BY <1>t, <1>1 DEF Click, Invoke
    <3> QED
      BY <3>1 DEF ClickMoves
  <2> QED
    BY <2>1, <2>2 DEF Offline, OthersKeep
<1>2. ASSUME NEW i \in Ids, Click(t, i), hub[t] = "up"
      PROVE  Invokes(t, i, link[t]) /\ link[t] \in Conns /\ OthersKeep(t) /\ ClickMoves(t)
  <2>1. link[t] \in Conns /\ link[t] # None /\ state[link[t]] = "open"
    BY <1>t, <1>2 DEF LinkInv
  <2>2. UNCHANGED <<link, roster, wire, shown, state>>
    BY <1>2 DEF Click
  <2>3. calls[link[t]] = <<>> /\ peers[link[t]] = None
    BY <1>2, <2>1 DEF Click, AwaitInv
  <2>4. leaving[link[t]] = None
    BY <2>1 DEF OneAtATime
  <2>5. /\ click[i] = "unused" /\ tab'[i] = t /\ click'[i] = "calling"
        /\ \A j \in Ids : j # i => tab'[j] = tab[j] /\ click'[j] = click[j]
    BY <1>t, <1>2 DEF Click, Invoke
  <2>6. /\ calls'[link[t]] = Append(calls[link[t]], i)
        /\ \A o \in Conns : o # link[t] => calls'[o] = calls[o]
    BY <1>t, <1>2, <2>1 DEF Click, Invoke
  <2>7. Append(calls[link[t]], i) = <<i>>
    BY <2>3
  <2> QED
    BY <2>1, <2>2, <2>3, <2>4, <2>5, <2>6, <2>7 DEF Invokes, HoldsNothing, OthersKeep, ClickMoves
<1>3. ASSUME NEW k \in Conns, Started(t, k)
      PROVE  (\E j \in Ids : Invokes(t, j, k)) /\ OthersKeep(t) /\ ClickMoves(t)
  <2>1. state[k] = "unused" /\ state'[k] = "open" /\ link'[t] = k /\ \A u \in Tabs : u # t => link'[u] = link[u]
    BY <1>t, <1>3 DEF Started, Open
  <2>2. HoldsNothing(k) /\ wire[k] = <<>>
    BY <2>1 DEF LinkInv, OneAtATime, NoLeakedPeer, HoldsNothing
  <2>3. PICK j \in Pending(t) : /\ click[j] = "starting" /\ click' = [click EXCEPT ![j] = "calling"]
                                /\ calls' = [calls EXCEPT ![k] = <<j>>]
    BY <1>3 DEF Started
  <2>4. UNCHANGED <<shown, roster, tab, wire>>
    BY <1>3 DEF Started
  <2>5. j \in Ids /\ tab[j] = t
    BY DEF Pending
  <2>6. /\ click'[j] = "calling" /\ \A i \in Ids : i # j => click'[i] = click[i]
        /\ calls'[k] = <<j>> /\ \A o \in Conns : o # k => calls'[o] = calls[o]
    BY <1>t, <2>3, <2>5
  <2>7. Invokes(t, j, k)
    BY <1>t, <2>1, <2>2, <2>3, <2>4, <2>5, <2>6 DEF Invokes
  <2>8. OthersKeep(t) /\ ClickMoves(t)
    BY <2>1, <2>4, <2>5, <2>6 DEF OthersKeep, ClickMoves
  <2> QED
    BY <2>5, <2>7, <2>8
<1> QED
  BY <1>1, <1>2, <1>3

LEMMA TabCases ==
    ASSUME Patient, IInv, OneAtATime, NoLeakedPeer, NothingFails, LinkInv, AwaitInv, NEW t \in Tabs, TabStep(t)
    PROVE  /\ \/ \E j \in Ids, k \in Conns : Invokes(t, j, k)
              \/ \E k \in Conns : Reopens(t, k)
              \/ Delivers(t) \/ Offline(t)
           /\ OthersKeep(t) /\ ClickMoves(t)
<1>t. /\ link \in [Tabs -> Conns \cup {None}] /\ hub \in [Tabs -> HubStates]
      /\ state \in [Conns -> ConnStates] /\ wire \in [Conns -> Seq(Message)]
      /\ calls \in [Conns -> Seq(Ids)] /\ shown \in [Tabs -> BOOLEAN]
      /\ click \in [Ids -> ClickStates] /\ tab \in [Ids -> Tabs \cup {None}]
      /\ roster \in [Tabs -> [Ids -> Nat]] /\ None \notin Conns
  BY NoneAssumption DEF TypeOK, IInv
<1>r. Reject(t) /\ UNCHANGED tab => ClickMoves(t)
  BY <1>t DEF Reject, Pending, ClickMoves
<1>u. UNCHANGED <<click, tab>> => ClickMoves(t)
  BY DEF ClickMoves
<1>1. ASSUME NEW k \in Conns, Reconnected(t, k)
      PROVE  Reopens(t, k) /\ OthersKeep(t) /\ ClickMoves(t)
  <2>1. state[k] = "unused" /\ link'[t] = k /\ \A u \in Tabs : u # t => link'[u] = link[u]
    BY <1>t, <1>1 DEF Reconnected, Open
  <2>2. HoldsNothing(k) /\ wire[k] = <<>>
    BY <2>1 DEF LinkInv, OneAtATime, NoLeakedPeer, HoldsNothing
  <2>3. UNCHANGED <<shown, roster, click, tab, wire, calls>>
    BY <1>1 DEF Reconnected
  <2> QED
    BY <1>u, <2>1, <2>2, <2>3 DEF Reopens, OthersKeep
<1>2. ASSUME StartFails(t) \/ GivesUp(t) \/ Stopped(t)
      PROVE  Offline(t) /\ OthersKeep(t) /\ ClickMoves(t)
  <2>1. link[t] = None
    BY <1>2 DEF StartFails, GivesUp, Stopped, LinkInv
  <2>2. UNCHANGED <<link, wire, calls, shown, tab>>
    BY <1>2 DEF StartFails, GivesUp, Stopped
  <2>3. /\ roster'[t] \in {roster[t], Nobody} /\ \A u \in Tabs : u # t => roster'[u] = roster[u]
    BY <1>t, <1>2 DEF StartFails, GivesUp, Stopped
  <2>4. Reject(t) \/ UNCHANGED click
    BY <1>2 DEF StartFails, GivesUp, Stopped
  <2> QED
    BY <1>r, <1>u, <2>1, <2>2, <2>3, <2>4 DEF Offline, OthersKeep
<1>3. ASSUME LinkLost(t) \/ Leave(t)
      PROVE  Offline(t) /\ OthersKeep(t) /\ ClickMoves(t)
  <2>1. UNCHANGED <<roster, tab, calls>>
    BY <1>3 DEF LinkLost, Leave
  <2>2. \A u \in Tabs : u # t => shown'[u] = shown[u]
    BY <1>t, <1>3 DEF LinkLost, Leave
  <2>3. link[t] = None => UNCHANGED <<link, wire, click>>
    BY <1>3 DEF LinkLost, Leave, LinkInv
  <2>4. link[t] # None => Cut(t)
    BY <1>3 DEF LinkLost, Leave
  <2>5. link[t] # None => /\ link'[t] = None /\ \A u \in Tabs : u # t => link'[u] = link[u]
                          /\ \A k \in Conns : wire'[k] \in {wire[k], <<>>} /\ (k # link[t] => wire'[k] = wire[k])
                          /\ Reject(t)
    BY <1>t, <2>4 DEF Cut
  <2>6. CASE link[t] = None
    BY <1>u, <2>1, <2>2, <2>3, <2>6 DEF Offline, OthersKeep
  <2>7. CASE link[t] # None
    BY <1>r, <2>1, <2>2, <2>5, <2>7 DEF Offline, OthersKeep
  <2> QED
    BY <2>6, <2>7
<1>4. ASSUME Deliver(t)
      PROVE  Delivers(t) /\ OthersKeep(t) /\ ClickMoves(t)
  <2> DEFINE m == Head(wire[link[t]])
  <2>1. link[t] \in Conns /\ wire[link[t]] # <<>> /\ link[t] # None
    BY <1>t, <1>4 DEF Deliver, LinkInv
  <2>2. m \in Message /\ m \in Range(wire[link[t]])
    <3>1. wire[link[t]] \in Seq(Message)
      BY <1>t, <2>1
    <3>2. m \in Range(wire[link[t]])
      BY <2>1, <3>1, Handled
    <3>3. m \in Message
      BY <2>1, <3>1, QueueTypes
    <3> QED
      BY <3>2, <3>3
  <2>3. UNCHANGED <<link, tab, calls, state>>
    BY <1>4 DEF Deliver
  <2>4. /\ wire'[link[t]] = Tail(wire[link[t]])
        /\ \A k \in Conns : k # link[t] => wire'[k] = wire[k]
    BY <1>t, <1>4, <2>1 DEF Deliver
  <2>5. /\ roster'[t] = Handle(roster[t], m)
        /\ \A u \in Tabs : u # t => roster'[u] = roster[u]
    BY <1>t, <1>4 DEF Deliver
  <2>6. CASE m.kind = "Completion"
    <3>1. m.id \in Ids /\ tab[m.id] = t
      BY <2>1, <2>2, <2>6 DEF Message, AwaitInv
    <3>2. /\ shown'[t] = TRUE /\ \A u \in Tabs : u # t => shown'[u] = shown[u]
          /\ click'[m.id] = "joined" /\ \A i \in Ids : i # m.id => click'[i] = click[i]
      BY <1>t, <1>4, <2>6, <3>1 DEF Deliver, Settled
    <3>3. ClickMoves(t)
      BY <2>3, <3>1, <3>2 DEF ClickMoves
    <3> QED
      BY <2>1, <2>3, <2>4, <2>5, <3>2, <3>3 DEF Delivers, OthersKeep
  <2>7. CASE m.kind # "Completion"
    <3>1. m.kind # "Rejection"
      BY <2>1, <2>2 DEF NothingFails
    <3>2. click' = Settled(click, m) /\ shown' = [shown EXCEPT ![t] = shown[t] \/ m.kind = "Completion"]
      BY <1>4 DEF Deliver
    <3> HIDE DEF m
    <3>3. click' = click
      BY <2>7, <3>1, <3>2 DEF Settled
    <3>4. \A u \in Tabs : shown'[u] = shown[u]
      BY <1>t, <2>7, <3>2
    <3> QED
      BY <1>u, <2>1, <2>3, <2>4, <2>5, <3>3, <3>4 DEF Delivers, OthersKeep, m
  <2> QED
    BY <2>6, <2>7
<1>5. CASE (\E i \in Ids : Click(t, i)) \/ \E k \in Conns : Started(t, k)
  BY <1>5, InvokeCases
<1> QED
  BY <1>1, <1>2, <1>3, <1>4, <1>5 DEF TabStep

-----------------------------------------------------------------------------
(* Who holds a peer id.                                                    *)

LEMMA HoldsStep ==
    ASSUME Overlap = 1, Patient, IInv, CalmInv, [Next]_vars, NEW k \in Conns, NEW i \in Ids, Holds(k, i)'
    PROVE  Holds(k, i) \/ \E t \in Tabs : Invokes(t, i, k)
<1>t. /\ calls \in [Conns -> Seq(Ids)] /\ peers \in [Conns -> Ids \cup {None}]
      /\ leaving \in [Conns -> Ids \cup {None}] /\ i # None
  BY NoneAssumption DEF IInv, TypeOK
<1>c. OneAtATime
  BY DEF CalmInv
<1>0. i \in Range(calls'[k]) \/ peers'[k] = i \/ leaving'[k] = i
  BY DEF Holds
<1>s. calls'[k] = calls[k] /\ peers'[k] = peers[k] /\ leaving'[k] = leaving[k] => Holds(k, i)
  BY <1>0 DEF Holds
<1>1. ASSUME NEW t \in Tabs, TabStep(t) PROVE Holds(k, i) \/ Invokes(t, i, k)
  <2>1. UNCHANGED <<peers, leaving>>
    BY <1>1, TabFrame DEF IInv, hubVars
  <2>2. CASE UNCHANGED calls
    BY <1>s, <2>1, <2>2
  <2>3. ASSUME NEW j \in Ids, NEW o \in Conns, Invokes(t, j, o) PROVE Holds(k, i) \/ Invokes(t, i, k)
    <3>1. CASE k # o
      <4>1. calls'[k] = calls[k]
        BY <2>3, <3>1 DEF Invokes
      <4> QED
        BY <1>s, <2>1, <4>1
    <3>2. CASE k = o
      <4>1. peers[k] = None /\ leaving[k] = None /\ calls'[k] = <<j>>
        BY <2>3, <3>2 DEF Invokes, HoldsNothing
      <4>2. i \in Range(<<j>>)
        BY <1>t, <1>0, <2>1, <4>1
      <4>3. i = j
        BY <4>2, ShortRanges
      <4> QED
        BY <2>3, <3>2, <4>3
    <3> QED
      BY <3>1, <3>2
  <2>4. (\E j \in Ids, o \in Conns : Invokes(t, j, o)) \/ UNCHANGED calls
    BY <1>1, TabCases DEF CalmInv, Reopens, Delivers, Offline
  <2> QED
    BY <2>2, <2>3, <2>4
<1>2. ASSUME NEW o \in Conns, InvocationStep(o) \/ DisconnectStep(o) PROVE Holds(k, i)
  <2>1. CASE k # o
    BY <1>t, <1>s, <1>2, <2>1 DEF InvocationStep, DisconnectStep, Register, Announce, List, Reply,
        OnDisconnected, SendPeerLeft
  <2>2. CASE k = o /\ (Announce(k) \/ List(k) \/ Reply(k))
    BY <1>s, <2>2 DEF Announce, List, Reply
  <2>3. CASE k = o /\ Register(k)
    <3>1. /\ calls[k] # <<>> /\ peers'[k] = Head(calls[k]) /\ calls'[k] = Tail(calls[k])
          /\ leaving'[k] = leaving[k]
      BY <1>t, <1>c, <2>3, CalmSteps DEF Register
    <3>2. Head(calls[k]) \in Range(calls[k]) /\ Range(calls'[k]) \subseteq Range(calls[k])
      BY <1>t, <3>1, Handled
    <3> QED
      BY <1>0, <3>1, <3>2 DEF Holds
  <2>4. CASE k = o /\ OnDisconnected(k)
    <3>1. calls'[k] = <<>> /\ peers'[k] = None /\ leaving'[k] = peers[k]
      BY <1>t, <1>c, <2>4, CalmSteps DEF OnDisconnected
    <3>2. Range(calls'[k]) = {}
      BY <3>1, ShortRanges
    <3> QED
      BY <1>t, <1>0, <3>1, <3>2 DEF Holds
  <2>5. CASE k = o /\ SendPeerLeft(k)
    <3>1. calls'[k] = calls[k] /\ peers'[k] = peers[k] /\ leaving'[k] = None
      BY <1>t, <2>5 DEF SendPeerLeft
    <3> QED
      BY <1>t, <1>0, <3>1 DEF Holds
  <2> QED
    BY <1>2, <2>1, <2>2, <2>3, <2>4, <2>5 DEF InvocationStep, DisconnectStep
<1>3. CASE UNCHANGED vars
  BY <1>s, <1>3 DEF vars, hubVars
<1> QED
  BY <1>1, <1>2, <1>3 DEF Next

LEMMA HoldStep ==
    ASSUME Overlap = 1, Patient, IInv, CalmInv, [Next]_vars
    PROVE  HoldInv'
<1>t. /\ calls \in [Conns -> Seq(Ids)] /\ peers \in [Conns -> Ids \cup {None}]
      /\ state \in [Conns -> ConnStates]
  BY DEF IInv, TypeOK
<1>c. OneAtATime
  BY DEF CalmInv
<1>1. \A k, o \in Conns : \A i \in Ids : Holds(k, i)' /\ Holds(o, i)' => k = o
  <2> SUFFICES ASSUME NEW k \in Conns, NEW o \in Conns, NEW i \in Ids, Holds(k, i)', Holds(o, i)'
               PROVE  k = o
    OBVIOUS
  <2>1. Holds(k, i) \/ \E t \in Tabs : Invokes(t, i, k)
    BY HoldsStep
  <2>2. Holds(o, i) \/ \E t \in Tabs : Invokes(t, i, o)
    BY HoldsStep
  <2>3. ASSUME NEW t \in Tabs, NEW c \in Conns, Invokes(t, i, c)
        PROVE  /\ \A b \in Conns : ~Holds(b, i)
               /\ \A u \in Tabs : \A b \in Conns : Invokes(u, i, b) => u = t /\ b = c
    <3>1. click[i] \in {"unused", "starting"} /\ tab'[i] = t /\ link'[t] = c
      BY <2>3 DEF Invokes
    <3>2. \A b \in Conns : ~Holds(b, i)
      BY <3>1 DEF CalmInv, FreshInv, Fresh
    <3>3. \A u \in Tabs : \A b \in Conns : Invokes(u, i, b) => tab'[i] = u /\ link'[u] = b
      BY DEF Invokes
    <3> QED
      BY <3>1, <3>2, <3>3
  <2>4. CASE Holds(k, i) /\ Holds(o, i)
    BY <2>4 DEF CalmInv, HoldInv
  <2> QED
    BY <2>1, <2>2, <2>3, <2>4
<1>2. ASSUME NEW k \in Conns, calls'[k] # <<>>
      PROVE  Len(calls'[k]) = 1 /\ peers'[k] = None /\ state'[k] \in {"open", "dropped"}
  <2>0. calls[k] # <<>> => Len(calls[k]) = 1 /\ peers[k] = None /\ state[k] \in {"open", "dropped"}
    BY DEF CalmInv, HoldInv
  <2>1. ASSUME NEW t \in Tabs, TabStep(t)
        PROVE  Len(calls'[k]) = 1 /\ peers'[k] = None /\ state'[k] \in {"open", "dropped"}
    <3>1. UNCHANGED peers
      BY <2>1, TabFrame DEF IInv, hubVars
    <3>2. state[k] \in {"open", "dropped"} => state'[k] \in {"open", "dropped"}
      BY <2>1, TabFrame DEF IInv
    <3>3. CASE calls'[k] = calls[k]
      BY <1>2, <2>0, <3>1, <3>2, <3>3
    <3>4. ASSUME NEW j \in Ids, NEW o \in Conns, Invokes(t, j, o)
          PROVE  calls'[k] = calls[k] \/ (calls'[k] = <<j>> /\ peers[k] = None /\ state'[k] = "open")
      BY <3>4 DEF Invokes, HoldsNothing
    <3>5. (\E j \in Ids, o \in Conns : Invokes(t, j, o)) \/ UNCHANGED calls
      BY <2>1, TabCases DEF CalmInv, Reopens, Delivers, Offline
    <3>6. ASSUME NEW j \in Ids, calls'[k] = <<j>> PROVE Len(calls'[k]) = 1
      BY <3>6
    <3> QED
      BY <3>1, <3>3, <3>4, <3>5, <3>6
  <2>2. ASSUME NEW o \in Conns, InvocationStep(o) \/ DisconnectStep(o)
        PROVE  Len(calls'[k]) = 1 /\ peers'[k] = None /\ state'[k] \in {"open", "dropped"}
    <3>1. CASE o # k
      BY <1>t, <1>2, <2>0, <2>2, <3>1 DEF InvocationStep, DisconnectStep, Register, Announce, List, Reply,
          OnDisconnected, SendPeerLeft
    <3>2. CASE o = k /\ (Announce(k) \/ List(k) \/ Reply(k))
      BY <1>2, <2>0, <3>2 DEF Announce, List, Reply
    <3>3. CASE o = k /\ Register(k)
      <4>1. calls[k] # <<>> /\ Len(calls[k]) = 1 /\ calls'[k] = Tail(calls[k]) /\ calls[k] \in Seq(Ids)
        BY <1>t, <2>0, <3>3 DEF Register
      <4>2. Tail(calls[k]) \in Seq(Ids) /\ Len(Tail(calls[k])) \in Nat /\ 1 = Len(Tail(calls[k])) + 1
        BY <4>1, Handled
      <4>3. Len(Tail(calls[k])) = 0
        BY <4>2
      <4>4. Tail(calls[k]) = <<>>
        BY <4>2, <4>3, EmptySeq
      <4> QED
        BY <1>2, <4>1, <4>4
    <3>4. CASE o = k /\ OnDisconnected(k)
      BY <1>t, <1>2, <3>4 DEF OnDisconnected
    <3>5. CASE o = k /\ SendPeerLeft(k)
      BY <1>2, <2>0, <3>5 DEF SendPeerLeft
    <3> QED
      BY <2>2, <3>1, <3>2, <3>3, <3>4, <3>5 DEF InvocationStep, DisconnectStep
  <2>3. CASE UNCHANGED vars
    BY <1>2, <2>0, <2>3 DEF vars, hubVars
  <2> QED
    BY <2>1, <2>2, <2>3 DEF Next
<1> QED
  BY <1>1, <1>2 DEF HoldInv

(* Nothing has been said of a fresh id, and nothing is about to be said    *)
(* but that it joins.                                                      *)
LEMMA FreshElsewhere ==
    ASSUME OneAtATime, HoldInv, FreshInv, NEW i \in Ids, Fresh(i), NEW k \in Conns, i # None
    PROVE  (peers[k] = i => pc[k] = "announce") /\ leaving[k] # i
<1>1. CASE click[i] \in {"unused", "starting"}
  BY <1>1 DEF FreshInv, Holds
<1>2. ASSUME NEW o \in Conns, i \in Range(calls[o])
      PROVE  peers[k] # i /\ leaving[k] # i
  <2>1. Holds(o, i)
    BY <1>2 DEF Holds
  <2>2. calls[o] # <<>>
    BY <1>2, ShortRanges
  <2>3. peers[o] = None /\ leaving[o] = None
    BY <2>2 DEF HoldInv, OneAtATime
  <2> QED
    BY <2>1, <2>3 DEF HoldInv, Holds
<1>3. ASSUME NEW o \in Conns, pc[o] = "announce", peers[o] = i
      PROVE  (peers[k] = i => pc[k] = "announce") /\ leaving[k] # i
  <2>1. Holds(o, i)
    BY <1>3 DEF Holds
  <2>2. leaving[o] = None
    BY <1>3 DEF OneAtATime
  <2> QED
    BY <1>3, <2>1, <2>2 DEF HoldInv, Holds
<1> QED
  BY <1>1, <1>2, <1>3 DEF Fresh

LEMMA FreshBefore ==
    ASSUME Overlap = 1, Patient, IInv, CalmInv, [Next]_vars, NEW i \in Ids, Fresh(i)'
    PROVE  Fresh(i)
<1>t. /\ calls \in [Conns -> Seq(Ids)] /\ peers \in [Conns -> Ids \cup {None}]
      /\ pc \in [Conns -> {"idle", "announce", "list", "reply", "failed"}]
  BY DEF IInv, TypeOK
<1>c. OneAtATime
  BY DEF CalmInv
<1>0. \/ click'[i] \in {"unused", "starting"}
      \/ \E k \in Conns : i \in Range(calls'[k]) \/ (pc'[k] = "announce" /\ peers'[k] = i)
  BY DEF Fresh
<1>1. ASSUME NEW t \in Tabs, TabStep(t) PROVE Fresh(i)
  <2>1. UNCHANGED <<peers, pc>>
    BY <1>1, TabFrame DEF IInv, hubVars
  <2>2. click'[i] \in {"unused", "starting"} => click[i] \in {"unused", "starting"}
    BY <1>1, TabCases DEF CalmInv, ClickMoves
  <2>3. ASSUME NEW k \in Conns, i \in Range(calls'[k]) PROVE Fresh(i)
    <3>1. Holds(k, i)'
      BY <2>3 DEF Holds
    <3>2. ASSUME NEW u \in Tabs, Invokes(u, i, k) PROVE Fresh(i)
      BY <3>2 DEF Invokes, Fresh
    <3>3. (\E j \in Ids, o \in Conns : Invokes(t, j, o)) \/ UNCHANGED calls
      BY <1>1, TabCases DEF CalmInv, Reopens, Delivers, Offline
    <3>4. ASSUME NEW j \in Ids, NEW o \in Conns, Invokes(t, j, o) PROVE Fresh(i)
      <4>1. calls'[k] = calls[k] \/ (calls'[k] = <<j>> /\ click[j] \in {"unused", "starting"})
        BY <3>4 DEF Invokes
      <4>2. calls'[k] = <<j>> => i = j
        BY <2>3, ShortRanges
      <4> QED
        BY <2>3, <4>1, <4>2 DEF Fresh
    <3> QED
      BY <2>3, <3>3, <3>4 DEF Fresh
  <2> QED
    BY <1>0, <2>1, <2>2, <2>3 DEF Fresh
<1>2. ASSUME NEW o \in Conns, InvocationStep(o) \/ DisconnectStep(o) PROVE Fresh(i)
  <2>1. UNCHANGED click
    BY <1>2 DEF InvocationStep, DisconnectStep, Register, Announce, List, Reply, OnDisconnected, SendPeerLeft, tabVars
  <2>2. CASE Announce(o) \/ List(o) \/ Reply(o) \/ SendPeerLeft(o)
    <3>1. UNCHANGED <<calls, peers>> /\ \A k \in Conns : pc'[k] = "announce" => pc[k] = "announce"
      BY <1>t, <2>2 DEF Announce, List, Reply, SendPeerLeft
    <3> QED
      BY <1>0, <2>1, <3>1 DEF Fresh
  <2>3. CASE Register(o)
    <3>1. /\ calls[o] # <<>> /\ peers'[o] = Head(calls[o]) /\ calls'[o] = Tail(calls[o])
          /\ \A k \in Conns : k # o => calls'[k] = calls[k] /\ peers'[k] = peers[k] /\ pc'[k] = pc[k]
      BY <1>t, <1>c, <2>3, CalmSteps DEF Register
    <3>2. Head(calls[o]) \in Range(calls[o]) /\ Range(calls'[o]) \subseteq Range(calls[o])
      BY <1>t, <3>1, Handled
    <3> QED
      BY <1>0, <2>1, <3>1, <3>2 DEF Fresh
  <2>4. CASE OnDisconnected(o)
    <3>1. /\ calls'[o] = <<>> /\ pc' = pc /\ pc[o] # "announce"
          /\ \A k \in Conns : k # o => calls'[k] = calls[k] /\ peers'[k] = peers[k]
      BY <1>t, <1>c, <2>4, CalmSteps DEF OnDisconnected
    <3>2. Range(calls'[o]) = {}
      BY <3>1, ShortRanges
    <3> QED
      BY <1>0, <2>1, <3>1, <3>2 DEF Fresh
  <2> QED
    BY <1>2, <2>2, <2>3, <2>4 DEF InvocationStep, DisconnectStep
<1>3. CASE UNCHANGED vars
  BY <1>3 DEF vars, tabVars, hubVars, Fresh
<1> QED
  BY <1>1, <1>2, <1>3 DEF Next

(* A message that is sent to some of the connections.                      *)
LEMMA Sent ==
    ASSUME TypeOK, NEW ks, NEW m \in Message, Send(ks, m), NEW k \in Conns
    PROVE  IF k \in ks /\ state[k] = "open"
           THEN wire'[k] = Append(wire[k], m) /\ Range(wire'[k]) = Range(wire[k]) \cup {m}
           ELSE wire'[k] = wire[k]
<1>1. wire[k] \in Seq(Message)
  BY DEF TypeOK
<1>2. wire'[k] = IF k \in ks /\ state[k] = "open" THEN Append(wire[k], m) ELSE wire[k]
  BY DEF Send
<1>3. ASSUME k \in ks /\ state[k] = "open" PROVE Range(wire'[k]) = Range(wire[k]) \cup {m}
  <2>1. wire'[k] = Append(wire[k], m)
    BY <1>2, <1>3
  <2>2. Range(Append(wire[k], m)) = Range(wire[k]) \cup {m}
    BY <1>1, RangeAppended
  <2> QED
    BY <2>1, <2>2
<1> QED
  BY <1>2, <1>3

(* A tab puts nothing on a wire.                                           *)
LEMMA TabReads ==
    ASSUME Patient, IInv, CalmInv, NEW t \in Tabs, TabStep(t), NEW k \in Conns,
           NEW m \in Range(wire'[k])
    PROVE  m \in Range(wire[k])
<1>t. wire \in [Conns -> Seq(Message)]
  BY DEF IInv, TypeOK
<1>s. wire'[k] = wire[k] => m \in Range(wire[k])
  OBVIOUS
<1>1. CASE UNCHANGED wire
  BY <1>s, <1>1
<1>2. CASE Delivers(t)
  <2>1. CASE k = link[t]
    <3>1. Range(wire'[k]) \subseteq Range(wire[k])
      BY <1>t, <1>2, <2>1, Handled DEF Delivers
    <3> QED
      BY <3>1
  <2>2. CASE k # link[t]
    BY <1>s, <1>2, <2>2 DEF Delivers
  <2> QED
    BY <2>1, <2>2
<1>3. CASE Offline(t)
  <2>1. wire'[k] \in {wire[k], <<>>}
    BY <1>3 DEF Offline
  <2> QED
    BY <1>s, <2>1, ShortRanges
<1> QED
  BY <1>1, <1>2, <1>3, TabCases DEF CalmInv, Invokes, Reopens

(* What may be new on a wire.                                              *)
LEMMA NewMessages ==
    ASSUME Overlap = 1, Patient, IInv, CalmInv, [Next]_vars, NEW k \in Conns, NEW m \in Range(wire'[k])
    PROVE  \/ m \in Range(wire[k])
           \/ \E o \in Conns : Announce(o) /\ m = [kind |-> "PeerJoined", id |-> peers[o]]
           \/ \E o \in Conns : SendPeerLeft(o) /\ m = [kind |-> "PeerLeft", id |-> leaving[o]]
           \/ /\ Reply(k)
              /\ m \in {[kind |-> "PeersList", ids |-> listed[k]], [kind |-> "Completion", id |-> peers[k]]}
<1>t. wire \in [Conns -> Seq(Message)] /\ TypeOK /\ HubInv
  BY DEF IInv, TypeOK
<1>c. OneAtATime
  BY DEF CalmInv
<1>s. wire'[k] = wire[k] => m \in Range(wire[k])
  OBVIOUS
<1>1. ASSUME NEW t \in Tabs, TabStep(t) PROVE m \in Range(wire[k])
  BY <1>1, TabReads
<1>2. ASSUME NEW o \in Conns, Announce(o)
      PROVE  m \in Range(wire[k]) \/ m = [kind |-> "PeerJoined", id |-> peers[o]]
  <2>1. [kind |-> "PeerJoined", id |-> peers[o]] \in Message
    BY <1>c, <1>t, <1>2, CalmSteps DEF Announce, TypeOK, HubInv, Message
  <2>2. Send(Conns \ {o}, [kind |-> "PeerJoined", id |-> peers[o]])
    BY <1>c, <1>2, CalmSteps DEF Announce
  <2> QED
    BY <1>s, <1>t, <2>1, <2>2, Sent
<1>3. ASSUME NEW o \in Conns, SendPeerLeft(o)
      PROVE  m \in Range(wire[k]) \/ m = [kind |-> "PeerLeft", id |-> leaving[o]]
  <2>1. [kind |-> "PeerLeft", id |-> leaving[o]] \in Message
    BY <1>t, <1>3 DEF SendPeerLeft, TypeOK, HubInv, Message
  <2> QED
    BY <1>s, <1>t, <1>3, <2>1, Sent DEF SendPeerLeft
<1>4. ASSUME NEW o \in Conns, Reply(o)
      PROVE  \/ m \in Range(wire[k])
             \/ /\ k = o
                /\ m \in {[kind |-> "PeersList", ids |-> listed[k]], [kind |-> "Completion", id |-> peers[k]]}
  <2>1. CASE k # o \/ state[o] # "open"
    BY <1>s, <1>t, <1>4, <2>1 DEF Reply
  <2>2. CASE k = o /\ state[o] = "open"
    <3> DEFINE x == [kind |-> "PeersList", ids |-> listed[k]]
               y == [kind |-> "Completion", id |-> peers[k]]
    <3>1. x \in Message /\ y \in Message
      BY <1>c, <1>t, <1>4, <2>2, CalmSteps DEF Reply, TypeOK, HubInv, Message
    <3>2. wire'[k] = wire[k] \o <<x, y>>
      BY <1>c, <1>t, <1>4, <2>2, CalmSteps DEF Reply, Answer
    <3> HIDE DEF x, y
    <3>3. /\ DOMAIN wire'[k] = 1 .. Len(wire'[k]) /\ Len(wire'[k]) = Len(wire[k]) + 2
          /\ \A j \in 1 .. Len(wire'[k]) :
                (j \in 1 .. Len(wire[k]) /\ wire'[k][j] = wire[k][j]) \/ wire'[k][j] = x \/ wire'[k][j] = y
          /\ DOMAIN wire[k] = 1 .. Len(wire[k])
      <4>1. wire[k] \in Seq(Message) /\ <<x, y>> \in Seq(Message) /\ Len(<<x, y>>) = 2
            /\ <<x, y>>[1] = x /\ <<x, y>>[2] = y /\ Len(wire[k]) \in Nat
        BY <1>t, <3>1
      <4>2. /\ wire'[k] \in Seq(Message) /\ Len(wire'[k]) = Len(wire[k]) + 2
            /\ wire'[k][Len(wire[k]) + 1] = x /\ wire'[k][Len(wire[k]) + 2] = y
            /\ \A j \in 1 .. Len(wire[k]) : wire'[k][j] = wire[k][j]
        BY <3>2, <4>1
      <4>3. \A j \in 1 .. Len(wire'[k]) : j \in 1 .. Len(wire[k]) \/ j = Len(wire[k]) + 1 \/ j = Len(wire[k]) + 2
        BY <4>1, <4>2
      <4>4. DOMAIN wire'[k] = 1 .. Len(wire'[k]) /\ DOMAIN wire[k] = 1 .. Len(wire[k])
        BY <4>1, <4>2
      <4> QED
        BY <4>2, <4>3, <4>4
    <3>4. m \in Range(wire[k]) \/ m \in {x, y}
      BY <3>3 DEF Range
    <3> QED
      BY <2>2, <3>4 DEF x, y
  <2> QED
    BY <2>1, <2>2
<1>5. ASSUME NEW o \in Conns, Register(o) \/ List(o) \/ OnDisconnected(o) PROVE m \in Range(wire[k])
  BY <1>s, <1>5 DEF Register, List, OnDisconnected
<1>6. CASE UNCHANGED vars
  BY <1>s, <1>6 DEF vars
<1> QED
  BY <1>1, <1>2, <1>3, <1>4, <1>5, <1>6 DEF Next, InvocationStep, DisconnectStep

LEMMA NothingFailsStep ==
    ASSUME Overlap = 1, Patient, IInv, CalmInv, [Next]_vars
    PROVE  NothingFails'
<1> SUFFICES ASSUME NEW k \in Conns, NEW m \in Range(wire'[k]) PROVE m.kind # "Rejection"
  BY DEF NothingFails
<1>1. CASE m \in Range(wire[k])
  BY <1>1 DEF CalmInv, NothingFails
<1>2. CASE m \notin Range(wire[k])
  BY <1>2, NewMessages
<1> QED
  BY <1>1, <1>2

LEMMA FreshStep ==
    ASSUME Overlap = 1, Patient, IInv, CalmInv, [Next]_vars
    PROVE  FreshInv'
<1>t. /\ pc \in [Conns -> {"idle", "announce", "list", "reply", "failed"}]
      /\ peers \in [Conns -> Ids \cup {None}] /\ listed \in [Conns -> SUBSET Ids]
      /\ roster \in [Tabs -> [Ids -> Nat]] /\ wire \in [Conns -> Seq(Message)]
  BY DEF IInv, TypeOK
<1> SUFFICES ASSUME NEW i \in Ids, Fresh(i)'
             PROVE  /\ \A k \in Conns :
                        /\ \A m \in Range(wire'[k]) : ~Mentions(m, i)
                        /\ i \notin listed'[k]
                        /\ click'[i] \in {"unused", "starting"} => ~Holds(k, i)'
                    /\ \A t \in Tabs : roster'[t][i] = 0
  BY DEF FreshInv, Mentions
<1>i. i # None
  BY NoneAssumption
<1>c. OneAtATime
  BY DEF CalmInv
<1>0. /\ Fresh(i)
      /\ \A k \in Conns :
            /\ \A m \in Range(wire[k]) : ~Mentions(m, i)
            /\ i \notin listed[k]
            /\ click[i] \in {"unused", "starting"} => ~Holds(k, i)
            /\ peers[k] = i => pc[k] = "announce"
            /\ leaving[k] # i
      /\ \A t \in Tabs : roster[t][i] = 0
  BY <1>i, FreshBefore, FreshElsewhere DEF CalmInv, FreshInv
(* The announcement is what makes an id known.                             *)
<1>a. ASSUME NEW o \in Conns, Announce(o) PROVE peers[o] # i
  <2>1. /\ pc[o] = "announce" /\ pc'[o] = "list" /\ \A c \in Conns : c # o => pc'[c] = pc[c]
        /\ UNCHANGED <<calls, peers, click>>
    BY <1>t, <1>a DEF Announce, tabVars
  <2>2. SUFFICES ASSUME peers[o] = i PROVE FALSE
    OBVIOUS
  <2>3. Holds(o, i)
    BY <2>2 DEF Holds
  <2>4. click'[i] \notin {"unused", "starting"}
    BY <1>0, <2>1, <2>3
  <2>5. ASSUME NEW c \in Conns, i \in Range(calls[c]) PROVE FALSE
    <3>1. c = o
      BY <2>3, <2>5 DEF CalmInv, HoldInv, Holds
    <3>2. calls[c] # <<>>
      BY <2>5, ShortRanges
    <3> QED
      BY <1>i, <2>2, <3>1, <3>2 DEF CalmInv, HoldInv
  <2>6. ASSUME NEW c \in Conns, pc'[c] = "announce", peers[c] = i PROVE FALSE
    <3>1. c = o
      BY <2>3, <2>6 DEF CalmInv, HoldInv, Holds
    <3> QED
      BY <2>1, <2>6, <3>1
  <2> QED
    BY <2>1, <2>4, <2>5, <2>6 DEF Fresh
<1>1. ASSUME NEW k \in Conns, NEW m \in Range(wire'[k]) PROVE ~Mentions(m, i)
  <2>1. CASE m \in Range(wire[k])
    BY <1>0, <2>1
  <2>2. ASSUME NEW o \in Conns, Announce(o), m = [kind |-> "PeerJoined", id |-> peers[o]]
        PROVE  ~Mentions(m, i)
    BY <1>a, <2>2 DEF Mentions
  <2>3. ASSUME NEW o \in Conns, m = [kind |-> "PeerLeft", id |-> leaving[o]]
        PROVE  ~Mentions(m, i)
    BY <1>0, <2>3 DEF Mentions
  <2>4. ASSUME Reply(k), m = [kind |-> "PeersList", ids |-> listed[k]] PROVE ~Mentions(m, i)
    BY <1>0, <2>4 DEF Mentions
  <2>5. ASSUME Reply(k), m = [kind |-> "Completion", id |-> peers[k]] PROVE ~Mentions(m, i)
    <3>1. peers[k] # i
      BY <1>0, <1>c, <2>5, CalmSteps
    <3> QED
      BY <2>5, <3>1 DEF Mentions
  <2> QED
    BY <1>1, <2>1, <2>2, <2>3, <2>4, <2>5, NewMessages
<1>2. ASSUME NEW k \in Conns PROVE i \notin listed'[k]
  <2>1. ASSUME NEW o \in Conns, List(o) PROVE i \notin listed'[k]
    <3>1. \A c \in Conns : c # o => pc[c] = "idle"
      BY <2>1 DEF List, CalmInv, OneAtATime, Busy
    <3>2. i \notin OthersThan(o)
      BY <1>0, <3>1 DEF OthersThan
    <3> QED
      BY <1>0, <1>c, <1>t, <2>1, <3>2, CalmSteps DEF List
  <2>2. ASSUME NEW o \in Conns, Reply(o) PROVE i \notin listed'[k]
    BY <1>0, <1>t, <2>2 DEF Reply
  <2>3. ASSUME NEW o \in Conns, Register(o) \/ Announce(o) \/ DisconnectStep(o) PROVE UNCHANGED listed
    BY <2>3 DEF Register, Announce, DisconnectStep, OnDisconnected, SendPeerLeft
  <2>4. ASSUME NEW t \in Tabs, TabStep(t) PROVE UNCHANGED listed
    BY <2>4, TabFrame DEF IInv, hubVars
  <2>5. CASE UNCHANGED vars
    BY <1>0, <2>5 DEF vars, hubVars
  <2> QED
    BY <1>0, <2>1, <2>2, <2>3, <2>4, <2>5 DEF Next, InvocationStep
<1>3. ASSUME NEW k \in Conns, click'[i] \in {"unused", "starting"}, Holds(k, i)' PROVE FALSE
  <2>1. Holds(k, i) \/ \E t \in Tabs : Invokes(t, i, k)
    BY <1>3, HoldsStep
  <2>2. \A t \in Tabs : ~Invokes(t, i, k)
    BY <1>3 DEF Invokes
  <2>3. click[i] \in {"unused", "starting"}
    <3>1. ASSUME NEW t \in Tabs, TabStep(t) PROVE click[i] \in {"unused", "starting"}
      BY <1>3, <3>1, TabCases DEF CalmInv, ClickMoves
    <3>2. ASSUME NEW o \in Conns, InvocationStep(o) \/ DisconnectStep(o) PROVE UNCHANGED click
      BY <3>2 DEF InvocationStep, DisconnectStep, Register, Announce, List, Reply, OnDisconnected,
          SendPeerLeft, tabVars
    <3>3. CASE UNCHANGED vars
      BY <1>3, <3>3 DEF vars, tabVars
    <3> QED
      BY <1>3, <3>1, <3>2, <3>3 DEF Next
  <2> QED
    BY <1>0, <2>1, <2>2, <2>3
<1>4. ASSUME NEW t \in Tabs PROVE roster'[t][i] = 0
  <2>1. ASSUME NEW u \in Tabs, TabStep(u) PROVE roster'[t][i] = 0
    <3>1. CASE UNCHANGED roster
      BY <1>0, <3>1
    <3>2. CASE t # u
      BY <1>0, <2>1, <3>2, TabCases DEF CalmInv, OthersKeep
    <3>3. CASE t = u /\ Delivers(u)
      <4> DEFINE m == Head(wire[link[t]])
      <4>1. link[t] \in Conns /\ wire[link[t]] # <<>> /\ wire[link[t]] \in Seq(Message)
        BY <1>t, <3>3 DEF Delivers
      <4>2. m \in Range(wire[link[t]])
        BY <4>1, Handled
      <4>3. m \in Message
        BY <4>1, QueueTypes
      <4>4. ~Mentions(m, i)
        BY <1>0, <4>1, <4>2
      <4>5. roster'[t] = Handle(roster[t], m) /\ roster[t] \in [Ids -> Nat] /\ roster[t][i] = 0
        BY <1>0, <1>t, <3>3 DEF Delivers
      <4> HIDE DEF m
      <4>6. CASE m.kind = "PeersList"
        <5>1. Handle(roster[t], m) = ListOf(m.ids) /\ i \notin m.ids
          BY <4>3, <4>4, <4>5, <4>6, Handling DEF Mentions
        <5> QED
          BY <4>5, <5>1 DEF ListOf
      <4>7. CASE m.kind # "PeersList"
        <5>1. ~IsAbout(m, i)
          BY <4>4, <4>7 DEF IsAbout, Mentions
        <5> QED
          BY <4>3, <4>5, <4>7, <5>1, Handling
      <4> QED
        BY <4>6, <4>7
    <3>4. CASE t = u /\ Offline(u)
      BY <1>0, <3>4 DEF Offline, Nobody
    <3> QED
      BY <2>1, <3>1, <3>2, <3>3, <3>4, TabCases DEF CalmInv, Invokes, Reopens
  <2>2. ASSUME NEW o \in Conns, InvocationStep(o) \/ DisconnectStep(o) PROVE UNCHANGED roster
    BY <2>2 DEF InvocationStep, DisconnectStep, Register, Announce, List, Reply, OnDisconnected,
        SendPeerLeft, tabVars
  <2>3. CASE UNCHANGED vars
    BY <1>0, <2>3 DEF vars, tabVars
  <2> QED
    BY <1>0, <2>1, <2>2, <2>3 DEF Next
<1> QED
  BY <1>1, <1>2, <1>3, <1>4

-----------------------------------------------------------------------------
(* What a connection holds is its tab's own.                               *)
LEMMA AwaitStep ==
    ASSUME Overlap = 1, Patient, IInv, CalmInv, [Next]_vars
    PROVE  AwaitInv'
<1>t. /\ calls \in [Conns -> Seq(Ids)] /\ peers \in [Conns -> Ids \cup {None}]
      /\ link \in [Tabs -> Conns \cup {None}] /\ link' \in [Tabs -> Conns \cup {None}]
      /\ wire \in [Conns -> Seq(Message)] /\ wire' \in [Conns -> Seq(Message)]
      /\ \A k \in Conns : k # None
  BY NextKeepsIInv, NoneAssumption DEF IInv, TypeOK
<1>l. LinkInv'
  BY LinkStep DEF IInv, CalmInv
<1> SUFFICES ASSUME NEW t \in Tabs, NEW k \in Conns, link'[t] = k
             PROVE  /\ calls'[k] # <<>> \/ peers'[k] # None => shown'[t] \/ Pending(t)' # {}
                    /\ \A i \in Ids : Holds(k, i)' => tab'[i] = t
                    /\ \A m \in Range(wire'[k]) : m.kind = "Completion" => tab'[m.id] = t
  BY <1>t DEF AwaitInv, Holds
<1>k. k \in Conns /\ k = link'[t]
  OBVIOUS
<1>0. link[t] = k =>
        /\ calls[k] # <<>> \/ peers[k] # None => shown[t] \/ Pending(t) # {}
        /\ \A i \in Ids : Holds(k, i) => tab[i] = t
        /\ \A m \in Range(wire[k]) : m.kind = "Completion" => tab[m.id] = t
  BY <1>k, <1>t DEF CalmInv, AwaitInv
<1>f. \A i \in Ids : click[i] \in {"unused", "starting"} =>
        ~Holds(k, i) /\ \A m \in Range(wire[k]) : m.kind = "Completion" => m.id # i
  BY <1>k DEF CalmInv, FreshInv, Fresh, Mentions
<1>c. \A m \in Range(wire[k]) : m.kind = "Completion" => m.id \in Ids
  <2>1. \A m \in Range(wire[k]) : m \in Message
    BY <1>k, <1>t DEF Range
  <2> QED
    BY <2>1 DEF Message
<1>1. ASSUME NEW u \in Tabs, TabStep(u)
      PROVE  /\ calls'[k] # <<>> \/ peers'[k] # None => shown'[t] \/ Pending(t)' # {}
             /\ \A i \in Ids : Holds(k, i)' => tab'[i] = t
             /\ \A m \in Range(wire'[k]) : m.kind = "Completion" => tab'[m.id] = t
  <2>1. UNCHANGED <<peers, leaving>>
    BY <1>1, TabFrame DEF IInv, hubVars
  <2>2. OthersKeep(u) /\ ClickMoves(u)
    BY <1>1, TabCases DEF CalmInv
  <2>3. \A m \in Range(wire'[k]) : m \in Range(wire[k])
    BY <1>1, TabReads
  <2>4. CASE t # u
    <3>1. link[t] = k /\ shown'[t] = shown[t]
      BY <1>k, <2>2, <2>4 DEF OthersKeep
    <3>2. \A i \in Ids : tab[i] = t => (tab'[i] = t /\ click'[i] = click[i]) \/ click[i] = "unused"
      BY <2>2, <2>4 DEF ClickMoves
    <3>3. Pending(t) \subseteq Pending(t)'
      BY <3>2 DEF Pending
    <3>4. k # link'[u]
      BY <1>l, <1>t, <1>k, <2>4 DEF LinkInv
    <3>5. calls'[k] = calls[k]
      BY <1>1, <1>k, <3>4, TabCases DEF CalmInv, Invokes, Reopens, Delivers, Offline
    <3>6. \A i \in Ids : Holds(k, i)' => Holds(k, i)
      BY <2>1, <3>5 DEF Holds
    <3>7. \A i \in Ids : Holds(k, i) => tab'[i] = t
      BY <1>0, <1>f, <3>1, <3>2
    <3>8. \A m \in Range(wire[k]) : m.kind = "Completion" => tab'[m.id] = t
      BY <1>0, <1>c, <1>f, <3>1, <3>2
    <3>9. calls'[k] # <<>> \/ peers'[k] # None => shown'[t] \/ Pending(t)' # {}
      BY <1>0, <2>1, <3>1, <3>3, <3>5
    <3> QED
      BY <2>3, <3>6, <3>7, <3>8, <3>9
  <2>5. ASSUME t = u, NEW j \in Ids, NEW o \in Conns, Invokes(u, j, o)
        PROVE  /\ calls'[k] # <<>> \/ peers'[k] # None => shown'[t] \/ Pending(t)' # {}
               /\ \A i \in Ids : Holds(k, i)' => tab'[i] = t
               /\ \A m \in Range(wire'[k]) : m.kind = "Completion" => tab'[m.id] = t
    <3>1. /\ o = k /\ HoldsNothing(k) /\ calls'[k] = <<j>> /\ tab'[j] = t /\ click'[j] = "calling"
          /\ link[t] = k \/ wire[k] = <<>>
          /\ click[j] \in {"unused", "starting"} /\ \A i \in Ids : i # j => tab'[i] = tab[i]
      BY <1>k, <2>5 DEF Invokes
    <3>2. j \in Pending(t)'
      BY <3>1 DEF Pending
    <3>3. \A i \in Ids : Holds(k, i)' => i = j
      BY <2>1, <3>1, ShortRanges, NoneAssumption DEF Holds, HoldsNothing
    <3>4. \A m \in Range(wire'[k]) : m.kind = "Completion" => tab'[m.id] = t
      <4>1. CASE link[t] = k
        BY <1>0, <1>c, <1>f, <2>3, <3>1, <4>1
      <4>2. CASE wire[k] = <<>>
        BY <2>3, <4>2, ShortRanges
      <4> QED
        BY <3>1, <4>1, <4>2
    <3> QED
      BY <3>1, <3>2, <3>3, <3>4
  <2>6. ASSUME t = u, NEW o \in Conns, Reopens(u, o)
        PROVE  /\ calls'[k] # <<>> \/ peers'[k] # None => shown'[t] \/ Pending(t)' # {}
               /\ \A i \in Ids : Holds(k, i)' => tab'[i] = t
               /\ \A m \in Range(wire'[k]) : m.kind = "Completion" => tab'[m.id] = t
    <3>1. HoldsNothing(k) /\ wire[k] = <<>> /\ UNCHANGED calls
      BY <1>k, <2>6 DEF Reopens
    <3> QED
      BY <2>1, <2>3, <3>1, ShortRanges, NoneAssumption DEF Holds, HoldsNothing
  <2>7. ASSUME t = u, Delivers(u)
        PROVE  /\ calls'[k] # <<>> \/ peers'[k] # None => shown'[t] \/ Pending(t)' # {}
               /\ \A i \in Ids : Holds(k, i)' => tab'[i] = t
               /\ \A m \in Range(wire'[k]) : m.kind = "Completion" => tab'[m.id] = t
    <3>1. link[t] = k /\ UNCHANGED <<calls, tab>>
      BY <1>k, <2>7 DEF Delivers
    <3>2. shown'[t] \/ (shown'[t] = shown[t] /\ Pending(t)' = Pending(t))
      BY <2>7 DEF Delivers, Pending
    <3>3. \A i \in Ids : Holds(k, i)' => Holds(k, i)
      BY <2>1, <3>1 DEF Holds
    <3> QED
      BY <1>0, <2>1, <2>3, <3>1, <3>2, <3>3
  <2>8. ASSUME t = u, Offline(u) PROVE FALSE
    BY <1>k, <1>t, <2>8 DEF Offline
  <2> QED
    BY <1>1, <2>4, <2>5, <2>6, <2>7, <2>8, TabCases DEF CalmInv
<1>2. ASSUME NEW o \in Conns, InvocationStep(o) \/ DisconnectStep(o)
      PROVE  /\ calls'[k] # <<>> \/ peers'[k] # None => shown'[t] \/ Pending(t)' # {}
             /\ \A i \in Ids : Holds(k, i)' => tab'[i] = t
             /\ \A m \in Range(wire'[k]) : m.kind = "Completion" => tab'[m.id] = t
  <2>1. UNCHANGED <<link, shown, tab, click>>
    BY <1>2 DEF InvocationStep, DisconnectStep, Register, Announce, List, Reply, OnDisconnected,
        SendPeerLeft, tabVars
  <2>2. link[t] = k /\ Pending(t)' = Pending(t)
    BY <1>k, <2>1 DEF Pending
  <2>3. calls'[k] # <<>> \/ peers'[k] # None => calls[k] # <<>> \/ peers[k] # None
    <3>1. CASE Register(o)
      BY <1>k, <1>t, <3>1 DEF Register
    <3>2. CASE Announce(o) \/ List(o) \/ Reply(o) \/ SendPeerLeft(o)
      BY <3>2 DEF Announce, List, Reply, SendPeerLeft
    <3>3. CASE OnDisconnected(o)
      BY <1>k, <1>t, <3>3, CalmSteps DEF OnDisconnected, CalmInv
    <3> QED
      BY <1>2, <3>1, <3>2, <3>3 DEF InvocationStep, DisconnectStep
  <2>4. \A i \in Ids : Holds(k, i)' => tab'[i] = t
    <3>1. ASSUME NEW i \in Ids, Holds(k, i)' PROVE Holds(k, i)
      <4>1. Holds(k, i) \/ \E u \in Tabs : Invokes(u, i, k)
        BY <1>k, <3>1, HoldsStep
      <4>2. \A u \in Tabs : ~Invokes(u, i, k)
        BY <2>1 DEF Invokes
      <4> QED
        BY <4>1, <4>2
    <3> QED
      BY <1>0, <2>1, <2>2, <3>1
  <2>5. ASSUME NEW m \in Range(wire'[k]), m.kind = "Completion" PROVE tab'[m.id] = t
    <3>1. CASE m \in Range(wire[k])
      BY <1>0, <2>1, <2>2, <2>5, <3>1
    <3>2. CASE Reply(k) /\ m = [kind |-> "Completion", id |-> peers[k]]
      <4>1. peers[k] \in Ids
        <5>1. peers[k] = peer[k] /\ pc[k] # "idle"
          BY <1>k, <3>2, CalmSteps DEF Reply, CalmInv
        <5> QED
          BY <1>k, <1>t, <5>1 DEF IInv, HubInv
      <4>2. Holds(k, peers[k])
        BY DEF Holds
      <4> QED
        BY <1>0, <2>1, <2>2, <3>2, <4>1, <4>2
    <3>3. m \in Range(wire[k]) \/ (Reply(k) /\ m = [kind |-> "Completion", id |-> peers[k]])
      BY <1>k, <2>5, NewMessages
    <3> QED
      BY <3>1, <3>2, <3>3
  <2> QED
    BY <1>0, <2>1, <2>2, <2>3, <2>4, <2>5
<1>3. CASE UNCHANGED vars
  <2>1. UNCHANGED <<link, shown, tab, click, calls, peers, leaving, wire>>
    BY <1>3 DEF vars, tabVars, hubVars
  <2>2. link[t] = k /\ Pending(t)' = Pending(t)
    BY <1>k, <2>1 DEF Pending
  <2> QED
    BY <1>0, <2>1, <2>2 DEF Holds
<1> QED
  BY <1>1, <1>2, <1>3 DEF Next

-----------------------------------------------------------------------------
(* What the tabs have been told.                                           *)

LEMMA KnownIs ==
    ASSUME NEW k \in Conns, NEW i
    PROVE  i \in KnownTo(k) <=>
              i # None /\ \E o \in Conns : o # k /\ ((pc[o] # "announce" /\ peers[o] = i) \/ leaving[o] = i)
BY DEF KnownTo

(* The link and the list of a tab in a step of the hub.                    *)
LEMMA HubFrame ==
    ASSUME NEW o \in Conns, InvocationStep(o) \/ DisconnectStep(o)
    PROVE  UNCHANGED <<link, roster>>
BY DEF InvocationStep, DisconnectStep, Register, Announce, List, Reply, OnDisconnected,
    SendPeerLeft, tabVars

LEMMA ToldStep ==
    ASSUME Overlap = 1, Patient, IInv, CalmInv, [Next]_vars
    PROVE  ToldInv'
<1>t. /\ calls \in [Conns -> Seq(Ids)] /\ peers \in [Conns -> Ids \cup {None}]
      /\ pc \in [Conns -> {"idle", "announce", "list", "reply", "failed"}]
      /\ state \in [Conns -> ConnStates] /\ leaving \in [Conns -> Ids \cup {None}]
      /\ link \in [Tabs -> Conns \cup {None}] /\ link' \in [Tabs -> Conns \cup {None}]
      /\ wire \in [Conns -> Seq(Message)] /\ roster \in [Tabs -> [Ids -> Nat]]
      /\ listed \in [Conns -> SUBSET Ids] /\ \A k \in Conns : k # None
      /\ TypeOK /\ HubInv
  BY NextKeepsIInv, NoneAssumption DEF IInv, TypeOK
<1>c. OneAtATime
  BY DEF CalmInv
<1>n. \A i \in Ids : i # None
  BY NoneAssumption
<1> SUFFICES ASSUME NEW t \in Tabs, NEW k \in Conns, link'[t] = k, peers'[k] # None, pc'[k] = "idle"
             PROVE  Told(KnownTo(k)', roster'[t], wire'[k])
  BY <1>t DEF ToldInv, Registered, KnownTo
<1>k. k = link'[t] /\ peers'[k] # None /\ pc'[k] = "idle" /\ k # None
  BY <1>t
<1>0. link[t] = k /\ peers[k] # None /\ pc[k] = "idle" =>
        Told(KnownTo(k), roster[t], wire[k]) /\ state[k] = "open"
  BY <1>t DEF CalmInv, ToldInv, Registered, LinkInv
<1>q. \A b, c \in Busy : b = c
  BY DEF CalmInv, OneAtATime
<1>s. KnownTo(k)' = KnownTo(k) /\ UNCHANGED <<link, peers, pc>> /\ roster'[t] = roster[t] /\ wire'[k] = wire[k]
        => Told(KnownTo(k)', roster'[t], wire'[k])
  BY <1>0, <1>k
<1>1. ASSUME NEW u \in Tabs, TabStep(u) PROVE Told(KnownTo(k)', roster'[t], wire'[k])
  <2>1. UNCHANGED <<peers, pc, leaving>>
    BY <1>t, <1>1, TabFrame DEF hubVars
  <2>2. KnownTo(k)' = KnownTo(k)
    BY <2>1 DEF KnownTo
  <2>3. LinkInv' /\ OthersKeep(u)
    BY <1>1, LinkStep, TabCases DEF IInv, CalmInv
  <2>4. CASE t # u
    <3>1. link[t] = k /\ roster'[t] = roster[t]
      BY <1>k, <2>3, <2>4 DEF OthersKeep
    <3>2. link[u] # k
      BY <1>t, <2>4, <3>1 DEF CalmInv, LinkInv
    <3>3. wire'[k] = wire[k]
      BY <1>1, <3>2, TabCases DEF CalmInv, Invokes, Reopens, Delivers, Offline
    <3> QED
      BY <1>0, <1>k, <2>1, <2>2, <3>1, <3>3
  <2>5. ASSUME t = u, Delivers(u) PROVE Told(KnownTo(k)', roster'[t], wire'[k])
    <3>1. /\ link[t] = k /\ wire[k] # <<>> /\ wire'[k] = Tail(wire[k])
          /\ roster'[t] = Handle(roster[t], Head(wire[k]))
      BY <1>k, <2>5 DEF Delivers
    <3>2. Told(KnownTo(k), roster[t], wire[k])
      BY <1>0, <1>k, <2>1, <3>1
    <3>3. Told(KnownTo(k), Handle(roster[t], Head(wire[k])), wire'[k])
      BY <1>t, <3>1, <3>2, ToldHandled
    <3> QED
      BY <2>2, <3>1, <3>3
  <2>6. ASSUME t = u, Offline(u) PROVE FALSE
    BY <1>k, <2>6 DEF Offline
  <2>7. ASSUME t = u, NEW j \in Ids, NEW o \in Conns, Invokes(u, j, o) PROVE FALSE
    BY <1>k, <2>1, <2>7 DEF Invokes, HoldsNothing
  <2>8. ASSUME t = u, NEW o \in Conns, Reopens(u, o) PROVE FALSE
    BY <1>k, <2>1, <2>8 DEF Reopens, HoldsNothing
  <2> QED
    BY <1>1, <2>4, <2>5, <2>6, <2>7, <2>8, TabCases DEF CalmInv
<1>2. ASSUME NEW o \in Conns, Register(o) PROVE Told(KnownTo(k)', roster'[t], wire'[k])
  <2>1. Busy = {}
    BY <1>2, FreeIsIdle DEF Register
  <2>2. /\ pc'[o] = "announce" /\ calls[o] # <<>>
        /\ \A c \in Conns : c # o => peers'[c] = peers[c] /\ pc'[c] = pc[c]
        /\ UNCHANGED <<leaving, wire, roster, link>>
    <3>1. peers' = [peers EXCEPT ![o] = Head(calls[o])] /\ pc' = [pc EXCEPT ![o] = "announce"]
      BY <1>c, <1>2, CalmSteps
    <3> QED
      BY <1>t, <1>2, <3>1 DEF Register, tabVars
  <2>3. k # o /\ peers[o] = None
    BY <1>k, <2>2 DEF CalmInv, HoldInv
  <2>4. KnownTo(k)' = KnownTo(k)
    BY <2>2, <2>3 DEF KnownTo
  <2> QED
    BY <1>0, <1>k, <2>2, <2>3, <2>4
<1>3. ASSUME NEW o \in Conns, Announce(o) PROVE Told(KnownTo(k)', roster'[t], wire'[k])
  <2> DEFINE i == peers[o]
             m == [kind |-> "PeerJoined", id |-> i]
  <2>1. /\ pc[o] = "announce" /\ pc'[o] = "list" /\ \A c \in Conns : c # o => pc'[c] = pc[c]
        /\ UNCHANGED <<leaving, peers, roster, link, click>>
    BY <1>t, <1>3 DEF Announce, tabVars
  <2>2. i \in Ids /\ m \in Message
    <3>1. peers[o] = peer[o]
      BY <1>3, <1>c, CalmSteps
    <3> QED
      BY <1>t, <2>1, <3>1 DEF HubInv, Message
  <2>3. k # o /\ link[t] = k /\ pc[k] = "idle" /\ peers[k] # None
    BY <1>k, <2>1
  <2>4. Told(KnownTo(k), roster[t], wire[k]) /\ state[k] = "open"
    BY <1>0, <2>3
  <2>5. Fresh(i)
    BY <2>1 DEF Fresh
  <2>6. roster[t][i] = 0 /\ \A x \in Range(wire[k]) : ~Mentions(x, i)
    BY <2>2, <2>5 DEF CalmInv, FreshInv
  <2>7. /\ \A c \in Conns : peers[c] = i => c = o
        /\ \A c \in Conns : leaving[c] # i
    <3>1. Holds(o, i) /\ leaving[o] = None
      BY <2>1 DEF Holds, CalmInv, OneAtATime
    <3> QED
      BY <1>n, <2>2, <3>1 DEF CalmInv, HoldInv, Holds
  <2>8. wire'[k] = Append(wire[k], m)
    <3>1. Send(Conns \ {o}, m)
      BY <1>3, <1>c, CalmSteps DEF Announce
    <3> HIDE DEF m
    <3> QED
      BY <1>t, <2>2, <2>3, <2>4, <3>1, Sent
  <2> HIDE DEF i
  <2>9. KnownTo(k)' = KnownTo(k) \cup {i}
    <3>1. peers[o] = i
      BY DEF i
    <3>2. \A h : h \in KnownTo(k)' <=>
            h # None /\ \E c \in Conns : c # k /\ ((pc'[c] # "announce" /\ peers'[c] = h) \/ leaving'[c] = h)
      BY DEF KnownTo
    <3>3. \A h : h \in KnownTo(k)' <=> h \in KnownTo(k) \/ h = i
      BY <1>n, <2>1, <2>2, <2>3, <3>1, <3>2, KnownIs
    <3> QED
      BY <3>3
  <2>10. i \notin KnownTo(k)
    BY <2>1, <2>7, KnownIs
  <2>11. Told(KnownTo(k) \cup {i}, roster[t], wire'[k])
    BY <1>t, <2>2, <2>4, <2>6, <2>8, <2>10, ToldJoined
  <2> QED
    BY <2>1, <2>9, <2>11
<1>4. ASSUME NEW o \in Conns, List(o) PROVE Told(KnownTo(k)', roster'[t], wire'[k])
  <2>1. /\ pc[o] = "list" /\ pc'[o] = "reply" /\ \A c \in Conns : c # o => pc'[c] = pc[c]
        /\ UNCHANGED <<leaving, peers, wire, roster, link>>
    <3>1. pc' = [pc EXCEPT ![o] = "reply"]
      BY <1>c, <1>4, CalmSteps
    <3> QED
      BY <1>t, <1>4, <3>1 DEF List, tabVars
  <2>2. KnownTo(k)' = KnownTo(k)
    <3>1. \A c \in Conns : pc'[c] # "announce" <=> pc[c] # "announce"
      BY <2>1
    <3> QED
      BY <2>1, <3>1 DEF KnownTo
  <2>3. k # o
    BY <1>k, <2>1
  <2> QED
    BY <1>0, <1>k, <2>1, <2>2, <2>3
<1>5. ASSUME NEW o \in Conns, Reply(o) PROVE Told(KnownTo(k)', roster'[t], wire'[k])
  <2>1. /\ pc[o] = "reply" /\ pc'[o] = "idle" /\ \A c \in Conns : c # o => pc'[c] = pc[c]
        /\ UNCHANGED <<leaving, peers, roster, link, state>>
        /\ \A c \in Conns : c # o => wire'[c] = wire[c]
    <3>1. pc[o] = "reply"
      BY <1>c, <1>5, CalmSteps
    <3> QED
      BY <1>t, <1>5, <3>1 DEF Reply, tabVars
  <2>2. CASE k # o
    <3>1. KnownTo(k)' = KnownTo(k)
      <4>1. \A c \in Conns : pc'[c] # "announce" <=> pc[c] # "announce"
        BY <2>1
      <4> QED
        BY <2>1, <4>1 DEF KnownTo
    <3> QED
      BY <1>0, <1>k, <2>1, <2>2, <3>1
  <2>3. CASE k = o
    <3>1. \A c \in Conns : c # k => pc[c] = "idle" /\ leaving[c] = None
      BY <1>q, <2>1, <2>3 DEF Busy, CalmInv, OneAtATime
    <3>2. listed[k] = OthersThan(k) /\ listed[k] \in SUBSET Ids /\ peers[k] \in Ids
      BY <1>t, <2>1, <2>3 DEF CalmInv, OneAtATime
    <3>3. KnownTo(k)' = listed[k]
      <4>1. \A h : h \in KnownTo(k)' <=>
              h # None /\ \E c \in Conns : c # k /\ ((pc'[c] # "announce" /\ peers'[c] = h) \/ leaving'[c] = h)
        BY DEF KnownTo
      <4>2. \A h : h \in OthersThan(k) <=> h # None /\ \E c \in Conns : c # k /\ peers[c] = h
        BY DEF OthersThan
      <4>3. \A h : h \in KnownTo(k)' <=> h \in OthersThan(k)
        BY <2>1, <2>3, <3>1, <4>1, <4>2
      <4> QED
        BY <3>2, <4>3
    <3>4. wire'[k] = wire[k] \o <<[kind |-> "PeersList", ids |-> listed[k]], [kind |-> "Completion", id |-> peers[k]]>>
      <4>1. state[k] = "open"
        BY <1>k, <2>1 DEF CalmInv, LinkInv
      <4> QED
        BY <1>c, <1>t, <1>5, <2>3, <4>1, CalmSteps DEF Reply, Answer
    <3>5. Told(listed[k], roster[t], wire'[k])
      BY <1>t, <3>2, <3>4, ToldReplied
    <3> QED
      BY <2>1, <3>3, <3>5
  <2> QED
    BY <2>2, <2>3
<1>6. ASSUME NEW o \in Conns, OnDisconnected(o) PROVE Told(KnownTo(k)', roster'[t], wire'[k])
  <2>1. /\ state[o] = "dropped" /\ pc[o] # "announce"
        /\ peers'[o] = None /\ leaving'[o] = peers[o]
        /\ \A c \in Conns : c # o => peers'[c] = peers[c] /\ leaving'[c] = leaving[c]
        /\ UNCHANGED <<pc, wire, roster, link>>
    <3>1. /\ peers' = [peers EXCEPT ![o] = None] /\ leaving' = [leaving EXCEPT ![o] = peers[o]]
          /\ state' = [state EXCEPT ![o] = IF peers[o] = None THEN "closed" ELSE "leaving"]
      BY <1>c, <1>6, CalmSteps
    <3> QED
      BY <1>t, <1>6, <3>1 DEF OnDisconnected, tabVars
  <2>2. leaving[o] = None /\ k # o
    BY <1>k, <2>1 DEF CalmInv, OneAtATime, LinkInv
  <2>3. KnownTo(k)' = KnownTo(k)
    <3>1. \A h : h \in KnownTo(k)' <=>
            h # None /\ \E c \in Conns : c # k /\ ((pc'[c] # "announce" /\ peers'[c] = h) \/ leaving'[c] = h)
      BY DEF KnownTo
    <3>2. \A h : h \in KnownTo(k)' <=> h \in KnownTo(k)
      BY <2>1, <2>2, <3>1, KnownIs
    <3> QED
      BY <3>2
  <2> QED
    BY <1>0, <1>k, <2>1, <2>2, <2>3
<1>7. ASSUME NEW o \in Conns, SendPeerLeft(o) PROVE Told(KnownTo(k)', roster'[t], wire'[k])
  <2> DEFINE i == leaving[o]
             m == [kind |-> "PeerLeft", id |-> i]
  <2>1. /\ state[o] = "leaving" /\ leaving'[o] = None
        /\ \A c \in Conns : c # o => leaving'[c] = leaving[c]
        /\ UNCHANGED <<pc, peers, roster, link>>
    BY <1>t, <1>7 DEF SendPeerLeft, tabVars
  <2>2. i \in Ids /\ m \in Message /\ peers[o] = None
    BY <1>t, <2>1 DEF HubInv, Message, CalmInv, NoLeakedPeer
  <2>3. k # o /\ link[t] = k /\ pc[k] = "idle" /\ peers[k] # None
    BY <1>k, <2>1, <2>2
  <2>4. Told(KnownTo(k), roster[t], wire[k]) /\ state[k] = "open"
    BY <1>0, <2>3
  <2>5. /\ \A c \in Conns : peers[c] # i
        /\ \A c \in Conns : leaving[c] = i => c = o
    <3>1. Holds(o, i)
      BY DEF Holds
    <3> QED
      BY <1>n, <2>2, <3>1 DEF CalmInv, HoldInv, Holds
  <2>6. wire'[k] = Append(wire[k], m)
    <3>1. Send(Conns, m)
      BY <1>7 DEF SendPeerLeft
    <3> HIDE DEF m
    <3> QED
      BY <1>t, <2>2, <2>4, <3>1, Sent
  <2> HIDE DEF i
  <2>7. KnownTo(k)' = KnownTo(k) \ {i}
    <3>1. leaving[o] = i
      BY DEF i
    <3>2. \A h : h \in KnownTo(k)' <=>
            h # None /\ \E c \in Conns : c # k /\ ((pc'[c] # "announce" /\ peers'[c] = h) \/ leaving'[c] = h)
      BY DEF KnownTo
    <3>3. \A h : h \in KnownTo(k)' <=> h \in KnownTo(k) /\ h # i
      BY <2>1, <2>5, <3>1, <3>2, KnownIs
    <3> QED
      BY <3>3
  <2>8. Told(KnownTo(k) \ {i}, roster[t], wire'[k])
    BY <1>t, <2>2, <2>4, <2>6, ToldLeft
  <2> QED
    BY <2>1, <2>7, <2>8
<1>8. CASE UNCHANGED vars
  <2>1. UNCHANGED <<link, peers, pc, leaving, roster, wire>>
    BY <1>8 DEF vars, tabVars, hubVars
  <2>2. KnownTo(k)' = KnownTo(k)
    BY <2>1 DEF KnownTo
  <2> QED
    BY <1>s, <2>1, <2>2
<1> QED
  BY <1>1, <1>2, <1>3, <1>4, <1>5, <1>6, <1>7, <1>8 DEF Next, InvocationStep, DisconnectStep

-----------------------------------------------------------------------------
LEMMA InitCalmInv == Init => CalmInv
<1> SUFFICES ASSUME Init PROVE CalmInv
  OBVIOUS
<1> USE DEF Init
<1>1. OneAtATime /\ NoLeakedPeer /\ LinkInv
  BY NoneAssumption DEF OneAtATime, NoLeakedPeer, LinkInv, Busy
<1>2. \A k \in Conns : Range(calls[k]) = {} /\ Range(wire[k]) = {}
  BY ShortRanges
<1>7. NothingFails
  BY <1>2 DEF NothingFails
<1>3. HoldInv
  BY <1>2, NoneAssumption DEF HoldInv, Holds
<1>4. FreshInv
  BY <1>2, NoneAssumption DEF FreshInv, Holds, Nobody
<1>5. AwaitInv
  BY NoneAssumption DEF AwaitInv
<1>6. ToldInv
  BY NoneAssumption DEF ToldInv, Registered
<1> QED
  BY <1>1, <1>3, <1>4, <1>5, <1>6, <1>7 DEF CalmInv

(* While the hub runs one method at a time and users wait for the outcome  *)
(* of a click: a peer id is in one pair of hands, nobody has heard of it   *)
(* before PeerJoined, and what is on a tab's wire turns the list that it   *)
(* shows into the list of the peers that were announced and whose leaving  *)
(* was not.                                                                *)
THEOREM CalmInvariance == ASSUME Overlap = 1, Patient PROVE Spec => []CalmInv
<1>1. IInv /\ CalmInv /\ [Next]_vars => CalmInv'
  <2> SUFFICES ASSUME IInv, CalmInv, [Next]_vars PROVE CalmInv'
    OBVIOUS
  <2>1. OneAtATime'
    BY OneAtATimeStep DEF IInv, CalmInv
  <2>4. NoLeakedPeer' /\ NothingFails'
    BY NoLeakStep, NothingFailsStep DEF IInv, CalmInv
  <2>2. LinkInv'
    BY LinkStep DEF IInv, CalmInv
  <2>3. HoldInv' /\ FreshInv' /\ AwaitInv' /\ ToldInv'
    BY HoldStep, FreshStep, AwaitStep, ToldStep
  <2> QED
    BY <2>1, <2>2, <2>3, <2>4 DEF CalmInv
<1> QED
  BY <1>1, InitCalmInv, Invariance, PTL DEF Spec

(* "Send list of existing peers to the new peer", "Notify others about new *)
(* peer": however many tabs join, leave, lose their link and come back, and*)
(* however late the hub notices, when all is quiet each registered tab     *)
(* lists the other registered peers, each of them once, and nobody else.   *)
THEOREM RosterIsExact == ASSUME Overlap = 1, Patient PROVE Spec => []RosterExact
<1>1. IInv /\ CalmInv => RosterExact
  <2> SUFFICES ASSUME IInv, CalmInv, Rest, NEW t \in Tabs, Registered(t)
               PROVE  roster[t] = ListOf(OthersThan(link[t]))
    BY DEF RosterExact
  <2> DEFINE k == link[t]
  <2>1. k \in Conns /\ roster[t] \in [Ids -> Nat]
    BY DEF Registered, IInv, TypeOK
  <2>2. \A o \in Conns : pc[o] = "idle" /\ leaving[o] = None
    BY DEF Rest, Busy, CalmInv, OneAtATime
  <2>3. KnownTo(k) = OthersThan(k)
    BY <2>2 DEF KnownTo, OthersThan
  <2>4. wire[k] = <<>> /\ Told(KnownTo(k), roster[t], wire[k])
    BY <2>1, <2>2 DEF Rest, CalmInv, ToldInv
  <2> QED
    BY <2>1, <2>3, <2>4, ToldAll
<1> QED
  BY <1>1, Invariance, CalmInvariance, PTL
=============================================================================
