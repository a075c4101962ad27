------------------------- MODULE AlertStreamProofs -------------------------
(***************************************************************************)
(* Proofs about AlertStream, for every set of sessions and every set of    *)
(* trigger requests.                                                       *)
(***************************************************************************)
EXTENDS AlertStream, SequenceTheorems, TLAPS

USE DEF Read, Unread, Reaches, WaitEnds, Unregister, Store, Accepts, Remaining,
        Answer

-----------------------------------------------------------------------------
(* Lemmas about sequences.                                                 *)

(* Appending to the right operand of a concatenation appends to the whole. *)
LEMMA AppendConcat ==
    ASSUME NEW S, NEW s \in Seq(S), NEW t \in Seq(S), NEW e \in S
    PROVE  s \o Append(t, e) = Append(s \o t, e)
<1>1. <<e>> \in Seq(S)
  OBVIOUS
<1>2. s \o t \in Seq(S)
  BY ConcatProperties
<1> QED
  BY <1>1, <1>2, AppendIsConcat, ConcatAssociative

(* The head of a sequence may change sides in a concatenation.             *)
LEMMA MoveHead ==
    ASSUME NEW S, NEW s \in Seq(S), NEW t \in Seq(S), t # <<>>
    PROVE  (s \o <<Head(t)>>) \o Tail(t) = s \o t
<1>1. Head(t) \in S /\ Tail(t) \in Seq(S) /\ <<Head(t)>> \in Seq(S)
  BY HeadTailProperties
<1>2. <<Head(t)>> \o Tail(t) = t
  <2>1. <<Head(t)>> \o Tail(t) \in Seq(S)
    BY <1>1, ConcatProperties
  <2> QED
    BY <1>1, <2>1
<1> QED
  BY <1>1, <1>2, ConcatAssociative

(* The elements of an extended sequence.                                   *)
LEMMA RangeAppend ==
    ASSUME NEW S, NEW s \in Seq(S), NEW e \in S
    PROVE  Range(Append(s, e)) = Range(s) \cup {e}
<1>1. DOMAIN Append(s, e) = 1 .. Len(s) + 1 /\ DOMAIN s = 1 .. Len(s)
  OBVIOUS
<1>2. \A i \in 1 .. Len(s) : Append(s, e)[i] = s[i]
  OBVIOUS
<1>3. Append(s, e)[Len(s) + 1] = e
  OBVIOUS
<1>4. Len(s) \in Nat
  OBVIOUS
<1> QED
  BY <1>1, <1>2, <1>3, <1>4 DEF Range

(* A sequence without duplicates stays so when a new element is appended.  *)
LEMMA InjectiveAppend ==
    ASSUME NEW S, NEW s \in Seq(S), NEW e \in S,
           IsInjective(s), e \notin Range(s)
    PROVE  IsInjective(Append(s, e))
<1>1. DOMAIN Append(s, e) = 1 .. Len(s) + 1 /\ DOMAIN s = 1 .. Len(s)
  OBVIOUS
<1>2. \A i \in 1 .. Len(s) : Append(s, e)[i] = s[i] /\ s[i] # e
  BY <1>1 DEF Range
<1>3. Append(s, e)[Len(s) + 1] = e /\ Len(s) \in Nat
  OBVIOUS
<1>4. \A i \in 1 .. Len(s) + 1 : i \in 1 .. Len(s) \/ i = Len(s) + 1
  BY <1>3
<1>5. \A i, j \in 1 .. Len(s) : s[i] = s[j] => i = j
  BY <1>1 DEF IsInjective
<1> QED
  BY <1>1, <1>2, <1>3, <1>4, <1>5 DEF IsInjective

(* IsPrefix, element by element.                                           *)
LEMMA PrefixElements ==
    ASSUME NEW S, NEW s \in Seq(S), NEW t \in Seq(S)
    PROVE  IsPrefix(s, t) <=>
             Len(s) <= Len(t) /\ \A i \in 1 .. Len(s) : s[i] = t[i]
<1>1. SubSeq(s, 1, Len(s)) = s
  BY SubSeqFull
<1>2. ASSUME Len(s) <= Len(t)
      PROVE  /\ SubSeq(t, 1, Len(s)) \in Seq(S)
             /\ Len(SubSeq(t, 1, Len(s))) = Len(s)
             /\ \A i \in 1 .. Len(s) : SubSeq(t, 1, Len(s))[i] = t[i]
  BY <1>2
<1> QED
  BY <1>1, <1>2, SeqEqual DEF IsPrefix

(* A sequence is a prefix of its extensions.                               *)
LEMMA PrefixConcat ==
    ASSUME NEW S, NEW s \in Seq(S), NEW t \in Seq(S)
    PROVE  IsPrefix(s, s \o t)
<1>1. s \o t \in Seq(S) /\ Len(s \o t) = Len(s) + Len(t)
  BY ConcatProperties
<1>2. \A i \in 1 .. Len(s) : (s \o t)[i] = s[i]
  OBVIOUS
<1>3. Len(s) <= Len(s \o t)
  BY <1>1
<1> QED
  BY <1>1, <1>2, <1>3, PrefixElements

(* Appending to the longer sequence keeps the prefix.                      *)
LEMMA PrefixAppend ==
    ASSUME NEW S, NEW s \in Seq(S), NEW t \in Seq(S), NEW e \in S,
           IsPrefix(s, t)
    PROVE  IsPrefix(s, Append(t, e))
<1>1. Append(t, e) \in Seq(S) /\ Len(Append(t, e)) = Len(t) + 1
  OBVIOUS
<1>2. Len(s) <= Len(t) /\ \A i \in 1 .. Len(s) : s[i] = t[i]
  BY PrefixElements
<1>3. \A i \in 1 .. Len(t) : Append(t, e)[i] = t[i]
  OBVIOUS
<1>4. Len(s) \in Nat /\ Len(t) \in Nat
  OBVIOUS
<1>5. Len(s) <= Len(t) + 1 /\ \A i \in 1 .. Len(s) : s[i] = Append(t, e)[i]
  BY <1>2, <1>3, <1>4
<1> QED
  BY <1>1, <1>5, PrefixElements

(* What follows s in (s \o h) \o t when h has one element.                 *)
LEMMA NextOfConcat ==
    ASSUME NEW S, NEW s \in Seq(S), NEW h \in Seq(S), NEW t \in Seq(S),
           Len(h) = 1
    PROVE  /\ Len(s) < Len((s \o h) \o t)
           /\ ((s \o h) \o t)[Len(s) + 1] = h[1]
           /\ s \o h = Append(s, h[1])
<1>1. h = <<h[1]>> /\ h[1] \in S
  OBVIOUS
<1>2. s \o h = Append(s, h[1])
  BY <1>1, AppendIsConcat
<1>3. s \o h \in Seq(S) /\ Len(s \o h) = Len(s) + 1 /\ (s \o h)[Len(s) + 1] = h[1]
  BY <1>1, <1>2, AppendProperties
<1>4. Len(s) \in Nat /\ Len(t) \in Nat /\ Len(s) + 1 \in 1 .. Len(s) + 1 + Len(t)
  OBVIOUS
<1>5. /\ Len((s \o h) \o t) = Len(s) + 1 + Len(t)
      /\ ((s \o h) \o t)[Len(s) + 1] = (s \o h)[Len(s) + 1]
  <2> DEFINE u == s \o h
  <2>1. u \in Seq(S) /\ Len(u) = Len(s) + 1
    BY <1>3
  <2> HIDE DEF u
  <2>2. /\ Len(u \o t) = Len(u) + Len(t)
        /\ \A i \in 1 .. Len(u) + Len(t) :
              (u \o t)[i] = IF i <= Len(u) THEN u[i] ELSE t[i - Len(u)]
    BY <2>1, ConcatProperties
  <2>3. (u \o t)[Len(s) + 1] = u[Len(s) + 1]
    BY <2>1, <2>2, <1>4
  <2> QED
    BY <2>1, <2>2, <2>3 DEF u
<1> QED
  BY <1>2, <1>3, <1>4, <1>5

-----------------------------------------------------------------------------
(* The inductive invariant, part by part.  Each lemma names the parts it   *)
(* needs of the state before the step.                                     *)

LEMMA InitIInv == Init => IInv
<1> SUFFICES ASSUME Init PROVE IInv
  OBVIOUS
<1> USE DEF Init
<1>1. TypeOK
  BY DEF TypeOK, SessionStates, TriggerStates
<1>2. SessionInv
  BY DEF SessionInv
<1>3. RegistryExact
  BY DEF RegistryExact, Registered
<1>4. NothingLost
  BY DEF NothingLost
<1>5. SeenInOrder
  <2>1. <<>> \in Seq(Alerts) /\ Len(<<>>) = 0
    OBVIOUS
  <2>2. IsPrefix(<<>>, <<>>)
    BY <2>1 DEF IsPrefix
  <2> QED
    BY <2>2 DEF SeenInOrder
<1>6. \A c \in Clients : Range(written[c]) = {}
  BY DEF Range
<1>7. TriggerInv
  BY DEF TriggerInv
<1>8. BroadcastInv
  BY <1>6 DEF BroadcastInv
<1>9. AtMostOnce
  BY DEF AtMostOnce, IsInjective
<1> QED
  BY <1>1, <1>2, <1>3, <1>4, <1>5, <1>7, <1>8, <1>9 DEF IInv

(* Every step keeps the variables in their types.                          *)
LEMMA TypeStep == TypeOK /\ [Next]_vars => TypeOK'
<1> SUFFICES ASSUME TypeOK, [Next]_vars PROVE TypeOK'
  OBVIOUS
<1>1. ASSUME NEW c \in Clients, Subscribe(c) PROVE TypeOK'
  BY <1>1 DEF Subscribe, triggerVars, TypeOK, SessionStates, Goto
<1>2. ASSUME NEW c \in Clients, ClientAborts(c) PROVE TypeOK'
  BY <1>2 DEF ClientAborts, triggerVars, TypeOK, SessionStates, Goto
<1>3. ASSUME NEW c \in Clients, WriteConnected(c) PROVE TypeOK'
  BY <1>3 DEF WriteConnected, triggerVars, TypeOK, SessionStates, Goto
<1>4. ASSUME NEW c \in Clients, TakeAlert(c) PROVE TypeOK'
  <2>1. Head(chan[c]) \in Alerts /\ Tail(chan[c]) \in Seq(Alerts)
    BY <1>4, HeadTailProperties DEF TakeAlert, TypeOK
  <2>2. <<Head(chan[c])>> \in Seq(Alerts)
    BY <2>1
  <2> QED
    BY <1>4, <2>1, <2>2 DEF TakeAlert, triggerVars, TypeOK, SessionStates, Goto
<1>5. ASSUME NEW c \in Clients, Drained(c) PROVE TypeOK'
  BY <1>5 DEF Drained, triggerVars, TypeOK, SessionStates, Goto
<1>6. ASSUME NEW c \in Clients, WriteAlert(c) PROVE TypeOK'
  <2>1. sent[c] \o hand[c] \in Seq(Alerts) /\ <<>> \in Seq(Alerts)
    BY ConcatProperties DEF TypeOK
  <2> QED
    BY <1>6, <2>1 DEF WriteAlert, triggerVars, TypeOK, SessionStates, Goto
<1>7. ASSUME NEW c \in Clients, WriteThrows(c) PROVE TypeOK'
  BY <1>7 DEF WriteThrows, triggerVars, TypeOK, SessionStates, Goto
<1>8. ASSUME NEW c \in Clients, LeaveLoop(c) PROVE TypeOK'
  BY <1>8 DEF LeaveLoop, triggerVars, TypeOK, SessionStates, Goto
<1>9. ASSUME NEW c \in Clients, TryRemove(c) PROVE TypeOK'
  BY <1>9 DEF TryRemove, triggerVars, TypeOK, SessionStates, Goto
<1>10. ASSUME NEW c \in Clients, Complete(c) PROVE TypeOK'
  BY <1>10 DEF Complete, triggerVars, TypeOK, SessionStates, Goto
<1>11. ASSUME NEW a \in Alerts, CreateAlert(a) PROVE TypeOK'
  BY <1>11 DEF CreateAlert, sessionVars, TypeOK, TriggerStates
<1>12. ASSUME NEW a \in Alerts, TakeSnapshot(a) PROVE TypeOK'
  BY <1>12 DEF TakeSnapshot, sessionVars, TypeOK, TriggerStates
<1>13. ASSUME NEW a \in Alerts, NEW c \in Clients, WriteTo(a, c) PROVE TypeOK'
  <2>1. pending' \in [Alerts -> SUBSET Clients]
    BY <1>13 DEF WriteTo, TypeOK
  <2>2. faulted' \in [Alerts -> BOOLEAN]
    BY <1>13 DEF WriteTo, TypeOK
  <2>3. Append(chan[c], a) \in Seq(Alerts) /\ Append(written[c], a) \in Seq(Alerts)
    BY DEF TypeOK
  <2>4. chan' \in [Clients -> Seq(Alerts)] /\ written' \in [Clients -> Seq(Alerts)]
    BY <1>13, <2>3 DEF WriteTo, TypeOK
  <2> QED
    BY <1>13, <2>1, <2>2, <2>4 DEF WriteTo, sessionVars, TypeOK
<1>14. ASSUME NEW a \in Alerts, WhenAll(a) PROVE TypeOK'
  BY <1>14 DEF WhenAll, sessionVars, TypeOK, TriggerStates
<1>15. ASSUME NEW a \in Alerts, TriggerStep(a) PROVE TypeOK'
  BY <1>12, <1>13, <1>14, <1>15 DEF TriggerStep
<1>16. CASE UNCHANGED vars
  BY <1>16 DEF vars, sessionVars, triggerVars, TypeOK
<1> QED
  BY <1>1, <1>2, <1>3, <1>4, <1>5, <1>6, <1>7, <1>8, <1>9, <1>10, <1>11,
     <1>15, <1>16 DEF Next, SessionStep

(* A trigger request leaves every variable of the sessions' handlers       *)
(* alone; it only writes to their channels.                                *)
LEMMA TriggersKeepSessions ==
    ASSUME NEW a \in Alerts, CreateAlert(a) \/ TriggerStep(a)
    PROVE  UNCHANGED sessionVars
BY DEF CreateAlert, TriggerStep, TakeSnapshot, WriteTo, WhenAll

(* A session leaves the trigger requests and the history of the channels   *)
(* alone.                                                                  *)
LEMMA SessionsKeepTriggers ==
    ASSUME NEW c \in Clients,
           Subscribe(c) \/ ClientAborts(c) \/ SessionStep(c)
    PROVE  UNCHANGED <<written, triggerVars>>
BY DEF Subscribe, ClientAborts, SessionStep, WriteConnected, TakeAlert, Drained,
       WriteAlert, WriteThrows, LeaveLoop, TryRemove, Complete

LEMMA SessionInvStep ==
    TypeOK /\ RegistryExact /\ SessionInv /\ [Next]_vars => SessionInv'
<1> SUFFICES ASSUME TypeOK, RegistryExact, SessionInv, [Next]_vars
             PROVE  SessionInv'
  OBVIOUS
<1>1. ASSUME NEW c \in Clients, Subscribe(c) PROVE SessionInv'
  BY <1>1 DEF Subscribe, Goto, TypeOK, SessionInv
<1>2. ASSUME NEW c \in Clients, ClientAborts(c) PROVE SessionInv'
  BY <1>2 DEF ClientAborts, TypeOK, SessionInv
<1>3. ASSUME NEW c \in Clients, WriteConnected(c) PROVE SessionInv'
  BY <1>3 DEF WriteConnected, Goto, TypeOK, SessionInv
<1>4. ASSUME NEW c \in Clients, TakeAlert(c) PROVE SessionInv'
  BY <1>4 DEF TakeAlert, Goto, TypeOK, SessionInv
<1>5. ASSUME NEW c \in Clients, Drained(c) PROVE SessionInv'
  BY <1>5 DEF Drained, Goto, TypeOK, SessionInv
<1>6. ASSUME NEW c \in Clients, WriteAlert(c) PROVE SessionInv'
  BY <1>6 DEF WriteAlert, Goto, TypeOK, SessionInv
<1>7. ASSUME NEW c \in Clients, WriteThrows(c) PROVE SessionInv'
  BY <1>7 DEF WriteThrows, Goto, TypeOK, SessionInv
<1>8. ASSUME NEW c \in Clients, LeaveLoop(c) PROVE SessionInv'
  <2>1. aborted[c]
    BY <1>8 DEF LeaveLoop, RegistryExact
  <2> QED
    BY <1>8, <2>1 DEF LeaveLoop, Goto, TypeOK, SessionInv
<1>9. ASSUME NEW c \in Clients, TryRemove(c) PROVE SessionInv'
  BY <1>9 DEF TryRemove, Goto, TypeOK, SessionInv
<1>10. ASSUME NEW c \in Clients, Complete(c) PROVE SessionInv'
  BY <1>10 DEF Complete, Goto, TypeOK, SessionInv
<1>11. ASSUME NEW a \in Alerts, CreateAlert(a) \/ TriggerStep(a) PROVE SessionInv'
  BY <1>11, TriggersKeepSessions DEF sessionVars, SessionInv
<1>12. CASE UNCHANGED vars
  BY <1>12 DEF vars, sessionVars, SessionInv
<1> QED
  BY <1>1, <1>2, <1>3, <1>4, <1>5, <1>6, <1>7, <1>8, <1>9, <1>10, <1>11,
     <1>12 DEF Next, SessionStep

LEMMA RegistryStep ==
    TypeOK /\ RegistryExact /\ [Next]_vars => RegistryExact'
<1> SUFFICES ASSUME TypeOK, RegistryExact, [Next]_vars PROVE RegistryExact'
  OBVIOUS
<1>1. ASSUME NEW c \in Clients, Subscribe(c) PROVE RegistryExact'
  BY <1>1 DEF Subscribe, Goto, TypeOK, RegistryExact, Registered
<1>2. ASSUME NEW c \in Clients, ClientAborts(c) PROVE RegistryExact'
  BY <1>2 DEF ClientAborts, RegistryExact, Registered
<1>3. ASSUME NEW c \in Clients,
             \/ WriteConnected(c) \/ TakeAlert(c) \/ Drained(c)
             \/ WriteAlert(c) \/ WriteThrows(c) \/ LeaveLoop(c)
      PROVE  RegistryExact'
  <2>1. /\ clients' = clients /\ closed' = closed
        /\ pc[c] \in Registered
        /\ \E s \in Registered : Goto(c, s)
    BY <1>3 DEF WriteConnected, TakeAlert, Drained, WriteAlert, WriteThrows,
                LeaveLoop, Registered
  <2> QED
    BY <2>1 DEF Goto, TypeOK, RegistryExact, Registered
<1>4. ASSUME NEW c \in Clients, TryRemove(c) PROVE RegistryExact'
  <2>1. c \in clients
    BY <1>4 DEF TryRemove, RegistryExact, Registered
  <2> QED
    BY <1>4, <2>1 DEF TryRemove, Goto, TypeOK, RegistryExact, Registered
<1>5. ASSUME NEW c \in Clients, Complete(c) PROVE RegistryExact'
  BY <1>5 DEF Complete, Goto, TypeOK, RegistryExact, Registered
<1>6. ASSUME NEW a \in Alerts, CreateAlert(a) \/ TriggerStep(a)
      PROVE  RegistryExact'
  BY <1>6, TriggersKeepSessions DEF sessionVars, RegistryExact
<1>7. CASE UNCHANGED vars
  BY <1>7 DEF vars, sessionVars, RegistryExact
<1> QED
  BY <1>1, <1>2, <1>3, <1>4, <1>5, <1>6, <1>7 DEF Next, SessionStep

LEMMA NothingLostStep ==
    TypeOK /\ SessionInv /\ NothingLost /\ [Next]_vars => NothingLost'
<1> SUFFICES ASSUME TypeOK, SessionInv, NothingLost, [Next]_vars,
                    NEW d \in Clients, ~aborted'[d]
             PROVE  written'[d] = sent'[d] \o hand'[d] \o chan'[d]
  BY DEF NothingLost
<1> DEFINE Balanced == written'[d] = sent'[d] \o hand'[d] \o chan'[d]
<1>0. /\ sent[d] \in Seq(Alerts) /\ hand[d] \in Seq(Alerts)
      /\ chan[d] \in Seq(Alerts) /\ written[d] \in Seq(Alerts)
  BY DEF TypeOK
<1>1. ASSUME NEW c \in Clients,
             \/ Subscribe(c) \/ ClientAborts(c) \/ WriteConnected(c)
             \/ Drained(c) \/ LeaveLoop(c) \/ TryRemove(c) \/ Complete(c)
      PROVE  Balanced
  BY <1>1 DEF Subscribe, ClientAborts, WriteConnected, Drained, LeaveLoop,
              TryRemove, Complete, TypeOK, NothingLost
<1>2. ASSUME NEW c \in Clients, TakeAlert(c) PROVE Balanced
  <2>1. CASE c = d
    <3>1. /\ chan[d] # <<>> /\ hand[d] = <<>> /\ ~aborted[d]
          /\ hand'[d] = <<Head(chan[d])>> /\ chan'[d] = Tail(chan[d])
          /\ sent'[d] = sent[d] /\ written'[d] = written[d]
      BY <1>2, <2>1 DEF TakeAlert, TypeOK, SessionInv
    <3>2. written[d] = sent[d] \o chan[d]
      BY <1>0, <3>1, ConcatEmptySeq DEF NothingLost
    <3> QED
      BY <1>0, <3>1, <3>2, MoveHead
  <2>2. CASE c # d
    BY <1>2, <2>2 DEF TakeAlert, TypeOK, NothingLost
  <2> QED
    BY <2>1, <2>2
<1>3. ASSUME NEW c \in Clients, WriteAlert(c) PROVE Balanced
  <2>1. CASE c = d
    <3>1. /\ ~aborted[d] /\ sent'[d] = sent[d] \o hand[d] /\ hand'[d] = <<>>
          /\ chan'[d] = chan[d] /\ written'[d] = written[d]
      BY <1>3, <2>1 DEF WriteAlert, TypeOK
    <3>2. (sent[d] \o hand[d]) \o <<>> = sent[d] \o hand[d]
      BY <1>0, ConcatProperties, ConcatEmptySeq
    <3> QED
      BY <3>1, <3>2 DEF NothingLost
  <2>2. CASE c # d
    BY <1>3, <2>2 DEF WriteAlert, TypeOK, NothingLost
  <2> QED
    BY <2>1, <2>2
<1>4. ASSUME NEW c \in Clients, WriteThrows(c) PROVE Balanced
  <2>1. c # d
    BY <1>4 DEF WriteThrows
  <2> QED
    BY <1>4, <2>1 DEF WriteThrows, TypeOK, NothingLost
<1>5. ASSUME NEW a \in Alerts,
             CreateAlert(a) \/ TakeSnapshot(a) \/ WhenAll(a)
      PROVE  Balanced
  BY <1>5 DEF CreateAlert, TakeSnapshot, WhenAll, sessionVars, NothingLost
<1>6. ASSUME NEW a \in Alerts, NEW c \in Clients, WriteTo(a, c)
      PROVE  Balanced
  <2>1. /\ aborted[d] = aborted'[d] /\ sent'[d] = sent[d] /\ hand'[d] = hand[d]
    BY <1>6 DEF WriteTo, sessionVars
  <2>2. CASE c = d /\ ~closed[d]
    <3>1. /\ chan'[d] = Append(chan[d], a)
          /\ written'[d] = Append(written[d], a)
      BY <1>6, <2>2 DEF WriteTo, TypeOK
    <3>2. sent[d] \o hand[d] \in Seq(Alerts)
      BY <1>0, ConcatProperties
    <3>3. written[d] = (sent[d] \o hand[d]) \o chan[d]
      BY <2>1 DEF NothingLost
    <3>4. \A s, t \in Seq(Alerts) : s \o Append(t, a) = Append(s \o t, a)
      BY AppendConcat
    <3> QED
      BY <1>0, <2>1, <3>1, <3>2, <3>3, <3>4
  <2>3. CASE ~(c = d /\ ~closed[d])
    BY <1>6, <2>1, <2>3 DEF WriteTo, TypeOK, NothingLost
  <2> QED
    BY <2>2, <2>3
<1>7. CASE UNCHANGED vars
  BY <1>7 DEF vars, sessionVars, NothingLost
<1>8. ASSUME NEW a \in Alerts, TriggerStep(a) PROVE Balanced
  BY <1>5, <1>6, <1>8 DEF TriggerStep
<1> QED
  BY <1>1, <1>2, <1>3, <1>4, <1>5, <1>7, <1>8 DEF Next, SessionStep

LEMMA SeenInOrderStep ==
    TypeOK /\ NothingLost /\ SeenInOrder /\ [Next]_vars => SeenInOrder'
<1> SUFFICES ASSUME TypeOK, NothingLost, SeenInOrder, [Next]_vars,
                    NEW d \in Clients
             PROVE  IsPrefix(sent[d], written[d])'
  BY DEF SeenInOrder
<1> DEFINE Ordered == IsPrefix(sent[d], written[d])
<1>0. /\ sent[d] \in Seq(Alerts) /\ hand[d] \in Seq(Alerts)
      /\ chan[d] \in Seq(Alerts) /\ written[d] \in Seq(Alerts)
  BY DEF TypeOK
<1>1. ASSUME NEW c \in Clients,
             \/ Subscribe(c) \/ ClientAborts(c) \/ WriteConnected(c)
             \/ TakeAlert(c) \/ Drained(c) \/ WriteThrows(c) \/ LeaveLoop(c)
             \/ TryRemove(c) \/ Complete(c)
      PROVE  Ordered'
  <2>1. sent' = sent /\ written' = written
    BY <1>1 DEF Subscribe, ClientAborts, WriteConnected, TakeAlert, Drained,
                WriteThrows, LeaveLoop, TryRemove, Complete
  <2> QED
    BY <2>1 DEF SeenInOrder
<1>2. ASSUME NEW c \in Clients, WriteAlert(c) PROVE Ordered'
  <2>1. CASE c = d /\ ~aborted[d]
    <3>1. sent'[d] = sent[d] \o hand[d] /\ written'[d] = written[d]
      BY <1>2, <2>1 DEF WriteAlert, TypeOK
    <3>2. sent[d] \o hand[d] \in Seq(Alerts)
      BY <1>0, ConcatProperties
    <3>3. written[d] = (sent[d] \o hand[d]) \o chan[d]
      BY <2>1 DEF NothingLost
    <3> QED
      BY <1>0, <3>1, <3>2, <3>3, PrefixConcat
  <2>2. CASE ~(c = d /\ ~aborted[d])
    BY <1>2, <2>2 DEF WriteAlert, TypeOK, SeenInOrder
  <2> QED
    BY <2>1, <2>2
<1>3. ASSUME NEW a \in Alerts,
             CreateAlert(a) \/ TakeSnapshot(a) \/ WhenAll(a)
      PROVE  Ordered'
  BY <1>3 DEF CreateAlert, TakeSnapshot, WhenAll, sessionVars, SeenInOrder
<1>4. ASSUME NEW a \in Alerts, NEW c \in Clients, WriteTo(a, c)
      PROVE  Ordered'
  <2>1. sent'[d] = sent[d] /\ IsPrefix(sent[d], written[d])
    BY <1>4 DEF WriteTo, sessionVars, SeenInOrder
  <2>2. CASE c = d /\ ~closed[d]
    <3>1. written'[d] = Append(written[d], a)
      BY <1>4, <2>2 DEF WriteTo, TypeOK
    <3> QED
      BY <1>0, <2>1, <3>1, PrefixAppend
  <2>3. CASE ~(c = d /\ ~closed[d])
    BY <1>4, <2>1, <2>3 DEF WriteTo, TypeOK
  <2> QED
    BY <2>2, <2>3
<1>5. CASE UNCHANGED vars
  BY <1>5 DEF vars, sessionVars, SeenInOrder
<1>6. ASSUME NEW a \in Alerts, TriggerStep(a) PROVE Ordered'
  BY <1>3, <1>4, <1>6 DEF TriggerStep
<1> QED
  BY <1>1, <1>2, <1>3, <1>5, <1>6 DEF Next, SessionStep

LEMMA TriggerInvStep ==
    TypeOK /\ RegistryExact /\ TriggerInv /\ [Next]_vars => TriggerInv'
<1> SUFFICES ASSUME TypeOK, RegistryExact, TriggerInv, [Next]_vars
             PROVE  TriggerInv'
  OBVIOUS
<1>1. ASSUME NEW c \in Clients,
             Subscribe(c) \/ ClientAborts(c) \/ SessionStep(c)
      PROVE  TriggerInv'
  <2>1. \A d \in Clients : pc[d] # "new" => pc'[d] # "new"
    BY <1>1 DEF Subscribe, ClientAborts, SessionStep, WriteConnected, TakeAlert,
                Drained, WriteAlert, WriteThrows, LeaveLoop, TryRemove,
                Complete, Goto, TypeOK
  <2>2. \A a \in Alerts : targets[a] \subseteq Clients
    BY DEF TypeOK
  <2> QED
    BY <1>1, <2>1, <2>2, SessionsKeepTriggers DEF triggerVars, TriggerInv
<1>2. ASSUME NEW a \in Alerts, CreateAlert(a) PROVE TriggerInv'
  BY <1>2 DEF CreateAlert, sessionVars, TypeOK, TriggerInv
<1>3. ASSUME NEW a \in Alerts, TakeSnapshot(a) PROVE TriggerInv'
  <2>1. \A c \in clients : pc[c] # "new"
    BY DEF RegistryExact, Registered
  <2> QED
    BY <1>3, <2>1 DEF TakeSnapshot, sessionVars, TypeOK, TriggerInv
<1>4. ASSUME NEW a \in Alerts, NEW c \in Clients, WriteTo(a, c)
      PROVE  TriggerInv'
  BY <1>4 DEF WriteTo, sessionVars, TypeOK, TriggerInv
<1>5. ASSUME NEW a \in Alerts, WhenAll(a) PROVE TriggerInv'
  BY <1>5 DEF WhenAll, sessionVars, TypeOK, TriggerInv
<1>6. CASE UNCHANGED vars
  BY <1>6 DEF vars, sessionVars, triggerVars, TriggerInv
<1>7. ASSUME NEW a \in Alerts, TriggerStep(a) PROVE TriggerInv'
  BY <1>3, <1>4, <1>5, <1>7 DEF TriggerStep
<1> QED
  BY <1>1, <1>2, <1>6, <1>7 DEF Next

LEMMA BroadcastInvStep ==
    /\ TypeOK /\ RegistryExact /\ TriggerInv /\ BroadcastInv
    /\ [Next]_vars
    => BroadcastInv'
<1> SUFFICES ASSUME TypeOK, RegistryExact, TriggerInv, BroadcastInv, [Next]_vars
             PROVE  BroadcastInv'
  OBVIOUS
<1>1. ASSUME NEW c \in Clients,
             Subscribe(c) \/ ClientAborts(c) \/ SessionStep(c)
      PROVE  BroadcastInv'
  <2>1. \A d \in Clients : closed[d] => closed'[d]
    BY <1>1 DEF Subscribe, ClientAborts, SessionStep, WriteConnected, TakeAlert,
                Drained, WriteAlert, WriteThrows, LeaveLoop, TryRemove,
                Complete, Goto, TypeOK
  <2>2. \A a \in Alerts : targets[a] \subseteq Clients
    BY DEF TypeOK
  <2> QED
    BY <1>1, <2>1, <2>2, SessionsKeepTriggers DEF triggerVars, BroadcastInv
<1>2. ASSUME NEW a \in Alerts, CreateAlert(a) PROVE BroadcastInv'
  BY <1>2 DEF CreateAlert, sessionVars, BroadcastInv
<1>3. ASSUME NEW a \in Alerts, TakeSnapshot(a) PROVE BroadcastInv'
  <2>1. /\ targets[a] = {} /\ ~faulted[a]
        /\ targets'[a] \ pending'[a] = {}
        /\ \A b \in Alerts \ {a} : targets'[b] = targets[b] /\ pending'[b] = pending[b]
        /\ written' = written /\ closed' = closed /\ faulted' = faulted
    BY <1>3 DEF TakeSnapshot, sessionVars, TypeOK, TriggerInv
  <2>2. \A c \in Clients : a \notin Range(written[c])
    BY <2>1 DEF BroadcastInv
  <2> QED
    BY <2>1, <2>2 DEF BroadcastInv
<1>4. ASSUME NEW a \in Alerts, NEW c \in Clients, WriteTo(a, c)
      PROVE  BroadcastInv'
  <2>1. /\ c \in targets[a] /\ targets' = targets /\ closed' = closed
        /\ pending'[a] = pending[a] \ {c}
        /\ \A b \in Alerts \ {a} : pending'[b] = pending[b]
        /\ a \notin Range(written[c])
    BY <1>4 DEF WriteTo, sessionVars, TypeOK, TriggerInv, BroadcastInv
  <2>2. CASE closed[c]
    <3>1. /\ written' = written /\ faulted'[a]
          /\ \A b \in Alerts \ {a} : faulted'[b] = faulted[b]
      BY <1>4, <2>2 DEF WriteTo, TypeOK
    <3> QED
      BY <2>1, <2>2, <3>1 DEF BroadcastInv
  <2>3. CASE ~closed[c]
    <3>1. faulted' = faulted /\ written' = [written EXCEPT ![c] = Append(written[c], a)]
      BY <1>4, <2>3 DEF WriteTo
    <3>2. Range(written'[c]) = Range(written[c]) \cup {a}
      BY <3>1, RangeAppend DEF TypeOK
    <3>3. \A d \in Clients \ {c} : written'[d] = written[d]
      BY <3>1 DEF TypeOK
    <3>4. \A b \in Alerts : targets[b] \subseteq Clients
      BY DEF TypeOK
    <3> QED
      BY <2>1, <2>3, <3>1, <3>2, <3>3, <3>4 DEF BroadcastInv
  <2> QED
    BY <2>2, <2>3
<1>5. ASSUME NEW a \in Alerts, WhenAll(a) PROVE BroadcastInv'
  BY <1>5 DEF WhenAll, sessionVars, BroadcastInv
<1>6. CASE UNCHANGED vars
  BY <1>6 DEF vars, sessionVars, triggerVars, BroadcastInv
<1>7. ASSUME NEW a \in Alerts, TriggerStep(a) PROVE BroadcastInv'
  BY <1>3, <1>4, <1>5, <1>7 DEF TriggerStep
<1> QED
  BY <1>1, <1>2, <1>6, <1>7 DEF Next

LEMMA AtMostOnceStep ==
    TypeOK /\ BroadcastInv /\ AtMostOnce /\ [Next]_vars => AtMostOnce'
<1> SUFFICES ASSUME TypeOK, BroadcastInv, AtMostOnce, [Next]_vars
             PROVE  AtMostOnce'
  OBVIOUS
<1>1. ASSUME NEW c \in Clients,
             Subscribe(c) \/ ClientAborts(c) \/ SessionStep(c)
      PROVE  AtMostOnce'
  BY <1>1, SessionsKeepTriggers DEF AtMostOnce
<1>2. ASSUME NEW a \in Alerts,
             CreateAlert(a) \/ TakeSnapshot(a) \/ WhenAll(a)
      PROVE  AtMostOnce'
  BY <1>2 DEF CreateAlert, TakeSnapshot, WhenAll, AtMostOnce
<1>3. ASSUME NEW a \in Alerts, NEW c \in Clients, WriteTo(a, c)
      PROVE  AtMostOnce'
  <2>1. a \notin Range(written[c])
    BY <1>3 DEF WriteTo, BroadcastInv
  <2>2. IsInjective(Append(written[c], a))
    BY <2>1, InjectiveAppend DEF TypeOK, AtMostOnce
  <2>3. \A d \in Clients :
          written'[d] = written[d] \/ (d = c /\ written'[d] = Append(written[c], a))
    BY <1>3 DEF WriteTo, TypeOK
  <2> QED
    BY <2>2, <2>3 DEF AtMostOnce
<1>4. CASE UNCHANGED vars
  BY <1>4 DEF vars, AtMostOnce
<1>5. ASSUME NEW a \in Alerts, TriggerStep(a) PROVE AtMostOnce'
  BY <1>2, <1>3, <1>5 DEF TriggerStep
<1> QED
  BY <1>1, <1>2, <1>4, <1>5 DEF Next

-----------------------------------------------------------------------------
(* Every behaviour of the sessions and the broadcasts stays inside the     *)
(* inductive invariant.                                                    *)
THEOREM Invariance == Spec => []IInv
<1>1. IInv /\ [Next]_vars => IInv'
  BY TypeStep, SessionInvStep, RegistryStep, NothingLostStep, SeenInOrderStep,
     TriggerInvStep, BroadcastInvStep, AtMostOnceStep DEF IInv
<1> QED
  BY InitIInv, <1>1, PTL DEF Spec

(* The variables keep their types.                                         *)
THEOREM TypeCorrect == Spec => []TypeOK
<1>1. IInv => TypeOK
  BY DEF IInv
<1> QED
  BY <1>1, Invariance, PTL

(* No handler leaks its registration: the statistics count exactly the     *)
(* sessions that run, and a channel is completed exactly when its session  *)
(* has ended.                                                              *)
THEOREM NoLeak == Spec => []RegistryExact
<1>1. IInv => RegistryExact
  BY DEF IInv
<1> QED
  BY <1>1, Invariance, PTL

(* A live session has seen or still holds everything written to it, in     *)
(* order; one that leaves has seen a prefix of it, and nothing twice.      *)
THEOREM FeedIntegrity == Spec => [](NothingLost /\ SeenInOrder /\ AtMostOnce)
<1>1. IInv => NothingLost /\ SeenInOrder /\ AtMostOnce
  BY DEF IInv
<1> QED
  BY <1>1, Invariance, PTL

(* No session is pushed an alert that AlertService has not stored.         *)
THEOREM SavedFirst == Spec => []SavedBeforePushed
<1>1. IInv => SavedBeforePushed
  <2> SUFFICES ASSUME IInv, NEW c \in Clients, NEW a \in Range(written[c])
               PROVE  a \in saved
    BY DEF SavedBeforePushed
  <2>1. a \in Alerts
    BY ElementOfSeq DEF IInv, TypeOK, Range
  <2>2. targets[a] # {}
    BY <2>1 DEF IInv, BroadcastInv
  <2> QED
    BY <2>1, <2>2 DEF IInv, TypeOK, TriggerInv
<1> QED
  BY <1>1, Invariance, PTL

(* What the two theorems on broadcasts have in common: only a session that *)
(* left has a completed channel, and a request that was answered has tried *)
(* every session of its snapshot.                                          *)
LEMMA BroadcastDone ==
    ASSUME IInv
    PROVE  /\ \A c \in Clients : closed[c] => aborted[c]
           /\ \A a \in Alerts : targets[a] \subseteq Clients
           /\ \A a \in Alerts : tpc[a] \in {"ok", "failed"} => targets[a] \ pending[a] = targets[a]
<1>1. \A c \in Clients : closed[c] => aborted[c]
  BY DEF IInv, SessionInv, RegistryExact
<1>2. \A a \in Alerts : targets[a] \subseteq Clients
  BY DEF IInv, TypeOK
<1>3. \A a \in Alerts : tpc[a] \in {"ok", "failed"} => targets[a] \ pending[a] = targets[a]
  BY DEF IInv, TriggerInv
<1> QED
  BY <1>1, <1>2, <1>3

(* A session that leaves during a broadcast costs no other session its     *)
(* alert: all the snapshot's sessions that stay get it, also when a        *)
(* WriteAsync before or after theirs has faulted.                          *)
THEOREM LeavingHarmsNobody == Spec => []OthersUnharmed
<1>1. IInv => OthersUnharmed
  BY BroadcastDone DEF IInv, BroadcastInv, OthersUnharmed
<1> QED
  BY <1>1, Invariance, PTL

(* The answer of POST /sse/alerts/test tells the truth: 200 when every     *)
(* session of the snapshot was given the alert, 500 only when a session    *)
(* that left in between was not.                                           *)
THEOREM AnswersAreTrue == Spec => []AnswerIsTruthful
<1>1. IInv => AnswerIsTruthful
  BY BroadcastDone DEF IInv, TriggerInv, BroadcastInv, AnswerIsTruthful
<1> QED
  BY <1>1, Invariance, PTL

-----------------------------------------------------------------------------
(* AlertStream implements AlertFeed.                                       *)

(* The phase of a session changes exactly at the steps named in AlertFeed. *)
LEMMA PhaseOf ==
    ASSUME IInv, NEW c \in Clients
    PROVE  /\ phaseBar[c] = "away" <=> pc[c] = "new"
           /\ phaseBar[c] = "open" <=> pc[c] # "new" /\ ~aborted[c]
           /\ phaseBar[c] = "leaving" <=> aborted[c] /\ ~closed[c]
           /\ phaseBar[c] = "closed" <=> closed[c]
BY DEF IInv, SessionInv, RegistryExact, phaseBar

LEMMA InitFeed == Init => Feed!Init
BY DEF Init, Feed!Init, phaseBar

(* A step of a session's handler opens, shows, leaves or closes, or is     *)
(* invisible.                                                              *)
LEMMA SessionRefines ==
    ASSUME IInv, NEW c \in Clients,
           Subscribe(c) \/ ClientAborts(c) \/ SessionStep(c)
    PROVE  Feed!Next \/ UNCHANGED Feed!vars
<1>0. TypeOK /\ SessionInv /\ RegistryExact /\ NothingLost
  BY DEF IInv
<1>1. CASE Subscribe(c)
  <2>1. phaseBar[c] = "away"
    BY <1>1, PhaseOf DEF Subscribe
  <2>2. phaseBar' = [phaseBar EXCEPT ![c] = "open"]
    BY <1>0, <1>1 DEF Subscribe, Goto, TypeOK, SessionInv, RegistryExact, phaseBar
  <2>3. Feed!Move(c, "away", "open")
    BY <1>1, <2>1, <2>2 DEF Subscribe, triggerVars, Feed!Move
  <2> QED
    BY <2>3 DEF Feed!Next
<1>2. CASE ClientAborts(c)
  <2>1. phaseBar[c] = "open"
    BY <1>2, PhaseOf DEF ClientAborts
  <2>2. phaseBar' = [phaseBar EXCEPT ![c] = "leaving"]
    BY <1>0, <1>2 DEF ClientAborts, TypeOK, RegistryExact, phaseBar
  <2>3. Feed!Move(c, "open", "leaving")
    BY <1>2, <2>1, <2>2 DEF ClientAborts, triggerVars, Feed!Move
  <2> QED
    BY <2>3 DEF Feed!Next
<1>3. CASE \/ WriteConnected(c) \/ TakeAlert(c) \/ Drained(c)
           \/ WriteThrows(c) \/ LeaveLoop(c) \/ TryRemove(c)
  <2>1. pc[c] # "new" /\ (\E s \in SessionStates \ {"new"} : Goto(c, s))
    BY <1>3 DEF WriteConnected, TakeAlert, Drained, WriteThrows, LeaveLoop,
                TryRemove, SessionStates
  <2>2. \A d \in Clients : pc'[d] = "new" <=> pc[d] = "new"
    BY <1>0, <2>1 DEF Goto, TypeOK
  <2>3. UNCHANGED <<closed, aborted, sent, written, saved>>
    BY <1>3 DEF WriteConnected, TakeAlert, Drained, WriteThrows, LeaveLoop,
                TryRemove, triggerVars
  <2>4. UNCHANGED phaseBar
    BY <2>2, <2>3 DEF phaseBar
  <2> QED
    BY <2>3, <2>4 DEF Feed!vars
<1>4. CASE WriteAlert(c)
  <2>1. pc[c] = "writing" /\ UNCHANGED <<closed, aborted, written, saved>>
    BY <1>4 DEF WriteAlert, triggerVars
  <2>2. UNCHANGED phaseBar
    BY <1>0, <1>4, <2>1 DEF WriteAlert, Goto, TypeOK, phaseBar
  <2>3. CASE aborted[c]
    BY <1>4, <2>1, <2>2, <2>3 DEF WriteAlert, Feed!vars
  <2>4. CASE ~aborted[c]
    <3>1. /\ sent[c] \in Seq(Alerts) /\ hand[c] \in Seq(Alerts)
          /\ chan[c] \in Seq(Alerts) /\ Len(hand[c]) = 1
      BY <1>0, <2>1 DEF TypeOK, SessionInv
    <3>2. written[c] = (sent[c] \o hand[c]) \o chan[c]
      BY <1>0, <2>4 DEF NothingLost
    <3>3. /\ Len(sent[c]) < Len(written[c])
          /\ written[c][Len(sent[c]) + 1] = hand[c][1]
          /\ sent[c] \o hand[c] = Append(sent[c], hand[c][1])
      <4> DEFINE s == sent[c]
                 h == hand[c]
                 t == chan[c]
      <4>1. s \in Seq(Alerts) /\ h \in Seq(Alerts) /\ t \in Seq(Alerts) /\ Len(h) = 1
        BY <3>1
      <4>2. written[c] = (s \o h) \o t
        BY <3>2
      <4> HIDE DEF s, h, t
      <4>3. /\ Len(s) < Len((s \o h) \o t)
            /\ ((s \o h) \o t)[Len(s) + 1] = h[1]
            /\ s \o h = Append(s, h[1])
        BY <4>1, NextOfConcat
      <4> QED
        BY <4>2, <4>3 DEF s, h, t
    <3>4. phaseBar[c] = "open"
      BY <2>1, <2>4, PhaseOf
    <3>5. Feed!See(c)
      BY <1>4, <2>1, <2>2, <2>4, <3>3, <3>4 DEF WriteAlert, Feed!See
    <3> QED
      BY <3>5 DEF Feed!Next
  <2> QED
    BY <2>3, <2>4
<1>5. CASE Complete(c)
  <2>1. phaseBar[c] = "leaving"
    BY <1>0, <1>5, PhaseOf DEF Complete, SessionInv, RegistryExact
  <2>2. phaseBar' = [phaseBar EXCEPT ![c] = "closed"]
    BY <1>0, <1>5 DEF Complete, Goto, TypeOK, phaseBar
  <2>3. Feed!Move(c, "leaving", "closed")
    BY <1>5, <2>1, <2>2 DEF Complete, triggerVars, Feed!Move
  <2> QED
    BY <2>3 DEF Feed!Next
<1> QED
  BY <1>1, <1>2, <1>3, <1>4, <1>5 DEF SessionStep

(* A step of a trigger request saves or feeds an alert, or is invisible.   *)
LEMMA TriggerRefines ==
    ASSUME IInv, NEW a \in Alerts, CreateAlert(a) \/ TriggerStep(a)
    PROVE  Feed!Next \/ UNCHANGED Feed!vars
<1>0. TypeOK /\ TriggerInv /\ BroadcastInv
  BY DEF IInv
<1>1. UNCHANGED phaseBar /\ sent' = sent
  BY TriggersKeepSessions DEF sessionVars, phaseBar
<1>2. CASE CreateAlert(a)
  <2>1. Feed!Save(a)
    BY <1>0, <1>1, <1>2 DEF CreateAlert, TriggerInv, Feed!Save
  <2> QED
    BY <2>1 DEF Feed!Next
<1>3. CASE TakeSnapshot(a) \/ WhenAll(a)
  BY <1>1, <1>3 DEF TakeSnapshot, WhenAll, Feed!vars
<1>4. ASSUME NEW c \in Clients, WriteTo(a, c)
      PROVE  Feed!Next \/ UNCHANGED Feed!vars
  <2>1. CASE closed[c]
    BY <1>1, <1>4, <2>1 DEF WriteTo, Feed!vars
  <2>2. CASE ~closed[c]
    <3>1. pc[c] # "new" /\ a \in saved /\ a \notin Range(written[c])
      BY <1>0, <1>4 DEF WriteTo, TriggerInv, BroadcastInv
    <3>2. phaseBar[c] \in {"open", "leaving"}
      BY <2>2, <3>1 DEF phaseBar
    <3>3. Feed!Feed(c, a)
      BY <1>1, <1>4, <2>2, <3>1, <3>2 DEF WriteTo, Range, Feed!Feed, Feed!Range
    <3> QED
      BY <3>3 DEF Feed!Next
  <2> QED
    BY <2>1, <2>2
<1> QED
  BY <1>2, <1>3, <1>4 DEF TriggerStep

(* The stream keeps the promise of AlertFeed: the registry, the channels   *)
(* and the handlers together give each browser an ordered, gapless,        *)
(* duplicate-free feed of stored alerts.                                   *)
THEOREM Refinement == Spec => ImplementsFeed
<1>1. IInv /\ [Next]_vars => [Feed!Next]_(Feed!vars)
  <2> SUFFICES ASSUME IInv, [Next]_vars
               PROVE  Feed!Next \/ UNCHANGED Feed!vars
    OBVIOUS
  <2>1. CASE UNCHANGED vars
    BY <2>1 DEF vars, sessionVars, triggerVars, phaseBar, Feed!vars
  <2>2. CASE Next
    BY <2>2, SessionRefines, TriggerRefines DEF Next
  <2> QED
    BY <2>1, <2>2
<1> QED
  BY InitFeed, <1>1, Invariance, PTL DEF Spec, ImplementsFeed, Feed!Spec
=============================================================================
