----------------------------- MODULE AlertFeed -----------------------------
(***************************************************************************)
(* What the alert stream promises a subscriber, with no word of channels,  *)
(* snapshots or handlers: a session has a feed of stored alerts, without   *)
(* duplicates, and the browser sees that feed from its start, in order and *)
(* without a gap, until it leaves.  An alert may still be fed to a session *)
(* that is leaving; nobody will see it.                                    *)
(***************************************************************************)
EXTENDS Naturals, Sequences, Functions

CONSTANTS Clients, Alerts

VARIABLES
    saved,      \* the alerts that are stored
    phase,      \* phase[c] of session c, one of Phases
    feed,       \* feed[c]: the alerts given to session c
    seen        \* seen[c]: the alerts the browser of c has seen

vars == <<saved, phase, feed, seen>>

Phases == {"away", "open", "leaving", "closed"}

Init ==
    /\ saved = {}
    /\ phase = [c \in Clients |-> "away"]
    /\ feed = [c \in Clients |-> <<>>]
    /\ seen = [c \in Clients |-> <<>>]

Save(a) ==
    /\ a \notin saved
    /\ saved' = saved \cup {a}
    /\ UNCHANGED <<phase, feed, seen>>

(* A session opens, leaves and is closed, once.                            *)
Move(c, from, to) ==
    /\ phase[c] = from
    /\ phase' = [phase EXCEPT ![c] = to]
    /\ UNCHANGED <<saved, feed, seen>>

Feed(c, a) ==
    /\ phase[c] \in {"open", "leaving"}
    /\ a \in saved
    /\ a \notin Range(feed[c])
    /\ feed' = [feed EXCEPT ![c] = Append(feed[c], a)]
    /\ UNCHANGED <<saved, phase, seen>>

(* The browser sees the next alert of its feed.                            *)
See(c) ==
    /\ phase[c] = "open"
    /\ Len(seen[c]) < Len(feed[c])
    /\ seen' = [seen EXCEPT ![c] = Append(seen[c], feed[c][Len(seen[c]) + 1])]
    /\ UNCHANGED <<saved, phase, feed>>

Next ==
    \/ \E a \in Alerts : Save(a)
    \/ \E c \in Clients :
        \/ Move(c, "away", "open")
        \/ Move(c, "open", "leaving")
        \/ Move(c, "leaving", "closed")
        \/ See(c)
        \/ \E a \in Alerts : Feed(c, a)

Spec == Init /\ [][Next]_vars
=============================================================================
