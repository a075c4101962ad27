----------------------------- MODULE EntityStore ----------------------------
(***************************************************************************)
(* What an entity service promises its clients: a set of entities that     *)
(* requests add to, delete from and look up, each in one step, and no      *)
(* answer but 2xx and 404.  ProducesResponseType on the controllers'       *)
(* actions names these answers.                                            *)
(***************************************************************************)
CONSTANTS Creators, Deleters, Finders, Null, Unknown

Requests == Creators \cup Deleters \cup Finders

VARIABLES
    store,      \* the entities there are
    about,      \* about[r]: the entity request r is about, once it has arrived
    answer      \* answer[r]: "none" so far, "ok" or "missing"

vars == <<store, about, answer>>

Init ==
    /\ store = {}
    /\ about = [r \in Requests |-> Null]
    /\ answer = [r \in Requests |-> "none"]

(* A client asks for an entity it has been told of, or for some other id.  *)
Ask(r) ==
    /\ about[r] = Null
    /\ \E e \in IF r \in Creators THEN {r}
               ELSE {c \in Creators : answer[c] = "ok"} \cup {Unknown} :
            about' = [about EXCEPT ![r] = e]
    /\ UNCHANGED <<store, answer>>

Create(r) ==
    /\ r \in Creators
    /\ about[r] = r /\ answer[r] = "none"
    /\ store' = store \cup {r}
    /\ answer' = [answer EXCEPT ![r] = "ok"]
    /\ UNCHANGED about

Delete(r) ==
    /\ r \in Deleters
    /\ about[r] \in store /\ answer[r] = "none"
    /\ store' = store \ {about[r]}
    /\ answer' = [answer EXCEPT ![r] = "ok"]
    /\ UNCHANGED about

Find(r) ==
    /\ r \in Finders
    /\ about[r] \in store /\ answer[r] = "none"
    /\ answer' = [answer EXCEPT ![r] = "ok"]
    /\ UNCHANGED <<store, about>>

NotFound(r) ==
    /\ r \notin Creators
    /\ about[r] \notin store \cup {Null} /\ answer[r] = "none"
    /\ answer' = [answer EXCEPT ![r] = "missing"]
    /\ UNCHANGED <<store, about>>

Next == \E r \in Requests :
            Ask(r) \/ Create(r) \/ Delete(r) \/ Find(r) \/ NotFound(r)

Spec == Init /\ [][Next]_vars
=============================================================================
