----------------------------- MODULE EntityList -----------------------------
(***************************************************************************)
(* The storage of the gateway's entity services (VehicleService,           *)
(* DriverService, TripService, DeliveryService, AlertService,              *)
(* FleetService): each is a singleton (DependencyInjection.AddInfra-       *)
(* structure) that keeps its entities in one List<T>, and every REST,      *)
(* GraphQL, SSE and gRPC request calls it on its own thread, without a     *)
(* lock.                                                                   *)
(*                                                                         *)
(* List<T> is an array, a reference to it and a size.  A step below is one *)
(* read or write of the reference or the size, one store to the array, or  *)
(* one bulk copy or search, in the order of List<T>.Add, Remove and of the *)
(* span that FirstOrDefault walks; what a caller holds in between may be   *)
(* stale.  Entities are what the create requests bring: a creator names    *)
(* its own entity, whose Guid.NewGuid() is fresh.                          *)
(***************************************************************************)
EXTENDS Naturals, FiniteSets, SequencesExt

CONSTANTS
    Creators,           \* CreateAsync requests, one entity each
    Deleters,           \* DeleteAsync requests
    Finders,            \* GetByIdAsync requests, and the look-up of the others
    Overlap,            \* how many requests run at the same time
    DefaultCapacity,    \* the first capacity of a List<T> (4 in .NET)
    Null,               \* an empty slot
    Unknown             \* an id that no entity has

Requests == Creators \cup Deleters \cup Finders

ASSUME RequestsAssumption ==
    /\ IsFiniteSet(Requests)
    /\ Creators \cap (Deleters \cup Finders) = {}
    /\ Deleters \cap Finders = {}
ASSUME BoundsAssumption ==
    Overlap \in Nat \ {0} /\ DefaultCapacity \in Nat \ {0}
ASSUME IdsAssumption ==
    /\ Null \notin Creators
    /\ Unknown \notin Creators \cup {Null}

VARIABLES
    heap,       \* every array allocated for the list
    cur,        \* _items: which of them is the list's
    size,       \* _size
    pc,         \* pc[r]: where request r stands
    target,     \* target[r]: the entity request r is about
    arr,        \* arr[r]: the array r holds
    num,        \* num[r]: the size r has read
    at,         \* at[r]: the position r has reached
    settled     \* the entities listed when last no request was running

local == <<target, arr, num, at>>
vars == <<heap, cur, size, pc, local, settled>>

Answers == {"ok", "missing", "failed"}    \* 2xx, 404, 500
AddSteps == {"add", "measure", "reserve", "store",
             "enlarge", "grow", "install", "resize", "put"}
FindSteps == {"look", "span", "scan"}
RemoveSteps == {"index", "shrink", "decrease", "shift", "clear"}
Steps == AddSteps \cup FindSteps \cup RemoveSteps
Slot == Creators \cup {Null}

TypeOK ==
    /\ heap \in Seq(Seq(Slot))
    /\ cur \in 1..Len(heap)
    /\ size \in Nat
    /\ pc \in [Requests -> {"idle"} \cup Steps \cup Answers]
    /\ target \in [Requests -> Slot \cup {Unknown}]
    /\ arr \in [Requests -> 1..Len(heap)]
    /\ num \in [Requests -> Nat]
    /\ at \in [Requests -> Nat]
    /\ settled \in SUBSET Creators
    /\ \A r \in Requests : pc[r] = "scan" => num[r] <= Len(heap[arr[r]])

Init ==
    /\ heap = << <<>> >>
    /\ cur = 1
    /\ size = 0
    /\ pc = [r \in Requests |-> "idle"]
    /\ target = [r \in Requests |-> Null]
    /\ arr = [r \in Requests |-> 1]
    /\ num = [r \in Requests |-> 0]
    /\ at = [r \in Requests |-> 1]
    /\ settled = {}

-----------------------------------------------------------------------------
_items == heap[cur]

Running == {r \in Requests : pc[r] \in Steps}
Quiescent == Running = {}
Created == {e \in Creators : pc[e] = "ok"}

(* What GetAllAsync().ToList() returns, as a set.                          *)
Content == {_items[i] : i \in {j \in 1..size : j <= Len(_items)}} \ {Null}

Goto(r, step) == pc' = [pc EXCEPT ![r] = step]

Put(array, i, x) == heap' = [heap EXCEPT ![array] = [@ EXCEPT ![i] = x]]

(* A request arrives.  A client deletes or asks for an entity that it has  *)
(* been told of, or tries an id of its own.                                *)
Arrive(r) ==
    /\ pc[r] = "idle"
    /\ Cardinality(Running) < Overlap
    /\ IF r \in Creators
       THEN Goto(r, "add") /\ target' = [target EXCEPT ![r] = r]
       ELSE \E e \in Created \cup {Unknown} :
                Goto(r, "look") /\ target' = [target EXCEPT ![r] = e]
    /\ UNCHANGED <<heap, cur, size, arr, num, at>>

-----------------------------------------------------------------------------
(* CreateAsync: _vehicles.Add(vehicle).                                    *)

(* T[] array = _items;                                                     *)
ReadItems(r) ==
    /\ pc[r] = "add"
    /\ arr' = [arr EXCEPT ![r] = cur]
    /\ Goto(r, "measure")
    /\ UNCHANGED <<heap, cur, size, target, num, at>>

(* int size = _size; AddWithResize is taken when the array is full.        *)
ReadSize(r) ==
    /\ pc[r] = "measure"
    /\ num' = [num EXCEPT ![r] = size]
    /\ Goto(r, IF size < Len(heap[arr[r]]) THEN "reserve" ELSE "enlarge")
    /\ UNCHANGED <<heap, cur, size, target, arr, at>>

(* _size = size + 1, from the size that was read.                          *)
Reserve(r) ==
    /\ pc[r] = "reserve"
    /\ size' = num[r] + 1
    /\ Goto(r, "store")
    /\ UNCHANGED <<heap, cur, local>>

Store(r) ==
    /\ pc[r] = "store"
    /\ Put(arr[r], num[r] + 1, r)
    /\ Goto(r, "ok")
    /\ UNCHANGED <<cur, size, local>>

(* AddWithResize reads the size again.                                     *)
AddWithResize(r) ==
    /\ pc[r] = "enlarge"
    /\ num' = [num EXCEPT ![r] = size]
    /\ Goto(r, "grow")
    /\ UNCHANGED <<heap, cur, size, target, arr, at>>

(* GetNewCapacity(num + 1): twice as much, or as much as is asked for.     *)
Doubled == IF Len(_items) = 0 THEN DefaultCapacity ELSE 2 * Len(_items)
NewCapacity(n) == IF Doubled < n + 1 THEN n + 1 ELSE Doubled

(* A bigger array with a copy of the first _size entities.  Slip: without. *)
CopiedEmpty(n) == [i \in 1..NewCapacity(n) |-> Null]
Copied(n) == [i \in 1..NewCapacity(n) |-> IF i <= size THEN _items[i] ELSE Null]

(* Capacity = NewCapacity: a size beyond either array is an exception.     *)
Grow(r) ==
    /\ pc[r] = "grow"
    /\ IF size <= Len(_items)
       THEN /\ heap' = Append(heap, Copied(num[r]))
            /\ arr' = [arr EXCEPT ![r] = Len(heap) + 1]
            /\ Goto(r, "install")
       ELSE /\ Goto(r, "failed")
            /\ UNCHANGED <<heap, arr>>
    /\ UNCHANGED <<cur, size, target, num, at>>

(* _items = newItems.                                                      *)
Install(r) ==
    /\ pc[r] = "install"
    /\ cur' = arr[r]
    /\ Goto(r, "resize")
    /\ UNCHANGED <<heap, size, local>>

Resize(r) ==
    /\ pc[r] = "resize"
    /\ size' = num[r] + 1
    /\ Goto(r, "put")
    /\ UNCHANGED <<heap, cur, local>>

(* _items[size] = item, whichever array _items is by now.                  *)
PutLast(r) ==
    /\ pc[r] = "put"
    /\ IF num[r] < Len(_items)
       THEN Put(cur, num[r] + 1, r) /\ Goto(r, "ok")
       ELSE Goto(r, "failed") /\ UNCHANGED heap
    /\ UNCHANGED <<cur, size, local>>

-----------------------------------------------------------------------------
(* FirstOrDefault(v => v.Id == id), over a span: _size is read, then       *)
(* _items; a size beyond the array is an exception.  Slip: nobody checks.  *)
Look(r) ==
    /\ pc[r] = "look"
    /\ num' = [num EXCEPT ![r] = size]
    /\ Goto(r, "span")
    /\ UNCHANGED <<heap, cur, size, target, arr, at>>

FitsAlways(r) == TRUE
Fits(r) == num[r] <= Len(_items)

AsSpan(r) ==
    /\ pc[r] = "span"
    /\ IF Fits(r)
       THEN /\ arr' = [arr EXCEPT ![r] = cur]
            /\ at' = [at EXCEPT ![r] = 1]
            /\ Goto(r, "scan")
       ELSE Goto(r, "failed") /\ UNCHANGED <<arr, at>>
    /\ UNCHANGED <<heap, cur, size, target, num>>

(* Slip: the last slot is left out.                                        *)
ExhaustedEarly(r) == at[r] >= num[r]
Exhausted(r) == at[r] > num[r]

(* With the entity found a look-up is done and DeleteAsync goes on.  Slip: *)
(* it answers without removing anything.                                   *)
FoundOnly(r) == "ok"
Found(r) == IF r \in Finders THEN "ok" ELSE "index"

(* One slot: the predicate throws on an empty one.  Not found is 404.      *)
Scan(r) ==
    /\ pc[r] = "scan"
    /\ IF Exhausted(r) THEN Goto(r, "missing") /\ UNCHANGED at
       ELSE LET x == heap[arr[r]][at[r]] IN
            CASE x = Null -> Goto(r, "failed") /\ UNCHANGED at
              [] x = target[r] -> Goto(r, Found(r)) /\ UNCHANGED at
              [] OTHER -> at' = [at EXCEPT ![r] = @ + 1] /\ UNCHANGED pc
    /\ UNCHANGED <<heap, cur, size, target, arr, num>>

(* DeleteAsync: _vehicles.Remove(vehicle), whose result is ignored.  It    *)
(* searches again, by reference.                                           *)
IndexOf(r) ==
    /\ pc[r] = "index"
    /\ IF size > Len(_items) THEN Goto(r, "failed") /\ UNCHANGED at
       ELSE IF target[r] \in Content
       THEN /\ at' = [at EXCEPT ![r] =
                        CHOOSE i \in 1..size : /\ _items[i] = target[r]
                                               /\ \A j \in 1..(i-1) : _items[j] # target[r]]
            /\ Goto(r, "shrink")
       ELSE Goto(r, "ok") /\ UNCHANGED at
    /\ UNCHANGED <<heap, cur, size, target, arr, num>>

(* RemoveAt(index): an index beyond _size is an exception; _size-- is a    *)
(* read and a write.                                                       *)
InRange(r) == at[r] <= size

Shrink(r) ==
    /\ pc[r] = "shrink"
    /\ IF InRange(r)
       THEN num' = [num EXCEPT ![r] = size] /\ Goto(r, "decrease")
       ELSE Goto(r, "failed") /\ UNCHANGED num
    /\ UNCHANGED <<heap, cur, size, target, arr, at>>

Decrease(r) ==
    /\ pc[r] = "decrease"
    /\ size' = num[r] - 1
    /\ Goto(r, "shift")
    /\ UNCHANGED <<heap, cur, local>>

(* Array.Copy: the slots after i move down.                                *)
Shifted(i) ==
    [j \in 1..Len(_items) |-> IF j \in i..size THEN _items[j + 1] ELSE _items[j]]

(* If _size has grown meanwhile, so that there is no slot after the last,  *)
(* it is an exception.                                                     *)
Shift(r) ==
    /\ pc[r] = "shift"
    /\ IF at[r] <= size /\ size >= Len(_items)
       THEN Goto(r, "failed") /\ UNCHANGED heap
       ELSE heap' = [heap EXCEPT ![cur] = Shifted(at[r])] /\ Goto(r, "clear")
    /\ UNCHANGED <<cur, size, local>>

(* _items[_size] = default.                                                *)
Clear(r) ==
    /\ pc[r] = "clear"
    /\ IF size < Len(_items)
       THEN Put(cur, size + 1, Null) /\ Goto(r, "ok")
       ELSE Goto(r, "failed") /\ UNCHANGED heap
    /\ UNCHANGED <<cur, size, local>>

-----------------------------------------------------------------------------
Step(r) ==
    \/ Arrive(r)
    \/ ReadItems(r) \/ ReadSize(r) \/ Reserve(r) \/ Store(r)
    \/ AddWithResize(r) \/ Grow(r) \/ Install(r) \/ Resize(r) \/ PutLast(r)
    \/ Look(r) \/ AsSpan(r) \/ Scan(r)
    \/ IndexOf(r) \/ Shrink(r) \/ Decrease(r) \/ Shift(r) \/ Clear(r)

Settle == settled' = IF Quiescent' THEN Content' ELSE settled

Next == \E r \in Requests : Step(r) /\ Settle

Spec == Init /\ [][Next]_vars

-----------------------------------------------------------------------------
(* Requests that do not overlap see a service: every answer is the one of  *)
(* module EntityStore, whatever the list's capacity.  After _size-- the    *)
(* list still has its last entity, and a deletion counts as done when the  *)
(* last slot is cleared.                                                   *)
storeBar ==
    (IF \E r \in Requests : pc[r] = "shift"
     THEN {_items[i] : i \in 1..(size + 1)} ELSE Content)
    \cup {target[r] : r \in {d \in Deleters : pc[d] = "clear"}}

answerBar ==
    [r \in Requests |-> IF pc[r] \in Answers THEN pc[r] ELSE "none"]

Service == INSTANCE EntityStore
            WITH store <- storeBar, about <- target, answer <- answerBar

ImplementsStore == Service!Spec

NoDeletion == \A d \in Deleters : pc[d] = "idle"

(* However many creations overlap, whatever was in the list before they    *)
(* began stays in it: Add never writes below the size it has read, and a   *)
(* bigger array starts as a copy.                                          *)
SettledSurvive == [][NoDeletion => settled \subseteq Content']_vars

(* ... and a look-up that overlaps with them does not miss it.             *)
SettledFound ==
    [][\A f \in Finders :
          NoDeletion /\ pc[f] = "scan" /\ pc'[f] = "missing"
              => target[f] \notin settled]_vars

(***************************************************************************)
(* Both follow from the inductive invariant IInv.  While there has been no *)
(* deletion, the first k slots of the list hold what is settled; whatever  *)
(* a creation has read lies behind them, every array that is or may become *)
(* the list's begins with them, and a look-up has not passed its target.   *)
(***************************************************************************)
BeginsLike(array, k) ==
    k <= Len(heap[array]) /\ \A i \in 1..k : heap[array][i] = _items[i]

RequestKeeps(r, k) ==
    /\ pc[r] \in {"reserve", "store", "grow", "install", "resize", "put", "span", "scan"}
            => k <= num[r]
    /\ pc[r] \in {"install", "scan"} => BeginsLike(arr[r], k)
    /\ pc[r] = "scan" => \A i \in 1..k : i < at[r] => _items[i] # target[r]

Keeps(k) ==
    /\ k <= size /\ k <= Len(_items)
    /\ \A r \in Requests : RequestKeeps(r, k)

SettledInv ==
    NoDeletion => \E k \in 0..Len(_items) :
        /\ settled = {_items[i] : i \in 1..k} \ {Null}
        /\ Keeps(k)

(* Who does what.  Positions count from 1, so that a deletion never makes  *)
(* the size negative: the position it shrinks at is within the size it has *)
(* read.                                                                   *)
RequestInv ==
    \A r \in Requests :
        /\ pc[r] \in AddSteps => r \in Creators
        /\ pc[r] \in FindSteps => r \notin Creators
        /\ pc[r] \in RemoveSteps => r \in Deleters
        /\ at[r] # 0
        /\ pc[r] = "decrease" => num[r] # 0

IInv == TypeOK /\ RequestInv /\ SettledInv

(***************************************************************************)
(* ImplementsStore follows, when requests do not overlap, from SerialInv,  *)
(* which says what the only request under way finds at each of its steps.  *)
(***************************************************************************)
(* The first n slots hold different entities, whose creation was answered. *)
Lists(n) ==
    /\ n <= Len(_items)
    /\ \A i \in 1..n : _items[i] \in Created
    /\ \A i, j \in 1..n : i # j => _items[i] # _items[j]

EmptyAfter(n) == \A i \in 1..Len(_items) : i > n => _items[i] = Null

Adding(r) ==
    /\ pc[r] \in {"measure", "reserve", "store"} => arr[r] = cur
    /\ pc[r] = "reserve" => num[r] = size /\ size < Len(_items)
    /\ pc[r] \in {"store", "put"} =>
            /\ size = num[r] + 1 /\ size <= Len(_items)
            /\ Lists(num[r]) /\ EmptyAfter(num[r])
    /\ pc[r] \in {"grow", "install", "resize"} => num[r] = size
    /\ pc[r] = "install" =>
            /\ arr[r] # cur /\ size < Len(heap[arr[r]]) /\ BeginsLike(arr[r], size)
            /\ \A i \in 1..Len(heap[arr[r]]) : i > size => heap[arr[r]][i] = Null
    /\ pc[r] = "resize" => size < Len(_items)

Seeking(r) ==
    /\ pc[r] \in {"span", "scan"} => num[r] = size
    /\ pc[r] = "scan" =>
            arr[r] = cur /\ \A i \in 1..size : i < at[r] => _items[i] # target[r]
    /\ pc[r] = "index" => target[r] \in {_items[i] : i \in 1..size}
    /\ pc[r] \in {"shrink", "decrease"} => at[r] <= size /\ _items[at[r]] = target[r]
    /\ pc[r] = "decrease" => num[r] = size
    /\ pc[r] = "shift" =>
            /\ num[r] = size + 1 /\ at[r] <= num[r] /\ _items[at[r]] = target[r]
            /\ Lists(num[r]) /\ EmptyAfter(num[r])
    /\ pc[r] = "clear" =>
            /\ Lists(size) /\ EmptyAfter(size + 1) /\ size < Len(_items)
            /\ target[r] \in Created \ {_items[i] : i \in 1..size}

SerialInv ==
    /\ \A r, q \in Running : r = q
    /\ \A r \in Requests :
            /\ pc[r] # "failed"
            /\ target[r] \in IF pc[r] = "idle" THEN {Null}
                             ELSE IF r \in Creators THEN {r} ELSE Created \cup {Unknown}
            /\ Adding(r) /\ Seeking(r)
    /\ (\A r \in Requests : pc[r] \notin {"store", "put", "shift", "clear"})
            => Lists(size) /\ EmptyAfter(size)

-----------------------------------------------------------------------------
(* DependencyInjection.AddInfrastructure registers the services "as        *)
(* singletons for in-memory storage to persist data": an entity whose      *)
(* creation was answered with 201 is there, unless it has been deleted.    *)
CreatedPersist ==
    Quiescent => Created \ {target[d] : d \in Deleters} \subseteq Content
=============================================================================
