-------------------------- MODULE EntityListProofs --------------------------
(***************************************************************************)
(* Proofs about EntityList, for every set of requests: with any number of  *)
(* them at the same time (types, what creations leave alone), and one at a *)
(* time (the refinement of EntityStore).                                   *)
(***************************************************************************)
EXTENDS EntityList, FiniteSetTheorems, SequenceTheorems, WellFoundedInduction, TLAPS

USE DEF Exhausted, Fits, InRange, Found

-----------------------------------------------------------------------------
(* A nonempty set of natural numbers has a least element.                  *)
LEMMA Least ==
    ASSUME NEW T \in SUBSET Nat, T # {}
    PROVE  \E m \in T : \A k \in T : m <= k
<1> DEFINE R == {ss \in Nat \X Nat : ss[1] < ss[2]}
<1>1. IsWellFoundedOn(R, Nat)
  BY NatLessThanWellFounded DEF OpToRel
<1>2. \A i, j \in Nat : <<i, j>> \in R <=> i < j
  OBVIOUS
<1> HIDE DEF R
<1>3. PICK m \in T : \A k \in T : ~ (<<k, m>> \in R)
  BY <1>1, WFMin
<1>4. \A k \in T : ~ (k < m)
  BY <1>2, <1>3
<1> QED
  BY <1>4

(* A function on 1..n is a sequence of length n.                           *)
LEMMA IsSequence ==
    ASSUME NEW S, NEW n \in Nat, NEW p \in [1..n -> S]
    PROVE  p \in Seq(S) /\ Len(p) = n
<1>1. p \in Seq(S)
  BY SeqDef
<1> QED
  BY <1>1, LenProperties

(* Storing in a slot of one array of the heap.                             *)
LEMMA PutSlot ==
    ASSUME TypeOK, NEW k \in 1..Len(heap), NEW i \in Nat, NEW x \in Slot,
           Put(k, i, x)
    PROVE  /\ heap' \in Seq(Seq(Slot)) /\ Len(heap') = Len(heap)
           /\ \A a \in 1..Len(heap) :
                /\ Len(heap'[a]) = Len(heap[a])
                /\ \A j \in 1..Len(heap[a]) :
                      heap'[a][j] = IF a = k /\ j = i THEN x ELSE heap[a][j]
<1> PICK p : p = [heap[k] EXCEPT ![i] = x]
  OBVIOUS
<1>1. /\ heap \in [1..Len(heap) -> Seq(Slot)] /\ Len(heap) \in Nat
      /\ heap[k] \in [1..Len(heap[k]) -> Slot] /\ Len(heap[k]) \in Nat
  BY LenProperties DEF TypeOK
<1>2. /\ p \in [1..Len(heap[k]) -> Slot]
      /\ \A j \in 1..Len(heap[k]) : p[j] = IF j = i THEN x ELSE heap[k][j]
  BY <1>1
<1>3. p \in Seq(Slot) /\ Len(p) = Len(heap[k])
  BY <1>1, <1>2, IsSequence
<1>4. heap' = [heap EXCEPT ![k] = p]
  BY DEF Put
<1>5. /\ heap' \in [1..Len(heap) -> Seq(Slot)]
      /\ \A a \in 1..Len(heap) : heap'[a] = IF a = k THEN p ELSE heap[a]
  BY <1>1, <1>3, <1>4
<1>6. heap' \in Seq(Seq(Slot)) /\ Len(heap') = Len(heap)
  BY <1>1, <1>5, IsSequence
<1> QED
  BY <1>1, <1>2, <1>3, <1>5, <1>6

(* One more array in the heap.                                             *)
LEMMA AppendArray ==
    ASSUME TypeOK, NEW q \in Seq(Slot), heap' = Append(heap, q)
    PROVE  /\ heap' \in Seq(Seq(Slot)) /\ Len(heap') = Len(heap) + 1
           /\ \A a \in 1..Len(heap) : heap'[a] = heap[a]
           /\ heap'[Len(heap) + 1] = q
BY AppendProperties DEF TypeOK

(* What a bigger array holds, and how big it is.                           *)
LEMMA CopiedArray ==
    ASSUME TypeOK, size <= Len(_items), NEW n \in Nat
    PROVE  /\ Copied(n) \in Seq(Slot)
           /\ Len(Copied(n)) \in Nat
           /\ Len(_items) <= Len(Copied(n)) /\ n < Len(Copied(n))
           /\ \A i \in 1..Len(Copied(n)) :
                 Copied(n)[i] = IF i <= size THEN _items[i] ELSE Null
<1>1. _items \in [1..Len(_items) -> Slot] /\ Len(_items) \in Nat /\ size \in Nat
  BY LenProperties DEF TypeOK, _items
<1>2. /\ NewCapacity(n) \in Nat
      /\ Len(_items) <= NewCapacity(n) /\ n < NewCapacity(n)
  BY <1>1, BoundsAssumption DEF NewCapacity, Doubled
<1>3. Copied(n) \in [1..NewCapacity(n) -> Slot]
  BY <1>1, <1>2 DEF Copied, Slot
<1>4. Copied(n) \in Seq(Slot) /\ Len(Copied(n)) = NewCapacity(n)
  BY <1>2, <1>3, IsSequence
<1> QED
  BY <1>2, <1>4 DEF Copied

(* What is left of the list's array when the slots after i move down.      *)
LEMMA ShiftedArray ==
    ASSUME TypeOK, NEW i \in Nat \ {0}, i <= size => size < Len(_items),
           heap' = [heap EXCEPT ![cur] = Shifted(i)]
    PROVE  /\ heap' \in Seq(Seq(Slot)) /\ Len(heap') = Len(heap)
           /\ \A a \in 1..Len(heap) :
                /\ Len(heap'[a]) = Len(heap[a])
                /\ \A j \in 1..Len(heap[a]) :
                      heap'[a][j] = IF a = cur /\ j \in i..size
                                    THEN heap[a][j + 1] ELSE heap[a][j]
<1>1. /\ heap \in [1..Len(heap) -> Seq(Slot)] /\ Len(heap) \in Nat
      /\ _items \in [1..Len(_items) -> Slot] /\ Len(_items) \in Nat
      /\ size \in Nat /\ cur \in 1..Len(heap)
  BY LenProperties DEF TypeOK, _items
<1>2. /\ Shifted(i) \in [1..Len(_items) -> Slot]
      /\ \A j \in 1..Len(_items) :
            Shifted(i)[j] = IF j \in i..size THEN _items[j + 1] ELSE _items[j]
  BY <1>1 DEF Shifted
<1>3. Shifted(i) \in Seq(Slot) /\ Len(Shifted(i)) = Len(_items)
  BY <1>1, <1>2, IsSequence
<1>4. /\ heap' \in [1..Len(heap) -> Seq(Slot)]
      /\ \A a \in 1..Len(heap) : heap'[a] = IF a = cur THEN Shifted(i) ELSE heap[a]
  BY <1>1, <1>3
<1>5. heap' \in Seq(Seq(Slot)) /\ Len(heap') = Len(heap)
  BY <1>1, <1>4, IsSequence
<1> QED
  BY <1>1, <1>2, <1>3, <1>4, <1>5 DEF _items

(* What is listed are entities.                                            *)
LEMMA ContentType == TypeOK => Content \in SUBSET Creators
BY DEF TypeOK, Content, _items, Slot

(* IndexOf finds the first slot of an entity that is listed.               *)
LEMMA FirstSlot ==
    ASSUME TypeOK, NEW e \in Content, size <= Len(_items)
    PROVE  \E i \in 1..size : _items[i] = e /\ \A j \in 1..(i - 1) : _items[j] # e
<1> DEFINE T == {i \in 1..size : _items[i] = e}
<1>1. size \in Nat
  BY DEF TypeOK
<1>2. T \in SUBSET Nat /\ T # {}
  BY <1>1 DEF Content
<1>3. PICK m \in T : \A k \in T : m <= k
  BY <1>2, Least
<1>4. \A j \in 1..(m - 1) : j \in 1..size /\ ~(m <= j)
  BY <1>1, <1>3
<1> QED
  BY <1>3, <1>4

-----------------------------------------------------------------------------
(* Types.  What a step leaves to Settle comes last.                        *)

StepTypes ==
    /\ heap \in Seq(Seq(Slot))
    /\ cur \in 1..Len(heap)
    /\ size \in Nat
    /\ pc \in [Requests -> {"idle"} \cup Steps \cup Answers]
    /\ target \in [Requests -> Slot \cup {Unknown}]
    /\ arr \in [Requests -> 1..Len(heap)]
    /\ num \in [Requests -> Nat]
    /\ at \in [Requests -> Nat]
    /\ \A r \in Requests : pc[r] = "scan" => num[r] <= Len(heap[arr[r]])

LEMMA TypeInit == Init => TypeOK /\ RequestInv
<1> SUFFICES ASSUME Init PROVE TypeOK /\ RequestInv
  OBVIOUS
<1>1. heap \in Seq(Seq(Slot)) /\ Len(heap) = 1
  BY DEF Init
<1> QED
  BY <1>1 DEF Init, TypeOK, RequestInv, Slot, AddSteps, FindSteps, RemoveSteps

(* Creations change the heap by storing and by growing.                    *)
LEMMA TypeAdd ==
    ASSUME TypeOK, RequestInv, NEW r \in Requests,
           \/ ReadItems(r) \/ ReadSize(r) \/ Reserve(r) \/ Store(r)
           \/ AddWithResize(r) \/ Grow(r) \/ Install(r) \/ Resize(r) \/ PutLast(r)
    PROVE  StepTypes' /\ RequestInv'
<1>1. CASE ReadItems(r)
  BY <1>1 DEF ReadItems, Goto, TypeOK, RequestInv, StepTypes, Steps, AddSteps, FindSteps, RemoveSteps
<1>2. CASE ReadSize(r)
  BY <1>2 DEF ReadSize, Goto, TypeOK, RequestInv, StepTypes, Steps, AddSteps, FindSteps, RemoveSteps
<1>3. CASE Reserve(r)
  BY <1>3 DEF Reserve, Goto, local, TypeOK, RequestInv, StepTypes, Steps, AddSteps, FindSteps, RemoveSteps
<1>4. CASE AddWithResize(r)
  BY <1>4 DEF AddWithResize, Goto, TypeOK, RequestInv, StepTypes, Steps, AddSteps, FindSteps, RemoveSteps
<1>5. CASE Install(r)
  BY <1>5 DEF Install, Goto, local, TypeOK, RequestInv, StepTypes, Steps, AddSteps, FindSteps, RemoveSteps
<1>6. CASE Resize(r)
  BY <1>6 DEF Resize, Goto, local, TypeOK, RequestInv, StepTypes, Steps, AddSteps, FindSteps, RemoveSteps
<1>7. CASE Store(r)
  <2>1. arr[r] \in 1..Len(heap) /\ num[r] + 1 \in Nat /\ r \in Slot
    BY <1>7 DEF Store, TypeOK, Slot, RequestInv, AddSteps
  <2>2. Put(arr[r], num[r] + 1, r)
    BY <1>7 DEF Store
  <2>3. /\ heap' \in Seq(Seq(Slot)) /\ Len(heap') = Len(heap)
        /\ \A a \in 1..Len(heap) : Len(heap'[a]) = Len(heap[a])
    BY <2>1, <2>2, PutSlot
  <2> QED
    BY <1>7, <2>3 DEF Store, Goto, local, TypeOK, RequestInv, StepTypes, Answers, AddSteps, FindSteps, RemoveSteps
<1>8. CASE PutLast(r)
  <2>1. CASE num[r] < Len(_items)
    <3>1. cur \in 1..Len(heap) /\ num[r] + 1 \in Nat /\ r \in Slot
      BY <1>8 DEF PutLast, TypeOK, Slot, RequestInv, AddSteps
    <3>2. Put(cur, num[r] + 1, r)
      BY <1>8, <2>1 DEF PutLast
    <3>3. /\ heap' \in Seq(Seq(Slot)) /\ Len(heap') = Len(heap)
          /\ \A a \in 1..Len(heap) : Len(heap'[a]) = Len(heap[a])
      BY <3>1, <3>2, PutSlot
    <3> QED
      BY <1>8, <2>1, <3>3 DEF PutLast, Goto, local, TypeOK, RequestInv, StepTypes, Answers, AddSteps, FindSteps, RemoveSteps
  <2>2. CASE ~(num[r] < Len(_items))
    BY <1>8, <2>2 DEF PutLast, Goto, local, TypeOK, RequestInv, StepTypes, Answers, AddSteps, FindSteps, RemoveSteps
  <2> QED
    BY <2>1, <2>2
<1>9. CASE Grow(r)
  <2>1. CASE size <= Len(_items)
    <3>1. Copied(num[r]) \in Seq(Slot)
      BY <2>1, CopiedArray DEF TypeOK
    <3>2. heap' = Append(heap, Copied(num[r]))
      BY <1>9, <2>1 DEF Grow
    <3>3. /\ heap' \in Seq(Seq(Slot)) /\ Len(heap') = Len(heap) + 1
          /\ \A a \in 1..Len(heap) : heap'[a] = heap[a]
      BY <3>1, <3>2, AppendArray
    <3>4. Len(heap) \in Nat
      BY DEF TypeOK
    <3>5. /\ arr' \in [Requests -> 1..Len(heap')]
          /\ \A q \in Requests \ {r} : arr'[q] = arr[q] /\ arr[q] \in 1..Len(heap)
      <4>1. arr' = [arr EXCEPT ![r] = Len(heap) + 1]
        BY <1>9, <2>1 DEF Grow
      <4>2. arr \in [Requests -> 1..Len(heap)]
        BY DEF TypeOK
      <4>3. 1..Len(heap) \subseteq 1..Len(heap') /\ Len(heap) + 1 \in 1..Len(heap')
        BY <3>3, <3>4
      <4> QED
        BY <4>1, <4>2, <4>3
    <3>6. /\ pc' = [pc EXCEPT ![r] = "install"]
          /\ UNCHANGED <<cur, size, target, num, at>>
      BY <1>9, <2>1 DEF Grow, Goto
    <3>7. RequestInv'
      BY <1>9, <3>6 DEF Grow, TypeOK, RequestInv, Steps, AddSteps, FindSteps, RemoveSteps
    <3>8. ASSUME NEW q \in Requests, pc'[q] = "scan"
          PROVE  num'[q] <= Len(heap'[arr'[q]])
      BY <3>3, <3>5, <3>6, <3>8 DEF TypeOK
    <3>9. cur' \in 1..Len(heap')
      BY <3>3, <3>4, <3>6 DEF TypeOK
    <3> QED
      BY <3>3, <3>5, <3>6, <3>7, <3>8, <3>9 DEF TypeOK, StepTypes, Steps, AddSteps
  <2>2. CASE ~(size <= Len(_items))
    BY <1>9, <2>2 DEF Grow, Goto, TypeOK, RequestInv, StepTypes, Answers, AddSteps, FindSteps, RemoveSteps
  <2> QED
    BY <2>1, <2>2
<1> QED
  BY <1>1, <1>2, <1>3, <1>4, <1>5, <1>6, <1>7, <1>8, <1>9

LEMMA TypeFind ==
    ASSUME TypeOK, RequestInv, NEW r \in Requests,
           Arrive(r) \/ Look(r) \/ AsSpan(r) \/ Scan(r)
    PROVE  StepTypes' /\ RequestInv'
<1>1. CASE Arrive(r)
  <2>1. CASE r \in Creators
    BY <1>1, <2>1 DEF Arrive, Goto, local, TypeOK, RequestInv, StepTypes, Steps, AddSteps, FindSteps, RemoveSteps, Answers, Slot
  <2>2. CASE r \notin Creators
    <3>1. PICK e \in Created \cup {Unknown} :
              Goto(r, "look") /\ target' = [target EXCEPT ![r] = e]
      BY <1>1, <2>2 DEF Arrive
    <3> QED
      BY <1>1, <2>2, <3>1 DEF Arrive, Goto, local, TypeOK, RequestInv, StepTypes, Steps, AddSteps, FindSteps, RemoveSteps, Answers, Slot, Created
  <2> QED
    BY <2>1, <2>2
<1>2. CASE Look(r)
  BY <1>2 DEF Look, Goto, local, TypeOK, RequestInv, StepTypes, Steps, AddSteps, FindSteps, RemoveSteps, Answers
<1>3. CASE AsSpan(r)
  <2>1. pc[r] = "span" /\ UNCHANGED <<heap, cur, size, target, num>>
    BY <1>3 DEF AsSpan
  <2>2. CASE num[r] <= Len(heap[cur])
    <3>1. /\ arr' = [arr EXCEPT ![r] = cur]
          /\ at' = [at EXCEPT ![r] = 1]
          /\ pc' = [pc EXCEPT ![r] = "scan"]
      BY <1>3, <2>2 DEF AsSpan, Goto, _items
    <3>2. RequestInv'
      BY <2>1, <3>1 DEF TypeOK, RequestInv, AddSteps, FindSteps, RemoveSteps
    <3>3. \A q \in Requests : pc'[q] = "scan" => num[q] <= Len(heap[arr'[q]])
      BY <2>2, <3>1 DEF TypeOK
    <3> QED
      BY <2>1, <3>1, <3>2, <3>3 DEF TypeOK, StepTypes, Steps, FindSteps
  <2>3. CASE ~(num[r] <= Len(heap[cur]))
    <3>1. pc' = [pc EXCEPT ![r] = "failed"] /\ UNCHANGED <<arr, at>>
      BY <1>3, <2>3 DEF AsSpan, Goto, _items
    <3> QED
      BY <2>1, <3>1 DEF TypeOK, RequestInv, StepTypes, Answers, AddSteps, FindSteps, RemoveSteps
  <2> QED
    BY <2>2, <2>3
<1>4. CASE Scan(r)
  <2>1. /\ pc[r] = "scan" /\ r \notin Creators
        /\ UNCHANGED <<heap, cur, size, target, arr, num>>
    BY <1>4 DEF Scan, RequestInv, FindSteps
  <2>2. CASE \E x \in {"missing", "failed", "ok"} :
                pc' = [pc EXCEPT ![r] = x] /\ at' = at
    BY <2>1, <2>2 DEF TypeOK, RequestInv, StepTypes, Answers, AddSteps, FindSteps, RemoveSteps
  <2>3. CASE pc' = [pc EXCEPT ![r] = "index"] /\ at' = at /\ r \notin Finders
    BY <2>1, <2>3 DEF TypeOK, RequestInv, StepTypes, Steps, AddSteps, FindSteps,
                      RemoveSteps, Requests
  <2>4. CASE at' = [at EXCEPT ![r] = @ + 1] /\ pc' = pc
    <3>1. at' \in [Requests -> Nat] /\ \A q \in Requests : at'[q] # 0
      BY <2>4 DEF TypeOK, RequestInv
    <3> QED
      BY <2>1, <2>4, <3>1 DEF TypeOK, RequestInv, StepTypes
  <2> QED
    BY <1>4, <2>2, <2>3, <2>4 DEF Scan, Goto
<1> QED
  BY <1>1, <1>2, <1>3, <1>4

LEMMA TypeRemove ==
    ASSUME TypeOK, RequestInv, NEW r \in Requests,
           IndexOf(r) \/ Shrink(r) \/ Decrease(r) \/ Shift(r) \/ Clear(r)
    PROVE  StepTypes' /\ RequestInv'
<1>1. CASE IndexOf(r)
  <2>1. CASE size <= Len(_items) /\ target[r] \in Content
    <3>1. PICK i \in 1..size : at' = [at EXCEPT ![r] = i]
      <4>1. \E i \in 1..size : /\ _items[i] = target[r]
                               /\ \A j \in 1..(i-1) : _items[j] # target[r]
        BY <2>1, FirstSlot
      <4>2. size \in Nat /\ Len(_items) \in Nat
        BY DEF TypeOK, _items
      <4> QED
        BY <1>1, <2>1, <4>1, <4>2 DEF IndexOf
    <3>2. i \in Nat /\ i # 0
      BY DEF TypeOK
    <3>3. pc[r] = "index" /\ pc' = [pc EXCEPT ![r] = "shrink"]
          /\ UNCHANGED <<heap, cur, size, target, arr, num>>
      <4>1. ~(size > Len(_items))
        BY <2>1 DEF TypeOK, _items
      <4> QED
        BY <1>1, <2>1, <4>1 DEF IndexOf, Goto
    <3> QED
      BY <3>1, <3>2, <3>3 DEF TypeOK, RequestInv, StepTypes, Steps, AddSteps, FindSteps,
                              RemoveSteps
  <2>2. CASE ~(size <= Len(_items) /\ target[r] \in Content)
    <3>1. /\ pc[r] = "index" /\ pc' \in {[pc EXCEPT ![r] = x] : x \in {"failed", "ok"}}
          /\ UNCHANGED <<heap, cur, size, target, arr, num, at>>
      BY <1>1, <2>2 DEF IndexOf, Goto, TypeOK, _items
    <3> QED
      BY <3>1 DEF TypeOK, RequestInv, StepTypes, Answers, AddSteps, FindSteps, RemoveSteps
  <2> QED
    BY <2>1, <2>2
<1>2. CASE Shrink(r)
  <2>1. pc[r] = "shrink" /\ UNCHANGED <<heap, cur, size, target, arr, at>>
    BY <1>2 DEF Shrink
  <2>2. CASE at[r] <= size
    <3>1. num' = [num EXCEPT ![r] = size] /\ pc' = [pc EXCEPT ![r] = "decrease"]
      BY <1>2, <2>2 DEF Shrink, Goto
    <3>2. size \in Nat /\ size # 0
      BY <2>2 DEF TypeOK, RequestInv
    <3>3. RequestInv'
      BY <2>1, <3>1, <3>2 DEF TypeOK, RequestInv, AddSteps, FindSteps, RemoveSteps
    <3>4. \A q \in Requests : pc'[q] = "scan" => num'[q] <= Len(heap[arr[q]])
      BY <3>1 DEF TypeOK
    <3> QED
      BY <2>1, <3>1, <3>2, <3>3, <3>4 DEF TypeOK, StepTypes, Steps, RemoveSteps
  <2>3. CASE ~(at[r] <= size)
    <3>1. pc' = [pc EXCEPT ![r] = "failed"] /\ num' = num
      BY <1>2, <2>3 DEF Shrink, Goto
    <3> QED
      BY <2>1, <3>1 DEF TypeOK, RequestInv, StepTypes, Answers, AddSteps, FindSteps, RemoveSteps
  <2> QED
    BY <2>2, <2>3
<1>3. CASE Decrease(r)
  BY <1>3 DEF Decrease, Goto, local, TypeOK, RequestInv, StepTypes, Steps, AddSteps, FindSteps, RemoveSteps, Answers
<1>4. CASE Shift(r)
  <2>1. CASE at[r] <= size /\ size >= Len(_items)
    BY <1>4, <2>1 DEF Shift, Goto, local, TypeOK, RequestInv, StepTypes, Steps, AddSteps, FindSteps, RemoveSteps, Answers
  <2>2. CASE ~(at[r] <= size /\ size >= Len(_items))
    <3>1. /\ heap' = [heap EXCEPT ![cur] = Shifted(at[r])]
          /\ at[r] \in Nat \ {0}
          /\ at[r] <= size => size < Len(_items)
      BY <1>4, <2>2 DEF Shift, TypeOK, RequestInv, _items
    <3>2. /\ heap' \in Seq(Seq(Slot)) /\ Len(heap') = Len(heap)
          /\ \A a \in 1..Len(heap) : Len(heap'[a]) = Len(heap[a])
      BY <3>1, ShiftedArray
    <3> QED
      BY <1>4, <2>2, <3>2 DEF Shift, Goto, local, TypeOK, RequestInv, StepTypes, Steps, AddSteps, FindSteps, RemoveSteps, Answers
  <2> QED
    BY <2>1, <2>2
<1>5. CASE Clear(r)
  <2>1. CASE size < Len(_items)
    <3>1. cur \in 1..Len(heap) /\ size + 1 \in Nat /\ Null \in Slot /\ Put(cur, size + 1, Null)
      BY <1>5, <2>1 DEF Clear, TypeOK, Slot
    <3>2. /\ heap' \in Seq(Seq(Slot)) /\ Len(heap') = Len(heap)
          /\ \A a \in 1..Len(heap) : Len(heap'[a]) = Len(heap[a])
      BY <3>1, PutSlot
    <3> QED
      BY <1>5, <2>1, <3>2 DEF Clear, Goto, local, TypeOK, RequestInv, StepTypes, Steps, AddSteps, FindSteps, RemoveSteps, Answers
  <2>2. CASE ~(size < Len(_items))
    BY <1>5, <2>2 DEF Clear, Goto, local, TypeOK, RequestInv, StepTypes, Steps, AddSteps, FindSteps, RemoveSteps, Answers
  <2> QED
    BY <2>1, <2>2
<1> QED
  BY <1>1, <1>2, <1>3, <1>4, <1>5

LEMMA TypeStep ==
    ASSUME TypeOK, RequestInv, NEW r \in Requests, Step(r), Settle
    PROVE  TypeOK' /\ RequestInv'
<1>1. StepTypes' /\ RequestInv'
  BY TypeAdd, TypeFind, TypeRemove DEF Step
<1>2. Content' \in SUBSET Creators
  BY <1>1 DEF StepTypes, Content, _items, Slot
<1> QED
  BY <1>1, <1>2 DEF Settle, StepTypes, TypeOK

LEMMA TypeNext == TypeOK /\ RequestInv /\ [Next]_vars => TypeOK' /\ RequestInv'
<1> SUFFICES ASSUME TypeOK, RequestInv, [Next]_vars PROVE TypeOK' /\ RequestInv'
  OBVIOUS
<1>1. CASE Next
  BY <1>1, TypeStep DEF Next
<1>2. CASE UNCHANGED vars
  BY <1>2 DEF vars, local, TypeOK, RequestInv
<1> QED
  BY <1>1, <1>2

-----------------------------------------------------------------------------
(* Creations leave alone what is settled.                                  *)

(* A step of r, while the first k slots of every array stay as they are.   *)
LEMMA Undisturbed ==
    ASSUME TypeOK, TypeOK', NEW k \in Nat, Keeps(k), NEW r \in Requests,
           \A a \in 1..Len(heap) : k <= Len(heap[a]) =>
                k <= Len(heap'[a]) /\ \A i \in 1..k : heap'[a][i] = heap[a][i],
           k <= Len(_items') /\ \A i \in 1..k : _items'[i] = _items[i],
           \A q \in Requests \ {r} :
                /\ pc'[q] = pc[q] /\ target'[q] = target[q]
                /\ arr'[q] = arr[q] /\ num'[q] = num[q] /\ at'[q] = at[q],
           k <= size', RequestKeeps(r, k)'
    PROVE  Keeps(k)'
<1> SUFFICES ASSUME NEW q \in Requests \ {r} PROVE RequestKeeps(q, k)'
  BY DEF Keeps
<1>1. RequestKeeps(q, k)
  BY DEF Keeps
<1>2. arr[q] \in 1..Len(heap)
  BY DEF TypeOK
<1>3. ASSUME BeginsLike(arr[q], k) PROVE BeginsLike(arr[q], k)'
  BY <1>2, <1>3 DEF BeginsLike
<1> QED
  BY <1>1, <1>3 DEF RequestKeeps, BeginsLike

LEMMA CreationKeeps ==
    ASSUME TypeOK, TypeOK', RequestInv, NEW k \in Nat, Keeps(k), NEW r \in Requests,
           \/ ReadItems(r) \/ ReadSize(r) \/ Reserve(r) \/ Store(r)
           \/ AddWithResize(r) \/ Grow(r) \/ Install(r) \/ Resize(r) \/ PutLast(r)
    PROVE  /\ k <= Len(_items') /\ \A i \in 1..k : _items'[i] = _items[i]
           /\ Keeps(k)'
<1> DEFINE Others ==
      \A q \in Requests \ {r} :
        /\ pc'[q] = pc[q] /\ target'[q] = target[q]
        /\ arr'[q] = arr[q] /\ num'[q] = num[q] /\ at'[q] = at[q]
<1>0. /\ k <= size /\ k <= Len(_items) /\ RequestKeeps(r, k)
      /\ size \in Nat /\ num[r] \in Nat /\ Len(_items) \in Nat /\ cur \in 1..Len(heap)
      /\ arr[r] \in 1..Len(heap)
  BY DEF Keeps, TypeOK, _items
<1>1. CASE \/ ReadItems(r) \/ ReadSize(r) \/ Reserve(r) \/ AddWithResize(r) \/ Resize(r)
  <2>1. UNCHANGED <<heap, cur>> /\ _items' = _items
    BY <1>1 DEF ReadItems, ReadSize, Reserve, AddWithResize, Resize, _items
  <2>2. Others
    BY <1>1 DEF ReadItems, ReadSize, Reserve, AddWithResize, Resize, local, Goto, TypeOK
  <2>3. k <= size' /\ RequestKeeps(r, k)'
    <3>1. CASE ReadItems(r)
      BY <3>1, <1>0 DEF ReadItems, Goto, TypeOK, RequestKeeps
    <3>2. CASE ReadSize(r)
      BY <3>2, <1>0 DEF ReadSize, Goto, TypeOK, RequestKeeps
    <3>3. CASE Reserve(r)
      BY <3>3, <1>0 DEF Reserve, local, Goto, TypeOK, RequestKeeps
    <3>4. CASE AddWithResize(r)
      BY <3>4, <1>0 DEF AddWithResize, Goto, TypeOK, RequestKeeps
    <3>5. CASE Resize(r)
      BY <3>5, <1>0 DEF Resize, local, Goto, TypeOK, RequestKeeps
    <3> QED
      BY <1>1, <3>1, <3>2, <3>3, <3>4, <3>5
  <2> QED
    BY <1>0, <2>1, <2>2, <2>3, Undisturbed
<1>2. CASE Install(r)
  <2>1. /\ pc[r] = "install" /\ cur' = arr[r] /\ heap' = heap /\ size' = size
        /\ pc' = [pc EXCEPT ![r] = "resize"] /\ UNCHANGED <<target, arr, num, at>>
    BY <1>2 DEF Install, local, Goto
  <2>2. k <= Len(_items') /\ \A i \in 1..k : _items'[i] = _items[i]
    BY <1>0, <2>1 DEF RequestKeeps, BeginsLike, _items
  <2>3. RequestKeeps(r, k)'
    BY <1>0, <2>1 DEF TypeOK, RequestKeeps
  <2>4. Others
    BY <2>1 DEF TypeOK
  <2> QED
    BY <1>0, <2>1, <2>2, <2>3, <2>4, Undisturbed
<1>3. CASE Grow(r)
  <2>1. CASE size <= Len(_items)
    <3>1. /\ heap' = Append(heap, Copied(num[r])) /\ Copied(num[r]) \in Seq(Slot)
          /\ arr' = [arr EXCEPT ![r] = Len(heap) + 1]
          /\ pc[r] = "grow" /\ pc' = [pc EXCEPT ![r] = "install"]
          /\ UNCHANGED <<cur, size, target, num, at>>
      BY <1>0, <1>3, <2>1, CopiedArray DEF Grow, Goto
    <3>2. /\ Len(heap') = Len(heap) + 1
          /\ \A a \in 1..Len(heap) : heap'[a] = heap[a]
          /\ heap'[Len(heap) + 1] = Copied(num[r])
      BY <3>1, AppendArray
    <3>3. _items' = _items
      BY <1>0, <3>1, <3>2 DEF _items
    <3>4. k <= Len(Copied(num[r])) /\ \A i \in 1..k : Copied(num[r])[i] = _items[i]
      <4> DEFINE n == num[r]
      <4>1. n \in Nat
        BY <1>0
      <4> HIDE DEF n
      <4>2. /\ Len(Copied(n)) \in Nat /\ Len(_items) <= Len(Copied(n))
            /\ \A i \in 1..Len(Copied(n)) :
                   Copied(n)[i] = IF i <= size THEN _items[i] ELSE Null
        BY <2>1, <4>1, CopiedArray
      <4>3. k <= Len(Copied(n)) /\ \A i \in 1..k : i <= size /\ i \in 1..Len(Copied(n))
        BY <1>0, <4>2
      <4>4. \A i \in 1..k : Copied(n)[i] = _items[i]
        BY <4>2, <4>3
      <4> QED
        BY <4>3, <4>4 DEF n
    <3>5. arr'[r] = Len(heap) + 1 /\ pc'[r] = "install" /\ num'[r] = num[r]
      BY <3>1 DEF TypeOK
    <3>6. BeginsLike(arr[r], k)'
      BY <3>2, <3>3, <3>4, <3>5 DEF BeginsLike
    <3>7. RequestKeeps(r, k)'
      BY <1>0, <3>1, <3>5, <3>6 DEF RequestKeeps
    <3>8. Others
      BY <3>1 DEF TypeOK
    <3> QED
      BY <1>0, <3>1, <3>2, <3>3, <3>7, <3>8, Undisturbed
  <2>2. CASE ~(size <= Len(_items))
    <3>1. /\ pc' = [pc EXCEPT ![r] = "failed"]
          /\ UNCHANGED <<heap, arr, cur, size, target, num, at>>
      BY <1>3, <2>2 DEF Grow, Goto
    <3>2. RequestKeeps(r, k)' /\ Others
      BY <3>1 DEF TypeOK, RequestKeeps
    <3>3. _items' = _items
      BY <3>1 DEF _items
    <3> QED
      BY <1>0, <3>1, <3>2, <3>3, Undisturbed
  <2> QED
    BY <2>1, <2>2
<1>4. CASE Store(r) \/ PutLast(r)
  <2>1. CASE heap' = heap
    <3>1. /\ pc' = [pc EXCEPT ![r] = pc'[r]] /\ pc'[r] \in {"ok", "failed"}
          /\ UNCHANGED <<arr, cur, size, target, num, at>>
      BY <1>4 DEF Store, PutLast, local, Goto, TypeOK
    <3>2. RequestKeeps(r, k)' /\ Others
      BY <3>1 DEF TypeOK, RequestKeeps
    <3>3. _items' = _items
      BY <2>1, <3>1 DEF _items
    <3> QED
      BY <1>0, <2>1, <3>1, <3>2, <3>3, Undisturbed
  <2>2. CASE heap' # heap
    <3>1. PICK b \in 1..Len(heap) : Put(b, num[r] + 1, r)
      BY <1>0, <1>4, <2>2 DEF Store, PutLast
    <3>2. /\ pc' = [pc EXCEPT ![r] = "ok"] /\ pc[r] \in {"store", "put"}
          /\ UNCHANGED <<arr, cur, size, target, num, at>>
      BY <1>4, <2>2 DEF Store, PutLast, local, Goto
    <3>3. r \in Slot /\ num[r] + 1 \in Nat /\ k < num[r] + 1
      BY <1>0, <3>2 DEF RequestInv, AddSteps, Slot, RequestKeeps
    <3>4. \A a \in 1..Len(heap) :
            /\ Len(heap'[a]) = Len(heap[a])
            /\ \A j \in 1..Len(heap[a]) :
                  heap'[a][j] = IF a = b /\ j = num[r] + 1 THEN r ELSE heap[a][j]
      BY <3>1, <3>3, PutSlot
    <3>5. \A a \in 1..Len(heap) : Len(heap[a]) \in Nat
      BY DEF TypeOK
    <3>6. \A a \in 1..Len(heap) : k <= Len(heap[a]) =>
                k <= Len(heap'[a]) /\ \A i \in 1..k : heap'[a][i] = heap[a][i]
      BY <3>3, <3>4, <3>5
    <3>7. k <= Len(_items') /\ \A i \in 1..k : _items'[i] = _items[i]
      BY <1>0, <3>2, <3>6 DEF _items
    <3>8. RequestKeeps(r, k)' /\ Others
      BY <3>2 DEF TypeOK, RequestKeeps
    <3> QED
      BY <1>0, <3>2, <3>6, <3>7, <3>8, Undisturbed
  <2> QED
    BY <2>1, <2>2
<1> QED
  BY <1>1, <1>2, <1>3, <1>4

LEMMA LookUpKeeps ==
    ASSUME TypeOK, TypeOK', RequestInv, NEW k \in Nat, Keeps(k), NEW r \in Requests,
           r \notin Deleters, Arrive(r) \/ Look(r) \/ AsSpan(r) \/ Scan(r)
    PROVE  UNCHANGED <<heap, cur, size>> /\ Keeps(k)'
<1> DEFINE Others ==
      \A q \in Requests \ {r} :
        /\ pc'[q] = pc[q] /\ target'[q] = target[q]
        /\ arr'[q] = arr[q] /\ num'[q] = num[q] /\ at'[q] = at[q]
<1>0. /\ k <= size /\ k <= Len(_items) /\ RequestKeeps(r, k)
      /\ size \in Nat /\ num[r] \in Nat /\ at[r] \in Nat /\ Len(_items) \in Nat
  BY DEF Keeps, TypeOK, _items
<1>1. UNCHANGED <<heap, cur, size>> /\ _items' = _items
  BY DEF Arrive, Look, AsSpan, Scan, _items
<1>2. Others
  BY DEF Arrive, Look, AsSpan, Scan, Goto, TypeOK
<1>3. RequestKeeps(r, k)'
  <2>1. CASE Arrive(r)
    <3>1. pc'[r] \in {"add", "look"}
      BY <2>1 DEF Arrive, Goto, TypeOK
    <3> QED
      BY <3>1 DEF RequestKeeps
  <2>2. CASE Look(r)
    <3>1. pc'[r] = "span" /\ num'[r] = size
      BY <2>2 DEF Look, Goto, TypeOK
    <3> QED
      BY <1>0, <3>1 DEF RequestKeeps
  <2>3. CASE AsSpan(r)
    <3>1. CASE pc'[r] = "failed"
      BY <3>1 DEF RequestKeeps
    <3>2. CASE pc'[r] # "failed"
      <4>1. /\ pc[r] = "span" /\ pc'[r] = "scan" /\ arr'[r] = cur /\ at'[r] = 1
            /\ num'[r] = num[r]
        BY <2>3, <3>2 DEF AsSpan, Goto, TypeOK
      <4>2. BeginsLike(arr[r], k)'
        BY <1>0, <1>1, <4>1 DEF BeginsLike, _items
      <4> QED
        BY <1>0, <4>1, <4>2 DEF RequestKeeps
    <3> QED
      BY <3>1, <3>2
  <2>4. CASE Scan(r)
    <3>1. /\ pc[r] = "scan" /\ UNCHANGED <<target, arr, num>>
          /\ k <= num[r] /\ BeginsLike(arr[r], k)
          /\ \A i \in 1..k : i < at[r] => _items[i] # target[r]
      BY <1>0, <2>4 DEF Scan, RequestKeeps
    <3>2. CASE pc'[r] # "scan"
      <4>1. pc'[r] \in {"missing", "failed", "ok", "index"}
        BY <2>4, <3>2 DEF Scan, Goto, TypeOK
      <4> QED
        BY <4>1 DEF RequestKeeps
    <3>3. CASE pc'[r] = "scan"
      <4>1. at'[r] = at[r] + 1 /\ heap[arr[r]][at[r]] # target[r]
        BY <2>4, <3>3 DEF Scan, Goto, TypeOK
      <4>2. at[r] \in 1..k => _items[at[r]] # target[r]
        BY <3>1, <4>1 DEF BeginsLike
      <4>3. \A i \in 1..k : i < at[r] + 1 => i < at[r] \/ i = at[r]
        BY <1>0
      <4>4. \A i \in 1..k : i < at'[r] => _items'[i] # target'[r]
        BY <1>1, <3>1, <4>1, <4>2, <4>3
      <4>5. BeginsLike(arr[r], k)'
        BY <1>1, <3>1 DEF BeginsLike
      <4> QED
        BY <3>1, <3>3, <4>4, <4>5 DEF RequestKeeps
    <3> QED
      BY <3>2, <3>3
  <2> QED
    BY <2>1, <2>2, <2>3, <2>4
<1> QED
  BY <1>0, <1>1, <1>2, <1>3, Undisturbed

(* Only deletions disturb the first k slots.                               *)
LEMMA StepKeeps ==
    ASSUME TypeOK, TypeOK', RequestInv, NEW k \in Nat, Keeps(k), NEW r \in Requests,
           r \notin Deleters, Step(r)
    PROVE  /\ k <= Len(_items') /\ \A i \in 1..k : _items'[i] = _items[i]
           /\ Keeps(k)'
<1>1. CASE Arrive(r) \/ Look(r) \/ AsSpan(r) \/ Scan(r)
  BY <1>1, LookUpKeeps DEF _items, Keeps
<1>2. CASE ~(Arrive(r) \/ Look(r) \/ AsSpan(r) \/ Scan(r))
  <2>1. ~(IndexOf(r) \/ Shrink(r) \/ Decrease(r) \/ Shift(r) \/ Clear(r))
    BY DEF IndexOf, Shrink, Decrease, Shift, Clear, RequestInv, RemoveSteps
  <2> QED
    BY <1>2, <2>1, CreationKeeps DEF Step
<1> QED
  BY <1>1, <1>2

(* What the step of a request says of deletions.                           *)
LEMMA StepOfDeleter ==
    ASSUME TypeOK, NEW r \in Requests, Step(r)
    PROVE  /\ NoDeletion' => NoDeletion /\ r \notin Deleters
           /\ NoDeletion /\ r \in Deleters => Arrive(r)
<1>1. pc'[r] # "idle" /\ \A q \in Requests \ {r} : pc'[q] = pc[q]
  BY DEF Step, Arrive, ReadItems, ReadSize, Reserve, Store, AddWithResize, Grow, Install,
         Resize, PutLast, Look, AsSpan, Scan, IndexOf, Shrink, Decrease, Shift, Clear,
         Goto, TypeOK
<1>2. pc[r] = "idle" => Arrive(r)
  BY DEF Step, ReadItems, ReadSize, Reserve, Store, AddWithResize, Grow, Install,
         Resize, PutLast, Look, AsSpan, Scan, IndexOf, Shrink, Decrease, Shift, Clear
<1> QED
  BY <1>1, <1>2 DEF NoDeletion, Requests

(* When all is quiet, the list's first slots are what is settled, as many  *)
(* as there are in both the size and the array.                            *)
LEMMA SettleQuiet == TypeOK /\ Quiescent /\ settled = Content => SettledInv
<1> SUFFICES ASSUME TypeOK, Quiescent, settled = Content PROVE SettledInv
  OBVIOUS
<1>1. size \in Nat /\ Len(_items) \in Nat
  BY DEF TypeOK, _items
<1> DEFINE k == IF size <= Len(_items) THEN size ELSE Len(_items)
<1>2. k \in 0..Len(_items) /\ k <= size /\ k <= Len(_items)
      /\ {j \in 1..size : j <= Len(_items)} = 1..k
  BY <1>1
<1>3. settled = {_items[i] : i \in 1..k} \ {Null}
  BY <1>2 DEF Content
<1>4. \A r \in Requests : RequestKeeps(r, k)
  BY DEF Quiescent, Running, RequestKeeps, Steps, AddSteps, FindSteps
<1> QED
  BY <1>2, <1>3, <1>4 DEF SettledInv, Keeps

LEMMA SettledStep ==
    ASSUME IInv, TypeOK', NEW r \in Requests, Step(r), Settle
    PROVE  SettledInv'
<1>1. CASE Quiescent'
  <2>1. (TypeOK /\ Quiescent /\ settled = Content => SettledInv)'
    BY SettleQuiet, PTL
  <2> QED
    BY <1>1, <2>1 DEF Settle
<1>2. CASE ~Quiescent' /\ NoDeletion'
  <2>1. settled' = settled /\ r \notin Deleters /\ NoDeletion
    BY <1>2, StepOfDeleter DEF Settle, IInv
  <2>2. PICK k \in 0..Len(_items) :
            settled = {_items[i] : i \in 1..k} \ {Null} /\ Keeps(k)
    BY <2>1 DEF IInv, SettledInv
  <2>3. k \in Nat /\ Len(_items') \in Nat
    BY DEF TypeOK, _items
  <2>4. /\ k <= Len(_items') /\ \A i \in 1..k : _items'[i] = _items[i]
        /\ Keeps(k)'
    BY <2>1, <2>2, <2>3, StepKeeps DEF IInv
  <2>5. settled' = {_items'[i] : i \in 1..k} \ {Null} /\ k \in 0..Len(_items')
    BY <2>1, <2>2, <2>3, <2>4
  <2> QED
    BY <2>4, <2>5 DEF SettledInv
<1>3. CASE ~NoDeletion'
  BY <1>3 DEF SettledInv
<1> QED
  BY <1>1, <1>2, <1>3

LEMMA Inductive == IInv /\ [Next]_vars => IInv'
<1> SUFFICES ASSUME IInv, [Next]_vars PROVE IInv'
  OBVIOUS
<1>1. TypeOK' /\ RequestInv'
  BY TypeNext DEF IInv
<1>2. SettledInv'
  <2>1. CASE Next
    BY <1>1, <2>1, SettledStep DEF Next
  <2>2. CASE UNCHANGED vars
    BY <2>2 DEF vars, local, IInv, SettledInv, Keeps, RequestKeeps, BeginsLike, _items,
                NoDeletion
  <2> QED
    BY <2>1, <2>2
<1> QED
  BY <1>1, <1>2 DEF IInv

LEMMA Initial == Init => IInv
<1> SUFFICES ASSUME Init PROVE IInv
  OBVIOUS
<1>1. TypeOK /\ RequestInv
  BY TypeInit
<1>2. Quiescent /\ settled = Content
  BY DEF Init, Quiescent, Running, Content, Steps, AddSteps, FindSteps, RemoveSteps
<1> QED
  BY <1>1, <1>2, SettleQuiet DEF IInv

(* The storage of a service is always a list of slots with a size, every   *)
(* request holds one of its arrays and whatever span is being searched     *)
(* lies within its array; while no deletion has begun, what is settled     *)
(* is at the front of the list and nothing under way will touch it.        *)
THEOREM Invariance == Spec => []IInv
BY Initial, Inductive, PTL DEF Spec

THEOREM TypeCorrect == Spec => []TypeOK
BY Invariance, PTL DEF IInv

(* Creations never lose what was in the list before they began.            *)
THEOREM CreationsSpareSettled == Spec => SettledSurvive
<1>1. IInv /\ IInv' /\ [Next]_vars => [NoDeletion => settled \subseteq Content']_vars
  <2> SUFFICES ASSUME IInv, IInv', Next, NoDeletion PROVE settled \subseteq Content'
    OBVIOUS
  <2>1. PICK r \in Requests : Step(r)
    BY DEF Next
  <2>2. PICK k \in 0..Len(_items) :
            settled = {_items[i] : i \in 1..k} \ {Null} /\ Keeps(k)
    BY DEF IInv, SettledInv
  <2>3. k \in Nat /\ Len(_items') \in Nat /\ size' \in Nat
    BY DEF IInv, TypeOK, _items
  <2>4. k <= size' /\ k <= Len(_items') /\ \A i \in 1..k : _items'[i] = _items[i]
    <3>1. CASE r \in Deleters
      <4>1. Arrive(r)
        BY <2>1, <3>1, StepOfDeleter DEF IInv
      <4> QED
        BY <2>2, <4>1 DEF Arrive, _items, Keeps
    <3>2. CASE r \notin Deleters
      BY <2>1, <2>2, <2>3, <3>2, StepKeeps DEF IInv, Keeps
    <3> QED
      BY <3>1, <3>2
  <2>5. \A i \in 1..k : i \in {j \in 1..size' : j <= Len(_items')}
    BY <2>3, <2>4
  <2>6. {_items[i] : i \in 1..k} \ {Null} \subseteq Content'
    BY <2>4, <2>5 DEF Content
  <2> QED
    BY <2>2, <2>6
<1> QED
  BY <1>1, Invariance, PTL DEF Spec, SettledSurvive

(* A look-up that overlaps with creations does not miss a settled entity.  *)
THEOREM CreationsHideNothing == Spec => SettledFound
<1>1. IInv /\ [Next]_vars =>
        [\A f \in Finders :
            NoDeletion /\ pc[f] = "scan" /\ pc'[f] = "missing"
                => target[f] \notin settled]_vars
  <2> SUFFICES ASSUME IInv, Next, NEW f \in Finders, NoDeletion, pc[f] = "scan",
                      pc'[f] = "missing"
               PROVE  target[f] \notin settled
    OBVIOUS
  <2>1. PICK r \in Requests : Step(r)
    BY DEF Next
  <2>2. pc[r] = "scan" => Scan(r)
    BY <2>1 DEF Step, Arrive, ReadItems, ReadSize, Reserve, Store, AddWithResize, Grow,
                Install, Resize, PutLast, Look, AsSpan, IndexOf, Shrink, Decrease, Shift,
                Clear
  <2>3. \A q \in Requests \ {r} : pc'[q] = pc[q]
    BY <2>1 DEF Step, Arrive, ReadItems, ReadSize, Reserve, Store, AddWithResize, Grow,
                Install, Resize, PutLast, Look, AsSpan, Scan, IndexOf, Shrink, Decrease,
                Shift, Clear, Goto, IInv, TypeOK
  <2>4. f \in Requests /\ Scan(f)
    BY <2>2, <2>3 DEF Requests
  <2>5. at[f] > num[f]
    BY <2>4 DEF Scan, Goto, IInv, TypeOK
  <2>6. PICK k \in 0..Len(_items) :
            settled = {_items[i] : i \in 1..k} \ {Null} /\ Keeps(k)
    BY DEF IInv, SettledInv
  <2>7. k <= num[f] /\ \A i \in 1..k : i < at[f] => _items[i] # target[f]
    BY <2>4, <2>6 DEF Keeps, RequestKeeps
  <2>8. \A i \in 1..k : i < at[f]
    BY <2>4, <2>5, <2>7 DEF IInv, TypeOK
  <2> QED
    BY <2>6, <2>7, <2>8
<1> QED
  BY <1>1, Invariance, PTL DEF Spec, SettledFound

-----------------------------------------------------------------------------
(* One request at a time.                                                  *)

Aligned == TypeOK /\ RequestInv /\ SerialInv

(* The only request under way is the one that takes the step.              *)
LEMMA Alone ==
    ASSUME Overlap = 1, Aligned, NEW r \in Requests, Step(r)
    PROVE  /\ \A q \in Requests \ {r} :
                /\ pc[q] \notin Steps
                /\ pc'[q] = pc[q] /\ target'[q] = target[q]
           /\ pc[r] \notin Answers
           /\ pc[r] = "idle" => \A q \in Requests : pc[q] \notin Steps
           /\ pc[r] \in Steps => target' = target
<1>1. /\ \A q \in Requests \ {r} : pc'[q] = pc[q] /\ target'[q] = target[q]
      /\ pc[r] \notin Answers
  BY DEF Step, Arrive, ReadItems, ReadSize, Reserve, Store, AddWithResize, Grow, Install,
         Resize, PutLast, Look, AsSpan, Scan, IndexOf, Shrink, Decrease, Shift, Clear,
         Goto, local, Aligned, TypeOK, Answers
<1>2. pc[r] \in Steps => target' = target
  BY DEF Step, Arrive, ReadItems, ReadSize, Reserve, Store, AddWithResize, Grow, Install,
         Resize, PutLast, Look, AsSpan, Scan, IndexOf, Shrink, Decrease, Shift, Clear,
         local, Steps, AddSteps, FindSteps, RemoveSteps
<1>3. CASE pc[r] = "idle"
  <2>1. Arrive(r)
    BY <1>3 DEF Step, ReadItems, ReadSize, Reserve, Store, AddWithResize, Grow, Install,
         Resize, PutLast, Look, AsSpan, Scan, IndexOf, Shrink, Decrease, Shift, Clear
  <2>2. IsFiniteSet(Running)
    BY RequestsAssumption, FS_Subset DEF Running
  <2>3. Cardinality(Running) \in Nat /\ Cardinality(Running) < 1
    BY <2>1, <2>2, FS_CardinalityType DEF Arrive
  <2>4. Running = {}
    BY <2>2, <2>3, FS_EmptySet
  <2> QED
    BY <1>1, <1>2, <2>4 DEF Running
<1>4. CASE pc[r] # "idle"
  <2>1. pc[r] \in Steps
    BY <1>1, <1>4 DEF Aligned, TypeOK
  <2> QED
    BY <1>1, <1>2, <1>4, <2>1 DEF Aligned, SerialInv, Running
<1> QED
  BY <1>3, <1>4

(* What is left to show of a step, after Alone.                            *)
LEMMA SerialFrame ==
    ASSUME Overlap = 1, Aligned, TypeOK', NEW r \in Requests, Step(r),
           pc'[r] # "failed", pc'[r] # "idle",
           target'[r] \in IF r \in Creators THEN {r} ELSE Created \cup {Unknown},
           Adding(r)', Seeking(r)',
           pc'[r] \notin {"store", "put", "shift", "clear"} =>
                Lists(size)' /\ EmptyAfter(size)'
    PROVE  SerialInv'
<1>1. /\ \A q \in Requests \ {r} :
            /\ pc[q] \notin Steps
            /\ pc'[q] = pc[q] /\ target'[q] = target[q]
      /\ pc[r] \notin Answers
  BY Alone
<1>2. Created \subseteq Created'
  BY <1>1 DEF Created, Answers, Requests
<1>3. (\A q1, q2 \in Running : q1 = q2)'
  BY <1>1 DEF Running
<1>4. ASSUME NEW q \in Requests
      PROVE  /\ pc'[q] # "failed"
             /\ target'[q] \in IF pc'[q] = "idle" THEN {Null}
                               ELSE IF q \in Creators THEN {q} ELSE Created' \cup {Unknown}
             /\ Adding(q)' /\ Seeking(q)'
  <2>1. CASE q = r
    BY <1>2, <2>1
  <2>2. CASE q # r
    <3>1. pc'[q] = pc[q] /\ pc[q] \notin Steps /\ target'[q] = target[q]
      BY <1>1, <2>2
    <3>2. Adding(q)' /\ Seeking(q)'
      BY <3>1 DEF Adding, Seeking, Steps, AddSteps, FindSteps, RemoveSteps
    <3> QED
      BY <1>2, <3>1, <3>2 DEF Aligned, SerialInv
  <2> QED
    BY <2>1, <2>2
<1> QED
  BY <1>3, <1>4 DEF SerialInv

(* While the list stays as it is, so does what it lists.                   *)
LEMMA ListsSame ==
    ASSUME _items' = _items, Created \subseteq Created', NEW n \in Nat
    PROVE  /\ Lists(n) => Lists(n)'
           /\ EmptyAfter(n) => EmptyAfter(n)'
BY DEF Lists, EmptyAfter

LEMMA CreatedGrows ==
    ASSUME Overlap = 1, Aligned, NEW r \in Requests, Step(r)
    PROVE  Created' = IF r \in Creators /\ pc'[r] = "ok" THEN Created \cup {r} ELSE Created
<1>1. /\ \A q \in Requests \ {r} : pc'[q] = pc[q]
      /\ pc[r] # "ok"
  BY Alone DEF Answers
<1> QED
  BY <1>1 DEF Created, Requests

(* What the request that takes the step finds.                             *)
LEMMA Finds ==
    ASSUME Overlap = 1, Aligned, NEW r \in Requests, Step(r)
    PROVE  /\ size \in Nat /\ Len(_items) \in Nat /\ num[r] \in Nat /\ at[r] \in Nat \ {0}
           /\ cur \in 1..Len(heap) /\ arr[r] \in 1..Len(heap)
           /\ Adding(r) /\ Seeking(r)
           /\ pc[r] \notin {"store", "put", "shift", "clear"} =>
                Lists(size) /\ EmptyAfter(size)
           /\ pc[r] \in Steps => target[r] \in IF r \in Creators THEN {r}
                                               ELSE Created \cup {Unknown}
           /\ Created \subseteq Created'
<1>1. \A q \in Requests \ {r} : pc[q] \notin Steps
  BY Alone
<1>2. pc[r] \notin {"store", "put", "shift", "clear"} => Lists(size) /\ EmptyAfter(size)
  BY <1>1 DEF Aligned, SerialInv, Steps, AddSteps, RemoveSteps
<1>3. pc[r] \in Steps => target[r] \in IF r \in Creators THEN {r}
                                       ELSE Created \cup {Unknown}
  BY DEF Aligned, SerialInv, Steps, AddSteps, RemoveSteps, FindSteps
<1>4. /\ size \in Nat /\ Len(_items) \in Nat /\ num[r] \in Nat /\ at[r] \in Nat \ {0}
      /\ cur \in 1..Len(heap) /\ arr[r] \in 1..Len(heap)
  BY DEF Aligned, TypeOK, RequestInv, _items
<1>5. Adding(r) /\ Seeking(r)
  BY DEF Aligned, SerialInv
<1> QED
  BY <1>2, <1>3, <1>4, <1>5, CreatedGrows

(* The steps that leave the list alone.                                    *)
LEMMA SerialRead ==
    ASSUME Overlap = 1, Aligned, TypeOK', NEW r \in Requests, Step(r),
           \/ Arrive(r) \/ ReadItems(r) \/ ReadSize(r) \/ AddWithResize(r)
           \/ Look(r) \/ AsSpan(r) \/ Scan(r) \/ IndexOf(r) \/ Shrink(r)
    PROVE  /\ SerialInv'
           /\ pc'[r] \notin {"store", "put", "shift", "clear"}
           /\ UNCHANGED <<heap, cur, size>>
<1>0. /\ size \in Nat /\ Len(_items) \in Nat /\ num[r] \in Nat /\ at[r] \in Nat \ {0}
      /\ cur \in 1..Len(heap) /\ arr[r] \in 1..Len(heap)
      /\ Adding(r) /\ Seeking(r)
      /\ pc[r] \notin {"store", "put", "shift", "clear"} => Lists(size) /\ EmptyAfter(size)
      /\ pc[r] \in Steps => target[r] \in IF r \in Creators THEN {r}
                                          ELSE Created \cup {Unknown}
      /\ Created \subseteq Created'
  BY Finds
<1>1. UNCHANGED <<heap, cur, size>> /\ _items' = _items
  BY DEF Arrive, ReadItems, ReadSize, AddWithResize, Look, AsSpan, Scan, IndexOf, Shrink, _items
<1>2. pc[r] \notin {"store", "put", "shift", "clear"}
  BY DEF Arrive, ReadItems, ReadSize, AddWithResize, Look, AsSpan, Scan, IndexOf, Shrink
<1>3. Lists(size)' /\ EmptyAfter(size)'
  <2> DEFINE n == size
  <2>1. Lists(n) /\ EmptyAfter(n) /\ n \in Nat /\ n' = n
    BY <1>0, <1>1, <1>2
  <2> QED
    BY <1>0, <1>1, <2>1 DEF Lists, EmptyAfter
<1> DEFINE Right ==
      /\ pc'[r] \notin {"failed", "idle", "store", "put", "shift", "clear"}
      /\ Adding(r)' /\ Seeking(r)'
<1>4. target'[r] \in IF r \in Creators THEN {r} ELSE Created \cup {Unknown}
  <2>1. CASE Arrive(r)
    BY <2>1 DEF Arrive, Aligned, TypeOK
  <2>2. CASE ~Arrive(r)
    <3>1. pc[r] \in Steps /\ target' = target
      BY <2>2 DEF ReadItems, ReadSize, AddWithResize, Look, AsSpan, Scan, IndexOf, Shrink,
                  Steps, AddSteps, FindSteps, RemoveSteps
    <3> QED
      BY <1>0, <3>1
  <2> QED
    BY <2>1, <2>2
<1>5. Right
  <2>1. CASE Arrive(r)
    <3>1. pc'[r] \in {"add", "look"}
      BY <2>1 DEF Arrive, Goto, Aligned, TypeOK
    <3> QED
      BY <3>1 DEF Adding, Seeking
  <2>2. CASE ReadItems(r)
    <3>1. pc'[r] = "measure" /\ arr'[r] = cur
      BY <2>2 DEF ReadItems, Goto, Aligned, TypeOK
    <3> QED
      BY <1>1, <3>1 DEF Adding, Seeking
  <2>3. CASE ReadSize(r)
    <3>1. /\ arr'[r] = cur /\ num'[r] = size
          /\ \/ pc'[r] = "reserve" /\ size < Len(heap[cur])
             \/ pc'[r] = "enlarge"
      BY <1>0, <2>3 DEF ReadSize, Goto, Adding, Aligned, TypeOK
    <3> QED
      BY <1>1, <3>1 DEF Adding, Seeking, _items
  <2>4. CASE AddWithResize(r)
    <3>1. pc'[r] = "grow" /\ num'[r] = size
      BY <2>4 DEF AddWithResize, Goto, Aligned, TypeOK
    <3> QED
      BY <1>1, <3>1 DEF Adding, Seeking
  <2>5. CASE Look(r)
    <3>1. pc'[r] = "span" /\ num'[r] = size
      BY <2>5 DEF Look, Goto, Aligned, TypeOK
    <3> QED
      BY <1>1, <3>1 DEF Adding, Seeking
  <2>6. CASE AsSpan(r)
    <3>1. num[r] = size /\ size <= Len(_items)
      BY <1>0, <1>2, <2>6 DEF AsSpan, Seeking, Lists
    <3>2. pc'[r] = "scan" /\ num'[r] = size /\ arr'[r] = cur /\ at'[r] = 1
      BY <2>6, <3>1 DEF AsSpan, Goto, Aligned, TypeOK
    <3>3. \A i \in 1..size : ~(i < 1)
      BY <1>0
    <3> QED
      BY <1>1, <3>2, <3>3 DEF Adding, Seeking
  <2>7. CASE Scan(r)
    <3>1. /\ pc[r] = "scan" /\ num[r] = size /\ arr[r] = cur
          /\ \A i \in 1..size : i < at[r] => _items[i] # target[r]
          /\ UNCHANGED <<target, arr, num>>
      BY <1>0, <2>7 DEF Scan, Seeking
    <3>2. CASE at[r] > num[r]
      <4>1. pc'[r] = "missing"
        BY <2>7, <3>2 DEF Scan, Goto, Aligned, TypeOK
      <4> QED
        BY <4>1 DEF Adding, Seeking
    <3>3. CASE ~(at[r] > num[r])
      <4>1. at[r] \in 1..size /\ _items[at[r]] \in Creators
        BY <1>0, <1>2, <3>1, <3>3 DEF Lists, Created
      <4>2. _items[at[r]] # Null /\ heap[arr[r]][at[r]] = _items[at[r]]
        BY <3>1, <4>1, IdsAssumption DEF _items
      <4>3. CASE _items[at[r]] = target[r]
        <5>1. pc'[r] \in {"ok", "index"} /\ at' = at
          BY <2>7, <3>3, <4>2, <4>3 DEF Scan, Goto, Aligned, TypeOK
        <5> QED
          BY <1>1, <3>1, <4>1, <4>3, <5>1 DEF Adding, Seeking
      <4>4. CASE _items[at[r]] # target[r]
        <5>1. pc'[r] = "scan" /\ at'[r] = at[r] + 1
          BY <2>7, <3>1, <3>3, <4>2, <4>4 DEF Scan, Goto, Aligned, TypeOK
        <5>2. \A i \in 1..size : i < at[r] + 1 => i < at[r] \/ i = at[r]
          BY <1>0
        <5>3. \A i \in 1..size : i < at'[r] => _items[i] # target[r]
          BY <3>1, <4>4, <5>1, <5>2
        <5> QED
          BY <1>1, <3>1, <5>1, <5>3 DEF Adding, Seeking
      <4> QED
        BY <4>3, <4>4
    <3> QED
      BY <3>2, <3>3
  <2>8. CASE IndexOf(r)
    <3>1. /\ size <= Len(_items) /\ target[r] \in {_items[i] : i \in 1..size}
          /\ target[r] \in Creators
      BY <1>0, <1>2, <2>8 DEF IndexOf, Seeking, Lists, Created
    <3>2. target[r] \in Content
      BY <1>0, <3>1, IdsAssumption DEF Content
    <3>3. \E i \in 1..size : _items[i] = target[r] /\ \A j \in 1..(i-1) : _items[j] # target[r]
      BY <3>1, <3>2, FirstSlot DEF Aligned
    <3>4. PICK i \in 1..size : _items[i] = target[r] /\ at' = [at EXCEPT ![r] = i]
      <4>1. ~(size > Len(_items))
        BY <1>0, <3>1
      <4>2. at' = [at EXCEPT ![r] =
                     CHOOSE i \in 1..size : /\ _items[i] = target[r]
                                            /\ \A j \in 1..(i-1) : _items[j] # target[r]]
        BY <2>8, <3>2, <4>1 DEF IndexOf
      <4> QED
        BY <3>3, <4>2
    <3>5. pc'[r] = "shrink" /\ target' = target
      BY <1>0, <2>8, <3>1, <3>2 DEF IndexOf, Goto, Aligned, TypeOK
    <3>6. at'[r] = i /\ i <= size
      BY <1>0, <3>4 DEF Aligned, TypeOK
    <3> QED
      BY <1>1, <3>4, <3>5, <3>6 DEF Adding, Seeking
  <2>9. CASE Shrink(r)
    <3>1. at[r] <= size /\ _items[at[r]] = target[r]
      BY <1>0, <2>9 DEF Shrink, Seeking
    <3>2. pc'[r] = "decrease" /\ num'[r] = size /\ at' = at /\ target' = target
      BY <2>9, <3>1 DEF Shrink, Goto, Aligned, TypeOK
    <3> QED
      BY <1>1, <3>1, <3>2 DEF Adding, Seeking
  <2> QED
    BY <2>1, <2>2, <2>3, <2>4, <2>5, <2>6, <2>7, <2>8, <2>9
<1> QED
  BY <1>1, <1>3, <1>4, <1>5, SerialFrame

(* The first n slots, as a set.                                            *)
First(n) == {_items[i] : i \in 1..n}

LEMMA SerialGrow ==
    ASSUME Overlap = 1, Aligned, TypeOK', NEW r \in Requests, Step(r), Grow(r)
    PROVE  SerialInv' /\ pc'[r] = "install" /\ _items' = _items /\ size' = size
<1>0. /\ size \in Nat /\ Len(_items) \in Nat /\ num[r] \in Nat /\ cur \in 1..Len(heap)
      /\ Adding(r) /\ pc[r] = "grow"
      /\ Lists(size) /\ EmptyAfter(size)
      /\ target[r] \in IF r \in Creators THEN {r} ELSE Created \cup {Unknown}
      /\ Created \subseteq Created'
  BY Finds DEF Grow, Steps, AddSteps
<1>1. num[r] = size /\ size <= Len(_items)
  BY <1>0 DEF Adding, Lists
<1>2. /\ heap' = Append(heap, Copied(num[r])) /\ Copied(num[r]) \in Seq(Slot)
      /\ arr'[r] = Len(heap) + 1 /\ pc'[r] = "install"
      /\ UNCHANGED <<cur, size, target, num, at>>
  BY <1>0, <1>1, CopiedArray DEF Grow, Goto, Aligned, TypeOK
<1>3. /\ heap'[Len(heap) + 1] = Copied(num[r]) /\ heap'[cur] = heap[cur]
      /\ arr'[r] # cur /\ Len(heap) \in Nat
  BY <1>0, <1>2, AppendArray DEF Aligned, TypeOK
<1>4. _items' = _items
  BY <1>2, <1>3 DEF _items
<1> DEFINE new == heap'[arr'[r]]
<1>5. /\ size < Len(new) /\ Len(new) \in Nat
      /\ \A i \in 1..Len(new) : new[i] = IF i <= size THEN _items[i] ELSE Null
  BY <1>0, <1>1, <1>2, <1>3, CopiedArray DEF Aligned
<1>6. /\ \A i \in 1..size : new[i] = _items[i]
      /\ \A i \in 1..Len(new) : i > size => new[i] = Null
  <2>1. \A i \in 1..size : i \in 1..Len(new) /\ i <= size
    BY <1>0, <1>5
  <2>2. \A i \in 1..Len(new) : i > size => ~(i <= size)
    BY <1>0, <1>5
  <2> QED
    BY <1>5, <2>1, <2>2
<1>7. Adding(r)'
  BY <1>0, <1>1, <1>2, <1>3, <1>4, <1>5, <1>6 DEF Adding, BeginsLike
<1>8. Seeking(r)'
  BY <1>2 DEF Seeking
<1>9. Lists(size)' /\ EmptyAfter(size)'
  BY <1>0, <1>2, <1>4 DEF Lists, EmptyAfter
<1> QED
  BY <1>0, <1>2, <1>4, <1>7, <1>8, <1>9, SerialFrame

LEMMA SerialInstall ==
    ASSUME Overlap = 1, Aligned, TypeOK', NEW r \in Requests, Step(r), Install(r)
    PROVE  SerialInv' /\ pc'[r] = "resize" /\ size' = size /\ First(size)' = First(size)
<1>0. /\ size \in Nat /\ Len(_items) \in Nat
      /\ Adding(r) /\ pc[r] = "install"
      /\ Lists(size)
      /\ target[r] \in IF r \in Creators THEN {r} ELSE Created \cup {Unknown}
      /\ Created \subseteq Created'
  BY Finds DEF Install, Steps, AddSteps
<1>1. /\ pc'[r] = "resize" /\ UNCHANGED <<heap, size, local>> /\ _items' = heap[arr[r]]
  BY DEF Install, Goto, Aligned, TypeOK, _items
<1>2. /\ num[r] = size /\ size < Len(heap[arr[r]])
      /\ \A i \in 1..size : heap[arr[r]][i] = _items[i]
      /\ \A i \in 1..Len(heap[arr[r]]) : i > size => heap[arr[r]][i] = Null
  BY <1>0 DEF Adding, BeginsLike
<1>3. size <= Len(heap[arr[r]]) /\ \A i \in 1..size : _items'[i] = _items[i]
  BY <1>0, <1>1, <1>2 DEF Aligned, TypeOK
<1>4. Lists(size)' /\ EmptyAfter(size)'
  BY <1>0, <1>1, <1>2, <1>3 DEF Lists, EmptyAfter
<1>5. Adding(r)'
  BY <1>1, <1>2 DEF Adding, local
<1>6. Seeking(r)'
  BY <1>1 DEF Seeking
<1>7. First(size)' = First(size)
  BY <1>1, <1>3 DEF First
<1> QED
  BY <1>0, <1>1, <1>4, <1>5, <1>6, <1>7, SerialFrame DEF local

LEMMA SerialReserve ==
    ASSUME Overlap = 1, Aligned, TypeOK', NEW r \in Requests, Step(r),
           Reserve(r) \/ Resize(r)
    PROVE  /\ SerialInv' /\ pc'[r] \in {"store", "put"}
           /\ First(num[r])' = First(size)
<1>0. /\ size \in Nat /\ Len(_items) \in Nat
      /\ Adding(r) /\ pc[r] \in {"reserve", "resize"}
      /\ Lists(size) /\ EmptyAfter(size)
      /\ target[r] \in IF r \in Creators THEN {r} ELSE Created \cup {Unknown}
      /\ Created \subseteq Created'
  BY Finds DEF Reserve, Resize, Steps, AddSteps
<1>1. /\ pc'[r] = IF pc[r] = "reserve" THEN "store" ELSE "put"
      /\ UNCHANGED <<heap, cur, local>> /\ _items' = _items /\ size' = num[r] + 1
  BY DEF Reserve, Resize, Goto, Aligned, TypeOK, _items
<1>2. num[r] = size /\ size < Len(_items)
  BY <1>0 DEF Adding
<1>3. Lists(num[r])' /\ EmptyAfter(num[r])'
  BY <1>0, <1>1, <1>2 DEF Lists, EmptyAfter, local
<1>4. Adding(r)'
  BY <1>0, <1>1, <1>2, <1>3 DEF Adding, local
<1>5. Seeking(r)'
  BY <1>0, <1>1 DEF Seeking
<1>6. First(num[r])' = First(size)
  BY <1>1, <1>2 DEF First, local
<1> QED
  BY <1>0, <1>1, <1>4, <1>5, <1>6, SerialFrame DEF local

LEMMA SerialStore ==
    ASSUME Overlap = 1, Aligned, TypeOK', NEW r \in Requests, Step(r),
           Store(r) \/ PutLast(r)
    PROVE  /\ SerialInv' /\ pc[r] \in {"store", "put"} /\ pc'[r] = "ok" /\ target[r] = r
           /\ First(size)' = First(num[r]) \cup {r}
<1>0. /\ size \in Nat /\ Len(_items) \in Nat /\ num[r] \in Nat /\ cur \in 1..Len(heap)
      /\ Adding(r) /\ pc[r] \in {"store", "put"}
      /\ target[r] \in IF r \in Creators THEN {r} ELSE Created \cup {Unknown}
      /\ Created \subseteq Created'
  BY Finds DEF Store, PutLast, Steps, AddSteps
<1>1. /\ size = num[r] + 1 /\ size <= Len(_items) /\ num[r] < Len(_items)
      /\ Lists(num[r]) /\ EmptyAfter(num[r]) /\ r \in Creators
  BY <1>0 DEF Adding, Aligned, RequestInv, AddSteps
<1>2. Put(cur, num[r] + 1, r) /\ UNCHANGED <<cur, size, local>> /\ pc'[r] = "ok"
  BY <1>0, <1>1 DEF Store, PutLast, Goto, Adding, Aligned, TypeOK
<1>3. /\ Len(_items') = Len(_items)
      /\ \A j \in 1..Len(_items) : _items'[j] = IF j = size THEN r ELSE _items[j]
  BY <1>0, <1>1, <1>2, PutSlot DEF _items, Slot, Aligned
<1>4. \A i \in 1..num[r] : i \in 1..Len(_items) /\ i # size
  BY <1>0, <1>1
<1>5. \A i \in 1..num[r] : _items'[i] = _items[i] /\ _items[i] \in Created /\ _items[i] # r
  BY <1>0, <1>1, <1>3, <1>4 DEF Lists, Created
<1>6. size \in 1..Len(_items) /\ _items'[size] = r /\ r \in Created'
  BY <1>0, <1>1, <1>2, <1>3 DEF Created
<1>7. \A i \in 1..size : i \in 1..num[r] \/ i = size
  BY <1>0, <1>1
<1>8. Lists(size)'
  BY <1>0, <1>1, <1>2, <1>3, <1>5, <1>6, <1>7 DEF Lists
<1>9. EmptyAfter(size)'
  BY <1>0, <1>1, <1>2, <1>3 DEF EmptyAfter
<1>10. First(size)' = First(num[r]) \cup {r}
  <2>1. num[r] \in Nat /\ size \in 1..size /\ \A i \in 1..num[r] : i \in 1..size
    BY <1>0, <1>1
  <2> QED
    BY <1>2, <1>5, <1>6, <1>7, <2>1 DEF First
<1>11. Adding(r)' /\ Seeking(r)'
  BY <1>2 DEF Adding, Seeking
<1> QED
  BY <1>0, <1>1, <1>2, <1>8, <1>9, <1>10, <1>11, SerialFrame DEF local

LEMMA SerialDecrease ==
    ASSUME Overlap = 1, Aligned, TypeOK', NEW r \in Requests, Step(r), Decrease(r)
    PROVE  /\ SerialInv' /\ pc'[r] = "shift"
           /\ First(size + 1)' = First(size)
<1>0. /\ size \in Nat /\ Len(_items) \in Nat /\ at[r] \in Nat \ {0}
      /\ Seeking(r) /\ pc[r] = "decrease"
      /\ Lists(size) /\ EmptyAfter(size)
      /\ target[r] \in IF r \in Creators THEN {r} ELSE Created \cup {Unknown}
      /\ Created \subseteq Created'
  BY Finds DEF Decrease, Steps, RemoveSteps
<1>1. /\ pc'[r] = "shift" /\ UNCHANGED <<heap, cur, local>> /\ _items' = _items
      /\ size' = num[r] - 1
  BY DEF Decrease, Goto, Aligned, TypeOK, _items
<1>2. num[r] = size /\ at[r] <= size /\ _items[at[r]] = target[r]
  BY <1>0 DEF Seeking
<1>3. size' + 1 = size
  BY <1>0, <1>1, <1>2
<1>4. Lists(num[r])' /\ EmptyAfter(num[r])'
  BY <1>0, <1>1, <1>2 DEF Lists, EmptyAfter, local
<1>5. Seeking(r)'
  BY <1>0, <1>1, <1>2, <1>3, <1>4 DEF Seeking, local
<1>6. Adding(r)'
  BY <1>0, <1>1 DEF Adding
<1>7. First(size + 1)' = First(size)
  BY <1>1, <1>3 DEF First
<1> QED
  BY <1>0, <1>1, <1>5, <1>6, <1>7, SerialFrame DEF local

LEMMA SerialShift ==
    ASSUME Overlap = 1, Aligned, TypeOK', NEW r \in Requests, Step(r), Shift(r)
    PROVE  /\ SerialInv' /\ pc[r] = "shift" /\ pc'[r] = "clear"
           /\ First(size)' \cup {target[r]} = First(size + 1)
<1>0. /\ size \in Nat /\ Len(_items) \in Nat /\ at[r] \in Nat \ {0} /\ cur \in 1..Len(heap)
      /\ Seeking(r) /\ pc[r] = "shift"
      /\ target[r] \in IF r \in Creators THEN {r} ELSE Created \cup {Unknown}
      /\ Created \subseteq Created'
  BY Finds DEF Shift, Steps, RemoveSteps
<1>1. /\ size < Len(_items) /\ at[r] <= size + 1 /\ _items[at[r]] = target[r]
      /\ Lists(size + 1) /\ EmptyAfter(size + 1)
  BY <1>0 DEF Seeking, Lists
<1>2. /\ heap' = [heap EXCEPT ![cur] = Shifted(at[r])] /\ pc'[r] = "clear"
      /\ UNCHANGED <<cur, size, local>>
  BY <1>0, <1>1 DEF Shift, Goto, Aligned, TypeOK
<1>3. /\ Len(_items') = Len(_items)
      /\ \A j \in 1..Len(_items) :
            _items'[j] = IF j \in at[r]..size THEN _items[j + 1] ELSE _items[j]
  <2>1. /\ heap' = [heap EXCEPT ![cur] = Shifted(at[r])]
        /\ at[r] <= size => size < Len(_items)
    BY <1>1, <1>2
  <2>2. \A a \in 1..Len(heap) :
          /\ Len(heap'[a]) = Len(heap[a])
          /\ \A j \in 1..Len(heap[a]) :
                heap'[a][j] = IF a = cur /\ j \in at[r]..size
                              THEN heap[a][j + 1] ELSE heap[a][j]
    BY <1>0, <2>1, ShiftedArray DEF Aligned
  <2> QED
    BY <1>0, <1>2, <2>2 DEF _items
<1> DEFINE from(j) == IF j \in at[r]..size THEN j + 1 ELSE j
<1>4. \A j \in 1..size : /\ j \in 1..Len(_items)
                         /\ from(j) \in (1..(size + 1)) \ {at[r]}
                         /\ \A i \in 1..size : i # j => from(i) # from(j)
  BY <1>0, <1>1
<1>5. \A i \in 1..(size + 1) : i # at[r] => \E j \in 1..size : i = from(j)
  <2>1. ASSUME NEW i \in 1..(size + 1), i # at[r] PROVE \E j \in 1..size : i = from(j)
    <3>1. CASE i < at[r]
      <4>1. i \in 1..size /\ i = from(i)
        BY <1>0, <1>1, <2>1, <3>1
      <4> QED
        BY <4>1
    <3>2. CASE i > at[r]
      <4>1. i - 1 \in 1..size /\ i = from(i - 1)
        BY <1>0, <1>1, <2>1, <3>2
      <4> QED
        BY <4>1
    <3> QED
      BY <1>0, <2>1, <3>1, <3>2
  <2> QED
    BY <2>1
<1>6. \A j \in 1..size : _items'[j] = _items[from(j)]
  BY <1>3, <1>4
<1>7. at[r] \in 1..(size + 1)
  BY <1>0, <1>1
<1> HIDE DEF from
<1>8. \A j \in 1..size : /\ _items'[j] \in Created'
                         /\ _items'[j] # target[r]
                         /\ \A i \in 1..size : i # j => _items'[i] # _items'[j]
  BY <1>0, <1>1, <1>4, <1>6, <1>7 DEF Lists
<1>9. Lists(size)' /\ EmptyAfter(size + 1)'
  <2>1. Lists(size)'
    BY <1>0, <1>1, <1>2, <1>3, <1>8 DEF Lists
  <2>2. \A j \in 1..Len(_items) : j > size + 1 => j \notin at[r]..size
    BY <1>0
  <2>3. EmptyAfter(size + 1)'
    BY <1>1, <1>2, <1>3, <2>2 DEF EmptyAfter
  <2> QED
    BY <2>1, <2>3
<1>10. target[r] \in Created'
  BY <1>0, <1>1, <1>7 DEF Lists
<1>11. Seeking(r)'
  <2>1. (target[r] \in Created \ {_items[i] : i \in 1..size})'
    BY <1>2, <1>8, <1>10 DEF local
  <2>2. (size < Len(_items))'
    BY <1>1, <1>2, <1>3
  <2> QED
    BY <1>2, <1>9, <2>1, <2>2 DEF Seeking
<1>12. Adding(r)'
  BY <1>2 DEF Adding
<1>13. First(size)' \cup {target[r]} = First(size + 1)
  BY <1>1, <1>2, <1>4, <1>5, <1>6, <1>7 DEF First
<1> QED
  BY <1>0, <1>2, <1>11, <1>12, <1>13, SerialFrame DEF local

LEMMA SerialClear ==
    ASSUME Overlap = 1, Aligned, TypeOK', NEW r \in Requests, Step(r), Clear(r)
    PROVE  /\ SerialInv' /\ pc[r] = "clear" /\ pc'[r] = "ok" /\ r \in Deleters
           /\ First(size)' = First(size) /\ target[r] \notin First(size)
<1>0. /\ size \in Nat /\ Len(_items) \in Nat /\ cur \in 1..Len(heap)
      /\ Seeking(r) /\ pc[r] = "clear"
      /\ target[r] \in IF r \in Creators THEN {r} ELSE Created \cup {Unknown}
      /\ Created \subseteq Created'
  BY Finds DEF Clear, Steps, RemoveSteps
<1>1. /\ Lists(size) /\ EmptyAfter(size + 1) /\ size < Len(_items)
      /\ target[r] \notin First(size)
  BY <1>0 DEF Seeking, First
<1>2. /\ Put(cur, size + 1, Null) /\ UNCHANGED <<cur, size, local>> /\ pc'[r] = "ok"
  BY <1>1 DEF Clear, Goto, Aligned, TypeOK
<1>3. /\ Len(_items') = Len(_items)
      /\ \A j \in 1..Len(_items) : _items'[j] = IF j = size + 1 THEN Null ELSE _items[j]
  BY <1>0, <1>2, PutSlot DEF _items, Slot, Aligned
<1>4. \A i \in 1..size : i \in 1..Len(_items) /\ i # size + 1
  BY <1>0, <1>1
<1>5. \A i \in 1..size : _items'[i] = _items[i]
  BY <1>3, <1>4
<1>6. Lists(size)'
  BY <1>0, <1>1, <1>2, <1>3, <1>5 DEF Lists
<1>7. \A i \in 1..Len(_items) : i > size => i = size + 1 \/ i > size + 1
  BY <1>0
<1>8. EmptyAfter(size)'
  BY <1>0, <1>1, <1>2, <1>3, <1>7 DEF EmptyAfter
<1>9. First(size)' = First(size)
  BY <1>2, <1>5 DEF First
<1>10. Adding(r)' /\ Seeking(r)'
  BY <1>2 DEF Adding, Seeking
<1>11. r \in Deleters
  BY <1>0 DEF Aligned, RequestInv, RemoveSteps
<1> QED
  BY <1>0, <1>1, <1>2, <1>6, <1>8, <1>9, <1>10, <1>11, SerialFrame DEF local

LEMMA SerialStep ==
    ASSUME Overlap = 1, Aligned, [Next]_vars
    PROVE  Aligned'
<1>1. TypeOK' /\ RequestInv'
  BY TypeNext DEF Aligned
<1>2. CASE Next
  <2>1. PICK r \in Requests : Step(r)
    BY <1>2 DEF Next
  <2> QED
    BY <1>1, <2>1, SerialRead, SerialGrow, SerialInstall, SerialReserve, SerialStore,
       SerialDecrease, SerialShift, SerialClear DEF Step, Aligned
<1>3. CASE UNCHANGED vars
  <2>1. UNCHANGED <<heap, cur, size, pc, target, arr, num, at>>
    BY <1>3 DEF vars, local
  <2>2. /\ _items' = _items /\ Created' = Created /\ Running' = Running
        /\ \A n : Lists(n)' = Lists(n) /\ EmptyAfter(n)' = EmptyAfter(n)
    BY <2>1 DEF _items, Created, Running, Lists, EmptyAfter
  <2>3. Lists(size)' = Lists(size) /\ EmptyAfter(size)' = EmptyAfter(size)
    BY <2>1 DEF _items, Created, Lists, EmptyAfter
  <2>4. \A r \in Requests : Adding(r)' = Adding(r)
    BY <2>1 DEF Adding, _items, Created, Lists, EmptyAfter, BeginsLike
  <2>5. \A r \in Requests : Seeking(r)' = Seeking(r)
    BY <2>1 DEF Seeking, _items, Created, Lists, EmptyAfter
  <2> QED
    BY <1>1, <2>1, <2>2, <2>3, <2>4, <2>5 DEF Aligned, SerialInv
<1> QED
  BY <1>2, <1>3

LEMMA SerialInit == Init => Aligned
<1> SUFFICES ASSUME Init PROVE Aligned
  OBVIOUS
<1>1. TypeOK /\ RequestInv
  BY TypeInit
<1>2. size = 0 /\ Len(_items) = 0
  BY DEF Init, _items
<1>3. Lists(size) /\ EmptyAfter(size)
  BY <1>2 DEF Lists, EmptyAfter
<1> QED
  BY <1>1, <1>3 DEF Init, Aligned, SerialInv, Adding, Seeking, Running, Steps, AddSteps,
                    FindSteps, RemoveSteps

(* Requests that do not overlap find the list in order: the slots up to    *)
(* the size hold different entities whose creation was answered, the       *)
(* others are empty, and no request has failed.                            *)
THEOREM SerialInvariance ==
    ASSUME Overlap = 1 PROVE Spec => []SerialInv
<1>1. Init => Aligned
  BY SerialInit
<1>2. Aligned /\ [Next]_vars => Aligned'
  BY SerialStep
<1>3. Aligned => SerialInv
  BY DEF Aligned
<1> QED
  BY <1>1, <1>2, <1>3, PTL DEF Spec

-----------------------------------------------------------------------------
(* The list as a store.                                                    *)

LEMMA ContentIs ==
    ASSUME TypeOK, NEW n \in Nat, n <= size, Lists(n), EmptyAfter(n)
    PROVE  Content = First(n)
<1>1. size \in Nat /\ Len(_items) \in Nat /\ n <= Len(_items)
  BY DEF TypeOK, _items, Lists
<1>2. \A i \in 1..n : /\ i \in {j \in 1..size : j <= Len(_items)}
                      /\ _items[i] # Null
  BY <1>1, IdsAssumption DEF Lists, Created
<1>3. \A i \in {j \in 1..size : j <= Len(_items)} : i \in 1..n \/ _items[i] = Null
  BY <1>1 DEF EmptyAfter
<1> QED
  BY <1>2, <1>3 DEF Content, First

(* What the store is at each of the steps of the only request.             *)
StoreIs(r) ==
    storeBar = IF pc[r] \in {"store", "put"} THEN First(num[r])
               ELSE IF pc[r] = "shift" THEN First(size + 1)
               ELSE IF pc[r] = "clear" THEN First(size) \cup {target[r]}
               ELSE First(size)

StoreOfTheOne ==
    \A r \in Requests : (\A q \in Requests \ {r} : pc[q] \notin Steps) => StoreIs(r)

LEMMA StoreValue == Aligned => StoreOfTheOne
<1> SUFFICES ASSUME Aligned, NEW r \in Requests,
                    \A q \in Requests \ {r} : pc[q] \notin Steps
             PROVE  StoreIs(r)
  BY DEF StoreOfTheOne
<1>1. /\ (\E q \in Requests : pc[q] = "shift") <=> pc[r] = "shift"
      /\ {target[q] : q \in {d \in Deleters : pc[d] = "clear"}} =
            IF pc[r] = "clear" THEN {target[r]} ELSE {}
  <2>1. \A q \in Requests \ {r} : pc[q] \notin {"shift", "clear"}
    BY DEF Steps, RemoveSteps
  <2>2. pc[r] = "clear" => r \in Deleters
    BY DEF Aligned, RequestInv, RemoveSteps
  <2> QED
    BY <2>1, <2>2 DEF Requests
<1>2. /\ TypeOK /\ size \in Nat /\ num[r] \in Nat /\ Adding(r) /\ Seeking(r)
      /\ pc[r] \notin {"store", "put", "shift", "clear"} => Lists(size) /\ EmptyAfter(size)
  BY DEF Aligned, SerialInv, TypeOK, Steps, AddSteps, RemoveSteps
<1>3. CASE pc[r] \in {"store", "put"}
  <2>1. num[r] <= size /\ Lists(num[r]) /\ EmptyAfter(num[r])
    BY <1>2, <1>3 DEF Adding
  <2>2. Content = First(num[r])
    BY <1>2, <2>1, ContentIs
  <2> QED
    BY <1>1, <1>3, <2>2 DEF StoreIs, storeBar
<1>4. CASE pc[r] = "shift"
  BY <1>1, <1>4 DEF StoreIs, storeBar, First
<1>5. CASE pc[r] = "clear"
  <2>1. Lists(size) /\ EmptyAfter(size + 1) /\ size < Len(_items)
    BY <1>2, <1>5 DEF Seeking
  <2>2. Content = First(size)
    <3>1. size <= Len(_items) /\ Len(_items) \in Nat
      BY <1>2, <2>1 DEF _items, TypeOK
    <3>2. {j \in 1..size : j <= Len(_items)} = 1..size
      BY <1>2, <3>1
    <3>3. \A i \in 1..size : _items[i] # Null
      BY <2>1, IdsAssumption DEF Lists, Created
    <3> QED
      BY <3>2, <3>3 DEF Content, First
  <2> QED
    BY <1>1, <1>5, <2>2 DEF StoreIs, storeBar
<1>6. CASE pc[r] \notin {"store", "put", "shift", "clear"}
  <2>1. Content = First(size)
    BY <1>2, <1>6, ContentIs
  <2> QED
    BY <1>1, <1>6, <2>1 DEF StoreIs, storeBar
<1> QED
  BY <1>3, <1>4, <1>5, <1>6

LEMMA StoreStep ==
    ASSUME Overlap = 1, Aligned, Aligned', NEW r \in Requests, Step(r)
    PROVE  [Service!Next]_(Service!vars)
<1>1. /\ \A q \in Requests \ {r} :
            /\ pc[q] \notin Steps
            /\ pc'[q] = pc[q] /\ target'[q] = target[q]
      /\ pc[r] \notin Answers
  BY Alone
<1>2. StoreIs(r)
  BY <1>1, StoreValue DEF StoreOfTheOne
<1>3. StoreIs(r)'
  <2>1. (Aligned => StoreOfTheOne)'
    BY StoreValue, PTL
  <2>2. (\A q \in Requests \ {r} : pc[q] \notin Steps)'
    BY <1>1
  <2> QED
    BY <2>1, <2>2 DEF StoreOfTheOne
<1>4. /\ answerBar[r] = "none"
      /\ \A q \in Requests \ {r} : answerBar'[q] = answerBar[q]
      /\ pc'[r] \in Answers => answerBar'[r] = pc'[r]
      /\ pc'[r] \notin Answers => answerBar'[r] = "none"
  BY <1>1 DEF answerBar
<1>5. /\ pc'[r] \in Answers => answerBar' = [answerBar EXCEPT ![r] = pc'[r]]
      /\ pc'[r] \notin Answers => answerBar' = answerBar
  BY <1>4 DEF answerBar
<1>6. TypeOK' /\ TypeOK
  BY DEF Aligned
<1>7. CASE Arrive(r)
  <2>1. pc'[r] \in {"add", "look"} /\ pc[r] = "idle" /\ UNCHANGED <<heap, cur, size>>
    BY <1>7 DEF Arrive, Goto, Aligned, TypeOK
  <2>2. answerBar' = answerBar /\ storeBar' = storeBar
    BY <1>2, <1>3, <1>5, <2>1 DEF StoreIs, First, _items, Answers
  <2>3. target[r] = Null
    BY <2>1 DEF Aligned, SerialInv
  <2>4. {c \in Creators : answerBar[c] = "ok"} = Created
    BY DEF answerBar, Created, Answers, Requests
  <2>5. \E e \in IF r \in Creators THEN {r} ELSE Created \cup {Unknown} :
            target' = [target EXCEPT ![r] = e]
    BY <1>7 DEF Arrive
  <2>6. Service!Ask(r)
    BY <2>2, <2>3, <2>4, <2>5 DEF Service!Ask
  <2> QED
    BY <2>6 DEF Service!Next, Service!Requests, Requests
<1>8. CASE pc[r] # "idle"
  <2>1. pc[r] \in Steps /\ target' = target
    BY <1>1, <1>6, <1>8, Alone DEF TypeOK
  <2>2. /\ size \in Nat /\ Len(_items) \in Nat /\ num[r] \in Nat /\ at[r] \in Nat \ {0}
        /\ Adding(r) /\ Seeking(r)
        /\ pc[r] \notin {"store", "put", "shift", "clear"} => Lists(size) /\ EmptyAfter(size)
        /\ target[r] \in IF r \in Creators THEN {r} ELSE Created \cup {Unknown}
    BY <2>1, Finds
  <2>3. CASE Scan(r)
    <3>1. /\ storeBar = First(size) /\ storeBar' = storeBar /\ pc[r] = "scan"
          /\ r \notin Creators /\ num[r] = size
          /\ \A i \in 1..size : i < at[r] => _items[i] # target[r]
      <4>1. /\ pc[r] = "scan" /\ UNCHANGED <<heap, cur, size>>
            /\ pc'[r] \notin {"store", "put", "shift", "clear"}
        BY <1>6, <2>3, SerialRead DEF Scan
      <4> QED
        BY <1>2, <1>3, <2>2, <4>1 DEF StoreIs, First, _items, Seeking, Aligned,
                                      RequestInv, FindSteps
    <3>2. target[r] \in Created \cup {Unknown} /\ target[r] # Null
      BY <2>2, <3>1, IdsAssumption DEF Created
    <3>3. CASE pc'[r] = "missing"
      <4>1. at[r] > size
        BY <2>3, <3>1, <3>3 DEF Scan, Goto, Aligned, TypeOK
      <4>2. target[r] \notin storeBar
        BY <2>2, <3>1, <4>1 DEF First
      <4> QED
        BY <1>4, <1>5, <2>1, <3>1, <3>2, <3>3, <4>2
        DEF Service!Next, Service!NotFound, Service!Requests, Requests, Answers
    <3>4. CASE pc'[r] = "ok"
      <4>1. /\ r \in Finders /\ heap[arr[r]][at[r]] = target[r] /\ at[r] <= size
        BY <2>2, <2>3, <3>1, <3>4 DEF Scan, Goto, Aligned, TypeOK
      <4>2. arr[r] = cur /\ at[r] \in 1..size
        BY <2>2, <3>1, <4>1 DEF Seeking
      <4>3. target[r] \in storeBar
        BY <3>1, <4>1, <4>2 DEF First, _items
      <4> QED
        BY <1>4, <1>5, <2>1, <3>1, <3>4, <4>1, <4>3
        DEF Service!Next, Service!Find, Service!Requests, Requests, Answers
    <3>5. CASE pc'[r] \in {"scan", "index"}
      BY <1>5, <2>1, <3>1, <3>5 DEF Service!vars, Answers
    <3>6. pc'[r] # "failed"
      BY DEF Aligned, SerialInv
    <3> QED
      BY <2>3, <3>1, <3>3, <3>4, <3>5, <3>6 DEF Scan, Goto, Aligned, TypeOK
  <2>4. CASE Store(r) \/ PutLast(r)
    <3>1. /\ pc[r] \in {"store", "put"} /\ pc'[r] = "ok" /\ target[r] = r
          /\ First(size)' = First(num[r]) \cup {r} /\ r \in Creators
      BY <1>6, <2>4, SerialStore DEF Aligned, RequestInv, AddSteps
    <3>2. storeBar' = storeBar \cup {r}
      BY <1>2, <1>3, <3>1 DEF StoreIs
    <3> QED
      BY <1>4, <1>5, <2>1, <3>1, <3>2
      DEF Service!Next, Service!Create, Service!Requests, Requests, Answers
  <2>5. CASE Clear(r)
    <3>1. /\ pc[r] = "clear" /\ pc'[r] = "ok" /\ r \in Deleters
          /\ First(size)' = First(size) /\ target[r] \notin First(size)
      BY <1>6, <2>5, SerialClear
    <3>2. storeBar = First(size) \cup {target[r]} /\ storeBar' = First(size)
      BY <1>2, <1>3, <3>1 DEF StoreIs
    <3> QED
      BY <1>4, <1>5, <2>1, <3>1, <3>2
      DEF Service!Next, Service!Delete, Service!Requests, Requests, Answers
  <2>6. CASE /\ ~(Scan(r) \/ Store(r) \/ PutLast(r) \/ Clear(r))
    <3>1. pc'[r] \notin Answers /\ storeBar' = storeBar
      <4>1. CASE ReadItems(r) \/ ReadSize(r) \/ AddWithResize(r) \/ Look(r) \/ AsSpan(r)
                 \/ IndexOf(r) \/ Shrink(r)
        <5>1. /\ UNCHANGED <<heap, cur, size>>
              /\ pc[r] \notin {"store", "put", "shift", "clear"}
              /\ pc'[r] \notin {"store", "put", "shift", "clear"}
          BY <1>6, <4>1, SerialRead DEF ReadItems, ReadSize, AddWithResize, Look, AsSpan,
                                        IndexOf, Shrink
        <5>2. storeBar' = storeBar
          BY <1>2, <1>3, <5>1 DEF StoreIs, First, _items
        <5>3. pc'[r] # "missing"
          BY <1>6, <4>1 DEF ReadItems, ReadSize, AddWithResize, Look, AsSpan, IndexOf,
                            Shrink, Goto, TypeOK
        <5>4. pc'[r] # "ok"
          <6>1. CASE IndexOf(r)
            <7>1. /\ size <= Len(_items) /\ target[r] \in {_items[i] : i \in 1..size}
                  /\ \A i \in 1..size : _items[i] # Null
              BY <2>2, <6>1, IdsAssumption DEF IndexOf, Seeking, Lists, Created
            <7>2. target[r] \in Content /\ ~(size > Len(_items))
              BY <2>2, <7>1 DEF Content
            <7> QED
              BY <1>6, <6>1, <7>2 DEF IndexOf, Goto, TypeOK
          <6>2. CASE ~IndexOf(r)
            BY <1>6, <4>1, <6>2 DEF ReadItems, ReadSize, AddWithResize, Look, AsSpan,
                                    Shrink, Goto, TypeOK
          <6> QED
            BY <6>1, <6>2
        <5>5. pc'[r] # "failed"
          BY DEF Aligned, SerialInv
        <5> QED
          BY <5>2, <5>3, <5>4, <5>5 DEF Answers
      <4>2. CASE Grow(r)
        <5>1. pc'[r] = "install" /\ _items' = _items /\ size' = size /\ pc[r] = "grow"
          BY <1>6, <4>2, SerialGrow DEF Grow
        <5> QED
          BY <1>2, <1>3, <5>1 DEF StoreIs, First, Answers
      <4>3. CASE Install(r)
        <5>1. pc'[r] = "resize" /\ First(size)' = First(size) /\ pc[r] = "install"
          BY <1>6, <4>3, SerialInstall DEF Install
        <5> QED
          BY <1>2, <1>3, <5>1 DEF StoreIs, Answers
      <4>4. CASE Reserve(r) \/ Resize(r)
        <5>1. /\ pc'[r] \in {"store", "put"} /\ First(num[r])' = First(size)
              /\ pc[r] \in {"reserve", "resize"}
          BY <1>6, <4>4, SerialReserve DEF Reserve, Resize
        <5> QED
          BY <1>2, <1>3, <5>1 DEF StoreIs, Answers
      <4>5. CASE Decrease(r)
        <5>1. /\ pc'[r] = "shift" /\ First(size + 1)' = First(size) /\ pc[r] = "decrease"
          BY <1>6, <4>5, SerialDecrease DEF Decrease
        <5> QED
          BY <1>2, <1>3, <5>1 DEF StoreIs, Answers
      <4>6. CASE Shift(r)
        <5>1. /\ pc[r] = "shift" /\ pc'[r] = "clear"
              /\ First(size)' \cup {target[r]} = First(size + 1)
          BY <1>6, <4>6, SerialShift
        <5> QED
          BY <1>2, <1>3, <2>1, <5>1 DEF StoreIs, Answers
      <4>7. ~Arrive(r)
        BY <1>8 DEF Arrive
      <4> QED
        BY <2>6, <4>1, <4>2, <4>3, <4>4, <4>5, <4>6, <4>7 DEF Step
    <3> QED
      BY <1>5, <2>1, <3>1 DEF Service!vars
  <2> QED
    BY <2>3, <2>4, <2>5, <2>6
<1>9. pc[r] = "idle" => Arrive(r)
  BY DEF Step, ReadItems, ReadSize, Reserve, Store, AddWithResize, Grow, Install,
         Resize, PutLast, Look, AsSpan, Scan, IndexOf, Shrink, Decrease, Shift, Clear
<1> QED
  BY <1>7, <1>8, <1>9

(* Requests that do not overlap see a service: one step of each creates,   *)
(* deletes or finds its entity, or answers that it is missing, and all     *)
(* the others leave the service as it is.                                  *)
THEOREM Refinement ==
    ASSUME Overlap = 1 PROVE Spec => ImplementsStore
<1>1. Init => Aligned
  BY SerialInit
<1>2. Aligned /\ [Next]_vars => Aligned'
  BY SerialStep
<1>3. Init => Service!Init
  <2> SUFFICES ASSUME Init PROVE Service!Init
    OBVIOUS
  <2>1. Content = {}
    BY DEF Init, Content
  <2>2. \A r \in Requests : pc[r] # "shift" /\ pc[r] # "clear"
    BY DEF Init
  <2>3. storeBar = {}
    BY <2>1, <2>2 DEF storeBar, Requests
  <2> QED
    BY <2>3 DEF Init, Service!Init, answerBar, Answers, Service!Requests, Requests
<1>4. Aligned /\ Aligned' /\ [Next]_vars => [Service!Next]_(Service!vars)
  <2> SUFFICES ASSUME Aligned, Aligned', [Next]_vars
               PROVE  [Service!Next]_(Service!vars)
    OBVIOUS
  <2>1. CASE Next
    BY <2>1, StoreStep DEF Next
  <2>2. CASE UNCHANGED vars
    BY <2>2 DEF vars, local, Service!vars, storeBar, answerBar, Content, _items
  <2> QED
    BY <2>1, <2>2
<1> QED
  BY <1>1, <1>2, <1>3, <1>4, PTL DEF Spec, ImplementsStore, Service!Spec
=============================================================================
