-------------------------- MODULE TinkerServerProofs --------------------------
(* The Tinker server for any number of clients, models, slots, requests and  *)
(* entries of its cache: the slots of the sampling clients; then the trie of *)
(* the prefix cache, its lookups and inserts, the text of the prompts it     *)
(* rewrites, and that it implements the map.                                 *)
EXTENDS TinkerServer, FiniteSetTheorems, FunctionTheorems, SequenceTheorems, TLAPS

Pcs == {"idle", "loading", "rendering", "entering", "slot", "sampling",
        "leaving", "failing", "parsing"}

Occupied == {m \in Models : yields[m] > 0}

TypeI ==
  /\ pc \in [Clients -> Pcs]
  /\ model \in [Clients -> Models]
  /\ lock \in [Models -> Seq(Clients)]
  /\ yields \in [Models -> Nat]
  /\ slots \in Nat

\* Who waits for a slot has the lock of its model, and nobody samples on it.
LockI ==
  \A r \in Clients : pc[r] = "slot" => Holds(r) /\ NeedsSlot(model[r])

SlotsInv == TypeI /\ LockI /\ SlotsExact

LEMMA InUseFinite ==
  ASSUME NEW m
  PROVE  IsFiniteSet(InUse(m)) /\ Cardinality(InUse(m)) \in Nat
  BY FS_Subset, FS_CardinalityType, ServerAssumption DEF InUse

LEMMA OccupiedFinite == IsFiniteSet(Occupied) /\ Cardinality(Occupied) \in Nat
  BY FS_Subset, FS_CardinalityType, ServerAssumption DEF Occupied

LEMMA SlotsInit == Init => SlotsInv
<1> SUFFICES ASSUME Init PROVE SlotsInv
  OBVIOUS
<1> USE DEF Init
<1>0. (CHOOSE m \in Models : TRUE) \in Models
  BY ServerAssumption
<1>1. TypeI
  BY <1>0, ServerAssumption DEF TypeI, Pcs
<1>2. LockI
  BY DEF LockI
<1>3. SlotsExact
  <2>1. \A m \in Models : InUse(m) = {}
    BY DEF InUse, Sampling
  <2>2. {m \in Models : yields[m] > 0} = {}
    OBVIOUS
  <2>3. Cardinality({m \in Models : yields[m] > 0}) = 0
        /\ \A m \in Models : Cardinality(InUse(m)) = 0
    BY <2>1, <2>2, FS_EmptySet
  <2> QED
    BY <2>3, ServerAssumption DEF SlotsExact
<1> QED
  BY <1>1, <1>2, <1>3 DEF SlotsInv

\* What the lock's holder and those waiting for slots see stays the same when
\* others join the lock's queue or go on elsewhere.
LEMMA LockKept ==
  ASSUME SlotsInv, UNCHANGED yields,
         lock' \in [Models -> Seq(Clients)],
         \A m \in Models : lock[m] # <<>> => lock'[m] # <<>> /\ lock'[m][1] = lock[m][1],
         \A r \in Clients : pc'[r] = "slot" => pc[r] = "slot" /\ model'[r] = model[r]
  PROVE  LockI'
<1> SUFFICES ASSUME NEW r \in Clients, pc'[r] = "slot"
             PROVE  /\ lock'[model'[r]] # <<>> /\ lock'[model'[r]][1] = r
                    /\ yields'[model'[r]] = 0
  BY DEF LockI, Holds, NeedsSlot
<1>1. PICK m : m = model[r]
  OBVIOUS
<1>2. pc[r] = "slot" /\ model'[r] = m /\ m \in Models
  BY <1>1 DEF SlotsInv, TypeI
<1>3. lock[m] # <<>> /\ lock[m][1] = r /\ yields[m] = 0
  BY <1>1, <1>2 DEF SlotsInv, LockI, Holds, NeedsSlot
<1>4. lock'[m] # <<>> /\ lock'[m][1] = lock[m][1]
  BY ONLY <1>2, <1>3, \A x \in Models : lock[x] # <<>> => lock'[x] # <<>> /\ lock'[x][1] = lock[x][1]
<1> QED BY <1>2, <1>3, <1>4

LEMMA JoinsLock ==
  ASSUME SlotsInv, NEW m \in Models, NEW r \in Clients,
         lock' = [lock EXCEPT ![m] = Append(@, r)]
  PROVE  /\ lock' \in [Models -> Seq(Clients)]
         /\ \A n \in Models : lock[n] # <<>> => lock'[n] # <<>> /\ lock'[n][1] = lock[n][1]
<1>1. lock[m] \in Seq(Clients)
  BY DEF SlotsInv, TypeI
<1>2. Append(lock[m], r) \in Seq(Clients) /\ Append(lock[m], r) # <<>>
      /\ (lock[m] # <<>> => Append(lock[m], r)[1] = lock[m][1])
  <2> DEFINE L == lock[m]
  <2>1. L \in Seq(Clients)
    BY <1>1
  <2> HIDE DEF L
  <2>2. Append(L, r) \in Seq(Clients) /\ Len(Append(L, r)) = Len(L) + 1
    BY <2>1
  <2>3. L # <<>> => Len(L) >= 1 /\ Append(L, r)[1] = L[1]
    BY <2>1
  <2>4. Append(L, r) # <<>>
    <3>1. Len(Append(L, r)) # 0
      BY <2>1, <2>2
    <3>2. Len(<<>>) = 0
      OBVIOUS
    <3> QED
      BY <3>1, <3>2
  <2> QED
    BY <2>2, <2>3, <2>4 DEF L
<1> QED
  BY <1>1, <1>2 DEF SlotsInv, TypeI

\* Nobody comes to the sampling client, and nobody leaves it.
LEMMA Elsewhere ==
  ASSUME SlotsInv, UNCHANGED <<yields, slots>>,
         \A r \in Clients :
            /\ pc'[r] \in Sampling <=> pc[r] \in Sampling
            /\ pc[r] \in Sampling => model'[r] = model[r]
  PROVE  SlotsExact'
<1>1. \A m \in Models : InUse(m)' = InUse(m)
  BY DEF InUse
<1>2. \A m \in Models : Cardinality(InUse(m))' = Cardinality(InUse(m))
  BY <1>1
<1>3. {m \in Models : yields[m] > 0}' = {m \in Models : yields[m] > 0}
  OBVIOUS
<1> QED
  BY <1>2, <1>3 DEF SlotsInv, SlotsExact

Aside(r) ==
  \/ \E m \in Models : Arrive(r, m)
  \/ RenderFails(r) \/ (\E t \in Prompts[r] : Render(r, t))
  \/ (\E tokens \in Replies[r] : Sampled(r, tokens)) \/ SampleFails(r)
  \/ Answer(r) \/ AnswerFails(r)

LEMMA AsideKeeps ==
  ASSUME SlotsInv, NEW r \in Clients, Aside(r)
  PROVE  SlotsInv'
<1> USE DEF SlotsInv
<1>1. ASSUME NEW m \in Models, Arrive(r, m) PROVE SlotsInv'
  <2>0. UNCHANGED gate /\ pc[r] = "idle" /\ \E p \in {"rendering", "loading"} :
          pc' = [pc EXCEPT ![r] = p] /\ model' = [model EXCEPT ![r] = m]
    BY <1>1 DEF Arrive
  <2>1. TypeI'
    BY <2>0 DEF TypeI, gate, Pcs
  <2>2. LockI'
    BY <2>0, LockKept DEF gate, TypeI
  <2>3. SlotsExact'
    BY <2>0, Elsewhere DEF gate, TypeI, Sampling
  <2> QED BY <2>1, <2>2, <2>3
<1>2. CASE RenderFails(r) \/ Answer(r) \/ AnswerFails(r)
  <2>0. /\ UNCHANGED <<gate, model>> /\ pc[r] \in {"rendering", "parsing"}
        /\ pc' = [pc EXCEPT ![r] = "idle"]
    BY <1>2 DEF RenderFails, Answer, AnswerFails, Ends
  <2>1. TypeI'
    BY <2>0 DEF TypeI, gate, Pcs
  <2>2. LockI'
    BY <2>0, LockKept DEF gate, TypeI
  <2>3. SlotsExact'
    BY <2>0, Elsewhere DEF gate, TypeI, Sampling
  <2> QED BY <2>1, <2>2, <2>3
<1>3. ASSUME (\E t \in Prompts[r] : Render(r, t))
             \/ (\E tokens \in Replies[r] : Sampled(r, tokens)) \/ SampleFails(r)
      PROVE  SlotsInv'
  <2>0. /\ UNCHANGED <<yields, slots, model>>
        /\ \/ pc[r] = "rendering" /\ pc' = [pc EXCEPT ![r] = "entering"]
           \/ pc[r] = "sampling" /\ pc' = [pc EXCEPT ![r] = "leaving"]
           \/ pc[r] = "sampling" /\ pc' = [pc EXCEPT ![r] = "failing"]
        /\ lock' = [lock EXCEPT ![model[r]] = Append(@, r)]
    BY <1>3 DEF Render, Sampled, SampleFails
  <2>j. /\ lock' \in [Models -> Seq(Clients)]
        /\ \A n \in Models : lock[n] # <<>> => lock'[n] # <<>> /\ lock'[n][1] = lock[n][1]
    BY <2>0, JoinsLock DEF TypeI
  <2>1. TypeI'
    BY <2>0, <2>j DEF TypeI, Pcs
  <2>2. LockI'
    BY <2>0, <2>j, LockKept DEF TypeI
  <2>3. SlotsExact'
    BY <2>0, Elsewhere DEF TypeI, Sampling
  <2> QED BY <2>1, <2>2, <2>3
<1> QED
  BY <1>1, <1>2, <1>3 DEF Aside

LEMMA LoadKeeps ==
  ASSUME SlotsInv, NEW m \in Models, Loaded(m)
  PROVE  SlotsInv'
<1> USE DEF SlotsInv
<1>0. /\ UNCHANGED <<gate, model>>
      /\ \E p \in {"rendering", "idle"} :
           pc' = [r \in Clients |-> IF pc[r] = "loading" /\ model[r] = m THEN p ELSE pc[r]]
  BY DEF Loaded, LoadEnds
<1>1. TypeI'
  BY <1>0 DEF TypeI, gate, Pcs
<1>2. LockI'
  BY <1>0, LockKept DEF gate, TypeI
<1>3. SlotsExact'
  BY <1>0, Elsewhere DEF gate, TypeI, Sampling
<1> QED BY <1>1, <1>2, <1>3

\* The lock's holder gives it up: nobody was waiting for a slot with it.
LEMMA UnlockKeeps ==
  ASSUME SlotsInv, NEW r \in Clients, Holds(r), lock' = Unlock(r),
         \A m \in Models \ {model[r]} : yields'[m] = yields[m],
         \A q \in Clients \ {r} : pc'[q] = pc[q],
         UNCHANGED model, pc'[r] # "slot"
  PROVE  LockI' /\ lock' \in [Models -> Seq(Clients)]
<1>1. lock' \in [Models -> Seq(Clients)]
  <2>1. lock[model[r]] \in Seq(Clients) /\ lock[model[r]] # <<>>
    BY DEF SlotsInv, TypeI, Holds
  <2>2. SubSeq(lock[model[r]], 2, Len(lock[model[r]])) \in Seq(Clients)
    BY <2>1
  <2> QED
    BY <2>2 DEF SlotsInv, TypeI, Unlock
<1>2. ASSUME NEW q \in Clients, pc'[q] = "slot" PROVE Holds(q)' /\ NeedsSlot(model[q])'
  <2>1. q # r /\ pc[q] = "slot" /\ Holds(q) /\ NeedsSlot(model[q])
    BY <1>2 DEF SlotsInv, LockI
  <2>2. model[q] # model[r]
    BY <2>1 DEF Holds
  <2>3. model[q] \in Models /\ lock'[model[q]] = lock[model[q]]
    BY <2>2 DEF SlotsInv, TypeI, Unlock
  <2> QED
    BY <2>1, <2>2, <2>3 DEF Holds, NeedsSlot
<1> QED
  BY <1>1, <1>2 DEF LockI

\* A request more on a model: it is in its sampling client, on a slot of its
\* own when it is the first.
LEMMA ComesIn ==
  ASSUME SlotsInv, NEW r \in Clients, pc[r] \notin Sampling,
         pc' = [pc EXCEPT ![r] = "sampling"], UNCHANGED model,
         yields' = [yields EXCEPT ![model[r]] = @ + 1],
         slots' = IF yields[model[r]] = 0 THEN slots - 1 ELSE slots
  PROVE  SlotsExact'
<1> USE DEF SlotsInv
<1>0. model[r] \in Models /\ yields \in [Models -> Nat] /\ slots \in Nat
  BY DEF TypeI
<1>1. \A m \in Models : Cardinality(InUse(m))' = yields'[m]
  <2> TAKE m \in Models
  <2>0. yields[m] = Cardinality(InUse(m)) /\ IsFiniteSet(InUse(m)) /\ Cardinality(InUse(m)) \in Nat
    BY InUseFinite DEF SlotsExact
  <2>1. CASE m = model[r]
    <3>1. r \notin InUse(m) /\ InUse(m)' = InUse(m) \cup {r}
      BY <2>1 DEF InUse, Sampling, TypeI
    <3>2. Cardinality(InUse(m) \cup {r}) = Cardinality(InUse(m)) + 1
      BY <3>1, <2>0, FS_AddElement
    <3>3. Cardinality(InUse(m))' = Cardinality(InUse(m) \cup {r})
      BY <3>1
    <3> QED
      BY <1>0, <2>0, <2>1, <3>2, <3>3
  <2>2. CASE m # model[r]
    <3>1. InUse(m)' = InUse(m)
      BY <2>2 DEF InUse, TypeI
    <3>2. Cardinality(InUse(m))' = Cardinality(InUse(m))
      BY <3>1
    <3> QED
      BY <1>0, <2>0, <2>2, <3>2
  <2> QED BY <2>1, <2>2
<1>2. slots' + Cardinality(Occupied)' = Limit
  <2>0. slots + Cardinality(Occupied) = Limit
    BY DEF SlotsExact, Occupied
  <2>1. Occupied' = Occupied \cup {model[r]}
    BY <1>0 DEF Occupied
  <2>2. Cardinality(Occupied \cup {model[r]})
          = IF model[r] \in Occupied THEN Cardinality(Occupied) ELSE Cardinality(Occupied) + 1
    BY OccupiedFinite, FS_AddElement
  <2>3. model[r] \in Occupied <=> yields[model[r]] # 0
    BY <1>0 DEF Occupied
  <2>4. Cardinality(Occupied)' = Cardinality(Occupied \cup {model[r]})
    BY <2>1
  <2> QED
    BY <1>0, <2>0, <2>2, <2>3, <2>4, OccupiedFinite, ServerAssumption
<1> QED
  BY <1>1, <1>2 DEF SlotsExact, Occupied

LEMMA EnterKeeps ==
  ASSUME SlotsInv, NEW r \in Clients, Enter(r) \/ SlotGranted(r)
  PROVE  SlotsInv'
<1> USE DEF SlotsInv
<1>0. model[r] \in Models /\ yields \in [Models -> Nat] /\ slots \in Nat
  BY DEF TypeI
<1>1. CASE Enter(r) /\ NeedsSlot(model[r])
  <2>0. /\ UNCHANGED <<lock, yields, slots, model>> /\ pc[r] = "entering" /\ Holds(r)
        /\ pc' = [pc EXCEPT ![r] = "slot"]
    BY <1>1 DEF Enter
  <2>1. TypeI'
    BY <2>0 DEF TypeI, Pcs
  <2>2. LockI'
    BY <1>1, <2>0 DEF LockI, Holds, NeedsSlot, TypeI
  <2>3. SlotsExact'
    BY <2>0, Elsewhere DEF TypeI, Sampling
  <2> QED BY <2>1, <2>2, <2>3
<1>2. CASE (Enter(r) /\ ~NeedsSlot(model[r])) \/ SlotGranted(r)
  <2>0. /\ pc[r] \in {"entering", "slot"} /\ Holds(r)
        /\ pc' = [pc EXCEPT ![r] = "sampling"]
        /\ lock' = Unlock(r) /\ UNCHANGED model
        /\ yields' = [yields EXCEPT ![model[r]] = @ + 1]
        /\ slots' = IF yields[model[r]] = 0 THEN slots - 1 ELSE slots
        /\ slots' \in Nat
    BY <1>0, <1>2 DEF Enter, SlotGranted, NeedsSlot, LockI
  <2>1. LockI' /\ lock' \in [Models -> Seq(Clients)]
    BY <1>0, <2>0, UnlockKeeps DEF TypeI
  <2>2. TypeI'
    <3>1. pc' \in [Clients -> Pcs] /\ model' \in [Clients -> Models]
      BY <2>0 DEF TypeI, Pcs
    <3>2. yields' \in [Models -> Nat]
      BY <1>0, <2>0
    <3> QED
      BY <2>0, <2>1, <3>1, <3>2 DEF TypeI
  <2>3. SlotsExact'
    BY <2>0, ComesIn DEF Sampling
  <2> QED BY <2>1, <2>2, <2>3
<1> QED
  BY <1>1, <1>2 DEF Enter

LEMMA LeaveKeeps ==
  ASSUME SlotsInv, NEW r \in Clients, Leave(r)
  PROVE  SlotsInv'
<1> USE DEF SlotsInv
<1>0. model[r] \in Models /\ yields \in [Models -> Nat] /\ slots \in Nat
  BY DEF TypeI
<1>1. /\ pc[r] \in Sampling /\ Holds(r) /\ lock' = Unlock(r) /\ UNCHANGED model
      /\ yields' = [yields EXCEPT ![model[r]] = @ - 1]
      /\ slots' = IF yields[model[r]] = 1 THEN slots + 1 ELSE slots
      /\ \E p \in {"idle", "parsing"} : pc' = [pc EXCEPT ![r] = p]
  BY DEF Leave, IsLastOf, Ends, Sampling
<1>2. LockI' /\ lock' \in [Models -> Seq(Clients)]
  BY <1>0, <1>1, UnlockKeeps DEF TypeI
<1>3. yields[model[r]] >= 1
  <2>1. r \in InUse(model[r])
    BY <1>1 DEF InUse
  <2>2. Cardinality(InUse(model[r])) # 0
    BY <2>1, InUseFinite, FS_EmptySet
  <2> QED
    BY <1>0, <2>2 DEF SlotsExact
<1>4. TypeI'
  <2>1. pc' \in [Clients -> Pcs] /\ model' \in [Clients -> Models]
    BY <1>1 DEF TypeI, Pcs
  <2>2. yields' \in [Models -> Nat] /\ slots' \in Nat
    BY <1>0, <1>1, <1>3
  <2> QED
    BY <1>2, <2>1, <2>2 DEF TypeI
<1>5. \A m \in Models : Cardinality(InUse(m))' = yields'[m]
  <2> TAKE m \in Models
  <2>0. yields[m] = Cardinality(InUse(m)) /\ IsFiniteSet(InUse(m)) /\ Cardinality(InUse(m)) \in Nat
    BY InUseFinite DEF SlotsExact
  <2>1. CASE m = model[r]
    <3>1. r \in InUse(m) /\ InUse(m)' = InUse(m) \ {r}
      BY <1>1, <2>1 DEF InUse, Sampling, TypeI
    <3>2. Cardinality(InUse(m) \ {r}) = Cardinality(InUse(m)) - 1
      BY <3>1, <2>0, FS_RemoveElement
    <3>3. Cardinality(InUse(m))' = Cardinality(InUse(m) \ {r})
      BY <3>1
    <3> QED
      BY <1>0, <1>1, <2>0, <2>1, <3>2, <3>3
  <2>2. CASE m # model[r]
    <3>1. InUse(m)' = InUse(m)
      BY <1>1, <2>2 DEF InUse, TypeI
    <3>2. Cardinality(InUse(m))' = Cardinality(InUse(m))
      BY <3>1
    <3> QED
      BY <1>0, <1>1, <2>0, <2>2, <3>2
  <2> QED BY <2>1, <2>2
<1>6. slots' + Cardinality(Occupied)' = Limit
  <2>0. slots + Cardinality(Occupied) = Limit
    BY DEF SlotsExact, Occupied
  <2>1. CASE yields[model[r]] = 1
    <3>1. model[r] \in Occupied /\ Occupied' = Occupied \ {model[r]}
      BY <1>0, <1>1, <2>1 DEF Occupied
    <3>2. Cardinality(Occupied \ {model[r]}) = Cardinality(Occupied) - 1
      BY <3>1, OccupiedFinite, FS_RemoveElement
    <3>3. Cardinality(Occupied)' = Cardinality(Occupied \ {model[r]})
      BY <3>1
    <3> QED
      BY <1>0, <1>1, <2>0, <2>1, <3>2, <3>3, OccupiedFinite, ServerAssumption
  <2>2. CASE yields[model[r]] # 1
    <3>1. Occupied' = Occupied
      BY <1>0, <1>1, <1>3, <2>2 DEF Occupied
    <3>2. Cardinality(Occupied)' = Cardinality(Occupied)
      BY <3>1
    <3> QED
      BY <1>1, <2>0, <2>2, <3>2
  <2> QED BY <2>1, <2>2
<1> QED
  BY <1>2, <1>4, <1>5, <1>6 DEF SlotsExact, Occupied

LEMMA SlotsNext ==
  ASSUME SlotsInv, [Next]_vars
  PROVE  SlotsInv'
<1>1. CASE UNCHANGED vars
  BY <1>1 DEF SlotsInv, TypeI, LockI, SlotsExact, InUse, Holds, NeedsSlot, vars,
     request, gate
<1>2. CASE Next
  BY <1>2, AsideKeeps, LoadKeeps, EnterKeeps, LeaveKeeps
     DEF Next, Works, Proceed, Aside
<1> QED
  BY <1>1, <1>2

\* A model occupies exactly one slot as long as a request samples from it, and
\* none when no request does, so that the slots in use and the slots left are
\* always the limit: whatever fails, and whoever waits for a lock or a slot.
THEOREM SlotsAreExact == Spec => []SlotsExact
<1>1. Init => SlotsInv
  BY SlotsInit
<1>2. SlotsInv /\ [Next]_vars => SlotsInv'
  BY SlotsNext
<1>3. SlotsInv => SlotsExact
  BY DEF SlotsInv
<1> QED
  BY <1>1, <1>2, <1>3, PTL DEF Spec

-----------------------------------------------------------------------------
(* Prefixes of sequences of tokens.                                          *)

Text == Seq(Nat)

\* q begins with p.
Pre(p, q) == Len(p) <= Len(q) /\ \A j \in 1..Len(p) : q[j] = p[j]

LEMMA PreSelf == ASSUME NEW p \in Text PROVE Pre(p, p)
BY DEF Pre, Text

LEMMA PreTrans ==
  ASSUME NEW p \in Text, NEW q \in Text, NEW r \in Text, Pre(p, q), Pre(q, r)
  PROVE  Pre(p, r)
<1>1. Len(p) \in Nat /\ Len(q) \in Nat /\ Len(r) \in Nat
  BY DEF Text
<1> QED BY <1>1 DEF Pre

LEMMA PreCut ==
  ASSUME NEW p \in Text, NEW q \in Text, NEW r \in Text, Pre(p, r), Pre(q, r),
         Len(p) <= Len(q)
  PROVE  Pre(p, q)
<1>1. Len(p) \in Nat /\ Len(q) \in Nat /\ Len(r) \in Nat
  BY DEF Text
<1> QED BY <1>1 DEF Pre

LEMMA PreSame ==
  ASSUME NEW p \in Text, NEW q \in Text, Pre(p, q), Len(p) = Len(q)
  PROVE  p = q
BY SeqEqual DEF Pre, Text

\* A sequence and what follows it.
LEMMA JoinIs ==
  ASSUME NEW p \in Text, NEW l \in Text
  PROVE  /\ p \o l \in Text /\ Len(p \o l) = Len(p) + Len(l) /\ Pre(p, p \o l)
         /\ Len(p) \in Nat /\ Len(l) \in Nat
         /\ \A j \in 1..Len(l) : (p \o l)[Len(p) + j] = l[j]
<1>1. /\ p \o l \in Text /\ Len(p \o l) = Len(p) + Len(l)
      /\ Len(p) \in Nat /\ Len(l) \in Nat
  BY ConcatProperties, LenProperties DEF Text
<1>2. \A i \in 1..(Len(p) + Len(l)) : (p \o l)[i] = IF i <= Len(p) THEN p[i] ELSE l[i - Len(p)]
  BY ConcatProperties DEF Text
<1>3. Pre(p, p \o l)
  BY <1>1, <1>2 DEF Pre
<1>4. ASSUME NEW j \in 1..Len(l) PROVE (p \o l)[Len(p) + j] = l[j]
  <2> DEFINE i == Len(p) + j
  <2>1. i \in 1..(Len(p) + Len(l)) /\ ~ (i <= Len(p)) /\ i - Len(p) = j
    BY <1>1
  <2>2. (p \o l)[i] = l[i - Len(p)]
    BY <1>2, <2>1
  <2> QED BY <2>1, <2>2
<1> QED BY <1>1, <1>3, <1>4

\* A part of a sequence.
LEMMA PartIs ==
  ASSUME NEW t \in Text, NEW i \in Nat, NEW k \in Nat, i <= k, k <= Len(t)
  PROVE  /\ SubSeq(t, i + 1, k) \in Text /\ Len(SubSeq(t, i + 1, k)) = k - i
         /\ \A j \in 1..(k - i) : SubSeq(t, i + 1, k)[j] = t[i + j]
<1>1. Len(t) \in Nat
  BY DEF Text
<1>2. \A j \in (i + 1)..k : t[j] \in Nat
  BY <1>1, ElementOfSeq DEF Text
<1>3. /\ SubSeq(t, i + 1, k) \in Text
      /\ Len(SubSeq(t, i + 1, k)) = IF i + 1 <= k THEN k - (i + 1) + 1 ELSE 0
      /\ \A j \in 1..(k - (i + 1) + 1) : SubSeq(t, i + 1, k)[j] = t[i + 1 + j - 1]
  BY <1>2, SubSeqProperties DEF Text
<1>4. ASSUME NEW j \in 1..(k - i) PROVE SubSeq(t, i + 1, k)[j] = t[i + j]
  <2>1. j \in 1..(k - (i + 1) + 1) /\ i + 1 + j - 1 = i + j
    OBVIOUS
  <2> QED BY <1>3, <2>1
<1> QED BY <1>3, <1>4

-----------------------------------------------------------------------------
(* The trie.                                                                 *)

\* A node is a record, and its children are under their tokens.
NodeLike(x) ==
  /\ x = [entry |-> x.entry, children |-> x.children, parent |-> x.parent, token |-> x.token]
  /\ x.children = [k \in DOMAIN x.children |-> x.children[k]]

\* An edge leads to a node that knows it, along the label that begins with
\* its token.
EdgeIs(N, P, n, tok, e) ==
  /\ e = [label |-> e.label, child |-> e.child]
  /\ e.child \in DOMAIN N \ {Root}
  /\ e.label \in Text /\ Len(e.label) > 0 /\ e.label[1] = tok
  /\ P[e.child] = P[n] \o e.label
  /\ N[e.child].parent = n /\ N[e.child].token = tok

ParentIs(N, m) ==
  /\ N[m].parent \in DOMAIN N
  /\ N[m].token \in DOMAIN N[N[m].parent].children
  /\ N[N[m].parent].children[N[m].token].child = m

\* The nodes N are a tree and P are the tokens on the way to each.
IsTrie(N, P) ==
  /\ IsFiniteSet(DOMAIN N) /\ DOMAIN N \subseteq Nat \ {NoNode} /\ Root \in DOMAIN N
  /\ N = [n \in DOMAIN N |-> N[n]]
  /\ \A n \in DOMAIN N : NodeLike(N[n])
  /\ P \in [DOMAIN N -> Text] /\ P[Root] = <<>>
  /\ \A n \in DOMAIN N : \A tok \in DOMAIN N[n].children :
       EdgeIs(N, P, n, tok, N[n].children[tok])
  /\ \A m \in DOMAIN N \ {Root} : ParentIs(N, m)

\* What an edge adds to the way.
Adds(N, P, n, tok, e) ==
  /\ e.child \in DOMAIN N \ {Root} /\ N[e.child].parent = n /\ N[e.child].token = tok
  /\ e.label \in Text /\ Len(e.label) \in Nat \ {0} /\ e.label[1] = tok
  /\ Len(P[n]) \in Nat /\ Len(P[e.child]) = Len(P[n]) + Len(e.label)
  /\ Pre(P[n], P[e.child])
  /\ \A j \in 1..Len(e.label) : P[e.child][Len(P[n]) + j] = e.label[j]
  /\ P[e.child][Len(P[n]) + 1] = tok

LEMMA ChildAt ==
  ASSUME NEW N, NEW P, IsTrie(N, P), NEW n \in DOMAIN N, NEW tok \in DOMAIN N[n].children
  PROVE  Adds(N, P, n, tok, N[n].children[tok])
<1>e. PICK e : e = N[n].children[tok]
  OBVIOUS
<1>0. P[n] \in Text
  BY DEF IsTrie
<1>1. EdgeIs(N, P, n, tok, e)
  BY <1>e DEF IsTrie
<1>2. e.label \in Text /\ Len(e.label) > 0 /\ P[e.child] = P[n] \o e.label
  BY <1>1 DEF EdgeIs
<1>3. PICK l, p, q : l = e.label /\ p = P[n] /\ q = P[e.child]
  OBVIOUS
<1>4. /\ Len(q) = Len(p) + Len(l) /\ Pre(p, q)
      /\ Len(p) \in Nat /\ Len(l) \in Nat
      /\ \A j \in 1..Len(l) : q[Len(p) + j] = l[j]
  <2>1. p \in Text /\ l \in Text /\ q = p \o l
    BY <1>0, <1>2, <1>3
  <2> QED BY ONLY <2>1, JoinIs
<1>5. Len(l) \in Nat \ {0} /\ 1 \in 1..Len(l)
  BY <1>2, <1>3, <1>4
<1>6. /\ e.child \in DOMAIN N \ {Root} /\ N[e.child].parent = n /\ N[e.child].token = tok
      /\ e.label[1] = tok
  BY <1>1 DEF EdgeIs
<1>7. q[Len(p) + 1] = l[1]
  BY ONLY <1>4, <1>5
<1>8. /\ Len(P[e.child]) = Len(P[n]) + Len(e.label) /\ Pre(P[n], P[e.child])
      /\ \A j \in 1..Len(e.label) : P[e.child][Len(P[n]) + j] = e.label[j]
      /\ P[e.child][Len(P[n]) + 1] = e.label[1]
  BY ONLY <1>3, <1>4, <1>7
<1>9. Adds(N, P, n, tok, e)
  BY <1>2, <1>3, <1>4, <1>5, <1>6, <1>8 DEF Adds
<1> QED BY <1>e, <1>9

LEMMA ParentAt ==
  ASSUME NEW N, NEW P, IsTrie(N, P), NEW m \in DOMAIN N, m # Root
  PROVE  LET u == N[m].parent
         IN /\ u \in DOMAIN N /\ Pre(P[u], P[m]) /\ Len(P[u]) < Len(P[m])
            /\ P[m][Len(P[u]) + 1] \in DOMAIN N[u].children
            /\ N[u].children[P[m][Len(P[u]) + 1]].child = m
<1>1. ParentIs(N, m)
  BY DEF IsTrie
<1>2. PICK u, tok : u = N[m].parent /\ tok = N[m].token
  OBVIOUS
<1>3. u \in DOMAIN N /\ tok \in DOMAIN N[u].children /\ N[u].children[tok].child = m
  BY <1>1, <1>2 DEF ParentIs
<1>4. PICK e : e = N[u].children[tok]
  OBVIOUS
<1>5. /\ Pre(P[u], P[e.child]) /\ P[e.child][Len(P[u]) + 1] = tok
      /\ Len(e.label) \in Nat \ {0} /\ Len(P[e.child]) = Len(P[u]) + Len(e.label)
      /\ Len(P[u]) \in Nat
  <2>1. Adds(N, P, u, tok, e)
    BY <1>3, <1>4, ChildAt
  <2> QED BY <2>1 DEF Adds
<1>6. e.child = m
  BY <1>3, <1>4
<1>7. Len(P[u]) < Len(P[m])
  <2>1. PICK x, y, z : x = Len(P[u]) /\ y = Len(e.label) /\ z = Len(P[m])
    OBVIOUS
  <2>2. x \in Nat /\ y \in Nat \ {0} /\ z = x + y
    BY ONLY <1>5, <1>6, <2>1
  <2>3. x < z
    BY ONLY <2>2
  <2> QED BY ONLY <2>1, <2>3
<1>8. /\ Pre(P[u], P[m]) /\ P[m][Len(P[u]) + 1] = tok
  BY ONLY <1>5, <1>6
<1> QED BY ONLY <1>2, <1>3, <1>7, <1>8

-----------------------------------------------------------------------------
(* The way to a node goes through all nodes whose ways it begins with.       *)

Less == OpToRel(<, Nat)

LEMMA NatOrdered == IsWellFoundedOn(Less, Nat)
BY NatLessThanWellFounded DEF Less

\* A set of numbers has a least one.
LEMMA LeastOf ==
  ASSUME NEW T \in SUBSET Nat, T # {}
  PROVE  \E n \in T : \A m \in T : n <= m
<1>1. PICK n \in T : \A m \in T : ~ (<<m, n>> \in Less)
  BY NatOrdered, WFMin
<1>2. ASSUME NEW m \in T, m < n PROVE FALSE
  BY <1>1, <1>2 DEF Less, OpToRel
<1> QED BY <1>2

\* The way to m goes on from n along an edge of n.
Leads(N, P, n, m) ==
  LET tok == P[m][Len(P[n]) + 1]
  IN tok \in DOMAIN N[n].children /\ Pre(P[N[n].children[tok].child], P[m])

LEMMA WaysAre ==
  ASSUME NEW N, NEW P, IsTrie(N, P), NEW m \in DOMAIN N
  PROVE  P[m] \in Text /\ Len(P[m]) \in Nat
<1>1. P[m] \in Text
  BY DEF IsTrie
<1> QED BY <1>1 DEF Text

LEMMA LeadsOn ==
  ASSUME NEW N, NEW P, IsTrie(N, P), NEW n \in DOMAIN N, NEW x \in DOMAIN N, NEW y \in DOMAIN N,
         Leads(N, P, n, x)
  PROVE  /\ Len(P[n]) < Len(P[x])
         /\ Pre(P[x], P[y]) => Leads(N, P, n, y) /\ P[y][Len(P[n]) + 1] = P[x][Len(P[n]) + 1]
<1>1. PICK tok, e : tok = P[x][Len(P[n]) + 1] /\ e = N[n].children[tok]
  OBVIOUS
<1>2. tok \in DOMAIN N[n].children /\ Pre(P[e.child], P[x])
  BY <1>1 DEF Leads
<1>3. Adds(N, P, n, tok, e)
  BY <1>1, <1>2, ChildAt
<1>4. /\ e.child \in DOMAIN N /\ Len(P[n]) \in Nat /\ Len(e.label) \in Nat \ {0}
      /\ Len(P[e.child]) = Len(P[n]) + Len(e.label)
  BY <1>3 DEF Adds
<1>5. Len(P[x]) \in Nat /\ Len(P[e.child]) <= Len(P[x])
  BY <1>2, WaysAre DEF Pre
<1>6. Len(P[n]) < Len(P[x])
  <2>1. PICK a, b, c, d : a = Len(P[n]) /\ b = Len(e.label) /\ c = Len(P[e.child]) /\ d = Len(P[x])
    OBVIOUS
  <2>2. a \in Nat /\ b \in Nat \ {0} /\ c = a + b /\ d \in Nat /\ c <= d
    BY ONLY <1>4, <1>5, <2>1
  <2>3. a < d
    BY ONLY <2>2
  <2> QED BY ONLY <2>1, <2>3
<1>7. ASSUME Pre(P[x], P[y])
      PROVE  Leads(N, P, n, y) /\ P[y][Len(P[n]) + 1] = P[x][Len(P[n]) + 1]
  <2>1. Len(P[n]) + 1 \in 1..Len(P[x])
    BY <1>4, <1>5, <1>6
  <2>2. P[y][Len(P[n]) + 1] = tok
    BY <1>1, <1>7, <2>1 DEF Pre
  <2>3. Pre(P[e.child], P[y])
    BY <1>2, <1>4, <1>7, WaysAre, PreTrans
  <2> QED BY <1>1, <1>2, <2>2, <2>3 DEF Leads
<1> QED BY <1>6, <1>7

\* A way that leaves x as the way to its child y does reaches y.
LEMMA Meets ==
  ASSUME NEW N, NEW P, IsTrie(N, P), NEW y \in DOMAIN N, y # Root, NEW z \in DOMAIN N,
         Leads(N, P, N[y].parent, z), Pre(P[z], P[y])
  PROVE  Len(P[y]) <= Len(P[z])
<1>1. PICK x : x = N[y].parent
  OBVIOUS
<1>2. x \in DOMAIN N /\ N[x].children[P[y][Len(P[x]) + 1]].child = y
  BY <1>1, ParentAt
<1>3. P[y][Len(P[x]) + 1] = P[z][Len(P[x]) + 1]
  BY <1>1, <1>2, LeadsOn
<1>4. Pre(P[y], P[z])
  BY <1>1, <1>2, <1>3 DEF Leads
<1> QED BY <1>4 DEF Pre

Through(N, P, m) == \A n \in DOMAIN N : Pre(P[n], P[m]) => n = m \/ Leads(N, P, n, m)

LEMMA ThroughParent ==
  ASSUME NEW N, NEW P, IsTrie(N, P), NEW m \in DOMAIN N,
         \A x \in DOMAIN N : Len(P[x]) < Len(P[m]) => Through(N, P, x)
  PROVE  Through(N, P, m)
<1> SUFFICES ASSUME NEW n \in DOMAIN N, Pre(P[n], P[m]), n # m PROVE Leads(N, P, n, m)
  BY DEF Through
<1>0. /\ P[n] \in Text /\ P[m] \in Text /\ Len(P[n]) \in Nat /\ Len(P[m]) \in Nat
      /\ Len(P[n]) <= Len(P[m]) /\ Len(P[Root]) = 0
  BY WaysAre DEF Pre, IsTrie
<1>1. CASE m = Root
  <2>1. n # Root /\ Len(P[n]) = 0
    BY <1>0, <1>1
  <2>2. PICK v \in DOMAIN N : Len(P[v]) < Len(P[n])
    BY <2>1, ParentAt
  <2> QED BY <2>1, <2>2, WaysAre
<1>2. CASE m # Root
  <2>1. PICK u : u = N[m].parent
    OBVIOUS
  <2>2. /\ u \in DOMAIN N /\ Pre(P[u], P[m]) /\ Len(P[u]) < Len(P[m])
        /\ P[m][Len(P[u]) + 1] \in DOMAIN N[u].children
        /\ N[u].children[P[m][Len(P[u]) + 1]].child = m
    BY <1>2, <2>1, ParentAt
  <2>3. P[u] \in Text /\ Len(P[u]) \in Nat
    BY <2>2, WaysAre
  <2>4. Leads(N, P, u, m)
    BY <1>0, <2>2, PreSelf DEF Leads
  <2>5. CASE Len(P[n]) <= Len(P[u])
    <3>1. Pre(P[n], P[u])
      BY <1>0, <2>2, <2>3, <2>5, PreCut
    <3>2. n = u \/ Leads(N, P, n, u)
      BY <2>2, <3>1 DEF Through
    <3> QED BY <2>2, <2>4, <3>2, LeadsOn
  <2>6. CASE ~ (Len(P[n]) <= Len(P[u]))
    <3>0. Len(P[u]) < Len(P[n]) /\ Len(P[u]) <= Len(P[n])
      BY <1>0, <2>3, <2>6
    <3>1. n # Root /\ n # u
      BY <1>0, <2>3, <3>0
    <3>2. Pre(P[u], P[n])
      BY <1>0, <2>2, <2>3, <3>0, PreCut
    <3>3. CASE Len(P[n]) < Len(P[m])
      <4>1. Leads(N, P, u, n)
        BY <2>2, <3>1, <3>2, <3>3 DEF Through
      <4>2. Len(P[m]) <= Len(P[n])
        BY <1>2, <2>1, <4>1, Meets
      <4> QED BY <1>0, <3>3, <4>2
    <3>4. CASE ~ (Len(P[n]) < Len(P[m]))
      <4>0. Len(P[n]) = Len(P[m]) /\ P[n] = P[m]
        <5>1. Len(P[n]) = Len(P[m])
          BY <1>0, <3>4
        <5> QED BY <1>0, <5>1, PreSame
      <4>1. PICK v : v = N[n].parent
        OBVIOUS
      <4>2. /\ v \in DOMAIN N /\ Pre(P[v], P[n]) /\ Len(P[v]) < Len(P[n])
            /\ N[v].children[P[n][Len(P[v]) + 1]].child = n
        BY <3>1, <4>1, ParentAt
      <4>3. P[v] \in Text /\ Len(P[v]) \in Nat
        BY <4>2, WaysAre
      <4>4. CASE Len(P[v]) <= Len(P[u])
        <5>1. Pre(P[v], P[u])
          BY <1>0, <2>2, <2>3, <4>0, <4>2, <4>3, <4>4, PreCut
        <5>2. v # u
          BY <2>2, <4>0, <4>2
        <5>3. Leads(N, P, v, u)
          BY <2>2, <4>2, <5>1, <5>2 DEF Through
        <5>4. Len(P[n]) <= Len(P[u])
          BY <2>2, <3>1, <3>2, <4>1, <5>3, Meets
        <5> QED BY <2>6, <5>4
      <4>5. CASE ~ (Len(P[v]) <= Len(P[u]))
        <5>0. Len(P[u]) <= Len(P[v]) /\ u # v
          BY <2>3, <4>3, <4>5
        <5>1. Pre(P[u], P[v])
          BY <1>0, <2>2, <2>3, <4>0, <4>2, <4>3, <5>0, PreCut
        <5>2. Leads(N, P, u, v)
          BY <2>2, <4>0, <4>2, <5>0, <5>1 DEF Through
        <5>3. Len(P[m]) <= Len(P[v])
          BY <1>2, <2>1, <4>0, <4>2, <5>2, Meets
        <5> QED BY <1>0, <4>0, <4>2, <4>3, <5>3
      <4> QED BY <4>4, <4>5
    <3> QED BY <3>3, <3>4
  <2> QED BY <2>5, <2>6
<1> QED BY <1>1, <1>2

LEMMA WaysThrough ==
  ASSUME NEW N, NEW P, IsTrie(N, P), NEW m \in DOMAIN N
  PROVE  Through(N, P, m)
<1> DEFINE Bad == {x \in DOMAIN N : ~ Through(N, P, x)}
           Lens == {k \in Nat : \E x \in Bad : k = Len(P[x])}
<1>1. SUFFICES ASSUME Bad # {} PROVE FALSE
  OBVIOUS
<1>2. Lens \in SUBSET Nat /\ Lens # {}
  BY <1>1, WaysAre
<1>3. PICK k \in Lens : \A j \in Lens : k <= j
  <2> HIDE DEF Lens
  <2> QED BY <1>2, LeastOf
<1>4. PICK x \in Bad : k = Len(P[x])
  OBVIOUS
<1>5. ASSUME NEW y \in DOMAIN N, Len(P[y]) < Len(P[x]) PROVE Through(N, P, y)
  <2>1. Len(P[y]) \in Nat /\ Len(P[x]) \in Nat
    BY WaysAre
  <2>2. Len(P[y]) \notin Lens
    <3> HIDE DEF Lens
    <3> QED BY <1>3, <1>4, <1>5, <2>1
  <2> QED BY <2>1, <2>2
<1> QED BY <1>4, <1>5, ThroughParent

\* Two nodes have two ways.
LEMMA WaysDiffer ==
  ASSUME NEW N, NEW P, IsTrie(N, P), NEW m \in DOMAIN N, NEW n \in DOMAIN N, P[m] = P[n]
  PROVE  m = n
<1>1. P[n] \in Text /\ Len(P[n]) \in Nat /\ Pre(P[n], P[m])
  BY WaysAre, PreSelf
<1>2. n = m \/ Leads(N, P, n, m)
  BY <1>1, WaysThrough DEF Through
<1>3. ~ Leads(N, P, n, m)
  BY <1>1, LeadsOn
<1> QED BY <1>2, <1>3

-----------------------------------------------------------------------------
(* The walk down the trie along the tokens t.                                *)

\* The label is what t goes on with from i.
Matches(t, i, label) ==
  i + Len(label) <= Len(t) /\ \A j \in 1..Len(label) : t[i + j] = label[j]

LEMMA CommonIs ==
  ASSUME NEW t \in Text, NEW i \in 0..Len(t), NEW label \in Text
  PROVE  LET k == Common(t, i, label)
         IN /\ k \in 0..Len(label) /\ i + k <= Len(t) /\ \A j \in 1..k : t[i + j] = label[j]
            /\ k = Len(label) <=> Matches(t, i, label)
            /\ k < Len(label) /\ i + k < Len(t) => t[i + k + 1] # label[k + 1]
<1> DEFINE Same == {k \in 0..Len(label) : i + k <= Len(t) /\ \A j \in 1..k : t[i + j] = label[j]}
           Short == {x \in Nat : \E k \in Same : x = Len(label) - k}
<1>0. Len(t) \in Nat /\ Len(label) \in Nat /\ i \in Nat
  BY DEF Text
<1>1. 0 \in Same
  BY <1>0
<1>2. Short \in SUBSET Nat /\ Short # {}
  <2>1. Len(label) - 0 \in Short
    BY <1>0, <1>1
  <2> QED BY <2>1
<1>3. PICK x \in Short : \A y \in Short : x <= y
  <2> HIDE DEF Short
  <2> QED BY <1>2, LeastOf
<1>4. PICK k \in Same : x = Len(label) - k
  OBVIOUS
<1>5. ASSUME NEW q \in Same PROVE q <= k
  <2>1. Len(label) - q \in Short
    BY <1>0
  <2>2. x <= Len(label) - q
    BY <1>3, <2>1
  <2> QED BY <1>0, <1>4, <2>2
<1>6. PICK c : c = Common(t, i, label)
  OBVIOUS
<1>7. c = CHOOSE d \in Same : \A j \in Same : j <= d
  BY <1>6 DEF Common
<1>8. c \in Same /\ \A j \in Same : j <= c
  <2> HIDE DEF Same
  <2> QED BY <1>5, <1>7
<1>9. /\ c \in 0..Len(label) /\ i + c <= Len(t) /\ \A j \in 1..c : t[i + j] = label[j]
  BY <1>8
<1>10. ASSUME Matches(t, i, label) PROVE c = Len(label)
  <2>1. Len(label) \in Same
    BY <1>0, <1>10 DEF Matches
  <2>2. Len(label) <= c
    BY <1>8, <2>1
  <2> QED BY <1>0, <1>9, <2>2
<1>11. ASSUME c < Len(label), i + c < Len(t), t[i + c + 1] = label[c + 1] PROVE FALSE
  <2>1. c + 1 \in 0..Len(label) /\ i + (c + 1) <= Len(t)
    BY <1>0, <1>9, <1>11
  <2>2. \A j \in 1..(c + 1) : j \in 1..c \/ j = c + 1
    BY <1>0, <1>9
  <2>3. t[i + (c + 1)] = label[c + 1]
    <3>1. i + (c + 1) = i + c + 1
      BY <1>0, <1>9
    <3> QED BY <1>11, <3>1
  <2>4. c + 1 \in Same
    BY <1>9, <2>1, <2>2, <2>3
  <2>5. c + 1 <= c
    BY <1>8, <2>4
  <2> QED BY <1>0, <1>9, <2>5
<1> QED BY <1>6, <1>9, <1>10, <1>11 DEF Matches

\* The way from n to m is what t goes on with from i.
Follows(P, t, i, n, m) ==
  /\ Pre(P[n], P[m]) /\ Len(P[n]) < Len(P[m])
  /\ i + (Len(P[m]) - Len(P[n])) <= Len(t)
  /\ \A j \in 1..(Len(P[m]) - Len(P[n])) : P[m][Len(P[n]) + j] = t[i + j]

\* It begins with an edge of n whose label t goes on with.
Edged(N, t, i, n) == i < Len(t) /\ t[i + 1] \in DOMAIN N[n].children
                     /\ Matches(t, i, N[n].children[t[i + 1]].label)

LEMMA FollowsDown ==
  ASSUME NEW N, NEW P, IsTrie(N, P), NEW t \in Text, NEW i \in 0..Len(t),
         NEW n \in DOMAIN N, NEW m \in DOMAIN N, Follows(P, t, i, n, m)
  PROVE  /\ Edged(N, t, i, n)
         /\ LET e == N[n].children[t[i + 1]]
            IN m = e.child \/ Follows(P, t, i + Len(e.label), e.child, m)
<1>1. PICK T, ln, lm : T = Len(t) /\ ln = Len(P[n]) /\ lm = Len(P[m])
  OBVIOUS
<1>2. T \in Nat /\ ln \in Nat /\ lm \in Nat /\ i \in Nat
  BY <1>1, WaysAre DEF Text
<1>3. /\ Pre(P[n], P[m]) /\ ln < lm /\ i + (lm - ln) <= T
      /\ \A j \in 1..(lm - ln) : P[m][ln + j] = t[i + j]
  BY <1>1 DEF Follows
<1>4. i < T /\ P[m][ln + 1] = t[i + 1]
  <2>1. 1 \in 1..(lm - ln) /\ i < T
    BY ONLY <1>2, <1>3
  <2> QED BY <1>3, <2>1
<1>5. n # m
  BY <1>1, <1>2, <1>3
<1>6. Leads(N, P, n, m)
  BY <1>3, <1>5, WaysThrough DEF Through
<1>7. PICK tok, e : tok = t[i + 1] /\ e = N[n].children[tok]
  OBVIOUS
<1>8. tok \in DOMAIN N[n].children /\ Pre(P[e.child], P[m])
  BY <1>1, <1>4, <1>6, <1>7 DEF Leads
<1>9. Adds(N, P, n, tok, e)
  BY <1>7, <1>8, ChildAt
<1>10. PICK ll, lc : ll = Len(e.label) /\ lc = Len(P[e.child])
  OBVIOUS
<1>11. /\ e.child \in DOMAIN N /\ ll \in Nat \ {0} /\ lc = ln + ll
       /\ \A j \in 1..ll : P[e.child][ln + j] = e.label[j]
  BY <1>1, <1>9, <1>10 DEF Adds
<1>12. lc <= lm /\ \A j \in 1..lc : P[m][j] = P[e.child][j]
  BY <1>1, <1>8, <1>10 DEF Pre
<1>13. Matches(t, i, e.label)
  <2>1. i + ll <= T
    BY ONLY <1>2, <1>3, <1>11, <1>12
  <2>2. ASSUME NEW j \in 1..ll PROVE t[i + j] = e.label[j]
    <3>1. ln + j \in 1..lc /\ j \in 1..(lm - ln)
      BY <1>2, <1>11, <1>12
    <3>2. P[m][ln + j] = P[e.child][ln + j] /\ P[m][ln + j] = t[i + j]
      BY <1>3, <1>12, <3>1
    <3> QED BY <1>11, <3>2
  <2> QED BY <1>1, <1>10, <2>1, <2>2 DEF Matches
<1>14. CASE lc = lm
  <2>1. P[e.child] \in Text /\ P[m] \in Text
    BY <1>11, WaysAre
  <2>2. P[e.child] = P[m]
    BY <1>1, <1>8, <1>10, <1>14, <2>1, PreSame
  <2>3. m = e.child
    BY <1>11, <2>2, WaysDiffer
  <2> QED BY <1>1, <1>4, <1>7, <1>8, <1>13, <2>3 DEF Edged
<1>15. CASE lc # lm
  <2>0. lc <= lm /\ i + (lm - ln) <= T /\ lc = ln + ll /\ ll \in Nat
    BY <1>3, <1>11, <1>12
  <2>1. lc < lm /\ i + ll + (lm - lc) <= T
    BY ONLY <1>2, <2>0, <1>15
  <2>2. ASSUME NEW j \in 1..(lm - lc) PROVE P[m][lc + j] = t[(i + ll) + j]
    <3>1. ll + j \in 1..(lm - ln) /\ ln + (ll + j) = lc + j /\ i + (ll + j) = (i + ll) + j
      BY <1>2, <1>11, <1>12
    <3>2. P[m][ln + (ll + j)] = t[i + (ll + j)]
      BY <1>3, <3>1
    <3> QED BY <3>1, <3>2
  <2>3. Follows(P, t, i + ll, e.child, m)
    BY <1>1, <1>8, <1>10, <2>1, <2>2 DEF Follows
  <2> QED BY <1>1, <1>4, <1>7, <1>8, <1>10, <1>13, <2>3 DEF Edged
<1> QED BY <1>14, <1>15

\* Where an edge leads to that t goes on with.
GoesOn(N, P, t, i, n, e) ==
  /\ e.child \in DOMAIN N /\ i + Len(e.label) \in 0..Len(t) /\ Len(e.label) \in Nat \ {0}
  /\ Follows(P, t, i, n, e.child)
  /\ Len(P[e.child]) = Len(P[n]) + Len(e.label)
  /\ \A m \in DOMAIN N : Follows(P, t, i + Len(e.label), e.child, m) => Follows(P, t, i, n, m)

LEMMA FollowsUp ==
  ASSUME NEW N, NEW P, IsTrie(N, P), NEW t \in Text, NEW i \in 0..Len(t),
         NEW n \in DOMAIN N, Edged(N, t, i, n)
  PROVE  GoesOn(N, P, t, i, n, N[n].children[t[i + 1]])
<1>e. PICK e : e = N[n].children[t[i + 1]]
  OBVIOUS
<1>1. PICK T, ln, ll, lc, tok :
        T = Len(t) /\ ln = Len(P[n]) /\ ll = Len(e.label) /\ lc = Len(P[e.child]) /\ tok = t[i + 1]
  OBVIOUS
<1>2. Adds(N, P, n, tok, e)
  BY <1>e, <1>1, ChildAt DEF Edged
<1>3. T \in Nat /\ ln \in Nat /\ i \in Nat /\ i <= T
  BY <1>1, WaysAre DEF Text
<1>4. /\ e.child \in DOMAIN N /\ ll \in Nat \ {0} /\ lc = ln + ll
      /\ \A j \in 1..ll : P[e.child][ln + j] = e.label[j]
      /\ Pre(P[n], P[e.child])
  BY <1>1, <1>2 DEF Adds
<1>5. i + ll <= T /\ \A j \in 1..ll : t[i + j] = e.label[j]
  BY <1>e, <1>1 DEF Edged, Matches
<1>6. i + ll \in 0..T
  BY ONLY <1>3, <1>4, <1>5
<1>7. Follows(P, t, i, n, e.child)
  <2>1. ln < lc /\ i + (lc - ln) <= T /\ lc - ln = ll
    BY ONLY <1>3, <1>4, <1>5
  <2> QED BY <1>1, <1>4, <1>5, <2>1 DEF Follows
<1>8. ASSUME NEW m \in DOMAIN N, Follows(P, t, i + Len(e.label), e.child, m)
      PROVE  Follows(P, t, i, n, m)
  <2>1. PICK lm : lm = Len(P[m])
    OBVIOUS
  <2>2. /\ Pre(P[e.child], P[m]) /\ lc < lm /\ i + ll + (lm - lc) <= T
        /\ \A j \in 1..(lm - lc) : P[m][lc + j] = t[i + ll + j]
    BY <1>1, <1>8, <2>1 DEF Follows
  <2>3. lm \in Nat
    BY <2>1, WaysAre
  <2>4. ln < lm /\ i + (lm - ln) <= T
    BY ONLY <1>3, <1>4, <2>2, <2>3
  <2>5. ASSUME NEW j \in 1..(lm - ln) PROVE P[m][ln + j] = t[i + j]
    <3>1. CASE j \in 1..ll
      <4>1. ln + j \in 1..lc
        BY <1>3, <1>4, <3>1
      <4>2. P[m][ln + j] = P[e.child][ln + j]
        BY <1>1, <2>2, <4>1 DEF Pre
      <4> QED BY <1>4, <1>5, <3>1, <4>2
    <3>2. CASE j \notin 1..ll
      <4>1. PICK q \in 1..(lm - lc) : j = ll + q
        <5>1. j - ll \in 1..(lm - lc) /\ j = ll + (j - ll)
          BY <1>3, <1>4, <2>3, <3>2
        <5> QED BY <5>1
      <4>2. ln + j = lc + q /\ i + j = i + ll + q
        BY <1>3, <1>4, <2>3, <4>1
      <4> QED BY <2>2, <4>1, <4>2
    <3> QED BY <3>1, <3>2
  <2>6. Pre(P[n], P[m])
    BY <1>4, <2>2, WaysAre, PreTrans
  <2> QED BY <1>1, <2>1, <2>4, <2>5, <2>6 DEF Follows
<1>9. GoesOn(N, P, t, i, n, e)
  BY <1>1, <1>4, <1>6, <1>7, <1>8 DEF GoesOn
<1> QED BY <1>e, <1>9

-----------------------------------------------------------------------------
(* Lookups: the deepest node with an entry on the way of the tokens.         *)

Deepest(P, M) == CHOOSE m \in M : \A q \in M : Len(P[q]) <= Len(P[m])

\* Nodes on the way of the same tokens have ways of different lengths.
LEMMA SameDepth ==
  ASSUME NEW N, NEW P, IsTrie(N, P), NEW t, NEW i \in Nat, NEW n \in DOMAIN N,
         NEW m \in DOMAIN N, NEW q \in DOMAIN N,
         m = n \/ Follows(P, t, i, n, m), q = n \/ Follows(P, t, i, n, q),
         Len(P[m]) = Len(P[q])
  PROVE  m = q
<1>1. /\ P[m] \in Text /\ P[q] \in Text /\ Len(P[n]) \in Nat
      /\ Len(P[m]) \in Nat /\ Len(P[q]) \in Nat
  BY WaysAre
<1>2. CASE m = n \/ q = n
  BY <1>1, <1>2 DEF Follows
<1>3. CASE Follows(P, t, i, n, m) /\ Follows(P, t, i, n, q)
  <2>1. ASSUME NEW j \in 1..Len(P[m]) PROVE P[m][j] = P[q][j]
    <3>1. CASE j <= Len(P[n])
      <4>1. j \in 1..Len(P[n])
        BY <1>1, <3>1
      <4> QED BY <1>3, <4>1 DEF Follows, Pre
    <3>2. CASE ~ (j <= Len(P[n]))
      <4>1. PICK k \in 1..(Len(P[m]) - Len(P[n])) : j = Len(P[n]) + k
        <5>1. j - Len(P[n]) \in 1..(Len(P[m]) - Len(P[n])) /\ j = Len(P[n]) + (j - Len(P[n]))
          BY <1>1, <3>2
        <5> QED BY <5>1
      <4>2. P[m][Len(P[n]) + k] = t[i + k]
        BY <1>3 DEF Follows
      <4>3. P[q][Len(P[n]) + k] = t[i + k]
        BY <1>3, <4>1 DEF Follows
      <4> QED BY <4>1, <4>2, <4>3
    <3> QED BY <3>1, <3>2
  <2>2. Pre(P[m], P[q])
    BY <1>1, <2>1 DEF Pre
  <2>3. P[m] = P[q]
    BY <1>1, <2>2, PreSame
  <2> QED BY <2>3, WaysDiffer
<1> QED BY <1>2, <1>3

LEMMA DeepestIs ==
  ASSUME NEW N, NEW P, IsTrie(N, P), NEW t \in Text, NEW i \in 0..Len(t), NEW n \in DOMAIN N,
         NEW M \in SUBSET DOMAIN N, M # {}, \A m \in M : m = n \/ Follows(P, t, i, n, m)
  PROVE  /\ Deepest(P, M) \in M
         /\ \A q \in M : Len(P[q]) <= Len(P[Deepest(P, M)])
         /\ \A m \in M : (\A q \in M : Len(P[q]) <= Len(P[m])) => m = Deepest(P, M)
<1>0. Len(t) \in Nat /\ i \in Nat /\ Len(P[n]) \in Nat /\ \A m \in M : Len(P[m]) \in Nat
  BY WaysAre DEF Text
<1>1. PICK top : top = Len(P[n]) + Len(t)
  OBVIOUS
<1>2. ASSUME NEW m \in M PROVE Len(P[m]) <= top /\ top - Len(P[m]) \in Nat
  <2>1. m = n \/ i + (Len(P[m]) - Len(P[n])) <= Len(t)
    BY DEF Follows
  <2> QED BY <1>0, <1>1, <2>1
<1> DEFINE Short == {x \in Nat : \E m \in M : x = top - Len(P[m])}
<1>3. PICK x \in Short : \A y \in Short : x <= y
  <2>1. Short \in SUBSET Nat /\ Short # {}
    BY <1>2
  <2> HIDE DEF Short
  <2> QED BY <2>1, LeastOf
<1>4. PICK d \in M : x = top - Len(P[d])
  OBVIOUS
<1>5. ASSUME NEW q \in M PROVE Len(P[q]) <= Len(P[d])
  <2>1. top - Len(P[q]) \in Short
    BY <1>2
  <2>2. x <= top - Len(P[q])
    BY <1>3, <2>1
  <2> QED BY <1>0, <1>1, <1>4, <2>2
<1>6. PICK b : b = Deepest(P, M)
  OBVIOUS
<1>7. b \in M /\ \A q \in M : Len(P[q]) <= Len(P[b])
  BY <1>5, <1>6 DEF Deepest
<1>8. ASSUME NEW m \in M, \A q \in M : Len(P[q]) <= Len(P[m]) PROVE m = b
  <2>1. Len(P[m]) = Len(P[b])
    BY <1>0, <1>7, <1>8
  <2> QED BY <1>0, <1>7, <2>1, SameDepth
<1> QED BY <1>6, <1>7, <1>8

\* The nodes with an entry on the way of t from n on.
Known(N, P, t, i, n) ==
  {m \in DOMAIN N : N[m].entry # NoEntry /\ Follows(P, t, i, n, m)}

BestFrom(N, P, t, i, n) ==
  IF Known(N, P, t, i, n) = {} THEN NoNode ELSE Deepest(P, Known(N, P, t, i, n))

\* The walks of a lookup of t.
WalksIn(N, t) == [node : DOMAIN N, idx : 0..Len(t)]

BestStep(h, N, t, at) ==
  IF at.idx = Len(t) \/ t[at.idx + 1] \notin DOMAIN N[at.node].children
  THEN NoNode
  ELSE LET e == N[at.node].children[t[at.idx + 1]]
           deeper == h[[node |-> e.child, idx |-> at.idx + Len(e.label)]]
       IN IF Common(t, at.idx, e.label) # Len(e.label) THEN NoNode
          ELSE IF deeper # NoNode THEN deeper
          ELSE IF N[e.child].entry # NoEntry THEN e.child ELSE NoNode

LEMMA EdgedIs ==
  ASSUME NEW N, NEW P, IsTrie(N, P), NEW t \in Text, NEW i \in 0..Len(t), NEW n \in DOMAIN N
  PROVE  Edged(N, t, i, n) <=>
           /\ ~ (i = Len(t) \/ t[i + 1] \notin DOMAIN N[n].children)
           /\ Common(t, i, N[n].children[t[i + 1]].label) = Len(N[n].children[t[i + 1]].label)
<1>1. Len(t) \in Nat /\ i \in Nat /\ (i < Len(t) <=> i # Len(t))
  BY DEF Text
<1>2. PICK tok, e : tok = t[i + 1] /\ e = N[n].children[tok]
  OBVIOUS
<1>3. ASSUME tok \in DOMAIN N[n].children
      PROVE  Common(t, i, e.label) = Len(e.label) <=> Matches(t, i, e.label)
  <2>1. Adds(N, P, n, tok, e)
    BY <1>2, <1>3, ChildAt
  <2>2. e.label \in Text
    BY <2>1 DEF Adds
  <2> QED BY <2>2, CommonIs
<1> QED BY <1>1, <1>2, <1>3 DEF Edged

\* What is known from n on is the child and what is known from it on.
LEMMA BestIsDeepest ==
  ASSUME NEW N, NEW P, IsTrie(N, P), NEW t \in Text, NEW at \in WalksIn(N, t), NEW h,
         \A w \in WalksIn(N, t) : w.idx > at.idx => h[w] = BestFrom(N, P, t, w.idx, w.node)
  PROVE  BestStep(h, N, t, at) = BestFrom(N, P, t, at.idx, at.node)
<1>0. PICK i \in 0..Len(t), n \in DOMAIN N : at.idx = i /\ at.node = n
  BY DEF WalksIn
<1>1. CASE ~ Edged(N, t, i, n)
  <2>1. Known(N, P, t, i, n) = {}
    BY <1>1, FollowsDown DEF Known
  <2>2. ~ (/\ ~ (i = Len(t) \/ t[i + 1] \notin DOMAIN N[n].children)
           /\ Common(t, i, N[n].children[t[i + 1]].label) = Len(N[n].children[t[i + 1]].label))
    BY <1>1, EdgedIs
  <2> QED BY <1>0, <2>1, <2>2 DEF BestStep, BestFrom
<1>2. CASE Edged(N, t, i, n)
  <2>1. PICK e, j : e = N[n].children[t[i + 1]] /\ j = i + Len(e.label)
    OBVIOUS
  <2>2. /\ e.child \in DOMAIN N /\ j \in 0..Len(t) /\ Len(e.label) \in Nat \ {0}
        /\ Follows(P, t, i, n, e.child)
        /\ \A m \in DOMAIN N : Follows(P, t, j, e.child, m) => Follows(P, t, i, n, m)
    <3>1. GoesOn(N, P, t, i, n, e)
      BY <1>2, <2>1, FollowsUp
    <3> QED BY <2>1, <3>1 DEF GoesOn
  <2>3. PICK w : w = [node |-> e.child, idx |-> j]
    OBVIOUS
  <2>4. w \in WalksIn(N, t) /\ w.idx = j /\ w.node = e.child /\ w.idx > at.idx
    <3>1. PICK ll : ll = Len(e.label)
      OBVIOUS
    <3>2. ll \in Nat \ {0} /\ j = i + ll /\ i \in Nat
      BY <2>1, <2>2, <3>1
    <3>3. j > i
      BY ONLY <3>2
    <3> QED BY <1>0, <2>2, <2>3, <3>3 DEF WalksIn
  <2>5. PICK K, L, b : /\ K = Known(N, P, t, i, n) /\ L = Known(N, P, t, j, e.child)
                       /\ b = h[w]
    OBVIOUS
  <2>6. b = IF L = {} THEN NoNode ELSE Deepest(P, L)
    BY <2>4, <2>5 DEF BestFrom
  <2>13. BestStep(h, N, t, at) =
           IF b # NoNode THEN b ELSE IF N[e.child].entry # NoEntry THEN e.child ELSE NoNode
    <3>1. /\ ~ (i = Len(t) \/ t[i + 1] \notin DOMAIN N[n].children)
          /\ Common(t, i, e.label) = Len(e.label)
      BY <1>2, <2>1, EdgedIs
    <3> QED BY <1>0, <2>1, <2>3, <2>5, <3>1 DEF BestStep
  <2>7. /\ K \in SUBSET DOMAIN N /\ L \in SUBSET DOMAIN N /\ L \subseteq K
        /\ \A m \in K : Follows(P, t, i, n, m) /\ (m = e.child \/ m \in L)
        /\ \A m \in L : Follows(P, t, j, e.child, m)
        /\ e.child \in K <=> N[e.child].entry # NoEntry
    <3>1. /\ \A m \in K : m \in DOMAIN N /\ N[m].entry # NoEntry /\ Follows(P, t, i, n, m)
          /\ \A m \in L : m \in DOMAIN N /\ N[m].entry # NoEntry /\ Follows(P, t, j, e.child, m)
          /\ \A m \in DOMAIN N : N[m].entry # NoEntry /\ Follows(P, t, i, n, m) => m \in K
          /\ \A m \in DOMAIN N : N[m].entry # NoEntry /\ Follows(P, t, j, e.child, m) => m \in L
      BY <2>5 DEF Known
    <3>2. ASSUME NEW m \in K PROVE m = e.child \/ Follows(P, t, j, e.child, m)
      <4>1. m \in DOMAIN N /\ Follows(P, t, i, n, m)
        BY <3>1
      <4> QED BY <2>1, <4>1, FollowsDown
    <3> QED BY <2>2, <3>1, <3>2
  <2>8. BestFrom(N, P, t, at.idx, at.node) = IF K = {} THEN NoNode ELSE Deepest(P, K)
    BY <1>0, <2>5 DEF BestFrom
  <2>9. NoNode \notin DOMAIN N
    BY DEF IsTrie
  <2>10. CASE L # {}
    <3>1. b = Deepest(P, L) /\ b \in L /\ \A q \in L : Len(P[q]) <= Len(P[b])
      BY <2>2, <2>6, <2>7, <2>10, DeepestIs
    <3>2. Len(P[e.child]) <= Len(P[b])
      <4>1. Len(P[e.child]) < Len(P[b]) /\ Len(P[b]) \in Nat /\ Len(P[e.child]) \in Nat
        BY <2>2, <2>7, <3>1, WaysAre DEF Follows
      <4> QED BY <4>1
    <3>3. b \in K /\ \A q \in K : Len(P[q]) <= Len(P[b])
      BY <2>7, <3>1, <3>2
    <3>4. \A m \in K : (\A q \in K : Len(P[q]) <= Len(P[m])) => m = Deepest(P, K)
      <4>1. K \in SUBSET DOMAIN N /\ K # {} /\ \A m \in K : m = n \/ Follows(P, t, i, n, m)
        BY <2>7, <3>3
      <4> QED BY <4>1, DeepestIs
    <3>5. b = Deepest(P, K)
      BY <3>3, <3>4
    <3> QED BY <2>7, <2>8, <2>9, <2>13, <3>1, <3>3, <3>5
  <2>11. CASE L = {} /\ N[e.child].entry # NoEntry
    <3>1. K = {e.child}
      BY <2>7, <2>11
    <3>2. Deepest(P, K) \in K
      <4>1. K \in SUBSET DOMAIN N /\ K # {} /\ \A m \in K : m = n \/ Follows(P, t, i, n, m)
        BY <2>7, <3>1
      <4> QED BY <4>1, DeepestIs
    <3> QED BY <2>6, <2>8, <2>11, <2>13, <3>1, <3>2
  <2>12. CASE L = {} /\ N[e.child].entry = NoEntry
    <3>1. K = {}
      BY <2>7, <2>12
    <3> QED BY <2>6, <2>8, <2>12, <2>13, <3>1
  <2> QED BY <2>10, <2>11, <2>12
<1> QED BY <1>1, <1>2

LEMMA WalkOnce ==
  ASSUME NEW N, NEW P, IsTrie(N, P), NEW t \in Text, NEW g, NEW h,
         \A at \in WalksIn(N, t) : g[at] = BestFrom(N, P, t, at.idx, at.node),
         \A at \in WalksIn(N, t) : h[at] = BestStep(h, N, t, at)
  PROVE  \A at \in WalksIn(N, t) : h[at] = g[at]
<1> DEFINE Bad == {at \in WalksIn(N, t) : h[at] # g[at]}
           Left == {k \in Nat : \E at \in Bad : k = Len(t) - at.idx}
<1>0. Len(t) \in Nat /\ \A at \in WalksIn(N, t) : at.idx \in 0..Len(t)
  BY DEF Text, WalksIn
<1>1. SUFFICES ASSUME Bad # {} PROVE FALSE
  OBVIOUS
<1>2. Left \in SUBSET Nat /\ Left # {}
  <2>1. PICK at \in Bad : TRUE
    BY <1>1
  <2>2. Len(t) - at.idx \in Left
    BY <1>0, <2>1
  <2> QED BY <2>2
<1>3. PICK k \in Left : \A j \in Left : k <= j
  <2> HIDE DEF Left
  <2> QED BY <1>2, LeastOf
<1>4. PICK at \in Bad : k = Len(t) - at.idx
  OBVIOUS
<1>5. ASSUME NEW w \in WalksIn(N, t), w.idx > at.idx PROVE h[w] = BestFrom(N, P, t, w.idx, w.node)
  <2>1. Len(t) - w.idx \notin Left
    <3>1. ~ (k <= Len(t) - w.idx)
      BY <1>0, <1>4, <1>5
    <3> HIDE DEF Left
    <3> QED BY <1>3, <3>1
  <2>2. w \notin Bad
    BY <1>0, <2>1
  <2> QED BY <2>2
<1>6. BestStep(h, N, t, at) = BestFrom(N, P, t, at.idx, at.node)
  BY <1>5, BestIsDeepest
<1> QED BY <1>6

LEMMA BestNodeFrom ==
  ASSUME NEW c, NEW P, IsTrie(c.nodes, P), NEW t \in Text
  PROVE  BestNode(c, t) = BestFrom(c.nodes, P, t, 0, Root)
<1> DEFINE W == WalksIn(c.nodes, t)
           g == [at \in W |-> BestFrom(c.nodes, P, t, at.idx, at.node)]
           h == CHOOSE f : f = [at \in W |-> BestStep(f, c.nodes, t, at)]
<1>1. \A at \in W : g[at] = BestFrom(c.nodes, P, t, at.idx, at.node)
  OBVIOUS
<1>2. g = [at \in W |-> BestStep(g, c.nodes, t, at)]
  <2>1. \A at \in W : BestStep(g, c.nodes, t, at) = BestFrom(c.nodes, P, t, at.idx, at.node)
    <3> TAKE at \in W
    <3> HIDE DEF g
    <3>1. \A w \in WalksIn(c.nodes, t) : w.idx > at.idx => g[w] = BestFrom(c.nodes, P, t, w.idx, w.node)
      BY <1>1
    <3> QED BY <3>1, BestIsDeepest
  <2> QED BY <2>1
<1>3. BestNode(c, t) = h[Start]
  BY DEF BestNode, BestStep, Walks, WalksIn
<1>4. h = [at \in W |-> BestStep(h, c.nodes, t, at)]
  <2> HIDE DEF g
  <2> QED BY <1>2
<1>5. \A at \in W : h[at] = BestStep(h, c.nodes, t, at)
  <2> HIDE DEF h
  <2> QED BY <1>4
<1>6. \A at \in W : h[at] = g[at]
  <2> HIDE DEF g, h
  <2> QED BY <1>1, <1>5, WalkOnce
<1>7. Start \in W /\ Start.idx = 0 /\ Start.node = Root
  BY DEF Start, WalksIn, IsTrie, Text
<1> HIDE DEF g, h
<1> QED BY <1>1, <1>3, <1>6, <1>7

LEMMA FollowsRoot ==
  ASSUME NEW N, NEW P, IsTrie(N, P), NEW t \in Text, NEW m \in DOMAIN N
  PROVE  Follows(P, t, 0, Root, m) <=> Len(P[m]) > 0 /\ Pre(P[m], t)
<1>1. /\ P[m] \in Text /\ Len(P[m]) \in Nat /\ Len(P[Root]) = 0
      /\ Len(t) \in Nat
  BY WaysAre DEF IsTrie, Text
<1>2. PICK lm, lr, T : lm = Len(P[m]) /\ lr = Len(P[Root]) /\ T = Len(t)
  OBVIOUS
<1>3. lr = 0 /\ lm \in Nat /\ T \in Nat
  BY <1>1, <1>2
<1>4. /\ lm - lr = lm /\ 0 + (lm - lr) = lm /\ (lr < lm <=> lm > 0)
      /\ \A j \in 1..lm : lr + j = j /\ 0 + j = j
  BY ONLY <1>3
<1>5. Pre(P[Root], P[m])
  BY <1>1 DEF Pre
<1>6. Pre(P[m], t) <=> lm <= T /\ \A j \in 1..lm : t[j] = P[m][j]
  BY <1>2 DEF Pre
<1>7. Follows(P, t, 0, Root, m) <=>
        lr < lm /\ 0 + (lm - lr) <= T /\ \A j \in 1..(lm - lr) : P[m][lr + j] = t[0 + j]
  BY <1>2, <1>5 DEF Follows
<1>8. (\A j \in 1..(lm - lr) : P[m][lr + j] = t[0 + j]) <=> (\A j \in 1..lm : t[j] = P[m][j])
  BY <1>4
<1> QED BY <1>2, <1>4, <1>6, <1>7, <1>8

\* A lookup of t answers with the node of the longest known prefix of t.
Remembered(N, P, t, m) == N[m].entry # NoEntry /\ Len(P[m]) > 0 /\ Pre(P[m], t)

LEMMA BestNodeIs ==
  ASSUME NEW c, NEW P, IsTrie(c.nodes, P), NEW t \in Text
  PROVE  LET b == BestNode(c, t)
         IN /\ b = NoNode => \A m \in DOMAIN c.nodes : ~ Remembered(c.nodes, P, t, m)
            /\ b # NoNode =>
                 /\ b \in DOMAIN c.nodes /\ Remembered(c.nodes, P, t, b)
                 /\ \A m \in DOMAIN c.nodes : Remembered(c.nodes, P, t, m) => Len(P[m]) <= Len(P[b])
<1>1. PICK N, K, b : N = c.nodes /\ K = Known(N, P, t, 0, Root) /\ b = BestNode(c, t)
  OBVIOUS
<1>2. IsTrie(N, P) /\ Root \in DOMAIN N /\ 0 \in 0..Len(t) /\ NoNode \notin DOMAIN N
  BY <1>1 DEF IsTrie, Text
<1>3. b = IF K = {} THEN NoNode ELSE Deepest(P, K)
  BY <1>1, BestNodeFrom DEF BestFrom
<1>4. K \in SUBSET DOMAIN N /\ \A m \in DOMAIN N : m \in K <=> Remembered(N, P, t, m)
  BY <1>1, <1>2, FollowsRoot DEF Known, Remembered
<1>5. CASE K = {}
  BY <1>1, <1>3, <1>4, <1>5
<1>6. CASE K # {}
  <2>1. \A m \in K : m = Root \/ Follows(P, t, 0, Root, m)
    BY <1>1 DEF Known
  <2>2. b \in K /\ \A q \in K : Len(P[q]) <= Len(P[b])
    BY <1>2, <1>3, <1>4, <1>6, <2>1, DeepestIs
  <2> QED BY <1>1, <1>2, <1>4, <2>2
<1> QED BY <1>5, <1>6

-----------------------------------------------------------------------------
(* The walk of an insert: to the deepest node on the way of the key.         *)

OnWay(N, P, t, i, n) == {m \in DOMAIN N : m = n \/ Follows(P, t, i, n, m)}

FarFrom(N, P, t, at) ==
  LET far == Deepest(P, OnWay(N, P, t, at.idx, at.node))
  IN [node |-> far, idx |-> at.idx + (Len(P[far]) - Len(P[at.node]))]

WalkStep(h, N, t, at) ==
  IF at.idx = Len(t) \/ t[at.idx + 1] \notin DOMAIN N[at.node].children THEN at
  ELSE LET e == N[at.node].children[t[at.idx + 1]]
       IN IF Common(t, at.idx, e.label) # Len(e.label) THEN at
          ELSE h[[node |-> e.child, idx |-> at.idx + Len(e.label)]]

LEMMA WalkIsFar ==
  ASSUME NEW N, NEW P, IsTrie(N, P), NEW t \in Text, NEW at \in WalksIn(N, t), NEW h,
         \A w \in WalksIn(N, t) : w.idx > at.idx => h[w] = FarFrom(N, P, t, w)
  PROVE  WalkStep(h, N, t, at) = FarFrom(N, P, t, at)
<1>0. PICK i \in 0..Len(t), n \in DOMAIN N : at.idx = i /\ at.node = n /\ at = [node |-> n, idx |-> i]
  BY DEF WalksIn
<1>1. PICK K, d : K = OnWay(N, P, t, i, n) /\ d = Deepest(P, K)
  OBVIOUS
<1>2. FarFrom(N, P, t, at) = [node |-> d, idx |-> i + (Len(P[d]) - Len(P[n]))]
  BY <1>0, <1>1 DEF FarFrom
<1>3. K \in SUBSET DOMAIN N /\ n \in K /\ \A m \in K : m = n \/ Follows(P, t, i, n, m)
  BY <1>1 DEF OnWay
<1>4. /\ d \in K /\ \A q \in K : Len(P[q]) <= Len(P[d])
      /\ \A m \in K : (\A q \in K : Len(P[q]) <= Len(P[m])) => m = d
  <2>1. K # {}
    BY <1>3
  <2> QED BY <1>1, <1>3, <2>1, DeepestIs
<1>5. CASE ~ Edged(N, t, i, n)
  <2>1. d = n
    BY <1>3, <1>4, <1>5, FollowsDown
  <2>2. ~ (/\ ~ (i = Len(t) \/ t[i + 1] \notin DOMAIN N[n].children)
           /\ Common(t, i, N[n].children[t[i + 1]].label) = Len(N[n].children[t[i + 1]].label))
    BY <1>5, EdgedIs
  <2>3. WalkStep(h, N, t, at) = at
    BY <1>0, <2>2 DEF WalkStep
  <2>4. Len(P[n]) \in Nat /\ i \in Nat
    BY WaysAre
  <2>5. i + (Len(P[n]) - Len(P[n])) = i
    BY <2>4
  <2> QED BY <1>0, <1>2, <2>1, <2>3, <2>5
<1>6. CASE Edged(N, t, i, n)
  <2>1. PICK e, j : e = N[n].children[t[i + 1]] /\ j = i + Len(e.label)
    OBVIOUS
  <2>2. /\ e.child \in DOMAIN N /\ j \in 0..Len(t) /\ Len(e.label) \in Nat \ {0}
        /\ Follows(P, t, i, n, e.child) /\ Len(P[e.child]) = Len(P[n]) + Len(e.label)
        /\ \A m \in DOMAIN N : Follows(P, t, j, e.child, m) => Follows(P, t, i, n, m)
    <3>1. GoesOn(N, P, t, i, n, e)
      BY <1>6, <2>1, FollowsUp
    <3> QED BY <2>1, <3>1 DEF GoesOn
  <2>3. PICK w : w = [node |-> e.child, idx |-> j]
    OBVIOUS
  <2>4. w \in WalksIn(N, t) /\ w.idx = j /\ w.node = e.child /\ w.idx > at.idx
    <3>1. PICK ll : ll = Len(e.label)
      OBVIOUS
    <3>2. ll \in Nat \ {0} /\ j = i + ll /\ i \in Nat
      BY <2>1, <2>2, <3>1
    <3>3. j > i
      BY ONLY <3>2
    <3> QED BY <1>0, <2>2, <2>3, <3>3 DEF WalksIn
  <2>5. WalkStep(h, N, t, at) = h[w]
    <3>1. /\ ~ (i = Len(t) \/ t[i + 1] \notin DOMAIN N[n].children)
          /\ Common(t, i, e.label) = Len(e.label)
      BY <1>6, <2>1, EdgedIs
    <3> QED BY <1>0, <2>1, <2>3, <3>1 DEF WalkStep
  <2>6. PICK L, f : L = OnWay(N, P, t, j, e.child) /\ f = Deepest(P, L)
    OBVIOUS
  <2>7. h[w] = [node |-> f, idx |-> j + (Len(P[f]) - Len(P[e.child]))]
    BY <2>4, <2>6 DEF FarFrom
  <2>8. /\ L \in SUBSET DOMAIN N /\ e.child \in L
        /\ \A m \in L : m = e.child \/ Follows(P, t, j, e.child, m)
    BY <2>2, <2>6 DEF OnWay
  <2>9. f \in L /\ \A q \in L : Len(P[q]) <= Len(P[f])
    <3>1. L # {}
      BY <2>8
    <3> QED BY <2>2, <2>6, <2>8, <3>1, DeepestIs
  <2>10. \A m \in DOMAIN N : m \in K <=> m = n \/ m \in L
    <3> TAKE m \in DOMAIN N
    <3>1. m \in L => m \in K
      BY <1>1, <2>2, <2>8 DEF OnWay
    <3>2. Follows(P, t, i, n, m) => m = e.child \/ Follows(P, t, j, e.child, m)
      BY <2>1, FollowsDown
    <3> QED BY <1>1, <2>6, <2>8, <3>1, <3>2 DEF OnWay
  <2>11. Len(P[n]) <= Len(P[f])
    <3>1. PICK a, b, g, ll : a = Len(P[n]) /\ b = Len(P[e.child]) /\ g = Len(P[f]) /\ ll = Len(e.label)
      OBVIOUS
    <3>2. a \in Nat /\ g \in Nat /\ ll \in Nat /\ b = a + ll /\ b <= g
      BY <2>2, <2>8, <2>9, <3>1, WaysAre
    <3>3. a <= g
      BY ONLY <3>2
    <3> QED BY <3>1, <3>3
  <2>12. f = d
    <3>1. f \in K /\ \A q \in K : Len(P[q]) <= Len(P[f])
      BY <1>3, <2>8, <2>9, <2>10, <2>11
    <3> QED BY <1>4, <3>1
  <2>13. i + (Len(P[d]) - Len(P[n])) = j + (Len(P[f]) - Len(P[e.child]))
    <3>1. PICK a, b, g, ll : a = Len(P[n]) /\ b = Len(P[e.child]) /\ g = Len(P[f]) /\ ll = Len(e.label)
      OBVIOUS
    <3>2. /\ a \in Nat /\ g \in Nat /\ ll \in Nat /\ b = a + ll /\ i \in Nat /\ j = i + ll
      BY <2>1, <2>2, <2>8, <2>9, <3>1, WaysAre
    <3>3. i + (g - a) = j + (g - b)
      BY ONLY <3>2
    <3> QED BY <2>12, <3>1, <3>3
  <2> QED BY <1>2, <2>5, <2>7, <2>12, <2>13
<1> QED BY <1>5, <1>6

LEMMA WalkOnceFar ==
  ASSUME NEW N, NEW P, IsTrie(N, P), NEW t \in Text, NEW g, NEW h,
         \A at \in WalksIn(N, t) : g[at] = FarFrom(N, P, t, at),
         \A at \in WalksIn(N, t) : h[at] = WalkStep(h, N, t, at)
  PROVE  \A at \in WalksIn(N, t) : h[at] = g[at]
<1> DEFINE Bad == {at \in WalksIn(N, t) : h[at] # g[at]}
           Left == {k \in Nat : \E at \in Bad : k = Len(t) - at.idx}
<1>0. Len(t) \in Nat /\ \A at \in WalksIn(N, t) : at.idx \in 0..Len(t)
  BY DEF Text, WalksIn
<1>1. SUFFICES ASSUME Bad # {} PROVE FALSE
  OBVIOUS
<1>2. Left \in SUBSET Nat /\ Left # {}
  <2>1. PICK at \in Bad : TRUE
    BY <1>1
  <2>2. Len(t) - at.idx \in Left
    BY <1>0, <2>1
  <2> QED BY <2>2
<1>3. PICK k \in Left : \A j \in Left : k <= j
  <2> HIDE DEF Left
  <2> QED BY <1>2, LeastOf
<1>4. PICK at \in Bad : k = Len(t) - at.idx
  OBVIOUS
<1>5. ASSUME NEW w \in WalksIn(N, t), w.idx > at.idx PROVE h[w] = FarFrom(N, P, t, w)
  <2>1. Len(t) - w.idx \notin Left
    <3>1. ~ (k <= Len(t) - w.idx)
      BY <1>0, <1>4, <1>5
    <3> HIDE DEF Left
    <3> QED BY <1>3, <3>1
  <2>2. w \notin Bad
    BY <1>0, <2>1
  <2> QED BY <2>2
<1>6. WalkStep(h, N, t, at) = FarFrom(N, P, t, at)
  BY <1>5, WalkIsFar
<1> QED BY <1>6

LEMMA ReachedFar ==
  ASSUME NEW c, NEW P, IsTrie(c.nodes, P), NEW t \in Text
  PROVE  Reached(c, t) = FarFrom(c.nodes, P, t, Start)
<1> DEFINE W == WalksIn(c.nodes, t)
           g == [at \in W |-> FarFrom(c.nodes, P, t, at)]
           h == CHOOSE f : f = [at \in W |-> WalkStep(f, c.nodes, t, at)]
<1>1. \A at \in W : g[at] = FarFrom(c.nodes, P, t, at)
  OBVIOUS
<1>2. g = [at \in W |-> WalkStep(g, c.nodes, t, at)]
  <2>1. \A at \in W : WalkStep(g, c.nodes, t, at) = FarFrom(c.nodes, P, t, at)
    <3> TAKE at \in W
    <3> HIDE DEF g
    <3>1. \A w \in WalksIn(c.nodes, t) : w.idx > at.idx => g[w] = FarFrom(c.nodes, P, t, w)
      BY <1>1
    <3> QED BY <3>1, WalkIsFar
  <2> QED BY <2>1
<1>3. Reached(c, t) = h[Start]
  BY DEF Reached, WalkStep, Walks, WalksIn
<1>4. h = [at \in W |-> WalkStep(h, c.nodes, t, at)]
  <2> HIDE DEF g
  <2> QED BY <1>2
<1>5. \A at \in W : h[at] = WalkStep(h, c.nodes, t, at)
  <2> HIDE DEF h
  <2> QED BY <1>4
<1>6. \A at \in W : h[at] = g[at]
  <2> HIDE DEF g, h
  <2> QED BY <1>1, <1>5, WalkOnceFar
<1>7. Start \in W
  BY DEF Start, WalksIn, IsTrie, Text
<1> HIDE DEF g, h
<1> QED BY <1>1, <1>3, <1>6, <1>7

\* Where the walk of an insert stops: the key begins with the way there, and
\* no edge goes on along it.
StopsAt(N, P, t, r) ==
  /\ r = [node |-> r.node, idx |-> r.idx]
  /\ r.node \in DOMAIN N /\ r.idx \in 0..Len(t) /\ r.idx = Len(P[r.node])
  /\ Pre(P[r.node], t) /\ ~ Edged(N, t, r.idx, r.node)

LEMMA ReachedIs ==
  ASSUME NEW c, NEW P, IsTrie(c.nodes, P), NEW t \in Text
  PROVE  StopsAt(c.nodes, P, t, Reached(c, t))
<1>1. PICK N, K, d : N = c.nodes /\ K = OnWay(N, P, t, 0, Root) /\ d = Deepest(P, K)
  OBVIOUS
<1>2. /\ IsTrie(N, P) /\ Root \in DOMAIN N /\ 0 \in 0..Len(t) /\ Len(t) \in Nat
      /\ Len(P[Root]) = 0 /\ Pre(P[Root], t)
  BY <1>1 DEF IsTrie, Text, Pre
<1>3. K \in SUBSET DOMAIN N /\ \A m \in DOMAIN N : m \in K <=> Pre(P[m], t)
  <2>1. ASSUME NEW m \in DOMAIN N PROVE m \in K <=> Pre(P[m], t)
    <3>1. m \in K <=> m = Root \/ (Len(P[m]) > 0 /\ Pre(P[m], t))
      BY <1>1, <1>2, FollowsRoot DEF OnWay
    <3>2. m # Root => Len(P[m]) > 0
      <4> SUFFICES ASSUME m # Root PROVE Len(P[m]) > 0
        OBVIOUS
      <4>1. PICK u \in DOMAIN N : Len(P[u]) < Len(P[m])
        BY <1>2, ParentAt
      <4>2. Len(P[u]) \in Nat /\ Len(P[m]) \in Nat
        BY <1>2, WaysAre
      <4> QED BY <4>1, <4>2
    <3> QED BY <1>2, <3>1, <3>2
  <2> QED BY <1>1, <2>1 DEF OnWay
<1>4. d \in K /\ \A q \in K : Len(P[q]) <= Len(P[d])
  <2>1. K # {} /\ \A m \in K : m = Root \/ Follows(P, t, 0, Root, m)
    BY <1>1, <1>2, <1>3 DEF OnWay
  <2> QED BY <1>1, <1>2, <1>3, <2>1, DeepestIs
<1>5. PICK i : i = Len(P[d])
  OBVIOUS
<1>6. d \in DOMAIN N /\ Pre(P[d], t) /\ i \in 0..Len(t)
  <2>1. d \in DOMAIN N /\ Pre(P[d], t)
    BY <1>3, <1>4
  <2> QED BY <1>2, <1>5, <2>1, WaysAre DEF Pre
<1>7. Reached(c, t) = [node |-> d, idx |-> i]
  <2>1. FarFrom(N, P, t, Start) = [node |-> d, idx |-> 0 + (Len(P[d]) - Len(P[Root]))]
    BY <1>1 DEF FarFrom, Start
  <2>2. 0 + (i - 0) = i
    BY <1>2, <1>6
  <2> QED BY <1>1, <1>2, <1>5, <2>1, <2>2, ReachedFar
<1>8. ~ Edged(N, t, i, d)
  <2> SUFFICES ASSUME Edged(N, t, i, d) PROVE FALSE
    OBVIOUS
  <2>1. PICK e : e = N[d].children[t[i + 1]]
    OBVIOUS
  <2>2. /\ e.child \in DOMAIN N /\ Len(e.label) \in Nat \ {0}
        /\ Follows(P, t, i, d, e.child)
        /\ Len(P[e.child]) = i + Len(e.label)
    <3>1. GoesOn(N, P, t, i, d, e)
      BY <1>2, <1>6, <2>1, FollowsUp
    <3> QED BY <1>5, <3>1 DEF GoesOn
  <2>3. PICK lc, ll : lc = Len(P[e.child]) /\ ll = Len(e.label)
    OBVIOUS
  <2>4. /\ lc = i + ll /\ ll \in Nat \ {0} /\ i \in Nat /\ i + (lc - i) <= Len(t)
        /\ Pre(P[d], P[e.child])
        /\ \A j \in 1..(lc - i) : P[e.child][i + j] = t[i + j]
    <3>1. lc = i + ll /\ ll \in Nat \ {0} /\ i \in Nat
      BY <1>6, <2>2, <2>3
    <3>2. /\ i + (lc - i) <= Len(t) /\ Pre(P[d], P[e.child])
          /\ \A j \in 1..(lc - i) : P[e.child][i + j] = t[i + j]
      BY <1>5, <2>2, <2>3 DEF Follows
    <3> QED BY <3>1, <3>2
  <2>5. lc <= Len(t) /\ lc > i
    BY <1>2, <2>4
  <2>6. ASSUME NEW j \in 1..lc PROVE P[e.child][j] = t[j]
    <3>1. CASE j \in 1..i
      BY <1>5, <1>6, <2>4, <3>1 DEF Pre
    <3>2. CASE j \notin 1..i
      <4>1. j - i \in 1..(lc - i) /\ i + (j - i) = j
        BY <2>4, <3>2
      <4>2. P[e.child][i + (j - i)] = t[i + (j - i)]
        BY <2>4, <4>1
      <4> QED BY <4>1, <4>2
    <3> QED BY <3>1, <3>2
  <2>7. Pre(P[e.child], t)
    BY <2>3, <2>5, <2>6 DEF Pre
  <2>8. lc <= i
    BY <1>3, <1>4, <1>5, <2>2, <2>3, <2>7
  <2> QED BY <2>4, <2>5, <2>8
<1> QED BY <1>1, <1>5, <1>6, <1>7, <1>8 DEF StopsAt

-----------------------------------------------------------------------------
(* The nodes after each change of the trie.                                  *)

\* The node x with other children.
Rechilded(x, children) ==
  [entry |-> x.entry, children |-> children, parent |-> x.parent, token |-> x.token]
\* The node x under another parent.
Moved(x, parent, token) ==
  [entry |-> x.entry, children |-> x.children, parent |-> parent, token |-> token]

\* M is N with a leaf f under n for the key from i on.
HasLeaf(N, M, n, key, i, f) ==
  /\ DOMAIN M = DOMAIN N \cup {f} /\ M = [x \in DOMAIN M |-> M[x]]
  /\ M[f] = [entry |-> NoEntry, children |-> <<>>, parent |-> n, token |-> key[i + 1]]
  /\ M[n] = Rechilded(N[n], With(N[n].children, key[i + 1],
              [label |-> SubSeq(key, i + 1, Len(key)), child |-> f]))
  /\ \A x \in DOMAIN N \ {n} : M[x] = N[x]

LEMMA LeafNodes ==
  ASSUME NEW c, NEW n \in DOMAIN c.nodes, NodeLike(c.nodes[n]), NEW key, NEW i,
         Fresh(c) \notin DOMAIN c.nodes
  PROVE  \E M : /\ HasLeaf(c.nodes, M, n, key, i, Fresh(c))
               /\ WithLeaf(c, n, key, i) = [nodes |-> M, lru |-> c.lru]
<1>1. PICK N, f, ch, leaf, b :
        /\ N = c.nodes /\ f = Fresh(c) /\ b = c.lru
        /\ ch = With(N[n].children, key[i + 1], [label |-> SubSeq(key, i + 1, Len(key)), child |-> f])
        /\ leaf = [entry |-> NoEntry, children |-> <<>>, parent |-> n, token |-> key[i + 1]]
  OBVIOUS
<1>2. PICK O : O = [N EXCEPT ![n].children = ch]
  OBVIOUS
<1>3. PICK M : M = With(O, f, leaf)
  OBVIOUS
<1>4. WithLeaf(c, n, key, i) = [nodes |-> M, lru |-> b]
  BY <1>1, <1>2, <1>3 DEF WithLeaf
<1>5. n \in DOMAIN N /\ NodeLike(N[n]) /\ f \notin DOMAIN N
  BY <1>1
<1>6. O[n] = Rechilded(N[n], ch)
  BY ONLY <1>2, <1>5 DEF NodeLike, Rechilded
<1>7. DOMAIN O = DOMAIN N /\ \A x \in DOMAIN N \ {n} : O[x] = N[x]
  BY ONLY <1>2, <1>5
<1>8. /\ DOMAIN M = DOMAIN N \cup {f} /\ M[f] = leaf /\ \A x \in DOMAIN N : M[x] = O[x]
      /\ M = [x \in DOMAIN M |-> M[x]]
  BY ONLY <1>3, <1>5, <1>7 DEF With
<1>9. HasLeaf(N, M, n, key, i, f)
  BY <1>1, <1>5, <1>6, <1>7, <1>8 DEF HasLeaf
<1> QED BY <1>1, <1>4, <1>9

\* A function of one argument.
Only(k, v) == [x \in {k} |-> v]

\* M is N with a node f on the edge e of n, which holds what e has below.
HasSplit(N, M, n, token, e, matched, rest, f) ==
  /\ DOMAIN M = DOMAIN N \cup {f} /\ M = [x \in DOMAIN M |-> M[x]]
  /\ M[f] = [entry |-> NoEntry, parent |-> n, token |-> token,
             children |-> Only(rest[1], [label |-> rest, child |-> e.child])]
  /\ M[n] = Rechilded(N[n], [N[n].children EXCEPT ![token] =
              [label |-> SubSeq(e.label, 1, matched), child |-> f]])
  /\ M[e.child] = Moved(N[e.child], f, rest[1])
  /\ \A x \in DOMAIN N \ {n, e.child} : M[x] = N[x]

SplitTo(c, n, token, e, matched, rest) ==
  \E M : /\ HasSplit(c.nodes, M, n, token, e, matched, rest, Fresh(c))
         /\ WithSplit(c, n, token, matched) = [nodes |-> M, lru |-> c.lru]

LEMMA SplitNodes ==
  ASSUME NEW c, NEW n \in DOMAIN c.nodes, NodeLike(c.nodes[n]),
         NEW token \in DOMAIN c.nodes[n].children, NEW matched,
         NEW e, e = c.nodes[n].children[token], e.child \in DOMAIN c.nodes \ {n},
         NodeLike(c.nodes[e.child]), Fresh(c) \notin DOMAIN c.nodes,
         NEW rest, rest = SubSeq(e.label, matched + 1, Len(e.label))
  PROVE  SplitTo(c, n, token, e, matched, rest)
<1>1. PICK N, f, mid, top, b, q :
        /\ N = c.nodes /\ f = Fresh(c) /\ b = c.lru /\ q = e.child
        /\ top = [label |-> SubSeq(e.label, 1, matched), child |-> f]
        /\ mid = [entry |-> NoEntry, parent |-> n, token |-> token,
                  children |-> Only(rest[1], [label |-> rest, child |-> q])]
  OBVIOUS
<1>2. PICK O : O = [N EXCEPT ![n].children[token] = top, ![q].parent = f, ![q].token = rest[1]]
  OBVIOUS
<1>3. PICK M : M = With(O, f, mid)
  OBVIOUS
<1>4. WithSplit(c, n, token, matched) = [nodes |-> M, lru |-> b]
  BY <1>1, <1>2, <1>3 DEF WithSplit, Only
<1>5. /\ n \in DOMAIN N /\ NodeLike(N[n]) /\ f \notin DOMAIN N
      /\ q \in DOMAIN N /\ q # n /\ NodeLike(N[q])
  BY <1>1
<1>6. O[n] = Rechilded(N[n], [N[n].children EXCEPT ![token] = top])
  BY ONLY <1>2, <1>5 DEF NodeLike, Rechilded
<1>7. O[q] = Moved(N[q], f, rest[1])
  BY ONLY <1>2, <1>5 DEF NodeLike, Moved
<1>8. DOMAIN O = DOMAIN N /\ \A x \in DOMAIN N \ {n, q} : O[x] = N[x]
  BY ONLY <1>2, <1>5
<1>9. /\ DOMAIN M = DOMAIN N \cup {f} /\ M[f] = mid /\ \A x \in DOMAIN N : M[x] = O[x]
      /\ M = [x \in DOMAIN M |-> M[x]]
  BY ONLY <1>3, <1>5, <1>8 DEF With
<1>10. HasSplit(N, M, n, token, e, matched, rest, f)
  BY <1>1, <1>6, <1>7, <1>8, <1>9 DEF HasSplit
<1> QED BY <1>1, <1>4, <1>10 DEF SplitTo

\* M is N without the node n, which has no children.
HasDropped(N, M, n, up, token) ==
  /\ DOMAIN M = DOMAIN N \ {n} /\ M = [x \in DOMAIN M |-> M[x]]
  /\ M[up] = Rechilded(N[up], Without(N[up].children, token))
  /\ \A x \in DOMAIN N \ {n, up} : M[x] = N[x]

LEMMA DroppedNodes ==
  ASSUME NEW c, NEW n \in DOMAIN c.nodes, n # Root,
         c.nodes[n].entry = NoEntry, DOMAIN c.nodes[n].children = {},
         NEW up, up = c.nodes[n].parent, up \in DOMAIN c.nodes \ {n}, NodeLike(c.nodes[up]),
         NEW token, token = c.nodes[n].token
  PROVE  \E M : /\ HasDropped(c.nodes, M, n, up, token)
               /\ PruneTurn(c, n) = [cache |-> [nodes |-> M, lru |-> c.lru], node |-> up]
<1>1. PICK N, ch, b : N = c.nodes /\ ch = Without(N[up].children, token) /\ b = c.lru
  OBVIOUS
<1>2. PICK O : O = [N EXCEPT ![up].children = ch]
  OBVIOUS
<1>3. PICK M : M = Without(O, n)
  OBVIOUS
<1>4. PruneTurn(c, n) = [cache |-> [nodes |-> M, lru |-> b], node |-> up]
  <2>1. ~ (Cardinality(DOMAIN c.nodes[n].children) > 1)
    BY FS_EmptySet
  <2> QED BY <1>1, <1>2, <1>3, <2>1 DEF PruneTurn
<1>5. n \in DOMAIN N /\ up \in DOMAIN N /\ up # n /\ NodeLike(N[up])
  BY <1>1
<1>6. O[up] = Rechilded(N[up], ch)
  BY ONLY <1>2, <1>5 DEF NodeLike, Rechilded
<1>7. DOMAIN O = DOMAIN N /\ \A x \in DOMAIN N \ {up} : O[x] = N[x]
  BY ONLY <1>2, <1>5
<1>8. /\ DOMAIN M = DOMAIN N \ {n} /\ \A x \in DOMAIN N \ {n} : M[x] = O[x]
      /\ M = [x \in DOMAIN M |-> M[x]]
  BY ONLY <1>3, <1>5, <1>7 DEF Without
<1>9. HasDropped(N, M, n, up, token)
  BY <1>1, <1>5, <1>6, <1>7, <1>8 DEF HasDropped
<1> QED BY <1>1, <1>4, <1>9

\* M is N without the node n, whose only edge e is joined to the one to n.
HasMerged(N, M, n, e, up, token) ==
  /\ DOMAIN M = DOMAIN N \ {n} /\ M = [x \in DOMAIN M |-> M[x]]
  /\ M[up] = Rechilded(N[up], [N[up].children EXCEPT ![token] =
               [label |-> N[up].children[token].label \o e.label, child |-> e.child]])
  /\ M[e.child] = Moved(N[e.child], up, token)
  /\ \A x \in DOMAIN N \ {n, up, e.child} : M[x] = N[x]

LEMMA MergedNodes ==
  ASSUME NEW c, NEW n \in DOMAIN c.nodes, n # Root,
         c.nodes[n].entry = NoEntry, NEW tok, DOMAIN c.nodes[n].children = {tok},
         NEW e, e = c.nodes[n].children[tok],
         NEW up, up = c.nodes[n].parent, up \in DOMAIN c.nodes \ {n}, NodeLike(c.nodes[up]),
         NEW token, token = c.nodes[n].token, token \in DOMAIN c.nodes[up].children,
         e.child \in DOMAIN c.nodes \ {n, up}, NodeLike(c.nodes[e.child])
  PROVE  \E M : /\ HasMerged(c.nodes, M, n, e, up, token)
               /\ PruneTurn(c, n) = [cache |-> [nodes |-> M, lru |-> c.lru], node |-> up]
<1>1. PICK N, b, q, edge :
        /\ N = c.nodes /\ b = c.lru /\ q = e.child
        /\ edge = [label |-> N[up].children[token].label \o e.label, child |-> q]
  OBVIOUS
<1>2. PICK O : O = [N EXCEPT ![up].children[token] = edge, ![q].parent = up, ![q].token = token]
  OBVIOUS
<1>3. PICK M : M = Without(O, n)
  OBVIOUS
<1>4. PruneTurn(c, n) = [cache |-> [nodes |-> M, lru |-> b], node |-> up]
  <2>1. ~ (Cardinality(DOMAIN c.nodes[n].children) > 1) /\ DOMAIN c.nodes[n].children # {}
    BY FS_Singleton
  <2>2. (CHOOSE t \in DOMAIN c.nodes[n].children : TRUE) = tok
    OBVIOUS
  <2> QED BY <1>1, <1>2, <1>3, <2>1, <2>2 DEF PruneTurn
<1>5. /\ n \in DOMAIN N /\ up \in DOMAIN N /\ up # n /\ NodeLike(N[up])
      /\ q \in DOMAIN N /\ q # n /\ q # up /\ NodeLike(N[q])
  BY <1>1
<1>6. O[up] = Rechilded(N[up], [N[up].children EXCEPT ![token] = edge])
  BY ONLY <1>2, <1>5 DEF NodeLike, Rechilded
<1>7. O[q] = Moved(N[q], up, token)
  BY ONLY <1>2, <1>5 DEF NodeLike, Moved
<1>8. DOMAIN O = DOMAIN N /\ \A x \in DOMAIN N \ {up, q} : O[x] = N[x]
  BY ONLY <1>2, <1>5
<1>9. /\ DOMAIN M = DOMAIN N \ {n} /\ \A x \in DOMAIN N \ {n} : M[x] = O[x]
      /\ M = [x \in DOMAIN M |-> M[x]]
  BY ONLY <1>3, <1>5, <1>8 DEF Without
<1>10. HasMerged(N, M, n, e, up, token)
  BY <1>1, <1>5, <1>6, <1>7, <1>8, <1>9 DEF HasMerged
<1> QED BY <1>1, <1>4, <1>10

-----------------------------------------------------------------------------
(* Each change leaves a trie, with the same ways to the nodes that stay.     *)

\* What t goes on with after a prefix of it.
Rest(p, t, rest) ==
  /\ rest \in Text /\ p \o rest = t /\ Len(rest) = Len(t) - Len(p)
  /\ \A j \in 1..Len(rest) : rest[j] = t[Len(p) + j]

LEMMA RestIs ==
  ASSUME NEW p \in Text, NEW t \in Text, Pre(p, t), NEW rest, rest = SubSeq(t, Len(p) + 1, Len(t))
  PROVE  Rest(p, t, rest)
<1>1. Len(p) \in Nat /\ Len(t) \in Nat /\ Len(p) <= Len(t)
  BY DEF Text, Pre
<1>2. /\ rest \in Text /\ Len(rest) = Len(t) - Len(p)
      /\ \A j \in 1..(Len(t) - Len(p)) : rest[j] = t[Len(p) + j]
  BY <1>1, PartIs
<1>3. PICK q : q = p \o rest
  OBVIOUS
<1>4. /\ q \in Text /\ Len(q) = Len(p) + Len(rest) /\ Pre(p, q)
      /\ \A j \in 1..Len(rest) : q[Len(p) + j] = rest[j]
  BY <1>2, <1>3, JoinIs
<1>5. PICK lp, lt, lr : lp = Len(p) /\ lt = Len(t) /\ lr = Len(rest)
  OBVIOUS
<1>6. lp \in Nat /\ lt \in Nat /\ lr = lt - lp /\ lp <= lt /\ Len(q) = lp + lr
  BY <1>1, <1>2, <1>4, <1>5
<1>7. ASSUME NEW j \in 1..lt PROVE q[j] = t[j]
  <2>1. CASE j \in 1..lp
    <3>1. q[j] = p[j] /\ t[j] = p[j]
      BY <1>4, <1>5, <2>1 DEF Pre
    <3> QED BY <3>1
  <2>2. CASE j \notin 1..lp
    <3>1. PICK k \in 1..lr : j = lp + k
      <4>1. j - lp \in 1..lr /\ j = lp + (j - lp)
        BY <1>6, <2>2
      <4> QED BY <4>1
    <3>2. q[lp + k] = rest[k] /\ rest[k] = t[lp + k]
      BY <1>2, <1>4, <1>5, <1>6, <3>1
    <3> QED BY <3>1, <3>2
  <2> QED BY <2>1, <2>2
<1>8. q \in Seq(Nat) /\ t \in Seq(Nat) /\ Len(q) = Len(t)
  BY <1>4, <1>5, <1>6 DEF Text
<1>9. q = t
  BY <1>5, <1>7, <1>8, SeqEqual
<1> QED BY <1>2, <1>3, <1>9 DEF Rest

\* A label cut in two.
IsCut(l, k, a, b) ==
  /\ a \in Text /\ b \in Text /\ a \o b = l /\ Len(a) = k /\ Len(b) = Len(l) - k
  /\ a[1] = l[1] /\ b[1] = l[k + 1]

LEMMA CutIs ==
  ASSUME NEW l \in Text, NEW k \in 1..(Len(l) - 1), NEW a, a = SubSeq(l, 1, k),
         NEW b, b = SubSeq(l, k + 1, Len(l))
  PROVE  IsCut(l, k, a, b)
<1>1. PICK z : z = 0
  OBVIOUS
<1>2. /\ Len(l) \in Nat /\ k \in Nat /\ z \in Nat /\ z <= k /\ k <= Len(l)
      /\ z + 1 = 1 /\ k - z = k /\ \A j \in 1..k : z + j = j
  BY <1>1 DEF Text
<1>3. /\ SubSeq(l, z + 1, k) \in Text /\ Len(SubSeq(l, z + 1, k)) = k - z
      /\ \A j \in 1..(k - z) : SubSeq(l, z + 1, k)[j] = l[z + j]
  BY ONLY <1>2, PartIs, l \in Text
<1>4. a \in Text /\ Len(a) = k /\ \A j \in 1..k : a[j] = l[j]
  BY ONLY <1>2, <1>3, a = SubSeq(l, 1, k)
<1>5. Pre(a, l)
  BY <1>2, <1>4 DEF Pre
<1>6. Rest(a, l, b)
  <2>1. b = SubSeq(l, Len(a) + 1, Len(l))
    BY <1>4
  <2> QED BY ONLY <1>4, <1>5, <2>1, RestIs, l \in Text
<1>7. 1 \in 1..k /\ 1 \in 1..(Len(l) - k)
  BY <1>2
<1> QED BY <1>4, <1>6, <1>7 DEF Rest, IsCut

LEMMA EdgeKept ==
  ASSUME NEW N, NEW P, NEW M, NEW Q, NEW n, NEW tok, NEW e, EdgeIs(N, P, n, tok, e),
         e.child \in DOMAIN M, Q[n] = P[n], Q[e.child] = P[e.child],
         M[e.child].parent = N[e.child].parent, M[e.child].token = N[e.child].token
  PROVE  EdgeIs(M, Q, n, tok, e)
BY DEF EdgeIs

LEMMA ParentKept ==
  ASSUME NEW N, NEW M, NEW m, ParentIs(N, m),
         M[m].parent = N[m].parent, M[m].token = N[m].token,
         N[m].parent \in DOMAIN M, N[m].token \in DOMAIN M[N[m].parent].children,
         M[N[m].parent].children[N[m].token] = N[N[m].parent].children[N[m].token]
  PROVE  ParentIs(M, m)
BY DEF ParentIs

\* The facts of a trie, one by one.
LEMMA TrieGives ==
  ASSUME NEW N, NEW P, IsTrie(N, P)
  PROVE  /\ IsFiniteSet(DOMAIN N) /\ DOMAIN N \subseteq Nat \ {NoNode} /\ Root \in DOMAIN N
         /\ \A n \in DOMAIN N : NodeLike(N[n])
         /\ \A n \in DOMAIN N : P[n] \in Text
         /\ P[Root] = <<>>
         /\ \A n \in DOMAIN N : \A tok \in DOMAIN N[n].children :
              EdgeIs(N, P, n, tok, N[n].children[tok])
         /\ \A m \in DOMAIN N \ {Root} : ParentIs(N, m)
BY DEF IsTrie

LEMMA LeafKeeps ==
  ASSUME NEW N, NEW P, IsTrie(N, P), NEW n \in DOMAIN N, NEW key \in Text, NEW i,
         i = Len(P[n]), Pre(P[n], key), i < Len(key), key[i + 1] \notin DOMAIN N[n].children,
         NEW f \in Nat \ {NoNode}, f \notin DOMAIN N, NEW M, HasLeaf(N, M, n, key, i, f),
         NEW Q, Q = [x \in DOMAIN M |-> IF x = f THEN key ELSE P[x]]
  PROVE  IsTrie(M, Q)
<1> DEFINE edge == [label |-> SubSeq(key, i + 1, Len(key)), child |-> f]
           tok == key[i + 1]
<1>1. /\ DOMAIN M = DOMAIN N \cup {f} /\ M = [x \in DOMAIN M |-> M[x]]
      /\ M[f] = [entry |-> NoEntry, children |-> <<>>, parent |-> n, token |-> tok]
      /\ M[n] = Rechilded(N[n], With(N[n].children, tok, edge))
      /\ \A x \in DOMAIN N \ {n} : M[x] = N[x]
  BY DEF HasLeaf
<1>2. Q[f] = key /\ \A x \in DOMAIN N : Q[x] = P[x]
  BY <1>1
<1>3. P[n] \in Text /\ Len(P[n]) \in Nat /\ Len(key) \in Nat
  BY WaysAre DEF Text
<1>4. /\ edge.label \in Text /\ key = P[n] \o edge.label /\ Len(edge.label) > 0
      /\ edge.label[1] = tok /\ edge.child = f /\ edge = [label |-> edge.label, child |-> edge.child]
  <2>1. PICK rest : rest = SubSeq(key, Len(P[n]) + 1, Len(key))
    OBVIOUS
  <2>2. Rest(P[n], key, rest)
    <3>1. PICK p : p = P[n]
      OBVIOUS
    <3>2. p \in Text /\ Pre(p, key) /\ rest = SubSeq(key, Len(p) + 1, Len(key))
      BY <1>3, <2>1, <3>1
    <3>3. Rest(p, key, rest)
      BY ONLY <3>2, RestIs, key \in Text
    <3> QED BY <3>1, <3>3
  <2>3. Len(rest) > 0 /\ 1 \in 1..Len(rest)
    BY <1>3, <2>2 DEF Rest
  <2>4. rest[1] = tok
    BY <2>2, <2>3 DEF Rest
  <2> QED BY <2>1, <2>2, <2>3, <2>4 DEF Rest
<1> HIDE DEF edge, tok
<1>5. /\ M[f].children = <<>> /\ M[f].parent = n /\ M[f].token = tok
      /\ DOMAIN M[n].children = DOMAIN N[n].children \cup {tok}
      /\ M[n].children[tok] = edge
      /\ \A x \in DOMAIN N : \A k \in DOMAIN N[x].children :
            k \in DOMAIN M[x].children /\ M[x].children[k] = N[x].children[k]
      /\ \A x \in DOMAIN N \ {n} : M[x].children = N[x].children
      /\ \A x \in DOMAIN N : M[x].parent = N[x].parent /\ M[x].token = N[x].token
  <2>1. tok \notin DOMAIN N[n].children
    BY DEF tok
  <2> QED BY <1>1, <2>1 DEF Rechilded, With
<1>6. \A x \in DOMAIN M : NodeLike(M[x])
  <2>1. NodeLike(M[f])
    BY <1>1 DEF NodeLike
  <2>2. NodeLike(M[n])
    BY <1>1 DEF NodeLike, Rechilded, With
  <2> QED BY <1>1, <2>1, <2>2, TrieGives
<1>7. ASSUME NEW x \in DOMAIN M, NEW k \in DOMAIN M[x].children
      PROVE  EdgeIs(M, Q, x, k, M[x].children[k])
  <2>1. x # f
    BY <1>5
  <2>2. CASE x = n /\ k = tok
    <3>1. EdgeIs(M, Q, n, tok, edge)
      <4>1. f \in DOMAIN M \ {Root}
        BY <1>1, TrieGives
      <4> QED BY <1>2, <1>4, <1>5, <4>1 DEF EdgeIs
    <3> QED BY <1>5, <2>2, <3>1
  <2>3. CASE ~ (x = n /\ k = tok)
    <3>1. x \in DOMAIN N /\ k \in DOMAIN N[x].children
      BY <1>1, <1>5, <2>1, <2>3
    <3>2. PICK e : e = N[x].children[k]
      OBVIOUS
    <3>3. EdgeIs(N, P, x, k, e) /\ e.child \in DOMAIN N
      <4>1. EdgeIs(N, P, x, k, e)
        BY <3>1, <3>2 DEF IsTrie
      <4> QED BY <4>1 DEF EdgeIs
    <3>4. EdgeIs(M, Q, x, k, e)
      <4>1. e.child \in DOMAIN M /\ Q[x] = P[x] /\ Q[e.child] = P[e.child]
        BY <1>1, <1>2, <3>1, <3>3
      <4> QED BY <1>5, <3>3, <4>1, EdgeKept
    <3> QED BY <1>5, <3>1, <3>2, <3>4
  <2> QED BY <2>2, <2>3
<1>8. ASSUME NEW m \in DOMAIN M \ {Root} PROVE ParentIs(M, m)
  <2>1. CASE m = f
    BY <1>1, <1>4, <1>5, <2>1 DEF ParentIs
  <2>2. CASE m # f
    <3>1. m \in DOMAIN N /\ ParentIs(N, m)
      BY <1>1, <2>2, TrieGives
    <3>2. N[m].parent \in DOMAIN N /\ N[m].token \in DOMAIN N[N[m].parent].children
      BY <3>1 DEF ParentIs
    <3> QED BY <1>1, <1>5, <3>1, <3>2, ParentKept
  <2> QED BY <2>1, <2>2
<1>9. IsFiniteSet(DOMAIN M) /\ DOMAIN M \subseteq Nat \ {NoNode} /\ Root \in DOMAIN M
  BY <1>1, TrieGives, FS_AddElement
<1>10. Q \in [DOMAIN M -> Text] /\ Q[Root] = <<>>
  <2>1. \A x \in DOMAIN M : (IF x = f THEN key ELSE P[x]) \in Text
    BY <1>1, TrieGives
  <2>2. Root \in DOMAIN N /\ P[Root] = <<>>
    BY TrieGives
  <2> QED BY <1>2, <2>1, <2>2
<1> QED BY <1>1, <1>6, <1>7, <1>8, <1>9, <1>10 DEF IsTrie

LEMMA JoinTwice ==
  ASSUME NEW x \in Text, NEW y \in Text, NEW z \in Text
  PROVE  (x \o y) \o z = x \o (y \o z)
<1>1. x \in Seq(Nat) /\ y \in Seq(Nat) /\ z \in Seq(Nat)
  BY DEF Text
<1> QED BY ONLY <1>1, ConcatAssociative

\* The edge e of n for its token, cut into a and what is left of its label.
Cut(P, n, e, matched, a, rest, way) ==
  /\ a \in Text /\ rest \in Text /\ Len(a) = matched /\ Len(a) > 0 /\ Len(rest) > 0
  /\ a[1] = e.label[1] /\ rest[1] = e.label[matched + 1]
  /\ way = P[n] \o a /\ way \in Text /\ Len(way) = Len(P[n]) + matched
  /\ P[e.child] = way \o rest

LEMMA CutGives ==
  ASSUME NEW N, NEW P, IsTrie(N, P), NEW n \in DOMAIN N, NEW token, NEW e,
         EdgeIs(N, P, n, token, e), NEW matched \in 1..(Len(e.label) - 1),
         NEW a, a = SubSeq(e.label, 1, matched),
         NEW rest, rest = SubSeq(e.label, matched + 1, Len(e.label)),
         NEW way, way = P[n] \o a
  PROVE  Cut(P, n, e, matched, a, rest, way)
<1>1. PICK l, p, q : l = e.label /\ p = P[n] /\ q = P[e.child]
  OBVIOUS
<1>2. l \in Text /\ p \in Text /\ Len(l) \in Nat /\ q = p \o l
  <2>1. l \in Text /\ q = p \o l
    BY <1>1 DEF EdgeIs
  <2>2. p \in Text
    BY <1>1, WaysAre
  <2> QED BY <2>1, <2>2 DEF Text
<1>3. /\ matched \in 1..(Len(l) - 1) /\ a = SubSeq(l, 1, matched)
      /\ rest = SubSeq(l, matched + 1, Len(l)) /\ way = p \o a
  BY <1>1
<1>4. IsCut(l, matched, a, rest)
  BY ONLY <1>2, <1>3, CutIs
<1>c. /\ a \in Text /\ rest \in Text /\ a \o rest = l /\ Len(a) = matched
      /\ Len(rest) = Len(l) - matched /\ a[1] = l[1] /\ rest[1] = l[matched + 1]
  BY ONLY <1>4 DEF IsCut
<1>5. way \in Text /\ Len(way) = Len(p) + matched
  BY ONLY <1>2, <1>3, <1>c, JoinIs
<1>6. q = way \o rest
  <2>2. (p \o a) \o rest = p \o (a \o rest)
    BY ONLY <1>2, <1>c, JoinTwice
  <2> QED BY ONLY <1>2, <1>3, <1>c, <2>2
<1>7. Len(a) > 0 /\ Len(rest) > 0
  BY ONLY <1>2, <1>3, <1>c
<1> QED BY ONLY <1>1, <1>3, <1>c, <1>5, <1>6, <1>7 DEF Cut

\* The ways after the split, and the edge that is split.
SplitOf(N, P, M, Q, n, token, e, matched, rest, way, f) ==
  /\ n \in DOMAIN N /\ token \in DOMAIN N[n].children /\ e = N[n].children[token]
  /\ matched \in 1..(Len(e.label) - 1)
  /\ rest = SubSeq(e.label, matched + 1, Len(e.label))
  /\ way = P[n] \o SubSeq(e.label, 1, matched)
  /\ f \in Nat \ {NoNode} /\ f \notin DOMAIN N
  /\ HasSplit(N, M, n, token, e, matched, rest, f)
  /\ Q = [x \in DOMAIN M |-> IF x = f THEN way ELSE P[x]]

LEMMA SplitKeeps ==
  ASSUME NEW N, NEW P, IsTrie(N, P), NEW M, NEW Q, NEW n, NEW token, NEW e, NEW matched,
         NEW rest, NEW way, NEW f, SplitOf(N, P, M, Q, n, token, e, matched, rest, way, f)
  PROVE  IsTrie(M, Q)
<1>0. /\ n \in DOMAIN N /\ token \in DOMAIN N[n].children /\ e = N[n].children[token]
      /\ matched \in 1..(Len(e.label) - 1)
      /\ rest = SubSeq(e.label, matched + 1, Len(e.label))
      /\ way = P[n] \o SubSeq(e.label, 1, matched)
      /\ f \in Nat \ {NoNode} /\ f \notin DOMAIN N
      /\ HasSplit(N, M, n, token, e, matched, rest, f)
      /\ Q = [x \in DOMAIN M |-> IF x = f THEN way ELSE P[x]]
  BY DEF SplitOf
<1>g. f \in Nat \ {NoNode} /\ f \notin DOMAIN N /\ e = N[n].children[token] /\ n \in DOMAIN N
  BY ONLY <1>0
<1>1. EdgeIs(N, P, n, token, e)
  BY <1>0 DEF IsTrie
<1>2. PICK a : a = SubSeq(e.label, 1, matched)
  OBVIOUS
<1>3. Cut(P, n, e, matched, a, rest, way)
  BY <1>0, <1>1, <1>2, CutGives
<1>4. /\ e.child \in DOMAIN N /\ e.child # Root /\ e.child # n /\ e.child # f
      /\ N[e.child].parent = n /\ N[e.child].token = token
  <2>1. /\ e.child \in DOMAIN N /\ e.child # Root
        /\ N[e.child].parent = n /\ N[e.child].token = token
    BY <1>1 DEF EdgeIs
  <2>2. Adds(N, P, n, token, e)
    BY <1>0, ChildAt
  <2>3. Len(P[e.child]) # Len(P[n])
    <3>1. /\ Len(e.label) \in Nat \ {0} /\ Len(P[n]) \in Nat
          /\ Len(P[e.child]) = Len(P[n]) + Len(e.label)
      BY <2>2 DEF Adds
    <3>2. PICK x, y, z : x = Len(P[n]) /\ y = Len(e.label) /\ z = Len(P[e.child])
      OBVIOUS
    <3>3. x \in Nat /\ y \in Nat \ {0} /\ z = x + y
      BY ONLY <3>1, <3>2
    <3>4. z # x
      BY ONLY <3>3
    <3> QED BY ONLY <3>2, <3>4
  <2> QED BY <1>g, <2>1, <2>3
<1>5. /\ DOMAIN M = DOMAIN N \cup {f} /\ M = [x \in DOMAIN M |-> M[x]]
      /\ M[f] = [entry |-> NoEntry, parent |-> n, token |-> token,
                 children |-> Only(rest[1], [label |-> rest, child |-> e.child])]
      /\ M[n] = Rechilded(N[n], [N[n].children EXCEPT ![token] = [label |-> a, child |-> f]])
      /\ M[e.child] = Moved(N[e.child], f, rest[1])
      /\ \A x \in DOMAIN N \ {n, e.child} : M[x] = N[x]
  BY <1>0, <1>2 DEF HasSplit
<1>k. DOMAIN M = DOMAIN N \cup {f} /\ \A x \in DOMAIN N \ {n, e.child} : M[x] = N[x]
  BY ONLY <1>5
<1>6. Q[f] = way /\ \A x \in DOMAIN N : Q[x] = P[x]
  BY <1>0, <1>5
<1>7. \A x \in DOMAIN N : NodeLike(N[x])
  BY TrieGives
<1>f. /\ DOMAIN M[f].children = {rest[1]}
      /\ M[f].children[rest[1]] = [label |-> rest, child |-> e.child]
      /\ M[f].parent = n /\ M[f].token = token /\ NodeLike(M[f])
  <2>1. PICK m, r : m = M[f] /\ r = [label |-> rest, child |-> e.child]
    OBVIOUS
  <2>2. m = [entry |-> NoEntry, parent |-> n, token |-> token, children |-> Only(rest[1], r)]
    BY <1>5, <2>1
  <2>3. /\ DOMAIN m.children = {rest[1]} /\ m.children[rest[1]] = r
        /\ m.parent = n /\ m.token = token /\ NodeLike(m)
    BY ONLY <2>2 DEF NodeLike, Only
  <2> QED BY <2>1, <2>3
<1>n. /\ M[n].children[token] = [label |-> a, child |-> f]
      /\ DOMAIN M[n].children = DOMAIN N[n].children
      /\ \A k \in DOMAIN N[n].children : k # token => M[n].children[k] = N[n].children[k]
      /\ M[n].parent = N[n].parent /\ M[n].token = N[n].token /\ NodeLike(M[n])
  <2>1. PICK m, o, r : m = M[n] /\ o = N[n] /\ r = [label |-> a, child |-> f]
    OBVIOUS
  <2>2. m = Rechilded(o, [o.children EXCEPT ![token] = r]) /\ token \in DOMAIN o.children
    BY <1>0, <1>5, <2>1
  <2>3. /\ m.children[token] = r /\ DOMAIN m.children = DOMAIN o.children
        /\ \A k \in DOMAIN o.children : k # token => m.children[k] = o.children[k]
        /\ m.parent = o.parent /\ m.token = o.token /\ NodeLike(m)
    BY ONLY <2>2 DEF NodeLike, Rechilded
  <2> QED BY <2>1, <2>3
<1>e. /\ M[e.child].children = N[e.child].children
      /\ M[e.child].parent = f /\ M[e.child].token = rest[1] /\ NodeLike(M[e.child])
  <2>1. PICK m, o : m = M[e.child] /\ o = N[e.child]
    OBVIOUS
  <2>2. m = Moved(o, f, rest[1]) /\ NodeLike(o)
    BY <1>4, <1>5, <1>7, <2>1
  <2>3. /\ m.children = o.children /\ m.parent = f /\ m.token = rest[1] /\ NodeLike(m)
    BY ONLY <2>2 DEF NodeLike, Moved
  <2> QED BY <2>1, <2>3
<1>8. /\ \A x \in DOMAIN N : DOMAIN M[x].children = DOMAIN N[x].children
      /\ \A x \in DOMAIN N : \A k \in DOMAIN N[x].children :
            x # n \/ k # token => M[x].children[k] = N[x].children[k]
      /\ \A x \in DOMAIN N : x # e.child =>
            M[x].parent = N[x].parent /\ M[x].token = N[x].token
  <2>1. ASSUME NEW x \in DOMAIN N
        PROVE  /\ DOMAIN M[x].children = DOMAIN N[x].children
               /\ \A k \in DOMAIN N[x].children :
                    x # n \/ k # token => M[x].children[k] = N[x].children[k]
               /\ x # e.child => M[x].parent = N[x].parent /\ M[x].token = N[x].token
    <3>1. CASE x = n
      BY ONLY <1>n, <3>1
    <3>2. CASE x = e.child
      BY ONLY <1>e, <3>2
    <3>3. CASE x # n /\ x # e.child
      <4>1. M[x] = N[x]
        BY ONLY <1>k, <3>3, x \in DOMAIN N
      <4> QED BY ONLY <4>1
    <3> QED BY <3>1, <3>2, <3>3
  <2> QED BY ONLY <2>1
<1>9. ASSUME NEW x \in DOMAIN M PROVE NodeLike(M[x])
  <2>1. x = f \/ x = n \/ x = e.child \/ x \in DOMAIN N \ {n, e.child}
    BY <1>k
  <2> QED BY ONLY <1>7, <1>f, <1>n, <1>e, <1>k, <2>1
<1>10. ASSUME NEW x \in DOMAIN M, NEW k \in DOMAIN M[x].children
       PROVE  EdgeIs(M, Q, x, k, M[x].children[k])
  <2>1. CASE x = f
    <3>1. EdgeIs(M, Q, f, rest[1], [label |-> rest, child |-> e.child])
      <4>1. e.child \in DOMAIN M \ {Root} /\ Q[e.child] = Q[f] \o rest
        BY <1>3, <1>4, <1>k, <1>6 DEF Cut
      <4> QED BY <1>3, <1>f, <1>n, <1>e, <1>8, <4>1 DEF EdgeIs, Cut
    <3> QED BY <1>f, <1>n, <1>e, <1>8, <2>1, <3>1
  <2>2. CASE x = n /\ k = token
    <3>1. EdgeIs(M, Q, n, token, [label |-> a, child |-> f])
      <4>1. f \in DOMAIN M \ {Root} /\ Q[f] = Q[n] \o a
        BY <1>g, <1>3, <1>k, <1>6, TrieGives DEF Cut
      <4>2. a[1] = token
        BY <1>1, <1>3 DEF Cut, EdgeIs
      <4> QED BY <1>3, <1>f, <1>n, <1>e, <1>8, <4>1, <4>2 DEF EdgeIs, Cut
    <3> QED BY <1>f, <1>n, <1>e, <1>8, <2>2, <3>1
  <2>3. CASE x # f /\ ~ (x = n /\ k = token)
    <3>1. x \in DOMAIN N /\ k \in DOMAIN N[x].children
      BY <1>k, <1>f, <1>n, <1>e, <1>8, <2>3
    <3>2. PICK d : d = N[x].children[k]
      OBVIOUS
    <3>3. EdgeIs(N, P, x, k, d)
      BY <3>1, <3>2 DEF IsTrie
    <3>4. d.child \in DOMAIN N /\ N[d.child].parent = x /\ N[d.child].token = k
      BY <3>3 DEF EdgeIs
    <3>5. d.child # e.child
      BY <1>4, <2>3, <3>4
    <3>6. EdgeIs(M, Q, x, k, d)
      <4>1. /\ d.child \in DOMAIN M /\ Q[x] = P[x] /\ Q[d.child] = P[d.child]
            /\ M[d.child].parent = N[d.child].parent /\ M[d.child].token = N[d.child].token
        BY <1>k, <1>6, <1>f, <1>n, <1>e, <1>8, <3>1, <3>4, <3>5
      <4> QED BY <3>3, <4>1, EdgeKept
    <3>7. M[x].children[k] = d
      BY <1>f, <1>n, <1>e, <1>8, <2>3, <3>1, <3>2
    <3> QED BY <3>6, <3>7
  <2> QED BY <2>1, <2>2, <2>3
<1>11. ASSUME NEW m \in DOMAIN M \ {Root} PROVE ParentIs(M, m)
  <2>1. CASE m = f
    BY ONLY <1>f, <1>n, <1>4, <1>k, <2>1, <1>0 DEF ParentIs
  <2>2. CASE m = e.child
    BY ONLY <1>f, <1>e, <1>k, <2>2 DEF ParentIs
  <2>3. CASE m # f /\ m # e.child
    <3>1. m \in DOMAIN N /\ ParentIs(N, m)
      BY <1>k, <2>3, TrieGives
    <3>2. PICK u, k : u = N[m].parent /\ k = N[m].token
      OBVIOUS
    <3>3. u \in DOMAIN N /\ k \in DOMAIN N[u].children /\ N[u].children[k].child = m
      BY <3>1, <3>2 DEF ParentIs
    <3>4. u # n \/ k # token
      BY ONLY <1>g, <2>3, <3>3
    <3>5. u \in DOMAIN M /\ k \in DOMAIN M[u].children /\ M[u].children[k] = N[u].children[k]
      BY ONLY <1>k, <1>8, <3>3, <3>4
    <3>6. M[m].parent = u /\ M[m].token = k
      BY <1>f, <1>n, <1>e, <1>8, <2>3, <3>1, <3>2
    <3> QED BY <3>3, <3>5, <3>6 DEF ParentIs
  <2> QED BY <2>1, <2>2, <2>3
<1>12. IsFiniteSet(DOMAIN M) /\ DOMAIN M \subseteq Nat \ {NoNode} /\ Root \in DOMAIN M
  BY <1>g, <1>k, TrieGives, FS_AddElement
<1>13. Q \in [DOMAIN M -> Text] /\ Q[Root] = <<>>
  <2>1. \A x \in DOMAIN M : (IF x = f THEN way ELSE P[x]) \in Text
    BY <1>3, <1>k, TrieGives DEF Cut
  <2>2. Root \in DOMAIN N /\ P[Root] = <<>>
    BY TrieGives
  <2> QED BY <1>0, <1>6, <2>1, <2>2
<1> QED BY <1>5, <1>9, <1>10, <1>11, <1>12, <1>13 DEF IsTrie

\* The edge that leads to n.
UpIs(N, P, n, up, token) ==
  /\ up \in DOMAIN N /\ up # n /\ token \in DOMAIN N[up].children
  /\ N[up].children[token].child = n
  /\ Len(P[up]) \in Nat /\ Len(P[n]) \in Nat /\ Len(P[up]) < Len(P[n])

LEMMA UpOf ==
  ASSUME NEW N, NEW P, IsTrie(N, P), NEW n \in DOMAIN N \ {Root},
         NEW up, up = N[n].parent, NEW token, token = N[n].token
  PROVE  UpIs(N, P, n, up, token)
<1>1. ParentIs(N, n)
  BY TrieGives
<1>2. up \in DOMAIN N /\ token \in DOMAIN N[up].children /\ N[up].children[token].child = n
  BY <1>1 DEF ParentIs
<1>3. Len(P[up]) < Len(P[n])
  BY ParentAt
<1>4. Len(P[up]) \in Nat /\ Len(P[n]) \in Nat
  BY <1>2, WaysAre
<1>5. up # n
  BY <1>3, <1>4
<1> QED BY <1>2, <1>3, <1>4, <1>5 DEF UpIs

LEMMA DroppedKeeps ==
  ASSUME NEW N, NEW P, IsTrie(N, P), NEW n \in DOMAIN N \ {Root}, DOMAIN N[n].children = {},
         NEW up, up = N[n].parent, NEW token, token = N[n].token,
         NEW M, HasDropped(N, M, n, up, token), NEW Q, Q = [x \in DOMAIN M |-> P[x]]
  PROVE  IsTrie(M, Q)
<1>1. UpIs(N, P, n, up, token)
  BY UpOf
<1>2. up \in DOMAIN N /\ up # n /\ token \in DOMAIN N[up].children
      /\ N[up].children[token].child = n
  BY <1>1 DEF UpIs
<1>3. /\ DOMAIN M = DOMAIN N \ {n} /\ M = [x \in DOMAIN M |-> M[x]]
      /\ M[up] = Rechilded(N[up], Without(N[up].children, token))
      /\ \A x \in DOMAIN N \ {n, up} : M[x] = N[x]
  BY DEF HasDropped
<1>k. DOMAIN M = DOMAIN N \ {n} /\ \A x \in DOMAIN N \ {n, up} : M[x] = N[x]
  BY ONLY <1>3
<1>4. \A x \in DOMAIN M : Q[x] = P[x]
  OBVIOUS
<1>u. /\ DOMAIN M[up].children = DOMAIN N[up].children \ {token}
      /\ \A k \in DOMAIN N[up].children : k # token => M[up].children[k] = N[up].children[k]
      /\ M[up].parent = N[up].parent /\ M[up].token = N[up].token /\ NodeLike(M[up])
  <2>1. PICK m, o : m = M[up] /\ o = N[up]
    OBVIOUS
  <2>2. m = Rechilded(o, Without(o.children, token))
    BY <1>3, <2>1
  <2>3. /\ DOMAIN m.children = DOMAIN o.children \ {token}
        /\ \A k \in DOMAIN o.children : k # token => m.children[k] = o.children[k]
        /\ m.parent = o.parent /\ m.token = o.token /\ NodeLike(m)
    BY ONLY <2>2 DEF NodeLike, Rechilded, Without
  <2> QED BY <2>1, <2>3
<1>5. ASSUME NEW x \in DOMAIN M
      PROVE  /\ DOMAIN M[x].children \subseteq DOMAIN N[x].children
             /\ \A k \in DOMAIN N[x].children : x # up \/ k # token =>
                  k \in DOMAIN M[x].children /\ M[x].children[k] = N[x].children[k]
             /\ M[x].parent = N[x].parent /\ M[x].token = N[x].token
             /\ x = up => token \notin DOMAIN M[x].children
  <2>1. CASE x = up
    BY ONLY <1>u, <2>1
  <2>2. CASE x # up
    <3>1. M[x] = N[x]
      BY ONLY <1>k, <2>2, x \in DOMAIN M
    <3> QED BY ONLY <2>2, <3>1
  <2> QED BY <2>1, <2>2
<1>6. ASSUME NEW x \in DOMAIN M PROVE NodeLike(M[x])
  <2>1. \A y \in DOMAIN N : NodeLike(N[y])
    BY TrieGives
  <2> QED BY <1>k, <1>u, <2>1
<1>7. ASSUME NEW x \in DOMAIN M, NEW k \in DOMAIN M[x].children
      PROVE  EdgeIs(M, Q, x, k, M[x].children[k])
  <2>1. x \in DOMAIN N /\ k \in DOMAIN N[x].children /\ (x # up \/ k # token)
    BY <1>k, <1>5
  <2>2. PICK d : d = N[x].children[k]
    OBVIOUS
  <2>3. EdgeIs(N, P, x, k, d)
    BY <2>1, <2>2 DEF IsTrie
  <2>4. d.child \in DOMAIN N /\ N[d.child].parent = x /\ N[d.child].token = k
    BY <2>3 DEF EdgeIs
  <2>5. d.child \in DOMAIN M
    BY <1>k, <2>1, <2>4
  <2>6. EdgeIs(M, Q, x, k, d)
    <3>1. /\ Q[x] = P[x] /\ Q[d.child] = P[d.child]
          /\ M[d.child].parent = N[d.child].parent /\ M[d.child].token = N[d.child].token
      BY ONLY <1>4, <1>5, <2>5, x \in DOMAIN M
    <3> QED BY <2>3, <2>5, <3>1, EdgeKept
  <2>7. M[x].children[k] = d
    BY ONLY <1>5, <2>1, <2>2, x \in DOMAIN M
  <2> QED BY <2>6, <2>7
<1>8. ASSUME NEW m \in DOMAIN M \ {Root} PROVE ParentIs(M, m)
  <2>1. m \in DOMAIN N /\ m # n /\ ParentIs(N, m)
    BY <1>k, TrieGives
  <2>2. PICK u, k : u = N[m].parent /\ k = N[m].token
    OBVIOUS
  <2>3. u \in DOMAIN N /\ k \in DOMAIN N[u].children /\ N[u].children[k].child = m
    BY <2>1, <2>2 DEF ParentIs
  <2>4. u # n /\ (u # up \/ k # token)
    BY <1>2, <2>1, <2>3
  <2>5. u \in DOMAIN M /\ k \in DOMAIN M[u].children /\ M[u].children[k] = N[u].children[k]
    BY ONLY <1>k, <1>5, <2>3, <2>4
  <2>6. M[m].parent = u /\ M[m].token = k
    BY ONLY <1>5, <2>2, m \in DOMAIN M \ {Root}
  <2> QED BY ONLY <2>3, <2>5, <2>6 DEF ParentIs
<1>9. IsFiniteSet(DOMAIN M) /\ DOMAIN M \subseteq Nat \ {NoNode} /\ Root \in DOMAIN M
  BY <1>k, TrieGives, FS_RemoveElement
<1>10. Q \in [DOMAIN M -> Text] /\ Q[Root] = <<>>
  <2>1. \A x \in DOMAIN M : P[x] \in Text
    BY <1>k, TrieGives
  <2>2. P[Root] = <<>>
    BY TrieGives
  <2> QED BY <1>9, <2>1, <2>2
<1> QED BY <1>3, <1>6, <1>7, <1>8, <1>9, <1>10 DEF IsTrie

\* Two edges joined, over the node n between them.
Joined(P, up, l, e) ==
  /\ l \o e.label \in Text /\ Len(l \o e.label) > 0 /\ (l \o e.label)[1] = l[1]
  /\ P[e.child] = P[up] \o (l \o e.label)

LEMMA JoinedEdges ==
  ASSUME NEW N, NEW P, IsTrie(N, P), NEW n \in DOMAIN N, NEW tok \in DOMAIN N[n].children,
         NEW e, e = N[n].children[tok],
         NEW up \in DOMAIN N, NEW token \in DOMAIN N[up].children, NEW d,
         d = N[up].children[token], d.child = n
  PROVE  Joined(P, up, d.label, e)
<1>1. PICK x, y, p, q, r : x = d.label /\ y = e.label /\ p = P[up] /\ q = P[n] /\ r = P[e.child]
  OBVIOUS
<1>2. EdgeIs(N, P, up, token, d) /\ EdgeIs(N, P, n, tok, e)
  BY DEF IsTrie
<1>3. x \in Text /\ y \in Text /\ Len(x) > 0 /\ q = p \o x /\ r = q \o y
  BY <1>1, <1>2 DEF EdgeIs
<1>4. p \in Text
  BY <1>1, WaysAre
<1>5. r = p \o (x \o y)
  BY ONLY <1>3, <1>4, JoinTwice
<1>6. x \o y \in Text /\ Len(x \o y) = Len(x) + Len(y) /\ Pre(x, x \o y)
      /\ Len(x) \in Nat /\ Len(y) \in Nat
  BY ONLY <1>3, JoinIs
<1>7. PICK z : z = x \o y
  OBVIOUS
<1>8. z \in Text /\ Len(z) > 0 /\ z[1] = x[1]
  <2>1. z \in Text /\ Len(z) = Len(x) + Len(y) /\ Pre(x, z)
    BY ONLY <1>6, <1>7
  <2>2. Len(z) > 0 /\ 1 \in 1..Len(x)
    BY ONLY <1>3, <1>6, <2>1
  <2> QED BY ONLY <2>1, <2>2 DEF Pre
<1> QED BY ONLY <1>1, <1>5, <1>7, <1>8 DEF Joined

LEMMA MergedKeeps ==
  ASSUME NEW N, NEW P, IsTrie(N, P), NEW n \in DOMAIN N \ {Root},
         NEW tok, DOMAIN N[n].children = {tok}, NEW e, e = N[n].children[tok],
         NEW up, up = N[n].parent, NEW token, token = N[n].token,
         NEW M, HasMerged(N, M, n, e, up, token), NEW Q, Q = [x \in DOMAIN M |-> P[x]]
  PROVE  IsTrie(M, Q)
<1>1. UpIs(N, P, n, up, token)
  BY UpOf
<1>2. up \in DOMAIN N /\ up # n /\ token \in DOMAIN N[up].children
      /\ N[up].children[token].child = n
  BY <1>1 DEF UpIs
<1>p. PICK d, l : d = N[up].children[token] /\ l = d.label \o e.label
  OBVIOUS
<1>e. /\ e.child \in DOMAIN N \ {Root} /\ e.child # n /\ e.child # up
      /\ N[e.child].parent = n /\ N[e.child].token = tok
  <2>1. Adds(N, P, n, tok, e)
    BY ChildAt
  <2>2. /\ e.child \in DOMAIN N \ {Root} /\ N[e.child].parent = n /\ N[e.child].token = tok
        /\ Len(e.label) \in Nat /\ Len(P[e.child]) = Len(P[n]) + Len(e.label)
        /\ Len(e.label) # 0
    BY <2>1 DEF Adds
  <2>3. Len(P[up]) \in Nat /\ Len(P[n]) \in Nat /\ Len(P[up]) < Len(P[n])
    BY <1>1 DEF UpIs
  <2>4. PICK x, y, z, w : x = Len(P[up]) /\ y = Len(e.label) /\ z = Len(P[e.child]) /\ w = Len(P[n])
    OBVIOUS
  <2>5. x \in Nat /\ y \in Nat /\ y # 0 /\ w \in Nat /\ z = w + y /\ x < w
    BY ONLY <2>2, <2>3, <2>4
  <2>6. z # w /\ z # x
    BY ONLY <2>5
  <2>7. e.child # n /\ e.child # up
    BY ONLY <2>4, <2>6
  <2> QED BY <2>2, <2>7
<1>3. /\ DOMAIN M = DOMAIN N \ {n} /\ M = [x \in DOMAIN M |-> M[x]]
      /\ M[up] = Rechilded(N[up], [N[up].children EXCEPT ![token] = [label |-> l, child |-> e.child]])
      /\ M[e.child] = Moved(N[e.child], up, token)
      /\ \A x \in DOMAIN N \ {n, up, e.child} : M[x] = N[x]
  BY <1>p DEF HasMerged
<1>k. DOMAIN M = DOMAIN N \ {n} /\ \A x \in DOMAIN N \ {n, up, e.child} : M[x] = N[x]
  BY ONLY <1>3
<1>l. /\ l \in Text /\ Len(l) > 0 /\ l[1] = token /\ P[e.child] = P[up] \o l
  <2>1. Joined(P, up, d.label, e)
    BY <1>2, <1>p, JoinedEdges
  <2>2. EdgeIs(N, P, up, token, d)
    BY <1>2, <1>p DEF IsTrie
  <2>3. d.label[1] = token
    BY <2>2 DEF EdgeIs
  <2> QED BY ONLY <1>p, <2>1, <2>3 DEF Joined
<1>4. \A x \in DOMAIN M : Q[x] = P[x]
  OBVIOUS
<1>t. \A y \in DOMAIN N : NodeLike(N[y])
  BY TrieGives
<1>u. /\ M[up].children[token] = [label |-> l, child |-> e.child]
      /\ DOMAIN M[up].children = DOMAIN N[up].children
      /\ \A k \in DOMAIN N[up].children : k # token => M[up].children[k] = N[up].children[k]
      /\ M[up].parent = N[up].parent /\ M[up].token = N[up].token /\ NodeLike(M[up])
  <2>1. PICK m, o, r : m = M[up] /\ o = N[up] /\ r = [label |-> l, child |-> e.child]
    OBVIOUS
  <2>2. m = Rechilded(o, [o.children EXCEPT ![token] = r]) /\ token \in DOMAIN o.children
    BY <1>2, <1>3, <2>1
  <2>3. /\ m.children[token] = r /\ DOMAIN m.children = DOMAIN o.children
        /\ \A k \in DOMAIN o.children : k # token => m.children[k] = o.children[k]
        /\ m.parent = o.parent /\ m.token = o.token /\ NodeLike(m)
    BY ONLY <2>2 DEF NodeLike, Rechilded
  <2> QED BY <2>1, <2>3
<1>c. /\ M[e.child].children = N[e.child].children
      /\ M[e.child].parent = up /\ M[e.child].token = token /\ NodeLike(M[e.child])
  <2>1. PICK m, o : m = M[e.child] /\ o = N[e.child]
    OBVIOUS
  <2>2. m = Moved(o, up, token) /\ NodeLike(o)
    BY <1>e, <1>3, <1>t, <2>1
  <2>3. /\ m.children = o.children /\ m.parent = up /\ m.token = token /\ NodeLike(m)
    BY ONLY <2>2 DEF NodeLike, Moved
  <2> QED BY <2>1, <2>3
<1>5. ASSUME NEW x \in DOMAIN M
      PROVE  /\ DOMAIN M[x].children = DOMAIN N[x].children
             /\ \A k \in DOMAIN N[x].children : x # up \/ k # token =>
                  M[x].children[k] = N[x].children[k]
             /\ x # e.child => M[x].parent = N[x].parent /\ M[x].token = N[x].token
  <2>1. CASE x = up
    BY ONLY <1>u, <2>1
  <2>2. CASE x = e.child
    BY ONLY <1>c, <2>2
  <2>3. CASE x # up /\ x # e.child
    <3>1. M[x] = N[x]
      BY ONLY <1>k, <2>3, x \in DOMAIN M
    <3> QED BY ONLY <2>3, <3>1
  <2> QED BY <2>1, <2>2, <2>3
<1>6. ASSUME NEW x \in DOMAIN M PROVE NodeLike(M[x])
  <2>1. x = up \/ x = e.child \/ x \in DOMAIN N \ {n, up, e.child}
    BY <1>k
  <2> QED BY ONLY <1>k, <1>t, <1>u, <1>c, <2>1
<1>7. ASSUME NEW x \in DOMAIN M, NEW k \in DOMAIN M[x].children
      PROVE  EdgeIs(M, Q, x, k, M[x].children[k])
  <2>1. x \in DOMAIN N /\ x # n /\ k \in DOMAIN N[x].children
    BY <1>k, <1>5
  <2>a. CASE x = up /\ k = token
    <3>1. e.child \in DOMAIN M \ {Root} /\ Q[e.child] = Q[up] \o l
      BY <1>2, <1>e, <1>k, <1>l, <1>4
    <3>2. EdgeIs(M, Q, up, token, [label |-> l, child |-> e.child])
      BY <1>c, <1>l, <3>1 DEF EdgeIs
    <3> QED BY <1>u, <2>a, <3>2
  <2>b. CASE x # up \/ k # token
    <3>2. PICK b : b = N[x].children[k]
      OBVIOUS
    <3>3. EdgeIs(N, P, x, k, b)
      BY <2>1, <3>2 DEF IsTrie
    <3>4. b.child \in DOMAIN N /\ N[b.child].parent = x /\ N[b.child].token = k
      BY <3>3 DEF EdgeIs
    <3>5. b.child \in DOMAIN M /\ b.child # e.child
      BY <1>e, <1>k, <2>1, <2>b, <3>4
    <3>6. EdgeIs(M, Q, x, k, b)
      <4>1. /\ Q[x] = P[x] /\ Q[b.child] = P[b.child]
            /\ M[b.child].parent = N[b.child].parent /\ M[b.child].token = N[b.child].token
        BY ONLY <1>4, <1>5, <3>5, x \in DOMAIN M
      <4> QED BY <3>3, <3>5, <4>1, EdgeKept
    <3>7. M[x].children[k] = b
      BY ONLY <1>5, <2>1, <2>b, <3>2, x \in DOMAIN M
    <3> QED BY <3>6, <3>7
  <2> QED BY <2>a, <2>b
<1>8. ASSUME NEW m \in DOMAIN M \ {Root} PROVE ParentIs(M, m)
  <2>a. CASE m = e.child
    <3>1. up \in DOMAIN M /\ token \in DOMAIN M[up].children
          /\ M[up].children[token].child = e.child
      BY <1>2, <1>k, <1>u
    <3> QED BY <1>c, <2>a, <3>1 DEF ParentIs
  <2>b. CASE m # e.child
    <3>1. m \in DOMAIN N /\ m # n /\ ParentIs(N, m)
      BY <1>k, TrieGives
    <3>2. PICK u, k : u = N[m].parent /\ k = N[m].token
      OBVIOUS
    <3>3. u \in DOMAIN N /\ k \in DOMAIN N[u].children /\ N[u].children[k].child = m
      BY <3>1, <3>2 DEF ParentIs
    <3>4. u # n /\ (u # up \/ k # token)
      BY <1>2, <2>b, <3>1, <3>3
    <3>5. u \in DOMAIN M /\ k \in DOMAIN M[u].children /\ M[u].children[k] = N[u].children[k]
      BY ONLY <1>k, <1>5, <3>3, <3>4
    <3>6. M[m].parent = u /\ M[m].token = k
      BY ONLY <1>5, <2>b, <3>2, m \in DOMAIN M \ {Root}
    <3> QED BY ONLY <3>3, <3>5, <3>6 DEF ParentIs
  <2> QED BY <2>a, <2>b
<1>9. IsFiniteSet(DOMAIN M) /\ DOMAIN M \subseteq Nat \ {NoNode} /\ Root \in DOMAIN M
  BY <1>k, TrieGives, FS_RemoveElement
<1>10. Q \in [DOMAIN M -> Text] /\ Q[Root] = <<>>
  <2>1. \A x \in DOMAIN M : P[x] \in Text
    BY <1>k, TrieGives
  <2>2. P[Root] = <<>>
    BY TrieGives
  <2> QED BY <1>9, <2>1, <2>2
<1> QED BY <1>3, <1>6, <1>7, <1>8, <1>9, <1>10 DEF IsTrie

-----------------------------------------------------------------------------
(* Pruning.                                                                  *)

\* The nodes M are some of the nodes N: as they are there, and those that
\* have an entry all.
Within(M, Q, N, P) ==
  /\ DOMAIN M \subseteq DOMAIN N
  /\ \A x \in DOMAIN M : M[x].entry = N[x].entry /\ Q[x] = P[x]
  /\ \A x \in DOMAIN N \ DOMAIN M : N[x].entry = NoEntry

LEMMA WithinSelf == ASSUME NEW N, NEW P PROVE Within(N, P, N, P)
BY DEF Within

LEMMA WithinTrans ==
  ASSUME NEW L, NEW O, NEW M, NEW Q, NEW N, NEW P, Within(L, O, M, Q), Within(M, Q, N, P)
  PROVE  Within(L, O, N, P)
BY DEF Within

LEMMA ChildrenFinite ==
  ASSUME NEW N, NEW P, IsTrie(N, P), NEW n \in DOMAIN N
  PROVE  IsFiniteSet(DOMAIN N[n].children)
<1> DEFINE S == DOMAIN N[n].children
           f == [k \in S |-> N[n].children[k].child]
<1>1. ASSUME NEW k \in S
      PROVE  N[n].children[k].child \in DOMAIN N /\ N[N[n].children[k].child].token = k
  <2>1. EdgeIs(N, P, n, k, N[n].children[k])
    BY DEF IsTrie
  <2> QED BY <2>1 DEF EdgeIs
<1>2. f \in [S -> DOMAIN N]
  BY <1>1
<1>3. ASSUME NEW a \in S, NEW b \in S, f[a] = f[b] PROVE a = b
  BY <1>1, <1>3
<1>4. IsFiniteSet(DOMAIN N)
  BY DEF IsTrie
<1>5. f \in Injection(S, DOMAIN N)
  <2> HIDE DEF f, S
  <2> QED BY <1>2, <1>3, Fun_IsInj
<1> HIDE DEF f, S
<1>6. IsFiniteSet(S)
  BY <1>4, <1>5, FS_Injection
<1> QED BY <1>6 DEF S

\* What pruning makes of the cache c.
TurnIs(c, P, r) ==
  /\ r = [cache |-> r.cache, node |-> r.node]
  /\ r.cache = [nodes |-> r.cache.nodes, lru |-> c.lru]
  /\ r.node \in DOMAIN r.cache.nodes
  /\ \E Q : IsTrie(r.cache.nodes, Q) /\ Within(r.cache.nodes, Q, c.nodes, P)

LEMMA TurnMakes ==
  ASSUME NEW c, NEW P, NEW r, NEW M, NEW Q, NEW up, up \in DOMAIN M,
         r = [cache |-> [nodes |-> M, lru |-> c.lru], node |-> up],
         IsTrie(M, Q), Within(M, Q, c.nodes, P)
  PROVE  TurnIs(c, P, r)
<1>1. PICK d : d = [nodes |-> M, lru |-> c.lru]
  OBVIOUS
<1>2. d.nodes = M /\ d = [nodes |-> d.nodes, lru |-> c.lru]
  BY ONLY <1>1
<1>3. r.cache = d /\ r.node = up /\ r = [cache |-> r.cache, node |-> r.node]
  BY ONLY <1>1, r = [cache |-> [nodes |-> M, lru |-> c.lru], node |-> up]
<1> QED BY <1>2, <1>3 DEF TurnIs

LEMMA PruneTurnIs ==
  ASSUME NEW c, c = [nodes |-> c.nodes, lru |-> c.lru], NEW P, IsTrie(c.nodes, P),
         NEW n \in DOMAIN c.nodes
  PROVE  TurnIs(c, P, PruneTurn(c, n))
<1>1. PICK N, up, token : N = c.nodes /\ up = N[n].parent /\ token = N[n].token
  OBVIOUS
<1>2. IsTrie(N, P) /\ n \in DOMAIN N
  BY <1>1
<1>3. IsFiniteSet(DOMAIN N[n].children) /\ Cardinality(DOMAIN N[n].children) \in Nat
  BY <1>2, ChildrenFinite, FS_CardinalityType
<1>4. CASE n = Root \/ N[n].entry # NoEntry \/ Cardinality(DOMAIN N[n].children) > 1
  <2>1. PruneTurn(c, n) = [cache |-> c, node |-> n]
    BY <1>1, <1>4 DEF PruneTurn
  <2>2. PruneTurn(c, n) = [cache |-> [nodes |-> N, lru |-> c.lru], node |-> n]
    BY <1>1, <2>1
  <2>3. Within(N, P, c.nodes, P)
    BY <1>1, WithinSelf
  <2> QED BY <1>2, <2>2, <2>3, TurnMakes
<1>5. CASE ~ (n = Root \/ N[n].entry # NoEntry \/ Cardinality(DOMAIN N[n].children) > 1)
  <2>1. UpIs(N, P, n, up, token)
    BY <1>1, <1>2, <1>5, UpOf
  <2>2. up \in DOMAIN N \ {n} /\ token \in DOMAIN N[up].children
    BY <2>1 DEF UpIs
  <2>3. \A x \in DOMAIN N : NodeLike(N[x])
    BY <1>2, TrieGives
  <2>4. CASE DOMAIN N[n].children = {}
    <3>1. PICK M : /\ HasDropped(N, M, n, up, token)
                   /\ PruneTurn(c, n) = [cache |-> [nodes |-> M, lru |-> c.lru], node |-> up]
      BY <1>1, <1>5, <2>2, <2>3, <2>4, DroppedNodes
    <3>2. PICK Q : Q = [x \in DOMAIN M |-> P[x]]
      OBVIOUS
    <3>3. IsTrie(M, Q)
      BY <1>1, <1>2, <1>5, <2>4, <3>1, <3>2, DroppedKeeps
    <3>4. /\ DOMAIN M = DOMAIN N \ {n} /\ \A x \in DOMAIN N \ {n, up} : M[x] = N[x]
          /\ M[up].entry = N[up].entry
      BY <3>1 DEF HasDropped, Rechilded
    <3>5. Within(M, Q, c.nodes, P)
      BY <1>1, <1>5, <3>2, <3>4 DEF Within
    <3> QED BY <2>2, <3>1, <3>3, <3>4, <3>5, TurnMakes
  <2>5. CASE DOMAIN N[n].children # {}
    <3>1. PICK tok : DOMAIN N[n].children = {tok}
      <4>1. Cardinality(DOMAIN N[n].children) = 1
        <5>1. Cardinality(DOMAIN N[n].children) # 0
          BY <1>3, <2>5, FS_EmptySet
        <5> QED BY <1>3, <1>5, <5>1
      <4> QED BY <1>3, <4>1, FS_Singleton
    <3>2. PICK e : e = N[n].children[tok]
      OBVIOUS
    <3>3. e.child \in DOMAIN N \ {n, up}
      <4>1. Adds(N, P, n, tok, e)
        BY <1>2, <3>1, <3>2, ChildAt
      <4>2. /\ e.child \in DOMAIN N /\ Len(e.label) \in Nat \ {0}
            /\ Len(P[e.child]) = Len(P[n]) + Len(e.label)
        BY <4>1 DEF Adds
      <4>3. Len(P[up]) \in Nat /\ Len(P[n]) \in Nat /\ Len(P[up]) < Len(P[n])
        BY <2>1 DEF UpIs
      <4>4. PICK x, y, z, w : x = Len(P[up]) /\ y = Len(e.label) /\ z = Len(P[e.child]) /\ w = Len(P[n])
        OBVIOUS
      <4>5. x \in Nat /\ y \in Nat \ {0} /\ w \in Nat /\ z = w + y /\ x < w
        BY ONLY <4>2, <4>3, <4>4
      <4>6. z # w /\ z # x
        BY ONLY <4>5
      <4>7. e.child # n /\ e.child # up
        BY ONLY <4>4, <4>6
      <4> QED BY <4>2, <4>7
    <3>4. PICK M : /\ HasMerged(N, M, n, e, up, token)
                   /\ PruneTurn(c, n) = [cache |-> [nodes |-> M, lru |-> c.lru], node |-> up]
      BY <1>1, <1>5, <2>2, <2>3, <3>1, <3>2, <3>3, MergedNodes
    <3>5. PICK Q : Q = [x \in DOMAIN M |-> P[x]]
      OBVIOUS
    <3>6. IsTrie(M, Q)
      BY <1>1, <1>2, <1>5, <3>1, <3>2, <3>4, <3>5, MergedKeeps
    <3>7. /\ DOMAIN M = DOMAIN N \ {n} /\ \A x \in DOMAIN N \ {n, up, e.child} : M[x] = N[x]
          /\ M[up].entry = N[up].entry /\ M[e.child].entry = N[e.child].entry
      BY <3>4 DEF HasMerged, Rechilded, Moved
    <3>8. Within(M, Q, c.nodes, P)
      BY <1>1, <1>5, <3>5, <3>7 DEF Within
    <3> QED BY <2>2, <3>4, <3>6, <3>7, <3>8, TurnMakes
  <2> QED BY <2>4, <2>5
<1> QED BY <1>4, <1>5

\* The turns of _prune, the first K of them.
Turns(c, n, K, h) ==
  h = [k \in 0..K |-> IF k = 0 THEN [cache |-> c, node |-> n]
                      ELSE PruneTurn(h[k - 1].cache, h[k - 1].node)]

LEMMA TurnsAre ==
  ASSUME NEW c, NEW n, NEW K \in Nat
  PROVE  \E h : Turns(c, n, K, h)
<1> DEFINE T == {k \in Nat : ~ \E h : Turns(c, n, k, h)}
<1>1. SUFFICES ASSUME T # {} PROVE FALSE
  BY <1>1
<1>2. PICK L \in T : \A k \in T : L <= k
  <2>1. T \in SUBSET Nat
    OBVIOUS
  <2> HIDE DEF T
  <2> QED BY <1>1, <2>1, LeastOf
<1>3. CASE L = 0
  <2>1. PICK h : h = [k \in 0..L |-> [cache |-> c, node |-> n]]
    OBVIOUS
  <2>2. Turns(c, n, L, h)
    BY <1>3, <2>1 DEF Turns
  <2> QED BY <2>2
<1>4. CASE L # 0
  <2>1. L \in Nat /\ L - 1 \in Nat /\ L - 1 \notin T
    BY <1>2, <1>4
  <2>2. PICK g : Turns(c, n, L - 1, g)
    BY <2>1
  <2>3. PICK h : h = [k \in 0..L |-> IF k = L THEN PruneTurn(g[L - 1].cache, g[L - 1].node)
                                     ELSE g[k]]
    OBVIOUS
  <2>4. ASSUME NEW k \in 0..L
        PROVE  h[k] = IF k = 0 THEN [cache |-> c, node |-> n]
                      ELSE PruneTurn(h[k - 1].cache, h[k - 1].node)
    <3>1. CASE k = L
      <4>1. h[k - 1] = g[L - 1]
        BY <2>1, <2>3, <3>1
      <4> QED BY <1>4, <2>3, <3>1, <4>1
    <3>2. CASE k # L
      <4>1. k \in 0..(L - 1) /\ h[k] = g[k]
        BY <2>1, <2>3, <3>2
      <4>2. k # 0 => k - 1 \in 0..L /\ k - 1 # L
        BY <2>1, <3>2
      <4>3. k # 0 => h[k - 1] = g[k - 1]
        BY <2>3, <4>2
      <4> QED BY <2>2, <4>1, <4>3 DEF Turns
    <3> QED BY <3>1, <3>2
  <2>5. h = [k \in 0..L |-> h[k]]
    BY <2>3
  <2>6. Turns(c, n, L, h)
    BY <2>4, <2>5 DEF Turns
  <2> QED BY <2>6
<1> QED BY <1>3, <1>4

LEMMA TurnsKeep ==
  ASSUME NEW c, c = [nodes |-> c.nodes, lru |-> c.lru], NEW P, IsTrie(c.nodes, P),
         NEW n \in DOMAIN c.nodes, NEW K \in Nat, NEW h, Turns(c, n, K, h), NEW k \in 0..K
  PROVE  TurnIs(c, P, h[k])
<1> DEFINE T == {i \in 0..K : ~ TurnIs(c, P, h[i])}
<1>1. SUFFICES ASSUME T # {} PROVE FALSE
  BY <1>1
<1>2. PICK L \in T : \A i \in T : L <= i
  <2>1. T \in SUBSET Nat
    OBVIOUS
  <2> HIDE DEF T
  <2> QED BY <1>1, <2>1, LeastOf
<1>3. CASE L = 0
  <2>1. h[0] = [cache |-> [nodes |-> c.nodes, lru |-> c.lru], node |-> n]
    BY <1>2, <1>3 DEF Turns
  <2>2. TurnIs(c, P, h[0])
    BY <2>1, WithinSelf, TurnMakes
  <2> QED BY <1>3, <2>2
<1>4. CASE L # 0
  <2>1. L \in Nat /\ L - 1 \in 0..K /\ L - 1 \notin T
    BY <1>2, <1>4
  <2>2. PICK r, d, m : r = h[L - 1] /\ d = r.cache /\ m = r.node
    OBVIOUS
  <2>3. TurnIs(c, P, r)
    BY <2>1, <2>2
  <2>4. PICK Q : IsTrie(d.nodes, Q) /\ Within(d.nodes, Q, c.nodes, P)
    BY <2>2, <2>3 DEF TurnIs
  <2>5. d = [nodes |-> d.nodes, lru |-> c.lru] /\ m \in DOMAIN d.nodes
    BY <2>2, <2>3 DEF TurnIs
  <2>6. d.lru = c.lru
    BY ONLY <2>5
  <2>7. TurnIs(d, Q, PruneTurn(d, m))
    BY <2>4, <2>5, <2>6, PruneTurnIs
  <2>8. TurnIs(c, P, PruneTurn(d, m))
    BY <2>4, <2>6, <2>7, WithinTrans DEF TurnIs
  <2>9. h[L] = PruneTurn(d, m)
    BY <1>2, <1>4, <2>2 DEF Turns
  <2> QED BY <2>8, <2>9
<1> QED BY <1>3, <1>4

\* _prune leaves a trie with the same entries.
LEMMA PrunedIs ==
  ASSUME NEW c, c = [nodes |-> c.nodes, lru |-> c.lru], NEW P, IsTrie(c.nodes, P),
         NEW n \in DOMAIN c.nodes
  PROVE  \E M, Q : /\ Pruned(c, n) = [nodes |-> M, lru |-> c.lru]
                   /\ IsTrie(M, Q) /\ Within(M, Q, c.nodes, P)
<1> DEFINE K == Cardinality(DOMAIN c.nodes)
           h == CHOOSE f : f = [k \in 0..K |-> IF k = 0 THEN [cache |-> c, node |-> n]
                                  ELSE PruneTurn(f[k - 1].cache, f[k - 1].node)]
<1>1. K \in Nat
  BY FS_CardinalityType DEF IsTrie
<1>2. Pruned(c, n) = h[K].cache
  BY DEF Pruned
<1>3. Turns(c, n, K, h)
  <2>1. PICK g : Turns(c, n, K, g)
    <3> HIDE DEF K
    <3> QED BY <1>1, TurnsAre
  <2>2. g = [k \in 0..K |-> IF k = 0 THEN [cache |-> c, node |-> n]
                            ELSE PruneTurn(g[k - 1].cache, g[k - 1].node)]
    BY <2>1 DEF Turns
  <2>3. h = [k \in 0..K |-> IF k = 0 THEN [cache |-> c, node |-> n]
                            ELSE PruneTurn(h[k - 1].cache, h[k - 1].node)]
    <3> HIDE DEF K
    <3> QED BY <2>2
  <2> HIDE DEF h
  <2> QED BY <2>3 DEF Turns
<1> HIDE DEF K, h
<1>4. TurnIs(c, P, h[K])
  BY <1>1, <1>3, TurnsKeep
<1> QED BY <1>2, <1>4 DEF TurnIs

-----------------------------------------------------------------------------
(* Growth.                                                                   *)

LEMMA FreshIs ==
  ASSUME NEW c, NEW P, IsTrie(c.nodes, P)
  PROVE  Fresh(c) \in Nat \ {NoNode} /\ Fresh(c) \notin DOMAIN c.nodes
<1>1. PICK D, K : D = DOMAIN c.nodes /\ K = Cardinality(D)
  OBVIOUS
<1>2. IsFiniteSet(D) /\ K \in Nat
  BY <1>1, FS_CardinalityType DEF IsTrie
<1>3. \E n \in 1..(K + 1) : n \notin D
  <2>1. SUFFICES ASSUME 1..(K + 1) \subseteq D PROVE FALSE
    OBVIOUS
  <2>2. Cardinality(1..(K + 1)) = K + 1
    BY <1>2, FS_Interval
  <2>3. Cardinality(1..(K + 1)) <= Cardinality(D)
    BY <1>2, <2>1, FS_Subset
  <2> QED BY <1>1, <1>2, <2>2, <2>3
<1>4. Fresh(c) \in 1..(K + 1) /\ Fresh(c) \notin D
  BY <1>1, <1>3 DEF Fresh
<1> QED BY <1>1, <1>2, <1>4 DEF NoNode

LEMMA HeadIs ==
  ASSUME NEW l \in Text, NEW k \in Nat, k <= Len(l), NEW a, a = SubSeq(l, 1, k)
  PROVE  a \in Text /\ Len(a) = k /\ \A j \in 1..k : a[j] = l[j]
<1>1. PICK z : z = 0
  OBVIOUS
<1>2. z \in Nat /\ z <= k /\ z + 1 = 1 /\ k - z = k /\ \A j \in 1..k : z + j = j
  BY <1>1
<1>3. /\ SubSeq(l, z + 1, k) \in Text /\ Len(SubSeq(l, z + 1, k)) = k - z
      /\ \A j \in 1..(k - z) : SubSeq(l, z + 1, k)[j] = l[z + j]
  BY ONLY <1>2, PartIs, l \in Text, k \in Nat, k <= Len(l)
<1> QED BY ONLY <1>2, <1>3, a = SubSeq(l, 1, k)

LEMMA JoinPre ==
  ASSUME NEW p \in Text, NEW a \in Text, NEW t \in Text, Pre(p, t), Len(p) + Len(a) <= Len(t),
         \A j \in 1..Len(a) : a[j] = t[Len(p) + j]
  PROVE  Pre(p \o a, t)
<1>1. PICK q, x, y : q = p \o a /\ x = Len(p) /\ y = Len(a)
  OBVIOUS
<1>2. /\ Len(q) = x + y /\ Pre(p, q) /\ x \in Nat /\ y \in Nat
      /\ \A j \in 1..y : q[x + j] = a[j]
  BY <1>1, JoinIs
<1>3. ASSUME NEW j \in 1..(x + y) PROVE q[j] = t[j]
  <2>1. CASE j \in 1..x
    BY <1>1, <1>2, <2>1 DEF Pre
  <2>2. CASE j \notin 1..x
    <3>1. PICK k \in 1..y : j = x + k
      <4>1. j - x \in 1..y /\ j = x + (j - x)
        BY <1>2, <2>2
      <4> QED BY <4>1
    <3>2. q[x + k] = a[k] /\ a[k] = t[x + k]
      BY <1>1, <1>2
    <3> QED BY <3>1, <3>2
  <2> QED BY <2>1, <2>2
<1> QED BY <1>1, <1>2, <1>3 DEF Pre

\* A cache with a node for the key.
GrownIs(c, P, key, r) ==
  \E M, Q, m : /\ r = [cache |-> [nodes |-> M, lru |-> c.lru], node |-> m]
               /\ IsTrie(M, Q) /\ Within(c.nodes, P, M, Q)
               /\ m \in DOMAIN M /\ Q[m] = key

LEMMA GrowsLeaf ==
  ASSUME NEW c, NEW P, IsTrie(c.nodes, P), NEW n \in DOMAIN c.nodes, NEW key \in Text,
         NEW i, i = Len(P[n]), Pre(P[n], key), i < Len(key),
         key[i + 1] \notin DOMAIN c.nodes[n].children
  PROVE  GrownIs(c, P, key, [cache |-> WithLeaf(c, n, key, i), node |-> Fresh(c)])
<1>1. PICK N, f : N = c.nodes /\ f = Fresh(c)
  OBVIOUS
<1>2. f \in Nat \ {NoNode} /\ f \notin DOMAIN N
  BY <1>1, FreshIs
<1>3. PICK M : /\ HasLeaf(N, M, n, key, i, f)
               /\ WithLeaf(c, n, key, i) = [nodes |-> M, lru |-> c.lru]
  <2>1. NodeLike(c.nodes[n])
    BY TrieGives
  <2> QED BY <1>1, <1>2, <2>1, LeafNodes
<1>4. PICK Q : Q = [x \in DOMAIN M |-> IF x = f THEN key ELSE P[x]]
  OBVIOUS
<1>5. IsTrie(M, Q)
  <2>1. /\ IsTrie(N, P) /\ n \in DOMAIN N /\ key[i + 1] \notin DOMAIN N[n].children
        /\ HasLeaf(N, M, n, key, i, f)
    BY <1>1, <1>3
  <2> QED
    BY ONLY <1>2, <1>4, <2>1, LeafKeeps, key \in Text, i = Len(P[n]), Pre(P[n], key), i < Len(key)
<1>6. /\ DOMAIN M = DOMAIN N \cup {f} /\ \A x \in DOMAIN N \ {n} : M[x] = N[x]
      /\ M[n].entry = N[n].entry /\ M[f].entry = NoEntry
  BY <1>3 DEF HasLeaf, Rechilded
<1>7. Within(N, P, M, Q)
  BY <1>2, <1>4, <1>6 DEF Within
<1>8. f \in DOMAIN M /\ Q[f] = key
  BY <1>4, <1>6
<1> QED BY <1>1, <1>3, <1>5, <1>7, <1>8 DEF GrownIs

\* The cut of an edge that the key leaves, and the node on it.
CutAt(c, P, n, key, e, k, d, f, Q) ==
  /\ d.lru = c.lru /\ d = [nodes |-> d.nodes, lru |-> d.lru]
  /\ IsTrie(d.nodes, Q) /\ Within(c.nodes, P, d.nodes, Q)
  /\ f \in DOMAIN d.nodes /\ Len(Q[f]) = Len(P[n]) + k /\ Pre(Q[f], key)
  /\ DOMAIN d.nodes[f].children = {e.label[k + 1]}

LEMMA Cuts ==
  ASSUME NEW c, NEW P, IsTrie(c.nodes, P), NEW n \in DOMAIN c.nodes, NEW key \in Text,
         Pre(P[n], key), NEW token \in DOMAIN c.nodes[n].children,
         NEW e, e = c.nodes[n].children[token], NEW k \in 1..(Len(e.label) - 1),
         Len(P[n]) + k <= Len(key), \A j \in 1..k : key[Len(P[n]) + j] = e.label[j]
  PROVE  \E Q : CutAt(c, P, n, key, e, k, WithSplit(c, n, token, k), Fresh(c), Q)
<1>1. PICK N, f, a, rest, way :
        /\ N = c.nodes /\ f = Fresh(c) /\ a = SubSeq(e.label, 1, k)
        /\ rest = SubSeq(e.label, k + 1, Len(e.label)) /\ way = P[n] \o a
  OBVIOUS
<1>2. f \in Nat \ {NoNode} /\ f \notin DOMAIN N
  BY <1>1, FreshIs
<1>3. EdgeIs(N, P, n, token, e)
  BY <1>1 DEF IsTrie
<1>4. Cut(P, n, e, k, a, rest, way)
  BY <1>1, <1>3, CutGives
<1>5. e.child \in DOMAIN N \ {n}
  <2>1. Adds(N, P, n, token, e)
    BY <1>1, ChildAt
  <2>2. /\ e.child \in DOMAIN N /\ Len(e.label) \in Nat /\ Len(e.label) # 0
        /\ Len(P[n]) \in Nat /\ Len(P[e.child]) = Len(P[n]) + Len(e.label)
    BY <2>1 DEF Adds
  <2>3. PICK x, y, z : x = Len(P[n]) /\ y = Len(e.label) /\ z = Len(P[e.child])
    OBVIOUS
  <2>4. x \in Nat /\ y \in Nat /\ y # 0 /\ z = x + y
    BY ONLY <2>2, <2>3
  <2>5. z # x
    BY ONLY <2>4
  <2> QED BY ONLY <2>2, <2>3, <2>5
<1>6. PICK M : /\ HasSplit(N, M, n, token, e, k, rest, f)
               /\ WithSplit(c, n, token, k) = [nodes |-> M, lru |-> c.lru]
  <2>1. NodeLike(c.nodes[n]) /\ NodeLike(c.nodes[e.child])
    BY <1>1, <1>5, TrieGives
  <2>2. /\ Fresh(c) \notin DOMAIN c.nodes /\ e.child \in DOMAIN c.nodes \ {n}
        /\ rest = SubSeq(e.label, k + 1, Len(e.label))
    BY <1>1, <1>2, <1>5
  <2>3. SplitTo(c, n, token, e, k, rest)
    BY <2>1, <2>2, SplitNodes
  <2> QED BY <1>1, <2>3 DEF SplitTo
<1>7. PICK Q : Q = [x \in DOMAIN M |-> IF x = f THEN way ELSE P[x]]
  OBVIOUS
<1>8. IsTrie(M, Q)
  <2>1. IsTrie(N, P) /\ SplitOf(N, P, M, Q, n, token, e, k, rest, way, f)
    BY <1>1, <1>2, <1>6, <1>7 DEF SplitOf
  <2> QED BY <2>1, SplitKeeps
<1>9. /\ DOMAIN M = DOMAIN N \cup {f} /\ \A x \in DOMAIN N \ {n, e.child} : M[x] = N[x]
      /\ M[n].entry = N[n].entry /\ M[e.child].entry = N[e.child].entry
      /\ M[f].entry = NoEntry /\ DOMAIN M[f].children = {rest[1]}
  <2>1. PICK top, v : v = [label |-> rest, child |-> e.child]
                      /\ top = [label |-> SubSeq(e.label, 1, k), child |-> f]
    OBVIOUS
  <2>2. /\ DOMAIN M = DOMAIN N \cup {f}
        /\ M[f] = [entry |-> NoEntry, parent |-> n, token |-> token, children |-> Only(rest[1], v)]
        /\ M[n] = Rechilded(N[n], [N[n].children EXCEPT ![token] = top])
        /\ M[e.child] = Moved(N[e.child], f, rest[1])
        /\ \A x \in DOMAIN N \ {n, e.child} : M[x] = N[x]
    BY <1>6, <2>1 DEF HasSplit
  <2>3. M[n].entry = N[n].entry
    BY ONLY <2>2 DEF Rechilded
  <2>4. M[e.child].entry = N[e.child].entry
    BY ONLY <2>2 DEF Moved
  <2>5. M[f].entry = NoEntry /\ DOMAIN M[f].children = {rest[1]}
    BY ONLY <2>2 DEF Only
  <2> QED BY ONLY <2>2, <2>3, <2>4, <2>5
<1>10. Within(N, P, M, Q)
  BY <1>2, <1>7, <1>9 DEF Within
<1>11. f \in DOMAIN M /\ Q[f] = way
  BY <1>7, <1>9
<1>12. Pre(way, key)
  <2>1. PICK l, p : l = e.label /\ p = P[n]
    OBVIOUS
  <2>2. l \in Text /\ p \in Text /\ Len(l) \in Nat /\ k \in Nat /\ k <= Len(l)
    <3>1. l \in Text /\ p \in Text
      BY <1>1, <1>3, <2>1, WaysAre DEF EdgeIs
    <3>2. Len(l) \in Nat /\ k \in 1..(Len(l) - 1)
      BY <2>1, <3>1 DEF Text
    <3> QED BY <3>1, <3>2
  <2>3. a \in Text /\ Len(a) = k /\ \A j \in 1..k : a[j] = l[j]
    <3>1. a = SubSeq(l, 1, k)
      BY <1>1, <2>1
    <3> QED BY ONLY <2>2, <3>1, HeadIs
  <2>4. /\ Pre(p, key) /\ Len(p) + Len(a) <= Len(key)
        /\ \A j \in 1..Len(a) : a[j] = key[Len(p) + j]
    BY <2>1, <2>3
  <2>5. Pre(p \o a, key)
    BY ONLY <2>2, <2>3, <2>4, JoinPre, key \in Text
  <2> QED BY <1>1, <2>1, <2>5
<1>13. PICK d : d = [nodes |-> M, lru |-> c.lru]
  OBVIOUS
<1>14. d.nodes = M /\ d.lru = c.lru /\ d = [nodes |-> d.nodes, lru |-> d.lru]
  BY ONLY <1>13
<1>15. Len(way) = Len(P[n]) + k /\ rest[1] = e.label[k + 1]
  BY <1>4 DEF Cut
<1>16. CutAt(c, P, n, key, e, k, d, f, Q)
  BY <1>1, <1>8, <1>9, <1>10, <1>11, <1>12, <1>14, <1>15 DEF CutAt
<1> QED BY <1>1, <1>6, <1>13, <1>16

\* k tokens of the label are what t goes on with from i, and no more are.
Shares(t, i, label, k) ==
  /\ k \in 0..Len(label) /\ i + k <= Len(t) /\ \A j \in 1..k : t[i + j] = label[j]
  /\ k = Len(label) <=> Matches(t, i, label)
  /\ k < Len(label) /\ i + k < Len(t) => t[i + k + 1] # label[k + 1]

LEMMA CommonShares ==
  ASSUME NEW t \in Text, NEW i \in 0..Len(t), NEW label \in Text
  PROVE  Shares(t, i, label, Common(t, i, label))
BY CommonIs DEF Shares

LEMMA Grows ==
  ASSUME NEW c, c = [nodes |-> c.nodes, lru |-> c.lru], NEW P, IsTrie(c.nodes, P),
         NEW key \in Text
  PROVE  GrownIs(c, P, key, Grown(c, key))
<1>1. PICK N, at, n, i : N = c.nodes /\ at = Reached(c, key) /\ n = at.node /\ i = at.idx
  OBVIOUS
<1>2. StopsAt(N, P, key, at)
  BY <1>1, ReachedIs
<1>3. /\ n \in DOMAIN N /\ i \in 0..Len(key) /\ i = Len(P[n]) /\ Pre(P[n], key)
      /\ ~ Edged(N, key, i, n)
  BY <1>1, <1>2 DEF StopsAt
<1>4. P[n] \in Text /\ Len(key) \in Nat /\ i \in Nat
  BY <1>1, <1>3, WaysAre DEF Text
<1>5. CASE i = Len(key)
  <2>1. P[n] = key
    BY <1>3, <1>4, <1>5, PreSame
  <2>2. Grown(c, key) = [cache |-> c, node |-> n]
    BY <1>1, <1>5 DEF Grown
  <2>3. Grown(c, key) = [cache |-> [nodes |-> N, lru |-> c.lru], node |-> n]
    BY <1>1, <2>2
  <2>4. Within(c.nodes, P, N, P)
    BY <1>1, WithinSelf
  <2> QED BY <1>1, <1>3, <2>1, <2>3, <2>4 DEF GrownIs
<1>6. CASE i # Len(key) /\ key[i + 1] \notin DOMAIN N[n].children
  <2>1. Grown(c, key) = [cache |-> WithLeaf(c, n, key, i), node |-> Fresh(c)]
    BY <1>1, <1>6 DEF Grown
  <2>2. i < Len(key)
    BY <1>3, <1>6
  <2> QED BY <1>1, <1>3, <1>6, <2>1, <2>2, GrowsLeaf
<1>7. CASE i # Len(key) /\ key[i + 1] \in DOMAIN N[n].children
  <2>1. PICK token, e, l, k, d, f :
          /\ token = key[i + 1] /\ e = N[n].children[token] /\ l = e.label
          /\ k = Common(key, i, l) /\ d = WithSplit(c, n, token, k) /\ f = Fresh(c)
    OBVIOUS
  <2>2. Grown(c, key) = IF i + k = Len(key) THEN [cache |-> d, node |-> f]
                        ELSE [cache |-> WithLeaf(d, f, key, i + k), node |-> Fresh(d)]
    BY <1>1, <1>7, <2>1 DEF Grown
  <2>3. l \in Text /\ Len(l) > 0 /\ l[1] = token
    <3>1. EdgeIs(N, P, n, token, e)
      BY <1>1, <1>3, <1>7, <2>1 DEF IsTrie
    <3> QED BY <2>1, <3>1 DEF EdgeIs
  <2>4. /\ k \in 0..Len(l) /\ i + k <= Len(key) /\ \A j \in 1..k : key[i + j] = l[j]
        /\ k = Len(l) <=> Matches(key, i, l)
        /\ k < Len(l) /\ i + k < Len(key) => key[i + k + 1] # l[k + 1]
    <3>1. Shares(key, i, l, Common(key, i, l))
      BY ONLY <1>3, <2>3, CommonShares, key \in Text
    <3>2. Shares(key, i, l, k)
      BY ONLY <2>1, <3>1
    <3> QED BY ONLY <3>2 DEF Shares
  <2>5. ~ Matches(key, i, l)
    BY <1>3, <1>7, <2>1 DEF Edged
  <2>6. Len(l) \in Nat /\ i < Len(key)
    BY <1>3, <1>7, <2>3 DEF Text
  <2>7. k # 0
    <3>1. key[i + 1] = l[1]
      BY <2>1, <2>3
    <3>2. k = 0 => i + k + 1 = i + 1 /\ k + 1 = 1 /\ k < Len(l) /\ i + k < Len(key)
      BY <1>4, <2>3, <2>6
    <3> QED BY <2>4, <3>1, <3>2
  <2>8. k \in 1..(Len(l) - 1)
    BY <2>4, <2>5, <2>6, <2>7
  <2>9. PICK Q : CutAt(c, P, n, key, e, k, d, f, Q)
    <3>1. /\ n \in DOMAIN c.nodes /\ Pre(P[n], key) /\ token \in DOMAIN c.nodes[n].children
          /\ e = c.nodes[n].children[token] /\ k \in 1..(Len(e.label) - 1)
          /\ Len(P[n]) + k <= Len(key) /\ \A j \in 1..k : key[Len(P[n]) + j] = e.label[j]
      <4>1. Pre(P[n], key)
        BY ONLY <1>3
      <4>2. n \in DOMAIN c.nodes /\ token \in DOMAIN c.nodes[n].children
            /\ e = c.nodes[n].children[token]
        BY ONLY <1>1, <1>3, <1>7, <2>1
      <4>3. k \in 1..(Len(e.label) - 1)
        BY ONLY <2>1, <2>8
      <4>4. Len(P[n]) + k <= Len(key) /\ \A j \in 1..k : key[Len(P[n]) + j] = e.label[j]
        BY ONLY <1>3, <2>1, <2>4
      <4> QED BY ONLY <4>1, <4>2, <4>3, <4>4
    <3>2. \E Q : CutAt(c, P, n, key, e, k, WithSplit(c, n, token, k), Fresh(c), Q)
      BY ONLY <3>1, Cuts, key \in Text, IsTrie(c.nodes, P)
    <3> QED BY <2>1, <3>2
  <2>10. /\ d.lru = c.lru /\ d = [nodes |-> d.nodes, lru |-> d.lru]
         /\ IsTrie(d.nodes, Q) /\ Within(N, P, d.nodes, Q)
         /\ f \in DOMAIN d.nodes /\ Len(Q[f]) = i + k /\ Pre(Q[f], key)
         /\ DOMAIN d.nodes[f].children = {l[k + 1]}
    BY <1>1, <1>3, <2>1, <2>9 DEF CutAt
  <2>11. CASE i + k = Len(key)
    <3>1. Q[f] \in Text
      BY <2>10, WaysAre
    <3>2. Q[f] = key
      BY <2>10, <2>11, <3>1, PreSame
    <3>3. Grown(c, key) = [cache |-> [nodes |-> d.nodes, lru |-> c.lru], node |-> f]
      BY <2>2, <2>10, <2>11
    <3> QED BY <1>1, <2>10, <3>2, <3>3 DEF GrownIs
  <2>12. CASE i + k # Len(key)
    <3>1. Grown(c, key) = [cache |-> WithLeaf(d, f, key, i + k), node |-> Fresh(d)]
      BY <2>2, <2>12
    <3>2. i + k < Len(key)
      BY <1>4, <2>4, <2>6, <2>8, <2>12
    <3>3. k < Len(l)
      BY <2>6, <2>8
    <3>4. key[i + k + 1] \notin DOMAIN d.nodes[f].children
      BY <2>4, <2>10, <3>2, <3>3
    <3>5. GrownIs(d, Q, key, Grown(c, key))
      BY <2>10, <3>1, <3>2, <3>4, GrowsLeaf
    <3> QED BY <1>1, <2>10, <3>5, WithinTrans DEF GrownIs
  <2> QED BY <2>11, <2>12
<1> QED BY <1>5, <1>6, <1>7

-----------------------------------------------------------------------------
(* The list of the nodes that have an entry.                                 *)

\* A sequence without its item i.
IsDropped(s, i, r) ==
  /\ Len(r) = Len(s) - 1 /\ DOMAIN r = 1..(Len(s) - 1)
  /\ \A j \in 1..(Len(s) - 1) : r[j] = IF j < i THEN s[j] ELSE s[j + 1]

LEMMA DroppedIs ==
  ASSUME NEW S, NEW s \in Seq(S), NEW i \in 1..Len(s)
  PROVE  Dropped(s, i) \in Seq(S) /\ IsDropped(s, i, Dropped(s, i))
<1>1. PICK n, a, b, r : n = Len(s) /\ a = SubSeq(s, 1, i - 1) /\ b = SubSeq(s, i + 1, n) /\ r = a \o b
  OBVIOUS
<1>2. n \in Nat /\ i \in 1..n /\ \A j \in 1..n : s[j] \in S
  BY <1>1, ElementOfSeq, LenProperties
<1>3. /\ a \in Seq(S) /\ Len(a) = i - 1 /\ \A j \in 1..(i - 1) : a[j] = s[j]
  <2>1. /\ SubSeq(s, 1, i - 1) \in Seq(S)
        /\ Len(SubSeq(s, 1, i - 1)) = IF 1 <= i - 1 THEN i - 1 - 1 + 1 ELSE 0
        /\ \A j \in 1..(i - 1 - 1 + 1) : SubSeq(s, 1, i - 1)[j] = s[1 + j - 1]
    BY <1>2, SubSeqProperties
  <2>2. \A j \in 1..(i - 1) : j \in 1..(i - 1 - 1 + 1) /\ 1 + j - 1 = j
    BY <1>2
  <2> QED BY <1>1, <1>2, <2>1, <2>2
<1>4. /\ b \in Seq(S) /\ Len(b) = n - i /\ \A j \in 1..(n - i) : b[j] = s[i + j]
  <2>1. /\ SubSeq(s, i + 1, n) \in Seq(S)
        /\ Len(SubSeq(s, i + 1, n)) = IF i + 1 <= n THEN n - (i + 1) + 1 ELSE 0
        /\ \A j \in 1..(n - (i + 1) + 1) : SubSeq(s, i + 1, n)[j] = s[i + 1 + j - 1]
    BY <1>2, SubSeqProperties
  <2>2. \A j \in 1..(n - i) : j \in 1..(n - (i + 1) + 1) /\ i + 1 + j - 1 = i + j
    BY <1>2
  <2> QED BY <1>1, <1>2, <2>1, <2>2
<1>5. /\ r \in Seq(S) /\ Len(r) = (i - 1) + (n - i)
      /\ \A j \in 1..((i - 1) + (n - i)) : r[j] = IF j <= i - 1 THEN a[j] ELSE b[j - (i - 1)]
  <2>1. /\ a \o b \in Seq(S) /\ Len(a \o b) = Len(a) + Len(b)
        /\ \A j \in 1..(Len(a) + Len(b)) : (a \o b)[j] = IF j <= Len(a) THEN a[j] ELSE b[j - Len(a)]
    BY ONLY <1>3, <1>4, ConcatProperties
  <2>2. Len(a) = i - 1 /\ Len(b) = n - i /\ r = a \o b
    BY ONLY <1>1, <1>3, <1>4
  <2> QED BY ONLY <2>1, <2>2
<1>6. Len(r) = n - 1 /\ DOMAIN r = 1..(n - 1)
  BY <1>2, <1>5, LenProperties
<1>7. ASSUME NEW j \in 1..(n - 1) PROVE r[j] = IF j < i THEN s[j] ELSE s[j + 1]
  <2>1. j \in 1..((i - 1) + (n - i))
    BY <1>2
  <2>2. CASE j < i
    <3>1. j <= i - 1 /\ j \in 1..(i - 1)
      BY <1>2, <2>2
    <3> QED BY <1>3, <1>5, <2>1, <2>2, <3>1
  <2>3. CASE ~ (j < i)
    <3>1. ~ (j <= i - 1) /\ j - (i - 1) \in 1..(n - i) /\ i + (j - (i - 1)) = j + 1
      BY <1>2, <2>3
    <3>2. r[j] = b[j - (i - 1)] /\ b[j - (i - 1)] = s[j + 1]
      BY <1>4, <1>5, <2>1, <3>1
    <3> QED BY <2>3, <3>2
  <2> QED BY <2>2, <2>3
<1>8. IsDropped(s, i, r)
  BY <1>1, <1>6, <1>7 DEF IsDropped
<1> QED BY <1>1, <1>5, <1>8 DEF Dropped

\* What node n remembers.
Item(N, P, n) == [key |-> P[n], raw |-> N[n].entry.raw]
Items(N, P, s) == [i \in 1..Len(s) |-> Item(N, P, s[i])]

EntryIs(N, P, n) ==
  /\ N[n].entry = [len |-> Len(P[n]), raw |-> N[n].entry.raw]
  /\ Len(P[n]) > 0 /\ N[n].entry.raw \in Text

\* s lists the nodes that have an entry, each once.
Listed(N, P, s) ==
  /\ s \in Seq(DOMAIN N)
  /\ \A i, j \in 1..Len(s) : s[i] = s[j] => i = j
  /\ \A n \in DOMAIN N : N[n].entry # NoEntry => \E i \in 1..Len(s) : s[i] = n
  /\ \A i \in 1..Len(s) : EntryIs(N, P, s[i])

CacheOk(c, P) ==
  /\ c = [nodes |-> c.nodes, lru |-> c.lru]
  /\ IsTrie(c.nodes, P) /\ Listed(c.nodes, P, c.lru)

LEMMA EntryThere ==
  ASSUME NEW N, NEW P, NEW n, EntryIs(N, P, n)
  PROVE  N[n].entry # NoEntry
<1>1. PICK k, r, e : k = Len(P[n]) /\ e = N[n].entry /\ r = e.raw
  OBVIOUS
<1>2. e = [len |-> k, raw |-> r] /\ k > 0
  BY <1>1 DEF EntryIs
<1>3. k # 0
  BY <1>2
<1>4. e # [len |-> 0, raw |-> <<>>]
  BY ONLY <1>2, <1>3
<1> QED BY <1>1, <1>4 DEF NoEntry

\* move_to_end() of item i, or of a new one.
LEMMA MovedToEnd ==
  ASSUME NEW S, NEW s \in Seq(S), NEW n \in S,
         \A i, j \in 1..Len(s) : s[i] = s[j] => i = j
  PROVE  /\ (\A i \in 1..Len(s) : s[i] # n) => Touch(s, n) = Append(s, n)
         /\ \A i \in 1..Len(s) : s[i] = n => Touch(s, n) = Append(Dropped(s, i), n)
<1> DEFINE at == {i \in DOMAIN s : s[i] = n}
<1>1. DOMAIN s = 1..Len(s)
  BY LenProperties
<1>2. Touch(s, n) = Append(IF at = {} THEN s ELSE Dropped(s, CHOOSE i \in at : TRUE), n)
  BY DEF Touch
<1>3. ASSUME \A i \in 1..Len(s) : s[i] # n PROVE Touch(s, n) = Append(s, n)
  <2>1. at = {}
    BY <1>1, <1>3
  <2> QED BY <1>2, <2>1
<1>4. ASSUME NEW i \in 1..Len(s), s[i] = n PROVE Touch(s, n) = Append(Dropped(s, i), n)
  <2>1. at = {i}
    BY <1>1, <1>4
  <2>2. at # {} /\ (CHOOSE j \in at : TRUE) = i
    BY <2>1
  <2> QED BY <1>2, <2>2
<1> QED BY <1>3, <1>4

\* A list with one item moved to its end, or added to it.
IsMoved(s, i, n, r) ==
  /\ Len(r) = Len(s) /\ r[Len(s)] = n
  /\ \A j \in 1..(Len(s) - 1) : r[j] = IF j < i THEN s[j] ELSE s[j + 1]

LEMMA AppendDropped ==
  ASSUME NEW S, NEW s \in Seq(S), NEW i \in 1..Len(s), NEW n \in S
  PROVE  /\ Append(Dropped(s, i), n) \in Seq(S)
         /\ IsMoved(s, i, n, Append(Dropped(s, i), n))
<1>1. PICK d, r, k : d = Dropped(s, i) /\ r = Append(d, n) /\ k = Len(s)
  OBVIOUS
<1>2. d \in Seq(S) /\ IsDropped(s, i, d)
  BY <1>1, DroppedIs
<1>3. k \in Nat /\ i \in 1..k /\ Len(d) = k - 1
      /\ \A j \in 1..(k - 1) : d[j] = IF j < i THEN s[j] ELSE s[j + 1]
  BY <1>1, <1>2, LenProperties DEF IsDropped
<1>4. r \in Seq(S) /\ Len(r) = k /\ r[k] = n /\ \A j \in 1..(k - 1) : r[j] = d[j]
  <2>1. r \in Seq(S) /\ Len(r) = Len(d) + 1 /\ \A j \in 1..(Len(d) + 1) : r[j] = IF j <= Len(d) THEN d[j] ELSE n
    BY <1>1, <1>2, AppendProperties
  <2>2. Len(d) + 1 = k /\ k \in 1..k /\ ~ (k <= k - 1) /\ \A j \in 1..(k - 1) : j \in 1..k /\ j <= k - 1
    BY <1>3
  <2> QED BY <1>3, <2>1, <2>2
<1> QED BY <1>1, <1>3, <1>4 DEF IsMoved

Rewritings == [key : Text, raw : Text]

\* The list of what a list of nodes remembers.
LEMMA ItemsAre ==
  ASSUME NEW N, NEW P, IsTrie(N, P), NEW s \in Seq(DOMAIN N),
         \A i \in 1..Len(s) : N[s[i]].entry.raw \in Text
  PROVE  /\ Items(N, P, s) \in Seq(Rewritings) /\ Len(Items(N, P, s)) = Len(s)
         /\ DOMAIN Items(N, P, s) = 1..Len(s)
         /\ \A i \in 1..Len(s) : Items(N, P, s)[i] = Item(N, P, s[i])
<1>1. PICK n, r : n = Len(s) /\ r = Items(N, P, s)
  OBVIOUS
<1>2. n \in Nat /\ \A i \in 1..n : s[i] \in DOMAIN N
  BY <1>1, LenProperties, ElementOfSeq
<1>3. \A i \in 1..n : Item(N, P, s[i]) \in Rewritings
  BY <1>1, <1>2, WaysAre DEF Item, Rewritings
<1>4. r = [i \in 1..n |-> Item(N, P, s[i])]
  BY <1>1 DEF Items
<1>5. r \in [1..n -> Rewritings]
  BY <1>3, <1>4
<1>6. r \in Seq(Rewritings) /\ Len(r) = n
  BY <1>2, <1>5
<1> QED BY <1>1, <1>4, <1>6

\* Items are moved as their nodes are.
MovesTo(N, P, s, k, M, Q, r, n) ==
  /\ IsTrie(N, P) /\ s \in Seq(DOMAIN N) /\ \A i \in 1..Len(s) : N[s[i]].entry.raw \in Text
  /\ k \in 1..Len(s) /\ IsTrie(M, Q) /\ r \in Seq(DOMAIN M) /\ n \in DOMAIN M
  /\ r = Append(Dropped(s, k), n) /\ M[n].entry.raw \in Text /\ s \in Seq(DOMAIN M)
  /\ \A j \in 1..Len(s) : j # k => Item(M, Q, s[j]) = Item(N, P, s[j])

LEMMA ItemsMove ==
  ASSUME NEW N, NEW P, NEW s, NEW k, NEW M, NEW Q, NEW r, NEW n, MovesTo(N, P, s, k, M, Q, r, n)
  PROVE  Items(M, Q, r) = Append(Dropped(Items(N, P, s), k), Item(M, Q, n))
<1>0. /\ IsTrie(N, P) /\ s \in Seq(DOMAIN N) /\ \A i \in 1..Len(s) : N[s[i]].entry.raw \in Text
      /\ k \in 1..Len(s) /\ IsTrie(M, Q) /\ r \in Seq(DOMAIN M) /\ n \in DOMAIN M
      /\ r = Append(Dropped(s, k), n) /\ M[n].entry.raw \in Text /\ s \in Seq(DOMAIN M)
      /\ \A j \in 1..Len(s) : j # k => Item(M, Q, s[j]) = Item(N, P, s[j])
  BY DEF MovesTo
<1>1. PICK L, a, b, o, d :
        /\ L = Len(s) /\ a = Items(N, P, s) /\ b = Items(M, Q, r) /\ o = Item(M, Q, n)
        /\ d = Append(Dropped(a, k), o)
  OBVIOUS
<1>2. L \in Nat /\ k \in 1..L /\ \A j \in 1..L : s[j] \in DOMAIN N /\ s[j] \in DOMAIN M
  BY <1>0, <1>1, LenProperties, ElementOfSeq
<1>3. a \in Seq(Rewritings) /\ Len(a) = L /\ \A j \in 1..L : a[j] = Item(N, P, s[j])
  BY <1>0, <1>1, ItemsAre
<1>4. IsMoved(s, k, n, r)
  BY <1>0, <1>1, <1>2, AppendDropped
<1>5. /\ Len(r) = L /\ r[L] = n
      /\ \A j \in 1..(L - 1) : r[j] = IF j < k THEN s[j] ELSE s[j + 1]
  BY <1>0, <1>1, <1>4 DEF IsMoved
<1>6. ASSUME NEW j \in 1..(L - 1)
      PROVE  /\ Item(M, Q, r[j]) = IF j < k THEN a[j] ELSE a[j + 1]
             /\ M[r[j]].entry.raw \in Text
  <2>1. CASE j < k
    <3>1. j \in 1..L /\ j # k
      BY <1>2, <2>1
    <3>2. r[j] = s[j] /\ Item(M, Q, s[j]) = Item(N, P, s[j]) /\ a[j] = Item(N, P, s[j])
      BY <1>0, <1>1, <1>3, <1>5, <2>1, <3>1
    <3>3. M[s[j]].entry.raw = N[s[j]].entry.raw /\ N[s[j]].entry.raw \in Text
      BY <1>0, <1>1, <3>1, <3>2 DEF Item
    <3> QED BY <2>1, <3>2, <3>3
  <2>2. CASE ~ (j < k)
    <3>1. j + 1 \in 1..L /\ j + 1 # k
      BY <1>2, <2>2
    <3>2. /\ r[j] = s[j + 1] /\ Item(M, Q, s[j + 1]) = Item(N, P, s[j + 1])
          /\ a[j + 1] = Item(N, P, s[j + 1])
      BY <1>0, <1>1, <1>3, <1>5, <2>2, <3>1
    <3>3. M[s[j + 1]].entry.raw = N[s[j + 1]].entry.raw /\ N[s[j + 1]].entry.raw \in Text
      BY <1>0, <1>1, <3>1, <3>2 DEF Item
    <3> QED BY <2>2, <3>2, <3>3
  <2> QED BY <2>1, <2>2
<1>7. ASSUME NEW j \in 1..L PROVE M[r[j]].entry.raw \in Text
  <2>1. j = L \/ j \in 1..(L - 1)
    BY <1>2
  <2> QED BY <1>0, <1>5, <1>6, <2>1
<1>8. b \in Seq(Rewritings) /\ Len(b) = L /\ \A j \in 1..L : b[j] = Item(M, Q, r[j])
  <2>1. \A i \in 1..Len(r) : M[r[i]].entry.raw \in Text
    BY ONLY <1>5, <1>7
  <2>2. /\ Items(M, Q, r) \in Seq(Rewritings) /\ Len(Items(M, Q, r)) = Len(r)
        /\ \A i \in 1..Len(r) : Items(M, Q, r)[i] = Item(M, Q, r[i])
    BY ONLY <1>0, <2>1, ItemsAre
  <2> QED BY ONLY <1>1, <1>5, <1>7, <2>2
<1>9. o \in Rewritings
  BY <1>0, <1>1, WaysAre DEF Item, Rewritings
<1>10. d \in Seq(Rewritings) /\ IsMoved(a, k, o, d)
  BY <1>0, <1>1, <1>2, <1>3, <1>9, AppendDropped
<1>11. /\ Len(d) = L /\ d[L] = o
       /\ \A j \in 1..(L - 1) : d[j] = IF j < k THEN a[j] ELSE a[j + 1]
  BY <1>3, <1>10 DEF IsMoved
<1>12. ASSUME NEW j \in 1..L PROVE b[j] = d[j]
  <2>1. j = L \/ j \in 1..(L - 1)
    BY <1>2
  <2>2. CASE j = L
    BY <1>0, <1>1, <1>5, <1>8, <1>11, <2>2
  <2>3. CASE j \in 1..(L - 1)
    BY <1>6, <1>8, <1>11, <2>3
  <2> QED BY <2>1, <2>2, <2>3
<1>13. b = d
  BY ONLY <1>8, <1>10, <1>11, <1>12, SeqEqual
<1> QED BY <1>0, <1>1, <1>13

AddsTo(N, P, s, M, Q, r, n) ==
  /\ IsTrie(N, P) /\ s \in Seq(DOMAIN N) /\ \A i \in 1..Len(s) : N[s[i]].entry.raw \in Text
  /\ IsTrie(M, Q) /\ r \in Seq(DOMAIN M) /\ n \in DOMAIN M
  /\ r = Append(s, n) /\ M[n].entry.raw \in Text /\ s \in Seq(DOMAIN M)
  /\ \A j \in 1..Len(s) : Item(M, Q, s[j]) = Item(N, P, s[j])

LEMMA ItemsAdded ==
  ASSUME NEW N, NEW P, NEW s, NEW M, NEW Q, NEW r, NEW n, AddsTo(N, P, s, M, Q, r, n)
  PROVE  Items(M, Q, r) = Append(Items(N, P, s), Item(M, Q, n))
<1>0. /\ IsTrie(N, P) /\ s \in Seq(DOMAIN N) /\ \A i \in 1..Len(s) : N[s[i]].entry.raw \in Text
      /\ IsTrie(M, Q) /\ r \in Seq(DOMAIN M) /\ n \in DOMAIN M
      /\ r = Append(s, n) /\ M[n].entry.raw \in Text /\ s \in Seq(DOMAIN M)
      /\ \A j \in 1..Len(s) : Item(M, Q, s[j]) = Item(N, P, s[j])
  BY DEF AddsTo
<1>1. PICK L, a, b, o, d :
        /\ L = Len(s) /\ a = Items(N, P, s) /\ b = Items(M, Q, r) /\ o = Item(M, Q, n)
        /\ d = Append(a, o)
  OBVIOUS
<1>2. L \in Nat
  BY <1>0, <1>1, LenProperties
<1>3. a \in Seq(Rewritings) /\ Len(a) = L /\ \A j \in 1..L : a[j] = Item(N, P, s[j])
  BY <1>0, <1>1, ItemsAre
<1>4. Len(r) = L + 1 /\ r[L + 1] = n /\ \A j \in 1..L : r[j] = s[j]
  BY <1>0, <1>1, AppendProperties
<1>5. ASSUME NEW j \in 1..L PROVE Item(M, Q, r[j]) = a[j] /\ M[r[j]].entry.raw \in Text
  <2>1. r[j] = s[j] /\ Item(M, Q, s[j]) = Item(N, P, s[j]) /\ a[j] = Item(N, P, s[j])
    BY <1>0, <1>1, <1>3, <1>4
  <2>2. M[s[j]].entry.raw = N[s[j]].entry.raw /\ N[s[j]].entry.raw \in Text
    BY <1>0, <1>1, <2>1 DEF Item
  <2> QED BY <2>1, <2>2
<1>6. ASSUME NEW j \in 1..(L + 1) PROVE M[r[j]].entry.raw \in Text
  <2>1. j = L + 1 \/ j \in 1..L
    BY <1>2
  <2> QED BY <1>0, <1>4, <1>5, <2>1
<1>7. b \in Seq(Rewritings) /\ Len(b) = L + 1 /\ \A j \in 1..(L + 1) : b[j] = Item(M, Q, r[j])
  <2>1. \A i \in 1..Len(r) : M[r[i]].entry.raw \in Text
    BY ONLY <1>4, <1>6
  <2>2. /\ Items(M, Q, r) \in Seq(Rewritings) /\ Len(Items(M, Q, r)) = Len(r)
        /\ \A i \in 1..Len(r) : Items(M, Q, r)[i] = Item(M, Q, r[i])
    BY ONLY <1>0, <2>1, ItemsAre
  <2> QED BY ONLY <1>1, <1>4, <1>6, <2>2
<1>8. o \in Rewritings
  BY <1>0, <1>1, WaysAre DEF Item, Rewritings
<1>9. /\ d \in Seq(Rewritings) /\ Len(d) = L + 1 /\ d[L + 1] = o
      /\ \A j \in 1..L : d[j] = a[j]
  BY <1>0, <1>1, <1>3, <1>8, AppendProperties
<1>10. ASSUME NEW j \in 1..(L + 1) PROVE b[j] = d[j]
  <2>1. j = L + 1 \/ j \in 1..L
    BY <1>2
  <2> QED BY <1>0, <1>1, <1>4, <1>5, <1>7, <1>9, <2>1
<1>11. b = d
  BY ONLY <1>7, <1>9, <1>10, SeqEqual
<1> QED BY <1>0, <1>1, <1>11

\* The items but for the first.
LessBy(N, P, s, M, Q, r) ==
  /\ IsTrie(N, P) /\ s \in Seq(DOMAIN N) /\ Len(s) > 0
  /\ \A i \in 1..Len(s) : N[s[i]].entry.raw \in Text
  /\ IsTrie(M, Q) /\ r \in Seq(DOMAIN M) /\ r = SubSeq(s, 2, Len(s))
  /\ \A j \in 2..Len(s) : Item(M, Q, s[j]) = Item(N, P, s[j])

LEMMA ItemsLess ==
  ASSUME NEW N, NEW P, NEW s, NEW M, NEW Q, NEW r, LessBy(N, P, s, M, Q, r)
  PROVE  Items(M, Q, r) = SubSeq(Items(N, P, s), 2, Len(Items(N, P, s)))
<1>0. /\ IsTrie(N, P) /\ s \in Seq(DOMAIN N) /\ Len(s) > 0
      /\ \A i \in 1..Len(s) : N[s[i]].entry.raw \in Text
      /\ IsTrie(M, Q) /\ r \in Seq(DOMAIN M) /\ r = SubSeq(s, 2, Len(s))
      /\ \A j \in 2..Len(s) : Item(M, Q, s[j]) = Item(N, P, s[j])
  BY DEF LessBy
<1>1. PICK L, a, b, d :
        /\ L = Len(s) /\ a = Items(N, P, s) /\ b = Items(M, Q, r) /\ d = SubSeq(a, 2, Len(a))
  OBVIOUS
<1>2. L \in Nat /\ L > 0
  BY <1>0, <1>1, LenProperties
<1>3. a \in Seq(Rewritings) /\ Len(a) = L /\ \A j \in 1..L : a[j] = Item(N, P, s[j])
  BY <1>0, <1>1, ItemsAre
<1>4. Len(r) = L - 1 /\ \A j \in 1..(L - 1) : r[j] = s[j + 1]
  <2>1. \A j \in 2..L : s[j] \in DOMAIN N
    BY <1>0, <1>1, <1>2, ElementOfSeq
  <2>2. /\ Len(SubSeq(s, 2, L)) = IF 2 <= L THEN L - 2 + 1 ELSE 0
        /\ \A j \in 1..(L - 2 + 1) : SubSeq(s, 2, L)[j] = s[2 + j - 1]
    BY <1>2, <2>1, SubSeqProperties
  <2>3. r = SubSeq(s, 2, L)
    BY <1>0, <1>1
  <2>4. \A j \in 1..(L - 1) : j \in 1..(L - 2 + 1) /\ 2 + j - 1 = j + 1
    BY <1>2
  <2> QED BY ONLY <1>2, <2>2, <2>3, <2>4
<1>5. ASSUME NEW j \in 1..(L - 1) PROVE Item(M, Q, r[j]) = a[j + 1] /\ M[r[j]].entry.raw \in Text
  <2>1. j + 1 \in 1..L /\ j + 1 \in 2..L
    BY <1>2
  <2>2. r[j] = s[j + 1] /\ Item(M, Q, s[j + 1]) = Item(N, P, s[j + 1]) /\ a[j + 1] = Item(N, P, s[j + 1])
    BY <1>0, <1>1, <1>3, <1>4, <2>1
  <2>3. M[s[j + 1]].entry.raw = N[s[j + 1]].entry.raw /\ N[s[j + 1]].entry.raw \in Text
    BY <1>0, <1>1, <2>1, <2>2 DEF Item
  <2> QED BY <2>2, <2>3
<1>6. b \in Seq(Rewritings) /\ Len(b) = L - 1 /\ \A j \in 1..(L - 1) : b[j] = Item(M, Q, r[j])
  <2>1. \A i \in 1..Len(r) : M[r[i]].entry.raw \in Text
    BY ONLY <1>4, <1>5
  <2>2. /\ Items(M, Q, r) \in Seq(Rewritings) /\ Len(Items(M, Q, r)) = Len(r)
        /\ \A i \in 1..Len(r) : Items(M, Q, r)[i] = Item(M, Q, r[i])
    BY ONLY <1>0, <2>1, ItemsAre
  <2> QED BY ONLY <1>1, <1>4, <1>5, <2>2
<1>7. d \in Seq(Rewritings) /\ Len(d) = L - 1 /\ \A j \in 1..(L - 1) : d[j] = a[j + 1]
  <2>1. \A j \in 2..L : a[j] \in Rewritings
    BY <1>2, <1>3, ElementOfSeq
  <2>2. /\ SubSeq(a, 2, L) \in Seq(Rewritings)
        /\ Len(SubSeq(a, 2, L)) = IF 2 <= L THEN L - 2 + 1 ELSE 0
        /\ \A j \in 1..(L - 2 + 1) : SubSeq(a, 2, L)[j] = a[2 + j - 1]
    BY <1>2, <2>1, SubSeqProperties
  <2>3. d = SubSeq(a, 2, L)
    BY <1>0, <1>1, <1>3
  <2>4. \A j \in 1..(L - 1) : j \in 1..(L - 2 + 1) /\ 2 + j - 1 = j + 1
    BY <1>2
  <2> QED BY ONLY <1>2, <2>2, <2>3, <2>4
<1>8. b = d
  BY ONLY <1>5, <1>6, <1>7, SeqEqual
<1> QED BY <1>0, <1>1, <1>8

-----------------------------------------------------------------------------
(* Lookups and inserts, seen as those of a list of rewrites.                 *)

Once(s) == \A i, j \in 1..Len(s) : s[i] = s[j] => i = j
Has(s, x) == \E i \in 1..Len(s) : s[i] = x

\* A list with n at its end, and nothing lost.
TouchedIs(S, s, n, r) ==
  /\ r \in Seq(S) /\ Once(r) /\ Len(r) > 0
  /\ \A x : Has(r, x) <=> x = n \/ Has(s, x)

LEMMA TouchAdds ==
  ASSUME NEW S, NEW s \in Seq(S), Once(s), NEW n \in S, ~ Has(s, n)
  PROVE  Touch(s, n) = Append(s, n) /\ TouchedIs(S, s, n, Touch(s, n))
<1>1. PICK L, r : L = Len(s) /\ r = Append(s, n)
  OBVIOUS
<1>2. Touch(s, n) = r
  <2>1. \A i \in 1..Len(s) : s[i] # n
    BY DEF Has
  <2> QED BY <1>1, <2>1, MovedToEnd DEF Once
<1>3. L \in Nat /\ r \in Seq(S) /\ Len(r) = L + 1 /\ r[L + 1] = n /\ \A j \in 1..L : r[j] = s[j]
  BY <1>1, AppendProperties, LenProperties
<1>4. Once(r)
  <2> SUFFICES ASSUME NEW i \in 1..(L + 1), NEW j \in 1..(L + 1), r[i] = r[j] PROVE i = j
    BY <1>3 DEF Once
  <2>1. \A k \in 1..(L + 1) : k = L + 1 \/ k \in 1..L
    BY <1>3
  <2>2. \A k \in 1..L : s[k] # n
    BY <1>1 DEF Has
  <2>3. \A a, b \in 1..L : s[a] = s[b] => a = b
    BY <1>1 DEF Once
  <2> QED BY ONLY <1>3, <2>1, <2>2, <2>3, r[i] = r[j], i \in 1..(L + 1), j \in 1..(L + 1)
<1>5. ASSUME NEW x PROVE Has(r, x) <=> x = n \/ Has(s, x)
  <2>1. \A k \in 1..(L + 1) : k = L + 1 \/ k \in 1..L
    BY <1>3
  <2>2. L + 1 \in 1..(L + 1) /\ \A k \in 1..L : k \in 1..(L + 1)
    BY <1>3
  <2> QED BY <1>1, <1>3, <2>1, <2>2 DEF Has
<1>6. TouchedIs(S, s, n, r)
  BY <1>3, <1>4, <1>5 DEF TouchedIs
<1> QED BY <1>1, <1>2, <1>6

LEMMA TouchMoves ==
  ASSUME NEW S, NEW s \in Seq(S), Once(s), NEW k \in 1..Len(s), NEW n, n = s[k]
  PROVE  Touch(s, n) = Append(Dropped(s, k), n) /\ TouchedIs(S, s, n, Touch(s, n))
<1>1. PICK L, r : L = Len(s) /\ r = Append(Dropped(s, k), n)
  OBVIOUS
<1>2. n \in S
  BY ElementOfSeq
<1>3. Touch(s, n) = r
  BY <1>1, <1>2, MovedToEnd DEF Once
<1>4. r \in Seq(S) /\ IsMoved(s, k, n, r)
  BY <1>1, <1>2, AppendDropped
<1>5. /\ L \in Nat /\ k \in 1..L /\ Len(r) = L /\ r[L] = s[k]
      /\ \A j \in 1..(L - 1) : r[j] = IF j < k THEN s[j] ELSE s[j + 1]
  BY <1>1, <1>4, LenProperties DEF IsMoved
<1>6. PICK w : w = [i \in 1..L |-> IF i = L THEN k ELSE IF i < k THEN i ELSE i + 1]
  OBVIOUS
<1>7. ASSUME NEW i \in 1..L PROVE w[i] \in 1..L /\ r[i] = s[w[i]]
  <2>1. CASE i = L
    BY <1>5, <1>6, <2>1
  <2>2. CASE i # L
    <3>1. i \in 1..(L - 1) /\ i + 1 \in 1..L
      BY <1>5, <2>2
    <3>2. w[i] = IF i < k THEN i ELSE i + 1
      BY <1>6, <2>2
    <3> QED BY <1>5, <3>1, <3>2
  <2> QED BY <2>1, <2>2
<1>8. ASSUME NEW i \in 1..L, NEW j \in 1..L, w[i] = w[j] PROVE i = j
  BY ONLY <1>5, <1>6, <1>8
<1>9. ASSUME NEW i \in 1..L PROVE \E j \in 1..L : w[j] = i
  <2>1. CASE i = k
    <3>1. L \in 1..L /\ w[L] = i
      BY ONLY <1>5, <1>6, <2>1
    <3> QED BY <3>1
  <2>2. CASE i < k
    <3>1. i \in 1..L /\ i # L
      BY ONLY <1>5, <2>2, i \in 1..L
    <3>2. w[i] = i
      BY ONLY <1>6, <2>2, <3>1
    <3> QED BY <3>2
  <2>3. CASE i > k
    <3>1. i - 1 \in 1..L /\ i - 1 # L /\ ~ (i - 1 < k) /\ i - 1 + 1 = i
      BY ONLY <1>5, <2>3, i \in 1..L
    <3>2. w[i - 1] = i
      BY ONLY <1>6, <3>1
    <3> QED BY <3>1, <3>2
  <2> QED BY <1>5, <2>1, <2>2, <2>3
<1>10. Once(r)
  <2> SUFFICES ASSUME NEW i \in 1..L, NEW j \in 1..L, r[i] = r[j] PROVE i = j
    BY <1>5 DEF Once
  <2>1. s[w[i]] = s[w[j]] /\ w[i] \in 1..L /\ w[j] \in 1..L
    BY <1>7
  <2>2. w[i] = w[j]
    BY <1>1, <2>1 DEF Once
  <2> QED BY <1>8, <2>2
<1>11. ASSUME NEW x PROVE Has(r, x) <=> x = n \/ Has(s, x)
  <2>1. Has(r, x) => Has(s, x)
    BY <1>1, <1>5, <1>7 DEF Has
  <2>2. ASSUME Has(s, x) PROVE Has(r, x)
    <3>1. PICK i \in 1..L : s[i] = x
      BY <1>1, <2>2 DEF Has
    <3>2. PICK j \in 1..L : w[j] = i
      BY <1>9
    <3>3. r[j] = x
      BY <1>7, <3>1, <3>2
    <3> QED BY <1>5, <3>3 DEF Has
  <2>3. Has(s, n)
    BY DEF Has
  <2> QED BY <2>1, <2>2, <2>3
<1>12. Len(r) > 0
  BY <1>5
<1> QED BY <1>1, <1>3, <1>4, <1>10, <1>11, <1>12 DEF TouchedIs

\* A list in its own words.
LEMMA ListedIs ==
  ASSUME NEW N, NEW P, NEW s
  PROVE  Listed(N, P, s) <=>
           /\ s \in Seq(DOMAIN N) /\ Once(s)
           /\ \A n \in DOMAIN N : N[n].entry # NoEntry => Has(s, n)
           /\ \A n : Has(s, n) => n \in DOMAIN N /\ EntryIs(N, P, n)
<1>1. s \in Seq(DOMAIN N) => \A i \in 1..Len(s) : s[i] \in DOMAIN N
  BY ElementOfSeq
<1> QED BY <1>1 DEF Listed, Once, Has

\* The rewrites that a cache holds.
Cached(c, P) == Items(c.nodes, P, c.lru)

LEMMA CachedAre ==
  ASSUME NEW c, NEW P, CacheOk(c, P)
  PROVE  /\ Cached(c, P) \in Seq(Rewritings) /\ Len(Cached(c, P)) = Len(c.lru)
         /\ DOMAIN Cached(c, P) = 1..Len(c.lru)
         /\ \A i \in 1..Len(c.lru) : /\ Cached(c, P)[i] = Item(c.nodes, P, c.lru[i])
                                     /\ Cached(c, P)[i].key = P[c.lru[i]]
                                     /\ Cached(c, P)[i].raw = c.nodes[c.lru[i]].entry.raw
                                     /\ Len(Cached(c, P)[i].key) > 0
                                     /\ c.lru[i] \in DOMAIN c.nodes
         /\ \A i, j \in 1..Len(c.lru) : Cached(c, P)[i].key = Cached(c, P)[j].key => i = j
<1>1. PICK N, s, a : N = c.nodes /\ s = c.lru /\ a = Items(N, P, s)
  OBVIOUS
<1>2. IsTrie(N, P) /\ Listed(N, P, s)
  BY <1>1 DEF CacheOk
<1>3. /\ s \in Seq(DOMAIN N) /\ \A i, j \in 1..Len(s) : s[i] = s[j] => i = j
      /\ \A i \in 1..Len(s) : N[s[i]].entry.raw \in Text /\ Len(P[s[i]]) > 0
  BY <1>2 DEF Listed, EntryIs
<1>4. \A i \in 1..Len(s) : s[i] \in DOMAIN N
  BY <1>3, ElementOfSeq
<1>5. /\ a \in Seq(Rewritings) /\ Len(a) = Len(s) /\ DOMAIN a = 1..Len(s)
      /\ \A i \in 1..Len(s) : a[i] = Item(N, P, s[i])
  BY ONLY <1>1, <1>2, <1>3, ItemsAre
<1>6. \A i \in 1..Len(s) : a[i].key = P[s[i]] /\ a[i].raw = N[s[i]].entry.raw
  BY ONLY <1>5 DEF Item
<1>7. \A i, j \in 1..Len(s) : a[i].key = a[j].key => i = j
  BY <1>2, <1>3, <1>4, <1>6, WaysDiffer
<1> QED BY <1>1, <1>3, <1>4, <1>5, <1>6, <1>7 DEF Cached

\* A node given another entry.
EntrySet(N, P, n, v, M) ==
  IsTrie(N, P) /\ n \in DOMAIN N /\ M = [N EXCEPT ![n].entry = v]

EntryKept(N, P, n, v, M) ==
  /\ IsTrie(M, P) /\ DOMAIN M = DOMAIN N /\ M[n].entry = v
  /\ \A x \in DOMAIN N \ {n} : M[x] = N[x]

LEMMA EntriesKept ==
  ASSUME NEW N, NEW P, NEW n, NEW v, NEW M, EntrySet(N, P, n, v, M)
  PROVE  EntryKept(N, P, n, v, M)
<1>0. IsTrie(N, P) /\ n \in DOMAIN N /\ M = [N EXCEPT ![n].entry = v]
  BY DEF EntrySet
<1>1. \A x \in DOMAIN N : NodeLike(N[x])
  BY <1>0, TrieGives
<1>2. DOMAIN M = DOMAIN N /\ \A x \in DOMAIN N \ {n} : M[x] = N[x]
  BY <1>0
<1>3. /\ M[n].entry = v /\ M[n].children = N[n].children /\ M[n].parent = N[n].parent
      /\ M[n].token = N[n].token /\ NodeLike(M[n])
  <2>1. PICK o, m : o = N[n] /\ m = M[n]
    OBVIOUS
  <2>2. NodeLike(o) /\ m = [o EXCEPT !.entry = v]
    BY <1>0, <1>1, <2>1
  <2>3. o = [entry |-> o.entry, children |-> o.children, parent |-> o.parent, token |-> o.token]
        /\ o.children = [k \in DOMAIN o.children |-> o.children[k]]
    BY ONLY <2>2 DEF NodeLike
  <2>4. m = [entry |-> v, children |-> o.children, parent |-> o.parent, token |-> o.token]
    BY ONLY <2>2, <2>3
  <2>5. /\ m.entry = v /\ m.children = o.children /\ m.parent = o.parent /\ m.token = o.token
        /\ NodeLike(m)
    BY ONLY <2>3, <2>4 DEF NodeLike
  <2> QED BY ONLY <2>1, <2>5
<1>4. ASSUME NEW x \in DOMAIN N
      PROVE  /\ M[x].children = N[x].children /\ M[x].parent = N[x].parent
             /\ M[x].token = N[x].token /\ NodeLike(M[x])
  BY <1>1, <1>2, <1>3
<1>5. ASSUME NEW x \in DOMAIN M, NEW k \in DOMAIN M[x].children
      PROVE  EdgeIs(M, P, x, k, M[x].children[k])
  <2>1. PICK e : e = M[x].children[k]
    OBVIOUS
  <2>2. x \in DOMAIN N /\ k \in DOMAIN N[x].children /\ e = N[x].children[k]
    BY ONLY <1>2, <1>4, <2>1, x \in DOMAIN M, k \in DOMAIN M[x].children
  <2>3. EdgeIs(N, P, x, k, e)
    BY <1>0, <2>2 DEF IsTrie
  <2>4. e.child \in DOMAIN N
    BY <2>3 DEF EdgeIs
  <2>5. EdgeIs(M, P, x, k, e)
    BY <1>2, <1>4, <2>3, <2>4, EdgeKept
  <2> QED BY <2>1, <2>5
<1>6. ASSUME NEW m \in DOMAIN M \ {Root} PROVE ParentIs(M, m)
  <2>1. m \in DOMAIN N /\ ParentIs(N, m)
    BY <1>0, <1>2, TrieGives
  <2>2. N[m].parent \in DOMAIN N /\ N[m].token \in DOMAIN N[N[m].parent].children
    BY <2>1 DEF ParentIs
  <2> QED BY ONLY <1>2, <1>4, <2>1, <2>2, ParentKept
<1>7. /\ IsFiniteSet(DOMAIN M) /\ DOMAIN M \subseteq Nat \ {NoNode} /\ Root \in DOMAIN M
      /\ P \in [DOMAIN M -> Text] /\ P[Root] = <<>>
  BY <1>0, <1>2 DEF IsTrie
<1>8. M = [x \in DOMAIN M |-> M[x]]
  BY <1>0
<1>9. IsTrie(M, P)
  BY <1>2, <1>4, <1>5, <1>6, <1>7, <1>8 DEF IsTrie
<1> QED BY <1>2, <1>3, <1>9 DEF EntryKept

\* The rewrites of other keys.
OthersOf(L, key) ==
  LET at == {i \in DOMAIN L : L[i].key = key}
      i  == CHOOSE j \in at : TRUE
  IN IF at = {} THEN L ELSE SubSeq(L, 1, i - 1) \o SubSeq(L, i + 1, Len(L))

LEMMA OthersAre ==
  ASSUME NEW L, NEW K, DOMAIN L = K, NEW key
  PROVE  /\ (\A i \in K : L[i].key # key) => OthersOf(L, key) = L
         /\ \A i \in K : /\ L[i].key = key
                         /\ \A j \in K : L[j].key = key => j = i
                         => OthersOf(L, key) = Dropped(L, i)
<1> DEFINE at == {i \in DOMAIN L : L[i].key = key}
<1>1. ASSUME \A i \in K : L[i].key # key PROVE OthersOf(L, key) = L
  <2>1. at = {}
    BY <1>1
  <2> QED BY <2>1 DEF OthersOf
<1>2. ASSUME NEW i \in K, L[i].key = key, \A j \in K : L[j].key = key => j = i
      PROVE  OthersOf(L, key) = Dropped(L, i)
  <2>1. at = {i}
    BY <1>2
  <2>2. at # {} /\ (CHOOSE j \in at : TRUE) = i
    BY <2>1
  <2> QED BY <2>2 DEF OthersOf, Dropped
<1> QED BY <1>1, <1>2

\* A lookup of t: answered with the longest key that t begins with, which is
\* moved to the end.
Answers(c, P, t, L, i) ==
  /\ i \in 1..Len(L) /\ Pre(L[i].key, t)
  /\ \A j \in 1..Len(L) : Pre(L[j].key, t) => Len(L[j].key) <= Len(L[i].key)
  /\ Rewritten(c, t) = L[i].raw \o SubSeq(t, Len(L[i].key) + 1, Len(t))
  /\ CacheOk(Looked(c, t), P)
  /\ Cached(Looked(c, t), P) = Append(Dropped(L, i), L[i])

Misses(c, t, L) ==
  /\ \A i \in 1..Len(L) : ~ Pre(L[i].key, t)
  /\ Rewritten(c, t) = t /\ Looked(c, t) = c

LEMMA LookedMoves ==
  ASSUME NEW c, NEW P, CacheOk(c, P), NEW i \in 1..Len(c.lru), NEW d,
         d = [c EXCEPT !.lru = Touch(@, c.lru[i])]
  PROVE  CacheOk(d, P) /\ Cached(d, P) = Append(Dropped(Cached(c, P), i), Cached(c, P)[i])
<1>1. PICK N, s, r, n : N = c.nodes /\ s = c.lru /\ n = s[i] /\ r = Touch(s, n)
  OBVIOUS
<1>2. IsTrie(N, P) /\ Listed(N, P, s) /\ c = [nodes |-> N, lru |-> s]
  BY <1>1 DEF CacheOk
<1>3. d = [nodes |-> N, lru |-> r]
  <2>1. d = [c EXCEPT !.lru = r]
    BY <1>1
  <2> QED BY ONLY <1>2, <2>1
<1>4. d.nodes = N /\ d.lru = r /\ d = [nodes |-> d.nodes, lru |-> d.lru]
  BY ONLY <1>3
<1>5. /\ s \in Seq(DOMAIN N) /\ Once(s)
      /\ \A x \in DOMAIN N : N[x].entry # NoEntry => Has(s, x)
      /\ \A x : Has(s, x) => x \in DOMAIN N /\ EntryIs(N, P, x)
  BY <1>2, ListedIs
<1>6. r = Append(Dropped(s, i), n) /\ TouchedIs(DOMAIN N, s, n, r)
  BY <1>1, <1>5, TouchMoves
<1>7. Has(s, n)
  BY <1>1 DEF Has
<1>8. Listed(N, P, r)
  BY <1>5, <1>6, <1>7, ListedIs DEF TouchedIs
<1>9. CacheOk(d, P)
  BY <1>2, <1>4, <1>8 DEF CacheOk
<1>10. Items(N, P, r) = Append(Dropped(Items(N, P, s), i), Item(N, P, n))
  <2>1. n \in DOMAIN N /\ N[n].entry.raw \in Text
    BY <1>5, <1>7 DEF EntryIs
  <2>2. \A j \in 1..Len(s) : N[s[j]].entry.raw \in Text
    BY <1>5 DEF EntryIs, Has
  <2>3. r \in Seq(DOMAIN N) /\ i \in 1..Len(s)
    BY <1>1, <1>6 DEF TouchedIs
  <2>4. MovesTo(N, P, s, i, N, P, r, n)
    BY ONLY <1>2, <1>5, <1>6, <2>1, <2>2, <2>3 DEF MovesTo
  <2> QED BY <2>4, ItemsMove
<1>11. Cached(c, P)[i] = Item(N, P, n)
  BY <1>1, CachedAre
<1> QED BY <1>1, <1>4, <1>9, <1>10, <1>11 DEF Cached

LEMMA Lookups ==
  ASSUME NEW c, NEW P, CacheOk(c, P), NEW t \in Text
  PROVE  Misses(c, t, Cached(c, P)) \/ \E i : Answers(c, P, t, Cached(c, P), i)
<1>1. PICK N, s, L, b : N = c.nodes /\ s = c.lru /\ L = Cached(c, P) /\ b = BestNode(c, t)
  OBVIOUS
<1>2. IsTrie(N, P) /\ Listed(N, P, s)
  BY <1>1 DEF CacheOk
<1>3. /\ s \in Seq(DOMAIN N) /\ Once(s)
      /\ \A x \in DOMAIN N : N[x].entry # NoEntry => Has(s, x)
      /\ \A x : Has(s, x) => x \in DOMAIN N /\ EntryIs(N, P, x)
  BY <1>2, ListedIs
<1>4. /\ Len(L) = Len(s)
      /\ \A i \in 1..Len(s) : /\ L[i].key = P[s[i]] /\ L[i].raw = N[s[i]].entry.raw
                              /\ s[i] \in DOMAIN N
  <2>1. /\ Len(Cached(c, P)) = Len(c.lru)
        /\ \A i \in 1..Len(c.lru) : /\ Cached(c, P)[i].key = P[c.lru[i]]
                                    /\ Cached(c, P)[i].raw = c.nodes[c.lru[i]].entry.raw
                                    /\ c.lru[i] \in DOMAIN c.nodes
    BY CachedAre
  <2> QED BY ONLY <1>1, <2>1
<1>5. ASSUME NEW i \in 1..Len(s), Pre(L[i].key, t) PROVE Remembered(N, P, t, s[i])
  <2>1. Has(s, s[i])
    BY DEF Has
  <2>2. EntryIs(N, P, s[i])
    BY <1>3, <2>1
  <2>3. N[s[i]].entry # NoEntry /\ Len(P[s[i]]) > 0
    BY <2>2, EntryThere DEF EntryIs
  <2> QED BY <1>4, <1>5, <2>3 DEF Remembered
<1>6. /\ b = NoNode => \A m \in DOMAIN N : ~ Remembered(N, P, t, m)
      /\ b # NoNode => /\ b \in DOMAIN N /\ Remembered(N, P, t, b)
                       /\ \A m \in DOMAIN N : Remembered(N, P, t, m) => Len(P[m]) <= Len(P[b])
  BY <1>1, <1>2, BestNodeIs
<1>7. CASE b = NoNode
  <2>1. \A i \in 1..Len(L) : ~ Pre(L[i].key, t)
    BY <1>4, <1>5, <1>6, <1>7
  <2>2. Looked(c, t) = c
    BY <1>1, <1>7 DEF Looked
  <2>3. Rewritten(c, t) = t
    <3>1. PICK z, q : z = 0 /\ q = <<>>
      OBVIOUS
    <3>2. Rewritten(c, t) = q \o SubSeq(t, z + 1, Len(t))
      BY <1>1, <1>7, <3>1 DEF Rewritten, NoEntry
    <3>3. z + 1 = 1
      BY <3>1
    <3>4. SubSeq(t, 1, Len(t)) = t /\ q \o t = t
      BY <3>1, SubSeqFull, ConcatEmptySeq DEF Text
    <3> QED BY <3>2, <3>3, <3>4
  <2> QED BY <1>1, <2>1, <2>2, <2>3 DEF Misses
<1>8. CASE b # NoNode
  <2>1. b \in DOMAIN N /\ Remembered(N, P, t, b)
    BY <1>6, <1>8
  <2>2. PICK i \in 1..Len(s) : s[i] = b
    BY <1>3, <2>1 DEF Remembered, Has
  <2>3. EntryIs(N, P, b)
    BY <1>3, <2>2 DEF Has
  <2>4. Pre(L[i].key, t) /\ \A j \in 1..Len(s) : Pre(L[j].key, t) => Len(L[j].key) <= Len(L[i].key)
    <3>1. Pre(L[i].key, t)
      BY <1>4, <2>1, <2>2 DEF Remembered
    <3>2. ASSUME NEW j \in 1..Len(s), Pre(L[j].key, t) PROVE Len(L[j].key) <= Len(L[i].key)
      <4>1. s[j] \in DOMAIN N /\ Remembered(N, P, t, s[j])
        BY <1>4, <1>5, <3>2
      <4>2. Len(P[s[j]]) <= Len(P[b])
        BY <1>6, <1>8, <4>1
      <4> QED BY <1>4, <2>2, <4>2
    <3> QED BY <3>1, <3>2
  <2>5. Rewritten(c, t) = L[i].raw \o SubSeq(t, Len(L[i].key) + 1, Len(t))
    <3>1. PICK e : e = N[b].entry
      OBVIOUS
    <3>2. Rewritten(c, t) = e.raw \o SubSeq(t, e.len + 1, Len(t))
      BY <1>1, <1>8, <3>1 DEF Rewritten
    <3>3. e.len = Len(P[b])
      <4>1. e = [len |-> Len(P[b]), raw |-> e.raw]
        BY <2>3, <3>1 DEF EntryIs
      <4> QED BY ONLY <4>1
    <3> QED BY <1>4, <2>2, <3>1, <3>2, <3>3
  <2>6. PICK d : d = Looked(c, t)
    OBVIOUS
  <2>7. d = [c EXCEPT !.lru = Touch(@, c.lru[i])]
    BY <1>1, <1>8, <2>2, <2>6 DEF Looked
  <2>8. CacheOk(d, P) /\ Cached(d, P) = Append(Dropped(L, i), L[i])
    BY <1>1, <2>7, LookedMoves
  <2>9. Answers(c, P, t, L, i)
    BY <1>4, <2>4, <2>5, <2>6, <2>8 DEF Answers
  <2> QED BY <1>1, <2>9
<1> QED BY <1>7, <1>8

LEMMA ListedWithin ==
  ASSUME NEW N, NEW P, NEW s, Listed(N, P, s), NEW M, NEW Q, Within(N, P, M, Q)
  PROVE  Listed(M, Q, s) /\ \A i \in 1..Len(s) : Item(M, Q, s[i]) = Item(N, P, s[i])
<1>1. /\ s \in Seq(DOMAIN N) /\ Once(s)
      /\ \A x \in DOMAIN N : N[x].entry # NoEntry => Has(s, x)
      /\ \A x : Has(s, x) => x \in DOMAIN N /\ EntryIs(N, P, x)
  BY ListedIs
<1>2. /\ DOMAIN N \subseteq DOMAIN M
      /\ \A x \in DOMAIN N : N[x].entry = M[x].entry /\ P[x] = Q[x]
      /\ \A x \in DOMAIN M \ DOMAIN N : M[x].entry = NoEntry
  BY DEF Within
<1>3. s \in Seq(DOMAIN M)
  BY <1>1, <1>2, SeqMonotonic
<1>4. \A x \in DOMAIN N : EntryIs(N, P, x) => EntryIs(M, Q, x)
  BY <1>2 DEF EntryIs
<1>5. Listed(M, Q, s)
  BY <1>1, <1>2, <1>3, <1>4, ListedIs
<1>6. \A i \in 1..Len(s) : s[i] \in DOMAIN N
  BY <1>1 DEF Has
<1>7. \A i \in 1..Len(s) : Item(M, Q, s[i]) = Item(N, P, s[i])
  BY <1>2, <1>6 DEF Item
<1> QED BY <1>5, <1>7

\* The entry of m set, and m moved to the end of the list.
SetsEntry(M, Q, s, m, key, raw, O, r) ==
  /\ IsTrie(M, Q) /\ Listed(M, Q, s) /\ m \in DOMAIN M /\ Q[m] = key
  /\ Len(key) > 0 /\ raw \in Text
  /\ O = [M EXCEPT ![m].entry = [len |-> Len(key), raw |-> raw]]
  /\ r = Touch(s, m)

SetIs(M, Q, s, key, raw, O, r) ==
  /\ IsTrie(O, Q) /\ Listed(O, Q, r) /\ Len(r) > 0
  /\ Items(O, Q, r) = Append(OthersOf(Items(M, Q, s), key), [key |-> key, raw |-> raw])

LEMMA Sets ==
  ASSUME NEW M, NEW Q, NEW s, NEW m, NEW key, NEW raw, NEW O, NEW r,
         SetsEntry(M, Q, s, m, key, raw, O, r)
  PROVE  SetIs(M, Q, s, key, raw, O, r)
<1>0. /\ IsTrie(M, Q) /\ Listed(M, Q, s) /\ m \in DOMAIN M /\ Q[m] = key
      /\ Len(key) > 0 /\ raw \in Text
      /\ O = [M EXCEPT ![m].entry = [len |-> Len(key), raw |-> raw]]
      /\ r = Touch(s, m)
  BY DEF SetsEntry
<1>1. PICK v : v = [len |-> Len(key), raw |-> raw]
  OBVIOUS
<1>2. /\ IsTrie(O, Q) /\ DOMAIN O = DOMAIN M /\ O[m].entry = v
      /\ \A x \in DOMAIN M \ {m} : O[x] = M[x]
  <2>1. EntrySet(M, Q, m, v, O)
    BY <1>0, <1>1 DEF EntrySet
  <2>2. EntryKept(M, Q, m, v, O)
    BY <2>1, EntriesKept
  <2> QED BY <2>2 DEF EntryKept
<1>3. /\ s \in Seq(DOMAIN M) /\ Once(s)
      /\ \A x \in DOMAIN M : M[x].entry # NoEntry => Has(s, x)
      /\ \A x : Has(s, x) => x \in DOMAIN M /\ EntryIs(M, Q, x)
  BY <1>0, ListedIs
<1>4. v.raw = raw /\ v = [len |-> Len(Q[m]), raw |-> v.raw]
  BY <1>0, <1>1
<1>5. EntryIs(O, Q, m) /\ \A x \in DOMAIN M \ {m} : EntryIs(M, Q, x) => EntryIs(O, Q, x)
  <2>1. EntryIs(O, Q, m)
    BY <1>0, <1>2, <1>4 DEF EntryIs
  <2>2. \A x \in DOMAIN M \ {m} : EntryIs(M, Q, x) => EntryIs(O, Q, x)
    BY <1>2 DEF EntryIs
  <2> QED BY <2>1, <2>2
<1>6. TouchedIs(DOMAIN M, s, m, r)
  <2>1. CASE Has(s, m)
    <3>1. PICK k \in 1..Len(s) : s[k] = m
      BY <2>1 DEF Has
    <3> QED BY <1>0, <1>3, <3>1, TouchMoves
  <2>2. CASE ~ Has(s, m)
    BY <1>0, <1>3, <2>2, TouchAdds
  <2> QED BY <2>1, <2>2
<1>7. /\ r \in Seq(DOMAIN O) /\ Once(r) /\ Len(r) > 0
      /\ \A x : Has(r, x) <=> x = m \/ Has(s, x)
  BY <1>2, <1>6 DEF TouchedIs
<1>8. Listed(O, Q, r)
  <2>1. \A x \in DOMAIN O : O[x].entry # NoEntry => Has(r, x)
    BY <1>2, <1>3, <1>7
  <2>2. \A x : Has(r, x) => x \in DOMAIN O /\ EntryIs(O, Q, x)
    BY <1>0, <1>2, <1>3, <1>5, <1>7
  <2> QED BY <1>7, <2>1, <2>2, ListedIs
<1>9. PICK L, o : L = Items(M, Q, s) /\ o = [key |-> key, raw |-> raw]
  OBVIOUS
<1>10. o = Item(O, Q, m)
  BY <1>0, <1>2, <1>4, <1>9 DEF Item
<1>11. \A i \in 1..Len(s) : s[i] \in DOMAIN M /\ M[s[i]].entry.raw \in Text
  BY <1>3 DEF Has, EntryIs
<1>12. /\ DOMAIN L = 1..Len(s) /\ \A i \in 1..Len(s) : L[i].key = Q[s[i]]
  <2>1. DOMAIN L = 1..Len(s) /\ \A i \in 1..Len(s) : L[i] = Item(M, Q, s[i])
    BY <1>0, <1>3, <1>9, <1>11, ItemsAre
  <2> QED BY <2>1 DEF Item
<1>13. \A i \in 1..Len(s) : L[i].key = key <=> s[i] = m
  BY <1>0, <1>11, <1>12, WaysDiffer
<1>14. \A j \in 1..Len(s) : s[j] # m => Item(O, Q, s[j]) = Item(M, Q, s[j])
  BY <1>2, <1>11 DEF Item
<1>15. O[m].entry.raw \in Text /\ s \in Seq(DOMAIN O) /\ m \in DOMAIN O
  BY <1>0, <1>2, <1>3, <1>4
<1>16. CASE Has(s, m)
  <2>1. PICK k \in 1..Len(s) : s[k] = m
    BY <1>16 DEF Has
  <2>2. r = Append(Dropped(s, k), m)
    BY <1>0, <1>3, <2>1, TouchMoves
  <2>3. \A j \in 1..Len(s) : j # k => s[j] # m
    BY <1>3, <2>1 DEF Once
  <2>4. MovesTo(M, Q, s, k, O, Q, r, m)
    BY <1>0, <1>2, <1>3, <1>7, <1>11, <1>14, <1>15, <2>1, <2>2, <2>3 DEF MovesTo
  <2>5. Items(O, Q, r) = Append(Dropped(L, k), o)
    BY <1>9, <1>10, <2>4, ItemsMove
  <2>6. OthersOf(L, key) = Dropped(L, k)
    BY <1>12, <1>13, <2>1, <2>3, OthersAre
  <2> QED BY <1>2, <1>7, <1>8, <1>9, <2>5, <2>6 DEF SetIs
<1>17. CASE ~ Has(s, m)
  <2>1. r = Append(s, m)
    BY <1>0, <1>3, <1>17, TouchAdds
  <2>2. \A j \in 1..Len(s) : s[j] # m
    BY <1>17 DEF Has
  <2>3. \A j \in 1..Len(s) : Item(O, Q, s[j]) = Item(M, Q, s[j])
    BY <1>14, <2>2
  <2>4. Items(O, Q, r) = Append(Items(M, Q, s), Item(O, Q, m))
    <3>1. AddsTo(M, Q, s, O, Q, r, m)
      BY <1>0, <1>2, <1>3, <1>7, <1>11, <1>15, <2>1, <2>3 DEF AddsTo
    <3> QED BY <3>1, ItemsAdded
  <2>5. OthersOf(L, key) = L
    BY <1>12, <1>13, <2>2, OthersAre
  <2> QED BY <1>2, <1>7, <1>8, <1>9, <1>10, <2>4, <2>5 DEF SetIs
<1> QED BY <1>16, <1>17

Bounded(all) == SubSeq(all, IF Len(all) > MaxEntries THEN 2 ELSE 1, Len(all))

Evictable(M, Q, r, c) ==
  IsTrie(M, Q) /\ Listed(M, Q, r) /\ Len(r) > 0 /\ c = [nodes |-> M, lru |-> r]

EvictsTo(c, L) == \E O : CacheOk(Evicted(c), O) /\ Cached(Evicted(c), O) = Bounded(L)

LEMMA Evicts ==
  ASSUME NEW M, NEW Q, NEW r, NEW c, Evictable(M, Q, r, c)
  PROVE  EvictsTo(c, Items(M, Q, r))
<1>0. /\ IsTrie(M, Q) /\ Listed(M, Q, r) /\ Len(r) > 0 /\ c = [nodes |-> M, lru |-> r]
      /\ c.nodes = M /\ c.lru = r
  BY DEF Evictable
<1>1. /\ r \in Seq(DOMAIN M) /\ Once(r)
      /\ \A x \in DOMAIN M : M[x].entry # NoEntry => Has(r, x)
      /\ \A x : Has(r, x) => x \in DOMAIN M /\ EntryIs(M, Q, x)
  BY <1>0, ListedIs
<1>2. PICK n, L : n = Len(r) /\ L = Items(M, Q, r)
  OBVIOUS
<1>3. \A i \in 1..n : r[i] \in DOMAIN M /\ M[r[i]].entry.raw \in Text
  BY <1>1, <1>2 DEF Has, EntryIs
<1>4. L \in Seq(Rewritings) /\ Len(L) = n
  BY <1>0, <1>1, <1>2, <1>3, ItemsAre
<1>5. n \in Nat \ {0} /\ MaxEntries \in Nat
  BY <1>0, <1>1, <1>2, LenProperties, MaxEntriesAssumption
<1>6. CASE n <= MaxEntries
  <2>1. Evicted(c) = c
    BY <1>0, <1>2, <1>6 DEF Evicted
  <2>2. CacheOk(c, Q)
    BY <1>0 DEF CacheOk
  <2>3. Bounded(L) = L
    <3>1. ~ (Len(L) > MaxEntries)
      BY <1>4, <1>5, <1>6
    <3>2. SubSeq(L, 1, Len(L)) = L
      BY <1>4, SubSeqFull
    <3> QED BY <3>1, <3>2 DEF Bounded
  <2> QED BY <1>0, <1>2, <2>1, <2>2, <2>3 DEF Cached, EvictsTo
<1>7. CASE n > MaxEntries
  <2>1. PICK old, N, q, d :
          /\ old = r[1] /\ N = [M EXCEPT ![old].entry = NoEntry] /\ q = SubSeq(r, 2, Len(r))
          /\ d = [nodes |-> N, lru |-> q]
    OBVIOUS
  <2>2. Evicted(c) = Pruned(d, old)
    <3>1. ~ (Len(c.lru) <= MaxEntries)
      BY <1>0, <1>2, <1>5, <1>7
    <3> QED BY <1>0, <2>1, <3>1 DEF Evicted
  <2>3. 1 \in 1..n /\ old \in DOMAIN M
    BY <1>3, <1>5, <2>1
  <2>4. /\ IsTrie(N, Q) /\ DOMAIN N = DOMAIN M /\ N[old].entry = NoEntry
        /\ \A x \in DOMAIN M \ {old} : N[x] = M[x]
    <3>1. EntrySet(M, Q, old, NoEntry, N)
      BY <1>0, <2>1, <2>3 DEF EntrySet
    <3>2. EntryKept(M, Q, old, NoEntry, N)
      BY <3>1, EntriesKept
    <3> QED BY <3>2 DEF EntryKept
  <2>5. d.nodes = N /\ d.lru = q /\ d = [nodes |-> d.nodes, lru |-> d.lru]
    BY ONLY <2>1
  <2>6. PICK O, R : /\ Pruned(d, old) = [nodes |-> O, lru |-> q]
                    /\ IsTrie(O, R) /\ Within(O, R, N, Q)
    <3>1. \E O, R : /\ Pruned(d, old) = [nodes |-> O, lru |-> d.lru]
                    /\ IsTrie(O, R) /\ Within(O, R, d.nodes, Q)
      BY <2>3, <2>4, <2>5, PrunedIs
    <3> QED BY <2>5, <3>1
  <2>7. /\ DOMAIN O \subseteq DOMAIN N
        /\ \A x \in DOMAIN O : O[x].entry = N[x].entry /\ R[x] = Q[x]
        /\ \A x \in DOMAIN N \ DOMAIN O : N[x].entry = NoEntry
    BY <2>6 DEF Within
  <2>8. /\ Len(q) = n - 1 /\ \A j \in 1..(n - 1) : q[j] = r[j + 1]
        /\ \A T : (\A i \in 2..n : r[i] \in T) => q \in Seq(T)
    <3>1. /\ Len(SubSeq(r, 2, n)) = IF 2 <= n THEN n - 2 + 1 ELSE 0
          /\ \A j \in 1..(n - 2 + 1) : SubSeq(r, 2, n)[j] = r[2 + j - 1]
      <4>1. \A i \in 2..n : r[i] \in DOMAIN M
        BY <1>3, <1>5
      <4> QED BY <1>5, <4>1, SubSeqProperties
    <3>2. \A T : (\A i \in 2..n : r[i] \in T) => SubSeq(r, 2, n) \in Seq(T)
      BY <1>5, SubSeqProperties
    <3>3. \A j \in 1..(n - 1) : j \in 1..(n - 2 + 1) /\ 2 + j - 1 = j + 1
      BY <1>5
    <3>4. q = SubSeq(r, 2, n)
      BY <1>2, <2>1
    <3>5. n - 2 + 1 = n - 1 /\ (~ (2 <= n) => n - 1 = 0)
      BY <1>5
    <3> QED BY ONLY <3>1, <3>2, <3>3, <3>4, <3>5
  <2>9. ASSUME NEW i \in 2..n
        PROVE  /\ r[i] # old /\ r[i] \in DOMAIN O /\ EntryIs(O, R, r[i])
               /\ Item(O, R, r[i]) = Item(M, Q, r[i])
    <3>1. i \in 1..n /\ i # 1
      BY <1>5
    <3>2. r[i] # old
      BY <1>1, <1>2, <2>1, <2>3, <3>1 DEF Once
    <3>3. r[i] \in DOMAIN M /\ EntryIs(M, Q, r[i])
      BY <1>1, <1>2, <3>1 DEF Has
    <3>4. N[r[i]].entry = M[r[i]].entry /\ M[r[i]].entry # NoEntry
      BY <2>4, <3>2, <3>3, EntryThere
    <3>5. r[i] \in DOMAIN O
      BY <2>4, <2>7, <3>3, <3>4
    <3>6. O[r[i]].entry = M[r[i]].entry /\ R[r[i]] = Q[r[i]]
      BY <2>7, <3>4, <3>5
    <3> QED BY <3>2, <3>3, <3>5, <3>6 DEF EntryIs, Item
  <2>10. q \in Seq(DOMAIN O)
    BY <2>8, <2>9
  <2>11. ASSUME NEW j \in 1..(n - 1) PROVE j + 1 \in 2..n /\ q[j] = r[j + 1]
    BY <1>5, <2>8
  <2>12. Once(q)
    <3> SUFFICES ASSUME NEW i \in 1..(n - 1), NEW j \in 1..(n - 1), q[i] = q[j] PROVE i = j
      BY <2>8 DEF Once
    <3>1. i + 1 \in 1..n /\ j + 1 \in 1..n /\ r[i + 1] = r[j + 1]
      BY <1>5, <2>8
    <3>2. i + 1 = j + 1
      BY <1>1, <1>2, <3>1 DEF Once
    <3> QED BY <3>2
  <2>13. \A x \in DOMAIN O : O[x].entry # NoEntry => Has(q, x)
    <3> SUFFICES ASSUME NEW x \in DOMAIN O, O[x].entry # NoEntry PROVE Has(q, x)
      OBVIOUS
    <3>1. x \in DOMAIN N /\ N[x].entry # NoEntry /\ x # old
      BY <2>4, <2>7
    <3>2. x \in DOMAIN M /\ M[x].entry # NoEntry
      BY <2>4, <3>1
    <3>3. PICK i \in 1..n : r[i] = x
      BY <1>1, <1>2, <3>2 DEF Has
    <3>4. i # 1
      BY <2>1, <3>1, <3>3
    <3>5. i - 1 \in 1..(n - 1) /\ (i - 1) + 1 = i
      BY <1>5, <3>4
    <3>6. q[i - 1] = x
      BY <2>8, <3>3, <3>5
    <3> QED BY <2>8, <3>5, <3>6 DEF Has
  <2>14. \A x : Has(q, x) => x \in DOMAIN O /\ EntryIs(O, R, x)
    <3> SUFFICES ASSUME NEW j \in 1..(n - 1) PROVE q[j] \in DOMAIN O /\ EntryIs(O, R, q[j])
      BY <2>8 DEF Has
    <3>1. j + 1 \in 2..n /\ q[j] = r[j + 1]
      BY <2>11
    <3> QED BY <2>9, <3>1
  <2>15. Listed(O, R, q)
    BY <2>10, <2>12, <2>13, <2>14, ListedIs
  <2>16. PICK e : e = Evicted(c)
    OBVIOUS
  <2>17. e = [nodes |-> O, lru |-> q]
    BY <2>2, <2>6, <2>16
  <2>18. e.nodes = O /\ e.lru = q /\ e = [nodes |-> e.nodes, lru |-> e.lru]
    BY ONLY <2>17
  <2>19. CacheOk(e, R)
    BY <2>6, <2>15, <2>18 DEF CacheOk
  <2>20. Items(O, R, q) = SubSeq(L, 2, Len(L))
    <3>1. Len(r) > 0 /\ q = SubSeq(r, 2, Len(r))
      BY <1>0, <2>1
    <3>2. \A i \in 1..Len(r) : M[r[i]].entry.raw \in Text
      BY <1>2, <1>3
    <3>3. \A j \in 2..Len(r) : Item(O, R, r[j]) = Item(M, Q, r[j])
      BY <1>2, <2>9
    <3>4. LessBy(M, Q, r, O, R, q)
      BY <1>0, <1>1, <2>6, <2>10, <3>1, <3>2, <3>3 DEF LessBy
    <3>5. Items(O, R, q) = SubSeq(Items(M, Q, r), 2, Len(Items(M, Q, r)))
      BY <3>4, ItemsLess
    <3> QED BY <1>2, <3>5
  <2>21. Len(L) > MaxEntries
    BY <1>4, <1>7
  <2> QED BY <1>2, <2>16, <2>18, <2>19, <2>20, <2>21 DEF Bounded, Cached, EvictsTo
<1> QED BY <1>5, <1>6, <1>7

\* An insert of raw for the key: the list of rewrites, with it at its end.
Inserts(c, P, key, raw) ==
  \E Q : /\ CacheOk(Inserted(c, key, raw), Q)
         /\ Cached(Inserted(c, key, raw), Q)
              = Bounded(Append(OthersOf(Cached(c, P), key), [key |-> key, raw |-> raw]))

LEMMA InsertsIs ==
  ASSUME NEW c, NEW P, CacheOk(c, P), NEW key \in Text, Len(key) > 0, NEW raw \in Text
  PROVE  Inserts(c, P, key, raw)
<1>1. PICK N, s, g : N = c.nodes /\ s = c.lru /\ g = Grown(c, key)
  OBVIOUS
<1>2. c = [nodes |-> c.nodes, lru |-> c.lru] /\ IsTrie(N, P) /\ Listed(N, P, s)
  BY <1>1 DEF CacheOk
<1>3. GrownIs(c, P, key, g)
  BY <1>1, <1>2, Grows
<1>4. PICK M, Q, m : /\ g = [cache |-> [nodes |-> M, lru |-> c.lru], node |-> m]
                     /\ IsTrie(M, Q) /\ Within(N, P, M, Q)
                     /\ m \in DOMAIN M /\ Q[m] = key
  BY <1>1, <1>3 DEF GrownIs
<1>5. g.cache.nodes = M /\ g.cache.lru = s /\ g.node = m
  BY <1>1, <1>4
<1>6. Listed(M, Q, s) /\ \A i \in 1..Len(s) : Item(M, Q, s[i]) = Item(N, P, s[i])
  BY <1>2, <1>4, ListedWithin
<1>7. PICK O, r, d : /\ O = [M EXCEPT ![m].entry = [len |-> Len(key), raw |-> raw]]
                     /\ r = Touch(s, m) /\ d = [nodes |-> O, lru |-> r]
  OBVIOUS
<1>8. Inserted(c, key, raw) = Evicted(d)
  BY <1>1, <1>5, <1>7 DEF Inserted
<1>9. SetsEntry(M, Q, s, m, key, raw, O, r)
  BY <1>4, <1>6, <1>7 DEF SetsEntry
<1>10. /\ IsTrie(O, Q) /\ Listed(O, Q, r) /\ Len(r) > 0
       /\ Items(O, Q, r) = Append(OthersOf(Items(M, Q, s), key), [key |-> key, raw |-> raw])
  <2>1. SetIs(M, Q, s, key, raw, O, r)
    BY <1>9, Sets
  <2> QED BY <2>1 DEF SetIs
<1>11. Items(M, Q, s) = Cached(c, P)
  BY <1>1, <1>6 DEF Items, Cached
<1>12. EvictsTo(d, Items(O, Q, r))
  <2>1. Evictable(O, Q, r, d)
    BY <1>7, <1>10 DEF Evictable
  <2> QED BY <2>1, Evicts
<1> QED BY <1>8, <1>10, <1>11, <1>12 DEF Inserts, EvictsTo

-----------------------------------------------------------------------------
(* The text of the prompts *)

\* Tokens are numbers, a chat template renders to some, and a text encodes to
\* some.
TokensPremise ==
  /\ \A r \in Clients : Prompts[r] \subseteq Text \ {<<>>} /\ Replies[r] \subseteq Text
  /\ \A s \in Text : Encode(Decode(s)) \in Text

\* A text encodes to tokens that read as it does, and what a sequence of tokens
\* reads as is made of what its parts read as.
TokenizerPremise ==
  /\ TokensPremise
  /\ \A s \in Text : Decode(Encode(Decode(s))) = Decode(s)
  /\ \A p, q, s, t \in Text :
       Decode(p) = Decode(q) /\ Decode(s) = Decode(t) => Decode(p \o s) = Decode(q \o t)

\* The pairs E of tokens that are alike, and stay so when they are joined:
\* those of the same text, or all.
Alike(E) ==
  /\ \A s \in Text : <<s, s>> \in E /\ <<s, Encode(Decode(s))>> \in E
  /\ \A p, q, s, t \in Text : <<p, q>> \in E /\ <<s, t>> \in E => <<p \o s, q \o t>> \in E

SameText == {x \in Text \X Text : Decode(x[1]) = Decode(x[2])}
AnyText == Text \X Text

\* The rewrites that keep the text, and the caches of such.
Faithful(E) == {x \in Rewritings : <<x.raw, x.key>> \in E}

ReadsSame(c, E) == \E P : CacheOk(c, P) /\ Cached(c, P) \in Seq(Faithful(E))

LEMMA EmptyIsTrie ==
  ASSUME NEW P, P = [n \in {Root} |-> <<>>]
  PROVE  CacheOk(EmptyCache, P) /\ Cached(EmptyCache, P) = <<>>
<1>1. PICK N, x, c : /\ N = [n \in {Root} |-> x] /\ c = EmptyCache
                     /\ x = [entry |-> NoEntry, children |-> <<>>, parent |-> NoNode, token |-> 0]
  OBVIOUS
<1>2. c = [nodes |-> N, lru |-> <<>>] /\ c.nodes = N /\ c.lru = <<>>
  BY <1>1 DEF EmptyCache
<1>3. /\ x.entry = NoEntry /\ x.children = <<>> /\ x.parent = NoNode /\ x.token = 0
      /\ x = [entry |-> x.entry, children |-> x.children, parent |-> x.parent, token |-> x.token]
  BY ONLY <1>1
<1>4. DOMAIN N = {Root} /\ N[Root] = x /\ N = [n \in DOMAIN N |-> N[n]]
  BY ONLY <1>1
<1>5. DOMAIN x.children = {} /\ x.children = [k \in DOMAIN x.children |-> x.children[k]]
  BY ONLY <1>3
<1>6. NodeLike(x)
  BY ONLY <1>3, <1>5 DEF NodeLike
<1>7. P \in [DOMAIN N -> Text] /\ P[Root] = <<>>
  BY <1>4 DEF Text
<1>8. IsFiniteSet(DOMAIN N)
  BY <1>4, FS_Singleton
<1>9. DOMAIN N \subseteq Nat \ {NoNode} /\ Root \in DOMAIN N
  BY <1>4 DEF Root, NoNode
<1>10. IsTrie(N, P)
  BY <1>4, <1>5, <1>6, <1>7, <1>8, <1>9 DEF IsTrie
<1>11. Len(c.lru) = 0 /\ c.lru \in Seq(DOMAIN N) /\ 1..0 = {}
  BY <1>2
<1>12. Listed(N, P, c.lru)
  BY <1>3, <1>4, <1>11 DEF Listed
<1>13. Items(N, P, c.lru) = <<>>
  <2>1. Items(N, P, c.lru) = [i \in 1..0 |-> Item(N, P, c.lru[i])]
    BY <1>11 DEF Items
  <2> QED BY <1>11, <2>1
<1> QED BY <1>1, <1>2, <1>10, <1>12, <1>13 DEF CacheOk, Cached

LEMMA EmptyReadsSame == ASSUME NEW E PROVE ReadsSame(EmptyCache, E)
<1>1. PICK P : P = [n \in {Root} |-> <<>>]
  OBVIOUS
<1>2. <<>> \in Seq(Faithful(E))
  OBVIOUS
<1> QED BY <1>1, <1>2, EmptyIsTrie DEF ReadsSame

LEMMA DroppedIn ==
  ASSUME NEW S, NEW L \in Seq(S), NEW key
  PROVE  OthersOf(L, key) \in Seq(S)
<1> DEFINE at == {i \in DOMAIN L : L[i].key = key}
<1>1. CASE at = {}
  BY <1>1 DEF OthersOf
<1>2. CASE at # {}
  <2>1. PICK i : i = CHOOSE j \in at : TRUE
    OBVIOUS
  <2>2. i \in at /\ DOMAIN L = 1..Len(L)
    BY <1>2, <2>1, LenProperties
  <2>3. OthersOf(L, key) = Dropped(L, i)
    BY <1>2, <2>1 DEF OthersOf, Dropped
  <2> QED BY <2>2, <2>3, DroppedIs
<1> QED BY <1>1, <1>2

LEMMA BoundedIn ==
  ASSUME NEW S, NEW L \in Seq(S)
  PROVE  Bounded(L) \in Seq(S)
<1>1. PICK n, k : n = Len(L) /\ k = IF Len(L) > MaxEntries THEN 2 ELSE 1
  OBVIOUS
<1>2. n \in Nat /\ k \in 1..2 /\ \A i \in 1..n : L[i] \in S
  BY <1>1, LenProperties, ElementOfSeq
<1>3. \A i \in k..n : L[i] \in S
  BY <1>2
<1>4. SubSeq(L, k, n) \in Seq(S)
  BY <1>2, <1>3, SubSeqProperties
<1> QED BY <1>1, <1>4 DEF Bounded

\* A lookup keeps the text of its tokens, and the cache.
LEMMA LookupReads ==
  ASSUME NEW E, Alike(E), NEW c, ReadsSame(c, E), NEW t \in Text
  PROVE  /\ Rewritten(c, t) \in Text /\ <<Rewritten(c, t), t>> \in E
         /\ ReadsSame(Looked(c, t), E)
<1>1. PICK P : CacheOk(c, P) /\ Cached(c, P) \in Seq(Faithful(E))
  BY DEF ReadsSame
<1>2. PICK L : L = Cached(c, P)
  OBVIOUS
<1>3. Misses(c, t, L) \/ \E i : Answers(c, P, t, L, i)
  BY <1>1, <1>2, Lookups
<1>4. CASE Misses(c, t, L)
  BY <1>4 DEF Misses, Alike
<1>5. ASSUME NEW i, Answers(c, P, t, L, i)
      PROVE  /\ Rewritten(c, t) \in Text /\ <<Rewritten(c, t), t>> \in E
             /\ ReadsSame(Looked(c, t), E)
  <2>1. /\ i \in 1..Len(L) /\ Pre(L[i].key, t)
        /\ Rewritten(c, t) = L[i].raw \o SubSeq(t, Len(L[i].key) + 1, Len(t))
        /\ CacheOk(Looked(c, t), P)
        /\ Cached(Looked(c, t), P) = Append(Dropped(L, i), L[i])
    BY <1>5 DEF Answers
  <2>2. L[i] \in Faithful(E) /\ L \in Seq(Faithful(E))
    BY <1>1, <1>2, <2>1, ElementOfSeq
  <2>3. PICK p, raw, rest : /\ p = L[i].key /\ raw = L[i].raw
                            /\ rest = SubSeq(t, Len(p) + 1, Len(t))
    OBVIOUS
  <2>4. p \in Text /\ raw \in Text /\ <<raw, p>> \in E
    BY <2>2, <2>3 DEF Faithful, Rewritings
  <2>5. rest \in Text /\ p \o rest = t
    <3>1. Rest(p, t, rest)
      BY <2>1, <2>3, <2>4, RestIs
    <3> QED BY <3>1 DEF Rest
  <2>6. Rewritten(c, t) = raw \o rest
    BY <2>1, <2>3
  <2>7. raw \o rest \in Text
    BY <2>4, <2>5, JoinIs
  <2>8. <<raw \o rest, p \o rest>> \in E
    <3>1. \A x, y, z, w \in Text :
            <<x, y>> \in E /\ <<z, w>> \in E => <<x \o z, y \o w>> \in E
      BY DEF Alike
    <3>2. rest \in Text /\ <<rest, rest>> \in E
      BY <2>5 DEF Alike
    <3>3. \A z, w \in Text : <<z, w>> \in E => <<raw \o z, p \o w>> \in E
      BY ONLY <2>4, <3>1
    <3> QED BY ONLY <3>2, <3>3
  <2>9. Append(Dropped(L, i), L[i]) \in Seq(Faithful(E))
    BY <2>1, <2>2, AppendDropped
  <2> QED BY <2>1, <2>5, <2>6, <2>7, <2>8, <2>9 DEF ReadsSame
<1> QED BY <1>3, <1>4, <1>5

\* An insert of tokens that read as their key keeps the cache.
LEMMA InsertReads ==
  ASSUME NEW E, NEW c, ReadsSame(c, E), NEW key \in Text, Len(key) > 0, NEW raw \in Text,
         <<raw, key>> \in E
  PROVE  ReadsSame(Inserted(c, key, raw), E)
<1>1. PICK P : CacheOk(c, P) /\ Cached(c, P) \in Seq(Faithful(E))
  BY DEF ReadsSame
<1>2. PICK L, o : L = Cached(c, P) /\ o = [key |-> key, raw |-> raw]
  OBVIOUS
<1>3. Inserts(c, P, key, raw)
  BY <1>1, InsertsIs
<1>4. PICK Q : /\ CacheOk(Inserted(c, key, raw), Q)
               /\ Cached(Inserted(c, key, raw), Q) = Bounded(Append(OthersOf(L, key), o))
  BY <1>2, <1>3 DEF Inserts
<1>5. o \in Faithful(E)
  BY <1>2 DEF Faithful, Rewritings
<1>6. OthersOf(L, key) \in Seq(Faithful(E))
  BY <1>1, <1>2, DroppedIn
<1>7. Append(OthersOf(L, key), o) \in Seq(Faithful(E))
  BY <1>5, <1>6, AppendProperties
<1>8. Bounded(Append(OthersOf(L, key), o)) \in Seq(Faithful(E))
  BY <1>7, BoundedIn
<1> QED BY <1>4, <1>8 DEF ReadsSame

\* A request whose prompt has been rendered.
Under == {"entering", "slot", "sampling", "leaving", "failing", "parsing"}

LikeInv(E) ==
  /\ pc \in [Clients -> Pcs]
  /\ rendered \in [Clients -> Text] /\ prompt \in [Clients -> Text]
  /\ reply \in [Clients -> Text]
  /\ \A r \in Clients : pc[r] \in Under => Len(rendered[r]) > 0
  /\ \A r \in Clients : <<prompt[r], rendered[r]>> \in E
  /\ ReadsSame(cache, E)

LEMMA TextInit ==
  ASSUME NEW E, Alike(E), Init
  PROVE  LikeInv(E)
<1>1. /\ pc = [r \in Clients |-> "idle"] /\ rendered = [r \in Clients |-> <<>>]
      /\ prompt = [r \in Clients |-> <<>>] /\ reply = [r \in Clients |-> <<>>]
      /\ cache = EmptyCache
  BY DEF Init
<1>2. <<>> \in Text /\ <<<<>>, <<>>>> \in E
  <2>1. <<>> \in Text
    BY DEF Text
  <2> QED BY <2>1 DEF Alike
<1> QED BY <1>1, <1>2, EmptyReadsSame DEF LikeInv, Pcs, Under

\* The requests and the cache after a step of r, when it leaves the cache.
LEMMA TextAside ==
  ASSUME NEW E, Alike(E), LikeInv(E), NEW r \in Clients, UNCHANGED cache,
         \/ /\ UNCHANGED <<rendered, prompt>> /\ reply' \in [Clients -> Text]
            /\ pc' \in [Clients -> Pcs]
            /\ \A q \in Clients : pc'[q] \in Under => pc[q] \in Under
         \/ Ends(r)
  PROVE  LikeInv(E)'
<1>1. CASE /\ UNCHANGED <<rendered, prompt>> /\ reply' \in [Clients -> Text]
           /\ pc' \in [Clients -> Pcs]
           /\ \A q \in Clients : pc'[q] \in Under => pc[q] \in Under
  BY <1>1 DEF LikeInv
<1>2. CASE Ends(r)
  <2>1. <<>> \in Text /\ "idle" \in Pcs /\ "idle" \notin Under
    BY DEF Text, Pcs, Under
  <2>2. <<<<>>, <<>>>> \in E
    BY <2>1 DEF Alike
  <2> QED BY <1>2, <2>1, <2>2 DEF LikeInv, Ends
<1> QED BY <1>1, <1>2

LEMMA RenderReads ==
  ASSUME NEW E, Alike(E), TokensPremise, LikeInv(E), NEW r \in Clients, NEW t \in Prompts[r], Render(r, t)
  PROVE  LikeInv(E)'
<1>1. /\ pc' = [pc EXCEPT ![r] = "entering"] /\ rendered' = [rendered EXCEPT ![r] = t]
      /\ UNCHANGED reply
  BY DEF Render
<1>2. t \in Text \ {<<>>}
  BY DEF TokensPremise
<1>3. t \in Text /\ Len(t) > 0
  BY <1>2 DEF Text
<1>4. "entering" \in Pcs
  BY DEF Pcs
<1>5. PICK p : /\ p \in Text /\ <<p, t>> \in E /\ prompt' = [prompt EXCEPT ![r] = p]
               /\ ReadsSame(cache', E)
  <2>1. CASE /\ r \in Scorers /\ prompt' = [prompt EXCEPT ![r] = t] /\ UNCHANGED <<cache, last>>
    BY <1>3, <2>1 DEF LikeInv, Alike
  <2>2. CASE /\ r \notin Scorers
             /\ prompt' = [prompt EXCEPT ![r] = Rewritten(cache, t)]
             /\ cache' = Looked(cache, t)
    <3>1. ReadsSame(cache, E)
      BY DEF LikeInv
    <3>2. /\ Rewritten(cache, t) \in Text /\ <<Rewritten(cache, t), t>> \in E
          /\ ReadsSame(Looked(cache, t), E)
      BY <1>3, <3>1, LookupReads
    <3> QED BY <2>2, <3>2
  <2> QED BY <2>1, <2>2 DEF Render
<1> QED BY <1>1, <1>3, <1>4, <1>5 DEF LikeInv

LEMMA AnswerReads ==
  ASSUME NEW E, Alike(E), TokensPremise, LikeInv(E), NEW r \in Clients, Answer(r)
  PROVE  LikeInv(E)'
<1>1. PICK again, key, raw :
        /\ again = Encode(Decode(reply[r])) /\ key = rendered[r] \o again
        /\ raw = prompt[r] \o reply[r]
  OBVIOUS
<1>2. /\ pc[r] = "parsing" /\ Ends(r)
      /\ UNCHANGED cache \/ cache' = Inserted(cache, key, raw)
  BY <1>1 DEF Answer
<1>3. CASE UNCHANGED cache
  BY <1>2, <1>3, TextAside
<1>4. CASE cache' = Inserted(cache, key, raw)
  <2>1. PICK x, y, z : x = rendered[r] /\ y = prompt[r] /\ z = reply[r]
    OBVIOUS
  <2>2. x \in Text /\ y \in Text /\ z \in Text /\ Len(x) > 0 /\ <<y, x>> \in E
    BY <1>2, <2>1 DEF LikeInv, Under
  <2>3. again \in Text /\ <<z, again>> \in E
    BY <1>1, <2>1, <2>2 DEF TokensPremise, Alike
  <2>4. key = x \o again /\ raw = y \o z
    BY <1>1, <2>1
  <2>5. key \in Text /\ raw \in Text /\ Len(key) = Len(x) + Len(again) /\ Len(again) \in Nat
        /\ Len(x) \in Nat
    BY <2>2, <2>3, <2>4, JoinIs
  <2>6. Len(key) > 0
    BY <2>2, <2>5
  <2>7. <<raw, key>> \in E
    <3>1. \A p, q, s, t \in Text : <<p, q>> \in E /\ <<s, t>> \in E => <<p \o s, q \o t>> \in E
      BY DEF Alike
    <3>2. \A s, t \in Text : <<s, t>> \in E => <<y \o s, x \o t>> \in E
      BY ONLY <2>2, <3>1
    <3>3. <<y \o z, x \o again>> \in E
      BY ONLY <2>2, <2>3, <3>2
    <3> QED BY <2>4, <3>3
  <2>8. ReadsSame(cache, E)
    BY DEF LikeInv
  <2>9. ReadsSame(Inserted(cache, key, raw), E)
    BY <2>5, <2>6, <2>7, <2>8, InsertReads
  <2>10. ReadsSame(cache', E)
    BY <1>4, <2>9
  <2>11. <<>> \in Text /\ "idle" \in Pcs /\ "idle" \notin Under
    BY DEF Text, Pcs, Under
  <2>12. <<<<>>, <<>>>> \in E
    BY <2>11 DEF Alike
  <2> QED BY <1>2, <2>10, <2>11, <2>12 DEF LikeInv, Ends
<1> QED BY <1>2, <1>3, <1>4

LEMMA TextNext ==
  ASSUME NEW E, Alike(E), TokensPremise, LikeInv(E), [Next]_vars
  PROVE  LikeInv(E)'
<1>0. pc \in [Clients -> Pcs] /\ reply \in [Clients -> Text]
  BY DEF LikeInv
<1>1. CASE UNCHANGED vars
  BY <1>1 DEF LikeInv, vars, request
<1>2. ASSUME NEW r \in Clients, NEW m \in Models, Arrive(r, m) PROVE LikeInv(E)'
  <2>1. /\ UNCHANGED <<rendered, prompt, reply, cache>> /\ pc' \in [Clients -> Pcs]
        /\ \A q \in Clients : pc'[q] \in Under => pc[q] \in Under
    BY <1>0, <1>2 DEF Arrive, Pcs, Under
  <2> QED BY <1>0, <2>1, TextAside
<1>3. ASSUME NEW m \in Models, NEW outcome \in {"ready", "failed"}, LoadEnds(m, outcome)
      PROVE  LikeInv(E)'
  <2>1. /\ UNCHANGED <<rendered, prompt, reply, cache>> /\ pc' \in [Clients -> Pcs]
        /\ \A q \in Clients : pc'[q] \in Under => pc[q] \in Under
    BY <1>0, <1>3 DEF LoadEnds, Pcs, Under
  <2> QED BY <2>1 DEF LikeInv
<1>4. ASSUME NEW r \in Clients, Proceed(r) PROVE LikeInv(E)'
  <2>1. CASE RenderFails(r) \/ AnswerFails(r)
    BY <2>1, TextAside DEF RenderFails, AnswerFails
  <2>2. ASSUME NEW t \in Prompts[r], Render(r, t) PROVE LikeInv(E)'
    BY <2>2, RenderReads
  <2>3. CASE Enter(r) \/ SlotGranted(r) \/ SampleFails(r)
    <3>1. /\ UNCHANGED <<rendered, prompt, reply, cache>> /\ pc' \in [Clients -> Pcs]
          /\ \A q \in Clients : pc'[q] \in Under => pc[q] \in Under
      BY <1>0, <2>3 DEF Enter, SlotGranted, SampleFails, Pcs, Under
    <3> QED BY <1>0, <3>1, TextAside
  <2>4. ASSUME NEW tokens \in Replies[r], Sampled(r, tokens) PROVE LikeInv(E)'
    <3>1. tokens \in Text
      BY DEF TokensPremise
    <3>2. /\ UNCHANGED <<rendered, prompt, cache>> /\ pc' \in [Clients -> Pcs]
          /\ \A q \in Clients : pc'[q] \in Under => pc[q] \in Under
      BY <1>0, <2>4 DEF Sampled, Pcs, Under
    <3>3. reply' \in [Clients -> Text]
      BY <1>0, <2>4, <3>1 DEF Sampled
    <3> QED BY <3>2, <3>3, TextAside
  <2>5. CASE Leave(r)
    <3>1. CASE Ends(r)
      BY <2>5, <3>1, TextAside DEF Leave
    <3>2. CASE ~ Ends(r)
      <4>1. /\ UNCHANGED <<rendered, prompt, reply, cache>> /\ pc' \in [Clients -> Pcs]
            /\ \A q \in Clients : pc'[q] \in Under => pc[q] \in Under
        BY <1>0, <2>5, <3>2 DEF Leave, Pcs, Under
      <4> QED BY <1>0, <4>1, TextAside
    <3> QED BY <3>1, <3>2
  <2>6. CASE Answer(r)
    BY <2>6, AnswerReads
  <2> QED BY <1>4, <2>1, <2>2, <2>3, <2>4, <2>5, <2>6 DEF Proceed
<1> QED BY <1>1, <1>2, <1>3, <1>4 DEF Next, Works, Loaded

TextInv == LikeInv(SameText)

LEMMA SameTextAlike == ASSUME TokenizerPremise PROVE Alike(SameText)
<1>1. \A s \in Text : <<s, s>> \in SameText /\ <<s, Encode(Decode(s))>> \in SameText
  BY DEF SameText, TokenizerPremise, TokensPremise
<1>2. ASSUME NEW p \in Text, NEW q \in Text, NEW s \in Text, NEW t \in Text,
             <<p, q>> \in SameText, <<s, t>> \in SameText
      PROVE  <<p \o s, q \o t>> \in SameText
  <2>1. Decode(p) = Decode(q) /\ Decode(s) = Decode(t)
    BY <1>2 DEF SameText
  <2>2. Decode(p \o s) = Decode(q \o t)
    BY <2>1 DEF TokenizerPremise
  <2>3. p \o s \in Text /\ q \o t \in Text
    BY JoinIs
  <2> QED BY <2>2, <2>3 DEF SameText
<1> QED BY <1>1, <1>2 DEF Alike

\* Whatever rewrites other requests have put into the trie, split or pruned
\* between this request's lookup and its answer, the tokens the sampler is
\* given read as the conversation that was rendered.
THEOREM PromptsReadTheSame == TokenizerPremise => (Spec => []PromptsSameText)
<1> SUFFICES ASSUME TokenizerPremise PROVE Spec => []PromptsSameText
  OBVIOUS
<1>0. Alike(SameText) /\ TokensPremise
  BY SameTextAlike DEF TokenizerPremise
<1>1. Init => TextInv
  BY <1>0, TextInit DEF TextInv
<1>2. TextInv /\ [Next]_vars => TextInv'
  BY <1>0, TextNext DEF TextInv
<1>3. TextInv => PromptsSameText
  BY DEF TextInv, LikeInv, PromptsSameText, SameText
<1> QED BY <1>1, <1>2, <1>3, PTL DEF Spec

-----------------------------------------------------------------------------
(* The trie implements the map *)

\* The parents lead up the way to a node.
Above(N, P, m) ==
  /\ N[m].parent \in DOMAIN N
  /\ P[m] = P[N[m].parent] \o N[N[m].parent].children[N[m].token].label
  /\ Len(P[N[m].parent]) < Len(P[m])

LEMMA ParentWay ==
  ASSUME NEW N, NEW P, IsTrie(N, P), NEW m \in DOMAIN N \ {Root}
  PROVE  Above(N, P, m)
<1>1. ParentIs(N, m)
  BY TrieGives
<1>2. PICK up, label, e, tok : /\ up = N[m].parent /\ tok = N[m].token
                               /\ e = N[up].children[tok]
                               /\ label = N[up].children[N[m].token].label
  OBVIOUS
<1>3. up \in DOMAIN N /\ tok \in DOMAIN N[up].children /\ e.child = m /\ e.label = label
  BY <1>1, <1>2 DEF ParentIs
<1>4. EdgeIs(N, P, up, tok, e)
  BY <1>2, <1>3, TrieGives
<1>5. label \in Text /\ Len(label) > 0 /\ P[m] = P[up] \o label
  BY <1>3, <1>4 DEF EdgeIs
<1>6. P[up] \in Text /\ P[m] \in Text
  BY <1>3, WaysAre
<1>7. Len(P[up] \o label) = Len(P[up]) + Len(label) /\ Len(P[up]) \in Nat /\ Len(label) \in Nat
  BY <1>5, <1>6, JoinIs
<1>8. Len(P[up]) < Len(P[m])
  <2>1. PICK x, y, z : x = Len(P[up]) /\ y = Len(label) /\ z = Len(P[m])
    OBVIOUS
  <2>2. x \in Nat /\ y \in Nat /\ y > 0 /\ z = x + y
    BY ONLY <1>5, <1>7, <2>1
  <2>3. x < z
    BY ONLY <2>2
  <2> QED BY ONLY <2>1, <2>3
<1> QED BY <1>2, <1>3, <1>5, <1>8 DEF Above

\* h is read off the parent pointers.
Climbs(N, h) ==
  h = [m \in DOMAIN N |->
         IF m = Root THEN <<>>
         ELSE h[N[m].parent] \o N[N[m].parent].children[N[m].token].label]

LEMMA WaysClimb ==
  ASSUME NEW N, NEW P, IsTrie(N, P)
  PROVE  Climbs(N, P)
<1>1. P = [m \in DOMAIN N |-> P[m]] /\ P[Root] = <<>>
  BY DEF IsTrie
<1>2. ASSUME NEW m \in DOMAIN N
      PROVE  P[m] = IF m = Root THEN <<>>
                    ELSE P[N[m].parent] \o N[N[m].parent].children[N[m].token].label
  <2>1. CASE m = Root
    BY <1>1, <2>1
  <2>2. CASE m # Root
    <3>1. Above(N, P, m)
      BY <2>2, ParentWay
    <3> QED BY <2>2, <3>1 DEF Above
  <2> QED BY <2>1, <2>2
<1> QED BY <1>1, <1>2 DEF Climbs

LEMMA ClimbsOne ==
  ASSUME NEW N, NEW P, IsTrie(N, P), NEW h, Climbs(N, h), NEW n \in DOMAIN N
  PROVE  h[n] = P[n]
<1> DEFINE Bad == {x \in DOMAIN N : h[x] # P[x]}
           Lens == {k \in Nat : \E x \in Bad : k = Len(P[x])}
<1>1. SUFFICES ASSUME Bad # {} PROVE FALSE
  OBVIOUS
<1>2. Lens \in SUBSET Nat /\ Lens # {}
  BY <1>1, WaysAre
<1>3. PICK k \in Lens : \A j \in Lens : k <= j
  BY <1>2, LeastOf
<1>4. PICK m \in Bad : k = Len(P[m])
  OBVIOUS
<1>5. m \in DOMAIN N /\ h[m] # P[m]
  OBVIOUS
<1>6. ASSUME NEW x \in DOMAIN N, Len(P[x]) < Len(P[m]) PROVE h[x] = P[x]
  <2>1. Len(P[x]) \in Nat /\ Len(P[m]) \in Nat
    BY <1>5, WaysAre
  <2>2. Len(P[x]) \notin Lens
    BY <1>3, <1>4, <1>6, <2>1
  <2> QED BY <2>1, <2>2
<1> HIDE DEF Bad, Lens
<1>7. h[m] = IF m = Root THEN <<>>
             ELSE h[N[m].parent] \o N[N[m].parent].children[N[m].token].label
  BY <1>5 DEF Climbs
<1>8. CASE m = Root
  <2>1. P[Root] = <<>>
    BY TrieGives
  <2> QED BY <1>5, <1>7, <1>8, <2>1
<1>9. CASE m # Root
  <2>1. PICK up, label : up = N[m].parent /\ label = N[up].children[N[m].token].label
    OBVIOUS
  <2>2. up \in DOMAIN N /\ P[m] = P[up] \o label /\ Len(P[up]) < Len(P[m])
    <3>1. Above(N, P, m)
      BY <1>5, <1>9, ParentWay
    <3> QED BY ONLY <2>1, <3>1 DEF Above
  <2>3. h[up] = P[up]
    BY <1>6, <2>2
  <2>4. h[m] = h[up] \o label
    BY <1>7, <1>9, <2>1
  <2> QED BY <1>5, <2>2, <2>3, <2>4
<1> QED BY <1>8, <1>9

LEMMA PathIs ==
  ASSUME NEW c, NEW P, IsTrie(c.nodes, P), NEW n \in DOMAIN c.nodes
  PROVE  PathTo(c, n) = P[n]
<1> DEFINE path == CHOOSE path : path =
                     [m \in DOMAIN c.nodes |->
                        IF m = Root THEN <<>>
                        ELSE LET up == c.nodes[m].parent
                             IN path[up] \o c.nodes[up].children[c.nodes[m].token].label]
<1>1. P = [m \in DOMAIN c.nodes |->
             IF m = Root THEN <<>>
             ELSE LET up == c.nodes[m].parent
                  IN P[up] \o c.nodes[up].children[c.nodes[m].token].label]
  BY WaysClimb DEF Climbs
<1>2. path = [m \in DOMAIN c.nodes |->
                IF m = Root THEN <<>>
                ELSE LET up == c.nodes[m].parent
                     IN path[up] \o c.nodes[up].children[c.nodes[m].token].label]
  BY <1>1
<1>3. PathTo(c, n) = path[n]
  BY DEF PathTo
<1> HIDE DEF path
<1>4. Climbs(c.nodes, path)
  BY <1>2 DEF Climbs
<1> QED BY <1>3, <1>4, ClimbsOne

LEMMA RewritesAre ==
  ASSUME NEW c, NEW P, CacheOk(c, P)
  PROVE  Rewrites(c) = Cached(c, P)
<1>1. IsTrie(c.nodes, P) /\ Listed(c.nodes, P, c.lru)
  BY DEF CacheOk
<1>2. c.lru \in Seq(DOMAIN c.nodes) /\ DOMAIN c.lru = 1..Len(c.lru)
  BY <1>1, LenProperties DEF Listed
<1>3. \A i \in DOMAIN c.lru : c.lru[i] \in DOMAIN c.nodes
  BY <1>2, ElementOfSeq
<1>4. \A i \in DOMAIN c.lru : PathTo(c, c.lru[i]) = P[c.lru[i]]
  BY <1>1, <1>3, PathIs
<1>5. Rewrites(c) = [i \in DOMAIN c.lru |-> [key |-> P[c.lru[i]], raw |-> c.nodes[c.lru[i]].entry.raw]]
  BY <1>4 DEF Rewrites
<1> QED BY <1>2, <1>5 DEF Cached, Items, Item

\* An initial state of the server is one of the map.
LEMMA MapInit == Init => Map!Init
<1> SUFFICES ASSUME Init PROVE Map!Init
  OBVIOUS
<1>1. PICK P : P = [n \in {Root} |-> <<>>]
  OBVIOUS
<1>2. CacheOk(EmptyCache, P) /\ Cached(EmptyCache, P) = <<>>
  BY <1>1, EmptyIsTrie
<1>3. Rewrites(EmptyCache) = <<>>
  BY <1>2, RewritesAre
<1> QED BY <1>3 DEF Init, Map!Init

LEMMA PrefixIs ==
  ASSUME NEW s \in Text, NEW t \in Text
  PROVE  Map!IsPrefixOf(s, t) <=> Pre(s, t)
<1>1. PICK n, q : n = Len(s) /\ q = SubSeq(t, 1, n)
  OBVIOUS
<1>2. n \in Nat /\ Len(t) \in Nat
  BY <1>1 DEF Text
<1>3. CASE n <= Len(t)
  <2>1. /\ SubSeq(t, 0 + 1, n) \in Text /\ Len(SubSeq(t, 0 + 1, n)) = n - 0
        /\ \A j \in 1..(n - 0) : SubSeq(t, 0 + 1, n)[j] = t[0 + j]
    BY <1>2, <1>3, PartIs
  <2>2. q = SubSeq(t, 0 + 1, n) /\ n - 0 = n /\ \A j \in 1..n : 0 + j = j
    BY <1>1, <1>2
  <2>3. q \in Text /\ Len(q) = n /\ \A j \in 1..n : q[j] = t[j]
    BY ONLY <2>1, <2>2
  <2>4. ASSUME \A j \in 1..n : t[j] = s[j] PROVE q = s
    <3>1. q \in Seq(Nat) /\ s \in Seq(Nat) /\ Len(q) = Len(s) /\ \A j \in 1..Len(q) : q[j] = s[j]
      BY <1>1, <2>3, <2>4 DEF Text
    <3> QED BY ONLY <3>1, SeqEqual
  <2>5. q = s => \A j \in 1..n : t[j] = s[j]
    BY <2>3
  <2> QED BY <1>1, <1>3, <2>4, <2>5 DEF Pre, Map!IsPrefixOf
<1>4. CASE ~ (n <= Len(t))
  BY <1>1, <1>4 DEF Pre, Map!IsPrefixOf
<1> QED BY <1>3, <1>4

\* A cache has one rewrite of a key at most.
LEMMA KeysDiffer ==
  ASSUME NEW c, NEW P, CacheOk(c, P), NEW L, L = Cached(c, P),
         NEW i \in 1..Len(L), NEW j \in 1..Len(L), L[i].key = L[j].key
  PROVE  i = j
<1>1. PICK N, s : N = c.nodes /\ s = c.lru
  OBVIOUS
<1>2. IsTrie(N, P) /\ Once(s)
  BY <1>1, ListedIs DEF CacheOk
<1>3. Len(L) = Len(s) /\ \A k \in 1..Len(s) : L[k].key = P[s[k]] /\ s[k] \in DOMAIN N
  BY <1>1, CachedAre
<1>4. P[s[i]] = P[s[j]] /\ s[i] \in DOMAIN N /\ s[j] \in DOMAIN N
  BY <1>3
<1>5. s[i] = s[j]
  BY <1>2, <1>4, WaysDiffer
<1> QED BY <1>2, <1>3, <1>5 DEF Once

\* The answer is the longest key found.
LEMMA AnswerIsLongest ==
  ASSUME NEW P, CacheOk(cache, P), NEW t \in Text, NEW L, L = Cached(cache, P), NEW i,
         Answers(cache, P, t, L, i)
  PROVE  Map!Found(t) # {} /\ Map!Longest(t) = L[i] /\ Map!Others(L[i].key) = Dropped(L, i)
<1>1. /\ i \in 1..Len(L) /\ Pre(L[i].key, t)
      /\ \A j \in 1..Len(L) : Pre(L[j].key, t) => Len(L[j].key) <= Len(L[i].key)
  BY DEF Answers
<1>2. L \in Seq(Rewritings) /\ DOMAIN L = 1..Len(L) /\ Rewrites(cache) = L
  BY CachedAre, RewritesAre
<1>3. \A j \in 1..Len(L) : L[j].key \in Text /\ Len(L[j].key) \in Nat
  <2>1. \A j \in 1..Len(L) : L[j] \in Rewritings
    BY <1>2, ElementOfSeq
  <2>2. \A j \in 1..Len(L) : L[j].key \in Text
    BY <2>1 DEF Rewritings
  <2> QED BY <2>2, LenProperties DEF Text
<1>4. \A j : j \in Map!Found(t) <=> j \in 1..Len(L) /\ Pre(L[j].key, t)
  BY <1>2, <1>3, PrefixIs DEF Map!Found
<1>5. PICK m : m = CHOOSE k \in Map!Found(t) :
                     \A j \in Map!Found(t) : Len(Rewrites(cache)[j].key) <= Len(Rewrites(cache)[k].key)
  OBVIOUS
<1>6. m \in Map!Found(t) /\ \A j \in Map!Found(t) : Len(L[j].key) <= Len(L[m].key)
  <2>1. i \in Map!Found(t) /\ \A j \in Map!Found(t) : Len(L[j].key) <= Len(L[i].key)
    BY <1>1, <1>4
  <2> QED BY ONLY <1>2, <1>5, <2>1
<1>7. PICK x, y : x = L[m].key /\ y = L[i].key
  OBVIOUS
<1>8. x = y
  <2>1. Len(x) <= Len(y) /\ Len(y) <= Len(x) /\ Pre(x, t) /\ Pre(y, t)
    BY <1>1, <1>4, <1>6, <1>7
  <2>2. x \in Text /\ y \in Text /\ Len(x) \in Nat /\ Len(y) \in Nat
    BY <1>1, <1>3, <1>4, <1>6, <1>7
  <2>3. Len(x) = Len(y)
    <3>1. PICK a, b : a = Len(x) /\ b = Len(y)
      OBVIOUS
    <3>2. a \in Nat /\ b \in Nat /\ a <= b /\ b <= a
      BY ONLY <2>1, <2>2, <3>1
    <3>3. a = b
      BY ONLY <3>2
    <3> QED BY ONLY <3>1, <3>3
  <2>4. \A k \in 1..Len(x) : x[k] = y[k]
    BY <2>1, <2>3 DEF Pre
  <2>5. x \in Seq(Nat) /\ y \in Seq(Nat)
    BY <2>2 DEF Text
  <2> QED BY ONLY <2>3, <2>4, <2>5, SeqEqual
<1>9. m = i
  <2>1. m \in 1..Len(L) /\ L[m].key = L[i].key
    BY <1>4, <1>6, <1>7, <1>8
  <2> QED BY <1>1, <2>1, KeysDiffer
<1>10. Map!Found(t) # {}
  BY <1>6
<1>11. Map!Longest(t) = L[i]
  BY <1>2, <1>5, <1>9 DEF Map!Longest
<1>12. Map!Others(L[i].key) = OthersOf(L, L[i].key)
  BY <1>2 DEF Map!Others, OthersOf
<1>13. \A j \in 1..Len(L) : L[j].key = L[i].key => j = i
  BY <1>1, KeysDiffer
<1>14. OthersOf(L, L[i].key) = Dropped(L, i)
  BY <1>1, <1>2, <1>13, OthersAre
<1> QED BY <1>10, <1>11, <1>12, <1>14

LEMMA MapLookup ==
  ASSUME NEW P, CacheOk(cache, P), NEW t \in Text, cache' = Looked(cache, t),
         last' = [op |-> "lookup", key |-> t, raw |-> Rewritten(cache, t)]
  PROVE  Map!Next
<1>1. PICK L : L = Cached(cache, P)
  OBVIOUS
<1>2. Rewrites(cache) = L /\ L \in Seq(Rewritings) /\ DOMAIN L = 1..Len(L)
  BY <1>1, CachedAre, RewritesAre
<1>3. Misses(cache, t, L) \/ \E i : Answers(cache, P, t, L, i)
  BY <1>1, Lookups
<1>4. CASE Misses(cache, t, L)
  <2>1. Rewritten(cache, t) = t /\ cache' = cache /\ \A i \in 1..Len(L) : ~ Pre(L[i].key, t)
    BY <1>4 DEF Misses
  <2>2. \A i \in 1..Len(L) : L[i].key \in Text
    <3>1. \A j \in 1..Len(L) : L[j] \in Rewritings
      BY <1>2, ElementOfSeq
    <3> QED BY <3>1 DEF Rewritings
  <2>3. Map!Found(t) = {}
    BY <1>2, <2>1, <2>2, PrefixIs DEF Map!Found
  <2>4. Rewrites(cache)' = Rewrites(cache)
    BY <2>1
  <2>5. Map!Lookup(t)
    BY <2>1, <2>3, <2>4 DEF Map!Lookup
  <2> QED BY <2>5 DEF Map!Next
<1>5. ASSUME NEW i, Answers(cache, P, t, L, i) PROVE Map!Next
  <2>1. Map!Found(t) # {} /\ Map!Longest(t) = L[i] /\ Map!Others(L[i].key) = Dropped(L, i)
    BY <1>1, <1>5, AnswerIsLongest
  <2>2. /\ Rewritten(cache, t) = L[i].raw \o SubSeq(t, Len(L[i].key) + 1, Len(t))
        /\ CacheOk(Looked(cache, t), P)
        /\ Cached(Looked(cache, t), P) = Append(Dropped(L, i), L[i])
    BY <1>5 DEF Answers
  <2>3. Rewrites(Looked(cache, t)) = Append(Dropped(L, i), L[i])
    BY <2>2, RewritesAre
  <2>4. Rewrites(cache)' = Append(Dropped(L, i), L[i])
    BY <2>3
  <2>5. PICK e : e = L[i]
    OBVIOUS
  <2>6. /\ Map!Longest(t) = e /\ Map!Others(e.key) = Dropped(L, i)
        /\ Rewrites(cache)' = Append(Dropped(L, i), e)
        /\ last' = [op |-> "lookup", key |-> t,
                    raw |-> e.raw \o SubSeq(t, Len(e.key) + 1, Len(t))]
    BY <2>1, <2>2, <2>4, <2>5
  <2>7. Map!Lookup(t)
    BY <2>1, <2>6 DEF Map!Lookup
  <2> QED BY <2>7 DEF Map!Next
<1> QED BY <1>3, <1>4, <1>5

LEMMA MapInsert ==
  ASSUME NEW P, CacheOk(cache, P), NEW key \in Text, Len(key) > 0, NEW raw \in Text,
         cache' = Inserted(cache, key, raw),
         last' = [op |-> "insert", key |-> key, raw |-> raw]
  PROVE  Map!Next
<1>1. Inserts(cache, P, key, raw)
  BY InsertsIs
<1>2. PICK Q : /\ CacheOk(Inserted(cache, key, raw), Q)
               /\ Cached(Inserted(cache, key, raw), Q)
                    = Bounded(Append(OthersOf(Cached(cache, P), key), [key |-> key, raw |-> raw]))
  BY <1>1 DEF Inserts
<1>3. PICK all : all = Append(Map!Others(key), [key |-> key, raw |-> raw])
  OBVIOUS
<1>4. Map!Others(key) = OthersOf(Cached(cache, P), key)
  <2>1. Rewrites(cache) = Cached(cache, P)
    BY RewritesAre
  <2> QED BY <2>1 DEF Map!Others, OthersOf
<1>5. Rewrites(Inserted(cache, key, raw)) = Bounded(all)
  BY <1>2, <1>3, <1>4, RewritesAre
<1>6. Rewrites(cache)' = Bounded(all)
  BY <1>5
<1>7. Map!Insert(key, raw)
  BY <1>3, <1>6 DEF Map!Insert, Bounded
<1> QED BY <1>7 DEF Map!Next

LEMMA MapStep ==
  ASSUME TokensPremise, LikeInv(AnyText), [Next]_vars
  PROVE  [Map!Next]_(Map!vars)
<1>1. PICK P : CacheOk(cache, P)
  BY DEF LikeInv, ReadsSame
<1>2. ASSUME UNCHANGED <<cache, last>> PROVE UNCHANGED Map!vars
  <2>1. Rewrites(cache)' = Rewrites(cache)
    BY <1>2
  <2> QED BY <1>2, <2>1 DEF Map!vars
<1>3. CASE UNCHANGED vars
  BY <1>2, <1>3 DEF vars
<1>4. ASSUME NEW r \in Clients, NEW t \in Prompts[r], Render(r, t)
      PROVE  [Map!Next]_(Map!vars)
  <2>1. t \in Text
    BY DEF TokensPremise
  <2>2. CASE UNCHANGED <<cache, last>>
    BY <1>2, <2>2
  <2>3. CASE ~ UNCHANGED <<cache, last>>
    <3>1. /\ cache' = Looked(cache, t)
          /\ prompt' = [prompt EXCEPT ![r] = Rewritten(cache, t)]
          /\ last' = [op |-> "lookup", key |-> t, raw |-> prompt'[r]]
      BY <1>4, <2>3 DEF Render
    <3>2. last' = [op |-> "lookup", key |-> t, raw |-> Rewritten(cache, t)]
      BY <3>1 DEF LikeInv
    <3> QED BY <1>1, <2>1, <3>1, <3>2, MapLookup
  <2> QED BY <2>2, <2>3
<1>5. ASSUME NEW r \in Clients, Answer(r) PROVE [Map!Next]_(Map!vars)
  <2>1. CASE UNCHANGED <<cache, last>>
    BY <1>2, <2>1
  <2>2. CASE ~ UNCHANGED <<cache, last>>
    <3>1. PICK again, x, key, raw :
            /\ again = Encode(Decode(reply[r])) /\ x = rendered[r]
            /\ key = x \o again /\ raw = prompt[r] \o reply[r]
      OBVIOUS
    <3>2. /\ pc[r] = "parsing" /\ cache' = Inserted(cache, key, raw)
          /\ last' = [op |-> "insert", key |-> key, raw |-> raw]
      BY <1>5, <2>2, <3>1 DEF Answer
    <3>3. reply[r] \in Text /\ prompt[r] \in Text /\ x \in Text /\ Len(x) > 0
      BY <3>1, <3>2 DEF LikeInv, Under
    <3>4. again \in Text
      BY <3>1, <3>3 DEF TokensPremise
    <3>5. /\ key \in Text /\ raw \in Text /\ Len(key) = Len(x) + Len(again)
          /\ Len(x) \in Nat /\ Len(again) \in Nat
      BY <3>1, <3>3, <3>4, JoinIs
    <3>6. Len(key) > 0
      BY <3>3, <3>5
    <3> QED BY <1>1, <3>2, <3>5, <3>6, MapInsert
  <2> QED BY <2>1, <2>2
<1>6. CASE UNCHANGED <<cache, last>>
  BY <1>2, <1>6
<1>7. Next => \/ UNCHANGED <<cache, last>>
              \/ \E r \in Clients : \E t \in Prompts[r] : Render(r, t)
              \/ \E r \in Clients : Answer(r)
  BY DEF Next, Works, Loaded, Proceed, Arrive, LoadEnds, RenderFails, Enter, SlotGranted,
     Sampled, SampleFails, Leave, AnswerFails
<1> QED BY <1>3, <1>4, <1>5, <1>6, <1>7

KeysInv == LikeInv(AnyText)

\* The trie, with its splits, merges, pruning and eviction, answers and
\* remembers as a bounded list of rewrites does, whatever the tokenizer.
THEOREM TrieImplementsMap == TokensPremise => (Spec => CacheImplementsMap)
<1> SUFFICES ASSUME TokensPremise PROVE Spec => CacheImplementsMap
  OBVIOUS
<1>0. Alike(AnyText)
  <2>1. \A s, t \in Text : s \o t \in Text
    BY JoinIs
  <2> QED BY <2>1 DEF Alike, AnyText, TokensPremise
<1>1. Init => KeysInv
  BY <1>0, TextInit DEF KeysInv
<1>2. KeysInv /\ [Next]_vars => KeysInv'
  BY <1>0, TextNext DEF KeysInv
<1>3. Init => Map!Init
  BY MapInit
<1>4. KeysInv /\ [Next]_vars => [Map!Next]_(Map!vars)
  BY MapStep DEF KeysInv
<1> QED BY <1>1, <1>2, <1>3, <1>4, PTL DEF Spec, CacheImplementsMap, Map!Spec
=============================================================================
