--------------------------- MODULE ProxyRpcProofs ---------------------------
(* Theorems about ProxyRpc, for any set of calls and generators, and that it *)
(* implements RemoteCalls.                                                   *)
EXTENDS ProxyRefinement, TLAPS

-----------------------------------------------------------------------------
(* Type correctness, one lemma per thread. *)

LEMMA InitType == Init => TypeOK
<1> SUFFICES ASSUME Init PROVE TypeOK
  OBVIOUS
<1>1. CallTypeOK /\ OneLocked
  BY DEF Init, CallTypeOK, OneLocked, Call, FutureKinds, Ends
<1>2. requests \in Seq(Request) /\ responses \in Seq(Response)
  BY DEF Init
<1>3. ChildTypeOK
  BY <1>2 DEF Init, ChildTypeOK
<1>4. DispatcherTypeOK
  BY DEF Init, DispatcherTypeOK
<1> QED
  BY <1>1, <1>3, <1>4 DEF Init, TypeOK

LEMMA EndCallType ==
  ASSUME CallTypeOK, NEW c \in Calls, NEW end \in Ends
  PROVE  /\ EndCall(c, end) \in [Calls -> Call]
         /\ EndCall(c, end)[c].pc = "done"
         /\ \A d \in Calls \ {c} : EndCall(c, end)[d] = call[d]
<1>1. call \in [Calls -> Call]
  BY DEF CallTypeOK
<1> QED
  BY <1>1 DEF EndCall, Call

(* A caller that changes only its own entry and leaves the lock alone, or     *)
(* frees it, adds no holder.                                                 *)
LEMMA OneLockedKept ==
  ASSUME OneLocked, NEW c \in Calls, call'[c].pc # "locked",
         \A d \in Calls \ {c} : call'[d] = call[d]
  PROVE  OneLocked'
  BY DEF OneLocked

(* A caller. *)
LEMMA CallerType ==
  ASSUME TypeOK, NEW c \in Calls, Lock(c) \/ CallStep(c) \/ Cancel(c)
  PROVE  TypeOK'
<1>0. call \in [Calls -> Call] /\ CallTypeOK
  BY DEF TypeOK, CallTypeOK
<1>1. CASE Lock(c)
  <2>1. call' \in [Calls -> Call] /\ \A d \in Calls \ {c} : call'[d] = call[d]
    <3>1. CASE dead_error \/ Closing
      BY <1>0, <1>1, <3>1, EndCallType DEF Lock, Ends
    <3>2. CASE ~dead_error /\ ~Closing
      BY <1>0, <1>1, <3>2 DEF Lock, Call
    <3> QED
      BY <3>1, <3>2
  <2>2. OneLocked'
    BY <1>1, <2>1 DEF Lock, LockFree, OneLocked
  <2> QED
    BY <1>1, <2>1, <2>2 DEF Lock, TypeOK, CallTypeOK, ChildTypeOK,
                            DispatcherTypeOK, childVars
<1>2. CASE Register(c)
  <2>1. call' \in [Calls -> Call] /\ call'[c].pc = "registered"
        /\ \A d \in Calls \ {c} : call'[d] = call[d]
    BY <1>0, <1>2 DEF Register, Call
  <2>2. future' \in [Calls -> [kind : FutureKinds, step : Nat]]
        /\ futures' \subseteq Calls
    BY <1>0, <1>2 DEF Register, CallTypeOK, FutureKinds, Call
  <2>3. OneLocked'
    BY <2>1, OneLockedKept DEF TypeOK
  <2>4. CallTypeOK'
    BY <1>2, <2>1, <2>2 DEF Register, TypeOK, CallTypeOK
  <2>5. ChildTypeOK'
    BY <1>2 DEF Register, TypeOK, ChildTypeOK, childVars
  <2> QED
    BY <1>2, <2>3, <2>4, <2>5 DEF Register, TypeOK, DispatcherTypeOK
<1>3. CASE PutRequest(c)
  <2>1. call' \in [Calls -> Call] /\ call'[c].pc = "waiting"
        /\ \A d \in Calls \ {c} : call'[d] = call[d]
    BY <1>0, <1>3 DEF PutRequest, Call
  <2>2. RequestOf(c) \in Request
    BY <1>0 DEF RequestOf, Request, Call
  <2>3. requests' \in Seq(Request)
    BY <1>3, <2>2 DEF PutRequest, TypeOK, ChildTypeOK
  <2>4. OneLocked'
    BY <2>1, OneLockedKept DEF TypeOK
  <2>5. CallTypeOK'
    BY <1>3, <2>1 DEF PutRequest, TypeOK, CallTypeOK
  <2>6. ChildTypeOK'
    BY <1>3, <2>3 DEF PutRequest, TypeOK, ChildTypeOK
  <2> QED
    BY <1>3, <2>4, <2>5, <2>6 DEF PutRequest, TypeOK, DispatcherTypeOK
<1>4. CASE PutRefused(c)
  <2>1. call' \in [Calls -> Call] /\ call'[c].pc = "done"
        /\ \A d \in Calls \ {c} : call'[d] = call[d]
    BY <1>0, <1>4, EndCallType DEF PutRefused, Ends
  <2>2. OneLocked'
    BY <2>1, OneLockedKept DEF TypeOK
  <2>3. CallTypeOK'
    BY <1>4, <2>1 DEF PutRefused, TypeOK, CallTypeOK
  <2>4. ChildTypeOK'
    BY <1>4 DEF PutRefused, TypeOK, ChildTypeOK, childVars
  <2> QED
    BY <1>4, <2>2, <2>3, <2>4 DEF PutRefused, TypeOK, DispatcherTypeOK
<1>5. CASE Wakes(c)
  <2>1. call' \in [Calls -> Call] /\ call'[c].pc # "locked"
        /\ \A d \in Calls \ {c} : call'[d] = call[d]
    <3>1. future[c].kind \in Ends
      BY <1>5 DEF Wakes, TypeOK, CallTypeOK, FutureKinds, Ends
    <3>2. CASE c \in Generators /\ future[c].kind = "value"
      BY <1>0, <1>5, <3>2 DEF Wakes, Call
    <3>3. CASE ~(c \in Generators /\ future[c].kind = "value")
      BY <1>0, <1>5, <3>1, <3>3, EndCallType DEF Wakes
    <3> QED
      BY <3>2, <3>3
  <2>2. OneLocked'
    BY <2>1, OneLockedKept DEF TypeOK
  <2>3. CallTypeOK'
    BY <1>5, <2>1 DEF Wakes, TypeOK, CallTypeOK
  <2>4. ChildTypeOK'
    BY <1>5 DEF Wakes, TypeOK, ChildTypeOK, childVars
  <2> QED
    BY <1>5, <2>2, <2>3, <2>4 DEF Wakes, TypeOK, DispatcherTypeOK
<1>6. CASE Cancel(c)
  <2>1. call' \in [Calls -> Call] /\ call'[c].pc = "done"
        /\ \A d \in Calls \ {c} : call'[d] = call[d]
    BY <1>0, <1>6, EndCallType DEF Cancel, Ends
  <2>2. future' \in [Calls -> [kind : FutureKinds, step : Nat]]
    BY <1>0, <1>6 DEF Cancel, CallTypeOK, FutureKinds
  <2>3. OneLocked'
    BY <2>1, OneLockedKept DEF TypeOK
  <2>4. CallTypeOK'
    BY <1>6, <2>1, <2>2 DEF Cancel, TypeOK, CallTypeOK
  <2>5. ChildTypeOK'
    BY <1>6 DEF Cancel, TypeOK, ChildTypeOK, childVars
  <2> QED
    BY <1>6, <2>3, <2>4, <2>5 DEF Cancel, TypeOK, DispatcherTypeOK
<1> QED
  BY <1>1, <1>2, <1>3, <1>4, <1>5, <1>6 DEF CallStep

LEMMA ProcessEndsType ==
  ASSUME ChildTypeOK, NEW how \in {"died", "killed"}, ProcessEnds(how)
  PROVE  ChildTypeOK'
<1>1. responses' \in Seq(Response)
  BY DEF ChildTypeOK, ProcessEnds
<1> QED
  BY <1>1 DEF ChildTypeOK, ProcessEnds

(* The child. *)
LEMMA ChildType ==
  ASSUME TypeOK,
         \/ ChildTakes
         \/ \E request \in running : Executes(request)
         \/ ChildDies
  PROVE  TypeOK'
<1>1. ChildTypeOK'
  <2>1. CASE ChildTakes
    <3>1. requests \in Seq(Request) /\ requests # <<>>
      BY <2>1 DEF ChildTakes, TypeOK, ChildTypeOK
    <3>2. Head(requests) \in Request /\ Tail(requests) \in Seq(Request)
      BY <3>1
    <3> QED
      BY <2>1, <3>2 DEF ChildTakes, TypeOK, ChildTypeOK
  <2>2. ASSUME NEW request \in running, NEW kind \in Kinds,
               ChildAnswers(request, kind)
        PROVE  ChildTypeOK'
    <3>1. request \in Request
      BY DEF TypeOK, ChildTypeOK
    <3>2. [id |-> request.id, step |-> request.step, kind |-> kind] \in Response
      BY <3>1 DEF Request, Response
    <3>3. responses' \in Seq(Response)
      BY <2>2, <3>2 DEF ChildAnswers, TypeOK, ChildTypeOK
    <3> QED
      BY <2>2, <3>1, <3>3 DEF ChildAnswers, TypeOK, ChildTypeOK
  <2>3. ASSUME NEW request \in running, ResponseLost(request)
        PROVE  ChildTypeOK'
    BY <2>3 DEF ResponseLost, TypeOK, ChildTypeOK
  <2>4. CASE ChildDies
    BY <2>4, ProcessEndsType DEF ChildDies, TypeOK
  <2> QED
    BY <2>1, <2>2, <2>3, <2>4 DEF Executes
<1>2. UNCHANGED <<callVars, dead_error, dpc, in_hand, cpc>>
  BY DEF ChildTakes, Executes, ChildAnswers, ResponseLost, ChildDies
<1> QED
  BY <1>1, <1>2 DEF TypeOK, CallTypeOK, OneLocked, DispatcherTypeOK, callVars

LEMMA FailPendingType ==
  ASSUME CallTypeOK, NEW error \in {"died", "closing"}, FailPending(error)
  PROVE  /\ future' \in [Calls -> [kind : FutureKinds, step : Nat]]
         /\ futures' = {}
  BY DEF CallTypeOK, FailPending, FutureKinds

(* The dispatcher. *)
LEMMA DispatcherType ==
  ASSUME TypeOK, DispatcherStep
  PROVE  TypeOK'
<1> USE DEF TypeOK
<1>1. UNCHANGED <<call, requests, process, running, served, answered, lost, cpc>>
  BY DEF DispatcherStep, DispatcherGets, DispatcherPops, DispatcherResolves,
         DispatcherTimesOut, DispatcherTestsClosing, DispatcherProbes,
         DispatcherFailsPending, DispatcherBreaks, callVars, childVars
<1>2. future' \in [Calls -> [kind : FutureKinds, step : Nat]]
      /\ futures' \subseteq Calls
  <2>1. CASE DispatcherResolves
    <3>1. PICK response \in in_hand :
            future' = IF future[response.id].kind = "pending"
                      THEN [future EXCEPT ![response.id].kind = response.kind]
                      ELSE future
      BY <2>1 DEF DispatcherResolves
    <3>2. response.id \in Calls /\ response.kind \in FutureKinds
      BY DEF DispatcherTypeOK, Response, FutureKinds
    <3>3. future' \in [Calls -> [kind : FutureKinds, step : Nat]]
      BY <3>1, <3>2 DEF CallTypeOK
    <3> QED
      BY <2>1, <3>3 DEF DispatcherResolves, CallTypeOK
  <2>2. CASE DispatcherFailsPending
    BY <2>2, FailPendingType DEF DispatcherFailsPending
  <2>3. CASE ~DispatcherResolves /\ ~DispatcherFailsPending
    BY <2>3 DEF DispatcherStep, DispatcherGets, DispatcherPops,
                DispatcherTimesOut, DispatcherTestsClosing, DispatcherProbes,
                DispatcherBreaks, callVars, CallTypeOK
  <2> QED
    BY <2>1, <2>2, <2>3
<1>3. responses' \in Seq(Response)
  <2>1. responses \in Seq(Response)
    BY DEF ChildTypeOK
  <2>2. responses # <<>> => Tail(responses) \in Seq(Response)
    BY <2>1
  <2> QED
    BY <2>1, <2>2
       DEF DispatcherStep, DispatcherGets, DispatcherPops, DispatcherResolves,
           DispatcherTimesOut, DispatcherTestsClosing, DispatcherProbes,
           DispatcherFailsPending, DispatcherBreaks, childVars
<1>4. in_hand' \subseteq Response /\ \A r, s \in in_hand' : r = s
  <2>1. responses # <<>> => Head(responses) \in Response
    BY DEF ChildTypeOK
  <2> QED
    BY <2>1
       DEF DispatcherStep, DispatcherGets, DispatcherPops, DispatcherResolves,
           DispatcherTimesOut, DispatcherTestsClosing, DispatcherProbes,
           DispatcherFailsPending, DispatcherBreaks, DispatcherTypeOK
<1>5. /\ dead_error' \in BOOLEAN
      /\ dpc' \in {"get", "pop", "resolve", "empty", "probe", "fail", "ended",
                   "broken"}
  BY DEF DispatcherStep, DispatcherGets, DispatcherPops, DispatcherResolves,
         DispatcherTimesOut, DispatcherTestsClosing, DispatcherProbes,
         DispatcherFailsPending, DispatcherBreaks, DispatcherTypeOK
<1> QED
  BY <1>1, <1>2, <1>3, <1>4, <1>5
     DEF CallTypeOK, OneLocked, ChildTypeOK, DispatcherTypeOK

(* close(). *)
LEMMA CloseType ==
  ASSUME TypeOK, CloseBegins \/ CloseStep
  PROVE  TypeOK'
<1> USE DEF TypeOK
<1>1. UNCHANGED <<call, dead_error, dpc, in_hand>>
      /\ cpc' \in {"open", "fail", "kill", "close_queues", "queues_closed",
                   "closed"}
  BY DEF CloseBegins, CloseStep, CloseFailsPending, CloseKills,
         CloseClosesQueues, CloseReturns, callVars
<1>2. future' \in [Calls -> [kind : FutureKinds, step : Nat]]
      /\ futures' \subseteq Calls
  <2>1. CASE CloseFailsPending
    BY <2>1, FailPendingType DEF CloseFailsPending
  <2> QED
    BY <2>1 DEF CloseBegins, CloseStep, CloseKills, CloseClosesQueues,
                CloseReturns, callVars, CallTypeOK
<1>3. ChildTypeOK'
  <2>1. CASE CloseKills
    BY <2>1, ProcessEndsType DEF CloseKills
  <2> QED
    BY <2>1 DEF CloseBegins, CloseStep, CloseFailsPending, CloseClosesQueues,
                CloseReturns, childVars, ChildTypeOK
<1> QED
  BY <1>1, <1>2, <1>3 DEF CallTypeOK, OneLocked, DispatcherTypeOK

LEMMA NextType == TypeOK /\ [Next]_vars => TypeOK'
<1> SUFFICES ASSUME TypeOK, [Next]_vars PROVE TypeOK'
  OBVIOUS
<1>1. CASE UNCHANGED vars
  BY <1>1 DEF vars, callVars, childVars, TypeOK, CallTypeOK, OneLocked,
              ChildTypeOK, DispatcherTypeOK
<1>2. CASE Next
  BY <1>2, CallerType, ChildType, DispatcherType, CloseType DEF Next
<1> QED
  BY <1>1, <1>2

(* The state of ProxyRpc keeps its types, and the lock one holder.           *)
THEOREM ProxyTypeCorrect == Spec => []TypeOK
  BY InitType, NextType, PTL DEF Spec

-----------------------------------------------------------------------------
(* No orphaned calls.  The invariant behind it: a pending future is in       *)
(* _futures or in the dispatcher's hand, and once the pending calls were     *)
(* failed _futures stays empty and nobody is on the way to fill it.          *)

InHand(c) == dpc = "resolve" /\ \E response \in in_hand : response.id = c

PendingKept ==
  \A c \in Calls : future[c].kind = "pending" => c \in futures \/ InHand(c)

OrphanInv ==
  /\ TypeOK
  /\ PendingKept
  /\ dpc = "fail" => dead_error
  /\ PendingFailed => futures = {} /\ LockFree

LEMMA OrphanInit == Init => OrphanInv
  BY InitType DEF Init, OrphanInv, PendingKept, PendingFailed, LockFree

LEMMA OrphanCaller ==
  ASSUME OrphanInv, NEW c \in Calls, Lock(c) \/ CallStep(c) \/ Cancel(c)
  PROVE  OrphanInv'
<1>0. TypeOK'
  BY CallerType DEF OrphanInv
<1>1. UNCHANGED <<dead_error, dpc, in_hand, cpc>>
      /\ (PendingFailed' <=> PendingFailed)
  BY DEF Lock, CallStep, Register, PutRequest, PutRefused, Wakes, Cancel,
         PendingFailed
<1>t. /\ call \in [Calls -> Call]
      /\ future \in [Calls -> [kind : FutureKinds, step : Nat]]
  BY DEF OrphanInv, TypeOK, CallTypeOK
<1>2. CASE Lock(c)
  <2>1. PendingFailed => dead_error \/ Closing
    BY DEF PendingFailed, Closing
  <2>2. PendingFailed => LockFree'
    BY <1>2, <1>t, <2>1 DEF Lock, LockFree, EndCall, Call
  <2> QED
    BY <1>0, <1>1, <1>2, <2>2 DEF Lock, OrphanInv, PendingKept, InHand
<1>3. CASE Register(c)
  <2>1. ~PendingFailed
    BY <1>3 DEF Register, OrphanInv, LockFree
  <2>2. PendingKept'
    BY <1>1, <1>3, <1>t DEF Register, OrphanInv, PendingKept, InHand
  <2> QED
    BY <1>0, <1>1, <2>1, <2>2 DEF OrphanInv
<1>4. CASE PutRequest(c) \/ Wakes(c) \/ Cancel(c)
  <2>1. \A d \in Calls : call'[d].pc = "locked" => call[d].pc = "locked"
    <3>1. call'[c].pc # "locked" /\ \A d \in Calls \ {c} : call'[d] = call[d]
      <4>1. CASE PutRequest(c)
        BY <1>t, <4>1 DEF PutRequest, Call
      <4>2. CASE Wakes(c)
        BY <1>t, <4>2 DEF Wakes, EndCall, Call
      <4>3. CASE Cancel(c)
        BY <1>t, <4>3 DEF Cancel, EndCall, Call
      <4> QED
        BY <1>4, <4>1, <4>2, <4>3
    <3> QED
      BY <3>1
  <2>2. futures' = futures
        /\ \A d \in Calls : future'[d].kind = "pending" => future[d].kind = "pending"
    BY <1>4, <1>t DEF PutRequest, Wakes, Cancel
  <2> QED
    BY <1>0, <1>1, <2>1, <2>2 DEF OrphanInv, PendingKept, InHand, LockFree
<1>5. CASE PutRefused(c)
  <2>1. PendingFailed
    BY <1>5 DEF PutRefused, PendingFailed, QueuesOpen
  <2>2. \A d \in Calls : call'[d].pc = "locked" => call[d].pc = "locked"
    BY <1>5, <1>t DEF PutRefused, EndCall, Call
  <2>3. futures' = futures /\ UNCHANGED future
    BY <1>5, <2>1 DEF PutRefused, OrphanInv
  <2> QED
    BY <1>0, <1>1, <2>2, <2>3 DEF OrphanInv, PendingKept, InHand, LockFree
<1> QED
  BY <1>2, <1>3, <1>4, <1>5 DEF CallStep

LEMMA OrphanChild ==
  ASSUME OrphanInv,
         \/ ChildTakes
         \/ \E request \in running : Executes(request)
         \/ ChildDies
  PROVE  OrphanInv'
<1>1. UNCHANGED <<callVars, dead_error, dpc, in_hand, cpc>>
  BY DEF ChildTakes, Executes, ChildAnswers, ResponseLost, ChildDies
<1>2. TypeOK'
  BY ChildType DEF OrphanInv
<1> QED
  BY <1>1, <1>2 DEF OrphanInv, PendingKept, PendingFailed, InHand, LockFree,
                    callVars

(* After _fail_pending no future is pending but the one in hand. *)
LEMMA FailPendingClears ==
  ASSUME TypeOK, PendingKept, NEW error \in {"died", "closing"},
         FailPending(error)
  PROVE  /\ \A c \in Calls : future'[c].kind = "pending" => InHand(c)
         /\ futures' = {} /\ LockFree
<1>1. future \in [Calls -> [kind : FutureKinds, step : Nat]]
  BY DEF TypeOK, CallTypeOK
<1> QED
  BY <1>1 DEF FailPending, PendingKept

LEMMA OrphanDispatcher ==
  ASSUME OrphanInv, DispatcherStep
  PROVE  OrphanInv'
<1>0. TypeOK /\ TypeOK'
  BY DispatcherType DEF OrphanInv
<1>t. /\ future \in [Calls -> [kind : FutureKinds, step : Nat]]
      /\ in_hand \subseteq Response /\ \A r, s \in in_hand : r = s
  BY <1>0 DEF TypeOK, CallTypeOK, DispatcherTypeOK
<1>1. CASE DispatcherGets \/ DispatcherTimesOut \/ DispatcherTestsClosing
           \/ DispatcherBreaks
  <2>1. /\ UNCHANGED <<call, future, futures, dead_error, cpc>>
        /\ dpc \notin {"resolve", "fail"} /\ dpc' \notin {"resolve", "fail"}
    BY <1>1 DEF DispatcherGets, DispatcherTimesOut, DispatcherTestsClosing,
                DispatcherBreaks, callVars
  <2> QED
    BY <1>0, <2>1 DEF OrphanInv, PendingKept, PendingFailed, InHand, LockFree
<1>2. CASE DispatcherPops
  <2>1. PICK response \in in_hand :
          /\ futures' = futures \ {response.id}
          /\ IF response.id \in futures
             THEN dpc' = "resolve" /\ UNCHANGED in_hand
             ELSE dpc' = "get" /\ in_hand' = {}
    BY <1>2 DEF DispatcherPops
  <2>2. dpc = "pop" /\ UNCHANGED <<call, future, dead_error, cpc>>
    BY <1>2 DEF DispatcherPops
  <2>3. PendingKept'
    BY <2>1, <2>2 DEF OrphanInv, PendingKept, InHand
  <2> QED
    BY <1>0, <2>1, <2>2, <2>3 DEF OrphanInv, PendingFailed, LockFree
<1>3. CASE DispatcherResolves
  <2>1. PICK response \in in_hand :
          future' = IF future[response.id].kind = "pending"
                    THEN [future EXCEPT ![response.id].kind = response.kind]
                    ELSE future
    BY <1>3 DEF DispatcherResolves
  <2>2. dpc = "resolve" /\ dpc' = "get"
        /\ UNCHANGED <<call, futures, dead_error, cpc>>
    BY <1>3 DEF DispatcherResolves
  <2>3. response.id \in Calls /\ response.kind # "pending"
    BY <1>t DEF Response, Kinds
  <2>4. future'[response.id].kind # "pending"
        /\ \A c \in Calls \ {response.id} : future'[c] = future[c]
    BY <1>t, <2>1, <2>3
  <2>5. PendingKept'
    BY <1>t, <2>2, <2>4 DEF OrphanInv, PendingKept, InHand
  <2> QED
    BY <1>0, <2>2, <2>5 DEF OrphanInv, PendingFailed, LockFree
<1>4. CASE DispatcherProbes
  <2>1. dpc = "probe" /\ dpc' \in {"fail", "get"}
        /\ (dpc' = "fail" => dead_error')
        /\ (dpc' # "fail" => dead_error' = dead_error)
        /\ UNCHANGED <<call, future, futures, cpc>>
    BY <1>4 DEF DispatcherProbes, callVars
  <2> QED
    BY <1>0, <2>1 DEF OrphanInv, PendingKept, PendingFailed, InHand, LockFree
<1>5. CASE DispatcherFailsPending
  <2>1. dpc = "fail" /\ UNCHANGED <<call, dead_error, cpc>>
        /\ FailPending("died") /\ dpc' = "get"
    BY <1>5 DEF DispatcherFailsPending
  <2>2. /\ \A c \in Calls : future'[c].kind # "pending"
        /\ futures' = {} /\ LockFree
    BY <1>0, <2>1, FailPendingClears DEF OrphanInv, InHand
  <2> QED
    BY <1>0, <2>1, <2>2 DEF OrphanInv, PendingKept, LockFree
<1> QED
  BY <1>1, <1>2, <1>3, <1>4, <1>5 DEF DispatcherStep

LEMMA OrphanClose ==
  ASSUME OrphanInv, CloseBegins \/ CloseStep
  PROVE  OrphanInv'
<1>0. TypeOK /\ TypeOK'
  BY CloseType DEF OrphanInv
<1>1. CASE CloseFailsPending
  <2>1. FailPending("closing") /\ UNCHANGED <<call, dead_error, dpc, in_hand>>
    BY <1>1 DEF CloseFailsPending
  <2>2. /\ \A c \in Calls : future'[c].kind = "pending" => InHand(c)
        /\ futures' = {} /\ LockFree
    BY <1>0, <2>1, FailPendingClears DEF OrphanInv
  <2> QED
    BY <1>0, <2>1, <2>2 DEF OrphanInv, PendingKept, InHand, LockFree
<1>2. CASE CloseBegins \/ CloseKills \/ CloseClosesQueues \/ CloseReturns
  <2>1. /\ UNCHANGED <<callVars, dead_error, dpc, in_hand>>
        /\ cpc' \notin {"open", "fail"} => cpc \notin {"open", "fail"}
    BY <1>2 DEF CloseBegins, CloseKills, CloseClosesQueues, CloseReturns
  <2> QED
    BY <1>0, <2>1 DEF OrphanInv, PendingKept, PendingFailed, InHand, LockFree,
                      callVars
<1> QED
  BY <1>1, <1>2 DEF CloseStep

LEMMA OrphanNext == OrphanInv /\ [Next]_vars => OrphanInv'
<1> SUFFICES ASSUME OrphanInv, [Next]_vars PROVE OrphanInv'
  OBVIOUS
<1>1. CASE UNCHANGED vars
  BY <1>1, NextType DEF vars, callVars, OrphanInv, PendingKept, PendingFailed,
                        InHand, LockFree
<1>2. CASE Next
  BY <1>2, OrphanCaller, OrphanChild, OrphanDispatcher, OrphanClose DEF Next
<1> QED
  BY <1>1, <1>2

(* However many threads call, and wherever close() or the death of the child *)
(* finds them, no call is left waiting for a future that nobody will resolve *)
(* (response_future, _fail_pending, _dispatch_responses).                    *)
THEOREM NoCallOrphaned == Spec => []NoOrphanedCalls
<1>1. OrphanInv => NoOrphanedCalls
  BY DEF OrphanInv, PendingKept, NoOrphanedCalls, InHand
<1> QED
  BY <1>1, OrphanInit, OrphanNext, PTL DEF Spec

-----------------------------------------------------------------------------
(* ProxyRpc implements RemoteCalls.  The invariant behind it: between its    *)
(* registration and its answer, a call's current request is in one place at  *)
(* most - the request queue, the child, the response queue, the dispatcher's *)
(* hand - and nothing there belongs to an older request.                     *)

\* Nothing of the call is under way: not sent yet, or answered.
Quiet(c) ==
  \/ call[c].pc \in {"idle", "locked", "registered", "yielded"}
  \/ future[c].kind \in Kinds

Underway(c, step) == step = call[c].step /\ ~Quiet(c)

AnswerOf(response) == [id |-> response.id, step |-> response.step]

StepsCounted ==
  \A c \in Calls :
    /\ call[c].pc = "idle" => call[c].step = 0
    /\ call[c].pc \in {"registered", "waiting", "yielded"} => call[c].step > 0

ServedPast ==
  \A r \in served :
    /\ r.step <= call[r.id].step
    /\ call[r.id].pc = "registered" => r.step < call[r.id].step

ResolvedByAnswer ==
  \A c \in Calls :
    call[c].pc \in {"registered", "waiting"} /\ future[c].kind \in Kinds
      => RequestOf(c) \in answered

RequestsFresh ==
  /\ \A i \in 1..Len(requests) :
       /\ Underway(requests[i].id, requests[i].step)
       /\ requests[i].step > 0 /\ requests[i] \notin served
  /\ \A i, j \in 1..Len(requests) : requests[i].id = requests[j].id => i = j

RunningUnderway ==
  \A r \in running :
    Underway(r.id, r.step) /\ r \in served /\ r \notin answered

ResponsesUnderway ==
  /\ \A i \in 1..Len(responses) :
       /\ Underway(responses[i].id, responses[i].step)
       /\ AnswerOf(responses[i]) \in answered
  /\ \A i, j \in 1..Len(responses) : responses[i].id = responses[j].id => i = j

HandUnderway ==
  \A p \in in_hand :
    /\ Underway(p.id, p.step) /\ AnswerOf(p) \in answered
    /\ \A i \in 1..Len(responses) : responses[i].id # p.id

CallerInv == StepsCounted /\ ServedPast /\ ResolvedByAnswer
FlightInv ==
  /\ RequestsFresh /\ RunningUnderway /\ ResponsesUnderway /\ HandUnderway

RemoteInv ==
  /\ TypeOK
  /\ CallerInv /\ FlightInv
  /\ answered \subseteq served

LEMMA RemoteInvInit == Init => RemoteInv
<1> SUFFICES ASSUME Init PROVE RemoteInv
  OBVIOUS
<1>1. CallerInv
  BY DEF Init, CallerInv, StepsCounted, ServedPast, ResolvedByAnswer, Kinds
<1>2. FlightInv
  BY DEF Init, FlightInv, RequestsFresh, RunningUnderway, ResponsesUnderway,
         HandUnderway
<1> QED
  BY <1>1, <1>2, InitType DEF Init, RemoteInv

LEMMA IdsAreCalls ==
  ASSUME TypeOK
  PROVE  /\ \A i \in 1..Len(requests) :
              requests[i] \in Request /\ requests[i].id \in Calls
         /\ \A i \in 1..Len(responses) :
              responses[i] \in Response /\ responses[i].id \in Calls
         /\ \A r \in running : r.id \in Calls
         /\ \A p \in in_hand : p.id \in Calls
<1>1. requests \in Seq(Request) /\ responses \in Seq(Response)
      /\ running \subseteq Request /\ in_hand \subseteq Response
  BY DEF TypeOK, ChildTypeOK, DispatcherTypeOK
<1>2. /\ \A i \in 1..Len(requests) : requests[i] \in Request
      /\ \A i \in 1..Len(responses) : responses[i] \in Response
  BY <1>1
<1> QED
  BY <1>1, <1>2 DEF Request, Response

(* What is under way stays so when no call that has something under way      *)
(* moves to another request.                                                 *)
LEMMA FlightKept ==
  ASSUME TypeOK, FlightInv, UNCHANGED <<childVars, in_hand>>,
         \A d \in Calls : ~Quiet(d) => call'[d].step = call[d].step /\ ~Quiet(d)'
  PROVE  FlightInv'
<1>1. \A d \in Calls : \A s : Underway(d, s) => Underway(d, s)'
  BY DEF Underway
<1>2. /\ \A i \in 1..Len(requests) : requests[i].id \in Calls
      /\ \A i \in 1..Len(responses) : responses[i].id \in Calls
      /\ \A r \in running : r.id \in Calls
      /\ \A p \in in_hand : p.id \in Calls
  BY IdsAreCalls
<1>3. RequestsFresh'
  BY <1>1, <1>2 DEF FlightInv, RequestsFresh, childVars
<1>4. RunningUnderway'
  BY <1>1, <1>2 DEF FlightInv, RunningUnderway, childVars
<1>5. ResponsesUnderway'
  BY <1>1, <1>2 DEF FlightInv, ResponsesUnderway, childVars, AnswerOf
<1>6. HandUnderway'
  BY <1>1, <1>2 DEF FlightInv, HandUnderway, childVars, AnswerOf
<1> QED
  BY <1>3, <1>4, <1>5, <1>6 DEF FlightInv

LEMMA RemoteCaller ==
  ASSUME RemoteInv, NEW c \in Calls, Lock(c) \/ CallStep(c) \/ Cancel(c)
  PROVE  RemoteInv'
<1>0. TypeOK'
  BY CallerType DEF RemoteInv
<1>t. /\ call \in [Calls -> Call]
      /\ future \in [Calls -> [kind : FutureKinds, step : Nat]]
      /\ \A r \in served : r \in Request /\ r.id \in Calls /\ r.step \in Nat
      /\ \A d \in Calls : call[d].step \in Nat
  BY DEF RemoteInv, TypeOK, CallTypeOK, ChildTypeOK, Request, Call
<1>1. CASE Lock(c) \/ PutRefused(c) \/ Wakes(c) \/ Cancel(c)
  <2>1. /\ UNCHANGED <<childVars, in_hand>>
        /\ \A d \in Calls \ {c} : call'[d] = call[d]
        /\ call'[c].step = call[c].step
        /\ \A d \in Calls :
             /\ future'[d].kind \in Kinds => future[d].kind \in Kinds
             /\ future'[d].step = future[d].step
    <3>1. CASE Lock(c)
      BY <3>1, <1>t DEF Lock, EndCall, Call
    <3>2. CASE PutRefused(c)
      BY <3>2, <1>t DEF PutRefused, EndCall, Call
    <3>3. CASE Wakes(c)
      BY <3>3, <1>t DEF Wakes, EndCall, Call
    <3>4. CASE Cancel(c)
      BY <3>4, <1>t DEF Cancel, EndCall, Call, Kinds
    <3> QED
      BY <1>1, <3>1, <3>2, <3>3, <3>4
  <2>2. /\ call'[c].pc \in {"locked", "yielded", "done"}
        /\ call'[c].pc = "locked" => call[c].pc \in {"idle", "yielded"}
        /\ call'[c].pc = "yielded" =>
             call[c].pc = "waiting" /\ future[c].kind \in Kinds
    BY <1>1, <1>t DEF Lock, PutRefused, Wakes, Cancel, EndCall, Call, Kinds
  <2>3. \A d \in Calls : ~Quiet(d) => call'[d].step = call[d].step /\ ~Quiet(d)'
    BY <2>1, <2>2 DEF Quiet
  <2>4. FlightInv'
    BY <2>1, <2>3, FlightKept DEF RemoteInv
  <2>5. StepsCounted'
    BY <2>1, <2>2 DEF RemoteInv, CallerInv, StepsCounted
  <2>6. ServedPast'
    BY <1>t, <2>1, <2>2 DEF RemoteInv, CallerInv, ServedPast, childVars
  <2>7. ResolvedByAnswer'
    BY <2>1, <2>2
       DEF RemoteInv, CallerInv, ResolvedByAnswer, childVars, RequestOf
  <2> QED
    BY <1>0, <2>1, <2>4, <2>5, <2>6, <2>7 DEF RemoteInv, CallerInv, childVars
<1>2. CASE Register(c)
  <2>1. /\ UNCHANGED <<childVars, in_hand>>
        /\ call[c].pc = "locked" /\ call'[c].pc = "registered"
        /\ call'[c].step = call[c].step + 1 /\ future'[c].kind = "pending"
        /\ \A d \in Calls \ {c} : call'[d] = call[d] /\ future'[d] = future[d]
    BY <1>2, <1>t DEF Register, Call
  <2>2. \A d \in Calls : ~Quiet(d) => call'[d].step = call[d].step /\ ~Quiet(d)'
    BY <2>1 DEF Quiet
  <2>3. FlightInv'
    BY <2>1, <2>2, FlightKept DEF RemoteInv
  <2>4. StepsCounted'
    BY <1>t, <2>1 DEF RemoteInv, CallerInv, StepsCounted
  <2>5. ServedPast'
    BY <1>t, <2>1 DEF RemoteInv, CallerInv, ServedPast, childVars
  <2>6. ResolvedByAnswer'
    BY <2>1 DEF RemoteInv, CallerInv, ResolvedByAnswer, childVars, RequestOf,
                Kinds
  <2> QED
    BY <1>0, <2>1, <2>3, <2>4, <2>5, <2>6 DEF RemoteInv, CallerInv, childVars
<1>3. CASE PutRequest(c)
  <2>1. /\ UNCHANGED <<future, responses, running, served, answered, in_hand>>
        /\ call[c].pc = "registered" /\ call'[c].pc = "waiting"
        /\ call'[c].step = call[c].step
        /\ \A d \in Calls \ {c} : call'[d] = call[d]
        /\ requests' = Append(requests, RequestOf(c))
    BY <1>3, <1>t DEF PutRequest, Call
  <2>2. RequestOf(c) \notin served /\ RequestOf(c).step > 0
        /\ RequestOf(c) = [id |-> c, step |-> call[c].step]
    BY <1>t, <2>1
       DEF RemoteInv, CallerInv, ServedPast, StepsCounted, RequestOf
  <2>3. future[c].kind \notin Kinds
    BY <2>1, <2>2 DEF RemoteInv, CallerInv, ResolvedByAnswer
  <2>4. \A d \in Calls : ~Quiet(d) => call'[d].step = call[d].step /\ ~Quiet(d)'
    BY <2>1 DEF Quiet
  <2>5. /\ \A d \in Calls : \A s : Underway(d, s) => Underway(d, s)'
        /\ Quiet(c) /\ Underway(c, call[c].step)'
    BY <2>1, <2>3, <2>4 DEF Underway, Quiet
  <2>6. RequestsFresh'
    <3>1. requests \in Seq(Request)
      BY DEF RemoteInv, TypeOK, ChildTypeOK
    <3>2. /\ Len(requests') = Len(requests) + 1
          /\ requests'[Len(requests) + 1] = RequestOf(c)
          /\ \A i \in 1..Len(requests) : requests'[i] = requests[i]
          /\ Len(requests) \in Nat
      BY <2>1, <3>1
    <3>3. \A i \in 1..Len(requests) :
            requests[i].id \in Calls /\ requests[i].id # c
      BY <2>5, IdsAreCalls DEF RemoteInv, FlightInv, RequestsFresh, Underway
    <3>4. \A i \in 1..Len(requests') :
            i \in 1..Len(requests) \/ i = Len(requests) + 1
      BY <3>2
    <3>5. \A i \in 1..Len(requests') :
            /\ Underway(requests[i].id, requests[i].step)'
            /\ requests'[i].step > 0 /\ requests'[i] \notin served
      <4> TAKE i \in 1..Len(requests')
      <4>1. CASE i \in 1..Len(requests)
        <5>1. /\ Underway(requests[i].id, requests[i].step)
              /\ requests[i].step > 0 /\ requests[i] \notin served
          BY <4>1 DEF RemoteInv, FlightInv, RequestsFresh
        <5>2. requests'[i] = requests[i] /\ requests[i].id \in Calls
          BY <4>1, <3>2, <3>3
        <5> QED
          BY <5>1, <5>2, <2>5
      <4>2. CASE i = Len(requests) + 1
        BY <4>2, <2>2, <2>5, <3>2, <2>1 DEF Underway
      <4> QED
        BY <4>1, <4>2, <3>4
    <3>6. \A i, j \in 1..Len(requests') :
            requests'[i].id = requests'[j].id => i = j
      BY <2>2, <3>2, <3>3, <3>4 DEF RemoteInv, FlightInv, RequestsFresh
    <3> QED
      BY <2>1, <3>5, <3>6 DEF RequestsFresh
  <2>7. RunningUnderway' /\ ResponsesUnderway' /\ HandUnderway'
    BY <2>1, <2>5, IdsAreCalls
       DEF RemoteInv, FlightInv, RunningUnderway, ResponsesUnderway,
           HandUnderway, AnswerOf
  <2>8. CallerInv'
    BY <1>t, <2>1
       DEF RemoteInv, CallerInv, StepsCounted, ServedPast, ResolvedByAnswer,
           RequestOf
  <2> QED
    BY <1>0, <2>1, <2>6, <2>7, <2>8 DEF RemoteInv, FlightInv
<1> QED
  BY <1>1, <1>2, <1>3 DEF CallStep

(* A prefix of the responses is under way when all of them are. *)
LEMMA ProcessEndsFlight ==
  ASSUME RemoteInv, NEW how \in {"died", "killed"}, ProcessEnds(how),
         \A d \in Calls : call'[d].step = call[d].step,
         \A d \in Calls : ~Quiet(d) => ~Quiet(d)', UNCHANGED in_hand
  PROVE  FlightInv'
<1>1. UNCHANGED <<requests, served, answered>> /\ running' = {}
  BY DEF ProcessEnds
<1>2. responses \in Seq(Response)
  BY DEF RemoteInv, TypeOK, ChildTypeOK
<1>3. /\ Len(responses') <= Len(responses) /\ Len(responses') \in Nat
      /\ \A i \in 1..Len(responses') : responses'[i] = responses[i]
  <2>1. CASE process = "alive"
    <3>1. PICK written \in 0..Len(responses) :
            responses' = SubSeq(responses, 1, written)
      BY <2>1 DEF ProcessEnds
    <3> QED
      BY <1>2, <3>1
  <2> QED
    BY <1>2, <2>1 DEF ProcessEnds
<1>4. /\ Len(responses) \in Nat
      /\ \A i \in 1..Len(responses') : i \in 1..Len(responses)
  BY <1>2, <1>3
<1>5. \A d \in Calls : \A s : Underway(d, s) => Underway(d, s)'
  BY DEF Underway
<1>6. RequestsFresh' /\ RunningUnderway'
  BY <1>1, <1>5, IdsAreCalls
     DEF RemoteInv, FlightInv, RequestsFresh, RunningUnderway
<1>7. ResponsesUnderway'
  BY <1>1, <1>3, <1>4, <1>5, IdsAreCalls
     DEF RemoteInv, FlightInv, ResponsesUnderway, AnswerOf
<1>8. HandUnderway'
  BY <1>1, <1>3, <1>4, <1>5, IdsAreCalls
     DEF RemoteInv, FlightInv, HandUnderway, AnswerOf
<1> QED
  BY <1>6, <1>7, <1>8 DEF FlightInv

LEMMA RemoteChild ==
  ASSUME RemoteInv,
         \/ ChildTakes
         \/ \E request \in running : Executes(request)
         \/ ChildDies
  PROVE  RemoteInv'
<1>0. TypeOK'
  BY ChildType DEF RemoteInv
<1>1. UNCHANGED <<call, future, in_hand>>
  BY DEF ChildTakes, Executes, ChildAnswers, ResponseLost, ChildDies, callVars
<1>2. \A d, s : Underway(d, s)' <=> Underway(d, s)
  BY <1>1 DEF Underway, Quiet
<1>3. StepsCounted'
  BY <1>1 DEF RemoteInv, CallerInv, StepsCounted
<1>4. CASE ChildTakes
  <2>1. /\ requests \in Seq(Request) /\ requests # <<>>
        /\ requests' = Tail(requests) /\ UNCHANGED <<responses, answered>>
        /\ running' = running \cup {Head(requests)}
        /\ served' = served \cup {Head(requests)}
    BY <1>4 DEF ChildTakes, RemoteInv, TypeOK, ChildTypeOK
  <2>2. /\ Len(requests) \in Nat /\ 1 \in 1..Len(requests)
        /\ Head(requests) = requests[1]
        /\ Len(requests') = Len(requests) - 1
        /\ \A i \in 1..Len(requests') :
             requests'[i] = requests[i + 1] /\ i + 1 \in 1..Len(requests)
    BY <2>1
  <2>3. /\ Underway(requests[1].id, requests[1].step)
        /\ requests[1] \notin served /\ requests[1].id \in Calls
        /\ requests[1].step = call[requests[1].id].step
        /\ call[requests[1].id].pc # "registered"
    BY <2>2, IdsAreCalls
       DEF RemoteInv, FlightInv, RequestsFresh, Underway, Quiet
  <2>4. RequestsFresh'
    <3>1. \A i \in 1..Len(requests') :
            /\ Underway(requests[i].id, requests[i].step)'
            /\ requests'[i].step > 0 /\ requests'[i] \notin served'
      <4> TAKE i \in 1..Len(requests')
      <4>1. requests'[i] = requests[i + 1] /\ i + 1 \in 1..Len(requests)
        BY <2>2
      <4>2. /\ Underway(requests[i + 1].id, requests[i + 1].step)
            /\ requests[i + 1].step > 0 /\ requests[i + 1] \notin served
        BY <4>1 DEF RemoteInv, FlightInv, RequestsFresh
      <4>3. requests[i + 1] # requests[1]
        BY <2>2, <4>1 DEF RemoteInv, FlightInv, RequestsFresh
      <4> QED
        BY <1>2, <2>1, <2>2, <4>1, <4>2, <4>3
    <3>2. \A i, j \in 1..Len(requests') :
            requests'[i].id = requests'[j].id => i = j
      <4> TAKE i, j \in 1..Len(requests')
      <4>1. requests[i + 1].id = requests[j + 1].id => i + 1 = j + 1
        BY <2>2 DEF RemoteInv, FlightInv, RequestsFresh
      <4> QED
        BY <2>2, <4>1
    <3> QED
      BY <3>1, <3>2 DEF RequestsFresh
  <2>5. RunningUnderway'
    BY <1>2, <2>1, <2>2, <2>3
       DEF RemoteInv, FlightInv, RunningUnderway
  <2>6. ResponsesUnderway' /\ HandUnderway'
    BY <1>1, <1>2, <2>1
       DEF RemoteInv, FlightInv, ResponsesUnderway, HandUnderway, AnswerOf
  <2>7. ServedPast'
    BY <1>1, <2>1, <2>2, <2>3 DEF RemoteInv, CallerInv, ServedPast, TypeOK,
       CallTypeOK, Call
  <2>8. ResolvedByAnswer'
    BY <1>1, <2>1 DEF RemoteInv, CallerInv, ResolvedByAnswer, RequestOf
  <2> QED
    BY <1>0, <1>3, <2>1, <2>4, <2>5, <2>6, <2>7, <2>8
       DEF RemoteInv, CallerInv, FlightInv
<1>5. ASSUME NEW r \in running, NEW kind \in Kinds, ChildAnswers(r, kind)
      PROVE  RemoteInv'
  <2> DEFINE p == [id |-> r.id, step |-> r.step, kind |-> kind]
  <2>1. /\ running' = running \ {r} /\ UNCHANGED <<requests, served>>
        /\ responses' = Append(responses, p) /\ answered' = answered \cup {r}
    BY <1>5 DEF ChildAnswers
  <2>2. /\ r.id \in Calls /\ r = AnswerOf(p) /\ p.id = r.id /\ p.step = r.step
        /\ p \in Response
    BY DEF RemoteInv, TypeOK, ChildTypeOK, Request, Response, AnswerOf
  <2>3. Underway(r.id, r.step) /\ r \in served /\ r \notin answered
    BY DEF RemoteInv, FlightInv, RunningUnderway
  <2>4. /\ Len(responses) \in Nat /\ Len(responses') = Len(responses) + 1
        /\ responses'[Len(responses) + 1] = p
        /\ \A i \in 1..Len(responses) : responses'[i] = responses[i]
        /\ \A i \in 1..Len(responses') :
             i \in 1..Len(responses) \/ i = Len(responses) + 1
    <3>1. responses \in Seq(Response)
      BY DEF RemoteInv, TypeOK, ChildTypeOK
    <3> QED
      BY <2>1, <2>2, <3>1
  \* No other answer of the call is on its way.
  <2>5. \A q : /\ q.id = r.id /\ Underway(q.id, q.step)
               => AnswerOf(q) \notin answered
    BY <2>2, <2>3 DEF Underway, AnswerOf
  <2>6. RequestsFresh'
    BY <1>2, <2>1 DEF RemoteInv, FlightInv, RequestsFresh
  <2>7. RunningUnderway'
    BY <1>2, <2>1 DEF RemoteInv, FlightInv, RunningUnderway
  <2>8. ResponsesUnderway'
    <3>1. \A i \in 1..Len(responses') :
            /\ Underway(responses[i].id, responses[i].step)'
            /\ AnswerOf(responses'[i]) \in answered'
      <4> TAKE i \in 1..Len(responses')
      <4>1. CASE i \in 1..Len(responses)
        BY <1>2, <2>1, <2>4, <4>1 DEF RemoteInv, FlightInv, ResponsesUnderway
      <4>2. CASE i = Len(responses) + 1
        <5>1. responses'[i] = p
          BY <2>4, <4>2
        <5> HIDE DEF p
        <5> QED
          BY <1>2, <2>1, <2>2, <2>3, <5>1
      <4> QED
        BY <2>4, <4>1, <4>2
    <3>2. \A i \in 1..Len(responses) : responses[i].id # r.id
      BY <2>5 DEF RemoteInv, FlightInv, ResponsesUnderway
    <3>3. \A i, j \in 1..Len(responses') :
            responses'[i].id = responses'[j].id => i = j
      <4> HIDE DEF p
      <4> QED
        BY <2>2, <2>4, <3>2 DEF RemoteInv, FlightInv, ResponsesUnderway
    <3> QED
      BY <3>1, <3>3 DEF ResponsesUnderway, AnswerOf
  <2>9. HandUnderway'
    <3> SUFFICES ASSUME NEW q \in in_hand
                 PROVE  /\ Underway(q.id, q.step)' /\ AnswerOf(q) \in answered'
                        /\ \A i \in 1..Len(responses') : responses'[i].id # q.id
      BY <1>1 DEF HandUnderway, AnswerOf
    <3>1. /\ Underway(q.id, q.step) /\ AnswerOf(q) \in answered
          /\ \A i \in 1..Len(responses) : responses[i].id # q.id
      BY DEF RemoteInv, FlightInv, HandUnderway
    <3>2. q.id # r.id
      BY <2>5, <3>1
    <3> HIDE DEF p
    <3> QED
      BY <1>2, <2>1, <2>2, <2>4, <3>1, <3>2
  <2>10. ServedPast'
    BY <1>1, <2>1 DEF RemoteInv, CallerInv, ServedPast
  <2>11. ResolvedByAnswer'
    BY <1>1, <2>1 DEF RemoteInv, CallerInv, ResolvedByAnswer, RequestOf
  <2>12. answered' \subseteq served'
    BY <2>1, <2>3 DEF RemoteInv
  <2> QED
    BY <1>0, <1>3, <2>6, <2>7, <2>8, <2>9, <2>10, <2>11, <2>12
       DEF RemoteInv, CallerInv, FlightInv
<1>6. ASSUME NEW r \in running, ResponseLost(r)
      PROVE  RemoteInv'
  <2>1. running' = running \ {r}
        /\ UNCHANGED <<requests, responses, served, answered>>
    BY <1>6 DEF ResponseLost
  <2> QED
    BY <1>0, <1>1, <1>2, <1>3, <2>1
       DEF RemoteInv, CallerInv, ServedPast, ResolvedByAnswer, RequestOf,
           FlightInv, RequestsFresh, RunningUnderway, ResponsesUnderway,
           HandUnderway, AnswerOf
<1>7. CASE ChildDies
  <2>1. FlightInv'
    BY <1>1, <1>7, ProcessEndsFlight DEF ChildDies, Quiet
  <2>2. UNCHANGED <<served, answered>>
    BY <1>7 DEF ChildDies, ProcessEnds
  <2> QED
    BY <1>0, <1>1, <1>3, <2>1, <2>2
       DEF RemoteInv, CallerInv, ServedPast, ResolvedByAnswer, RequestOf
<1> QED
  BY <1>4, <1>5, <1>6, <1>7 DEF Executes

(* _fail_pending resolves nothing with an answer. *)
LEMMA FailPendingQuiet ==
  ASSUME TypeOK, NEW error \in {"died", "closing"}, FailPending(error),
         UNCHANGED call
  PROVE  \A d \in Calls :
           /\ future'[d].kind \in Kinds => future[d].kind \in Kinds
           /\ ~Quiet(d) => ~Quiet(d)'
<1>1. future \in [Calls -> [kind : FutureKinds, step : Nat]]
  BY DEF TypeOK, CallTypeOK
<1> QED
  BY <1>1 DEF FailPending, Quiet, Kinds

LEMMA RemoteDispatcher ==
  ASSUME RemoteInv, DispatcherStep
  PROVE  RemoteInv'
<1>0. TypeOK'
  BY DispatcherType DEF RemoteInv
<1>1. UNCHANGED <<call, requests, running, served, answered>>
  BY DEF DispatcherStep, DispatcherGets, DispatcherPops, DispatcherResolves,
         DispatcherTimesOut, DispatcherTestsClosing, DispatcherProbes,
         DispatcherFailsPending, DispatcherBreaks, callVars, childVars
<1>2. StepsCounted' /\ ServedPast'
  BY <1>1 DEF RemoteInv, CallerInv, StepsCounted, ServedPast
<1>t. /\ future \in [Calls -> [kind : FutureKinds, step : Nat]]
      /\ responses \in Seq(Response)
  BY DEF RemoteInv, TypeOK, CallTypeOK, ChildTypeOK
\* A response leaves the queue, to the dispatcher's hand or to nowhere.
<1>3. ASSUME UNCHANGED future, responses # <<>>, responses' = Tail(responses),
             in_hand' \subseteq in_hand \cup {Head(responses)}
      PROVE  RemoteInv'
  <2>1. /\ 1 \in 1..Len(responses) /\ Head(responses) = responses[1]
        /\ Len(responses') = Len(responses) - 1 /\ Len(responses) \in Nat
        /\ \A i \in 1..Len(responses') :
             responses'[i] = responses[i + 1] /\ i + 1 \in 1..Len(responses)
    BY <1>3, <1>t
  <2>2. \A d, s : Underway(d, s)' <=> Underway(d, s)
    BY <1>1, <1>3 DEF Underway, Quiet
  <2>3. RequestsFresh' /\ RunningUnderway'
    BY <1>1, <2>2 DEF RemoteInv, FlightInv, RequestsFresh, RunningUnderway
  <2>4. \A i \in 1..Len(responses') :
          /\ Underway(responses[i].id, responses[i].step)'
          /\ AnswerOf(responses'[i]) \in answered
    BY <2>1, <2>2 DEF RemoteInv, FlightInv, ResponsesUnderway
  <2>5. \A i, j \in 1..Len(responses') :
          responses'[i].id = responses'[j].id => i = j
    <3> TAKE i, j \in 1..Len(responses')
    <3>1. responses[i + 1].id = responses[j + 1].id => i + 1 = j + 1
      BY <2>1 DEF RemoteInv, FlightInv, ResponsesUnderway
    <3> QED
      BY <2>1, <3>1
  <2>6. ResponsesUnderway'
    BY <1>1, <2>4, <2>5 DEF ResponsesUnderway, AnswerOf
  <2>7. HandUnderway'
    <3>1. \A p \in in_hand' : p \in in_hand \/ p = responses[1]
      BY <1>3, <2>1
    <3>2. /\ Underway(responses[1].id, responses[1].step)
          /\ AnswerOf(responses[1]) \in answered
      BY <2>1 DEF RemoteInv, FlightInv, ResponsesUnderway
    <3>3. \A i \in 1..Len(responses') : responses'[i].id # responses[1].id
      <4> TAKE i \in 1..Len(responses')
      <4>1. responses[i + 1].id = responses[1].id => i + 1 = 1
        BY <2>1 DEF RemoteInv, FlightInv, ResponsesUnderway
      <4> QED
        BY <2>1, <4>1
    <3>4. \A p \in in_hand :
            /\ Underway(p.id, p.step) /\ AnswerOf(p) \in answered
            /\ \A i \in 1..Len(responses') : responses'[i].id # p.id
      BY <2>1 DEF RemoteInv, FlightInv, HandUnderway
    <3> QED
      BY <1>1, <2>2, <3>1, <3>2, <3>3, <3>4 DEF HandUnderway, AnswerOf
  <2>8. ResolvedByAnswer'
    BY <1>1, <1>3 DEF RemoteInv, CallerInv, ResolvedByAnswer, RequestOf
  <2> QED
    BY <1>0, <1>1, <1>2, <2>3, <2>6, <2>7, <2>8
       DEF RemoteInv, CallerInv, FlightInv
\* The hand is emptied or keeps what it holds, and no future is answered.
<1>4. ASSUME UNCHANGED responses, in_hand' \subseteq in_hand,
             \A d \in Calls :
               /\ future'[d].kind \in Kinds => future[d].kind \in Kinds
               /\ ~Quiet(d) => ~Quiet(d)'
      PROVE  RemoteInv'
  <2>1. \A d \in Calls : \A s : Underway(d, s) => Underway(d, s)'
    BY <1>1, <1>4 DEF Underway
  <2>2. RequestsFresh' /\ RunningUnderway'
    BY <1>1, <2>1, IdsAreCalls
       DEF RemoteInv, FlightInv, RequestsFresh, RunningUnderway
  <2>3. ResponsesUnderway'
    BY <1>1, <1>4, <2>1, IdsAreCalls
       DEF RemoteInv, FlightInv, ResponsesUnderway, AnswerOf
  <2>4. HandUnderway'
    BY <1>1, <1>4, <2>1, IdsAreCalls
       DEF RemoteInv, FlightInv, HandUnderway, AnswerOf
  <2>5. ResolvedByAnswer'
    BY <1>1, <1>4 DEF RemoteInv, CallerInv, ResolvedByAnswer, RequestOf
  <2> QED
    BY <1>0, <1>1, <1>2, <2>2, <2>3, <2>4, <2>5
       DEF RemoteInv, CallerInv, FlightInv
<1>5. CASE DispatcherGets
  BY <1>3, <1>5 DEF DispatcherGets, callVars
<1>6. CASE DispatcherBreaks
  <2>1. UNCHANGED <<call, future, in_hand>>
    BY <1>6 DEF DispatcherBreaks, callVars
  <2>2. CASE UNCHANGED responses
    BY <1>4, <2>1, <2>2 DEF Quiet
  <2>3. CASE responses # <<>> /\ responses' = Tail(responses)
    BY <1>3, <2>1, <2>3
  <2> QED
    BY <1>6, <2>2, <2>3 DEF DispatcherBreaks
<1>7. CASE DispatcherPops
  BY <1>4, <1>7 DEF DispatcherPops, childVars, Quiet
<1>8. CASE DispatcherTimesOut \/ DispatcherTestsClosing \/ DispatcherProbes
  BY <1>4, <1>8 DEF DispatcherTimesOut, DispatcherTestsClosing,
                    DispatcherProbes, childVars, callVars, Quiet
<1>9. CASE DispatcherFailsPending
  BY <1>4, <1>9, FailPendingQuiet
     DEF DispatcherFailsPending, childVars, RemoteInv
<1>10. CASE DispatcherResolves
  <2>1. PICK p \in in_hand :
          future' = IF future[p.id].kind = "pending"
                    THEN [future EXCEPT ![p.id].kind = p.kind]
                    ELSE future
    BY <1>10 DEF DispatcherResolves
  <2>2. in_hand' = {} /\ UNCHANGED responses
    BY <1>10 DEF DispatcherResolves, childVars
  <2>3. /\ p.id \in Calls /\ Underway(p.id, p.step) /\ AnswerOf(p) \in answered
        /\ AnswerOf(p) = RequestOf(p.id)
        /\ \A i \in 1..Len(responses) : responses[i].id # p.id
    BY IdsAreCalls DEF RemoteInv, FlightInv, HandUnderway, Underway, AnswerOf,
                       RequestOf
  <2>4. \A d \in Calls \ {p.id} : future'[d] = future[d]
    BY <1>t, <2>1
  <2>5. \A d \in Calls \ {p.id} : \A s : Underway(d, s) => Underway(d, s)'
    BY <1>1, <2>4 DEF Underway, Quiet
  <2>6. \A s : Underway(p.id, s) =>
          [id |-> p.id, step |-> s] \in answered
    BY <2>3 DEF Underway, AnswerOf
  <2>7. /\ \A i \in 1..Len(requests) : requests[i].id # p.id
        /\ \A r \in running : r.id # p.id
    <3>1. \A r \in Request : r = [id |-> r.id, step |-> r.step]
      BY DEF Request
    <3>2. running \subseteq Request
      BY DEF RemoteInv, TypeOK, ChildTypeOK
    <3> QED
      BY <2>6, <3>1, <3>2, IdsAreCalls
         DEF RemoteInv, FlightInv, RequestsFresh, RunningUnderway
  <2>8. RequestsFresh' /\ RunningUnderway'
    BY <1>1, <2>5, <2>7, IdsAreCalls
       DEF RemoteInv, FlightInv, RequestsFresh, RunningUnderway
  <2>9. ResponsesUnderway' /\ HandUnderway'
    BY <1>1, <2>2, <2>3, <2>5, IdsAreCalls
       DEF RemoteInv, FlightInv, ResponsesUnderway, HandUnderway, AnswerOf
  <2>10. ResolvedByAnswer'
    BY <1>1, <2>3, <2>4
       DEF RemoteInv, CallerInv, ResolvedByAnswer, RequestOf
  <2> QED
    BY <1>0, <1>1, <1>2, <2>8, <2>9, <2>10 DEF RemoteInv, CallerInv, FlightInv
<1> QED
  BY <1>5, <1>6, <1>7, <1>8, <1>9, <1>10 DEF DispatcherStep

LEMMA RemoteClose ==
  ASSUME RemoteInv, CloseBegins \/ CloseStep
  PROVE  RemoteInv'
<1>0. TypeOK'
  BY CloseType DEF RemoteInv
<1>1. UNCHANGED <<call, served, answered, in_hand>>
  BY DEF CloseBegins, CloseStep, CloseFailsPending, CloseKills,
         CloseClosesQueues, CloseReturns, callVars, childVars, ProcessEnds
<1>2. \A d \in Calls :
        /\ future'[d].kind \in Kinds => future[d].kind \in Kinds
        /\ ~Quiet(d) => ~Quiet(d)'
  <2>1. CASE CloseFailsPending
    BY <2>1, FailPendingQuiet DEF CloseFailsPending, RemoteInv
  <2> QED
    BY <2>1 DEF CloseBegins, CloseStep, CloseKills, CloseClosesQueues,
                CloseReturns, callVars, Quiet
<1>3. FlightInv'
  <2>1. CASE CloseKills
    BY <1>1, <1>2, <2>1, ProcessEndsFlight DEF CloseKills
  <2>2. CASE ~CloseKills
    <3>1. UNCHANGED <<childVars, in_hand>>
      BY <2>2 DEF CloseBegins, CloseStep, CloseFailsPending, CloseClosesQueues,
                  CloseReturns
    <3> QED
      BY <1>1, <1>2, <3>1, FlightKept DEF RemoteInv
  <2> QED
    BY <2>1, <2>2
<1>4. CallerInv'
  BY <1>1, <1>2 DEF RemoteInv, CallerInv, StepsCounted, ServedPast,
                    ResolvedByAnswer, RequestOf
<1> QED
  BY <1>0, <1>1, <1>3, <1>4 DEF RemoteInv

LEMMA RemoteNextInv == RemoteInv /\ [Next]_vars => RemoteInv'
<1> SUFFICES ASSUME RemoteInv, [Next]_vars PROVE RemoteInv'
  OBVIOUS
<1>1. CASE UNCHANGED vars
  <2>1. UNCHANGED <<call, future, served, answered, in_hand, childVars>>
    BY <1>1 DEF vars, callVars, childVars
  <2>2. FlightInv'
    BY <2>1, FlightKept DEF RemoteInv, Quiet
  <2>3. TypeOK'
    BY NextType DEF RemoteInv
  <2> QED
    BY <2>1, <2>2, <2>3 DEF RemoteInv, CallerInv, StepsCounted, ServedPast,
                            ResolvedByAnswer, RequestOf
<1>2. CASE Next
  BY <1>2, RemoteCaller, RemoteChild, RemoteDispatcher, RemoteClose DEF Next
<1> QED
  BY <1>1, <1>2

-----------------------------------------------------------------------------
(* The simulation: what each action of ProxyRpc does to RemoteCalls.         *)

Seen == [c \in Calls |-> [phase |-> PhaseOf(c), step |-> call[c].step]]

LEMMA RemoteInitMaps == Init => Remote!RemoteInit
  BY DEF Init, Remote!RemoteInit, PhaseOf

(* A caller whose entry alone changes takes its phase and its step along. *)
LEMMA SeenChanges ==
  ASSUME NEW c \in Calls, NEW phase, PhaseOf(c)' = phase,
         \A d \in Calls \ {c} : call'[d] = call[d]
  PROVE  /\ Seen' = [Seen EXCEPT ![c] = [phase |-> phase, step |-> call'[c].step]]
         /\ call'[c].step = call[c].step =>
              Seen' = [Seen EXCEPT ![c].phase = phase]
  BY DEF Seen, PhaseOf

LEMMA CallerMaps ==
  ASSUME RemoteInv, NEW c \in Calls, Lock(c) \/ CallStep(c) \/ Cancel(c)
  PROVE  \/ Remote!Invoke(c) \/ Remote!Return(c) \/ Remote!Fail(c)
         \/ UNCHANGED <<Seen, served, answered>>
<1>t. /\ call \in [Calls -> Call] /\ call[c].step \in Nat
      /\ future \in [Calls -> [kind : FutureKinds, step : Nat]]
  BY DEF RemoteInv, TypeOK, CallTypeOK, Call
<1>s. /\ call[c].pc = "idle" => call[c].step = 0
      /\ call[c].pc \in {"registered", "waiting", "yielded"} => call[c].step > 0
  BY DEF RemoteInv, CallerInv, StepsCounted
<1>u. UNCHANGED <<served, answered>>
  BY DEF Lock, CallStep, Register, PutRequest, PutRefused, Wakes, Cancel,
         childVars
<1>1. ASSUME call[c].pc # "done", NEW end, call' = EndCall(c, end)
      PROVE  Remote!Fail(c)
  <2>1. /\ call'[c].pc = "done" /\ call'[c].step = call[c].step
        /\ \A d \in Calls \ {c} : call'[d] = call[d]
    BY <1>1, <1>t DEF EndCall, Call
  <2>2. PhaseOf(c)' = "ended"
    BY <2>1 DEF PhaseOf
  <2>3. PhaseOf(c) # "ended"
    BY <1>1, <1>t DEF PhaseOf, Call
  <2>4. Seen' = [Seen EXCEPT ![c].phase = "ended"]
    BY <2>1, <2>2, SeenChanges
  <2> QED
    BY <1>u, <2>3, <2>4 DEF Remote!Fail, Seen
<1>2. CASE Lock(c)
  <2>1. CASE dead_error \/ Closing
    BY <1>1, <1>2, <2>1 DEF Lock
  <2>2. CASE ~dead_error /\ ~Closing
    <3>1. /\ call'[c].pc = "locked" /\ call'[c].step = call[c].step
          /\ \A d \in Calls \ {c} : call'[d] = call[d]
      BY <1>2, <1>t, <2>2 DEF Lock, Call
    <3>2. PhaseOf(c)' = PhaseOf(c)
      BY <1>2, <1>s, <1>t, <3>1 DEF Lock, PhaseOf
    <3> QED
      BY <1>u, <3>1, <3>2 DEF Seen, PhaseOf
  <2> QED
    BY <2>1, <2>2
<1>3. CASE Register(c)
  <2>1. /\ call[c].pc = "locked" /\ call'[c].pc = "registered"
        /\ call'[c].step = call[c].step + 1
        /\ \A d \in Calls \ {c} : call'[d] = call[d]
    BY <1>3, <1>t DEF Register, Call
  <2>2. PhaseOf(c)' = "waiting" /\ PhaseOf(c) \in {"idle", "yielded"}
    BY <2>1 DEF PhaseOf
  <2>3. Seen' = [Seen EXCEPT ![c] = [phase |-> "waiting", step |-> @.step + 1]]
    <3>1. Seen[c].step = call[c].step
      BY DEF Seen
    <3>2. Seen' = [Seen EXCEPT ![c] = [phase |-> "waiting",
                                       step |-> call'[c].step]]
      BY <2>1, <2>2, SeenChanges
    <3> QED
      BY <2>1, <3>1, <3>2
  <2> QED
    BY <1>u, <2>2, <2>3 DEF Remote!Invoke, Remote!Open, Seen
<1>4. CASE PutRequest(c)
  <2>1. /\ call[c].pc = "registered" /\ call'[c].pc = "waiting"
        /\ call'[c].step = call[c].step
        /\ \A d \in Calls \ {c} : call'[d] = call[d]
    BY <1>4, <1>t DEF PutRequest, Call
  <2>2. \A d \in Calls : PhaseOf(d)' = PhaseOf(d) /\ call'[d].step = call[d].step
    BY <2>1 DEF PhaseOf
  <2> QED
    BY <1>u, <2>2 DEF Seen
<1>5. CASE PutRefused(c) \/ Cancel(c)
  BY <1>1, <1>5 DEF PutRefused, Cancel
<1>6. CASE Wakes(c)
  <2>1. CASE c \in Generators /\ future[c].kind = "value"
    <3>1. /\ call[c].pc = "waiting" /\ call'[c].pc = "yielded"
          /\ call'[c].step = call[c].step
          /\ \A d \in Calls \ {c} : call'[d] = call[d]
      BY <1>6, <1>t, <2>1 DEF Wakes, Call
    <3>2. PhaseOf(c) = "waiting" /\ PhaseOf(c)' = "yielded"
      BY <3>1 DEF PhaseOf
    <3>3. Seen' = [Seen EXCEPT ![c].phase = "yielded"]
      BY <3>1, <3>2, SeenChanges
    <3>4. Remote!Current(c) \in answered
      BY <2>1, <3>1 DEF Remote!Current, RemoteInv, CallerInv, ResolvedByAnswer,
                        RequestOf, Kinds
    <3> QED
      BY <1>u, <3>2, <3>3, <3>4 DEF Remote!Return, Seen
  <2>2. CASE ~(c \in Generators /\ future[c].kind = "value")
    BY <1>1, <1>6, <2>2 DEF Wakes
  <2> QED
    BY <2>1, <2>2
<1> QED
  BY <1>2, <1>3, <1>4, <1>5, <1>6 DEF CallStep

LEMMA ChildMaps ==
  ASSUME RemoteInv,
         \/ ChildTakes
         \/ \E request \in running : Executes(request)
         \/ ChildDies
  PROVE  \/ \E c \in Calls : Remote!Serve(c)
         \/ \E request \in served : Remote!Answer(request)
         \/ UNCHANGED <<Seen, served, answered>>
<1>1. UNCHANGED Seen
  BY DEF ChildTakes, Executes, ChildAnswers, ResponseLost, ChildDies, callVars,
         Seen, PhaseOf
<1>2. CASE ChildTakes
  <2>1. requests \in Seq(Request) /\ requests # <<>>
        /\ served' = served \cup {Head(requests)} /\ UNCHANGED answered
    BY <1>2 DEF ChildTakes, RemoteInv, TypeOK, ChildTypeOK
  <2>2. 1 \in 1..Len(requests) /\ Head(requests) = requests[1]
    BY <2>1
  <2> DEFINE c == requests[1].id
  <2>3. /\ c \in Calls /\ requests[1].step = call[c].step
        /\ requests[1].step > 0 /\ requests[1] \notin served
        /\ requests[1] \in Request
    BY <2>2, IdsAreCalls DEF RemoteInv, FlightInv, RequestsFresh, Underway
  <2>4. Remote!Current(c) = requests[1]
    BY <2>3 DEF Remote!Current, Request
  <2>5. Remote!Serve(c)
    BY <1>1, <2>1, <2>2, <2>3, <2>4 DEF Remote!Serve, Seen
  <2> QED
    BY <2>3, <2>5
<1>3. ASSUME NEW r \in running, NEW kind \in Kinds, ChildAnswers(r, kind)
      PROVE  r \in served /\ Remote!Answer(r)
  BY <1>1, <1>3 DEF ChildAnswers, Remote!Answer, RemoteInv, FlightInv,
                    RunningUnderway, Seen
<1>4. CASE ChildDies \/ \E r \in running : ResponseLost(r)
  BY <1>1, <1>4 DEF ChildDies, ProcessEnds, ResponseLost
<1> QED
  BY <1>2, <1>3, <1>4 DEF Executes

LEMMA NextMaps == RemoteInv /\ [Next]_vars => [Remote!RemoteNext]_(Remote!remoteVars)
<1> SUFFICES ASSUME RemoteInv, [Next]_vars
             PROVE  Remote!RemoteNext \/ UNCHANGED <<Seen, served, answered>>
  BY DEF Remote!remoteVars, Seen
<1>1. ASSUME NEW c \in Calls, Lock(c) \/ CallStep(c) \/ Cancel(c)
      PROVE  Remote!RemoteNext \/ UNCHANGED <<Seen, served, answered>>
  BY <1>1, CallerMaps DEF Remote!RemoteNext
<1>2. CASE \/ ChildTakes
           \/ \E request \in running : Executes(request)
           \/ ChildDies
  BY <1>2, ChildMaps DEF Remote!RemoteNext
<1>3. CASE DispatcherStep
  <2>1. UNCHANGED <<call, served, answered>>
    BY <1>3 DEF DispatcherStep, DispatcherGets, DispatcherPops,
                DispatcherResolves, DispatcherTimesOut, DispatcherTestsClosing,
                DispatcherProbes, DispatcherFailsPending, DispatcherBreaks,
                callVars, childVars
  <2> QED
    BY <2>1 DEF Seen, PhaseOf
<1>4. CASE CloseBegins \/ CloseStep
  <2>1. UNCHANGED <<call, served, answered>>
    BY <1>4 DEF CloseBegins, CloseStep, CloseFailsPending, CloseKills,
                CloseClosesQueues, CloseReturns, callVars, childVars, ProcessEnds
  <2> QED
    BY <2>1 DEF Seen, PhaseOf
<1>5. CASE UNCHANGED vars
  BY <1>5 DEF vars, callVars, childVars, Seen, PhaseOf
<1> QED
  BY <1>1, <1>2, <1>3, <1>4, <1>5 DEF Next

(* The proxy keeps the promise of RemoteCalls: whatever threads,             *)
(* cancellations, deaths and close() do, a request runs at most once in the  *)
(* child and a call returns only the answer to its own current request       *)
(* (response_future, _handle_request, _dispatch_responses,                   *)
(* async_gen_wrapper).                                                       *)
THEOREM ProxyImplementsRemoteCalls == Spec => ImplementsRemoteCalls
<1>1. Spec => []RemoteInv
  BY RemoteInvInit, RemoteNextInv, PTL DEF Spec
<1> QED
  BY <1>1, RemoteInitMaps, NextMaps, PTL
     DEF Spec, ImplementsRemoteCalls, Remote!RemoteSpec

=============================================================================
