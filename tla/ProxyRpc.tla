------------------------------ MODULE ProxyRpc ------------------------------
(***************************************************************************)
(* src/mp_actors/move.py: the Proxy of an object that lives in a child     *)
(* process, from its successful start to the end of close().               *)
(*                                                                         *)
(* Callers register a future under the futures lock and put a request in   *)
(* one multiprocessing queue; the child runs the requests concurrently and *)
(* puts the responses in another; a dispatcher thread resolves the futures *)
(* and watches the child; close() may come from any thread.  _closing and  *)
(* _dead_process_error are read under the lock and set without it.         *)
(*                                                                         *)
(* The parent's threads interleave at any of their accesses to what they   *)
(* share; an action is one such access.                                    *)
(***************************************************************************)
EXTENDS Naturals, Sequences

CONSTANTS
  Calls,       \* the calls ever made; each has one id of _next_id
  Generators,  \* those of async generator methods, with a request per item
  Items,       \* how many items a generator yields
  Environment  \* what may happen: a subset of ProxyEvents

\* The child dies; close() is called; a waiting call is cancelled; the child
\* fails to send a response (an answer that does not pickle, an exception
\* _handle_request does not catch); the parent fails to read one.
ProxyEvents == {"child_dies", "close", "cancel", "response_lost",
                "response_unreadable"}

ASSUME ProxyAssumption ==
  /\ Generators \subseteq Calls
  /\ Items \in Nat
  /\ Environment \subseteq ProxyEvents

VARIABLES
  call,        \* per call: where it is, its current request, how it ended
  future,      \* per call: the Future of the current request
  futures,     \* the ids in _futures
  dead_error,  \* _dead_process_error is set
  requests, responses,  \* the two queues
  process,     \* alive, died of itself, or killed by close()
  running,     \* requests being executed in the child
  served, answered, lost,  \* history: begun, answered, ended without response
  dpc, in_hand,  \* _dispatch_responses: where it is, the response it holds
  cpc            \* where close() is

callVars == <<call, future, futures>>
childVars == <<requests, responses, process, running, served, answered, lost>>
vars == <<callVars, dead_error, childVars, dpc, in_hand, cpc>>

Request == [id : Calls, step : Nat]
Kinds == {"value", "exception"}
Response == [id : Calls, step : Nat, kind : Kinds]
FutureKinds == {"none", "pending", "died", "closing", "cancelled"} \cup Kinds
Ends == {"none", "died", "closing", "cancelled", "refused"} \cup Kinds
Call == [pc : {"idle", "locked", "registered", "waiting", "yielded", "done"},
         step : Nat, end : Ends]

RequestOf(c) == [id |-> c, step |-> call[c].step]

\* A caller is inside `with self._futures_lock`.
LockFree == \A c \in Calls : call[c].pc # "locked"

\* self._closing, and the queues after their close().
Closing == cpc # "open"
QueuesOpen == cpc \notin {"queues_closed", "closed"}

\* Mutant: the snapshot is taken without the lock.
MutFailPending(error) ==
  /\ future' = [c \in Calls |->
                  IF c \in futures /\ future[c].kind = "pending"
                  THEN [future[c] EXCEPT !.kind = error] ELSE future[c]]
  /\ futures' = {}

\* _fail_pending: the snapshot and its futures.
FailPending(error) ==
  /\ LockFree
  /\ future' = [c \in Calls |->
                  IF c \in futures /\ future[c].kind = "pending"
                  THEN [future[c] EXCEPT !.kind = error] ELSE future[c]]
  /\ futures' = {}

EndCall(c, end) == [call EXCEPT ![c].pc = "done", ![c].end = end]

Init ==
  /\ call = [c \in Calls |-> [pc |-> "idle", step |-> 0, end |-> "none"]]
  /\ future = [c \in Calls |-> [kind |-> "none", step |-> 0]]
  /\ futures = {} /\ dead_error = FALSE
  /\ requests = <<>> /\ responses = <<>>
  /\ process = "alive" /\ running = {}
  /\ served = {} /\ answered = {} /\ lost = {}
  /\ dpc = "get" /\ in_hand = {}
  /\ cpc = "open"

-----------------------------------------------------------------------------
(* response_future and the wrappers that wait for it.  A generator comes     *)
(* back for its next item.                                                   *)

Lock(c) ==
  /\ call[c].pc \in {"idle", "yielded"} /\ LockFree
  /\ call' = IF dead_error THEN EndCall(c, "died")
             ELSE IF Closing THEN EndCall(c, "closing")
             ELSE [call EXCEPT ![c].pc = "locked"]
  /\ UNCHANGED <<future, futures, dead_error, childVars, dpc, in_hand, cpc>>

Register(c) ==
  /\ call[c].pc = "locked"
  /\ call' = [call EXCEPT ![c].pc = "registered", ![c].step = @ + 1]
  /\ future' = [future EXCEPT ![c] = [kind |-> "pending",
                                      step |-> call[c].step + 1]]
  /\ futures' = futures \cup {c}
  /\ UNCHANGED <<dead_error, childVars, dpc, in_hand, cpc>>

PutRequest(c) ==
  /\ call[c].pc = "registered" /\ QueuesOpen
  /\ requests' = Append(requests, RequestOf(c))
  /\ call' = [call EXCEPT ![c].pc = "waiting"]
  /\ UNCHANGED <<future, futures, dead_error, responses, process, running,
                 served, answered, lost, dpc, in_hand, cpc>>

\* put_nowait raises on a closed queue.
PutRefused(c) ==
  /\ call[c].pc = "registered" /\ ~QueuesOpen /\ LockFree
  /\ futures' = futures \ {c}
  /\ call' = EndCall(c, "refused")
  /\ UNCHANGED <<future, dead_error, childVars, dpc, in_hand, cpc>>

Wakes(c) ==
  /\ call[c].pc = "waiting" /\ future[c].kind # "pending"
  /\ call' = IF c \in Generators /\ future[c].kind = "value"
             THEN [call EXCEPT ![c].pc = "yielded"]
             ELSE EndCall(c, future[c].kind)
  /\ UNCHANGED <<future, futures, dead_error, childVars, dpc, in_hand, cpc>>

\* Mutant: a generator goes on after its consumer was cancelled.
MutCancel(c) ==
  /\ "cancel" \in Environment
  /\ call[c].pc = "waiting"
  /\ call' = IF c \in Generators THEN [call EXCEPT ![c].pc = "yielded"]
             ELSE EndCall(c, "cancelled")
  /\ future' = IF future[c].kind = "pending"
               THEN [future EXCEPT ![c].kind = "cancelled"] ELSE future
  /\ UNCHANGED <<futures, dead_error, childVars, dpc, in_hand, cpc>>

\* The task awaiting wrap_future is cancelled, and the Future with it.  The
\* entry in _futures stays.
Cancel(c) ==
  /\ "cancel" \in Environment
  /\ call[c].pc = "waiting"
  /\ call' = EndCall(c, "cancelled")
  /\ future' = IF future[c].kind = "pending"
               THEN [future EXCEPT ![c].kind = "cancelled"] ELSE future
  /\ UNCHANGED <<futures, dead_error, childVars, dpc, in_hand, cpc>>

-----------------------------------------------------------------------------
(* _handle_requests and _handle_request, in the child. *)

ChildTakes ==
  /\ process = "alive" /\ requests # <<>>
  /\ requests' = Tail(requests)
  /\ running' = running \cup {Head(requests)}
  /\ served' = served \cup {Head(requests)}
  /\ UNCHANGED <<callVars, dead_error, responses, process, answered, lost,
                 dpc, in_hand, cpc>>

\* The method returns, yields or raises; an exhausted generator raises
\* StopAsyncIteration.
ChildAnswers(request, kind) ==
  /\ request \in running
  /\ request.id \in Generators /\ request.step > Items => kind = "exception"
  /\ running' = running \ {request}
  /\ responses' = Append(responses, [id |-> request.id, step |-> request.step,
                                     kind |-> kind])
  /\ answered' = answered \cup {request}
  /\ UNCHANGED <<callVars, dead_error, requests, process, served, lost, dpc,
                 in_hand, cpc>>

ResponseLost(request) ==
  /\ "response_lost" \in Environment
  /\ request \in running
  /\ running' = running \ {request}
  /\ lost' = lost \cup {request}
  /\ UNCHANGED <<callVars, dead_error, requests, responses, process, served,
                 answered, dpc, in_hand, cpc>>

\* The process ends; what its queue's feeder thread had not written yet is
\* gone with it.
ProcessEnds(how) ==
  /\ process' = IF process = "alive" THEN how ELSE process
  /\ running' = {}
  /\ IF process = "alive"
     THEN \E written \in 0..Len(responses) :
            responses' = SubSeq(responses, 1, written)
     ELSE UNCHANGED responses
  /\ UNCHANGED <<requests, served, answered, lost>>

ChildDies ==
  /\ "child_dies" \in Environment
  /\ process = "alive"
  /\ ProcessEnds("died")
  /\ UNCHANGED <<callVars, dead_error, dpc, in_hand, cpc>>

-----------------------------------------------------------------------------
(* _dispatch_responses. *)

DispatcherGets ==
  /\ dpc = "get" /\ QueuesOpen /\ responses # <<>>
  /\ in_hand' = {Head(responses)}
  /\ responses' = Tail(responses)
  /\ dpc' = "pop"
  /\ UNCHANGED <<callVars, dead_error, requests, process, running, served,
                 answered, lost, cpc>>

DispatcherPops ==
  /\ dpc = "pop" /\ LockFree
  /\ \E response \in in_hand :
       /\ futures' = futures \ {response.id}
       /\ IF response.id \in futures
          THEN dpc' = "resolve" /\ UNCHANGED in_hand
          ELSE dpc' = "get" /\ in_hand' = {}
  /\ UNCHANGED <<call, future, dead_error, childVars, cpc>>

DispatcherResolves ==
  /\ dpc = "resolve"
  /\ \E response \in in_hand :
       future' = IF future[response.id].kind = "pending"
                 THEN [future EXCEPT ![response.id].kind = response.kind]
                 ELSE future
  /\ dpc' = "get" /\ in_hand' = {}
  /\ UNCHANGED <<call, futures, dead_error, childVars, cpc>>

\* queue.Empty: nothing came for 0.1 s.
DispatcherTimesOut ==
  /\ dpc = "get" /\ QueuesOpen /\ responses = <<>>
  /\ dpc' = "empty"
  /\ UNCHANGED <<callVars, dead_error, childVars, in_hand, cpc>>

DispatcherTestsClosing ==
  /\ dpc = "empty"
  /\ dpc' = IF Closing THEN "ended" ELSE "probe"
  /\ UNCHANGED <<callVars, dead_error, childVars, in_hand, cpc>>

\* Mutant: the error is only remembered.
MutDispatcherProbes ==
  /\ dpc = "probe"
  /\ dead_error' = (dead_error \/ process # "alive")
  /\ dpc' = "get"
  /\ UNCHANGED <<callVars, childVars, in_hand, cpc>>

DispatcherProbes ==
  /\ dpc = "probe"
  /\ IF ~dead_error /\ process # "alive"
     THEN dead_error' = TRUE /\ dpc' = "fail"
     ELSE dpc' = "get" /\ UNCHANGED dead_error
  /\ UNCHANGED <<callVars, childVars, in_hand, cpc>>

DispatcherFailsPending ==
  /\ dpc = "fail"
  /\ FailPending("died")
  /\ dpc' = "get"
  /\ UNCHANGED <<call, dead_error, childVars, in_hand, cpc>>

\* `except Exception: break`: the queue is closed, or a response cannot be
\* unpickled.
DispatcherBreaks ==
  /\ dpc = "get"
  /\ \/ ~QueuesOpen /\ dpc' = "ended" /\ UNCHANGED responses
     \/ /\ "response_unreadable" \in Environment
        /\ QueuesOpen /\ responses # <<>>
        /\ responses' = Tail(responses)
        /\ dpc' = "broken"
  /\ UNCHANGED <<callVars, dead_error, requests, process, running, served,
                 answered, lost, in_hand, cpc>>

-----------------------------------------------------------------------------
(* close().  A second call returns at once. *)

CloseBegins ==
  /\ "close" \in Environment /\ cpc = "open"
  /\ cpc' = "fail"
  /\ UNCHANGED <<callVars, dead_error, childVars, dpc, in_hand>>

CloseFailsPending ==
  /\ cpc = "fail"
  /\ FailPending("closing")
  /\ cpc' = "kill"
  /\ UNCHANGED <<call, dead_error, childVars, dpc, in_hand>>

CloseKills ==
  /\ cpc = "kill"
  /\ ProcessEnds("killed")
  /\ cpc' = "close_queues"
  /\ UNCHANGED <<callVars, dead_error, dpc, in_hand>>

CloseClosesQueues ==
  /\ cpc = "close_queues"
  /\ cpc' = "queues_closed"
  /\ UNCHANGED <<callVars, dead_error, childVars, dpc, in_hand>>

\* The dispatcher is joined for a second at most.
CloseReturns ==
  /\ cpc = "queues_closed"
  /\ cpc' = "closed"
  /\ UNCHANGED <<callVars, dead_error, childVars, dpc, in_hand>>

-----------------------------------------------------------------------------
(* The specification. *)

\* What a call does once it was made.
CallStep(c) == Register(c) \/ PutRequest(c) \/ PutRefused(c) \/ Wakes(c)

Executes(request) ==
  (\E kind \in Kinds : ChildAnswers(request, kind)) \/ ResponseLost(request)

DispatcherStep ==
  \/ DispatcherGets \/ DispatcherPops \/ DispatcherResolves
  \/ DispatcherTimesOut \/ DispatcherTestsClosing \/ DispatcherProbes
  \/ DispatcherFailsPending \/ DispatcherBreaks

CloseStep ==
  \/ CloseFailsPending \/ CloseKills \/ CloseClosesQueues \/ CloseReturns

Next ==
  \/ \E c \in Calls : Lock(c) \/ CallStep(c) \/ Cancel(c)
  \/ ChildTakes \/ (\E request \in running : Executes(request)) \/ ChildDies
  \/ DispatcherStep
  \/ CloseBegins \/ CloseStep

Spec == Init /\ [][Next]_vars

\* The requests that can be made.
Requests == [id : Calls, step : 1..(Items + 1)]

\* Every thread keeps running, the child serves its queue and its methods
\* return.  Nobody has to make a call, ask a generator for more or close.
FairSpec ==
  /\ Spec
  /\ \A c \in Calls : WF_vars(CallStep(c))
  /\ WF_vars(ChildTakes)
  /\ \A request \in Requests : WF_vars(Executes(request))
  /\ WF_vars(DispatcherStep) /\ WF_vars(CloseStep)

-----------------------------------------------------------------------------
(* Properties. *)

CallTypeOK ==
  /\ call \in [Calls -> Call]
  /\ future \in [Calls -> [kind : FutureKinds, step : Nat]]
  /\ futures \subseteq Calls

\* The lock has one holder.
OneLocked ==
  \A c, d \in Calls : call[c].pc = "locked" /\ call[d].pc = "locked" => c = d

ChildTypeOK ==
  /\ requests \in Seq(Request) /\ responses \in Seq(Response)
  /\ process \in {"alive", "died", "killed"}
  /\ running \subseteq Request /\ served \subseteq Request
  /\ answered \subseteq Request /\ lost \subseteq Request

\* The dispatcher holds at most one response.
DispatcherTypeOK ==
  /\ dead_error \in BOOLEAN
  /\ dpc \in {"get", "pop", "resolve", "empty", "probe", "fail", "ended",
              "broken"}
  /\ in_hand \subseteq Response
  /\ \A r, s \in in_hand : r = s

TypeOK ==
  /\ CallTypeOK /\ OneLocked /\ ChildTypeOK /\ DispatcherTypeOK
  /\ cpc \in {"open", "fail", "kill", "close_queues", "queues_closed",
              "closed"}

(* Once close() or the death of the child failed the pending calls, no call  *)
(* waits for a future nobody will resolve: none slips in between the test of *)
(* _closing or _dead_process_error and the snapshot, although both flags are *)
(* set outside the lock (response_future, _fail_pending).                    *)
PendingFailed ==
  \/ cpc \notin {"open", "fail"}
  \/ dead_error /\ dpc # "fail"

NoOrphanedCalls ==
  PendingFailed =>
    \A c \in Calls :
      future[c].kind = "pending" =>
        dpc = "resolve" /\ \E response \in in_hand : response.id = c

(* A call that waits is answered or failed in the end, whatever the child    *)
(* and close() do, unless its response was lost or the dispatcher broke off. *)
Waits(c) == call[c].pc \in {"locked", "registered", "waiting"}

CallsEnd ==
  \A c \in Calls :
    Waits(c) ~> (~Waits(c) \/ RequestOf(c) \in lost \/ dpc = "broken")

=============================================================================
