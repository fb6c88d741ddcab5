---------------------------- MODULE RemoteCalls ----------------------------
(***************************************************************************)
(* What a proxy to an object in another process promises its callers,      *)
(* without threads, queues or locks.                                       *)
(*                                                                         *)
(* A request is executed at most once, a call only returns what the object *)
(* answered to its own current request, and a call that ended stays ended. *)
(* A call may fail at any time, also one that was or will be executed.     *)
(***************************************************************************)
EXTENDS Naturals

CONSTANTS Calls

VARIABLES
  caller,   \* per call: its phase and the number of its current request
  served,   \* the requests whose execution has begun
  answered  \* the requests whose execution has ended with an answer

remoteVars == <<caller, served, answered>>

Current(c) == [id |-> c, step |-> caller[c].step]
Open(c) == caller[c].phase \in {"idle", "yielded"}

RemoteInit ==
  /\ caller = [c \in Calls |-> [phase |-> "idle", step |-> 0]]
  /\ served = {} /\ answered = {}

Invoke(c) ==
  /\ Open(c)
  /\ caller' = [caller EXCEPT ![c] = [phase |-> "waiting", step |-> @.step + 1]]
  /\ UNCHANGED <<served, answered>>

Serve(c) ==
  /\ Current(c).step > 0 /\ Current(c) \notin served
  /\ served' = served \cup {Current(c)}
  /\ UNCHANGED <<caller, answered>>

Answer(request) ==
  /\ request \in served \ answered
  /\ answered' = answered \cup {request}
  /\ UNCHANGED <<caller, served>>

\* "yielded" is a generator that has more to give.
Return(c) ==
  /\ caller[c].phase = "waiting" /\ Current(c) \in answered
  /\ \E phase \in {"yielded", "ended"} :
       caller' = [caller EXCEPT ![c].phase = phase]
  /\ UNCHANGED <<served, answered>>

Fail(c) ==
  /\ caller[c].phase # "ended"
  /\ caller' = [caller EXCEPT ![c].phase = "ended"]
  /\ UNCHANGED <<served, answered>>

RemoteNext ==
  \/ \E c \in Calls : Invoke(c) \/ Serve(c) \/ Return(c) \/ Fail(c)
  \/ \E request \in served : Answer(request)

RemoteSpec == RemoteInit /\ [][RemoteNext]_remoteVars

=============================================================================
