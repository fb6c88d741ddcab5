-------------------------- MODULE ProxyRefinement --------------------------
(* ProxyRpc implements RemoteCalls.                                        *)
EXTENDS ProxyRpc

PhaseOf(c) ==
  CASE call[c].pc \in {"idle", "yielded"} -> call[c].pc
    [] call[c].pc = "locked" -> IF call[c].step = 0 THEN "idle" ELSE "yielded"
    [] call[c].pc \in {"registered", "waiting"} -> "waiting"
    [] call[c].pc = "done" -> "ended"

Remote == INSTANCE RemoteCalls
            WITH caller <- [c \in Calls |-> [phase |-> PhaseOf(c),
                                             step |-> call[c].step]]

(* Whatever threads, cancellations, deaths and close() do, a request runs at *)
(* most once in the child, and a call returns only the answer to its own     *)
(* current request: the id that a generator uses for all its items never     *)
(* brings it an older item (_dispatch_responses, async_gen_wrapper).         *)
ImplementsRemoteCalls == Remote!RemoteSpec

=============================================================================
