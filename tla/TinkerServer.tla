----------------------------- MODULE TinkerServer -----------------------------
(****************************************************************************)
(* Requests of one tenant to the OpenAI-compatible Tinker server             *)
(* (tinker/server.py), for models of one base model: the shared loading of   *)
(* a sampling client, the prompt rewritten from the prefix cache, the        *)
(* bounded number of sampling clients in use, the tokens sampled and the     *)
(* rewrite remembered for the next turn.  Everything between two awaits is   *)
(* one step.  A client (a connection) has one request at a time.             *)
(****************************************************************************)
EXTENDS PrefixTrie

CONSTANTS
  Clients,
  Scorers,      \* the clients that ask for logprobs of given tokens
  Models,
  Limit,        \* max_concurrent_sampling_clients
  Prompts,      \* what the chat template may render to, for each client
  Replies,      \* what the model may sample, for each client
  Decode(_), Encode(_),   \* the tokenizer
  MaxRequests   \* bound: requests in all

ASSUME ServerAssumption ==
  /\ IsFiniteSet(Clients) /\ Scorers \subseteq Clients
  /\ IsFiniteSet(Models) /\ Models # {}
  /\ Limit \in Nat \ {0} /\ MaxRequests \in Nat

VARIABLES
  pc,        \* where each client's request is
  model,     \* the model it asks for
  rendered,  \* rendered_prompt_tokens
  prompt,    \* prompt_tokens, given to the sampler
  reply,     \* the tokens sampled
  load,      \* _samplable_models: the state of each model's loading task
  lock,      \* SamplableModel._lock: the holder, then those waiting for it
  yields,    \* SamplableModel._yields
  slots,     \* the semaphore's value
  queue,     \* the requests waiting for the semaphore
  cache,     \* _prefix_cache
  last,      \* the last call of the cache and its answer
  sent       \* requests sent so far

request == <<pc, model, rendered, prompt, reply>>
gate    == <<lock, yields, slots, queue>>
vars    == <<request, load, gate, cache, last, sent>>

Sampling == {"sampling", "leaving", "failing"}

Init ==
  /\ pc = [r \in Clients |-> "idle"]
  /\ model \in [Clients -> {CHOOSE m \in Models : TRUE}]
  /\ rendered = [r \in Clients |-> <<>>]
  /\ prompt = [r \in Clients |-> <<>>]
  /\ reply = [r \in Clients |-> <<>>]
  /\ load = [m \in Models |-> "none"]
  /\ lock = [m \in Models |-> <<>>]
  /\ yields = [m \in Models |-> 0]
  /\ slots = Limit
  /\ queue = <<>>
  /\ cache = EmptyCache
  /\ last = [op |-> "none", key |-> <<>>, raw |-> <<>>]
  /\ sent = 0

(* The request is answered, with a completion or with an error.              *)
Ends(r) ==
  /\ pc' = [pc EXCEPT ![r] = "idle"]
  /\ rendered' = [rendered EXCEPT ![r] = <<>>]
  /\ prompt' = [prompt EXCEPT ![r] = <<>>]
  /\ reply' = [reply EXCEPT ![r] = <<>>]
  /\ UNCHANGED model

-----------------------------------------------------------------------------
(* get_samplable_model: join the loading task, or start one when there is    *)
(* none or the last one failed.                                              *)
Arrive(r, m) ==
  /\ pc[r] = "idle"
  /\ sent < MaxRequests
  /\ sent' = sent + 1
  /\ model' = [model EXCEPT ![r] = m]
  /\ pc' = [pc EXCEPT ![r] = IF load[m] = "ready" THEN "rendering" ELSE "loading"]
  /\ load' = [load EXCEPT ![m] = IF @ \in {"none", "failed"} THEN "loading" ELSE @]
  /\ UNCHANGED <<rendered, prompt, reply, gate, cache, last>>

(* The loading task ends: all that wait for it go on, or all fail.           *)
LoadEnds(m, outcome) ==
  /\ load[m] = "loading"
  /\ load' = [load EXCEPT ![m] = outcome]
  /\ pc' = [r \in Clients |->
              IF pc[r] = "loading" /\ model[r] = m
              THEN IF outcome = "ready" THEN "rendering" ELSE "idle"
              ELSE pc[r]]
  /\ UNCHANGED <<model, rendered, prompt, reply, gate, cache, last, sent>>

(* A worker has rendered the prompt; a chat looks it up; then the request    *)
(* joins the queue of the model's lock.                                      *)
Render(r, t) ==
  /\ pc[r] = "rendering"
  /\ rendered' = [rendered EXCEPT ![r] = t]
  /\ \/ /\ r \in Scorers
        /\ prompt' = [prompt EXCEPT ![r] = t]
        /\ UNCHANGED <<cache, last>>
     \/ /\ r \notin Scorers
        /\ prompt' = [prompt EXCEPT ![r] = Rewritten(cache, t)]
        /\ cache' = Looked(cache, t)
        /\ last' = [op |-> "lookup", key |-> t, raw |-> prompt'[r]]
  /\ pc' = [pc EXCEPT ![r] = "entering"]
  /\ lock' = [lock EXCEPT ![model[r]] = Append(@, r)]
  /\ UNCHANGED <<model, reply, load, yields, slots, queue, sent>>

(* The worker raises, or its process is gone.                                *)
RenderFails(r) ==
  /\ pc[r] = "rendering"
  /\ Ends(r)
  /\ UNCHANGED <<load, gate, cache, last, sent>>

-----------------------------------------------------------------------------
(* SamplableModel.sampling_client() *)

Holds(r) == lock[model[r]] # <<>> /\ lock[model[r]][1] = r

Unlock(r) == [lock EXCEPT ![model[r]] = SubSeq(@, 2, Len(@))]

(* Mutant: every request takes a slot of its own.                            *)
MutNeedsSlot(m) == TRUE

NeedsSlot(m) == yields[m] = 0

(* Mutant: every request gives a slot back.                                  *)
MutIsLastOf(m) == TRUE

IsLastOf(m) == yields[m] = 1

(* With the lock: the first request of a model needs a slot, and waits for   *)
(* it with the lock held; the others come in on the slot it took.            *)
Enter(r) ==
  /\ pc[r] = "entering" /\ Holds(r)
  /\ \/ /\ ~NeedsSlot(model[r])
        /\ yields' = [yields EXCEPT ![model[r]] = @ + 1]
        /\ lock' = Unlock(r)
        /\ pc' = [pc EXCEPT ![r] = "sampling"]
        /\ UNCHANGED <<slots, queue>>
     \/ /\ NeedsSlot(model[r])
        /\ queue' = Append(queue, r)
        /\ pc' = [pc EXCEPT ![r] = "slot"]
        /\ UNCHANGED <<lock, yields, slots>>
  /\ UNCHANGED <<model, rendered, prompt, reply, load, cache, last, sent>>

SlotGranted(r) ==
  /\ pc[r] = "slot"
  /\ slots > 0 /\ queue[1] = r
  /\ slots' = slots - 1
  /\ queue' = SubSeq(queue, 2, Len(queue))
  /\ yields' = [yields EXCEPT ![model[r]] = @ + 1]
  /\ lock' = Unlock(r)
  /\ pc' = [pc EXCEPT ![r] = "sampling"]
  /\ UNCHANGED <<model, rendered, prompt, reply, load, cache, last, sent>>

(* The sampler answers or raises: the request queues for the lock again.     *)
Sampled(r, tokens) ==
  /\ pc[r] = "sampling"
  /\ reply' = [reply EXCEPT ![r] = tokens]
  /\ pc' = [pc EXCEPT ![r] = "leaving"]
  /\ lock' = [lock EXCEPT ![model[r]] = Append(@, r)]
  /\ UNCHANGED <<model, rendered, prompt, load, yields, slots, queue, cache,
                 last, sent>>

SampleFails(r) ==
  /\ pc[r] = "sampling"
  /\ pc' = [pc EXCEPT ![r] = "failing"]
  /\ lock' = [lock EXCEPT ![model[r]] = Append(@, r)]
  /\ UNCHANGED <<model, rendered, prompt, reply, load, yields, slots, queue,
                 cache, last, sent>>

Leave(r) ==
  /\ pc[r] \in {"leaving", "failing"} /\ Holds(r)
  /\ yields' = [yields EXCEPT ![model[r]] = @ - 1]
  /\ slots' = IF IsLastOf(model[r]) THEN slots + 1 ELSE slots
  /\ lock' = Unlock(r)
  /\ \/ /\ pc[r] = "leaving" /\ r \notin Scorers
        /\ pc' = [pc EXCEPT ![r] = "parsing"]
        /\ UNCHANGED <<model, rendered, prompt, reply>>
     \/ /\ pc[r] = "failing" \/ r \in Scorers
        /\ Ends(r)
  /\ UNCHANGED <<load, queue, cache, last, sent>>

-----------------------------------------------------------------------------
(* A worker builds the completion.  When the sampled tokens are not the ones *)
(* their text encodes to, the cache remembers the rewrite.                   *)
Answer(r) ==
  /\ pc[r] = "parsing"
  /\ LET again == Encode(Decode(reply[r]))
         key   == rendered[r] \o again
         raw   == prompt[r] \o reply[r]
     IN \/ /\ again = reply[r]
           /\ UNCHANGED <<cache, last>>
        \/ /\ again # reply[r]
           /\ cache' = Inserted(cache, key, raw)
           /\ last' = [op |-> "insert", key |-> key, raw |-> raw]
  /\ Ends(r)
  /\ UNCHANGED <<load, gate, sent>>

AnswerFails(r) ==
  /\ pc[r] = "parsing"
  /\ Ends(r)
  /\ UNCHANGED <<load, gate, cache, last, sent>>

-----------------------------------------------------------------------------
Loaded(m) == \E outcome \in {"ready", "failed"} : LoadEnds(m, outcome)

(* The steps that are taken in the end: all but the arrival of a request.    *)
Proceed(r) ==
  \/ RenderFails(r)
  \/ \E t \in Prompts[r] : Render(r, t)
  \/ Enter(r)
  \/ SlotGranted(r)
  \/ \E tokens \in Replies[r] : Sampled(r, tokens)
  \/ SampleFails(r)
  \/ Leave(r)
  \/ AnswerFails(r)
  \/ Answer(r)

Works == (\E m \in Models : Loaded(m)) \/ (\E r \in Clients : Proceed(r))

Next == (\E r \in Clients, m \in Models : Arrive(r, m)) \/ Works

Spec == Init /\ [][Next]_vars

(* Tinker and the workers answer or raise, and the event loop runs on.        *)
FairSpec == Spec /\ WF_vars(Works)

-----------------------------------------------------------------------------
(* The trie, its LRU order and its eviction behave as a bounded list of      *)
(* rewrites with the longest prefix found first: no split, merge or pruning  *)
(* loses, hides or mixes up an entry (prefix_cache.py, LRUTrieCache).        *)
Map == INSTANCE PrefixMap WITH known <- Rewrites(cache)

CacheImplementsMap == Map!Spec

(* What the sampler is given reads as the conversation that was rendered,    *)
(* whatever rewrites were remembered by other requests between this one's    *)
(* lookup and theirs (server.py, chat_completions).                          *)
PromptsSameText ==
  \A r \in Clients : Decode(prompt[r]) = Decode(rendered[r])

(* A model with requests in its sampling client occupies one slot, and no    *)
(* slot is lost or given twice, whatever fails and whoever waits for the     *)
(* lock meanwhile (server.py, sampling_client).                              *)
InUse(m) == {r \in Clients : model[r] = m /\ pc[r] \in Sampling}

SlotsExact ==
  /\ \A m \in Models : yields[m] = Cardinality(InUse(m))
  /\ slots + Cardinality({m \in Models : yields[m] > 0}) = Limit

(* Requests that share a lock and wait for each other's slots all end: every *)
(* request is answered once no more than MaxRequests come in.                *)
RequestsEnd == []<>(\A r \in Clients : pc[r] = "idle")
=============================================================================
