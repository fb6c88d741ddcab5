--------------------------- MODULE LocalTraining ---------------------------
(* LocalBackend's training of a model: the rows are packed by the backend    *)
(* and go to the service the model has, Megatron's or Unsloth's, in any of   *)
(* the modes (src/art/local/backend.py, _get_service, _train_model).         *)
EXTENDS MegatronTraining, UnslothService

ASSUME LocalAssumption ==
  Setups = Modes /\ CallBound = MaxCalls /\ StartBound = MaxRestarts

VARIABLE service   \* "megatron" or "unsloth"

localVars == <<vars, unslothVars, service>>

LocalInit ==
  /\ Init /\ UnslothInit /\ setup = mode
  /\ service \in {"megatron", "unsloth"}

-----------------------------------------------------------------------------
(* A call of the Unsloth service: _train_model packs its rows first.         *)

\* As for Megatron, the rows of a first call are followed.
UnslothCallBegins ==
  \/ /\ phase = "tokenize" /\ begun = 0 /\ starts = 0
     /\ BeginTraining("rl") /\ UNCHANGED passVars
  \/ /\ phase \in {"tokenize", "over"}
     /\ \/ BeginTraining("rl") /\ (begun > 0 \/ starts > 0)
        \/ BeginTraining("sft")
     /\ ForgetRows

UnslothRowsPacked ==
  \/ at = "pack" /\ phase # "over" /\ PackStep /\ UNCHANGED unslothVars
  \/ phase = "packed" /\ RowsHandedOver(Len(rows)) /\ ForgetRows
  \/ phase = "nothing" /\ NoRows /\ ForgetRows
  \/ /\ phase = "over" /\ UNCHANGED passVars
     /\ NoRows \/ \E n \in 1..MaxRows : RowsHandedOver(n)

UnslothSystem ==
  \/ UnslothRowsPacked
  \/ (StartService \/ ClientStep \/ RequestFails) /\ UNCHANGED passVars

UnslothOthers ==
  \/ UnslothCallBegins
  \/ Disturbance /\ UNCHANGED passVars

Megatron == service = "megatron"
Unsloth == service = "unsloth"
OnlyMegatron == UNCHANGED <<unslothVars, service>>
OnlyUnsloth == UNCHANGED <<stepVars, jobsVars, service>>
TrainerTask == Unsloth /\ TaskStep /\ UNCHANGED passVars /\ OnlyUnsloth

LocalNext ==
  \/ Megatron /\ Next /\ OnlyMegatron
  \/ Unsloth /\ (UnslothSystem \/ UnslothOthers) /\ OnlyUnsloth
  \/ TrainerTask

(* The event loop runs what is ready, requests are answered or time out, the *)
(* consumer asks for the next result, every rank of the worker is a process  *)
(* of its own that goes on while the worker lives, and the trainer takes its *)
(* rows.                                                                     *)
LocalSpec ==
  /\ LocalInit /\ [][LocalNext]_localVars
  /\ WF_localVars(Megatron /\ (Packing \/ Packed) /\ OnlyMegatron)
  /\ WF_localVars(Megatron /\ CallStep /\ RowsFollow /\ OnlyMegatron)
  /\ WF_localVars(Megatron /\ (Compute \/ JobComputed \/ RowsRejectedExit) /\ OnlyMegatron)
  /\ WF_localVars(Megatron /\ WorkerStep /\ RowsFollow /\ OnlyMegatron)
  /\ WF_localVars(Unsloth /\ UnslothSystem /\ OnlyUnsloth)
  /\ WF_localVars(TrainerTask)

-----------------------------------------------------------------------------
(* The rows as attention sees them.                                          *)

\* Mutant: a result sees every result of its prompt.
MutVisible(tokens, q) ==
  {k \in 1..q : \/ tokens[k].parent = tokens[q].parent
                \/ tokens[k].group = tokens[q].parent}

\* calculate_mask: what the q-th token of a row attends to.
Visible(tokens, q) ==
  {k \in 1..q : \/ tokens[k].group = tokens[q].group
                \/ tokens[k].group = tokens[q].parent}

\* In a packed row a token attends to its own trajectory up to itself: to
\* nothing of the results it shares the row and its prompt with, and to its
\* whole prompt though another result may have brought it.
TokensSeeOwnTrajectory ==
  phase = "packed" =>
    \A i \in DOMAIN rows : \A q \in DOMAIN rows[i] :
      LET seen == Visible(rows[i], q)
          k == rows[i][q].group[2]
          Before(j) == Cardinality({m \in seen : m <= j})
      IN  \E r \in IF k = 0 THEN DOMAIN results ELSE {k} :
            /\ rows[i][q].parent[1] = results[r].prompt
            /\ k = 0 => Cardinality(seen) <= results[r].promptLength
            /\ \A j \in seen : results[r].tokens[Before(j)] = rows[i][j].token

\* Every call of train and train_sft returns or raises, whichever service the
\* model has and whatever fails on the way.
CallUnderWay == pc \notin {"new", "idle"} \/ at \notin {"new", "idle"}
EveryCallEnds == CallUnderWay ~> ~CallUnderWay

=============================================================================
