---------------------------- MODULE MCTinkerServer ----------------------------
(* A tokenizer with the tokens 1 = "a", 2 = "b" and 3 = "ab": a text encodes *)
(* to the tokens that take each "ab" as 3.                                   *)
EXTENDS TinkerServer, SequencesExt

MCDecode(tokens) ==
  FlattenSeq([i \in DOMAIN tokens |-> IF tokens[i] = 3 THEN <<1, 2>> ELSE <<tokens[i]>>])

MCEncode(text) ==
  LET from[i \in 1..(Len(text) + 2)] ==
        IF i > Len(text) THEN <<>>
        ELSE IF text[i] = 1 /\ i < Len(text) /\ text[i + 1] = 2
             THEN <<3>> \o from[i + 2] ELSE <<text[i]>> \o from[i + 1]
  IN from[1]

CONSTANTS c1, c2, c3

(* Two clients hold conversations that start alike and go on after either    *)
(* reply; the third asks for logprobs.                                       *)
MCPrompts ==
  (c1 :> {<<2>>, <<2, 3, 2>>}) @@ (c2 :> {<<2>>, <<2, 3, 3, 2>>}) @@ (c3 :> {<<1>>})

MCReplies ==
  (c1 :> {<<1>>, <<1, 2>>}) @@ (c2 :> {<<1, 2>>, <<1, 2, 3>>}) @@ (c3 :> {<<1>>})
=============================================================================
