------------------------------- MODULE PrefixMap -------------------------------
(****************************************************************************)
(* What the prefix cache of the Tinker server promises, without its trie: a *)
(* bounded list of rewrites, the least recently used one first.  A lookup   *)
(* answers with the longest remembered prefix of the tokens it is given.    *)
(****************************************************************************)
EXTENDS Naturals, Sequences, FiniteSets

CONSTANT MaxEntries

VARIABLES known,  \* sequence of [key, raw], the least recently used first
          last    \* the last call and its answer: [op, key, raw]

vars == <<known, last>>

IsPrefixOf(s, t) == Len(s) <= Len(t) /\ SubSeq(t, 1, Len(s)) = s

\* The rewrites of other keys: a key has one at most.
Others(key) ==
  LET at == {i \in DOMAIN known : known[i].key = key}
      i  == CHOOSE j \in at : TRUE
  IN IF at = {} THEN known
     ELSE SubSeq(known, 1, i - 1) \o SubSeq(known, i + 1, Len(known))

Found(t) == {i \in DOMAIN known : IsPrefixOf(known[i].key, t)}

Longest(t) ==
  known[CHOOSE i \in Found(t) :
          \A j \in Found(t) : Len(known[j].key) <= Len(known[i].key)]

Lookup(t) ==
  \/ /\ Found(t) = {}
     /\ last' = [op |-> "lookup", key |-> t, raw |-> t]
     /\ UNCHANGED known
  \/ /\ Found(t) # {}
     /\ LET e == Longest(t)
        IN /\ known' = Append(Others(e.key), e)
           /\ last' = [op  |-> "lookup", key |-> t,
                       raw |-> e.raw \o SubSeq(t, Len(e.key) + 1, Len(t))]

Insert(key, raw) ==
  LET all == Append(Others(key), [key |-> key, raw |-> raw])
  IN /\ known' = SubSeq(all, IF Len(all) > MaxEntries THEN 2 ELSE 1, Len(all))
     /\ last' = [op |-> "insert", key |-> key, raw |-> raw]

Init == known = <<>> /\ last = [op |-> "none", key |-> <<>>, raw |-> <<>>]

Next == \/ last'.op = "lookup" /\ Lookup(last'.key)
        \/ last'.op = "insert" /\ Insert(last'.key, last'.raw)

Spec == Init /\ [][Next]_vars
=============================================================================
