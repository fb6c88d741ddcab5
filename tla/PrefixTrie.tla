------------------------------ MODULE PrefixTrie ------------------------------
(****************************************************************************)
(* The radix trie of tinker/prefix_cache.py (LRUTrieCache): the operations   *)
(* are operators on a cache [nodes, lru].  A node has an entry or NoEntry,   *)
(* its children by their first token, its parent and the token under which   *)
(* the parent has it.  `lru` lists the nodes that have an entry, the least   *)
(* recently used first.  Keys have at least one token.                       *)
(****************************************************************************)
EXTENDS Naturals, Sequences, FiniteSets

CONSTANT MaxEntries

ASSUME MaxEntriesAssumption == MaxEntries \in Nat \ {0}

NoNode == 0
Root == 1
NoEntry == [len |-> 0, raw |-> <<>>]

EmptyCache ==
  [nodes |-> [n \in {Root} |-> [entry |-> NoEntry, children |-> <<>>,
                               parent |-> NoNode, token |-> 0]],
   lru   |-> <<>>]

Common(t, i, label) ==
  LET same == {k \in 0..Len(label) :
                 /\ i + k <= Len(t)
                 /\ \A j \in 1..k : t[i + j] = label[j]}
  IN CHOOSE k \in same : \A j \in same : j <= k

Without(f, x) == [y \in DOMAIN f \ {x} |-> f[y]]

With(f, x, v) == [y \in DOMAIN f \cup {x} |-> IF y = x THEN v ELSE f[y]]

(* s without its item i, when it has one.                                    *)
Dropped(s, i) == SubSeq(s, 1, i - 1) \o SubSeq(s, i + 1, Len(s))

(* move_to_end() of a node that may be a new one.                            *)
Touch(lru, n) ==
  LET at == {i \in DOMAIN lru : lru[i] = n}
  IN Append(IF at = {} THEN lru ELSE Dropped(lru, CHOOSE i \in at : TRUE), n)

(* A walk down the trie: the node it is at and the tokens it has read.       *)
Walks(c, t) == [node : DOMAIN c.nodes, idx : 0..Len(t)]
Start == [node |-> Root, idx |-> 0]

(* Mutant: a label is followed although the tokens leave it.                 *)
MutBestNode(c, t) ==
  LET below[at \in Walks(c, t)] ==
        IF at.idx = Len(t) \/ t[at.idx + 1] \notin DOMAIN c.nodes[at.node].children
        THEN NoNode
        ELSE LET e == c.nodes[at.node].children[t[at.idx + 1]]
                 deeper == below[[node |-> e.child,
                                  idx  |-> at.idx + Common(t, at.idx, e.label)]]
             IN IF deeper # NoNode THEN deeper
                ELSE IF c.nodes[e.child].entry # NoEntry THEN e.child ELSE NoNode
  IN below[Start]

(* The node lookup() answers with: the last one with an entry on the way     *)
(* down, or NoNode.                                                          *)
BestNode(c, t) ==
  LET below[at \in Walks(c, t)] ==
        IF at.idx = Len(t) \/ t[at.idx + 1] \notin DOMAIN c.nodes[at.node].children
        THEN NoNode
        ELSE LET e == c.nodes[at.node].children[t[at.idx + 1]]
                 deeper == below[[node |-> e.child, idx |-> at.idx + Len(e.label)]]
             IN IF Common(t, at.idx, e.label) # Len(e.label) THEN NoNode
                ELSE IF deeper # NoNode THEN deeper
                ELSE IF c.nodes[e.child].entry # NoEntry THEN e.child ELSE NoNode
  IN below[Start]

Looked(c, t) ==
  LET best == BestNode(c, t)
  IN IF best = NoNode THEN c ELSE [c EXCEPT !.lru = Touch(@, best)]

(* Mutant: the rest of t is cut by the length of the raw prefix.             *)
MutRewritten(c, t) ==
  LET best  == BestNode(c, t)
      entry == IF best = NoNode THEN NoEntry ELSE c.nodes[best].entry
  IN entry.raw \o SubSeq(t, Len(entry.raw) + 1, Len(t))

(* The prompt for rendered tokens t: the remembered raw tokens replace the   *)
(* prefix of t they were rendered from.                                      *)
Rewritten(c, t) ==
  LET best  == BestNode(c, t)
      entry == IF best = NoNode THEN NoEntry ELSE c.nodes[best].entry
  IN entry.raw \o SubSeq(t, entry.len + 1, Len(t))

-----------------------------------------------------------------------------
(* insert() *)

(* Where the walk of insert() stops: at the end of the key, at a token       *)
(* without an edge, or at an edge whose label the key leaves.                *)
Reached(c, key) ==
  LET walk[at \in Walks(c, key)] ==
        IF at.idx = Len(key) \/ key[at.idx + 1] \notin DOMAIN c.nodes[at.node].children
        THEN at
        ELSE LET e == c.nodes[at.node].children[key[at.idx + 1]]
             IN IF Common(key, at.idx, e.label) # Len(e.label) THEN at
                ELSE walk[[node |-> e.child, idx |-> at.idx + Len(e.label)]]
  IN walk[Start]

Fresh(c) ==
  CHOOSE n \in 1..(Cardinality(DOMAIN c.nodes) + 1) : n \notin DOMAIN c.nodes

(* A leaf under n for the rest of the key from position i on.                *)
WithLeaf(c, n, key, i) ==
  LET edge == [label |-> SubSeq(key, i + 1, Len(key)), child |-> Fresh(c)]
      leaf == [entry |-> NoEntry, children |-> <<>>,
               parent |-> n, token |-> key[i + 1]]
  IN [nodes |-> With([c.nodes EXCEPT ![n].children = With(@, key[i + 1], edge)],
                     Fresh(c), leaf),
      lru   |-> c.lru]

(* The edge of n for `token` cut after its first `matched` tokens.           *)
WithSplit(c, n, token, matched) ==
  LET edge == c.nodes[n].children[token]
      rest == SubSeq(edge.label, matched + 1, Len(edge.label))
      mid  == [entry |-> NoEntry, parent |-> n, token |-> token,
               children |-> [k \in {rest[1]} |-> [label |-> rest, child |-> edge.child]]]
      top  == [label |-> SubSeq(edge.label, 1, matched), child |-> Fresh(c)]
  IN [nodes |-> With([c.nodes EXCEPT ![n].children[token] = top,
                                     ![edge.child].parent = Fresh(c),
                                     ![edge.child].token = rest[1]],
                     Fresh(c), mid),
      lru   |-> c.lru]

(* The cache with a node for the key, and that node.                         *)
Grown(c, key) ==
  LET at == Reached(c, key)
  IN IF at.idx = Len(key) THEN [cache |-> c, node |-> at.node]
     ELSE IF key[at.idx + 1] \notin DOMAIN c.nodes[at.node].children
     THEN [cache |-> WithLeaf(c, at.node, key, at.idx), node |-> Fresh(c)]
     ELSE LET token   == key[at.idx + 1]
              label   == c.nodes[at.node].children[token].label
              matched == Common(key, at.idx, label)
              cut     == WithSplit(c, at.node, token, matched)
              next    == at.idx + matched
          IN IF next = Len(key) THEN [cache |-> cut, node |-> Fresh(c)]
             ELSE [cache |-> WithLeaf(cut, Fresh(c), key, next),
                   node  |-> Fresh(cut)]

(* One turn of _prune at node n: the cache and the node of the next turn, n  *)
(* itself when the loop ends.                                                *)
PruneTurn(c, n) ==
  LET node     == c.nodes[n]
      children == node.children
      up       == node.parent
      edge     == c.nodes[up].children[node.token]
      below    == children[CHOOSE t \in DOMAIN children : TRUE]
      merged   == [label |-> edge.label \o below.label, child |-> below.child]
  IN IF n = Root \/ node.entry # NoEntry \/ Cardinality(DOMAIN children) > 1
     THEN [cache |-> c, node |-> n]
     ELSE IF DOMAIN children = {}
     THEN [cache |-> [nodes |-> Without([c.nodes EXCEPT
                                  ![up].children = Without(@, node.token)], n),
                      lru   |-> c.lru],
           node  |-> up]
     ELSE [cache |-> [nodes |-> Without([c.nodes EXCEPT
                                  ![up].children[node.token] = merged,
                                  ![below.child].parent = up,
                                  ![below.child].token = node.token], n),
                      lru   |-> c.lru],
           node  |-> up]

Pruned(c, n) ==
  LET turn[k \in 0..Cardinality(DOMAIN c.nodes)] ==
        IF k = 0 THEN [cache |-> c, node |-> n]
        ELSE LET before == turn[k - 1] IN PruneTurn(before.cache, before.node)
  IN turn[Cardinality(DOMAIN c.nodes)].cache

(* An insert adds at most one entry, so _evict removes at most one.          *)
Evicted(c) ==
  IF Len(c.lru) <= MaxEntries THEN c
  ELSE LET old == c.lru[1]
       IN Pruned([nodes |-> [c.nodes EXCEPT ![old].entry = NoEntry],
                  lru   |-> SubSeq(c.lru, 2, Len(c.lru))], old)

Inserted(c, key, raw) ==
  LET grown == Grown(c, key)
  IN Evicted([nodes |-> [grown.cache.nodes EXCEPT ![grown.node].entry =
                           [len |-> Len(key), raw |-> raw]],
              lru   |-> Touch(grown.cache.lru, grown.node)])

-----------------------------------------------------------------------------
(* The tokens on the way to node n, read off the parent pointers.            *)
PathTo(c, n) ==
  LET path[m \in DOMAIN c.nodes] ==
        IF m = Root THEN <<>>
        ELSE LET up == c.nodes[m].parent
             IN path[up] \o c.nodes[up].children[c.nodes[m].token].label
  IN path[n]

(* The rewrites a cache holds, as PrefixMap lists them.                      *)
Rewrites(c) ==
  [i \in DOMAIN c.lru |->
     [key |-> PathTo(c, c.lru[i]), raw |-> c.nodes[c.lru[i]].entry.raw]]
=============================================================================
