------------------------ MODULE AdapterShardsProofs ------------------------
(* Theorems about AdapterShards, for every topology the worker may have:     *)
(* what its ranks save can be merged, their gradients are whole, and the     *)
(* merged adapter is what the jobs made of it.                               *)
EXTENDS AdapterShards, FiniteSetTheorems, FunctionTheorems,
        SequenceTheorems, WellFoundedInduction, TLAPS

-----------------------------------------------------------------------------
(* Quotients and remainders.                                                 *)

LEMMA Whole ==
  ASSUME NEW a \in Nat, NEW n \in Nat \ {0}
  PROVE  /\ a \div n \in Nat /\ a % n \in 0..(n - 1) /\ a = (a \div n) * n + (a % n)
<1> DEFINE q == a \div n
           r == a % n
<1>1. a = r + n * q /\ q >= 0 /\ q \in Int /\ r \in 0..(n - 1)
  OBVIOUS
<1> HIDE DEF q, r
<1>2. n * q = q * n
  BY <1>1
<1>3. q \in Nat /\ r \in 0..(n - 1) /\ a = q * n + r
  BY <1>1, <1>2
<1> QED BY <1>3 DEF q, r

\* A number has one quotient and one remainder.
LEMMA WholeIs ==
  ASSUME NEW a \in Nat, NEW n \in Nat \ {0}, NEW q \in Nat, NEW r \in 0..(n - 1),
         a = q * n + r
  PROVE  a \div n = q /\ a % n = r
<1>1. PICK b \in Nat, s \in 0..(n - 1) : b = a \div n /\ s = a % n /\ a = b * n + s
  BY Whole
<1>2. ~(b < q)
  <2> SUFFICES ASSUME b < q PROVE FALSE
    OBVIOUS
  <2>1. (q - b - 1) * n >= 0
    OBVIOUS
  <2>2. (q - b - 1) * n = q * n - b * n - n
    OBVIOUS
  <2> QED BY <1>1, <2>1, <2>2
<1>3. ~(q < b)
  <2> SUFFICES ASSUME q < b PROVE FALSE
    OBVIOUS
  <2>1. (b - q - 1) * n >= 0
    OBVIOUS
  <2>2. (b - q - 1) * n = b * n - q * n - n
    OBVIOUS
  <2> QED BY <1>1, <2>1, <2>2
<1> QED BY <1>1, <1>2, <1>3

LEMMA Below ==
  ASSUME NEW a \in Nat, NEW n \in Nat \ {0}
  PROVE  a \div n = 0 <=> a < n
<1>1. PICK q \in Nat, r \in 0..(n - 1) : q = a \div n /\ r = a % n /\ a = q * n + r
  BY Whole
<1>2. q # 0 => q * n >= n
  <2> SUFFICES ASSUME q - 1 >= 0 PROVE q * n >= n
    OBVIOUS
  <2>1. (q - 1) * n >= 0 /\ (q - 1) * n = q * n - n
    OBVIOUS
  <2> QED BY <2>1
<1>3. q = 0 => q * n = 0
  OBVIOUS
<1> QED BY <1>1, <1>2, <1>3

-----------------------------------------------------------------------------
(* The ranks of a topology.                                                  *)

LEMMA RanksAre ==
  ASSUME topology \in Topologies
  PROVE  /\ topology.tp \in Nat \ {0} /\ topology.replicas \in Nat \ {0}
         /\ topology.etp \in Nat \ {0} /\ topology.ep \in Nat \ {0}
         /\ WorldSize \in Nat \ {0} /\ topology.tp <= WorldSize
         /\ topology.etp * topology.ep \in Nat \ {0}
         /\ topology.etp * topology.ep <= WorldSize
<1>1. /\ topology.tp \in Nat \ {0} /\ topology.replicas \in Nat \ {0}
      /\ topology.etp \in Nat \ {0} /\ topology.ep \in Nat \ {0}
      /\ (topology.tp * topology.replicas) % (topology.etp * topology.ep) = 0
  BY ShardsAssumption DEF Fits
<1>2. PICK t, n, x, e \in Nat \ {0} : t = topology.tp /\ n = topology.replicas
                                      /\ x = topology.etp /\ e = topology.ep
  BY <1>1
<1>3. t * n \in Nat \ {0} /\ t <= t * n
  <2>1. t * (n - 1) >= 0 /\ t * (n - 1) = t * n - t
    OBVIOUS
  <2> QED BY <2>1
<1>4. x * e \in Nat \ {0}
  <2>1. x * (e - 1) >= 0 /\ x * (e - 1) = x * e - x
    OBVIOUS
  <2> QED BY <2>1
<1>5. x * e <= t * n
  <2>1. PICK w, g \in Nat \ {0} : w = t * n /\ g = x * e
    BY <1>3, <1>4
  <2>2. w % g = 0
    BY <1>1, <1>2, <2>1
  <2>3. ~(w < g)
    <3> SUFFICES ASSUME w < g PROVE FALSE
      OBVIOUS
    <3>1. w % g = w
      BY WholeIs, w = 0 * g + w, w \in 0..(g - 1), 0 \in Nat
    <3> QED BY <2>2, <3>1
  <2> QED BY <2>1, <2>3
<1> QED BY <1>1, <1>2, <1>3, <1>4, <1>5 DEF WorldSize

\* The experts of a rank tell its place among the expert-parallel ranks.
LEMMA ExpertsTell ==
  ASSUME topology \in Topologies, NEW r \in Ranks, NEW x \in Nat, x \in LocalExperts(r)
  PROVE  EpRank(r) = x \div (Experts \div topology.ep)
<1>1. Experts \div topology.ep \in Nat \ {0}
  BY ShardsAssumption, RanksAre DEF Fits
<1>2. PICK n \in Nat \ {0} : n = Experts \div topology.ep
  BY <1>1
<1>3. EpRank(r) \in Nat
  <2>1. PICK d \in Nat : d = r \div topology.etp
    <3>1. r \in Nat
      BY RanksAre DEF Ranks
    <3> QED BY <3>1, RanksAre, Whole
  <2>2. d % topology.ep \in 0..(topology.ep - 1)
    BY RanksAre, Whole
  <2> QED BY <2>1, <2>2, RanksAre DEF EpRank
<1>4. PICK e \in Nat : e = EpRank(r)
  BY <1>3
<1>5. x \in (e * n)..(e * n + n - 1)
  BY <1>2, <1>4 DEF LocalExperts
<1>6. PICK b \in Nat : b = e * n
  OBVIOUS
<1>7. x - b \in 0..(n - 1) /\ x = b + (x - b)
  BY <1>5, <1>6
<1>8. x \div n = e
  BY <1>6, <1>7, WholeIs
<1> QED BY <1>2, <1>4, <1>8

\* Quotients of quotients.
LEMMA Nested ==
  ASSUME NEW x \in Nat \ {0}, NEW n \in Nat \ {0},
         NEW a \in Nat, NEW b \in 0..(n - 1), NEW k \in 0..(x - 1), NEW q \in Nat,
         q = a * (x * n) + b * x + k
  PROVE  q % x = k /\ (q \div x) % n = b /\ q \div (x * n) = a
<1>1. PICK d \in Nat : d = a * n + b
  OBVIOUS
<1>2. d * x = a * (x * n) + b * x
  <2>1. d * x = (a * n) * x + b * x
    BY <1>1
  <2>2. (a * n) * x = a * (x * n)
    OBVIOUS
  <2> QED BY <2>1, <2>2
<1>3. q = d * x + k
  BY <1>2
<1>4. q \div x = d /\ q % x = k
  BY <1>3, WholeIs
<1>5. d % n = b
  BY <1>1, WholeIs
<1>6. PICK e \in Nat : e = b * x + k
  OBVIOUS
<1>7. x * n \in Nat \ {0} /\ e < x * n
  <2>1. x * (n - 1) >= 0 /\ x * (n - 1) = x * n - x
    OBVIOUS
  <2>2. x * (n - 1 - b) >= 0 /\ x * (n - 1 - b) = x * n - x - b * x
    OBVIOUS
  <2>3. PICK u, v \in Int : u = x * n /\ v = b * x
    OBVIOUS
  <2>4. u - x >= 0 /\ u - x - v >= 0 /\ e = v + k
    BY <1>6, <2>1, <2>2, <2>3
  <2> QED BY <2>3, <2>4
<1>8. q \div (x * n) = a
  <2>1. PICK u \in Nat \ {0} : u = x * n
    BY <1>7
  <2>2. q = a * u + e /\ e \in 0..(u - 1)
    <3>1. q = a * u + b * x + k
      BY <2>1
    <3> QED BY <1>6, <1>7, <2>1, <3>1
  <2>3. q \div u = a
    BY <2>1, <2>2, WholeIs
  <2> QED BY <2>1, <2>3
<1> QED BY <1>4, <1>5, <1>8

\* Among the tensor- and the data-parallel ranks.
LEMMA DensePlaces ==
  ASSUME topology \in Topologies
  PROVE  /\ \A q \in Ranks : /\ TpRank(q) \in 0..(topology.tp - 1)
                             /\ Replica(q) \in 0..(topology.replicas - 1)
                             /\ q = Replica(q) * topology.tp + TpRank(q)
         /\ \A a \in 0..(topology.replicas - 1), k \in 0..(topology.tp - 1) :
              \E q \in Ranks : Replica(q) = a /\ TpRank(q) = k
<1>1. PICK t, n, w \in Nat \ {0} :
        t = topology.tp /\ n = topology.replicas /\ w = WorldSize /\ w = t * n
  BY RanksAre DEF WorldSize
<1>2. ASSUME NEW q \in Ranks
      PROVE  q % t \in 0..(t - 1) /\ q \div t \in 0..(n - 1) /\ q = (q \div t) * t + (q % t)
  <2>1. q \in 0..(w - 1)
    BY <1>1 DEF Ranks
  <2>2. PICK d \in Nat, k \in 0..(t - 1) : d = q \div t /\ k = q % t /\ q = d * t + k
    <3>1. q \in Nat /\ t \in Nat \ {0}
      BY <2>1
    <3>2. q \div t \in Nat /\ q % t \in 0..(t - 1) /\ q = (q \div t) * t + (q % t)
      BY ONLY <3>1, Whole
    <3> QED BY ONLY <3>2
  <2>3. d < n
    <3> SUFFICES ASSUME d - n >= 0 PROVE FALSE
      BY <1>1
    <3>1. t * (d - n) >= 0 /\ t * (d - n) = d * t - t * n
      BY <1>1
    <3> QED BY <1>1, <2>1, <2>2, <3>1
  <2> QED BY <2>2, <2>3
<1>3. ASSUME NEW a \in 0..(n - 1), NEW k \in 0..(t - 1)
      PROVE  \E q \in Ranks : q \div t = a /\ q % t = k
  <2>1. PICK q \in Nat : q = a * t + k
    OBVIOUS
  <2>2. q < t * n
    <3>1. t * (n - 1 - a) >= 0 /\ t * (n - 1 - a) = t * n - t - a * t
      OBVIOUS
    <3> QED BY <2>1, <3>1
  <2>3. q \in Ranks
    BY <1>1, <2>1, <2>2 DEF Ranks
  <2> QED BY <2>1, <2>3, WholeIs
<1> QED BY <1>1, <1>2, <1>3 DEF TpRank, Replica

ExpertReplicas == WorldSize \div (topology.etp * topology.ep)

\* The same ranks among the expert-tensor-, expert-, and expert-data-parallel
\* ones.
LEMMA ExpertPlaces ==
  ASSUME topology \in Topologies
  PROVE  /\ \A q \in Ranks :
              /\ EtpRank(q) \in 0..(topology.etp - 1) /\ EpRank(q) \in 0..(topology.ep - 1)
              /\ ExpertReplica(q) \in 0..(ExpertReplicas - 1)
              /\ q = ExpertReplica(q) * (topology.etp * topology.ep)
                       + EpRank(q) * topology.etp + EtpRank(q)
         /\ \A a \in 0..(ExpertReplicas - 1), b \in 0..(topology.ep - 1), k \in 0..(topology.etp - 1) :
              \E q \in Ranks : ExpertReplica(q) = a /\ EpRank(q) = b /\ EtpRank(q) = k
<1>1. PICK x, n, w, g \in Nat \ {0} :
        /\ x = topology.etp /\ n = topology.ep /\ w = WorldSize
        /\ g = x * n /\ g <= w
  <2>1. /\ topology.etp \in Nat \ {0} /\ topology.ep \in Nat \ {0} /\ WorldSize \in Nat \ {0}
        /\ topology.etp * topology.ep \in Nat \ {0} /\ topology.etp * topology.ep <= WorldSize
    BY RanksAre
  <2> QED BY <2>1
<1>2. PICK m \in Nat : m = ExpertReplicas /\ w = m * g
  <2>1. w % g = 0
    BY <1>1, ShardsAssumption DEF Fits, WorldSize
  <2>2. w \div g \in Nat /\ w = (w \div g) * g + (w % g)
    BY Whole
  <2>3. ExpertReplicas = w \div g
    BY <1>1 DEF ExpertReplicas
  <2> QED BY <2>1, <2>2, <2>3
<1>3. ASSUME NEW q \in Ranks
      PROVE  \E a \in 0..(m - 1), b \in 0..(n - 1), k \in 0..(x - 1) : q = a * g + b * x + k
  <2>1. q \in 0..(w - 1)
    BY <1>1 DEF Ranks
  <2>2. PICK a \in Nat, e \in 0..(g - 1) : q = a * g + e
    <3>1. q \in Nat /\ g \in Nat \ {0}
      BY <2>1
    <3>2. q \div g \in Nat /\ q % g \in 0..(g - 1) /\ q = (q \div g) * g + (q % g)
      BY ONLY <3>1, Whole
    <3> QED BY ONLY <3>2
  <2>3. a < m
    <3> SUFFICES ASSUME a - m >= 0 PROVE FALSE
      OBVIOUS
    <3>1. g * (a - m) >= 0 /\ g * (a - m) = a * g - m * g
      OBVIOUS
    <3> QED BY <1>2, <2>1, <2>2, <3>1
  <2>4. PICK b \in Nat, k \in 0..(x - 1) : e = b * x + k
    <3>1. e \in Nat /\ x \in Nat \ {0}
      OBVIOUS
    <3>2. e \div x \in Nat /\ e % x \in 0..(x - 1) /\ e = (e \div x) * x + (e % x)
      BY ONLY <3>1, Whole
    <3> QED BY ONLY <3>2
  <2>5. b < n
    <3> SUFFICES ASSUME b - n >= 0 PROVE FALSE
      OBVIOUS
    <3>1. x * (b - n) >= 0 /\ x * (b - n) = b * x - x * n
      OBVIOUS
    <3> QED BY <1>1, <2>2, <2>4, <3>1
  <2>6. q = a * g + b * x + k
    <3>1. PICK u, v \in Nat : u = a * g /\ v = b * x
      OBVIOUS
    <3>2. q = u + v + k
      BY <2>2, <2>4, <3>1
    <3> QED BY ONLY <3>1, <3>2
  <2>7. a \in 0..(m - 1) /\ b \in 0..(n - 1) /\ k \in 0..(x - 1)
    BY <2>3, <2>5
  <2> QED BY ONLY <2>6, <2>7
<1>4. ASSUME NEW a \in 0..(m - 1), NEW b \in 0..(n - 1), NEW k \in 0..(x - 1)
      PROVE  \E q \in Ranks : q = a * g + b * x + k /\ q \in Nat
  <2>1. PICK u, v \in Nat : u = a * g /\ v = b * x
    OBVIOUS
  <2>2. v + k < g
    <3>1. x * (n - 1 - b) >= 0 /\ x * (n - 1 - b) = x * n - x - b * x
      OBVIOUS
    <3> QED BY <1>1, <2>1, <3>1
  <2>3. u + g <= w
    <3>1. g * (m - 1 - a) >= 0 /\ g * (m - 1 - a) = m * g - g - a * g
      OBVIOUS
    <3> QED BY <1>2, <2>1, <3>1
  <2>4. u + v + k \in 0..(w - 1)
    BY <2>2, <2>3
  <2> QED BY <1>1, <2>1, <2>4 DEF Ranks
<1>5. Ranks \subseteq Nat
  BY <1>1 DEF Ranks
<1>6. ASSUME NEW q \in Ranks
      PROVE  /\ EtpRank(q) \in 0..(x - 1) /\ EpRank(q) \in 0..(n - 1)
             /\ ExpertReplica(q) \in 0..(m - 1)
             /\ q = ExpertReplica(q) * g + EpRank(q) * x + EtpRank(q)
  <2>1. PICK a \in 0..(m - 1), b \in 0..(n - 1), k \in 0..(x - 1) : q = a * g + b * x + k
    BY <1>3
  <2>2. q = a * (x * n) + b * x + k
    BY <1>1, <2>1
  <2>3. /\ x \in Nat \ {0} /\ n \in Nat \ {0} /\ a \in Nat /\ q \in Nat
        /\ b \in 0..(n - 1) /\ k \in 0..(x - 1)
    BY <1>5
  <2>4. q % x = k /\ (q \div x) % n = b /\ q \div (x * n) = a
    BY ONLY <2>2, <2>3, Nested
  <2>5. EtpRank(q) = k /\ EpRank(q) = b /\ ExpertReplica(q) = a
    BY <1>1, <2>4 DEF EtpRank, EpRank, ExpertReplica
  <2> QED BY <2>1, <2>5
<1>7. ASSUME NEW a \in 0..(m - 1), NEW b \in 0..(n - 1), NEW k \in 0..(x - 1)
      PROVE  \E q \in Ranks : ExpertReplica(q) = a /\ EpRank(q) = b /\ EtpRank(q) = k
  <2>1. PICK q \in Ranks : q = a * g + b * x + k /\ q \in Nat
    BY <1>4
  <2>2. q = a * (x * n) + b * x + k
    BY <1>1, <2>1
  <2>3. /\ x \in Nat \ {0} /\ n \in Nat \ {0} /\ a \in Nat /\ q \in Nat
        /\ b \in 0..(n - 1) /\ k \in 0..(x - 1)
    BY <1>5
  <2>4. q % x = k /\ (q \div x) % n = b /\ q \div (x * n) = a
    BY ONLY <2>2, <2>3, Nested
  <2>5. EtpRank(q) = k /\ EpRank(q) = b /\ ExpertReplica(q) = a
    BY <1>1, <2>4 DEF EtpRank, EpRank, ExpertReplica
  <2> QED BY <2>5
<1>8. g = topology.etp * topology.ep
  BY <1>1
<1> QED BY <1>1, <1>2, <1>6, <1>7, <1>8

\* Of the ranks that have an expert, those that export it are the first
\* expert-tensor-parallel group with it.
LEMMA ExpertRank ==
  ASSUME topology \in Topologies, NEW e \in 0..(topology.ep - 1),
         NEW k \in 0..(topology.etp - 1), NEW r \in Nat, r = e * topology.etp + k
  PROVE  r \in Ranks /\ EpRank(r) = e /\ EtpRank(r) = k /\ ExpertReplica(r) = 0
<1>1. PICK x, n, w \in Nat \ {0} : x = topology.etp /\ n = topology.ep /\ w = WorldSize
                                   /\ x * n <= w /\ x * n \in Nat \ {0}
  BY RanksAre
<1>2. r \div x = e /\ r % x = k
  BY <1>1, WholeIs
<1>3. r < x * n
  <2>0. e \in Nat /\ n - 1 - e \in Nat
    BY <1>1
  <2>1. x * (n - 1 - e) >= 0 /\ x * (n - 1 - e) = x * n - x - e * x
    BY <2>0
  <2>2. r = e * x + k /\ k < x
    <3>1. k < x
      BY <1>1
    <3>2. e * topology.etp = e * x
      BY <1>1
    <3> QED BY <3>1, <3>2
  <2>3. PICK a, b \in Int : a = x * n /\ b = e * x
    OBVIOUS
  <2>4. a - x - b >= 0
    BY <2>1, <2>3
  <2> QED BY <2>2, <2>3, <2>4
<1>4. r \div (x * n) = 0
  BY <1>1, <1>3, Below
<1>5. e % n = e
  BY <1>1, WholeIs, e = 0 * n + e, 0 \in Nat
<1> QED BY <1>1, <1>2, <1>3, <1>4, <1>5 DEF Ranks, EpRank, EtpRank, ExpertReplica

LEMMA ExpertRankIs ==
  ASSUME topology \in Topologies, NEW r \in Ranks, ExpertReplica(r) = 0
  PROVE  /\ EpRank(r) \in 0..(topology.ep - 1) /\ EtpRank(r) \in 0..(topology.etp - 1)
         /\ r = EpRank(r) * topology.etp + EtpRank(r)
<1>1. PICK x, n \in Nat \ {0} : x = topology.etp /\ n = topology.ep /\ x * n \in Nat \ {0}
  BY RanksAre
<1>2. r \in Nat
  BY RanksAre DEF Ranks
<1>3. r < x * n
  BY <1>1, <1>2, Below DEF ExpertReplica
<1>4. PICK d \in Nat, k \in 0..(x - 1) : d = r \div x /\ k = r % x /\ r = d * x + k
  <2>1. r \div x \in Nat /\ r % x \in 0..(x - 1) /\ r = (r \div x) * x + (r % x)
    BY <1>2, Whole
  <2> QED BY ONLY <2>1
<1>5. d < n
  <2> SUFFICES ASSUME d >= n PROVE FALSE
    BY <1>1
  <2>1. x * (d - n) >= 0 /\ x * (d - n) = d * x - x * n
    BY <1>1
  <2> QED BY <1>3, <1>4, <2>1
<1>6. d % n = d
  BY <1>1, <1>5, WholeIs, d = 0 * n + d, 0 \in Nat
<1> QED BY <1>1, <1>4, <1>5, <1>6 DEF EpRank, EtpRank

-----------------------------------------------------------------------------
(* Who exports a parameter.                                                  *)

Shards(p) == IF Sharded(p) THEN DomainSize(p) ELSE 1
ShardOf(p, r) == IF Sharded(p) THEN DomainRank(p, r) ELSE 0

LEMMA DenseExporters ==
  ASSUME topology \in Topologies, NEW p, p.expert = Dense, NEW r \in Ranks, p \in Exported(r)
  PROVE  /\ ShardOf(p, r) \in 0..(Shards(p) - 1)
         /\ \A q \in Ranks : p \in Exported(q) /\ ShardOf(p, q) = ShardOf(p, r) => q = r
         /\ \A k \in 0..(Shards(p) - 1) : \E q \in Ranks : p \in Exported(q) /\ ShardOf(p, q) = k
<1>1. PICK t, w \in Nat \ {0} : t = topology.tp /\ w = WorldSize /\ t <= w
  BY RanksAre
<1>2. Ranks \subseteq Nat /\ Ranks = 0..(w - 1)
  BY <1>1 DEF Ranks
<1>3. \A q \in Ranks : p \in Exported(q) <=>
        p \in Params /\ q \div t = 0 /\ (Sharded(p) \/ q % t = 0)
  BY <1>1 DEF Exported, Exports, Held, DomainRank, TpRank, Replica
<1>4. \A q \in Ranks : q \div t = 0 => q < t /\ q % t = q
  <2> SUFFICES ASSUME NEW q \in Ranks, q \div t = 0 PROVE q < t /\ q % t = q
    OBVIOUS
  <2>1. q < t /\ q \in 0..(t - 1) /\ q = 0 * t + q
    BY <1>2, Below
  <2> QED BY <1>2, <2>1, WholeIs, 0 \in Nat
<1>5. \A k \in 0..(t - 1) : k \in Ranks /\ k \div t = 0 /\ k % t = k
  <2> SUFFICES ASSUME NEW k \in 0..(t - 1) PROVE k \in Ranks /\ k \div t = 0 /\ k % t = k
    OBVIOUS
  <2> QED BY <1>1, <1>2, WholeIs, k = 0 * t + k, 0 \in Nat, k \in Nat
<1>6. CASE Sharded(p)
  <2>1. Shards(p) = t /\ \A q : ShardOf(p, q) = q % t
    BY <1>1, <1>6 DEF Shards, ShardOf, DomainSize, DomainRank, TpRank
  <2>2. \A q \in Ranks : p \in Exported(q) => q < t /\ ShardOf(p, q) = q
    BY <1>3, <1>4, <2>1
  <2>3. \A k \in 0..(t - 1) : k \in Ranks /\ p \in Exported(k) /\ ShardOf(p, k) = k
    BY <1>3, <1>5, <1>6, <2>1
  <2> QED BY <1>2, <2>1, <2>2, <2>3
<1>7. CASE ~Sharded(p)
  <2>1. Shards(p) = 1 /\ \A q : ShardOf(p, q) = 0
    BY <1>7 DEF Shards, ShardOf
  <2>2. \A q \in Ranks : p \in Exported(q) => q = 0
    BY <1>3, <1>4, <1>7
  <2> QED BY <2>1, <2>2
<1> QED BY <1>6, <1>7

LEMMA ExpertExporters ==
  ASSUME topology \in Topologies, NEW p, p.expert # Dense, NEW r \in Ranks, p \in Exported(r)
  PROVE  /\ ShardOf(p, r) \in 0..(Shards(p) - 1)
         /\ \A q \in Ranks : p \in Exported(q) /\ ShardOf(p, q) = ShardOf(p, r) => q = r
         /\ \A k \in 0..(Shards(p) - 1) : \E q \in Ranks : p \in Exported(q) /\ ShardOf(p, q) = k
<1>1. PICK x, n \in Nat \ {0} : x = topology.etp /\ n = topology.ep
  BY RanksAre
<1>2. \A q \in Ranks : p \in Exported(q) <=>
        /\ p \in Params /\ p.expert \in LocalExperts(q)
        /\ ExpertReplica(q) = 0 /\ (Sharded(p) \/ EtpRank(q) = 0)
  BY DEF Exported, Exports, Held, DomainRank
<1>3. PICK e : e = p.expert
  OBVIOUS
<1>4. e \in Nat
  <2>1. p \in Params
    BY <1>2
  <2>2. e \in 0..(Experts - 1)
    BY <1>3, <2>1 DEF Params
  <2> QED BY <2>2, ShardsAssumption
<1>5. PICK b : b = e \div (Experts \div topology.ep)
  OBVIOUS
<1>6. ASSUME NEW q \in Ranks, p \in Exported(q)
      PROVE  EtpRank(q) \in 0..(x - 1) /\ b \in 0..(n - 1) /\ q = b * x + EtpRank(q) /\ EpRank(q) = b
  <2>1. e \in LocalExperts(q) /\ ExpertReplica(q) = 0
    BY <1>2, <1>3, <1>6
  <2>2. EpRank(q) = b
    BY <1>4, <1>5, <2>1, ExpertsTell
  <2> QED BY <1>1, <2>1, <2>2, ExpertRankIs
<1>7. CASE Sharded(p)
  <2>1. Shards(p) = x /\ \A q : ShardOf(p, q) = EtpRank(q)
    BY <1>1, <1>7 DEF Shards, ShardOf, DomainSize, DomainRank
  <2>2. \A q \in Ranks : p \in Exported(q) /\ ShardOf(p, q) = ShardOf(p, r) => q = r
    BY <1>6, <2>1
  <2>3. ASSUME NEW k \in 0..(x - 1)
        PROVE  \E q \in Ranks : p \in Exported(q) /\ ShardOf(p, q) = k
    <3>1. PICK q \in Nat : q = b * x + k
      BY <1>6
    <3>2. q \in Ranks /\ EpRank(q) = b /\ EtpRank(q) = k /\ ExpertReplica(q) = 0
      BY <1>1, <1>6, <3>1, ExpertRank
    <3>3. LocalExperts(q) = LocalExperts(r)
      BY <1>6, <3>2 DEF LocalExperts
    <3> QED BY <1>2, <1>7, <2>1, <3>2, <3>3
  <2> QED BY <1>6, <2>1, <2>2, <2>3
<1>8. CASE ~Sharded(p)
  <2>1. Shards(p) = 1 /\ \A q : ShardOf(p, q) = 0
    BY <1>8 DEF Shards, ShardOf
  <2>2. \A q \in Ranks : p \in Exported(q) => q = b * x
    <3> SUFFICES ASSUME NEW q \in Ranks, p \in Exported(q) PROVE q = b * x
      OBVIOUS
    <3>1. EtpRank(q) = 0
      BY <1>2, <1>8
    <3> QED BY <1>6, <3>1
  <2> QED BY <2>1, <2>2
<1> QED BY <1>7, <1>8

\* One rank exports each shard of a parameter, and every shard is exported.
LEMMA Exporters ==
  ASSUME topology \in Topologies, NEW p, NEW r \in Ranks, p \in Exported(r)
  PROVE  /\ ShardOf(p, r) \in 0..(Shards(p) - 1)
         /\ \A q \in Ranks : p \in Exported(q) /\ ShardOf(p, q) = ShardOf(p, r) => q = r
         /\ \A k \in 0..(Shards(p) - 1) : \E q \in Ranks : p \in Exported(q) /\ ShardOf(p, q) = k
BY DenseExporters, ExpertExporters

-----------------------------------------------------------------------------
(* The files.                                                                *)

FileNames == {f \in Nat \X Nat : f[1] \in 1..f[2]}
Files == DOMAIN shards \cup DOMAIN manifests

ShardSaved(r) == FileOf(r) \in DOMAIN shards /\ DOMAIN shards[FileOf(r)] = Exported(r)
ManifestSaved(r) ==
  /\ FileOf(r) \in DOMAIN manifests
  /\ manifests[FileOf(r)] = [p \in Exported(r) |-> ManifestOf(p, r)]

\* A rank that says so has saved its files under its name, over what was there;
\* in a staging directory there are no others.
ShardsInv ==
  /\ mode \in {"shared", "dedicated"}
  /\ phase # "down" => topology \in Topologies
  /\ Files \subseteq FileNames
  /\ mode = "dedicated" /\ phase \in {"loaded", "backward", "reduced", "finalized", "save"} =>
       \A f \in Files : f[2] = WorldSize
  /\ phase = "save" =>
       /\ saving \in [Ranks -> {"shard", "manifest", "done"}]
       /\ \A r \in Ranks : /\ saving[r] # "shard" => ShardSaved(r)
                           /\ saving[r] = "done" => ManifestSaved(r)
  /\ OnlyLeftoversInTheWay

LEMMA ManifestIs ==
  ASSUME NEW p, NEW r
  PROVE  ManifestOf(p, r) = [sharded |-> Sharded(p), world |-> Shards(p), rank |-> ShardOf(p, r)]
BY DEF ManifestOf, Shards, ShardOf

\* The files of every rank and no others can be merged.
LEMMA CanMerge ==
  ASSUME ShardsInv, AllSaved, \A f \in Files : f[2] = WorldSize
  PROVE  Mergeable
<1>1. topology \in Topologies /\ WorldSize \in Nat \ {0}
  BY RanksAre DEF ShardsInv, AllSaved
<1>2. \A r \in Ranks : ShardSaved(r) /\ ManifestSaved(r)
  BY DEF ShardsInv, AllSaved
<1>3. ASSUME NEW f \in Files PROVE \E r \in Ranks : f = FileOf(r)
  <2>1. f \in Nat \X Nat /\ f[1] \in 1..f[2] /\ f[2] = WorldSize
    BY DEF ShardsInv, FileNames
  <2>2. f[1] - 1 \in Ranks /\ (f[1] - 1) + 1 = f[1]
    BY <1>1, <2>1 DEF Ranks
  <2>3. f = <<f[1], f[2]>>
    BY <2>1
  <2> QED BY <2>1, <2>2, <2>3 DEF FileOf
<1>4. ASSUME NEW r \in Ranks
      PROVE  FileOf(r) \in DOMAIN shards /\ FileOf(r) \in DOMAIN manifests
  BY <1>2 DEF ShardSaved, ManifestSaved
<1>5. DOMAIN shards = DOMAIN manifests
  BY <1>3, <1>4 DEF Files
<1>6. ASSUME NEW f \in DOMAIN shards
      PROVE  \E r \in Ranks : /\ f = FileOf(r) /\ DOMAIN shards[f] = Exported(r)
                              /\ manifests[f] = [p \in Exported(r) |-> ManifestOf(p, r)]
  BY <1>2, <1>3 DEF Files, ShardSaved, ManifestSaved
<1>7. \A f \in DOMAIN shards : DOMAIN shards[f] = DOMAIN manifests[f]
  BY <1>6
<1>8. shards # <<>>
  <2>1. 0 \in Ranks
    BY <1>1 DEF Ranks
  <2> QED BY <1>4, <2>1
<1>9. ASSUME NEW p \in UNION {DOMAIN shards[f] : f \in DOMAIN shards}
      PROVE  /\ \A f, g \in EntriesOf(p) :
                  /\ manifests[f][p].sharded = manifests[g][p].sharded
                  /\ manifests[f][p].world = manifests[g][p].world
                  /\ f # g => manifests[f][p].rank # manifests[g][p].rank
             /\ \A f \in EntriesOf(p) : RanksOf(p) = 0..(manifests[f][p].world - 1)
  <2>1. ASSUME NEW f \in EntriesOf(p)
        PROVE  \E r \in Ranks :
                 /\ f = FileOf(r) /\ p \in Exported(r)
                 /\ manifests[f][p].sharded = Sharded(p) /\ manifests[f][p].world = Shards(p)
                 /\ manifests[f][p].rank = ShardOf(p, r)
    <3>1. f \in DOMAIN shards /\ p \in DOMAIN shards[f]
      BY DEF EntriesOf
    <3>2. PICK r \in Ranks : /\ f = FileOf(r) /\ DOMAIN shards[f] = Exported(r)
                             /\ manifests[f] = [q \in Exported(r) |-> ManifestOf(q, r)]
      BY <1>6, <3>1
    <3>3. manifests[f][p] = [sharded |-> Sharded(p), world |-> Shards(p), rank |-> ShardOf(p, r)]
      BY <3>1, <3>2, ManifestIs
    <3> QED BY <3>1, <3>2, <3>3
  <2>2. ASSUME NEW r \in Ranks, p \in Exported(r)
        PROVE  FileOf(r) \in EntriesOf(p) /\ manifests[FileOf(r)][p].rank = ShardOf(p, r)
    <3>1. /\ FileOf(r) \in DOMAIN shards /\ DOMAIN shards[FileOf(r)] = Exported(r)
          /\ manifests[FileOf(r)] = [q \in Exported(r) |-> ManifestOf(q, r)]
      BY <1>2 DEF ShardSaved, ManifestSaved
    <3>2. manifests[FileOf(r)][p] = [sharded |-> Sharded(p), world |-> Shards(p), rank |-> ShardOf(p, r)]
      BY <2>2, <3>1, ManifestIs
    <3> QED BY <2>2, <3>1, <3>2 DEF EntriesOf
  <2>3. ASSUME NEW f \in EntriesOf(p), NEW g \in EntriesOf(p)
        PROVE  /\ manifests[f][p].sharded = manifests[g][p].sharded
               /\ manifests[f][p].world = manifests[g][p].world
               /\ f # g => manifests[f][p].rank # manifests[g][p].rank
    <3>1. PICK r \in Ranks :
            /\ f = FileOf(r) /\ p \in Exported(r)
            /\ manifests[f][p].sharded = Sharded(p) /\ manifests[f][p].world = Shards(p)
            /\ manifests[f][p].rank = ShardOf(p, r)
      BY <2>1
    <3>2. PICK q \in Ranks :
            /\ g = FileOf(q) /\ p \in Exported(q)
            /\ manifests[g][p].sharded = Sharded(p) /\ manifests[g][p].world = Shards(p)
            /\ manifests[g][p].rank = ShardOf(p, q)
      BY <2>1
    <3>3. ShardOf(p, q) = ShardOf(p, r) => q = r
      BY <1>1, <3>1, <3>2, Exporters
    <3> QED BY <3>1, <3>2, <3>3
  <2>4. ASSUME NEW f \in EntriesOf(p)
        PROVE  RanksOf(p) = 0..(manifests[f][p].world - 1)
    <3>1. PICK r \in Ranks : p \in Exported(r) /\ manifests[f][p].world = Shards(p)
      BY <2>1
    <3>2. ASSUME NEW k \in RanksOf(p) PROVE k \in 0..(Shards(p) - 1)
      <4>1. PICK g \in EntriesOf(p) : k = manifests[g][p].rank
        BY DEF RanksOf
      <4>2. PICK q \in Ranks : p \in Exported(q) /\ manifests[g][p].rank = ShardOf(p, q)
        BY <2>1
      <4> QED BY <1>1, <4>1, <4>2, Exporters
    <3>3. ASSUME NEW k \in 0..(Shards(p) - 1) PROVE k \in RanksOf(p)
      <4>1. PICK q \in Ranks : p \in Exported(q) /\ ShardOf(p, q) = k
        BY <1>1, <3>1, Exporters
      <4> QED BY <2>2, <4>1 DEF RanksOf
    <3> QED BY <3>1, <3>2, <3>3
  <2> QED BY <2>3, <2>4
<1> QED BY <1>5, <1>7, <1>8, <1>9 DEF Mergeable

\* The names of the files and who exports what follow from the topology.
LEMMA NamesStay ==
  ASSUME UNCHANGED topology
  PROVE  /\ WorldSize' = WorldSize /\ Ranks' = Ranks
         /\ \A s : FileOf(s)' = FileOf(s) /\ Exported(s)' = Exported(s)
         /\ \A p, s : ManifestOf(p, s)' = ManifestOf(p, s)
<1>1. WorldSize' = WorldSize /\ Ranks' = Ranks
  BY DEF WorldSize, Ranks
<1>2. \A p, s : /\ DomainSize(p)' = DomainSize(p) /\ DomainRank(p, s)' = DomainRank(p, s)
                /\ Held(s)' = Held(s) /\ Exports(p, s)' = Exports(p, s)
  BY DEF DomainSize, DomainRank, TpRank, EtpRank, Held, LocalExperts, EpRank, Exports,
     Replica, ExpertReplica
<1> QED BY <1>1, <1>2 DEF FileOf, Exported, ManifestOf

\* A step that saves nothing.
LEMMA FilesStay ==
  ASSUME ShardsInv, UNCHANGED <<mode, shards, manifests>>,
         \/ phase' = "down"
         \/ UNCHANGED topology /\ phase # "down" /\ phase' \notin {"loaded", "save", "raised"}
            /\ (phase' \in {"backward", "reduced", "finalized"} =>
                  phase \in {"loaded", "backward", "reduced", "finalized"})
         \/ phase = "down" /\ phase' = "ready" /\ topology' \in Topologies
         \/ UNCHANGED <<topology, phase, saving>>
  PROVE  ShardsInv'
<1>1. Files' = Files
  BY DEF Files
<1>2. CASE UNCHANGED topology
  <2>1. /\ WorldSize' = WorldSize /\ Ranks' = Ranks
        /\ \A s : ShardSaved(s)' <=> ShardSaved(s)
        /\ \A s : ManifestSaved(s)' <=> ManifestSaved(s)
    BY <1>2, NamesStay DEF ShardSaved, ManifestSaved
  <2>2. OnlyLeftoversInTheWay'
    BY <1>2, <2>1 DEF ShardsInv, OnlyLeftoversInTheWay
  <2> QED BY <1>1, <1>2, <2>1, <2>2 DEF ShardsInv
<1>3. CASE phase' \in {"down", "ready"} /\ (phase' = "ready" => topology' \in Topologies)
  BY <1>1, <1>3 DEF ShardsInv, OnlyLeftoversInTheWay
<1> QED BY <1>2, <1>3

\* A rank saves a file over what was there under its name.
LEMMA RankSaves ==
  ASSUME ShardsInv, NEW r \in Ranks, SaveShard(r) \/ SaveManifest(r)
  PROVE  ShardsInv'
<1>1. /\ phase = "save" /\ phase' = "save" /\ UNCHANGED <<mode, topology>>
      /\ topology \in Topologies
  BY DEF SaveShard, SaveManifest, ShardsInv
<1>2. /\ WorldSize' = WorldSize /\ Ranks' = Ranks
      /\ \A q : FileOf(q)' = FileOf(q) /\ Exported(q)' = Exported(q)
      /\ \A p, q : ManifestOf(p, q)' = ManifestOf(p, q)
  BY <1>1, NamesStay
<1>3. PICK w \in Nat \ {0} : w = WorldSize
  BY <1>1, RanksAre
<1>4. FileOf(r) \in FileNames /\ FileOf(r)[2] = WorldSize
  <2>1. r + 1 \in 1..w
    BY <1>3 DEF Ranks
  <2> QED BY <1>3, <2>1 DEF FileOf, FileNames
<1>5. ASSUME NEW q \in Ranks, q # r PROVE FileOf(q) # FileOf(r)
  <2>1. q \in Nat /\ r \in Nat
    BY <1>3 DEF Ranks
  <2> QED BY <1>5, <2>1 DEF FileOf
<1>6. saving \in [Ranks -> {"shard", "manifest", "done"}]
      /\ \A q \in Ranks : /\ saving[q] # "shard" => ShardSaved(q)
                          /\ saving[q] = "done" => ManifestSaved(q)
  BY <1>1 DEF ShardsInv
<1>7. Files' = Files \cup {FileOf(r)}
  BY DEF SaveShard, SaveManifest, Files, SetFile
<1>8. CASE SaveShard(r)
  <2>1. /\ shards' = SetFile(shards, r, [p \in Exported(r) |-> weights[r][p]])
        /\ saving' = [saving EXCEPT ![r] = "manifest"] /\ UNCHANGED manifests
        /\ saving[r] = "shard"
    BY <1>8 DEF SaveShard
  <2>2. ShardSaved(r)'
    <3>1. FileOf(r) \in DOMAIN shards' /\ shards'[FileOf(r)] = [p \in Exported(r) |-> weights[r][p]]
      BY <2>1 DEF SetFile
    <3> QED BY <1>2, <3>1 DEF ShardSaved
  <2>3. \A q \in Ranks : q # r /\ ShardSaved(q) => ShardSaved(q)'
    <3> SUFFICES ASSUME NEW q \in Ranks, q # r, ShardSaved(q) PROVE ShardSaved(q)'
      OBVIOUS
    <3>1. FileOf(q) \in DOMAIN shards' /\ shards'[FileOf(q)] = shards[FileOf(q)]
      BY <1>5, <2>1 DEF SetFile, ShardSaved
    <3> QED BY <1>2, <3>1 DEF ShardSaved
  <2>4. \A q : ManifestSaved(q) => ManifestSaved(q)'
    BY <1>2, <2>1 DEF ManifestSaved
  <2>5. \A q \in Ranks : /\ saving'[q] # "shard" => ShardSaved(q)'
                         /\ saving'[q] = "done" => ManifestSaved(q)'
    BY <1>6, <2>1, <2>2, <2>3, <2>4
  <2>6. saving' \in [Ranks -> {"shard", "manifest", "done"}]
    BY <1>6, <2>1
  <2> QED BY <1>1, <1>2, <1>4, <1>7, <2>5, <2>6 DEF ShardsInv, OnlyLeftoversInTheWay
<1>9. CASE SaveManifest(r)
  <2>1. /\ manifests' = SetFile(manifests, r, [p \in Exported(r) |-> ManifestOf(p, r)])
        /\ saving' = [saving EXCEPT ![r] = "done"] /\ UNCHANGED shards
        /\ saving[r] = "manifest"
    BY <1>9 DEF SaveManifest
  <2>2. ManifestSaved(r)'
    <3>1. /\ FileOf(r) \in DOMAIN manifests'
          /\ manifests'[FileOf(r)] = [p \in Exported(r) |-> ManifestOf(p, r)]
      BY <2>1 DEF SetFile
    <3> QED BY <1>2, <3>1 DEF ManifestSaved
  <2>3. \A q \in Ranks : q # r /\ ManifestSaved(q) => ManifestSaved(q)'
    <3> SUFFICES ASSUME NEW q \in Ranks, q # r, ManifestSaved(q) PROVE ManifestSaved(q)'
      OBVIOUS
    <3>1. FileOf(q) \in DOMAIN manifests' /\ manifests'[FileOf(q)] = manifests[FileOf(q)]
      BY <1>5, <2>1 DEF SetFile, ManifestSaved
    <3> QED BY <1>2, <3>1 DEF ManifestSaved
  <2>4. \A q : ShardSaved(q) => ShardSaved(q)'
    BY <1>2, <2>1 DEF ShardSaved
  <2>5. \A q \in Ranks : /\ saving'[q] # "shard" => ShardSaved(q)'
                         /\ saving'[q] = "done" => ManifestSaved(q)'
    BY <1>6, <2>1, <2>2, <2>3, <2>4
  <2>6. saving' \in [Ranks -> {"shard", "manifest", "done"}]
    BY <1>6, <2>1
  <2> QED BY <1>1, <1>2, <1>4, <1>7, <2>5, <2>6 DEF ShardsInv, OnlyLeftoversInTheWay
<1> QED BY <1>8, <1>9

LEMMA ShardsKept == ShardsInv /\ [ShardsNext]_shardsVars => ShardsInv'
<1> SUFFICES ASSUME ShardsInv, [ShardsNext]_shardsVars PROVE ShardsInv'
  OBVIOUS
<1>1. CASE StartWorker
  BY <1>1, FilesStay DEF StartWorker, fileVars
<1>2. CASE LoadAdapter
  <2>1. /\ phase = "ready" /\ phase' = "loaded" /\ UNCHANGED <<mode, topology>>
        /\ mode = "shared" => UNCHANGED <<shards, manifests>>
        /\ mode # "shared" => shards' = <<>> /\ manifests' = <<>>
    BY <1>2 DEF LoadAdapter
  <2>2. Files' \subseteq Files /\ (mode = "dedicated" => Files' = {})
    BY <2>1 DEF Files
  <2> QED BY <2>1, <2>2 DEF ShardsInv, OnlyLeftoversInTheWay
<1>3. CASE Backward \/ ReduceReplicas \/ ReduceDomains
  BY <1>3, FilesStay DEF Backward, ReduceReplicas, ReduceDomains, fileVars
<1>4. CASE OptimizerStep
  <2>1. /\ phase = "finalized" /\ phase' = "save" /\ UNCHANGED <<mode, topology, shards, manifests>>
        /\ saving' = [r \in Ranks |-> "shard"]
    BY <1>4 DEF OptimizerStep, fileVars
  <2>2. Files' = Files /\ WorldSize' = WorldSize /\ Ranks' = Ranks
    BY <2>1, NamesStay DEF Files
  <2> QED BY <2>1, <2>2 DEF ShardsInv, OnlyLeftoversInTheWay
<1>5. CASE \E r \in Ranks : SaveShard(r) \/ SaveManifest(r)
  BY <1>5, RankSaves
<1>6. CASE MergeAdapter
  BY <1>6, FilesStay DEF MergeAdapter, AllSaved
<1>7. CASE MergeRaises
  <2>1. /\ phase = "save" /\ phase' = "raised" /\ UNCHANGED <<mode, topology, shards, manifests>>
        /\ AllSaved /\ ~Mergeable
    BY <1>7 DEF MergeRaises, AllSaved, fileVars
  <2>2. PICK f \in Files : f[2] # WorldSize
    BY <2>1, CanMerge
  <2>3. mode = "shared"
    BY <2>1, <2>2 DEF ShardsInv
  <2>4. Files' = Files /\ WorldSize' = WorldSize
    BY <2>1, NamesStay DEF Files
  <2>5. OnlyLeftoversInTheWay'
    BY <2>1, <2>2, <2>3, <2>4 DEF OnlyLeftoversInTheWay, Files
  <2> QED BY <2>1, <2>4, <2>5 DEF ShardsInv
<1>8. CASE Unlink
  <2>1. /\ phase = "unlink" /\ phase' \in {"unlink", "ready"} /\ UNCHANGED <<mode, topology>>
        /\ Files' \subseteq Files
    BY <1>8 DEF Unlink, Files, Without
  <2> QED BY <2>1 DEF ShardsInv, OnlyLeftoversInTheWay
<1>9. CASE Down
  BY <1>9, FilesStay DEF Down, fileVars
<1>10. CASE UNCHANGED shardsVars
  BY <1>10, FilesStay DEF shardsVars, fileVars
<1> QED BY <1>1, <1>2, <1>3, <1>4, <1>5, <1>6, <1>7, <1>8, <1>9, <1>10 DEF ShardsNext

LEMMA ShardsStart == ShardsInit => ShardsInv
<1> SUFFICES ASSUME ShardsInit PROVE ShardsInv
  OBVIOUS
<1>1. phase = "down" /\ mode \in {"shared", "dedicated"} /\ Files = {}
  BY ShardsAssumption DEF ShardsInit, Files
<1> QED BY <1>1 DEF ShardsInv, OnlyLeftoversInTheWay

\* OnlyLeftoversInTheWay, for every topology, number of experts and of jobs: each
\* shard of a parameter is exported by one rank (_should_export_parameter), and a
\* worker's files overwrite those of one with as many ranks, so what the merge finds
\* is complete unless a worker with another number left files in the checkpoint.
THEOREM SavedIsMergeable == ShardsSpec => []OnlyLeftoversInTheWay
<1>1. ShardsInv => OnlyLeftoversInTheWay
  BY DEF ShardsInv
<1> QED BY <1>1, ShardsStart, ShardsKept, PTL DEF ShardsSpec

-----------------------------------------------------------------------------
(* Sums.                                                                     *)

Less == OpToRel(<, Nat)

LEMMA NatOrdered == IsWellFoundedOn(Less, Nat)
BY NatLessThanWellFounded DEF Less

\* A set of numbers has a least one.
LEMMA LeastOf ==
  ASSUME NEW T \in SUBSET Nat, T # {}
  PROVE  \E n \in T : \A m \in T : n <= m
<1>1. PICK n \in T : \A m \in T : ~ (<<m, n>> \in Less)
  BY NatOrdered, WFMin
<1>2. ASSUME NEW m \in T, m < n PROVE FALSE
  BY <1>1, <1>2 DEF Less, OpToRel
<1> QED BY <1>2

First(s) == CHOOSE q \in s : TRUE

\* A step of the sum of v over a set.
SumStep(h, s, v) == IF s = {} THEN 0 ELSE v[First(s)] + h[s \ {First(s)}]

\* The function the sum is defined by exists.
LEMMA SumRecurs ==
  ASSUME NEW v, NEW G, IsFiniteSet(G)
  PROVE  \E h : h = [s \in SUBSET G |-> SumStep(h, s, v)]
<1> DEFINE Upto(h, n) == \A s \in SUBSET G : Cardinality(s) <= n => h[s] = SumStep(h, s, v)
           Missing == {n \in Nat : ~ \E h : Upto(h, n)}
<1>1. \A s \in SUBSET G : IsFiniteSet(s) /\ Cardinality(s) \in Nat
  BY FS_Subset, FS_CardinalityType
<1>2. ASSUME NEW s \in SUBSET G, s # {}
      PROVE  /\ First(s) \in s /\ s \ {First(s)} \in SUBSET G
             /\ Cardinality(s \ {First(s)}) = Cardinality(s) - 1
  <2>1. First(s) \in s
    BY <1>2 DEF First
  <2> QED BY <1>1, <2>1, FS_RemoveElement
<1>3. Missing = {}
  <2> SUFFICES ASSUME Missing # {} PROVE FALSE
    OBVIOUS
  <2>1. PICK n \in Missing : \A m \in Missing : n <= m
    <3>1. Missing \in SUBSET Nat
      OBVIOUS
    <3> HIDE DEF Missing
    <3> QED BY <3>1, LeastOf
  <2>2. n # 0
    <3>1. \A s \in SUBSET G : Cardinality(s) <= 0 => s = {}
      BY <1>1, FS_EmptySet
    <3>2. Upto([s \in SUBSET G |-> 0], 0)
      BY <3>1 DEF SumStep
    <3> HIDE DEF Upto
    <3> QED BY <3>2
  <2>3. n \in Nat /\ n - 1 \in Nat /\ n - 1 \notin Missing
    <3> HIDE DEF Upto
    <3> QED BY <2>1, <2>2
  <2>4. PICK h : Upto(h, n - 1)
    <3> HIDE DEF Upto
    <3> QED BY <2>3
  <2> DEFINE longer == [s \in SUBSET G |-> IF Cardinality(s) <= n - 1 THEN h[s] ELSE SumStep(h, s, v)]
  <2>5. ASSUME NEW s \in SUBSET G, Cardinality(s) <= n
        PROVE  longer[s] = SumStep(longer, s, v)
    <3>1. longer[s] = SumStep(h, s, v)
      BY <2>4
    <3>2. s # {} => longer[s \ {First(s)}] = h[s \ {First(s)}]
      BY <1>1, <1>2, <2>3, <2>5
    <3> HIDE DEF longer
    <3> QED BY <3>1, <3>2 DEF SumStep
  <2>6. Upto(longer, n)
    <3> HIDE DEF longer
    <3> QED BY <2>5
  <2> HIDE DEF Upto, longer
  <2> QED BY <2>1, <2>6
<1>4. PICK h : Upto(h, Cardinality(G))
  <2>1. Cardinality(G) \in Nat
    BY <1>1
  <2> HIDE DEF Upto
  <2> QED BY <1>3, <2>1
<1>5. \A s \in SUBSET G : Cardinality(s) <= Cardinality(G)
  BY FS_Subset
<1> DEFINE k == [s \in SUBSET G |-> h[s]]
<1>6. ASSUME NEW s \in SUBSET G PROVE k[s] = SumStep(k, s, v)
  <2>1. k[s] = SumStep(h, s, v)
    BY <1>4, <1>5
  <2>2. s # {} => k[s \ {First(s)}] = h[s \ {First(s)}]
    BY <1>2
  <2> HIDE DEF k
  <2> QED BY <2>1, <2>2 DEF SumStep
<1>7. k = [s \in SUBSET G |-> SumStep(k, s, v)]
  <2>1. k = [s \in SUBSET G |-> k[s]]
    OBVIOUS
  <2> HIDE DEF k
  <2>2. [s \in SUBSET G |-> k[s]] = [s \in SUBSET G |-> SumStep(k, s, v)]
    BY <1>6
  <2> QED BY <2>1, <2>2
<1> HIDE DEF k
<1> QED BY <1>7

IsSum(h, v, G) == \A s \in SUBSET G : h[s] = SumStep(h, s, v)
GrowsBy(size, v, G) ==
  size[{}] = 0 /\ \A s \in SUBSET G : \A q \in s : size[s] = v[q] + size[s \ {q}]

\* It is whatever grows by v[q] with q.
LEMMA SumIs ==
  ASSUME NEW v, NEW G, IsFiniteSet(G),
         NEW h, IsSum(h, v, G), NEW size, GrowsBy(size, v, G)
  PROVE  h[G] = size[G]
<1> DEFINE Wrong == {n \in Nat : \E s \in SUBSET G : Cardinality(s) = n /\ h[s] # size[s]}
<1>1. \A s \in SUBSET G : IsFiniteSet(s) /\ Cardinality(s) \in Nat
  BY FS_Subset, FS_CardinalityType
<1>2. Wrong = {}
  <2> SUFFICES ASSUME Wrong # {} PROVE FALSE
    OBVIOUS
  <2>1. PICK n \in Wrong : \A m \in Wrong : n <= m
    <3>1. Wrong \in SUBSET Nat
      OBVIOUS
    <3> HIDE DEF Wrong
    <3> QED BY <3>1, LeastOf
  <2>2. PICK s \in SUBSET G : Cardinality(s) = n /\ h[s] # size[s]
    BY <2>1
  <2>3. s # {}
    BY <2>2 DEF SumStep, IsSum, GrowsBy
  <2>4. PICK q : q = First(s)
    OBVIOUS
  <2>5. q \in s /\ h[s] = v[q] + h[s \ {q}]
    BY <2>3, <2>4 DEF SumStep, First, IsSum
  <2>6. s \ {q} \in SUBSET G /\ Cardinality(s \ {q}) = n - 1 /\ n - 1 \in Nat
    <3>1. IsFiniteSet(s)
      BY <1>1
    <3>2. Cardinality(s \ {q}) = Cardinality(s) - 1
      BY <2>5, <3>1, FS_RemoveElement
    <3>3. s \ {q} \in SUBSET G
      OBVIOUS
    <3> QED BY <1>1, <2>2, <3>2, <3>3
  <2>7. h[s \ {q}] = size[s \ {q}]
    <3>1. n - 1 \notin Wrong
      <4>1. n \in Nat
        BY <2>1
      <4> HIDE DEF Wrong
      <4> QED BY <2>1, <2>6, <4>1
    <3> QED BY <2>6, <3>1
  <2> QED BY <2>2, <2>5, <2>7 DEF GrowsBy
<1>3. G \in SUBSET G /\ Cardinality(G) \in Nat
  BY <1>1
<1> QED BY <1>2, <1>3

\* The sum of parts that are there once or not at all counts them.
LEMMA SumCounts ==
  ASSUME NEW p, NEW c \in Parts(p), NEW G, IsFiniteSet(G),
         \A q \in G : grads[q][p][c] \in {0, 1}
  PROVE  Summed(p, G)[c] = Cardinality({q \in G : grads[q][p][c] = 1})
<1> DEFINE v == [q \in G |-> grads[q][p][c]]
           h == CHOOSE k : k = [s \in SUBSET G |->
                  IF s = {} THEN 0 ELSE grads[First(s)][p][c] + k[s \ {First(s)}]]
           Ones(s) == {q \in s : grads[q][p][c] = 1}
           size == [s \in SUBSET G |-> Cardinality(Ones(s))]
<1>1. Summed(p, G)[c] = h[G]
  BY DEF Summed, MapThenSumSet, MapThenFoldSet, First
<1>2. h = [s \in SUBSET G |-> SumStep(h, s, v)]
  <2>1. PICK k : k = [s \in SUBSET G |-> SumStep(k, s, v)]
    BY SumRecurs
  <2>2. \A g : [s \in SUBSET G |-> SumStep(g, s, v)]
               = [s \in SUBSET G |->
                    IF s = {} THEN 0 ELSE grads[First(s)][p][c] + g[s \ {First(s)}]]
    BY DEF SumStep, First
  <2>3. h = [s \in SUBSET G |->
               IF s = {} THEN 0 ELSE grads[First(s)][p][c] + h[s \ {First(s)}]]
    <3>1. k = [s \in SUBSET G |->
                 IF s = {} THEN 0 ELSE grads[First(s)][p][c] + k[s \ {First(s)}]]
      <4> HIDE DEF v
      <4> QED BY <2>1, <2>2
    <3> QED BY <3>1
  <2> HIDE DEF h
  <2> QED BY <2>2, <2>3
<1> HIDE DEF h
<1>3. size[{}] = 0
  BY FS_EmptySet
<1>4. ASSUME NEW s \in SUBSET G, NEW q \in s
      PROVE  size[s] = v[q] + size[s \ {q}]
  <2>1. IsFiniteSet(Ones(s \ {q})) /\ Cardinality(Ones(s \ {q})) \in Nat
    BY FS_Subset, FS_CardinalityType
  <2>2. q \in G /\ v[q] = grads[q][p][c] /\ s \ {q} \in SUBSET G
    OBVIOUS
  <2>3. size[s] = Cardinality(Ones(s)) /\ size[s \ {q}] = Cardinality(Ones(s \ {q}))
    BY <2>2
  <2>4. CASE grads[q][p][c] = 0
    <3>1. Ones(s) = Ones(s \ {q})
      BY <2>4
    <3> HIDE DEF Ones, size, v
    <3> QED BY <2>1, <2>2, <2>3, <2>4, <3>1
  <2>5. CASE grads[q][p][c] = 1
    <3>1. Ones(s) = Ones(s \ {q}) \cup {q} /\ q \notin Ones(s \ {q})
      BY <2>5
    <3> HIDE DEF Ones, size, v
    <3>2. Cardinality(Ones(s)) = Cardinality(Ones(s \ {q})) + 1
      BY <2>1, <3>1, FS_AddElement
    <3> QED BY <2>1, <2>2, <2>3, <2>5, <3>2
  <2> QED BY <2>2, <2>4, <2>5
<1> HIDE DEF size, v
<1>5. PICK k, u, z : k = h /\ u = v /\ z = size
  OBVIOUS
<1>6. IsSum(k, u, G) /\ GrowsBy(z, u, G)
  BY <1>2, <1>3, <1>4, <1>5 DEF IsSum, GrowsBy
<1>7. k[G] = z[G]
  BY <1>6, SumIs
<1> QED BY <1>1, <1>5, <1>7 DEF size

-----------------------------------------------------------------------------
(* Who has which part of a gradient.                                         *)

ExpertGroup(p) == p.expert \div (Experts \div topology.ep)

\* An expert is on the ranks of one place among the expert-parallel ones.
LEMMA ExpertsHeld ==
  ASSUME topology \in Topologies, NEW p \in Params, p.expert # Dense
  PROVE  /\ ExpertGroup(p) \in 0..(topology.ep - 1)
         /\ \A q \in Ranks : p \in Held(q) <=> EpRank(q) = ExpertGroup(p)
<1>1. p.expert \in 0..(Experts - 1)
  BY DEF Params
<1>2. PICK x \in Nat : x = p.expert /\ x < Experts
  BY <1>1, ShardsAssumption
<1>3. Experts \div topology.ep \in Nat \ {0} /\ Experts % topology.ep = 0 /\ Experts \in Nat
  BY ShardsAssumption, RanksAre DEF Fits
<1>4. PICK n, e \in Nat \ {0} : n = Experts \div topology.ep /\ e = topology.ep
  BY <1>3, RanksAre
<1>5. Experts = n * e
  <2>1. Experts = (Experts \div e) * e + (Experts % e)
    BY <1>3, Whole
  <2> QED BY <1>3, <1>4, <2>1
<1>6. PICK b \in Nat, k \in 0..(n - 1) : b = x \div n /\ k = x % n /\ x = b * n + k
  <2>1. x \div n \in Nat /\ x % n \in 0..(n - 1) /\ x = (x \div n) * n + (x % n)
    BY Whole
  <2> QED BY ONLY <2>1
<1>7. b < e
  <2> SUFFICES ASSUME b - e >= 0 PROVE FALSE
    OBVIOUS
  <2>1. n * (b - e) >= 0 /\ n * (b - e) = b * n - n * e
    OBVIOUS
  <2> QED BY <1>2, <1>5, <1>6, <2>1
<1>8. ExpertGroup(p) = b
  BY <1>2, <1>4, <1>6 DEF ExpertGroup
<1>9. ASSUME NEW q \in Ranks PROVE p \in Held(q) <=> EpRank(q) = b
  <2>1. p \in Held(q) <=> x \in LocalExperts(q)
    BY <1>2 DEF Held
  <2>2. x \in LocalExperts(q) => EpRank(q) = b
    BY <1>4, <1>6, ExpertsTell
  <2>3. ASSUME EpRank(q) = b PROVE x \in LocalExperts(q)
    <3>1. LocalExperts(q) = (b * n)..(b * n + n - 1)
      BY <1>4, <2>3 DEF LocalExperts
    <3>2. PICK u \in Nat : u = b * n
      OBVIOUS
    <3>3. x \in u..(u + n - 1)
      BY <1>6, <3>2
    <3> QED BY <3>1, <3>2, <3>3
  <2> QED BY <2>1, <2>2, <2>3
<1> QED BY <1>4, <1>7, <1>8, <1>9

TokensOf(p, r) == Part(p, r).tokens
TokenParts(p) == IF p.expert = Dense THEN 0..(topology.replicas - 1) ELSE 0..(ExpertReplicas - 1)

\* Of the ranks with a parameter one has each shard for each part of the tokens.
LEMMA OneRank ==
  ASSUME topology \in Topologies, NEW p \in Params
  PROVE  /\ \A q \in Ranks : /\ DomainRank(p, q) \in 0..(DomainSize(p) - 1)
                             /\ TokensOf(p, q) \in TokenParts(p)
         /\ \A a \in TokenParts(p), d \in 0..(DomainSize(p) - 1) :
              \E q \in Ranks : p \in Held(q) /\ DomainRank(p, q) = d /\ TokensOf(p, q) = a
         /\ \A q, s \in Ranks :
              /\ p \in Held(q) /\ p \in Held(s)
              /\ DomainRank(p, q) = DomainRank(p, s) /\ TokensOf(p, q) = TokensOf(p, s)
              => q = s
<1>1. CASE p.expert = Dense
  <2>1. /\ DomainSize(p) = topology.tp /\ TokenParts(p) = 0..(topology.replicas - 1)
        /\ \A q : /\ p \in Held(q)
                  /\ DomainRank(p, q) = TpRank(q) /\ TokensOf(p, q) = Replica(q)
    BY <1>1 DEF DomainSize, TokenParts, Held, DomainRank, TokensOf, Part
  <2>2. \A q, s \in Ranks : TpRank(q) = TpRank(s) /\ Replica(q) = Replica(s) => q = s
    BY DensePlaces
  <2> QED BY <2>1, <2>2, DensePlaces
<1>2. CASE p.expert # Dense
  <2>1. /\ DomainSize(p) = topology.etp /\ TokenParts(p) = 0..(ExpertReplicas - 1)
        /\ \A q : DomainRank(p, q) = EtpRank(q) /\ TokensOf(p, q) = ExpertReplica(q)
    BY <1>2 DEF DomainSize, TokenParts, DomainRank, TokensOf, Part
  <2>2. \A q, s \in Ranks : EtpRank(q) = EtpRank(s) /\ EpRank(q) = EpRank(s)
                              /\ ExpertReplica(q) = ExpertReplica(s) => q = s
    BY ExpertPlaces
  <2>3. /\ ExpertGroup(p) \in 0..(topology.ep - 1)
        /\ \A q \in Ranks : p \in Held(q) <=> EpRank(q) = ExpertGroup(p)
    BY <1>2, ExpertsHeld
  <2>4. \A a \in TokenParts(p), d \in 0..(DomainSize(p) - 1) :
          \E q \in Ranks : p \in Held(q) /\ DomainRank(p, q) = d /\ TokensOf(p, q) = a
    BY <2>1, <2>3, ExpertPlaces
  <2> QED BY <2>1, <2>2, <2>3, <2>4, ExpertPlaces
<1> QED BY <1>1, <1>2

LEMMA PartsAre ==
  ASSUME NEW p, NEW c \in Parts(p), NEW r
  PROVE  /\ c.tokens \in TokenParts(p)
         /\ Sharded(p) => c.shard = 0
         /\ ~Sharded(p) => c.shard \in 0..(DomainSize(p) - 1)
         /\ c = Part(p, r) <=> /\ c.tokens = TokensOf(p, r)
                               /\ Sharded(p) \/ c.shard = DomainRank(p, r)
<1>1. /\ c.tokens \in TokenParts(p)
      /\ c.shard \in (IF Sharded(p) THEN {0} ELSE 0..(DomainSize(p) - 1))
      /\ c = [tokens |-> c.tokens, shard |-> c.shard]
  BY DEF Parts, TokenParts, ExpertReplicas
<1>2. Part(p, r) = [tokens |-> TokensOf(p, r), shard |-> IF Sharded(p) THEN 0 ELSE DomainRank(p, r)]
  BY DEF Part, TokensOf
<1> QED BY <1>1, <1>2

\* The sum over a group in which one rank, or none, has the part.
LEMMA SumOfOne ==
  ASSUME NEW p, NEW c \in Parts(p), NEW G \in SUBSET Ranks, WorldSize \in Nat,
         \A q \in G : grads[q][p][c] \in {0, 1},
         \A q, s \in G : grads[q][p][c] = 1 /\ grads[s][p][c] = 1 => q = s
  PROVE  Summed(p, G)[c] = IF \E q \in G : grads[q][p][c] = 1 THEN 1 ELSE 0
<1>1. IsFiniteSet(G)
  <2>1. IsFiniteSet(Ranks)
    BY FS_Interval DEF Ranks
  <2> QED BY <2>1, FS_Subset
<1> DEFINE Ones == {q \in G : grads[q][p][c] = 1}
<1>2. Summed(p, G)[c] = Cardinality(Ones)
  BY <1>1, SumCounts
<1>3. CASE \E q \in G : grads[q][p][c] = 1
  <2>1. PICK q \in G : grads[q][p][c] = 1
    BY <1>3
  <2>2. Ones = {q}
    BY <2>1
  <2> HIDE DEF Ones
  <2> QED BY <1>2, <1>3, <2>2, FS_Singleton
<1>4. CASE ~ \E q \in G : grads[q][p][c] = 1
  <2>1. Ones = {}
    BY <1>4
  <2> HIDE DEF Ones
  <2> QED BY <1>2, <1>4, <2>1, FS_EmptySet
<1> QED BY <1>3, <1>4

-----------------------------------------------------------------------------
(* The gradients.                                                            *)

\* Before the reductions a rank has its own part, then those of its shard.
GradientsInv ==
  /\ phase = "backward" =>
       \A r \in Ranks : \A p \in Held(r) : \A c \in Parts(p) :
         grads[r][p][c] = IF c = Part(p, r) THEN 1 ELSE 0
  /\ phase = "reduced" =>
       \A r \in Ranks : \A p \in Held(r) : \A c \in Parts(p) :
         grads[r][p][c] = IF Sharded(p) \/ c.shard = DomainRank(p, r) THEN 1 ELSE 0
  /\ GradientsWhole

LEMMA PartsStay ==
  ASSUME UNCHANGED topology
  PROVE  /\ Ranks' = Ranks
         /\ \A s : Held(s)' = Held(s)
         /\ \A p : Parts(p)' = Parts(p)
         /\ \A p, s : Part(p, s)' = Part(p, s) /\ DomainRank(p, s)' = DomainRank(p, s)
BY DEF Ranks, WorldSize, Held, LocalExperts, EpRank, Parts, DomainSize, Part, Replica,
       ExpertReplica, DomainRank, TpRank, EtpRank

\* Among the ranks with its shard one has each part.
LEMMA ReplicasReduced ==
  ASSUME topology \in Topologies, GradientsInv, phase = "backward",
         NEW r \in Ranks, NEW p \in Held(r), NEW c \in Parts(p)
  PROVE  Summed(p, SameShard(p, r))[c]
           = IF Sharded(p) \/ c.shard = DomainRank(p, r) THEN 1 ELSE 0
<1> DEFINE G == SameShard(p, r)
<1>1. /\ p \in Params /\ WorldSize \in Nat
      /\ \A q : q \in G <=> q \in Ranks /\ p \in Held(q) /\ DomainRank(p, q) = DomainRank(p, r)
  BY RanksAre DEF Held, SameShard
<1> HIDE DEF G
<1>2. \A q \in G : grads[q][p][c] = IF c = Part(p, q) THEN 1 ELSE 0
  BY <1>1 DEF GradientsInv
<1>3. \A q \in G : grads[q][p][c] = 1 <=>
        c.tokens = TokensOf(p, q) /\ (Sharded(p) \/ c.shard = DomainRank(p, r))
  BY <1>1, <1>2, PartsAre
<1>4. \A q, s \in G : grads[q][p][c] = 1 /\ grads[s][p][c] = 1 => q = s
  BY <1>1, <1>3, OneRank
<1>5. (\E q \in G : grads[q][p][c] = 1) <=> Sharded(p) \/ c.shard = DomainRank(p, r)
  <2>1. c.tokens \in TokenParts(p) /\ DomainRank(p, r) \in 0..(DomainSize(p) - 1)
    BY <1>1, PartsAre, OneRank
  <2>2. PICK q \in Ranks : /\ p \in Held(q) /\ DomainRank(p, q) = DomainRank(p, r)
                           /\ TokensOf(p, q) = c.tokens
    BY <1>1, <2>1, OneRank
  <2> QED BY <1>1, <1>3, <2>2
<1>6. G \in SUBSET Ranks /\ \A q \in G : grads[q][p][c] \in {0, 1}
  BY <1>1, <1>2
<1>7. Summed(p, G)[c] = IF \E q \in G : grads[q][p][c] = 1 THEN 1 ELSE 0
  BY <1>1, <1>4, <1>6, SumOfOne
<1> QED BY <1>5, <1>7 DEF G

\* Among the ranks with the same tokens one has each shard.
LEMMA DomainsReduced ==
  ASSUME topology \in Topologies, GradientsInv, phase = "reduced",
         NEW r \in Ranks, NEW p \in Held(r), NEW c \in Parts(p), ~Sharded(p)
  PROVE  Summed(p, SameTokens(p, r))[c] = 1
<1> DEFINE G == SameTokens(p, r)
<1>1. /\ p \in Params /\ WorldSize \in Nat
      /\ \A q : q \in G <=> q \in Ranks /\ p \in Held(q) /\ TokensOf(p, q) = TokensOf(p, r)
  BY RanksAre DEF Held, SameTokens, TokensOf
<1> HIDE DEF G
<1>2. \A q \in G : grads[q][p][c] = IF c.shard = DomainRank(p, q) THEN 1 ELSE 0
  BY <1>1 DEF GradientsInv
<1>3. \A q, s \in G : grads[q][p][c] = 1 /\ grads[s][p][c] = 1 => q = s
  BY <1>1, <1>2, OneRank
<1>4. \E q \in G : grads[q][p][c] = 1
  <2>1. c.shard \in 0..(DomainSize(p) - 1) /\ TokensOf(p, r) \in TokenParts(p)
    BY <1>1, PartsAre, OneRank
  <2>2. PICK q \in Ranks : /\ p \in Held(q) /\ DomainRank(p, q) = c.shard
                           /\ TokensOf(p, q) = TokensOf(p, r)
    BY <1>1, <2>1, OneRank
  <2> QED BY <1>1, <1>2, <2>2
<1>5. G \in SUBSET Ranks /\ \A q \in G : grads[q][p][c] \in {0, 1}
  BY <1>1, <1>2
<1>6. Summed(p, G)[c] = IF \E q \in G : grads[q][p][c] = 1 THEN 1 ELSE 0
  BY <1>1, <1>3, <1>5, SumOfOne
<1> QED BY <1>4, <1>6 DEF G

LEMMA GradientsKept == ShardsInv /\ GradientsInv /\ [ShardsNext]_shardsVars => GradientsInv'
<1> SUFFICES ASSUME ShardsInv, GradientsInv, [ShardsNext]_shardsVars PROVE GradientsInv'
  OBVIOUS
<1>1. phase # "down" => topology \in Topologies
  BY DEF ShardsInv
<1>2. CASE Backward
  <2>1. phase' = "backward" /\ UNCHANGED topology
        /\ grads' = [r \in Ranks |-> [p \in Held(r) |->
                       [c \in Parts(p) |-> IF c = Part(p, r) THEN 1 ELSE 0]]]
    BY <1>2 DEF Backward
  <2>2. \A r \in Ranks : \A p \in Held(r) : \A c \in Parts(p) :
          grads'[r][p][c] = IF c = Part(p, r) THEN 1 ELSE 0
    BY <2>1
  <2> QED BY <2>1, <2>2, PartsStay DEF GradientsInv, GradientsWhole
<1>3. CASE ReduceReplicas
  <2>1. phase = "backward" /\ phase' = "reduced" /\ UNCHANGED topology
        /\ grads' = [r \in Ranks |-> [p \in Held(r) |-> Summed(p, SameShard(p, r))]]
    BY <1>3 DEF ReduceReplicas
  <2>2. \A r \in Ranks : \A p \in Held(r) : grads'[r][p] = Summed(p, SameShard(p, r))
    BY <2>1
  <2>3. \A r \in Ranks : \A p \in Held(r) : \A c \in Parts(p) :
          grads'[r][p][c] = IF Sharded(p) \/ c.shard = DomainRank(p, r) THEN 1 ELSE 0
    BY <1>1, <2>1, <2>2, ReplicasReduced
  <2> QED BY <2>1, <2>3, PartsStay DEF GradientsInv, GradientsWhole
<1>4. CASE ReduceDomains
  <2>1. phase = "reduced" /\ phase' = "finalized" /\ UNCHANGED topology
        /\ grads' = [r \in Ranks |-> [p \in Held(r) |->
                       IF DomainSize(p) > 1 /\ GradSyncOp(p) = "sum"
                       THEN Summed(p, SameTokens(p, r)) ELSE grads[r][p]]]
    BY <1>4 DEF ReduceDomains
  <2>2. ASSUME NEW r \in Ranks, NEW p \in Held(r), NEW c \in Parts(p)
        PROVE  grads'[r][p][c] = 1
    <3>1. grads'[r][p] = IF DomainSize(p) > 1 /\ ~Sharded(p)
                         THEN Summed(p, SameTokens(p, r)) ELSE grads[r][p]
      BY <2>1 DEF GradSyncOp
    <3>2. CASE DomainSize(p) > 1 /\ ~Sharded(p)
      BY <1>1, <2>1, <3>1, <3>2, DomainsReduced
    <3>3. CASE ~(DomainSize(p) > 1) \/ Sharded(p)
      <4>1. Sharded(p) \/ c.shard = DomainRank(p, r)
        <5>1. p \in Params /\ topology \in Topologies
          BY <1>1, <2>1 DEF Held
        <5>2. /\ DomainRank(p, r) \in 0..(DomainSize(p) - 1)
              /\ ~Sharded(p) => c.shard \in 0..(DomainSize(p) - 1)
          BY <5>1, OneRank, PartsAre
        <5>3. DomainSize(p) \in Nat \ {0}
          BY <5>1, RanksAre DEF DomainSize
        <5> QED BY <3>3, <5>2, <5>3
      <4> QED BY <2>1, <3>1, <3>3, <4>1 DEF GradientsInv
    <3> QED BY <3>2, <3>3
  <2> QED BY <2>1, <2>2, PartsStay DEF GradientsInv, GradientsWhole
<1>5. CASE UNCHANGED shardsVars
  <2>1. UNCHANGED <<phase, topology, grads>>
    BY <1>5 DEF shardsVars
  <2> QED BY <2>1, PartsStay DEF GradientsInv, GradientsWhole
<1>6. CASE phase' \notin {"backward", "reduced", "finalized"}
  BY <1>6 DEF GradientsInv, GradientsWhole
<1>7. \/ phase' \notin {"backward", "reduced", "finalized"}
      \/ Backward \/ ReduceReplicas \/ ReduceDomains \/ UNCHANGED shardsVars
  <2>1. CASE \E r \in Ranks : SaveShard(r) \/ SaveManifest(r)
    BY <2>1 DEF SaveShard, SaveManifest
  <2>2. CASE Unlink
    BY <2>2 DEF Unlink
  <2> QED BY <2>1, <2>2 DEF ShardsNext, StartWorker, LoadAdapter, OptimizerStep, MergeAdapter,
             MergeRaises, Down, AllSaved
<1> QED BY <1>2, <1>3, <1>4, <1>5, <1>6, <1>7

\* When the optimizer steps every rank has the whole batch's gradient of each of
\* its parameters, every part once, so copies of a shard stay equal
\* (finalize_grads.py and the sync operations of lora.py).
THEOREM GradientsAreWhole == ShardsSpec => []GradientsWhole
<1>1. ShardsInit => GradientsInv
  BY DEF ShardsInit, GradientsInv, GradientsWhole
<1>2. GradientsInv => GradientsWhole
  BY DEF GradientsInv
<1> QED BY <1>1, <1>2, ShardsStart, ShardsKept, GradientsKept, PTL DEF ShardsSpec

-----------------------------------------------------------------------------
(* Pieces of sequences.                                                      *)

\* The elements are told by the piece and the place in it.
LEMMA PlaceIn ==
  ASSUME NEW m \in Nat \ {0}, NEW w \in Nat \ {0}, NEW i \in 1..(m * w)
  PROVE  \E c \in 1..m, j \in 1..w : i = (c - 1) * w + j
<1>1. PICK d \in Nat, k \in 0..(w - 1) : i - 1 = d * w + k
  <2>1. i - 1 \in Nat
    OBVIOUS
  <2>2. PICK u \in Nat : u = i - 1
    BY <2>1
  <2>3. u \div w \in Nat /\ u % w \in 0..(w - 1) /\ u = (u \div w) * w + (u % w)
    BY Whole
  <2> QED BY ONLY <2>2, <2>3
<1>2. d < m
  <2> SUFFICES ASSUME d - m >= 0 PROVE FALSE
    OBVIOUS
  <2>1. (d - m) * w >= 0 /\ (d - m) * w = d * w - m * w
    OBVIOUS
  <2> QED BY <1>1, <2>1
<1>3. d + 1 \in 1..m /\ k + 1 \in 1..w
  BY <1>2
<1>4. i = ((d + 1) - 1) * w + (k + 1)
  <2>1. (d + 1) - 1 = d
    OBVIOUS
  <2> QED BY <1>1, <2>1
<1> QED BY <1>3, <1>4

LEMMA PlaceWithin ==
  ASSUME NEW m \in Nat, NEW w \in Nat, NEW c \in 1..m, NEW j \in 1..w
  PROVE  (c - 1) * w + j \in 1..(m * w) /\ (c - 1) * w \in Nat /\ m * w \in Nat
<1>1. c - 1 \in Nat /\ m - c \in Nat
  OBVIOUS
<1>2. PICK u, v \in Nat : u = (c - 1) * w /\ v = (m - c) * w
  BY <1>1
<1>3. m * w = u + w + v
  <2>1. (c - 1) * w + w + (m - c) * w = m * w
    OBVIOUS
  <2> QED BY <1>2, <2>1
<1> QED BY <1>2, <1>3

FlattenStep(g, s, i) == IF i = 1 THEN s[i] ELSE g[i - 1] \o s[i]

\* The function FlattenSeq is defined by exists.
LEMMA FlattenRecurs ==
  ASSUME NEW s, NEW m \in Nat
  PROVE  \E g : g = [i \in 1..m |-> FlattenStep(g, s, i)]
<1> DEFINE Upto(g, n) == \A i \in 1..m : i <= n => g[i] = FlattenStep(g, s, i)
           Missing == {n \in Nat : ~ \E g : Upto(g, n)}
<1>1. Missing = {}
  <2> SUFFICES ASSUME Missing # {} PROVE FALSE
    OBVIOUS
  <2>1. PICK n \in Missing : \A k \in Missing : n <= k
    <3>1. Missing \in SUBSET Nat
      OBVIOUS
    <3> HIDE DEF Missing
    <3> QED BY <3>1, LeastOf
  <2>2. n \in Nat
    BY <2>1
  <2>3. n # 0
    <3>1. Upto(<<>>, 0)
      OBVIOUS
    <3> HIDE DEF Upto
    <3> QED BY <2>1, <3>1
  <2>4. n - 1 \in Nat /\ n - 1 \notin Missing
    <3> HIDE DEF Upto, Missing
    <3> QED BY <2>1, <2>2, <2>3
  <2>5. PICK g : Upto(g, n - 1)
    <3> HIDE DEF Upto
    <3> QED BY <2>4
  <2> DEFINE longer == [i \in 1..m |-> IF i <= n - 1 THEN g[i] ELSE FlattenStep(g, s, i)]
  <2>6. ASSUME NEW i \in 1..m, i <= n PROVE longer[i] = FlattenStep(longer, s, i)
    <3>1. longer[i] = FlattenStep(g, s, i)
      BY <2>5
    <3>2. i # 1 => longer[i - 1] = g[i - 1]
      BY <2>2, <2>6
    <3> HIDE DEF longer
    <3> QED BY <3>1, <3>2 DEF FlattenStep
  <2>7. Upto(longer, n)
    <3> HIDE DEF longer
    <3> QED BY <2>6
  <2> HIDE DEF Upto, longer
  <2> QED BY <2>1, <2>7
<1>2. PICK g : Upto(g, m)
  <2> HIDE DEF Upto
  <2> QED BY <1>1
<1> DEFINE k == [i \in 1..m |-> g[i]]
<1>3. ASSUME NEW i \in 1..m PROVE k[i] = FlattenStep(k, s, i)
  <2>1. k[i] = FlattenStep(g, s, i)
    BY <1>2
  <2>2. i # 1 => k[i - 1] = g[i - 1]
    OBVIOUS
  <2> HIDE DEF k
  <2> QED BY <2>1, <2>2 DEF FlattenStep
<1>4. k = [i \in 1..m |-> FlattenStep(k, s, i)]
  <2>1. k = [i \in 1..m |-> k[i]]
    OBVIOUS
  <2> HIDE DEF k
  <2>2. [i \in 1..m |-> k[i]] = [i \in 1..m |-> FlattenStep(k, s, i)]
    BY <1>3
  <2> QED BY <2>1, <2>2
<1> HIDE DEF k
<1> QED BY <1>4

\* s is the pieces of size w one after the other.
Joins(s, pieces, w, T) ==
  /\ s \in Seq(T) /\ Len(s) = Len(pieces) * w
  /\ \A c \in 1..Len(pieces) : \A j \in 1..w : s[(c - 1) * w + j] = pieces[c][j]

LEMMA FlattenJoins ==
  ASSUME NEW T, NEW pieces \in Seq(Seq(T)), Len(pieces) \in Nat \ {0}, NEW w \in Nat \ {0},
         \A c \in 1..Len(pieces) : Len(pieces[c]) = w
  PROVE  Joins(FlattenSeq(pieces), pieces, w, T)
<1> DEFINE m == Len(pieces)
           g == CHOOSE h : h = [i \in 1..m |-> IF i = 1 THEN pieces[i] ELSE h[i - 1] \o pieces[i]]
<1>1. FlattenSeq(pieces) = g[m]
  BY DEF FlattenSeq
<1>2. g = [i \in 1..m |-> FlattenStep(g, pieces, i)]
  <2>1. PICK h : h = [i \in 1..m |-> FlattenStep(h, pieces, i)]
    <3>1. m \in Nat
      OBVIOUS
    <3> QED BY <3>1, FlattenRecurs
  <2>2. h = [i \in 1..m |-> IF i = 1 THEN pieces[i] ELSE h[i - 1] \o pieces[i]]
    BY <2>1 DEF FlattenStep
  <2>3. g = [i \in 1..m |-> IF i = 1 THEN pieces[i] ELSE g[i - 1] \o pieces[i]]
    BY <2>2
  <2> HIDE DEF g
  <2> QED BY <2>3 DEF FlattenStep
<1> HIDE DEF g
<1> DEFINE Done(i) == /\ g[i] \in Seq(T) /\ Len(g[i]) = i * w
                      /\ \A c \in 1..i : \A j \in 1..w : g[i][(c - 1) * w + j] = pieces[c][j]
           Wrong == {i \in 1..m : ~Done(i)}
<1>3. \A c \in 1..m : pieces[c] \in Seq(T) /\ Len(pieces[c]) = w
  OBVIOUS
<1>4. m \in Nat \ {0}
  OBVIOUS
<1> HIDE DEF m
<1>5. Done(1)
  <2>1. g[1] = pieces[1]
    BY <1>2, <1>4 DEF FlattenStep
  <2>2. 1 * w = w /\ \A j \in 1..w : (1 - 1) * w + j = j
    OBVIOUS
  <2> QED BY <1>3, <1>4, <2>1, <2>2
<1>6. ASSUME NEW i \in 2..m, Done(i - 1) PROVE Done(i)
  <2>1. g[i] = g[i - 1] \o pieces[i]
    <3>1. i \in 1..m /\ i # 1
      BY <1>4
    <3>2. g[i] = FlattenStep(g, pieces, i)
      BY <1>2, <3>1
    <3> QED BY <3>1, <3>2 DEF FlattenStep
  <2>2. PICK u \in Nat : u = (i - 1) * w /\ i * w = u + w
    <3>1. i - 1 \in Nat /\ (i - 1) * w + w = i * w
      BY <1>4
    <3>2. (i - 1) * w \in Nat
      BY <3>1
    <3> QED BY <3>1, <3>2
  <2>3. /\ g[i - 1] \in Seq(T) /\ Len(g[i - 1]) = u
        /\ \A c \in 1..(i - 1) : \A j \in 1..w : g[i - 1][(c - 1) * w + j] = pieces[c][j]
    BY <1>6, <2>2
  <2>4. pieces[i] \in Seq(T) /\ Len(pieces[i]) = w
    BY <1>3, <1>4
  <2>5. /\ g[i] \in Seq(T) /\ Len(g[i]) = u + w
        /\ \A q \in 1..(u + w) : g[i][q] = IF q <= u THEN g[i - 1][q] ELSE pieces[i][q - u]
    <3>1. PICK a \in Seq(T), b \in Seq(T) : a = g[i - 1] /\ b = pieces[i]
      BY <2>3, <2>4
    <3>2. /\ a \o b \in Seq(T) /\ Len(a \o b) = Len(a) + Len(b)
          /\ \A q \in 1..(Len(a) + Len(b)) :
               (a \o b)[q] = IF q <= Len(a) THEN a[q] ELSE b[q - Len(a)]
      BY ConcatProperties
    <3>3. g[i] = a \o b /\ Len(a) = u /\ Len(b) = w
      BY <2>1, <2>3, <2>4, <3>1
    <3> QED BY ONLY <3>1, <3>2, <3>3
  <2>6. ASSUME NEW c \in 1..i, NEW j \in 1..w
        PROVE  g[i][(c - 1) * w + j] = pieces[c][j]
    <3>1. CASE c = i
      <4>1. (c - 1) * w + j = u + j
        BY <2>2, <3>1
      <4>2. u + j \in 1..(u + w) /\ ~(u + j <= u) /\ (u + j) - u = j
        BY <2>2
      <4> QED BY <2>5, <3>1, <4>1, <4>2
    <3>2. CASE c # i
      <4>1. c \in 1..(i - 1) /\ i - 1 \in Nat
        BY <1>4, <3>2
      <4>2. (c - 1) * w + j \in 1..((i - 1) * w)
        BY <4>1, PlaceWithin
      <4>3. PICK q \in Nat : q = (c - 1) * w + j /\ q \in 1..u
        BY <2>2, <4>2
      <4>4. g[i][q] = g[i - 1][q]
        BY <2>2, <2>5, <4>3
      <4> QED BY <2>3, <4>1, <4>3, <4>4
    <3> QED BY <3>1, <3>2
  <2> QED BY <2>2, <2>5, <2>6
<1>7. Wrong = {}
  <2> SUFFICES ASSUME Wrong # {} PROVE FALSE
    OBVIOUS
  <2>1. PICK i \in Wrong : \A k \in Wrong : i <= k
    <3>1. Wrong \in SUBSET Nat
      OBVIOUS
    <3> HIDE DEF Wrong
    <3> QED BY <3>1, LeastOf
  <2> HIDE DEF Done
  <2>2. i \in 1..m /\ ~Done(i)
    BY <2>1
  <2>3. i \in 2..m
    BY <1>4, <1>5, <2>2
  <2>4. i - 1 \in 1..m /\ i - 1 \notin Wrong
    <3>1. i - 1 \in 1..m /\ i - 1 < i
      BY <1>4, <2>3
    <3> HIDE DEF Wrong
    <3> QED BY <1>4, <2>1, <2>3, <3>1
  <2> QED BY <1>6, <2>2, <2>3, <2>4
<1>8. Done(m)
  <2> HIDE DEF Done
  <2> QED BY <1>4, <1>7
<1> QED BY <1>1, <1>8 DEF Joins, m

\* The part of a sequence of size w behind its first u elements.
IsPart(t, s, u, w, T) ==
  t \in Seq(T) /\ Len(t) = w /\ \A j \in 1..w : t[j] = s[u + j]

LEMMA PartOf ==
  ASSUME NEW T, NEW s \in Seq(T), NEW u \in Nat, NEW w \in Nat \ {0}, u + w <= Len(s)
  PROVE  IsPart(SubSeq(s, u + 1, u + w), s, u, w, T)
<1>1. PICK a, b \in Int : a = u + 1 /\ b = u + w
  OBVIOUS
<1>2. a <= b /\ b - a + 1 = w /\ \A j \in 1..w : a + j - 1 = u + j
  BY <1>1
<1>3. \A i \in a..b : s[i] \in T
  BY <1>1
<1>4. /\ SubSeq(s, a, b) \in Seq(T)
      /\ Len(SubSeq(s, a, b)) = IF a <= b THEN b - a + 1 ELSE 0
      /\ \A i \in 1..(b - a + 1) : SubSeq(s, a, b)[i] = s[a + i - 1]
  BY ONLY <1>3, a \in Int, b \in Int, SubSeqProperties
<1> QED BY <1>1, <1>2, <1>4 DEF IsPart

LEMMA NarrowIs ==
  ASSUME NEW T, NEW s \in Seq(T), NEW n \in Nat \ {0}, NEW w \in Nat \ {0},
         Len(s) = n * w, NEW k \in 0..(n - 1)
  PROVE  IsPart(Narrow(s, n, k), s, k * w, w, T)
<1>1. Len(s) \div n = w
  <2>1. PICK l \in Nat : l = Len(s) /\ l = w * n + 0
    <3>1. n * w = w * n /\ n * w \in Nat
      OBVIOUS
    <3> QED BY <3>1
  <2>2. 0 \in 0..(n - 1)
    OBVIOUS
  <2> QED BY <2>1, <2>2, WholeIs
<1>2. PICK u \in Nat : u = k * w
  OBVIOUS
<1>3. (k + 1) * w = u + w
  <2>1. (k + 1) * w = k * w + w
    OBVIOUS
  <2> QED BY <1>2, <2>1
<1>4. u + w <= Len(s)
  <2>1. (n - 1 - k) * w >= 0 /\ (n - 1 - k) * w = n * w - k * w - w
    OBVIOUS
  <2>2. PICK l \in Int : l = n * w
    OBVIOUS
  <2> QED BY <1>2, <2>1, <2>2
<1>5. Narrow(s, n, k) = SubSeq(s, u + 1, u + w)
  BY <1>1, <1>2, <1>3 DEF Narrow
<1> QED BY <1>2, <1>4, <1>5, PartOf

Equal(sizes, m, w) == DOMAIN sizes = 1..m /\ \A c \in 1..m : sizes[c] = w

\* Before(c) of pieces of equal size.
LEMMA SplitAt ==
  ASSUME NEW m \in Nat, NEW w \in Nat, NEW sizes, Equal(sizes, m, w), NEW c \in 1..m, NEW s
  PROVE  Split(s, sizes)[c] = SubSeq(s, (c - 1) * w + 1, (c - 1) * w + w)
<1> DEFINE G == 1..(c - 1)
           h == CHOOSE k : k = [S \in SUBSET G |->
                  IF S = {} THEN 0 ELSE sizes[First(S)] + k[S \ {First(S)}]]
           size == [S \in SUBSET G |-> Cardinality(S) * w]
<1>1. Split(s, sizes)[c] = SubSeq(s, h[G] + 1, h[G] + sizes[c])
  BY DEF Split, MapThenSumSet, MapThenFoldSet, First, Equal
<1>2. IsFiniteSet(G) /\ Cardinality(G) = c - 1
  BY FS_Interval
<1>3. IsSum(h, sizes, G)
  <2>1. PICK k : k = [S \in SUBSET G |-> SumStep(k, S, sizes)]
    <3> HIDE DEF G
    <3> QED BY <1>2, SumRecurs
  <2>2. k = [S \in SUBSET G |-> IF S = {} THEN 0 ELSE sizes[First(S)] + k[S \ {First(S)}]]
    BY <2>1 DEF SumStep
  <2>3. h = [S \in SUBSET G |-> IF S = {} THEN 0 ELSE sizes[First(S)] + h[S \ {First(S)}]]
    BY <2>2
  <2> HIDE DEF h
  <2> QED BY <2>3 DEF IsSum, SumStep
<1> HIDE DEF h
<1>4. GrowsBy(size, sizes, G)
  <2>1. size[{}] = 0
    BY FS_EmptySet
  <2>2. ASSUME NEW S \in SUBSET G, NEW q \in S PROVE size[S] = sizes[q] + size[S \ {q}]
    <3>1. IsFiniteSet(S)
      BY <1>2, FS_Subset
    <3>2. Cardinality(S \ {q}) = Cardinality(S) - 1 /\ Cardinality(S) \in Nat
      BY <3>1, FS_RemoveElement, FS_CardinalityType
    <3>3. sizes[q] = w
      BY DEF Equal
    <3>4. PICK u \in Nat : u = Cardinality(S)
      BY <3>2
    <3>5. u * w = w + (u - 1) * w
      OBVIOUS
    <3>6. size[S] = u * w /\ size[S \ {q}] = (u - 1) * w
      BY <3>2, <3>4
    <3> QED BY ONLY <3>3, <3>5, <3>6
  <2> HIDE DEF size, G
  <2> QED BY <2>1, <2>2 DEF GrowsBy
<1>5. PICK k, z : k = h /\ z = size
  OBVIOUS
<1>6. k[G] = z[G]
  <2>1. IsSum(k, sizes, G) /\ GrowsBy(z, sizes, G)
    BY <1>3, <1>4, <1>5
  <2> HIDE DEF G, size
  <2> QED BY <1>2, <2>1, SumIs
<1>7. size[G] = (c - 1) * w
  <2>1. G \in SUBSET G
    OBVIOUS
  <2> HIDE DEF G
  <2> QED BY <1>2, <2>1
<1>8. sizes[c] = w
  BY DEF Equal
<1> QED BY ONLY <1>1, <1>5, <1>6, <1>7, <1>8

LEMMA SplitIs ==
  ASSUME NEW T, NEW s \in Seq(T), NEW m \in Nat, NEW w \in Nat \ {0}, Len(s) = m * w,
         NEW sizes, Equal(sizes, m, w)
  PROVE  /\ DOMAIN Split(s, sizes) = 1..m
         /\ \A c \in 1..m : IsPart(Split(s, sizes)[c], s, (c - 1) * w, w, T)
<1>1. DOMAIN Split(s, sizes) = 1..m
  BY DEF Split, Equal
<1>2. ASSUME NEW c \in 1..m PROVE IsPart(Split(s, sizes)[c], s, (c - 1) * w, w, T)
  <2>1. PICK u \in Nat : u = (c - 1) * w
    <3>1. c - 1 \in Nat
      OBVIOUS
    <3> QED BY <3>1
  <2>2. u + w <= Len(s)
    <3>1. w \in 1..w
      OBVIOUS
    <3>2. (c - 1) * w + w \in 1..(m * w) /\ m * w \in Nat
      BY <3>1, PlaceWithin
    <3> QED BY <2>1, <3>2
  <2>3. Split(s, sizes)[c] = SubSeq(s, u + 1, u + w)
    BY <2>1, SplitAt
  <2> QED BY <2>1, <2>2, <2>3, PartOf
<1> QED BY <1>1, <1>2

\* A share of every component.
IsCut(t, s, m, n, k, w, T) ==
  /\ t \in Seq(T) /\ Len(t) = m * w
  /\ \A c \in 1..m : \A j \in 1..w : t[(c - 1) * w + j] = s[(c - 1) * (n * w) + k * w + j]

LEMMA CutIs ==
  ASSUME NEW T, NEW s \in Seq(T), NEW m \in Nat \ {0}, NEW n \in Nat \ {0}, NEW w \in Nat \ {0},
         Len(s) = m * (n * w), NEW sizes, Equal(sizes, m, n * w), NEW k \in 0..(n - 1)
  PROVE  IsCut(ShardByComponents(s, sizes, n, k), s, m, n, k, w, T)
<1>1. PICK W \in Nat \ {0} : W = n * w
  <2>1. w \in 1..w /\ n \in 1..n
    OBVIOUS
  <2>2. (n - 1) * w + w \in 1..(n * w) /\ n * w \in Nat
    BY <2>1, PlaceWithin
  <2> QED BY <2>2
<1>2. PICK parts : parts = Split(s, sizes)
  OBVIOUS
<1>3. DOMAIN parts = 1..m /\ \A c \in 1..m : IsPart(parts[c], s, (c - 1) * W, W, T)
  BY <1>1, <1>2, SplitIs
<1> DEFINE pieces == [c \in 1..m |-> Narrow(parts[c], n, k)]
<1>4. ASSUME NEW c \in 1..m PROVE IsPart(pieces[c], parts[c], k * w, w, T)
  <2>1. parts[c] \in Seq(T) /\ Len(parts[c]) = n * w
    BY <1>1, <1>3 DEF IsPart
  <2> QED BY <2>1, NarrowIs
<1>5. pieces \in Seq(Seq(T)) /\ Len(pieces) = m /\ \A c \in 1..m : Len(pieces[c]) = w
  <2>1. \A c \in 1..m : pieces[c] \in Seq(T) /\ Len(pieces[c]) = w
    BY <1>4 DEF IsPart
  <2> QED BY <2>1
<1>6. ShardByComponents(s, sizes, n, k) = FlattenSeq(pieces)
  BY <1>2 DEF ShardByComponents, Equal
<1>7. Joins(FlattenSeq(pieces), pieces, w, T)
  <2> HIDE DEF pieces
  <2> QED BY <1>5, FlattenJoins
<1>8. ASSUME NEW c \in 1..m, NEW j \in 1..w
      PROVE  pieces[c][j] = s[(c - 1) * W + k * w + j]
  <2>1. pieces[c][j] = parts[c][k * w + j]
    BY <1>4 DEF IsPart
  <2>2. PICK u \in Nat : u = k * w /\ u + j \in 1..W
    <3>1. k + 1 \in 1..n /\ (k + 1) - 1 = k
      OBVIOUS
    <3>2. k * w + j \in 1..(n * w) /\ k * w \in Nat
      BY <3>1, PlaceWithin
    <3> QED BY <1>1, <3>2
  <2>3. parts[c][u + j] = s[(c - 1) * W + (u + j)]
    BY <1>3, <2>2 DEF IsPart
  <2>4. PICK v \in Int : v = (c - 1) * W
    OBVIOUS
  <2>5. v + (u + j) = v + u + j
    OBVIOUS
  <2> QED BY <2>1, <2>2, <2>3, <2>4, <2>5
<1> HIDE DEF pieces
<1>9. PICK t : t = ShardByComponents(s, sizes, n, k)
  OBVIOUS
<1>10. t \in Seq(T) /\ Len(t) = m * w
  BY <1>5, <1>6, <1>7, <1>9 DEF Joins
<1>11. ASSUME NEW c \in 1..m, NEW j \in 1..w
       PROVE  t[(c - 1) * w + j] = s[(c - 1) * (n * w) + k * w + j]
  <2>1. t[(c - 1) * w + j] = pieces[c][j]
    BY <1>5, <1>6, <1>7, <1>9 DEF Joins
  <2>2. (c - 1) * (n * w) = (c - 1) * W
    BY <1>1
  <2> QED BY ONLY <1>8, <2>1, <2>2, c \in 1..m, j \in 1..w
<1> QED BY <1>9, <1>10, <1>11 DEF IsCut

\* The shares of n ranks put together again.
IsMerge(t, parts, m, n, w, T) ==
  /\ t \in Seq(T) /\ Len(t) = m * (n * w)
  /\ \A c \in 1..m, k \in 1..n : \A j \in 1..w :
       t[(c - 1) * (n * w) + (k - 1) * w + j] = parts[k][(c - 1) * w + j]

Shares(parts, m, n, w, T) ==
  parts \in Seq(Seq(T)) /\ Len(parts) = n /\ \A k \in 1..n : Len(parts[k]) = m * w

LEMMA ProductPositive ==
  ASSUME NEW m \in Nat \ {0}, NEW w \in Nat \ {0}
  PROVE  m * w \in Nat \ {0}
<1>1. (m - 1) * w \in Nat /\ m * w = (m - 1) * w + w
  <2>1. m - 1 \in Nat
    OBVIOUS
  <2>2. m * w = (m - 1) * w + w
    OBVIOUS
  <2> QED BY <2>1, <2>2
<1>2. PICK u \in Nat : u = (m - 1) * w
  BY <1>1
<1> QED BY <1>1, <1>2

LEMMA MergeByComponents ==
  ASSUME NEW T, NEW m \in Nat \ {0}, NEW n \in Nat \ {0}, NEW w \in Nat \ {0},
         NEW parts, Shares(parts, m, n, w, T), NEW sizes, Equal(sizes, m, w)
  PROVE  IsMerge(FlattenSeq([c \in DOMAIN sizes |->
                   FlattenSeq([i \in DOMAIN parts |-> Split(parts[i], sizes)[c]])]),
                 parts, m, n, w, T)
<1>1. PICK W \in Nat \ {0} : W = n * w
  BY ProductPositive
<1> DEFINE of(c) == [i \in 1..n |-> Split(parts[i], sizes)[c]]
           all == [c \in 1..m |-> FlattenSeq(of(c))]
<1>2. ASSUME NEW i \in 1..n, NEW c \in 1..m
      PROVE  IsPart(Split(parts[i], sizes)[c], parts[i], (c - 1) * w, w, T)
  <2>1. parts[i] \in Seq(T) /\ Len(parts[i]) = m * w
    BY DEF Shares
  <2> QED BY <2>1, SplitIs
<1>3. ASSUME NEW c \in 1..m PROVE Joins(all[c], of(c), w, T) /\ Len(of(c)) = n
  <2>1. \A i \in 1..n : of(c)[i] \in Seq(T) /\ Len(of(c)[i]) = w
    BY <1>2 DEF IsPart
  <2>2. of(c) \in Seq(Seq(T)) /\ Len(of(c)) = n
    BY <2>1
  <2>3. all[c] = FlattenSeq(of(c))
    OBVIOUS
  <2> HIDE DEF of, all
  <2>4. Joins(FlattenSeq(of(c)), of(c), w, T)
    BY <2>1, <2>2, FlattenJoins
  <2> QED BY <2>2, <2>3, <2>4
<1>4. \A c \in 1..m : all[c] \in Seq(T) /\ Len(all[c]) = W
  <2> HIDE DEF of, all
  <2> QED BY <1>1, <1>3 DEF Joins
<1>5. all \in Seq(Seq(T)) /\ Len(all) = m
  <2>1. all = [c \in 1..m |-> all[c]]
    OBVIOUS
  <2> HIDE DEF all
  <2>2. all \in [1..m -> Seq(T)]
    BY <1>4, <2>1
  <2> QED BY <2>2
<1>6. Joins(FlattenSeq(all), all, W, T)
  <2> HIDE DEF all
  <2> QED BY <1>4, <1>5, FlattenJoins
<1>7. [c \in DOMAIN sizes |-> FlattenSeq([i \in DOMAIN parts |-> Split(parts[i], sizes)[c]])] = all
  BY DEF Equal, Shares
<1>8. PICK t : t = FlattenSeq(all)
  OBVIOUS
<1>9. t \in Seq(T) /\ Len(t) = m * (n * w)
  <2> HIDE DEF all
  <2> QED BY <1>1, <1>5, <1>6, <1>8 DEF Joins
<1>10. ASSUME NEW c \in 1..m, NEW k \in 1..n, NEW j \in 1..w
       PROVE  t[(c - 1) * (n * w) + (k - 1) * w + j] = parts[k][(c - 1) * w + j]
  <2>1. PICK u \in Nat : u = (k - 1) * w /\ u + j \in 1..W
    <3>1. (k - 1) * w + j \in 1..(n * w) /\ (k - 1) * w \in Nat
      BY PlaceWithin
    <3> QED BY <1>1, <3>1
  <2>2. PICK v \in Int : v = (c - 1) * W /\ v = (c - 1) * (n * w)
    BY <1>1
  <2>3. t[v + (u + j)] = all[c][u + j]
    <3> HIDE DEF all
    <3>1. \A i \in 1..W : t[(c - 1) * W + i] = all[c][i]
      BY <1>5, <1>6, <1>8 DEF Joins
    <3> QED BY <2>1, <2>2, <3>1
  <2>4. all[c][u + j] = of(c)[k][j]
    <3> HIDE DEF all, of
    <3>1. all[c][(k - 1) * w + j] = of(c)[k][j]
      BY <1>3 DEF Joins
    <3> QED BY <2>1, <3>1
  <2>5. of(c)[k][j] = parts[k][(c - 1) * w + j]
    BY <1>2 DEF IsPart
  <2>6. (c - 1) * (n * w) + (k - 1) * w + j = v + (u + j)
    BY <2>1, <2>2
  <2> HIDE DEF all, of
  <2> QED BY ONLY <2>3, <2>4, <2>5, <2>6
<1> HIDE DEF all
<1> QED BY <1>7, <1>8, <1>9, <1>10 DEF IsMerge

LEMMA MergeOfOne ==
  ASSUME NEW T, NEW m \in Nat \ {0}, NEW n \in Nat \ {0}, NEW w \in Nat \ {0},
         NEW parts, Shares(parts, m, n, w, T), m = 1 \/ n = 1
  PROVE  IsMerge(FlattenSeq(parts), parts, m, n, w, T)
<1>1. PICK L \in Nat \ {0} : L = m * w
  BY ProductPositive
<1>2. parts \in Seq(Seq(T)) /\ Len(parts) = n /\ \A k \in 1..n : Len(parts[k]) = L
  BY <1>1 DEF Shares
<1>3. PICK t : t = FlattenSeq(parts)
  OBVIOUS
<1>4. /\ t \in Seq(T) /\ Len(t) = n * L
      /\ \A k \in 1..n : \A i \in 1..L : t[(k - 1) * L + i] = parts[k][i]
  <2>1. Joins(FlattenSeq(parts), parts, L, T)
    BY <1>2, FlattenJoins
  <2> QED BY <1>2, <1>3, <2>1 DEF Joins
<1>5. Len(t) = m * (n * w)
  <2>1. n * L = m * (n * w)
    <3>1. n * (m * w) = m * (n * w)
      OBVIOUS
    <3> QED BY <1>1, <3>1
  <2> QED BY <1>4, <2>1
<1>6. ASSUME NEW c \in 1..m, NEW k \in 1..n, NEW j \in 1..w
      PROVE  t[(c - 1) * (n * w) + (k - 1) * w + j] = parts[k][(c - 1) * w + j]
  <2>1. PICK i \in Nat : i = (c - 1) * w + j /\ i \in 1..L
    <3>1. (c - 1) * w + j \in 1..(m * w)
      BY PlaceWithin
    <3> QED BY <1>1, <3>1
  <2>2. t[(k - 1) * L + i] = parts[k][i]
    BY <1>4, <2>1
  <2>3. (k - 1) * L + i = (c - 1) * (n * w) + (k - 1) * w + j
    <3>1. CASE m = 1
      <4>1. c = 1 /\ L = w
        BY <1>1, <3>1
      <4>2. (c - 1) * (n * w) = 0 /\ (c - 1) * w = 0 /\ (k - 1) * L = (k - 1) * w
        BY <4>1
      <4>3. PICK u \in Int : u = (k - 1) * w
        OBVIOUS
      <4> QED BY <2>1, <4>2, <4>3
    <3>2. CASE n = 1
      <4>1. k = 1 /\ n * w = w
        BY <3>2
      <4>2. (k - 1) * L = 0 /\ (k - 1) * w = 0 /\ (c - 1) * (n * w) = (c - 1) * w
        BY <4>1
      <4>3. PICK u \in Int : u = (c - 1) * w
        OBVIOUS
      <4> QED BY <2>1, <4>2, <4>3
    <3> QED BY <3>1, <3>2
  <2> QED BY ONLY <2>1, <2>2, <2>3
<1> QED BY <1>3, <1>4, <1>5, <1>6 DEF IsMerge

\* Each part is a share of the whole.
AreCuts(parts, whole, m, n, w) ==
  \A c \in 1..m, k \in 1..n : \A j \in 1..w :
    parts[k][(c - 1) * w + j] = whole[(c - 1) * (n * w) + (k - 1) * w + j]

\* What the ranks made of their shares of the features 1, 2, ... is what one
\* would have made of all.
LEMMA MergeOfCuts ==
  ASSUME NEW T, NEW m \in Nat \ {0}, NEW n \in Nat \ {0}, NEW w \in Nat \ {0},
         NEW parts, NEW t, IsMerge(t, parts, m, n, w, T),
         NEW whole, AreCuts(parts, whole, m, n, w)
  PROVE  \A i \in 1..(m * (n * w)) : t[i] = whole[i]
<1> SUFFICES ASSUME NEW i \in 1..(m * (n * w)) PROVE t[i] = whole[i]
  OBVIOUS
<1>1. PICK W \in Nat \ {0} : W = n * w
  BY ProductPositive
<1>2. PICK c \in 1..m, h \in 1..W : i = (c - 1) * W + h
  <2>1. i \in 1..(m * W)
    BY <1>1
  <2> QED BY <2>1, PlaceIn
<1>3. PICK k \in 1..n, j \in 1..w : h = (k - 1) * w + j
  <2>1. h \in 1..(n * w)
    BY <1>1
  <2> QED BY <2>1, PlaceIn
<1>4. i = (c - 1) * (n * w) + (k - 1) * w + j
  <2>1. PICK u, v \in Int : u = (c - 1) * W /\ u = (c - 1) * (n * w) /\ v = (k - 1) * w
    BY <1>1
  <2> QED BY <1>2, <1>3, <2>1
<1>5. t[(c - 1) * (n * w) + (k - 1) * w + j] = parts[k][(c - 1) * w + j]
  BY DEF IsMerge
<1>6. parts[k][(c - 1) * w + j] = whole[(c - 1) * (n * w) + (k - 1) * w + j]
  BY DEF AreCuts
<1> QED BY ONLY <1>4, <1>5, <1>6

-----------------------------------------------------------------------------
(* The shares of a parameter.                                                *)

\* The fused gate and up of the experts are not cut: their components are not
\* told apart, see fused_shards.
FusedWhole == "gate_up_proj" \in Layers => \A t \in Topologies : t.etp = 1

Comps(p) == Len(Components(p.layer))
Share(p) == Width \div DomainSize(p)

LEMMA ParamIs ==
  ASSUME topology \in Topologies, NEW p \in Params
  PROVE  /\ p.layer \in LayerKinds /\ Comps(p) \in Nat \ {0}
         /\ Equal(Components(p.layer), Comps(p), Width)
         /\ DomainSize(p) \in Nat \ {0} /\ Share(p) \in Nat \ {0}
         /\ Width = DomainSize(p) * Share(p)
         /\ FusedWhole => \/ Strategy(p.layer) = "componentwise"
                          \/ Comps(p) = 1 \/ DomainSize(p) = 1
<1>1. /\ p.layer \in Layers
      /\ p.layer \in ExpertLayers => p.expert # Dense
  BY ShardsAssumption DEF Params, Dense
<1>2. p.layer \in LayerKinds
  BY <1>1, ShardsAssumption
<1>3. /\ Comps(p) = IF p.layer = "in_proj_qkv" THEN 3 ELSE IF p.layer = "gate_up_proj" THEN 2 ELSE 1
      /\ Equal(Components(p.layer), Comps(p), Width)
  <2>1. CASE p.layer = "in_proj_qkv"
    BY <2>1 DEF Comps, Components, Equal
  <2>2. CASE p.layer = "gate_up_proj"
    BY <2>2 DEF Comps, Components, Equal
  <2>3. CASE p.layer \notin {"in_proj_qkv", "gate_up_proj"}
    <3>1. Components(p.layer) = <<Width>>
      BY <2>3 DEF Components
    <3>2. Comps(p) = 1
      BY <3>1 DEF Comps
    <3> QED BY <2>3, <3>1, <3>2 DEF Equal
  <2> QED BY <2>1, <2>2, <2>3
<1>4. DomainSize(p) \in Nat \ {0} /\ Width % DomainSize(p) = 0
  BY RanksAre, ShardsAssumption DEF DomainSize, Fits
<1>5. PICK n, W \in Nat \ {0} : n = DomainSize(p) /\ W = Width
  BY <1>4, ShardsAssumption
<1>6. PICK w \in Nat : w = W \div n /\ W = w * n
  <2>1. W \div n \in Nat /\ W = (W \div n) * n + (W % n)
    BY Whole
  <2> QED BY <1>4, <1>5, <2>1
<1>7. w # 0 /\ W = n * w
  <2>1. w = 0 => w * n = 0
    OBVIOUS
  <2> QED BY <1>6, <2>1
<1>8. FusedWhole => \/ Strategy(p.layer) = "componentwise"
                    \/ Comps(p) = 1 \/ DomainSize(p) = 1
  BY <1>1, <1>3 DEF FusedWhole, Strategy, DomainSize, ExpertLayers
<1> QED BY <1>2, <1>3, <1>4, <1>5, <1>6, <1>7, <1>8 DEF Share

\* What the jobs J made of the entry for feature f.
Trained(J, f) == {<<j, f>> : j \in J}

Total(p) == IF Sharded(p) THEN Comps(p) * Width ELSE 1
AdapterOf(J) == [p \in Params |-> [i \in 1..Total(p) |-> Trained(J, i)]]

ShareLen(p) == IF Sharded(p) THEN Comps(p) * Share(p) ELSE 1
Piece(J, p, r) == [i \in 1..ShareLen(p) |-> Trained(J, FeaturesOf(p, r)[i])]

\* The features whose outputs a rank's entries are added to.
LEMMA FeaturesAre ==
  ASSUME topology \in Topologies, NEW p \in Params, Sharded(p), NEW r \in Ranks
  PROVE  \A c \in 1..Comps(p), j \in 1..Share(p) :
           FeaturesOf(p, r)[(c - 1) * Share(p) + j]
             = (c - 1) * (DomainSize(p) * Share(p)) + DomainRank(p, r) * Share(p) + j
<1>1. PICK m, n, w, W \in Nat \ {0} :
        /\ m = Comps(p) /\ n = DomainSize(p) /\ w = Share(p) /\ W = Width /\ W = n * w
        /\ Equal(Components(p.layer), m, W)
  BY ParamIs, ShardsAssumption
<1>2. PICK k \in 0..(n - 1) : k = DomainRank(p, r)
  BY <1>1, OneRank
<1>3. PICK s : s = Features(p.layer)
  OBVIOUS
<1>4. s \in Seq(Nat) /\ Len(s) = m * W /\ \A i \in 1..(m * W) : s[i] = i
  <2>1. W * m = m * W /\ m * W \in Nat
    OBVIOUS
  <2>2. s = [f \in 1..(m * W) |-> f]
    BY <1>1, <1>3, <2>1 DEF Features, Comps
  <2>3. PICK l \in Nat : l = m * W
    BY <2>1
  <2> QED BY <2>2, <2>3
<1>5. PICK sizes : sizes = Components(p.layer) /\ Equal(sizes, m, n * w)
  BY <1>1
<1>6. PICK t : t = FeaturesOf(p, r) /\ t = ShardByComponents(s, sizes, n, k)
  BY <1>1, <1>2, <1>3, <1>5 DEF FeaturesOf
<1>7. IsCut(t, s, m, n, k, w, Nat)
  <2>1. Len(s) = m * (n * w)
    BY <1>1, <1>4
  <2> QED BY <1>4, <1>5, <1>6, <2>1, CutIs
<1>8. ASSUME NEW c \in 1..m, NEW j \in 1..w
      PROVE  t[(c - 1) * w + j] = (c - 1) * (n * w) + k * w + j
  <2>1. t[(c - 1) * w + j] = s[(c - 1) * (n * w) + k * w + j]
    BY <1>7 DEF IsCut
  <2>2. PICK h \in 1..W : h = k * w + j
    <3>1. k + 1 \in 1..n /\ (k + 1) - 1 = k
      OBVIOUS
    <3>2. k * w + j \in 1..(n * w)
      BY <3>1, PlaceWithin
    <3> QED BY <1>1, <3>2
  <2>3. (c - 1) * W + h \in 1..(m * W)
    BY PlaceWithin
  <2>4. (c - 1) * (n * w) + k * w + j = (c - 1) * W + h
    <3>1. PICK u, v \in Int : u = (c - 1) * W /\ u = (c - 1) * (n * w) /\ v = k * w
      BY <1>1
    <3> QED BY <2>2, <3>1
  <2> QED BY <1>4, <2>1, <2>3, <2>4
<1> QED BY <1>1, <1>2, <1>6, <1>8

\* A rank loads what its features were trained for.
LEMMA LoadedIs ==
  ASSUME FusedWhole, topology \in Topologies, NEW J, adapter = AdapterOf(J),
         NEW r \in Ranks, NEW p \in Params
  PROVE  Loaded(p, r) = Piece(J, p, r)
<1>1. PICK m, n, w, W \in Nat \ {0} :
        /\ m = Comps(p) /\ n = DomainSize(p) /\ w = Share(p) /\ W = Width /\ W = n * w
        /\ Equal(Components(p.layer), m, W)
        /\ Strategy(p.layer) = "componentwise" \/ m = 1 \/ n = 1
  BY ParamIs, ShardsAssumption
<1>2. adapter[p] = [i \in 1..Total(p) |-> Trained(J, i)]
  BY DEF AdapterOf
<1>3. CASE ~Sharded(p)
  <2>1. Loaded(p, r) = [i \in 1..1 |-> Trained(J, i)]
    BY <1>2, <1>3 DEF Loaded, Total
  <2>2. FeaturesOf(p, r) = <<1>> /\ ShareLen(p) = 1
    BY <1>3 DEF FeaturesOf, ShareLen
  <2>3. \A i \in 1..1 : FeaturesOf(p, r)[i] = i
    BY <2>2
  <2> QED BY <2>1, <2>2, <2>3 DEF Piece
<1>4. CASE Sharded(p)
  <2>1. PICK k \in 0..(n - 1) : k = DomainRank(p, r)
    BY <1>1, OneRank
  <2>2. PICK T : T = SUBSET (J \X Nat)
    OBVIOUS
  <2>3. PICK s : s = adapter[p]
    OBVIOUS
  <2>4. s \in Seq(T) /\ Len(s) = m * W /\ \A i \in 1..(m * W) : s[i] = Trained(J, i)
    <3>1. PICK l \in Nat : l = m * W
      OBVIOUS
    <3>2. s = [i \in 1..l |-> Trained(J, i)]
      BY <1>1, <1>2, <1>4, <2>3, <3>1 DEF Total
    <3>3. \A i \in 1..l : Trained(J, i) \in T
      BY <2>2 DEF Trained
    <3>4. s \in [1..l -> T]
      BY <3>2, <3>3
    <3>5. s \in Seq(T) /\ Len(s) = l
      BY <3>4
    <3> QED BY <3>1, <3>2, <3>5
  <2>5. PICK t : t = Loaded(p, r)
    OBVIOUS
  <2>6. IsCut(t, s, m, n, k, w, T)
    <3>1. CASE Strategy(p.layer) = "componentwise"
      <4>1. PICK sizes : sizes = Components(p.layer) /\ Equal(sizes, m, n * w)
        BY <1>1
      <4>2. t = ShardByComponents(s, sizes, n, k)
        BY <1>1, <1>4, <2>1, <2>3, <2>5, <3>1, <4>1 DEF Loaded
      <4>3. Len(s) = m * (n * w)
        BY <1>1, <2>4
      <4> QED BY <2>4, <4>1, <4>2, <4>3, CutIs
    <3>2. CASE Strategy(p.layer) # "componentwise"
      <4>1. m = 1 \/ n = 1
        BY <1>1, <3>2
      <4>2. t = Narrow(s, n, k)
        BY <1>1, <1>4, <2>1, <2>3, <2>5, <3>2 DEF Loaded
      <4>3. PICK L \in Nat \ {0} : L = m * w
        BY ProductPositive
      <4>4. Len(s) = n * L
        <5>1. m * (n * w) = n * (m * w)
          OBVIOUS
        <5> QED BY <1>1, <2>4, <4>3, <5>1
      <4>5. IsPart(t, s, k * L, L, T)
        BY <2>4, <4>2, <4>4, NarrowIs
      <4>6. ASSUME NEW c \in 1..m, NEW j \in 1..w
            PROVE  t[(c - 1) * w + j] = s[(c - 1) * (n * w) + k * w + j]
        <5>1. PICK i \in 1..L : i = (c - 1) * w + j
          BY <4>3, PlaceWithin
        <5>2. t[i] = s[k * L + i]
          BY <4>5 DEF IsPart
        <5>3. k * L + i = (c - 1) * (n * w) + k * w + j
          <6>1. CASE m = 1
            <7>1. c = 1 /\ L = w
              BY <4>3, <6>1
            <7>2. (c - 1) * (n * w) = 0 /\ (c - 1) * w = 0 /\ k * L = k * w
              BY <7>1
            <7>3. PICK u \in Int : u = k * w
              OBVIOUS
            <7> QED BY <5>1, <7>2, <7>3
          <6>2. CASE n = 1
            <7>1. k = 0 /\ n * w = w
              BY <6>2
            <7>2. k * L = 0 /\ k * w = 0 /\ (c - 1) * (n * w) = (c - 1) * w
              BY <7>1
            <7>3. PICK u \in Int : u = (c - 1) * w
              OBVIOUS
            <7> QED BY <5>1, <7>2, <7>3
          <6> QED BY <4>1, <6>1, <6>2
        <5> QED BY ONLY <5>1, <5>2, <5>3
      <4> QED BY <4>3, <4>5, <4>6 DEF IsPart, IsCut
    <3> QED BY <3>1, <3>2
  <2>7. PICK L \in Nat : L = m * w
    OBVIOUS
  <2>8. ASSUME NEW i \in 1..L PROVE t[i] = Trained(J, FeaturesOf(p, r)[i])
    <3>1. PICK c \in 1..m, j \in 1..w : i = (c - 1) * w + j
      BY <2>7, PlaceIn
    <3>2. PICK h \in 1..W : h = k * w + j
      <4>1. k + 1 \in 1..n /\ (k + 1) - 1 = k
        OBVIOUS
      <4>2. k * w + j \in 1..(n * w)
        BY <4>1, PlaceWithin
      <4> QED BY <1>1, <4>2
    <3>3. PICK q \in 1..(m * W) : q = (c - 1) * W + h
      BY PlaceWithin
    <3>4. q = (c - 1) * (n * w) + k * w + j
      <4>1. PICK u, v \in Int : u = (c - 1) * W /\ u = (c - 1) * (n * w) /\ v = k * w
        BY <1>1
      <4> QED BY <3>2, <3>3, <4>1
    <3>5. t[i] = s[q]
      BY <2>6, <3>1, <3>4 DEF IsCut
    <3>6. FeaturesOf(p, r)[i] = q
      BY <1>1, <1>4, <2>1, <3>1, <3>4, FeaturesAre
    <3> QED BY <2>4, <3>5, <3>6
  <2>9. t \in [1..L -> T]
    BY <2>6, <2>7 DEF IsCut
  <2>10. t = [i \in 1..L |-> Trained(J, FeaturesOf(p, r)[i])]
    BY <2>8, <2>9
  <2>11. ShareLen(p) = L
    BY <1>1, <1>4, <2>7 DEF ShareLen
  <2> QED BY <2>5, <2>10, <2>11 DEF Piece
<1> QED BY <1>3, <1>4

\* The parts are what the ranks have of the shards.
ArePieces(parts, J, p) ==
  /\ parts = [k \in 1..Shards(p) |-> parts[k]]
  /\ \A k \in 1..Shards(p) : \E r \in Ranks : ShardOf(p, r) = k - 1 /\ parts[k] = Piece(J, p, r)

\* The shards of the ranks, in their order, make the entries for all features.
LEMMA SharesMerge ==
  ASSUME FusedWhole, topology \in Topologies, NEW J, NEW p \in Params, NEW parts, ArePieces(parts, J, p)
  PROVE  (IF Sharded(p) THEN MergeTensor(p.layer, parts, Shards(p)) ELSE parts[1])
           = [i \in 1..Total(p) |-> Trained(J, i)]
<1>1. PICK m, n, w, W \in Nat \ {0} :
        /\ m = Comps(p) /\ n = DomainSize(p) /\ w = Share(p) /\ W = Width /\ W = n * w
        /\ Equal(Components(p.layer), m, W)
        /\ Strategy(p.layer) = "componentwise" \/ m = 1 \/ n = 1
  BY ParamIs, ShardsAssumption
<1>2. CASE ~Sharded(p)
  <2>1. Shards(p) = 1 /\ Total(p) = 1 /\ ShareLen(p) = 1
    BY <1>2 DEF Shards, Total, ShareLen
  <2>2. PICK r \in Ranks : parts[1] = Piece(J, p, r)
    BY <2>1 DEF ArePieces
  <2>3. FeaturesOf(p, r) = <<1>>
    BY <1>2 DEF FeaturesOf
  <2>4. \A i \in 1..1 : FeaturesOf(p, r)[i] = i
    BY <2>3
  <2> QED BY <1>2, <2>1, <2>2, <2>4 DEF Piece
<1>3. CASE Sharded(p)
  <2>1. Shards(p) = n
    BY <1>1, <1>3 DEF Shards
  <2>2. PICK L \in Nat \ {0} : L = m * w /\ L = ShareLen(p)
    BY <1>1, <1>3, ProductPositive DEF ShareLen
  <2>3. PICK T : T = UNION {{Trained(J, FeaturesOf(p, r)[i]) : i \in 1..L} : r \in Ranks}
    OBVIOUS
  <2>4. ASSUME NEW k \in 1..n
        PROVE  /\ parts[k] \in Seq(T) /\ Len(parts[k]) = L
               /\ \A c \in 1..m : \A j \in 1..w :
                    parts[k][(c - 1) * w + j]
                      = Trained(J, (c - 1) * (n * w) + (k - 1) * w + j)
    <3>1. PICK r \in Ranks : DomainRank(p, r) = k - 1 /\ parts[k] = Piece(J, p, r)
      BY <1>3, <2>1 DEF ShardOf, ArePieces
    <3>2. parts[k] = [i \in 1..L |-> Trained(J, FeaturesOf(p, r)[i])]
      BY <2>2, <3>1 DEF Piece
    <3>3. parts[k] \in [1..L -> T]
      BY <2>3, <3>2
    <3>4. PICK h, F : h = k - 1 /\ h = DomainRank(p, r) /\ F = FeaturesOf(p, r)
      BY <3>1
    <3>5. ASSUME NEW c \in 1..m, NEW j \in 1..w
          PROVE  parts[k][(c - 1) * w + j]
                   = Trained(J, (c - 1) * (n * w) + (k - 1) * w + j)
      <4>1. PICK i \in 1..L : i = (c - 1) * w + j
        BY <2>2, PlaceWithin
      <4>2. F[(c - 1) * w + j] = (c - 1) * (n * w) + h * w + j
        BY <1>1, <1>3, <3>4, FeaturesAre
      <4>3. PICK q : q = (c - 1) * (n * w) + (k - 1) * w + j
        OBVIOUS
      <4>4. F[i] = q
        BY ONLY <3>4, <4>1, <4>2, <4>3
      <4>5. parts[k][i] = Trained(J, F[i])
        BY <3>2, <3>4
      <4>6. parts[k][i] = Trained(J, q)
        BY <4>4, <4>5
      <4> QED BY ONLY <4>1, <4>3, <4>6
    <3> QED BY <3>3, <3>5
  <2>5. Shares(parts, m, n, w, T)
    <3>1. parts = [k \in 1..n |-> parts[k]]
      BY <2>1 DEF ArePieces
    <3>2. parts \in Seq(Seq(T)) /\ Len(parts) = n
      BY <2>4, <3>1
    <3> QED BY <2>2, <2>4, <3>2 DEF Shares
  <2>6. PICK t : t = MergeTensor(p.layer, parts, n)
    OBVIOUS
  <2>7. IsMerge(t, parts, m, n, w, T)
    <3>1. CASE Strategy(p.layer) = "componentwise"
      <4> DEFINE local == [c \in DOMAIN Components(p.layer) |-> Components(p.layer)[c] \div n]
      <4>1. Equal(local, m, w)
        <5>1. w = W \div n
          BY <1>1 DEF Share
        <5> QED BY <1>1, <5>1 DEF Equal
      <4>2. t = FlattenSeq([c \in DOMAIN local |->
                   FlattenSeq([i \in DOMAIN parts |-> Split(parts[i], local)[c]])])
        BY <2>6, <3>1 DEF MergeTensor
      <4> HIDE DEF local
      <4> QED BY <2>5, <4>1, <4>2, MergeByComponents
    <3>2. CASE Strategy(p.layer) # "componentwise"
      <4>1. t = FlattenSeq(parts)
        BY <2>6, <3>2 DEF MergeTensor
      <4> QED BY <1>1, <2>5, <3>2, <4>1, MergeOfOne
    <3> QED BY <3>1, <3>2
  <2>8. PICK l \in Nat : l = m * (n * w) /\ l = Total(p)
    <3>1. m * (n * w) \in Nat
      OBVIOUS
    <3>2. Total(p) = m * (n * w)
      BY <1>1, <1>3 DEF Total
    <3> QED BY <3>1, <3>2
  <2>9. PICK whole : whole = [i \in 1..l |-> Trained(J, i)]
    OBVIOUS
  <2>10. ASSUME NEW c \in 1..m, NEW k \in 1..n, NEW j \in 1..w
         PROVE  parts[k][(c - 1) * w + j] = whole[(c - 1) * (n * w) + (k - 1) * w + j]
    <3>1. PICK i : i = (c - 1) * (n * w) + (k - 1) * w + j
      OBVIOUS
    <3>2. i \in 1..l
      <4>1. PICK h \in 1..W : h = (k - 1) * w + j
        BY <1>1, PlaceWithin
      <4>2. (c - 1) * W + h \in 1..(m * W)
        BY PlaceWithin
      <4>0. W = n * w
        BY <1>1
      <4>3. PICK u, v \in Int : u = (c - 1) * W /\ u = (c - 1) * (n * w) /\ v = (k - 1) * w
        BY <4>0
      <4>4. i = u + v + j /\ (c - 1) * W + h = u + (v + j)
        BY <3>1, <4>1, <4>3
      <4>5. m * W = l
        BY <1>1, <2>8
      <4> QED BY <4>2, <4>4, <4>5, <4>3
    <3>3. parts[k][(c - 1) * w + j] = Trained(J, i)
      BY <2>4, <3>1
    <3>4. whole[i] = Trained(J, i)
      BY <2>9, <3>2
    <3> QED BY ONLY <3>1, <3>3, <3>4
  <2>11. \A i \in 1..l : t[i] = whole[i]
    <3>1. AreCuts(parts, whole, m, n, w)
      BY <2>10 DEF AreCuts
    <3> QED BY <2>7, <2>8, <3>1, MergeOfCuts
  <2>12. t = whole
    <3>1. t \in Seq(T) /\ Len(t) = l
      BY <2>7, <2>8 DEF IsMerge
    <3>2. DOMAIN t = 1..l /\ t = [i \in 1..l |-> t[i]]
      BY <3>1
    <3> QED BY <2>9, <2>11, <3>2
  <2> QED BY <1>3, <2>1, <2>6, <2>8, <2>9, <2>12
<1> QED BY <1>2, <1>3

SavedOf(J, r) == [p \in Exported(r) |-> Piece(J, p, r)]

LEMMA SomeoneExports ==
  ASSUME topology \in Topologies, NEW p \in Params
  PROVE  \E r \in Ranks : p \in Exported(r)
<1>1. DomainSize(p) \in Nat \ {0} /\ 0 \in 0..(DomainSize(p) - 1)
  BY RanksAre DEF DomainSize
<1>2. 0 \in TokenParts(p)
  <2>1. 0 \in Ranks
    BY RanksAre DEF Ranks
  <2>2. TokensOf(p, 0) \in TokenParts(p)
    BY <2>1, OneRank
  <2>3. TokenParts(p) = 0..(topology.replicas - 1) \/ TokenParts(p) = 0..(ExpertReplicas - 1)
    BY DEF TokenParts
  <2>4. ExpertReplicas \in Int /\ topology.replicas \in Int
    <3>1. WorldSize \div (topology.etp * topology.ep) \in Nat
      BY RanksAre, Whole
    <3> QED BY <3>1, RanksAre DEF ExpertReplicas
  <2> QED BY <2>2, <2>3, <2>4
<1>3. PICK r \in Ranks : p \in Held(r) /\ DomainRank(p, r) = 0 /\ TokensOf(p, r) = 0
  BY <1>1, <1>2, OneRank
<1> QED BY <1>3 DEF Exported, Exports, TokensOf, Part

\* The entries that are merged are those the ranks have saved, one of each
\* shard: a leftover with the parameter would be a second one.
LEMMA EntriesAre ==
  ASSUME ShardsInv, AllSaved, Mergeable, NEW p \in Params
  PROVE  /\ Cardinality(EntriesOf(p)) = Shards(p)
         /\ \A k \in 0..(Shards(p) - 1) :
              \E r \in Ranks : /\ p \in Exported(r) /\ ShardOf(p, r) = k
                               /\ ShardAt(p, k) = shards[FileOf(r)][p]
<1>1. topology \in Topologies
  BY DEF ShardsInv, AllSaved
<1>2. ASSUME NEW r \in Ranks, p \in Exported(r)
      PROVE  /\ FileOf(r) \in EntriesOf(p) /\ manifests[FileOf(r)][p].rank = ShardOf(p, r)
             /\ manifests[FileOf(r)][p].world = Shards(p)
  <2>1. ShardSaved(r) /\ ManifestSaved(r)
    BY DEF ShardsInv, AllSaved
  <2>2. manifests[FileOf(r)][p]
          = [sharded |-> Sharded(p), world |-> Shards(p), rank |-> ShardOf(p, r)]
    BY <1>2, <2>1, ManifestIs DEF ManifestSaved
  <2> QED BY <1>2, <2>1, <2>2 DEF EntriesOf, ShardSaved
<1>3. PICK n \in Nat : n = Shards(p)
  <2>1. DomainSize(p) \in Nat
    BY <1>1, RanksAre DEF DomainSize
  <2> QED BY <2>1 DEF Shards
<1>4. PICK r0 \in Ranks : p \in Exported(r0)
  BY <1>1, SomeoneExports
<1>5. \A k \in 0..(n - 1) : \E r \in Ranks : p \in Exported(r) /\ ShardOf(p, r) = k
  BY <1>1, <1>3, <1>4, Exporters
<1> DEFINE rank(f) == manifests[f][p].rank
<1>6. /\ \A f, g \in EntriesOf(p) : f # g => rank(f) # rank(g)
      /\ \A k : k \in 0..(n - 1) <=> \E f \in EntriesOf(p) : rank(f) = k
  <2>1. FileOf(r0) \in EntriesOf(p) /\ manifests[FileOf(r0)][p].world = n
    BY <1>2, <1>3, <1>4
  <2>2. p \in UNION {DOMAIN shards[f] : f \in DOMAIN shards}
    BY <2>1 DEF EntriesOf
  <2>3. /\ \A f, g \in EntriesOf(p) : f # g => rank(f) # rank(g)
        /\ \A f \in EntriesOf(p) : RanksOf(p) = 0..(manifests[f][p].world - 1)
    BY <2>2 DEF Mergeable
  <2>4. RanksOf(p) = 0..(n - 1)
    BY <2>1, <2>3
  <2> QED BY <2>3, <2>4 DEF RanksOf
<1>7. Cardinality(EntriesOf(p)) = n
  <2> DEFINE b == [f \in EntriesOf(p) |-> rank(f)]
  <2>1. b \in Bijection(EntriesOf(p), 0..(n - 1))
    <3> HIDE DEF rank
    <3>1. b \in [EntriesOf(p) -> 0..(n - 1)]
      BY <1>6
    <3>2. \A f, g \in EntriesOf(p) : b[f] = b[g] => f = g
      BY <1>6
    <3>3. \A k \in 0..(n - 1) : \E f \in EntriesOf(p) : b[f] = k
      BY <1>6
    <3> HIDE DEF b
    <3> QED BY <3>1, <3>2, <3>3 DEF Bijection, Injection, Surjection, IsInjective
  <2>2. ExistsBijection(EntriesOf(p), 0..(n - 1))
    <3> HIDE DEF b
    <3> QED BY <2>1 DEF ExistsBijection
  <2>3. ExistsBijection(0..(n - 1), EntriesOf(p))
    BY <2>2, Fun_ExistsBijSymmetric
  <2>4. IsFiniteSet(0..(n - 1)) /\ Cardinality(0..(n - 1)) = n
    BY FS_Interval
  <2> QED BY <2>3, <2>4, FS_Bijection
<1>8. ASSUME NEW k \in 0..(n - 1)
      PROVE  \E r \in Ranks : /\ p \in Exported(r) /\ ShardOf(p, r) = k
                              /\ ShardAt(p, k) = shards[FileOf(r)][p]
  <2>1. PICK r \in Ranks : p \in Exported(r) /\ ShardOf(p, r) = k
    BY <1>5
  <2>2. FileOf(r) \in EntriesOf(p) /\ rank(FileOf(r)) = k
    BY <1>2, <2>1
  <2>3. PICK f : f = CHOOSE g \in EntriesOf(p) : manifests[g][p].rank = k
    OBVIOUS
  <2>4. f \in EntriesOf(p) /\ rank(f) = k
    BY <2>2, <2>3
  <2>5. f = FileOf(r)
    BY <1>6, <2>2, <2>4
  <2>6. ShardAt(p, k) = shards[f][p]
    BY <2>3 DEF ShardAt
  <2> QED BY <2>1, <2>5, <2>6
<1> QED BY <1>3, <1>7, <1>8

LEMMA MergedIs ==
  ASSUME FusedWhole, ShardsInv, AllSaved, Mergeable, NEW J,
         \A r \in Ranks : shards[FileOf(r)] = SavedOf(J, r),
         \A f \in DOMAIN shards : DOMAIN shards[f] \subseteq Params
  PROVE  MergedAdapter = AdapterOf(J)
<1>1. topology \in Topologies
  BY DEF ShardsInv, AllSaved
<1>2. UNION {DOMAIN shards[f] : f \in DOMAIN shards} = Params
  <2>1. ASSUME NEW p \in Params PROVE \E f \in DOMAIN shards : p \in DOMAIN shards[f]
    <3>1. PICK r \in Ranks : p \in Exported(r)
      BY <1>1, SomeoneExports
    <3>2. ShardSaved(r)
      BY DEF ShardsInv, AllSaved
    <3> QED BY <3>1, <3>2 DEF ShardSaved
  <2> QED BY <2>1
<1>3. ASSUME NEW p \in Params
      PROVE  (LET n == Cardinality(EntriesOf(p))
                  parts == [i \in 1..n |-> ShardAt(p, i - 1)]
              IN  IF Sharded(p) THEN MergeTensor(p.layer, parts, n) ELSE parts[1])
                = [i \in 1..Total(p) |-> Trained(J, i)]
  <2>1. PICK n \in Nat : n = Shards(p) /\ n = Cardinality(EntriesOf(p))
    <3>1. DomainSize(p) \in Nat
      BY <1>1, RanksAre DEF DomainSize
    <3> QED BY <3>1, EntriesAre DEF Shards
  <2>2. PICK parts : parts = [i \in 1..n |-> ShardAt(p, i - 1)]
    OBVIOUS
  <2>3. ASSUME NEW k \in 1..n
        PROVE  \E r \in Ranks : ShardOf(p, r) = k - 1 /\ parts[k] = Piece(J, p, r)
    <3>1. k - 1 \in 0..(n - 1)
      OBVIOUS
    <3>2. PICK r \in Ranks : /\ p \in Exported(r) /\ ShardOf(p, r) = k - 1
                             /\ ShardAt(p, k - 1) = shards[FileOf(r)][p]
      BY <2>1, <3>1, EntriesAre
    <3>3. shards[FileOf(r)][p] = Piece(J, p, r)
      BY <3>2 DEF SavedOf
    <3> QED BY <2>2, <3>2, <3>3
  <2>4. (IF Sharded(p) THEN MergeTensor(p.layer, parts, n) ELSE parts[1])
          = [i \in 1..Total(p) |-> Trained(J, i)]
    <3>1. ArePieces(parts, J, p)
      BY <2>1, <2>2, <2>3 DEF ArePieces
    <3>2. (IF Sharded(p) THEN MergeTensor(p.layer, parts, Shards(p)) ELSE parts[1])
            = [i \in 1..Total(p) |-> Trained(J, i)]
      BY <1>1, <3>1, SharesMerge
    <3> QED BY <2>1, <3>2
  <2> QED BY <2>1, <2>2, <2>4
<1> QED BY <1>2, <1>3 DEF MergedAdapter, AdapterOf

-----------------------------------------------------------------------------
(* The adapter.                                                              *)

WeightsAre(J) == weights = [r \in Ranks |-> [p \in Held(r) |-> Piece(J, p, r)]]

\* The adapter is what the merged jobs made of it, a rank's weights are its part
\* of that and then of what the running job makes of it, and so is what it has
\* saved.
TrainedInv ==
  /\ adapter = AdapterOf(learned)
  /\ \A f \in DOMAIN shards : DOMAIN shards[f] \subseteq Params
  /\ phase \in {"loaded", "backward", "reduced", "finalized"} => WeightsAre(learned)
  /\ phase = "save" =>
       /\ WeightsAre(learned \cup {job})
       /\ \A r \in Ranks :
            saving[r] # "shard" => shards[FileOf(r)] = SavedOf(learned \cup {job}, r)

\* The rank's shares follow from the topology.
LEMMA PiecesStay ==
  ASSUME UNCHANGED topology
  PROVE  /\ Ranks' = Ranks
         /\ \A s : /\ Held(s)' = Held(s) /\ FileOf(s)' = FileOf(s)
                   /\ Exported(s)' = Exported(s)
         /\ \A J, p, s : Piece(J, p, s)' = Piece(J, p, s)
<1>1. \A p, s : /\ DomainSize(p)' = DomainSize(p) /\ DomainRank(p, s)' = DomainRank(p, s)
                /\ Held(s)' = Held(s)
  BY DEF DomainSize, DomainRank, TpRank, EtpRank, Held, LocalExperts, EpRank
<1>2. \A p, s : FeaturesOf(p, s)' = FeaturesOf(p, s) /\ ShareLen(p)' = ShareLen(p)
  BY <1>1 DEF FeaturesOf, ShareLen, Share
<1>3. \A J, p, s : Piece(J, p, s)' = Piece(J, p, s)
  BY <1>2 DEF Piece
<1> QED BY <1>1, <1>3, NamesStay

\* A step that leaves weights and files alone, or forgets the weights.
LEMMA TrainedStays ==
  ASSUME TrainedInv, UNCHANGED <<adapter, shards, learned>>,
         \/ phase' \in {"down", "ready", "unlink", "raised"}
         \/ /\ UNCHANGED <<topology, weights>>
            /\ phase \in {"loaded", "backward", "reduced", "finalized"}
            /\ phase' \in {"loaded", "backward", "reduced", "finalized"}
         \/ UNCHANGED <<topology, weights, phase, job, saving>>
  PROVE  TrainedInv'
<1>1. /\ adapter' = AdapterOf(learned')
      /\ \A f \in DOMAIN shards' : DOMAIN shards'[f] \subseteq Params
  BY DEF TrainedInv
<1>2. CASE phase' \in {"down", "ready", "unlink", "raised"}
  BY <1>1, <1>2 DEF TrainedInv
<1>3. ASSUME UNCHANGED <<topology, weights>>
      PROVE  \A J : WeightsAre(J) => WeightsAre(J)'
  BY <1>3, PiecesStay DEF WeightsAre
<1>4. CASE /\ UNCHANGED <<topology, weights>>
           /\ phase \in {"loaded", "backward", "reduced", "finalized"}
           /\ phase' \in {"loaded", "backward", "reduced", "finalized"}
  <2>1. PICK J : J = learned /\ J = learned'
    OBVIOUS
  <2>2. WeightsAre(J)'
    BY <1>3, <1>4, <2>1 DEF TrainedInv
  <2> QED BY <1>1, <1>4, <2>1, <2>2 DEF TrainedInv
<1>5. CASE UNCHANGED <<topology, weights, phase, job, saving>>
  <2>1. PICK J, K : /\ J = learned /\ J = learned'
                    /\ K = learned \cup {job} /\ K = (learned \cup {job})'
    BY <1>5
  <2>2. (WeightsAre(J) => WeightsAre(J)') /\ (WeightsAre(K) => WeightsAre(K)')
    BY <1>3, <1>5
  <2>3. Ranks' = Ranks /\ \A r : FileOf(r)' = FileOf(r) /\ SavedOf(K, r)' = SavedOf(K, r)
    BY <1>5, PiecesStay DEF SavedOf
  <2> QED BY <1>1, <1>5, <2>1, <2>2, <2>3 DEF TrainedInv
<1> QED BY <1>2, <1>4, <1>5

LEMMA TrainedStart == ShardsInit => TrainedInv
<1> SUFFICES ASSUME ShardsInit PROVE TrainedInv
  OBVIOUS
<1>1. /\ learned = {} /\ shards = <<>> /\ phase = "down"
      /\ adapter = [p \in Params |-> [i \in 1..(IF Sharded(p) THEN Len(Features(p.layer)) ELSE 1) |-> {}]]
  BY DEF ShardsInit
<1>2. \A i : Trained({}, i) = {}
  BY DEF Trained
<1>3. ASSUME NEW p \in Params, Sharded(p) PROVE Len(Features(p.layer)) = Total(p)
  <2>1. PICK l \in Nat : l = Width * Comps(p) /\ l = Comps(p) * Width
    <3>1. Comps(p) \in Nat
      <4>1. \/ Components(p.layer) = <<Width, Width, Width>>
            \/ Components(p.layer) = <<Width, Width>>
            \/ Components(p.layer) = <<Width>>
        BY ShardsAssumption DEF Params, Components, LayerKinds
      <4> QED BY <4>1 DEF Comps
    <3> QED BY <3>1, ShardsAssumption
  <2>2. Features(p.layer) = [f \in 1..l |-> f]
    BY <2>1 DEF Features, Comps
  <2>3. Len(Features(p.layer)) = l
    BY <2>2
  <2> QED BY <1>3, <2>1, <2>3 DEF Total
<1>4. adapter = AdapterOf({})
  BY <1>1, <1>2, <1>3 DEF AdapterOf, Total
<1> QED BY <1>1, <1>4 DEF TrainedInv

LEMMA LoadKeepsTrained ==
  ASSUME FusedWhole, ShardsInv, TrainedInv, LoadAdapter
  PROVE  TrainedInv'
<1>1. /\ topology \in Topologies /\ phase' = "loaded" /\ UNCHANGED <<topology, adapter, learned>>
      /\ weights' = [r \in Ranks |-> [p \in Held(r) |-> Loaded(p, r)]]
      /\ shards' = shards \/ shards' = <<>>
  BY DEF LoadAdapter, ShardsInv
<1>2. ASSUME NEW r \in Ranks, NEW p \in Held(r)
      PROVE  Loaded(p, r) = Piece(learned, p, r)
  <2>1. p \in Params /\ adapter = AdapterOf(learned)
    BY DEF Held, TrainedInv
  <2> QED BY <1>1, <2>1, LoadedIs
<1>3. weights' = [r \in Ranks |-> [p \in Held(r) |-> Piece(learned, p, r)]]
  BY <1>1, <1>2
<1>4. WeightsAre(learned)'
  BY <1>1, <1>3, PiecesStay DEF WeightsAre
<1> QED BY <1>1, <1>4 DEF TrainedInv

LEMMA StepKeepsTrained ==
  ASSUME ShardsInv, TrainedInv, OptimizerStep
  PROVE  TrainedInv'
<1>1. /\ topology \in Topologies /\ phase = "finalized" /\ phase' = "save"
      /\ UNCHANGED <<topology, job, adapter, shards, learned>>
      /\ weights' = [r \in Ranks |-> [p \in Held(r) |->
                       [i \in DOMAIN weights[r][p] |->
                          weights[r][p][i] \cup {<<job, FeaturesOf(p, r)[i]>>}]]]
      /\ saving' = [r \in Ranks |-> "shard"]
  BY DEF OptimizerStep, ShardsInv, fileVars
<1>2. \A f : Trained(learned, f) \cup {<<job, f>>} = Trained(learned \cup {job}, f)
  BY DEF Trained
<1>3. PICK K : K = learned \cup {job} /\ K = (learned \cup {job})'
  BY <1>1
<1>4. ASSUME NEW r \in Ranks, NEW p \in Held(r)
      PROVE  [i \in DOMAIN weights[r][p] |->
                weights[r][p][i] \cup {<<job, FeaturesOf(p, r)[i]>>}]
               = Piece(K, p, r)
  <2>1. weights[r][p] = Piece(learned, p, r)
    BY <1>1 DEF TrainedInv, WeightsAre
  <2>2. weights[r][p] = [i \in 1..ShareLen(p) |-> Trained(learned, FeaturesOf(p, r)[i])]
    BY <2>1 DEF Piece
  <2> QED BY <1>2, <1>3, <2>2 DEF Piece
<1>5. weights' = [r \in Ranks |-> [p \in Held(r) |-> Piece(K, p, r)]]
  BY <1>1, <1>4
<1>6. WeightsAre(K)'
  BY <1>1, <1>5, PiecesStay DEF WeightsAre
<1>7. Ranks' = Ranks
  BY <1>1, PiecesStay
<1> QED BY <1>1, <1>3, <1>6, <1>7 DEF TrainedInv

LEMMA SavingKeepsTrained ==
  ASSUME ShardsInv, TrainedInv, NEW r \in Ranks, SaveShard(r) \/ SaveManifest(r)
  PROVE  TrainedInv'
<1>1. /\ phase = "save" /\ phase' = "save" /\ topology \in Topologies
      /\ UNCHANGED <<topology, job, weights, adapter, learned>>
      /\ saving \in [Ranks -> {"shard", "manifest", "done"}]
  BY DEF SaveShard, SaveManifest, ShardsInv
<1>2. PICK J : J = learned \cup {job} /\ J = (learned \cup {job})'
  BY <1>1
<1>3. /\ Ranks' = Ranks
      /\ \A s : FileOf(s)' = FileOf(s) /\ SavedOf(J, s)' = SavedOf(J, s)
  BY <1>1, PiecesStay DEF SavedOf
<1>4. WeightsAre(J) /\ \A q \in Ranks : saving[q] # "shard" => shards[FileOf(q)] = SavedOf(J, q)
  BY <1>1, <1>2 DEF TrainedInv
<1>5. WeightsAre(J)'
  BY <1>1, <1>4, PiecesStay DEF WeightsAre
<1>6. ASSUME NEW q \in Ranks, q # r PROVE FileOf(q) # FileOf(r)
  <2>1. q \in Nat /\ r \in Nat
    BY <1>1, RanksAre DEF Ranks
  <2> QED BY <1>6, <2>1 DEF FileOf
<1>7. /\ \A f \in DOMAIN shards' : DOMAIN shards'[f] \subseteq Params
      /\ \A q \in Ranks : saving'[q] # "shard" => shards'[FileOf(q)] = SavedOf(J, q)
  <2>1. CASE SaveShard(r)
    <3>1. /\ shards' = SetFile(shards, r, [p \in Exported(r) |-> weights[r][p]])
          /\ saving' = [saving EXCEPT ![r] = "manifest"]
      BY <2>1 DEF SaveShard
    <3>2. [p \in Exported(r) |-> weights[r][p]] = SavedOf(J, r)
      BY <1>4 DEF WeightsAre, SavedOf, Exported
    <3>3. /\ DOMAIN shards' = DOMAIN shards \cup {FileOf(r)} /\ shards'[FileOf(r)] = SavedOf(J, r)
          /\ \A f \in DOMAIN shards : f # FileOf(r) => shards'[f] = shards[f]
      BY <3>1, <3>2 DEF SetFile
    <3>4. DOMAIN SavedOf(J, r) \subseteq Params
      BY DEF SavedOf, Exported, Held
    <3>5. \A f \in DOMAIN shards' : DOMAIN shards'[f] \subseteq Params
      BY <3>3, <3>4 DEF TrainedInv
    <3>6. ASSUME NEW q \in Ranks, saving'[q] # "shard" PROVE shards'[FileOf(q)] = SavedOf(J, q)
      <4>1. CASE q = r
        BY <3>3, <4>1
      <4>2. CASE q # r
        <5>1. saving[q] # "shard"
          BY <1>1, <3>1, <3>6, <4>2
        <5>2. FileOf(q) \in DOMAIN shards
          BY <1>1, <5>1 DEF ShardsInv, ShardSaved
        <5> QED BY <1>4, <1>6, <3>3, <4>2, <5>1, <5>2
      <4> QED BY <4>1, <4>2
    <3> QED BY <3>5, <3>6
  <2>2. CASE SaveManifest(r)
    <3>1. /\ UNCHANGED shards /\ saving' = [saving EXCEPT ![r] = "done"]
          /\ saving[r] = "manifest"
      BY <2>2 DEF SaveManifest
    <3>2. \A q \in Ranks : saving'[q] # "shard" => saving[q] # "shard"
      BY <1>1, <3>1
    <3> QED BY <1>4, <3>1, <3>2 DEF TrainedInv
  <2> QED BY <2>1, <2>2
<1> QED BY <1>1, <1>2, <1>3, <1>5, <1>7 DEF TrainedInv

LEMMA TrainedKept ==
  ASSUME FusedWhole, ShardsInv, TrainedInv, [ShardsNext]_shardsVars
  PROVE  TrainedInv'
<1>1. CASE StartWorker
  BY <1>1, TrainedStays DEF StartWorker, fileVars
<1>2. CASE LoadAdapter
  BY <1>2, LoadKeepsTrained
<1>3. CASE Backward \/ ReduceReplicas \/ ReduceDomains
  BY <1>3, TrainedStays DEF Backward, ReduceReplicas, ReduceDomains, fileVars
<1>4. CASE OptimizerStep
  BY <1>4, StepKeepsTrained
<1>5. CASE \E r \in Ranks : SaveShard(r) \/ SaveManifest(r)
  BY <1>5, SavingKeepsTrained
<1>6. CASE MergeAdapter
  <2>1. /\ AllSaved /\ Mergeable /\ phase' = "unlink" /\ adapter' = MergedAdapter
        /\ learned' = learned \cup {job} /\ UNCHANGED shards
    BY <1>6 DEF MergeAdapter
  <2>2. PICK J : J = learned \cup {job}
    OBVIOUS
  <2>3. /\ \A r \in Ranks : shards[FileOf(r)] = SavedOf(J, r)
        /\ \A f \in DOMAIN shards : DOMAIN shards[f] \subseteq Params
    BY <2>1, <2>2 DEF TrainedInv, AllSaved
  <2>4. MergedAdapter = AdapterOf(J)
    BY <2>1, <2>3, MergedIs
  <2> QED BY <2>1, <2>2, <2>3, <2>4 DEF TrainedInv
<1>7. CASE MergeRaises
  BY <1>7, TrainedStays DEF MergeRaises, fileVars
<1>8. CASE Unlink
  <2>1. UNCHANGED <<topology, job, weights, adapter, learned>> /\ phase' \in {"unlink", "ready"}
    BY <1>8 DEF Unlink
  <2>2. \A f \in DOMAIN shards' : DOMAIN shards'[f] \subseteq Params
    BY <1>8 DEF Unlink, Without, TrainedInv
  <2> QED BY <2>1, <2>2 DEF TrainedInv
<1>9. CASE Down
  BY <1>9, TrainedStays DEF Down, fileVars
<1>10. CASE UNCHANGED shardsVars
  BY <1>10, TrainedStays DEF shardsVars, fileVars
<1> QED BY <1>1, <1>2, <1>3, <1>4, <1>5, <1>6, <1>7, <1>8, <1>9, <1>10 DEF ShardsNext

\* Whatever the topologies the jobs ran under, and whatever shards other jobs
\* left behind, each entry of the adapter is what the merged jobs made of its
\* one feature, unless the fused layer of the experts is cut (lora.py,
\* merge.py); fused_shards shows what becomes of it then.
THEOREM AdapterIsAlwaysTrained == FusedWhole => (ShardsSpec => []AdapterIsTrained)
<1> SUFFICES ASSUME FusedWhole PROVE ShardsSpec => []AdapterIsTrained
  OBVIOUS
<1>1. TrainedInv => AdapterIsTrained
  <2> SUFFICES ASSUME TrainedInv PROVE AdapterIsTrained
    OBVIOUS
  <2>1. adapter = [p \in Params |-> [i \in 1..Total(p) |-> Trained(learned, i)]]
    BY DEF TrainedInv, AdapterOf
  <2> QED BY <2>1 DEF AdapterIsTrained, Trained
<1>2. ShardsInv /\ TrainedInv /\ [ShardsNext]_shardsVars => TrainedInv'
  BY TrainedKept
<1> QED BY <1>1, <1>2, TrainedStart, ShardsStart, ShardsKept, PTL DEF ShardsSpec

=============================================================================
