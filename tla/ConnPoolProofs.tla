---------------------------- MODULE ConnPoolProofs ----------------------------
(***************************************************************************)
(* The connection pool keeps its invariant for any number of sessions,     *)
(* connections and pools, any limit and any life time.                     *)
(***************************************************************************)
EXTENDS ConnPool, TLAPS, SequenceTheorems, WellFoundedInduction

-----------------------------------------------------------------------------
(* Lists of entries: the loop over the oldest ones, and what it leaves.    *)

(* A set of numbers has a least one. *)
LEMMA LeastNumber ==
  ASSUME NEW T, T \subseteq Nat, T # {}
  PROVE  \E n \in T : \A m \in T : n <= m
<1> DEFINE Less == OpToRel(<, Nat)
<1>1. PICK n \in T : \A m \in T : ~ (<<m, n>> \in Less)
  BY NatLessThanWellFounded, WFMin
<1>2. ASSUME NEW m \in T PROVE n <= m
  <2>1. ~ (m < n)
    BY <1>1 DEF OpToRel
  <2> QED BY <2>1
<1> QED BY <1>2

(* The loop ends at an entry, or behind the last one. *)
LEMMA LeadingIs ==
  ASSUME NEW l \in Seq(PoolEntry), NEW t \in Nat
  PROVE  /\ Leading(l, t) \in 0 .. Len(l)
         /\ Leading(l, t) < Len(l) => ~Expired(l[Leading(l, t) + 1], t)
<1> DEFINE Stop(n) == n < Len(l) => ~Expired(l[n + 1], t)
           Stops == {n \in 0 .. Len(l) : Stop(n)}
<1>1. Len(l) \in Nat
  BY LenProperties
<1>2. Len(l) \in Stops /\ Stops \subseteq Nat
  BY <1>1
<1>3. PICK n \in Stops : \A m \in Stops : n <= m
  <2> HIDE DEF Stops
  <2> QED BY <1>2, LeastNumber
<1>4. n \in 0 .. Len(l) /\ Stop(n)
  BY <1>3
<1>5. ASSUME NEW i \in 1 .. n PROVE Expired(l[i], t)
  <2>1. PICK j \in Nat : i = j + 1
    BY <1>1, <1>4
  <2>2. j \in 0 .. Len(l) /\ j < n /\ j < Len(l)
    BY <1>1, <1>4, <2>1
  <2>3. j \notin Stops
    <3> HIDE DEF Stops
    <3> QED BY <2>2, <1>3, <1>4, <1>1
  <2>4. ~Stop(j)
    BY <2>2, <2>3
  <2> QED BY <2>1, <2>4
<1>6. \E k \in 0 .. Len(l) : /\ \A i \in 1 .. k : Expired(l[i], t)
                             /\ k < Len(l) => ~Expired(l[k + 1], t)
  BY <1>4, <1>5
<1> QED BY <1>6 DEF Leading

(* m is the list l without its first k entries. *)
Dropped(l, k, m) ==
    /\ k \in 0 .. Len(l) /\ m \in Seq(PoolEntry) /\ Len(m) = Len(l) - k
    /\ \A i \in 1 .. Len(m) : m[i] = l[i + k]

(* What the loop leaves is the list without its first entries. *)
LEMMA FreshDrops ==
  ASSUME NEW s \in Seq(PoolEntry), NEW t \in Nat
  PROVE  Dropped(s, Leading(s, t), Fresh(s, t))
<1>1. Leading(s, t) \in 0 .. Len(s) /\ Len(s) \in Nat
  BY LeadingIs, LenProperties
<1> DEFINE k == Leading(s, t)
<1>2. /\ SubSeq(s, k + 1, Len(s)) \in Seq(PoolEntry)
      /\ Len(SubSeq(s, k + 1, Len(s))) = Len(s) - k
      /\ \A i \in 1 .. Len(s) - k : SubSeq(s, k + 1, Len(s))[i] = s[i + k]
  <2> HIDE DEF k
  <2>1. k \in 0 .. Len(s) /\ Len(s) \in Nat BY <1>1 DEF k
  <2> QED BY <2>1, SubSeqProperties
<1> QED BY <1>1, <1>2 DEF Dropped, Fresh

(* The connections in a list, and that none is in it twice. *)
In(l) == {l[i].conn : i \in 1 .. Len(l)}
Distinct(l) == \A i, j \in 1 .. Len(l) : l[i].conn = l[j].conn => i = j

(* Dropping the first entries leaves the connections that were not closed. *)
LEMMA DroppedIn ==
  ASSUME NEW l \in Seq(PoolEntry), NEW k, NEW m, Dropped(l, k, m), Distinct(l)
  PROVE  /\ m \in Seq(PoolEntry) /\ Distinct(m)
         /\ In(m) = In(l) \ Closed(l, k) /\ Closed(l, k) \subseteq In(l)
<1>1. /\ Len(l) \in Nat /\ Len(m) \in Nat /\ k \in 0 .. Len(l)
      /\ Len(m) = Len(l) - k /\ m \in Seq(PoolEntry)
      /\ \A i \in 1 .. Len(m) : m[i] = l[i + k] /\ i + k \in 1 .. Len(l)
  BY LenProperties DEF Dropped
<1>2. Distinct(m)
  <2> SUFFICES ASSUME NEW i \in 1 .. Len(m), NEW j \in 1 .. Len(m), m[i].conn = m[j].conn
               PROVE  i = j
    BY DEF Distinct
  <2>1. l[i + k].conn = l[j + k].conn /\ i + k \in 1 .. Len(l) /\ j + k \in 1 .. Len(l)
    BY <1>1
  <2>2. i + k = j + k
    BY <2>1 DEF Distinct
  <2> QED BY <2>2, <1>1
<1>3. ASSUME NEW c \in In(m) PROVE c \in In(l) /\ c \notin Closed(l, k)
  <2>1. PICK i \in 1 .. Len(m) : c = m[i].conn
    BY DEF In
  <2>2. c = l[i + k].conn /\ i + k \in 1 .. Len(l) /\ i + k > k
    BY <2>1, <1>1
  <2>3. ASSUME NEW j \in 1 .. k, l[j].conn = c PROVE FALSE
    <3>1. j \in 1 .. Len(l)
      BY <1>1
    <3>2. j = i + k
      BY <2>2, <2>3, <3>1 DEF Distinct
    <3> QED BY <3>2, <2>2, <1>1
  <2> QED BY <2>2, <2>3 DEF In, Closed
<1>4. ASSUME NEW c \in In(l), c \notin Closed(l, k) PROVE c \in In(m)
  <2>1. PICK i \in 1 .. Len(l) : c = l[i].conn
    BY DEF In
  <2>2. i \notin 1 .. k
    BY <2>1, <1>4 DEF Closed
  <2>3. PICK j \in 1 .. Len(m) : i = j + k
    <3>1. i - k \in 1 .. Len(m) /\ i = (i - k) + k
      BY <2>1, <2>2, <1>1
    <3> QED BY <3>1
  <2>4. m[j].conn = c
    BY <2>1, <2>3, <1>1
  <2> QED BY <2>4, <2>3 DEF In
<1>5. Closed(l, k) \subseteq In(l)
  BY <1>1 DEF Closed, In
<1> QED BY <1>1, <1>2, <1>3, <1>4, <1>5

(* An entry at the end adds its connection. *)
LEMMA AppendIn ==
  ASSUME NEW l \in Seq(PoolEntry), NEW e \in PoolEntry, Distinct(l), e.conn \notin In(l)
  PROVE  /\ Append(l, e) \in Seq(PoolEntry) /\ Len(Append(l, e)) = Len(l) + 1
         /\ Distinct(Append(l, e)) /\ In(Append(l, e)) = In(l) \cup {e.conn}
<1> DEFINE m == Append(l, e)
<1>1. /\ Len(l) \in Nat /\ m \in Seq(PoolEntry) /\ Len(m) = Len(l) + 1
      /\ \A i \in 1 .. Len(l) : m[i] = l[i]
      /\ m[Len(l) + 1] = e
  BY AppendProperties, LenProperties
<1> HIDE DEF m
<1>2. \A i \in 1 .. Len(m) : i \in 1 .. Len(l) \/ i = Len(l) + 1
  BY <1>1
<1>3. 1 .. Len(l) \subseteq 1 .. Len(m) /\ Len(l) + 1 \in 1 .. Len(m)
  BY <1>1
<1>4. \A i \in 1 .. Len(l) : l[i].conn # e.conn
  BY DEF In
<1>5. Distinct(m)
  <2> SUFFICES ASSUME NEW i \in 1 .. Len(m), NEW j \in 1 .. Len(m), m[i].conn = m[j].conn
               PROVE  i = j
    BY DEF Distinct
  <2>1. CASE i \in 1 .. Len(l) /\ j \in 1 .. Len(l)
    BY <2>1, <1>1 DEF Distinct
  <2>2. CASE i = Len(l) + 1 /\ j \in 1 .. Len(l)
    BY <2>2, <1>1, <1>4
  <2>3. CASE i \in 1 .. Len(l) /\ j = Len(l) + 1
    BY <2>3, <1>1, <1>4
  <2>4. CASE i = Len(l) + 1 /\ j = Len(l) + 1
    BY <2>4
  <2> QED BY <1>2, <2>1, <2>2, <2>3, <2>4
<1>6. ASSUME NEW c \in In(m) PROVE c \in In(l) \cup {e.conn}
  BY <1>1, <1>2 DEF In
<1>7. ASSUME NEW c \in In(l) \cup {e.conn} PROVE c \in In(m)
  BY <1>1, <1>3 DEF In
<1> QED BY <1>1, <1>5, <1>6, <1>7 DEF m

(* What the list without its last entry is. *)
LEMMA FrontOf ==
  ASSUME NEW l \in Seq(PoolEntry), l # <<>>
  PROVE  /\ Len(l) \in Nat /\ Len(l) > 0
         /\ SubSeq(l, 1, Len(l) - 1) \in Seq(PoolEntry)
         /\ Len(SubSeq(l, 1, Len(l) - 1)) = Len(l) - 1
         /\ \A i \in 1 .. Len(l) - 1 : SubSeq(l, 1, Len(l) - 1)[i] = l[i]
<1> DEFINE m == SubSeq(l, 1, Len(l) - 1)
           n == Len(l)
<1>1. n \in Nat /\ n > 0 /\ n \in 1 .. Len(l)
  BY EmptySeq, LenProperties
<1>2. n \in Nat /\ n - 1 \in 0 .. n /\ (n - 1) - 1 + 1 = n - 1
  BY <1>1
<1>3. m \in Seq(PoolEntry) /\ Len(m) = n - 1
  BY <1>1, <1>2, SubSeqProperties
<1>4. \A i \in 1 .. n - 1 : m[i] = l[1 + i - 1]
  BY <1>1, <1>2, SubSeqProperties
<1> QED BY <1>1, <1>3, <1>4

(* A list without its last entry holds the other connections. *)
LEMMA FrontIn ==
  ASSUME NEW l \in Seq(PoolEntry), l # <<>>, Distinct(l)
  PROVE  /\ SubSeq(l, 1, Len(l) - 1) \in Seq(PoolEntry)
         /\ Len(SubSeq(l, 1, Len(l) - 1)) = Len(l) - 1 /\ Len(l) > 0
         /\ Distinct(SubSeq(l, 1, Len(l) - 1))
         /\ In(SubSeq(l, 1, Len(l) - 1)) = In(l) \ {l[Len(l)].conn}
         /\ l[Len(l)].conn \in In(l)
<1> DEFINE m == SubSeq(l, 1, Len(l) - 1)
           n == Len(l)
<1>1. n \in Nat /\ n > 0 /\ n \in 1 .. Len(l)
  BY EmptySeq, LenProperties
<1>2. /\ m \in Seq(PoolEntry) /\ Len(m) = n - 1
      /\ \A i \in 1 .. n - 1 : m[i] = l[i]
  BY FrontOf
<1> HIDE DEF m
<1>3. 1 .. Len(m) = 1 .. n - 1 /\ 1 .. n - 1 \subseteq 1 .. Len(l)
  BY <1>1, <1>2
<1>4. Distinct(m)
  BY <1>2, <1>3 DEF Distinct
<1>5. ASSUME NEW c \in In(m) PROVE c \in In(l) \ {l[n].conn}
  <2>1. PICK i \in 1 .. n - 1 : c = l[i].conn
    BY <1>2, <1>3 DEF In
  <2>2. i # n /\ i \in 1 .. Len(l)
    BY <1>1
  <2>3. c # l[n].conn
    BY <2>1, <2>2, <1>1 DEF Distinct
  <2> QED BY <2>1, <2>2, <2>3 DEF In
<1>6. ASSUME NEW c \in In(l), c # l[n].conn PROVE c \in In(m)
  <2>1. PICK i \in 1 .. Len(l) : c = l[i].conn
    BY DEF In
  <2>2. i \in 1 .. n - 1
    BY <2>1, <1>6, <1>1
  <2> QED BY <2>1, <2>2, <1>2, <1>3 DEF In
<1>7. l[n].conn \in In(l)
  BY <1>1 DEF In
<1> HIDE DEF n
<1> QED BY <1>1, <1>2, <1>4, <1>5, <1>6, <1>7 DEF m, n

(* What put leaves: the list without some of its first entries, and not    *)
(* more than the limit if it was not more than one above.                  *)
LEMMA TrimmedDrops ==
  ASSUME NEW l \in Seq(PoolEntry), NEW t \in Nat, Len(l) <= Limit + 1
  PROVE  LET m == Trimmed(Fresh(l, t))
         IN Dropped(l, Len(l) - Len(m), m) /\ Len(m) <= Limit
<1> DEFINE f == Fresh(l, t)
           k == Leading(l, t)
<1>1. Dropped(l, k, f)
  BY FreshDrops
<1> HIDE DEF f, k
<1>2. /\ Len(l) \in Nat /\ Len(f) \in Nat /\ k \in 0 .. Len(l) /\ Limit \in Nat \ {0}
      /\ Len(f) = Len(l) - k /\ f \in Seq(PoolEntry)
      /\ \A i \in 1 .. Len(f) : f[i] = l[i + k]
  BY <1>1, LenProperties, LimitAssumption DEF Dropped
<1>3. CASE Len(f) <= Limit
  <2>1. Trimmed(f) = f
    BY <1>2, <1>3 DEF Trimmed
  <2>2. Len(l) - Len(f) = k
    BY <1>2
  <2> QED BY <1>1, <1>3, <2>1, <2>2 DEF f
<1>4. CASE Len(f) > Limit
  <2> DEFINE m == Tail(f)
  <2>1. Trimmed(f) = m
    BY <1>4 DEF Trimmed
  <2>2. f # <<>>
    BY <1>2, <1>4, EmptySeq
  <2>3. /\ m \in Seq(PoolEntry) /\ Len(m) = Len(f) - 1
        /\ \A i \in 1 .. Len(m) : m[i] = f[i + 1]
    BY <1>2, <2>2, HeadTailProperties
  <2> HIDE DEF m
  <2>4. k = 0 /\ Len(l) = Limit + 1 /\ Len(m) = Limit /\ Len(l) - Len(m) = 1
    BY <1>2, <1>4, <2>3
  <2>5. ASSUME NEW i \in 1 .. Len(m) PROVE m[i] = l[i + 1]
    <3>1. i + 1 \in 1 .. Len(f) /\ (i + 1) + k = i + 1
      BY <1>2, <2>3, <2>4
    <3> QED BY <3>1, <1>2, <2>3
  <2>6. Dropped(l, 1, m)
    BY <1>2, <2>3, <2>4, <2>5 DEF Dropped
  <2> QED BY <2>1, <2>4, <2>6, <1>2 DEF f
<1> QED BY <1>2, <1>3, <1>4

-----------------------------------------------------------------------------
(* The ownership of connections in terms of the sets In(idle[p]).          *)
Owns(id, cn, op) ==
    /\ \A s, t \in Sessions : cn[s] # None /\ cn[s] = cn[t] => s = t
    /\ \A p \in Pools : Distinct(id[p])
    /\ \A p, q \in Pools : p # q => In(id[p]) \cap In(id[q]) = {}
    /\ \A s \in Sessions, p \in Pools : cn[s] \notin In(id[p])
    /\ \A c : c \in op <=> \/ c # None /\ \E s \in Sessions : cn[s] = c
                           \/ \E p \in Pools : c \in In(id[p])
Owned == Owns(idle, conn, open)

(* Within the limit, EveryConnectionOwned says the same. *)
LEMMA OwnedIsOwned ==
  ASSUME TypeOK, \A p \in Pools : Len(idle[p]) <= Limit
  PROVE  EveryConnectionOwned <=> Owned
<1> DEFINE C(x) == idle[x[1]][x[2]].conn
<1>1. \A p \in Pools : \A i \in 1 .. Len(idle[p]) : <<p, i>> \in Slots
  <2> SUFFICES ASSUME NEW p \in Pools, NEW i \in 1 .. Len(idle[p]) PROVE <<p, i>> \in Slots
    OBVIOUS
  <2>1. idle[p] \in Seq(PoolEntry) /\ Len(idle[p]) \in Nat /\ Limit \in Nat
    BY LenProperties, LimitAssumption DEF TypeOK
  <2>2. i \in 1 .. Limit
    BY <2>1
  <2> QED BY <2>2 DEF Slots
<1>2. \A x \in Slots : x[1] \in Pools /\ x[2] \in 1 .. Len(idle[x[1]]) /\ x = <<x[1], x[2]>>
  <2> SUFFICES ASSUME NEW x \in Slots
               PROVE  x[1] \in Pools /\ x[2] \in 1 .. Len(idle[x[1]]) /\ x = <<x[1], x[2]>>
    OBVIOUS
  <2>1. x[1] \in Pools /\ x[2] \in 1 .. Limit /\ x = <<x[1], x[2]>> /\ x[2] <= Len(idle[x[1]])
    BY DEF Slots
  <2>2. Len(idle[x[1]]) \in Nat
    BY <2>1, LenProperties DEF TypeOK
  <2> QED BY <2>1, <2>2, LimitAssumption
<1>3. ASSUME EveryConnectionOwned PROVE Owned
  <2>1. ASSUME NEW p \in Pools, NEW i \in 1 .. Len(idle[p]),
               NEW q \in Pools, NEW j \in 1 .. Len(idle[q]),
               idle[p][i].conn = idle[q][j].conn
        PROVE  p = q /\ i = j
    <3>1. <<p, i>> \in Slots /\ <<q, j>> \in Slots
      BY <1>1
    <3>2. <<p, i>> = <<q, j>>
      BY <1>3, <2>1, <3>1 DEF EveryConnectionOwned
    <3> QED BY <3>2
  <2>2. \A p \in Pools : Distinct(idle[p])
    BY <2>1 DEF Distinct
  <2>3. \A p, q \in Pools : p # q => In(idle[p]) \cap In(idle[q]) = {}
    BY <2>1 DEF In
  <2>4. ASSUME NEW s \in Sessions, NEW p \in Pools, NEW i \in 1 .. Len(idle[p])
        PROVE  conn[s] # idle[p][i].conn
    <3>1. <<p, i>> \in Slots
      BY <1>1
    <3> QED BY <3>1, <1>3 DEF EveryConnectionOwned
  <2>5. \A s \in Sessions, p \in Pools : conn[s] \notin In(idle[p])
    BY <2>4 DEF In
  <2>6. ASSUME NEW p \in Pools, NEW i \in 1 .. Len(idle[p]) PROVE idle[p][i].conn \in open
    <3>1. <<p, i>> \in Slots
      BY <1>1
    <3> QED BY <3>1, <1>3 DEF EveryConnectionOwned
  <2>7. ASSUME NEW c \in open
        PROVE  \/ c # None /\ \E s \in Sessions : conn[s] = c
               \/ \E p \in Pools : c \in In(idle[p])
    <3>1. CASE c \in {conn[s] : s \in {t \in Sessions : conn[t] # None}}
      BY <3>1
    <3>2. CASE c \in {C(x) : x \in Slots}
      <4>1. PICK x \in Slots : c = C(x)
        BY <3>2
      <4> QED BY <4>1, <1>2 DEF In
    <3> QED BY <3>1, <3>2, <1>3, <2>7 DEF EveryConnectionOwned
  <2>8. \A s \in Sessions : conn[s] # None => conn[s] \in open
    BY <1>3 DEF EveryConnectionOwned
  <2>9. \A p \in Pools : In(idle[p]) \subseteq open
    BY <2>6 DEF In
  <2> QED BY <1>3, <2>2, <2>3, <2>5, <2>7, <2>8, <2>9 DEF Owned, Owns, EveryConnectionOwned
<1>4. ASSUME Owned PROVE EveryConnectionOwned
  <2>1. ASSUME NEW x \in Slots PROVE C(x) \in In(idle[x[1]])
    BY <1>2 DEF In
  <2>2. ASSUME NEW x \in Slots, NEW y \in Slots, C(x) = C(y) PROVE x = y
    <3> DEFINE p == x[1]
               q == y[1]
    <3>0. p \in Pools /\ q \in Pools /\ C(x) \in In(idle[p]) /\ C(x) \in In(idle[q])
      BY <2>1, <2>2, <1>2
    <3>1. p = q
      <4> HIDE DEF C, p, q
      <4> QED BY <3>0, <1>4 DEF Owned, Owns
    <3>2. x[2] = y[2]
      BY <3>1, <2>2, <1>2, <1>4 DEF Owned, Owns, Distinct
    <3> QED BY <3>1, <3>2, <1>2
  <2>3. \A s \in Sessions, x \in Slots : conn[s] # C(x)
    BY <2>1, <1>2, <1>4 DEF Owned, Owns
  <2>4. ASSUME NEW c \in open
        PROVE  c \in {conn[s] : s \in {t \in Sessions : conn[t] # None}} \cup {C(x) : x \in Slots}
    <3>1. CASE c # None /\ \E s \in Sessions : conn[s] = c
      BY <3>1
    <3>2. CASE \E p \in Pools : c \in In(idle[p])
      <4>0. PICK p \in Pools : c \in In(idle[p])
        BY <3>2
      <4>1. PICK i \in 1 .. Len(idle[p]) : c = idle[p][i].conn
        BY <4>0 DEF In
      <4>2. <<p, i>> \in Slots /\ C(<<p, i>>) = c
        BY <1>1, <4>1
      <4> QED BY <4>2
    <3> QED BY <3>1, <3>2, <1>4 DEF Owned, Owns
  <2>5. ASSUME NEW x \in Slots PROVE C(x) \in open
    BY <2>1, <1>2, <1>4 DEF Owned, Owns
  <2>6. \A s \in Sessions : conn[s] # None => conn[s] \in open
    BY <1>4 DEF Owned, Owns
  <2> QED BY <1>4, <2>2, <2>3, <2>4, <2>5, <2>6 DEF Owned, Owns, EveryConnectionOwned
<1> QED BY <1>3, <1>4

(***************************************************************************)
(* A session and a pool exchange connections, and those in G are closed:   *)
(* what the two have together afterwards is what they had, without G.      *)
(***************************************************************************)
Having(c) == {c} \ {None}
(* A step that moves one connection between its owners keeps one owner each. *)
LEMMA OwnsStep ==
  ASSUME NEW id, NEW cn, NEW op, NEW id2, NEW cn2, NEW op2,
         Owns(id, cn, op), DOMAIN id = Pools, DOMAIN cn = Sessions,
         NEW s \in Sessions, NEW p \in Pools, NEW m, NEW c, NEW G,
         id2 = [id EXCEPT ![p] = m], Distinct(m), \A q \in Pools : None \notin In(id[q]),
         cn2 = [cn EXCEPT ![s] = c], c \notin In(m),
         In(m) \cup Having(c) = (In(id[p]) \cup Having(cn[s])) \ G,
         G \subseteq In(id[p]) \cup Having(cn[s]), op2 = op \ G
  PROVE  Owns(id2, cn2, op2)
<1> DEFINE P(q) == In(id[q])
           P2(q) == In(id2[q])
<1>1. id2[p] = m /\ (\A q \in Pools : q # p => id2[q] = id[q])
  OBVIOUS
<1>2. cn2[s] = c /\ (\A t \in Sessions : t # s => cn2[t] = cn[t])
  OBVIOUS
<1>3. /\ \A t, u \in Sessions : cn[t] # None /\ cn[t] = cn[u] => t = u
      /\ \A q, r \in Pools : q # r => P(q) \cap P(r) = {}
      /\ \A t \in Sessions, q \in Pools : cn[t] \notin P(q)
      /\ \A d : d \in op <=> \/ d # None /\ \E t \in Sessions : cn[t] = d
                             \/ \E q \in Pools : d \in P(q)
  BY DEF Owns
<1>4. \A q \in Pools : Distinct(id2[q])
  BY <1>1 DEF Owns
<1>5. P2(p) = In(m) /\ (\A q \in Pools : q # p => P2(q) = P(q))
  BY <1>1
<1>6. \A d : d \in P2(p) \/ (d = c /\ d # None) <=>
               (d \in P(p) \/ (d = cn[s] /\ d # None)) /\ d \notin G
  BY <1>5 DEF Having
<1>7. \A d \in G : d \in P(p) \/ (d = cn[s] /\ d # None)
  BY DEF Having
<1> HIDE DEF P, P2
<1>8. \A t, u \in Sessions : cn2[t] # None /\ cn2[t] = cn2[u] => t = u
  <2>1. ASSUME NEW t \in Sessions, t # s, c # None PROVE cn[t] # c
    <3>1. c \in P(p) \/ c = cn[s]
      BY <1>6, <2>1
    <3> QED BY <3>1, <1>3, <2>1
  <2> QED BY <2>1, <1>2, <1>3
<1>9. \A q, r \in Pools : q # r => P2(q) \cap P2(r) = {}
  <2>1. ASSUME NEW q \in Pools, q # p, NEW d, d \in P2(p), d \in P2(q) PROVE FALSE
    <3>1. d \in P(q) /\ (d \in P(p) \/ d = cn[s])
      BY <2>1, <1>5, <1>6
    <3> QED BY <3>1, <1>3, <2>1
  <2> QED BY <2>1, <1>3, <1>5
<1>10. \A t \in Sessions, q \in Pools : cn2[t] \notin P2(q)
  <2> SUFFICES ASSUME NEW t \in Sessions, NEW q \in Pools, cn2[t] \in P2(q) PROVE FALSE
    OBVIOUS
  <2>1. CASE t = s /\ q = p
    BY <2>1, <1>2, <1>5
  <2>2. CASE t = s /\ q # p
    <3>1. c \in P(q)
      BY <2>2, <1>2, <1>5
    <3>2. c = None \/ c \in P(p) \/ c = cn[s]
      BY <1>6
    <3>3. c # None
      BY <3>1 DEF P
    <3> QED BY <3>1, <3>2, <3>3, <2>2, <1>3
  <2>3. CASE t # s /\ q = p
    <3>1. cn[t] \in P(p) \/ (cn[t] = cn[s] /\ cn[t] # None)
      BY <2>3, <1>2, <1>6
    <3> QED BY <3>1, <2>3, <1>3
  <2>4. CASE t # s /\ q # p
    BY <2>4, <1>2, <1>3, <1>5
  <2> QED BY <2>1, <2>2, <2>3, <2>4
<1>11. ASSUME NEW d
       PROVE  d \in op2 <=> \/ d # None /\ \E t \in Sessions : cn2[t] = d
                            \/ \E q \in Pools : d \in P2(q)
  <2>1. ASSUME d \in op2
        PROVE  \/ d # None /\ \E t \in Sessions : cn2[t] = d
               \/ \E q \in Pools : d \in P2(q)
    <3>1. d \in op /\ d \notin G
      BY <2>1
    <3>2. CASE d \in P(p) \/ (d = cn[s] /\ d # None)
      BY <3>1, <3>2, <1>6, <1>2
    <3>3. CASE \E t \in Sessions : t # s /\ d = cn[t] /\ d # None
      BY <3>3, <1>2
    <3>4. CASE \E q \in Pools : q # p /\ d \in P(q)
      BY <3>4, <1>5
    <3> QED BY <3>1, <3>2, <3>3, <3>4, <1>3
  <2>2. ASSUME NEW t \in Sessions, cn2[t] = d, d # None PROVE d \in op2
    <3>1. CASE t = s
      <4>1. (d \in P(p) \/ (d = cn[s] /\ d # None)) /\ d \notin G
        BY <3>1, <2>2, <1>2, <1>6
      <4> QED BY <4>1, <1>3
    <3>2. CASE t # s
      <4>1. cn[t] = d
        BY <3>2, <2>2, <1>2
      <4>2. d \notin G
        BY <4>1, <3>2, <2>2, <1>3, <1>7
      <4> QED BY <4>1, <4>2, <2>2, <1>3
    <3> QED BY <3>1, <3>2
  <2>3. ASSUME NEW q \in Pools, d \in P2(q) PROVE d \in op2
    <3>1. CASE q = p
      <4>1. (d \in P(p) \/ (d = cn[s] /\ d # None)) /\ d \notin G
        BY <3>1, <2>3, <1>6
      <4> QED BY <4>1, <1>3
    <3>2. CASE q # p
      <4>1. d \in P(q)
        BY <3>2, <2>3, <1>5
      <4>2. d \notin G
        BY <4>1, <3>2, <1>3, <1>7
      <4> QED BY <4>1, <4>2, <1>3
    <3> QED BY <3>1, <3>2
  <2> QED BY <2>1, <2>2, <2>3
<1> QED BY <1>4, <1>8, <1>9, <1>10, <1>11 DEF Owns, P2

-----------------------------------------------------------------------------
(* The invariant in the form that the steps are proved for.                *)
Unbroken ==
    /\ \A p \in Pools : \A c \in In(idle[p]) : recyclable[c]
    /\ \A s \in Sessions : pc[s] \in {"dispose", "put"} => recyclable[conn[s]]
Work == TypeOK /\ WithinLimit /\ OnePool /\ Owned /\ Unbroken /\ Placed

(* The form the proofs work with gives the invariant of the runs. *)
LEMMA WorkIsPoolInv == Work => PoolInv
<1> SUFFICES ASSUME Work PROVE PoolInv
  OBVIOUS
<1>1. \A p \in Pools : Len(idle[p]) <= Limit
  BY DEF Work, WithinLimit
<1>2. EveryConnectionOwned
  BY <1>1, OwnedIsOwned DEF Work
<1>3. BrokenNotReused
  BY DEF Work, Unbroken, BrokenNotReused, In
<1> QED BY <1>2, <1>3 DEF Work, PoolInv

(* What a list of a pool holds. *)
LEMMA ListFacts ==
  ASSUME Work, NEW p \in Pools
  PROVE  /\ idle[p] \in Seq(PoolEntry) /\ Len(idle[p]) \in Nat /\ Len(idle[p]) <= Limit
         /\ size[p] = Len(idle[p]) /\ Limit \in Nat \ {0}
         /\ Distinct(idle[p]) /\ In(idle[p]) \subseteq Conns /\ None \notin In(idle[p])
<1>1. idle[p] \in Seq(PoolEntry)
  BY DEF Work, TypeOK
<1>2. In(idle[p]) \subseteq Conns
  <2> SUFFICES ASSUME NEW i \in 1 .. Len(idle[p]) PROVE idle[p][i].conn \in Conns
    BY DEF In
  <2>1. idle[p][i] \in PoolEntry
    BY <1>1, ElementOfSeq
  <2> QED BY <2>1 DEF PoolEntry
<1> QED BY <1>1, <1>2, LenProperties, LimitAssumption, NoneAssumption
        DEF Work, WithinLimit, Owned, Owns

(* Where a session stands decides what it has. *)
LEMMA PlaceFacts ==
  ASSUME Work, NEW s \in Sessions
  PROVE  /\ pc[s] \notin {"closed", "create", "gcdrop"} => ptr[s] \in Pools /\ ptr[s] = current
         /\ pc[s] \in {"open", "dispose", "put"} => conn[s] \in Conns
         /\ pc[s] \notin {"open", "dispose", "put"} => conn[s] = None
         /\ read[s] \in Nat /\ now \in Nat
BY DEF Work, Placed, TypeOK, OnePool

(* Steps that change neither lists nor connections. *)
LEMMA QuietStep ==
  ASSUME Work, UNCHANGED <<idle, size, conn, recyclable, open>>, TypeOK', OnePool', Placed',
         \A s \in Sessions : pc'[s] \in {"dispose", "put"} => recyclable[conn[s]]
  PROVE  Work'
<1>1. WithinLimit'
  BY DEF Work, WithinLimit
<1>2. Owned'
  <2>1. idle' = idle /\ conn' = conn /\ open' = open
    OBVIOUS
  <2>2. Owns(idle', conn', open')
    BY <2>1 DEF Work, Owned
  <2> QED BY <2>2 DEF Owned
<1>3. Unbroken'
  BY DEF Work, Unbroken, In
<1> QED BY <1>1, <1>2, <1>3 DEF Work

(* The manager's map is only read. *)
LEMMA LookupStep == ASSUME Work, NEW s \in Sessions, Lookup(s) PROVE Work'
<1> USE DEF Lookup, Goes, Work
<1>1. TypeOK' BY DEF TypeOK
<1>2. OnePool' BY DEF TypeOK, OnePool
<1>3. Placed' BY NoneAssumption DEF TypeOK, Placed
<1>4. \A t \in Sessions : pc'[t] \in {"dispose", "put"} => recyclable[conn[t]]
  BY DEF TypeOK, Unbroken
<1> QED BY <1>1, <1>2, <1>3, <1>4, QuietStep

(* The pool that open creates is empty, and new or the one that is there. *)
LEMMA CreateStep == ASSUME Work, NEW s \in Sessions, Create(s) PROVE Work'
<1> USE DEF Create, Goes, Work
<1>1. TypeOK' BY DEF TypeOK, Unused
<1>2. OnePool' BY NoneAssumption DEF TypeOK, OnePool, Unused
<1>3. Placed' BY NoneAssumption DEF TypeOK, Placed, Unused
<1>4. \A t \in Sessions : pc'[t] \in {"dispose", "put"} => recyclable[conn[t]]
  BY DEF TypeOK, Unbroken
<1> QED BY <1>1, <1>2, <1>3, <1>4, QuietStep

(* pool::get reads the clock before it takes the lock. *)
LEMMA GetTimeStep == ASSUME Work, NEW s \in Sessions, GetTime(s) PROVE Work'
<1> USE DEF GetTime, Goes, Work
<1>1. TypeOK' BY DEF TypeOK
<1>2. OnePool' BY DEF OnePool
<1>3. Placed' BY DEF TypeOK, Placed
<1>4. \A t \in Sessions : pc'[t] \in {"dispose", "put"} => recyclable[conn[t]]
  BY DEF TypeOK, Unbroken
<1> QED BY <1>1, <1>2, <1>3, <1>4, QuietStep

(* A connection that cannot be made is owned by nobody. *)
LEMMA ConnectFailsStep == ASSUME Work, NEW s \in Sessions, ConnectFails(s) PROVE Work'
<1> USE DEF ConnectFails, Goes, Work
<1>1. TypeOK' BY DEF TypeOK
<1>2. OnePool' BY DEF TypeOK, OnePool
<1>3. Placed' BY DEF TypeOK, Placed
<1>4. \A t \in Sessions : pc'[t] \in {"dispose", "put"} => recyclable[conn[t]]
  BY DEF TypeOK, Unbroken
<1> QED BY <1>1, <1>2, <1>3, <1>4, QuietStep

(* pool::put reads the clock before it takes the lock. *)
LEMMA PutTimeStep == ASSUME Work, NEW s \in Sessions, PutTime(s) PROVE Work'
<1> USE DEF PutTime, Goes, Work
<1>1. TypeOK' BY DEF TypeOK
<1>2. OnePool' BY DEF OnePool
<1>3. Placed' BY DEF TypeOK, Placed
<1>4. \A t \in Sessions : pc'[t] \in {"dispose", "put"} => recyclable[conn[t]]
  BY DEF TypeOK, Unbroken
<1> QED BY <1>1, <1>2, <1>3, <1>4, QuietStep

(* gc copies the pointers to the pools. *)
LEMMA GcBeginStep == ASSUME Work, NEW s \in Sessions, GcBegin(s) PROVE Work'
<1> USE DEF GcBegin, Goes, Work
<1>1. TypeOK' BY DEF TypeOK
<1>2. OnePool' BY DEF TypeOK, OnePool
<1>3. Placed' BY NoneAssumption DEF TypeOK, Placed
<1>4. \A t \in Sessions : pc'[t] \in {"dispose", "put"} => recyclable[conn[t]]
  BY DEF TypeOK, Unbroken
<1> QED BY <1>1, <1>2, <1>3, <1>4, QuietStep

(* Time passes. *)
LEMMA TickStep == ASSUME Work, Tick PROVE Work'
<1> USE DEF Tick, Work
<1>1. TypeOK' BY DEF TypeOK
<1>2. OnePool' BY DEF OnePool
<1>3. Placed' BY DEF Placed
<1>4. \A t \in Sessions : pc'[t] \in {"dispose", "put"} => recyclable[conn[t]]
  BY DEF Unbroken
<1> QED BY <1>1, <1>2, <1>3, <1>4, QuietStep

-----------------------------------------------------------------------------
(* Steps in which a session and its pool exchange connections.             *)
LEMMA Exchange ==
  ASSUME Work, NEW s \in Sessions, NEW p \in Pools, NEW m \in Seq(PoolEntry), NEW c, NEW G,
         Len(m) <= Limit, Distinct(m), c \notin In(m),
         idle' = [idle EXCEPT ![p] = m], size' = [size EXCEPT ![p] = Len(m)],
         conn' = [conn EXCEPT ![s] = c], open' = open \ G,
         In(m) \cup Having(c) = (In(idle[p]) \cup Having(conn[s])) \ G,
         G \subseteq In(idle[p]) \cup Having(conn[s])
  PROVE  /\ WithinLimit' /\ Owned'
         /\ idle' \in [Pools -> Seq(PoolEntry)] /\ size' \in [Pools -> Nat]
         /\ open' \subseteq Conns
         /\ idle'[p] = m /\ (\A q \in Pools : q # p => idle'[q] = idle[q])
         /\ \A d \in In(m) : d \in In(idle[p]) \/ d = conn[s]
<1>1. /\ idle \in [Pools -> Seq(PoolEntry)] /\ size \in [Pools -> Nat] /\ Len(m) \in Nat
      /\ conn \in [Sessions -> Conns \cup {None}] /\ open \subseteq Conns
  BY LenProperties DEF Work, TypeOK
<1>2. WithinLimit'
  BY <1>1 DEF Work, WithinLimit
<1>3. Owned'
  <2>1. \A q \in Pools : None \notin In(idle[q])
    BY ListFacts
  <2>2. Owns(idle, conn, open) /\ DOMAIN idle = Pools /\ DOMAIN conn = Sessions
    BY <1>1 DEF Work, Owned
  <2>3. Owns(idle', conn', open')
    BY <2>1, <2>2, OwnsStep
  <2> QED BY <2>3 DEF Owned
<1>4. \A d \in In(m) : d \in In(idle[p]) \/ d = conn[s]
  BY DEF Having
<1> QED BY <1>1, <1>2, <1>3, <1>4

(* The list of the pool after such a step belongs to the only pool. *)
LEMMA StillOnePool ==
  ASSUME Work, NEW p \in Pools, p = current, current' = current,
         \A q \in Pools : q # p => idle'[q] = idle[q],
         \A t \in Sessions : ptr'[t] = ptr[t] \/ ptr'[t] = None
  PROVE  OnePool'
BY DEF Work, OnePool

(* pool::get closes the expired connections and hands out the last one. *)
LEMMA GetStep == ASSUME Work, NEW s \in Sessions, Get(s) PROVE Work'
<1> DEFINE p == ptr[s]
           l == idle[p]
           rest == Fresh(l, read[s])
           k == Leading(l, read[s])
<1>1. pc[s] = "get" /\ Take(s, rest)
  BY DEF Get
<1>2. p \in Pools /\ p = current /\ conn[s] = None /\ read[s] \in Nat
  BY <1>1, PlaceFacts
<1>3. /\ l \in Seq(PoolEntry) /\ Len(l) \in Nat /\ Len(l) <= Limit /\ size[p] = Len(l)
      /\ Distinct(l) /\ In(l) \subseteq Conns /\ None \notin In(l) /\ Limit \in Nat
  BY <1>2, ListFacts
<1>4. Dropped(l, k, rest)
  BY <1>2, <1>3, FreshDrops
<1>5. /\ rest \in Seq(PoolEntry) /\ Distinct(rest) /\ In(rest) = In(l) \ Closed(l, k)
      /\ Closed(l, k) \subseteq In(l)
  BY <1>3, <1>4, DroppedIn
<1>6. /\ k \in 0 .. Len(l) /\ Len(rest) = Len(l) - k /\ Len(rest) \in Nat
      /\ Len(l) - Len(rest) = k /\ Len(rest) <= Limit
  BY <1>3, <1>4 DEF Dropped
<1>7. open' = open \ Closed(l, k) /\ UNCHANGED <<current, ptr, read, recyclable, now>>
  BY <1>1, <1>6 DEF Take
<1> HIDE DEF k, rest
<1>8. CASE rest # <<>>
  <2> DEFINE m == SubSeq(rest, 1, Len(rest) - 1)
             c == rest[Len(rest)].conn
  <2>1. /\ m \in Seq(PoolEntry) /\ Len(m) = Len(rest) - 1 /\ Len(rest) > 0
        /\ Distinct(m) /\ In(m) = In(rest) \ {c} /\ c \in In(rest)
    BY <1>5, <1>8, FrontIn
  <2>2. /\ Goes(s, "get", "open") /\ conn' = [conn EXCEPT ![s] = c]
        /\ idle' = [idle EXCEPT ![p] = m]
        /\ size' = [size EXCEPT ![p] = @ - (Len(l) - Len(rest)) - 1]
    BY <1>1, <1>8 DEF Take
  <2> HIDE DEF m, c
  <2>3. size' = [size EXCEPT ![p] = Len(m)] /\ Len(m) <= Limit /\ Len(m) \in Nat
    BY <1>2, <1>3, <1>6, <2>1, <2>2 DEF Work, TypeOK
  <2>4. c \in Conns /\ c # None /\ c \notin In(m) /\ c \in In(l)
    BY <1>3, <1>5, <2>1
  <2>5. /\ In(m) \cup Having(c) = (In(l) \cup Having(conn[s])) \ Closed(l, k)
        /\ Closed(l, k) \subseteq In(l) \cup Having(conn[s])
    BY <1>2, <1>5, <2>1, <2>4 DEF Having
  <2>6. /\ WithinLimit' /\ Owned'
        /\ idle' \in [Pools -> Seq(PoolEntry)] /\ size' \in [Pools -> Nat]
        /\ open' \subseteq Conns
        /\ idle'[p] = m /\ (\A q \in Pools : q # p => idle'[q] = idle[q])
        /\ \A d \in In(m) : d \in In(l) \/ d = conn[s]
    <3> HIDE DEF l, p
    <3>1. idle[p] = l BY DEF l
    <3> QED BY <1>2, <1>7, <2>1, <2>2, <2>3, <2>4, <2>5, <3>1, Exchange
  <2>7. TypeOK'
    BY <1>7, <2>2, <2>4, <2>6 DEF Work, TypeOK, Goes
  <2>8. OnePool'
    BY <1>2, <1>7, <2>6, StillOnePool
  <2>9. Placed'
    BY <1>7, <2>2, <2>4 DEF Work, TypeOK, Placed, Goes
  <2>10. Unbroken'
    <3>1. \A q \in Pools : \A d \in In(idle'[q]) : recyclable'[d]
      BY <1>2, <1>5, <1>7, <2>1, <2>6 DEF Work, Unbroken
    <3>2. \A t \in Sessions : pc'[t] \in {"dispose", "put"} => recyclable'[conn'[t]]
      BY <1>7, <2>2 DEF Work, TypeOK, Unbroken, Goes
    <3> QED BY <3>1, <3>2 DEF Unbroken
  <2> QED BY <2>6, <2>7, <2>8, <2>9, <2>10 DEF Work
<1>9. CASE rest = <<>>
  <2>1. /\ Goes(s, "get", "connect") /\ conn' = conn /\ idle' = [idle EXCEPT ![p] = <<>>]
        /\ size' = [size EXCEPT ![p] = @ - (Len(l) - Len(rest))]
    BY <1>1, <1>9 DEF Take
  <2>2. /\ <<>> \in Seq(PoolEntry) /\ Len(<<>>) = 0 /\ In(<<>>) = {} /\ Distinct(<<>>)
        /\ Len(rest) = 0
    BY <1>9, EmptySeq DEF In, Distinct
  <2>3. size' = [size EXCEPT ![p] = Len(<<>>)] /\ conn' = [conn EXCEPT ![s] = None]
    BY <1>2, <1>3, <1>6, <2>1, <2>2 DEF Work, TypeOK
  <2>4. /\ In(<<>>) \cup Having(None) = (In(l) \cup Having(conn[s])) \ Closed(l, k)
        /\ Closed(l, k) \subseteq In(l) \cup Having(conn[s])
    BY <1>2, <1>5, <1>9, <2>2 DEF Having
  <2>5. /\ WithinLimit' /\ Owned'
        /\ idle' \in [Pools -> Seq(PoolEntry)] /\ size' \in [Pools -> Nat]
        /\ open' \subseteq Conns
        /\ idle'[p] = <<>> /\ (\A q \in Pools : q # p => idle'[q] = idle[q])
    <3> HIDE DEF l, p
    <3>1. idle[p] = l /\ None \notin In(<<>>) /\ Len(<<>>) <= Limit
      BY <1>3, <2>2 DEF l
    <3> QED BY <1>2, <1>7, <2>1, <2>2, <2>3, <2>4, <3>1, Exchange
  <2>6. TypeOK'
    BY <1>7, <2>1, <2>5 DEF Work, TypeOK, Goes
  <2>7. OnePool'
    BY <1>2, <1>7, <2>5, StillOnePool
  <2>8. Placed'
    BY <1>7, <2>1 DEF Work, TypeOK, Placed, Goes
  <2>9. Unbroken'
    <3>1. \A q \in Pools : \A d \in In(idle'[q]) : recyclable'[d]
      BY <1>2, <1>7, <2>2, <2>5 DEF Work, Unbroken
    <3>2. \A t \in Sessions : pc'[t] \in {"dispose", "put"} => recyclable'[conn'[t]]
      BY <1>7, <2>1 DEF Work, TypeOK, Unbroken, Goes
    <3> QED BY <3>1, <3>2 DEF Unbroken
  <2> QED BY <2>5, <2>6, <2>7, <2>8, <2>9 DEF Work
<1> QED BY <1>8, <1>9

(* put, with the connection of the session at the end of the list or with  *)
(* none.                                                                   *)
LEMMA PutLockedStep ==
  ASSUME Work, NEW s \in Sessions, NEW all \in Seq(PoolEntry), PutLocked(s, all),
         ptr[s] \in Pools, Distinct(all), Len(all) <= Limit + 1,
         In(all) = In(idle[ptr[s]]) \cup Having(conn[s]),
         conn' = [conn EXCEPT ![s] = None]
  PROVE  /\ WithinLimit' /\ Owned'
         /\ idle' \in [Pools -> Seq(PoolEntry)] /\ size' \in [Pools -> Nat]
         /\ open' \subseteq Conns
         /\ \A q \in Pools : q # ptr[s] => idle'[q] = idle[q]
         /\ \A d \in In(idle'[ptr[s]]) : d \in In(idle[ptr[s]]) \/ d = conn[s]
<1> DEFINE p == ptr[s]
           l == idle[p]
           m == Trimmed(Fresh(all, read[s]))
           k == Len(all) - Len(m)
<1>1. /\ l \in Seq(PoolEntry) /\ Len(l) \in Nat /\ size[p] = Len(l) /\ Limit \in Nat
      /\ None \notin In(l) /\ read[s] \in Nat /\ Len(all) \in Nat
  BY ListFacts, PlaceFacts, LenProperties
<1>2. Dropped(all, k, m) /\ Len(m) <= Limit
  BY <1>1, TrimmedDrops
<1>3. /\ idle' = [idle EXCEPT ![p] = m] /\ open' = open \ Closed(all, k)
      /\ size' = [size EXCEPT ![p] = @ + (Len(all) - Len(l)) - k]
  BY DEF PutLocked
<1> HIDE DEF m, k
<1>4. /\ m \in Seq(PoolEntry) /\ Distinct(m)
      /\ In(m) = In(all) \ Closed(all, k) /\ Closed(all, k) \subseteq In(all)
  BY <1>2, DroppedIn
<1>5. Len(m) \in Nat /\ k \in Nat /\ Len(m) = Len(all) - k
  BY <1>1, <1>2, <1>4, LenProperties DEF Dropped
<1>6. size[p] + (Len(all) - Len(l)) - k = Len(m)
  BY <1>1, <1>5
<1>7. size' = [size EXCEPT ![p] = Len(m)]
  BY <1>3, <1>6 DEF Work, TypeOK
<1>8. None \notin In(m)
  BY <1>1, <1>4 DEF Having
<1>9. /\ In(m) \cup Having(None) = (In(l) \cup Having(conn[s])) \ Closed(all, k)
      /\ Closed(all, k) \subseteq In(l) \cup Having(conn[s])
  BY <1>4 DEF Having
<1>10. /\ WithinLimit' /\ Owned'
       /\ idle' \in [Pools -> Seq(PoolEntry)] /\ size' \in [Pools -> Nat]
       /\ open' \subseteq Conns
       /\ idle'[p] = m /\ (\A q \in Pools : q # p => idle'[q] = idle[q])
       /\ \A d \in In(m) : d \in In(l) \/ d = conn[s]
  <2> DEFINE G == Closed(all, k)
  <2> HIDE DEF G
  <2>1. /\ open' = open \ G
        /\ In(m) \cup Having(None) = (In(l) \cup Having(conn[s])) \ G
        /\ G \subseteq In(l) \cup Having(conn[s])
    BY <1>3, <1>9 DEF G
  <2>2. p \in Pools /\ m \in Seq(PoolEntry) /\ Len(m) <= Limit /\ Distinct(m)
    BY <1>2, <1>4
  <2>3. idle' = [idle EXCEPT ![p] = m] /\ size' = [size EXCEPT ![p] = Len(m)]
    BY <1>3, <1>7
  <2> HIDE DEF p
  <2> QED BY <1>8, <2>1, <2>2, <2>3, Exchange DEF l
<1> QED BY <1>10

(* pool::put adds a connection and closes the oldest over the limit. *)
LEMMA PutStep == ASSUME Work, NEW s \in Sessions, Put(s) PROVE Work'
<1> DEFINE p == ptr[s]
           e == [conn |-> conn[s], used |-> read[s], at |-> now]
           all == Append(idle[p], e)
<1>1. /\ Goes(s, "put", "closed") /\ PutLocked(s, all) /\ conn' = [conn EXCEPT ![s] = None]
      /\ UNCHANGED <<current, read, recyclable, now>> /\ ptr' = [ptr EXCEPT ![s] = None]
  BY DEF Put, PutLocked
<1>2. pc[s] = "put" /\ pc' = [pc EXCEPT ![s] = "closed"]
  BY <1>1 DEF Goes
<1>3. p \in Pools /\ p = current /\ conn[s] \in Conns /\ read[s] \in Nat /\ now \in Nat
  BY <1>2, PlaceFacts
<1>4. /\ idle[p] \in Seq(PoolEntry) /\ Len(idle[p]) \in Nat /\ Len(idle[p]) <= Limit
      /\ Distinct(idle[p]) /\ Limit \in Nat
  BY <1>3, ListFacts
<1>5. conn[s] \notin In(idle[p]) /\ recyclable[conn[s]]
  BY <1>2, <1>3 DEF Work, Owned, Owns, Unbroken
<1>6. e \in PoolEntry /\ e.conn = conn[s]
  BY <1>3 DEF PoolEntry
<1>7. /\ all \in Seq(PoolEntry) /\ Len(all) = Len(idle[p]) + 1 /\ Distinct(all)
      /\ In(all) = In(idle[p]) \cup {conn[s]}
  <2> HIDE DEF e
  <2> QED BY <1>4, <1>5, <1>6, AppendIn
<1>8. Having(conn[s]) = {conn[s]} /\ Len(all) <= Limit + 1
  BY <1>3, <1>4, <1>7, NoneAssumption DEF Having
<1> HIDE DEF e, all
<1>9. /\ WithinLimit' /\ Owned'
      /\ idle' \in [Pools -> Seq(PoolEntry)] /\ size' \in [Pools -> Nat]
      /\ open' \subseteq Conns
      /\ \A q \in Pools : q # p => idle'[q] = idle[q]
      /\ \A d \in In(idle'[p]) : d \in In(idle[p]) \/ d = conn[s]
  BY <1>1, <1>3, <1>7, <1>8, PutLockedStep
<1>10. TypeOK'
  BY <1>1, <1>2, <1>9 DEF Work, TypeOK
<1>11. OnePool'
  <2>1. \A t \in Sessions : ptr'[t] = ptr[t] \/ ptr'[t] = None
    BY <1>1 DEF Work, TypeOK
  <2> QED BY <1>1, <1>3, <1>9, <2>1, StillOnePool
<1>12. Placed'
  BY <1>1, <1>2 DEF Work, TypeOK, Placed
<1>13. Unbroken'
  <2>1. \A q \in Pools : \A d \in In(idle'[q]) : recyclable'[d]
    BY <1>1, <1>3, <1>5, <1>9 DEF Work, Unbroken
  <2>2. \A t \in Sessions : pc'[t] \in {"dispose", "put"} => recyclable'[conn'[t]]
    BY <1>1, <1>2 DEF Work, TypeOK, Unbroken
  <2> QED BY <2>1, <2>2 DEF Unbroken
<1> QED BY <1>9, <1>10, <1>11, <1>12, <1>13 DEF Work

(* put(0) of gc closes the expired connections. *)
LEMMA GcPutStep == ASSUME Work, NEW s \in Sessions, GcPut(s) PROVE Work'
<1> DEFINE p == ptr[s]
<1>1. /\ pc[s] = "gcput" /\ pc' = [pc EXCEPT ![s] = "gcdrop"] /\ PutLocked(s, idle[p])
      /\ UNCHANGED <<current, conn, read, recyclable, now>> /\ ptr' = [ptr EXCEPT ![s] = None]
  BY DEF GcPut, PutLocked, Goes
<1>2. p \in Pools /\ p = current /\ conn[s] = None
  BY <1>1, PlaceFacts
<1>3. /\ idle[p] \in Seq(PoolEntry) /\ Len(idle[p]) \in Nat /\ Len(idle[p]) <= Limit + 1
      /\ Distinct(idle[p]) /\ In(idle[p]) = In(idle[p]) \cup Having(conn[s])
  BY <1>2, ListFacts DEF Having
<1>4. conn' = [conn EXCEPT ![s] = None]
  BY <1>1, <1>2 DEF Work, TypeOK
<1>5. /\ WithinLimit' /\ Owned'
      /\ idle' \in [Pools -> Seq(PoolEntry)] /\ size' \in [Pools -> Nat]
      /\ open' \subseteq Conns
      /\ \A q \in Pools : q # p => idle'[q] = idle[q]
      /\ \A d \in In(idle'[p]) : d \in In(idle[p]) \/ d = conn[s]
  BY <1>1, <1>2, <1>3, <1>4, PutLockedStep
<1>6. TypeOK'
  BY <1>1, <1>5 DEF Work, TypeOK
<1>7. OnePool'
  <2>1. \A t \in Sessions : ptr'[t] = ptr[t] \/ ptr'[t] = None
    BY <1>1 DEF Work, TypeOK
  <2> QED BY <1>1, <1>2, <1>5, <2>1, StillOnePool
<1>8. Placed'
  BY <1>1 DEF Work, TypeOK, Placed
<1>9. Unbroken'
  <2>1. Owns(idle', conn', open')
    BY <1>5 DEF Owned
  <2>2. \A q \in Pools : \A d \in In(idle'[q]) : recyclable'[d]
    <3>1. None \notin In(idle'[p])
      BY <1>1, <1>2, <2>1 DEF Owns
    <3>2. \A q \in Pools : \A d \in In(idle'[q]) : d \in In(idle[q])
      BY <1>2, <1>5, <3>1
    <3> QED BY <1>1, <3>2 DEF Work, Unbroken
  <2>3. \A t \in Sessions : pc'[t] \in {"dispose", "put"} => recyclable'[conn'[t]]
    BY <1>1 DEF Work, TypeOK, Unbroken
  <2> QED BY <2>2, <2>3 DEF Unbroken
<1> QED BY <1>5, <1>6, <1>7, <1>8, <1>9 DEF Work

(* A list is emptied and what was in it closed. *)
LEMMA Emptied ==
  ASSUME Work, NEW s \in Sessions, NEW p \in Pools,
         idle' = [idle EXCEPT ![p] = <<>>], size' = [size EXCEPT ![p] = 0],
         conn' = conn, open' = open \ Closed(idle[p], Len(idle[p]))
  PROVE  /\ WithinLimit' /\ Owned'
         /\ idle' \in [Pools -> Seq(PoolEntry)] /\ size' \in [Pools -> Nat]
         /\ open' \subseteq Conns
         /\ idle'[p] = <<>> /\ (\A q \in Pools : q # p => idle'[q] = idle[q])
         /\ \A q \in Pools : In(idle'[q]) \subseteq In(idle[q])
<1>1. /\ <<>> \in Seq(PoolEntry) /\ Len(<<>>) = 0 /\ In(<<>>) = {} /\ Distinct(<<>>)
      /\ Len(<<>>) <= Limit
  BY EmptySeq, LimitAssumption DEF In, Distinct
<1>2. Closed(idle[p], Len(idle[p])) = In(idle[p])
  BY DEF Closed, In
<1>3. conn' = [conn EXCEPT ![s] = conn[s]] /\ size' = [size EXCEPT ![p] = Len(<<>>)]
  BY <1>1 DEF Work, TypeOK
<1>4. conn[s] \notin In(idle[p])
  BY DEF Work, Owned, Owns
<1>5. /\ In(<<>>) \cup Having(conn[s]) = (In(idle[p]) \cup Having(conn[s])) \ In(idle[p])
      /\ In(idle[p]) \subseteq In(idle[p]) \cup Having(conn[s])
  BY <1>1, <1>4 DEF Having
<1>6. /\ WithinLimit' /\ Owned'
      /\ idle' \in [Pools -> Seq(PoolEntry)] /\ size' \in [Pools -> Nat]
      /\ open' \subseteq Conns
      /\ idle'[p] = <<>> /\ (\A q \in Pools : q # p => idle'[q] = idle[q])
  <2>1. open' = open \ In(idle[p]) /\ conn[s] \notin In(<<>>)
    BY <1>1, <1>2
  <2> QED BY <1>1, <1>3, <1>5, <2>1, Exchange
<1>7. \A q \in Pools : In(idle'[q]) \subseteq In(idle[q])
  BY <1>1, <1>6
<1> QED BY <1>6, <1>7

(* A connection that is with an open session is in no pool and with no     *)
(* other session, so what is marked is nobody else's.                      *)
LEMMA Marked ==
  ASSUME Work, NEW s \in Sessions, pc[s] = "open", pc' = pc, conn' = conn,
         recyclable' = [recyclable EXCEPT ![conn[s]] = FALSE],
         \A q \in Pools : In(idle'[q]) \subseteq In(idle[q])
  PROVE  Unbroken' /\ recyclable' \in [Conns -> BOOLEAN]
<1>1. conn[s] \in Conns /\ recyclable \in [Conns -> BOOLEAN]
  BY PlaceFacts DEF Work, TypeOK
<1>2. \A d : d # conn[s] => recyclable'[d] = recyclable[d]
  BY <1>1
<1>3. \A q \in Pools : \A d \in In(idle'[q]) : d # conn[s] /\ recyclable[d]
  BY DEF Work, Owned, Owns, Unbroken
<1>4. ASSUME NEW t \in Sessions, pc[t] \in {"dispose", "put"}
      PROVE  conn[t] # conn[s] /\ recyclable[conn[t]]
  <2>1. t # s /\ conn[t] # None
    BY <1>4, PlaceFacts, NoneAssumption
  <2> QED BY <1>4, <2>1 DEF Work, Owned, Owns, Unbroken
<1>5. Unbroken'
  BY <1>2, <1>3, <1>4 DEF Unbroken
<1> QED BY <1>1, <1>5

(* A failed query marks the connection of its session only. *)
LEMMA QueryFailsStep == ASSUME Work, NEW s \in Sessions, QueryFails(s) PROVE Work'
<1>1. /\ pc[s] = "open" /\ recyclable' = [recyclable EXCEPT ![conn[s]] = FALSE]
      /\ UNCHANGED <<current, idle, size, pc, ptr, conn, read, open, now>>
  BY DEF QueryFails
<1>2. Unbroken' /\ recyclable' \in [Conns -> BOOLEAN]
  BY <1>1, Marked
<1>3. Owned'
  <2>1. idle' = idle /\ conn' = conn /\ open' = open
    BY <1>1
  <2>2. Owns(idle', conn', open')
    BY <2>1 DEF Work, Owned
  <2> QED BY <2>2 DEF Owned
<1>4. TypeOK' BY <1>1, <1>2 DEF Work, TypeOK
<1>5. WithinLimit' BY <1>1 DEF Work, WithinLimit
<1>6. OnePool' BY <1>1 DEF Work, OnePool
<1>7. Placed' BY <1>1 DEF Work, Placed
<1> QED BY <1>2, <1>3, <1>4, <1>5, <1>6, <1>7 DEF Work

(* clear_pool closes what is idle and marks the session's own connection. *)
LEMMA ClearPoolStep == ASSUME Work, NEW s \in Sessions, ClearPool(s) PROVE Work'
<1> DEFINE p == ptr[s]
<1>1. /\ pc[s] = "open" /\ recyclable' = [recyclable EXCEPT ![conn[s]] = FALSE]
      /\ idle' = [idle EXCEPT ![p] = <<>>] /\ size' = [size EXCEPT ![p] = 0]
      /\ open' = open \ Closed(idle[p], Len(idle[p]))
      /\ UNCHANGED <<current, pc, ptr, conn, read, now>>
  BY DEF ClearPool
<1>2. p \in Pools /\ p = current
  BY <1>1, PlaceFacts
<1>3. /\ WithinLimit' /\ Owned'
      /\ idle' \in [Pools -> Seq(PoolEntry)] /\ size' \in [Pools -> Nat]
      /\ open' \subseteq Conns
      /\ idle'[p] = <<>> /\ (\A q \in Pools : q # p => idle'[q] = idle[q])
      /\ \A q \in Pools : In(idle'[q]) \subseteq In(idle[q])
  BY <1>1, <1>2, Emptied
<1>4. Unbroken' /\ recyclable' \in [Conns -> BOOLEAN]
  BY <1>1, <1>3, Marked
<1>5. TypeOK' BY <1>1, <1>3, <1>4 DEF Work, TypeOK
<1>6. OnePool' BY <1>1, <1>2, <1>3, StillOnePool
<1>7. Placed' BY <1>1 DEF Work, Placed
<1> QED BY <1>3, <1>4, <1>5, <1>6, <1>7 DEF Work

(* gc forgets a pool only when nobody else points to it. *)
LEMMA GcDropStep == ASSUME Work, NEW s \in Sessions, GcDrop(s) PROVE Work'
<1>1. /\ pc[s] = "gcdrop" /\ pc' = [pc EXCEPT ![s] = "closed"]
      /\ UNCHANGED <<ptr, conn, read, recyclable, now>>
  BY DEF GcDrop, Goes
<1>2. Placed'
  BY <1>1 DEF Work, TypeOK, Placed
<1>3. \A t \in Sessions : pc'[t] \in {"dispose", "put"} => recyclable[conn[t]]
  BY <1>1 DEF Work, TypeOK, Unbroken
<1>4. CASE UNCHANGED <<current, idle, size, open>>
  <2>1. TypeOK' BY <1>1, <1>4 DEF Work, TypeOK
  <2>2. OnePool' BY <1>1, <1>4 DEF Work, OnePool
  <2> QED BY <1>1, <1>2, <1>3, <1>4, <2>1, <2>2, QuietStep
<1>5. CASE current # None /\ ~Referenced(current) /\ Drop(current)
  <2> DEFINE p == current
  <2>1. /\ p \in Pools /\ current' = None
        /\ idle' = [idle EXCEPT ![p] = <<>>] /\ size' = [size EXCEPT ![p] = 0]
        /\ open' = open \ Closed(idle[p], Len(idle[p]))
    BY <1>5 DEF Drop, Work, TypeOK
  <2>2. /\ WithinLimit' /\ Owned'
        /\ idle' \in [Pools -> Seq(PoolEntry)] /\ size' \in [Pools -> Nat]
        /\ open' \subseteq Conns
        /\ idle'[p] = <<>> /\ (\A q \in Pools : q # p => idle'[q] = idle[q])
        /\ \A q \in Pools : In(idle'[q]) \subseteq In(idle[q])
    BY <1>1, <2>1, Emptied
  <2>3. TypeOK' BY <1>1, <2>1, <2>2 DEF Work, TypeOK
  <2>4. OnePool'
    <3>1. \A t \in Sessions : ptr'[t] = None
      BY <1>1, <1>5 DEF Work, OnePool, Referenced
    <3>2. \A q \in Pools : idle'[q] = <<>>
      BY <2>2 DEF Work, OnePool
    <3> QED BY <3>1, <3>2 DEF OnePool
  <2>5. Unbroken'
    <3>1. \A q \in Pools : \A d \in In(idle'[q]) : recyclable'[d]
      BY <1>1, <2>2 DEF Work, Unbroken
    <3> QED BY <1>1, <1>3, <3>1 DEF Unbroken
  <2> QED BY <1>2, <2>2, <2>3, <2>4, <2>5 DEF Work
<1> QED BY <1>4, <1>5 DEF GcDrop

(* connection::dispose gives back or closes. *)
LEMMA DisposeStep == ASSUME Work, NEW s \in Sessions, Dispose(s) PROVE Work'
<1> DEFINE p == ptr[s]
           c == conn[s]
<1>1. pc[s] = "open" /\ UNCHANGED <<current, idle, size, read, recyclable, now>>
  BY DEF Dispose
<1>2. p \in Pools /\ p = current /\ c \in Conns /\ c # None
  BY <1>1, PlaceFacts, NoneAssumption
<1>3. CASE recyclable[c] /\ Goes(s, "open", "dispose") /\ UNCHANGED <<ptr, conn, open>>
  <2>1. pc' = [pc EXCEPT ![s] = "dispose"]
    BY <1>3 DEF Goes
  <2>2. TypeOK' BY <1>1, <1>3, <2>1 DEF Work, TypeOK
  <2>3. OnePool' BY <1>1, <1>3 DEF Work, OnePool
  <2>4. Placed' BY <1>1, <1>3, <2>1 DEF Work, TypeOK, Placed
  <2>5. \A t \in Sessions : pc'[t] \in {"dispose", "put"} => recyclable[conn[t]]
    BY <1>3, <2>1 DEF Work, TypeOK, Unbroken
  <2> QED BY <1>1, <1>3, <2>2, <2>3, <2>4, <2>5, QuietStep
<1>4. CASE /\ Goes(s, "open", "closed") /\ open' = open \ {c}
           /\ conn' = [conn EXCEPT ![s] = None] /\ ptr' = [ptr EXCEPT ![s] = None]
  <2> DEFINE m == idle[p]
  <2>1. pc' = [pc EXCEPT ![s] = "closed"]
    BY <1>4 DEF Goes
  <2>2. /\ m \in Seq(PoolEntry) /\ Len(m) <= Limit /\ Distinct(m) /\ None \notin In(m)
        /\ size[p] = Len(m)
    BY <1>2, ListFacts
  <2>3. idle' = [idle EXCEPT ![p] = m] /\ size' = [size EXCEPT ![p] = Len(m)]
    BY <1>1, <1>2, <2>2 DEF Work, TypeOK
  <2>4. c \notin In(m)
    BY <1>2 DEF Work, Owned, Owns
  <2>5. /\ In(m) \cup Having(None) = (In(m) \cup Having(conn[s])) \ {c}
        /\ {c} \subseteq In(m) \cup Having(conn[s])
    BY <1>2, <2>4 DEF Having
  <2>6. WithinLimit' /\ Owned' /\ open' \subseteq Conns
    <3> HIDE DEF p, c
    <3> QED BY <1>2, <1>4, <2>2, <2>3, <2>5, Exchange
  <2>7. TypeOK' BY <1>1, <1>4, <2>1, <2>6 DEF Work, TypeOK
  <2>8. OnePool' BY <1>1, <1>4 DEF Work, TypeOK, OnePool
  <2>9. Placed' BY <1>4, <2>1 DEF Work, TypeOK, Placed
  <2>10. Unbroken'
    <3>1. \A q \in Pools : \A d \in In(idle'[q]) : recyclable'[d]
      BY <1>1 DEF Work, Unbroken
    <3>2. \A t \in Sessions : pc'[t] \in {"dispose", "put"} => recyclable'[conn'[t]]
      BY <1>1, <1>4, <2>1 DEF Work, TypeOK, Unbroken
    <3> QED BY <3>1, <3>2 DEF Unbroken
  <2> QED BY <2>6, <2>7, <2>8, <2>9, <2>10 DEF Work
<1> QED BY <1>3, <1>4 DEF Dispose

(* A new connection belongs to the session that made it. *)
LEMMA ConnectStep == ASSUME Work, NEW s \in Sessions, Connect(s) PROVE Work'
<1>1. PICK c \in Conns \ open : /\ conn' = [conn EXCEPT ![s] = c]
                                /\ recyclable' = [recyclable EXCEPT ![c] = TRUE]
                                /\ open' = open \cup {c}
  BY DEF Connect
<1>2. /\ pc[s] = "connect" /\ pc' = [pc EXCEPT ![s] = "open"]
      /\ UNCHANGED <<current, idle, size, ptr, read, now>>
  BY DEF Connect, Goes
<1>3. c # None /\ conn[s] = None
  BY <1>2, PlaceFacts, NoneAssumption
<1>4. /\ conn'[s] = c /\ (\A t \in Sessions : t # s => conn'[t] = conn[t])
      /\ \A d : d # c => recyclable'[d] = recyclable[d]
  BY <1>1 DEF Work, TypeOK
<1>5. Owns(idle, conn, open)
  BY DEF Work, Owned
<1>6. /\ \A t \in Sessions : conn[t] # c
      /\ \A q \in Pools : c \notin In(idle[q])
  BY <1>3, <1>5 DEF Owns
<1>7. Owns(idle, conn', open')
  <2>1. \A t, u \in Sessions : conn'[t] # None /\ conn'[t] = conn'[u] => t = u
    BY <1>4, <1>5, <1>6 DEF Owns
  <2>2. \A t \in Sessions, q \in Pools : conn'[t] \notin In(idle[q])
    BY <1>4, <1>5, <1>6 DEF Owns
  <2>3. ASSUME NEW d
        PROVE  d \in open' <=> \/ d # None /\ \E t \in Sessions : conn'[t] = d
                               \/ \E q \in Pools : d \in In(idle[q])
    <3>1. CASE d = c
      BY <3>1, <1>1, <1>3, <1>4
    <3>2. CASE d # c
      <4>1. d \in open' <=> d \in open
        BY <3>2, <1>1
      <4>2. d # None => ((\E t \in Sessions : conn'[t] = d) <=> \E t \in Sessions : conn[t] = d)
        BY <3>2, <1>3, <1>4
      <4> QED BY <4>1, <4>2, <1>5 DEF Owns
    <3> QED BY <3>1, <3>2
  <2> QED BY <1>5, <2>1, <2>2, <2>3 DEF Owns
<1>8. Owned'
  <2>1. idle' = idle BY <1>2
  <2>2. Owns(idle', conn', open') BY <1>7, <2>1
  <2> QED BY <2>2 DEF Owned
<1>9. TypeOK' BY <1>1, <1>2 DEF Work, TypeOK
<1>10. WithinLimit' BY <1>2 DEF Work, WithinLimit
<1>11. OnePool' BY <1>2 DEF Work, OnePool
<1>12. Placed' BY <1>1, <1>2, <1>3 DEF Work, TypeOK, Placed
<1>13. Unbroken'
  <2>1. \A q \in Pools : \A d \in In(idle'[q]) : recyclable'[d]
    BY <1>2, <1>4, <1>6 DEF Work, Unbroken
  <2>2. \A t \in Sessions : pc'[t] \in {"dispose", "put"} => recyclable'[conn'[t]]
    BY <1>2, <1>4, <1>6 DEF Work, TypeOK, Unbroken
  <2> QED BY <2>1, <2>2 DEF Unbroken
<1> QED BY <1>8, <1>9, <1>10, <1>11, <1>12, <1>13 DEF Work

-----------------------------------------------------------------------------
(* There is nothing at the start. *)
LEMMA InitWork == Init => Work
<1> SUFFICES ASSUME Init PROVE Work
  OBVIOUS
<1>1. TypeOK /\ OnePool /\ Placed
  BY EmptySeq DEF Init, TypeOK, OnePool, Placed
<1>2. \A p \in Pools : idle[p] = <<>> /\ In(idle[p]) = {} /\ Distinct(idle[p])
  BY EmptySeq DEF Init, In, Distinct
<1>3. WithinLimit
  BY EmptySeq, LimitAssumption DEF Init, WithinLimit
<1>4. Owned
  BY <1>2 DEF Init, Owned, Owns
<1>5. Unbroken
  BY <1>2 DEF Init, Unbroken
<1> QED BY <1>1, <1>3, <1>4, <1>5 DEF Work

(* Every step keeps the working form. *)
LEMMA NextWork == Work /\ [Next]_vars => Work'
<1> SUFFICES ASSUME Work, [Next]_vars PROVE Work'
  OBVIOUS
<1>1. ASSUME NEW s \in Sessions,
             \/ Lookup(s) \/ Create(s) \/ GetTime(s) \/ Get(s) \/ Connect(s) \/ ConnectFails(s)
             \/ QueryFails(s) \/ ClearPool(s) \/ Dispose(s) \/ PutTime(s) \/ Put(s)
             \/ GcBegin(s) \/ GcPut(s) \/ GcDrop(s)
      PROVE  Work'
  BY <1>1, LookupStep, CreateStep, GetTimeStep, GetStep, ConnectStep, ConnectFailsStep,
     QueryFailsStep, ClearPoolStep, DisposeStep, PutTimeStep, PutStep, GcBeginStep,
     GcPutStep, GcDropStep
<1>2. CASE UNCHANGED vars
  <2>1. TypeOK' BY <1>2 DEF vars, Work, TypeOK
  <2>2. OnePool' BY <1>2 DEF vars, Work, OnePool
  <2>3. Placed' BY <1>2 DEF vars, Work, Placed
  <2>4. \A t \in Sessions : pc'[t] \in {"dispose", "put"} => recyclable[conn[t]]
    BY <1>2 DEF vars, Work, Unbroken
  <2>5. UNCHANGED <<idle, size, conn, recyclable, open>>
    BY <1>2 DEF vars
  <2> QED BY <2>1, <2>2, <2>3, <2>4, <2>5, QuietStep
<1> QED BY <1>1, <1>2, TickStep DEF Next

(* In every reachable state there is one pool, within its limit, and every *)
(* open connection is with one session or once in the pool, where no       *)
(* broken one is.                                                          *)
THEOREM PoolInvariant == Spec => []PoolInv
BY InitWork, NextWork, WorkIsPoolInv, PTL DEF Spec

(* No connection is used by two sessions, handed out twice or forgotten.   *)
THEOREM ConnectionsOwned == Spec => []EveryConnectionOwned
<1>1. PoolInv => EveryConnectionOwned
  BY DEF PoolInv
<1> QED BY <1>1, PoolInvariant, PTL

-----------------------------------------------------------------------------
(* Times.  The times that entries carry (used) are in no order, since they *)
(* are read before the lock is taken; the times of insertion (at) are, and *)
(* none is earlier than the time that was read.                            *)
Timed(l, n) ==
    /\ \A i \in 1 .. Len(l) : l[i].used <= l[i].at /\ l[i].at <= n
    /\ \A i, j \in 1 .. Len(l) : i <= j => l[i].at <= l[j].at
TimeInv == (\A p \in Pools : Timed(idle[p], now)) /\ (\A s \in Sessions : read[s] <= now)

(* The times of an entry are numbers. *)
LEMMA EntryTimes ==
  ASSUME NEW l \in Seq(PoolEntry), NEW i \in 1 .. Len(l)
  PROVE  l[i].used \in Nat /\ l[i].at \in Nat
<1>1. l[i] \in PoolEntry
  BY ElementOfSeq
<1> QED BY <1>1 DEF PoolEntry

(* A list that lost its oldest entries is still ordered in time. *)
LEMMA DroppedTimed ==
  ASSUME NEW l \in Seq(PoolEntry), NEW k, NEW m, NEW n \in Nat, Dropped(l, k, m), Timed(l, n)
  PROVE  Timed(m, n)
<1>1. /\ Len(l) \in Nat /\ Len(m) \in Nat /\ k \in 0 .. Len(l)
      /\ \A i \in 1 .. Len(m) : m[i] = l[i + k] /\ i + k \in 1 .. Len(l)
  BY LenProperties DEF Dropped
<1>2. \A i, j \in 1 .. Len(m) : i <= j => i + k <= j + k
  BY <1>1
<1> QED BY <1>1, <1>2 DEF Timed

(* So is one that lost its last entry. *)
LEMMA FrontTimed ==
  ASSUME NEW l \in Seq(PoolEntry), l # <<>>, NEW n \in Nat, Timed(l, n)
  PROVE  Timed(SubSeq(l, 1, Len(l) - 1), n)
<1> DEFINE m == SubSeq(l, 1, Len(l) - 1)
<1>1. /\ Len(l) \in Nat /\ Len(m) = Len(l) - 1
      /\ \A i \in 1 .. Len(l) - 1 : m[i] = l[i]
  BY FrontOf
<1> HIDE DEF m
<1>4. \A i \in 1 .. Len(m) : i \in 1 .. Len(l) /\ m[i] = l[i]
  BY <1>1
<1>5. Timed(m, n)
  BY <1>4 DEF Timed
<1> QED BY <1>5 DEF m

(* So is one that gained an entry with the present time. *)
LEMMA AppendTimed ==
  ASSUME NEW l \in Seq(PoolEntry), NEW e \in PoolEntry, NEW n \in Nat, Timed(l, n),
         e.used <= e.at, e.at = n
  PROVE  Timed(Append(l, e), n)
<1> DEFINE m == Append(l, e)
<1>1. /\ Len(l) \in Nat /\ Len(m) = Len(l) + 1
      /\ \A i \in 1 .. Len(l) : m[i] = l[i]
      /\ m[Len(l) + 1] = e
  BY AppendProperties, LenProperties
<1> HIDE DEF m
<1>2. \A i \in 1 .. Len(m) : i \in 1 .. Len(l) \/ i = Len(l) + 1
  BY <1>1
<1>3. \A i \in 1 .. Len(m) : m[i].used <= m[i].at /\ m[i].at <= n
  BY <1>1, <1>2 DEF Timed
<1>4. ASSUME NEW i \in 1 .. Len(m), NEW j \in 1 .. Len(m), i <= j PROVE m[i].at <= m[j].at
  <2>1. CASE j = Len(l) + 1
    BY <2>1, <1>1, <1>3
  <2>2. CASE j \in 1 .. Len(l)
    <3>1. i \in 1 .. Len(l)
      BY <2>2, <1>4, <1>1
    <3> QED BY <2>2, <3>1, <1>1, <1>4 DEF Timed
  <2> QED BY <1>2, <2>1, <2>2
<1>5. Timed(m, n)
  BY <1>3, <1>4 DEF Timed
<1> QED BY <1>5 DEF m

(* Every step keeps the times in order: lists lose entries at their ends,  *)
(* and gain one with the present time.                                     *)
LEMMA ListTimed ==
  ASSUME Work, TimeInv, NEW p \in Pools, NEW m, idle' = [idle EXCEPT ![p] = m],
         Timed(m, now), now' = now, \A s \in Sessions : read'[s] <= now
  PROVE  TimeInv'
<1>1. \A q \in Pools : Timed(idle'[q], now')
  BY DEF Work, TypeOK, TimeInv
<1> QED BY <1>1 DEF TimeInv

(* Steps that leave the lists alone keep the times. *)
LEMMA SameTimed ==
  ASSUME Work, TimeInv, idle' = idle, now' \in Nat, now <= now',
         \A s \in Sessions : read'[s] = read[s] \/ read'[s] = now
  PROVE  TimeInv'
<1>1. now \in Nat /\ \A s \in Sessions : read[s] \in Nat
  BY DEF Work, TypeOK
<1>2. ASSUME NEW q \in Pools PROVE Timed(idle'[q], now')
  <2>1. idle[q] \in Seq(PoolEntry) /\ Timed(idle[q], now)
    BY DEF Work, TypeOK, TimeInv
  <2>2. \A i \in 1 .. Len(idle[q]) : idle[q][i].at \in Nat
    BY <2>1, EntryTimes
  <2> QED BY <1>1, <2>1, <2>2 DEF Timed
<1>3. \A s \in Sessions : read'[s] <= now'
  BY <1>1 DEF TimeInv
<1> QED BY <1>2, <1>3 DEF TimeInv

(* What put does under the lock keeps the times. *)
LEMMA PutLockedTimed ==
  ASSUME Work, TimeInv, NEW s \in Sessions, NEW all \in Seq(PoolEntry), PutLocked(s, all),
         ptr[s] \in Pools, Len(all) <= Limit + 1, Timed(all, now), UNCHANGED <<read, now>>
  PROVE  TimeInv'
<1> DEFINE m == Trimmed(Fresh(all, read[s]))
           k == Len(all) - Len(m)
<1>1. now \in Nat /\ read[s] \in Nat /\ \A t \in Sessions : read'[t] <= now
  BY DEF Work, TypeOK, TimeInv
<1>2. Dropped(all, k, m) /\ idle' = [idle EXCEPT ![ptr[s]] = m]
  BY <1>1, TrimmedDrops DEF PutLocked
<1> HIDE DEF m, k
<1>3. Timed(m, now)
  BY <1>1, <1>2, DroppedTimed
<1> QED BY <1>1, <1>2, <1>3, ListTimed

(* pool::put keeps the times. *)
LEMMA PutTimed == ASSUME Work, TimeInv, NEW s \in Sessions, Put(s) PROVE TimeInv'
<1> DEFINE p == ptr[s]
           e == [conn |-> conn[s], used |-> read[s], at |-> now]
           all == Append(idle[p], e)
<1>1. pc[s] = "put" /\ PutLocked(s, all) /\ UNCHANGED <<read, now>>
  BY DEF Put, Goes
<1>2. p \in Pools /\ conn[s] \in Conns /\ read[s] \in Nat /\ now \in Nat /\ read[s] <= now
  BY <1>1, PlaceFacts DEF TimeInv
<1>3. /\ idle[p] \in Seq(PoolEntry) /\ Len(idle[p]) \in Nat /\ Len(idle[p]) <= Limit
      /\ Limit \in Nat /\ Timed(idle[p], now)
  BY <1>2, ListFacts DEF TimeInv
<1>4. e \in PoolEntry /\ e.used <= e.at /\ e.at = now
  BY <1>2 DEF PoolEntry
<1> HIDE DEF e
<1>5. all \in Seq(PoolEntry) /\ Len(all) = Len(idle[p]) + 1
  BY <1>3, <1>4, AppendProperties
<1>6. Timed(all, now)
  BY <1>2, <1>3, <1>4, AppendTimed
<1>7. Len(all) <= Limit + 1
  BY <1>3, <1>5
<1> HIDE DEF all
<1> QED BY <1>1, <1>2, <1>5, <1>6, <1>7, PutLockedTimed

(* put(0) of gc keeps the times. *)
LEMMA GcPutTimed == ASSUME Work, TimeInv, NEW s \in Sessions, GcPut(s) PROVE TimeInv'
<1>1. pc[s] = "gcput" /\ PutLocked(s, idle[ptr[s]]) /\ UNCHANGED <<read, now>>
  BY DEF GcPut, Goes
<1>2. ptr[s] \in Pools
  BY <1>1, PlaceFacts
<1>3. /\ idle[ptr[s]] \in Seq(PoolEntry) /\ Len(idle[ptr[s]]) <= Limit + 1
      /\ Timed(idle[ptr[s]], now)
  BY <1>2, ListFacts DEF TimeInv
<1> QED BY <1>1, <1>2, <1>3, PutLockedTimed

(* pool::get keeps the times. *)
LEMMA GetTimed == ASSUME Work, TimeInv, NEW s \in Sessions, Get(s) PROVE TimeInv'
<1> DEFINE p == ptr[s]
           rest == Fresh(idle[p], read[s])
<1>1. pc[s] = "get" /\ Take(s, rest) /\ UNCHANGED <<read, now>>
  BY DEF Get, Take
<1>2. p \in Pools /\ read[s] \in Nat /\ now \in Nat /\ \A t \in Sessions : read'[t] <= now
  BY <1>1, PlaceFacts DEF TimeInv
<1>3. idle[p] \in Seq(PoolEntry) /\ Timed(idle[p], now)
  BY <1>2, ListFacts DEF TimeInv
<1>4. Dropped(idle[p], Leading(idle[p], read[s]), rest)
  BY <1>2, <1>3, FreshDrops
<1> HIDE DEF rest
<1>5. rest \in Seq(PoolEntry) /\ Timed(rest, now)
  BY <1>2, <1>3, <1>4, DroppedTimed DEF Dropped
<1>6. CASE rest # <<>>
  <2>1. idle' = [idle EXCEPT ![p] = SubSeq(rest, 1, Len(rest) - 1)]
    BY <1>1, <1>6 DEF Take
  <2>2. Timed(SubSeq(rest, 1, Len(rest) - 1), now)
    BY <1>2, <1>5, <1>6, FrontTimed
  <2> QED BY <1>1, <1>2, <2>1, <2>2, ListTimed
<1>7. CASE rest = <<>>
  <2>1. idle' = [idle EXCEPT ![p] = <<>>]
    BY <1>1, <1>7 DEF Take
  <2>2. Timed(<<>>, now)
    BY EmptySeq DEF Timed
  <2> QED BY <1>1, <1>2, <2>1, <2>2, ListTimed
<1> QED BY <1>6, <1>7

(* Every step keeps the times. *)
LEMMA NextTimed == Work /\ TimeInv /\ [Next]_vars => TimeInv'
<1> SUFFICES ASSUME Work, TimeInv, [Next]_vars PROVE TimeInv'
  OBVIOUS
<1>1. /\ now \in Nat /\ Timed(<<>>, now)
      /\ \A s \in Sessions : read[s] \in Nat /\ read[s] <= now
  BY EmptySeq DEF Work, TypeOK, TimeInv, Timed
<1>2. ASSUME NEW s \in Sessions,
             \/ Lookup(s) \/ Create(s) \/ GetTime(s) \/ Connect(s) \/ ConnectFails(s)
             \/ QueryFails(s) \/ Dispose(s) \/ PutTime(s) \/ GcBegin(s)
      PROVE  TimeInv'
  <2>1. idle' = idle /\ now' = now
    BY <1>2 DEF Lookup, Create, GetTime, Connect, ConnectFails, QueryFails, Dispose,
                PutTime, GcBegin
  <2>2. \A t \in Sessions : read'[t] = read[t] \/ read'[t] = now
    BY <1>2 DEF Lookup, Create, GetTime, Connect, ConnectFails, QueryFails, Dispose,
                PutTime, GcBegin, Work, TypeOK
  <2> QED BY <1>1, <2>1, <2>2, SameTimed
<1>3. ASSUME NEW s \in Sessions, ClearPool(s) PROVE TimeInv'
  <2>1. ptr[s] \in Pools
    BY <1>3, PlaceFacts DEF ClearPool
  <2>2. idle' = [idle EXCEPT ![ptr[s]] = <<>>] /\ UNCHANGED <<read, now>>
    BY <1>3 DEF ClearPool
  <2> QED BY <1>1, <2>1, <2>2, ListTimed
<1>4. ASSUME NEW s \in Sessions, GcDrop(s) PROVE TimeInv'
  <2>1. UNCHANGED <<read, now>>
    BY <1>4 DEF GcDrop
  <2>2. CASE idle' = idle
    BY <1>1, <2>1, <2>2, SameTimed
  <2>3. CASE current # None /\ Drop(current)
    <3>1. current \in Pools /\ idle' = [idle EXCEPT ![current] = <<>>]
      BY <2>3 DEF Drop, Work, TypeOK
    <3> QED BY <1>1, <2>1, <3>1, ListTimed
  <2> QED BY <1>4, <2>2, <2>3 DEF GcDrop
<1>5. CASE Tick
  BY <1>1, <1>5, SameTimed DEF Tick
<1>6. CASE UNCHANGED vars
  BY <1>1, <1>6, SameTimed DEF vars
<1> QED BY <1>2, <1>3, <1>4, <1>5, <1>6, GetTimed, PutTimed, GcPutTimed DEF Next

(* The entry that get takes was inserted after one that is not past its    *)
(* time, or is that entry.                                                 *)
LEMMA TakenInTime ==
  ASSUME Work, TimeInv, NEW s \in Sessions, Get(s), conn'[s] # None
  PROVE  \E p \in Pools : \E i \in 1 .. Len(idle[p]) :
           idle[p][i].conn = conn'[s] /\ idle[p][i].at + LifeTime >= read[s]
<1> DEFINE p == ptr[s]
           l == idle[p]
           t == read[s]
           rest == Fresh(l, t)
           k == Leading(l, t)
<1>1. pc[s] = "get" /\ Take(s, rest)
  BY DEF Get
<1>2. p \in Pools /\ t \in Nat /\ conn[s] = None /\ LifeTime \in Nat
  BY <1>1, PlaceFacts, TimeAssumption
<1>3. l \in Seq(PoolEntry) /\ Len(l) \in Nat /\ Timed(l, now)
  BY <1>2, ListFacts DEF TimeInv
<1>4. Dropped(l, k, rest) /\ k \in 0 .. Len(l) /\ (k < Len(l) => ~Expired(l[k + 1], t))
  BY <1>2, <1>3, FreshDrops, LeadingIs
<1> HIDE DEF rest, k
<1>5. rest # <<>> /\ conn' = [conn EXCEPT ![s] = rest[Len(rest)].conn]
  BY <1>1, <1>2 DEF Take
<1>6. rest \in Seq(PoolEntry) /\ Len(rest) \in Nat /\ Len(rest) > 0 /\ Len(rest) = Len(l) - k
  BY <1>4, <1>5, EmptySeq, LenProperties DEF Dropped
<1>7. rest[Len(rest)] = l[Len(l)]
  <2>1. Len(rest) \in 1 .. Len(rest) /\ Len(rest) + k = Len(l)
    BY <1>3, <1>4, <1>6
  <2> QED BY <1>4, <2>1 DEF Dropped
<1>8. k + 1 \in 1 .. Len(l) /\ Len(l) \in 1 .. Len(l) /\ k < Len(l) /\ k + 1 <= Len(l)
  BY <1>3, <1>4, <1>6
<1>9. conn'[s] = l[Len(l)].conn
  BY <1>5, <1>7 DEF Work, TypeOK
<1>10. /\ l[k + 1].used \in Nat /\ l[k + 1].at \in Nat /\ l[Len(l)].at \in Nat
       /\ l[k + 1].used <= l[k + 1].at /\ l[k + 1].at <= l[Len(l)].at
  BY <1>3, <1>8, EntryTimes DEF Timed
<1>11. l[k + 1].used + LifeTime >= t
  BY <1>2, <1>4, <1>8, <1>10 DEF Expired
<1>12. l[Len(l)].at + LifeTime >= t
  <2> DEFINE u == l[k + 1].used
             a == l[k + 1].at
             b == l[Len(l)].at
  <2>1. u \in Nat /\ a \in Nat /\ b \in Nat /\ u <= a /\ a <= b /\ u + LifeTime >= t
    BY <1>10, <1>11
  <2> HIDE DEF u, a, b, t
  <2>2. b + LifeTime >= t
    BY <1>2, <2>1
  <2> QED BY <2>2 DEF b, t
<1> QED BY <1>2, <1>8, <1>9, <1>12

(* @pool_max_idle is kept: nobody gets a connection that has been idle for *)
(* longer, although the list is not sorted by the times it is checked by.  *)
THEOREM NeverIdleTooLong == Spec => IdleTimeBound
<1> DEFINE InTime(s) ==
             conn[s] = None /\ conn'[s] # None /\ conn'[s] \in open =>
               \E p \in Pools : \E i \in 1 .. Len(idle[p]) :
                 idle[p][i].conn = conn'[s] /\ idle[p][i].at + LifeTime >= read[s]
<1>1. Init => TimeInv
  BY EmptySeq DEF Init, TimeInv, Timed
<1>2. Work /\ TimeInv /\ [Next]_vars => [\A s \in Sessions : InTime(s)]_vars
  <2> SUFFICES ASSUME Work, TimeInv, Next, NEW s \in Sessions,
                      conn[s] = None, conn'[s] # None, conn'[s] \in open
               PROVE  \E p \in Pools : \E i \in 1 .. Len(idle[p]) :
                        idle[p][i].conn = conn'[s] /\ idle[p][i].at + LifeTime >= read[s]
    OBVIOUS
  <2>1. ASSUME NEW u \in Sessions,
               \/ Lookup(u) \/ Create(u) \/ GetTime(u) \/ ConnectFails(u) \/ QueryFails(u)
               \/ ClearPool(u) \/ PutTime(u) \/ GcBegin(u) \/ GcPut(u) \/ GcDrop(u)
        PROVE  conn' = conn
    BY <2>1 DEF Lookup, Create, GetTime, ConnectFails, QueryFails, ClearPool, PutTime,
                GcBegin, GcPut, GcDrop
  <2>2. ASSUME NEW u \in Sessions, Dispose(u) \/ Put(u) PROVE FALSE
    BY <2>2 DEF Dispose, Put, Work, TypeOK
  <2>3. ASSUME NEW u \in Sessions, Connect(u) PROVE FALSE
    BY <2>3 DEF Connect, Work, TypeOK
  <2>4. ASSUME NEW u \in Sessions, Get(u) PROVE u = s
    BY <2>4 DEF Get, Take, Work, TypeOK
  <2>5. ~Tick
    BY DEF Tick
  <2> QED BY <2>1, <2>2, <2>3, <2>4, <2>5, TakenInTime DEF Next
<1> QED BY <1>1, <1>2, InitWork, NextWork, NextTimed, PTL DEF Spec, IdleTimeBound

=============================================================================
