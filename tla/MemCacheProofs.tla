---------------------------- MODULE MemCacheProofs ----------------------------
(***************************************************************************)
(* mem_cache keeps its invariant, throws out the right entries and is a    *)
(* TriggerCache to its callers, for any number of threads, any keys and    *)
(* triggers and any limit.                                                 *)
(***************************************************************************)
EXTENDS MemCache, TLAPS, FiniteSetTheorems, SequenceTheorems, WellFoundedInduction

-----------------------------------------------------------------------------
(* The list by use.                                                        *)

In(s) == {s[i] : i \in 1 .. Len(s)}
Once(s) == \A i, j \in 1 .. Len(s) : s[i] = s[j] => i = j
Follows(s, f) == \A i, j \in 1 .. Len(s) : i < j => s[i] \in f[s[j]]

(* The list without an element: the others move up. *)
LEMMA EraseIs ==
  ASSUME NEW s \in Seq(Keys), NEW k, k \in In(s)
  PROVE  \E p \in 1 .. Len(s) :
           /\ s[p] = k
           /\ Erase(s, k) \in Seq(Keys)
           /\ Len(Erase(s, k)) = Len(s) - 1
           /\ \A i \in 1 .. Len(s) - 1 : Erase(s, k)[i] = IF i < p THEN s[i] ELSE s[i + 1]
<1> DEFINE p == Position(s, k)
           n == Len(s)
           a == SubSeq(s, 1, p - 1)
           b == SubSeq(s, p + 1, n)
<1>1. n \in Nat /\ p \in 1 .. n /\ s[p] = k
  BY LenProperties DEF In, Position
<1> HIDE DEF p
<1>2. /\ 1 \in Int /\ p - 1 \in Int /\ p + 1 \in Int /\ n \in Int
      /\ \A i \in 1 .. p - 1 : i \in 1 .. n
      /\ \A i \in p + 1 .. n : i \in 1 .. n
  BY <1>1
<1>3. \A i \in 1 .. n : s[i] \in Keys
  BY ElementOfSeq
<1>4. /\ a \in Seq(Keys) /\ Len(a) = (IF 1 <= p - 1 THEN (p - 1) - 1 + 1 ELSE 0)
      /\ \A i \in 1 .. (p - 1) - 1 + 1 : a[i] = s[1 + i - 1]
  <2>1. \A i \in 1 .. p - 1 : s[i] \in Keys
    BY <1>2, <1>3
  <2> HIDE DEF n
  <2> QED BY <1>2, <2>1, SubSeqProperties
<1>5. /\ b \in Seq(Keys) /\ Len(b) = (IF p + 1 <= n THEN n - (p + 1) + 1 ELSE 0)
      /\ \A i \in 1 .. n - (p + 1) + 1 : b[i] = s[p + 1 + i - 1]
  <2>1. \A i \in p + 1 .. n : s[i] \in Keys
    BY <1>2, <1>3
  <2> HIDE DEF n
  <2> QED BY <1>2, <2>1, SubSeqProperties
<1> HIDE DEF a, b, n
<1>6. Len(a) = p - 1 /\ Len(b) = n - p /\ Len(a) + Len(b) = n - 1
  BY <1>1, <1>4, <1>5
<1>7. /\ a \o b \in Seq(Keys) /\ Len(a \o b) = n - 1
      /\ \A i \in 1 .. n - 1 : (a \o b)[i] = IF i <= p - 1 THEN a[i] ELSE b[i - (p - 1)]
  <2>1. /\ a \o b \in Seq(Keys) /\ Len(a \o b) = Len(a) + Len(b)
        /\ \A i \in 1 .. Len(a) + Len(b) : (a \o b)[i] = IF i <= Len(a) THEN a[i] ELSE b[i - Len(a)]
    BY <1>4, <1>5, ConcatProperties
  <2> QED BY <1>6, <2>1
<1>8. ASSUME NEW i \in 1 .. n - 1
      PROVE  (a \o b)[i] = IF i < p THEN s[i] ELSE s[i + 1]
  <2>1. CASE i < p
    <3>1. i <= p - 1 /\ i \in 1 .. (p - 1) - 1 + 1 /\ 1 + i - 1 = i
      BY <2>1, <1>1
    <3> QED BY <3>1, <2>1, <1>4, <1>7
  <2>2. CASE ~(i < p)
    <3>1. /\ ~(i <= p - 1) /\ i - (p - 1) \in 1 .. n - (p + 1) + 1
          /\ p + 1 + (i - (p - 1)) - 1 = i + 1
      BY <2>2, <1>1
    <3>2. b[i - (p - 1)] = s[p + 1 + (i - (p - 1)) - 1]
      BY <3>1, <1>5
    <3> QED BY <3>1, <3>2, <2>2, <1>7
  <2> QED BY <2>1, <2>2
<1>9. Erase(s, k) = a \o b
  BY DEF Erase, a, b, p, n
<1> QED BY <1>1, <1>7, <1>8, <1>9 DEF n

(* Erasing keeps each of the others, once and in its order. *)
LEMMA EraseKeeps ==
  ASSUME NEW s \in Seq(Keys), NEW k, k \in In(s), Once(s), NEW f, Follows(s, f)
  PROVE  /\ Erase(s, k) \in Seq(Keys) /\ Once(Erase(s, k))
         /\ In(Erase(s, k)) = In(s) \ {k}
         /\ Follows(Erase(s, k), f)
<1> DEFINE e == Erase(s, k)
           n == Len(s)
<1>1. n \in Nat
  BY LenProperties
<1>2. PICK p \in 1 .. n :
        /\ s[p] = k /\ e \in Seq(Keys) /\ Len(e) = n - 1
        /\ \A i \in 1 .. n - 1 : e[i] = IF i < p THEN s[i] ELSE s[i + 1]
  BY EraseIs
<1> DEFINE Old(i) == IF i < p THEN i ELSE i + 1
<1> HIDE DEF e
<1>3. /\ \A i \in 1 .. n - 1 : Old(i) \in 1 .. n /\ Old(i) # p /\ e[i] = s[Old(i)]
      /\ \A i, j \in 1 .. n - 1 : (Old(i) = Old(j) => i = j) /\ (i < j => Old(i) < Old(j))
      /\ \A j \in 1 .. n : j # p => \E i \in 1 .. n - 1 : Old(i) = j
  <2>1. \A i \in 1 .. n - 1 : Old(i) \in 1 .. n /\ Old(i) # p /\ e[i] = s[Old(i)]
    BY <1>1, <1>2
  <2>2. \A i, j \in 1 .. n - 1 : (Old(i) = Old(j) => i = j) /\ (i < j => Old(i) < Old(j))
    BY <1>1, <1>2
  <2>3. ASSUME NEW j \in 1 .. n, j # p PROVE \E i \in 1 .. n - 1 : Old(i) = j
    <3>1. CASE j < p
      <4>1. j \in 1 .. n - 1 /\ Old(j) = j
        BY <3>1, <1>1, <1>2
      <4> QED BY <4>1
    <3>2. CASE ~(j < p)
      <4>1. j - 1 \in 1 .. n - 1 /\ Old(j - 1) = j
        BY <3>2, <2>3, <1>1, <1>2
      <4> QED BY <4>1
    <3> QED BY <3>1, <3>2
  <2> QED BY <2>1, <2>2, <2>3
<1> HIDE DEF Old, n
<1>4. ASSUME NEW i \in 1 .. n - 1, NEW j \in 1 .. n - 1
      PROVE  (e[i] = e[j] => i = j) /\ (i < j => e[i] \in f[e[j]])
  <2>1. Old(i) \in 1 .. n /\ e[i] = s[Old(i)] /\ Old(j) \in 1 .. n /\ e[j] = s[Old(j)]
    BY <1>3
  <2>2. (Old(i) = Old(j) => i = j) /\ (i < j => Old(i) < Old(j))
    BY <1>3
  <2>3. s[Old(i)] = s[Old(j)] => Old(i) = Old(j)
    BY <2>1 DEF Once, n
  <2>4. Old(i) < Old(j) => s[Old(i)] \in f[s[Old(j)]]
    BY <2>1 DEF Follows, n
  <2> QED BY <2>1, <2>2, <2>3, <2>4
<1>5. In(e) = In(s) \ {k}
  <2>1. ASSUME NEW x \in In(e) PROVE x \in In(s) \ {k}
    <3>1. PICK i \in 1 .. n - 1 : x = e[i]
      BY <1>2 DEF In
    <3>2. Old(i) \in 1 .. n /\ Old(i) # p /\ x = s[Old(i)]
      BY <3>1, <1>3
    <3> QED BY <3>2, <1>2 DEF In, Once, n
  <2>2. ASSUME NEW x \in In(s), x # k PROVE x \in In(e)
    <3>1. PICK j \in 1 .. n : x = s[j]
      BY DEF In, n
    <3>2. PICK i \in 1 .. n - 1 : Old(i) = j
      BY <3>1, <2>2, <1>2, <1>3
    <3>3. e[i] = x
      BY <3>1, <3>2, <1>3
    <3> QED BY <3>3, <1>2 DEF In
  <2> QED BY <2>1, <2>2
<1>6. Once(e) /\ Follows(e, f)
  BY <1>2, <1>4 DEF Once, Follows
<1> QED BY <1>2, <1>5, <1>6 DEF e

(* An element that comes to the front of a list. *)
LEMMA FrontKeeps ==
  ASSUME NEW s \in Seq(Keys), NEW k \in Keys, k \notin In(s), Once(s), NEW f, NEW h,
         Follows(s, f), \A j \in In(s) : k \in h[j] /\ f[j] \subseteq h[j]
  PROVE  /\ <<k>> \o s \in Seq(Keys) /\ Once(<<k>> \o s)
         /\ In(<<k>> \o s) = In(s) \cup {k}
         /\ Follows(<<k>> \o s, h)
<1> DEFINE e == <<k>> \o s
           n == Len(s)
<1>1. n \in Nat
  BY LenProperties
<1>2. <<k>> \in Seq(Keys) /\ Len(<<k>>) = 1 /\ <<k>>[1] = k
  OBVIOUS
<1>3. /\ e \in Seq(Keys) /\ Len(e) = 1 + n
      /\ \A i \in 1 .. 1 + n : e[i] = IF i <= 1 THEN <<k>>[i] ELSE s[i - 1]
  <2> HIDE DEF n
  <2> QED BY <1>2, ConcatProperties DEF n
<1> HIDE DEF e
<1>4. /\ 1 \in 1 .. 1 + n /\ e[1] = k
      /\ \A i \in 1 .. 1 + n : i # 1 => i - 1 \in 1 .. n /\ e[i] = s[i - 1]
      /\ \A i \in 1 .. n : i + 1 \in 1 .. 1 + n /\ e[i + 1] = s[i]
  BY <1>1, <1>2, <1>3
<1>5. \A i \in 1 .. n : s[i] \in In(s) /\ s[i] # k
  BY DEF In
<1>6. ASSUME NEW i \in 1 .. 1 + n, NEW j \in 1 .. 1 + n
      PROVE  (e[i] = e[j] => i = j) /\ (i < j => e[i] \in h[e[j]])
  <2>1. CASE j = 1
    <3>1. ~(i < j)
      BY <2>1, <1>1
    <3> QED BY <2>1, <3>1, <1>4, <1>5
  <2>2. CASE i = 1 /\ j # 1
    <3>1. j - 1 \in 1 .. n /\ e[j] = s[j - 1] /\ e[i] = k
      BY <2>2, <1>4
    <3> QED BY <3>1, <1>5
  <2>3. CASE i # 1 /\ j # 1
    <3>1. i - 1 \in 1 .. n /\ j - 1 \in 1 .. n /\ (i < j => i - 1 < j - 1) /\ (i - 1 = j - 1 => i = j)
      BY <2>3, <1>1, <1>4
    <3>2. e[i] = s[i - 1] /\ e[j] = s[j - 1]
      BY <2>3, <1>4
    <3>3. s[i - 1] = s[j - 1] => i - 1 = j - 1
      BY <3>1 DEF Once
    <3>4. i < j => s[i - 1] \in f[s[j - 1]]
      BY <3>1 DEF Follows
    <3> QED BY <3>1, <3>2, <3>3, <3>4, <1>5
  <2> QED BY <2>1, <2>2, <2>3
<1>7. In(e) = In(s) \cup {k}
  BY <1>3, <1>4 DEF In, n
<1> QED BY <1>3, <1>6, <1>7 DEF Once, Follows, e, n

-----------------------------------------------------------------------------
(* The indexes.                                                            *)

(* The part of the invariant that is about the entries and their indexes. *)
IndexOK ==
    /\ primary \in [Keys -> Abstract!Entry \cup {NoEntry}]
    /\ triggers \in [Triggers -> SUBSET Keys]
    /\ timeout \subseteq Deadlines \X Keys
    /\ lru \in Seq(Keys) /\ In(lru) = Present /\ Once(lru) /\ Follows(lru, since)
    /\ size \in Nat /\ triggers_count \in Nat
    /\ since \in [Keys -> SUBSET Keys]
    /\ CountersAgree
    /\ \A g \in Triggers : triggers[g] = {k \in Present : g \in primary[k].triggers}
    /\ timeout = {<<primary[k].timeout, k>> : k \in Present}

(* The part that is about the calls. *)
CallsOK ==
    /\ pc \in [Threads -> {"wait", "touch", "copy", "limits", "kill"}]
    /\ kill_list \in [Threads -> SUBSET Keys]
    /\ started \in [Threads -> Nat]
    /\ calls \in [Threads -> Abstract!Call \cup {Idle}]
    /\ answers \in [Threads -> Abstract!Answer]
    /\ now \in Nat

(* Together they are the invariant. *)
LEMMA InvParts == CacheInv <=> IndexOK /\ CallsOK /\ WithinLimit /\ LockedOut
BY DEF CacheInv, CacheTypeOK, IndexesAgree, UsedInOrder, IndexOK, CallsOK, In, Once, Follows

(* What an entry is. *)
LEMMA EntryIs ==
  ASSUME IndexOK, NEW k \in Present
  PROVE  /\ k \in Keys /\ primary[k] \in Abstract!Entry
         /\ primary[k].triggers \subseteq Triggers /\ IsFiniteSet(primary[k].triggers)
         /\ primary[k].timeout \in Deadlines
<1>1. k \in Keys /\ primary[k] \in Abstract!Entry
  BY DEF IndexOK, Present
<1>2. primary[k].triggers \subseteq Triggers /\ primary[k].timeout \in Deadlines
  BY <1>1 DEF Abstract!Entry
<1> QED BY <1>1, <1>2, TriggersAssumption, FS_Subset

(* No entry is the mark for none. *)
LEMMA EntryIsNot == \A e \in Abstract!Entry : e # NoEntry
BY NoEntryAssumption DEF Abstract!Entry

(* What is counted is finite. *)
LEMMA CountedFinite == IsFiniteSet(Present) /\ IsFiniteSet(Pairs)
<1>1. Present \in SUBSET Keys
  BY DEF Present
<1>2. Pairs \in SUBSET (Keys \X Triggers)
  BY DEF Pairs
<1>3. IsFiniteSet(Keys \X Triggers)
  BY KeysAssumption, TriggersAssumption, FS_Product
<1> QED BY <1>1, <1>2, <1>3, KeysAssumption, FS_Subset

(* The pairs of one entry are as many as its triggers. *)
LEMMA PairsOfOne ==
  ASSUME NEW k, NEW T, IsFiniteSet(T)
  PROVE  /\ IsFiniteSet({k} \X T) /\ Cardinality({k} \X T) = Cardinality(T)
         /\ Cardinality(T) \in Nat
<1>1. IsFiniteSet({k}) /\ Cardinality({k}) = 1
  BY FS_Singleton
<1>2. Cardinality(T) \in Nat
  BY FS_CardinalityType
<1> HIDE DEF Cardinality
<1>3. Cardinality({k} \X T) = Cardinality({k}) * Cardinality(T) /\ IsFiniteSet({k} \X T)
  BY <1>1, FS_Product
<1> QED BY <1>1, <1>2, <1>3

(* An entry leaves all indexes together. *)
LEMMA Deleted ==
  ASSUME IndexOK, NEW k \in Present, delete_node(k)
  PROVE  /\ IndexOK' /\ Present' = Present \ {k} /\ size' = size - 1
         /\ primary' = [primary EXCEPT ![k] = NoEntry]
<1> USE DEF delete_node
<1> DEFINE T == primary[k].triggers
<1>1. /\ k \in Keys /\ primary[k] \in Abstract!Entry /\ T \subseteq Triggers /\ IsFiniteSet(T)
      /\ primary[k] # NoEntry
  BY EntryIs DEF Present
<1>2. /\ primary' = [primary EXCEPT ![k] = NoEntry] /\ Present' = Present \ {k}
      /\ primary' \in [Keys -> Abstract!Entry \cup {NoEntry}]
      /\ \A j \in Keys : j # k => primary'[j] = primary[j]
  BY <1>1 DEF IndexOK, Present
<1>3. /\ lru' \in Seq(Keys) /\ In(lru') = Present' /\ Once(lru') /\ Follows(lru', since')
      /\ since' \in [Keys -> SUBSET Keys]
  <2>1. /\ Erase(lru, k) \in Seq(Keys) /\ In(Erase(lru, k)) = In(lru) \ {k} /\ Once(Erase(lru, k))
        /\ Follows(Erase(lru, k), since)
    BY EraseKeeps DEF IndexOK
  <2>2. since' = [j \in Keys |-> IF j = k THEN {} ELSE since[j] \ {k}]
    BY DEF Dropped
  <2>3. since' \in [Keys -> SUBSET Keys]
    BY <2>2 DEF IndexOK
  <2>4. ASSUME NEW i \in 1 .. Len(lru'), NEW j \in 1 .. Len(lru'), i < j
        PROVE  lru'[i] \in since'[lru'[j]]
    <3>1. lru' = Erase(lru, k) /\ lru'[i] \in since[lru'[j]]
      BY <2>1, <2>4 DEF Follows
    <3>2. lru'[i] \in In(lru) \ {k} /\ lru'[j] \in In(lru) \ {k} /\ In(lru) \subseteq Keys
      BY <2>1, <3>1 DEF In, IndexOK, Present
    <3> QED BY <2>2, <3>1, <3>2
  <2> QED BY <1>2, <2>1, <2>3, <2>4 DEF IndexOK, Follows
<1>4. /\ timeout' = {<<primary'[j].timeout, j>> : j \in Present'}
      /\ timeout' \subseteq Deadlines \X Keys
  <2>1. timeout = {<<primary[j].timeout, j>> : j \in Present} /\ timeout \subseteq Deadlines \X Keys
    BY DEF IndexOK
  <2>2. Present \subseteq Keys
    BY DEF Present
  <2>3. timeout' = timeout \ {<<primary[k].timeout, k>>}
    OBVIOUS
  <2> QED BY <1>2, <2>1, <2>2, <2>3
<1>5. /\ triggers' \in [Triggers -> SUBSET Keys]
      /\ \A g \in Triggers : triggers'[g] = {j \in Present' : g \in primary'[j].triggers}
  <2>1. triggers' = [g \in Triggers |-> IF g \in T THEN triggers[g] \ {k} ELSE triggers[g]]
    OBVIOUS
  <2>2. /\ triggers \in [Triggers -> SUBSET Keys]
        /\ \A g \in Triggers : triggers[g] = {j \in Present : g \in primary[j].triggers}
    BY DEF IndexOK
  <2>3. Present \subseteq Keys
    BY DEF Present
  <2> HIDE DEF delete_node
  <2> QED BY <1>2, <2>1, <2>2, <2>3
<1>6. size' = Cardinality(Present') /\ size' \in Nat
  <2>1. Cardinality(Present \ {k}) = Cardinality(Present) - 1 /\ Cardinality(Present \ {k}) \in Nat
    BY CountedFinite, FS_RemoveElement, FS_CardinalityType
  <2>2. size = Cardinality(Present) /\ size' = size - 1
    BY DEF IndexOK, CountersAgree
  <2> QED BY <1>2, <2>1, <2>2
<1>7. triggers_count' = Cardinality(Pairs') /\ triggers_count' \in Nat
  <2>1. Pairs' = Pairs \ ({k} \X T) /\ Pairs \cap ({k} \X T) = {k} \X T
    <3>1. /\ Pairs = {x \in Keys \X Triggers : primary[x[1]] # NoEntry /\ x[2] \in primary[x[1]].triggers}
          /\ Pairs' = {x \in Keys \X Triggers : primary'[x[1]] # NoEntry /\ x[2] \in primary'[x[1]].triggers}
      BY DEF Pairs
    <3>2. primary'[k] = NoEntry
      BY <1>1, <1>2 DEF IndexOK
    <3> HIDE DEF T, delete_node
    <3>3. ASSUME NEW x \in Keys \X Triggers
          PROVE  x \in {k} \X T <=> x[1] = k /\ x[2] \in T
      OBVIOUS
    <3>4. {k} \X T \subseteq Keys \X Triggers
      BY <1>1
    <3>5. ASSUME NEW x \in Keys \X Triggers
          PROVE  x \in Pairs' <=> x \in Pairs /\ x \notin {k} \X T
      BY <3>1, <3>2, <3>3, <1>2 DEF T
    <3>6. ASSUME NEW x \in {k} \X T PROVE x \in Pairs
      BY <3>1, <3>3, <3>4, <1>1 DEF T
    <3> QED BY <3>1, <3>4, <3>5, <3>6
  <2>2. Cardinality(Pairs \ ({k} \X T)) = Cardinality(Pairs) - Cardinality(Pairs \cap ({k} \X T))
    BY CountedFinite, FS_Difference
  <2>3. Cardinality({k} \X T) = Cardinality(T) /\ Cardinality(T) \in Nat
    BY <1>1, PairsOfOne
  <2>4. IsFiniteSet(Pairs \ ({k} \X T))
    BY CountedFinite, FS_Difference
  <2>5. Cardinality(Pairs \ ({k} \X T)) \in Nat
    BY <2>4, FS_CardinalityType
  <2>6. triggers_count = Cardinality(Pairs) /\ triggers_count' = triggers_count - Cardinality(T)
    BY DEF IndexOK, CountersAgree
  <2> QED BY <2>1, <2>2, <2>3, <2>5, <2>6
<1> QED BY <1>2, <1>3, <1>4, <1>5, <1>6, <1>7 DEF IndexOK, CountersAgree

(* Throwing everything away leaves nothing in any index. *)
LEMMA Cleared ==
  ASSUME nl_clear
  PROVE  IndexOK' /\ Present' = {} /\ size' = 0 /\ primary' = [k \in Keys |-> NoEntry]
<1> USE DEF nl_clear
<1>1. Present' = {} /\ primary' \in [Keys -> Abstract!Entry \cup {NoEntry}]
  BY DEF Present
<1>2. Pairs' = {}
  BY DEF Pairs
<1>3. lru' \in Seq(Keys) /\ In(lru') = {} /\ Once(lru') /\ Follows(lru', since')
  <2>1. lru' \in Seq(Keys) /\ Len(lru') = 0
    BY EmptySeq
  <2>2. 1 .. 0 = {}
    OBVIOUS
  <2> QED BY <2>1, <2>2 DEF In, Once, Follows
<1>4. Cardinality(Present') = 0 /\ Cardinality(Pairs') = 0
  BY <1>1, <1>2, FS_EmptySet
<1> QED BY <1>1, <1>3, <1>4 DEF IndexOK, CountersAgree

(* A step that leaves the indexes alone. *)
LEMMA IndexSame == ASSUME IndexOK, UNCHANGED index PROVE IndexOK' /\ Present' = Present
<1>1. Present' = Present /\ Pairs' = Pairs
  BY DEF Present, Pairs, index
<1> QED BY <1>1 DEF IndexOK, CountersAgree, index, In, Once, Follows

(* An entry that is read comes to the front of the list by use. *)
LEMMA Touched ==
  ASSUME IndexOK, NEW k \in Present, lru' = <<k>> \o Erase(lru, k), Used(k),
         UNCHANGED <<primary, triggers, timeout, size, triggers_count>>
  PROVE  IndexOK' /\ Present' = Present
<1> DEFINE e == Erase(lru, k)
<1>1. Present' = Present /\ Pairs' = Pairs /\ Present \subseteq Keys
  BY DEF Present, Pairs
<1>2. /\ e \in Seq(Keys) /\ Once(e) /\ In(e) = Present \ {k} /\ Follows(e, since)
  BY EraseKeeps DEF IndexOK
<1>3. since' = [j \in Keys |-> IF j = k THEN {} ELSE IF j \in Present THEN since[j] \cup {k} ELSE {}]
  BY DEF Used
<1>4. \A j \in In(e) : k \in since'[j] /\ since[j] \subseteq since'[j]
  BY <1>1, <1>2, <1>3
<1>5. since' \in [Keys -> SUBSET Keys]
  BY <1>1, <1>3 DEF IndexOK
<1> HIDE DEF e
<1>6. /\ <<k>> \o e \in Seq(Keys) /\ Once(<<k>> \o e) /\ In(<<k>> \o e) = In(e) \cup {k}
      /\ Follows(<<k>> \o e, since')
  BY <1>1, <1>2, <1>4, FrontKeeps
<1>7. lru' = <<k>> \o e /\ In(e) \cup {k} = Present
  BY <1>2 DEF e
<1> QED BY <1>1, <1>5, <1>6, <1>7 DEF IndexOK, CountersAgree

(* A new entry is put into all indexes together. *)
Insert(k, entry) ==
    /\ primary' = [primary EXCEPT ![k] = entry]
    /\ size' = size + 1
    /\ lru' = <<k>> \o lru
    /\ timeout' = timeout \cup {<<entry.timeout, k>>}
    /\ triggers' = [g \in Triggers |->
                      IF g \in entry.triggers THEN triggers[g] \cup {k} ELSE triggers[g]]
    /\ triggers_count' = triggers_count + Cardinality(entry.triggers)
    /\ Used(k)
LEMMA Inserted ==
  ASSUME IndexOK, NEW k \in Keys, k \notin Present, NEW entry \in Abstract!Entry, Insert(k, entry)
  PROVE  IndexOK' /\ Present' = Present \cup {k} /\ size' = size + 1
<1> USE DEF Insert
<1> DEFINE T == entry.triggers
<1>1. /\ T \subseteq Triggers /\ IsFiniteSet(T) /\ entry.timeout \in Deadlines /\ entry # NoEntry
      /\ Present \subseteq Keys
  <2>1. T \subseteq Triggers /\ entry.timeout \in Deadlines /\ Present \subseteq Keys
    BY DEF Abstract!Entry, Present
  <2> QED BY <2>1, EntryIsNot, TriggersAssumption, FS_Subset
<1>2. /\ primary' \in [Keys -> Abstract!Entry \cup {NoEntry}] /\ Present' = Present \cup {k}
      /\ primary'[k] = entry /\ \A j \in Keys : j # k => primary'[j] = primary[j]
  BY <1>1 DEF IndexOK, Present
<1>3. /\ lru' \in Seq(Keys) /\ In(lru') = Present' /\ Once(lru') /\ Follows(lru', since')
      /\ since' \in [Keys -> SUBSET Keys]
  <2>1. since' = [j \in Keys |-> IF j = k THEN {} ELSE IF j \in Present THEN since[j] \cup {k} ELSE {}]
    BY DEF Used
  <2>2. \A j \in In(lru) : k \in since'[j] /\ since[j] \subseteq since'[j]
    BY <1>1, <2>1 DEF IndexOK
  <2>3. since' \in [Keys -> SUBSET Keys]
    BY <1>1, <2>1 DEF IndexOK
  <2>4. /\ <<k>> \o lru \in Seq(Keys) /\ Once(<<k>> \o lru) /\ In(<<k>> \o lru) = In(lru) \cup {k}
        /\ Follows(<<k>> \o lru, since')
    BY <2>2, FrontKeeps DEF IndexOK
  <2> QED BY <1>2, <2>3, <2>4 DEF IndexOK
<1>4. /\ timeout' = {<<primary'[j].timeout, j>> : j \in Present'}
      /\ timeout' \subseteq Deadlines \X Keys
  <2>1. timeout = {<<primary[j].timeout, j>> : j \in Present} /\ timeout \subseteq Deadlines \X Keys
    BY DEF IndexOK
  <2>2. timeout' = timeout \cup {<<entry.timeout, k>>}
    OBVIOUS
  <2> HIDE DEF Insert
  <2> QED BY <1>1, <1>2, <2>1, <2>2
<1>5. /\ triggers' \in [Triggers -> SUBSET Keys]
      /\ \A g \in Triggers : triggers'[g] = {j \in Present' : g \in primary'[j].triggers}
  <2>1. triggers' = [g \in Triggers |-> IF g \in T THEN triggers[g] \cup {k} ELSE triggers[g]]
    OBVIOUS
  <2>2. /\ triggers \in [Triggers -> SUBSET Keys]
        /\ \A g \in Triggers : triggers[g] = {j \in Present : g \in primary[j].triggers}
    BY DEF IndexOK
  <2> HIDE DEF Insert
  <2> QED BY <1>1, <1>2, <2>1, <2>2
<1>6. size' = Cardinality(Present') /\ size' \in Nat
  <2>1. Cardinality(Present \cup {k}) = Cardinality(Present) + 1
    BY CountedFinite, FS_AddElement
  <2> QED BY <1>2, <2>1 DEF IndexOK, CountersAgree
<1>7. triggers_count' = Cardinality(Pairs') /\ triggers_count' \in Nat
  <2>1. Pairs' = Pairs \cup ({k} \X T) /\ Pairs \cap ({k} \X T) = {}
    <3>1. /\ Pairs = {x \in Keys \X Triggers : primary[x[1]] # NoEntry /\ x[2] \in primary[x[1]].triggers}
          /\ Pairs' = {x \in Keys \X Triggers : primary'[x[1]] # NoEntry /\ x[2] \in primary'[x[1]].triggers}
      BY DEF Pairs
    <3>2. primary[k] = NoEntry
      BY DEF Present
    <3> HIDE DEF Insert
    <3>3. ASSUME NEW x \in Keys \X Triggers
          PROVE  x \in {k} \X T <=> x[1] = k /\ x[2] \in T
      OBVIOUS
    <3>4. {k} \X T \subseteq Keys \X Triggers
      BY <1>1
    <3>5. ASSUME NEW x \in Keys \X Triggers
          PROVE  /\ x \in Pairs' <=> x \in Pairs \/ x \in {k} \X T
                 /\ ~(x \in Pairs /\ x \in {k} \X T)
      BY <3>1, <3>2, <3>3, <1>1, <1>2
    <3> QED BY <3>1, <3>4, <3>5
  <2>2. /\ IsFiniteSet({k} \X T) /\ Cardinality({k} \X T) = Cardinality(T)
        /\ Cardinality(T) \in Nat
    BY <1>1, PairsOfOne
  <2>3. /\ Cardinality(Pairs \cup ({k} \X T)) =
             Cardinality(Pairs) + Cardinality({k} \X T) - Cardinality(Pairs \cap ({k} \X T))
    BY <2>2, CountedFinite, FS_Union
  <2>4. Cardinality(Pairs \cap ({k} \X T)) = 0
    BY <2>1, FS_EmptySet
  <2>5. triggers_count = Cardinality(Pairs) /\ triggers_count \in Nat
        /\ triggers_count' = triggers_count + Cardinality(T)
    BY DEF IndexOK, CountersAgree
  <2> QED BY <2>1, <2>2, <2>3, <2>4, <2>5
<1> QED BY <1>2, <1>3, <1>4, <1>5, <1>6, <1>7 DEF IndexOK, CountersAgree

-----------------------------------------------------------------------------
(* The lock.                                                               *)

(* What a thread that holds the lock relies on. *)
ThreadOK(t) ==
    /\ Reading(t) => calls[t].op = "fetch" /\ calls[t].key \in Present
    /\ pc[t] = "kill" => /\ calls[t].op = "rise"
                         /\ kill_list[t] = triggers[calls[t].trigger]
    /\ pc[t] = "limits" => calls[t].op = "store" /\ calls[t].key \notin Present

(* The lock is that, and that writers are alone. *)
LEMMA LockParts ==
  LockedOut <=> /\ \A t, u \in Threads : Writing(t) /\ Holding(u) => t = u
                /\ \A t \in Threads : ThreadOK(t)
BY DEF LockedOut, ThreadOK

(* A step of one thread: the others keep what they rely on, since they do  *)
(* not hold the lock or the entries do not change.                         *)
LEMMA StepOf ==
  ASSUME LockedOut, NEW t \in Threads, ThreadOK(t)',
         \A u \in Threads \ {t} : pc'[u] = pc[u] /\ calls'[u] = calls[u] /\ kill_list'[u] = kill_list[u],
         \/ UNCHANGED <<primary, triggers>>
         \/ \A u \in Threads \ {t} : ~Holding(u),
         Writing(t)' => \A u \in Threads \ {t} : ~Holding(u),
         Holding(t)' => \A u \in Threads \ {t} : ~Writing(u)
  PROVE  LockedOut'
<1>1. ASSUME NEW u \in Threads \ {t} PROVE ThreadOK(u)'
  BY LockParts DEF ThreadOK, Reading, Holding, Present
<1>2. ASSUME NEW u \in Threads, NEW v \in Threads, Writing(u)', Holding(v)' PROVE u = v
  BY <1>2, LockParts DEF Writing, Holding
<1> QED BY <1>1, <1>2, LockParts DEF LockedOut, ThreadOK

(* A thread that holds the lock to write is alone with it. *)
LEMMA Alone ==
  ASSUME LockedOut, NEW t \in Threads, Writing(t)
  PROVE  \A u \in Threads \ {t} : ~Holding(u) /\ ~Writing(u)
BY DEF LockedOut, Writing, Holding

(* The arguments of a call. *)
LEMMA CallIs ==
  ASSUME CallsOK, NEW t \in Threads
  PROVE  /\ calls[t].op \in {"fetch", "remove"} => calls[t].key \in Keys
         /\ calls[t].op = "store" => calls[t].key \in Keys /\ calls[t].entry \in Abstract!Given
         /\ calls[t].op = "rise" => calls[t].trigger \in Triggers
BY DEF CallsOK, Idle, Abstract!Call

(* A call that returns leaves nothing to rely on. *)
LEMMA ReturnsOK ==
  ASSUME CallsOK, NEW t \in Threads, Returns(t)
  PROVE  /\ ThreadOK(t)' /\ ~Holding(t)' /\ ~Writing(t)'
         /\ \A u \in Threads \ {t} : pc'[u] = pc[u] /\ calls'[u] = calls[u]
         /\ pc' \in [Threads -> {"wait", "touch", "copy", "limits", "kill"}]
         /\ calls' \in [Threads -> Abstract!Call \cup {Idle}]
<1>1. pc'[t] = "wait"
  BY DEF Returns, CallsOK
<1> QED BY <1>1 DEF Returns, CallsOK, ThreadOK, Holding, Writing, Reading

-----------------------------------------------------------------------------
(* Every step keeps the invariant.                                         *)

Inv == IndexOK /\ CallsOK /\ WithinLimit /\ LockedOut

(* A call begins. *)
LEMMA EnterStep == ASSUME Inv, NEW t \in Threads, Enter(t) PROVE Inv'
<1> USE DEF Inv
<1>1. IndexOK' /\ WithinLimit' /\ Present' = Present
  BY IndexSame DEF Enter, WithinLimit, index
<1>2. pc[t] = "wait"
  BY LockParts DEF Enter, Idle, ThreadOK, Reading, CallsOK
<1>3. CallsOK'
  BY DEF Enter, CallsOK, Abstract!Answer
<1>4. ThreadOK(t)' /\ ~Writing(t)' /\ ~Holding(t)'
  BY <1>2 DEF Enter, ThreadOK, Reading, Writing, Holding
<1>5. /\ \A u \in Threads \ {t} : pc'[u] = pc[u] /\ calls'[u] = calls[u] /\ kill_list'[u] = kill_list[u]
      /\ UNCHANGED <<primary, triggers>>
  BY DEF Enter, CallsOK, index
<1>6. LockedOut'
  BY <1>4, <1>5, StepOf
<1> QED BY <1>1, <1>3, <1>6

(* fetch *)
LEMMA FetchStep ==
  ASSUME Inv, NEW t \in Threads, FetchFind(t) \/ FetchTouch(t) \/ FetchCopy(t)
  PROVE  Inv'
<1> USE DEF Inv
<1>1. CASE FetchFind(t)
  <2> DEFINE hit == calls[t].key \in Present /\ ~(primary[calls[t].key].timeout < now)
  <2>1. Find(t, hit) /\ ReadLock /\ calls[t].op = "fetch" /\ UNCHANGED index
    BY <1>1 DEF FetchFind, Find
  <2>2. IndexOK' /\ WithinLimit' /\ Present' = Present
    BY <2>1, IndexSame DEF WithinLimit, index
  <2>3. CASE hit /\ pc' = [pc EXCEPT ![t] = "touch"] /\ UNCHANGED <<calls, answers>>
    <3>1. CallsOK' /\ ThreadOK(t)' /\ ~Writing(t)'
      BY <2>1, <2>2, <2>3 DEF Find, CallsOK, ThreadOK, Reading, Writing
    <3>2. /\ \A u \in Threads \ {t} : pc'[u] = pc[u] /\ calls'[u] = calls[u] /\ kill_list'[u] = kill_list[u]
          /\ \A u \in Threads \ {t} : ~Writing(u)
      BY <2>1, <2>3 DEF CallsOK, Find, ReadLock
    <3> QED BY <2>1, <2>2, <3>1, <3>2, StepOf DEF index
  <2>4. CASE answers' = [answers EXCEPT ![t] = NoEntry] /\ Returns(t)
    <3>1. CallsOK'
      BY <2>1, <2>4, ReturnsOK DEF Find, CallsOK, Abstract!Answer
    <3> QED BY <2>1, <2>2, <2>4, <3>1, ReturnsOK, StepOf DEF index, Find
  <2> QED BY <2>1, <2>3, <2>4 DEF Find
<1>2. CASE FetchTouch(t)
  <2>1. pc[t] = "touch" /\ calls[t].op = "fetch" /\ calls[t].key \in Present /\ ~Writing(t) /\ Holding(t)
    BY <1>2, LockParts DEF FetchTouch, ThreadOK, Reading, Writing, Holding
  <2>2. IndexOK' /\ WithinLimit' /\ Present' = Present
    BY <1>2, <2>1, Touched DEF FetchTouch, WithinLimit
  <2>3. CallsOK' /\ ThreadOK(t)' /\ ~Writing(t)'
    BY <1>2, <2>1, <2>2 DEF FetchTouch, CallsOK, ThreadOK, Reading, Writing
  <2>4. /\ \A u \in Threads \ {t} : pc'[u] = pc[u] /\ calls'[u] = calls[u] /\ kill_list'[u] = kill_list[u]
        /\ \A u \in Threads \ {t} : ~Writing(u)
    BY <1>2, <2>1 DEF CallsOK, FetchTouch, LockedOut
  <2> QED BY <1>2, <2>2, <2>3, <2>4, StepOf DEF FetchTouch
<1>3. CASE FetchCopy(t)
  <2>1. IndexOK' /\ WithinLimit' /\ Present' = Present /\ Returns(t)
    BY <1>3, IndexSame DEF FetchCopy, WithinLimit, index
  <2>2. calls[t].key \in Present /\ pc[t] = "copy"
    BY <1>3, LockParts DEF FetchCopy, ThreadOK, Reading
  <2>3. primary[calls[t].key] \in Abstract!Answer
    BY <2>2, EntryIs DEF Abstract!Answer
  <2>4. CallsOK'
    BY <1>3, <2>1, <2>3, ReturnsOK DEF FetchCopy, CallsOK
  <2> QED BY <1>3, <2>1, <2>4, ReturnsOK, StepOf DEF FetchCopy, index
<1> QED BY <1>1, <1>2, <1>3

(* An entry goes while a thread holds the lock to write. *)
LEMMA DeleteStep ==
  ASSUME Inv, NEW t \in Threads, NEW k \in Present, delete_node(k),
         \A u \in Threads \ {t} : ~Holding(u)
  PROVE  IndexOK' /\ WithinLimit' /\ Present' = Present \ {k}
<1>1. IndexOK' /\ Present' = Present \ {k} /\ size' = size - 1
  BY Deleted DEF Inv
<1>2. size \in Nat /\ Limit \in Nat
  BY NumberAssumption DEF Inv, IndexOK
<1> QED BY <1>1, <1>2 DEF Inv, WithinLimit

(* A thread that writes returns. *)
LEMMA ReturnStep ==
  ASSUME Inv, NEW t \in Threads, Returns(t), UNCHANGED <<kill_list, now>>,
         answers' \in [Threads -> Abstract!Answer], started' \in [Threads -> Nat],
         \/ UNCHANGED <<primary, triggers>>
         \/ \A u \in Threads \ {t} : ~Holding(u)
  PROVE  CallsOK' /\ LockedOut'
<1>1. CallsOK'
  BY ReturnsOK DEF Inv, CallsOK
<1>2. LockedOut'
  BY ReturnsOK, StepOf DEF Inv
<1> QED BY <1>1, <1>2

(* Whoever may take the lock to write finds nobody holding it. *)
LEMMA LockFree == ASSUME WriteLock, NEW t \in Threads PROVE \A u \in Threads \ {t} : ~Holding(u) /\ ~Writing(u)
BY DEF WriteLock, Holding, Writing

(* rise *)
LEMMA RiseStep ==
  ASSUME Inv, NEW t \in Threads, RiseFind(t) \/ RiseKill(t) \/ RiseEnd(t)
  PROVE  Inv'
<1> USE DEF Inv
<1>1. CASE RiseFind(t)
  <2>1. IndexOK' /\ WithinLimit' /\ Present' = Present
    BY <1>1, IndexSame DEF RiseFind, WithinLimit, index
  <2>2. calls[t].trigger \in Triggers /\ triggers[calls[t].trigger] \in SUBSET Keys
    BY <1>1, CallIs DEF RiseFind, IndexOK
  <2>3. CallsOK' /\ ThreadOK(t)'
    BY <1>1, <2>2 DEF RiseFind, CallsOK, ThreadOK, Reading, index
  <2>4. \A u \in Threads \ {t} : pc'[u] = pc[u] /\ calls'[u] = calls[u] /\ kill_list'[u] = kill_list[u]
    BY <1>1 DEF RiseFind, CallsOK
  <2>5. WriteLock
    BY <1>1 DEF RiseFind
  <2> QED BY <1>1, <2>1, <2>3, <2>4, <2>5, LockFree, StepOf DEF RiseFind, index
<1>2. CASE RiseKill(t)
  <2>1. pc[t] = "kill" /\ calls[t].op = "rise" /\ kill_list[t] = triggers[calls[t].trigger] /\ Writing(t)
    BY <1>2, LockParts DEF RiseKill, ThreadOK, Writing
  <2>2. \A u \in Threads \ {t} : ~Holding(u) /\ ~Writing(u)
    BY <2>1, Alone
  <2>3. PICK k \in kill_list[t] : delete_node(k) /\ kill_list' = [kill_list EXCEPT ![t] = @ \ {k}]
    BY <1>2 DEF RiseKill
  <2>4. calls[t].trigger \in Triggers
    BY <2>1, CallIs
  <2>5. k \in Present /\ calls[t].trigger \in primary[k].triggers
    BY <2>1, <2>4 DEF IndexOK
  <2>6. IndexOK' /\ WithinLimit' /\ Present' = Present \ {k}
    BY <2>2, <2>3, <2>5, DeleteStep
  <2>7. CallsOK'
    BY <1>2, <2>3 DEF RiseKill, CallsOK
  <2>8. triggers'[calls[t].trigger] = triggers[calls[t].trigger] \ {k}
    BY <2>3, <2>4, <2>5 DEF delete_node
  <2>9. ThreadOK(t)'
    BY <1>2, <2>1, <2>3, <2>8 DEF RiseKill, CallsOK, ThreadOK, Reading
  <2>10. \A u \in Threads \ {t} : pc'[u] = pc[u] /\ calls'[u] = calls[u] /\ kill_list'[u] = kill_list[u]
    BY <1>2, <2>3 DEF RiseKill, CallsOK
  <2> QED BY <2>2, <2>6, <2>7, <2>9, <2>10, StepOf
<1>3. CASE RiseEnd(t)
  <2>1. IndexOK' /\ WithinLimit'
    BY <1>3, IndexSame DEF RiseEnd, WithinLimit, index
  <2> QED BY <1>3, <2>1, ReturnStep DEF RiseEnd, index, CallsOK
<1> QED BY <1>1, <1>2, <1>3

(* clear, stats and remove *)
LEMMA SmallStep ==
  ASSUME Inv, NEW t \in Threads, Clear(t) \/ Stats(t) \/ Remove(t)
  PROVE  Inv'
<1> USE DEF Inv
<1>1. CASE Clear(t)
  <2>1. IndexOK' /\ WithinLimit'
    BY <1>1, Cleared, NumberAssumption DEF Clear, WithinLimit
  <2> QED BY <1>1, <2>1, ReturnStep, LockFree DEF Clear, CallsOK
<1>2. CASE Stats(t)
  <2>1. IndexOK' /\ WithinLimit'
    BY <1>2, IndexSame DEF Stats, WithinLimit, index
  <2>2. answers' \in [Threads -> Abstract!Answer]
    BY <1>2 DEF Stats, CallsOK, IndexOK, Abstract!Answer
  <2> QED BY <1>2, <2>1, <2>2, ReturnStep DEF Stats, index, CallsOK
<1>3. CASE Remove(t)
  <2>1. IndexOK' /\ WithinLimit'
    <3>1. CASE calls[t].key \in Present /\ delete_node(calls[t].key)
      BY <1>3, <3>1, DeleteStep, LockFree DEF Remove
    <3>2. CASE UNCHANGED index
      BY <3>2, IndexSame DEF WithinLimit, index
    <3> QED BY <1>3, <3>1, <3>2 DEF Remove
  <2> QED BY <1>3, <2>1, ReturnStep, LockFree DEF Remove, CallsOK
<1> QED BY <1>1, <1>2, <1>3

(* Whatever check_limits may take is an entry, and it finds one when there *)
(* is any.                                                                 *)
LEMMA VictimsAre ==
  ASSUME IndexOK, NEW t \in Threads
  PROVE  Victims(t) \subseteq Present /\ (size > 0 => Victims(t) # {})
<1>1. \A e \in timeout : e[2] \in Present
  BY DEF IndexOK
<1>2. Len(lru) \in Nat /\ \A i \in {Len(lru)} \ {0} : lru[i] \in Present
  <2>1. Len(lru) \in Nat
    BY LenProperties DEF IndexOK
  <2>2. \A i \in {Len(lru)} \ {0} : i \in 1 .. Len(lru)
    BY <2>1
  <2> QED BY <2>1, <2>2 DEF IndexOK, In
<1>3. Least \subseteq Present /\ {e[2] : e \in First} \subseteq Present
  BY <1>1, <1>2 DEF Least, First
<1>4. ASSUME size > 0 PROVE Least # {}
  <2>1. Present # {}
    <3>1. Cardinality({}) = 0
      BY FS_EmptySet
    <3>2. size = Cardinality(Present) /\ size \in Nat
      BY DEF IndexOK, CountersAgree
    <3> QED BY <1>4, <3>1, <3>2
  <2>2. 1 .. 0 = {}
    OBVIOUS
  <2>3. Len(lru) # 0
    BY <2>1, <2>2 DEF IndexOK, In
  <2> QED BY <2>3 DEF Least
<1> QED BY <1>3, <1>4 DEF Victims

(* What store makes of the entry it was given. *)
LEMMA StoredEntry ==
  ASSUME NEW k \in Keys, NEW given \in Abstract!Given
  PROVE  LET e == [given EXCEPT !.triggers = given.triggers \cup {k}]
         IN e \in Abstract!Entry /\ e.triggers = given.triggers \cup {k} /\ e.timeout = given.timeout
BY KeysAssumption, TriggersAssumption DEF Abstract!Given, Abstract!Entry

(* store *)
LEMMA StoreStep ==
  ASSUME Inv, NEW t \in Threads,
         \/ StoreBegin(t) \/ check_limits(t) \/ StoreInsert(t) \/ StoreGivesUp(t) \/ StoreFails(t)
  PROVE  Inv'
<1> USE DEF Inv
<1>1. CASE StoreBegin(t)
  <2>1. WriteLock /\ calls[t].op = "store" /\ calls[t].key \in Keys
    BY <1>1, CallIs DEF StoreBegin
  <2>2. \A u \in Threads \ {t} : ~Holding(u) /\ ~Writing(u)
    BY <2>1, LockFree
  <2>3. IndexOK' /\ WithinLimit' /\ calls[t].key \notin Present'
    <3>1. CASE calls[t].key \in Present /\ delete_node(calls[t].key)
      BY <2>2, <3>1, DeleteStep
    <3>2. CASE calls[t].key \notin Present /\ UNCHANGED index
      BY <3>2, IndexSame DEF WithinLimit, index
    <3> QED BY <1>1, <3>1, <3>2 DEF StoreBegin
  <2>4. CallsOK' /\ ThreadOK(t)'
    BY <1>1, <2>1, <2>3 DEF StoreBegin, CallsOK, ThreadOK, Reading
  <2>5. \A u \in Threads \ {t} : pc'[u] = pc[u] /\ calls'[u] = calls[u] /\ kill_list'[u] = kill_list[u]
    BY <1>1 DEF StoreBegin, CallsOK
  <2> QED BY <2>2, <2>3, <2>4, <2>5, StepOf
<1>2. CASE check_limits(t)
  <2>1. pc[t] = "limits" /\ Writing(t)
    BY <1>2 DEF check_limits, Writing
  <2>2. \A u \in Threads \ {t} : ~Holding(u) /\ ~Writing(u)
    BY <2>1, Alone
  <2>3. PICK k \in Present : delete_node(k)
    BY <1>2, VictimsAre DEF check_limits
  <2>4. IndexOK' /\ WithinLimit' /\ Present' = Present \ {k}
    BY <2>2, <2>3, DeleteStep
  <2>5. CallsOK' /\ ThreadOK(t)'
    BY <1>2, <2>1, <2>4, LockParts DEF check_limits, CallsOK, ThreadOK, Reading
  <2>6. \A u \in Threads \ {t} : pc'[u] = pc[u] /\ calls'[u] = calls[u] /\ kill_list'[u] = kill_list[u]
    BY <1>2 DEF check_limits
  <2> QED BY <2>2, <2>4, <2>5, <2>6, StepOf
<1>3. CASE StoreInsert(t)
  <2> DEFINE k == calls[t].key
             given == calls[t].entry
             entry == [given EXCEPT !.triggers = given.triggers \cup {k}]
  <2>1. pc[t] = "limits" /\ Writing(t) /\ calls[t].op = "store" /\ k \notin Present
    BY <1>3, LockParts DEF StoreInsert, Writing, ThreadOK
  <2>2. k \in Keys /\ given \in Abstract!Given
    BY <2>1, CallIs
  <2>3. entry \in Abstract!Entry /\ entry.triggers = given.triggers \cup {k} /\ entry.timeout = given.timeout
    BY <2>2, StoredEntry
  <2>4. Insert(k, entry)
    BY <1>3, <2>3 DEF StoreInsert, Insert
  <2>5. IndexOK' /\ size' = size + 1
    BY <2>1, <2>2, <2>3, <2>4, Inserted
  <2>6. Limit > 0 => size < Limit \/ size = 0
    BY <1>3, VictimsAre, NumberAssumption DEF StoreInsert, OverLimit, IndexOK
  <2>7. WithinLimit'
    BY <2>5, <2>6, NumberAssumption DEF WithinLimit, IndexOK
  <2>8. \A u \in Threads \ {t} : ~Holding(u)
    BY <2>1, Alone
  <2> QED BY <1>3, <2>5, <2>7, <2>8, ReturnStep DEF StoreInsert, CallsOK
<1>4. CASE StoreGivesUp(t)
  <2>1. IndexOK' /\ WithinLimit'
    BY <1>4, IndexSame DEF StoreGivesUp, WithinLimit, index
  <2> QED BY <1>4, <2>1, ReturnStep DEF StoreGivesUp, index, CallsOK
<1>5. CASE StoreFails(t)
  <2>1. IndexOK' /\ WithinLimit'
    BY <1>5, Cleared, NumberAssumption DEF StoreFails, WithinLimit
  <2>2. \A u \in Threads \ {t} : ~Holding(u)
    BY <1>5, Alone DEF StoreFails, Writing
  <2> QED BY <1>5, <2>1, <2>2, ReturnStep DEF StoreFails, CallsOK
<1> QED BY <1>1, <1>2, <1>3, <1>4, <1>5

(* The clock, and steps outside. *)
LEMMA OtherStep == ASSUME Inv, Tick \/ UNCHANGED cacheVars PROVE Inv'
<1> USE DEF Inv
<1>1. UNCHANGED <<index, pc, kill_list, started, calls, answers>> /\ now' \in Nat
  BY NumberAssumption DEF Tick, cacheVars, index, CallsOK
<1>2. IndexOK' /\ WithinLimit' /\ Present' = Present
  BY <1>1, IndexSame DEF WithinLimit, index
<1>3. CallsOK' /\ LockedOut'
  BY <1>1, <1>2 DEF CallsOK, LockedOut, Reading, Writing, Holding, index
<1> QED BY <1>2, <1>3

(* An empty cache that nobody calls. *)
LEMMA InitInv == CacheInit => Inv
<1> SUFFICES ASSUME CacheInit PROVE Inv
  OBVIOUS
<1> USE DEF CacheInit
<1>1. Present = {} /\ Pairs = {}
  BY DEF Present, Pairs
<1>2. lru \in Seq(Keys) /\ In(lru) = {} /\ Once(lru) /\ Follows(lru, since)
  <2>1. lru \in Seq(Keys) /\ Len(lru) = 0
    BY EmptySeq
  <2>2. 1 .. 0 = {}
    OBVIOUS
  <2> QED BY <2>1, <2>2 DEF In, Once, Follows
<1>3. Cardinality(Present) = 0 /\ Cardinality(Pairs) = 0
  BY <1>1, FS_EmptySet
<1>4. IndexOK
  BY <1>1, <1>2, <1>3 DEF IndexOK, CountersAgree
<1>5. CallsOK /\ WithinLimit /\ LockedOut
  BY NumberAssumption DEF CallsOK, WithinLimit, LockedOut, Reading, Writing, Abstract!Answer
<1> QED BY <1>4, <1>5 DEF Inv

(* Every step keeps the invariant. *)
LEMMA NextInv == Inv /\ [CacheNext]_cacheVars => Inv'
<1> SUFFICES ASSUME Inv, [CacheNext]_cacheVars PROVE Inv'
  OBVIOUS
<1> QED BY EnterStep, FetchStep, RiseStep, SmallStep, StoreStep, OtherStep DEF CacheNext, Work

(* The four indexes of mem_cache and its two counters always agree with    *)
(* the entries in the hash table, there are never more of these than the   *)
(* limit, and readers and a writer never hold access_lock together.        *)
THEOREM IndexesCorrect == CacheSpec => []CacheInv
<1>1. CacheSpec => []Inv
  BY InitInv, NextInv, PTL DEF CacheSpec
<1>2. Inv => CacheInv
  BY InvParts DEF Inv
<1> QED BY <1>1, <1>2, PTL

-----------------------------------------------------------------------------
(* Which entry goes.                                                       *)

(* A set of numbers has a least one. *)
LEMMA LeastOf ==
  ASSUME NEW T, T \subseteq Nat, T # {}
  PROVE  \E n \in T : \A m \in T : n <= m
<1> DEFINE Less == OpToRel(<, Nat)
<1>1. PICK n \in T : \A m \in T : ~ (<<m, n>> \in Less)
  BY NatLessThanWellFounded, WFMin
<1>2. ASSUME NEW m \in T PROVE n <= m
  <2>1. ~ (m < n)
    BY <1>1 DEF OpToRel
  <2> QED BY <2>1
<1> QED BY <1>2

(* When an entry is past its time, check_limits takes one that is. *)
LEMMA ExpiredFirst ==
  ASSUME IndexOK, NEW t \in Threads, started[t] \in Nat,
         NEW j \in Present, primary[j].timeout < started[t]
  PROVE  \E e \in First : e[1] < started[t]
<1> DEFINE T == {e[1] : e \in timeout}
<1>1. <<primary[j].timeout, j>> \in timeout
  BY DEF IndexOK
<1>2. T \subseteq Nat /\ primary[j].timeout \in T
  <2>1. \A e \in timeout : e[1] \in Deadlines
    BY DEF IndexOK
  <2>2. <<primary[j].timeout, j>>[1] = primary[j].timeout
    OBVIOUS
  <2> QED BY <1>1, <2>1, <2>2, NumberAssumption
<1>3. PICK n \in T : \A m \in T : n <= m
  <2> HIDE DEF T
  <2> QED BY <1>2, LeastOf
<1>4. PICK e \in timeout : e[1] = n
  OBVIOUS
<1>5. e \in First
  BY <1>3, <1>4 DEF First
<1>6. n <= primary[j].timeout
  BY <1>2, <1>3
<1>7. n \in Nat /\ primary[j].timeout \in Nat /\ n < started[t]
  BY <1>2, <1>6
<1> QED BY <1>4, <1>5, <1>7

(* All that have the earliest time have the same. *)
LEMMA FirstAreEqual ==
  ASSUME IndexOK, NEW e \in First, NEW f \in First
  PROVE  e[1] = f[1]
<1>1. e[1] \in Nat /\ f[1] \in Nat
  BY NumberAssumption DEF First, IndexOK
<1>2. e[1] <= f[1] /\ f[1] <= e[1]
  BY DEF First
<1> QED BY <1>1, <1>2

(* The last in the list was used before all the others. *)
LEMMA LastUsed ==
  ASSUME IndexOK, NEW k \in Least, NEW j \in Present, j # k
  PROVE  j \in since[k]
<1>1. Len(lru) \in Nat
  BY LenProperties DEF IndexOK
<1>2. Len(lru) # 0 /\ k = lru[Len(lru)]
  BY DEF Least
<1>3. PICK i \in 1 .. Len(lru) : j = lru[i]
  BY DEF IndexOK, In
<1>4. i < Len(lru) /\ Len(lru) \in 1 .. Len(lru)
  BY <1>1, <1>2, <1>3
<1> QED BY <1>2, <1>3, <1>4 DEF IndexOK, Follows

(* check_limits takes the right entry. *)
LEMMA RightVictim ==
  ASSUME Inv, NEW t \in Threads, NEW k \in Victims(t), ~(primary[k].timeout < started[t]),
         NEW j \in Present \ {k}
  PROVE  ~(primary[j].timeout < started[t]) /\ j \in since[k]
<1>1. IndexOK /\ started[t] \in Nat
  BY DEF Inv, CallsOK
<1>2. ~\E e \in First : e[1] < started[t]
  <2> SUFFICES ASSUME \E e \in First : e[1] < started[t] PROVE FALSE
    OBVIOUS
  <2>1. PICK e \in First : e[1] < started[t]
    OBVIOUS
  <2>2. PICK f \in First : k = f[2]
    BY DEF Victims
  <2>3. f \in timeout
    BY DEF First
  <2>4. f[1] = primary[k].timeout
    BY <1>1, <2>2, <2>3 DEF IndexOK
  <2> QED BY <1>1, <2>1, <2>4, FirstAreEqual
<1>3. k \in Least
  BY <1>2 DEF Victims
<1> QED BY <1>1, <1>2, <1>3, ExpiredFirst, LastUsed

(* While a thread is in check_limits only its own steps change anything. *)
LEMMA OnlyTheWriter ==
  ASSUME Inv, NEW t \in Threads, pc[t] = "limits", pc'[t] = "limits",
         CacheNext, primary' # primary
  PROVE  check_limits(t)
<1>1. \A u \in Threads \ {t} : pc[u] = "wait"
  BY Alone DEF Inv, Writing, Holding
<1>2. ~ReadLock /\ ~WriteLock
  BY DEF ReadLock, WriteLock, Writing, Holding
<1>3. \A u \in Threads : ~FetchFind(u) /\ ~RiseFind(u) /\ ~Clear(u) /\ ~Stats(u) /\ ~Remove(u) /\ ~StoreBegin(u)
  BY <1>2 DEF FetchFind, Find, RiseFind, Clear, Stats, Remove, StoreBegin
<1>4. \A u \in Threads : ~FetchTouch(u) /\ ~FetchCopy(u) /\ ~RiseKill(u) /\ ~RiseEnd(u)
  BY <1>1 DEF FetchTouch, FetchCopy, RiseKill, RiseEnd
<1>5. \A u \in Threads : ~StoreInsert(u) /\ ~StoreFails(u)
  BY <1>1 DEF StoreInsert, StoreFails, Returns, Inv, CallsOK
<1>6. \A u \in Threads : ~Enter(u) /\ ~StoreGivesUp(u)
  BY DEF Enter, StoreGivesUp, index
<1>7. \A u \in Threads \ {t} : ~check_limits(u)
  BY <1>1 DEF check_limits
<1>8. ~Tick
  BY DEF Tick, index
<1> QED BY <1>3, <1>4, <1>5, <1>6, <1>7, <1>8 DEF CacheNext, Work

(* check_limits throws out an entry whose time has not come only when all  *)
(* are such, and then the one that was used least recently.                *)
THEOREM RightEntryAlwaysGoes == CacheSpec => RightEntryGoes
<1> DEFINE Right == \A t \in Threads, k \in Keys :
             ThrownOut(t, k) /\ primary[k].timeout >= started[t] =>
               \A j \in Present \ {k} : primary[j].timeout >= started[t] /\ j \in since[k]
<1>1. Inv /\ [CacheNext]_cacheVars => [Right]_cacheVars
  <2> SUFFICES ASSUME Inv, CacheNext, NEW t \in Threads, NEW k \in Keys, ThrownOut(t, k),
                      primary[k].timeout >= started[t], NEW j \in Present \ {k}
               PROVE  primary[j].timeout >= started[t] /\ j \in since[k]
    OBVIOUS
  <2>1. pc[t] = "limits" /\ pc'[t] = "limits" /\ primary[k] # NoEntry /\ primary'[k] = NoEntry
    BY DEF ThrownOut
  <2>2. check_limits(t)
    BY <2>1, OnlyTheWriter
  <2>3. PICK v \in Victims(t) : delete_node(v)
    BY <2>2 DEF check_limits
  <2>4. v = k
    BY <2>1, <2>3 DEF delete_node, Inv, IndexOK
  <2>5. /\ primary[k].timeout \in Nat /\ primary[j].timeout \in Nat /\ started[t] \in Nat
    BY <2>1, EntryIs, NumberAssumption DEF Inv, CallsOK, Present
  <2>6. ~(primary[k].timeout < started[t])
    BY <2>5
  <2>7. ~(primary[j].timeout < started[t]) /\ j \in since[k]
    BY <2>3, <2>4, <2>6, RightVictim
  <2> QED BY <2>5, <2>7
<1> QED BY <1>1, InitInv, NextInv, PTL DEF CacheSpec, RightEntryGoes

-----------------------------------------------------------------------------
(* The refinement.                                                         *)

(* What callers see of the calls and of their answers. *)
SeenCalls == [t \in Threads |-> IF Reading(t) THEN [op |-> "idle"] ELSE calls[t]]
SeenAnswers == [t \in Threads |-> IF Reading(t) THEN primary[calls[t].key] ELSE answers[t]]
seen == <<primary, SeenCalls, SeenAnswers, now>>

(* The abstract cache counts as this one does. *)
LEMMA SameCount == ASSUME NEW S PROVE Abstract!Cardinality(S) = Cardinality(S)
BY DEF Abstract!Cardinality, Cardinality

(* The abstract actions, in these terms. *)
LEMMA AbstractActions ==
  ASSUME NEW t
  PROVE  /\ Abstract!Invoke(t) <=>
              /\ SeenCalls[t] = Idle
              /\ \E c \in Abstract!Call : SeenCalls' = [SeenCalls EXCEPT ![t] = c]
              /\ SeenAnswers' = [SeenAnswers EXCEPT ![t] = NoEntry]
              /\ UNCHANGED <<primary, now>>
         /\ Abstract!AbsFetch(t) <=>
              /\ SeenCalls[t].op = "fetch"
              /\ SeenAnswers' = [SeenAnswers EXCEPT ![t] =
                     IF /\ primary[SeenCalls[t].key] # NoEntry
                        /\ primary[SeenCalls[t].key].timeout >= now
                     THEN primary[SeenCalls[t].key] ELSE NoEntry]
              /\ SeenCalls' = [SeenCalls EXCEPT ![t] = Idle]
              /\ UNCHANGED <<primary, now>>
         /\ Abstract!AbsStore(t) <=>
              /\ SeenCalls[t].op = "store"
              /\ primary' = [primary EXCEPT ![SeenCalls[t].key] =
                     [SeenCalls[t].entry EXCEPT !.triggers = @ \cup {SeenCalls[t].key}]]
              /\ SeenCalls' = [SeenCalls EXCEPT ![t] = Idle]
              /\ UNCHANGED <<SeenAnswers, now>>
         /\ Abstract!AbsRise(t) <=>
              /\ SeenCalls[t].op = "rise"
              /\ primary' = [k \in Keys |->
                     IF primary[k] # NoEntry /\ SeenCalls[t].trigger \in primary[k].triggers
                     THEN NoEntry ELSE primary[k]]
              /\ SeenCalls' = [SeenCalls EXCEPT ![t] = Idle]
              /\ UNCHANGED <<SeenAnswers, now>>
         /\ Abstract!AbsRemove(t) <=>
              /\ SeenCalls[t].op = "remove"
              /\ primary' = [primary EXCEPT ![SeenCalls[t].key] = NoEntry]
              /\ SeenCalls' = [SeenCalls EXCEPT ![t] = Idle]
              /\ UNCHANGED <<SeenAnswers, now>>
         /\ Abstract!AbsClear(t) <=>
              /\ SeenCalls[t].op \in {"clear", "store"}
              /\ primary' = [k \in Keys |-> NoEntry]
              /\ SeenCalls' = [SeenCalls EXCEPT ![t] = Idle]
              /\ UNCHANGED <<SeenAnswers, now>>
         /\ Abstract!AbsGiveUp(t) <=>
              /\ SeenCalls[t].op = "store"
              /\ SeenCalls' = [SeenCalls EXCEPT ![t] = Idle]
              /\ UNCHANGED <<primary, SeenAnswers, now>>
         /\ Abstract!AbsStats(t) <=>
              /\ SeenCalls[t].op = "stats"
              /\ SeenAnswers' = [SeenAnswers EXCEPT ![t] = [keys |-> Cardinality({k \in Keys : primary[k] # NoEntry})]]
              /\ SeenCalls' = [SeenCalls EXCEPT ![t] = Idle]
              /\ UNCHANGED <<primary, now>>
         /\ Abstract!absVars = seen /\ (Abstract!absVars)' = seen'
<1> USE DEF Idle, SeenCalls, SeenAnswers
<1>1. Abstract!Invoke(t) <=>
          /\ SeenCalls[t] = Idle
          /\ \E c \in Abstract!Call : SeenCalls' = [SeenCalls EXCEPT ![t] = c]
          /\ SeenAnswers' = [SeenAnswers EXCEPT ![t] = NoEntry]
          /\ UNCHANGED <<primary, now>>
  BY DEF Abstract!Invoke, Abstract!Return, Abstract!Idle
<1>2. Abstract!AbsFetch(t) <=>
          /\ SeenCalls[t].op = "fetch"
          /\ SeenAnswers' = [SeenAnswers EXCEPT ![t] =
                 IF /\ primary[SeenCalls[t].key] # NoEntry
                    /\ primary[SeenCalls[t].key].timeout >= now
                 THEN primary[SeenCalls[t].key] ELSE NoEntry]
          /\ SeenCalls' = [SeenCalls EXCEPT ![t] = Idle]
          /\ UNCHANGED <<primary, now>>
  BY DEF Abstract!AbsFetch, Abstract!Return, Abstract!Idle
<1>3. Abstract!AbsStore(t) <=>
          /\ SeenCalls[t].op = "store"
          /\ primary' = [primary EXCEPT ![SeenCalls[t].key] =
                 [SeenCalls[t].entry EXCEPT !.triggers = @ \cup {SeenCalls[t].key}]]
          /\ SeenCalls' = [SeenCalls EXCEPT ![t] = Idle]
          /\ UNCHANGED <<SeenAnswers, now>>
  BY DEF Abstract!AbsStore, Abstract!Return, Abstract!Idle
<1>4. Abstract!AbsRise(t) <=>
          /\ SeenCalls[t].op = "rise"
          /\ primary' = [k \in Keys |->
                 IF primary[k] # NoEntry /\ SeenCalls[t].trigger \in primary[k].triggers
                 THEN NoEntry ELSE primary[k]]
          /\ SeenCalls' = [SeenCalls EXCEPT ![t] = Idle]
          /\ UNCHANGED <<SeenAnswers, now>>
  BY DEF Abstract!AbsRise, Abstract!Return, Abstract!Idle
<1>5. Abstract!AbsRemove(t) <=>
          /\ SeenCalls[t].op = "remove"
          /\ primary' = [primary EXCEPT ![SeenCalls[t].key] = NoEntry]
          /\ SeenCalls' = [SeenCalls EXCEPT ![t] = Idle]
          /\ UNCHANGED <<SeenAnswers, now>>
  BY DEF Abstract!AbsRemove, Abstract!Return, Abstract!Idle
<1>6. Abstract!AbsClear(t) <=>
          /\ SeenCalls[t].op \in {"clear", "store"}
          /\ primary' = [k \in Keys |-> NoEntry]
          /\ SeenCalls' = [SeenCalls EXCEPT ![t] = Idle]
          /\ UNCHANGED <<SeenAnswers, now>>
  BY DEF Abstract!AbsClear, Abstract!Return, Abstract!Idle
<1>7. Abstract!AbsGiveUp(t) <=>
          /\ SeenCalls[t].op = "store"
          /\ SeenCalls' = [SeenCalls EXCEPT ![t] = Idle]
          /\ UNCHANGED <<primary, SeenAnswers, now>>
  BY DEF Abstract!AbsGiveUp, Abstract!Return, Abstract!Idle
<1>8. Abstract!AbsStats(t) <=>
          /\ SeenCalls[t].op = "stats"
          /\ SeenAnswers' = [SeenAnswers EXCEPT ![t] = [keys |-> Cardinality({k \in Keys : primary[k] # NoEntry})]]
          /\ SeenCalls' = [SeenCalls EXCEPT ![t] = Idle]
          /\ UNCHANGED <<primary, now>>
  <2>1. Abstract!Cardinality({k \in Keys : primary[k] # NoEntry})
          = Cardinality({k \in Keys : primary[k] # NoEntry})
    BY SameCount
  <2> QED BY <2>1 DEF Abstract!AbsStats, Abstract!Return, Abstract!Idle
<1>9. Abstract!absVars = seen /\ (Abstract!absVars)' = seen'
  BY DEF Abstract!absVars, seen
<1> HIDE DEF Idle, SeenCalls, SeenAnswers
<1> QED BY <1>1, <1>2, <1>3, <1>4, <1>5, <1>6, <1>7, <1>8, <1>9

(* What an abstract step may be. *)
LEMMA AbstractNext ==
  /\ \A t \in Threads :
       (\/ Abstract!Invoke(t) \/ Abstract!AbsFetch(t) \/ Abstract!AbsStore(t)
        \/ Abstract!AbsRise(t) \/ Abstract!AbsRemove(t) \/ Abstract!AbsClear(t)
        \/ Abstract!AbsGiveUp(t) \/ Abstract!AbsStats(t)) => Abstract!AbsNext
  /\ \A k \in Keys :
       (/\ primary[k] # NoEntry
        /\ primary' = [primary EXCEPT ![k] = NoEntry]
        /\ UNCHANGED <<SeenCalls, SeenAnswers, now>>) => Abstract!AbsNext
  /\ (now' = now + 1 /\ UNCHANGED <<primary, SeenCalls, SeenAnswers>>) => Abstract!AbsNext
<1>1. ASSUME NEW t \in Threads,
             \/ Abstract!Invoke(t) \/ Abstract!AbsFetch(t) \/ Abstract!AbsStore(t)
             \/ Abstract!AbsRise(t) \/ Abstract!AbsRemove(t) \/ Abstract!AbsClear(t)
             \/ Abstract!AbsGiveUp(t) \/ Abstract!AbsStats(t)
      PROVE  Abstract!AbsNext
  BY <1>1 DEF Abstract!AbsNext
<1>2. ASSUME NEW k \in Keys, primary[k] # NoEntry, primary' = [primary EXCEPT ![k] = NoEntry],
             UNCHANGED <<SeenCalls, SeenAnswers, now>>
      PROVE  Abstract!AbsNext
  <2>1. Abstract!Lose(k)
    BY <1>2 DEF Abstract!Lose, SeenCalls, SeenAnswers
  <2> QED BY <2>1 DEF Abstract!AbsNext
<1>3. ASSUME now' = now + 1, UNCHANGED <<primary, SeenCalls, SeenAnswers>> PROVE Abstract!AbsNext
  <2>1. Abstract!Pass
    BY <1>3 DEF Abstract!Pass, SeenCalls, SeenAnswers
  <2> QED BY <2>1 DEF Abstract!AbsNext
<1> QED BY <1>1, <1>2, <1>3

(* What callers see changes for the thread that makes the step only. *)
LEMMA SeenStep ==
  ASSUME Inv, NEW t \in Threads,
         \A u \in Threads \ {t} : pc'[u] = pc[u] /\ calls'[u] = calls[u] /\ answers'[u] = answers[u],
         \/ UNCHANGED primary
         \/ \A u \in Threads \ {t} : ~Holding(u)
  PROVE  /\ SeenCalls' = [SeenCalls EXCEPT ![t] = IF Reading(t)' THEN Idle ELSE calls'[t]]
         /\ SeenAnswers' = [SeenAnswers EXCEPT ![t] =
                              IF Reading(t)' THEN primary'[calls'[t].key] ELSE answers'[t]]
         /\ SeenCalls[t] = IF Reading(t) THEN Idle ELSE calls[t]
         /\ SeenAnswers[t] = IF Reading(t) THEN primary[calls[t].key] ELSE answers[t]
<1>1. \A u \in Threads \ {t} : Reading(u)' = Reading(u)
  BY DEF Reading
<1>2. \A u \in Threads \ {t} : Reading(u) => primary' = primary
  BY DEF Reading, Holding
<1>3. \A u \in Threads \ {t} : /\ SeenCalls'[u] = SeenCalls[u]
                               /\ SeenAnswers'[u] = SeenAnswers[u]
  BY <1>1, <1>2 DEF SeenCalls, SeenAnswers
<1>4. /\ SeenCalls'[t] = IF Reading(t)' THEN Idle ELSE calls'[t]
      /\ SeenAnswers'[t] = IF Reading(t)' THEN primary'[calls'[t].key] ELSE answers'[t]
      /\ SeenCalls[t] = IF Reading(t) THEN Idle ELSE calls[t]
      /\ SeenAnswers[t] = IF Reading(t) THEN primary[calls[t].key] ELSE answers[t]
  BY DEF SeenCalls, SeenAnswers, Idle
<1>5. /\ DOMAIN SeenCalls = Threads /\ DOMAIN SeenCalls' = Threads
      /\ DOMAIN SeenAnswers = Threads /\ DOMAIN SeenAnswers' = Threads
      /\ SeenCalls = [u \in Threads |-> SeenCalls[u]]
      /\ SeenCalls' = [u \in Threads |-> SeenCalls'[u]]
      /\ SeenAnswers = [u \in Threads |-> SeenAnswers[u]]
      /\ SeenAnswers' = [u \in Threads |-> SeenAnswers'[u]]
  BY DEF SeenCalls, SeenAnswers
<1> QED BY <1>3, <1>4, <1>5

(* A step that callers do not see. *)
LEMMA SeenSame ==
  ASSUME NEW t \in Threads, SeenCalls' = [SeenCalls EXCEPT ![t] = SeenCalls[t]],
         SeenAnswers' = [SeenAnswers EXCEPT ![t] = SeenAnswers[t]]
  PROVE  UNCHANGED <<SeenCalls, SeenAnswers>>
BY DEF SeenCalls, SeenAnswers

(* Every step is one of the abstract cache, or not seen.  A call begins,   *)
(* or a store gives up at once.                                            *)
LEMMA RefinesCall ==
  ASSUME Inv, NEW t \in Threads, Enter(t) \/ StoreGivesUp(t)
  PROVE  Abstract!AbsNext
<1> USE DEF Inv
<1>1. /\ pc[t] = "wait" /\ pc'[t] = "wait" /\ ~Reading(t) /\ ~Reading(t)'
      /\ UNCHANGED primary /\ UNCHANGED now
      /\ \A u \in Threads \ {t} : pc'[u] = pc[u] /\ calls'[u] = calls[u] /\ answers'[u] = answers[u]
  BY LockParts DEF Enter, StoreGivesUp, Returns, Idle, ThreadOK, Reading, CallsOK, index
<1>2. /\ SeenCalls' = [SeenCalls EXCEPT ![t] = calls'[t]] /\ SeenCalls[t] = calls[t]
      /\ SeenAnswers' = [SeenAnswers EXCEPT ![t] = answers'[t]] /\ SeenAnswers[t] = answers[t]
  BY <1>1, SeenStep
<1>3. CASE Enter(t)
  <2>1. calls[t] = Idle /\ \E c \in Abstract!Call : calls'[t] = c
    BY <1>3 DEF Enter, CallsOK
  <2>2. answers'[t] = NoEntry
    BY <1>3 DEF Enter, CallsOK
  <2>3. Abstract!Invoke(t)
    BY <1>1, <1>2, <2>1, <2>2, AbstractActions
  <2> QED BY <2>3, AbstractNext
<1>4. CASE StoreGivesUp(t)
  <2>1. calls[t].op = "store" /\ calls'[t] = Idle /\ answers'[t] = answers[t]
    BY <1>4 DEF StoreGivesUp, Returns, CallsOK
  <2>2. SeenAnswers' = SeenAnswers
    BY <1>2, <2>1 DEF SeenAnswers
  <2>3. Abstract!AbsGiveUp(t)
    BY <1>1, <1>2, <2>1, <2>2, AbstractActions
  <2> QED BY <2>3, AbstractNext
<1> QED BY <1>3, <1>4

(* fetch: the answer is settled when the entry is found. *)
LEMMA RefinesFetch ==
  ASSUME Inv, NEW t \in Threads, FetchFind(t) \/ FetchTouch(t) \/ FetchCopy(t)
  PROVE  Abstract!AbsNext \/ UNCHANGED seen
<1> USE DEF Inv
<1>1. /\ UNCHANGED primary /\ UNCHANGED now
      /\ \A u \in Threads \ {t} : pc'[u] = pc[u] /\ calls'[u] = calls[u] /\ answers'[u] = answers[u]
  BY DEF FetchFind, Find, FetchTouch, FetchCopy, Returns, CallsOK, index
<1>2. /\ SeenCalls' = [SeenCalls EXCEPT ![t] = IF Reading(t)' THEN Idle ELSE calls'[t]]
      /\ SeenAnswers' = [SeenAnswers EXCEPT ![t] =
                           IF Reading(t)' THEN primary'[calls'[t].key] ELSE answers'[t]]
      /\ SeenCalls[t] = IF Reading(t) THEN Idle ELSE calls[t]
      /\ SeenAnswers[t] = IF Reading(t) THEN primary[calls[t].key] ELSE answers[t]
  BY <1>1, SeenStep
<1>3. CASE FetchFind(t)
  <2> DEFINE hit == calls[t].key \in Present /\ ~(primary[calls[t].key].timeout < now)
  <2>1. Find(t, hit) /\ calls[t].op = "fetch" /\ pc[t] = "wait" /\ calls[t].key \in Keys
    BY <1>3, CallIs DEF FetchFind, Find
  <2>2. ~Reading(t) /\ SeenCalls[t] = calls[t]
    BY <1>2, <2>1 DEF Reading
  <2>3. hit <=> /\ primary[calls[t].key] # NoEntry
                /\ primary[calls[t].key].timeout >= now
    <3>1. calls[t].key \in Present <=> primary[calls[t].key] # NoEntry
      BY <2>1 DEF Present
    <3>2. calls[t].key \in Present => primary[calls[t].key].timeout \in Nat /\ now \in Nat
      BY EntryIs, NumberAssumption DEF CallsOK
    <3> QED BY <3>1, <3>2
  <2>4. CASE hit
    <3>1. pc'[t] = "touch" /\ UNCHANGED <<calls, answers>>
      BY <2>1, <2>4 DEF Find, CallsOK
    <3>2. Reading(t)'
      BY <3>1 DEF Reading
    <3>3. Abstract!AbsFetch(t)
      BY <1>1, <1>2, <2>1, <2>2, <2>3, <2>4, <3>1, <3>2, AbstractActions
    <3> QED BY <3>3, AbstractNext
  <2>5. CASE ~hit
    <3>1. pc'[t] = "wait" /\ calls'[t] = Idle /\ answers'[t] = NoEntry
      BY <2>1, <2>5 DEF Find, Returns, CallsOK
    <3>2. ~Reading(t)'
      BY <3>1 DEF Reading
    <3>3. Abstract!AbsFetch(t)
      BY <1>1, <1>2, <2>1, <2>2, <2>3, <2>5, <3>1, <3>2, AbstractActions
    <3> QED BY <3>3, AbstractNext
  <2> QED BY <2>4, <2>5
<1>4. CASE FetchTouch(t)
  <2>1. Reading(t) /\ Reading(t)' /\ calls' = calls
    BY <1>4 DEF FetchTouch, Reading, CallsOK
  <2> QED BY <1>1, <1>2, <2>1, SeenSame DEF seen
<1>5. CASE FetchCopy(t)
  <2>1. Reading(t) /\ ~Reading(t)' /\ calls'[t] = Idle /\ answers'[t] = primary[calls[t].key]
    BY <1>5 DEF FetchCopy, Returns, Reading, CallsOK
  <2> QED BY <1>1, <1>2, <2>1, SeenSame DEF seen
<1> QED BY <1>3, <1>4, <1>5

(* A step under the lock to write, as callers see it. *)
LEMMA WriterSeen ==
  ASSUME Inv, NEW t \in Threads, ~Reading(t), ~Reading(t)',
         \A u \in Threads \ {t} : pc'[u] = pc[u] /\ calls'[u] = calls[u],
         answers' = answers, UNCHANGED now,
         UNCHANGED primary \/ \A u \in Threads \ {t} : ~Holding(u)
  PROVE  /\ SeenCalls[t] = calls[t] /\ SeenAnswers' = SeenAnswers
         /\ SeenCalls' = [SeenCalls EXCEPT ![t] = calls'[t]]
         /\ calls'[t] = calls[t] => SeenCalls' = SeenCalls
<1>1. /\ SeenCalls' = [SeenCalls EXCEPT ![t] = calls'[t]] /\ SeenCalls[t] = calls[t]
      /\ SeenAnswers' = [SeenAnswers EXCEPT ![t] = answers'[t]] /\ SeenAnswers[t] = answers[t]
  BY SeenStep
<1>2. SeenAnswers' = SeenAnswers
  BY <1>1 DEF SeenAnswers
<1>3. calls'[t] = calls[t] => SeenCalls' = SeenCalls
  BY <1>1 DEF SeenCalls
<1> QED BY <1>1, <1>2, <1>3

(* rise: deleting an entry is losing it, and what is left at the end has   *)
(* not the trigger.                                                        *)
LEMMA RefinesRise ==
  ASSUME Inv, NEW t \in Threads, RiseFind(t) \/ RiseKill(t) \/ RiseEnd(t)
  PROVE  Abstract!AbsNext \/ UNCHANGED seen
<1> USE DEF Inv
<1>1. CASE RiseFind(t)
  <2>1. /\ ~Reading(t) /\ ~Reading(t)' /\ UNCHANGED <<primary, calls, answers, now>>
        /\ \A u \in Threads \ {t} : pc'[u] = pc[u]
    BY <1>1 DEF RiseFind, Reading, CallsOK, index
  <2>2. SeenAnswers' = SeenAnswers /\ SeenCalls' = SeenCalls
    BY <2>1, WriterSeen
  <2> QED BY <2>1, <2>2 DEF seen
<1>2. CASE RiseKill(t)
  <2>1. /\ Writing(t) /\ ~Reading(t) /\ ~Reading(t)' /\ UNCHANGED <<pc, calls, answers, now>>
    BY <1>2 DEF RiseKill, Reading, Writing
  <2>2. SeenAnswers' = SeenAnswers /\ SeenCalls' = SeenCalls
    BY <2>1, WriterSeen, Alone
  <2>3. PICK k \in kill_list[t] : delete_node(k)
    BY <1>2 DEF RiseKill
  <2>4. k \in Present
    <3>1. pc[t] = "kill" /\ calls[t].op = "rise" /\ kill_list[t] = triggers[calls[t].trigger]
      BY <1>2, LockParts DEF RiseKill, ThreadOK
    <3>2. calls[t].trigger \in Triggers
      BY <3>1, CallIs
    <3> QED BY <2>3, <3>1, <3>2 DEF IndexOK
  <2>5. primary' = [primary EXCEPT ![k] = NoEntry]
    BY <2>3 DEF delete_node
  <2> QED BY <2>1, <2>2, <2>4, <2>5, AbstractNext DEF Present
<1>3. CASE RiseEnd(t)
  <2>1. /\ Writing(t) /\ ~Reading(t) /\ ~Reading(t)' /\ UNCHANGED <<primary, answers, now>>
        /\ \A u \in Threads \ {t} : pc'[u] = pc[u] /\ calls'[u] = calls[u]
        /\ calls'[t] = Idle
    BY <1>3 DEF RiseEnd, Returns, Reading, Writing, CallsOK, index
  <2>2. /\ SeenCalls[t] = calls[t] /\ SeenAnswers' = SeenAnswers
        /\ SeenCalls' = [SeenCalls EXCEPT ![t] = Idle]
    BY <2>1, WriterSeen
  <2>3. calls[t].op = "rise" /\ triggers[calls[t].trigger] = {} /\ calls[t].trigger \in Triggers
    BY <1>3, LockParts, CallIs DEF RiseEnd, ThreadOK
  <2>4. \A k \in Keys : ~(primary[k] # NoEntry /\ calls[t].trigger \in primary[k].triggers)
    BY <2>3 DEF IndexOK, Present
  <2>5. primary' = [k \in Keys |->
                 IF primary[k] # NoEntry /\ SeenCalls[t].trigger \in primary[k].triggers
                 THEN NoEntry ELSE primary[k]]
    BY <2>1, <2>2, <2>4 DEF IndexOK
  <2>6. Abstract!AbsRise(t)
    BY <2>1, <2>2, <2>3, <2>5, AbstractActions
  <2> QED BY <2>6, AbstractNext
<1> QED BY <1>1, <1>2, <1>3

(* clear, stats and remove are each one step of the abstract cache. *)
LEMMA RefinesSmall ==
  ASSUME Inv, NEW t \in Threads, Clear(t) \/ Stats(t) \/ Remove(t)
  PROVE  Abstract!AbsNext
<1> USE DEF Inv
<1>1. CASE Clear(t)
  <2>1. /\ ~Reading(t) /\ ~Reading(t)' /\ UNCHANGED <<answers, now>> /\ WriteLock
        /\ \A u \in Threads \ {t} : pc'[u] = pc[u] /\ calls'[u] = calls[u]
        /\ calls'[t] = Idle /\ calls[t].op = "clear" /\ primary' = [k \in Keys |-> NoEntry]
    BY <1>1 DEF Clear, nl_clear, Returns, Reading, CallsOK
  <2>2. /\ SeenCalls[t] = calls[t] /\ SeenAnswers' = SeenAnswers
        /\ SeenCalls' = [SeenCalls EXCEPT ![t] = Idle]
    BY <2>1, WriterSeen, LockFree
  <2>3. Abstract!AbsClear(t)
    BY <2>1, <2>2, AbstractActions
  <2> QED BY <2>3, AbstractNext
<1>2. CASE Stats(t)
  <2>1. /\ ~Reading(t) /\ ~Reading(t)' /\ UNCHANGED <<primary, now>>
        /\ \A u \in Threads \ {t} : pc'[u] = pc[u] /\ calls'[u] = calls[u] /\ answers'[u] = answers[u]
        /\ calls'[t] = Idle /\ calls[t].op = "stats" /\ answers'[t] = [keys |-> size]
    BY <1>2 DEF Stats, Returns, Reading, CallsOK, index
  <2>2. /\ SeenCalls[t] = calls[t] /\ SeenAnswers' = [SeenAnswers EXCEPT ![t] = [keys |-> size]]
        /\ SeenCalls' = [SeenCalls EXCEPT ![t] = Idle]
    BY <2>1, SeenStep
  <2>3. size = Cardinality({k \in Keys : primary[k] # NoEntry})
    BY DEF IndexOK, CountersAgree, Present
  <2>4. Abstract!AbsStats(t)
    BY <2>1, <2>2, <2>3, AbstractActions
  <2> QED BY <2>4, AbstractNext
<1>3. CASE Remove(t)
  <2>1. /\ ~Reading(t) /\ ~Reading(t)' /\ UNCHANGED <<answers, now>> /\ WriteLock
        /\ \A u \in Threads \ {t} : pc'[u] = pc[u] /\ calls'[u] = calls[u]
        /\ calls'[t] = Idle /\ calls[t].op = "remove" /\ calls[t].key \in Keys
    BY <1>3, CallIs DEF Remove, Returns, Reading, CallsOK
  <2>2. /\ SeenCalls[t] = calls[t] /\ SeenAnswers' = SeenAnswers
        /\ SeenCalls' = [SeenCalls EXCEPT ![t] = Idle]
    BY <2>1, WriterSeen, LockFree
  <2>3. primary' = [primary EXCEPT ![calls[t].key] = NoEntry]
    BY <1>3, <2>1 DEF Remove, delete_node, index, Present, IndexOK
  <2>4. Abstract!AbsRemove(t)
    BY <2>1, <2>2, <2>3, AbstractActions
  <2> QED BY <2>4, AbstractNext
<1> QED BY <1>1, <1>2, <1>3

(* store: what it deletes first is lost, and the entry appears when it is  *)
(* inserted; when that fails the cache is emptied.                         *)
LEMMA RefinesStore ==
  ASSUME Inv, NEW t \in Threads,
         StoreBegin(t) \/ check_limits(t) \/ StoreInsert(t) \/ StoreFails(t)
  PROVE  Abstract!AbsNext \/ UNCHANGED seen
<1> USE DEF Inv
<1>1. CASE StoreBegin(t)
  <2>1. /\ ~Reading(t) /\ ~Reading(t)' /\ UNCHANGED <<calls, answers, now>> /\ WriteLock
        /\ \A u \in Threads \ {t} : pc'[u] = pc[u]
    BY <1>1 DEF StoreBegin, Reading, CallsOK
  <2>2. SeenAnswers' = SeenAnswers /\ SeenCalls' = SeenCalls
    BY <2>1, WriterSeen, LockFree
  <2>3. CASE calls[t].key \in Present /\ delete_node(calls[t].key)
    <3>1. primary' = [primary EXCEPT ![calls[t].key] = NoEntry]
      BY <2>3 DEF delete_node
    <3> QED BY <2>1, <2>2, <2>3, <3>1, AbstractNext DEF Present
  <2>4. CASE UNCHANGED index
    BY <2>1, <2>2, <2>4 DEF seen, index
  <2> QED BY <1>1, <2>3, <2>4 DEF StoreBegin
<1>2. CASE check_limits(t)
  <2>1. /\ Writing(t) /\ ~Reading(t) /\ ~Reading(t)' /\ UNCHANGED <<pc, calls, answers, now>>
    BY <1>2 DEF check_limits, Reading, Writing
  <2>2. SeenAnswers' = SeenAnswers /\ SeenCalls' = SeenCalls
    BY <2>1, WriterSeen, Alone
  <2>3. PICK k \in Victims(t) : delete_node(k)
    BY <1>2 DEF check_limits
  <2>4. k \in Present /\ primary' = [primary EXCEPT ![k] = NoEntry]
    BY <2>3, VictimsAre DEF delete_node
  <2> QED BY <2>1, <2>2, <2>4, AbstractNext DEF Present
<1>3. CASE StoreInsert(t) \/ StoreFails(t)
  <2>1. /\ Writing(t) /\ ~Reading(t) /\ ~Reading(t)' /\ UNCHANGED <<answers, now>>
        /\ \A u \in Threads \ {t} : pc'[u] = pc[u] /\ calls'[u] = calls[u]
        /\ calls'[t] = Idle /\ pc[t] = "limits"
    BY <1>3 DEF StoreInsert, StoreFails, Returns, Reading, Writing, CallsOK
  <2>2. /\ SeenCalls[t] = calls[t] /\ SeenAnswers' = SeenAnswers
        /\ SeenCalls' = [SeenCalls EXCEPT ![t] = Idle]
    BY <2>1, WriterSeen, Alone
  <2>3. calls[t].op = "store"
    BY <2>1, LockParts DEF ThreadOK
  <2>4. CASE StoreInsert(t)
    <3>1. primary' = [primary EXCEPT ![calls[t].key] =
                 [calls[t].entry EXCEPT !.triggers = @ \cup {calls[t].key}]]
      <4>1. primary' = [primary EXCEPT ![calls[t].key] =
                 [calls[t].entry EXCEPT !.triggers = calls[t].entry.triggers \cup {calls[t].key}]]
        BY <2>4 DEF StoreInsert
      <4> QED BY <4>1
    <3>2. Abstract!AbsStore(t)
      BY <2>1, <2>2, <2>3, <3>1, AbstractActions
    <3> QED BY <3>2, AbstractNext
  <2>5. CASE StoreFails(t)
    <3>1. primary' = [k \in Keys |-> NoEntry]
      BY <2>5 DEF StoreFails, nl_clear
    <3>2. Abstract!AbsClear(t)
      BY <2>1, <2>2, <2>3, <3>1, AbstractActions
    <3> QED BY <3>2, AbstractNext
  <2> QED BY <1>3, <2>4, <2>5
<1> QED BY <1>1, <1>2, <1>3

(* The clock, and a step of something else. *)
LEMMA RefinesOther ==
  ASSUME Tick \/ UNCHANGED cacheVars
  PROVE  Abstract!AbsNext \/ UNCHANGED seen
<1>1. CASE Tick
  <2>1. now' = now + 1 /\ UNCHANGED <<primary, pc, calls, answers>>
    BY <1>1 DEF Tick, index
  <2>2. UNCHANGED <<primary, SeenCalls, SeenAnswers>>
    BY <2>1 DEF SeenCalls, SeenAnswers, Reading
  <2> QED BY <2>1, <2>2, AbstractNext
<1>2. CASE UNCHANGED cacheVars
  BY <1>2 DEF cacheVars, seen, SeenCalls, SeenAnswers, Reading
<1> QED BY <1>1, <1>2

(* The cache begins empty, as the abstract one. *)
LEMMA RefinesInit == CacheInit => Abstract!AbsInit
BY DEF CacheInit, Abstract!AbsInit, Abstract!Idle, Idle, Reading

(* Callers cannot tell mem_cache from a cache in which every call happens  *)
(* at one instant: each step of a thread is such a call, the loss of one   *)
(* entry, or nothing that a caller sees.                                   *)
THEOREM CacheRefines == CacheSpec => Implements
<1>1. Inv /\ [CacheNext]_cacheVars => [Abstract!AbsNext]_(Abstract!absVars)
  <2> SUFFICES ASSUME Inv, [CacheNext]_cacheVars
               PROVE  Abstract!AbsNext \/ UNCHANGED (Abstract!absVars)
    OBVIOUS
  <2>1. Abstract!AbsNext \/ UNCHANGED seen
    BY RefinesCall, RefinesFetch, RefinesRise, RefinesSmall, RefinesStore, RefinesOther
    DEF CacheNext, Work
  <2> QED BY <2>1, AbstractActions
<1>2. CacheSpec => []Inv
  BY InitInv, NextInv, PTL DEF CacheSpec
<1> QED BY <1>1, <1>2, RefinesInit, PTL DEF CacheSpec, Implements, Abstract!AbsSpec

=============================================================================
