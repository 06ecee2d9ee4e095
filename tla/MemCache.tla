------------------------------- MODULE MemCache -------------------------------
(***************************************************************************)
(* mem_cache<thread_settings> of lib/cppcms/src/cache_storage.cpp: four    *)
(* indexes over the same entries (hash table, lists of entries by trigger, *)
(* entries by time, list by recent use) and two counters, changed under a  *)
(* readers-writer lock (access_lock) and a mutex (lru_mutex).  A reader    *)
(* holds the lock for several steps, and so does a writer that deletes     *)
(* several entries.                                                        *)
(***************************************************************************)
EXTENDS Naturals, FiniteSets, Sequences

CONSTANTS Threads, Keys, Triggers, Values, TriggerSets, Deadlines, MaxTime, NoEntry,
          Limit         \* cache.limit; 0 is no limit

ASSUME KeysAssumption == IsFiniteSet(Keys) /\ Keys \subseteq Triggers
ASSUME TriggersAssumption == IsFiniteSet(Triggers) /\ TriggerSets \subseteq SUBSET Triggers
ASSUME NumberAssumption == Limit \in Nat /\ MaxTime \in Nat /\ Deadlines \subseteq Nat

VARIABLES primary,    \* the hash table: key -> container
          triggers,   \* for every trigger the entries that have it
          timeout,    \* pairs of a time and a key: the multimap by time
          lru,        \* keys, the one used last first
          size, triggers_count,
          pc,         \* where each thread stands in its call
          since,      \* history: for each entry, those used after it last was
          kill_list,  \* rise: the entries still to be deleted
          started,    \* check_limits: the time it read
          calls, answers, now

ASSUME NoEntryAssumption ==
    NoEntry \notin [data: Values, triggers: SUBSET Triggers, timeout: Deadlines]

index == <<primary, triggers, timeout, lru, size, triggers_count, since>>
cacheVars == <<primary, triggers, timeout, lru, size, triggers_count, since, pc,
               kill_list, started, calls, answers, now>>

Present == {k \in Keys : primary[k] # NoEntry}

-----------------------------------------------------------------------------
(***************************************************************************)
(* The abstract cache that this one is shown to implement.  A fetch that   *)
(* has found its entry has happened, though it still has to copy the data. *)
(***************************************************************************)
Reading(t) == pc[t] \in {"touch", "copy"}
Abstract == INSTANCE TriggerCache WITH
    entries <- primary,
    calls <- [t \in Threads |-> IF Reading(t) THEN [op |-> "idle"] ELSE calls[t]],
    answers <- [t \in Threads |-> IF Reading(t) THEN primary[calls[t].key] ELSE answers[t]]

-----------------------------------------------------------------------------
(* booster::shared_mutex: any number of readers, or one writer. *)
Holding(t) == pc[t] # "wait"
Writing(t) == pc[t] \in {"limits", "kill"}
ReadLock == \A t \in Threads : ~Writing(t)
WriteLock == \A t \in Threads : ~Holding(t)

Idle == [op |-> "idle"]
Returns(t) == /\ calls' = [calls EXCEPT ![t] = Idle]
              /\ pc' = [pc EXCEPT ![t] = "wait"]

(* A list without the element at the iterator that the entry keeps. *)
Position(s, k) == CHOOSE i \in 1 .. Len(s) : s[i] = k
Erase(s, k) == SubSeq(s, 1, Position(s, k) - 1) \o SubSeq(s, Position(s, k) + 1, Len(s))

(* The history variable does not look at the list: j is in since[k] when   *)
(* both are present and j was stored or fetched after k last was.          *)
Used(k) == since' = [j \in Keys |-> IF j = k THEN {}
                                   ELSE IF j \in Present THEN since[j] \cup {k} ELSE {}]
Dropped(k) == since' = [j \in Keys |-> IF j = k THEN {} ELSE since[j] \ {k}]

delete_node_forgets_time(k) ==  \* variant that leaves the entry in the index by time
    /\ lru' = Erase(lru, k)
    /\ triggers' = [g \in Triggers |->
                      IF g \in primary[k].triggers THEN triggers[g] \ {k} ELSE triggers[g]]
    /\ triggers_count' = triggers_count - Cardinality(primary[k].triggers)
    /\ primary' = [primary EXCEPT ![k] = NoEntry]
    /\ size' = size - 1
    /\ Dropped(k) /\ UNCHANGED timeout

(* An entry leaves every index; a list of a trigger that becomes empty goes too. *)
delete_node(k) ==
    /\ lru' = Erase(lru, k)
    /\ timeout' = timeout \ {<<primary[k].timeout, k>>}
    /\ triggers' = [g \in Triggers |->
                      IF g \in primary[k].triggers THEN triggers[g] \ {k} ELSE triggers[g]]
    /\ triggers_count' = triggers_count - Cardinality(primary[k].triggers)
    /\ primary' = [primary EXCEPT ![k] = NoEntry]
    /\ size' = size - 1
    /\ Dropped(k)

nl_clear ==
    /\ timeout' = {} /\ lru' = <<>>
    /\ primary' = [k \in Keys |-> NoEntry]
    /\ triggers' = [g \in Triggers |-> {}]
    /\ size' = 0 /\ triggers_count' = 0
    /\ since' = [k \in Keys |-> {}]

-----------------------------------------------------------------------------
(* fetch.  The lookup, under the shared lock; a miss returns at once. *)
Find(t, hit) ==
    /\ calls[t].op = "fetch" /\ pc[t] = "wait" /\ ReadLock
    /\ \/ /\ hit
          /\ pc' = [pc EXCEPT ![t] = "touch"]
          /\ UNCHANGED <<calls, answers>>
       \/ /\ ~hit
          /\ answers' = [answers EXCEPT ![t] = NoEntry]
          /\ Returns(t)
    /\ UNCHANGED <<index, kill_list, started, now>>
FetchFindTooLate(t) ==  \* variant that serves an entry a second too long
    Find(t, calls[t].key \in Present /\ primary[calls[t].key].timeout + 1 >= now)
FetchFind(t) ==
    Find(t, calls[t].key \in Present /\ ~(primary[calls[t].key].timeout < now))

(* The entry becomes the one used last, under lru_mutex. *)
FetchTouchInPlace(t) ==  \* variant that leaves the entry where it is
    /\ pc[t] = "touch"
    /\ pc' = [pc EXCEPT ![t] = "copy"]
    /\ Used(calls[t].key)
    /\ UNCHANGED <<primary, triggers, timeout, lru, size, triggers_count, kill_list, started,
                   calls, answers, now>>
FetchTouch(t) ==
    /\ pc[t] = "touch"
    /\ lru' = <<calls[t].key>> \o Erase(lru, calls[t].key)
    /\ pc' = [pc EXCEPT ![t] = "copy"]
    /\ Used(calls[t].key)
    /\ UNCHANGED <<primary, triggers, timeout, size, triggers_count, kill_list, started,
                   calls, answers, now>>

(* Data, triggers and time are copied out; the names of the triggers come  *)
(* from the lists that the entry is in.                                    *)
FetchCopy(t) ==
    /\ pc[t] = "copy"
    /\ answers' = [answers EXCEPT ![t] = primary[calls[t].key]]
    /\ Returns(t)
    /\ UNCHANGED <<index, kill_list, started, now>>

(* rise: the entries with the trigger are listed, then deleted one by one. *)
RiseFind(t) ==
    /\ calls[t].op = "rise" /\ pc[t] = "wait" /\ WriteLock
    /\ kill_list' = [kill_list EXCEPT ![t] = triggers[calls[t].trigger]]
    /\ pc' = [pc EXCEPT ![t] = "kill"]
    /\ UNCHANGED <<index, started, calls, answers, now>>

RiseKill(t) ==
    /\ pc[t] = "kill"
    /\ \E k \in kill_list[t] :
         /\ delete_node(k)
         /\ kill_list' = [kill_list EXCEPT ![t] = @ \ {k}]
    /\ UNCHANGED <<pc, started, calls, answers, now>>

RiseEnd(t) ==
    /\ pc[t] = "kill" /\ kill_list[t] = {}
    /\ Returns(t)
    /\ UNCHANGED <<index, kill_list, started, answers, now>>

Clear(t) ==
    /\ calls[t].op = "clear" /\ pc[t] = "wait" /\ WriteLock
    /\ nl_clear
    /\ Returns(t)
    /\ UNCHANGED <<kill_list, started, answers, now>>

Stats(t) ==
    /\ calls[t].op = "stats" /\ pc[t] = "wait" /\ ReadLock
    /\ answers' = [answers EXCEPT ![t] = [keys |-> size]]
    /\ Returns(t)
    /\ UNCHANGED <<index, kill_list, started, now>>

Remove(t) ==
    /\ calls[t].op = "remove" /\ pc[t] = "wait" /\ WriteLock
    /\ \/ calls[t].key \in Present /\ delete_node(calls[t].key)
       \/ calls[t].key \notin Present /\ UNCHANGED index
    /\ Returns(t)
    /\ UNCHANGED <<kill_list, started, answers, now>>

-----------------------------------------------------------------------------
(* store.  The old entry of the key goes first, then check_limits begins. *)
StoreBegin(t) ==
    /\ calls[t].op = "store" /\ pc[t] = "wait" /\ WriteLock
    /\ \/ calls[t].key \in Present /\ delete_node(calls[t].key)
       \/ calls[t].key \notin Present /\ UNCHANGED index
    /\ started' = [started EXCEPT ![t] = now]
    /\ pc' = [pc EXCEPT ![t] = "limits"]
    /\ UNCHANGED <<kill_list, calls, answers, now>>

OverLimit == size > 0 /\ size >= Limit /\ Limit > 0

(* The entry whose time is the earliest, if that is past, or else the one  *)
(* that was not used for the longest time; with nothing to take, the loop  *)
(* breaks.                                                                 *)
First == {e \in timeout : \A f \in timeout : e[1] <= f[1]}
Least == {lru[i] : i \in {Len(lru)} \ {0}}
Victims(t) == IF \E e \in First : e[1] < started[t] THEN {e[2] : e \in First} ELSE Least

check_limits_keeps_live(t) ==  \* variant that takes only entries past their time
    /\ pc[t] = "limits" /\ OverLimit
    /\ \E k \in Victims(t) : primary[k].timeout < started[t] /\ delete_node(k)
    /\ UNCHANGED <<pc, kill_list, started, calls, answers, now>>
check_limits(t) ==
    /\ pc[t] = "limits" /\ OverLimit
    /\ \E k \in Victims(t) : delete_node(k)
    /\ UNCHANGED <<pc, kill_list, started, calls, answers, now>>

(* The key is a trigger of the entry whether or not the caller gave it. *)
StoreInsert(t) ==
    /\ pc[t] = "limits" /\ ~(OverLimit /\ Victims(t) # {})
    /\ LET k == calls[t].key
           given == calls[t].entry
           all == given.triggers \cup {k}
       IN /\ primary' = [primary EXCEPT ![k] = [given EXCEPT !.triggers = all]]
          /\ size' = size + 1
          /\ lru' = <<k>> \o lru
          /\ timeout' = timeout \cup {<<given.timeout, k>>}
          /\ triggers' = [g \in Triggers |->
                            IF g \in all THEN triggers[g] \cup {k} ELSE triggers[g]]
          /\ triggers_count' = triggers_count + Cardinality(all)
          /\ Used(k)
    /\ Returns(t)
    /\ started' = [started EXCEPT ![t] = 0]
    /\ UNCHANGED <<kill_list, answers, now>>

(* The copy of the data cannot be allocated: store returns before it locks. *)
StoreGivesUp(t) ==
    /\ calls[t].op = "store" /\ pc[t] = "wait"
    /\ Returns(t)
    /\ UNCHANGED <<index, kill_list, started, answers, now>>

(* An allocation fails somewhere in store: everything is thrown away. *)
StoreFails(t) ==
    /\ pc[t] = "limits"
    /\ nl_clear
    /\ Returns(t)
    /\ started' = [started EXCEPT ![t] = 0]
    /\ UNCHANGED <<kill_list, answers, now>>

-----------------------------------------------------------------------------
(* A thread calls one of the functions. *)
Enter(t) ==
    /\ calls[t] = Idle
    /\ \E c \in Abstract!Call : calls' = [calls EXCEPT ![t] = c]
    /\ answers' = [answers EXCEPT ![t] = NoEntry]
    /\ UNCHANGED <<index, pc, kill_list, started, now>>

Tick ==
    /\ now < MaxTime
    /\ now' = now + 1
    /\ UNCHANGED <<index, pc, kill_list, started, calls, answers>>

CacheInit ==
    /\ primary = [k \in Keys |-> NoEntry]
    /\ triggers = [g \in Triggers |-> {}]
    /\ timeout = {} /\ lru = <<>> /\ size = 0 /\ triggers_count = 0
    /\ since = [k \in Keys |-> {}]
    /\ pc = [t \in Threads |-> "wait"]
    /\ kill_list = [t \in Threads |-> {}]
    /\ started = [t \in Threads |-> 0]
    /\ calls = [t \in Threads |-> Idle]
    /\ answers = [t \in Threads |-> NoEntry]
    /\ now = 0

Work(t) ==
    \/ FetchFind(t) \/ FetchTouch(t) \/ FetchCopy(t)
    \/ RiseFind(t) \/ RiseKill(t) \/ RiseEnd(t)
    \/ Clear(t) \/ Stats(t) \/ Remove(t)
    \/ StoreBegin(t) \/ check_limits(t) \/ StoreInsert(t)

CacheNext ==
    \/ \E t \in Threads : Enter(t) \/ Work(t) \/ StoreGivesUp(t) \/ StoreFails(t)
    \/ Tick

CacheSpec == CacheInit /\ [][CacheNext]_cacheVars
(* A thread that holds the lock runs; nothing is asked of failures. *)
FairCache == CacheSpec /\ \A t \in Threads : WF_cacheVars(Work(t))

-----------------------------------------------------------------------------
CacheTypeOK ==
    /\ primary \in [Keys -> Abstract!Entry \cup {NoEntry}]
    /\ triggers \in [Triggers -> SUBSET Keys]
    /\ timeout \subseteq Deadlines \X Keys
    /\ lru \in Seq(Keys)
    /\ size \in Nat /\ triggers_count \in Nat
    /\ since \in [Keys -> SUBSET Keys]
    /\ pc \in [Threads -> {"wait", "touch", "copy", "limits", "kill"}]
    /\ kill_list \in [Threads -> SUBSET Keys]
    /\ started \in [Threads -> Nat]
    /\ calls \in [Threads -> Abstract!Call \cup {Idle}]
    /\ answers \in [Threads -> Abstract!Answer]
    /\ now \in Nat

(* The two counters agree with what they count: size with the entries,     *)
(* triggers_count with the pairs of an entry and one of its triggers.      *)
Pairs == {x \in Keys \X Triggers : primary[x[1]] # NoEntry /\ x[2] \in primary[x[1]].triggers}
CountersAgree == size = Cardinality(Present) /\ triggers_count = Cardinality(Pairs)

(* Every index lists exactly the entries of the hash table, each once: the *)
(* lists by trigger, the times, and the order of use.  An entry left in    *)
(* one of them by delete_node or left out by store would be a dangling     *)
(* iterator in the code.                                                   *)
IndexesAgree ==
    /\ \A g \in Triggers : triggers[g] = {k \in Present : g \in primary[k].triggers}
    /\ timeout = {<<primary[k].timeout, k>> : k \in Present}
    /\ {lru[i] : i \in 1 .. Len(lru)} = Present
    /\ \A i, j \in 1 .. Len(lru) : lru[i] = lru[j] => i = j

(* The cache never holds more entries than its limit, whatever was stored, *)
(* and while a store holds the lock there is room for its entry.           *)
WithinLimit == Limit > 0 => size <= Limit

(* Readers and a writer never hold the lock together, and whoever is       *)
(* reading has an entry to read.                                           *)
LockedOut ==
    /\ \A t, u \in Threads : Writing(t) /\ Holding(u) => t = u
    /\ \A t \in Threads : Reading(t) => /\ calls[t].op = "fetch"
                                        /\ calls[t].key \in Present
    /\ \A t \in Threads : pc[t] = "kill" =>
         /\ calls[t].op = "rise"
         /\ kill_list[t] = triggers[calls[t].trigger]
    /\ \A t \in Threads : pc[t] = "limits" => /\ calls[t].op = "store"
                                              /\ calls[t].key \notin Present

(* The list is in the order of use: what is before an entry was stored or  *)
(* fetched after it.                                                       *)
UsedInOrder == \A i, j \in 1 .. Len(lru) : i < j => lru[i] \in since[lru[j]]

(* The inductive invariant. *)
CacheInv == /\ CacheTypeOK /\ CountersAgree /\ IndexesAgree /\ UsedInOrder
            /\ WithinLimit /\ LockedOut

(* check_limits throws out an entry whose time has not come only when no   *)
(* entry is past its time, and then it is the one used least recently:     *)
(* every entry that stays was stored or fetched after it.                  *)
ThrownOut(t, k) == /\ pc[t] = "limits" /\ pc'[t] = "limits"
                   /\ primary[k] # NoEntry /\ primary'[k] = NoEntry
RightEntryGoes ==
    [][\A t \in Threads, k \in Keys :
         ThrownOut(t, k) /\ primary[k].timeout >= started[t] =>
           \A j \in Present \ {k} : primary[j].timeout >= started[t] /\ j \in since[k]]_cacheVars

(* The refinement: callers cannot tell this cache from the abstract one. *)
Implements == Abstract!AbsSpec

(* The loops under the write lock end: whoever takes the lock gives it     *)
(* back, however many entries have to go.                                  *)
LockReleased == \A t \in Threads : Holding(t) ~> ~Holding(t)

=============================================================================
