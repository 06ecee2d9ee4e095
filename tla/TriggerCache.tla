----------------------------- MODULE TriggerCache -----------------------------
(***************************************************************************)
(* What the page cache promises its callers (base_cache): every call takes *)
(* effect at one instant between its beginning and its end; a fetch        *)
(* returns the last entry stored under its key, with its triggers, unless  *)
(* it has gone or its time has come; once rise(g) has returned, no entry   *)
(* that had the trigger g is left.  The cache may lose entries at any time *)
(* but can never bring one back.  A store that fails for want of memory    *)
(* does nothing or empties the cache.                                      *)
(***************************************************************************)
EXTENDS Naturals, FiniteSets

CONSTANTS Threads,      \* the worker threads
          Keys,         \* keys of the cache
          Triggers,     \* names of triggers; every key is one
          Values,       \* what can be stored
          TriggerSets,  \* the sets of triggers that callers pass
          Deadlines,    \* the times at which entries may be told to expire
          MaxTime,      \* bound on the clock
          NoEntry       \* no entry: a miss

VARIABLES entries,   \* what the cache holds
          calls,     \* the call each thread is in, with its arguments
          answers,   \* what the thread's last call returned
          now        \* the clock of the machine

absVars == <<entries, calls, answers, now>>

Entry == [data: Values, triggers: SUBSET Triggers, timeout: Deadlines]
Given == [data: Values, triggers: TriggerSets, timeout: Deadlines]

Answer == Entry \cup {NoEntry} \cup [keys: Nat]
Idle == [op |-> "idle"]
Call == [op: {"fetch", "remove"}, key: Keys]
          \cup [op: {"store"}, key: Keys, entry: Given]
          \cup [op: {"rise"}, trigger: Triggers]
          \cup [op: {"clear", "stats"}]

Return(t) == calls' = [calls EXCEPT ![t] = Idle]

Invoke(t) ==
    /\ calls[t] = Idle
    /\ \E c \in Call : calls' = [calls EXCEPT ![t] = c]
    /\ answers' = [answers EXCEPT ![t] = NoEntry]
    /\ UNCHANGED <<entries, now>>

(* A fetch: an entry whose time is before the clock counts as gone. *)
AbsFetch(t) ==
    /\ calls[t].op = "fetch"
    /\ answers' = [answers EXCEPT ![t] =
                     IF /\ entries[calls[t].key] # NoEntry
                        /\ entries[calls[t].key].timeout >= now
                     THEN entries[calls[t].key] ELSE NoEntry]
    /\ Return(t)
    /\ UNCHANGED <<entries, now>>

(* The key of an entry is always one of its triggers. *)
AbsStore(t) ==
    /\ calls[t].op = "store"
    /\ entries' = [entries EXCEPT ![calls[t].key] =
                     [calls[t].entry EXCEPT !.triggers = @ \cup {calls[t].key}]]
    /\ Return(t)
    /\ UNCHANGED <<answers, now>>

AbsRise(t) ==
    /\ calls[t].op = "rise"
    /\ entries' = [k \in Keys |->
                     IF entries[k] # NoEntry /\ calls[t].trigger \in entries[k].triggers
                     THEN NoEntry ELSE entries[k]]
    /\ Return(t)
    /\ UNCHANGED <<answers, now>>

AbsRemove(t) ==
    /\ calls[t].op = "remove"
    /\ entries' = [entries EXCEPT ![calls[t].key] = NoEntry]
    /\ Return(t)
    /\ UNCHANGED <<answers, now>>

(* clear, and a store that runs out of memory. *)
AbsClear(t) ==
    /\ calls[t].op \in {"clear", "store"}
    /\ entries' = [k \in Keys |-> NoEntry]
    /\ Return(t)
    /\ UNCHANGED <<answers, now>>

(* A store that runs out of memory before it has begun. *)
AbsGiveUp(t) ==
    /\ calls[t].op = "store"
    /\ Return(t)
    /\ UNCHANGED <<entries, answers, now>>

AbsStats(t) ==
    /\ calls[t].op = "stats"
    /\ answers' = [answers EXCEPT ![t] =
                     [keys |-> Cardinality({k \in Keys : entries[k] # NoEntry})]]
    /\ Return(t)
    /\ UNCHANGED <<entries, now>>

Lose(k) ==
    /\ entries[k] # NoEntry
    /\ entries' = [entries EXCEPT ![k] = NoEntry]
    /\ UNCHANGED <<calls, answers, now>>

Pass == now' = now + 1 /\ UNCHANGED <<entries, calls, answers>>

AbsInit ==
    /\ entries = [k \in Keys |-> NoEntry]
    /\ calls = [t \in Threads |-> Idle]
    /\ answers = [t \in Threads |-> NoEntry]
    /\ now = 0

AbsNext ==
    \/ \E t \in Threads : \/ Invoke(t) \/ AbsFetch(t) \/ AbsStore(t) \/ AbsRise(t)
                          \/ AbsRemove(t) \/ AbsClear(t) \/ AbsGiveUp(t) \/ AbsStats(t)
    \/ \E k \in Keys : Lose(k)
    \/ Pass

AbsSpec == AbsInit /\ [][AbsNext]_absVars

=============================================================================
