------------------------------ MODULE MCMemCache ------------------------------
(***************************************************************************)
(* Small instances of MemCache for TLC.  g is a trigger that entries of    *)
(* every key may have; an entry of one key may have the other key as a     *)
(* trigger, as a page has that of the options.  Two threads work on two    *)
(* keys, or one thread on three, which is more than the limit: the shape   *)
(* says which, so that one run covers both.                                *)
(***************************************************************************)
EXTENDS MemCache, TLC

CONSTANTS p, k1, k2, k3, g

VARIABLE shape

MCTriggers == Keys \cup {g}
MCTriggerSets == {{}, {k1, g}}

Named(c) == CASE c.op \in {"fetch", "store", "remove"} -> {c.key}
              [] c.op = "rise" -> {c.trigger}
              [] OTHER -> {}
InShape ==
    \/ shape = "threads" /\ \A t \in Threads : k3 \notin Named(calls[t])
    \/ shape = "keys" /\ \A t \in Threads : calls[t] # Idle => t = p

MCCacheInit == CacheInit /\ shape \in {"threads", "keys"}
MCCacheNext ==
    \/ \E t \in Threads : /\ Enter(t) \/ Work(t) \/ StoreGivesUp(t) \/ StoreFails(t)
                          /\ UNCHANGED shape /\ InShape'
    \/ Tick /\ UNCHANGED shape
MCFairCache == /\ MCCacheInit /\ [][MCCacheNext]_<<cacheVars, shape>>
               /\ \A t \in Threads : WF_cacheVars(Work(t))

=============================================================================
