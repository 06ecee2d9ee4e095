------------------------------- MODULE ConnPool -------------------------------
(***************************************************************************)
(* The connections of cppdb: connections_manager (conn_manager.cpp) keeps  *)
(* one pool for the blog's connection string, pool (pool.cpp) keeps the    *)
(* connections nobody uses, and connection::dispose (backend.cpp) brings   *)
(* them back.  Every function reads the clock before it takes the pool's   *)
(* lock; what it does under the lock is one step.                          *)
(***************************************************************************)
EXTENDS Naturals, Sequences, FiniteSets

CONSTANTS Sessions,   \* cppdb::session objects, one per application object
          Conns,      \* connections to the database that can be open at once
          Pools,      \* pool objects
          Limit,      \* @pool_size
          LifeTime,   \* @pool_max_idle
          MaxTime,    \* bound on the clock
          None        \* a null pointer

ASSUME LimitAssumption == Limit \in Nat \ {0}
ASSUME TimeAssumption == LifeTime \in Nat /\ MaxTime \in Nat
ASSUME NoneAssumption == None \notin Conns /\ None \notin Pools

VARIABLES current,    \* connections_[connection_string]
          idle,       \* pool_ of each pool: entries, the one put back last at the end
          size,       \* size_ of each pool
          pc, ptr,    \* where a session stands, and the pool it has a pointer to
          conn,       \* the connection of a session
          read,       \* the time that get or put read
          recyclable, \* of each connection
          open,       \* the connections that are open at the database
          now

vars == <<current, idle, size, pc, ptr, conn, read, recyclable, open, now>>

(* used is last_used; at is history, the time when the entry was inserted. *)
PoolEntry == [conn: Conns, used: Nat, at: Nat]

(* use_count of a pool: the manager, and those who have a pointer to it. A *)
(* session in use has one through the pool_ of its connection.             *)
Referenced(p) == \E s \in Sessions : ptr[s] = p
Unused == {p \in Pools : p # current /\ ~Referenced(p)}

-----------------------------------------------------------------------------
(* The loop over the oldest entries, which stops at the first that is not  *)
(* past its time.                                                          *)
Expired(e, t) == e.used + LifeTime < t
Leading(s, t) == CHOOSE n \in 0 .. Len(s) :
    /\ \A i \in 1 .. n : Expired(s[i], t)
    /\ n < Len(s) => ~Expired(s[n + 1], t)
Fresh(s, t) == SubSeq(s, Leading(s, t) + 1, Len(s))
Closed(s, n) == {s[i].conn : i \in 1 .. n}

Goes(s, from, to) == pc[s] = from /\ pc' = [pc EXCEPT ![s] = to]

-----------------------------------------------------------------------------
(* session::open.  The pool is looked up, and made if there is none yet;   *)
(* in between the manager's lock is given up.                              *)
Lookup(s) ==
    /\ \/ current # None /\ Goes(s, "closed", "opening")
          /\ ptr' = [ptr EXCEPT ![s] = current]
       \/ current = None /\ Goes(s, "closed", "create") /\ UNCHANGED ptr
    /\ UNCHANGED <<current, idle, size, conn, read, recyclable, open, now>>

Create(s) ==
    /\ Goes(s, "create", "opening")
    /\ \/ current # None /\ ptr' = [ptr EXCEPT ![s] = current] /\ UNCHANGED current
       \/ current = None /\ \E p \in Unused : current' = p /\ ptr' = [ptr EXCEPT ![s] = p]
    /\ UNCHANGED <<idle, size, conn, read, recyclable, open, now>>

(* get: time(0), then the rest under the lock. *)
GetTime(s) ==
    /\ Goes(s, "opening", "get")
    /\ read' = [read EXCEPT ![s] = now]
    /\ UNCHANGED <<current, idle, size, ptr, conn, recyclable, open, now>>

(* The entries past their time are closed and the last of the others is    *)
(* taken; with none left, a new connection has to be made.                 *)
Take(s, rest) ==
    LET p == ptr[s]
        gone == Len(idle[p]) - Len(rest)
    IN /\ \/ /\ rest # <<>>
             /\ Goes(s, "get", "open")
             /\ conn' = [conn EXCEPT ![s] = rest[Len(rest)].conn]
             /\ idle' = [idle EXCEPT ![p] = SubSeq(rest, 1, Len(rest) - 1)]
             /\ size' = [size EXCEPT ![p] = @ - gone - 1]
          \/ /\ rest = <<>>
             /\ Goes(s, "get", "connect")
             /\ idle' = [idle EXCEPT ![p] = <<>>]
             /\ size' = [size EXCEPT ![p] = @ - gone]
             /\ UNCHANGED conn
       /\ open' = open \ Closed(idle[p], gone)
       /\ UNCHANGED <<current, ptr, read, recyclable, now>>
GetUnpruned(s) == pc[s] = "get" /\ Take(s, idle[ptr[s]])  \* variant without the loop
GetPeek(s) ==  \* variant that leaves the entry in the list
    LET rest == Fresh(idle[ptr[s]], read[s])
    IN /\ \/ Goes(s, "get", "open") /\ rest # <<>>
             /\ conn' = [conn EXCEPT ![s] = rest[Len(rest)].conn]
          \/ Goes(s, "get", "connect") /\ rest = <<>> /\ UNCHANGED conn
       /\ UNCHANGED <<current, idle, size, ptr, read, recyclable, open, now>>
Get(s) == pc[s] = "get" /\ Take(s, Fresh(idle[ptr[s]], read[s]))

Connect(s) ==
    /\ Goes(s, "connect", "open")
    /\ \E c \in Conns \ open : /\ conn' = [conn EXCEPT ![s] = c]
                               /\ recyclable' = [recyclable EXCEPT ![c] = TRUE]
                               /\ open' = open \cup {c}
    /\ UNCHANGED <<current, idle, size, ptr, read, now>>

(* The driver throws. *)
ConnectFails(s) ==
    /\ Goes(s, "connect", "closed")
    /\ ptr' = [ptr EXCEPT ![s] = None]
    /\ UNCHANGED <<current, idle, size, conn, read, recyclable, open, now>>

(* A query throws: throw_guard marks the connection. *)
QueryFails(s) ==
    /\ pc[s] = "open"
    /\ recyclable' = [recyclable EXCEPT ![conn[s]] = FALSE]
    /\ UNCHANGED <<current, idle, size, pc, ptr, conn, read, open, now>>

(* session::clear_pool, pool::clear. *)
ClearPool(s) ==
    /\ pc[s] = "open"
    /\ recyclable' = [recyclable EXCEPT ![conn[s]] = FALSE]
    /\ idle' = [idle EXCEPT ![ptr[s]] = <<>>]
    /\ size' = [size EXCEPT ![ptr[s]] = 0]
    /\ open' = open \ Closed(idle[ptr[s]], Len(idle[ptr[s]]))
    /\ UNCHANGED <<current, pc, ptr, conn, read, now>>

-----------------------------------------------------------------------------
(* The last reference to the connection goes: dispose gives it back to the *)
(* pool, or deletes it.                                                    *)
Dispose(s) ==
    /\ pc[s] = "open"
    /\ \/ /\ recyclable[conn[s]]
          /\ Goes(s, "open", "dispose")
          /\ UNCHANGED <<ptr, conn, open>>
       \/ /\ ~recyclable[conn[s]]
          /\ Goes(s, "open", "closed")
          /\ open' = open \ {conn[s]}
          /\ conn' = [conn EXCEPT ![s] = None]
          /\ ptr' = [ptr EXCEPT ![s] = None]
    /\ UNCHANGED <<current, idle, size, read, recyclable, now>>

(* put: the clock, then the loop; after one more entry at most one has to  *)
(* go to keep to the limit.                                                *)
PutTime(s) ==
    /\ \/ Goes(s, "dispose", "put") \/ Goes(s, "gc", "gcput")
    /\ read' = [read EXCEPT ![s] = now]
    /\ UNCHANGED <<current, idle, size, ptr, conn, recyclable, open, now>>

Trimmed(kept) == IF Len(kept) > Limit THEN Tail(kept) ELSE kept
PutLocked(s, all) ==
    LET left == Trimmed(Fresh(all, read[s]))
        gone == Len(all) - Len(left)
    IN /\ idle' = [idle EXCEPT ![ptr[s]] = left]
       /\ size' = [size EXCEPT ![ptr[s]] = @ + (Len(all) - Len(idle[ptr[s]])) - gone]
       /\ open' = open \ Closed(all, gone)
       /\ ptr' = [ptr EXCEPT ![s] = None]

Put(s) ==
    /\ Goes(s, "put", "closed")
    /\ PutLocked(s, Append(idle[ptr[s]], [conn |-> conn[s], used |-> read[s], at |-> now]))
    /\ conn' = [conn EXCEPT ![s] = None]
    /\ UNCHANGED <<current, read, recyclable, now>>

-----------------------------------------------------------------------------
(* connections_manager::gc: put(0) on the pool, then the pool goes if the  *)
(* manager has the only pointer to it.                                     *)
GcBegin(s) ==
    /\ current # None /\ Goes(s, "closed", "gc")
    /\ ptr' = [ptr EXCEPT ![s] = current]
    /\ UNCHANGED <<current, idle, size, conn, read, recyclable, open, now>>

GcPutKeeps(s) ==  \* variant that keeps its pointer to the pool
    /\ Goes(s, "gcput", "gcdrop")
    /\ UNCHANGED <<current, idle, size, ptr, conn, read, recyclable, open, now>>
GcPut(s) ==
    /\ Goes(s, "gcput", "gcdrop")
    /\ PutLocked(s, idle[ptr[s]])
    /\ UNCHANGED <<current, conn, read, recyclable, now>>

Drop(p) ==
    /\ current' = None
    /\ open' = open \ Closed(idle[p], Len(idle[p]))
    /\ idle' = [idle EXCEPT ![p] = <<>>]
    /\ size' = [size EXCEPT ![p] = 0]
GcDrop(s) ==
    /\ Goes(s, "gcdrop", "closed")
    /\ \/ current # None /\ ~Referenced(current) /\ Drop(current)
       \/ (current = None \/ Referenced(current)) /\ UNCHANGED <<current, idle, size, open>>
    /\ UNCHANGED <<ptr, conn, read, recyclable, now>>

Tick == now < MaxTime /\ now' = now + 1
        /\ UNCHANGED <<current, idle, size, pc, ptr, conn, read, recyclable, open>>

-----------------------------------------------------------------------------
Init ==
    /\ current = None
    /\ idle = [p \in Pools |-> <<>>] /\ size = [p \in Pools |-> 0]
    /\ pc = [s \in Sessions |-> "closed"]
    /\ ptr = [s \in Sessions |-> None]
    /\ conn = [s \in Sessions |-> None]
    /\ read = [s \in Sessions |-> 0]
    /\ recyclable = [c \in Conns |-> TRUE]
    /\ open = {} /\ now = 0

Next ==
    \/ \E s \in Sessions :
         \/ Lookup(s) \/ Create(s) \/ GetTime(s) \/ Get(s) \/ Connect(s) \/ ConnectFails(s)
         \/ QueryFails(s) \/ ClearPool(s) \/ Dispose(s) \/ PutTime(s) \/ Put(s)
         \/ GcBegin(s) \/ GcPut(s) \/ GcDrop(s)
    \/ Tick

Spec == Init /\ [][Next]_vars

-----------------------------------------------------------------------------
TypeOK ==
    /\ current \in Pools \cup {None}
    /\ idle \in [Pools -> Seq(PoolEntry)]
    /\ size \in [Pools -> Nat]
    /\ pc \in [Sessions -> {"closed", "create", "opening", "get", "connect", "open",
                            "dispose", "put", "gc", "gcput", "gcdrop"}]
    /\ ptr \in [Sessions -> Pools \cup {None}]
    /\ conn \in [Sessions -> Conns \cup {None}]
    /\ read \in [Sessions -> Nat]
    /\ recyclable \in [Conns -> BOOLEAN]
    /\ open \subseteq Conns
    /\ now \in Nat

(* size_ is the length of the list, and one entry thrown out per put is    *)
(* enough to keep every pool within @pool_size.                            *)
WithinLimit == \A p \in Pools : size[p] = Len(idle[p]) /\ size[p] <= Limit

(* There is never a second pool for the connection string: whoever has a   *)
(* pool, or a connection that will go back to one, has the manager's pool, *)
(* and no other pool has connections in it.                                *)
OnePool == /\ \A s \in Sessions : ptr[s] # None => ptr[s] = current
           /\ \A p \in Pools : idle[p] # <<>> => p = current

(* Every open connection is in exactly one place, so it is neither used by *)
(* two sessions nor forgotten: a session has it, or it is in a pool, once. *)
Slots == {x \in Pools \X (1 .. Limit) : x[2] <= Len(idle[x[1]])}
EveryConnectionOwned ==
    /\ \A s, t \in Sessions : conn[s] # None /\ conn[s] = conn[t] => s = t
    /\ \A x, y \in Slots : idle[x[1]][x[2]].conn = idle[y[1]][y[2]].conn => x = y
    /\ \A s \in Sessions, x \in Slots : conn[s] # idle[x[1]][x[2]].conn
    /\ open = {conn[s] : s \in {t \in Sessions : conn[t] # None}}
                \cup {idle[x[1]][x[2]].conn : x \in Slots}

(* A connection that a query failed on, or that was open when its session  *)
(* cleared the pool, is never given to another session: it is neither in a *)
(* pool nor on its way there.                                              *)
BrokenNotReused ==
    /\ \A p \in Pools : \A i \in 1 .. Len(idle[p]) : recyclable[idle[p][i].conn]
    /\ \A s \in Sessions : pc[s] \in {"dispose", "put"} => recyclable[conn[s]]

(* A session has a connection and a pointer to a pool at the places where  *)
(* the code uses them, and at no other.                                    *)
Placed ==
    \A s \in Sessions :
      /\ conn[s] # None <=> pc[s] \in {"open", "dispose", "put"}
      /\ ptr[s] = None <=> pc[s] \in {"closed", "create", "gcdrop"}

(* The inductive invariant. *)
PoolInv == TypeOK /\ WithinLimit /\ OnePool /\ EveryConnectionOwned /\ BrokenNotReused /\ Placed

(* @pool_max_idle: a session never gets a connection that has been in the  *)
(* pool for longer than life_time_, although entries are not in the order  *)
(* of the times they carry.                                                *)
IdleTimeBound ==
    [][\A s \in Sessions : conn[s] = None /\ conn'[s] # None /\ conn'[s] \in open =>
         \E p \in Pools : \E i \in 1 .. Len(idle[p]) :
            idle[p][i].conn = conn'[s] /\ idle[p][i].at + LifeTime >= read[s]]_vars

=============================================================================
