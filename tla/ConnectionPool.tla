--------------------------- MODULE ConnectionPool ---------------------------
(***************************************************************************)
(* core/obscura_connection_pool.py: clients of one event loop take         *)
(* connections (a storage directory each) from a pool and give them back,  *)
(* a cleanup task removes those that expired, and the process's pool is    *)
(* made, replaced and closed beside them.                                  *)
(*                                                                         *)
(* No method awaits while it holds _pool_lock, so each is one action; only *)
(* close_all awaits before it, for the cleanup task it cancelled.  A       *)
(* connection's expiry, by age, idleness or a missing directory, is final: *)
(* nothing renews one that is not valid any more.  The deque's order decides *)
(* only which idle connection is given out, so it is a set here.           *)
(***************************************************************************)
EXTENDS Naturals, FiniteSets

CONSTANTS
  Client,          \* the tasks that use connections
  MaxIds,          \* bounds the connections ever made; the nth has id n
  Pools,           \* bounds the pools ever made
  MaxConnections   \* max_connections

ASSUME ConnectionPoolAssumption ==
  /\ MaxIds \in Nat /\ Pools \in Nat /\ MaxConnections \in Nat

VARIABLES
  available,  \* per pool, _available_connections
  active,     \* per pool, _active_connections
  known,      \* the connections with metadata and directory, of all pools
  valid,      \* those that _is_connection_valid still accepts
  ids,        \* how many connections there have been
  cleaner,    \* per pool, its cleanup task
  made,       \* how many pools there have been
  current,    \* _connection_pool, 0 for None
  closing,    \* the close_all calls that wait for a cleanup task
  held        \* per client, the connection it was given and the pool it is of

conns == <<available, active, known, valid, ids, held>>
globals == <<cleaner, made, current, closing>>
poolVars == <<conns, globals>>

Pool == 1..Pools

Conn == 1..MaxIds

Nothing == [pool |-> 0, conn |-> 0]

PoolInit ==
  /\ available = [p \in Pool |-> {}]
  /\ active = [p \in Pool |-> {}]
  /\ known = {} /\ valid = {} /\ ids = 0
  /\ cleaner = [p \in Pool |-> "none"]
  /\ made = 0 /\ current = 0 /\ closing = {}
  /\ held = [c \in Client |-> Nothing]

-----------------------------------------------------------------------------
\* Fault: the connection that is given out stays in the deque.
PoppedStays(p, conn, dropped) == available[p] \ dropped

\* What is left when conn is given out and expired ones before it are dropped.
Popped(p, conn, dropped) == available[p] \ (dropped \union {conn})

\* acquire, by a client that has the pool at hand, be it the process's or one
\* it got earlier: connections are popped until one is valid ...
AcquireIdle(c, p) ==
  /\ held[c] = Nothing /\ p <= made
  /\ \E conn \in available[p] \cap valid, dropped \in SUBSET (available[p] \ valid) :
       /\ available' = [available EXCEPT ![p] = Popped(p, conn, dropped)]
       /\ active' = [active EXCEPT ![p] = @ \union {conn}]
       /\ known' = known \ dropped
       /\ held' = [held EXCEPT ![c] = [pool |-> p, conn |-> conn]]
  /\ UNCHANGED <<valid, ids, globals>>

\* Fault: one connection too many.
RoomOffByOne(p) == Cardinality(active[p]) <= MaxConnections

\* The idle ones do not count: acquire has used them all up by then.
Room(p) == Cardinality(active[p]) < MaxConnections

\* ... or a new one is made ...
AcquireNew(c, p) ==
  /\ held[c] = Nothing /\ p <= made
  /\ available[p] \cap valid = {}
  /\ Room(p)
  /\ ids < MaxIds
  /\ ids' = ids + 1
  /\ active' = [active EXCEPT ![p] = @ \union {ids + 1}]
  /\ known' = (known \ available[p]) \union {ids + 1}
  /\ valid' = valid \union {ids + 1}
  /\ held' = [held EXCEPT ![c] = [pool |-> p, conn |-> ids + 1]]
  /\ available' = [available EXCEPT ![p] = {}]
  /\ UNCHANGED globals

\* ... or the pool is exhausted, and the call raises.
AcquireFails(c, p) ==
  /\ held[c] = Nothing /\ p <= made
  /\ available[p] \cap valid = {}
  /\ ~ Room(p)
  /\ available' = [available EXCEPT ![p] = {}]
  /\ known' = known \ available[p]
  /\ UNCHANGED <<active, valid, ids, held, globals>>

\* release: back to the pool while it is valid; a pool that has forgotten the
\* connection ignores it.
Release(c) ==
  /\ held[c] # Nothing
  /\ LET p == held[c].pool
         conn == held[c].conn
     IN IF conn \notin active[p] THEN UNCHANGED <<available, active, known>>
        ELSE /\ active' = [active EXCEPT ![p] = @ \ {conn}]
             /\ IF conn \in valid
                THEN available' = [available EXCEPT ![p] = @ \union {conn}] /\ UNCHANGED known
                ELSE known' = known \ {conn} /\ UNCHANGED available
  /\ held' = [held EXCEPT ![c] = Nothing]
  /\ UNCHANGED <<valid, ids, globals>>

Expires(conn) ==
  /\ conn \in valid
  /\ valid' = valid \ {conn}
  /\ UNCHANGED <<available, active, known, ids, held, globals>>

\* Fault: the cleanup looks at every connection of the pool.
ExpiredAnywhere(p) == (available[p] \union active[p]) \ valid

\* The cleanup looks at the idle connections only.
Expired(p) == available[p] \ valid

\* _cleanup_expired_connections, by the cleanup loop.
CleanUp(p) ==
  /\ cleaner[p] = "on"
  /\ Expired(p) # {}
  /\ available' = [available EXCEPT ![p] = @ \ Expired(p)]
  /\ active' = [active EXCEPT ![p] = @ \ Expired(p)]
  /\ known' = known \ Expired(p)
  /\ UNCHANGED <<valid, ids, held, globals>>

-----------------------------------------------------------------------------
\* get_connection_pool makes the process's pool and leaves the start of its
\* cleanup to a task ...
MakePool ==
  /\ current = 0 /\ made < Pools
  /\ made' = made + 1 /\ current' = made + 1
  /\ cleaner' = [cleaner EXCEPT ![made + 1] = "due"]
  /\ UNCHANGED <<conns, closing>>

\* ... which starts it, be the pool closed by then.
StartCleanup(p) ==
  /\ cleaner[p] = "due"
  /\ cleaner' = [cleaner EXCEPT ![p] = "on"]
  /\ UNCHANGED <<conns, made, current, closing>>

\* close_all past its await: everything of the pool goes, held or not.
Emptied(p) ==
  /\ available' = [available EXCEPT ![p] = {}]
  /\ active' = [active EXCEPT ![p] = {}]
  /\ known' = known \ (available[p] \union active[p])
  /\ UNCHANGED <<valid, ids, held>>

\* What follows it: close_connection_pool forgets the process's pool, whichever
\* it is by now, and initialize_connection_pool puts a new one there.
Replaced(by, stopped) ==
  IF by = "close" THEN current' = 0 /\ cleaner' = stopped /\ UNCHANGED made
  ELSE /\ made < Pools
       /\ made' = made + 1 /\ current' = made + 1
       /\ cleaner' = [stopped EXCEPT ![made + 1] = "on"]

\* Without a cleanup task there is nothing to wait for.
ClosePool(by) ==
  /\ current # 0
  /\ cleaner[current] \in {"none", "due"}
  /\ Emptied(current)
  /\ Replaced(by, cleaner)
  /\ UNCHANGED closing

CloseStarts(by) ==
  /\ current # 0
  /\ cleaner[current] \in {"on", "cancelled"}
  /\ cleaner' = [cleaner EXCEPT ![current] = "cancelled"]
  /\ closing' = closing \union {[pool |-> current, by |-> by]}
  /\ UNCHANGED <<conns, made, current>>

CloseEnds(by) ==
  /\ \E t \in closing :
       /\ t.by = by
       /\ Emptied(t.pool)
       /\ Replaced(by, [cleaner EXCEPT ![t.pool] = "none"])
       /\ closing' = closing \ {t}

InitializeFirst ==
  /\ current = 0
  /\ Replaced("initialize", cleaner)
  /\ UNCHANGED <<conns, closing>>

CloseMoves ==
  \E by \in {"close", "initialize"} : ClosePool(by) \/ CloseStarts(by) \/ CloseEnds(by)

PoolNext ==
  \/ \E c \in Client :
       \/ \E p \in Pool : AcquireIdle(c, p) \/ AcquireNew(c, p) \/ AcquireFails(c, p)
       \/ Release(c)
  \/ \E conn \in Conn : Expires(conn)
  \/ \E p \in Pool : CleanUp(p) \/ StartCleanup(p)
  \/ MakePool \/ InitializeFirst \/ CloseMoves

PoolSpec == PoolInit /\ [][PoolNext]_poolVars

-----------------------------------------------------------------------------
PoolTypeOK ==
  /\ available \in [Pool -> SUBSET Conn]
  /\ active \in [Pool -> SUBSET Conn]
  /\ known \subseteq Conn /\ valid \subseteq Conn /\ ids \in 0..MaxIds
  /\ cleaner \in [Pool -> {"none", "due", "on", "cancelled"}]
  /\ made \in 0..Pools /\ current \in 0..made
  /\ closing \subseteq [pool : Pool, by : {"close", "initialize"}]
  /\ held \in [Client -> [pool : 0..Pools, conn : 0..MaxIds]]

\* No connection is with two clients, or idle while a client has it, whatever
\* was closed and replaced while it was out.
NoSharing ==
  \A c, d \in Client :
    held[c] # Nothing => /\ c # d => held[c].conn # held[d].conn
                         /\ \A p \in Pool : held[c].conn \notin available[p]

\* A pool never has more storage directories than max_connections, those of
\* idle and expired connections included, which acquire's test leaves out.
LimitKept ==
  \A p \in Pool : Cardinality(active[p]) + Cardinality(available[p]) <= MaxConnections

\* Nothing but the closing of its pool deletes the directory of a connection a
\* client has, not even when it expired while it was used.
InUseKept ==
  [][\A c \in Client :
       held[c] # Nothing /\ held'[c] = held[c] /\ held[c].conn \in known
         => held[c].conn \in known' \/ CloseMoves]_poolVars
=============================================================================
