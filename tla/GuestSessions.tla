----------------------------- MODULE GuestSessions -----------------------------
(***************************************************************************)
(* Concurrent requests running the demo guests of src/booster/components  *)
(* against the backend adapters of src/booster/src (redis.rs,             *)
(* postgres.rs).                                                           *)
(*                                                                         *)
(* The pool serves one module, either guest, to every request; at most    *)
(* PoolMax requests run at once.  A guest issues its host calls in program *)
(* order.  Each call on an enabled adapter checks a connection out of the *)
(* adapter's bb8 pool of ConnMax connections (waiting in FIFO order when  *)
(* all are out, or timing out), issues one command and drops the         *)
(* connection, which hands it to the first waiter.  A disabled adapter    *)
(* fails every call at once.  The backend holds the demo keys (one per     *)
(* NAME) and the demo table, a bag of row names.                          *)
(*                                                                         *)
(* A NAME is a pair <<base, k>>: base followed by k times "-updated".      *)
(***************************************************************************)
EXTENDS Naturals, Sequences, FiniteSets, Bags, BagsExt, TLC

CONSTANTS
    Guests,     \* the requests
    GuestName,  \* GuestName[g]: the NAME request g carries
    PoolMax,    \* BOOSTER_POOL_MAX: the permits of the execution pool
    ConnMax     \* BOOSTER_PG_POOL_MAX or BOOSTER_REDIS_POOL_MAX

Names == {GuestName[g] : g \in Guests}

ASSUME /\ PoolMax \in Nat \ {0} /\ ConnMax \in Nat \ {0}
       /\ \A n \in Names : n[2] \in Nat

VARIABLES
    prog,     \* the guest the pool serves: "redis" or "pg"
    enabled,  \* the adapter was built with a pool (its URL is set)
    st,       \* st[g]: "idle", "run" or "done"
    pc,       \* pc[g]: the index of g's next host call
    at,       \* at[g]: "call", "wait" (in pool.get) or "hold" (has a connection)
    free,     \* connections the bb8 pool can hand out without waiting
    waiters,  \* the calls waiting in pool.get, oldest first
    db,       \* the backend: [kv, table, rows]
    failed    \* some adapter call has returned an error

vars == <<prog, enabled, st, pc, at, free, waiters, db, failed>>

\* The host calls of each demo guest's main, in program order.
RedisProgram == <<"set", "set_ex", "exists", "get", "del">>
PgProgram    == <<"create", "insert", "update", "query", "query_updated", "delete">>

Program(p) == IF p = "redis" THEN RedisProgram ELSE PgProgram

\* updated_name = format!("{safe_name}-updated").
Upd(n) == <<n[1], n[2] + 1>>

\* A DELETE that matches the name as inserted.
DeleteTargetSafeName(n) == n

\* The name the demo's DELETE matches.
DeleteTarget(n) == Upd(n)

\* UPDATE ... SET name = Upd(n) WHERE name = n: every row named n.
Rename(B, a, b) ==
    IF CopiesIn(a, B) = 0 THEN B
    ELSE BagRemoveAll(B, a) (+) (b :> CopiesIn(a, B))

\* What a command does to the backend when it is carried out.
Effect(op, n, d) ==
    CASE op \in {"set", "set_ex"} -> [d EXCEPT !.kv[n] = TRUE]
      [] op = "del"               -> [d EXCEPT !.kv[n] = FALSE]
      [] op = "create"            -> [d EXCEPT !.table = TRUE]
      [] op = "insert"            -> [d EXCEPT !.rows = BagAdd(@, n)]
      [] op = "update"            -> [d EXCEPT !.rows = Rename(@, n, Upd(n))]
      [] op = "delete"            -> [d EXCEPT !.rows = BagRemoveAll(@, DeleteTarget(n))]
      [] OTHER                    -> d

\* A statement on booster_demo is rejected while the table does not exist.
Runs(op, d) == op \in {"insert", "update", "query", "query_updated", "delete"} => d.table

Running == {g \in Guests : st[g] = "run"}

-----------------------------------------------------------------------------
\* Either guest; either adapter state (new_from_env).
Init ==
    /\ prog \in {"redis", "pg"}
    /\ enabled \in BOOLEAN
    /\ st = [g \in Guests |-> "idle"]
    /\ pc = [g \in Guests |-> 1]
    /\ at = [g \in Guests |-> "call"]
    /\ free = ConnMax
    /\ waiters = <<>>
    /\ db = [kv |-> [n \in Names |-> FALSE], table |-> FALSE, rows |-> EmptyBag]
    /\ failed = FALSE

\* run_handler takes a permit of the execution pool and starts the guest.
Start(g) ==
    /\ st[g] = "idle"
    /\ Cardinality(Running) < PoolMax
    /\ st' = [st EXCEPT ![g] = "run"]
    /\ UNCHANGED <<prog, enabled, pc, at, free, waiters, db, failed>>

\* The adapter method: a disabled adapter returns its error; otherwise
\* pool.get() takes a free connection or waits for one.
Issue(g) ==
    /\ st[g] = "run" /\ at[g] = "call" /\ pc[g] <= Len(Program(prog))
    /\ \/ /\ ~enabled
          /\ pc' = [pc EXCEPT ![g] = @ + 1]
          /\ failed' = TRUE
          /\ UNCHANGED <<at, free, waiters>>
       \/ /\ enabled /\ free > 0
          /\ free' = free - 1
          /\ at' = [at EXCEPT ![g] = "hold"]
          /\ UNCHANGED <<pc, waiters, failed>>
       \/ /\ enabled /\ free = 0
          /\ waiters' = Append(waiters, g)
          /\ at' = [at EXCEPT ![g] = "wait"]
          /\ UNCHANGED <<pc, free, failed>>
    /\ UNCHANGED <<prog, enabled, st, db>>

\* pool.get() gives up after its connection timeout: the call fails.
Timeout(g) ==
    /\ st[g] = "run" /\ at[g] = "wait"
    /\ waiters' = SelectSeq(waiters, LAMBDA h : h # g)
    /\ at' = [at EXCEPT ![g] = "call"]
    /\ pc' = [pc EXCEPT ![g] = @ + 1]
    /\ failed' = TRUE
    /\ UNCHANGED <<prog, enabled, st, free, db>>

Release(at1) ==
    IF waiters = <<>>
    THEN /\ free' = free + 1
         /\ at' = at1
         /\ UNCHANGED waiters
    ELSE /\ at' = [at1 EXCEPT ![Head(waiters)] = "hold"]
         /\ waiters' = Tail(waiters)
         /\ UNCHANGED free

\* A connection kept by its caller when the command fails.
CommandKeepsConnOnError(g) ==
    LET op == Program(prog)[pc[g]]
        n  == GuestName[g]
    IN
    /\ st[g] = "run" /\ at[g] = "hold"
    /\ pc' = [pc EXCEPT ![g] = @ + 1]
    /\ \/ /\ Runs(op, db)
          /\ db' = Effect(op, n, db)
          /\ UNCHANGED failed
          /\ Release([at EXCEPT ![g] = "call"])
       \/ /\ db' \in {db} \cup (IF Runs(op, db) THEN {Effect(op, n, db)} ELSE {})
          /\ failed' = TRUE
          /\ at' = [at EXCEPT ![g] = "call"]
          /\ UNCHANGED <<free, waiters>>
    /\ UNCHANGED <<prog, enabled, st>>

\* conn.execute / conn.query / the Redis command, then the drop.  The
\* command succeeds, or returns an error: rejected, or a fault before or
\* after the backend carried it out.
Command(g) ==
    LET op == Program(prog)[pc[g]]
        n  == GuestName[g]
    IN
    /\ st[g] = "run" /\ at[g] = "hold"
    /\ pc' = [pc EXCEPT ![g] = @ + 1]
    /\ \/ /\ Runs(op, db)
          /\ db' = Effect(op, n, db)
          /\ UNCHANGED failed
       \/ /\ db' \in {db} \cup (IF Runs(op, db) THEN {Effect(op, n, db)} ELSE {})
          /\ failed' = TRUE
    /\ Release([at EXCEPT ![g] = "call"])
    /\ UNCHANGED <<prog, enabled, st>>

\* main returns after the last call; the lease and permit are released.
Finish(g) ==
    /\ st[g] = "run" /\ pc[g] > Len(Program(prog))
    /\ st' = [st EXCEPT ![g] = "done"]
    /\ UNCHANGED <<prog, enabled, pc, at, free, waiters, db, failed>>

Next ==
    \E g \in Guests :
        Start(g) \/ Issue(g) \/ Timeout(g) \/ Command(g) \/ Finish(g)

\* Tokio polls every ready task and bb8 hands a dropped connection to the
\* first waiter; requests need not arrive, and a timeout need not fire.
Fairness ==
    \A g \in Guests : WF_vars(Issue(g)) /\ WF_vars(Command(g)) /\ WF_vars(Finish(g))

Spec == Init /\ [][Next]_vars /\ Fairness

-----------------------------------------------------------------------------
(* Properties *)

\* Scenario S3, for both demo guests: once no request is running, and no
\* host call of any request has failed, the guests have left nothing in
\* the backend: every demo key deleted and every demo row deleted, however
\* the requests, sharing NAMEs or with one NAME the updated form of another,
\* interleaved their calls.
CleanWhenQuiet ==
    (Running = {} /\ ~failed) =>
        /\ \A n \in Names : ~db.kv[n]
        /\ BagToSet(db.rows) = {}

RequestsComplete ==
    \A g \in Guests : st[g] = "run" ~> st[g] = "done"

=============================================================================
