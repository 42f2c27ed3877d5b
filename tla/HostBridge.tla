------------------------------ MODULE HostBridge ------------------------------
(***************************************************************************)
(* The host functions a guest imports (src/booster/src/redis.rs,           *)
(* src/booster/src/postgres.rs): bosbase_redis.redis_get, redis_set,       *)
(* redis_set_ex, redis_exists, redis_del and bosbase_postgres.pg_exec,     *)
(* pg_query.  Each reads its arguments from guest linear memory, calls the *)
(* adapter (RedisHost, PostgresHost), writes a result back, and reduces   *)
(* every outcome to one i32.                                               *)
(*                                                                         *)
(* Integers keep their width: the guest's i32 and the host's `as i32`      *)
(* conversions are computed modulo 2^Width, with Width standing for 32 at  *)
(* a scale TLC can enumerate, and guest memory holds at most 2^Width      *)
(* bytes, as a wasm32 memory holds at most 2^32.  Bytes are abstracted to  *)
(* lengths: a key is one of Keys, a stored value is its length, and        *)
(* whether key or SQL bytes are UTF-8 is an input.                         *)
(*                                                                         *)
(* The backends are the environment: an adapter may be disabled (no URL),  *)
(* and an enabled one may fail (pool timeout, network error); a failure    *)
(* may happen after Redis applied a write, so a failed SET may still have  *)
(* stored the value.                                                       *)
(***************************************************************************)
EXTENDS Integers, FiniteSets

CONSTANTS
    Width,        \* bit width of the guest ABI integers (32 in the code)
    MemSize,      \* size of the guest's exported memory in bytes
    Keys,         \* keys a guest may name
    Ptrs,         \* pointer arguments a guest may pass
    Lens,         \* length arguments a guest may pass
    Ttls,         \* ttl_s arguments of redis_set_ex
    PayloadLens,  \* lengths of pg_query JSON payloads the backend may produce
    RowCounts,    \* rows-affected counts pg_exec may report (u64)
    BackendFaults \* whether a backend command may fail (network, timeout)

I32Min == -(2^(Width - 1))
I32Max == 2^(Width - 1) - 1

ASSUME /\ Width \in Nat /\ Width >= 2
       /\ MemSize \in 0..2^Width
       /\ Ptrs \subseteq I32Min..I32Max /\ Lens \subseteq I32Min..I32Max
       /\ Ttls \subseteq Int
       /\ PayloadLens \subseteq 0..2^Width /\ RowCounts \subseteq Nat
       /\ BackendFaults \in BOOLEAN

\* Whether a call on an enabled adapter fails in the backend.
Faults == IF BackendFaults THEN BOOLEAN ELSE {FALSE}

\* `n as i32` for a usize n: keep the low Width bits, read them as signed.
AsI32(n) == LET m == n % 2^Width IN IF m > I32Max THEN m - 2^Width ELSE m

\* n.min(i32::MAX as u64) as i32
SatI32(n) == IF n > I32Max THEN I32Max ELSE n

Absent == -1                 \* a key that holds no value
Addr(p, n) == p..(p + n - 1)   \* the bytes [p, p + n)

\* read_guest_bytes: negative pointer or length, or a range past the end of
\* the exported memory, is an error (the module always exports "memory").
ReadOk(p, n) == p >= 0 /\ n >= 0 /\ p + n <= MemSize

\* A bounds check that admits one byte past the end of memory.
WriteOkOffByOne(p, n) == p >= 0 /\ p + n <= MemSize + 1

\* The outcomes of read_guest_bytes on the pointer and length arguments a
\* guest may pass: of a buffer of any length, and of one of length n.
ArgRead == {ReadOk(p, n) : p \in Ptrs, n \in Lens}
ArgReadOf(n) == {ReadOk(p, n) : p \in Ptrs}

\* write_guest_bytes of n bytes at p.
WriteOk(p, n) == p >= 0 /\ p + n <= MemSize

VARIABLES
    kv,         \* the Redis keyspace: key -> length of its value, or Absent
    redisOn,    \* RedisHost.pool is Some
    pgOn,       \* PostgresHost.pool is Some
    last        \* the last host call: function, inputs, return, bytes written

vars == <<kv, redisOn, pgOn, last>>

Fns == {"none", "other", "redis_get", "redis_set", "redis_set_ex", "redis_exists",
        "redis_del", "pg_exec", "pg_query"}

\* The record of a host call: the key it named (none for Postgres), the
\* output buffer it was given (out_ptr, out_len), the length of the payload
\* (the value a SET sent, or what GET or the query produced; -1 when there
\* was none), the i32 it returned, and the guest bytes it wrote.
Call(fn, ks, optr, olen, payload, ret, wrote) ==
    [fn |-> fn, keys |-> ks, optr |-> optr, olen |-> olen,
     payload |-> payload, ret |-> ret, wrote |-> wrote]

NoCall == Call("none", {}, 0, 0, -1, 0, {})

\* A size check with >= for >: an exact fit is refused.
CopyOutOffByOne(fn, ks, optr, olen, n, tooSmall, argErr) ==
    IF AsI32(n) >= olen THEN Call(fn, ks, optr, olen, n, tooSmall, {})
    ELSE IF ~WriteOk(optr, n) THEN Call(fn, ks, optr, olen, n, argErr, {})
    ELSE Call(fn, ks, optr, olen, n, AsI32(n), Addr(optr, n))

\* Copying a payload of n bytes to (optr, olen), shared by redis_get and
\* pg_query once the backend answered: the size check on the i32 cast, the
\* write, and the i32 cast of the length returned.
CopyOut(fn, ks, optr, olen, n, tooSmall, argErr) ==
    IF AsI32(n) > olen THEN Call(fn, ks, optr, olen, n, tooSmall, {})
    ELSE IF ~WriteOk(optr, n) THEN Call(fn, ks, optr, olen, n, argErr, {})
    ELSE Call(fn, ks, optr, olen, n, AsI32(n), Addr(optr, n))

-----------------------------------------------------------------------------
Init ==
    /\ kv = [k \in Keys |-> Absent]
    /\ redisOn \in BOOLEAN
    /\ pgOn \in BOOLEAN
    /\ last = NoCall

\* redis_get(k_ptr, k_len, out_ptr, out_len)
RedisGet ==
    \E keyRead \in ArgRead, op \in Ptrs, ol \in Lens, k \in Keys,
      utf8 \in BOOLEAN, fail \in Faults :
        /\ last' =
             IF ol < 0 \/ ~keyRead \/ ~utf8
                THEN Call("redis_get", {k}, op, ol, -1, -3, {})
             ELSE IF ~redisOn \/ fail THEN Call("redis_get", {k}, op, ol, -1, -4, {})
             ELSE IF kv[k] = Absent THEN Call("redis_get", {k}, op, ol, -1, -1, {})
             ELSE CopyOut("redis_get", {k}, op, ol, kv[k], -2, -3)
        /\ UNCHANGED <<kv, redisOn, pgOn>>

\* The SET of redis_set and redis_set_ex once the arguments are read: the
\* command may fail before Redis applies it, or after (the reply is lost).
SetValue(fn, k, n) ==
    \/ /\ redisOn
       /\ last' = Call(fn, {k}, 0, 0, n, 0, {})
       /\ kv' = [kv EXCEPT ![k] = n]
    \/ /\ redisOn /\ BackendFaults
       /\ last' = Call(fn, {k}, 0, 0, n, -1, {})
       /\ kv' \in {kv, [kv EXCEPT ![k] = n]}
    \/ /\ ~redisOn
       /\ last' = Call(fn, {k}, 0, 0, n, -1, {})
       /\ UNCHANGED kv

\* redis_set(k_ptr, k_len, v_ptr, v_len)
RedisSet ==
    \E vl \in Lens : \E keyRead \in ArgRead, valRead \in ArgReadOf(vl), k \in Keys,
                       utf8 \in BOOLEAN :
        /\ IF keyRead /\ valRead /\ utf8
              THEN SetValue("redis_set", k, vl)
              ELSE last' = Call("redis_set", {k}, 0, 0, -1, -2, {}) /\ UNCHANGED kv
        /\ UNCHANGED <<redisOn, pgOn>>

\* redis_set_ex(k_ptr, k_len, v_ptr, v_len, ttl_s): ttl_s is checked first.
\* A ttl_s of 0 passes that check, but Redis refuses SETEX with an expire
\* time of 0, so the call stores nothing and returns -1.  The expiry itself
\* is not modelled: a key set with a TTL is one that another client may
\* delete at any time, see OtherClient.
RedisSetEx ==
    \E vl \in Lens : \E keyRead \in ArgRead, valRead \in ArgReadOf(vl), ttl \in Ttls,
                       k \in Keys, utf8 \in BOOLEAN :
        /\ IF ttl >= 0 /\ keyRead /\ valRead /\ utf8
              THEN IF ttl > 0
                      THEN SetValue("redis_set_ex", k, vl)
                      ELSE last' = Call("redis_set_ex", {k}, 0, 0, -1, -1, {})
                           /\ UNCHANGED kv
              ELSE last' = Call("redis_set_ex", {k}, 0, 0, -1, -2, {}) /\ UNCHANGED kv
        /\ UNCHANGED <<redisOn, pgOn>>

\* redis_exists(k_ptr, k_len)
RedisExists ==
    \E keyRead \in ArgRead, k \in Keys, utf8 \in BOOLEAN, fail \in Faults :
        /\ last' = Call("redis_exists", {k}, 0, 0, -1,
                        IF ~keyRead \/ ~utf8 \/ ~redisOn \/ fail THEN -1
                        ELSE IF kv[k] = Absent THEN 0 ELSE 1, {})
        /\ UNCHANGED <<kv, redisOn, pgOn>>

\* redis_del(k_ptr, k_len): DEL of one key removes 0 or 1 keys; a failure
\* may come before or after Redis applied it.
RedisDel ==
    \E keyRead \in ArgRead, k \in Keys, utf8 \in BOOLEAN :
        /\ IF keyRead /\ utf8
              THEN \/ /\ redisOn
                      /\ last' = Call("redis_del", {k}, 0, 0, -1,
                                      SatI32(IF kv[k] = Absent THEN 0 ELSE 1), {})
                      /\ kv' = [kv EXCEPT ![k] = Absent]
                   \/ /\ redisOn /\ BackendFaults
                      /\ last' = Call("redis_del", {k}, 0, 0, -1, -1, {})
                      /\ kv' \in {kv, [kv EXCEPT ![k] = Absent]}
                   \/ /\ ~redisOn
                      /\ last' = Call("redis_del", {k}, 0, 0, -1, -1, {})
                      /\ UNCHANGED kv
              ELSE /\ last' = Call("redis_del", {k}, 0, 0, -1, -1, {})
                   /\ UNCHANGED kv
        /\ UNCHANGED <<redisOn, pgOn>>

\* pg_exec(sql_ptr, sql_len)
PgExec ==
    \E sqlRead \in ArgRead, rows \in RowCounts, utf8 \in BOOLEAN, fail \in Faults :
        /\ last' = Call("pg_exec", {}, 0, 0, -1,
                        IF ~sqlRead \/ ~utf8 THEN -2
                        ELSE IF ~pgOn \/ fail THEN -1
                        ELSE SatI32(rows), {})
        /\ UNCHANGED <<kv, redisOn, pgOn>>

\* pg_query(sql_ptr, sql_len, out_ptr, out_len): rows are serialised with
\* serde_json::to_vec; a query or serialisation failure is -1.
PgQuery ==
    \E sqlRead \in ArgRead, op \in Ptrs, ol \in Lens, n \in PayloadLens,
      utf8 \in BOOLEAN, fail \in Faults :
        /\ last' =
             IF ol < 0 \/ ~sqlRead \/ ~utf8
                THEN Call("pg_query", {}, op, ol, -1, -3, {})
             ELSE IF ~pgOn \/ fail THEN Call("pg_query", {}, op, ol, -1, -1, {})
             ELSE CopyOut("pg_query", {}, op, ol, n, -2, -3)
        /\ UNCHANGED <<kv, redisOn, pgOn>>

\* Other requests' guests share the keyspace, and keys set with a TTL expire.
OtherClient ==
    \E k \in Keys, n \in {Absent} \cup {l \in Lens : l >= 0} :
        /\ kv' = [kv EXCEPT ![k] = n]
        /\ last' = Call("other", {k}, 0, 0, n, 0, {})
        /\ UNCHANGED <<redisOn, pgOn>>

\* Every step is one call on the keyspace or the database.
Next ==
    \/ RedisGet \/ RedisSet \/ RedisSetEx \/ RedisExists \/ RedisDel
    \/ PgExec \/ PgQuery \/ OtherClient

Spec == Init /\ [][Next]_vars

-----------------------------------------------------------------------------
(* Properties *)

TypeOK ==
    /\ kv \in [Keys -> {Absent} \cup Nat]
    /\ redisOn \in BOOLEAN /\ pgOn \in BOOLEAN
    /\ last.fn \in Fns /\ last.ret \in I32Min..I32Max
    /\ last.wrote \subseteq 0..(MemSize - 1)

\* The return codes spec section 4.3 documents for each host function.
NonNeg == 0..I32Max
Documented ==
    [f \in Fns |->
        CASE f = "redis_get"    -> {-1, -2, -3, -4} \cup NonNeg
          [] f = "redis_set"    -> {0, -1, -2}
          [] f = "redis_set_ex" -> {0, -1, -2}
          [] f = "redis_exists" -> {1, 0, -1}
          [] f = "redis_del"    -> {-1} \cup NonNeg
          [] f = "pg_exec"      -> {-1, -2} \cup NonNeg
          [] f = "pg_query"     -> {-1, -2, -3} \cup NonNeg
          [] f \in {"none", "other"} -> {0}]

\* The guest ABI contract of spec section 4.3 and the boundary behaviours of
\* section 8: every host call returns one of its documented codes; redis_get
\* and pg_query write guest memory only when they return a byte count n >= 0,
\* write exactly the n bytes of the payload at out_ptr, never write past
\* out_ptr + out_len, and return -2 exactly when the payload is longer than
\* out_len.
HostCallContract ==
    /\ last.ret \in Documented[last.fn]
    /\ last.fn \in {"redis_get", "pg_query"} =>
         /\ last.wrote \subseteq Addr(last.optr, last.olen)
         /\ last.ret >= 0 => /\ last.ret = last.payload
                             /\ last.wrote = Addr(last.optr, last.payload)
         /\ last.ret < 0 => last.wrote = {}
         /\ (last.ret = -2) <=> (last.payload >= 0 /\ last.payload > last.olen)

\* Spec section 4.3: redis_set_ex "as set; -2 if ttl_s is negative".  With
\* a backend that does not fail and an enabled adapter, a redis_set_ex
\* whose arguments are accepted (it does not return -2) returns 0, as
\* redis_set does.  The code passes ttl_s = 0 on to SETEX, which Redis
\* refuses.
SetExAsSet ==
    (~BackendFaults /\ redisOn /\ last.fn = "redis_set_ex" /\ last.ret # -2)
        => last.ret = 0

=============================================================================
